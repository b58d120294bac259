------------------------------ MODULE Backoffice ------------------------------
(***************************************************************************)
(* The registers of one company behind the REST API: categories, suppliers, *)
(* customers, products with their variants and recipes, supplies with their *)
(* cost history, purchases, costs, sales, the events written once, and the  *)
(* tags and notes of the CRM.                                               *)
(*                                                                          *)
(* A request reads the rows it depends on, decides, and writes; other       *)
(* requests may commit in between.  A request that is refused writes none   *)
(* of these rows and is no step.  "stale" marks a decision about a row that *)
(* was written since, "raced" the rows such a decision wrote.  A row is     *)
(* named by its local identity, which is unique in the company.             *)
(***************************************************************************)
EXTENDS Naturals, FiniteSets

CONSTANTS Categories, Suppliers, Customers, Products, Supplies, Purchases,
          Costs, Sales, Notes,
          Entries,            \* payments of fiado, cash events and financial events
          FinancialEvents,
          Skus, Tags, Contents,
          Workers, Budgets,   \* bounds for the model checker
          Nothing

Masters == Categories \cup Suppliers \cup Customers \cup Products \cup Supplies \cup Purchases
Referring == Products \cup Supplies \cup Purchases \cup Sales \cup Notes \cup Entries
Recipe(p) == <<"recipe", p>>
Recipes == {Recipe(p) : p \in Products}
Owners == Products \cup Recipes \cup Supplies \cup Purchases
Rows == Masters \cup Recipes \cup Costs \cup Sales \cup Notes \cup Entries
Kinds == {"master", "category", "product", "recipe", "supply", "purchase", "tags", "note",
          "cost", "sale", "entry"}
Items == Skus \cup Supplies \cup Products \cup Purchases \cup {Nothing}

ASSUME BackofficeAssumption ==
    /\ FinancialEvents \subseteq Entries
    /\ Nothing \notin Rows \cup Skus \cup Tags \cup Contents
    /\ Budgets \subseteq [Kinds -> Nat]

\* A row belongs to one table.
Tables == <<Categories, Suppliers, Customers, Products, Supplies, Purchases, Recipes, Costs, Sales,
            Notes, Entries>>
ASSUME TablesAssumption ==
    \A i, j \in DOMAIN Tables : i # j => Tables[i] \cap Tables[j] = {}

VARIABLES state,  \* of a register's row: none, live or deleted
          refers, \* the category of a product, the supplier of a supply or a purchase
          parts,  \* variants, recipe items, cost history, purchase items: by which save?
          tags,   \* the tags of a customer
          told,   \* and those the newest event of its timeline names
          cost,   \* its status and how often it was edited
          sale,   \* none, active or canceled
          entry,  \* the content of a stored entry
          noted,  \* the stored notes and tasks
          job,    \* the request of each worker
          saves,  \* numbers the saves
          removed, \* history: categories that were removed, and not saved since
          late,   \* history: stored with a reference to a row that was deleted already
          agreed, \* history: the contents that were answered as stored
          raced,  \* history: rows written from a stale decision
          budget  \* requests still to come

rows == <<state, refers, parts, tags, told, cost, sale, entry, noted>>
vars == <<rows, job, saves, removed, late, agreed, raced, budget>>

Statuses == {"pending", "paid", "canceled"}
Live(x) == x # Nothing => state[x] = "live"
Exists(x) == state[x] # "none"

\* What is stored has the form of its table; a purchase always has a supplier.
TypeOK ==
    /\ state \in [Masters -> {"none", "live", "deleted"}]
    /\ refers \in [Products \cup Supplies \cup Purchases -> Masters \cup {Nothing}]
    /\ \A u \in Purchases : refers[u] \in Suppliers <=> Exists(u)
    /\ \A x \in Owners : parts[x] \subseteq [of: Items, by: Nat]
    /\ tags \in [Customers -> SUBSET Tags] /\ told \in [Customers -> SUBSET Tags]
    /\ cost \in [Costs -> [status: Statuses \cup {"none"}, edits: Nat]]
    /\ sale \in [Sales -> {"none", "active", "canceled"}]
    /\ entry \in [Entries -> Contents \cup {Nothing}]
    /\ noted \subseteq Notes
    /\ \A w \in Workers : job[w] # Nothing => job[w].kind \in Kinds /\ job[w].row \in Rows
    /\ saves \in Nat
    /\ removed \subseteq Categories /\ late \subseteq Rows /\ raced \subseteq Rows
    /\ agreed \subseteq Entries \X Contents
    /\ budget \in [Kinds -> Nat]

Init ==
    /\ state = [x \in Masters |-> IF x \in Products \cup Purchases THEN "none" ELSE "live"]
    /\ refers = [x \in Products \cup Supplies \cup Purchases |-> Nothing]
    /\ parts = [x \in Owners |-> {}]
    /\ tags = [c \in Customers |-> {}] /\ told = tags
    /\ cost = [c \in Costs |-> [status |-> "none", edits |-> 0]]
    /\ sale = [s \in Sales |-> "none"]
    /\ entry = [e \in Entries |-> Nothing]
    /\ noted = {}
    /\ job = [w \in Workers |-> Nothing]
    /\ saves = 0
    /\ removed = {} /\ late = {} /\ agreed = {} /\ raced = {}
    /\ budget \in Budgets

------------------------------------------------------------------------------
Spend(kind) == budget[kind] > 0 /\ budget' = [budget EXCEPT ![kind] = @ - 1]

Blank(kind, row) ==
    [kind |-> kind, row |-> row, ref |-> Nothing, deleted |-> FALSE, mine |-> {}, seen |-> {},
     cleared |-> FALSE, told |-> {}, to |-> Nothing, by |-> saves, reads |-> {row},
     stale |-> FALSE]

Decides(w, decision) ==
    /\ job[w] = Nothing
    /\ Spend(decision.kind)
    /\ job' = [job EXCEPT ![w] = decision]
    /\ saves' = saves + 1
    /\ UNCHANGED <<rows, removed, late, agreed, raced>>

Deciding(w, kind) == job[w] # Nothing /\ job[w].kind = kind

\* The jobs once "written" was written: those that read any of it are stale.
Staled(written) ==
    [v \in Workers |-> IF job[v] # Nothing /\ job[v].reads \cap written # {}
                       THEN [job[v] EXCEPT !.stale = TRUE] ELSE job[v]]

Commits(w, written) ==
    /\ job' = [Staled(written) EXCEPT ![w] = Nothing]
    /\ raced' = IF job[w].stale THEN raced \cup written ELSE raced \ written
    /\ late' = IF written \subseteq Masters \cup Sales \cup Notes /\ job[w].ref # Nothing
                     /\ ~Live(job[w].ref)
               THEN late \cup written ELSE late \ written
    /\ UNCHANGED <<saves, removed, budget>>

\* A statement that was not preceded by a read of another row.
Writes(written) ==
    /\ job' = Staled(written)
    /\ removed' = removed \ written
    /\ UNCHANGED <<saves, late, agreed, raced>>

\* A unique key, a row that is gone, a timeout or the end of the server.
Aborts(w) ==
    /\ job[w] # Nothing
    /\ job' = [job EXCEPT ![w] = Nothing]
    /\ UNCHANGED <<rows, saves, removed, late, agreed, raced, budget>>

------------------------------------------------------------------------------
(***************************************************************************)
(* Categories, suppliers and customers.                                    *)
(***************************************************************************)

\* Creating a row that exists updates it, and either may delete it or bring it back.
Save(x) ==
    /\ Spend("master")
    /\ \E s \in {"live", "deleted"} : state' = [state EXCEPT ![x] = s]
    /\ Writes({x})
    /\ UNCHANGED <<refers, parts, tags, told, cost, sale, entry, noted>>

SaveCategory(c) == Save(c)
SaveSupplier(s) == Save(s)
SaveCustomer(c) == Save(c)

Remove(x) ==
    /\ Spend("master")
    /\ Exists(x)
    /\ state' = [state EXCEPT ![x] = "deleted"]
    /\ Writes({x})
    /\ UNCHANGED <<refers, parts, tags, told, cost, sale, entry, noted>>

RemoveSupplier(s) == Remove(s)
RemoveCustomer(c) == Remove(c)
RemoveSupply(s) == Remove(s)
RemoveProduct(p) == Remove(p)

\* The products of the category are found, and locked until they are released from it.
DecideRemoveCategory(w, c) ==
    /\ Exists(c)
    /\ Decides(w, [Blank("category", c) EXCEPT !.seen = {p \in Products : refers[p] = c}])

\* Mutant: the products keep the category.
CommitRemoveCategory_Kept(w) ==
    LET c == job[w].row IN
    /\ Deciding(w, "category")
    /\ state' = [state EXCEPT ![c] = "deleted"]
    /\ job' = [Staled({c}) EXCEPT ![w] = Nothing]
    /\ removed' = removed \cup {c}
    /\ UNCHANGED <<refers, parts, tags, told, cost, sale, entry, noted, saves, late, agreed, raced,
                   budget>>

CommitRemoveCategory(w) ==
    LET c == job[w].row
        missed == {p \in Products \ job[w].seen : refers[p] = c}
    IN
    /\ Deciding(w, "category")
    /\ state' = [state EXCEPT ![c] = "deleted"]
    /\ refers' = [x \in DOMAIN refers |-> IF x \in job[w].seen THEN Nothing ELSE refers[x]]
    /\ job' = [Staled({c} \cup job[w].seen) EXCEPT ![w] = Nothing]
    /\ removed' = removed \cup {c}
    /\ raced' = raced \cup missed
    /\ UNCHANGED <<parts, tags, told, cost, sale, entry, noted, saves, late, agreed, budget>>

\* A product found by the removal of a category waits for it.
Locked(p) == \E w \in Workers : Deciding(w, "category") /\ p \in job[w].seen

------------------------------------------------------------------------------
(***************************************************************************)
(* Products and recipes.                                                   *)
(***************************************************************************)
SkusOf(p) == {part.of : part \in parts[p]}

\* Mutant: the SKUs of the products that exist are not compared.
SkusFree_Never(p, skus, creating) == TRUE

\* Creating a product counts its own variants too: to send the creation again is refused.
SkusFree(p, skus, creating) ==
    \A q \in Products : q # p \/ creating => SkusOf(q) \cap skus = {}

ResolveCategoryId(category) == Live(category)

DecideProduct(w, p, category, skus, deleted) ==
    /\ ResolveCategoryId(category)
    /\ \E creating \in BOOLEAN : (creating \/ Exists(p)) /\ SkusFree(p, skus, creating)
    /\ Decides(w, [Blank("product", p) EXCEPT !.ref = category, !.deleted = deleted, !.mine = skus,
          !.reads = ({category} \ {Nothing}) \cup (IF skus = {} THEN {} ELSE Products \ {p})])

\* What a save puts in place of the parts it found.
Replaced(j, found) == (parts[j.row] \ found) \cup {[of |-> i, by |-> j.by] : i \in j.mine}

\* Mutant: the variants that exist are not deleted.
CommitProduct_Adds(w) ==
    LET j == job[w] IN
    /\ Deciding(w, "product") /\ ~Locked(j.row)
    /\ state' = [state EXCEPT ![j.row] = IF j.deleted THEN "deleted" ELSE "live"]
    /\ refers' = [refers EXCEPT ![j.row] = j.ref]
    /\ parts' = [parts EXCEPT ![j.row] = Replaced(j, {})]
    /\ Commits(w, {j.row})
    /\ UNCHANGED <<tags, told, cost, sale, entry, noted, agreed>>

\* The row is written first and locked: the variants of another save are all there, or none.
CommitProduct(w) ==
    LET j == job[w] IN
    /\ Deciding(w, "product") /\ ~Locked(j.row)
    /\ state' = [state EXCEPT ![j.row] = IF j.deleted THEN "deleted" ELSE "live"]
    /\ refers' = [refers EXCEPT ![j.row] = j.ref]
    /\ parts' = [parts EXCEPT ![j.row] = Replaced(j, parts[j.row])]
    /\ Commits(w, {j.row})
    /\ UNCHANGED <<tags, told, cost, sale, entry, noted, agreed>>

\* The supplies of a recipe may be deleted ones.
EnsureSuppliesBelongToCompany(supplies) == \A s \in supplies : Exists(s)

DecideRecipe(w, p, supplies) ==
    /\ Exists(p) /\ EnsureSuppliesBelongToCompany(supplies)
    /\ Decides(w, [Blank("recipe", Recipe(p)) EXCEPT !.mine = supplies])

\* The first statement of the transaction finds what it deletes.
Clear(w, kind) ==
    /\ Deciding(w, kind) /\ ~job[w].cleared
    /\ job' = [job EXCEPT ![w] = [@ EXCEPT !.seen = parts[job[w].row], !.cleared = TRUE]]
    /\ UNCHANGED <<rows, saves, removed, late, agreed, raced, budget>>

ClearRecipe(w) == Clear(w, "recipe")

\* No row is locked: what another save created in between stays.
CommitRecipe(w) ==
    /\ Deciding(w, "recipe") /\ job[w].cleared
    /\ parts' = [parts EXCEPT ![job[w].row] = Replaced(job[w], job[w].seen)]
    /\ Commits(w, {job[w].row})
    /\ UNCHANGED <<state, refers, tags, told, cost, sale, entry, noted, agreed>>

DeleteRecipe(p) ==
    /\ Spend("recipe")
    /\ Exists(p)
    /\ parts' = [parts EXCEPT ![Recipe(p)] = {}]
    /\ Writes({Recipe(p)})
    /\ UNCHANGED <<state, refers, tags, told, cost, sale, entry, noted>>

------------------------------------------------------------------------------
(***************************************************************************)
(* Supplies and purchases.                                                 *)
(***************************************************************************)

ResolveDefaultSupplierId(supplier) == Live(supplier)

DecideSupply(w, s, supplier, entries, deleted) ==
    /\ ResolveDefaultSupplierId(supplier)
    /\ Decides(w, [Blank("supply", s) EXCEPT !.ref = supplier, !.mine = entries,
          !.deleted = deleted, !.reads = {supplier} \ {Nothing}])

\* An entry of the history names a purchase where it can: an unknown one is left out.
ResolveOptionalPurchase(u) == IF u # Nothing /\ Exists(u) THEN u ELSE Nothing
ReplacedHistory(j) == {[of |-> ResolveOptionalPurchase(u), by |-> j.by] : u \in j.mine}

CommitSupply(w) ==
    LET j == job[w] IN
    /\ Deciding(w, "supply")
    /\ state' = [state EXCEPT ![j.row] = IF j.deleted THEN "deleted" ELSE "live"]
    /\ refers' = [refers EXCEPT ![j.row] = j.ref]
    /\ parts' = [parts EXCEPT ![j.row] = ReplacedHistory(j)]
    /\ Commits(w, {j.row})
    /\ UNCHANGED <<tags, told, cost, sale, entry, noted, agreed>>

\* Mutant: the supplier is not looked up.
DecidePurchase_Unresolved(w, u, supplier, items) ==
    Decides(w, [Blank("purchase", u) EXCEPT !.ref = supplier, !.mine = items,
          !.deleted = ~Exists(u), !.reads = {supplier, u}])

ResolveSupplierId(supplier) == Live(supplier)
ResolveItems(items) == \A i \in items : Live(i)

\* "deleted" says that there is no row yet: it is created, and the other creation refused.
DecidePurchase(w, u, supplier, items) ==
    /\ ResolveSupplierId(supplier) /\ ResolveItems(items)
    /\ Decides(w, [Blank("purchase", u) EXCEPT !.ref = supplier, !.mine = items,
          !.deleted = ~Exists(u), !.reads = {supplier, u}])

ClearPurchase(w) == Clear(w, "purchase")

\* The items are deleted before the row is locked.
CommitPurchase(w) ==
    LET j == job[w] IN
    /\ Deciding(w, "purchase") /\ j.cleared
    /\ j.deleted => ~Exists(j.row)
    /\ state' = [state EXCEPT ![j.row] = "live"]
    /\ refers' = [refers EXCEPT ![j.row] = j.ref]
    /\ parts' = [parts EXCEPT ![j.row] = Replaced(j, j.seen)]
    /\ Commits(w, {j.row})
    /\ UNCHANGED <<tags, told, cost, sale, entry, noted, agreed>>

------------------------------------------------------------------------------
(***************************************************************************)
(* The tags and notes of a customer.                                       *)
(***************************************************************************)
EnsureCustomerForCompany(c) == Live(c)

DecideTags(w, c, some, replace) ==
    /\ EnsureCustomerForCompany(c)
    /\ Decides(w, [Blank("tags", c) EXCEPT !.mine = some, !.deleted = replace])

\* Saving a tag locks it: requests that share one follow each other.
ClearTags(w) ==
    LET j == job[w] IN
    /\ Deciding(w, "tags") /\ ~j.cleared
    /\ \A v \in Workers \ {w} :
          Deciding(v, "tags") /\ job[v].cleared => job[v].mine \cap j.mine = {}
    /\ LET others == IF j.deleted THEN tags[j.row] \ j.mine ELSE {} IN
       job' = [job EXCEPT ![w] = [@ EXCEPT !.seen = others, !.cleared = TRUE,
                                    !.told = (tags[j.row] \ others) \cup j.mine]]
    /\ UNCHANGED <<rows, saves, removed, late, agreed, raced, budget>>

\* The event names the tags that the transaction saw.
CommitTags(w) ==
    LET j == job[w] IN
    /\ Deciding(w, "tags") /\ j.cleared
    /\ tags' = [tags EXCEPT ![j.row] = (@ \ j.seen) \cup j.mine]
    /\ told' = [told EXCEPT ![j.row] = j.told]
    /\ Commits(w, {j.row})
    /\ UNCHANGED <<state, refers, parts, cost, sale, entry, noted, agreed>>

DecideNote(w, n, c) ==
    /\ n \notin noted /\ EnsureCustomerForCompany(c)
    /\ Decides(w, [Blank("note", n) EXCEPT !.ref = c, !.reads = {c}])

DecideTask(w, n, c) == DecideNote(w, n, c)

CommitNote(w) ==
    /\ Deciding(w, "note")
    /\ noted' = noted \cup {job[w].row}
    /\ Commits(w, {job[w].row})
    /\ UNCHANGED <<state, refers, parts, tags, told, cost, sale, entry, agreed>>

------------------------------------------------------------------------------
(***************************************************************************)
(* Costs.                                                                  *)
(***************************************************************************)
CreateCost(c) ==
    /\ Spend("cost")
    /\ cost[c].status = "none"
    /\ cost' = [cost EXCEPT ![c].status = "pending"]
    /\ Writes({c})
    /\ UNCHANGED <<state, refers, parts, tags, told, sale, entry, noted>>

EditCost(w, c) ==
    /\ cost[c].status = "pending"
    /\ Decides(w, Blank("cost", c))

\* Mutant: a cost that was paid may be cancelled.
CancelCost_Paid(w, c) ==
    /\ cost[c].status \in {"pending", "paid"}
    /\ Decides(w, [Blank("cost", c) EXCEPT !.to = "canceled"])

\* Refused where it was paid, and already done where it was cancelled.
CancelCost(w, c) ==
    /\ cost[c].status = "pending"
    /\ Decides(w, [Blank("cost", c) EXCEPT !.to = "canceled"])

PayCost(w, c) ==
    /\ cost[c].status = "pending"
    /\ Decides(w, [Blank("cost", c) EXCEPT !.to = "paid"])

\* The update names the cost alone, not the status that was read.
CommitCost(w) ==
    LET j == job[w] IN
    /\ Deciding(w, "cost")
    /\ cost' = [cost EXCEPT ![j.row] =
          IF j.to = Nothing THEN [cost[j.row] EXCEPT !.edits = @ + 1]
                            ELSE [cost[j.row] EXCEPT !.status = j.to]]
    /\ Commits(w, {j.row})
    /\ UNCHANGED <<state, refers, parts, tags, told, sale, entry, noted, agreed>>

------------------------------------------------------------------------------
(***************************************************************************)
(* Sales, and what is written once.                                        *)
(***************************************************************************)
ResolveCustomerId(customer) == Live(customer)
ResolveProductId(product) == Live(product)

DecideSale(w, s, customer, product) ==
    /\ sale[s] = "none"
    /\ ResolveCustomerId(customer) /\ ResolveProductId(product)
    /\ Decides(w, [Blank("sale", s) EXCEPT !.ref = customer, !.reads = {customer} \ {Nothing}])

CommitSale(w) ==
    /\ Deciding(w, "sale")
    /\ sale[job[w].row] = "none"
    /\ sale' = [sale EXCEPT ![job[w].row] = "active"]
    /\ Commits(w, {job[w].row})
    /\ UNCHANGED <<state, refers, parts, tags, told, cost, entry, noted, agreed>>

CancelSale(s) ==
    /\ Spend("sale")
    /\ sale[s] = "active"
    /\ sale' = [sale EXCEPT ![s] = "canceled"]
    /\ Writes({s})
    /\ UNCHANGED <<state, refers, parts, tags, told, cost, entry, noted>>

\* A stored entry is the answer, whatever it holds.
AnswerEntry(e, content) ==
    /\ Spend("entry")
    /\ entry[e] # Nothing
    /\ agreed' = agreed \cup {<<e, content>>}
    /\ UNCHANGED <<rows, job, saves, removed, late, raced>>

\* Mutant: a financial event that differs is not refused.
AnswerFinancialEvent_Any(e, content) == AnswerEntry(e, content)

\* A financial event that differs from the stored one is refused.
Matches(e, content) == entry[e] = content
AnswerFinancialEvent(e, content) == Matches(e, content) /\ AnswerEntry(e, content)

\* A payment of fiado, or an event, names a sale that is stored, cancelled or not.
DecideEntry(w, e, s, content) ==
    /\ entry[e] = Nothing
    /\ s # Nothing => sale[s] # "none"
    /\ Decides(w, [Blank("entry", e) EXCEPT !.to = content])

DecideFiadoPayment(w, e, s, content) == s # Nothing /\ DecideEntry(w, e, s, content)
DecideCashEvent(w, e, content) == DecideEntry(w, e, Nothing, content)
DecideFinancialEvent(w, e, s, content) == DecideEntry(w, e, s, content)

CommitEntry(w) ==
    LET j == job[w] IN
    /\ Deciding(w, "entry")
    /\ entry[j.row] = Nothing
    /\ entry' = [entry EXCEPT ![j.row] = j.to]
    /\ agreed' = agreed \cup {<<j.row, j.to>>}
    /\ Commits(w, {j.row})
    /\ UNCHANGED <<state, refers, parts, tags, told, cost, sale, noted>>

------------------------------------------------------------------------------
Request(w) ==
    \/ \E c \in Categories : DecideRemoveCategory(w, c)
    \/ \E p \in Products, c \in Categories \cup {Nothing}, skus \in SUBSET Skus,
          d \in BOOLEAN : DecideProduct(w, p, c, skus, d)
    \/ \E p \in Products, some \in SUBSET Supplies : DecideRecipe(w, p, some)
    \/ \E s \in Supplies, x \in Suppliers \cup {Nothing},
          some \in SUBSET (Purchases \cup {Nothing}), d \in BOOLEAN : DecideSupply(w, s, x, some, d)
    \/ \E u \in Purchases, x \in Suppliers, some \in SUBSET (Products \cup Supplies) :
          DecidePurchase(w, u, x, some)
    \/ \E c \in Customers, some \in SUBSET Tags, replace \in BOOLEAN :
          DecideTags(w, c, some, replace)
    \/ \E n \in Notes, c \in Customers : DecideNote(w, n, c) \/ DecideTask(w, n, c)
    \/ \E c \in Costs : EditCost(w, c) \/ CancelCost(w, c) \/ PayCost(w, c)
    \/ \E s \in Sales, c \in Customers \cup {Nothing}, p \in Products \cup {Nothing} :
          DecideSale(w, s, c, p)
    \/ \E e \in FinancialEvents, s \in Sales \cup {Nothing}, content \in Contents :
          DecideFinancialEvent(w, e, s, content)
    \/ \E e \in Entries \ FinancialEvents, s \in Sales, content \in Contents :
          DecideFiadoPayment(w, e, s, content) \/ DecideCashEvent(w, e, content)

Proceed(w) ==
    \/ CommitRemoveCategory(w) \/ CommitProduct(w) \/ ClearRecipe(w) \/ CommitRecipe(w)
    \/ CommitSupply(w) \/ ClearPurchase(w) \/ CommitPurchase(w) \/ ClearTags(w) \/ CommitTags(w)
    \/ CommitNote(w) \/ CommitCost(w) \/ CommitSale(w) \/ CommitEntry(w)

Statement ==
    \/ \E c \in Categories : SaveCategory(c)
    \/ \E s \in Suppliers : SaveSupplier(s) \/ RemoveSupplier(s)
    \/ \E c \in Customers : SaveCustomer(c) \/ RemoveCustomer(c)
    \/ \E p \in Products : RemoveProduct(p) \/ DeleteRecipe(p)
    \/ \E s \in Supplies : RemoveSupply(s)
    \/ \E c \in Costs : CreateCost(c)
    \/ \E s \in Sales : CancelSale(s)
    \/ \E e \in FinancialEvents, content \in Contents : AnswerFinancialEvent(e, content)
    \/ \E e \in Entries \ FinancialEvents, content \in Contents : AnswerEntry(e, content)

Next == Statement \/ \E w \in Workers : Request(w) \/ Proceed(w) \/ Aborts(w)

Spec == Init /\ [][Next]_vars

------------------------------------------------------------------------------
(***************************************************************************)
(* What the registers promise.                                             *)
(***************************************************************************)

\* No two products of the company have a variant of one SKU, but where saves overlapped: no
\* unique key backs the comparison.
SkusAreDistinct ==
    \A p, q \in Products : p # q /\ SkusOf(p) \cap SkusOf(q) # {} => {p, q} \cap raced # {}

\* The variants, the recipe, the history and the items are those of one save, and the newest
\* event of the timeline names the tags that the customer has.  Products and supplies keep this
\* even where saves overlap.
SavesAreWhole ==
    /\ TypeOK
    /\ \A x \in Owners : Cardinality({part.by : part \in parts[x]}) <= 1
                        \/ x \in raced \ (Products \cup Supplies)
    /\ \A c \in Customers : told[c] = tags[c] \/ c \in raced

\* What is stored names rows that were there when it was stored, and no product keeps a category
\* that was removed, but where the decision overlapped the removal.
ReferencesHold ==
    /\ late \subseteq raced
    /\ \A p \in Products : refers[p] \in removed => p \in raced

\* A cost that was paid or cancelled, a cancelled sale and a stored entry stay as they are.
SettledStays ==
    [][/\ \A c \in Costs : cost[c].status \in {"paid", "canceled"} =>
             cost'[c] = cost[c] \/ c \in raced'
       /\ \A s \in Sales : sale[s] = "canceled" => sale'[s] = "canceled"
       /\ \A e \in Entries : entry[e] # Nothing => entry'[e] = entry[e]]_vars

\* A device that was told that its financial event is stored finds what it sent.
AgreedIsStored == \A a \in agreed : a[1] \in FinancialEvents => entry[a[1]] = a[2]

==============================================================================
