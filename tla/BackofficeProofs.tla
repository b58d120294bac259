--------------------------- MODULE BackofficeProofs ---------------------------
(***************************************************************************)
(* SKUs are distinct, saves are whole, references hold and what is settled  *)
(* stays, for any registers and any number of requests that overlap.        *)
(*                                                                          *)
(* The argument is that of a check that is not repeated: what a request     *)
(* decided still holds when it commits, unless a row it read was written    *)
(* since ("Fresh"); and a commit disturbs the row it writes alone.          *)
(***************************************************************************)
EXTENDS Backoffice, FiniteSetTheorems, TLAPS

(***************************************************************************)
(* Types.  What each kind of request carries, and which rows it has read.  *)
(***************************************************************************)
Parts == [of: Items, by: Nat]
Referrers == Products \cup Supplies \cup Purchases

Job == [kind: Kinds, row: Rows, ref: Masters \cup {Nothing}, deleted: BOOLEAN,
        mine: SUBSET (Items \cup Tags), seen: SUBSET (Products \cup Parts \cup Tags),
        cleared: BOOLEAN, told: SUBSET Tags, to: Contents \cup Statuses \cup {Nothing},
        by: Nat, reads: SUBSET Rows, stale: BOOLEAN]

Fits(j) ==
    /\ j.ref # Nothing => j.ref \in j.reads
    /\ j.kind \in {"category", "tags", "recipe", "cost", "entry"} => j.ref = Nothing
    /\ j.kind = "category" => j.row \in Categories /\ j.seen \subseteq Products
    /\ j.kind = "product" =>
          /\ j.row \in Products /\ j.mine \subseteq Skus /\ j.ref \in Categories \cup {Nothing}
          /\ j.mine # {} => Products \ {j.row} \subseteq j.reads
    /\ j.kind = "recipe" => j.row \in Recipes /\ j.mine \subseteq Items /\ j.row \in j.reads
    /\ j.kind = "supply" =>
          /\ j.row \in Supplies /\ j.mine \subseteq Items
          /\ j.ref \in Suppliers \cup {Nothing}
    /\ j.kind = "purchase" =>
          /\ j.row \in Purchases /\ j.mine \subseteq Items /\ j.row \in j.reads
          /\ j.ref \in Suppliers
    /\ j.kind = "tags" => j.row \in Customers /\ j.mine \subseteq Tags /\ j.row \in j.reads
    /\ j.kind = "note" => j.row \in Notes
    /\ j.kind = "cost" =>
          j.row \in Costs /\ j.row \in j.reads /\ j.to \in Statuses \cup {Nothing}
    /\ j.kind = "sale" => j.row \in Sales
    /\ j.kind = "entry" => j.row \in Entries /\ j.to \in Contents
    /\ j.kind # "master"

RowsOK ==
    /\ state \in [Masters -> {"none", "live", "deleted"}]
    /\ refers \in [Referrers -> Masters \cup {Nothing}]
    /\ \A u \in Purchases : refers[u] \in Suppliers <=> Exists(u)
    /\ parts \in [Owners -> SUBSET Parts]
    /\ tags \in [Customers -> SUBSET Tags] /\ told \in [Customers -> SUBSET Tags]
    /\ cost \in [Costs -> [status: Statuses \cup {"none"}, edits: Nat]]
    /\ sale \in [Sales -> {"none", "active", "canceled"}]
    /\ entry \in [Entries -> Contents \cup {Nothing}]
    /\ noted \subseteq Notes

JobsOK ==
    /\ job \in [Workers -> Job \cup {Nothing}]
    /\ \A w \in Workers : job[w] # Nothing => Fits(job[w])

RecordsOK ==
    /\ saves \in Nat
    /\ removed \subseteq Categories /\ late \subseteq Rows /\ raced \subseteq Rows
    /\ agreed \subseteq Entries \X Contents

BudgetOK == budget \in [Kinds -> Nat]

Typed == RowsOK /\ JobsOK /\ RecordsOK /\ BudgetOK

LEMMA TypedIsTypeOK == ASSUME Typed PROVE TypeOK
<1>1. ASSUME NEW w \in Workers, job[w] # Nothing
      PROVE  job[w].kind \in Kinds /\ job[w].row \in Rows
  <2>1. job[w] \in Job
    BY <1>1 DEF Typed, JobsOK
  <2> QED
    BY <2>1 DEF Job
<1>2. \A x \in Owners : parts[x] \subseteq [of: Items, by: Nat]
  BY DEF Typed, RowsOK, Parts
<1> QED
  BY <1>1, <1>2 DEF TypeOK, Typed, RowsOK, RecordsOK, BudgetOK, Referrers

(* A row belongs to one table.                                             *)
LEMMA TablesApart ==
    /\ Categories \cap (Suppliers \cup Customers \cup Products \cup Supplies \cup Purchases
          \cup Recipes \cup Costs \cup Sales \cup Notes \cup Entries) = {}
    /\ Customers \cap (Categories \cup Suppliers \cup Products \cup Supplies \cup Purchases
          \cup Recipes \cup Costs \cup Sales \cup Notes \cup Entries) = {}
    /\ Products \cap (Categories \cup Suppliers \cup Customers \cup Supplies \cup Purchases
          \cup Recipes \cup Costs \cup Sales \cup Notes \cup Entries) = {}
    /\ Supplies \cap (Categories \cup Suppliers \cup Customers \cup Products \cup Purchases
          \cup Recipes \cup Costs \cup Sales \cup Notes \cup Entries) = {}
    /\ Purchases \cap (Categories \cup Suppliers \cup Customers \cup Products \cup Supplies
          \cup Recipes \cup Costs \cup Sales \cup Notes \cup Entries) = {}
    /\ Recipes \cap (Categories \cup Suppliers \cup Customers \cup Products \cup Supplies
          \cup Purchases \cup Costs \cup Sales \cup Notes \cup Entries) = {}
<1>1. /\ DOMAIN Tables = 1 .. 11
      /\ Tables[1] = Categories /\ Tables[2] = Suppliers /\ Tables[3] = Customers
      /\ Tables[4] = Products /\ Tables[5] = Supplies /\ Tables[6] = Purchases
      /\ Tables[7] = Recipes /\ Tables[8] = Costs /\ Tables[9] = Sales
      /\ Tables[10] = Notes /\ Tables[11] = Entries
  BY DEF Tables
<1>2. \A i, j \in 1 .. 11 : i # j => Tables[i] \cap Tables[j] = {}
  BY <1>1, TablesAssumption
<1> QED
  BY <1>1, <1>2

(* The tables a row of a register may be in, as the model's unions say it. *)
LEMMA Unions ==
    /\ Categories \cup Suppliers \cup Customers \cup Products \cup Supplies \cup Purchases
          \subseteq Masters
    /\ Products \cup Recipes \cup Supplies \cup Purchases \subseteq Owners
    /\ Masters \cup Recipes \cup Costs \cup Sales \cup Notes \cup Entries \subseteq Rows
    /\ Nothing \notin Rows
BY BackofficeAssumption DEF Masters, Owners, Rows

(***************************************************************************)
(* What a request relies on when it commits, unless it is stale.           *)
(***************************************************************************)
Holds(j) ==
    /\ j.ref # Nothing => Live(j.ref)
    /\ j.kind = "product" => \A q \in Products \ {j.row} : SkusOf(q) \cap j.mine = {}
    /\ j.kind \in {"recipe", "purchase"} /\ j.cleared => j.seen = parts[j.row]
    /\ j.kind = "tags" /\ j.cleared => j.told = (tags[j.row] \ j.seen) \cup j.mine
    /\ j.kind = "cost" => cost[j.row].status = "pending"

Fresh == \A v \in Workers : job[v] # Nothing /\ ~job[v].stale => Holds(job[v])

(***************************************************************************)
(* How the rows are kept by decisions that hold.                           *)
(***************************************************************************)
Whole(x) == \E save \in Nat : \A part \in parts[x] : part.by = save

PartsWhole ==
    /\ \A x \in Products \cup Supplies : Whole(x)
    /\ \A x \in Recipes \cup Purchases : Whole(x) \/ x \in raced
TagsTold == \A c \in Customers : told[c] = tags[c] \/ c \in raced
RemovedDeleted == \A c \in removed : state[c] # "live"

Kept ==
    /\ SkusAreDistinct /\ PartsWhole /\ TagsTold
    /\ RemovedDeleted /\ ReferencesHold
    /\ AgreedIsStored

IInv == Typed /\ Fresh /\ Kept

LEMMA Initially == ASSUME Init PROVE IInv
<1>1. RowsOK
  <2>1. state \in [Masters -> {"none", "live", "deleted"}]
    BY DEF Init
  <2>2. \A u \in Purchases : refers[u] = Nothing /\ state[u] = "none"
    BY Unions DEF Init
  <2>3. Nothing \notin Suppliers
    BY Unions
  <2>4. \A u \in Purchases : refers[u] \in Suppliers <=> Exists(u)
    BY <2>2, <2>3 DEF Exists
  <2>5. cost \in [Costs -> [status: Statuses \cup {"none"}, edits: Nat]]
    BY DEF Init
  <2> QED
    BY <2>1, <2>4, <2>5 DEF RowsOK, Init, Referrers
<1>2. JobsOK /\ RecordsOK /\ BudgetOK
  BY BackofficeAssumption DEF Init, JobsOK, RecordsOK, BudgetOK
<1>3. Fresh
  BY DEF Fresh, Init
<1>4. ASSUME NEW x \in Owners PROVE Whole(x) /\ parts[x] = {}
  <2>1. parts[x] = {}
    BY DEF Init
  <2>2. 0 \in Nat
    OBVIOUS
  <2> QED
    BY <2>1, <2>2 DEF Whole
<1>5. SkusAreDistinct /\ PartsWhole
  BY <1>4, Unions DEF SkusAreDistinct, SkusOf, PartsWhole
<1>6. TagsTold /\ RemovedDeleted /\ ReferencesHold /\ AgreedIsStored
  BY DEF Init, TagsTold, RemovedDeleted, ReferencesHold, AgreedIsStored
<1> QED
  BY <1>1, <1>2, <1>3, <1>5, <1>6 DEF IInv, Typed, Kept

(***************************************************************************)
(* How a step that writes changes the requests under way: it takes away    *)
(* none but its own, and one that is not stale afterwards has read nothing  *)
(* that was written.                                                       *)
(***************************************************************************)
Marked(j) == [j EXCEPT !.stale = TRUE]

LEMMA MarkedFits ==
    ASSUME NEW j \in Job, Fits(j)
    PROVE  Marked(j) \in Job /\ Fits(Marked(j)) /\ Marked(j).stale
<1>1. Marked(j) \in Job
  BY DEF Job, Marked
<1>2. /\ Marked(j).kind = j.kind /\ Marked(j).row = j.row /\ Marked(j).ref = j.ref
      /\ Marked(j).mine = j.mine /\ Marked(j).seen = j.seen /\ Marked(j).to = j.to
      /\ Marked(j).reads = j.reads /\ Marked(j).stale
  BY DEF Job, Marked
<1> QED
  BY <1>1, <1>2 DEF Fits

Spared(v, written) ==
    /\ job[v] # Nothing /\ ~job[v].stale
    /\ job'[v] = job[v] /\ job[v].reads \cap written = {}

Moved(written) == \A v \in Workers : job'[v] # Nothing /\ ~job'[v].stale => Spared(v, written)

LEMMA StaledJobs ==
    ASSUME Typed, NEW written,
           job' = Staled(written) \/ \E w \in Workers : job' = [Staled(written) EXCEPT ![w] = Nothing]
    PROVE  JobsOK' /\ Moved(written)
<1> DEFINE touched(v) == job[v] # Nothing /\ job[v].reads \cap written # {}
<1>1. Staled(written) = [v \in Workers |-> IF touched(v) THEN Marked(job[v]) ELSE job[v]]
  BY DEF Staled, Marked
<1>2. ASSUME NEW v \in Workers
      PROVE  /\ job[v] \in Job \cup {Nothing}
             /\ job[v] # Nothing => job[v] \in Job /\ Fits(job[v])
  BY DEF Typed, JobsOK
<1>3. ASSUME NEW v \in Workers, touched(v)
      PROVE  Marked(job[v]) \in Job /\ Fits(Marked(job[v])) /\ Marked(job[v]).stale
  BY <1>2, <1>3, MarkedFits
<1>4. \A v \in Workers : Staled(written)[v] = IF touched(v) THEN Marked(job[v]) ELSE job[v]
  BY <1>1
<1> HIDE DEF touched
<1>5. Staled(written) \in [Workers -> Job \cup {Nothing}]
  BY <1>1, <1>2, <1>3
<1>6. job' \in [Workers -> Job \cup {Nothing}]
  BY <1>5
<1>7. ASSUME NEW v \in Workers, job'[v] # Nothing
      PROVE  Fits(job'[v]) /\ (~job'[v].stale => Spared(v, written))
  <2>1. job'[v] = Staled(written)[v]
    BY <1>5, <1>7
  <2>2. CASE touched(v)
    BY <1>3, <1>4, <2>1, <2>2
  <2>3. CASE ~touched(v)
    <3>1. job'[v] = job[v]
      BY <1>4, <2>1, <2>3
    <3> QED
      BY <3>1, <1>2, <1>7, <2>3 DEF touched, Spared
  <2> QED
    BY <2>2, <2>3
<1>8. JobsOK'
  BY <1>6, <1>7 DEF JobsOK
<1> QED
  BY <1>7, <1>8 DEF Moved

(* A request that is spared relies on rows that nobody wrote.              *)
OnlyWritten(written) ==
    /\ \A x \in Masters \ written : state'[x] = state[x]
    /\ \A x \in Owners \ written : parts'[x] = parts[x]
    /\ \A c \in Customers \ written : tags'[c] = tags[c]
    /\ \A c \in Costs \ written : cost'[c] = cost[c]

LEMMA HoldsStill ==
    ASSUME Typed, NEW v \in Workers, NEW written, Spared(v, written), Holds(job[v]),
           OnlyWritten(written)
    PROVE  Holds(job[v])'
<1> DEFINE j == job[v]
<1>1. /\ j \in Job /\ Fits(j) /\ j.reads \cap written = {} /\ job'[v] = j
  BY DEF Typed, JobsOK, Spared
<1>2. j.ref # Nothing => j.ref \in Masters \ written
  BY <1>1 DEF Job, Fits
<1>3. j.ref # Nothing => Live(j.ref)'
  BY <1>1, <1>2 DEF OnlyWritten, Holds, Live
<1>4. ASSUME j.kind = "product", NEW q \in Products \ {j.row}
      PROVE  SkusOf(q)' \cap j.mine = {}
  <2>1. CASE j.mine = {}
    BY <2>1
  <2>2. CASE j.mine # {}
    <3>1. q \in Owners \ written
      BY <1>1, <1>4, <2>2, Unions DEF Fits
    <3> QED
      BY <1>4, <3>1 DEF OnlyWritten, Holds, SkusOf
  <2> QED
    BY <2>1, <2>2
<1>5. ASSUME j.kind \in {"recipe", "purchase"} PROVE parts'[j.row] = parts[j.row]
  <2>1. j.row \in Owners \ written
    BY <1>1, <1>5, Unions DEF Fits
  <2> QED
    BY <2>1 DEF OnlyWritten
<1>6. ASSUME j.kind = "tags" PROVE tags'[j.row] = tags[j.row]
  BY <1>1, <1>6 DEF Fits, OnlyWritten
<1>7. ASSUME j.kind = "cost" PROVE cost'[j.row] = cost[j.row]
  BY <1>1, <1>7 DEF Fits, OnlyWritten
<1> QED
  BY <1>1, <1>3, <1>4, <1>5, <1>6, <1>7 DEF Holds

LEMMA FreshAfter ==
    ASSUME Typed, Fresh, NEW written, Moved(written), OnlyWritten(written)
    PROVE  Fresh'
<1>1. SUFFICES ASSUME NEW v \in Workers, job'[v] # Nothing, ~job'[v].stale
               PROVE  Holds(job[v])'
  BY DEF Fresh
<1>2. Spared(v, written)
  BY <1>1 DEF Moved
<1>3. Holds(job[v])
  BY <1>2 DEF Fresh, Spared
<1> QED
  BY <1>2, <1>3, HoldsStill

(***************************************************************************)
(* Steps that write no row: a request decides, clears, or ends.            *)
(***************************************************************************)
LEMMA KeptSame ==
    ASSUME Kept, UNCHANGED <<rows, removed, late, agreed, raced>>
    PROVE  Kept'
BY DEF Kept, rows, SkusAreDistinct, SkusOf, PartsWhole, Whole, TagsTold, RemovedDeleted,
       ReferencesHold, AgreedIsStored

LEMMA HoldsSame ==
    ASSUME NEW j, Holds(j), UNCHANGED rows
    PROVE  Holds(j)'
BY DEF rows, Holds, Live, SkusOf

(* A step that changes the request of one worker, to one that holds.       *)
LEMMA JobKeeps ==
    ASSUME IInv, NEW w \in Workers, NEW j,
           j # Nothing => j \in Job /\ Fits(j) /\ (~j.stale => Holds(j)),
           j = Nothing \/ j \in Job,
           job' = [job EXCEPT ![w] = j], BudgetOK', saves' \in Nat,
           UNCHANGED <<rows, removed, late, agreed, raced>>
    PROVE  IInv'
<1>1. \A v \in Workers : job'[v] = IF v = w THEN j ELSE job[v]
  BY DEF IInv, Typed, JobsOK
<1>2. job' \in [Workers -> Job \cup {Nothing}]
  BY DEF IInv, Typed, JobsOK
<1>3. ASSUME NEW v \in Workers, job'[v] # Nothing
      PROVE  Fits(job'[v])
  <2>1. CASE v = w
    BY <1>1, <1>3, <2>1
  <2>2. CASE v # w
    BY <1>1, <1>3, <2>2 DEF IInv, Typed, JobsOK
  <2> QED
    BY <2>1, <2>2
<1>4. JobsOK'
  BY <1>2, <1>3 DEF JobsOK, Fits
<1>5. RowsOK' /\ RecordsOK'
  BY DEF IInv, Typed, RowsOK, RecordsOK, rows, Exists
<1>6. ASSUME NEW v \in Workers, job'[v] # Nothing, ~job'[v].stale
      PROVE  Holds(job[v])'
  <2>1. CASE v = w
    <3>1. job'[v] = j /\ Holds(j)
      BY <1>1, <1>6, <2>1
    <3> QED
      BY <3>1 DEF rows, Holds, Live, SkusOf
  <2>2. CASE v # w
    <3>1. job'[v] = job[v] /\ Holds(job[v])
      BY <1>1, <1>6, <2>2 DEF IInv, Fresh
    <3> QED
      BY <3>1 DEF rows, Holds, Live, SkusOf
  <2> QED
    BY <2>1, <2>2
<1>7. Fresh'
  BY <1>6 DEF Fresh
<1> QED
  BY <1>4, <1>5, <1>7, KeptSame DEF IInv, Typed

LEMMA DecisionKeeps ==
    ASSUME IInv, NEW w \in Workers, NEW decision \in Job, Fits(decision), Holds(decision),
           Decides(w, decision)
    PROVE  IInv'
<1>1. budget \in [Kinds -> Nat] /\ saves \in Nat /\ decision.kind \in Kinds
  BY DEF IInv, Typed, BudgetOK, RecordsOK, Job
<1>2. /\ budget[decision.kind] > 0 /\ budget' = [budget EXCEPT ![decision.kind] = @ - 1]
      /\ saves' = saves + 1
  BY DEF Decides, Spend
<1>3. BudgetOK' /\ saves' \in Nat
  BY <1>1, <1>2 DEF BudgetOK
<1>4. /\ job' = [job EXCEPT ![w] = decision]
      /\ UNCHANGED <<rows, removed, late, agreed, raced>>
  BY DEF Decides
<1> QED
  BY <1>3, <1>4, JobKeeps

LEMMA AbortKeeps == ASSUME IInv, NEW w \in Workers, Aborts(w) PROVE IInv'
<1>1. /\ job' = [job EXCEPT ![w] = Nothing]
      /\ UNCHANGED <<rows, saves, removed, late, agreed, raced, budget>>
  BY DEF Aborts
<1>2. BudgetOK' /\ saves' \in Nat
  BY <1>1 DEF IInv, Typed, BudgetOK, RecordsOK
<1> QED
  BY <1>1, <1>2, JobKeeps

(* The decision of a request, field by field.                              *)
Decision(kind, row, ref, deleted, mine, seen, to, reads) ==
    [kind |-> kind, row |-> row, ref |-> ref, deleted |-> deleted, mine |-> mine, seen |-> seen,
     cleared |-> FALSE, told |-> {}, to |-> to, by |-> saves, reads |-> reads, stale |-> FALSE]

LEMMA DecisionTyped ==
    ASSUME IInv, NEW kind \in Kinds, NEW row \in Rows, NEW ref \in Masters \cup {Nothing},
           NEW deleted \in BOOLEAN, NEW mine \in SUBSET (Items \cup Tags),
           NEW seen \in SUBSET Products, NEW to \in Contents \cup Statuses \cup {Nothing},
           NEW reads \in SUBSET Rows
    PROVE  Decision(kind, row, ref, deleted, mine, seen, to, reads) \in Job
<1>1. saves \in Nat
  BY DEF IInv, Typed, RecordsOK
<1>2. seen \in SUBSET (Products \cup Parts \cup Tags)
  OBVIOUS
<1> QED
  BY <1>1, <1>2 DEF Decision, Job

(***************************************************************************)
(* Each request decides what fits its kind, from rows it read.             *)
(***************************************************************************)
LEMMA RemoveCategoryKeeps ==
    ASSUME IInv, NEW w \in Workers, NEW c \in Categories, DecideRemoveCategory(w, c)
    PROVE  IInv'
<1> DEFINE found == {p \in Products : refers[p] = c}
           d == Decision("category", c, Nothing, FALSE, {}, found, Nothing, {c})
<1>1. Decides(w, [Blank("category", c) EXCEPT !.seen = found])
  BY DEF DecideRemoveCategory
<1>2. ASSUME NEW j, j = [Blank("category", c) EXCEPT !.seen = found]
      PROVE  j = d
  BY <1>2 DEF Blank, Decision
<1>3. Decides(w, d)
  BY <1>1, <1>2
<1>4. d \in Job
  BY DecisionTyped, Unions DEF Kinds
<1>5. Fits(d) /\ Holds(d)
  BY DEF Decision, Fits, Holds
<1> QED
  BY <1>3, <1>4, <1>5, DecisionKeeps

LEMMA ProductKeeps ==
    ASSUME IInv, NEW w \in Workers, NEW p \in Products, NEW c \in Categories \cup {Nothing},
           NEW skus \in SUBSET Skus, NEW deleted \in BOOLEAN,
           DecideProduct(w, p, c, skus, deleted)
    PROVE  IInv'
<1> DEFINE read == ({c} \ {Nothing}) \cup (IF skus = {} THEN {} ELSE Products \ {p})
           d == Decision("product", p, c, deleted, skus, {}, Nothing, read)
<1>1. /\ Live(c)
      /\ Decides(w, [Blank("product", p) EXCEPT !.ref = c, !.deleted = deleted, !.mine = skus,
                        !.reads = read])
  BY DEF DecideProduct, ResolveCategoryId
<1>2. ASSUME NEW j, j = [Blank("product", p) EXCEPT !.ref = c, !.deleted = deleted, !.mine = skus,
                                              !.reads = read]
      PROVE  j = d
  BY <1>2 DEF Blank, Decision
<1>3. Decides(w, d)
  BY <1>1, <1>2
<1>4. \A q \in Products \ {p} : SkusOf(q) \cap skus = {}
  BY DEF DecideProduct, SkusFree
<1>5. /\ read \in SUBSET Rows /\ (c # Nothing => c \in read)
      /\ skus # {} => Products \ {p} \subseteq read
  BY Unions
<1> HIDE DEF read
<1>6. d \in Job
  BY <1>5, DecisionTyped, Unions DEF Kinds, Items
<1>7. /\ d.kind = "product" /\ d.row = p /\ d.ref = c /\ d.mine = skus /\ d.reads = read
      /\ ~d.cleared
  BY DEF Decision
<1> HIDE DEF d
<1>8. Fits(d)
  BY <1>5, <1>7 DEF Fits
<1>9. Holds(d)
  BY <1>1, <1>4, <1>7 DEF Holds
<1> QED
  BY <1>3, <1>6, <1>8, <1>9, DecisionKeeps

LEMMA RecipeKeeps ==
    ASSUME IInv, NEW w \in Workers, NEW p \in Products, NEW some \in SUBSET Supplies,
           DecideRecipe(w, p, some)
    PROVE  IInv'
<1> DEFINE d == Decision("recipe", Recipe(p), Nothing, FALSE, some, {}, Nothing, {Recipe(p)})
<1>1. Decides(w, [Blank("recipe", Recipe(p)) EXCEPT !.mine = some])
  BY DEF DecideRecipe
<1>2. ASSUME NEW j, j = [Blank("recipe", Recipe(p)) EXCEPT !.mine = some]
      PROVE  j = d
  BY <1>2 DEF Blank, Decision
<1>3. Decides(w, d)
  BY <1>1, <1>2
<1>4. Recipe(p) \in Recipes
  BY DEF Recipes
<1>5. d \in Job
  BY <1>4, DecisionTyped, Unions DEF Kinds, Items
<1>6. Fits(d) /\ Holds(d)
  BY <1>4 DEF Decision, Fits, Holds, Items
<1> QED
  BY <1>3, <1>5, <1>6, DecisionKeeps

LEMMA SupplyKeeps ==
    ASSUME IInv, NEW w \in Workers, NEW s \in Supplies, NEW x \in Suppliers \cup {Nothing},
           NEW some \in SUBSET (Purchases \cup {Nothing}), NEW deleted \in BOOLEAN,
           DecideSupply(w, s, x, some, deleted)
    PROVE  IInv'
<1> DEFINE d == Decision("supply", s, x, deleted, some, {}, Nothing, {x} \ {Nothing})
<1>1. /\ Live(x)
      /\ Decides(w, [Blank("supply", s) EXCEPT !.ref = x, !.mine = some, !.deleted = deleted,
                        !.reads = {x} \ {Nothing}])
  BY DEF DecideSupply, ResolveDefaultSupplierId
<1>2. ASSUME NEW j, j = [Blank("supply", s) EXCEPT !.ref = x, !.mine = some, !.deleted = deleted,
                                              !.reads = {x} \ {Nothing}]
      PROVE  j = d
  BY <1>2 DEF Blank, Decision
<1>3. Decides(w, d)
  BY <1>1, <1>2
<1>4. d \in Job
  BY DecisionTyped, Unions DEF Kinds, Items
<1>5. /\ d.kind = "supply" /\ d.row = s /\ d.ref = x /\ d.mine = some
      /\ d.reads = {x} \ {Nothing} /\ ~d.cleared
  BY DEF Decision
<1> HIDE DEF d
<1>6. Fits(d)
  BY <1>5 DEF Fits, Items
<1>7. Holds(d)
  BY <1>1, <1>5 DEF Holds
<1> QED
  BY <1>3, <1>4, <1>6, <1>7, DecisionKeeps

LEMMA PurchaseKeeps ==
    ASSUME IInv, NEW w \in Workers, NEW u \in Purchases, NEW x \in Suppliers,
           NEW some \in SUBSET (Products \cup Supplies), DecidePurchase(w, u, x, some)
    PROVE  IInv'
<1> DEFINE new == ~Exists(u)
           d == Decision("purchase", u, x, new, some, {}, Nothing, {x, u})
<1>1. /\ Live(x)
      /\ Decides(w, [Blank("purchase", u) EXCEPT !.ref = x, !.mine = some, !.deleted = new,
                        !.reads = {x, u}])
  BY DEF DecidePurchase, ResolveSupplierId
<1>2. ASSUME NEW j, j = [Blank("purchase", u) EXCEPT !.ref = x, !.mine = some, !.deleted = new,
                                              !.reads = {x, u}]
      PROVE  j = d
  BY <1>2 DEF Blank, Decision
<1>3. Decides(w, d)
  BY <1>1, <1>2
<1>4. new \in BOOLEAN
  OBVIOUS
<1> HIDE DEF new
<1>5. d \in Job
  BY <1>4, DecisionTyped, Unions DEF Kinds, Items
<1>6. /\ d.kind = "purchase" /\ d.row = u /\ d.ref = x /\ d.mine = some /\ d.reads = {x, u}
      /\ ~d.cleared
  BY DEF Decision
<1> HIDE DEF d
<1>7. Fits(d)
  BY <1>6 DEF Fits, Items
<1>8. Holds(d)
  BY <1>1, <1>6 DEF Holds
<1> QED
  BY <1>3, <1>5, <1>7, <1>8, DecisionKeeps

LEMMA TagsKeeps ==
    ASSUME IInv, NEW w \in Workers, NEW c \in Customers, NEW some \in SUBSET Tags,
           NEW replace \in BOOLEAN, DecideTags(w, c, some, replace)
    PROVE  IInv'
<1> DEFINE d == Decision("tags", c, Nothing, replace, some, {}, Nothing, {c})
<1>1. Decides(w, [Blank("tags", c) EXCEPT !.mine = some, !.deleted = replace])
  BY DEF DecideTags
<1>2. ASSUME NEW j, j = [Blank("tags", c) EXCEPT !.mine = some, !.deleted = replace]
      PROVE  j = d
  BY <1>2 DEF Blank, Decision
<1>3. Decides(w, d)
  BY <1>1, <1>2
<1>4. d \in Job
  BY DecisionTyped, Unions DEF Kinds
<1>5. Fits(d) /\ Holds(d)
  BY DEF Decision, Fits, Holds
<1> QED
  BY <1>3, <1>4, <1>5, DecisionKeeps

LEMMA NoteKeeps ==
    ASSUME IInv, NEW w \in Workers, NEW n \in Notes, NEW c \in Customers, DecideNote(w, n, c)
    PROVE  IInv'
<1> DEFINE d == Decision("note", n, c, FALSE, {}, {}, Nothing, {c})
<1>1. Live(c) /\ Decides(w, [Blank("note", n) EXCEPT !.ref = c, !.reads = {c}])
  BY DEF DecideNote, EnsureCustomerForCompany
<1>2. ASSUME NEW j, j = [Blank("note", n) EXCEPT !.ref = c, !.reads = {c}]
      PROVE  j = d
  BY <1>2 DEF Blank, Decision
<1>3. Decides(w, d)
  BY <1>1, <1>2
<1>4. d \in Job
  BY DecisionTyped, Unions DEF Kinds
<1>5. Fits(d) /\ Holds(d)
  BY <1>1 DEF Decision, Fits, Holds
<1> QED
  BY <1>3, <1>4, <1>5, DecisionKeeps

LEMMA CostKeeps ==
    ASSUME IInv, NEW w \in Workers, NEW c \in Costs,
           EditCost(w, c) \/ CancelCost(w, c) \/ PayCost(w, c)
    PROVE  IInv'
<1> DEFINE d(to) == Decision("cost", c, Nothing, FALSE, {}, {}, to, {c})
<1>1. PICK to \in Statuses \cup {Nothing} : Decides(w, d(to))
  <2>1. /\ Blank("cost", c) = d(Nothing)
        /\ \A j, to : j = [Blank("cost", c) EXCEPT !.to = to] => j = d(to)
    BY DEF Blank, Decision
  <2> HIDE DEF d
  <2> QED
    BY <2>1 DEF EditCost, CancelCost, PayCost, Statuses
<1>2. cost[c].status = "pending"
  BY DEF EditCost, CancelCost, PayCost
<1>3. d(to) \in Job
  BY DecisionTyped, Unions DEF Kinds
<1>4. Fits(d(to)) /\ Holds(d(to))
  BY <1>2 DEF Decision, Fits, Holds
<1> HIDE DEF d
<1> QED
  BY <1>1, <1>3, <1>4, DecisionKeeps

LEMMA SaleKeeps ==
    ASSUME IInv, NEW w \in Workers, NEW s \in Sales, NEW c \in Customers \cup {Nothing},
           NEW p, DecideSale(w, s, c, p)
    PROVE  IInv'
<1> DEFINE d == Decision("sale", s, c, FALSE, {}, {}, Nothing, {c} \ {Nothing})
<1>1. /\ Live(c)
      /\ Decides(w, [Blank("sale", s) EXCEPT !.ref = c, !.reads = {c} \ {Nothing}])
  BY DEF DecideSale, ResolveCustomerId
<1>2. ASSUME NEW j, j = [Blank("sale", s) EXCEPT !.ref = c, !.reads = {c} \ {Nothing}]
      PROVE  j = d
  BY <1>2 DEF Blank, Decision
<1>3. Decides(w, d)
  BY <1>1, <1>2
<1>4. d \in Job
  BY DecisionTyped, Unions DEF Kinds
<1>5. Fits(d) /\ Holds(d)
  BY <1>1 DEF Decision, Fits, Holds
<1> QED
  BY <1>3, <1>4, <1>5, DecisionKeeps

LEMMA EntryKeeps ==
    ASSUME IInv, NEW w \in Workers, NEW e \in Entries, NEW s, NEW content \in Contents,
           DecideEntry(w, e, s, content)
    PROVE  IInv'
<1> DEFINE d == Decision("entry", e, Nothing, FALSE, {}, {}, content, {e})
<1>1. Decides(w, [Blank("entry", e) EXCEPT !.to = content])
  BY DEF DecideEntry
<1>2. ASSUME NEW j, j = [Blank("entry", e) EXCEPT !.to = content]
      PROVE  j = d
  BY <1>2 DEF Blank, Decision
<1>3. Decides(w, d)
  BY <1>1, <1>2
<1>4. d \in Job
  BY DecisionTyped, Unions DEF Kinds
<1>5. Fits(d) /\ Holds(d)
  BY DEF Decision, Fits, Holds
<1> QED
  BY <1>3, <1>4, <1>5, DecisionKeeps

(***************************************************************************)
(* The first statement of a transaction finds what it will replace.        *)
(***************************************************************************)
LEMMA ClearKeeps ==
    ASSUME IInv, NEW w \in Workers, NEW kind \in {"recipe", "purchase"}, Clear(w, kind)
    PROVE  IInv'
<1> DEFINE j == job[w]
           found == parts[j.row]
           new == [j EXCEPT !.seen = found, !.cleared = TRUE]
<1>1. /\ j \in Job /\ Fits(j) /\ j # Nothing /\ j.kind = kind /\ ~j.cleared
      /\ ~j.stale => Holds(j)
      /\ job' = [job EXCEPT ![w] = new]
      /\ UNCHANGED <<rows, saves, removed, late, agreed, raced, budget>>
  BY DEF IInv, Typed, JobsOK, Fresh, Clear, Deciding
<1>2. j.row \in Owners
  BY <1>1, Unions DEF Fits
<1>3. found \in SUBSET Parts
  BY <1>2 DEF IInv, Typed, RowsOK
<1>4. /\ new.kind = kind /\ new.row = j.row /\ new.ref = j.ref /\ new.mine = j.mine
      /\ new.reads = j.reads /\ new.to = j.to /\ new.stale = j.stale /\ new.seen = found
      /\ new \in Job
  BY <1>1, <1>3 DEF Job
<1>5. found = parts[new.row]
  BY <1>4
<1> HIDE DEF new, found
<1>6. Fits(new)
  BY <1>1, <1>4 DEF Fits
<1>7. ~new.stale => Holds(new)
  BY <1>1, <1>4, <1>5 DEF Holds
<1>8. BudgetOK' /\ saves' \in Nat
  BY <1>1 DEF IInv, Typed, BudgetOK, RecordsOK
<1> QED
  BY <1>1, <1>4, <1>6, <1>7, <1>8, JobKeeps

LEMMA ClearTagsKeeps ==
    ASSUME IInv, NEW w \in Workers, ClearTags(w)
    PROVE  IInv'
<1> DEFINE j == job[w]
           others == IF j.deleted THEN tags[j.row] \ j.mine ELSE {}
           names == (tags[j.row] \ others) \cup j.mine
           new == [j EXCEPT !.seen = others, !.cleared = TRUE, !.told = names]
<1>1. /\ j \in Job /\ Fits(j) /\ j # Nothing /\ j.kind = "tags" /\ ~j.cleared
      /\ ~j.stale => Holds(j)
      /\ job' = [job EXCEPT ![w] = new]
      /\ UNCHANGED <<rows, saves, removed, late, agreed, raced, budget>>
  BY DEF IInv, Typed, JobsOK, Fresh, ClearTags, Deciding
<1>2. j.row \in Customers /\ j.mine \subseteq Tags
  BY <1>1 DEF Fits
<1>3. tags[j.row] \subseteq Tags
  BY <1>2 DEF IInv, Typed, RowsOK
<1>4. others \in SUBSET (Products \cup Parts \cup Tags) /\ names \in SUBSET Tags
  BY <1>2, <1>3
<1>5. names = (tags[j.row] \ others) \cup j.mine
  OBVIOUS
<1> HIDE DEF others, names
<1>6. /\ new.kind = "tags" /\ new.row = j.row /\ new.ref = j.ref /\ new.mine = j.mine
      /\ new.reads = j.reads /\ new.to = j.to /\ new.stale = j.stale /\ new.seen = others
      /\ new.told = names
      /\ new \in Job
  BY <1>1, <1>4 DEF Job
<1> HIDE DEF new
<1>7. Fits(new)
  BY <1>1, <1>6 DEF Fits
<1>8. ~new.stale => Holds(new)
  BY <1>1, <1>5, <1>6 DEF Holds
<1>9. BudgetOK' /\ saves' \in Nat
  BY <1>1 DEF IInv, Typed, BudgetOK, RecordsOK
<1> QED
  BY <1>1, <1>6, <1>7, <1>8, <1>9, JobKeeps

(***************************************************************************)
(* A commit writes one row: the others keep what is promised of them, and  *)
(* "RowKept" says what the written row needs.                              *)
(***************************************************************************)
RowKept(row) ==
    /\ row \notin Categories
    /\ row \in Products \cup Supplies => Whole(row)
    /\ row \in Products /\ row \notin raced =>
          /\ refers[row] \notin removed
          /\ \A q \in Products \ {row} : SkusOf(q) \cap SkusOf(row) = {}
    /\ row \in Recipes \cup Purchases => Whole(row) \/ row \in raced
    /\ row \in Customers => told[row] = tags[row] \/ row \in raced

Elsewhere(row) ==
    /\ OnlyWritten({row})
    /\ \A x \in Referrers \ {row} : refers'[x] = refers[x]
    /\ \A c \in Customers \ {row} : told'[c] = told[c]

LEMMA CommitRecords ==
    ASSUME IInv, NEW w \in Workers, NEW row \in Rows, job[w] # Nothing, Commits(w, {row})
    PROVE  /\ JobsOK' /\ BudgetOK' /\ Moved({row})
           /\ saves' = saves /\ removed' = removed
           /\ raced \ {row} \subseteq raced' /\ raced' \subseteq Rows
           /\ job[w].stale => row \in raced'
           /\ late' \subseteq Rows /\ late' \subseteq raced'
<1>1. JobsOK' /\ Moved({row})
  BY StaledJobs DEF Commits, IInv
<1>2. BudgetOK' /\ saves' = saves /\ removed' = removed
  BY DEF Commits, IInv, Typed, BudgetOK
<1>3. late \subseteq raced /\ raced \subseteq Rows
  BY DEF IInv, Kept, ReferencesHold, Typed, RecordsOK
<1>4. CASE job[w].stale
  <2>1. raced' = raced \cup {row}
    BY <1>4 DEF Commits
  <2>2. late' \subseteq late \cup {row}
    BY DEF Commits
  <2> QED
    BY <1>1, <1>2, <1>3, <2>1, <2>2
<1>5. CASE ~job[w].stale
  <2>1. Holds(job[w])
    BY <1>5 DEF IInv, Fresh
  <2>2. ~(job[w].ref # Nothing /\ ~Live(job[w].ref))
    BY <2>1 DEF Holds
  <2>3. raced' = raced \ {row}
    BY <1>5 DEF Commits
  <2>4. late' = late \ {row}
    BY <2>2 DEF Commits
  <2> QED
    BY <1>1, <1>2, <1>3, <1>5, <2>3, <2>4
<1> QED
  BY <1>4, <1>5

LEMMA KeptElsewhere ==
    ASSUME IInv, NEW row \in Rows, Elsewhere(row), RowKept(row)', AgreedIsStored',
           raced \ {row} \subseteq raced', late' \subseteq raced', removed' = removed
    PROVE  Kept'
<1>1. \A x \in Owners \ {row} : parts'[x] = parts[x]
  BY DEF Elsewhere, OnlyWritten
<1>2. \A x \in Owners \ {row} : Whole(x) => Whole(x)'
  BY <1>1 DEF Whole
<1>3. \A x \in Products \ {row} : SkusOf(x)' = SkusOf(x)
  BY <1>1, Unions DEF SkusOf
<1>4. SkusAreDistinct'
  <2>1. ASSUME NEW p \in Products, NEW q \in Products, p # q, p # row,
               SkusOf(p)' \cap SkusOf(q)' # {}
        PROVE  {p, q} \cap raced' # {}
    <3>1. CASE q = row
      BY <2>1, <3>1 DEF RowKept
    <3>2. CASE q # row
      <4>1. SkusOf(p) \cap SkusOf(q) # {}
        BY <1>3, <2>1, <3>2
      <4>2. {p, q} \cap raced # {}
        BY <2>1, <4>1 DEF IInv, Kept, SkusAreDistinct
      <4> QED
        BY <2>1, <3>2, <4>2
    <3> QED
      BY <3>1, <3>2
  <2>2. ASSUME NEW q \in Products, row \in Products, q # row,
               SkusOf(row)' \cap SkusOf(q)' # {}
        PROVE  row \in raced'
    BY <2>2 DEF RowKept
  <2>3. ASSUME NEW p \in Products, NEW q \in Products, p # q,
               SkusOf(p)' \cap SkusOf(q)' # {}
        PROVE  {p, q} \cap raced' # {}
    <3>1. CASE p = row
      BY <2>2, <2>3, <3>1
    <3> QED
      BY <2>1, <2>3, <3>1
  <2> QED
    BY <2>3 DEF SkusAreDistinct, SkusOf
<1>5. PartsWhole'
  <2>1. ASSUME NEW x \in Products \cup Supplies PROVE Whole(x)'
    <3>1. CASE x = row
      BY <2>1, <3>1 DEF RowKept
    <3>2. CASE x # row
      BY <1>2, <3>2, Unions DEF IInv, Kept, PartsWhole
    <3> QED
      BY <3>1, <3>2
  <2>2. ASSUME NEW x \in Recipes \cup Purchases PROVE Whole(x)' \/ x \in raced'
    <3>1. CASE x = row
      BY <2>2, <3>1 DEF RowKept
    <3>2. CASE x # row
      BY <1>2, <3>2, Unions DEF IInv, Kept, PartsWhole
    <3> QED
      BY <3>1, <3>2
  <2> QED
    BY <2>1, <2>2 DEF PartsWhole
<1>6. TagsTold'
  <2>1. ASSUME NEW c \in Customers PROVE told'[c] = tags'[c] \/ c \in raced'
    <3>1. CASE c = row
      BY <2>1, <3>1 DEF RowKept
    <3>2. CASE c # row
      BY <3>2 DEF IInv, Kept, TagsTold, Elsewhere, OnlyWritten
    <3> QED
      BY <3>1, <3>2
  <2> QED
    BY <2>1 DEF TagsTold
<1>7. RemovedDeleted'
  <2>1. removed \subseteq Categories /\ row \notin Categories
    BY DEF IInv, Typed, RecordsOK, RowKept
  <2>2. \A c \in removed : state'[c] = state[c]
    BY <2>1, Unions DEF Elsewhere, OnlyWritten
  <2> QED
    BY <2>2 DEF RemovedDeleted, IInv, Kept
<1>8. ReferencesHold'
  <2>1. ASSUME NEW p \in Products, refers'[p] \in removed PROVE p \in raced'
    <3>1. CASE p = row
      BY <2>1, <3>1 DEF RowKept
    <3>2. CASE p # row
      BY <2>1, <3>2 DEF IInv, Kept, ReferencesHold, Elsewhere, Referrers
    <3> QED
      BY <3>1, <3>2
  <2> QED
    BY <2>1 DEF ReferencesHold
<1> QED
  BY <1>4, <1>5, <1>6, <1>7, <1>8 DEF Kept

LEMMA CommitKeeps ==
    ASSUME IInv, NEW w \in Workers, NEW row \in Rows, job[w] # Nothing, Commits(w, {row}),
           RowsOK', agreed' \subseteq Entries \X Contents, AgreedIsStored',
           Elsewhere(row), RowKept(row)'
    PROVE  IInv'
<1>1. /\ JobsOK' /\ BudgetOK' /\ Moved({row})
      /\ saves' = saves /\ removed' = removed
      /\ raced \ {row} \subseteq raced' /\ raced' \subseteq Rows
      /\ late' \subseteq Rows /\ late' \subseteq raced'
  BY CommitRecords
<1>2. RecordsOK'
  BY <1>1 DEF IInv, Typed, RecordsOK
<1>3. Fresh'
  BY <1>1, FreshAfter DEF IInv, Elsewhere
<1>4. Kept'
  BY <1>1, KeptElsewhere
<1> QED
  BY <1>1, <1>2, <1>3, <1>4 DEF IInv, Typed

(***************************************************************************)
(* Each commit keeps its row in order.                                     *)
(***************************************************************************)
LEMMA Committing ==
    ASSUME IInv, NEW w \in Workers, NEW kind, Deciding(w, kind)
    PROVE  /\ job[w] \in Job /\ Fits(job[w]) /\ job[w].kind = kind /\ job[w] # Nothing
           /\ ~job[w].stale => Holds(job[w])
           /\ job[w].row \in Rows /\ job[w].by \in Nat
           /\ Commits(w, {job[w].row}) => (job[w].row \in raced' <=> job[w].stale)
<1>1. job[w] \in Job /\ Fits(job[w]) /\ job[w].kind = kind /\ job[w] # Nothing
  BY DEF IInv, Typed, JobsOK, Deciding
<1>2. ~job[w].stale => Holds(job[w])
  BY <1>1 DEF IInv, Fresh
<1>3. job[w].row \in Rows /\ job[w].by \in Nat
  BY <1>1 DEF Job
<1>4. Commits(w, {job[w].row}) => (job[w].row \in raced' <=> job[w].stale)
  BY DEF Commits
<1> QED
  BY <1>1, <1>2, <1>3, <1>4

(* What a save puts in place of everything it found is of that save alone. *)
LEMMA SavedParts ==
    ASSUME NEW i \in SUBSET Items, NEW by \in Nat
    PROVE  /\ {[of |-> x, by |-> by] : x \in i} \subseteq Parts
           /\ \A part \in {[of |-> x, by |-> by] : x \in i} : part.by = by
           /\ {part.of : part \in {[of |-> x, by |-> by] : x \in i}} = i
<1>1. \A x \in i : [of |-> x, by |-> by] \in Parts
  BY DEF Parts
<1>2. \A x \in i : [of |-> x, by |-> by].of = x /\ [of |-> x, by |-> by].by = by
  OBVIOUS
<1> QED
  BY <1>1, <1>2

LEMMA CommitProductKeeps ==
    ASSUME IInv, NEW w \in Workers, CommitProduct(w)
    PROVE  IInv'
<1> DEFINE j == job[w]
           saved == {[of |-> i, by |-> j.by] : i \in j.mine}
           to == IF j.deleted THEN "deleted" ELSE "live"
<1>0. PICK p \in Rows : p = j.row
  BY Committing DEF CommitProduct
<1>1. /\ Deciding(w, "product") /\ Commits(w, {p})
      /\ state' = [state EXCEPT ![p] = to]
      /\ refers' = [refers EXCEPT ![p] = j.ref]
      /\ parts' = [parts EXCEPT ![p] = (parts[p] \ parts[p]) \cup saved]
      /\ UNCHANGED <<tags, told, cost, sale, entry, noted, agreed>>
  BY <1>0 DEF CommitProduct, Replaced
<1>2. /\ j \in Job /\ Fits(j) /\ j.kind = "product" /\ j # Nothing /\ p \in Rows
      /\ ~j.stale => Holds(j)
      /\ j.by \in Nat /\ (p \in raced' <=> j.stale)
  BY <1>0, <1>1, Committing
<1>3. p \in Products /\ j.mine \subseteq Skus /\ j.ref \in Categories \cup {Nothing}
  BY <1>0, <1>2 DEF Fits
<1>4. /\ p \in Masters /\ p \in Owners /\ p \in Referrers /\ p \notin Purchases
      /\ j.ref \in Masters \cup {Nothing}
  BY <1>3, Unions, TablesApart DEF Referrers
<1>5. /\ saved \subseteq Parts /\ (\A part \in saved : part.by = j.by)
      /\ {part.of : part \in saved} = j.mine
  <2>1. j.mine \in SUBSET Items
    BY <1>3 DEF Items
  <2> QED
    BY <1>2, <2>1, SavedParts
<1>6. to \in {"none", "live", "deleted"}
  OBVIOUS
<1> HIDE DEF saved, to
<1>7. /\ state \in [Masters -> {"none", "live", "deleted"}]
      /\ refers \in [Referrers -> Masters \cup {Nothing}]
      /\ parts \in [Owners -> SUBSET Parts]
  BY DEF IInv, Typed, RowsOK
<1>8. /\ \A x \in Masters : state'[x] = IF x = p THEN to ELSE state[x]
      /\ \A x \in Referrers : refers'[x] = IF x = p THEN j.ref ELSE refers[x]
      /\ \A x \in Owners : parts'[x] = IF x = p THEN saved ELSE parts[x]
  BY <1>1, <1>4, <1>7
<1>9. RowsOK'
  <2>1. /\ state' \in [Masters -> {"none", "live", "deleted"}]
        /\ refers' \in [Referrers -> Masters \cup {Nothing}]
        /\ parts' \in [Owners -> SUBSET Parts]
    BY <1>1, <1>4, <1>5, <1>6, <1>7
  <2>2. \A u \in Purchases : refers'[u] = refers[u] /\ state'[u] = state[u]
    BY <1>4, <1>8, Unions DEF Referrers
  <2> QED
    BY <1>1, <2>1, <2>2 DEF IInv, Typed, RowsOK, Exists
<1>10. Elsewhere(p)
  BY <1>1, <1>8 DEF Elsewhere, OnlyWritten
<1>11. RowKept(p)'
  <2>1. Whole(p)'
    <3>1. \A part \in parts'[p] : part.by = j.by
      BY <1>4, <1>5, <1>8
    <3> QED
      BY <1>2, <3>1 DEF Whole
  <2>2. ASSUME ~j.stale
        PROVE  refers'[p] \notin removed'
    <3>1. j.ref # Nothing => state[j.ref] = "live"
      BY <1>2, <2>2 DEF Holds, Live
    <3>2. j.ref \notin removed
      BY <3>1, Unions DEF IInv, Kept, RemovedDeleted, Typed, RecordsOK
    <3> QED
      BY <1>1, <1>4, <1>8, <3>2 DEF Commits
  <2>3. ASSUME ~j.stale, NEW q \in Products \ {p}
        PROVE  SkusOf(q)' \cap SkusOf(p)' = {}
    <3>1. SkusOf(q) \cap j.mine = {}
      BY <1>0, <1>2, <2>3 DEF Holds
    <3>2. SkusOf(p)' = j.mine
      <4>1. parts'[p] = saved
        BY <1>4, <1>8
      <4> QED
        BY <1>5, <4>1 DEF SkusOf
    <3>3. SkusOf(q)' = SkusOf(q)
      BY <1>8, Unions DEF SkusOf
    <3> QED
      BY <3>1, <3>2, <3>3
  <2>4. p \notin Categories \cup Recipes \cup Purchases \cup Customers
    BY <1>3, TablesApart
  <2>5. p \notin raced' => ~j.stale
    BY <1>2
  <2> QED
    BY <2>1, <2>2, <2>3, <2>4, <2>5 DEF RowKept
<1>12. AgreedIsStored' /\ agreed' \subseteq Entries \X Contents
  BY <1>1 DEF IInv, Kept, AgreedIsStored, Typed, RecordsOK
<1> QED
  BY <1>1, <1>2, <1>9, <1>10, <1>11, <1>12, CommitKeeps

LEMMA CommitSupplyKeeps ==
    ASSUME IInv, NEW w \in Workers, CommitSupply(w)
    PROVE  IInv'
<1> DEFINE j == job[w]
           named == {ResolveOptionalPurchase(u) : u \in j.mine}
           saved == ReplacedHistory(j)
           to == IF j.deleted THEN "deleted" ELSE "live"
<1>0. PICK s \in Rows : s = j.row
  BY Committing DEF CommitSupply
<1>1. /\ Deciding(w, "supply") /\ Commits(w, {s})
      /\ state' = [state EXCEPT ![s] = to]
      /\ refers' = [refers EXCEPT ![s] = j.ref]
      /\ parts' = [parts EXCEPT ![s] = saved]
      /\ UNCHANGED <<tags, told, cost, sale, entry, noted, agreed>>
  BY <1>0 DEF CommitSupply
<1>2. /\ j \in Job /\ Fits(j) /\ j.kind = "supply" /\ j # Nothing /\ s \in Rows
      /\ j.by \in Nat
  BY <1>0, <1>1, Committing
<1>3. s \in Supplies /\ j.mine \subseteq Items /\ j.ref \in Suppliers \cup {Nothing}
  BY <1>0, <1>2 DEF Fits
<1>4. /\ s \in Masters /\ s \in Owners /\ s \in Referrers /\ s \notin Purchases
      /\ j.ref \in Masters \cup {Nothing}
  BY <1>3, Unions, TablesApart DEF Referrers
<1>5. saved \subseteq Parts /\ (\A part \in saved : part.by = j.by)
  <2>1. \A u \in j.mine : ResolveOptionalPurchase(u) \in Items
    BY <1>3 DEF ResolveOptionalPurchase, Items
  <2>2. \A u \in j.mine : /\ [of |-> ResolveOptionalPurchase(u), by |-> j.by] \in Parts
                          /\ [of |-> ResolveOptionalPurchase(u), by |-> j.by].by = j.by
    BY <1>2, <2>1 DEF Parts
  <2> QED
    BY <2>2 DEF ReplacedHistory
<1>6. to \in {"none", "live", "deleted"}
  OBVIOUS
<1> HIDE DEF saved, to
<1>7. /\ state \in [Masters -> {"none", "live", "deleted"}]
      /\ refers \in [Referrers -> Masters \cup {Nothing}]
      /\ parts \in [Owners -> SUBSET Parts]
  BY DEF IInv, Typed, RowsOK
<1>8. /\ \A x \in Masters : state'[x] = IF x = s THEN to ELSE state[x]
      /\ \A x \in Referrers : refers'[x] = IF x = s THEN j.ref ELSE refers[x]
      /\ \A x \in Owners : parts'[x] = IF x = s THEN saved ELSE parts[x]
  BY <1>1, <1>4, <1>7
<1>9. RowsOK'
  <2>1. /\ state' \in [Masters -> {"none", "live", "deleted"}]
        /\ refers' \in [Referrers -> Masters \cup {Nothing}]
        /\ parts' \in [Owners -> SUBSET Parts]
    BY <1>1, <1>4, <1>5, <1>6, <1>7
  <2>2. \A u \in Purchases : refers'[u] = refers[u] /\ state'[u] = state[u]
    BY <1>4, <1>8, Unions DEF Referrers
  <2> QED
    BY <1>1, <2>1, <2>2 DEF IInv, Typed, RowsOK, Exists
<1>10. Elsewhere(s)
  BY <1>1, <1>8 DEF Elsewhere, OnlyWritten
<1>11. RowKept(s)'
  <2>1. Whole(s)'
    <3>1. \A part \in parts'[s] : part.by = j.by
      BY <1>4, <1>5, <1>8
    <3> QED
      BY <1>2, <3>1 DEF Whole
  <2>2. s \notin Categories \cup Products \cup Recipes \cup Purchases \cup Customers
    BY <1>3, TablesApart
  <2> QED
    BY <2>1, <2>2 DEF RowKept
<1>12. AgreedIsStored' /\ agreed' \subseteq Entries \X Contents
  BY <1>1 DEF IInv, Kept, AgreedIsStored, Typed, RecordsOK
<1> QED
  BY <1>1, <1>2, <1>9, <1>10, <1>11, <1>12, CommitKeeps

(* The parts that a save leaves where it deletes what it found before it   *)
(* was the only one.                                                       *)
LEMMA ReplacedParts ==
    ASSUME IInv, NEW w \in Workers, NEW kind \in {"recipe", "purchase"}, Deciding(w, kind),
           job[w].cleared
    PROVE  /\ job[w].row \in Owners
           /\ Replaced(job[w], job[w].seen) \in SUBSET Parts
           /\ ~job[w].stale =>
                 \A part \in Replaced(job[w], job[w].seen) : part.by = job[w].by
<1> DEFINE j == job[w]
           saved == {[of |-> i, by |-> j.by] : i \in j.mine}
<1>1. j \in Job /\ Fits(j) /\ j.kind = kind /\ j.by \in Nat /\ (~j.stale => Holds(j))
  BY Committing
<1>2. j.row \in Owners /\ j.mine \in SUBSET Items
  BY <1>1, Unions DEF Fits
<1>3. saved \subseteq Parts /\ (\A part \in saved : part.by = j.by)
  BY <1>1, <1>2, SavedParts
<1>4. Replaced(j, j.seen) = (parts[j.row] \ j.seen) \cup saved
  BY DEF Replaced
<1> HIDE DEF saved
<1>5. parts[j.row] \subseteq Parts
  BY <1>2 DEF IInv, Typed, RowsOK
<1>6. ~j.stale => parts[j.row] \ j.seen = {}
  BY <1>1 DEF Holds
<1> QED
  BY <1>2, <1>3, <1>4, <1>5, <1>6

LEMMA CommitRecipeKeeps ==
    ASSUME IInv, NEW w \in Workers, CommitRecipe(w)
    PROVE  IInv'
<1> DEFINE j == job[w]
           saved == Replaced(j, j.seen)
<1>0. PICK r \in Rows : r = j.row
  BY Committing DEF CommitRecipe
<1>1. /\ Deciding(w, "recipe") /\ j.cleared /\ Commits(w, {r})
      /\ parts' = [parts EXCEPT ![r] = saved]
      /\ UNCHANGED <<state, refers, tags, told, cost, sale, entry, noted, agreed>>
  BY <1>0 DEF CommitRecipe
<1>2. /\ j \in Job /\ Fits(j) /\ j.kind = "recipe" /\ j # Nothing /\ r \in Rows
      /\ j.by \in Nat /\ (r \in raced' <=> j.stale)
  BY <1>0, <1>1, Committing
<1>3. r \in Recipes
  BY <1>0, <1>2 DEF Fits
<1>4. /\ r \in Owners /\ saved \in SUBSET Parts
      /\ ~j.stale => \A part \in saved : part.by = j.by
  BY <1>0, <1>1, ReplacedParts
<1> HIDE DEF saved
<1>5. parts \in [Owners -> SUBSET Parts]
  BY DEF IInv, Typed, RowsOK
<1>6. /\ parts' \in [Owners -> SUBSET Parts]
      /\ \A x \in Owners : parts'[x] = IF x = r THEN saved ELSE parts[x]
  BY <1>1, <1>4, <1>5
<1>7. RowsOK'
  BY <1>1, <1>6 DEF IInv, Typed, RowsOK, Exists
<1>8. Elsewhere(r)
  BY <1>1, <1>6 DEF Elsewhere, OnlyWritten
<1>9. RowKept(r)'
  <2>1. ~j.stale => Whole(r)'
    <3>1. ~j.stale => \A part \in parts'[r] : part.by = j.by
      BY <1>4, <1>6
    <3> QED
      BY <1>2, <3>1 DEF Whole
  <2>2. r \notin Categories \cup Products \cup Supplies \cup Customers
    BY <1>3, TablesApart
  <2> QED
    BY <1>2, <2>1, <2>2 DEF RowKept
<1>10. AgreedIsStored' /\ agreed' \subseteq Entries \X Contents
  BY <1>1 DEF IInv, Kept, AgreedIsStored, Typed, RecordsOK
<1> QED
  BY <1>1, <1>2, <1>7, <1>8, <1>9, <1>10, CommitKeeps

LEMMA CommitPurchaseKeeps ==
    ASSUME IInv, NEW w \in Workers, CommitPurchase(w)
    PROVE  IInv'
<1> DEFINE j == job[w]
           saved == Replaced(j, j.seen)
<1>0. PICK u \in Rows : u = j.row
  BY Committing DEF CommitPurchase
<1>1. /\ Deciding(w, "purchase") /\ j.cleared /\ Commits(w, {u})
      /\ state' = [state EXCEPT ![u] = "live"]
      /\ refers' = [refers EXCEPT ![u] = j.ref]
      /\ parts' = [parts EXCEPT ![u] = saved]
      /\ UNCHANGED <<tags, told, cost, sale, entry, noted, agreed>>
  BY <1>0 DEF CommitPurchase
<1>2. /\ j \in Job /\ Fits(j) /\ j.kind = "purchase" /\ j # Nothing /\ u \in Rows
      /\ j.by \in Nat /\ (u \in raced' <=> j.stale)
  BY <1>0, <1>1, Committing
<1>3. u \in Purchases /\ j.ref \in Suppliers
  BY <1>0, <1>2 DEF Fits
<1>4. /\ u \in Owners /\ saved \in SUBSET Parts
      /\ ~j.stale => \A part \in saved : part.by = j.by
  BY <1>0, <1>1, ReplacedParts
<1>5. u \in Masters /\ u \in Referrers /\ j.ref \in Masters \cup {Nothing}
  BY <1>3, Unions DEF Referrers
<1> HIDE DEF saved
<1>6. /\ state \in [Masters -> {"none", "live", "deleted"}]
      /\ refers \in [Referrers -> Masters \cup {Nothing}]
      /\ parts \in [Owners -> SUBSET Parts]
      /\ \A x \in Purchases : refers[x] \in Suppliers <=> state[x] # "none"
  BY DEF IInv, Typed, RowsOK, Exists
<1>7. /\ \A x \in Masters : state'[x] = IF x = u THEN "live" ELSE state[x]
      /\ \A x \in Referrers : refers'[x] = IF x = u THEN j.ref ELSE refers[x]
      /\ \A x \in Owners : parts'[x] = IF x = u THEN saved ELSE parts[x]
  BY <1>1, <1>4, <1>5, <1>6
<1>8. RowsOK'
  <2>1. /\ state' \in [Masters -> {"none", "live", "deleted"}]
        /\ refers' \in [Referrers -> Masters \cup {Nothing}]
        /\ parts' \in [Owners -> SUBSET Parts]
    BY <1>1, <1>4, <1>5, <1>6
  <2>2. \A x \in Purchases : refers'[x] \in Suppliers <=> state'[x] # "none"
    BY <1>3, <1>6, <1>7, Unions DEF Referrers
  <2> QED
    BY <1>1, <2>1, <2>2 DEF IInv, Typed, RowsOK, Exists
<1>9. Elsewhere(u)
  BY <1>1, <1>7 DEF Elsewhere, OnlyWritten
<1>10. RowKept(u)'
  <2>1. ~j.stale => Whole(u)'
    <3>1. ~j.stale => \A part \in parts'[u] : part.by = j.by
      BY <1>4, <1>7
    <3> QED
      BY <1>2, <3>1 DEF Whole
  <2>2. u \notin Categories \cup Products \cup Supplies \cup Customers
    BY <1>3, TablesApart
  <2> QED
    BY <1>2, <2>1, <2>2 DEF RowKept
<1>11. AgreedIsStored' /\ agreed' \subseteq Entries \X Contents
  BY <1>1 DEF IInv, Kept, AgreedIsStored, Typed, RecordsOK
<1> QED
  BY <1>1, <1>2, <1>8, <1>9, <1>10, <1>11, CommitKeeps

LEMMA CommitTagsKeeps ==
    ASSUME IInv, NEW w \in Workers, CommitTags(w)
    PROVE  IInv'
<1> DEFINE j == job[w]
<1>0. PICK c \in Rows : c = j.row
  BY Committing DEF CommitTags
<1> DEFINE to == (tags[c] \ j.seen) \cup j.mine
<1>1. /\ Deciding(w, "tags") /\ j.cleared /\ Commits(w, {c})
      /\ tags' = [tags EXCEPT ![c] = to]
      /\ told' = [told EXCEPT ![c] = j.told]
      /\ UNCHANGED <<state, refers, parts, cost, sale, entry, noted, agreed>>
  BY <1>0 DEF CommitTags
<1>2. /\ j \in Job /\ Fits(j) /\ j.kind = "tags" /\ j # Nothing
      /\ ~j.stale => Holds(j)
      /\ c \in raced' <=> j.stale
  BY <1>0, <1>1, Committing
<1>3. c \in Customers /\ j.mine \subseteq Tags /\ j.told \subseteq Tags
  BY <1>0, <1>2 DEF Fits, Job
<1>4. /\ tags \in [Customers -> SUBSET Tags] /\ told \in [Customers -> SUBSET Tags]
      /\ tags[c] \subseteq Tags
  BY <1>3 DEF IInv, Typed, RowsOK
<1>5. to \subseteq Tags /\ (~j.stale => j.told = to)
  BY <1>0, <1>1, <1>2, <1>3, <1>4 DEF Holds
<1> HIDE DEF to
<1>6. /\ tags' \in [Customers -> SUBSET Tags] /\ told' \in [Customers -> SUBSET Tags]
      /\ \A x \in Customers : tags'[x] = IF x = c THEN to ELSE tags[x]
      /\ \A x \in Customers : told'[x] = IF x = c THEN j.told ELSE told[x]
  BY <1>1, <1>3, <1>4, <1>5
<1>7. RowsOK'
  BY <1>1, <1>6 DEF IInv, Typed, RowsOK, Exists
<1>8. Elsewhere(c)
  BY <1>1, <1>6 DEF Elsewhere, OnlyWritten
<1>9. RowKept(c)'
  <2>1. c \notin Categories \cup Products \cup Supplies \cup Recipes \cup Purchases
    BY <1>3, TablesApart
  <2>2. told'[c] = tags'[c] \/ c \in raced'
    BY <1>2, <1>3, <1>5, <1>6
  <2> QED
    BY <2>1, <2>2 DEF RowKept
<1>10. AgreedIsStored' /\ agreed' \subseteq Entries \X Contents
  BY <1>1 DEF IInv, Kept, AgreedIsStored, Typed, RecordsOK
<1> QED
  BY <1>1, <1>2, <1>7, <1>8, <1>9, <1>10, CommitKeeps

(* A note, a cost, a sale and an entry are in no register.                 *)
LEMMA OtherTables ==
    ASSUME NEW row \in Notes \cup Costs \cup Sales \cup Entries
    PROVE  RowKept(row)'
<1>1. row \notin Categories \cup Products \cup Supplies \cup Recipes \cup Purchases \cup Customers
  BY TablesApart
<1> QED
  BY <1>1 DEF RowKept

LEMMA CommitNoteKeeps ==
    ASSUME IInv, NEW w \in Workers, CommitNote(w)
    PROVE  IInv'
<1> DEFINE j == job[w]
<1>0. PICK n \in Rows : n = j.row
  BY Committing DEF CommitNote
<1>1. /\ Deciding(w, "note") /\ Commits(w, {n}) /\ noted' = noted \cup {n}
      /\ UNCHANGED <<state, refers, parts, tags, told, cost, sale, entry, agreed>>
  BY <1>0 DEF CommitNote
<1>2. Fits(j) /\ j.kind = "note" /\ j # Nothing
  BY <1>1, Committing
<1>3. n \in Notes
  BY <1>0, <1>2 DEF Fits
<1>4. RowsOK' /\ Elsewhere(n)
  BY <1>1, <1>3 DEF IInv, Typed, RowsOK, Exists, Elsewhere, OnlyWritten
<1>5. AgreedIsStored' /\ agreed' \subseteq Entries \X Contents
  BY <1>1 DEF IInv, Kept, AgreedIsStored, Typed, RecordsOK
<1> QED
  BY <1>1, <1>2, <1>3, <1>4, <1>5, OtherTables, CommitKeeps

LEMMA CommitCostKeeps ==
    ASSUME IInv, NEW w \in Workers, CommitCost(w)
    PROVE  IInv'
<1> DEFINE j == job[w]
<1>0. PICK c \in Rows : c = j.row
  BY Committing DEF CommitCost
<1> DEFINE to == IF j.to = Nothing THEN [cost[j.row] EXCEPT !.edits = @ + 1]
                                   ELSE [cost[j.row] EXCEPT !.status = j.to]
<1>1. /\ Deciding(w, "cost") /\ Commits(w, {c})
      /\ cost' = [cost EXCEPT ![c] = to]
      /\ UNCHANGED <<state, refers, parts, tags, told, sale, entry, noted, agreed>>
  <2>1. cost' = [cost EXCEPT ![j.row] = to]
    BY DEF CommitCost
  <2> HIDE DEF to
  <2> QED
    BY <1>0, <2>1 DEF CommitCost
<1>2. Fits(j) /\ j.kind = "cost" /\ j # Nothing
  BY <1>1, Committing
<1>3. c \in Costs /\ j.to \in Statuses \cup {Nothing}
  BY <1>0, <1>2 DEF Fits
<1>4. cost \in [Costs -> [status: Statuses \cup {"none"}, edits: Nat]]
  BY DEF IInv, Typed, RowsOK
<1>5. to \in [status: Statuses \cup {"none"}, edits: Nat]
  <2>1. cost[j.row] \in [status: Statuses \cup {"none"}, edits: Nat]
    BY <1>0, <1>3, <1>4
  <2>2. [cost[j.row] EXCEPT !.edits = @ + 1] \in [status: Statuses \cup {"none"}, edits: Nat]
    BY <2>1
  <2>3. j.to # Nothing =>
          [cost[j.row] EXCEPT !.status = j.to] \in [status: Statuses \cup {"none"}, edits: Nat]
    BY <1>3, <2>1
  <2> QED
    BY <2>2, <2>3
<1> HIDE DEF to
<1>6. /\ cost' \in [Costs -> [status: Statuses \cup {"none"}, edits: Nat]]
      /\ \A x \in Costs \ {c} : cost'[x] = cost[x]
  BY <1>1, <1>3, <1>4, <1>5
<1>7. RowsOK'
  BY <1>1, <1>6 DEF IInv, Typed, RowsOK, Exists
<1>8. Elsewhere(c)
  BY <1>1, <1>6 DEF Elsewhere, OnlyWritten
<1>9. AgreedIsStored' /\ agreed' \subseteq Entries \X Contents
  BY <1>1 DEF IInv, Kept, AgreedIsStored, Typed, RecordsOK
<1> QED
  BY <1>1, <1>2, <1>3, <1>7, <1>8, <1>9, OtherTables, CommitKeeps

LEMMA CommitSaleKeeps ==
    ASSUME IInv, NEW w \in Workers, CommitSale(w)
    PROVE  IInv'
<1> DEFINE j == job[w]
<1>0. PICK s \in Rows : s = j.row
  BY Committing DEF CommitSale
<1>1. /\ Deciding(w, "sale") /\ Commits(w, {s})
      /\ sale' = [sale EXCEPT ![s] = "active"]
      /\ UNCHANGED <<state, refers, parts, tags, told, cost, entry, noted, agreed>>
  BY <1>0 DEF CommitSale
<1>2. Fits(j) /\ j.kind = "sale" /\ j # Nothing
  BY <1>1, Committing
<1>3. s \in Sales
  BY <1>0, <1>2 DEF Fits
<1>4. sale' \in [Sales -> {"none", "active", "canceled"}]
  BY <1>1, <1>3 DEF IInv, Typed, RowsOK
<1>5. RowsOK' /\ Elsewhere(s)
  BY <1>1, <1>4 DEF IInv, Typed, RowsOK, Exists, Elsewhere, OnlyWritten
<1>6. AgreedIsStored' /\ agreed' \subseteq Entries \X Contents
  BY <1>1 DEF IInv, Kept, AgreedIsStored, Typed, RecordsOK
<1> QED
  BY <1>1, <1>2, <1>3, <1>5, <1>6, OtherTables, CommitKeeps

LEMMA CommitEntryKeeps ==
    ASSUME IInv, NEW w \in Workers, CommitEntry(w)
    PROVE  IInv'
<1> DEFINE j == job[w]
<1>0. PICK e \in Rows : e = j.row
  BY Committing DEF CommitEntry
<1>1. /\ Deciding(w, "entry") /\ Commits(w, {e}) /\ entry[e] = Nothing
      /\ entry' = [entry EXCEPT ![e] = j.to]
      /\ agreed' = agreed \cup {<<e, j.to>>}
      /\ UNCHANGED <<state, refers, parts, tags, told, cost, sale, noted>>
  BY <1>0 DEF CommitEntry
<1>2. Fits(j) /\ j.kind = "entry" /\ j # Nothing
  BY <1>1, Committing
<1>3. e \in Entries /\ j.to \in Contents
  BY <1>0, <1>2 DEF Fits
<1>4. /\ entry \in [Entries -> Contents \cup {Nothing}]
      /\ agreed \subseteq Entries \X Contents
      /\ \A a \in agreed : a[1] \in FinancialEvents => entry[a[1]] = a[2]
  BY DEF IInv, Typed, RowsOK, RecordsOK, Kept, AgreedIsStored
<1>5. /\ entry' \in [Entries -> Contents \cup {Nothing}]
      /\ \A x \in Entries : entry'[x] = IF x = e THEN j.to ELSE entry[x]
  BY <1>1, <1>3, <1>4
<1>6. RowsOK' /\ Elsewhere(e)
  BY <1>1, <1>5 DEF IInv, Typed, RowsOK, Exists, Elsewhere, OnlyWritten
<1>7. agreed' \subseteq Entries \X Contents
  BY <1>1, <1>3, <1>4
<1>8. ASSUME NEW a \in agreed', a[1] \in FinancialEvents
      PROVE  entry'[a[1]] = a[2]
  <2>1. CASE a = <<e, j.to>>
    BY <1>3, <1>5, <2>1
  <2>2. CASE a \in agreed
    <3>1. a[1] \in Entries /\ a[2] \in Contents /\ entry[a[1]] = a[2]
      BY <1>4, <1>8, <2>2
    <3>2. a[1] # e
      BY <1>1, <3>1, BackofficeAssumption
    <3> QED
      BY <1>5, <3>1, <3>2
  <2> QED
    BY <1>1, <2>1, <2>2
<1>9. AgreedIsStored'
  BY <1>8 DEF AgreedIsStored
<1> QED
  BY <1>1, <1>2, <1>3, <1>6, <1>7, <1>9, OtherTables, CommitKeeps

(* The removal of a category writes the products that it found as well: a  *)
(* product that came to it since keeps it, and is recorded.                *)
LEMMA CommitRemoveCategoryKeeps ==
    ASSUME IInv, NEW w \in Workers, CommitRemoveCategory(w)
    PROVE  IInv'
<1> DEFINE j == job[w]
<1>0. PICK c \in Rows : c = j.row
  BY Committing DEF CommitRemoveCategory
<1>a. PICK found : found = j.seen
  OBVIOUS
<1> DEFINE missed == {p \in Products \ found : refers[p] = c}
           written == {c} \cup found
<1>1. /\ Deciding(w, "category")
      /\ state' = [state EXCEPT ![c] = "deleted"]
      /\ refers' = [x \in DOMAIN refers |-> IF x \in found THEN Nothing ELSE refers[x]]
      /\ job' = [Staled(written) EXCEPT ![w] = Nothing]
      /\ removed' = removed \cup {c} /\ raced' = raced \cup missed
      /\ UNCHANGED <<parts, tags, told, cost, sale, entry, noted, saves, late, agreed, budget>>
  BY <1>0, <1>a DEF CommitRemoveCategory
<1>2. Fits(j) /\ j.kind = "category"
  BY <1>1, Committing
<1>3. c \in Categories /\ found \subseteq Products
  BY <1>0, <1>a, <1>2 DEF Fits
<1>4. /\ c \in Masters /\ c # Nothing /\ c \notin Purchases
      /\ found \cap Purchases = {} /\ Products \subseteq Referrers
  BY <1>3, Unions, TablesApart DEF Referrers
<1>5. /\ state \in [Masters -> {"none", "live", "deleted"}]
      /\ refers \in [Referrers -> Masters \cup {Nothing}]
  BY DEF IInv, Typed, RowsOK
<1>6. /\ \A x \in Masters : state'[x] = IF x = c THEN "deleted" ELSE state[x]
      /\ \A x \in Referrers : refers'[x] = IF x \in found THEN Nothing ELSE refers[x]
      /\ state' \in [Masters -> {"none", "live", "deleted"}]
      /\ refers' \in [Referrers -> Masters \cup {Nothing}]
  BY <1>1, <1>4, <1>5
<1>7. RowsOK'
  <2>1. \A u \in Purchases : refers'[u] = refers[u] /\ state'[u] = state[u]
    BY <1>4, <1>6, Unions DEF Referrers
  <2> QED
    BY <1>1, <1>6, <2>1 DEF IInv, Typed, RowsOK, Exists
<1>8. JobsOK' /\ Moved(written)
  BY <1>1, StaledJobs DEF IInv
<1>9. RecordsOK' /\ BudgetOK'
  BY <1>1, <1>3, Unions DEF IInv, Typed, RecordsOK, BudgetOK
<1>10. OnlyWritten(written)
  BY <1>1, <1>6 DEF OnlyWritten
<1>11. Fresh'
  BY <1>8, <1>10, FreshAfter DEF IInv
<1>12. Kept'
  <2>1. raced \subseteq raced'
    BY <1>1
  <2>2. SkusAreDistinct' /\ PartsWhole' /\ TagsTold' /\ AgreedIsStored'
    BY <1>1, <2>1 DEF IInv, Kept, SkusAreDistinct, SkusOf, PartsWhole, Whole, TagsTold,
                      AgreedIsStored
  <2>3. RemovedDeleted'
    <3>1. \A x \in removed : x \in Masters /\ state[x] # "live"
      BY Unions DEF IInv, Kept, RemovedDeleted, Typed, RecordsOK
    <3> QED
      BY <1>1, <1>4, <1>6, <3>1 DEF RemovedDeleted
  <2>4. ASSUME NEW p \in Products, refers'[p] \in removed'
        PROVE  p \in raced'
    <3>1. Nothing \notin removed /\ Nothing # c
      BY <1>4, Unions DEF IInv, Typed, RecordsOK
    <3>2. p \notin found /\ refers'[p] = refers[p]
      BY <1>1, <1>4, <1>6, <2>4, <3>1
    <3>3. CASE refers[p] = c
      BY <1>1, <3>2, <3>3
    <3>4. CASE refers[p] \in removed
      BY <2>1, <3>4 DEF IInv, Kept, ReferencesHold
    <3> QED
      BY <1>1, <2>4, <3>2, <3>3, <3>4
  <2>5. ReferencesHold'
    BY <1>1, <2>1, <2>4 DEF ReferencesHold, IInv, Kept
  <2> QED
    BY <2>2, <2>3, <2>5 DEF Kept
<1> QED
  BY <1>7, <1>8, <1>9, <1>11, <1>12 DEF IInv, Typed

(***************************************************************************)
(* A statement that was not preceded by a read writes one row, and leaves  *)
(* what it has of other rows, its tags and its entry.                      *)
(***************************************************************************)
PartsKept(row) == parts' = parts \/ (row \in Recipes /\ Whole(row)')

LEMMA StatementKeeps ==
    ASSUME IInv, NEW row \in Rows, NEW kind, Spend(kind), kind \in Kinds, Writes({row}),
           RowsOK', OnlyWritten({row}),
           UNCHANGED <<refers, tags, told, entry>>,
           PartsKept(row)
    PROVE  IInv'
<1>1. /\ job' = Staled({row}) /\ removed' = removed \ {row}
      /\ UNCHANGED <<saves, late, agreed, raced>>
  BY DEF Writes
<1>2. JobsOK' /\ Moved({row})
  BY <1>1, StaledJobs DEF IInv
<1>3. RecordsOK'
  BY <1>1 DEF IInv, Typed, RecordsOK
<1>4. BudgetOK'
  <2>1. budget \in [Kinds -> Nat] /\ budget[kind] > 0 /\ budget' = [budget EXCEPT ![kind] = @ - 1]
    BY DEF IInv, Typed, BudgetOK, Spend
  <2> QED
    BY <2>1 DEF BudgetOK
<1>5. Fresh'
  BY <1>2, FreshAfter DEF IInv
<1>6. Kept'
  <2>1. \A x \in Products \cup Supplies \cup Purchases : parts'[x] = parts[x]
    <3>1. CASE parts' = parts
      BY <3>1
    <3>2. CASE row \in Recipes
      BY <3>2, Unions, TablesApart DEF OnlyWritten
    <3> QED
      BY <3>1, <3>2 DEF PartsKept
  <2>2. SkusAreDistinct'
    BY <1>1, <2>1 DEF IInv, Kept, SkusAreDistinct, SkusOf
  <2>3. ASSUME NEW x \in Recipes, Whole(x)
        PROVE  Whole(x)'
    <3>1. CASE parts'[x] = parts[x]
      BY <2>3, <3>1 DEF Whole
    <3>2. CASE parts'[x] # parts[x]
      BY <2>3, <3>2, Unions DEF OnlyWritten, PartsKept
    <3> QED
      BY <3>1, <3>2
  <2>4. PartsWhole'
    <3>1. \A x \in Products \cup Supplies \cup Purchases : Whole(x) => Whole(x)'
      BY <2>1 DEF Whole
    <3> QED
      BY <1>1, <2>3, <3>1 DEF IInv, Kept, PartsWhole
  <2>5. TagsTold' /\ AgreedIsStored'
    BY <1>1 DEF IInv, Kept, TagsTold, AgreedIsStored
  <2>6. RemovedDeleted'
    <3>1. ASSUME NEW c \in removed \ {row} PROVE state'[c] # "live"
      BY <3>1, Unions DEF OnlyWritten, IInv, Kept, RemovedDeleted, Typed, RecordsOK
    <3> QED
      BY <1>1, <3>1 DEF RemovedDeleted
  <2>7. ReferencesHold'
    BY <1>1 DEF IInv, Kept, ReferencesHold
  <2> QED
    BY <2>2, <2>4, <2>5, <2>6, <2>7 DEF Kept
<1> QED
  BY <1>2, <1>3, <1>4, <1>5, <1>6 DEF IInv, Typed

LEMMA RegisterKeeps ==
    ASSUME IInv, NEW x \in Masters \ Purchases, Save(x) \/ Remove(x)
    PROVE  IInv'
<1>1. PICK s \in {"live", "deleted"} : state' = [state EXCEPT ![x] = s]
  BY DEF Save, Remove
<1>2. /\ Spend("master") /\ Writes({x})
      /\ UNCHANGED <<refers, parts, tags, told, cost, sale, entry, noted>>
  BY DEF Save, Remove
<1>3. state \in [Masters -> {"none", "live", "deleted"}]
  BY DEF IInv, Typed, RowsOK
<1>4. /\ state' \in [Masters -> {"none", "live", "deleted"}]
      /\ \A y \in Masters \ {x} : state'[y] = state[y]
  BY <1>1, <1>3
<1>5. RowsOK'
  <2>1. \A u \in Purchases : state'[u] = state[u]
    BY <1>4, Unions
  <2> QED
    BY <1>2, <1>4, <2>1 DEF IInv, Typed, RowsOK, Exists
<1>6. OnlyWritten({x}) /\ x \in Rows /\ "master" \in Kinds
  BY <1>2, <1>4, Unions DEF OnlyWritten, Kinds
<1>7. UNCHANGED <<refers, tags, told, entry>> /\ PartsKept(x)
  BY <1>2 DEF PartsKept
<1> QED
  BY <1>2, <1>5, <1>6, <1>7, StatementKeeps

LEMMA DeleteRecipeKeeps ==
    ASSUME IInv, NEW p \in Products, DeleteRecipe(p)
    PROVE  IInv'
<1>1. /\ Spend("recipe") /\ Writes({Recipe(p)})
      /\ parts' = [parts EXCEPT ![Recipe(p)] = {}]
      /\ UNCHANGED <<state, refers, tags, told, cost, sale, entry, noted>>
  BY DEF DeleteRecipe
<1>2. PICK r \in Recipes : r = Recipe(p)
  BY DEF Recipes
<1>3. parts \in [Owners -> SUBSET Parts] /\ r \in Owners
  BY <1>2, Unions DEF IInv, Typed, RowsOK
<1>4. /\ parts' \in [Owners -> SUBSET Parts] /\ parts'[r] = {}
      /\ \A x \in Owners \ {r} : parts'[x] = parts[x]
  BY <1>1, <1>2, <1>3
<1>5. RowsOK'
  BY <1>1, <1>4 DEF IInv, Typed, RowsOK, Exists
<1>6. Whole(r)'
  <2>1. 0 \in Nat
    OBVIOUS
  <2> QED
    BY <1>4, <2>1 DEF Whole
<1>7. OnlyWritten({r}) /\ PartsKept(r)
  BY <1>1, <1>4, <1>6 DEF OnlyWritten, PartsKept
<1> QED
  BY <1>1, <1>2, <1>5, <1>6, <1>7, Unions, StatementKeeps DEF Kinds

LEMMA CreateCostKeeps ==
    ASSUME IInv, NEW c \in Costs, CreateCost(c)
    PROVE  IInv'
<1>1. /\ Spend("cost") /\ Writes({c})
      /\ cost' = [cost EXCEPT ![c].status = "pending"]
      /\ UNCHANGED <<state, refers, parts, tags, told, sale, entry, noted>>
  BY DEF CreateCost
<1>2. /\ cost' \in [Costs -> [status: Statuses \cup {"none"}, edits: Nat]]
      /\ \A x \in Costs \ {c} : cost'[x] = cost[x]
  BY <1>1 DEF IInv, Typed, RowsOK, Statuses
<1>3. RowsOK' /\ OnlyWritten({c}) /\ c \in Rows /\ "cost" \in Kinds
  BY <1>1, <1>2, Unions DEF IInv, Typed, RowsOK, Exists, OnlyWritten, Kinds
<1>4. UNCHANGED <<refers, tags, told, entry>> /\ PartsKept(c)
  BY <1>1 DEF PartsKept
<1> QED
  BY <1>1, <1>3, <1>4, StatementKeeps

LEMMA CancelSaleKeeps ==
    ASSUME IInv, NEW s \in Sales, CancelSale(s)
    PROVE  IInv'
<1>1. /\ Spend("sale") /\ Writes({s})
      /\ sale' = [sale EXCEPT ![s] = "canceled"]
      /\ UNCHANGED <<state, refers, parts, tags, told, cost, entry, noted>>
  BY DEF CancelSale
<1>2. sale' \in [Sales -> {"none", "active", "canceled"}]
  BY <1>1 DEF IInv, Typed, RowsOK
<1>3. RowsOK' /\ OnlyWritten({s}) /\ s \in Rows /\ "sale" \in Kinds
  BY <1>1, <1>2, Unions DEF IInv, Typed, RowsOK, Exists, OnlyWritten, Kinds
<1>4. UNCHANGED <<refers, tags, told, entry>> /\ PartsKept(s)
  BY <1>1 DEF PartsKept
<1> QED
  BY <1>1, <1>3, <1>4, StatementKeeps

LEMMA AnswerKeeps ==
    ASSUME IInv, NEW e \in Entries, NEW content \in Contents, AnswerEntry(e, content),
           e \in FinancialEvents => Matches(e, content)
    PROVE  IInv'
<1>1. /\ Spend("entry") /\ agreed' = agreed \cup {<<e, content>>}
      /\ UNCHANGED <<rows, job, saves, removed, late, raced>>
  BY DEF AnswerEntry
<1>2. RowsOK'
  BY <1>1 DEF IInv, Typed, RowsOK, Exists, rows
<1>3. JobsOK' /\ RecordsOK'
  BY <1>1 DEF IInv, Typed, JobsOK, RecordsOK, Fits
<1>4. BudgetOK'
  <2>1. /\ budget \in [Kinds -> Nat] /\ budget["entry"] > 0 /\ "entry" \in Kinds
        /\ budget' = [budget EXCEPT !["entry"] = @ - 1]
    BY <1>1 DEF IInv, Typed, BudgetOK, Spend, Kinds
  <2> QED
    BY <2>1 DEF BudgetOK
<1>5. Fresh'
  BY <1>1 DEF IInv, Fresh, Holds, Live, SkusOf, rows
<1>6. AgreedIsStored'
  <2>1. ASSUME NEW a \in agreed', a[1] \in FinancialEvents
        PROVE  entry'[a[1]] = a[2]
    <3>1. CASE a \in agreed
      BY <1>1, <2>1, <3>1 DEF IInv, Kept, AgreedIsStored, rows
    <3>2. CASE a = <<e, content>>
      BY <1>1, <2>1, <3>2 DEF Matches, rows
    <3> QED
      BY <1>1, <3>1, <3>2
  <2> QED
    BY <2>1 DEF AgreedIsStored
<1>7. Kept'
  BY <1>1, <1>6 DEF IInv, Kept, rows, SkusAreDistinct, SkusOf, PartsWhole, Whole, TagsTold,
                    RemovedDeleted, ReferencesHold
<1> QED
  BY <1>2, <1>3, <1>4, <1>5, <1>7 DEF IInv, Typed

(***************************************************************************)
(* The invariant is inductive.                                             *)
(***************************************************************************)
LEMMA StutterKeeps == ASSUME IInv, UNCHANGED vars PROVE IInv'
<1>1. UNCHANGED <<rows, job, saves, removed, late, agreed, raced, budget>>
  BY DEF vars
<1>2. RowsOK'
  BY <1>1 DEF IInv, Typed, RowsOK, Exists, rows
<1>3. JobsOK' /\ RecordsOK' /\ BudgetOK'
  BY <1>1 DEF IInv, Typed, JobsOK, RecordsOK, BudgetOK, Fits
<1>4. Fresh'
  BY <1>1 DEF IInv, Fresh, Holds, Live, SkusOf, rows
<1>5. Kept'
  BY <1>1, KeptSame DEF IInv
<1> QED
  BY <1>2, <1>3, <1>4, <1>5 DEF IInv, Typed

LEMMA RequestKeeps == ASSUME IInv, NEW w \in Workers, Request(w) PROVE IInv'
<1>1. CASE \E c \in Categories : DecideRemoveCategory(w, c)
  BY <1>1, RemoveCategoryKeeps
<1>2. CASE \E p \in Products, c \in Categories \cup {Nothing}, skus \in SUBSET Skus,
              d \in BOOLEAN : DecideProduct(w, p, c, skus, d)
  BY <1>2, ProductKeeps
<1>3. CASE \E p \in Products, some \in SUBSET Supplies : DecideRecipe(w, p, some)
  BY <1>3, RecipeKeeps
<1>4. CASE \E s \in Supplies, x \in Suppliers \cup {Nothing},
              some \in SUBSET (Purchases \cup {Nothing}), d \in BOOLEAN :
              DecideSupply(w, s, x, some, d)
  BY <1>4, SupplyKeeps
<1>5. CASE \E u \in Purchases, x \in Suppliers, some \in SUBSET (Products \cup Supplies) :
              DecidePurchase(w, u, x, some)
  BY <1>5, PurchaseKeeps
<1>6. CASE \E c \in Customers, some \in SUBSET Tags, replace \in BOOLEAN :
              DecideTags(w, c, some, replace)
  BY <1>6, TagsKeeps
<1>7. CASE \E n \in Notes, c \in Customers : DecideNote(w, n, c) \/ DecideTask(w, n, c)
  BY <1>7, NoteKeeps DEF DecideTask
<1>8. CASE \E c \in Costs : EditCost(w, c) \/ CancelCost(w, c) \/ PayCost(w, c)
  BY <1>8, CostKeeps
<1>9. CASE \E s \in Sales, c \in Customers \cup {Nothing}, p \in Products \cup {Nothing} :
              DecideSale(w, s, c, p)
  BY <1>9, SaleKeeps
<1>10. CASE \E e \in FinancialEvents, s \in Sales \cup {Nothing}, content \in Contents :
               DecideFinancialEvent(w, e, s, content)
  BY <1>10, EntryKeeps, BackofficeAssumption DEF DecideFinancialEvent
<1>11. CASE \E e \in Entries \ FinancialEvents, s \in Sales, content \in Contents :
               DecideFiadoPayment(w, e, s, content) \/ DecideCashEvent(w, e, content)
  BY <1>11, EntryKeeps DEF DecideFiadoPayment, DecideCashEvent
<1> QED
  BY <1>1, <1>2, <1>3, <1>4, <1>5, <1>6, <1>7, <1>8, <1>9, <1>10, <1>11 DEF Request

LEMMA ProceedKeeps == ASSUME IInv, NEW w \in Workers, Proceed(w) PROVE IInv'
<1>1. CASE ClearRecipe(w) \/ ClearPurchase(w)
  BY <1>1, ClearKeeps DEF ClearRecipe, ClearPurchase
<1>2. CASE ClearTags(w)
  BY <1>2, ClearTagsKeeps
<1> QED
  BY <1>1, <1>2, CommitRemoveCategoryKeeps, CommitProductKeeps, CommitRecipeKeeps,
     CommitSupplyKeeps, CommitPurchaseKeeps, CommitTagsKeeps, CommitNoteKeeps, CommitCostKeeps,
     CommitSaleKeeps, CommitEntryKeeps DEF Proceed

LEMMA StatementsKeep == ASSUME IInv, Statement PROVE IInv'
<1>1. /\ Categories \cup Suppliers \cup Customers \cup Products \cup Supplies
            \subseteq Masters \ Purchases
      /\ FinancialEvents \subseteq Entries
  <2>1. Suppliers \cap Purchases = {}
    <3>1. Tables[2] = Suppliers /\ Tables[6] = Purchases /\ {2, 6} \subseteq DOMAIN Tables
      BY DEF Tables
    <3> QED
      BY <3>1, TablesAssumption
  <2> QED
    BY <2>1, Unions, TablesApart, BackofficeAssumption
<1>2. CASE \E x \in Masters \ Purchases : Save(x) \/ Remove(x)
  BY <1>2, RegisterKeeps
<1>3. CASE \E p \in Products : DeleteRecipe(p)
  BY <1>3, DeleteRecipeKeeps
<1>4. CASE \E c \in Costs : CreateCost(c)
  BY <1>4, CreateCostKeeps
<1>5. CASE \E s \in Sales : CancelSale(s)
  BY <1>5, CancelSaleKeeps
<1>6. CASE \E e \in FinancialEvents, content \in Contents : AnswerFinancialEvent(e, content)
  BY <1>1, <1>6, AnswerKeeps DEF AnswerFinancialEvent
<1>7. CASE \E e \in Entries \ FinancialEvents, content \in Contents : AnswerEntry(e, content)
  BY <1>7, AnswerKeeps
<1> QED
  BY <1>1, <1>2, <1>3, <1>4, <1>5, <1>6, <1>7
     DEF Statement, SaveCategory, SaveSupplier, SaveCustomer, RemoveSupplier, RemoveCustomer,
         RemoveProduct, RemoveSupply

LEMMA Inductive == ASSUME IInv, [Next]_vars PROVE IInv'
<1>1. CASE UNCHANGED vars
  BY <1>1, StutterKeeps
<1>2. CASE Statement
  BY <1>2, StatementsKeep
<1>3. ASSUME NEW w \in Workers, Request(w) \/ Proceed(w) \/ Aborts(w) PROVE IInv'
  BY <1>3, RequestKeeps, ProceedKeeps, AbortKeeps
<1> QED
  BY <1>1, <1>2, <1>3 DEF Next

LEMMA Invariantly == Spec => []IInv
<1>1. Init => IInv
  BY Initially
<1>2. IInv /\ [Next]_vars => IInv'
  BY Inductive
<1> QED
  BY <1>1, <1>2, PTL DEF Spec

(***************************************************************************)
(* Theorems.                                                               *)
(***************************************************************************)

\* Two products share a SKU only where saves overlapped, for any number of saves
\* (products.service.ts compares the SKUs before it writes).
THEOREM DistinctSkus == Spec => []SkusAreDistinct
<1>1. IInv => SkusAreDistinct
  BY DEF IInv, Kept
<1> QED
  BY <1>1, Invariantly, PTL

LEMMA WholeIsOneSave ==
    ASSUME NEW x \in Owners, parts[x] \subseteq Parts, Whole(x)
    PROVE  Cardinality({part.by : part \in parts[x]}) <= 1
<1>1. PICK save \in Nat : \A part \in parts[x] : part.by = save
  BY DEF Whole
<1> DEFINE by == {part.by : part \in parts[x]}
<1>2. by \subseteq {save}
  BY <1>1
<1> HIDE DEF by
<1>3. by = {} \/ by = {save}
  BY <1>2
<1>4. Cardinality({}) = 0 /\ Cardinality({save}) = 1
  BY FS_EmptySet, FS_Singleton
<1>5. Cardinality(by) <= 1
  BY <1>3, <1>4
<1> QED
  BY <1>5 DEF by

\* The rows have their types; variants, recipes, histories and items are those of one save, and the
\* timeline names the tags there are, but where saves overlapped (products.service.ts,
\* supplies.service.ts, purchases.service.ts, crm.service.ts).
THEOREM WholeSaves == Spec => []SavesAreWhole
<1>1. IInv => SavesAreWhole
  <2>1. SUFFICES ASSUME IInv PROVE SavesAreWhole
    OBVIOUS
  <2>2. TypeOK
    BY <2>1, TypedIsTypeOK DEF IInv
  <2>3. ASSUME NEW x \in Owners, Whole(x)
        PROVE  Cardinality({part.by : part \in parts[x]}) <= 1
    BY <2>1, <2>3, WholeIsOneSave DEF IInv, Typed, RowsOK
  <2>4. \A x \in Owners : Whole(x) \/ x \in raced \ (Products \cup Supplies)
    BY <2>1, TablesApart DEF IInv, Kept, PartsWhole, Owners
  <2> QED
    BY <2>1, <2>2, <2>3, <2>4 DEF SavesAreWhole, IInv, Kept, TagsTold
<1> QED
  BY <1>1, Invariantly, PTL

\* What is stored names rows that were there, and no product keeps a removed category, but where
\* the decision overlapped the removal (categories.service.ts, products.service.ts).
THEOREM NamedRowsExist == Spec => []ReferencesHold
<1>1. IInv => ReferencesHold
  BY DEF IInv, Kept
<1> QED
  BY <1>1, Invariantly, PTL

\* A financial event that was answered as stored is stored with the content that was sent
\* (financial-events.service.ts).
THEOREM AnswersAgree == Spec => []AgreedIsStored
<1>1. IInv => AgreedIsStored
  BY DEF IInv, Kept
<1> QED
  BY <1>1, Invariantly, PTL

(***************************************************************************)
(* What is settled stays.                                                  *)
(***************************************************************************)
CostsStay ==
    \A c \in Costs : cost[c].status \in {"paid", "canceled"} => cost'[c] = cost[c] \/ c \in raced'
SalesStay == \A s \in Sales : sale[s] = "canceled" => sale'[s] = "canceled"
EntriesStay == \A e \in Entries : entry[e] # Nothing => entry'[e] = entry[e]

LEMMA SettledElsewhere ==
    ASSUME UNCHANGED <<cost, sale, entry>>
    PROVE  CostsStay /\ SalesStay /\ EntriesStay
BY DEF CostsStay, SalesStay, EntriesStay

LEMMA CostStays ==
    ASSUME IInv, NEW w \in Workers, CommitCost(w)
    PROVE  CostsStay /\ SalesStay /\ EntriesStay
<1> DEFINE j == job[w]
<1>1. PICK c \in Rows : c = j.row
  BY Committing DEF CommitCost
<1>2. Deciding(w, "cost") /\ Commits(w, {c}) /\ UNCHANGED <<sale, entry>>
  BY <1>1 DEF CommitCost
<1>3. j.kind = "cost" /\ (~j.stale => Holds(j)) /\ (c \in raced' <=> j.stale)
  BY <1>1, <1>2, Committing
<1>4. ~j.stale => cost[c].status = "pending"
  BY <1>1, <1>3 DEF Holds
<1>5. \A x \in Costs \ {c} : cost'[x] = cost[x]
  BY <1>1 DEF CommitCost, IInv, Typed, RowsOK
<1>6. CostsStay
  BY <1>3, <1>4, <1>5 DEF CostsStay
<1> QED
  BY <1>2, <1>6 DEF SalesStay, EntriesStay

LEMMA Stays == ASSUME IInv, [Next]_vars PROVE CostsStay /\ SalesStay /\ EntriesStay
<1>1. CASE UNCHANGED vars
  BY <1>1, SettledElsewhere DEF vars, rows
<1>2. CASE Statement
  <2>1. ASSUME NEW c \in Costs, CreateCost(c) PROVE CostsStay /\ SalesStay /\ EntriesStay
    <3>1. cost[c].status = "none" /\ cost' = [cost EXCEPT ![c].status = "pending"]
      BY <2>1 DEF CreateCost
    <3>2. \A x \in Costs \ {c} : cost'[x] = cost[x]
      BY <3>1 DEF IInv, Typed, RowsOK
    <3>3. UNCHANGED <<sale, entry>>
      BY <2>1 DEF CreateCost
    <3> QED
      BY <3>1, <3>2, <3>3 DEF CostsStay, SalesStay, EntriesStay
  <2>2. ASSUME NEW s \in Sales, CancelSale(s) PROVE CostsStay /\ SalesStay /\ EntriesStay
    <3>1. sale' = [sale EXCEPT ![s] = "canceled"] /\ UNCHANGED <<cost, entry>>
      BY <2>2 DEF CancelSale
    <3> QED
      BY <3>1 DEF CostsStay, SalesStay, EntriesStay, IInv, Typed, RowsOK
  <2>3. ASSUME NEW x, Save(x) \/ Remove(x) \/ DeleteRecipe(x)
        PROVE  CostsStay /\ SalesStay /\ EntriesStay
    BY <2>3, SettledElsewhere DEF Save, Remove, DeleteRecipe
  <2>4. ASSUME NEW e, NEW content, AnswerEntry(e, content)
        PROVE  CostsStay /\ SalesStay /\ EntriesStay
    BY <2>4, SettledElsewhere DEF AnswerEntry, rows
  <2> QED
    BY <1>2, <2>1, <2>2, <2>3, <2>4
       DEF Statement, SaveCategory, SaveSupplier, SaveCustomer, RemoveSupplier, RemoveCustomer,
           RemoveProduct, RemoveSupply, AnswerFinancialEvent
<1>3. ASSUME NEW w \in Workers, Request(w) PROVE CostsStay /\ SalesStay /\ EntriesStay
  <2>1. UNCHANGED rows
    BY <1>3 DEF Request, DecideRemoveCategory, DecideProduct, DecideRecipe, DecideSupply,
          DecidePurchase, DecideTags, DecideNote, DecideTask, EditCost, CancelCost, PayCost,
          DecideSale, DecideFinancialEvent, DecideFiadoPayment, DecideCashEvent, DecideEntry,
          Decides
  <2> QED
    BY <2>1, SettledElsewhere DEF rows
<1>4. ASSUME NEW w \in Workers, Proceed(w) PROVE CostsStay /\ SalesStay /\ EntriesStay
  <2>1. CASE CommitCost(w)
    BY <2>1, CostStays
  <2>2. CASE CommitSale(w)
    <3>1. /\ sale[job[w].row] = "none" /\ sale' = [sale EXCEPT ![job[w].row] = "active"]
          /\ UNCHANGED <<cost, entry>>
      BY <2>2 DEF CommitSale
    <3> QED
      BY <3>1 DEF CostsStay, SalesStay, EntriesStay, IInv, Typed, RowsOK
  <2>3. CASE CommitEntry(w)
    <3>1. /\ entry[job[w].row] = Nothing /\ entry' = [entry EXCEPT ![job[w].row] = job[w].to]
          /\ UNCHANGED <<cost, sale>>
      BY <2>3 DEF CommitEntry
    <3> QED
      BY <3>1 DEF CostsStay, SalesStay, EntriesStay, IInv, Typed, RowsOK
  <2>4. CASE ClearRecipe(w) \/ ClearPurchase(w) \/ ClearTags(w)
    BY <2>4, SettledElsewhere DEF ClearRecipe, ClearPurchase, Clear, ClearTags, rows
  <2>5. CASE CommitRemoveCategory(w) \/ CommitProduct(w) \/ CommitRecipe(w) \/ CommitSupply(w)
                \/ CommitPurchase(w) \/ CommitTags(w) \/ CommitNote(w)
    BY <2>5, SettledElsewhere DEF CommitRemoveCategory, CommitProduct, CommitRecipe, CommitSupply,
          CommitPurchase, CommitTags, CommitNote
  <2> QED
    BY <1>4, <2>1, <2>2, <2>3, <2>4, <2>5 DEF Proceed
<1>5. ASSUME NEW w \in Workers, Aborts(w) PROVE CostsStay /\ SalesStay /\ EntriesStay
  BY <1>5, SettledElsewhere DEF Aborts, rows
<1> QED
  BY <1>1, <1>2, <1>3, <1>4, <1>5 DEF Next

\* A cost that was paid or cancelled is written again only where requests overlapped; a cancelled
\* sale and a stored entry never (costs.service.ts, sales.service.ts, financial-events.service.ts).
THEOREM SettledIsKept == Spec => SettledStays
<1> DEFINE Stay ==
             /\ \A c \in Costs : cost[c].status \in {"paid", "canceled"} =>
                   cost'[c] = cost[c] \/ c \in raced'
             /\ \A s \in Sales : sale[s] = "canceled" => sale'[s] = "canceled"
             /\ \A e \in Entries : entry[e] # Nothing => entry'[e] = entry[e]
<1>1. IInv /\ [Next]_vars => Stay
  BY Stays DEF CostsStay, SalesStay, EntriesStay
<1> QED
  BY <1>1, Invariantly, PTL DEF Spec, SettledStays
===============================================================================
