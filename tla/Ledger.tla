-------------------------------- MODULE Ledger --------------------------------
(***************************************************************************)
(* What the events of the devices and the screens of the owner write to the *)
(* stock, the sales, the orders and the cash sessions of one company: the   *)
(* materializers of src/backend/src/modules/sync, the products service and  *)
(* the post-sale actions of the owner.                                      *)
(*                                                                          *)
(* Every request is a transaction at READ COMMITTED that reads committed    *)
(* rows, decides, and commits what it decided; rows are not locked between. *)
(* A decision that is refused writes none of these rows and is no step.     *)
(* "stale" marks a decision about a row that was written since, "raced" the *)
(* rows such a decision wrote: they may break what the others keep.         *)
(***************************************************************************)
EXTENDS Integers, FiniteSets

CONSTANTS Products, Varied,   \* products, and those sold by variant
          Sales, Orders, CashSessions, Receipts,
          Deductions, Movements, \* local identities of events
          ProductOf,          \* the product of a deduction, and of a sale
          Total,              \* the amount of a sale
          StockLevels,        \* what the owner may type as a stock
          Workers, Budgets, MaxSequence, \* bounds for the model checker
          Nothing

Rows == Products \cup Sales \cup Orders \cup CashSessions \cup Receipts \cup Deductions
            \cup Movements
Kinds == {"save", "deduct", "sale", "convert", "receipt", "order", "cash", "movement",
          "return", "cancel"}

ASSUME LedgerAssumption ==
    /\ Varied \subseteq Products
    /\ ProductOf \in [Deductions \cup Sales -> Products]
    /\ Total \in Nat \ {0} /\ StockLevels \subseteq Nat /\ MaxSequence \in Nat
    /\ IsFiniteSet(Workers) /\ IsFiniteSet(Deductions)
    /\ Nothing \notin Rows \cup Nat
    /\ Budgets \subseteq [Kinds -> Nat]

VARIABLES product,  \* stock, how often it was saved (the id of its variant), removed
          deducted, \* the variant, or the save, a stored deduction was counted in
          sale,     \* status, receipt, order, and the money given back
          order,    \* status, cancelledAt, the sale it became, the last local sequence
          cash,     \* status and last local sequence
          movement, \* the cash session of a stored movement; was it closed already?
          saved,    \* history: the stock that was saved last, and what returned since
          job,      \* the transaction of each worker
          raced,    \* history: rows written from a stale decision
          budget    \* requests still to come

rows == <<product, deducted, sale, order, cash, movement, saved>>
vars == <<rows, job, raced, budget>>

OrderStatuses == {"open", "closed", "canceled", "converted"}
Job == [kind: Kinds, row: Rows, order: Orders \cup {Nothing}, receipt: Receipts \cup {Nothing},
        cash: CashSessions \cup {Nothing}, status: OrderStatuses \cup {Nothing},
        number: Nat, flag: BOOLEAN, reads: SUBSET Rows, stale: BOOLEAN]

TypeOK ==
    /\ product \in [Products -> [stock: Int, variant: Nat, removed: BOOLEAN]]
    /\ deducted \in [Deductions -> Nat \cup {Nothing}]
    /\ sale \in [Sales -> [status: {"none", "active", "refunded", "canceled"},
                           receipt: Receipts \cup {Nothing}, order: Orders \cup {Nothing},
                           returned: Nat]]
    /\ order \in [Orders -> [status: OrderStatuses \cup {"none"}, cancelled: BOOLEAN,
                             sale: Sales \cup {Nothing}, sequence: Nat]]
    /\ cash \in [CashSessions -> [status: {"none", "open", "closed"}, sequence: Nat]]
    /\ movement \in [Movements -> [stored: BOOLEAN, late: BOOLEAN]]
    /\ saved \in [Products -> Nat]
    /\ job \in [Workers -> Job \cup {Nothing}]
    /\ raced \subseteq Rows
    /\ budget \in [Kinds -> Nat]

Init ==
    /\ product = [p \in Products |-> [stock |-> 1, variant |-> 0, removed |-> FALSE]]
    /\ deducted = [d \in Deductions |-> Nothing]
    /\ sale = [s \in Sales |-> [status |-> "none", receipt |-> Nothing, order |-> Nothing,
                                returned |-> 0]]
    /\ order = [o \in Orders |-> [status |-> "none", cancelled |-> FALSE, sale |-> Nothing,
                                  sequence |-> 0]]
    /\ cash = [c \in CashSessions |-> [status |-> "none", sequence |-> 0]]
    /\ movement = [m \in Movements |-> [stored |-> FALSE, late |-> FALSE]]
    /\ saved = [p \in Products |-> 1]
    /\ job = [w \in Workers |-> Nothing]
    /\ raced = {}
    /\ budget \in Budgets

------------------------------------------------------------------------------
Spend(kind) == budget[kind] > 0 /\ budget' = [budget EXCEPT ![kind] = @ - 1]
Blank(kind, row) ==
    [kind |-> kind, row |-> row, order |-> Nothing, receipt |-> Nothing, cash |-> Nothing,
     status |-> Nothing, number |-> 0, flag |-> FALSE, reads |-> {row}, stale |-> FALSE]

Decides(w, decision) ==
    /\ job[w] = Nothing
    /\ Spend(decision.kind)
    /\ job' = [job EXCEPT ![w] = decision]
    /\ UNCHANGED <<rows, raced>>

Deciding(w, kind) == job[w] # Nothing /\ job[w].kind = kind

\* The jobs once "written" was written: those that read any of it are stale.
Staled(written) ==
    [v \in Workers |-> IF job[v] # Nothing /\ job[v].reads \cap written # {}
                       THEN [job[v] EXCEPT !.stale = TRUE] ELSE job[v]]

Commits(w, written) ==
    /\ job' = [Staled(written) EXCEPT ![w] = Nothing]
    /\ raced' = IF job[w].stale THEN raced \cup written ELSE raced
    /\ UNCHANGED budget

\* A unique key, an update of a row that is gone, a timeout or the end of the server.
Aborts(w) ==
    /\ job[w] # Nothing
    /\ job' = [job EXCEPT ![w] = Nothing]
    /\ UNCHANGED <<rows, raced, budget>>

------------------------------------------------------------------------------
(***************************************************************************)
(* Products and their stock.                                               *)
(***************************************************************************)

\* Saving a product writes the stock that was typed, and creates its variants anew.
SaveProduct(p) ==
    /\ Spend("save")
    /\ \E stock \in StockLevels, removed \in BOOLEAN :
          /\ product' = [product EXCEPT ![p] =
                            [stock |-> stock, variant |-> @.variant + 1, removed |-> removed]]
          /\ saved' = [saved EXCEPT ![p] = stock]
    /\ job' = Staled({p})
    /\ UNCHANGED <<deducted, sale, order, cash, movement, raced>>

RemoveProduct(p) ==
    /\ Spend("save")
    /\ product' = [product EXCEPT ![p].removed = TRUE]
    /\ job' = Staled({p})
    /\ UNCHANGED <<deducted, sale, order, cash, movement, saved, raced>>

\* The device names the variant it knows: one that is gone is refused.
DecideDeduction(w, d) ==
    LET p == ProductOf[d] IN
    /\ deducted[d] = Nothing
    /\ ~product[p].removed /\ product[p].stock >= 1
    /\ Decides(w, [Blank("deduct", d) EXCEPT !.number = product[p].variant, !.reads = {d, p}])

\* Mutant: the stock is written as the decision computed it.
CommitDeduction_Absolute(w) ==
    LET d == job[w].row
        p == ProductOf[d]
    IN
    /\ Deciding(w, "deduct")
    /\ deducted[d] = Nothing
    /\ p \in Varied => job[w].number = product[p].variant
    /\ deducted' = [deducted EXCEPT ![d] = product[p].variant]
    /\ product' = [product EXCEPT ![p].stock = IF job[w].stale THEN @ ELSE @ - 1]
    /\ Commits(w, {d, p})
    /\ UNCHANGED <<sale, order, cash, movement, saved>>

CommitDeduction(w) ==
    LET d == job[w].row
        p == ProductOf[d]
    IN
    /\ Deciding(w, "deduct")
    /\ deducted[d] = Nothing
    /\ p \in Varied => job[w].number = product[p].variant
    /\ deducted' = [deducted EXCEPT ![d] = product[p].variant]
    /\ product' = [product EXCEPT ![p].stock = @ - 1]
    /\ Commits(w, {d, p})
    /\ UNCHANGED <<sale, order, cash, movement, saved>>

------------------------------------------------------------------------------
(***************************************************************************)
(* Sales, receipts and orders.                                             *)
(***************************************************************************)

\* Mutant: an order that became another sale is not refused.
Convertible_Again(o, s) == ~order[o].cancelled /\ order[o].status # "canceled"

Convertible(o, s) ==
    /\ ~order[o].cancelled /\ order[o].status # "canceled"
    /\ order[o].status = "converted" => s # Nothing /\ order[o].sale = s
    /\ order[o].sale \in {Nothing, s}

Free(r) == r = Nothing \/ \A s \in Sales : sale[s].receipt # r

\* A sale of an order that is not stored yet is stored without it.
DecideSale(w, s, o, r) ==
    LET found == IF o # Nothing /\ order[o].status # "none" THEN o ELSE Nothing IN
    /\ sale[s].status = "none"
    /\ found # Nothing => Convertible(o, Nothing)
    /\ Free(r)
    /\ Decides(w, [Blank("sale", s) EXCEPT !.order = found, !.receipt = r,
                                           !.reads = {s, found, r} \ {Nothing}])

Converted(o, s) == [order EXCEPT ![o] = [@ EXCEPT !.status = "converted", !.sale = s]]

CommitSale(w) ==
    LET j == job[w] IN
    /\ Deciding(w, "sale")
    /\ sale[j.row].status = "none"
    /\ sale' = [sale EXCEPT ![j.row] =
                   [@ EXCEPT !.status = "active", !.receipt = j.receipt, !.order = j.order]]
    /\ order' = IF j.order = Nothing THEN order ELSE Converted(j.order, j.row)
    /\ Commits(w, {j.row, j.order, j.receipt} \ {Nothing})
    /\ UNCHANGED <<product, deducted, cash, movement, saved>>

\* Another event of a sale that exists converts the order it names.
DecideConversion(w, s, o) ==
    /\ sale[s].status # "none"
    /\ order[o].status # "none" /\ Convertible(o, s) /\ order[o].sale # s
    /\ Decides(w, [Blank("convert", s) EXCEPT !.order = o, !.reads = {s, o}])

\* convertedSaleId is unique: a sale cannot become that of a second order.
CommitConversion(w) ==
    /\ Deciding(w, "convert")
    /\ \A o \in Orders \ {job[w].order} : order[o].sale # job[w].row
    /\ order' = Converted(job[w].order, job[w].row)
    /\ sale' = [sale EXCEPT ![job[w].row].order = job[w].order]
    /\ Commits(w, {job[w].order, job[w].row})
    /\ UNCHANGED <<product, deducted, cash, movement, saved>>

DecideReceipt(w, s, r) ==
    /\ sale[s].status # "none" /\ Free(r)
    /\ Decides(w, [Blank("receipt", s) EXCEPT !.receipt = r, !.reads = {s, r}])

CommitReceipt(w) ==
    /\ Deciding(w, "receipt")
    /\ sale' = [sale EXCEPT ![job[w].row].receipt = job[w].receipt]
    /\ Commits(w, {job[w].receipt})
    /\ UNCHANGED <<product, deducted, order, cash, movement, saved>>

\* An older event of a stored order is refused, as is one of a converted order, and one that
\* opens a cancelled order.
DecideOrder(w, o, status, sequence) ==
    /\ order[o].status # "none" =>
          /\ sequence >= order[o].sequence
          /\ order[o].sale = Nothing /\ order[o].status # "converted"
          /\ order[o].cancelled => status # "open"
    /\ Decides(w, [Blank("order", o) EXCEPT !.status = status, !.number = sequence,
                      !.order = IF order[o].status = "none" THEN Nothing ELSE o,
                      !.flag = order[o].cancelled \/ status = "canceled"])

\* The row is created, or updated by its id with the cancellation that was read.
CommitOrder(w) ==
    LET j == job[w] IN
    /\ Deciding(w, "order")
    /\ j.order = Nothing => order[j.row].status = "none"
    /\ order' = [order EXCEPT ![j.row] =
                    [@ EXCEPT !.status = j.status, !.sequence = j.number, !.cancelled = j.flag]]
    /\ Commits(w, {j.row})
    /\ UNCHANGED <<product, deducted, sale, cash, movement, saved>>

------------------------------------------------------------------------------
(***************************************************************************)
(* Cash sessions.                                                          *)
(***************************************************************************)

DecideCash(w, c, status, sequence) ==
    /\ cash[c].status # "none" => sequence >= cash[c].sequence
    /\ cash[c].status = "closed" => status = "closed"
    /\ Decides(w, [Blank("cash", c) EXCEPT !.status = status, !.number = sequence,
                      !.cash = IF cash[c].status = "none" THEN Nothing ELSE c])

CommitCash(w) ==
    LET j == job[w] IN
    /\ Deciding(w, "cash")
    /\ j.cash = Nothing => cash[j.row].status = "none"
    /\ cash' = [cash EXCEPT ![j.row] = [status |-> j.status, sequence |-> j.number]]
    /\ Commits(w, {j.row})
    /\ UNCHANGED <<product, deducted, sale, order, movement, saved>>

\* Mutant: the session of a movement may be closed.
DecideMovement_Late(w, m, c) ==
    /\ ~movement[m].stored
    /\ Decides(w, [Blank("movement", m) EXCEPT !.reads = {m, c},
                      !.cash = IF cash[c].status = "none" THEN Nothing ELSE c])

\* A movement of a session that is not stored is stored without it.
DecideMovement(w, m, c) ==
    /\ ~movement[m].stored
    /\ cash[c].status # "closed"
    /\ Decides(w, [Blank("movement", m) EXCEPT !.reads = {m, c},
                      !.cash = IF cash[c].status = "none" THEN Nothing ELSE c])

CommitMovement(w) ==
    LET j == job[w] IN
    /\ Deciding(w, "movement")
    /\ ~movement[j.row].stored
    /\ movement' = [movement EXCEPT ![j.row] =
          [stored |-> TRUE, late |-> j.cash # Nothing /\ cash[j.cash].status = "closed"]]
    /\ Commits(w, {j.row})
    /\ UNCHANGED <<product, deducted, sale, order, cash, saved>>

------------------------------------------------------------------------------
(***************************************************************************)
(* What the owner does to a sale afterwards.                               *)
(***************************************************************************)

\* Mutant: what was returned before is not counted.
DecideReturn_Alone(w, s, amount, restock) ==
    /\ sale[s].status = "active"
    /\ amount <= Total
    /\ Decides(w, [Blank("return", s) EXCEPT !.number = amount, !.flag = restock,
          !.status = IF amount = Total THEN "closed" ELSE Nothing])

\* "number" is what is given back, "flag" whether it returns to the stock.
DecideReturn(w, s, amount, restock) ==
    /\ sale[s].status = "active"
    /\ sale[s].returned + amount <= Total
    /\ Decides(w, [Blank("return", s) EXCEPT !.number = amount, !.flag = restock,
          !.status = IF sale[s].returned + amount = Total THEN "closed" ELSE Nothing])

\* The stock of the product goes up, also when what was sold is a variant of it.
CommitReturn(w) ==
    LET j == job[w]
        p == ProductOf[j.row]
    IN
    /\ Deciding(w, "return")
    /\ sale' = [sale EXCEPT ![j.row] =
                   [@ EXCEPT !.returned = sale[j.row].returned + j.number,
                             !.status = IF j.status = "closed" THEN "refunded"
                                        ELSE sale[j.row].status]]
    /\ IF j.flag /\ p \notin Varied
       THEN /\ product' = [product EXCEPT ![p].stock = @ + 1]
            /\ saved' = [saved EXCEPT ![p] = @ + 1]
       ELSE UNCHANGED <<product, saved>>
    /\ Commits(w, {j.row})
    /\ UNCHANGED <<deducted, order, cash, movement>>

\* A sale that was returned in part, or in whole, may be cancelled too.
DecideCancel(w, s) ==
    /\ sale[s].status \in {"active", "refunded"}
    /\ Decides(w, Blank("cancel", s))

CommitCancel(w) ==
    /\ Deciding(w, "cancel")
    /\ sale' = [sale EXCEPT ![job[w].row].status = "canceled"]
    /\ Commits(w, {job[w].row})
    /\ UNCHANGED <<product, deducted, order, cash, movement, saved>>

------------------------------------------------------------------------------
Request(w) ==
    \/ \E d \in Deductions : DecideDeduction(w, d)
    \/ \E s \in Sales, o \in Orders \cup {Nothing}, r \in Receipts \cup {Nothing} :
          DecideSale(w, s, o, r)
    \/ \E s \in Sales, o \in Orders : DecideConversion(w, s, o)
    \/ \E s \in Sales, r \in Receipts : DecideReceipt(w, s, r)
    \/ \E o \in Orders, status \in OrderStatuses, n \in 0 .. MaxSequence :
          DecideOrder(w, o, status, n)
    \/ \E c \in CashSessions, status \in {"open", "closed"}, n \in 0 .. MaxSequence :
          DecideCash(w, c, status, n)
    \/ \E m \in Movements, c \in CashSessions : DecideMovement(w, m, c)
    \/ \E s \in Sales, amount \in 1 .. Total, restock \in BOOLEAN :
          DecideReturn(w, s, amount, restock)
    \/ \E s \in Sales : DecideCancel(w, s)

Commit(w) ==
    \/ CommitDeduction(w) \/ CommitSale(w) \/ CommitConversion(w) \/ CommitReceipt(w)
    \/ CommitOrder(w) \/ CommitCash(w) \/ CommitMovement(w) \/ CommitReturn(w) \/ CommitCancel(w)

Next ==
    \/ \E w \in Workers : Request(w) \/ Commit(w) \/ Aborts(w)
    \/ \E p \in Products : SaveProduct(p) \/ RemoveProduct(p)

Spec == Init /\ [][Next]_vars

------------------------------------------------------------------------------
(***************************************************************************)
(* What the ledger promises.                                               *)
(***************************************************************************)

\* The stock is what was saved, less each deduction stored since, once, however many overlap;
\* only a save forgets deductions.  Those that overlap may all find the last piece, but no more
\* are stored than overlap.
StockAccounts ==
    /\ TypeOK
    /\ \A p \in Products : product[p].stock + Cardinality(Workers) >= 0
    /\ \A p \in Products :
          product[p].stock = saved[p] -
            Cardinality({d \in Deductions : ProductOf[d] = p /\ deducted[d] = product[p].variant})

\* No two sales have one receipt or come from one order, but where the decisions overlapped:
\* a receipt has no unique key, and the later of two conversions overwrites the order.
SalesAreDistinct ==
    \A s, t \in Sales :
        s # t =>
            /\ sale[s].receipt = sale[t].receipt => sale[s].receipt \in raced \cup {Nothing}
            /\ sale[s].order = sale[t].order => sale[s].order \in raced \cup {Nothing}

\* The returns of a sale do not exceed it.
ReturnsWithinSale == \A s \in Sales : sale[s].returned <= Total \/ s \in raced

\* Movements and late events do not change what is over: a closed cash session takes no
\* movement and stays closed, a converted order keeps its sale, a cancelled one is not opened,
\* and the newest event of a row wins.
FinishedStaysFinished ==
    [][/\ \A m \in Movements : movement'[m].late => m \in raced'
       /\ \A c \in CashSessions \ raced' :
             /\ cash[c].status = "closed" => cash'[c].status = "closed"
             /\ cash'[c].sequence >= cash[c].sequence
       /\ \A o \in Orders \ raced' :
             /\ order[o].sale # Nothing => order'[o] = order[o]
             /\ order[o].cancelled => order'[o].status # "open"
             /\ order'[o].sequence >= order[o].sequence]_vars

==============================================================================
