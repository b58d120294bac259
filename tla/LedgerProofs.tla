----------------------------- MODULE LedgerProofs -----------------------------
(***************************************************************************)
(* The stock adds up, sales are distinct, returns stay within their sale    *)
(* and what is over stays over, for any number of products, sales, events   *)
(* and of transactions that overlap.                                        *)
(*                                                                          *)
(* The argument is that of a check that is not repeated: what a transaction *)
(* decided still holds when it commits, unless a row it read was written    *)
(* since ("Fresh"); and what it decided keeps the rows in order.            *)
(***************************************************************************)
EXTENDS Ledger, FiniteSetTheorems, TLAPS

(***************************************************************************)
(* What each kind of transaction carries, and which rows it has read.      *)
(***************************************************************************)
Fits(j) ==
    /\ j.kind = "deduct" => j.row \in Deductions
    /\ j.kind = "sale" => j.row \in Sales /\ {j.order, j.receipt} \ {Nothing} \subseteq j.reads
    /\ j.kind = "convert" => j.row \in Sales /\ j.order \in Orders /\ j.order \in j.reads
    /\ j.kind = "receipt" => j.row \in Sales /\ j.receipt \in Receipts /\ j.receipt \in j.reads
    /\ j.kind = "order" =>
          /\ j.row \in Orders /\ j.status \in OrderStatuses /\ j.row \in j.reads
          /\ j.flag => j.status # "open"
    /\ j.kind = "cash" =>
          j.row \in CashSessions /\ j.status \in {"open", "closed"} /\ j.row \in j.reads
    /\ j.kind = "movement" => j.row \in Movements /\ (j.cash # Nothing => j.cash \in j.reads)
    /\ j.kind = "return" => j.row \in Sales /\ j.row \in j.reads
    /\ j.kind = "cancel" => j.row \in Sales

JobsFit == \A w \in Workers : job[w] # Nothing => Fits(job[w])

Typed == TypeOK /\ JobsFit

(***************************************************************************)
(* How a commit changes the other transactions: it takes away none, and    *)
(* one that is not stale afterwards has read nothing that was written.     *)
(***************************************************************************)
Marked(j) == [j EXCEPT !.stale = TRUE]

LEMMA MarkedFits ==
    ASSUME NEW j \in Job, Fits(j)
    PROVE  /\ Marked(j) \in Job /\ Fits(Marked(j))
           /\ Marked(j).stale /\ Marked(j).kind = j.kind /\ Marked(j).row = j.row
<1>1. Marked(j) \in Job
  BY DEF Job, Marked
<1>2. /\ Marked(j).kind = j.kind /\ Marked(j).row = j.row /\ Marked(j).order = j.order
      /\ Marked(j).receipt = j.receipt /\ Marked(j).cash = j.cash
      /\ Marked(j).status = j.status /\ Marked(j).reads = j.reads /\ Marked(j).stale
      /\ Marked(j).flag = j.flag
  BY DEF Job, Marked
<1> QED
  BY <1>1, <1>2 DEF Fits

Spared(v, written) ==
    /\ job[v] # Nothing /\ ~job[v].stale
    /\ job'[v] = job[v] /\ job[v].reads \cap written = {}

LEMMA StaledJobs ==
    ASSUME Typed, NEW written
    PROVE  /\ Staled(written) \in [Workers -> Job \cup {Nothing}]
           /\ \A v \in Workers : Staled(written)[v] # Nothing =>
                 /\ job[v] # Nothing /\ Fits(Staled(written)[v])
                 /\ Staled(written)[v].kind = job[v].kind /\ Staled(written)[v].row = job[v].row
                 /\ ~Staled(written)[v].stale =>
                       /\ ~job[v].stale /\ Staled(written)[v] = job[v]
                       /\ job[v].reads \cap written = {}
<1> DEFINE touched(v) == job[v] # Nothing /\ job[v].reads \cap written # {}
<1>1. Staled(written) = [v \in Workers |-> IF touched(v) THEN Marked(job[v]) ELSE job[v]]
  BY DEF Staled, Marked
<1>2. ASSUME NEW v \in Workers
      PROVE  /\ job[v] \in Job \cup {Nothing}
             /\ job[v] # Nothing => job[v] \in Job /\ Fits(job[v])
  BY DEF Typed, TypeOK, JobsFit
<1>3. ASSUME NEW v \in Workers, touched(v)
      PROVE  /\ Marked(job[v]) \in Job /\ Fits(Marked(job[v]))
             /\ Marked(job[v]).stale /\ Marked(job[v]).kind = job[v].kind
             /\ Marked(job[v]).row = job[v].row
  BY <1>2, <1>3, MarkedFits
<1>4. \A v \in Workers : Staled(written)[v] = IF touched(v) THEN Marked(job[v]) ELSE job[v]
  BY <1>1
<1> HIDE DEF touched
<1>5. Staled(written) \in [Workers -> Job \cup {Nothing}]
  BY <1>1, <1>2, <1>3
<1>6. ASSUME NEW v \in Workers, Staled(written)[v] # Nothing
      PROVE  /\ job[v] # Nothing /\ Fits(Staled(written)[v])
             /\ Staled(written)[v].kind = job[v].kind /\ Staled(written)[v].row = job[v].row
             /\ ~Staled(written)[v].stale =>
                   /\ ~job[v].stale /\ Staled(written)[v] = job[v]
                   /\ job[v].reads \cap written = {}
  <2>1. CASE touched(v)
    <3>1. Staled(written)[v] = Marked(job[v]) /\ job[v] # Nothing
      BY <1>4, <2>1 DEF touched
    <3> QED
      BY <3>1, <1>3, <2>1
  <2>2. CASE ~touched(v)
    <3>1. Staled(written)[v] = job[v]
      BY <1>4, <2>2
    <3> QED
      BY <3>1, <1>2, <1>6, <2>2 DEF touched
  <2> QED
    BY <2>1, <2>2
<1> QED
  BY <1>5, <1>6

LEMMA CommitJobs ==
    ASSUME Typed, NEW w \in Workers, NEW written, written \subseteq Rows, job[w] # Nothing,
           Commits(w, written)
    PROVE  /\ job' \in [Workers -> Job \cup {Nothing}] /\ JobsFit'
           /\ raced \subseteq raced' /\ raced' \subseteq Rows /\ budget' = budget
           /\ job[w].stale => written \subseteq raced'
           /\ \A v \in Workers : job'[v] # Nothing =>
                 /\ v # w /\ job[v] # Nothing
                 /\ job'[v].kind = job[v].kind /\ job'[v].row = job[v].row
                 /\ ~job'[v].stale => Spared(v, written)
<1>1. job' = [Staled(written) EXCEPT ![w] = Nothing]
  BY DEF Commits
<1>2. Staled(written) \in [Workers -> Job \cup {Nothing}]
  BY StaledJobs
<1>3. job' \in [Workers -> Job \cup {Nothing}]
  BY <1>1, <1>2
<1>4. ASSUME NEW v \in Workers, job'[v] # Nothing
      PROVE  v # w /\ job'[v] = Staled(written)[v]
  BY <1>1, <1>2, <1>4
<1>5. ASSUME NEW v \in Workers, job'[v] # Nothing
      PROVE  /\ v # w /\ job[v] # Nothing /\ Fits(job'[v])
             /\ job'[v].kind = job[v].kind /\ job'[v].row = job[v].row
             /\ ~job'[v].stale => Spared(v, written)
  BY <1>4, <1>5, StaledJobs DEF Spared
<1>6. JobsFit'
  BY <1>5 DEF JobsFit, Fits
<1>7. /\ raced \subseteq raced' /\ raced' \subseteq Rows /\ budget' = budget
      /\ job[w].stale => written \subseteq raced'
  BY DEF Commits, Typed, TypeOK
<1> QED
  BY <1>3, <1>5, <1>6, <1>7

(***************************************************************************)
(* What a request decides is a transaction that fits, and nothing else     *)
(* changes.                                                                *)
(***************************************************************************)
LEMMA DecideJobs ==
    ASSUME Typed, NEW w \in Workers, NEW decision \in Job, Fits(decision),
           Decides(w, decision)
    PROVE  /\ Typed' /\ job[w] = Nothing /\ UNCHANGED <<rows, raced>>
           /\ \A v \in Workers : job'[v] # Nothing =>
                 IF v = w THEN job'[v] = decision ELSE job'[v] = job[v]
<1>1. UNCHANGED <<rows, raced>> /\ job[w] = Nothing
  BY DEF Decides
<1>2. job \in [Workers -> Job \cup {Nothing}] /\ job' = [job EXCEPT ![w] = decision]
  BY DEF Decides, Typed, TypeOK
<1>3. /\ job' \in [Workers -> Job \cup {Nothing}]
      /\ \A v \in Workers : job'[v] = IF v = w THEN decision ELSE job[v]
  BY <1>2
<1>4. JobsFit'
  BY <1>3 DEF JobsFit, Typed, Fits
<1>5. budget' \in [Kinds -> Nat]
  <2>1. budget \in [Kinds -> Nat]
    BY DEF Typed, TypeOK
  <2>2. /\ decision.kind \in Kinds /\ budget[decision.kind] > 0
        /\ budget' = [budget EXCEPT ![decision.kind] = @ - 1]
    BY DEF Decides, Spend, Job
  <2> QED
    BY <2>1, <2>2
<1>6. TypeOK'
  BY <1>1, <1>3, <1>5 DEF Typed, TypeOK, rows
<1> QED
  BY <1>1, <1>3, <1>4, <1>6 DEF Typed

LEMMA BlankFields ==
    ASSUME NEW kind \in Kinds, NEW row \in Rows
    PROVE  Blank(kind, row) \in Job /\ Blank(kind, row).kind = kind
BY DEF Blank, Job

(* The decision of each request, by name.                                  *)
Deduction(d) ==
    [Blank("deduct", d) EXCEPT !.number = product[ProductOf[d]].variant, !.reads = {d, ProductOf[d]}]
SaleOf(s, o, r) ==
    LET found == IF o # Nothing /\ order[o].status # "none" THEN o ELSE Nothing IN
    [Blank("sale", s) EXCEPT !.order = found, !.receipt = r, !.reads = {s, found, r} \ {Nothing}]
Conversion(s, o) == [Blank("convert", s) EXCEPT !.order = o, !.reads = {s, o}]
ReceiptOf(s, r) == [Blank("receipt", s) EXCEPT !.receipt = r, !.reads = {s, r}]
OrderChange(o, status, n) ==
    [Blank("order", o) EXCEPT !.status = status, !.number = n,
        !.order = IF order[o].status = "none" THEN Nothing ELSE o,
        !.flag = order[o].cancelled \/ status = "canceled"]
CashChange(c, status, n) ==
    [Blank("cash", c) EXCEPT !.status = status, !.number = n,
        !.cash = IF cash[c].status = "none" THEN Nothing ELSE c]
MovementOf(m, c) ==
    [Blank("movement", m) EXCEPT !.reads = {m, c},
        !.cash = IF cash[c].status = "none" THEN Nothing ELSE c]
ReturnOf(s, amount, restock) ==
    [Blank("return", s) EXCEPT !.number = amount, !.flag = restock,
        !.status = IF sale[s].returned + amount = Total THEN "closed" ELSE Nothing]

LEMMA DeductionFits ==
    ASSUME TypeOK, NEW d \in Deductions
    PROVE  /\ Deduction(d) \in Job /\ Fits(Deduction(d))
           /\ Deduction(d).kind = "deduct" /\ Deduction(d).row = d
<1>1. ProductOf[d] \in Products /\ product[ProductOf[d]].variant \in Nat
  BY LedgerAssumption DEF TypeOK
<1> QED
  BY <1>1 DEF Deduction, Blank, Job, Rows, Kinds, Fits

LEMMA SaleFits ==
    ASSUME TypeOK, NEW s \in Sales, NEW o \in Orders \cup {Nothing},
           NEW r \in Receipts \cup {Nothing}
    PROVE  /\ SaleOf(s, o, r) \in Job /\ Fits(SaleOf(s, o, r))
           /\ SaleOf(s, o, r).kind = "sale" /\ SaleOf(s, o, r).row = s
           /\ SaleOf(s, o, r).receipt = r
           /\ SaleOf(s, o, r).order # Nothing =>
                 SaleOf(s, o, r).order = o /\ order[o].status # "none"
<1> DEFINE found == IF o # Nothing /\ order[o].status # "none" THEN o ELSE Nothing
<1>1. found \in Orders \cup {Nothing} /\ (found # Nothing => found = o /\ order[o].status # "none")
  OBVIOUS
<1>2. SaleOf(s, o, r) =
        [Blank("sale", s) EXCEPT !.order = found, !.receipt = r, !.reads = {s, found, r} \ {Nothing}]
  BY DEF SaleOf
<1>3. SaleOf(s, o, r) =
        [kind |-> "sale", row |-> s, order |-> found, receipt |-> r, cash |-> Nothing,
         status |-> Nothing, number |-> 0, flag |-> FALSE, reads |-> {s, found, r} \ {Nothing},
         stale |-> FALSE]
  BY <1>2 DEF Blank
<1> HIDE DEF found
<1> QED
  BY <1>1, <1>3 DEF Job, Rows, Kinds, Fits

LEMMA ConversionFits ==
    ASSUME NEW s \in Sales, NEW o \in Orders
    PROVE  /\ Conversion(s, o) \in Job /\ Fits(Conversion(s, o))
           /\ Conversion(s, o).kind = "convert" /\ Conversion(s, o).order = o
BY DEF Conversion, Blank, Job, Rows, Kinds, Fits

LEMMA ReceiptFits ==
    ASSUME NEW s \in Sales, NEW r \in Receipts
    PROVE  /\ ReceiptOf(s, r) \in Job /\ Fits(ReceiptOf(s, r))
           /\ ReceiptOf(s, r).kind = "receipt" /\ ReceiptOf(s, r).receipt = r
BY DEF ReceiptOf, Blank, Job, Rows, Kinds, Fits

LEMMA OrderFits ==
    ASSUME TypeOK, NEW o \in Orders, NEW status \in OrderStatuses, NEW n \in Nat,
           order[o].cancelled => status # "open"
    PROVE  LET j == OrderChange(o, status, n) IN
           /\ j \in Job /\ Fits(j)
           /\ j.kind = "order" /\ j.row = o /\ j.status = status /\ j.number = n
<1>1. order[o].cancelled \in BOOLEAN
  BY DEF TypeOK
<1> DEFINE found == IF order[o].status = "none" THEN Nothing ELSE o
           flag == order[o].cancelled \/ status = "canceled"
<1>2. found \in Orders \cup {Nothing} /\ flag \in BOOLEAN /\ (flag => status # "open")
  BY <1>1
<1>3. OrderChange(o, status, n) =
        [Blank("order", o) EXCEPT !.status = status, !.number = n, !.order = found, !.flag = flag]
  BY DEF OrderChange
<1>4. OrderChange(o, status, n) =
        [kind |-> "order", row |-> o, order |-> found, receipt |-> Nothing, cash |-> Nothing,
         status |-> status, number |-> n, flag |-> flag, reads |-> {o}, stale |-> FALSE]
  BY <1>3 DEF Blank
<1> HIDE DEF found, flag
<1> QED
  BY <1>2, <1>4 DEF Job, Rows, Kinds, Fits

LEMMA CashFits ==
    ASSUME NEW c \in CashSessions, NEW status \in {"open", "closed"}, NEW n \in Nat
    PROVE  LET j == CashChange(c, status, n) IN
           /\ j \in Job /\ Fits(j)
           /\ j.kind = "cash" /\ j.row = c /\ j.status = status /\ j.number = n
<1> DEFINE found == IF cash[c].status = "none" THEN Nothing ELSE c
<1>1. found \in CashSessions \cup {Nothing}
  OBVIOUS
<1>2. CashChange(c, status, n) =
        [Blank("cash", c) EXCEPT !.status = status, !.number = n, !.cash = found]
  BY DEF CashChange
<1>3. CashChange(c, status, n) =
        [kind |-> "cash", row |-> c, order |-> Nothing, receipt |-> Nothing, cash |-> found,
         status |-> status, number |-> n, flag |-> FALSE, reads |-> {c}, stale |-> FALSE]
  BY <1>2 DEF Blank
<1> HIDE DEF found
<1> QED
  BY <1>1, <1>3 DEF Job, Rows, Kinds, Fits, OrderStatuses

LEMMA MovementFits ==
    ASSUME NEW m \in Movements, NEW c \in CashSessions
    PROVE  LET j == MovementOf(m, c) IN
           /\ j \in Job /\ Fits(j)
           /\ j.kind = "movement" /\ j.cash \in {c, Nothing}
<1> DEFINE found == IF cash[c].status = "none" THEN Nothing ELSE c
<1>1. found \in CashSessions \cup {Nothing} /\ found \in {c, Nothing}
  OBVIOUS
<1>2. MovementOf(m, c) = [Blank("movement", m) EXCEPT !.reads = {m, c}, !.cash = found]
  BY DEF MovementOf
<1>3. MovementOf(m, c) =
        [kind |-> "movement", row |-> m, order |-> Nothing, receipt |-> Nothing, cash |-> found,
         status |-> Nothing, number |-> 0, flag |-> FALSE, reads |-> {m, c}, stale |-> FALSE]
  BY <1>2 DEF Blank
<1> HIDE DEF found
<1> QED
  BY <1>1, <1>3 DEF Job, Rows, Kinds, Fits

LEMMA ReturnFits ==
    ASSUME NEW s \in Sales, NEW amount \in Nat, NEW restock \in BOOLEAN
    PROVE  LET j == ReturnOf(s, amount, restock) IN
           /\ j \in Job /\ Fits(j)
           /\ j.kind = "return" /\ j.row = s /\ j.number = amount
<1> DEFINE all == IF sale[s].returned + amount = Total THEN "closed" ELSE Nothing
<1>1. all \in OrderStatuses \cup {Nothing}
  BY DEF OrderStatuses
<1>2. ReturnOf(s, amount, restock) =
        [Blank("return", s) EXCEPT !.number = amount, !.flag = restock, !.status = all]
  BY DEF ReturnOf
<1>3. ReturnOf(s, amount, restock) =
        [kind |-> "return", row |-> s, order |-> Nothing, receipt |-> Nothing, cash |-> Nothing,
         status |-> all, number |-> amount, flag |-> restock, reads |-> {s}, stale |-> FALSE]
  BY <1>2 DEF Blank
<1> HIDE DEF all
<1> QED
  BY <1>1, <1>3 DEF Job, Rows, Kinds, Fits

LEMMA CancelFits ==
    ASSUME NEW s \in Sales
    PROVE  LET j == Blank("cancel", s) IN j \in Job /\ Fits(j) /\ j.kind = "cancel"
BY DEF Blank, Job, Rows, Kinds, Fits

(***************************************************************************)
(* What a transaction relies on when it commits, unless it is stale.       *)
(***************************************************************************)
Holds(v) ==
    LET j == job[v] IN
    /\ j.kind \in {"sale", "receipt"} => Free(j.receipt)
    /\ j.kind \in {"sale", "convert"} /\ j.order # Nothing => order[j.order].sale = Nothing
    /\ j.kind = "order" /\ order[j.row].status # "none" =>
          /\ j.number >= order[j.row].sequence
          /\ order[j.row].sale = Nothing
          /\ order[j.row].cancelled => j.status # "open"
    /\ j.kind = "cash" =>
          /\ cash[j.row].status = "closed" => j.status = "closed"
          /\ cash[j.row].status # "none" => j.number >= cash[j.row].sequence
    /\ j.kind = "movement" /\ j.cash # Nothing => cash[j.cash].status # "closed"
    /\ j.kind = "return" => sale[j.row].returned + j.number <= Total

Fresh == \A v \in Workers : job[v] # Nothing /\ ~job[v].stale => Holds(v)

(***************************************************************************)
(* How the rows are kept by decisions that hold.                           *)
(***************************************************************************)
OrdersNameSales ==
    \A s \in Sales, o \in Orders : sale[s].order = o => order[o].sale = s \/ o \in raced
ReceiptsDistinct ==
    \A s, t \in Sales :
        s # t /\ sale[s].receipt = sale[t].receipt => sale[s].receipt \in raced \cup {Nothing}
LateIsRaced == \A m \in Movements : movement[m].late => m \in raced
StatusesFit ==
    /\ \A o \in Orders : order[o].status = "none" =>
          order[o].sale = Nothing /\ ~order[o].cancelled /\ order[o].sequence = 0
    /\ \A o \in Orders : order[o].cancelled => order[o].status # "open"
    /\ \A c \in CashSessions : cash[c].status = "none" => cash[c].sequence = 0

Kept == OrdersNameSales /\ ReceiptsDistinct /\ ReturnsWithinSale /\ LateIsRaced /\ StatusesFit

(***************************************************************************)
(* How the stock is kept: by counting the deductions under way, each of    *)
(* which found a piece, and by the version of the product that each stored *)
(* deduction was counted in.                                               *)
(***************************************************************************)
Pending(p) ==
    {v \in Workers : job[v] # Nothing /\ job[v].kind = "deduct" /\ ProductOf[job[v].row] = p}
CountedIn(p) == {d \in Deductions : ProductOf[d] = p /\ deducted[d] = product[p].variant}

PendingFoundStock ==
    \A p \in Products : product[p].stock + Cardinality(Workers) >= Cardinality(Pending(p))
StockAddsUp == \A p \in Products : product[p].stock = saved[p] - Cardinality(CountedIn(p))
CountedBefore ==
    \A d \in Deductions : deducted[d] # Nothing => deducted[d] <= product[ProductOf[d]].variant

Stocked == PendingFoundStock /\ StockAddsUp /\ CountedBefore

IInv == Typed /\ Fresh /\ Kept /\ Stocked

LEMMA Initially == ASSUME Init PROVE IInv
<1>1. Typed
  <2>1. TypeOK
    <3>1. /\ product \in [Products -> [stock: Int, variant: Nat, removed: BOOLEAN]]
          /\ deducted \in [Deductions -> Nat \cup {Nothing}] /\ saved \in [Products -> Nat]
      BY DEF Init
    <3>2. sale \in [Sales -> [status: {"none", "active", "refunded", "canceled"},
                             receipt: Receipts \cup {Nothing}, order: Orders \cup {Nothing},
                             returned: Nat]]
      BY DEF Init
    <3>3. order \in [Orders -> [status: OrderStatuses \cup {"none"}, cancelled: BOOLEAN,
                               sale: Sales \cup {Nothing}, sequence: Nat]]
      BY DEF Init
    <3>4. /\ cash \in [CashSessions -> [status: {"none", "open", "closed"}, sequence: Nat]]
          /\ movement \in [Movements -> [stored: BOOLEAN, late: BOOLEAN]]
      BY DEF Init
    <3>5. job \in [Workers -> Job \cup {Nothing}] /\ raced \subseteq Rows
      BY DEF Init
    <3>6. budget \in [Kinds -> Nat]
      BY LedgerAssumption DEF Init
    <3> QED
      BY <3>1, <3>2, <3>3, <3>4, <3>5, <3>6 DEF TypeOK
  <2> QED
    BY <2>1 DEF Typed, JobsFit, Init
<1>2. Fresh
  BY DEF Fresh, Init
<1>3. Kept
  BY LedgerAssumption DEF Kept, OrdersNameSales, ReceiptsDistinct, ReturnsWithinSale, LateIsRaced,
        StatusesFit, Init, Rows
<1>4. Stocked
  <2>1. ASSUME NEW p \in Products PROVE Pending(p) = {} /\ CountedIn(p) = {}
    BY LedgerAssumption DEF Pending, CountedIn, Init
  <2>2. Cardinality({}) = 0 /\ Cardinality(Workers) \in Nat
    BY FS_EmptySet, FS_CardinalityType, LedgerAssumption
  <2>3. \A p \in Products : product[p].stock = 1 /\ saved[p] = 1
    BY DEF Init
  <2>4. ASSUME NEW p \in Products
        PROVE  Cardinality(Pending(p)) = 0 /\ Cardinality(CountedIn(p)) = 0
    BY <2>1, <2>2
  <2>6. PendingFoundStock /\ StockAddsUp
    BY <2>2, <2>3, <2>4 DEF PendingFoundStock, StockAddsUp
  <2>5. CountedBefore
    BY DEF CountedBefore, Init
  <2> QED
    BY <2>5, <2>6 DEF Stocked
<1> QED
  BY <1>1, <1>2, <1>3, <1>4 DEF IInv

(* Fewer transactions are under way after a step that adds no deduction.   *)
LEMMA PendingShrinks ==
    ASSUME NEW p \in Products,
           \A v \in Workers : job'[v] # Nothing /\ job'[v].kind = "deduct" =>
              job[v] # Nothing /\ job[v].kind = "deduct" /\ job'[v].row = job[v].row
    PROVE  /\ Cardinality(Pending(p)') <= Cardinality(Pending(p))
           /\ Cardinality(Pending(p)) \in Nat /\ Cardinality(Pending(p)') \in Nat
<1>1. Pending(p)' \subseteq Pending(p) /\ Pending(p) \subseteq Workers
  BY DEF Pending
<1>2. IsFiniteSet(Pending(p))
  BY <1>1, FS_Subset, LedgerAssumption
<1> QED
  BY <1>1, <1>2, FS_Subset, FS_CardinalityType

LEMMA CountedFinite ==
    ASSUME NEW p \in Products
    PROVE  IsFiniteSet(CountedIn(p)) /\ Cardinality(CountedIn(p)) \in Nat
<1>1. CountedIn(p) \subseteq Deductions
  BY DEF CountedIn
<1> QED
  BY <1>1, FS_Subset, FS_CardinalityType, LedgerAssumption

(* A step that leaves the products alone and adds no deduction.            *)
LEMMA StockUntouched ==
    ASSUME Typed, Stocked, UNCHANGED <<product, deducted, saved>>,
           \A v \in Workers : job'[v] # Nothing /\ job'[v].kind = "deduct" =>
              job[v] # Nothing /\ job[v].kind = "deduct" /\ job'[v].row = job[v].row
    PROVE  Stocked'
<1>1. ASSUME NEW p \in Products
      PROVE  product[p].stock + Cardinality(Workers) >= Cardinality(Pending(p)')
  <2>1. product[p].stock \in Int /\ Cardinality(Workers) \in Nat
    BY FS_CardinalityType, LedgerAssumption DEF Typed, TypeOK
  <2>2. product[p].stock + Cardinality(Workers) >= Cardinality(Pending(p))
    BY DEF Stocked, PendingFoundStock
  <2> QED
    BY <2>1, <2>2, PendingShrinks
<1>2. PendingFoundStock'
  BY <1>1 DEF PendingFoundStock
<1>3. \A p : CountedIn(p)' = CountedIn(p)
  BY DEF CountedIn
<1>4. StockAddsUp' /\ CountedBefore'
  BY <1>3 DEF Stocked, StockAddsUp, CountedBefore
<1> QED
  BY <1>2, <1>4 DEF Stocked

(* A transaction that is spared relies on rows that nobody wrote.          *)
LEMMA HoldsStill ==
    ASSUME Typed, NEW v \in Workers, NEW written, Spared(v, written), Holds(v),
           \A s \in Sales : \/ sale'[s].receipt = sale[s].receipt
                            \/ sale'[s].receipt \in written \cup {Nothing},
           \A s \in Sales \ written : sale'[s].returned = sale[s].returned,
           \A o \in Orders \ written : order'[o] = order[o],
           \A c \in CashSessions \ written : cash'[c] = cash[c]
    PROVE  Holds(v)'
<1> DEFINE j == job[v]
<1>1. /\ j \in Job /\ Fits(j) /\ j.reads \cap written = {} /\ job'[v] = j
  BY DEF Typed, TypeOK, JobsFit, Spared
<1>2. /\ j.order \in Orders \cup {Nothing} /\ j.receipt \in Receipts \cup {Nothing}
      /\ j.cash \in CashSessions \cup {Nothing}
  BY <1>1 DEF Job
<1>3. j.kind \in {"sale", "receipt"} => Free(j.receipt)'
  <2>1. SUFFICES ASSUME j.kind \in {"sale", "receipt"}, j.receipt # Nothing, NEW s \in Sales
                 PROVE  sale'[s].receipt # j.receipt
    BY <1>1 DEF Free
  <2>2. sale[s].receipt # j.receipt
    BY <2>1 DEF Holds, Free
  <2>3. j.receipt \in j.reads
    BY <1>1, <2>1 DEF Fits
  <2> QED
    BY <1>1, <2>1, <2>2, <2>3
<1>4. ASSUME j.kind \in {"sale", "convert"}, j.order # Nothing
      PROVE  order'[j.order].sale = Nothing
  <2>1. j.order \in Orders \ written
    BY <1>1, <1>2, <1>4 DEF Fits
  <2> QED
    BY <1>4, <2>1 DEF Holds
<1>5. ASSUME j.kind = "order" PROVE order'[j.row] = order[j.row]
  BY <1>1, <1>5 DEF Fits
<1>6. ASSUME j.kind = "cash" PROVE cash'[j.row] = cash[j.row]
  BY <1>1, <1>6 DEF Fits
<1>7. ASSUME j.kind = "movement", j.cash # Nothing PROVE cash'[j.cash] = cash[j.cash]
  BY <1>1, <1>2, <1>7 DEF Fits
<1>8. ASSUME j.kind = "return" PROVE sale'[j.row].returned = sale[j.row].returned
  BY <1>1, <1>8 DEF Fits
<1> QED
  BY <1>1, <1>3, <1>4, <1>5, <1>6, <1>7, <1>8 DEF Holds, Free

(* A step that leaves the rows of sales, orders and cash alone, and every  *)
(* transaction that goes on as it was.                                     *)
LEMMA FreshUntouched ==
    ASSUME Typed, Fresh, UNCHANGED <<sale, order, cash>>,
           \A v \in Workers : job'[v] # Nothing /\ ~job'[v].stale =>
              job[v] # Nothing /\ job'[v] = job[v]
    PROVE  Fresh'
<1>1. SUFFICES ASSUME NEW v \in Workers, job'[v] # Nothing, ~job'[v].stale PROVE Holds(v)'
  BY DEF Fresh
<1>2. job'[v] = job[v] /\ Holds(v)
  BY <1>1 DEF Fresh
<1> QED
  BY <1>2 DEF Holds, Free

(* A commit keeps what the others rely on, given what it writes.           *)
LEMMA CommitKeepsFresh ==
    ASSUME Typed, Fresh, NEW w \in Workers, NEW written, written \subseteq Rows,
           job[w] # Nothing, Commits(w, written),
           \A s \in Sales : \/ sale'[s].receipt = sale[s].receipt
                            \/ sale'[s].receipt \in written \cup {Nothing},
           \A s \in Sales \ written : sale'[s].returned = sale[s].returned,
           \A o \in Orders \ written : order'[o] = order[o],
           \A c \in CashSessions \ written : cash'[c] = cash[c]
    PROVE  Fresh'
<1>1. SUFFICES ASSUME NEW v \in Workers, job'[v] # Nothing, ~job'[v].stale PROVE Holds(v)'
  BY DEF Fresh
<1>2. Spared(v, written)
  BY <1>1, CommitJobs
<1>3. Holds(v)
  BY <1>2 DEF Fresh, Spared
<1> QED
  BY <1>2, <1>3, HoldsStill

(***************************************************************************)
(* Requests.                                                               *)
(***************************************************************************)

(* A request whose decision holds keeps the invariant; one that is not a   *)
(* deduction needs nothing more.                                           *)
LEMMA DecisionKeeps ==
    ASSUME IInv, NEW w \in Workers, NEW decision \in Job, Fits(decision),
           Decides(w, decision), job'[w] = decision => Holds(w)',
           decision.kind # "deduct"
    PROVE  IInv'
<1>1. /\ Typed' /\ UNCHANGED <<rows, raced>> /\ job[w] = Nothing
      /\ \A v \in Workers : job'[v] # Nothing =>
            IF v = w THEN job'[v] = decision ELSE job'[v] = job[v]
  BY DecideJobs DEF IInv
<1>2. Fresh'
  <2>1. SUFFICES ASSUME NEW v \in Workers, job'[v] # Nothing, ~job'[v].stale PROVE Holds(v)'
    BY DEF Fresh
  <2>2. CASE v = w
    BY <1>1, <2>1, <2>2
  <2>3. CASE v # w
    <3>1. job'[v] = job[v] /\ Holds(v)
      BY <1>1, <2>1, <2>3 DEF IInv, Fresh
    <3> QED
      BY <1>1, <3>1 DEF Holds, Free, rows
  <2> QED
    BY <2>2, <2>3
<1>3. Kept'
  BY <1>1 DEF IInv, Kept, OrdersNameSales, ReceiptsDistinct, ReturnsWithinSale, LateIsRaced,
        StatusesFit, rows
<1>4. Stocked'
  <2>1. \A v \in Workers : job'[v] # Nothing /\ job'[v].kind = "deduct" =>
          job[v] # Nothing /\ job[v].kind = "deduct" /\ job'[v].row = job[v].row
    BY <1>1
  <2> QED
    BY <1>1, <2>1, StockUntouched DEF IInv, rows
<1> QED
  BY <1>1, <1>2, <1>3, <1>4 DEF IInv

(* A deduction finds a piece, so the others under way may take as many as  *)
(* there are workers.                                                      *)
LEMMA DecideDeductionKeeps ==
    ASSUME IInv, NEW w \in Workers, NEW d \in Deductions, DecideDeduction(w, d)
    PROVE  IInv'
<1>1. Decides(w, Deduction(d)) /\ product[ProductOf[d]].stock >= 1
  BY DEF DecideDeduction, Deduction
<1>2. Deduction(d) \in Job /\ Fits(Deduction(d)) /\ Deduction(d).kind = "deduct"
         /\ Deduction(d).row = d
  BY DeductionFits DEF IInv, Typed
<1>3. /\ Typed' /\ UNCHANGED <<rows, raced>>
      /\ \A v \in Workers : job'[v] # Nothing =>
            IF v = w THEN job'[v] = Deduction(d) ELSE job'[v] = job[v]
  BY <1>1, <1>2, DecideJobs DEF IInv
<1>4. Fresh'
  <2>1. SUFFICES ASSUME NEW v \in Workers, job'[v] # Nothing, ~job'[v].stale PROVE Holds(v)'
    BY DEF Fresh
  <2>2. CASE v = w
    BY <1>2, <1>3, <2>1, <2>2 DEF Holds
  <2>3. CASE v # w
    <3>1. job'[v] = job[v] /\ Holds(v)
      BY <1>3, <2>1, <2>3 DEF IInv, Fresh
    <3> QED
      BY <1>3, <3>1 DEF Holds, Free, rows
  <2> QED
    BY <2>2, <2>3
<1>5. Kept'
  BY <1>3 DEF IInv, Kept, OrdersNameSales, ReceiptsDistinct, ReturnsWithinSale, LateIsRaced,
        StatusesFit, rows
<1>6. PendingFoundStock'
  <2>1. SUFFICES ASSUME NEW p \in Products
                 PROVE  product[p].stock + Cardinality(Workers) >= Cardinality(Pending(p)')
    BY <1>3 DEF PendingFoundStock, rows
  <2>2. product[p].stock \in Int /\ Cardinality(Workers) \in Nat
    BY FS_CardinalityType, LedgerAssumption DEF IInv, Typed, TypeOK
  <2>3. CASE p = ProductOf[d]
    <3>1. Pending(p)' \subseteq Workers
      BY DEF Pending
    <3>2. Cardinality(Pending(p)') <= Cardinality(Workers) /\ Cardinality(Pending(p)') \in Nat
      BY <3>1, FS_Subset, FS_CardinalityType, LedgerAssumption
    <3> QED
      BY <1>1, <2>2, <2>3, <3>2
  <2>4. CASE p # ProductOf[d]
    <3>1. Pending(p)' \subseteq Pending(p) /\ Pending(p) \subseteq Workers
      BY <1>2, <1>3, <2>4 DEF Pending
    <3>2. Cardinality(Pending(p)') <= Cardinality(Pending(p)) /\ Cardinality(Pending(p)) \in Nat
             /\ Cardinality(Pending(p)') \in Nat
      BY <3>1, FS_Subset, FS_CardinalityType, LedgerAssumption
    <3>3. product[p].stock + Cardinality(Workers) >= Cardinality(Pending(p))
      BY DEF IInv, Stocked, PendingFoundStock
    <3> QED
      BY <2>2, <3>2, <3>3
  <2> QED
    BY <2>3, <2>4
<1>7. StockAddsUp' /\ CountedBefore'
  BY <1>3 DEF IInv, Stocked, StockAddsUp, CountedBefore, CountedIn, rows
<1> QED
  BY <1>3, <1>4, <1>5, <1>6, <1>7 DEF IInv, Stocked

LEMMA RequestKeeps ==
    ASSUME IInv, NEW w \in Workers, Request(w)
    PROVE  IInv'
<1>1. ASSUME NEW d \in Deductions, DecideDeduction(w, d) PROVE IInv'
  BY <1>1, DecideDeductionKeeps
<1>2. ASSUME NEW s \in Sales, NEW o \in Orders \cup {Nothing},
             NEW r \in Receipts \cup {Nothing}, DecideSale(w, s, o, r)
      PROVE  IInv'
  <2> DEFINE j == SaleOf(s, o, r)
  <2>1. /\ Decides(w, j) /\ Free(r)
        /\ j.order # Nothing => Convertible(o, Nothing)
    <3>1. o # Nothing /\ order[o].status # "none" => Convertible(o, Nothing)
      BY <1>2, LedgerAssumption DEF DecideSale, Rows
    <3>2. j.order # Nothing => o # Nothing /\ order[o].status # "none"
      BY SaleFits DEF IInv, Typed
    <3> QED
      BY <1>2, <3>1, <3>2 DEF DecideSale, SaleOf
  <2>2. /\ j \in Job /\ Fits(j) /\ j.kind = "sale" /\ j.receipt = r
        /\ j.order # Nothing => j.order = o
    BY SaleFits DEF IInv, Typed
  <2>3. UNCHANGED <<sale, order>>
    BY <2>1 DEF Decides, rows
  <2>4. j.order # Nothing => order[o].sale = Nothing
    BY <2>1 DEF Convertible
  <2> HIDE DEF j
  <2>5. job'[w] = j => Holds(w)'
    BY <2>1, <2>2, <2>3, <2>4 DEF Holds, Free
  <2> QED
    BY <2>1, <2>2, <2>5, DecisionKeeps
<1>3. ASSUME NEW s \in Sales, NEW o \in Orders, DecideConversion(w, s, o) PROVE IInv'
  <2> DEFINE j == Conversion(s, o)
  <2>1. Decides(w, j) /\ order[o].sale = Nothing
    BY <1>3 DEF DecideConversion, Conversion, Convertible
  <2>2. j \in Job /\ Fits(j) /\ j.kind = "convert" /\ j.order = o
    BY ConversionFits
  <2>3. UNCHANGED order
    BY <2>1 DEF Decides, rows
  <2> HIDE DEF j
  <2>4. job'[w] = j => Holds(w)'
    BY <2>1, <2>2, <2>3 DEF Holds
  <2> QED
    BY <2>1, <2>2, <2>4, DecisionKeeps
<1>4. ASSUME NEW s \in Sales, NEW r \in Receipts, DecideReceipt(w, s, r) PROVE IInv'
  <2> DEFINE j == ReceiptOf(s, r)
  <2>1. Decides(w, j) /\ Free(r)
    BY <1>4 DEF DecideReceipt, ReceiptOf
  <2>2. j \in Job /\ Fits(j) /\ j.kind = "receipt" /\ j.receipt = r
    BY ReceiptFits
  <2>3. UNCHANGED sale
    BY <2>1 DEF Decides, rows
  <2> HIDE DEF j
  <2>4. job'[w] = j => Holds(w)'
    BY <2>1, <2>2, <2>3 DEF Holds, Free
  <2> QED
    BY <2>1, <2>2, <2>4, DecisionKeeps
<1>5. ASSUME NEW o \in Orders, NEW status \in OrderStatuses, NEW n \in 0 .. MaxSequence,
             DecideOrder(w, o, status, n)
      PROVE  IInv'
  <2> DEFINE j == OrderChange(o, status, n)
  <2>1. /\ Decides(w, j)
        /\ order[o].status # "none" =>
              /\ n >= order[o].sequence
              /\ order[o].sale = Nothing
              /\ order[o].cancelled => status # "open"
    BY <1>5 DEF DecideOrder, OrderChange
  <2>2. n \in Nat
    BY LedgerAssumption
  <2>6. order[o].cancelled => status # "open"
    BY <2>1 DEF IInv, Kept, StatusesFit
  <2>3. /\ j \in Job /\ Fits(j) /\ j.kind = "order" /\ j.row = o
        /\ j.status = status /\ j.number = n
    BY <2>2, <2>6, OrderFits DEF IInv, Typed
  <2>4. UNCHANGED order
    BY <2>1 DEF Decides, rows
  <2> HIDE DEF j
  <2>5. job'[w] = j => Holds(w)'
    BY <2>1, <2>3, <2>4 DEF Holds
  <2> QED
    BY <2>1, <2>3, <2>5, DecisionKeeps
<1>6. ASSUME NEW c \in CashSessions, NEW status \in {"open", "closed"},
             NEW n \in 0 .. MaxSequence, DecideCash(w, c, status, n)
      PROVE  IInv'
  <2> DEFINE j == CashChange(c, status, n)
  <2>1. /\ Decides(w, j)
        /\ cash[c].status # "none" => n >= cash[c].sequence
        /\ cash[c].status = "closed" => status = "closed"
    BY <1>6 DEF DecideCash, CashChange
  <2>2. n \in Nat
    BY LedgerAssumption
  <2>3. /\ j \in Job /\ Fits(j) /\ j.kind = "cash" /\ j.row = c
        /\ j.status = status /\ j.number = n
    BY <2>2, CashFits
  <2>4. UNCHANGED cash
    BY <2>1 DEF Decides, rows
  <2> HIDE DEF j
  <2>5. job'[w] = j => Holds(w)'
    BY <2>1, <2>3, <2>4 DEF Holds
  <2> QED
    BY <2>1, <2>3, <2>5, DecisionKeeps
<1>7. ASSUME NEW m \in Movements, NEW c \in CashSessions, DecideMovement(w, m, c) PROVE IInv'
  <2> DEFINE j == MovementOf(m, c)
  <2>1. Decides(w, j) /\ cash[c].status # "closed"
    BY <1>7 DEF DecideMovement, MovementOf
  <2>2. j \in Job /\ Fits(j) /\ j.kind = "movement" /\ j.cash \in {c, Nothing}
    BY MovementFits
  <2>3. UNCHANGED cash
    BY <2>1 DEF Decides, rows
  <2> HIDE DEF j
  <2>4. job'[w] = j => Holds(w)'
    BY <2>1, <2>2, <2>3 DEF Holds
  <2> QED
    BY <2>1, <2>2, <2>4, DecisionKeeps
<1>8. ASSUME NEW s \in Sales, NEW amount \in 1 .. Total, NEW restock \in BOOLEAN,
             DecideReturn(w, s, amount, restock)
      PROVE  IInv'
  <2> DEFINE j == ReturnOf(s, amount, restock)
  <2>1. Decides(w, j) /\ sale[s].returned + amount <= Total
    BY <1>8 DEF DecideReturn, ReturnOf
  <2>2. amount \in Nat
    BY LedgerAssumption
  <2>3. j \in Job /\ Fits(j) /\ j.kind = "return" /\ j.row = s /\ j.number = amount
    BY <2>2, ReturnFits
  <2>4. UNCHANGED sale
    BY <2>1 DEF Decides, rows
  <2> HIDE DEF j
  <2>5. job'[w] = j => Holds(w)'
    BY <2>1, <2>3, <2>4 DEF Holds
  <2> QED
    BY <2>1, <2>3, <2>5, DecisionKeeps
<1>9. ASSUME NEW s \in Sales, DecideCancel(w, s) PROVE IInv'
  <2> DEFINE j == Blank("cancel", s)
  <2>1. Decides(w, j)
    BY <1>9 DEF DecideCancel
  <2>2. j \in Job /\ Fits(j) /\ j.kind = "cancel"
    BY CancelFits
  <2> HIDE DEF j
  <2>3. job'[w] = j => Holds(w)'
    BY <2>2 DEF Holds
  <2> QED
    BY <2>1, <2>2, <2>3, DecisionKeeps
<1> QED
  BY <1>1, <1>2, <1>3, <1>4, <1>5, <1>6, <1>7, <1>8, <1>9 DEF Request

(***************************************************************************)
(* What the owner saves, and transactions that end without a write.        *)
(***************************************************************************)
LEMMA AbortKeeps ==
    ASSUME IInv, NEW w \in Workers, Aborts(w)
    PROVE  IInv'
<1>1. UNCHANGED <<rows, raced, budget>>
  BY DEF Aborts
<1>2. /\ job \in [Workers -> Job \cup {Nothing}] /\ job' \in [Workers -> Job \cup {Nothing}]
      /\ \A v \in Workers : job'[v] # Nothing => job[v] # Nothing /\ job'[v] = job[v]
  BY DEF Aborts, IInv, Typed, TypeOK
<1>3. Typed'
  BY <1>1, <1>2 DEF IInv, Typed, TypeOK, JobsFit, Fits, rows
<1>4. Fresh'
  BY <1>1, <1>2, FreshUntouched DEF IInv, rows
<1>5. Kept'
  BY <1>1 DEF IInv, Kept, OrdersNameSales, ReceiptsDistinct, ReturnsWithinSale, LateIsRaced,
        StatusesFit, rows
<1>6. Stocked'
  BY <1>1, <1>2, StockUntouched DEF IInv, rows
<1> QED
  BY <1>3, <1>4, <1>5, <1>6 DEF IInv

(* What is common to saving and removing a product.                        *)
LEMMA SavesKeep ==
    ASSUME IInv, NEW p \in Products, job' = Staled({p}),
           \E kind \in Kinds : Spend(kind),
           UNCHANGED <<deducted, sale, order, cash, movement, raced>>,
           product' \in [Products -> [stock: Int, variant: Nat, removed: BOOLEAN]],
           saved' \in [Products -> Nat]
    PROVE  /\ Typed' /\ Fresh' /\ Kept'
           /\ \A v \in Workers : job'[v] # Nothing /\ job'[v].kind = "deduct" =>
                 job[v] # Nothing /\ job[v].kind = "deduct" /\ job'[v].row = job[v].row
<1>1. /\ job' \in [Workers -> Job \cup {Nothing}]
      /\ \A v \in Workers : job'[v] # Nothing =>
            /\ job[v] # Nothing /\ Fits(job'[v])
            /\ job'[v].kind = job[v].kind /\ job'[v].row = job[v].row
            /\ ~job'[v].stale => ~job[v].stale /\ job'[v] = job[v]
  BY StaledJobs DEF IInv
<1>2. budget' \in [Kinds -> Nat]
  <2>1. budget \in [Kinds -> Nat]
    BY DEF IInv, Typed, TypeOK
  <2> QED
    BY <2>1 DEF Spend
<1>3. Typed'
  BY <1>1, <1>2 DEF IInv, Typed, TypeOK, JobsFit, Fits
<1>4. Fresh'
  BY <1>1, FreshUntouched DEF IInv
<1>5. Kept'
  BY DEF IInv, Kept, OrdersNameSales, ReceiptsDistinct, ReturnsWithinSale, LateIsRaced,
        StatusesFit
<1> QED
  BY <1>1, <1>3, <1>4, <1>5

LEMMA SaveProductKeeps ==
    ASSUME IInv, NEW p \in Products, SaveProduct(p)
    PROVE  IInv'
<1>1. PICK stock \in StockLevels, removed \in BOOLEAN :
        /\ product' = [product EXCEPT ![p] =
                          [stock |-> stock, variant |-> @.variant + 1, removed |-> removed]]
        /\ saved' = [saved EXCEPT ![p] = stock]
  BY DEF SaveProduct
<1>2. stock \in Nat
  BY LedgerAssumption
<1>3. /\ product \in [Products -> [stock: Int, variant: Nat, removed: BOOLEAN]]
      /\ saved \in [Products -> Nat] /\ deducted \in [Deductions -> Nat \cup {Nothing}]
  BY DEF IInv, Typed, TypeOK
<1>4. /\ product' \in [Products -> [stock: Int, variant: Nat, removed: BOOLEAN]]
      /\ saved' \in [Products -> Nat]
  BY <1>1, <1>2, <1>3
<1>5. /\ product'[p].stock = stock /\ saved'[p] = stock
      /\ product'[p].variant = product[p].variant + 1
      /\ \A q \in Products \ {p} : product'[q] = product[q] /\ saved'[q] = saved[q]
  BY <1>1, <1>3
<1>6. job' = Staled({p}) /\ UNCHANGED <<deducted, sale, order, cash, movement, raced>>
         /\ \E kind \in Kinds : Spend(kind)
  BY DEF SaveProduct, Kinds
<1>7. /\ Typed' /\ Fresh' /\ Kept'
      /\ \A v \in Workers : job'[v] # Nothing /\ job'[v].kind = "deduct" =>
            job[v] # Nothing /\ job[v].kind = "deduct" /\ job'[v].row = job[v].row
  BY <1>4, <1>6, SavesKeep
<1>8. PendingFoundStock'
  <2>1. SUFFICES ASSUME NEW q \in Products
                 PROVE  product'[q].stock + Cardinality(Workers) >= Cardinality(Pending(q)')
    BY DEF PendingFoundStock
  <2>2. Cardinality(Workers) \in Nat /\ product[q].stock \in Int
    BY <1>3, FS_CardinalityType, LedgerAssumption
  <2>3. /\ Cardinality(Pending(q)') <= Cardinality(Pending(q))
        /\ Cardinality(Pending(q)) \in Nat /\ Cardinality(Pending(q)') \in Nat
    BY <1>7, PendingShrinks
  <2>4. CASE q = p
    <3>1. Pending(q)' \subseteq Workers
      BY DEF Pending
    <3>2. Cardinality(Pending(q)') <= Cardinality(Workers)
      BY <3>1, FS_Subset, LedgerAssumption
    <3> QED
      BY <1>2, <1>5, <2>2, <2>3, <2>4, <3>2
  <2>5. CASE q # p
    <3>1. product[q].stock + Cardinality(Workers) >= Cardinality(Pending(q))
      BY DEF IInv, Stocked, PendingFoundStock
    <3> QED
      BY <1>5, <2>2, <2>3, <2>5, <3>1
  <2> QED
    BY <2>4, <2>5
<1>9. CountedBefore'
  <2>1. SUFFICES ASSUME NEW d \in Deductions, deducted[d] # Nothing
                 PROVE  deducted[d] <= product'[ProductOf[d]].variant
    BY <1>6 DEF CountedBefore
  <2>2. ProductOf[d] \in Products /\ product[ProductOf[d]].variant \in Nat /\ deducted[d] \in Nat
    BY <1>3, <2>1, LedgerAssumption
  <2>3. deducted[d] <= product[ProductOf[d]].variant
    BY <2>1 DEF IInv, Stocked, CountedBefore
  <2> QED
    BY <1>5, <2>2, <2>3
<1>10. StockAddsUp'
  <2>1. SUFFICES ASSUME NEW q \in Products
                 PROVE  product'[q].stock = saved'[q] - Cardinality(CountedIn(q)')
    BY DEF StockAddsUp
  <2>2. CASE q = p
    <3>1. ASSUME NEW d \in Deductions, ProductOf[d] = p
          PROVE  deducted[d] # product'[p].variant
      <4>1. product[p].variant \in Nat /\ deducted[d] \in Nat \cup {Nothing} /\ Nothing \notin Nat
        BY <1>3, LedgerAssumption
      <4>2. deducted[d] # Nothing => deducted[d] <= product[p].variant
        BY <3>1 DEF IInv, Stocked, CountedBefore
      <4> QED
        BY <1>5, <4>1, <4>2
    <3>2. CountedIn(q)' = {}
      BY <1>6, <2>2, <3>1 DEF CountedIn
    <3>3. Cardinality(CountedIn(q)') = 0
      BY <3>2, FS_EmptySet
    <3> QED
      BY <1>2, <1>5, <2>2, <3>3
  <2>3. CASE q # p
    <3>1. CountedIn(q)' = CountedIn(q)
      BY <1>5, <1>6, <2>3 DEF CountedIn
    <3> QED
      BY <1>5, <2>3, <3>1 DEF IInv, Stocked, StockAddsUp
  <2> QED
    BY <2>2, <2>3
<1> QED
  BY <1>7, <1>8, <1>9, <1>10 DEF IInv, Stocked

LEMMA RemoveProductKeeps ==
    ASSUME IInv, NEW p \in Products, RemoveProduct(p)
    PROVE  IInv'
<1>1. /\ product \in [Products -> [stock: Int, variant: Nat, removed: BOOLEAN]]
      /\ saved \in [Products -> Nat]
  BY DEF IInv, Typed, TypeOK
<1>2. product' = [product EXCEPT ![p].removed = TRUE]
  BY DEF RemoveProduct
<1>3. /\ product' \in [Products -> [stock: Int, variant: Nat, removed: BOOLEAN]]
      /\ \A q \in Products : product'[q].stock = product[q].stock
                             /\ product'[q].variant = product[q].variant
  BY <1>1, <1>2
<1>4. job' = Staled({p}) /\ UNCHANGED <<deducted, sale, order, cash, movement, saved, raced>>
         /\ \E kind \in Kinds : Spend(kind)
  BY DEF RemoveProduct, Kinds
<1>5. /\ Typed' /\ Fresh' /\ Kept'
      /\ \A v \in Workers : job'[v] # Nothing /\ job'[v].kind = "deduct" =>
            job[v] # Nothing /\ job[v].kind = "deduct" /\ job'[v].row = job[v].row
  BY <1>1, <1>3, <1>4, SavesKeep
<1>6. PendingFoundStock'
  <2>1. SUFFICES ASSUME NEW q \in Products
                 PROVE  product[q].stock + Cardinality(Workers) >= Cardinality(Pending(q)')
    BY <1>3 DEF PendingFoundStock
  <2>2. product[q].stock + Cardinality(Workers) >= Cardinality(Pending(q))
    BY DEF IInv, Stocked, PendingFoundStock
  <2>3. Cardinality(Workers) \in Nat /\ product[q].stock \in Int
    BY <1>1, FS_CardinalityType, LedgerAssumption
  <2> QED
    BY <1>5, <2>2, <2>3, PendingShrinks
<1>7. ASSUME NEW q \in Products PROVE CountedIn(q)' = CountedIn(q)
  BY <1>3, <1>4 DEF CountedIn
<1>8. StockAddsUp'
  BY <1>3, <1>4, <1>7 DEF IInv, Stocked, StockAddsUp
<1>9. CountedBefore'
  BY <1>3, <1>4, LedgerAssumption DEF IInv, Stocked, CountedBefore
<1> QED
  BY <1>5, <1>6, <1>8, <1>9 DEF IInv, Stocked

(***************************************************************************)
(* Commits.                                                                *)
(***************************************************************************)

(* The transaction that commits.                                           *)
LEMMA Committing ==
    ASSUME Typed, NEW w \in Workers, NEW kind, Deciding(w, kind)
    PROVE  /\ job[w] \in Job /\ job[w] # Nothing /\ job[w].kind = kind /\ Fits(job[w])
           /\ job[w].order \in Orders \cup {Nothing}
           /\ job[w].receipt \in Receipts \cup {Nothing}
           /\ job[w].cash \in CashSessions \cup {Nothing}
           /\ job[w].number \in Nat /\ job[w].flag \in BOOLEAN /\ job[w].stale \in BOOLEAN
<1>1. job[w] \in Job /\ job[w] # Nothing /\ job[w].kind = kind /\ Fits(job[w])
  BY DEF Deciding, Typed, TypeOK, JobsFit
<1> QED
  BY <1>1 DEF Job

(* A commit that leaves the products alone keeps the stock.                *)
LEMMA CommitKeepsStock ==
    ASSUME IInv, NEW w \in Workers, NEW written, written \subseteq Rows, job[w] # Nothing,
           Commits(w, written), UNCHANGED <<product, deducted, saved>>
    PROVE  Stocked'
<1>1. \A v \in Workers : job'[v] # Nothing /\ job'[v].kind = "deduct" =>
        job[v] # Nothing /\ job[v].kind = "deduct" /\ job'[v].row = job[v].row
  BY CommitJobs DEF IInv
<1> QED
  BY <1>1, StockUntouched DEF IInv

LEMMA CommitDeductionKeeps ==
    ASSUME IInv, NEW w \in Workers, CommitDeduction(w)
    PROVE  IInv'
<1> DEFINE d == job[w].row
           p == ProductOf[d]
<1>1. /\ job[w] # Nothing /\ job[w].kind = "deduct" /\ d \in Deductions
  BY Committing DEF IInv, CommitDeduction, Fits
<1>2. p \in Products /\ {d, p} \subseteq Rows
  BY <1>1, LedgerAssumption DEF Rows
<1>3. /\ deducted[d] = Nothing
      /\ deducted' = [deducted EXCEPT ![d] = product[p].variant]
      /\ product' = [product EXCEPT ![p].stock = @ - 1]
      /\ Commits(w, {d, p}) /\ UNCHANGED <<sale, order, cash, movement, saved>>
  BY DEF CommitDeduction
<1>4. /\ product \in [Products -> [stock: Int, variant: Nat, removed: BOOLEAN]]
      /\ saved \in [Products -> Nat] /\ deducted \in [Deductions -> Nat \cup {Nothing}]
  BY DEF IInv, Typed, TypeOK
<1> HIDE DEF d, p
<1>5. /\ job' \in [Workers -> Job \cup {Nothing}] /\ JobsFit'
      /\ raced \subseteq raced' /\ raced' \subseteq Rows /\ budget' = budget
      /\ \A v \in Workers : job'[v] # Nothing =>
            v # w /\ job[v] # Nothing /\ job'[v].kind = job[v].kind /\ job'[v].row = job[v].row
  BY <1>1, <1>2, <1>3, CommitJobs DEF IInv
<1>6. /\ product' \in [Products -> [stock: Int, variant: Nat, removed: BOOLEAN]]
      /\ product'[p].stock = product[p].stock - 1
      /\ \A q \in Products : /\ product'[q].variant = product[q].variant
                             /\ q # p => product'[q] = product[q]
  BY <1>2, <1>3, <1>4
<1>7. /\ deducted' \in [Deductions -> Nat \cup {Nothing}]
      /\ deducted'[d] = product[p].variant
      /\ \A e \in Deductions \ {d} : deducted'[e] = deducted[e]
  BY <1>1, <1>2, <1>3, <1>4
<1>8. Typed'
  BY <1>3, <1>4, <1>5, <1>6, <1>7 DEF IInv, Typed, TypeOK
<1>9. Fresh'
  BY <1>1, <1>2, <1>3, CommitKeepsFresh DEF IInv
<1>10. Kept'
  BY <1>3, <1>5 DEF IInv, Kept, OrdersNameSales, ReceiptsDistinct, ReturnsWithinSale, LateIsRaced,
        StatusesFit
<1>11. PendingFoundStock'
  <2>1. SUFFICES ASSUME NEW q \in Products
                 PROVE  product'[q].stock + Cardinality(Workers) >= Cardinality(Pending(q)')
    BY DEF PendingFoundStock
  <2>2. product[q].stock + Cardinality(Workers) >= Cardinality(Pending(q))
    BY DEF IInv, Stocked, PendingFoundStock
  <2>3. Cardinality(Workers) \in Nat /\ product[q].stock \in Int
    BY <1>4, FS_CardinalityType, LedgerAssumption
  <2>4. /\ Pending(q)' \subseteq Pending(q) /\ Pending(q) \subseteq Workers
        /\ w \notin Pending(q)'
    BY <1>5 DEF Pending
  <2>5. /\ IsFiniteSet(Pending(q)) /\ IsFiniteSet(Pending(q)')
        /\ Cardinality(Pending(q)) \in Nat /\ Cardinality(Pending(q)') \in Nat
        /\ Cardinality(Pending(q)') <= Cardinality(Pending(q))
    BY <2>4, FS_Subset, FS_CardinalityType, LedgerAssumption
  <2>6. CASE q = p
    <3>1. w \in Pending(q)
      BY <1>1, <2>6 DEF Pending, p, d
    <3>2. Cardinality(Pending(q) \ {w}) = Cardinality(Pending(q)) - 1
      BY <2>5, <3>1, FS_RemoveElement
    <3>3. Pending(q)' \subseteq Pending(q) \ {w} /\ IsFiniteSet(Pending(q) \ {w})
      BY <2>4, <2>5, FS_Subset
    <3>4. Cardinality(Pending(q)') <= Cardinality(Pending(q)) - 1
      BY <3>2, <3>3, FS_Subset
    <3> QED
      BY <1>6, <2>2, <2>3, <2>5, <2>6, <3>4
  <2>7. CASE q # p
    BY <1>6, <2>2, <2>3, <2>5, <2>7
  <2> QED
    BY <2>6, <2>7
<1>12. StockAddsUp'
  <2>1. SUFFICES ASSUME NEW q \in Products
                 PROVE  product'[q].stock = saved[q] - Cardinality(CountedIn(q)')
    BY <1>3 DEF StockAddsUp
  <2>2. product[q].stock = saved[q] - Cardinality(CountedIn(q))
    BY DEF IInv, Stocked, StockAddsUp
  <2>3. IsFiniteSet(CountedIn(q)) /\ Cardinality(CountedIn(q)) \in Nat /\ saved[q] \in Nat
    BY <1>4, CountedFinite
  <2>4. CASE q = p
    <3>1. d \notin CountedIn(q)
      BY <1>2, <1>3, <1>4, LedgerAssumption DEF CountedIn
    <3>2. CountedIn(q)' = CountedIn(q) \cup {d}
      BY <1>1, <1>6, <1>7, <2>4 DEF CountedIn, p
    <3>3. Cardinality(CountedIn(q)') = Cardinality(CountedIn(q)) + 1
      BY <2>3, <3>1, <3>2, FS_AddElement
    <3> QED
      BY <1>6, <2>2, <2>3, <2>4, <3>3
  <2>5. CASE q # p
    <3>1. CountedIn(q)' = CountedIn(q)
      BY <1>6, <1>7, <2>5 DEF CountedIn, p
    <3> QED
      BY <1>6, <2>2, <2>5, <3>1
  <2> QED
    BY <2>4, <2>5
<1>13. CountedBefore'
  <2>1. SUFFICES ASSUME NEW e \in Deductions, deducted'[e] # Nothing
                 PROVE  deducted'[e] <= product'[ProductOf[e]].variant
    BY DEF CountedBefore
  <2>2. ProductOf[e] \in Products /\ product[ProductOf[e]].variant \in Nat
    BY <1>4, LedgerAssumption
  <2>3. CASE e = d
    BY <1>6, <1>7, <2>2, <2>3 DEF p
  <2>4. CASE e # d
    BY <1>6, <1>7, <2>1, <2>2, <2>4 DEF IInv, Stocked, CountedBefore
  <2> QED
    BY <2>3, <2>4
<1> QED
  BY <1>8, <1>9, <1>10, <1>11, <1>12, <1>13 DEF IInv, Stocked

SaleRecord == [status: {"none", "active", "refunded", "canceled"},
               receipt: Receipts \cup {Nothing}, order: Orders \cup {Nothing}, returned: Nat]
OrderRecord == [status: OrderStatuses \cup {"none"}, cancelled: BOOLEAN,
                sale: Sales \cup {Nothing}, sequence: Nat]

LEMMA RecordsTyped ==
    ASSUME Typed
    PROVE  /\ sale \in [Sales -> SaleRecord] /\ order \in [Orders -> OrderRecord]
           /\ cash \in [CashSessions -> [status: {"none", "open", "closed"}, sequence: Nat]]
           /\ movement \in [Movements -> [stored: BOOLEAN, late: BOOLEAN]]
BY DEF Typed, TypeOK, SaleRecord, OrderRecord

(* Types after a commit, from those of the rows it writes.                 *)
LEMMA CommitKeepsTypes ==
    ASSUME Typed, NEW w \in Workers, NEW written, written \subseteq Rows, job[w] # Nothing,
           Commits(w, written),
           product' \in [Products -> [stock: Int, variant: Nat, removed: BOOLEAN]],
           deducted' \in [Deductions -> Nat \cup {Nothing}],
           saved' \in [Products -> Nat],
           sale' \in [Sales -> SaleRecord], order' \in [Orders -> OrderRecord],
           cash' \in [CashSessions -> [status: {"none", "open", "closed"}, sequence: Nat]],
           movement' \in [Movements -> [stored: BOOLEAN, late: BOOLEAN]]
    PROVE  Typed'
<1>1. /\ job' \in [Workers -> Job \cup {Nothing}] /\ JobsFit'
      /\ raced' \subseteq Rows /\ budget' = budget
  BY CommitJobs
<1> QED
  BY <1>1 DEF Typed, TypeOK, SaleRecord, OrderRecord

LEMMA ConvertedOrder ==
    ASSUME Typed, NEW o \in Orders, NEW s \in Sales
    PROVE  /\ Converted(o, s) \in [Orders -> OrderRecord]
           /\ Converted(o, s)[o].sale = s /\ Converted(o, s)[o].status = "converted"
           /\ Converted(o, s)[o].cancelled = order[o].cancelled
           /\ Converted(o, s)[o].sequence = order[o].sequence
           /\ \A q \in Orders \ {o} : Converted(o, s)[q] = order[q]
<1> DEFINE row == [order[o] EXCEPT !.status = "converted", !.sale = s]
<1>1. order \in [Orders -> OrderRecord] /\ order[o] \in OrderRecord
  BY RecordsTyped
<1>2. /\ row \in OrderRecord /\ row.sale = s /\ row.status = "converted"
      /\ row.cancelled = order[o].cancelled /\ row.sequence = order[o].sequence
  BY <1>1 DEF OrderRecord, OrderStatuses
<1>3. Converted(o, s) = [order EXCEPT ![o] = row]
  BY DEF Converted
<1> HIDE DEF row
<1> QED
  BY <1>1, <1>2, <1>3

LEMMA CommitSaleKeeps ==
    ASSUME IInv, NEW w \in Workers, CommitSale(w)
    PROVE  IInv'
<1> DEFINE j == job[w]
           s == j.row
           row == [sale[s] EXCEPT !.status = "active", !.receipt = j.receipt, !.order = j.order]
           written == {s, j.order, j.receipt} \ {Nothing}
<1>1. /\ j # Nothing /\ j.kind = "sale" /\ s \in Sales /\ j.stale \in BOOLEAN
      /\ j.order \in Orders \cup {Nothing} /\ j.receipt \in Receipts \cup {Nothing}
  BY Committing DEF IInv, CommitSale, Fits
<1>2. written \subseteq Rows /\ s \in written
  BY <1>1, LedgerAssumption DEF Rows
<1>3. /\ sale[s].status = "none"
      /\ sale' = [sale EXCEPT ![s] = row]
      /\ order' = IF j.order = Nothing THEN order ELSE Converted(j.order, s)
      /\ Commits(w, written) /\ UNCHANGED <<product, deducted, cash, movement, saved>>
  BY DEF CommitSale
<1>4. /\ sale \in [Sales -> SaleRecord] /\ sale[s] \in SaleRecord
      /\ order \in [Orders -> OrderRecord]
  BY <1>1, RecordsTyped DEF IInv
<1>5. /\ row \in SaleRecord /\ row.receipt = j.receipt /\ row.order = j.order
      /\ row.returned = sale[s].returned
  BY <1>1, <1>4 DEF SaleRecord
<1> HIDE DEF row, s
<1>6. /\ sale' \in [Sales -> SaleRecord] /\ sale'[s] = row
      /\ \A t \in Sales \ {s} : sale'[t] = sale[t]
  BY <1>1, <1>3, <1>4, <1>5
<1>7. /\ order' \in [Orders -> OrderRecord]
      /\ j.order # Nothing => order'[j.order].sale = s /\ order'[j.order].status = "converted"
      /\ \A o \in Orders : o # j.order => order'[o] = order[o]
  <2>1. CASE j.order = Nothing
    BY <1>3, <1>4, <2>1, LedgerAssumption DEF Rows
  <2>2. CASE j.order # Nothing
    <3>1. j.order \in Orders /\ order' = Converted(j.order, s)
      BY <1>1, <1>3, <2>2
    <3> QED
      BY <1>1, <3>1, ConvertedOrder DEF IInv
  <2> QED
    BY <2>1, <2>2
<1>8. raced \subseteq raced' /\ (j.stale => written \subseteq raced')
  BY <1>1, <1>2, <1>3, CommitJobs DEF IInv
<1>9. ~j.stale => Free(j.receipt) /\ (j.order # Nothing => order[j.order].sale = Nothing)
  BY <1>1 DEF IInv, Fresh, Holds
<1> HIDE DEF j
<1>10. Typed'
  <2>1. /\ product' \in [Products -> [stock: Int, variant: Nat, removed: BOOLEAN]]
        /\ deducted' \in [Deductions -> Nat \cup {Nothing}] /\ saved' \in [Products -> Nat]
        /\ cash' \in [CashSessions -> [status: {"none", "open", "closed"}, sequence: Nat]]
        /\ movement' \in [Movements -> [stored: BOOLEAN, late: BOOLEAN]]
    BY <1>3 DEF IInv, Typed, TypeOK
  <2> QED
    BY <1>1, <1>2, <1>3, <1>6, <1>7, <2>1, CommitKeepsTypes DEF IInv, j
<1>11. Fresh'
  <2>1. \A t \in Sales : sale'[t].receipt = sale[t].receipt \/ sale'[t].receipt \in written \cup {Nothing}
    BY <1>1, <1>5, <1>6
  <2>2. \A t \in Sales \ written : sale'[t].returned = sale[t].returned
    BY <1>2, <1>6
  <2>3. \A o \in Orders \ written : order'[o] = order[o]
    BY <1>7, LedgerAssumption DEF Rows
  <2> QED
    BY <1>1, <1>2, <1>3, <2>1, <2>2, <2>3, CommitKeepsFresh DEF IInv, j
<1>12. OrdersNameSales'
  <2>1. SUFFICES ASSUME NEW t \in Sales, NEW o \in Orders, sale'[t].order = o
                 PROVE  order'[o].sale = t \/ o \in raced'
    BY DEF OrdersNameSales
  <2>2. o # Nothing /\ t # Nothing
    BY LedgerAssumption DEF Rows
  <2>3. CASE t = s
    BY <1>5, <1>6, <1>7, <2>1, <2>2, <2>3
  <2>4. CASE t # s
    <3>1. order[o].sale = t \/ o \in raced
      BY <1>6, <2>1, <2>4 DEF IInv, Kept, OrdersNameSales
    <3>2. CASE o # j.order
      BY <1>7, <1>8, <3>1, <3>2
    <3>3. CASE o = j.order
      BY <1>1, <1>8, <1>9, <2>2, <3>1, <3>3
    <3> QED
      BY <3>2, <3>3
  <2> QED
    BY <2>3, <2>4
<1>13. ReceiptsDistinct'
  <2>1. SUFFICES ASSUME NEW t \in Sales, NEW u \in Sales, t # u, sale'[t].receipt = sale'[u].receipt
                 PROVE  sale'[t].receipt \in raced' \cup {Nothing}
    BY DEF ReceiptsDistinct
  <2>2. ~j.stale /\ j.receipt # Nothing => \A v \in Sales : sale[v].receipt # j.receipt
    BY <1>9 DEF Free
  <2>3. j.stale /\ j.receipt # Nothing => j.receipt \in raced'
    BY <1>8
  <2>4. CASE t = s \/ u = s
    BY <1>1, <1>5, <1>6, <2>1, <2>2, <2>3, <2>4
  <2>5. CASE t # s /\ u # s
    BY <1>6, <1>8, <2>1, <2>5 DEF IInv, Kept, ReceiptsDistinct
  <2> QED
    BY <2>4, <2>5
<1>14. ReturnsWithinSale'
  <2>1. \A t \in Sales : sale'[t].returned = sale[t].returned
    BY <1>5, <1>6
  <2> QED
    BY <1>8, <2>1 DEF IInv, Kept, ReturnsWithinSale
<1>15. LateIsRaced' /\ StatusesFit'
  <2>1. LateIsRaced'
    BY <1>3, <1>8 DEF IInv, Kept, LateIsRaced
  <2>2. ASSUME NEW o \in Orders, order'[o].status = "none" PROVE order'[o] = order[o]
    BY <1>1, <1>7, <2>2, LedgerAssumption DEF Rows
  <2>3. ASSUME NEW o \in Orders, order'[o].status = "open" PROVE order'[o] = order[o]
    BY <1>1, <1>7, <2>3, LedgerAssumption DEF Rows
  <2> QED
    BY <1>3, <2>1, <2>2, <2>3 DEF IInv, Kept, StatusesFit
<1>16. Stocked'
  BY <1>1, <1>2, <1>3, CommitKeepsStock DEF j
<1> QED
  BY <1>10, <1>11, <1>12, <1>13, <1>14, <1>15, <1>16 DEF IInv, Kept

LEMMA CommitConversionKeeps ==
    ASSUME IInv, NEW w \in Workers, CommitConversion(w)
    PROVE  IInv'
<1> DEFINE s == job[w].row
           o == job[w].order
           row == [sale[s] EXCEPT !.order = o]
           written == {o, s}
<1>1. job[w] # Nothing /\ job[w].kind = "convert" /\ s \in Sales /\ o \in Orders
         /\ job[w].stale \in BOOLEAN
  BY Committing DEF IInv, CommitConversion, Fits
<1>2. written \subseteq Rows /\ o # Nothing
  BY <1>1, LedgerAssumption DEF Rows
<1>3. /\ sale' = [sale EXCEPT ![s] = row] /\ order' = Converted(o, s)
      /\ Commits(w, written) /\ UNCHANGED <<product, deducted, cash, movement, saved>>
  BY DEF CommitConversion
<1>4. /\ sale \in [Sales -> SaleRecord] /\ sale[s] \in SaleRecord
      /\ order \in [Orders -> OrderRecord]
  BY <1>1, RecordsTyped DEF IInv
<1>5. /\ row \in SaleRecord /\ row.order = o
      /\ row.receipt = sale[s].receipt /\ row.returned = sale[s].returned
  BY <1>1, <1>4 DEF SaleRecord
<1> HIDE DEF row
<1>6. /\ sale' \in [Sales -> SaleRecord] /\ sale'[s] = row
      /\ \A t \in Sales \ {s} : sale'[t] = sale[t]
  BY <1>1, <1>3, <1>4, <1>5
<1>7. /\ order' \in [Orders -> OrderRecord]
      /\ order'[o].sale = s /\ order'[o].status = "converted"
      /\ \A q \in Orders \ {o} : order'[q] = order[q]
  BY <1>1, <1>3, ConvertedOrder DEF IInv
<1>8. raced \subseteq raced' /\ (job[w].stale => written \subseteq raced')
  BY <1>1, <1>2, <1>3, CommitJobs DEF IInv
<1>9. ~job[w].stale => order[o].sale = Nothing
  BY <1>1, <1>2 DEF IInv, Fresh, Holds
<1>10. \A t \in Sales : sale'[t].receipt = sale[t].receipt /\ sale'[t].returned = sale[t].returned
  BY <1>5, <1>6
<1>11. Typed'
  <2>1. /\ product' \in [Products -> [stock: Int, variant: Nat, removed: BOOLEAN]]
        /\ deducted' \in [Deductions -> Nat \cup {Nothing}] /\ saved' \in [Products -> Nat]
        /\ cash' \in [CashSessions -> [status: {"none", "open", "closed"}, sequence: Nat]]
        /\ movement' \in [Movements -> [stored: BOOLEAN, late: BOOLEAN]]
    BY <1>3 DEF IInv, Typed, TypeOK
  <2> QED
    BY <1>1, <1>2, <1>3, <1>6, <1>7, <2>1, CommitKeepsTypes DEF IInv
<1>12. Fresh'
  BY <1>1, <1>2, <1>3, <1>7, <1>10, CommitKeepsFresh DEF IInv
<1>13. OrdersNameSales'
  <2>1. SUFFICES ASSUME NEW t \in Sales, NEW q \in Orders, sale'[t].order = q
                 PROVE  order'[q].sale = t \/ q \in raced'
    BY DEF OrdersNameSales
  <2>2. CASE t = s
    BY <1>5, <1>6, <1>7, <2>1, <2>2
  <2>3. CASE t # s
    <3>1. (order[q].sale = t \/ q \in raced) /\ t # Nothing
      BY <1>6, <2>1, <2>3, LedgerAssumption DEF IInv, Kept, OrdersNameSales, Rows
    <3>2. CASE q # o
      BY <1>7, <1>8, <3>1, <3>2
    <3>3. CASE q = o
      BY <1>1, <1>8, <1>9, <3>1, <3>3
    <3> QED
      BY <3>2, <3>3
  <2> QED
    BY <2>2, <2>3
<1>14. ReceiptsDistinct' /\ ReturnsWithinSale'
  BY <1>8, <1>10 DEF IInv, Kept, ReceiptsDistinct, ReturnsWithinSale
<1>15. LateIsRaced'
  BY <1>3, <1>8 DEF IInv, Kept, LateIsRaced
<1>16. StatusesFit'
  <2>1. ASSUME NEW q \in Orders, order'[q].status \in {"none", "open"} PROVE order'[q] = order[q]
    BY <1>1, <1>7, <2>1
  <2> QED
    BY <1>3, <2>1 DEF IInv, Kept, StatusesFit
<1>17. Stocked'
  BY <1>1, <1>2, <1>3, CommitKeepsStock
<1> QED
  BY <1>11, <1>12, <1>13, <1>14, <1>15, <1>16, <1>17 DEF IInv, Kept

LEMMA CommitReceiptKeeps ==
    ASSUME IInv, NEW w \in Workers, CommitReceipt(w)
    PROVE  IInv'
<1> DEFINE s == job[w].row
           r == job[w].receipt
           row == [sale[s] EXCEPT !.receipt = r]
<1>1. job[w] # Nothing /\ job[w].kind = "receipt" /\ s \in Sales /\ r \in Receipts
         /\ job[w].stale \in BOOLEAN
  BY Committing DEF IInv, CommitReceipt, Fits
<1>2. {r} \subseteq Rows /\ r # Nothing
  BY <1>1, LedgerAssumption DEF Rows
<1>3. /\ sale' = [sale EXCEPT ![s] = row]
      /\ Commits(w, {r}) /\ UNCHANGED <<product, deducted, order, cash, movement, saved>>
  BY DEF CommitReceipt
<1>4. sale \in [Sales -> SaleRecord] /\ sale[s] \in SaleRecord
  BY <1>1, RecordsTyped DEF IInv
<1>5. /\ row \in SaleRecord /\ row.receipt = r
      /\ row.order = sale[s].order /\ row.returned = sale[s].returned
  BY <1>1, <1>4 DEF SaleRecord
<1> HIDE DEF row
<1>6. /\ sale' \in [Sales -> SaleRecord] /\ sale'[s] = row
      /\ \A t \in Sales \ {s} : sale'[t] = sale[t]
  BY <1>1, <1>3, <1>4, <1>5
<1>7. raced \subseteq raced' /\ (job[w].stale => r \in raced')
  BY <1>1, <1>2, <1>3, CommitJobs DEF IInv
<1>8. ~job[w].stale => \A v \in Sales : sale[v].receipt # r
  BY <1>1, <1>2 DEF IInv, Fresh, Holds, Free
<1>9. \A t \in Sales : sale'[t].order = sale[t].order /\ sale'[t].returned = sale[t].returned
  BY <1>5, <1>6
<1>10. Typed'
  <2>1. /\ product' \in [Products -> [stock: Int, variant: Nat, removed: BOOLEAN]]
        /\ deducted' \in [Deductions -> Nat \cup {Nothing}] /\ saved' \in [Products -> Nat]
        /\ order' \in [Orders -> OrderRecord]
        /\ cash' \in [CashSessions -> [status: {"none", "open", "closed"}, sequence: Nat]]
        /\ movement' \in [Movements -> [stored: BOOLEAN, late: BOOLEAN]]
    BY <1>3 DEF IInv, Typed, TypeOK, OrderRecord
  <2> QED
    BY <1>1, <1>2, <1>3, <1>6, <2>1, CommitKeepsTypes DEF IInv
<1>11. Fresh'
  <2>1. \A t \in Sales : sale'[t].receipt = sale[t].receipt \/ sale'[t].receipt = r
    BY <1>5, <1>6
  <2> QED
    BY <1>1, <1>2, <1>3, <1>9, <2>1, CommitKeepsFresh DEF IInv
<1>12. OrdersNameSales' /\ ReturnsWithinSale' /\ LateIsRaced' /\ StatusesFit'
  BY <1>3, <1>7, <1>9 DEF IInv, Kept, OrdersNameSales, ReturnsWithinSale, LateIsRaced, StatusesFit
<1>13. ReceiptsDistinct'
  <2>1. SUFFICES ASSUME NEW t \in Sales, NEW u \in Sales, t # u, sale'[t].receipt = sale'[u].receipt
                 PROVE  sale'[t].receipt \in raced' \cup {Nothing}
    BY DEF ReceiptsDistinct
  <2>2. CASE t = s \/ u = s
    BY <1>1, <1>5, <1>6, <1>7, <1>8, <2>1, <2>2
  <2>3. CASE t # s /\ u # s
    BY <1>6, <1>7, <2>1, <2>3 DEF IInv, Kept, ReceiptsDistinct
  <2> QED
    BY <2>2, <2>3
<1>14. Stocked'
  BY <1>1, <1>2, <1>3, CommitKeepsStock
<1> QED
  BY <1>10, <1>11, <1>12, <1>13, <1>14 DEF IInv, Kept

LEMMA CommitOrderKeeps ==
    ASSUME IInv, NEW w \in Workers, CommitOrder(w)
    PROVE  IInv'
<1> DEFINE j == job[w]
           o == j.row
           row == [order[o] EXCEPT !.status = j.status, !.sequence = j.number, !.cancelled = j.flag]
<1>1. /\ j # Nothing /\ j.kind = "order" /\ o \in Orders /\ j.status \in OrderStatuses
      /\ j.number \in Nat /\ j.flag \in BOOLEAN /\ (j.flag => j.status # "open")
  BY Committing DEF IInv, CommitOrder, Fits
<1>2. {o} \subseteq Rows
  BY <1>1 DEF Rows
<1>3. /\ order' = [order EXCEPT ![o] = row]
      /\ Commits(w, {o}) /\ UNCHANGED <<product, deducted, sale, cash, movement, saved>>
  BY DEF CommitOrder
<1>4. order \in [Orders -> OrderRecord] /\ order[o] \in OrderRecord
  BY <1>1, RecordsTyped DEF IInv
<1>5. /\ row \in OrderRecord /\ row.sale = order[o].sale /\ row.status # "none"
      /\ row.cancelled => row.status # "open"
  BY <1>1, <1>4 DEF OrderRecord, OrderStatuses
<1> HIDE DEF row
<1>6. /\ order' \in [Orders -> OrderRecord] /\ order'[o] = row
      /\ \A q \in Orders \ {o} : order'[q] = order[q]
  BY <1>1, <1>3, <1>4, <1>5
<1>7. raced \subseteq raced'
  BY <1>1, <1>2, <1>3, CommitJobs DEF IInv
<1>8. Typed'
  <2>1. /\ product' \in [Products -> [stock: Int, variant: Nat, removed: BOOLEAN]]
        /\ deducted' \in [Deductions -> Nat \cup {Nothing}] /\ saved' \in [Products -> Nat]
        /\ sale' \in [Sales -> SaleRecord]
        /\ cash' \in [CashSessions -> [status: {"none", "open", "closed"}, sequence: Nat]]
        /\ movement' \in [Movements -> [stored: BOOLEAN, late: BOOLEAN]]
    BY <1>3 DEF IInv, Typed, TypeOK, SaleRecord
  <2> QED
    BY <1>1, <1>2, <1>3, <1>6, <2>1, CommitKeepsTypes DEF IInv
<1>9. Fresh'
  BY <1>1, <1>2, <1>3, <1>6, CommitKeepsFresh DEF IInv
<1>10. OrdersNameSales'
  BY <1>3, <1>5, <1>6, <1>7 DEF IInv, Kept, OrdersNameSales
<1>11. ReceiptsDistinct' /\ ReturnsWithinSale' /\ LateIsRaced'
  BY <1>3, <1>7 DEF IInv, Kept, ReceiptsDistinct, ReturnsWithinSale, LateIsRaced
<1>12. StatusesFit'
  <2>1. ASSUME NEW q \in Orders, order'[q].status = "none" PROVE order'[q] = order[q]
    BY <1>5, <1>6, <2>1
  <2>2. ASSUME NEW q \in Orders, order'[q].cancelled PROVE order'[q].status # "open"
    BY <1>5, <1>6, <2>2 DEF IInv, Kept, StatusesFit
  <2> QED
    BY <1>3, <2>1, <2>2 DEF IInv, Kept, StatusesFit
<1>13. Stocked'
  BY <1>1, <1>2, <1>3, CommitKeepsStock
<1> QED
  BY <1>8, <1>9, <1>10, <1>11, <1>12, <1>13 DEF IInv, Kept

LEMMA CommitCashKeeps ==
    ASSUME IInv, NEW w \in Workers, CommitCash(w)
    PROVE  IInv'
<1> DEFINE j == job[w]
           c == j.row
           row == [status |-> j.status, sequence |-> j.number]
<1>1. /\ j # Nothing /\ j.kind = "cash" /\ c \in CashSessions /\ j.status \in {"open", "closed"}
      /\ j.number \in Nat
  BY Committing DEF IInv, CommitCash, Fits
<1>2. {c} \subseteq Rows
  BY <1>1 DEF Rows
<1>3. /\ cash' = [cash EXCEPT ![c] = row]
      /\ Commits(w, {c}) /\ UNCHANGED <<product, deducted, sale, order, movement, saved>>
  BY DEF CommitCash
<1>4. cash \in [CashSessions -> [status: {"none", "open", "closed"}, sequence: Nat]]
  BY RecordsTyped DEF IInv
<1>5. row \in [status: {"none", "open", "closed"}, sequence: Nat] /\ row.status # "none"
  BY <1>1
<1> HIDE DEF row
<1>6. /\ cash' \in [CashSessions -> [status: {"none", "open", "closed"}, sequence: Nat]]
      /\ cash'[c] = row /\ \A d \in CashSessions \ {c} : cash'[d] = cash[d]
  BY <1>1, <1>3, <1>4, <1>5
<1>7. raced \subseteq raced'
  BY <1>1, <1>2, <1>3, CommitJobs DEF IInv
<1>8. Typed'
  <2>1. /\ product' \in [Products -> [stock: Int, variant: Nat, removed: BOOLEAN]]
        /\ deducted' \in [Deductions -> Nat \cup {Nothing}]
        /\ saved' \in [Products -> Nat]
        /\ sale' \in [Sales -> SaleRecord]
        /\ order' \in [Orders -> OrderRecord]
        /\ movement' \in [Movements -> [stored: BOOLEAN, late: BOOLEAN]]
    BY <1>3 DEF IInv, Typed, TypeOK, SaleRecord, OrderRecord
  <2> QED
    BY <1>1, <1>2, <1>3, <1>6, <2>1, CommitKeepsTypes DEF IInv
<1>9. Fresh'
  BY <1>1, <1>2, <1>3, <1>6, CommitKeepsFresh DEF IInv
<1>10. OrdersNameSales' /\ ReceiptsDistinct' /\ ReturnsWithinSale' /\ LateIsRaced'
  BY <1>3, <1>7 DEF IInv, Kept, OrdersNameSales, ReceiptsDistinct, ReturnsWithinSale, LateIsRaced
<1>11. StatusesFit'
  <2>1. ASSUME NEW d \in CashSessions, cash'[d].status = "none" PROVE cash'[d] = cash[d]
    BY <1>5, <1>6, <2>1
  <2> QED
    BY <1>3, <2>1 DEF IInv, Kept, StatusesFit
<1>12. Stocked'
  BY <1>1, <1>2, <1>3, CommitKeepsStock
<1> QED
  BY <1>8, <1>9, <1>10, <1>11, <1>12 DEF IInv, Kept

LEMMA CommitMovementKeeps ==
    ASSUME IInv, NEW w \in Workers, CommitMovement(w)
    PROVE  IInv'
<1> DEFINE j == job[w]
           m == j.row
           late == j.cash # Nothing /\ cash[j.cash].status = "closed"
           row == [stored |-> TRUE, late |-> late]
<1>1. j # Nothing /\ j.kind = "movement" /\ m \in Movements /\ j.stale \in BOOLEAN
  BY Committing DEF IInv, CommitMovement, Fits
<1>2. {m} \subseteq Rows
  BY <1>1 DEF Rows
<1>3. /\ movement' = [movement EXCEPT ![m] = row]
      /\ Commits(w, {m}) /\ UNCHANGED <<product, deducted, sale, order, cash, saved>>
  BY DEF CommitMovement
<1>4. movement \in [Movements -> [stored: BOOLEAN, late: BOOLEAN]]
  BY RecordsTyped DEF IInv
<1>5. late \in BOOLEAN /\ (~j.stale => ~late)
  BY <1>1 DEF IInv, Fresh, Holds
<1> HIDE DEF late
<1>6. row \in [stored: BOOLEAN, late: BOOLEAN] /\ row.late = late
  BY <1>5
<1> HIDE DEF row
<1>7. /\ movement' \in [Movements -> [stored: BOOLEAN, late: BOOLEAN]]
      /\ movement'[m] = row /\ \A n \in Movements \ {m} : movement'[n] = movement[n]
  BY <1>1, <1>3, <1>4, <1>6
<1>8. raced \subseteq raced' /\ (j.stale => m \in raced')
  BY <1>1, <1>2, <1>3, CommitJobs DEF IInv
<1>9. Typed'
  <2>1. /\ product' \in [Products -> [stock: Int, variant: Nat, removed: BOOLEAN]]
        /\ deducted' \in [Deductions -> Nat \cup {Nothing}]
        /\ saved' \in [Products -> Nat]
        /\ sale' \in [Sales -> SaleRecord]
        /\ order' \in [Orders -> OrderRecord]
        /\ cash' \in [CashSessions -> [status: {"none", "open", "closed"}, sequence: Nat]]
    BY <1>3 DEF IInv, Typed, TypeOK, SaleRecord, OrderRecord
  <2> QED
    BY <1>1, <1>2, <1>3, <1>7, <2>1, CommitKeepsTypes DEF IInv
<1>10. Fresh'
  BY <1>1, <1>2, <1>3, CommitKeepsFresh DEF IInv
<1>11. OrdersNameSales' /\ ReceiptsDistinct' /\ ReturnsWithinSale' /\ StatusesFit'
  BY <1>3, <1>8 DEF IInv, Kept, OrdersNameSales, ReceiptsDistinct, ReturnsWithinSale, StatusesFit
<1>12. LateIsRaced'
  <2>1. SUFFICES ASSUME NEW n \in Movements, movement'[n].late PROVE n \in raced'
    BY DEF LateIsRaced
  <2>2. CASE n = m
    BY <1>5, <1>6, <1>7, <1>8, <2>1, <2>2
  <2>3. CASE n # m
    BY <1>7, <1>8, <2>1, <2>3 DEF IInv, Kept, LateIsRaced
  <2> QED
    BY <2>2, <2>3
<1>13. Stocked'
  BY <1>1, <1>2, <1>3, CommitKeepsStock
<1> QED
  BY <1>9, <1>10, <1>11, <1>12, <1>13 DEF IInv, Kept

LEMMA CommitCancelKeeps ==
    ASSUME IInv, NEW w \in Workers, CommitCancel(w)
    PROVE  IInv'
<1> DEFINE s == job[w].row
           row == [sale[s] EXCEPT !.status = "canceled"]
<1>1. job[w] # Nothing /\ job[w].kind = "cancel" /\ s \in Sales
  BY Committing DEF IInv, CommitCancel, Fits
<1>2. {s} \subseteq Rows
  BY <1>1 DEF Rows
<1>3. /\ sale' = [sale EXCEPT ![s] = row]
      /\ Commits(w, {s}) /\ UNCHANGED <<product, deducted, order, cash, movement, saved>>
  BY DEF CommitCancel
<1>4. sale \in [Sales -> SaleRecord] /\ sale[s] \in SaleRecord
  BY <1>1, RecordsTyped DEF IInv
<1>5. /\ row \in SaleRecord /\ row.receipt = sale[s].receipt
      /\ row.order = sale[s].order /\ row.returned = sale[s].returned
  BY <1>4 DEF SaleRecord
<1> HIDE DEF row
<1>6. /\ sale' \in [Sales -> SaleRecord]
      /\ \A t \in Sales : /\ sale'[t].receipt = sale[t].receipt
                          /\ sale'[t].order = sale[t].order /\ sale'[t].returned = sale[t].returned
  BY <1>1, <1>3, <1>4, <1>5
<1>7. raced \subseteq raced'
  BY <1>1, <1>2, <1>3, CommitJobs DEF IInv
<1>8. Typed'
  <2>1. /\ product' \in [Products -> [stock: Int, variant: Nat, removed: BOOLEAN]]
        /\ deducted' \in [Deductions -> Nat \cup {Nothing}]
        /\ saved' \in [Products -> Nat]
        /\ order' \in [Orders -> OrderRecord]
        /\ cash' \in [CashSessions -> [status: {"none", "open", "closed"}, sequence: Nat]]
        /\ movement' \in [Movements -> [stored: BOOLEAN, late: BOOLEAN]]
    BY <1>3 DEF IInv, Typed, TypeOK, SaleRecord, OrderRecord
  <2> QED
    BY <1>1, <1>2, <1>3, <1>6, <2>1, CommitKeepsTypes DEF IInv
<1>9. Fresh'
  BY <1>1, <1>2, <1>3, <1>6, CommitKeepsFresh DEF IInv
<1>10. Kept'
  BY <1>3, <1>6, <1>7 DEF IInv, Kept, OrdersNameSales, ReceiptsDistinct, ReturnsWithinSale,
        LateIsRaced, StatusesFit
<1>11. Stocked'
  BY <1>1, <1>2, <1>3, CommitKeepsStock
<1> QED
  BY <1>8, <1>9, <1>10, <1>11 DEF IInv

(* What comes back raises the stock and what it is compared with.          *)
LEMMA CommitReturnKeeps ==
    ASSUME IInv, NEW w \in Workers, CommitReturn(w)
    PROVE  IInv'
<1> DEFINE j == job[w]
           s == j.row
           p == ProductOf[s]
           status == IF j.status = "closed" THEN "refunded" ELSE sale[s].status
           row == [sale[s] EXCEPT !.returned = sale[s].returned + j.number,
                                  !.status = IF j.status = "closed" THEN "refunded"
                                             ELSE sale[s].status]
<1>1. j # Nothing /\ j.kind = "return" /\ s \in Sales /\ j.number \in Nat /\ j.stale \in BOOLEAN
  BY Committing DEF IInv, CommitReturn, Fits
<1>2. {s} \subseteq Rows /\ p \in Products
  BY <1>1, LedgerAssumption DEF Rows
<1>3. /\ sale' = [sale EXCEPT ![s] = row]
      /\ Commits(w, {s}) /\ UNCHANGED <<deducted, order, cash, movement>>
      /\ \/ /\ product' = [product EXCEPT ![p].stock = @ + 1]
            /\ saved' = [saved EXCEPT ![p] = @ + 1]
         \/ UNCHANGED <<product, saved>>
  <2>1. sale' = [sale EXCEPT ![s] = row] /\ Commits(w, {s})
           /\ UNCHANGED <<deducted, order, cash, movement>>
    BY DEF CommitReturn
  <2>2. IF j.flag /\ p \notin Varied
        THEN /\ product' = [product EXCEPT ![p].stock = @ + 1]
             /\ saved' = [saved EXCEPT ![p] = @ + 1]
        ELSE UNCHANGED <<product, saved>>
    BY Zenon DEF CommitReturn
  <2> HIDE DEF j, s, p, row
  <2>3. \/ /\ product' = [product EXCEPT ![p].stock = @ + 1]
           /\ saved' = [saved EXCEPT ![p] = @ + 1]
        \/ UNCHANGED <<product, saved>>
    BY <2>2, Zenon
  <2> QED
    BY <2>1, <2>3
<1>4. /\ sale \in [Sales -> SaleRecord] /\ sale[s] \in SaleRecord
      /\ product \in [Products -> [stock: Int, variant: Nat, removed: BOOLEAN]]
      /\ saved \in [Products -> Nat]
  BY <1>1, RecordsTyped DEF IInv, Typed, TypeOK
<1>5. /\ row \in SaleRecord /\ row.receipt = sale[s].receipt
      /\ row.order = sale[s].order /\ row.returned = sale[s].returned + j.number
  <2>1. status \in {"none", "active", "refunded", "canceled"} /\ sale[s].returned + j.number \in Nat
    BY <1>1, <1>4 DEF SaleRecord
  <2>2. row = [sale[s] EXCEPT !.returned = sale[s].returned + j.number, !.status = status]
    BY <1>4 DEF SaleRecord
  <2> HIDE DEF row, status
  <2> QED
    BY <1>4, <2>1, <2>2 DEF SaleRecord
<1> HIDE DEF row
<1>6. /\ sale' \in [Sales -> SaleRecord] /\ sale'[s] = row
      /\ \A t \in Sales \ {s} : sale'[t] = sale[t]
  BY <1>1, <1>3, <1>4, <1>5
<1>7. raced \subseteq raced' /\ (j.stale => s \in raced')
  BY <1>1, <1>2, <1>3, CommitJobs DEF IInv
<1>8. \A t \in Sales : sale'[t].receipt = sale[t].receipt /\ sale'[t].order = sale[t].order
  BY <1>5, <1>6
<1>9. /\ product' \in [Products -> [stock: Int, variant: Nat, removed: BOOLEAN]]
      /\ saved' \in [Products -> Nat]
      /\ \A q \in Products : /\ product'[q].variant = product[q].variant
                             /\ product'[q].stock >= product[q].stock
                             /\ product'[q].stock - saved'[q] = product[q].stock - saved[q]
  <2>1. ASSUME product' = [product EXCEPT ![p].stock = @ + 1], saved' = [saved EXCEPT ![p] = @ + 1]
        PROVE  /\ product' \in [Products -> [stock: Int, variant: Nat, removed: BOOLEAN]]
               /\ saved' \in [Products -> Nat]
               /\ \A q \in Products :
                     /\ product'[q].variant = product[q].variant
                     /\ product'[q].stock = (IF q = p THEN product[q].stock + 1
                                                      ELSE product[q].stock)
                     /\ saved'[q] = (IF q = p THEN saved[q] + 1 ELSE saved[q])
    BY <1>2, <1>4, <2>1
  <2>2. CASE UNCHANGED <<product, saved>>
    BY <1>4, <2>2
  <2>3. CASE product' = [product EXCEPT ![p].stock = @ + 1] /\ saved' = [saved EXCEPT ![p] = @ + 1]
    <3>1. ASSUME NEW q \in Products
          PROVE  /\ product'[q].stock >= product[q].stock
                 /\ product'[q].stock - saved'[q] = product[q].stock - saved[q]
      <4>1. product[q].stock \in Int /\ saved[q] \in Nat
        BY <1>4
      <4>2. /\ product'[q].stock = IF q = p THEN product[q].stock + 1 ELSE product[q].stock
            /\ saved'[q] = IF q = p THEN saved[q] + 1 ELSE saved[q]
        BY <2>1, <2>3
      <4> QED
        BY <4>1, <4>2
    <3> QED
      BY <2>1, <2>3, <3>1
  <2> QED
    BY <1>3, <2>2, <2>3
<1> HIDE DEF p
<1>10. Typed'
  <2>1. /\ deducted' \in [Deductions -> Nat \cup {Nothing}]
        /\ order' \in [Orders -> OrderRecord]
        /\ cash' \in [CashSessions -> [status: {"none", "open", "closed"}, sequence: Nat]]
        /\ movement' \in [Movements -> [stored: BOOLEAN, late: BOOLEAN]]
    BY <1>3 DEF IInv, Typed, TypeOK, SaleRecord, OrderRecord
  <2> QED
    BY <1>1, <1>2, <1>3, <1>6, <1>9, <2>1, CommitKeepsTypes DEF IInv
<1>11. Fresh'
  BY <1>1, <1>2, <1>3, <1>6, <1>8, CommitKeepsFresh DEF IInv
<1>12. OrdersNameSales' /\ ReceiptsDistinct' /\ LateIsRaced' /\ StatusesFit'
  BY <1>3, <1>7, <1>8 DEF IInv, Kept, OrdersNameSales, ReceiptsDistinct, LateIsRaced, StatusesFit
<1>13. ReturnsWithinSale'
  <2>1. ~j.stale => sale[s].returned + j.number <= Total
    BY <1>1 DEF IInv, Fresh, Holds
  <2>2. ASSUME NEW t \in Sales PROVE sale'[t].returned <= Total \/ t \in raced'
    <3>1. CASE t = s
      BY <1>1, <1>5, <1>6, <1>7, <2>1, <3>1
    <3>2. CASE t # s
      BY <1>6, <1>7, <3>2 DEF IInv, Kept, ReturnsWithinSale
    <3> QED
      BY <3>1, <3>2
  <2> QED
    BY <2>2 DEF ReturnsWithinSale
<1>14. PendingFoundStock'
  <2>1. SUFFICES ASSUME NEW q \in Products
                 PROVE  product'[q].stock + Cardinality(Workers) >= Cardinality(Pending(q)')
    BY DEF PendingFoundStock
  <2>2. \A v \in Workers : job'[v] # Nothing /\ job'[v].kind = "deduct" =>
          job[v] # Nothing /\ job[v].kind = "deduct" /\ job'[v].row = job[v].row
    BY <1>1, <1>2, <1>3, CommitJobs DEF IInv
  <2>3. /\ Cardinality(Pending(q)') <= Cardinality(Pending(q))
        /\ Cardinality(Pending(q)) \in Nat /\ Cardinality(Pending(q)') \in Nat
    BY <2>2, PendingShrinks
  <2>4. product[q].stock + Cardinality(Workers) >= Cardinality(Pending(q))
    BY DEF IInv, Stocked, PendingFoundStock
  <2>5. /\ Cardinality(Workers) \in Nat /\ product[q].stock \in Int /\ product'[q].stock \in Int
        /\ product'[q].stock >= product[q].stock
    BY <1>4, <1>9, FS_CardinalityType, LedgerAssumption
  <2> QED
    BY <2>3, <2>4, <2>5
<1>15. StockAddsUp'
  <2>1. ASSUME NEW q \in Products PROVE product'[q].stock = saved'[q] - Cardinality(CountedIn(q)')
    <3>1. CountedIn(q)' = CountedIn(q)
      BY <1>3, <1>9 DEF CountedIn
    <3>2. product[q].stock = saved[q] - Cardinality(CountedIn(q))
      BY DEF IInv, Stocked, StockAddsUp
    <3>3. Cardinality(CountedIn(q)) \in Nat
      BY CountedFinite
    <3>4. /\ product[q].stock \in Int /\ product'[q].stock \in Int
          /\ saved[q] \in Nat /\ saved'[q] \in Nat
          /\ product'[q].stock - saved'[q] = product[q].stock - saved[q]
      BY <1>4, <1>9
    <3> QED
      BY <3>1, <3>2, <3>3, <3>4
  <2> QED
    BY <2>1 DEF StockAddsUp
<1>16. CountedBefore'
  BY <1>3, <1>9, LedgerAssumption DEF IInv, Stocked, CountedBefore
<1> QED
  BY <1>10, <1>11, <1>12, <1>13, <1>14, <1>15, <1>16 DEF IInv, Kept, Stocked

(***************************************************************************)
(* Every step.                                                             *)
(***************************************************************************)
LEMMA StutterKeeps == ASSUME IInv, UNCHANGED vars PROVE IInv'
<1>1. Typed'
  BY DEF IInv, Typed, TypeOK, JobsFit, Fits, vars, rows
<1>2. Fresh'
  BY DEF IInv, Fresh, Holds, Free, vars, rows
<1>3. Kept'
  BY DEF IInv, Kept, OrdersNameSales, ReceiptsDistinct, ReturnsWithinSale, LateIsRaced,
        StatusesFit, vars, rows
<1>4. Stocked'
  BY StockUntouched DEF IInv, vars, rows
<1> QED
  BY <1>1, <1>2, <1>3, <1>4 DEF IInv

LEMMA Inductive == ASSUME IInv, [Next]_vars PROVE IInv'
<1>1. CASE UNCHANGED vars
  BY <1>1, StutterKeeps
<1>2. ASSUME NEW p \in Products, SaveProduct(p) \/ RemoveProduct(p) PROVE IInv'
  BY <1>2, SaveProductKeeps, RemoveProductKeeps
<1>3. ASSUME NEW w \in Workers, Request(w) \/ Aborts(w) PROVE IInv'
  BY <1>3, RequestKeeps, AbortKeeps
<1>4. ASSUME NEW w \in Workers, Commit(w) PROVE IInv'
  BY <1>4, CommitDeductionKeeps, CommitSaleKeeps, CommitConversionKeeps, CommitReceiptKeeps,
     CommitOrderKeeps, CommitCashKeeps, CommitMovementKeeps, CommitReturnKeeps, CommitCancelKeeps
     DEF Commit
<1> QED
  BY <1>1, <1>2, <1>3, <1>4 DEF Next

LEMMA Invariantly == Spec => []IInv
<1>1. Init => IInv
  BY Initially
<1>2. IInv /\ [Next]_vars => IInv'
  BY Inductive
<1> QED
  BY <1>1, <1>2, PTL DEF Spec

(***************************************************************************)
(* Theorems.                                                               *)
(***************************************************************************)

\* Every row stays one the tables can hold.
THEOREM TypeCorrect == Spec => []TypeOK
<1>1. IInv => TypeOK
  BY DEF IInv, Typed
<1> QED
  BY <1>1, Invariantly, PTL

\* The stock of a product is what was saved less each deduction stored since, and falls below
\* zero by no more than the transactions that overlap (stock.materializer.ts, products.service.ts).
THEOREM StockIsAccounted == Spec => []StockAccounts
<1>1. IInv => StockAccounts
  <2>1. SUFFICES ASSUME IInv PROVE StockAccounts
    OBVIOUS
  <2>2. TypeOK
    BY <2>1 DEF IInv, Typed
  <2>3. ASSUME NEW p \in Products PROVE product[p].stock + Cardinality(Workers) >= 0
    <3>1. product[p].stock + Cardinality(Workers) >= Cardinality(Pending(p))
      BY <2>1 DEF IInv, Stocked, PendingFoundStock
    <3>2. Pending(p) \subseteq Workers
      BY DEF Pending
    <3>3. Cardinality(Pending(p)) \in Nat /\ Cardinality(Workers) \in Nat
      BY <3>2, FS_Subset, FS_CardinalityType, LedgerAssumption
    <3>4. product[p].stock \in Int
      BY <2>2 DEF TypeOK
    <3> QED
      BY <3>1, <3>3, <3>4
  <2> QED
    BY <2>1, <2>2, <2>3 DEF IInv, Stocked, StockAddsUp, CountedIn, StockAccounts
<1> QED
  BY <1>1, Invariantly, PTL

\* Two sales share a receipt or an order only where a decision overlapped a write of it
\* (sale.materializer.ts).
THEOREM SalesStayDistinct == Spec => []SalesAreDistinct
<1>1. IInv => SalesAreDistinct
  <2>1. SUFFICES ASSUME IInv, NEW s \in Sales, NEW t \in Sales, s # t
                 PROVE  /\ sale[s].receipt = sale[t].receipt => sale[s].receipt \in raced \cup {Nothing}
                        /\ sale[s].order = sale[t].order => sale[s].order \in raced \cup {Nothing}
    BY DEF SalesAreDistinct
  <2>2. sale[s].receipt = sale[t].receipt => sale[s].receipt \in raced \cup {Nothing}
    BY <2>1 DEF IInv, Kept, ReceiptsDistinct
  <2>3. sale[s].order \in Orders \cup {Nothing}
    BY <2>1, RecordsTyped DEF IInv, SaleRecord
  <2>4. ASSUME NEW o \in Orders, sale[s].order = o, sale[t].order = o PROVE o \in raced
    BY <2>1, <2>4 DEF IInv, Kept, OrdersNameSales
  <2> QED
    BY <2>2, <2>3, <2>4
<1> QED
  BY <1>1, Invariantly, PTL

\* The returns of a sale exceed it only where two of them overlapped
\* (owner-reporting.service.ts).
THEOREM ReturnsStayWithinSale == Spec => []ReturnsWithinSale
<1>1. IInv => ReturnsWithinSale
  BY DEF IInv, Kept
<1> QED
  BY <1>1, Invariantly, PTL

(***************************************************************************)
(* What is over.                                                           *)
(***************************************************************************)
CashStays ==
    \A c \in CashSessions \ raced' :
       /\ cash[c].status = "closed" => cash'[c].status = "closed"
       /\ cash'[c].sequence >= cash[c].sequence
OrdersStay ==
    \A o \in Orders \ raced' :
       /\ order[o].sale # Nothing => order'[o] = order[o]
       /\ order[o].cancelled => order'[o].status # "open"
       /\ order'[o].sequence >= order[o].sequence

LEMMA RowsStay ==
    ASSUME IInv, UNCHANGED <<order, cash>>
    PROVE  CashStays /\ OrdersStay
<1>1. /\ \A o \in Orders : order[o].sequence \in Nat
      /\ \A c \in CashSessions : cash[c].sequence \in Nat
  BY RecordsTyped DEF IInv, OrderRecord
<1>2. CashStays
  BY <1>1 DEF CashStays
<1>3. OrdersStay
  BY <1>1 DEF OrdersStay, IInv, Kept, StatusesFit
<1> QED
  BY <1>2, <1>3

(* An order that a sale takes had no sale, where the decision holds.       *)
LEMMA ConversionStays ==
    ASSUME IInv, NEW o \in Orders, NEW s \in Sales, order' = Converted(o, s),
           order[o].sale = Nothing \/ o \in raced'
    PROVE  OrdersStay
<1>1. /\ order'[o].status = "converted" /\ order'[o].sequence = order[o].sequence
      /\ \A q \in Orders \ {o} : order'[q] = order[q]
  BY ConvertedOrder DEF IInv
<1>2. \A q \in Orders : order[q].sequence \in Nat
  BY RecordsTyped DEF IInv, OrderRecord
<1>3. ASSUME NEW q \in Orders \ raced'
      PROVE  /\ order[q].sale # Nothing => order'[q] = order[q]
             /\ order[q].cancelled => order'[q].status # "open"
             /\ order'[q].sequence >= order[q].sequence
  <2>1. CASE q = o
    BY <1>1, <1>2, <2>1
  <2>2. CASE q # o
    BY <1>1, <1>2, <2>2 DEF IInv, Kept, StatusesFit
  <2> QED
    BY <2>1, <2>2
<1> QED
  BY <1>3 DEF OrdersStay

LEMMA SaleStays == ASSUME IInv, NEW w \in Workers, CommitSale(w) PROVE CashStays /\ OrdersStay
<1> DEFINE j == job[w]
           written == {j.row, j.order, j.receipt} \ {Nothing}
<1>1. /\ j # Nothing /\ j.kind = "sale" /\ j.row \in Sales /\ j.stale \in BOOLEAN
      /\ j.order \in Orders \cup {Nothing} /\ j.receipt \in Receipts \cup {Nothing}
  BY Committing DEF IInv, CommitSale, Fits
<1>2. written \subseteq Rows
  BY <1>1 DEF Rows
<1>3. /\ order' = IF j.order = Nothing THEN order ELSE Converted(j.order, j.row)
      /\ Commits(w, written) /\ UNCHANGED cash
  BY DEF CommitSale
<1>4. j.stale => written \subseteq raced'
  BY <1>1, <1>2, <1>3, CommitJobs DEF IInv
<1>5. ~j.stale /\ j.order # Nothing => order[j.order].sale = Nothing
  BY <1>1 DEF IInv, Fresh, Holds
<1> HIDE DEF j
<1>6. CASE j.order = Nothing
  BY <1>3, <1>6, RowsStay
<1>7. CASE j.order # Nothing
  <2>1. j.order \in Orders /\ order' = Converted(j.order, j.row)
    BY <1>1, <1>3, <1>7
  <2>2. order[j.order].sale = Nothing \/ j.order \in raced'
    BY <1>1, <1>4, <1>5, <1>7
  <2>3. OrdersStay
    BY <1>1, <2>1, <2>2, ConversionStays
  <2>4. \A c \in CashSessions : cash[c].sequence \in Nat
    BY RecordsTyped DEF IInv
  <2> QED
    BY <1>3, <2>3, <2>4 DEF CashStays
<1> QED
  BY <1>6, <1>7

LEMMA OrderSaleStays ==
    ASSUME IInv, NEW w \in Workers, CommitConversion(w) PROVE CashStays /\ OrdersStay
<1> DEFINE j == job[w]
<1>1. j # Nothing /\ j.kind = "convert" /\ j.row \in Sales /\ j.order \in Orders
        /\ j.stale \in BOOLEAN
  BY Committing DEF IInv, CommitConversion, Fits
<1>2. {j.order, j.row} \subseteq Rows /\ j.order # Nothing
  BY <1>1, LedgerAssumption DEF Rows
<1>3. order' = Converted(j.order, j.row) /\ Commits(w, {j.order, j.row}) /\ UNCHANGED cash
  BY DEF CommitConversion
<1>4. j.stale => j.order \in raced'
  BY <1>1, <1>2, <1>3, CommitJobs DEF IInv
<1>5. ~j.stale => order[j.order].sale = Nothing
  BY <1>1, <1>2 DEF IInv, Fresh, Holds
<1> HIDE DEF j
<1>6. OrdersStay
  BY <1>1, <1>3, <1>4, <1>5, ConversionStays
<1>7. \A c \in CashSessions : cash[c].sequence \in Nat
  BY RecordsTyped DEF IInv
<1> QED
  BY <1>3, <1>6, <1>7 DEF CashStays

LEMMA OrderStays ==
    ASSUME IInv, NEW w \in Workers, CommitOrder(w) PROVE CashStays /\ OrdersStay
<1> DEFINE j == job[w]
           o == j.row
           row == [order[o] EXCEPT !.status = j.status, !.sequence = j.number, !.cancelled = j.flag]
<1>1. /\ j # Nothing /\ j.kind = "order" /\ o \in Orders /\ j.status \in OrderStatuses
      /\ j.number \in Nat /\ j.flag \in BOOLEAN /\ j.stale \in BOOLEAN
  BY Committing DEF IInv, CommitOrder, Fits
<1>2. {o} \subseteq Rows
  BY <1>1 DEF Rows
<1>3. order' = [order EXCEPT ![o] = row] /\ Commits(w, {o}) /\ UNCHANGED cash
  BY DEF CommitOrder
<1>4. order \in [Orders -> OrderRecord] /\ \A q \in Orders : order[q].sequence \in Nat
  BY RecordsTyped DEF IInv, OrderRecord
<1>5. row.status = j.status /\ row.sequence = j.number
  BY <1>1, <1>4 DEF OrderRecord
<1> HIDE DEF row
<1>6. order'[o] = row /\ \A q \in Orders \ {o} : order'[q] = order[q]
  BY <1>1, <1>3, <1>4
<1>7. j.stale => o \in raced'
  BY <1>1, <1>2, <1>3, CommitJobs DEF IInv
<1>8. /\ order[o].status # "none" /\ ~j.stale =>
            /\ j.number >= order[o].sequence
            /\ order[o].sale = Nothing
            /\ order[o].cancelled => j.status # "open"
      /\ order[o].status = "none" =>
            order[o].sale = Nothing /\ ~order[o].cancelled /\ order[o].sequence = 0
  BY <1>1 DEF IInv, Fresh, Holds, Kept, StatusesFit
<1> HIDE DEF j, o
<1>9. ASSUME NEW q \in Orders \ raced'
      PROVE  /\ order[q].sale # Nothing => order'[q] = order[q]
             /\ order[q].cancelled => order'[q].status # "open"
             /\ order'[q].sequence >= order[q].sequence
  <2>1. CASE q = o
    BY <1>1, <1>5, <1>6, <1>7, <1>8, <2>1
  <2>2. CASE q # o
    BY <1>4, <1>6, <2>2 DEF IInv, Kept, StatusesFit
  <2> QED
    BY <2>1, <2>2
<1>10. \A c \in CashSessions : cash[c].sequence \in Nat
  BY RecordsTyped DEF IInv
<1> QED
  BY <1>3, <1>9, <1>10 DEF CashStays, OrdersStay

LEMMA SessionStays ==
    ASSUME IInv, NEW w \in Workers, CommitCash(w) PROVE CashStays /\ OrdersStay
<1> DEFINE j == job[w]
           c == j.row
           row == [status |-> j.status, sequence |-> j.number]
<1>1. /\ j # Nothing /\ j.kind = "cash" /\ c \in CashSessions /\ j.number \in Nat
      /\ j.stale \in BOOLEAN
  BY Committing DEF IInv, CommitCash, Fits
<1>2. {c} \subseteq Rows
  BY <1>1 DEF Rows
<1>3. cash' = [cash EXCEPT ![c] = row] /\ Commits(w, {c}) /\ UNCHANGED order
  BY DEF CommitCash
<1>4. /\ cash \in [CashSessions -> [status: {"none", "open", "closed"}, sequence: Nat]]
      /\ \A d \in CashSessions : cash[d].sequence \in Nat
      /\ \A o \in Orders : order[o].sequence \in Nat
  BY RecordsTyped DEF IInv, OrderRecord
<1>5. cash'[c] = row /\ \A d \in CashSessions \ {c} : cash'[d] = cash[d]
  BY <1>1, <1>3, <1>4
<1>6. j.stale => c \in raced'
  BY <1>1, <1>2, <1>3, CommitJobs DEF IInv
<1>7. /\ ~j.stale => /\ cash[c].status = "closed" => j.status = "closed"
                     /\ cash[c].status # "none" => j.number >= cash[c].sequence
      /\ cash[c].status = "none" => cash[c].sequence = 0
  BY <1>1 DEF IInv, Fresh, Holds, Kept, StatusesFit
<1> HIDE DEF j, c
<1>8. ASSUME NEW d \in CashSessions \ raced'
      PROVE  /\ cash[d].status = "closed" => cash'[d].status = "closed"
             /\ cash'[d].sequence >= cash[d].sequence
  <2>1. CASE d = c
    BY <1>1, <1>5, <1>6, <1>7, <2>1
  <2>2. CASE d # c
    BY <1>4, <1>5, <2>2
  <2> QED
    BY <2>1, <2>2
<1>9. OrdersStay
  BY <1>3, <1>4 DEF OrdersStay, IInv, Kept, StatusesFit
<1> QED
  BY <1>8, <1>9 DEF CashStays

LEMMA Stays == ASSUME IInv, [Next]_vars PROVE CashStays /\ OrdersStay
<1>1. ASSUME NEW w \in Workers, Request(w) PROVE UNCHANGED rows
  BY <1>1 DEF Request, DecideDeduction, DecideSale, DecideConversion, DecideReceipt, DecideOrder,
        DecideCash, DecideMovement, DecideReturn, DecideCancel, Decides
<1>2. CASE UNCHANGED vars
  BY <1>2, RowsStay DEF vars, rows
<1>3. ASSUME NEW p \in Products, SaveProduct(p) \/ RemoveProduct(p) PROVE CashStays /\ OrdersStay
  BY <1>3, RowsStay DEF SaveProduct, RemoveProduct
<1>4. ASSUME NEW w \in Workers, Request(w) \/ Aborts(w) PROVE CashStays /\ OrdersStay
  BY <1>1, <1>4, RowsStay DEF Aborts, rows
<1>5. ASSUME NEW w \in Workers, Commit(w) PROVE CashStays /\ OrdersStay
  <2>1. CASE CommitDeduction(w) \/ CommitReceipt(w) \/ CommitMovement(w) \/ CommitReturn(w)
                \/ CommitCancel(w)
    BY <2>1, RowsStay DEF CommitDeduction, CommitReceipt, CommitMovement, CommitReturn, CommitCancel
  <2> QED
    BY <1>5, <2>1, SaleStays, OrderSaleStays, OrderStays, SessionStays DEF Commit
<1> QED
  BY <1>2, <1>3, <1>4, <1>5 DEF Next

\* Where the decisions did not overlap, a closed cash session takes no movement and stays closed,
\* a converted order keeps its sale, a cancelled one is not opened, and the newest event wins
\* (operational-order.materializer.ts, cash-session.materializer.ts, cash-movement.materializer.ts).
THEOREM FinishedStays == Spec => FinishedStaysFinished
<1> DEFINE Stay ==
             /\ \A m \in Movements : movement'[m].late => m \in raced'
             /\ \A c \in CashSessions \ raced' :
                   /\ cash[c].status = "closed" => cash'[c].status = "closed"
                   /\ cash'[c].sequence >= cash[c].sequence
             /\ \A o \in Orders \ raced' :
                   /\ order[o].sale # Nothing => order'[o] = order[o]
                   /\ order[o].cancelled => order'[o].status # "open"
                   /\ order'[o].sequence >= order[o].sequence
<1>1. IInv /\ IInv' /\ [Next]_vars => Stay
  BY Stays DEF CashStays, OrdersStay, IInv, Kept, LateIsRaced
<1>2. IInv /\ [Next]_vars => IInv'
  BY Inductive
<1> QED
  BY <1>1, <1>2, Invariantly, PTL DEF Spec, FinishedStaysFinished

==============================================================================
