-------------------------------- MODULE Reports --------------------------------
(***************************************************************************)
(* What a company's books hold - sales, instalments paid on credit sales   *)
(* (fiado), purchases, cash and financial events, orders, cash sessions,    *)
(* the commission settings of employees - how each of them changes, and     *)
(* the reports that are computed from them when they are asked for: those  *)
(* of the owner, of the employees and of the customers.  The same sale is   *)
(* counted by several services, each with its own query and its own rules;  *)
(* the properties relate what they say of it.                              *)
(*                                                                          *)
(* Amounts are in cents and quantities in thousandths; a day is a number.   *)
(* The reports that are kept in tables are in Snapshots.                    *)
(***************************************************************************)
EXTENDS Integers, FiniteSets, Functions

CONSTANTS Sales, Payments, Entries,   \* identities of rows
          Employees,        \* employees, each with a user of the same name
          Users,            \* users who appear in the books
          Customers, Products, Sessions, Orders,
          Category,         \* of each product
          Forms,            \* contents a sale may have
          EntryForms,       \* contents of the other events, and who pushed them
          OrderForms,       \* contents of orders
          Differences,      \* between what is counted and what is expected in a cash session
          Amounts,          \* amounts of instalments
          Settings,         \* commission settings an owner may choose
          LastDay,          \* bound: the last day
          Budgets,          \* bound: what may be recorded, changed and asked
          Nothing

Days == 1..LastDay
Spendings == {"sales", "payments", "entries", "orders", "sessions", "settings",
              "ends", "requests", "failures", "days", "ages"}
CashKinds == {"entrada", "fiado_pagamento", "saida", "retirada", "cashMovement"}
FinancialKinds == {"fiado_payment", "sale_canceled", "sale_canceled_admin"}
Kinds == CashKinds \cup FinancialKinds \cup {"purchase", "deduction"}
Types == {"NONE", "PERCENTAGE", "FIXED_PER_SALE"}
Bases == {"GROSS_SALES", "NET_SALES", "GROSS_PROFIT"}
Items == [product: Products, quantity: Nat, price: Nat, cost: Nat, unit: Nat]

\* The rows of the books.
SaleRows == [status: {"none", "active", "refunded", "canceled"}, day: Days,
             form: Forms \cup {Nothing}]
PaymentRows == [sale: Sales, amount: Amounts, day: Days]
EntryRows == [kind: Kinds, amount: Nat, day: Days, author: Users \cup {Nothing},
              cancelled: BOOLEAN]
OrderRows == [status: {"open", "converted", "cancelled"}, day: Days, form: OrderForms]
SettingRows == [enabled: BOOLEAN, type: Types, base: Bases, rate: 0..10000, fixed: Nat]
SessionRows == [user: Users \cup {Nothing}, opened: Days, closed: Days \cup {0},
                difference: Differences \cup {0}]

ASSUME ReportsAssumption ==
    /\ \A rows \in {Sales, Payments, Entries, Employees, Customers, Products, Sessions, Orders} :
          IsFiniteSet(rows)
    /\ Employees \subseteq Users /\ Nothing \notin Users \cup Customers \cup Products
    /\ Nothing \notin Forms \cup Sessions \cup Orders
    /\ Nothing \notin PaymentRows \cup EntryRows \cup OrderRows \cup SessionRows
    /\ \A f \in Forms :
          /\ DOMAIN f = {"customer", "fiado", "total", "cost", "items",
                         "order", "author", "session"}
          /\ f.customer \in Customers \cup {Nothing} /\ f.author \in Users \cup {Nothing}
          /\ f.session \in Sessions \cup {Nothing} /\ f.order \in Orders \cup {Nothing}
          /\ f.total \in Nat /\ f.cost \in Nat /\ IsFiniteSet(DOMAIN f.items)
          /\ \A i \in DOMAIN f.items : f.items[i] \in Items
    /\ EntryForms \subseteq [kind: Kinds, amount: Nat, author: Users \cup {Nothing}]
    /\ OrderForms \subseteq
          [seller: Users \cup {Nothing}, subtotal: Nat, discount: Nat, total: Nat]
    /\ Settings \subseteq SettingRows
    /\ Amounts \subseteq Nat /\ Differences \subseteq Int
    /\ LastDay \in Nat \ {0} /\ Budgets \subseteq [Spendings -> Nat]

VARIABLES today,
          sale,        \* Sale with its items, its order, its session and its first event
          payment,     \* FiadoPayment
          entry,       \* Purchase, CashEvent, FinancialEvent and StockDeduction
          order,       \* OperationalOrder
          session,     \* CashSession
          settings,    \* commission settings of EmployeeProfile
          budget       \* what may still be spent
books == <<sale, payment, entry, order, session, settings>>

Spend(what) == budget[what] > 0 /\ budget' = [budget EXCEPT ![what] = @ - 1]

Unsold == [status |-> "none", day |-> 1, form |-> Nothing]
BooksInit ==
    /\ today = 1
    /\ sale = [s \in Sales |-> Unsold]
    /\ payment = [p \in Payments |-> Nothing]
    /\ entry = [e \in Entries |-> Nothing]
    /\ order = [o \in Orders |-> Nothing]
    /\ session = [c \in Sessions |-> Nothing]
    /\ settings = [e \in Employees |-> [enabled |-> FALSE, type |-> "NONE", base |-> "NET_SALES",
                                        rate |-> 0, fixed |-> 0]]
    /\ budget \in Budgets

------------------------------------------------------------------------------
(***************************************************************************)
(* What is written in the books.  A sale made on a device is recorded when *)
(* the device synchronises, so with an earlier day.                        *)
(***************************************************************************)
Exists(s) == sale[s].status # "none"

RecordSale(s, f, d) ==
    /\ Spend("sales")
    /\ ~Exists(s) /\ d \in 1..today
    /\ f.session # Nothing => session[f.session] # Nothing
    /\ f.order # Nothing => order[f.order] # Nothing /\ order[f.order].status = "open"
    /\ sale' = [sale EXCEPT ![s] = [status |-> "active", day |-> d, form |-> f]]
    /\ order' = [o \in Orders |-> IF o # f.order THEN order[o]
                                  ELSE [order[o] EXCEPT !.status = "converted", !.day = today]]
    /\ UNCHANGED <<today, payment, entry, session, settings>>

\* The owner cancels whatever is not canceled; a whole return makes the sale refunded.
CancelSale(s) ==
    /\ Spend("ends")
    /\ sale[s].status \in {"active", "refunded"}
    /\ sale' = [sale EXCEPT ![s].status = "canceled"]
    /\ UNCHANGED <<today, payment, entry, order, session, settings>>

RefundSale(s) ==
    /\ Spend("ends")
    /\ sale[s].status = "active" /\ sale[s].form.session # Nothing
    /\ sale' = [sale EXCEPT ![s].status = "refunded"]
    /\ UNCHANGED <<today, payment, entry, order, session, settings>>

\* The sale must exist; neither its kind nor what is still open is looked at.
PayFiado(p, s, amount, d) ==
    /\ Spend("payments")
    /\ payment[p] = Nothing /\ Exists(s) /\ d \in 1..today
    /\ payment' = [payment EXCEPT ![p] = [sale |-> s, amount |-> amount, day |-> d]]
    /\ UNCHANGED <<today, sale, entry, order, session, settings>>

RecordEntry(e, f, d) ==
    /\ Spend("entries")
    /\ entry[e] = Nothing /\ d \in 1..today
    /\ entry' = [entry EXCEPT ![e] = [kind |-> f.kind, amount |-> f.amount, day |-> d,
                                      author |-> f.author, cancelled |-> FALSE]]
    /\ UNCHANGED <<today, sale, payment, order, session, settings>>

CancelPurchase(e) ==
    /\ Spend("ends")
    /\ entry[e] # Nothing /\ entry[e].kind = "purchase" /\ ~entry[e].cancelled
    /\ entry' = [entry EXCEPT ![e].cancelled = TRUE]
    /\ UNCHANGED <<today, sale, payment, order, session, settings>>

SaveOrder(o, f) ==
    /\ Spend("orders")
    /\ order[o] = Nothing
    /\ order' = [order EXCEPT ![o] = [status |-> "open", day |-> today, form |-> f]]
    /\ UNCHANGED <<today, sale, payment, entry, session, settings>>

CancelOrder(o) ==
    /\ Spend("ends")
    /\ order[o] # Nothing /\ order[o].status = "open"
    /\ order' = [order EXCEPT ![o].status = "cancelled", ![o].day = today]
    /\ UNCHANGED <<today, sale, payment, entry, session, settings>>

OpenSession(c, u) ==
    /\ Spend("sessions")
    /\ session[c] = Nothing
    /\ session' = [session EXCEPT ![c] = [user |-> u, opened |-> today, closed |-> 0,
                                          difference |-> 0]]
    /\ UNCHANGED <<today, sale, payment, entry, order, settings>>

CloseSession(c, difference) ==
    /\ Spend("ends")
    /\ session[c] # Nothing /\ session[c].closed = 0
    /\ session' = [session EXCEPT ![c].closed = today, ![c].difference = difference]
    /\ UNCHANGED <<today, sale, payment, entry, order, settings>>

\* A rate is kept of a percentage only and an amount of a fixed commission only.
UpdateSettings(e, input) ==
    /\ Spend("settings")
    /\ LET type == IF input.enabled THEN input.type ELSE "NONE"
       IN settings' = [settings EXCEPT ![e] =
              [enabled |-> input.enabled, type |-> type, base |-> input.base,
               rate |-> IF type = "PERCENTAGE" THEN input.rate ELSE 0,
               fixed |-> IF type = "FIXED_PER_SALE" THEN input.fixed ELSE 0]]
    /\ UNCHANGED <<today, sale, payment, entry, order, session>>

NextDay ==
    /\ Spend("days")
    /\ today < LastDay /\ today' = today + 1
    /\ UNCHANGED books

Write ==
    \/ \E s \in Sales, f \in Forms, d \in Days : RecordSale(s, f, d)
    \/ \E s \in Sales : CancelSale(s) \/ RefundSale(s)
    \/ \E p \in Payments, s \in Sales, a \in Amounts, d \in Days : PayFiado(p, s, a, d)
    \/ \E e \in Entries, f \in EntryForms, d \in Days : RecordEntry(e, f, d)
    \/ \E e \in Entries : CancelPurchase(e)
    \/ \E o \in Orders : (\E f \in OrderForms : SaveOrder(o, f)) \/ CancelOrder(o)
    \/ \E c \in Sessions, u \in Users \cup {Nothing} : OpenSession(c, u)
    \/ \E c \in Sessions, difference \in Differences : CloseSession(c, difference)
    \/ \E e \in Employees, input \in Settings : UpdateSettings(e, input)

------------------------------------------------------------------------------
(***************************************************************************)
(* The owner's reports of a range of days.                                 *)
(***************************************************************************)
Total(s) == sale[s].form.total
Customer(s) == sale[s].form.customer
Lines(s) == sale[s].form.items
Sum(f) == SumFunction(f)
Larger(m, n) == IF m >= n THEN m ELSE n
Smaller(m, n) == IF m <= n THEN m ELSE n

SoldIn(range) == {s \in Sales : Exists(s) /\ sale[s].day \in range}
ActiveIn(range) == {s \in SoldIn(range) : sale[s].status = "active"}
LinesIn(range) == UNION {{<<s, i>> : i \in DOMAIN Lines(s)} : s \in ActiveIn(range)}

AggregateSales(range) == [count |-> Cardinality(ActiveIn(range)),
                          amount |-> Sum([s \in ActiveIn(range) |-> Total(s)])]
AverageCents(amount, count) ==   \* Math.round
    IF count = 0 THEN 0 ELSE (2 * amount + count) \div (2 * count)
GroupSalesSeries(range) == [d \in {sale[s].day : s \in ActiveIn(range)} |-> AggregateSales({d})]
GetSalesSummary(range) == [total |-> AggregateSales(range), series |-> GroupSalesSeries(range)]

GroupLines(lines) == [count |-> Cardinality(lines),
                      quantity |-> Sum([l \in lines |-> Lines(l[1])[l[2]].quantity]),
                      amount |-> Sum([l \in lines |-> Lines(l[1])[l[2]].price])]
LinesOf(range, products) == {l \in LinesIn(range) : Lines(l[1])[l[2]].product \in products}
TopSellingProducts(range) ==
    [p \in {Lines(l[1])[l[2]].product : l \in LinesIn(range)} |-> GroupLines(LinesOf(range, {p}))]
ProductSalesByCategory(range) ==
    [k \in {Category[p] : p \in DOMAIN TopSellingProducts(range)} |->
        GroupLines(LinesOf(range, {p \in Products : Category[p] = k}))]

\* What is sold at all, when the list of the best sellers is as long as it gets.
GetLowSellingProducts(top) == Products \ top
GetProductsReport(range) ==
    LET top == TopSellingProducts(range)
    IN [top |-> top, low |-> GetLowSellingProducts(DOMAIN top),
        byCategory |-> ProductSalesByCategory(range)]

\* By the user of the cash session, whoever made the sale.
SessionUser(s) == IF sale[s].form.session = Nothing THEN Nothing
                  ELSE session[sale[s].form.session].user
EmployeeReports(range) ==
    [u \in {SessionUser(s) : s \in ActiveIn(range)} \ {Nothing} |->
        LET own == {s \in ActiveIn(range) : SessionUser(s) = u}
        IN [count |-> Cardinality(own), amount |-> Sum([s \in own |-> Total(s)])]]

LoadCashSessions(range) ==
    {c \in Sessions : session[c] # Nothing /\ {session[c].opened, session[c].closed} \cap range # {}}
CashSessionsSummary(sessions) ==
    LET sold == {s \in ActiveIn(Days) : sale[s].form.session \in sessions}
    IN [count |-> Cardinality(sold), amount |-> Sum([s \in sold |-> Total(s)]),
        different |-> Cardinality({c \in sessions : session[c].difference # 0})]

SessionStatus(c) == IF session[c].closed # 0 THEN "closed" ELSE "open"
FilterCashSessionsByStatus(sessions, status) ==
    {c \in sessions : \/ status \in {"all", SessionStatus(c)}
                      \/ status = "with_difference" /\ session[c].difference # 0}
SerializeCashSessionRow(c) ==
    [user |-> session[c].user, status |-> SessionStatus(c), sold |-> CashSessionsSummary({c})]
ListCashSessions(range, status) ==
    LET filtered == FilterCashSessionsByStatus(LoadCashSessions(range), status)
    IN [summary |-> CashSessionsSummary(filtered),
        rows |-> [c \in filtered |-> SerializeCashSessionRow(c)]]

\* The sales of a session are shown whatever their status, and say what may still be done.
LoadCashSessionSales(c) == {s \in Sales : Exists(s) /\ sale[s].form.session = c}
SerializeCashSessionSale(s) ==
    [amount |-> Total(s), canCancel |-> sale[s].status \notin {"canceled", "refunded"}]
GetCashSessionDetail(c) ==
    [row |-> SerializeCashSessionRow(c),
     sales |-> [s \in LoadCashSessionSales(c) |-> SerializeCashSessionSale(s)]]

------------------------------------------------------------------------------
(***************************************************************************)
(* What customers owe and have bought.                                     *)
(***************************************************************************)
FiadoSales == {s \in ActiveIn(Days) : sale[s].form.fiado}
PaymentsOf(sales) == {p \in Payments : payment[p] # Nothing /\ payment[p].sale \in sales}
Paid(sales) == Sum([p \in PaymentsOf(sales) |-> payment[p].amount])

\* What is open of each sale, added up: the receivables of the owner.
BuildReceivableItems ==
    [c \in {Customer(s) : s \in FiadoSales} |->
        LET own == {s \in FiadoSales : Customer(s) = c}
        IN [open |-> Sum([s \in own |-> Larger(Total(s) - Paid({s}), 0)]),
            paid |-> Sum([s \in own |-> Smaller(Paid({s}), Total(s))]),
            total |-> Sum([s \in own |-> Total(s)]), count |-> Cardinality(own)]]

SummarizeReceivableItems(items) ==
    [open |-> Sum([c \in DOMAIN items |-> items[c].open]),
     openCount |-> Cardinality({c \in DOMAIN items : items[c].open > 0}),
     paidCount |-> Cardinality({c \in DOMAIN items : items[c].open = 0})]
BuildReceivablesSummary == SummarizeReceivableItems(BuildReceivableItems)

SumFiadoPaymentsSince(d) ==
    LET late == {p \in Payments : payment[p] # Nothing /\ payment[p].day >= d}
    IN Sum([p \in late |-> payment[p].amount])
\* The month began on day 1.  Nothing is ever overdue: no due date is stored.
ListReceivables(status) ==
    LET items == BuildReceivableItems
        StatusOf(c) == IF items[c].open > 0 THEN "open" ELSE "paid"
    IN [summary |-> SummarizeReceivableItems(items), received |-> SumFiadoPaymentsSince(1),
        items |-> {c \in DOMAIN items : status \in {"all", StatusOf(c)}}]

BuildCustomerSummary_AnyPayment(c) == (* Mutant: payments of canceled sales are taken off. *)
    LET own == {s \in ActiveIn(Days) : Customer(s) = c}
        fiado == own \cap FiadoSales
    IN [count |-> Cardinality(own), purchased |-> Sum([s \in own |-> Total(s)]),
        open |-> Larger(Sum([s \in fiado |-> Total(s)])
                           - Paid({s \in SoldIn(Days) : Customer(s) = c}), 0)]
\* What a customer bought on credit, less what the customer paid: the customer's card.
BuildCustomerSummary(c) ==
    LET own == {s \in ActiveIn(Days) : Customer(s) = c}
        fiado == own \cap FiadoSales
    IN [count |-> Cardinality(own), purchased |-> Sum([s \in own |-> Total(s)]),
        open |-> Larger(Sum([s \in fiado |-> Total(s)]) - Paid(fiado), 0)]

LoadCustomerCards == [c \in Customers |-> BuildCustomerSummary(c)]
\* Whoever bought is active: the days are fewer than those after which a customer is not.
IsCustomerActive(card) == card.count > 0
GetCrmSummary ==
    [total |-> Cardinality(Customers),
     active |-> {c \in Customers : IsCustomerActive(LoadCustomerCards[c])},
     owing |-> {c \in Customers : LoadCustomerCards[c].open > 0}]

ListCrmCustomers(status) ==
    {c \in Customers :
        LET card == LoadCustomerCards[c]
        IN CASE status = "active" -> IsCustomerActive(card)
             [] status = "inactive" -> ~IsCustomerActive(card)
             [] status = "with_receivables" -> card.open > 0
             [] OTHER -> TRUE}

AggregateSaleItemsByProduct(lines) ==
    [p \in {Lines(l[1])[l[2]].product : l \in lines} |->
        GroupLines({l \in lines : Lines(l[1])[l[2]].product = p})]
LoadSingleCustomerSummary(c) == LoadCustomerCards[c]
\* A purchase that was given back whole is shown as active.
GetCrmCustomerDetail(c) ==
    LET items == BuildReceivableItems
    IN [card |-> LoadSingleCustomerSummary(c),
        products |-> AggregateSaleItemsByProduct({l \in LinesIn(Days) : Customer(l[1]) = c}),
        purchases |-> [s \in {s \in SoldIn(Days) : Customer(s) = c} |->
                          IF sale[s].status = "canceled" THEN "canceled" ELSE "active"],
        receivables |-> SummarizeReceivableItems([x \in DOMAIN items \cap {c} |-> items[x]])]

BuildCommercialContext(c) ==
    LET own == {s \in ActiveIn(Days) : Customer(s) = c}
    IN [count |-> Cardinality(own), revenue |-> Sum([s \in own |-> Total(s)]),
        profit |-> Sum([s \in own |-> Total(s) - sale[s].form.cost]),
        paid |-> Paid({s \in SoldIn(Days) : Customer(s) = c})]

ListCustomersWithCommercialContext == [c \in Customers |-> BuildCommercialContext(c)]
\* Sales that are active, and what was paid for any sale of the customer.
GetCustomerTimeline(c) ==
    {[kind |-> "sale_recorded", id |-> s, amount |-> Total(s)] :
        s \in {s \in ActiveIn(Days) : Customer(s) = c}}
    \cup {[kind |-> "fiado_payment_received", id |-> p, amount |-> payment[p].amount] :
        p \in PaymentsOf({s \in SoldIn(Days) : Customer(s) = c})}

\* Today and the days so far of the month, here all of them.
GetBusinessDashboard ==
    [today |-> AggregateSales({today}), month |-> AggregateSales(1..today),
     receivables |-> BuildReceivablesSummary,
     employees |-> EmployeeReports(1..today), customers |-> GetCrmSummary]

------------------------------------------------------------------------------
(***************************************************************************)
(* What employees sold and earned.                                         *)
(***************************************************************************)
HasOrder(s) == sale[s].form.order # Nothing
OrderOf(s) == order[sale[s].form.order].form
ResolveSaleActor(s) ==
    IF HasOrder(s) /\ OrderOf(s).seller # Nothing THEN OrderOf(s).seller
    ELSE IF sale[s].form.author # Nothing THEN sale[s].form.author
    ELSE SessionUser(s)
SoldBy(range, e) == {s \in SoldIn(range) : ResolveSaleActor(s) = e}
IsCanceled_OrRefunded(s) == (* Mutant: what was given back whole is taken for canceled. *)
    sale[s].status \in {"canceled", "refunded"}
IsCanceled(s) == sale[s].status = "canceled"

GrossAmount(s) == IF HasOrder(s) /\ OrderOf(s).subtotal > 0 THEN OrderOf(s).subtotal ELSE Total(s)
NetAmount(s) == IF HasOrder(s) /\ OrderOf(s).total > 0 THEN OrderOf(s).total ELSE Total(s)

ProportionalItemNetAmount_Ceiling(price, all, net) == (* Mutant: shares are rounded up. *)
    IF all = 0 \/ net >= all THEN price ELSE (price * net + all - 1) \div all
ProportionalItemNetAmount(price, all, net) ==
    IF all = 0 \/ net >= all THEN price ELSE (price * net) \div all

IsCostReliable(item) == item.cost > 0 \/ (item.unit > 0 /\ item.quantity > 0)
ReliableItemCost(item) ==
    IF item.cost > 0 THEN item.cost ELSE (item.unit * item.quantity) \div 1000

GrossProfit(s) ==
    LET all == Sum([i \in DOMAIN Lines(s) |-> Lines(s)[i].price])
        known == {i \in DOMAIN Lines(s) : IsCostReliable(Lines(s)[i])}
    IN Sum([i \in known |->
               Larger(ProportionalItemNetAmount(Lines(s)[i].price, all, NetAmount(s))
                          - ReliableItemCost(Lines(s)[i]), 0)])
HasReliableCost(s) ==
    DOMAIN Lines(s) # {} /\ \A i \in DOMAIN Lines(s) : IsCostReliable(Lines(s)[i])

BaseAmount(s, base) == CASE base = "GROSS_SALES" -> GrossAmount(s)
                         [] base = "GROSS_PROFIT" -> GrossProfit(s)
                         [] base = "NET_SALES" -> NetAmount(s)

NoCommission == [eligible |-> FALSE, base |-> 0, amount |-> 0]
CommissionForSale(s, set) ==
    IF IsCanceled(s) \/ ~set.enabled \/ set.type = "NONE" THEN NoCommission
    ELSE IF set.type = "FIXED_PER_SALE"
         THEN [eligible |-> TRUE, base |-> NetAmount(s), amount |-> set.fixed]
    ELSE LET base == BaseAmount(s, set.base)
         IN [eligible |-> set.base = "GROSS_PROFIT" /\ ~HasReliableCost(s) => GrossProfit(s) > 0,
             base |-> base, amount |-> (base * set.rate) \div 10000]

CommissionRow(range, e) ==
    LET counted == {s \in SoldBy(range, e) : ~IsCanceled(s)}
        eligible == {s \in counted : CommissionForSale(s, settings[e]).eligible}
    IN [count |-> Cardinality(counted),
        canceled |-> Cardinality(SoldBy(range, e) \ counted),
        sold |-> Sum([s \in counted |-> NetAmount(s)]),
        base |-> Sum([s \in eligible |-> CommissionForSale(s, settings[e]).base]),
        commission |-> Sum([s \in eligible |-> CommissionForSale(s, settings[e]).amount])]
SalesWithoutReliableActor(range) == {s \in SoldIn(range) : ResolveSaleActor(s) \notin Employees}

\* The sales an employee is shown, each with its commission.
CommissionDetail(range, e) == [s \in SoldBy(range, e) |-> CommissionForSale(s, settings[e])]

CommissionSummary(range) ==
    LET row == [e \in Employees |-> CommissionRow(range, e)]
    IN [enabled |-> Cardinality({e \in Employees : settings[e].enabled}),
        count |-> Sum([e \in Employees |-> row[e].count]),
        sold |-> Sum([e \in Employees |-> row[e].sold]),
        commission |-> Sum([e \in Employees |-> row[e].commission]),
        nobodys |-> Cardinality(SalesWithoutReliableActor(range))]
BuildActivityCommissionByEmployee(range) == [e \in Employees |-> CommissionRow(range, e)]

CashActions(range, e) ==
    LET own == {c \in Sessions : session[c] # Nothing /\ session[c].user = e}
    IN Cardinality({c \in own : session[c].opened \in range})
         + Cardinality({c \in own : session[c].closed \in range})
EventsBy(range, e, kinds) ==
    {n \in Entries : /\ entry[n] # Nothing /\ entry[n].kind \in kinds
                     /\ entry[n].author = e /\ entry[n].day \in range}
OrdersBy(range, e) ==
    {o \in Orders : order[o] # Nothing /\ order[o].form.seller = e /\ order[o].day \in range}
CancelledOrders(range, e) == {o \in OrdersBy(range, e) : order[o].status = "cancelled"}
Discounts(range, e) == Sum([o \in OrdersBy(range, e) |-> order[o].form.discount])

AttachCommission(range, e) == BuildActivityCommissionByEmployee(range)[e].commission
ActivityRow(range, e) ==
    LET counted == {s \in SoldBy(range, e) : ~IsCanceled(s)}
    IN [count |-> Cardinality(counted), amount |-> Sum([s \in counted |-> Total(s)]),
        canceled |-> Cardinality(SoldBy(range, e) \ counted)
                       + Cardinality(CancelledOrders(range, e)),
        discounts |-> Discounts(range, e),
        cash |-> CashActions(range, e) + Cardinality(EventsBy(range, e, CashKinds)),
        stock |-> Cardinality(EventsBy(range, e, {"deduction"})),
        commission |-> AttachCommission(range, e)]

\* What an employee is shown of a period, one item for each thing that was done, by its id.
Timeline(range, e) ==
    LET own == {c \in Sessions : session[c] # Nothing /\ session[c].user = e}
    IN {<<IF IsCanceled(s) THEN "sale-cancelled" ELSE "sale", s>> : s \in SoldBy(range, e)}
       \cup {<<"discount", o>> : o \in {o \in OrdersBy(range, e) : order[o].form.discount > 0}}
       \cup {<<"order-cancelled", o>> : o \in CancelledOrders(range, e)}
       \cup {<<"cash-open", c>> : c \in {c \in own : session[c].opened \in range}}
       \cup {<<"cash-close", c>> : c \in {c \in own : session[c].closed \in range}}
       \cup {<<"cash-movement", n>> : n \in EventsBy(range, e, CashKinds)}
       \cup {<<"stock-adjustment", n>> : n \in EventsBy(range, e, {"deduction"})}
ActivityDetail(range, e) == [summary |-> ActivityRow(range, e), timeline |-> Timeline(range, e)]

HasActivity(row, timeline) ==
    \/ row.count > 0 \/ row.amount > 0 \/ row.discounts > 0 \/ row.canceled > 0
    \/ row.stock > 0 \/ row.cash > 0 \/ timeline # {}
ActivitySummary(range) ==
    LET row == [e \in Employees |-> ActivityRow(range, e)]
    IN [active |-> {e \in Employees : HasActivity(row[e], Timeline(range, e))},
        count |-> Sum([e \in Employees |-> row[e].count]),
        amount |-> Sum([e \in Employees |-> row[e].amount]),
        canceled |-> Sum([e \in Employees |-> row[e].canceled]),
        stock |-> Sum([e \in Employees |-> row[e].stock]),
        commission |-> Sum([e \in Employees |-> row[e].commission])]

------------------------------------------------------------------------------
(***************************************************************************)
(* Properties.                                                             *)
(***************************************************************************)
\* The type invariant of the books: every row has the columns of its table, a sale that exists
\* has its form, its order is converted and its session exists, and a payment is for a sale
\* that exists.
RowsTyped ==
    /\ today \in Days /\ sale \in [Sales -> SaleRows]
    /\ payment \in [Payments -> PaymentRows \cup {Nothing}]
    /\ entry \in [Entries -> EntryRows \cup {Nothing}]
    /\ order \in [Orders -> OrderRows \cup {Nothing}]
    /\ session \in [Sessions -> SessionRows \cup {Nothing}]
SettingsTyped == settings \in [Employees -> SettingRows]
SaleLinked(s) ==
    /\ Exists(s) <=> sale[s].form # Nothing
    /\ Exists(s) =>
          /\ HasOrder(s) => order[sale[s].form.order] # Nothing
                             /\ order[sale[s].form.order].status = "converted"
          /\ sale[s].form.session # Nothing => session[sale[s].form.session] # Nothing
BooksOK ==
    /\ RowsTyped /\ SettingsTyped
    /\ \A s \in Sales : SaleLinked(s)
    /\ \A p \in Payments : payment[p] # Nothing => Exists(payment[p].sale)

\* What the owner is owed and what the cards of the customers say are computed by different
\* rules, of each sale and of each customer.  A card never says more, and it says the same
\* unless one of the customer's sales was paid more than once over: the excess then hides
\* what is open of the others.  The customer's page and timeline add up to the card and to
\* the commercial context, but for the sales given back whole, which the page shows as
\* active.  What was paid of the open sales was received.  (owner-reporting.service.ts
\* buildReceivableItems, buildCustomerSummaryMap, listReceivables, getCrmCustomerDetail;
\* crm.service.ts buildCommercialContextMap, getCustomerTimeline.)
ReceivablesAgree ==
    /\ \A c \in Customers :
        LET card == LoadCustomerCards[c]
            context == ListCustomersWithCommercialContext[c]
            detail == GetCrmCustomerDetail(c)
            shown == {s \in DOMAIN detail.purchases : detail.purchases[s] = "active"}
            timeline == GetCustomerTimeline(c)
            owed == detail.receivables.open
            excess == Sum([s \in {s \in FiadoSales : Customer(s) = c} |->
                              Larger(Paid({s}) - Total(s), 0)])
        IN /\ card.open <= owed /\ owed <= card.open + excess
           /\ card.count = context.count /\ card.purchased = context.revenue
           /\ owed <= BuildReceivablesSummary.open
           /\ Cardinality(shown)
                 = card.count + Cardinality({s \in shown : sale[s].status = "refunded"})
           /\ Sum([i \in timeline |-> i.amount]) = context.revenue + context.paid
           /\ \A p \in DOMAIN detail.products :
                 detail.products[p].amount <= TopSellingProducts(Days)[p].amount
    /\ LET items == BuildReceivableItems
           open == ListReceivables("open")
       IN /\ ListCrmCustomers("with_receivables") \subseteq open.items
          /\ open.items \ {Nothing} \subseteq ListCrmCustomers("active")
          /\ open.summary.openCount = Cardinality(open.items)
          /\ open.summary.paidCount = Cardinality(ListReceivables("paid").items)
          /\ Sum([c \in DOMAIN items |-> items[c].paid]) <= open.received
    /\ Cardinality(GetCrmSummary.owing) <= BuildReceivablesSummary.openCount

\* Every sale of a range is counted once by the reports about employees: as made or as
\* canceled by one employee, or as a sale of nobody that is known; and the two of them count
\* the same.  The owner's own total differs by the sales that were given back whole, which
\* the employees keep.  What the owner sees of the cash sessions of a user is what the user
\* sold, and the sales that may be undone are the ones that are counted; a timeline has an
\* item for each thing that is counted, so nobody with an empty one is counted as active.
\* (employee-commission.service.ts build, summary; employee-activity.service.ts
\* buildActivity, summary, detail; owner-reporting.service.ts aggregateSales,
\* getEmployeeReports, listCashSessions, getCashSessionDetail.)
SalesAreAccounted ==
    /\ LET board == GetBusinessDashboard
       IN /\ board.month.amount = board.today.amount + AggregateSales(1..(today - 1)).amount
          /\ Sum([u \in DOMAIN board.employees |-> board.employees[u].amount])
                <= board.month.amount
    /\ LET all == ListCashSessions(Days, "all")
           users == {all.rows[c].user : c \in DOMAIN all.rows} \ {Nothing}
           SoldOf(u) == Sum([c \in {c \in DOMAIN all.rows : all.rows[c].user = u} |->
                                all.rows[c].sold.amount])
       IN /\ all.summary.amount = ListCashSessions(Days, "open").summary.amount
                                     + ListCashSessions(Days, "closed").summary.amount
          /\ \A u \in users :
                SoldOf(u) = IF u \in DOMAIN EmployeeReports(Days)
                            THEN EmployeeReports(Days)[u].amount ELSE 0
          /\ \A c \in DOMAIN all.rows :
                LET detail == GetCashSessionDetail(c)
                IN all.rows[c].sold.count
                      = Cardinality({s \in DOMAIN detail.sales : detail.sales[s].canCancel})
    /\ LET activity == ActivitySummary(Days)
           commission == CommissionSummary(Days)
       IN /\ activity.count = commission.count /\ activity.commission = commission.commission
          /\ activity.active = {e \in Employees : Timeline(Days, e) # {}}
          /\ commission.nobodys = 0 => AggregateSales(Days).count <= activity.count
    /\ LET report == GetProductsReport(Days)
       IN /\ Sum([p \in DOMAIN report.top |-> report.top[p].count])
                = Sum([k \in DOMAIN report.byCategory |-> report.byCategory[k].count])
          /\ \A l \in LinesIn(Days) : Lines(l[1])[l[2]].product \notin report.low
    /\ \A first, last \in Days :
        LET range == first..last
            row == [e \in Employees |-> CommissionRow(range, e)]
            nobodys == SalesWithoutReliableActor(range)
            refunded == {s \in SoldIn(range) : sale[s].status = "refunded"}
            made == Sum([e \in Employees |-> row[e].count])
        IN /\ made + Sum([e \in Employees |-> row[e].canceled]) + Cardinality(nobodys)
                 = Cardinality(SoldIn(range))
           /\ \A e \in Employees :
                LET detail == ActivityDetail(range, e)
                    activity == detail.summary
                    discounts == {i \in detail.timeline : i[1] = "discount"}
                IN /\ activity.count = row[e].count
                   /\ activity.canceled = row[e].canceled + Cardinality(CancelledOrders(range, e))
                   /\ Cardinality(detail.timeline) = Cardinality(discounts) + activity.count
                         + activity.canceled + activity.cash + activity.stock
                   /\ activity.discounts > 0 <=> discounts # {}
           /\ AggregateSales(range).count + Cardinality(refunded)
                 = made + Cardinality({s \in nobodys : ~IsCanceled(s)})
           /\ Sum([u \in DOMAIN EmployeeReports(range) |-> EmployeeReports(range)[u].count])
                 <= AggregateSales(range).count
           /\ Sum([e \in Employees |-> ActivityRow(range, e).cash])
                 <= 2 * Cardinality(LoadCashSessions(range))
                      + Cardinality(UNION {EventsBy(range, e, CashKinds) : e \in Employees})

\* The commissions of the sales that an employee is shown add up to the commission of the
\* period; the shares of a discount that are taken from the items of a sale never leave more
\* profit than the sale brought; and a percentage of what was sold or earned never exceeds
\* what was sold.  (employee-commission.service.ts detail, build, calculateSale,
\* proportionalItemNetAmount.)
CommissionAddsUp ==
    \A e \in Employees :
        LET row == CommissionRow(Days, e)
            detail == CommissionDetail(Days, e)
        IN /\ Sum([s \in DOMAIN detail |-> detail[s].amount]) = row.commission
           /\ \A s \in DOMAIN detail : GrossProfit(s) <= NetAmount(s)
           /\ settings[e].base # "GROSS_SALES" => row.base <= row.sold
           /\ settings[e].type = "PERCENTAGE" /\ settings[e].base # "GROSS_SALES"
                 => row.commission <= row.sold
==============================================================================
