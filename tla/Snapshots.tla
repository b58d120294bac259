------------------------------- MODULE Snapshots -------------------------------
(***************************************************************************)
(* The daily snapshots from which the analytics reports are answered.  A   *)
(* request for a range of days rebuilds the rows of the range when one is   *)
(* missing, when the range holds today or when none of it was built in the  *)
(* last fifteen minutes: it reads the books outside of any transaction and  *)
(* then, in one, deletes the rows of the range and writes the new ones.     *)
(* Then it reads the rows for its answer, table by table.                   *)
(*                                                                          *)
(* Requests overlap, and the books change meanwhile.  The transactions run  *)
(* at the isolation level "read committed": a transaction waits for one     *)
(* that has deleted rows it would delete, but it neither sees nor deletes   *)
(* rows that another one is inserting, and writes over or beside them.      *)
(***************************************************************************)
EXTENDS Reports

CONSTANT Requests           \* requests that may be under way

VARIABLES companyRow,       \* AnalyticsCompanyDailySnapshot
          productRow,       \* AnalyticsProductDailySnapshot
          customerRow,      \* AnalyticsCustomerDailySnapshot
          fresh,            \* days built in the last fifteen minutes
          job,              \* what a request is doing
          mixed             \* history: days whose rows come from two rebuilds
tables == <<companyRow, productRow, customerRow, fresh>>
vars == <<today, books, budget, tables, job, mixed>>

Steps == {"read", "clear", "write", "load", "rest", "answered"}
Empty == [x \in {} |-> 0]

\* The rows that are written, over those that are there; and the rows of the other days.
Over(new, old) ==
    [k \in DOMAIN new \cup DOMAIN old |-> IF k \in DOMAIN new THEN new[k] ELSE old[k]]
Without(rows, days) == [k \in {k \in DOMAIN rows : k[1] \notin days} |-> rows[k]]

\* Rows of products and customers are of days that the company has a row of.
TablesTyped ==
    /\ DOMAIN companyRow \subseteq Days /\ fresh \subseteq DOMAIN companyRow
    /\ mixed \subseteq DOMAIN companyRow
    /\ DOMAIN productRow \subseteq (DOMAIN companyRow) \X Products
    /\ DOMAIN customerRow \subseteq (DOMAIN companyRow) \X Customers

JobTyped(j) ==
    /\ DOMAIN j = {"at", "first", "last", "rebuilt", "quiet", "view", "cleared",
                   "company", "product", "customer"}
    /\ j.at \in Steps /\ j.first \in Days /\ j.last \in Days /\ j.first <= j.last
    /\ j.quiet \in BOOLEAN /\ j.rebuilt \in BOOLEAN
    /\ j.cleared \subseteq j.first..j.last
    /\ j.at \in {"rest", "answered"} => DOMAIN j.company = j.first..j.last
    /\ j.at = "answered" => /\ DOMAIN j.product \subseteq (j.first..j.last) \X Products
                            /\ DOMAIN j.customer \subseteq (j.first..j.last) \X Customers

TypeOK == /\ BooksOK /\ TablesTyped
          /\ job = [r \in Requests |-> job[r]]
          /\ \A r \in Requests : job[r] # Nothing => JobTyped(job[r])

Init ==
    /\ BooksInit
    /\ companyRow = Empty /\ productRow = Empty /\ customerRow = Empty /\ fresh = {}
    /\ job = [r \in Requests |-> Nothing]
    /\ mixed = {}

------------------------------------------------------------------------------
(***************************************************************************)
(* The rows of a range, from what was read of the sales and of the rest.   *)
(***************************************************************************)
SalesCounted_Canceled(view, d) == (* Mutant: the status is not looked at. *)
    {s \in Sales : view.sale[s].status # "none" /\ view.sale[s].day = d}
SalesCounted(view, d) == {s \in Sales : view.sale[s].status = "active" /\ view.sale[s].day = d}
SaleAmounts(view, sales) ==
    [count |-> Cardinality(sales), amount |-> Sum([s \in sales |-> view.sale[s].form.total]),
     cost |-> Sum([s \in sales |-> view.sale[s].form.cost])]

PaymentsMade(view, d) == {p \in Payments : view.payment[p] # Nothing /\ view.payment[p].day = d}
Received(view, payments) == Sum([p \in payments |-> view.payment[p].amount])

EntriesMade(view, d, kinds) ==
    {e \in Entries : /\ view.entry[e] # Nothing /\ view.entry[e].kind \in kinds
                     /\ view.entry[e].day = d}
AmountOf(view, entries) == Sum([e \in entries |-> view.entry[e].amount])

PurchasesMade(view, d) == {e \in EntriesMade(view, d, {"purchase"}) : ~view.entry[e].cancelled}
CashInflow(view, d) == AmountOf(view, EntriesMade(view, d, {"entrada", "fiado_pagamento"}))
CashOutflow(view, d) == AmountOf(view, EntriesMade(view, d, {"saida", "retirada"}))
FinancialAdjustments(view, d) ==
    AmountOf(view, EntriesMade(view, d, {"fiado_payment"}))
        - AmountOf(view, EntriesMade(view, d, {"sale_canceled"}))

BuildCompanyRow(view, d) ==
    LET counted == SalesCounted(view, d)
    IN [sales |-> SaleAmounts(view, counted),
        fiado |-> Cardinality({s \in counted : view.sale[s].form.fiado}),
        customers |-> Cardinality({view.sale[s].form.customer : s \in counted} \ {Nothing}),
        payments |-> Cardinality(PaymentsMade(view, d)),
        received |-> Received(view, PaymentsMade(view, d)),
        purchases |-> Cardinality(PurchasesMade(view, d)),
        purchased |-> AmountOf(view, PurchasesMade(view, d)),
        inflow |-> CashInflow(view, d), outflow |-> CashOutflow(view, d),
        adjustments |-> FinancialAdjustments(view, d)]

LinesCounted(view, d) ==
    UNION {{<<s, i>> : i \in DOMAIN view.sale[s].form.items} : s \in SalesCounted(view, d)}
LineOf(view, l) == view.sale[l[1]].form.items[l[2]]
BuildProductRow(view, d, p) ==
    LET lines == {l \in LinesCounted(view, d) : LineOf(view, l).product = p}
    IN [count |-> Cardinality({l[1] : l \in lines}),
        quantity |-> Sum([l \in lines |-> LineOf(view, l).quantity]),
        revenue |-> Sum([l \in lines |-> LineOf(view, l).price]),
        cost |-> Sum([l \in lines |-> LineOf(view, l).cost])]

\* Payments count whatever the status of the sale they are for; its customer never changes.
PaidBy(view, d, c) == {p \in PaymentsMade(view, d) : Customer(view.payment[p].sale) = c}
BoughtBy(view, d, c) == {s \in SalesCounted(view, d) : view.sale[s].form.customer = c}
BuildCustomerRow(view, d, c) ==
    [sales |-> SaleAmounts(view, BoughtBy(view, d, c)),
     received |-> Received(view, PaidBy(view, d, c))]

ProductKeys(view, range) ==
    UNION {{<<d, LineOf(view, l).product>> : l \in LinesCounted(view, d)} : d \in range}
CustomerKeys(view, range) ==
    {k \in range \X Customers : BoughtBy(view, k[1], k[2]) \cup PaidBy(view, k[1], k[2]) # {}}

------------------------------------------------------------------------------
(***************************************************************************)
(* A request.                                                              *)
(***************************************************************************)
ShouldRebuildRange(range, force) ==
    \/ force
    \/ ~(range \subseteq DOMAIN companyRow)
    \/ today \in range
    \/ range \cap fresh = {}

Asked(r) == job[r].first .. job[r].last
At(r, step) == job[r] # Nothing /\ job[r].at = step
To(r, step) == [job[r] EXCEPT !.at = step]

\* A write in the books, or a rebuild of common days, is seen by a request under way.
Disturbed(jobs, range) ==
    [r \in Requests |-> IF jobs[r] # Nothing /\ Asked(r) \cap range # {}
                        THEN [jobs[r] EXCEPT !.quiet = FALSE] ELSE jobs[r]]

MaterializeCompanyRange(r, first, last, force) ==
    /\ Spend("requests")
    /\ job[r] = Nothing /\ first <= last
    /\ job' = [job EXCEPT ![r] =
          [at |-> IF ShouldRebuildRange(first..last, force) THEN "read" ELSE "load",
           first |-> first, last |-> last, rebuilt |-> FALSE, quiet |-> TRUE,
           view |-> Empty, cleared |-> {},
           company |-> Empty, product |-> Empty, customer |-> Empty]]
    /\ UNCHANGED <<today, books, tables, mixed>>

\* The five queries are sent together and each sees the books of its own moment: the sales
\* with their items at one, the rest at another, in any order.
Seen(r, field) == field \in DOMAIN job[r].view
ReadSales(r) ==
    /\ At(r, "read") /\ ~Seen(r, "sale")
    /\ job' = [job EXCEPT ![r] = [To(r, IF Seen(r, "entry") THEN "clear" ELSE "read") EXCEPT
                                     !.view = Over([sale |-> sale], @)]]
    /\ UNCHANGED <<today, books, budget, tables, mixed>>

ReadRest(r) ==
    /\ At(r, "read") /\ ~Seen(r, "entry")
    /\ job' = [job EXCEPT ![r] = [To(r, IF Seen(r, "sale") THEN "clear" ELSE "read") EXCEPT
                                     !.view = Over([payment |-> payment, entry |-> entry], @)]]
    /\ UNCHANGED <<today, books, budget, tables, mixed>>

\* deleteMany of the three tables: the rows that are there, once nobody else is deleting them.
ClearAsked(r) ==
    /\ At(r, "clear")
    /\ \A q \in Requests \ {r} : At(q, "write") => job[q].cleared \cap Asked(r) = {}
    /\ job' = [job EXCEPT ![r] = [To(r, "write") EXCEPT
                                     !.cleared = Asked(r) \cap DOMAIN companyRow]]
    /\ UNCHANGED <<today, books, budget, tables, mixed>>

UpsertRows_KeepsCustomers(r) == (* Mutant: rows of customers are not deleted. *)
    /\ At(r, "write")
    /\ LET view == job[r].view
           cleared == job[r].cleared
           products == ProductKeys(view, Asked(r))
           customers == CustomerKeys(view, Asked(r))
           others == (DOMAIN productRow \ products) \cup (DOMAIN customerRow \ customers)
           left == {k[1] : k \in others} \cap (Asked(r) \ cleared)
       IN /\ companyRow' = Over([d \in Asked(r) |-> BuildCompanyRow(view, d)], companyRow)
          /\ productRow' = Over([k \in products |-> BuildProductRow(view, k[1], k[2])],
                                 Without(productRow, cleared))
          /\ customerRow' = Over([k \in customers |-> BuildCustomerRow(view, k[1], k[2])],
                                  customerRow)
          /\ mixed' = (mixed \ cleared) \cup left
    /\ fresh' = fresh \cup Asked(r)
    /\ job' = [Disturbed(job, Asked(r)) EXCEPT
                  ![r] = [To(r, "load") EXCEPT !.rebuilt = TRUE, !.view = Empty, !.cleared = {}]]
    /\ UNCHANGED <<today, books, budget>>
\* The rows are upserted and the transaction ends: what another one has put on a day that was
\* not there to delete is written over where the key is the same and stays where it is not.
UpsertRows(r) ==
    /\ At(r, "write")
    /\ LET view == job[r].view
           cleared == job[r].cleared
           products == ProductKeys(view, Asked(r))
           customers == CustomerKeys(view, Asked(r))
           others == (DOMAIN productRow \ products) \cup (DOMAIN customerRow \ customers)
           left == {k[1] : k \in others} \cap (Asked(r) \ cleared)
       IN /\ companyRow' = Over([d \in Asked(r) |-> BuildCompanyRow(view, d)], companyRow)
          /\ productRow' = Over([k \in products |-> BuildProductRow(view, k[1], k[2])],
                                 Without(productRow, cleared))
          /\ customerRow' = Over([k \in customers |-> BuildCustomerRow(view, k[1], k[2])],
                                  Without(customerRow, cleared))
          /\ mixed' = (mixed \ cleared) \cup left
    /\ fresh' = fresh \cup Asked(r)
    /\ job' = [Disturbed(job, Asked(r)) EXCEPT
                  ![r] = [To(r, "load") EXCEPT !.rebuilt = TRUE, !.view = Empty, !.cleared = {}]]
    /\ UNCHANGED <<today, books, budget>>

\* The transaction fails or times out: nothing of it stays, and the request ends.
Abort(r) ==
    /\ Spend("failures")
    /\ At(r, "write") \/ At(r, "clear")
    /\ job' = [job EXCEPT ![r] = Nothing]
    /\ UNCHANGED <<today, books, tables, mixed>>

LoadCompanyRows(r) ==
    /\ At(r, "load")
    /\ job' = [job EXCEPT ![r] = [To(r, "rest") EXCEPT
                  !.company = [d \in Asked(r) \cap DOMAIN companyRow |-> companyRow[d]]]]
    /\ UNCHANGED <<today, books, budget, tables, mixed>>

LoadOtherRows(r) ==
    /\ At(r, "rest")
    /\ LET elsewhere == Days \ Asked(r)
       IN job' = [job EXCEPT ![r] = [To(r, "answered") EXCEPT
                     !.product = Without(productRow, elsewhere),
                     !.customer = Without(customerRow, elsewhere)]]
    /\ UNCHANGED <<today, books, budget, tables, mixed>>

Forget(r) ==
    /\ At(r, "answered")
    /\ job' = [job EXCEPT ![r] = Nothing]
    /\ UNCHANGED <<today, books, budget, tables, mixed>>

\* Fifteen minutes pass: longer than any request.
Age ==
    /\ Spend("ages")
    /\ \A r \in Requests : job[r] = Nothing
    /\ fresh # {} /\ fresh' = {}
    /\ UNCHANGED <<today, books, companyRow, productRow, customerRow, job, mixed>>

Next ==
    \/ (Write \/ NextDay) /\ job' = Disturbed(job, Days) /\ UNCHANGED <<tables, mixed>>
    \/ \E r \in Requests :
         \/ \E first, last \in Days, force \in BOOLEAN :
               MaterializeCompanyRange(r, first, last, force)
         \/ ReadSales(r) \/ ReadRest(r) \/ ClearAsked(r) \/ UpsertRows(r) \/ Abort(r)
         \/ LoadCompanyRows(r) \/ LoadOtherRows(r) \/ Forget(r)
    \/ Age
Spec == Init /\ [][Next]_vars

------------------------------------------------------------------------------
(***************************************************************************)
(* The reports of an answer.                                               *)
(***************************************************************************)
GetSalesByDay(a) == [count |-> Sum([d \in DOMAIN a.company |-> a.company[d].sales.count]),
                     amount |-> Sum([d \in DOMAIN a.company |-> a.company[d].sales.amount])]

AggregateProducts(a) ==
    [p \in {k[2] : k \in DOMAIN a.product} |->
        LET own == {k \in DOMAIN a.product : k[2] = p}
        IN [quantity |-> Sum([k \in own |-> a.product[k].quantity]),
            revenue |-> Sum([k \in own |-> a.product[k].revenue])]]

AggregateCustomers(a) ==
    [c \in {k[2] : k \in DOMAIN a.customer} |->
        LET own == {k \in DOMAIN a.customer : k[2] = c}
        IN [count |-> Sum([k \in own |-> a.customer[k].sales.count]),
            revenue |-> Sum([k \in own |-> a.customer[k].sales.amount]),
            profit |-> Sum([k \in own |-> a.customer[k].sales.amount - a.customer[k].sales.cost]),
            paid |-> Sum([k \in own |-> a.customer[k].received])]]

SumProductItems(items) ==
    [quantity |-> Sum([p \in DOMAIN items |-> items[p].quantity]),
     revenue |-> Sum([p \in DOMAIN items |-> items[p].revenue])]
GetSalesByProduct(a) ==
    [items |-> AggregateProducts(a), totals |-> SumProductItems(AggregateProducts(a))]
GetSalesByProductForTenant(a, category) ==
    LET sold == GetSalesByProduct(a).items
        items == [p \in {p \in DOMAIN sold : Category[p] = category} |-> sold[p]]
    IN [items |-> items, totals |-> SumProductItems(items)]

SumCustomerItems(items) ==
    [revenue |-> Sum([c \in DOMAIN items |-> items[c].revenue]),
     paid |-> Sum([c \in DOMAIN items |-> items[c].paid])]
GetSalesByCustomer(a) ==
    [items |-> AggregateCustomers(a), totals |-> SumCustomerItems(AggregateCustomers(a))]
GetSalesByCustomerForTenant(a, c) ==
    LET bought == GetSalesByCustomer(a).items
        items == [x \in DOMAIN bought \cap {c} |-> bought[x]]
    IN [items |-> items, totals |-> SumCustomerItems(items)]

GetCashConsolidated(a) ==
    Sum([d \in DOMAIN a.company |-> a.company[d].inflow - a.company[d].outflow])
GetFinancialSummary(a) ==
    [purchased |-> Sum([d \in DOMAIN a.company |-> a.company[d].purchased]),
     received |-> Sum([d \in DOMAIN a.company |-> a.company[d].received]),
     cash |-> GetCashConsolidated(a),
     adjustments |-> Sum([d \in DOMAIN a.company |-> a.company[d].adjustments])]

\* The purchases are read again, those that were cancelled included.
GetPurchases(range) ==
    {e \in Entries : entry[e] # Nothing /\ entry[e].kind = "purchase" /\ entry[e].day \in range}

GetDashboard(a) ==
    [sales |-> GetSalesByDay(a), customers |-> DOMAIN AggregateCustomers(a),
     average |-> AverageCents(GetSalesByDay(a).amount, GetSalesByDay(a).count)]

------------------------------------------------------------------------------
(***************************************************************************)
(* Properties.                                                             *)
(***************************************************************************)
\* The rows of a day tell of the same sales and payments in the three tables, unless two
\* rebuilds put their rows beside each other: what customers bought and paid is part of what
\* the company sold and received, and every customer and product counted has its row.
\* (analytics-snapshots.service.ts rebuildRange.)
TablesAgree ==
    \A d \in DOMAIN companyRow \ mixed :
        LET customers == {k \in DOMAIN customerRow : k[1] = d}
            buyers == {k \in customers : customerRow[k].sales.count > 0}
            products == {k \in DOMAIN productRow : k[1] = d}
        IN /\ Cardinality(buyers) = companyRow[d].customers
           /\ Sum([k \in customers |-> customerRow[k].sales.amount]) <= companyRow[d].sales.amount
           /\ Sum([k \in customers |-> customerRow[k].received]) <= companyRow[d].received
           /\ \A k \in products : productRow[k].count \in 1..companyRow[d].sales.count

\* An answer has a row for every day of its range; and when it was rebuilt and nothing was
\* written meanwhile, neither in the books nor over its rows, it says what the services that
\* read the books say: the owner's totals and best sellers, and what customers bought, paid
\* and yielded.  (analytics-snapshots.service.ts materializeCompanyRange, shouldRebuildRange,
\* rebuildRange; analytics-reports.service.ts; owner-reporting.service.ts; crm.service.ts.)
AnswersAreTrue ==
    \A r \in Requests : At(r, "answered") =>
        LET a == job[r]
            range == Asked(r)
            top == TopSellingProducts(range)
            category == ProductSalesByCategory(range)
            product == GetSalesByProduct(a).items
            customer == GetSalesByCustomer(a)
        IN /\ DOMAIN a.company = range
           /\ a.quiet /\ a.rebuilt =>
                /\ GetDashboard(a).sales = AggregateSales(range)
                /\ \A d \in DOMAIN GroupSalesSeries(range) :
                      a.company[d].sales.amount = GetSalesSummary(range).series[d].amount
                /\ DOMAIN product = DOMAIN top
                /\ \A p \in DOMAIN top :
                      /\ product[p].quantity = top[p].quantity
                      /\ product[p].revenue = top[p].amount
                /\ \A k \in DOMAIN category :
                      GetSalesByProductForTenant(a, k).totals
                          = [quantity |-> category[k].quantity, revenue |-> category[k].amount]
                /\ GetSalesByProduct(a).totals.revenue
                      = Sum([k \in DOMAIN category |-> category[k].amount])
                /\ customer.totals.revenue <= GetSalesByDay(a).amount
                /\ customer.totals.paid <= GetFinancialSummary(a).received
                /\ range = Days => \A c \in DOMAIN customer.items :
                      /\ customer.items[c] = BuildCommercialContext(c)
                      /\ GetSalesByCustomerForTenant(a, c).totals
                            = [revenue |-> customer.items[c].revenue, paid |-> customer.items[c].paid]
                /\ GetFinancialSummary(a).purchased
                      = Sum([e \in {e \in GetPurchases(range) : ~entry[e].cancelled} |->
                                entry[e].amount])
==============================================================================
