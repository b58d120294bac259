------------------------------- MODULE MCReports -------------------------------
EXTENDS Snapshots, TLC
CONSTANTS s1, s2, s3, p1, p2, p3, n1, n2, o1, d1, d2, u1, u2, u3, c1, c2, x1, x2, r1, r2

MCSales == {s1, s2, s3}
MCPayments == {p1, p2, p3}
MCUsers == {u1, u2, u3}
MCEmployees == {u1, u2}
MCProducts == {x1, x2}
MCRequests == {r1, r2}
MCCategory == [x \in MCProducts |-> IF x = x1 THEN "food" ELSE "drinks"]

Line(product, quantity, price, cost, unit) ==
    [product |-> product, quantity |-> quantity, price |-> price, cost |-> cost, unit |-> unit]
Form(customer, fiado, total, cost, items, from) ==
    [customer |-> customer, fiado |-> fiado, total |-> total, cost |-> cost, items |-> items,
     order |-> from.order, author |-> from.author, session |-> from.session]
From(o, author, c) == [order |-> o, author |-> author, session |-> c]
Nowhere == From(Nothing, Nothing, Nothing)

\* A sale of two products, and one of a single product, with or without a customer.
SnapshotForms == {
    Form(c1, FALSE, 7, 3, <<Line(x1, 1000, 5, 2, 0), Line(x2, 500, 3, 0, 3)>>, Nowhere),
    Form(Nothing, FALSE, 4, 1, <<Line(x1, 2000, 4, 1, 0)>>, Nowhere) }
CreditForms == {Form(c, TRUE, total, 0, <<>>, Nowhere) : c \in {c1, Nothing}, total \in {1, 3}}
\* Whoever pushed it, in whatever session, from an order or not.
AttributedForms == {
    Form(Nothing, FALSE, 3, 1, <<>>, From(o, author, c)) :
        o \in {o1, Nothing}, author \in {u1, u3, Nothing}, c \in {d1, Nothing} }
\* A discount shared by items of odd prices; costs known, computed, unknown or less than a cent.
DiscountForms == {
    Form(Nothing, FALSE, total, 0, <<Line(x1, 500, price, 0, 1), Line(x1, 500, 3, cost, unit),
                                     Line(x2, 500, 5, 0, unit)>>, From(o, u1, Nothing)) :
        total \in {0, 3, 7, 12}, price \in {1, 2}, cost \in {0, 2}, unit \in {0, 1},
        o \in {o1, Nothing} }
MCForms == SnapshotForms \cup CreditForms \cup AttributedForms \cup DiscountForms
MCEntryForms ==
    {[kind |-> k, amount |-> 2, author |-> u1] : k \in {"purchase", "retirada", "deduction"}}
MCOrderForms == {[seller |-> u, subtotal |-> 9, discount |-> 2, total |-> 7] : u \in {u2, Nothing}}
                  \cup {[seller |-> Nothing, subtotal |-> 0, discount |-> 0, total |-> 0]}
MCSettings ==
    {[enabled |-> TRUE, type |-> "PERCENTAGE", base |-> b, rate |-> r, fixed |-> 0] :
        b \in Bases, r \in {3333, 10000}}
    \cup {[enabled |-> e, type |-> "FIXED_PER_SALE", base |-> "NET_SALES", rate |-> 0, fixed |-> 2] :
        e \in BOOLEAN}

Budget(some) == [what \in Spendings |-> IF what \in DOMAIN some THEN some[what] ELSE 0]
MCBudgets == {
    Budget([sales |-> 2, ends |-> 1, requests |-> 2, failures |-> 1]),
    Budget([sales |-> 1, requests |-> 2, days |-> 1, ages |-> 1]),
    Budget([sales |-> 1, requests |-> 1, payments |-> 1, entries |-> 1, ends |-> 1]),
    Budget([sales |-> 2, payments |-> 3, ends |-> 1]),
    Budget([sales |-> 2, orders |-> 1, sessions |-> 1, ends |-> 1]),
    Budget([entries |-> 1, sessions |-> 1, orders |-> 1, ends |-> 2, days |-> 1]),
    Budget([sales |-> 1, orders |-> 1, settings |-> 1]) }

\* The contents of sales that belong to what a scenario is about.
FormsOf(b) ==
    CASE b["requests"] > 0 -> SnapshotForms
      [] b["settings"] > 0 -> DiscountForms
      [] b["sessions"] > 0 -> AttributedForms
      [] OTHER -> CreditForms
VARIABLE allowed
MCInit == Init /\ allowed = FormsOf(budget)
MCNext == Next /\ (\A s \in Sales : sale'[s].form \in allowed \cup {Nothing}) /\ UNCHANGED allowed
MCSpec == MCInit /\ [][MCNext]_<<vars, allowed>>

Symmetry == Permutations(MCSales) \cup Permutations(MCPayments) \cup Permutations(MCRequests)
==============================================================================
