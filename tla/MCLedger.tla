------------------------------- MODULE MCLedger -------------------------------
EXTENDS Ledger, TLC
CONSTANTS bread, shirt, s, t, o, q, c, r, d1, d2, d3, d4, m1, m2, w1, w2
MCDeductions == {d1, d2, d3, d4}
MCMovements == {m1, m2}
MCSales == {s, t}
MCWorkers == {w1, w2}
MCProductOf == d1 :> bread @@ d2 :> bread @@ d3 :> bread @@ d4 :> shirt @@ s :> bread @@ t :> bread

\* What a run is about: only the kinds of request named here are made.
Budget(some) == [kind \in Kinds |-> IF kind \in DOMAIN some THEN some[kind] ELSE 0]
MCBudgets == {
    Budget([save |-> 2, deduct |-> 4]),                              \* the stock
    Budget([sale |-> 3, order |-> 2, convert |-> 1]),                \* an order becomes a sale
    Budget([sale |-> 2, receipt |-> 2]),
    Budget([order |-> 4, sale |-> 1]),
    Budget([cash |-> 4, movement |-> 2]),
    Budget([sale |-> 1, return |-> 3, cancel |-> 2, deduct |-> 1]) } \* what the owner does

Symmetry == Permutations(MCWorkers) \cup Permutations(MCMovements) \cup Permutations({d1, d2, d3})
                \cup Permutations(MCSales) \cup Permutations({o, q})
==============================================================================
