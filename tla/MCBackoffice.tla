----------------------------- MODULE MCBackoffice -----------------------------
EXTENDS Backoffice, TLC
CONSTANTS shirt, shoe, ana, red, blue, w1, w2, food, mill, flour, order, rent, sold, note,
          paid, event, x, y
MCProducts == {shirt, shoe}
MCSkus == {red, blue}
MCTags == {red, blue}
MCWorkers == {w1, w2}

\* What a run is about: only the kinds of request named here are made.
Budget(some) == [kind \in Kinds |-> IF kind \in DOMAIN some THEN some[kind] ELSE 0]
MCBudgets == {
    Budget([product |-> 3, category |-> 1]), \* variants and categories
    Budget([product |-> 1, recipe |-> 3, master |-> 1]),
    Budget([supply |-> 2, purchase |-> 1, master |-> 1]),
    Budget([supply |-> 1, purchase |-> 3, master |-> 1]),
    Budget([tags |-> 3, note |-> 1, master |-> 1]),
    Budget([cost |-> 5]),
    Budget([sale |-> 2, entry |-> 3, master |-> 1]) }

Symmetry == Permutations(MCProducts) \cup Permutations(MCWorkers) \cup Permutations({red, blue})
==============================================================================
