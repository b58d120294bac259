------------------------------- MODULE MCAccess -------------------------------
EXTENDS Access, TLC
CONSTANTS c1, c2, c3, w1, w2, e1, e2, e3
MCClients == {c1, c2, c3}
MCEmployees == {e1, e2, e3}
MCWorkers == {w1, w2}

\* What a run is about: only the kinds of request named here are made.
Budget(some) == [kind \in RequestKinds |-> IF kind \in DOMAIN some THEN some[kind] ELSE 0]
MCBudgets == {
    Budget([login |-> 4]),                                          \* devices
    Budget([login |-> 3, refresh |-> 1, expire |-> 1]), \* tokens
    Budget([login |-> 2, refresh |-> 2, reset |-> 2, expire |-> 1]),  \* an old password
    Budget([login |-> 2, refresh |-> 2, logout |-> 1, revoke |-> 1]),
    Budget([admit |-> 3, disable |-> 2, password |-> 1]),             \* employees
    Budget([admit |-> 3, disable |-> 1, block |-> 1, reactivate |-> 1]) }

Symmetry == Permutations(MCClients) \cup Permutations(MCWorkers) \cup Permutations(MCEmployees)
==============================================================================
