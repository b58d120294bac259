--------------------------- MODULE MCSupportCommands ---------------------------
EXTENDS SupportCommands, TLC
CONSTANTS c1, c2, i1, e1, e2, a1, a2
MCAdmins == {a1, a2}
MCCommands == {c1, c2}
MCEvents == {e1, e2}

\* What a scenario is about: only what is named here is spent.
Budget(some) == [what \in Spendings |-> IF what \in DOMAIN some THEN some[what] ELSE 0]
MCBudgets == {
    Budget([RETRY_FAILED_SYNC_EVENTS |-> 1, rounds |-> 3, failures |-> 2]),
    Budget([REPAIR_OPERATIONAL_ORDER_ITEM_TOTAL_CENTS |-> 1, FORCE_SYNC_PULL |-> 1,
            rounds |-> 2, failures |-> 1]),
    Budget([REFRESH_SYNC_STATUS |-> 2, rounds |-> 2, failures |-> 1]),
    Budget([CLEAR_RESOLVED_CONFLICT_CACHE |-> 1, decisions |-> 1, rounds |-> 1]),
    Budget([decisions |-> 4, mappings |-> 1]) }

\* Where the commands are what it is about, the events are order items in conflict.
Scenario ==
    /\ budget["mappings"] = 0 =>
          /\ \A e \in StoredEvents : payload[e] = "other" /\ event[e] = "CONFLICT"
    /\ budget["mappings"] > 0 => \A i \in Items : item[i].total = "lost"
MCInit == SupportInit /\ Scenario
MCSpec == MCInit /\ [][SupportNext]_supportVars

Symmetry == Permutations(MCAdmins) \cup Permutations(MCCommands) \cup Permutations(MCEvents)
==============================================================================
