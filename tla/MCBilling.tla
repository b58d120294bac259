------------------------------ MODULE MCBilling ------------------------------
EXTENDS Billing, TLC
CONSTANTS s1, s2, n1, n2, w1, w2
MCSubs == {s1, s2}
MCOrder == [s \in MCSubs |-> IF s = s1 THEN 1 ELSE 2]
MCNotices == {n1, n2}

\* A run starts with no subscription, or after the company subscribed to the basic plan and the
\* provider's notification was handled.
Subscribed ==
    /\ now = 0
    /\ license = [plan |-> "BASIC", status |-> "ACTIVE", pending |-> Nothing, ref |-> s1,
                  periodEnd |-> 1, cancelAtEnd |-> FALSE, expiresAt |-> 0]
    /\ session = [s \in Subs |-> IF s = s1
                    THEN [status |-> "COMPLETED", plan |-> "BASIC", linked |-> TRUE]
                    ELSE [status |-> "NONE", plan |-> Nothing, linked |-> FALSE]]
    /\ newer = [s \in Subs |-> IF s = s1 THEN {} ELSE {s1}]
    /\ provider = [s \in Subs |-> IF s = s1
                     THEN [status |-> "authorized", amount |-> "BASIC", periodEnd |-> 1]
                     ELSE [status |-> "none", amount |-> Nothing, periodEnd |-> 0]]
    /\ event = [n \in Notices |-> [topic |-> Nothing, sub |-> NoSub, status |-> "NONE"]]
    /\ task = [w \in Workers |-> Nothing]
    /\ requests = 0
    /\ billed = "BASIC" /\ forced = "FREE"

MCSpec == (BillingInit \/ Subscribed) /\ [][BillingNext]_vars

\* Requests run the same steps, and notifications differ only by their key.
Symmetry == Permutations({w1, w2}) \cup Permutations(MCNotices)
==============================================================================
