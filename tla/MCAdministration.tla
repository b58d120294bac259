--------------------------- MODULE MCAdministration ---------------------------
(* A fresh platform in the first scenarios; in the others one whose three        *)
(* administrators registered, of whom one was made the manager and gave          *)
(* permissions to the other two.                                                 *)
EXTENDS Administration, TLC
CONSTANTS u1, u2, u3, g1, g2, g3, s1, s2, k1, w1, w2, oneCompany

MCUsers == {u1, u2, u3}
MCSlugs == {g1, g2, g3}
MCSessions == {s1, s2}
MCWorkers == {w1, w2}

Budget(some) == [kind \in RequestKinds |-> IF kind \in DOMAIN some THEN some[kind] ELSE 0]
MCBudgets == {
    Budget([initial |-> 2, register |-> 1, appoint |-> 1, bootstrap |-> 2]),
    Budget([initial |-> 1, bootstrap |-> 2, revoke |-> 2]),
    Budget([grant |-> 1, revoke |-> 1]),
    Budget([revoke |-> 2]),
    Budget([revoke |-> 1, bootstrap |-> 1, dry |-> 1]),
    Budget([dry |-> 1, execute |-> 2]),
    Budget([dry |-> 1, execute |-> 1, revoke |-> 1]),
    Budget([dry |-> 1, execute |-> 1, legacy |-> 1]),
    Budget([dry |-> 2, execute |-> 1, age |-> 1]) }

Gave(what, actor, row) == [NewJob(what, "", actor) EXCEPT !.row = row]
Past(a, b, c) == << Gave("bootstrap", Nothing, <<c, "manage", Platform>>),
                    Gave("grant", c, <<b, "manage", oneCompany>>),
                    Gave("grant", c, <<b, "revoke session", Platform>>),
                    Gave("grant", c, <<a, "revoke session", oneCompany>>) >>
Settled(a, b, c) ==
    LET past == Past(a, b, c) IN
    /\ user = [u \in Users |-> "admin"]
    /\ company \in [Slugs -> Users] /\ \A u \in Users : \E s \in Slugs : company[s] = u
    /\ log = [i \in DOMAIN past |-> Entry(past[i].kind, past[i])]
    /\ permission = [row \in Rows |->
          IF \E i \in DOMAIN past : past[i].row = row THEN "active" ELSE "none"]
    /\ old = 0
    /\ session = [s \in Sessions |-> "live"]
    /\ receipt = [k \in Keys |-> Nothing]
    /\ job = [w \in Workers |-> Nothing]
    /\ first = {c} /\ unlogged = {}
    /\ budget \in {some \in Budgets : some["initial"] = 0}
Fresh == Init /\ budget["initial"] > 0
MCSpec ==
    /\ Fresh \/ \E a, b, c \in Users : a # b /\ a # c /\ b # c /\ Settled(a, b, c)
    /\ [][Next]_vars

Symmetry == Permutations(MCUsers) \cup Permutations(MCSlugs) \cup Permutations(MCSessions)
              \cup Permutations(MCWorkers)
==============================================================================
