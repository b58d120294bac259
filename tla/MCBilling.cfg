SPECIFICATION MCSpec
CONSTANTS
 s1 = s1
 s2 = s2
 n1 = n1
 n2 = n2
 w1 = w1
 w2 = w2
 Subs <- MCSubs
 Order <- MCOrder
 Notices = {n1}
 ForcedPlans = {"PRO"}
 ForcedStatuses = {"ACTIVE"}
 Workers = {w1, w2}
 MaxTime = 1
 MaxRequests = 3
 NoSub = NoSub
 NoNotice = NoNotice
 Nothing = Nothing
CHECK_DEADLOCK FALSE
INVARIANTS PaidPlanIsCharged 
SYMMETRY Symmetry
