SPECIFICATION Spec
CONSTANTS
 c1 = c1
 c2 = c2
 c3 = c3
 w1 = w1
 w2 = w2
 e1 = e1
 e2 = e2
 e3 = e3
 Owner = Owner
 Employees <- MCEmployees
 Clients <- MCClients
 Workers <- MCWorkers
 MaxDevices = 1
 MaxEmployees = 1
 MaxSessions = 3
 Budgets <- MCBudgets
 Nothing = Nothing
CHECK_DEADLOCK FALSE
INVARIANTS LimitsHold OldPasswordIsOut StoredTokenIsCurrent
SYMMETRY Symmetry
