SPECIFICATION MCSpec
CONSTANTS
 s1 = s1
 s2 = s2
 s3 = s3
 p1 = p1
 p2 = p2
 p3 = p3
 n1 = n1
 n2 = n2
 o1 = o1
 d1 = d1
 d2 = d2
 u1 = u1
 u2 = u2
 u3 = u3
 c1 = c1
 c2 = c2
 x1 = x1
 x2 = x2
 r1 = r1
 r2 = r2
 Sales <- MCSales
 Payments <- MCPayments
 Entries = {n1, n2}
 Employees <- MCEmployees
 Users <- MCUsers
 Customers = {c1, c2}
 Products <- MCProducts
 Sessions = {d1}
 Orders = {o1}
 Category <- MCCategory
 Forms <- MCForms
 EntryForms <- MCEntryForms
 OrderForms <- MCOrderForms
 Differences = {0, 1}
 Amounts = {1, 2, 3}
 Settings <- MCSettings
 LastDay = 2
 Budgets <- MCBudgets
 Nothing = Nothing
 Requests <- MCRequests
CHECK_DEADLOCK FALSE
INVARIANTS TablesAgree    CommissionAddsUp
SYMMETRY Symmetry
