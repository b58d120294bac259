SPECIFICATION MCSpec
CONSTANTS
 c1 = c1
 c2 = c2
 i1 = i1
 e1 = e1
 e2 = e2
 a1 = a1
 a2 = a2
 Commands <- MCCommands
 Items = {i1}
 StoredEvents <- MCEvents
 Admins <- MCAdmins
 Budgets <- MCBudgets
 Nothing = Nothing
CHECK_DEADLOCK FALSE
INVARIANTS StatusIsTrue ArchivedIsNotApplied 
PROPERTY EndedStays
SYMMETRY Symmetry
