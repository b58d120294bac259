SPECIFICATION MCSpec
CONSTANTS
 u1 = u1
 u2 = u2
 u3 = u3
 g1 = g1
 g2 = g2
 g3 = g3
 s1 = s1
 s2 = s2
 k1 = k1
 w1 = w1
 w2 = w2
 oneCompany = oneCompany
 Users <- MCUsers
 Slugs <- MCSlugs
 Scopes = {Platform, oneCompany}
 Platform = Platform
 Sessions <- MCSessions
 Keys = {k1}
 Workers <- MCWorkers
 Budgets <- MCBudgets
 Nothing = Nothing
CHECK_DEADLOCK FALSE
INVARIANTS AuthorityIsExplained ExecutionsAreEvidenced
SYMMETRY Symmetry
