SPECIFICATION Spec
CONSTANTS
 bread = bread
 shirt = shirt
 s = s
 t = t
 o = o
 q = q
 c = c
 r = r
 d1 = d1
 d2 = d2
 d3 = d3
 d4 = d4
 m1 = m1
 m2 = m2
 w1 = w1
 w2 = w2
 Products = {bread, shirt}
 Varied = {shirt}
 Sales <- MCSales
 Orders = {o, q}
 CashSessions = {c}
 Receipts = {r}
 Deductions <- MCDeductions
 Movements <- MCMovements
 ProductOf <- MCProductOf
 Total = 2
 StockLevels = {0, 1}
 Workers <- MCWorkers
 Budgets <- MCBudgets
 MaxSequence = 1
 Nothing = Nothing
CHECK_DEADLOCK FALSE
INVARIANTS StockAccounts SalesAreDistinct ReturnsWithinSale
PROPERTIES FinishedStaysFinished
SYMMETRY Symmetry
