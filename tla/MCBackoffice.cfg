SPECIFICATION Spec
CONSTANTS
 shirt = shirt
 shoe = shoe
 ana = ana
 red = red
 blue = blue
 w1 = w1
 w2 = w2
 food = food
 mill = mill
 flour = flour
 order = order
 rent = rent
 sold = sold
 note = note
 paid = paid
 event = event
 x = x
 y = y
 Categories = {food}
 Suppliers = {mill}
 Customers = {ana}
 Products <- MCProducts
 Supplies = {flour}
 Purchases = {order}
 Costs = {rent}
 Sales = {sold}
 Notes = {note}
 Entries = {paid, event}
 FinancialEvents = {event}
 Skus <- MCSkus
 Tags <- MCTags
 Contents = {x, y}
 Workers <- MCWorkers
 Budgets <- MCBudgets
 Nothing = Nothing
CHECK_DEADLOCK FALSE
INVARIANTS SkusAreDistinct SavesAreWhole ReferencesHold 
PROPERTIES SettledStays
SYMMETRY Symmetry
