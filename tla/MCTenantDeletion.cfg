SPECIFICATION Spec
CONSTANTS
    None = None
    Requests = {r1, r2}
    Executors = {p1, p2}
    Last = 3
    Deleting = 2
    Closing = 3
    MaxLost = 1
SYMMETRY Symmetry
INVARIANTS
    ExecutedIsComplete
    CategoriesInOrder
    CancelledLeavesNoTrace
    RepeatsAreLostOutcomes

    
\* every attempt may be over and the company closed
CHECK_DEADLOCK FALSE
