CONSTANTS
    Node = {r, a, b}
    Root = r
    NoNode = none
    Commands = {"stop"}
SPECIFICATION Spec
INVARIANT BusyMeansProcessing
CHECK_DEADLOCK FALSE
