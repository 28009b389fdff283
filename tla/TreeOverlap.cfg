CONSTANTS
    Node = {r, a, b}
    Root = r
    NoNode = none
    Commands = {"stop_all"}
SPECIFICATION Spec
INVARIANT NoOverlap
CHECK_DEADLOCK FALSE
