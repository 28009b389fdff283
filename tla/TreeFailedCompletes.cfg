CONSTANTS
    Node = {r, a, b}
    Root = r
    NoNode = none
    Commands = {}
SPECIFICATION Spec
PROPERTY FailedNeverCompletes
CHECK_DEADLOCK FALSE
