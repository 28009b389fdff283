CONSTANTS
    Node = {r, a, b}
    Root = r
    NoNode = none
    Commands = {"stop_all", "clear_all"}
SPECIFICATION FairSpec
PROPERTIES
    EveryMessageServed
CHECK_DEADLOCK FALSE
