CONSTANTS
    Node = {r, a, b, c}
    Root = r
    NoNode = none
    Commands = {"stop", "clear_branch"}
SPECIFICATION Spec
SYMMETRY ReplySymmetry
INVARIANTS
    OneWorker
    ParentFirst
PROPERTIES
    SerialSpec
CHECK_DEADLOCK FALSE
