CONSTANTS
    Node = {r, a, b}
    Root = r
    NoNode = none
    Commands = {"stop", "stop_all", "clear_branch", "clear_all"}
SPECIFICATION Spec
SYMMETRY ReplySymmetry
INVARIANTS
    QueueServed
    PendingAccounted
    StallExplained
    TreeConnected
PROPERTIES
    NeverReprocessed
    StoppedNeverRuns
CHECK_DEADLOCK FALSE
