SPECIFICATION ComponentsSpec
CONSTANTS
  Tools = {0, 1}
  Pieces = {1, 2}
  Task <- MCTask
  Whole = 2
  MaxItems = 3
  Upstream = {0, 1}
  NativeKinds = {"text", "thinking", "tool_use", "server_tool_use"}
  MaxEvents = 5
  Public = {"p1", "p2"}
  Private = {"l1"}
  MaxRedirects = 1
  MaxBody = 3
  Characters = {"<", "/", "t", ">", "x"}
  OpenTag <- MCOpenTag
  CloseTag <- MCCloseTag
  MaxText = 5
  Texts <- MCTexts
  Patience = 3
  MessageSet <- MCMessageSet
  CallIds = {"a", "b"}
  MaxMessages = 3
  OwnExtras <- MCOwnExtras
  MaxNamed = 2
  Turns <- MCTurns
  BlockIds = {"w", "t", "e", "r", "a", "b", "i", "s"}
  MaxTurns = 4
  Messages = {1, 2}
  MaxRestarts = 1
  Subtasks = {1, 2}
  Styles = {"named", "prefixed", "unnamed", "unnamed_call"}
  Lengths = {3, 30}
  MaxSegments = 4
  Limit = 24
  Marker = 4
  StatusLength = 4
  MinTail = 5
  Providers = {p1, p2}
  Platforms = {"none", "telegram", "discord"}
  ConnectTries = 3
INVARIANTS
  ArgumentsKept
  
  
  OutboundPermitted
  ToldFaithfully
  
  DeepSeekServed
  Recoverable
  GhostsExplained
  TranscriptReadable
  LifecycleOrdered

  
  
  
CHECK_DEADLOCK FALSE
