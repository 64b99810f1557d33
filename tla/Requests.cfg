SPECIFICATION Spec
CONSTANTS
  Surfaces = {"anthropic", "chat", "responses"}
  Windows = {9}
  TriggerPct = 85
  ToolResultKeep = 1
  RecentTurns = 3
  RescueTurns <- MCRescueTurns
  OutputSize = 2
  ImageSize = 9
  UserTurns <- MCUserTurns
  Replies <- MCReplies
  MaxMessages = 5
CHECK_DEADLOCK FALSE
INVARIANTS PairedUpstream ConversationFaithful
