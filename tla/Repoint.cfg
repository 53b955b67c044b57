CONSTANTS
  Chats = {"v", "w"}
  Followable = {}
  CommandsKept = 1
  MaxCtxRuns = 2
  MaxCtxViews = 4
  MaxCtxClicks = 0
SPECIFICATION ContextSpec
INVARIANT RunsWorkInTheirWorkspace
CHECK_DEADLOCK FALSE
