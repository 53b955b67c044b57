CONSTANTS
  Workspaces = {v, w}
  Files = {f, g}
  Images = {g}
  Written = {f}
  Forms = {"text", "big"}
  MaxTabs = 1
  MaxSnapshots = 2
  MaxTexts = 2
  MaxWork = 3
  MaxOpens = 2
  MaxSwitches = 2
  MaxReads = 3
  MaxSeq = 2
  MaxAsks = 2
  MaxFrames = 3
  MaxCuts = 2
  Toolkit = {"read", "write", "bash", "risky", "git_commit", "todo_write", "ask_user", "subagent", "delegate"}
  AskTier = {"bash"}
  DenyTier = {}
  CommitGate = TRUE
  VerifyMode = TRUE
  CriticMode = TRUE
  MaxSteps = 2
  MaxRepair = 1
  MaxCritic = 1
  MaxContinue = 1
  MaxDrafts = 1
  MaxCalls = 2
  MaxEdits = 1
  MaxRuns = 2
  MaxLength = 3
  MaxConvs = 2
  MaxAgents = 3
  MaxTurns = 2
  Bounds <- MCBounds
  MaxPieces = 4
  Folders = {"v", "w"}
  MaxSessConvs = 3
  MaxMessages = 3
  MaxAutoCps = 1
  MaxSessClicks = 3
  Roots = {"v", "w"}
  Panels = {"memory", "commits"}
  MaxMoves = 3
  MaxFetches = 4
  Outputs <- MCOutputs
  FullSends = 2
  BatchSize = 2
  PackAbove = 3
  ReduceAbove = 5
  PageBytes = 3
  PageLines = 2
  MaxResults = 4
  MaxCallsInTurn = 2
  MaxReloads = 1
  Artifacts <- MCArtifacts
  Drafting = {"y"}
  MaxTries = 1
  MaxQuestions = 1
  FormBudgets <- MCFormBudgets
  TypedKeys = {"k"}
  Texts = {"u"}
  Presets = {"p"}
  MaxSettingsEdits = 3
  MaxRequests = 2
  MaxTranscript = 7
  CallsPerTurn = 2
  Sizes = {1, 3}
  CloudChars = 8
  ParamSets <- MCParamSets
  OfferedTools = {"read", "grep"}
  ReplyBlocks <- MCReplyBlocks
  MaxBlocks = 3
  MaxRewrites = 2
  Chats = {"v", "w"}
  Followable = {"p"}
  CommandsKept = 1
  MaxCtxRuns = 2
  MaxCtxViews = 3
  MaxCtxClicks = 1
SPECIFICATION WebSpec
INVARIANTS WebTypeOK TabTextIsOwn  
INVARIANTS RepliesAreNotMixed QueueKeepsOrder ResultsAreComplete RepliesAreClean
INVARIANTS MemoryBelongsHere  SavedChoicesSurvive KeysAreTyped
INVARIANT ContextIsTheRuns
INVARIANTS  RepliesAreUnwrapped
PROPERTIES DirtyIsTheUsers  UserTodosWin StoppedRunsAddNothing
 
CHECK_DEADLOCK FALSE
