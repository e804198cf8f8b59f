SPECIFICATION Spec
CONSTANTS
  Calls = {c1, c2}
  MaxIterations = 1
  MaxAttempts = 2
  EmptyRetries = 1
  MaxContinuations = 1
  MaxRecoveries = 1
  Plugins = {p1, p2}
  Required = {p1}
  MaxCalls = 2
  MaxRegistrations = 3
  MaxSessions = 2
  ExternalKeys = {k}
  MaxOps = 3
  Replaces = 2
  MaxMembers = 2
  TeamCalls = {t1, t2}
  Sockets = {w1}
  WireSessions = {s1}
  MaxEvents = 2
  MaxRevisions = 1
  PageLimit = 1
  Jobs = {j1}
  Editors = {e1}
  MaxTime = 2
  MaxRuns = 2
  CompactCallers = {"after_run", "command"}
  Precompact = 2
  Full = 3
  ChunkTokens = 1
  ChunkParallelism = 1
  ChunkRetries = 1
  SummaryTokens = {1, 3}
  MaxMessages = 2
  MaxCallers = 1
  Servers = {m1}
  McpSessions = {s1, s2}
  Configs = {1}
  FirstLayers = {"project"}
  MaxEdits = 1
  LlmAttempts = 2
  MaxTools = 1
  MaxChanges = 1
  ToolCalls = {"c1", "c2"}
  MaxBlocks = 4
  GatewayPids = {p1, p2}
  GatewayCommands = {c1, c2}
  ProcessCalls = {c1, c2}
  ConfigValues = {0, 1}
  MaxStamp = 3
  AgentStamps = 2
  MaxSkills = 2
  MaxSkillWrites = 3
  References = 2
  MaxDispatches = 3
  CommandRequests = {r1}
  CommandTaskIds = {t1, t2}
  MaxDefinitions = 2
  MaxSuccesses = 2
  EditLines = {1}
  MaxEditLines = 2
  EditCallIds = {c1, c2}
  MaxTraceRuns = 3
  TracePageSize = 1
  ToolNames = {n1}
INVARIANTS PausedHasAQuestion GoneIsQuiet AcknowledgedHolds OneSessionPerConversation NoMemberIsLeaked NothingIsMissed TriggeredOnce NothingFallsOut AnswerIsOneStream RequestsAreWellFormed RunsAsAllowed NobodyStopsMyServer ProcessesAreOwned FilesHold DoneOnce
PROPERTIES TurnEnds UnloadReturns
CHECK_DEADLOCK FALSE
