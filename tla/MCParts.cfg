SPECIFICATION PartsSpec
CONSTANTS
  sigint = sigint
  sigterm = sigterm
  d1 = d1
  d2 = d2
  N = 3
  Signals <- MCSignals
  Cleanup = Cleanup
  Dispatches <- MCDispatches
  Sessions = {s1, s2}
  Chunks = 2
  MaxRecords = 2
  Projects = {p1, p2}
  Keys = {k1}
  Values = {v1, v2}
  TopK = 1
  NoProject = NoProject
  NoKey = NoKey
  NoValue = NoValue
  Messages <- MCMessages
  Tokens <- MCTokens
  Vital <- MCVital
  Fleeting <- MCFleeting
  MaxMessages = 2
  MaxTokens = 3
  Registered = {"openai", "anthropic", "gemini", "ollama"}
  Capable = {"openai", "gemini", "ollama"}
  MaxRetries = 2
  Uses <- MCUses
  Jobs <- MCJobs
  Agents <- MCAgents
  Attempts = 2
  Commands = {c1, c2}
  Sockets = {w1, w2}
  NoSocket = NoSocket
  Typed = {typed}
  Spoken = {v3, v4}
  NoTurn = NoTurn
  h1 = h1
  h2 = h2
  Windows <- MCWindows
  Matches <- MCMatches
  Place <- MCPlace
  Iconic <- MCIconic
  Desks <- MCDesks
  Points <- MCPoints
  KeyNames = {ctrl, numlock}
  Resolvable = {ctrl}
  Texts = {text}
  Empty = Empty
  NoWindow = NoWindow
  e1 = e1
  e2 = e2
  e3 = e3
  e4 = e4
  e5 = e5
  e6 = e6
  e7 = e7
  e8 = e8
  e9 = e9
  e10 = e10
  e11 = e11
  Elements <- MCElements
  Look <- MCLook
  Named = {e4, e6}
  MaxSeen = 2
  Thresholds = {300, 600}
  TTL = 1
  NoElement = NoElement
INVARIANTS
  PartsTypeOK
  StopsInReverse
  ShutdownIsClean
  NoOrphanedAudio
  StoresAgree
  RecallIsAllowed
  EveryCallIsDue
  RecordsTellTheTruth
  CompletedMeansToolsRan
  DoneMeansReplied
  NoFrozenState
  ReportsAreTrue
  GroundingIsBest
PROPERTIES
  OnlineSignalEnds
  StopHolds
  TurnsEnd
  VitalGoLast
CHECK_DEADLOCK FALSE
