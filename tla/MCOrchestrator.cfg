CONSTANTS
  a = a
  b = b
  c = c
  Tasks = {a, b, c}
  Plans <- MCPlans
  NoPlan = NoPlan
  NoFile = NoFile
  Torn = Torn
  NoResponse = NoResponse
  MaxStepRetries = 2
  MaxReplans = 2
  MaxAttempts = 5
SPECIFICATION Spec
INVARIANTS
  TypeOK
  DependenciesFirst
  RecoveryBounded
  CompletedMeansVerified
  FileBehindRun
  OneVerdictAnnounced
PROPERTIES
  RunsAsPromised
  RunEnds
