CONSTANTS
  TaskIds = {a, b, c, d}
  MaxSteps = 4
  Plans <- MCPlans
SPECIFICATION Spec
INVARIANTS
  TypeOK
  VerdictIsRight
  FallbackIsAccepted
PROPERTY ValidationEnds
