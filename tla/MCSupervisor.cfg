SPECIFICATION Spec
CONSTANTS
  c1 = c1
  c2 = c2
  r1 = r1
  r2 = r2
  Children <- MCChildren
  NoChild = NoChild
  Startup = Startup
  Restarts <- MCRestart
  Platforms <- MCPlatforms
  MaxChecks = 2
INVARIANTS
  TypeOK
  EntryIsRight
  NothingLeftBehind
PROPERTIES
  EverythingEnds
