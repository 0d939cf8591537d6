SPECIFICATION Spec
CONSTANTS
  Attr <- MCAttr
  Words <- MCWords
  Blank = ""
  Overlay <- MCOverlay
  Lines <- MCLines
  Behinds = {"", "8"}
  MaxEntries = 3
INVARIANTS
  TypeOK
  RouteLinesWellFormed
  JoinReproducesTables
  DuplicatesArePairs
  UpdateReachesAll
