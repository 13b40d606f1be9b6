CONSTANTS
  Node <- MCNode
  ROOT = "root"
  Parent <- MCParent
  Target <- MCTarget
  Kinds <- MCKinds
  NULL = NULL
  MAX_LINKS = 1
  MAX_DEPTH = 4
  FIRST_CAPACITY = 1
  OUT_OF_MEMORY = TRUE
SPECIFICATION Spec
PROPERTIES
  DeletesAll
  OnlyReached
  ListingRight
