SPECIFICATION Spec
CONSTANTS
  MAX_PAGES = 14
  NUM_PTE_ENTRIES = 2
  VirtualAddresses <- TwoTrees
  Offsets = {0}
  Values = {1}
  MapModes <- AllModes
  UnmappedLater = {}
  MAX_NEW_ROOTS = 2
  MAX_ROOTS = 2
INVARIANTS WritableIsPrivate PagesAccounted
PROPERTIES ImplementsSpaces
VIEW Future
