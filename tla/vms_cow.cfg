SPECIFICATION Spec
CONSTANTS
  MAX_PAGES = 11
  NUM_PTE_ENTRIES = 2
  VirtualAddresses <- OneAddress
  Offsets = {0, 1}
  Values = {1}
  MapModes <- ReadOrWrite
  UnmappedLater <- OneAddress
  MAX_NEW_ROOTS = 1
  MAX_ROOTS = 3
INVARIANTS TypeOK RefTrackExact FreshPagesZero
PROPERTIES ImplementsSpaces
VIEW Future
