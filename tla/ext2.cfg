SPECIFICATION Spec
CONSTANTS
  OldSizes = {512, 2097152}
INVARIANTS
  TypeOK
  StructuresWhole
  BlocksAccounted
  InodesAccounted
  DirectoriesTile
  LinksCounted
