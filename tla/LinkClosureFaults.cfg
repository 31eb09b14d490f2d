SPECIFICATION Spec
CONSTANTS
  a = a
  b = b
  c = c
  x = x
  Names <- MCNames
  Tables <- MCTables
  ListIds <- MCListIds
  DeclIds <- MCDeclIds
  Faults = {"abort", "rollback", "step"}
  MaxScans = 2
INVARIANTS
  LinksSound
CHECK_DEADLOCK FALSE
