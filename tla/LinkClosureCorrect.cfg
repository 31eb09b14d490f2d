SPECIFICATION Spec
CONSTANTS
  a = a
  b = b
  c = c
  x = x
  Names <- MCNames
  Tables <- MCTables
  ListIds <- MCListIds
  DeclIds <- MCDeclIds
  Faults = {"abort", "rollback"}
  MaxScans = 2
INVARIANTS
  TypeOK
  LinksCorrect
  ImplicitIncludes
PROPERTIES
  AtomicUpdate
  Terminates
CHECK_DEADLOCK FALSE
