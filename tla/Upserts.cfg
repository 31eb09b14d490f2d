SPECIFICATION Spec
CONSTANTS
  main = main
  calc = calc
  old = old
  new = new
  Table = "ObjectDecl"
  SeqFiles = {main}
  Classes = {calc}
  Names = {"", "f", "g"}
  Values = {main, old, new}
  Absent = Absent
  Texts <- MCTexts
  MaxJobs = 2
  MaxEdits = 2
  MaxFaults = 2
INVARIANTS
  TypeOK
  OneRowPerKey
  RebuildHeals
  UpdateConfirms
PROPERTIES
  ImplementsKeyedTable
CHECK_DEADLOCK FALSE
