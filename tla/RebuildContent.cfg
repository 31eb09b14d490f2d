SPECIFICATION Spec
CONSTANTS
  main = main
  lib = lib
  calc = calc
  gui = gui
  dir = dir
  int = int
  SeqFiles = {main, lib}
  Classes = {calc, gui, dir}
  BasicTypes = {int}
  Absent = Absent
  Strings <- MCStrings
  Texts <- MCTexts
  MaxEdits = 2
  MaxJobs = 3
INVARIANTS
  TypeOK
  SequencesMirrored
  UndeclaredResolved
  UpdateKeepsClasses
  OffersMatchSources
PROPERTIES
  JobsEnd
CHECK_DEADLOCK FALSE
