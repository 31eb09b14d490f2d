SPECIFICATION Spec
CONSTANTS
  main = main
  lib = lib
  calc = calc
  gui = gui
  dir = dir
  int = int
  SeqFiles = {main, lib}
  Classes = {calc, gui, dir}
  BasicTypes = {int}
  Absent = Absent
  Strings <- MCStrings
  Texts <- MCTexts
  MaxEdits = 0
  MaxJobs = 2
INVARIANT ClassesComplete
CHECK_DEADLOCK FALSE
