SPECIFICATION Spec
CONSTANTS
  main = main
  lib = lib
  one = one
  two = two
  calc = calc
  gui = gui
  add = add
  Objects = {calc, gui}
  Functions = {add}
  Databases <- MCDatabases
  Files = {main, lib}
  Projects = {one, two}
  Elsewhere <- MCElsewhere
INVARIANTS
  TypeOK
  TipOfCall
  ListOfPlace
