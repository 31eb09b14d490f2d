SPECIFICATION Spec
CONSTANTS
  seq = seq
  txt = txt
  one = one
  two = two
  none = none
  Files = {seq, txt}
  Supported = {seq}
  Projects = {one, two}
  NoProject = none
  Nested = FALSE
INVARIANTS
  TypeOK
  CheckMarkTrue
  SupportedCurrent
  ListensWhenMeant
  SavedMeansStored
PROPERTIES
  SettingStored
