--------------------------- MODULE MCAutoComplete ---------------------------
(***************************************************************************)
(* An object with one function, which a sequence declares as well, and an  *)
(* object of an unknown class.                                             *)
(***************************************************************************)
EXTENDS AutoComplete

CONSTANTS main, lib, one, two, calc, gui, add

MCDatabases == {{<<calc, add>>, <<"", add>>}}
MCElsewhere ==
  {Blank, Text("dot", gui, "", "other"), Text("word", calc, add, "dot"),
   Text("word", "", calc, "other")}
=============================================================================
