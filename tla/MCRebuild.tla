----------------------------- MODULE MCRebuild -----------------------------
(***************************************************************************)
(* Two sequence files, a class whose description may mention another       *)
(* class, and texts that include, mention, repeat, overload and drop.  dir *)
(* is the class that the line #include "" mentions, which has no file: the *)
(* directory of sequences itself.                                          *)
(***************************************************************************)
EXTENDS Rebuild, TLC

CONSTANTS main, lib, calc, gui, dir, int

Object(n, c) == [kind |-> "object", name |-> n, class |-> c]
Function(n, p) == [kind |-> "function", name |-> n, params |-> p]

MCStrings == {"", "o", "i", "u", "nested", "main", "lib", "f", "add", "sub", "show", "p", "q"}

MCTexts ==
  (main :> {<<Object("o", calc), Object("lib", lib)>>,
            <<Object("o", gui), Object("i", int), Object("o", calc)>>})
  @@ (lib :> {Absent,
              <<Function("f", "p"), Object("main", main), Function("f", "q")>>,
              <<Object("u", gui), Object("", dir)>>})
  @@ (calc :> {Absent, <<Function("add", "p")>>,
               <<Function("sub", "p"), Object("nested", gui), Function("sub", "q")>>})
  @@ (gui :> {<<Function("show", "p")>>})
  @@ (dir :> {Absent})
=============================================================================
