----------------------------- MODULE LinkTable -----------------------------
(***************************************************************************)
(* What CleanupDeadLinks promises: in one step the database goes from one  *)
(* set of objects, declarations and links to another, and the links are    *)
(* always those that the objects and declarations call for.                *)
(***************************************************************************)
EXTENDS IntelisenseTables

CONSTANT Tables

VARIABLES list, decl, links

Empty == list = NoRows /\ decl = NoRows /\ links = {}

Update ==
  \E t \in Tables :
    /\ list' = t.list
    /\ decl' = t.decl
    /\ links' = AllLinks(t.list, t.decl)

Initialise == Empty'

Spec == Empty /\ [][Update \/ Initialise]_<<list, decl, links>>
=============================================================================
