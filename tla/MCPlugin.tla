------------------------------ MODULE MCPlugin ------------------------------
(***************************************************************************)
(* A supported file and one that is not, and two projects.                 *)
(***************************************************************************)
EXTENDS Plugin

CONSTANTS seq, txt, one, two, none
=============================================================================
