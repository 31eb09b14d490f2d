----------------------------- MODULE MCSession -----------------------------
(***************************************************************************)
(* One or two instances of Notepad++ with the same project.                *)
(***************************************************************************)
EXTENDS Session, TLC

CONSTANTS npp1, npp2

Instances == Permutations(Procs)
=============================================================================
