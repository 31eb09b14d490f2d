----------------------------- MODULE MCUpserts -----------------------------
(***************************************************************************)
(* A sequence file that mentions one name twice, another one or is not     *)
(* there, and a class that changes.                                        *)
(***************************************************************************)
EXTENDS Upserts

CONSTANTS main, calc, old, new

Line(s, n, v) == [key |-> <<s, n>>, value |-> v]

MCTexts ==
  [s \in Sources |->
     CASE s = main -> {Absent, <<Line(main, "f", old)>>,
                       <<Line(main, "f", old), Line(main, "g", new),
                         Line(main, "f", new)>>}
       [] s = calc -> {<<Line(calc, "f", old)>>, <<Line(calc, "f", new)>>}]
=============================================================================
