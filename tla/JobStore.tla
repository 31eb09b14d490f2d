------------------------------ MODULE JobStore ------------------------------
(***************************************************************************)
(* What the database file of a project is to those who open it: it changes *)
(* by whole jobs.  A job leaves the rows of a table as they are, deletes   *)
(* them all or writes its own, and stores the links of what it leaves.     *)
(* Setting the database up is the exception: a table goes or comes at a    *)
(* time, empty, and one of them (temp) has an index that comes after it    *)
(* and goes with it.                                                       *)
(***************************************************************************)
EXTENDS Integers

CONSTANTS Tables, JobIds

VARIABLE file

NoFile == [has |-> {}, list |-> 0, decl |-> 0, from |-> <<0, 0>>]

Init == file = NoFile

Store ==
  \E id \in JobIds :
    \E list \in {file.list, id, 0}, decl \in {file.decl, id, 0} :
      /\ Tables \subseteq file.has
      /\ file' = [has |-> file.has, list |-> list, decl |-> decl, from |-> <<list, decl>>]

Drop ==
  \E table \in Tables :
    file' = [has |-> file.has \ (IF table = "temp" THEN {table, "index"} ELSE {table}),
             list |-> IF table = "list" THEN 0 ELSE file.list,
             decl |-> IF table = "decl" THEN 0 ELSE file.decl,
             from |-> IF table = "links" THEN <<0, 0>> ELSE file.from]

Create ==
  \E object \in (Tables \cup {"index"}) \ file.has :
    /\ object = "index" => "temp" \in file.has
    /\ file' = [file EXCEPT !.has = @ \cup {object}]

Next == Store \/ Drop \/ Create

Spec == Init /\ [][Next]_file
=============================================================================
