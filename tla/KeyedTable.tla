----------------------------- MODULE KeyedTable -----------------------------
(***************************************************************************)
(* What Rebuild takes ObjectList and ObjectDecl to be: a table with one    *)
(* row for each key.  A row has a value and the State of the code.         *)
(***************************************************************************)
EXTENDS IntelisenseTables

CONSTANTS Keys, Values

VARIABLE table

Confirmed(v) == [value |-> v, state |-> 1]

Init == table = NoRows

Next ==
  \/ \E k \in Keys, v \in Values : table' = Upsert(table, k, Confirmed(v))
  \/ table' \in {Unmarked(table), Live(table), NoRows}

Spec == Init /\ [][Next]_table
=============================================================================
