------------------------- MODULE IntelisenseTables -------------------------
(***************************************************************************)
(* The tables of the intelisense database (Model::InitDatabase) and the    *)
(* queries that derive one table from another.  A table is a function from *)
(* its primary keys to its rows.                                           *)
(*                                                                         *)
(*   ObjectList   one row per object that a sequence file mentions: the    *)
(*                file ("scope") that mentions it, the name it is known by *)
(*                there and the class it belongs to.  Classes, files and   *)
(*                basic types share one space of names, as the TEXT        *)
(*                columns Scope and ClassID do.                            *)
(*   ObjectDecl   one row per function a class or sequence file declares.  *)
(*   ObjectLinks  the rows [list, decl, rel]: an ObjectList row, a         *)
(*                declaration it gives access to, and the ObjectList row   *)
(*                through which it does.                                   *)
(*   ObjectLinksTemp  pairs of ObjectList keys.                            *)
(*                                                                         *)
(* The two link tables are sets here: every query that reads them selects  *)
(* DISTINCT rows, so a duplicate row cannot be told from a single one.     *)
(***************************************************************************)
EXTENDS Integers

NoRows == [id \in {} |-> 0]

(* A row is inserted, or replaces the one with its key.                    *)
Upsert(table, key, row) ==
  [k \in DOMAIN table \cup {key} |-> IF k = key THEN row ELSE table[k]]

(* Marked as not confirmed, and what is left once such rows are deleted.   *)
Unmarked(table) == [k \in DOMAIN table |-> [table[k] EXCEPT !.state = 0]]

Live(table) ==
  [k \in {j \in DOMAIN table : table[j].state # 0} |-> table[k]]

(* The pairs inserted first into ObjectLinksTemp: the class of the first   *)
(* row is the scope of the second.                                         *)
Inclusions(list) ==
  {p \in (DOMAIN list) \X (DOMAIN list) : list[p[1]].class = list[p[2]].scope}

(* The rows inserted first into ObjectLinks: each object with each         *)
(* declaration of its own class.                                           *)
PlainLinks(list, decl) ==
  {[list |-> p[1], decl |-> p[2], rel |-> p[1]] :
      p \in {q \in (DOMAIN list) \X (DOMAIN decl) :
                list[q[1]].class = decl[q[2]].class}}

(* Variant: the "where not exists" is missing.                             *)
SubInclusionsRepeated(temp) ==
  {<<c[1][1], c[2][2]>> :
      c \in {d \in temp \X temp : /\ d[1][2] = d[2][1]
                                  /\ d[1][1] # d[1][2]
                                  /\ d[2][1] # d[2][2]}}

(* The SELECT that the loop of CleanupDeadLinks inserts from and probes:   *)
(* compositions of two pairs, neither of them a row with itself, that the  *)
(* table does not hold yet.                                                *)
SubInclusions(temp) ==
  {<<c[1][1], c[2][2]>> :
      c \in {d \in temp \X temp : /\ d[1][2] = d[2][1]
                                  /\ d[1][1] # d[1][2]
                                  /\ d[2][1] # d[2][2]}} \ temp

(* Variant: two columns of the INSERT are swapped.                         *)
SubLinksSwapped(links, temp) ==
  {[list |-> c[1][1], decl |-> c[1][2], rel |-> c[2].decl] :
      c \in {d \in temp \X links : d[1][2] = d[2].list}}

(* The links copied from an included row to the row that includes it.      *)
SubLinks(links, temp) ==
  {[list |-> c[1][1], decl |-> c[2].decl, rel |-> c[1][2]] :
      c \in {d \in temp \X links : d[1][2] = d[2].list}}

-----------------------------------------------------------------------------
(* What the derived tables are meant to hold, stated without the loop.     *)

NamesOf(list) ==
  {list[a].scope : a \in DOMAIN list} \cup {list[a].class : a \in DOMAIN list}

(* Sets of files that hold a given file and, with each file, the classes   *)
(* of all objects that file mentions.                                      *)
ClosedFrom(list, file) ==
  {F \in SUBSET (NamesOf(list) \cup {file}) :
      /\ file \in F
      /\ \A a \in DOMAIN list : list[a].scope \in F => list[a].class \in F}

(* The smallest of them: the files, and the class files, that a file       *)
(* includes, directly or not, itself among them.                           *)
VisibleFiles(list, file) ==
  LET closed == ClosedFrom(list, file)
  IN  {f \in NamesOf(list) : \A F \in closed : f \in F}

(* The rows that an object gives access to: all that is mentioned in a     *)
(* file visible from its class.                                            *)
Reachable(list) ==
  UNION {LET visible == VisibleFiles(list, list[a].class)
         IN  {<<a, b>> : b \in {r \in DOMAIN list : list[r].scope \in visible}} :
         a \in DOMAIN list}

AllLinks(list, decl) ==
  PlainLinks(list, decl) \cup SubLinks(PlainLinks(list, decl), Reachable(list))

(* Variant: the object is joined through ID_ObjectList.                    *)
OfferedUnrelated(list, links, file) ==
  {<<l.list, l.decl>> : l \in {k \in links : list[k.list].scope = file}}

(* What GetObject, GetParams and GetReturns select from for one sequence   *)
(* file: the objects linked to a row of that file, with the declaration.   *)
Offered(list, links, file) ==
  {<<l.rel, l.decl>> : l \in {k \in links : list[k.list].scope = file}}
=============================================================================
