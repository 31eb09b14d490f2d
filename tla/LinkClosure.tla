---------------------------- MODULE LinkClosure ----------------------------
(***************************************************************************)
(* Model::CleanupDeadLinks (src/src/Model.cpp): the statements that        *)
(* recompute ObjectLinks inside the transaction that PrepareForUpdate      *)
(* opened, and the loop that closes ObjectLinksTemp under composition.     *)
(*                                                                         *)
(* list, decl, links and temp are the tables as the connection sees them,  *)
(* committed is the content of the database file, tx tells whether the     *)
(* transaction is open.  Scan stands for all that happens before           *)
(* CleanupDeadLinks is called: the transaction is begun and the scanner    *)
(* leaves any tables of Tables.                                            *)
(*                                                                         *)
(* Faults names what may go wrong in a statement:                          *)
(*   "abort"     sqlite3_exec fails and undoes the statement only          *)
(*   "rollback"  sqlite3_exec fails and SQLite rolls the transaction back  *)
(*               (SQLITE_FULL, SQLITE_IOERR, SQLITE_NOMEM)                 *)
(*   "step"      sqlite3_step fails in the probe of the loop               *)
(* A step error that also rolls the transaction back is left out.          *)
(***************************************************************************)
EXTENDS IntelisenseTables

CONSTANTS ListIds,   \* the primary keys of ObjectList
          DeclIds,   \* the primary keys of ObjectDecl
          Names,     \* files, classes and basic types
          Tables,    \* what the scanner may leave: records [list, decl]
          Faults,
          MaxScans   \* a bound on the number of updates

IsTable(t, ids, rows) ==
  /\ DOMAIN t \subseteq ids
  /\ t = [i \in DOMAIN t |-> t[i]]
  /\ \A i \in DOMAIN t : t[i] \in rows

ListRow == [scope : Names, class : Names]
DeclRow == [class : Names]
Link == [list : ListIds, decl : DeclIds, rel : ListIds]

ASSUME TablesAssumption ==
  \A t \in Tables : /\ t = [list |-> t.list, decl |-> t.decl]
                    /\ IsTable(t.list, ListIds, ListRow)
                    /\ IsTable(t.decl, DeclIds, DeclRow)

ASSUME FaultsAssumption == Faults \subseteq {"abort", "rollback", "step"}

ASSUME MaxScansAssumption == MaxScans \in Nat

VARIABLES pc, tx, list, decl, links, temp, committed, scans

vars == <<pc, tx, list, decl, links, temp, committed, scans>>
tables == <<list, decl, links, temp>>

Exec == {"ClearTemp", "ClearLinks", "Plain", "Include", "Insert", "Sub", "Commit"}

Init ==
  /\ pc = "Idle"
  /\ tx = FALSE
  /\ list = NoRows
  /\ decl = NoRows
  /\ links = {}
  /\ temp = {}
  /\ committed = [list |-> NoRows, decl |-> NoRows, links |-> {}, temp |-> {}]
  /\ scans = 0

Scan ==
  /\ pc = "Idle"
  /\ scans < MaxScans
  /\ scans' = scans + 1
  /\ tx' = TRUE
  /\ \E t \in Tables : list' = t.list /\ decl' = t.decl
  /\ pc' = "ClearTemp"
  /\ UNCHANGED <<links, temp, committed>>

ClearTemp ==
  /\ pc = "ClearTemp"
  /\ temp' = {}
  /\ pc' = "ClearLinks"
  /\ UNCHANGED <<tx, list, decl, links, committed, scans>>

(* Variant: the old links are deleted on their own, not in the transaction.*)
ClearLinksAtOnce ==
  /\ pc = "ClearLinks"
  /\ links' = {}
  /\ committed' = [committed EXCEPT !.links = {}]
  /\ pc' = "Plain"
  /\ UNCHANGED <<tx, list, decl, temp, scans>>

(* Variant: the old links are not deleted.                                 *)
ClearLinksForgotten ==
  /\ pc = "ClearLinks"
  /\ pc' = "Plain"
  /\ UNCHANGED <<tx, tables, committed, scans>>

ClearLinks ==
  /\ pc = "ClearLinks"
  /\ links' = {}
  /\ pc' = "Plain"
  /\ UNCHANGED <<tx, list, decl, temp, committed, scans>>

InsertPlain ==
  /\ pc = "Plain"
  /\ links' = links \cup PlainLinks(list, decl)
  /\ pc' = "Include"
  /\ UNCHANGED <<tx, list, decl, temp, committed, scans>>

InsertInclusions ==
  /\ pc = "Include"
  /\ temp' = temp \cup Inclusions(list)
  /\ pc' = "Insert"
  /\ UNCHANGED <<tx, list, decl, links, committed, scans>>

InsertSubInclusions ==
  /\ pc = "Insert"
  /\ temp' = temp \cup SubInclusions(temp)
  /\ pc' = "Probe"
  /\ UNCHANGED <<tx, list, decl, links, committed, scans>>

(* Variant: one round, the includes of includes only.                      *)
ProbeOnce ==
  /\ pc = "Probe"
  /\ pc' = "Sub"
  /\ UNCHANGED <<tx, tables, committed, scans>>

(* The SELECT is run again and its rows counted: none means finished.      *)
Probe ==
  /\ pc = "Probe"
  /\ pc' = IF SubInclusions(temp) = {} THEN "Sub" ELSE "Insert"
  /\ UNCHANGED <<tx, tables, committed, scans>>

(* sqlite3_step returns an error: not SQLITE_ROW, so the loop is finished. *)
ProbeStepFails ==
  /\ pc = "Probe"
  /\ "step" \in Faults
  /\ pc' = "Sub"
  /\ UNCHANGED <<tx, tables, committed, scans>>

InsertSubLinks ==
  /\ pc = "Sub"
  /\ links' = links \cup SubLinks(links, temp)
  /\ pc' = "Commit"
  /\ UNCHANGED <<tx, list, decl, temp, committed, scans>>

Commit ==
  /\ pc = "Commit"
  /\ committed' = [list |-> list, decl |-> decl, links |-> links, temp |-> temp]
  /\ tx' = FALSE
  /\ pc' = "Idle"
  /\ UNCHANGED <<tables, scans>>

(* A statement, or the sqlite3_prepare of the probe, fails: return 1, with *)
(* neither a commit nor a rollback.                                        *)
StatementFails ==
  /\ pc \in Exec \cup {"Probe"}
  /\ "abort" \in Faults
  /\ pc' = "Failed"
  /\ UNCHANGED <<tx, tables, committed, scans>>

(* The failing statement took the whole transaction with it.               *)
StatementRollsBack ==
  /\ pc \in Exec
  /\ "rollback" \in Faults
  /\ list' = committed.list
  /\ decl' = committed.decl
  /\ links' = committed.links
  /\ temp' = committed.temp
  /\ tx' = FALSE
  /\ pc' = "Idle"
  /\ UNCHANGED <<committed, scans>>

(* The process ends, or another project is loaded, and the database is     *)
(* initialised anew (LoadIntelisense, InitDatabase).                       *)
Reload ==
  /\ pc \in {"Idle", "Failed"}
  /\ scans > 0
  /\ list' = NoRows
  /\ decl' = NoRows
  /\ links' = {}
  /\ temp' = {}
  /\ committed' = [list |-> NoRows, decl |-> NoRows, links |-> {}, temp |-> {}]
  /\ tx' = FALSE
  /\ pc' = "Idle"
  /\ UNCHANGED scans

Step ==
  \/ ClearTemp \/ ClearLinks \/ InsertPlain \/ InsertInclusions
  \/ InsertSubInclusions \/ Probe \/ InsertSubLinks \/ Commit

Next ==
  \/ Scan \/ Step \/ ProbeStepFails \/ StatementFails \/ StatementRollsBack
  \/ Reload

(* CleanupDeadLinks runs to its end on the user-interface thread once it   *)
(* is called; nothing obliges the user to start an update.                 *)
Spec == Init /\ [][Next]_vars /\ WF_vars(Step)

-----------------------------------------------------------------------------
(* Links join rows of ObjectList with rows of ObjectDecl, in the file and  *)
(* on the connection alike: no key of one table ends up in the column of   *)
(* the other.                                                              *)
TypeOK ==
  /\ pc \in Exec \cup {"Idle", "Probe", "Failed"}
  /\ tx \in BOOLEAN
  /\ IsTable(list, ListIds, ListRow)
  /\ IsTable(decl, DeclIds, DeclRow)
  /\ links \subseteq Link
  /\ temp \subseteq ListIds \X ListIds
  /\ committed = [list |-> committed.list, decl |-> committed.decl,
                  links |-> committed.links, temp |-> committed.temp]
  /\ IsTable(committed.list, ListIds, ListRow)
  /\ IsTable(committed.decl, DeclIds, DeclRow)
  /\ committed.links \subseteq Link
  /\ committed.temp \subseteq ListIds \X ListIds
  /\ scans \in Nat

(* No committed link leads to a declaration that no chain of inclusions    *)
(* reaches, whatever an earlier update left in the link tables and         *)
(* whichever statement fails.                                              *)
LinksSound ==
  committed.links \subseteq AllLinks(committed.list, committed.decl)

(* After every update the committed links are exactly those of the         *)
(* committed objects and declarations: the loop stops at the closure.      *)
LinksCorrect ==
  committed.links = AllLinks(committed.list, committed.decl)

(* What auto-completion offers in a sequence file is every declaration of  *)
(* the classes mentioned in that file or in a file it includes, directly   *)
(* or not (Readme.md: Main.seq uses test1.seq uses Functions.seq).         *)
ImplicitIncludes ==
  \A file \in Names :
    Offered(committed.list, committed.links, file) =
      {p \in (DOMAIN committed.list) \X (DOMAIN committed.decl) :
          /\ committed.list[p[1]].class = committed.decl[p[2]].class
          /\ committed.list[p[1]].scope \in
                VisibleFiles(committed.list, file)}

Promise == INSTANCE LinkTable
  WITH list <- committed.list, decl <- committed.decl, links <- committed.links

(* An update is seen as one step by whoever opens the database: objects,   *)
(* declarations and links change together and to a consistent whole, or    *)
(* not at all.                                                             *)
AtomicUpdate == Promise!Spec

(* Once the links are recomputed the loop comes to its end, cycles of      *)
(* includes or not: every update is committed or gives up.                 *)
Terminates == (pc = "ClearTemp") ~> (pc \in {"Idle", "Failed"})
=============================================================================
