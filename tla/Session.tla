------------------------------ MODULE Session ------------------------------
(***************************************************************************)
(* The database file of one project, shared by Notepad++ instances, and    *)
(* what Model (src/src/Model.cpp) does to it through its connections: one  *)
(* statement of LoadIntelisense, Rebuild or Update at a time, with the     *)
(* locks SQLite takes for it (rollback journal, no busy handler).          *)
(*                                                                         *)
(* Of the tables we keep which exist and which job wrote their rows:       *)
(*   has         the tables that exist, and the index of ObjectLinksTemp   *)
(*   list, decl  the job that last filled ObjectList and ObjectDecl, 0     *)
(*               when the table is empty                                   *)
(*   from        the pair <<list, decl>> that ObjectLinks was computed     *)
(*               from, <<0, 0>> when it is empty or only begun             *)
(* disk is the committed state of the file; buf[c] the state that          *)
(* connection c sees once it wrote in a transaction.                       *)
(*                                                                         *)
(* Faults names what may go wrong apart from locks and missing tables:     *)
(*   "open"      sqlite3_open fails                                        *)
(*   "exec"      a statement fails and is undone                           *)
(*   "rollback"  a statement fails and SQLite rolls the transaction back   *)
(*   "throw"     reading the sources throws: a file name of less than four *)
(*               characters, or an #include of less than the parser cuts   *)
(*               off, makes substr throw out_of_range; Notepad++ catches   *)
(*               what a plugin command throws                              *)
(***************************************************************************)
EXTENDS Integers, Sequences

CONSTANTS Procs,      \* running copies of Notepad++
          Faults,
          MaxLoads, MaxJobs, MaxFaults, MaxExits   \* bounds

ASSUME SessionAssumption ==
  /\ Faults \subseteq {"open", "exec", "rollback", "throw"}
  /\ {MaxLoads, MaxJobs, MaxFaults, MaxExits} \subseteq Nat

Tables == {"list", "decl", "links", "temp"}

Conns == Procs \X (1 .. MaxLoads)

-----------------------------------------------------------------------------
(* The statements, in the order the functions run them.                    *)

(* failing: whether the function returns 1 when the statement fails.       *)
Must(op, table) == [op |-> op, table |-> table, failing |-> "returns"]
May(op, table) == [op |-> op, table |-> table, failing |-> "continues"]

(* A SELECT that cannot be prepared stops the function; one that cannot be *)
(* stepped, or not any further, only ends the loop over its rows.          *)
MayOrMust(op, table) == [op |-> op, table |-> table, failing |-> "either"]

(* The tables a statement needs, those it only joins among them.           *)
Needs(s) ==
  CASE s.op \in {"drop", "create", "begin", "commit"} -> {}
    [] s.op \in {"plain", "include"} -> {s.table, "list", "decl"}
    [] s.op = "read" -> {"list", "decl"}
    [] s.op = "sub" -> {"links", "temp"}
    [] OTHER -> {s.table}

InitDatabase ==
  <<May("drop", "list"), May("drop", "decl"), May("drop", "links"),
    May("drop", "temp"),
    Must("create", "list"), Must("create", "decl"), Must("create", "links"),
    Must("create", "temp"), Must("index", "temp")>>

(* Variant: no transaction around the job.                                 *)
PrepareWithoutBegin == <<Must("mark", "list"), Must("mark", "decl")>>

PrepareForUpdate ==
  <<Must("mark", "list"), Must("mark", "decl"), Must("begin", "list")>>

(* Variant: the directory of sequences is not read.                        *)
RebuildTypesOnly == <<May("scan", "decl")>>

(* Variant: what has been read is committed before the links are computed. *)
RebuildCommittingRows ==
  <<May("scan", "decl"), May("scan", "list"),
    Must("commit", "list"), Must("begin", "list")>>

(* The upserts of all files, one per table: what UpdateObjList and         *)
(* UpdateObjDecl return is not looked at.                                  *)
RebuildObjList == <<May("scan", "decl"), May("scan", "list")>>

(* The classes without a row, the upserts of their descriptions, and the   *)
(* rows that nothing confirmed.                                            *)
RebuildClassDefinition ==
  <<MayOrMust("read", "list"), May("classes", "decl"), May("classes", "list"),
    Must("delete", "list"), Must("delete", "decl")>>

(* Variant: the result of the commit is not looked at.                     *)
CleanupCommitUnchecked ==
  <<Must("clear", "temp"), Must("clear", "links"), Must("plain", "links"),
    Must("include", "temp"), Must("sub", "links"), May("commit", "list")>>

(* Variant: the transaction is left open.                                  *)
CleanupWithoutCommit ==
  <<Must("clear", "temp"), Must("clear", "links"), Must("plain", "links"),
    Must("include", "temp"), Must("sub", "links")>>

CleanupDeadLinks ==
  <<Must("clear", "temp"), Must("clear", "links"), Must("plain", "links"),
    Must("include", "temp"), Must("sub", "links"), Must("commit", "list")>>

Program(job) ==
  CASE job = "Load" -> InitDatabase
    [] job = "Update" -> PrepareForUpdate \o RebuildObjList \o CleanupDeadLinks
    [] job = "Rebuild" -> PrepareForUpdate \o RebuildObjList
                          \o RebuildClassDefinition \o CleanupDeadLinks

-----------------------------------------------------------------------------
VARIABLES disk, buf, lock, tx,
          opened,    \* connections the process has opened so far
          db,        \* the one Model::db points to, 0 for none
          job, pc, id, result,
          jobs, faults, exits

vars == <<disk, buf, lock, tx, opened, db, job, pc, id, result,
          jobs, faults, exits>>
conns == <<buf, lock, tx>>

NoFile == [has |-> {}, list |-> 0, decl |-> 0, from |-> <<0, 0>>]

Conn(p) == <<p, db[p]>>
Running(p) == pc[p] > 0
Statement(p) == Program(job[p])[pc[p]]

Writing(c) == lock[c] \in {"reserved", "pending"}
View(c) == IF tx[c] /\ Writing(c) THEN buf[c] ELSE disk

(* A pending writer keeps new readers out, a writer keeps writers out, and *)
(* any reader keeps a writer from committing.                              *)
Readable(c) == lock[c] # "none" \/ \A o \in Conns : lock[o] # "pending"
Writable(c) == Writing(c) \/ (Readable(c) /\ \A o \in Conns : ~Writing(o))
Exclusive(c) == \A o \in Conns \ {c} : lock[o] = "none"

Upserts == {"scan", "classes"}

Gone(table) == IF table = "temp" THEN {"temp", "index"} ELSE {table}

(* The tables after a writing statement.  The rows that no scan of this    *)
(* job confirmed are those that "delete" removes.                          *)
Effect(s, t, job_id) ==
  CASE s.op = "drop" ->
         [t EXCEPT !.has = @ \ Gone(s.table),
                   !.list = IF s.table = "list" THEN 0 ELSE @,
                   !.decl = IF s.table = "decl" THEN 0 ELSE @,
                   !.from = IF s.table = "links" THEN <<0, 0>> ELSE @]
    [] s.op = "create" -> [t EXCEPT !.has = @ \cup {s.table}]
    [] s.op = "index" -> [t EXCEPT !.has = @ \cup {"index"}]
    [] s.op \in Upserts -> IF s.table = "list" THEN [t EXCEPT !.list = job_id]
                                               ELSE [t EXCEPT !.decl = job_id]
    [] s.op = "delete" -> IF t[s.table] # job_id
                          THEN [t EXCEPT ![s.table] = 0] ELSE t
    [] s.op = "clear" /\ s.table = "links" -> [t EXCEPT !.from = <<0, 0>>]
    [] s.op = "sub" -> [t EXCEPT !.from = <<t.list, t.decl>>]
    [] OTHER -> t

Defined(s, t) ==
  /\ Needs(s) \subseteq t.has
  /\ s.op = "create" => s.table \notin t.has
  /\ s.op = "index" => "index" \notin t.has

Succeeds(c, s) ==
  /\ Defined(s, View(c))
  /\ CASE s.op = "begin" -> ~tx[c]
       [] s.op = "commit" -> tx[c] /\ (Writing(c) => Exclusive(c))
       [] s.op = "read" -> Readable(c)
       [] OTHER -> Writable(c) /\ (tx[c] \/ Exclusive(c))

(* A query joins the rows with their links.                                *)
Answered(c) == Readable(c) /\ {"list", "decl", "links"} \subseteq View(c).has

-----------------------------------------------------------------------------
Init ==
  /\ disk = NoFile
  /\ buf = [c \in Conns |-> NoFile]
  /\ lock = [c \in Conns |-> "none"]
  /\ tx = [c \in Conns |-> FALSE]
  /\ opened = [p \in Procs |-> 0]
  /\ db = [p \in Procs |-> 0]
  /\ job = [p \in Procs |-> "Load"]
  /\ pc = [p \in Procs |-> 0]
  /\ id = [p \in Procs |-> 0]
  /\ result = [p \in Procs |-> "none"]
  /\ jobs = 0 /\ faults = 0 /\ exits = 0

Fault(f) == f \in Faults /\ faults < MaxFaults /\ faults' = faults + 1

Return(p, r) ==
  /\ pc' = [pc EXCEPT ![p] = 0]
  /\ result' = [result EXCEPT ![p] = r]

(* LoadIntelisense: db is overwritten by the new connection; the one it    *)
(* pointed to stays open.                                                  *)
Open(p) ==
  /\ ~Running(p)
  /\ opened[p] < MaxLoads
  /\ opened' = [opened EXCEPT ![p] = @ + 1]
  /\ db' = [db EXCEPT ![p] = opened[p] + 1]
  /\ job' = [job EXCEPT ![p] = "Load"]
  /\ pc' = [pc EXCEPT ![p] = 1]
  /\ result' = [result EXCEPT ![p] = "none"]
  /\ UNCHANGED <<disk, conns, id, jobs, faults, exits>>

(* HandleDBError closes the new connection and leaves db NULL.             *)
OpenFails(p) ==
  /\ ~Running(p)
  /\ opened[p] < MaxLoads
  /\ Fault("open")
  /\ db' = [db EXCEPT ![p] = 0]
  /\ job' = [job EXCEPT ![p] = "Load"]
  /\ Return(p, "failed")
  /\ UNCHANGED <<disk, conns, opened, id, jobs, exits>>

(* The control panel offers a job before a project has been loaded, too.   *)
Start(p, kind) ==
  /\ ~Running(p)
  /\ jobs < MaxJobs
  /\ jobs' = jobs + 1
  /\ id' = [id EXCEPT ![p] = jobs + 1]
  /\ job' = [job EXCEPT ![p] = kind]
  /\ pc' = [pc EXCEPT ![p] = 1]
  /\ result' = [result EXCEPT ![p] = "none"]
  /\ UNCHANGED <<disk, conns, opened, db, faults, exits>>

(* Variant: one statement too many.                                        *)
AdvancePast(p) ==
  IF pc[p] > Len(Program(job[p]))
  THEN Return(p, "ok")
  ELSE pc' = [pc EXCEPT ![p] = @ + 1] /\ UNCHANGED result

Advance(p) ==
  IF pc[p] = Len(Program(job[p]))
  THEN Return(p, "ok")
  ELSE pc' = [pc EXCEPT ![p] = @ + 1] /\ UNCHANGED result

(* What a successful statement does to the connection and to the file.     *)
Perform(c, s, job_id) ==
  LET t == Effect(s, View(c), job_id)
  IN  CASE s.op = "begin" ->
             tx' = [tx EXCEPT ![c] = TRUE] /\ UNCHANGED <<disk, buf, lock>>
        [] s.op = "commit" ->
             /\ disk' = View(c)
             /\ buf' = [buf EXCEPT ![c] = NoFile]
             /\ lock' = [lock EXCEPT ![c] = "none"]
             /\ tx' = [tx EXCEPT ![c] = FALSE]
        [] s.op = "read" ->
             /\ lock' = [lock EXCEPT ![c] = IF @ = "none" /\ tx[c] THEN "shared" ELSE @]
             /\ UNCHANGED <<disk, buf, tx>>
        [] s.op \notin {"begin", "commit", "read"} /\ tx[c] ->
             /\ buf' = [buf EXCEPT ![c] = t]
             /\ lock' = [lock EXCEPT ![c] = IF @ = "pending" THEN @ ELSE "reserved"]
             /\ UNCHANGED <<disk, tx>>
        [] s.op \notin {"begin", "commit", "read"} /\ ~tx[c] ->
             disk' = t /\ UNCHANGED conns

StatementOk(p) ==
  /\ Running(p)
  /\ db[p] # 0
  /\ Succeeds(Conn(p), Statement(p))
  /\ Perform(Conn(p), Statement(p), id[p])
  /\ Advance(p)
  /\ UNCHANGED <<opened, db, job, id, jobs, faults, exits>>

(* Where a failing statement leaves the function.                          *)
GiveUp(p) ==
  \/ Statement(p).failing # "continues" /\ Return(p, "failed")
  \/ Statement(p).failing # "returns" /\ Advance(p)

(* The query found no class, or none that has a description, before its    *)
(* rows ended or broke off.                                                *)
NoClasses(p) ==
  /\ Running(p)
  /\ Statement(p).op = "classes"
  /\ Advance(p)
  /\ UNCHANGED <<disk, conns, opened, db, job, id, jobs, faults, exits>>

(* A lock, a missing table, or no connection: db is NULL or, before the    *)
(* first load, not initialised, which SQLite calls a misuse if the process *)
(* survives it (Exit is what happens if it does not).  A commit that finds readers *)
(* keeps the transaction and waits for no new ones; an upsert has read its *)
(* table before it is refused the write.                                   *)
StatementRefused(p) ==
  /\ Running(p)
  /\ db[p] # 0 => ~Succeeds(Conn(p), Statement(p))
  /\ GiveUp(p)
  /\ LET c == Conn(p)
         s == Statement(p)
         reads == s.op \in Upserts /\ Defined(s, View(c)) /\ Readable(c)
     IN  IF db[p] # 0 /\ tx[c]
         THEN lock' = [lock EXCEPT ![c] =
                         IF s.op = "commit" THEN "pending"
                         ELSE IF reads /\ @ = "none" THEN "shared" ELSE @]
         ELSE UNCHANGED lock
  /\ UNCHANGED <<disk, buf, tx, opened, db, job, id, jobs, faults, exits>>

StatementFails(p) ==
  /\ Running(p)
  /\ db[p] # 0
  /\ Fault("exec")
  /\ GiveUp(p)
  /\ UNCHANGED <<disk, conns, opened, db, job, id, jobs, exits>>

StatementRollsBack(p) ==
  /\ Running(p)
  /\ db[p] # 0
  /\ tx[Conn(p)]
  /\ Fault("rollback")
  /\ buf' = [buf EXCEPT ![Conn(p)] = NoFile]
  /\ lock' = [lock EXCEPT ![Conn(p)] = "none"]
  /\ tx' = [tx EXCEPT ![Conn(p)] = FALSE]
  /\ GiveUp(p)
  /\ UNCHANGED <<disk, opened, db, job, id, jobs, exits>>

ScanThrows(p) ==
  /\ Running(p)
  /\ job[p] # "Load"
  /\ Statement(p).op \in Upserts
  /\ Fault("throw")
  /\ Return(p, "failed")
  /\ UNCHANGED <<disk, conns, opened, db, job, id, jobs, exits>>

(* The questions of auto-completion, and Export.  One that is asked while  *)
(* an abandoned transaction is open keeps its lock until that ends.        *)
Query(p) ==
  /\ ~Running(p)
  /\ db[p] # 0
  /\ Answered(Conn(p))
  /\ lock' = [lock EXCEPT ![Conn(p)] = IF @ = "none" /\ tx[Conn(p)] THEN "shared" ELSE @]
  /\ UNCHANGED <<disk, buf, tx, opened, db, job, pc, id, result, jobs, faults, exits>>

(* The process ends, between two commands or in the middle of one; its     *)
(* connections are closed and the next reader rolls the journal back.      *)
Exit(p) ==
  /\ opened[p] > 0 \/ Running(p)
  /\ exits < MaxExits
  /\ exits' = exits + 1
  /\ buf' = [c \in Conns |-> IF c[1] = p THEN NoFile ELSE buf[c]]
  /\ lock' = [c \in Conns |-> IF c[1] = p THEN "none" ELSE lock[c]]
  /\ tx' = [c \in Conns |-> IF c[1] = p THEN FALSE ELSE tx[c]]
  /\ opened' = [opened EXCEPT ![p] = 0]
  /\ db' = [db EXCEPT ![p] = 0]
  /\ job' = [job EXCEPT ![p] = "Load"]
  /\ pc' = [pc EXCEPT ![p] = 0]
  /\ id' = [id EXCEPT ![p] = 0]
  /\ result' = [result EXCEPT ![p] = "none"]
  /\ UNCHANGED <<disk, jobs, faults>>

Next ==
  \E p \in Procs :
    \/ Open(p) \/ OpenFails(p)
    \/ \E kind \in {"Rebuild", "Update"} : Start(p, kind)
    \/ StatementOk(p) \/ StatementRefused(p) \/ NoClasses(p)
    \/ StatementFails(p) \/ StatementRollsBack(p) \/ ScanThrows(p)
    \/ Query(p)
    \/ Exit(p)

Spec == Init /\ [][Next]_vars
-----------------------------------------------------------------------------
Content == [has : SUBSET (Tables \cup {"index"}), list : Nat, decl : Nat, from : Nat \X Nat]

(* Every process is at a statement of the job it runs, and the file, the   *)
(* connections and the counters have the values they are meant to have.    *)
TypeOK ==
  /\ disk \in Content
  /\ buf \in [Conns -> Content]
  /\ lock \in [Conns -> {"none", "shared", "reserved", "pending"}]
  /\ tx \in [Conns -> BOOLEAN]
  /\ opened \in [Procs -> 0 .. MaxLoads]
  /\ db \in [Procs -> 0 .. MaxLoads]
  /\ job \in [Procs -> {"Load", "Rebuild", "Update"}]
  /\ \A p \in Procs : pc[p] \in 0 .. Len(Program(job[p]))
  /\ id \in [Procs -> Nat]
  /\ result \in [Procs -> {"none", "ok", "failed"}]
  /\ jobs \in Nat /\ faults \in Nat /\ exits \in Nat

(* The links belong to the rows.  With no row in ObjectList or none in     *)
(* ObjectDecl every query comes back empty, whatever ObjectLinks holds.    *)
Whole(t) ==
  Tables \subseteq t.has /\ t.list # 0 /\ t.decl # 0 => t.from = <<t.list, t.decl>>

(* Whatever one fault interrupts a job by -- a failing statement, an       *)
(* exception, the end of the process -- the file of one or two instances   *)
(* never shows links that were computed from other rows.  It takes two     *)
(* DROPs that fail, which InitDatabase ignores, next to an instance that   *)
(* has dropped ObjectLinks and not created it yet, to break this: two      *)
(* failing statements, or a third instance in a transaction, by which both *)
(* are refused, and which then ends it.                                    *)
DiskWhole == Whole(disk)

(* A Rebuild or an Update that returns 0 has stored tables and links that  *)
(* belong together and left no transaction open, even when SQLite rolled   *)
(* the transaction back halfway and the statements after that were         *)
(* committed one by one: the commit at the end has then failed.            *)
OkMeansStored ==
  [][\A p \in Procs :
        job[p] # "Load" /\ Running(p) /\ result'[p] = "ok" =>
          /\ Tables \subseteq disk'.has
          /\ disk'.from = <<disk'.list, disk'.decl>>
          /\ \A c \in Conns : c = Conn(p) => ~tx'[c] /\ lock'[c] = "none"]_vars

(* What an instance gets to see when it asks belongs together, though it   *)
(* may ask inside a transaction of its own that was never ended and while  *)
(* another instance works on the file -- unless a call failed and its own  *)
(* last command with it: then it sees what that has left behind.           *)
QueriesWhole ==
  \A p \in Procs :
    /\ ~Running(p) /\ db[p] # 0
    /\ faults = 0 \/ result[p] # "failed"
    /\ Answered(Conn(p))
    => Whole(View(Conn(p)))

Store == INSTANCE JobStore WITH file <- disk, JobIds <- 1 .. MaxJobs

(* The file changes by whole jobs, as JobStore has it, whatever a job is   *)
(* interrupted by and whoever else writes: no instance overwrites what     *)
(* another has stored since it read it.  Only a rollback within a job, of  *)
(* which the rest is then stored one by one, breaks this.                  *)
AtomicJobs == Store!Spec

(* One instance on its own, once it has loaded a project: as long as no    *)
(* call has failed, every command succeeds, however often the project is   *)
(* loaded over a connection that is still open and wherever earlier        *)
(* processes have ended.                                                   *)
AlwaysSucceeds ==
  faults = 0 => \A p \in Procs : opened[p] > 0 => result[p] # "failed"

(* Model.h: the database is filled with parsed data from source.  After a  *)
(* Rebuild that returns 0 the tables hold what this Rebuild has read, if   *)
(* no call failed; a failing upsert is ignored.                            *)
RebuildFills ==
  [][\A p \in Procs :
        faults = 0 /\ job[p] = "Rebuild" /\ Running(p) /\ result'[p] = "ok" =>
          disk'.list = id[p] /\ disk'.decl = id[p]]_vars

(* Model.h, of InitDatabase: if there is a database it will be             *)
(* overwritten.  Loading the project sets its database up anew.            *)
LoadOverwrites ==
  \A p \in Procs : job[p] = "Load" => result[p] # "failed"
=============================================================================
