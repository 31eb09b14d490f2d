------------------------------ MODULE Upserts ------------------------------
(***************************************************************************)
(* One of the two tables a job fills, ObjectList or ObjectDecl, with the   *)
(* ids SQLite gives to rows: UpdateObjList and UpdateObjDecl look a row up *)
(* by its key, then update the row found or insert one                     *)
(* (src/src/Model.cpp).  Nothing in the database keeps keys apart.         *)
(*                                                                         *)
(* Every job reads the sequence files, only a Rebuild the descriptions of  *)
(* classes without a declaration.  Here the calls of an upsert may fail,   *)
(* as the code ignores it; Session has the failing statements that end a   *)
(* job.  The marks are committed before the transaction begins, so another *)
(* instance may run a job of its own between the two.                      *)
(***************************************************************************)
EXTENDS Integers, Sequences, SequencesExt, FiniteSetsExt

CONSTANTS Table,       \* which of the two tables this is
          SeqFiles,    \* files in the directory of sequences; BASIC_TYPES
                       \* counts as one that every job reads
          Classes,     \* classes that have, or may have, a description file
          Names, Values,
          Absent,      \* the text of a source that is not there
          Texts,       \* the texts each source may have
          MaxJobs, MaxEdits, MaxFaults   \* bounds

Sources == SeqFiles \cup Classes

(* A row is looked up by the source it was read from, its Scope or its     *)
(* ClassID, and the name of the object or the function.                    *)
Keys == Sources \X Names

Lines == [key : Keys, value : Values]

ASSUME SourcesAssumption ==
  /\ Table \in {"ObjectList", "ObjectDecl"}
  /\ SeqFiles \cap Classes = {}
  /\ "" \in Names /\ SeqFiles \subseteq Values
  /\ DOMAIN Texts = Sources
  /\ \A s \in Sources :
        \A text \in Texts[s] \ {Absent} :
           text \in Seq([key : {s} \X Names, value : Values])
ASSUME BoundsAssumption == {MaxJobs, MaxEdits, MaxFaults} \subseteq Nat

VARIABLES text,      \* what each source says about the table
          rows,      \* from ids to rows
          last,      \* the largest id there ever was (AUTOINCREMENT)
          pc, kind,
          other,     \* the job another instance did since the marks
          toScan,    \* sequence files readdir has not returned yet
          resolved,  \* what the query for undeclared classes has returned
          todo,      \* the upserts left of the source being read
          others,    \* keys another instance confirmed since the marks
          ok,        \* no call failed since the marks, no source changed
                     \* since this job began to read
          trusted,   \* no lookup failed since the table was created
          jobs, edits, faults

scan == <<toScan, resolved, todo>>
counts == <<jobs, edits, faults>>
vars == <<text, rows, last, pc, kind, other, scan, others, ok, trusted, counts>>

Row(key, value) == [key |-> key, value |-> value, state |-> 1]

Ids(r, key) == {i \in DOMAIN r : r[i].key = key}

(* Variant: only rows not yet confirmed are looked for.                    *)
RefreshIDUnconfirmed(r, key) ==
  LET found == {i \in Ids(r, key) : r[i].state = 0}
  IN  IF found = {} THEN 0 ELSE Min(found)

(* The table is read in the order of its ids, up to the first row found.   *)
RefreshID(r, key) == IF Ids(r, key) = {} THEN 0 ELSE Min(Ids(r, key))

(* Variant: the row found is confirmed but keeps its value.                *)
WriteStateOnly(r, id, new, row) ==
  IF id > 0
  THEN [r EXCEPT ![id].state = 1]
  ELSE [i \in DOMAIN r \cup {new} |-> IF i = new THEN row ELSE r[i]]

(* Variant: the row found is not confirmed again.                          *)
WriteUnconfirmed(r, id, new, row) ==
  IF id > 0
  THEN [r EXCEPT ![id].value = row.value]
  ELSE [i \in DOMAIN r \cup {new} |-> IF i = new THEN row ELSE r[i]]

Write(r, id, new, row) ==
  IF id > 0
  THEN [r EXCEPT ![id] = row]
  ELSE [i \in DOMAIN r \cup {new} |-> IF i = new THEN row ELSE r[i]]

(* Variant: the number of rows is taken for the largest id.                *)
UpdateObjReuse(t, line) ==
  LET id == RefreshID(t.rows, line.key)
      rows1 == Write(t.rows, id, t.last + 1, Row(line.key, line.value))
  IN  [rows |-> rows1, last |-> Cardinality(DOMAIN rows1)]

(* The table and its largest id after one more line.                       *)
UpdateObj(t, line) ==
  LET id == RefreshID(t.rows, line.key)
  IN  [rows |-> Write(t.rows, id, t.last + 1, Row(line.key, line.value)),
       last |-> IF id > 0 THEN t.last ELSE t.last + 1]

Unmarked(r) == [i \in DOMAIN r |-> [r[i] EXCEPT !.state = 0]]

Live(r) == [i \in {j \in DOMAIN r : r[j].state # 0} |-> r[i]]

Empty == [i \in {} |-> 0]

(* The lines that reading a source stores.  A sequence file mentions       *)
(* itself in ObjectList; a class does not.                                 *)
AnalyseFile(isClass, s) ==
  IF text[s] = Absent THEN <<>>
  ELSE IF isClass \/ Table = "ObjectDecl" THEN text[s]
  ELSE <<[key |-> <<s, "">>, value |-> s]>> \o text[s]

(* The query returns the classes named in ObjectList that have no row in   *)
(* ObjectDecl.  Which these are only one of the two tables can tell.       *)
Undeclared(c) ==
  Table = "ObjectDecl" => \A i \in DOMAIN rows : rows[i].key[1] # c

Reading == pc \in {"Scan", "Other"} /\ todo = <<>>
Job == IF pc = "Other" THEN other ELSE kind

-----------------------------------------------------------------------------
Init ==
  /\ text \in [Sources -> UNION {Texts[s] : s \in Sources}]
  /\ \A s \in Sources : text[s] \in Texts[s]
  /\ rows = Empty /\ last = 0
  /\ pc = "Idle" /\ kind = "Load" /\ other = "none"
  /\ toScan = {} /\ resolved = {} /\ todo = <<>>
  /\ others = {} /\ ok = TRUE /\ trusted = TRUE
  /\ jobs = 0 /\ edits = 0 /\ faults = 0

Fault == faults < MaxFaults /\ faults' = faults + 1

(* Somebody changes a source, while the job waits for the lock, too.       *)
Edit ==
  /\ pc \in {"Idle", "Marked"}
  /\ edits < MaxEdits
  /\ edits' = edits + 1
  /\ \E s \in Sources : \E t \in Texts[s] \ {text[s]} :
        text' = [text EXCEPT ![s] = t]
  /\ ok' = (pc = "Marked" /\ ok)
  /\ UNCHANGED <<rows, last, pc, kind, other, scan, others, trusted, jobs, faults>>

Load ==
  /\ pc = "Idle"
  /\ rows' = Empty /\ last' = 0
  /\ kind' = "Load"
  /\ other' = "none" /\ others' = {}
  /\ ok' = TRUE /\ trusted' = TRUE
  /\ UNCHANGED <<text, pc, scan, counts>>

PrepareForUpdate(k) ==
  /\ pc = "Idle"
  /\ jobs < MaxJobs
  /\ jobs' = jobs + 1
  /\ kind' = k
  /\ rows' = Unmarked(rows)
  /\ pc' = "Marked"
  /\ other' = "none" /\ others' = {} /\ ok' = TRUE
  /\ UNCHANGED <<text, last, scan, trusted, edits, faults>>

(* Another instance begins a job before this one takes its lock, which it  *)
(* then has to wait for.                                                   *)
OtherJob(k) ==
  /\ pc = "Marked" /\ other = "none"
  /\ other' = k
  /\ rows' = Unmarked(rows)
  /\ pc' = "Other"
  /\ toScan' = SeqFiles /\ resolved' = {}
  /\ UNCHANGED <<text, last, kind, todo, others, ok, trusted, counts>>

RebuildObjList ==
  /\ pc = "Marked"
  /\ pc' = "Scan"
  /\ toScan' = SeqFiles /\ resolved' = {}
  /\ UNCHANGED <<text, rows, last, kind, other, todo, others, ok, trusted, counts>>

(* The directory is read in an order of its own.                           *)
ScanFile(f) ==
  /\ Reading
  /\ f \in toScan
  /\ todo' = AnalyseFile(FALSE, f)
  /\ toScan' = toScan \ {f}
  /\ UNCHANGED <<text, rows, last, pc, kind, other, resolved, others, ok, trusted, counts>>

(* A sequence file that declares no function is taken for a class, too.    *)
RebuildClassDefinition(c) ==
  /\ Reading /\ toScan = {}
  /\ Job = "Rebuild"
  /\ c \in Sources \ resolved
  /\ Undeclared(c)
  /\ todo' = AnalyseFile(TRUE, c)
  /\ resolved' = resolved \cup {c}
  /\ UNCHANGED <<text, rows, last, pc, kind, other, toScan, others, ok, trusted, counts>>

(* The upsert of the next line is over, whatever has become of it.         *)
NextLine ==
  /\ todo # <<>>
  /\ todo' = Tail(todo)
  /\ others' = IF pc = "Other" THEN others \cup {Head(todo).key} ELSE others
  /\ UNCHANGED <<text, pc, kind, other, toScan, resolved, jobs, edits>>

Upsert ==
  /\ NextLine
  /\ LET t == UpdateObj([rows |-> rows, last |-> last], Head(todo))
     IN  rows' = t.rows /\ last' = t.last
  /\ UNCHANGED <<ok, trusted, faults>>

(* The SELECT cannot be prepared, or the row cannot be written.            *)
UpsertFails ==
  /\ NextLine
  /\ Fault
  /\ ok' = FALSE
  /\ UNCHANGED <<rows, last, trusted>>

(* The SELECT breaks off with an error, as when another instance is about  *)
(* to commit: this reads as "no such row".                                 *)
LookupFails ==
  /\ NextLine
  /\ Fault
  /\ rows' = Write(rows, 0, last + 1, Row(Head(todo).key, Head(todo).value))
  /\ last' = last + 1
  /\ ok' = FALSE /\ trusted' = FALSE

(* Variant: an Update deletes what it has not confirmed, a Rebuild not.    *)
FinishSwapped ==
  /\ Reading /\ toScan = {}
  /\ rows' = IF Job = "Update" THEN Live(rows) ELSE rows
  /\ pc' = IF pc = "Other" THEN "Marked" ELSE "Idle"
  /\ UNCHANGED <<text, last, kind, other, scan, others, ok, trusted, counts>>

(* Only a Rebuild deletes the rows it has not confirmed.                   *)
Finish ==
  /\ Reading /\ toScan = {}
  /\ rows' = IF Job = "Rebuild" THEN Live(rows) ELSE rows
  /\ pc' = IF pc = "Other" THEN "Marked" ELSE "Idle"
  /\ UNCHANGED <<text, last, kind, other, scan, others, ok, trusted, counts>>

Next ==
  \/ Edit \/ Load
  \/ \E k \in {"Rebuild", "Update"} : PrepareForUpdate(k) \/ OtherJob(k)
  \/ RebuildObjList
  \/ \E s \in Sources : ScanFile(s) \/ RebuildClassDefinition(s)
  \/ Upsert \/ UpsertFails \/ LookupFails \/ Finish

Spec == Init /\ [][Next]_vars
-----------------------------------------------------------------------------
(* What a source says about the rows with a key.                           *)
LinesAbout(key) == AnalyseFile(key[1] \notin SeqFiles, key[1])

(* The ids in the table have been given out, so that a new one hits no     *)
(* row; the upserts still to do are the rest of what their source says,    *)
(* and no job ends before it has read all sequence files.                  *)
TypeOK ==
  /\ \A s \in Sources : text[s] \in Texts[s]
  /\ DOMAIN rows \subseteq 1 .. last
  /\ \A i \in DOMAIN rows : rows[i] \in [key : Keys, value : Values, state : {0, 1}]
  /\ last \in Nat
  /\ pc \in {"Idle", "Marked", "Scan", "Other"}
  /\ kind \in {"Load", "Rebuild", "Update"}
  /\ other \in {"none", "Rebuild", "Update"}
  /\ toScan \subseteq SeqFiles /\ resolved \subseteq Sources
  /\ pc \in {"Idle", "Marked"} => toScan = {} /\ todo = <<>>
  /\ \A i \in DOMAIN todo : IsSuffix(todo, LinesAbout(todo[i].key))
  /\ others \subseteq Keys
  /\ ok \in BOOLEAN /\ trusted \in BOOLEAN
  /\ jobs \in 0 .. MaxJobs /\ edits \in 0 .. MaxEdits /\ faults \in 0 .. MaxFaults

Mentioned(key) == {i \in DOMAIN LinesAbout(key) : LinesAbout(key)[i].key = key}

(* The keys in what the job has read: the sequence files, and the classes  *)
(* it found undeclared.                                                    *)
Said ==
  {key \in Keys : key[1] \in (SeqFiles \ toScan) \cup resolved /\ Mentioned(key) # {}}

LastValue(key) == LinesAbout(key)[Max(Mentioned(key))].value

Done(k) == pc = "Idle" /\ kind = k /\ ok

(* As long as no lookup has failed there are no two rows that an upsert    *)
(* would have to choose between, though the schema does not forbid it,     *)
(* whatever else failed and whoever else wrote.  For functions that differ *)
(* in their parameters only, this is less than Readme.md shows (lines 108  *)
(* and 109) and what Todo.txt (1 - 3) lists as still to be done: they      *)
(* share one row, of the last one.                                         *)
OneRowPerKey ==
  trusted => \A key \in Keys : Cardinality(Ids(rows, key)) <= 1

(* A Rebuild without a failing call makes good for all earlier ones: for   *)
(* each key in the sequence files, and in the descriptions of the classes  *)
(* that it found undeclared, there is one row, with what they say last     *)
(* about it.  A second row from a failed lookup is not found, hence not    *)
(* confirmed, hence deleted, and so are the rows of classes that it does   *)
(* not read (ClassesComplete in Rebuild).  Rows beyond these are left over *)
(* only if another instance confirmed them after this one had set its      *)
(* marks.                                                                  *)
RebuildHeals ==
  Done("Rebuild") =>
    /\ \A key \in Said :
          \E i \in DOMAIN rows :
             Ids(rows, key) = {i} /\ rows[i].value = LastValue(key)
    /\ \A i \in DOMAIN rows : rows[i].key \in Said \cup others

(* After an Update, which reads the sequence files only and deletes        *)
(* nothing, it is still the row that lookups find which has the value of   *)
(* the sequence file; every row that differs from it is marked as not      *)
(* confirmed, so that the next Rebuild takes it away.  No row of a class   *)
(* is confirmed but by another instance.                                   *)
UpdateConfirms ==
  Done("Update") =>
    /\ \A key \in Said :
          /\ rows[RefreshID(rows, key)].value = LastValue(key)
          /\ \A i \in Ids(rows, key) :
                rows[i].state = 1 => rows[i].value = LastValue(key)
    /\ \A i \in DOMAIN rows :
          rows[i].state = 1 => rows[i].key[1] \in SeqFiles \/ rows[i].key \in others

-----------------------------------------------------------------------------
(* The rows by their keys.                                                 *)
ByKey ==
  [key \in {rows[i].key : i \in DOMAIN rows} |->
     LET row == rows[RefreshID(rows, key)]
     IN  [value |-> row.value, state |-> row.state]]

Keyed == INSTANCE KeyedTable WITH table <- ByKey

(* Rows with ids implement the keyed table of Rebuild, as long as no       *)
(* lookup fails.                                                           *)
ImplementsKeyedTable ==
  [][trusted' => Keyed!Next]_ByKey
=============================================================================
