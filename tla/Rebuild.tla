------------------------------ MODULE Rebuild ------------------------------
(***************************************************************************)
(* How the tables are filled from the sources of a project:                *)
(* Model::Rebuild, Model::Update and what they call (src/src/Model.cpp),   *)
(* with SeqParser::AnalyseFile (src/src/SeqParser.cpp) for each file.      *)
(*                                                                         *)
(* A source is a sequence file, found in the directory of sequences, or    *)
(* the description file of a class, found through the class's name only.   *)
(* Its text is the sequence of lines that ParseLine acts on:               *)
(*   an object, [kind |-> "object", name, class], for a "using", an        *)
(*     "#include" (the class is the included file) or a variable (the      *)
(*     class is its basic type);                                           *)
(*   a function, [kind |-> "function", name, params].                      *)
(*                                                                         *)
(* The rows of ObjectList are found by scope and object, those of          *)
(* ObjectDecl by class and function (RefreshObjListID, RefreshObjDeclID),  *)
(* so these pairs are the keys here.  Every statement succeeds in this     *)
(* module; Session models the ones that do not.  Rebuild and Update run on *)
(* the user-interface thread: the sources change between, not during them. *)
(***************************************************************************)
EXTENDS IntelisenseTables, Sequences

CONSTANTS SeqFiles,    \* files in the directory of sequences
          Classes,     \* classes that have, or may have, a description file
          BasicTypes,
          Strings,     \* names and lists of parameters
          Absent,      \* the text of a source that is not there
          Texts,       \* the texts each source may have
          MaxEdits, MaxJobs   \* bounds

Sources == SeqFiles \cup Classes

Lines ==
  [kind : {"object"}, name : Strings, class : Sources \cup BasicTypes]
    \cup [kind : {"function"}, name : Strings, params : Strings]

ASSUME SourcesAssumption ==
  /\ "" \in Strings
  /\ SeqFiles \cap Classes = {}
  /\ BasicTypes \cap Sources = {}
  /\ DOMAIN Texts = Sources
  /\ \A s \in Sources : Texts[s] # {} /\ Texts[s] \ {Absent} \subseteq Seq(Lines)

ASSUME BoundsAssumption == {MaxEdits, MaxJobs} \subseteq Nat

VARIABLES files,     \* the text of each source
          db,        \* the tables [list, decl]
          links,     \* ObjectLinks
          pc,
          job,       \* the job that runs or, when idle, ran last
          toScan,    \* sequence files readdir has not returned yet
          cursor,    \* classes the open SELECT has still to return
          before,    \* ObjectDecl when the job began
          fresh,     \* no source changed since the last job
          edits, jobs

vars == <<files, db, links, pc, job, toScan, cursor, before, fresh, edits, jobs>>

UpdateObjList(t, scope, object, class) ==
  [t EXCEPT !.list = Upsert(@, <<scope, object>>, [class |-> class, state |-> 1])]

UpdateObjDecl(t, class, function, params, type) ==
  [t EXCEPT !.decl = Upsert(@, <<class, function>>,
                            [params |-> params, type |-> type, state |-> 1])]

ParseLine(t, name, type, line) ==
  IF line.kind = "function"
  THEN UpdateObjDecl(t, name, line.name, line.params, type)
  ELSE UpdateObjList(t, name, line.name, line.class)

ParseLines(t, name, type, lines) ==
  LET after[n \in 0 .. Len(lines)] ==
        IF n = 0 THEN t ELSE ParseLine(after[n - 1], name, type, lines[n])
  IN  after[Len(lines)]

(* Variant: the types of sequence and class functions are swapped.         *)
AnalyseFileTypeSwapped(t, isClass, name) ==
  IF files[name] = Absent
  THEN t
  ELSE ParseLines(IF isClass THEN t ELSE UpdateObjList(t, name, "", name),
                  name, IF isClass THEN "seq" ELSE "class", files[name])

(* A sequence file mentions itself; a class does not.                      *)
AnalyseFile(t, isClass, name) ==
  IF files[name] = Absent
  THEN t
  ELSE ParseLines(IF isClass THEN t ELSE UpdateObjList(t, name, "", name),
                  name, IF isClass THEN "class" ELSE "seq", files[name])

AddBasicTypes(t) ==
  [t EXCEPT !.decl =
     [k \in DOMAIN @ \cup (BasicTypes \X {""}) |->
        IF k[1] \in BasicTypes
        THEN [params |-> "", type |-> "type", state |-> 1] ELSE @[k]]]

(* The classes in ObjectList without a row in ObjectDecl, of any state.    *)
Undeclared(t) ==
  {t.list[k].class : k \in DOMAIN t.list} \ {k[1] : k \in DOMAIN t.decl}

(* ObjectList and ObjectDecl as the link queries see them.                 *)
ListView(t) == [k \in DOMAIN t.list |->
                  [scope |-> k[1], class |-> t.list[k].class]]
DeclView(t) == [k \in DOMAIN t.decl |-> [class |-> k[1]]]

-----------------------------------------------------------------------------
EmptyTables == [list |-> NoRows, decl |-> NoRows]

Init ==
  /\ files \in [Sources -> UNION {Texts[s] : s \in Sources}]
  /\ \A s \in Sources : files[s] \in Texts[s]
  /\ db = EmptyTables
  /\ links = {}
  /\ pc = "Idle"
  /\ job = "Load"
  /\ toScan = {}
  /\ cursor = {}
  /\ before = NoRows
  /\ fresh = TRUE
  /\ edits = 0
  /\ jobs = 0

(* Somebody saves, creates or deletes a source.                            *)
Edit ==
  /\ pc = "Idle"
  /\ edits < MaxEdits
  /\ edits' = edits + 1
  /\ \E s \in Sources : \E text \in Texts[s] \ {files[s]} :
        files' = [files EXCEPT ![s] = text]
  /\ fresh' = FALSE
  /\ UNCHANGED <<db, links, pc, job, toScan, cursor, before, jobs>>

(* LoadIntelisense: InitDatabase drops the tables and creates them anew.   *)
Load ==
  /\ pc = "Idle"
  /\ job # "Load"
  /\ db' = EmptyTables
  /\ links' = {}
  /\ job' = "Load"
  /\ before' = NoRows
  /\ fresh' = TRUE
  /\ UNCHANGED <<files, pc, toScan, cursor, edits, jobs>>

(* PrepareForUpdate, and the basic types RebuildObjList starts with.       *)
Prepare(kind) ==
  /\ pc = "Idle"
  /\ jobs < MaxJobs
  /\ jobs' = jobs + 1
  /\ job' = kind
  /\ db' = AddBasicTypes([list |-> Unmarked(db.list), decl |-> Unmarked(db.decl)])
  /\ before' = db.decl
  /\ toScan' = {f \in SeqFiles : files[f] # Absent}
  /\ fresh' = TRUE
  /\ pc' = "Scan"
  /\ UNCHANGED <<files, links, cursor, edits>>

(* The directory is read in an order of its own.                           *)
ScanFile ==
  /\ pc = "Scan"
  /\ \E f \in toScan :
        /\ db' = AnalyseFile(db, FALSE, f)
        /\ toScan' = toScan \ {f}
  /\ UNCHANGED <<files, links, pc, job, cursor, before, fresh, edits, jobs>>

(* Variant: an Update deletes the unconfirmed rows, too.                   *)
ScanDoneDeleting ==
  /\ pc = "Scan"
  /\ toScan = {}
  /\ pc' = "Resolve"
  /\ cursor' = IF job = "Rebuild" THEN Undeclared(db) ELSE {}
  /\ UNCHANGED <<files, db, links, job, toScan, before, fresh, edits, jobs>>

ScanDone ==
  /\ pc = "Scan"
  /\ toScan = {}
  /\ IF job = "Rebuild"
     THEN pc' = "Resolve" /\ cursor' = Undeclared(db)
     ELSE pc' = "Cleanup" /\ UNCHANGED cursor
  /\ UNCHANGED <<files, db, links, job, toScan, before, fresh, edits, jobs>>

(* Variant: fetching the next row ends the loop before the last class is   *)
(* analysed.                                                               *)
ResolveClassShort ==
  /\ pc = "Resolve"
  /\ \E c \in cursor :
        LET rest == cursor \ {c}
        IN  /\ db' = IF c \in Sources /\ rest # {}
                     THEN AnalyseFile(db, TRUE, c) ELSE db
            /\ cursor' = rest
  /\ UNCHANGED <<files, links, pc, job, toScan, before, fresh, edits, jobs>>

(* Variant: the SELECT is run again as long as it returns a class.         *)
ResolveClassAgain ==
  /\ pc = "Resolve"
  /\ \E c \in cursor :
        LET t == IF c \in Sources THEN AnalyseFile(db, TRUE, c) ELSE db
        IN  /\ db' = t
            /\ cursor' = Undeclared(t)
  /\ UNCHANGED <<files, links, pc, job, toScan, before, fresh, edits, jobs>>

(* The next row is fetched before the class of this one is analysed.  Rows *)
(* that AnalyseFile inserts while the SELECT is open may be returned by it *)
(* later on or not, but not once it has no further row.  A name without an *)
(* extension, or without a file, is left as it is.                         *)
ResolveClass ==
  /\ pc = "Resolve"
  /\ \E c \in cursor :
        LET rest == cursor \ {c}
            t == IF c \in Sources THEN AnalyseFile(db, TRUE, c) ELSE db
            new == Undeclared(t) \ (Undeclared(db) \cup {c})
        IN  /\ db' = t
            /\ \E more \in SUBSET (IF rest = {} THEN {} ELSE new) :
                  cursor' = rest \cup more
  /\ UNCHANGED <<files, links, pc, job, toScan, before, fresh, edits, jobs>>

(* Variant: unconfirmed declarations stay.                                 *)
DeleteDeadObjects ==
  /\ pc = "Resolve"
  /\ cursor = {}
  /\ db' = [db EXCEPT !.list = Live(@)]
  /\ pc' = "Cleanup"
  /\ UNCHANGED <<files, links, job, toScan, cursor, before, fresh, edits, jobs>>

(* The rows no file confirmed are deleted, classes and objects alike.      *)
DeleteDead ==
  /\ pc = "Resolve"
  /\ cursor = {}
  /\ db' = [list |-> Live(db.list), decl |-> Live(db.decl)]
  /\ pc' = "Cleanup"
  /\ UNCHANGED <<files, links, job, toScan, cursor, before, fresh, edits, jobs>>

(* Variant: only the plain links are created.                              *)
CleanupDeadLinksPlain ==
  /\ pc = "Cleanup"
  /\ links' = PlainLinks(ListView(db), DeclView(db))
  /\ pc' = "Idle"
  /\ UNCHANGED <<files, db, job, toScan, cursor, before, fresh, edits, jobs>>

(* CleanupDeadLinks, which LinkClosure shows to do just this.              *)
CleanupDeadLinks ==
  /\ pc = "Cleanup"
  /\ links' = AllLinks(ListView(db), DeclView(db))
  /\ pc' = "Idle"
  /\ UNCHANGED <<files, db, job, toScan, cursor, before, fresh, edits, jobs>>

Step == ScanFile \/ ScanDone \/ ResolveClass \/ DeleteDead \/ CleanupDeadLinks

Next ==
  \/ Edit \/ Load
  \/ \E kind \in {"Rebuild", "Update"} : Prepare(kind)
  \/ Step

(* A job runs through on its thread once it has been started.              *)
Spec == Init /\ [][Next]_vars /\ WF_vars(Step)
-----------------------------------------------------------------------------
(* Every row is about a known source, and the type of a declaration is     *)
(* that of the source it was read from, which tells the queries whether to *)
(* offer the object's name or the function's.                              *)
TypeOK ==
  /\ \A s \in Sources : files[s] \in Texts[s]
  /\ \A k \in DOMAIN db.list :
        /\ k[1] \in Sources
        /\ db.list[k].class \in Sources \cup BasicTypes
        /\ db.list[k].state \in {0, 1}
  /\ \A k \in DOMAIN db.decl :
        /\ k[1] \in Sources \cup BasicTypes
        /\ db.decl[k].type =
             CASE k[1] \in SeqFiles -> "seq"
               [] k[1] \in Classes -> "class"
               [] OTHER -> "type"
        /\ db.decl[k].state \in {0, 1}
  /\ pc \in {"Idle", "Scan", "Resolve", "Cleanup"}
  /\ job \in {"Load", "Rebuild", "Update"}
  /\ toScan \subseteq SeqFiles
  /\ cursor \subseteq Sources \cup BasicTypes
  /\ fresh \in BOOLEAN
  /\ edits \in 0 .. MaxEdits /\ jobs \in 0 .. MaxJobs

(* What the tables are to hold of a text, read off its lines: the last line*)
(* about a name.  This is the code's rule, not that of Readme.md, where    *)
(* (lines 108 and 109) two declarations of one function with different     *)
(* parameters have a row each; Todo.txt (1 - 3) has this as an open point. *)
Names(text, kind) ==
  IF text = Absent THEN {}
  ELSE {text[i].name : i \in {j \in DOMAIN text : text[j].kind = kind}}

LastLine(text, kind, name) ==
  text[CHOOSE i \in DOMAIN text :
         /\ text[i].kind = kind /\ text[i].name = name
         /\ \A j \in DOMAIN text :
               text[j].kind = kind /\ text[j].name = name => j <= i]

Declares(c) ==
  {<<n, LastLine(files[c], "function", n).params>> : n \in Names(files[c], "function")}

Mentions(f) ==
  {<<n, LastLine(files[f], "object", n).class>> : n \in Names(files[f], "object")}

(* The line #include "" has no name: it takes the place of the file itself.*)
Itself(f) == IF "" \in Names(files[f], "object") THEN {} ELSE {<<"", f>>}

DeclaredFor(t, c) ==
  {<<k[2], t.decl[k].params>> : k \in {j \in DOMAIN t.decl : j[1] = c}}

ListedFor(t, f) ==
  {<<k[2], t.list[k].class>> : k \in {j \in DOMAIN t.list : j[1] = f}}

MentionedClasses ==
  {c \in Classes : \E f \in SeqFiles : \E m \in Mentions(f) : m[2] = c}

Ran(kind) == pc = "Idle" /\ job = kind /\ fresh

(* After a Rebuild the tables hold of every sequence file, for each name,  *)
(* what the last line about it says now, and nothing else, whatever was    *)
(* deleted, renamed or changed since earlier jobs and in whatever order    *)
(* the directory was read.  That of overloaded functions only the last one *)
(* is there falls short of Readme.md.                                      *)
SequencesMirrored ==
  Ran("Rebuild") =>
    \A f \in SeqFiles :
      /\ DeclaredFor(db, f) = Declares(f)
      /\ ListedFor(db, f) =
           IF files[f] = Absent THEN {} ELSE Itself(f) \cup Mentions(f)

(* A Rebuild declares every class that a sequence file mentions and that   *)
(* had no declaration before, though rows are inserted under the cursor    *)
(* that finds these classes.                                               *)
UndeclaredResolved ==
  Ran("Rebuild") =>
    \A c \in MentionedClasses :
      (\A k \in DOMAIN before : k[1] # c) => DeclaredFor(db, c) = Declares(c)

(* Update does not read the classes, so it must not lose their functions.  *)
UpdateKeepsClasses ==
  Ran("Update") =>
    \A k \in DOMAIN before :
      k[1] \in Classes => /\ k \in DOMAIN db.decl
                          /\ db.decl[k].params = before[k].params

(* The first Rebuild after a load: auto-completion offers in a sequence    *)
(* file exactly the functions of the objects that the sources make visible *)
(* there, namely those mentioned in the file, in the files it includes and *)
(* in the descriptions of the classes of visible objects, as far as these  *)
(* descriptions have been read.  The classes that sequence files mention   *)
(* are read; of those mentioned by class descriptions only, it depends on  *)
(* the open cursor which ones are.                                         *)
SaidBy(s) ==
  IF files[s] = Absent THEN {}
  ELSE Mentions(s) \cup (IF s \in SeqFiles THEN Itself(s) ELSE {})

VisibleSources(f, read) ==
  LET closed == {F \in SUBSET read :
                    /\ f \in F
                    /\ \A s \in F : \A m \in SaidBy(s) : m[2] \in read => m[2] \in F}
  IN  {s \in read : \A F \in closed : s \in F}

FunctionsOf(class, read) ==
  IF class \in BasicTypes THEN {<<"", "">>}
  ELSE IF class \in read THEN Declares(class) ELSE {}

SourceOffers(f, read) ==
  {<<p[1][1], p[2][1]>> :
     p \in UNION {{m} \X FunctionsOf(m[2], read) :
                  m \in UNION {SaidBy(s) : s \in VisibleSources(f, read)}}}

OffersMatchSources ==
  Ran("Rebuild") /\ before = NoRows =>
    \E R \in SUBSET Classes :
      /\ MentionedClasses \subseteq R
      /\ \A f \in SeqFiles :
            {<<o[1][2], o[2][2]>> : o \in Offered(ListView(db), links, f)}
            = SourceOffers(f, SeqFiles \cup R)

(* The user interface waits for the job, so it has to end: classes without *)
(* a file, which stay undeclared, and rows inserted under the cursor that  *)
(* returns undeclared classes must not keep it going.                      *)
JobsEnd == pc # "Idle" ~> pc = "Idle"

(* Model.h: the database is filled with parsed data from source.  After a  *)
(* Rebuild each class a sequence file mentions has its functions.          *)
ClassesComplete ==
  Ran("Rebuild") =>
    \A c \in MentionedClasses : DeclaredFor(db, c) = Declares(c)
=============================================================================
