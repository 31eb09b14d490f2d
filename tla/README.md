# NppPIALexer in TLA+

NppPIALexer is a Notepad++ plugin. It reads the sequence files of a project
and the description files of the classes they use, keeps what it finds in an
SQLite database in the project directory, and offers it while one types. These
modules model the code under `src/src`, the TLC configurations check them on
small instances, and the modules named `...Proofs` prove what matters most for
every instance.

## The system

| part | state | operations | code |
|---|---|---|---|
| link tables | `ObjectLinks`, `ObjectLinksTemp` | `CleanupDeadLinks`; read by `GetObject`, `GetParams`, `GetReturns` | `Model.cpp` 74-197, 247-323 |
| table content | `ObjectList`, `ObjectDecl`, their `State` column | `Rebuild`, `Update`, `PrepareForUpdate`, `RebuildObjList`, `RebuildClassDefinition`, `UpdateObjList`, `UpdateObjDecl` | `Model.cpp` 221-245, 327-406, 498-614 |
| database session | `Model::db`, its transaction and locks, the file | `LoadIntelisense`, `InitDatabase`, the two jobs, the destructor | `Model.cpp` 11-24, 199-233, 407-496, 615-626 |
| sequence parser | the file and line being read | `AnalyseFile`, `ParseLine`, `RemoveComment`, `RemoveSpaces` | `SeqParser.cpp`, `SeqParser.h` |
| auto-completion | `m_State`, `m_File`, `m_Object`, `m_Function`, `m_Search`, `m_Found` | `OnSciCharAdded`, `ResetAutoComplete` | `NppPIALexer.cpp` 341-543 |
| macros, options, menu | `isNppMacroStarted`, `nPrevAutoComplete`, `g_opt`, the ini file, the menu's check mark | `OnNppMacro`, `UpdateFileType`, `ReadOptions`, `SaveOptions`, `ReloadData`, `UpdateMenuState` | `NppPIALexer.cpp`, `NppPIALexerOptions.cpp`, `NppPIALexerMenu.cpp` |
| dialogs, wrappers | window handles | one call of the plugin, or one message, each | `SettingsDlg.cpp`, `GoToLineDlg.cpp`, `core/Npp*.cpp`, `core/SciMessager.cpp` |
| SQLite, dirent | vendored | | `core/sqlite3.c`, `core/dirent.h` |

How they interact. Everything runs on the user-interface thread of Notepad++.
The control panel calls `ReloadData`, `RebuildData` and `UpdateData`, which
call `LoadIntelisense`, `Rebuild` and `Update`. `RebuildObjList` and
`RebuildClassDefinition` give each file to the parser, which calls
`UpdateObjList` and `UpdateObjDecl` back for each line it understands. A
character typed becomes a query on the links. Several instances of Notepad++
may have the same project, hence the same database file, open.

What is hard about it:

* `CleanupDeadLinks` computes a transitive closure by repeating a SQL
  statement, over include graphs with cycles, and any statement of it may fail.
* Rows are confirmed by a `State` column over a job of many statements;
  declarations are read under an open cursor over the tables they go to.
* A connection can be leaked with a transaction open (a second load, an
  exception), errors of upserts are ignored, SQLite may roll a transaction back
  on its own, the process may end anywhere, another instance may be in between.
* Typing, macros, saves and loads change the plugin's state in any order.

What makes the parts correct: the links are exactly the transitive ones and
change with the tables they belong to; the tables say what the sources say;
a job that reports success has stored what it read; the database is usable
again after whatever interrupted a job; what is offered belongs to the file
and object being edited; a setting survives macros and restarts.

## Modules

`IntelisenseTables` has the tables as functions from primary keys to rows, the
queries of `CleanupDeadLinks` as operators (`PlainLinks`, `Inclusions`,
`SubInclusions`, `SubLinks`), the queries of auto-completion (`Offered`), and a
reference definition of what they should amount to that has no loop in it:
`VisibleFiles` is the smallest set of files closed under "mentions", `Reachable`
and `AllLinks` follow from it. The link tables are sets, since every query that
reads them selects distinct rows.

`LinkTable` is the abstract specification: objects, declarations and links of
the database change together, in one step, and the links are `AllLinks`.

`LinkClosure` is `CleanupDeadLinks`, one action per statement: `ClearTemp`,
`ClearLinks`, `InsertPlain`, `InsertInclusions`, the loop
(`InsertSubInclusions`, `Probe`), `InsertSubLinks`, `Commit`. `Scan` stands for
what comes before it in the job and leaves any tables of a constant set.
`committed` is what the file holds, the other variables what the connection
sees. `StatementFails`, `StatementRollsBack` and `ProbeStepFails` are the three
ways an SQLite call can go wrong there. A step error of the probe that also
rolls the transaction back is left out.

`LinkClosureProofs` has the theorems (below). `SharedLemmas` holds what several
proof modules rest on: induction over the natural numbers, and the queries of
`IntelisenseTables` element by element.

`KeyedTable` is what a table promises to its users: a row per key, which a
confirmation inserts or updates, and which goes with the key's last
confirmation. `Upserts` is what the code does instead: `UpdateObjList` and
`UpdateObjDecl` look a row up (`RefreshObjListID`, `RefreshObjDeclID`) and then
insert or update by id, with nothing in the table that forbids a second row for
a key. Lookups and writes may fail, an error of the lookup passes for an absent
row, and another instance may run a whole job between the marks and the
transaction. What a job reads is that of the code: the sequence files, in any
order (`ScanFile`), and, in a `Rebuild` only, one by one, the classes without a
declaration (`RebuildClassDefinition`). `AnalyseFile` hands over the lines of a
source, to which a sequence file adds, in `ObjectList`, the one by which it
mentions itself; each line is an upsert of its own. The job of the other instance
goes through the same actions. `Table` says which of the two tables it is about:
only in `ObjectDecl` can be seen which classes are declared. `BASIC_TYPES` is one
more sequence file there, which every job reads. A file that cannot be opened
has no lines. `ImplementsKeyedTable` says that the table is a `KeyedTable` as
long as no lookup has failed, which is what `Rebuild` takes for granted.
`UpsertsProofs` has the theorems.

`Rebuild` fills the tables from sources: `Prepare` is `PrepareForUpdate` with
the basic types, `ScanFile` one file of the directory, in any order,
`ResolveClass` one row of the cursor of `RebuildClassDefinition`, `DeleteDead`
its two deletes, `CleanupDeadLinks` what `LinkClosure` shows it to be, in one
step. The keys of the two tables are the pairs by which `RefreshObjListID` and
`RefreshObjDeclID` look rows up, so `UpdateObjList` and `UpdateObjDecl` are
replacements of a row. A text is the sequence of lines that have an effect in
`ParseLine`; `Lines` says what such a line is and `ParseLines` stores them one
by one. Sources change (`Edit`) only between jobs. `SequencesMirrored` says what
the tables hold after a Rebuild, of each name the last line about it;
`OffersMatchSources` compares everything that `GetObject` offers in a file with
what the sources make visible there, without the tables: what the file mentions
(`SaidBy`), and what the files it includes and the descriptions of the classes it
can see mention in turn (`VisibleSources`). Of the classes that only other class
descriptions mention it depends on the open cursor which ones have been read,
so the property says that some set `R` of classes explains all offers, and that
`R` has every class mentioned in a sequence file. `RebuildProofs` has the
theorems.

`SeqLine` is what happens to one line of a sequence file: `RemoveComment` and
`RemoveSpaces` as the automata they are, over classes of characters, one
character per action, and `ParseLine`, which searches and cuts the line
and stores what it takes for a declaration. The properties compare the scanners
with what comments are and what `SeqParser.h` 61 says of blanks (`Needed`: not
double, neither before nor after a special character), and what is stored with
what the line was written to say. `SeqLineProofs` has the theorems, which are about
lines of any length over any characters (`Characters`).

`Session` runs the statements of `LoadIntelisense`, `Rebuild` and `Update`, as
data (`InitDatabase`, `PrepareForUpdate`, ...: which statement, on which table,
and whether the function returns when it fails, goes on, or either, as with the
query for undeclared classes: it returns 1 if the SELECT cannot be prepared, but
if it cannot be stepped, or not further, its rows just end), over connections
with the locks of SQLite's rollback journal. Content is reduced to which job wrote the
rows of a table and which rows the links were computed from. An instance
(`Procs`) keeps every connection it ever opened: `Open` overwrites `db` and
leaves the old one as it is. `StatementRefused` is a lock or a missing table;
`StatementFails`, `StatementRollsBack`, `OpenFails`, `ScanThrows` and `Exit`
are the faults. The upserts of all sequence files are one statement per table
(`scan`), those of all class descriptions another (`classes`), which is skipped
when no class is found or read (`NoClasses`), and the links are complete with one
statement, `sub`; what happens between them is what the other modules are about.
The index of `ObjectLinksTemp` is created after the four tables and dropped with
its own. A read that breaks off may still be followed there by the upserts of
classes: those of the rows it had returned. `Query` is what typing and `Export` ask
between two commands. A command may come before the first load, when `db` is
not initialised: SQLite then refuses the statement as a misuse, or the process
ends. `JobStore` is the abstract specification of the file: it is set up, table
by table, or a whole job stores its rows and its links in one step;
`AtomicJobs` says that `Session` implements it. `SessionProofs` has the
theorems.

What SQLite does to locks and transactions is translated from the copy of it in
`core/sqlite3.c`: `winLock` for who gets which lock (`Readable`, `Writable`,
`Exclusive`), `sqlite3BtreeBeginTrans` for when a statement is refused
(`Succeeds`), `OP_AutoCommit` for begin and commit (`Perform`) and
`sqlite3VdbeHalt` for an error that takes the transaction with it
(`StatementRollsBack`). Two things of it are coarser here: a reader that is
refused because another one holds the PENDING byte for a moment is a fault
("exec"), and a commit of a transaction that has changed no page is taken to
need the EXCLUSIVE lock, too.

`Plugin` is the setting "Enable Plugin": the flag `m_bBracketsAutoComplete`, which
`OnNppMacro` saves and clears when a macro starts and restores when it ends, the
check mark and the greying of the menu, `m_bSupportedFileType` for the file in
front, and the ini file with what `CNppPIALexerOptions` knows of it. A key of
the ini file may fail to be written, a process may end with or without
`NPPN_SHUTDOWN`. The constant `Nested` says whether a saved macro may be run
while another is recorded, which `nppNewWndProc` does not prevent.

`Listens` is what `OnSciCharAdded` asks before it does anything.

`AutoComplete` is `OnSciCharAdded`: text is typed word by word, of the text left
of the caret it keeps what the handler looks at, and `m_Found` holds the question
it answers. `rows` is what the open database knows, which `ReloadData` empties,
`RebuildData` fills and `ReloadFails` may exchange for that of another project.
`CaretMoved`, `OnNppFileSaved` and the commands are the events after which the
tracked state may no longer be that of the text; `followed` says that none such has
happened since the last reset, and that no query failed. `TypedUnseen` is a
character typed while `Plugin` does not listen (or with several selections),
and that is the only way the two meet: `ListensWhenMeant` of `Plugin` says when
`AutoComplete` takes `OnSciCharAdded` and when `TypedUnseen`, and since
`AutoComplete` may take either at any time, what it shows holds whatever
`Plugin` does. The product of the two, which adds no behaviour, has some ten million
states with the smallest constants and no run.
`PluginProofs` and `AutoCompleteProofs` have the theorems about the two.

Definitions whose comment begins with "Variant" are operations with a plausible
mistake in them. No specification uses them; each shows that some property can
fail.

## Runs

| run | question | bounds |
|---|---|---|
| `LinkClosureCorrect` | are the committed links exactly the transitive ones, whatever statement fails, is an update one step for a reader, does the loop end | the 32 graphs of five includes among three files, an object at the end of the chain, two updates |
| `LinkClosureFaults` | with the probe failing as well, are there at least no wrong links | the same |
| `RebuildContent` | do the tables mirror the sequences after each Rebuild, are new classes read, does Update keep the classes, is what is offered what the sources say, does every job end | two sequences that may include each other, two classes, one of which mentions the other, absent files; three jobs, two edits, reloads |
| `RebuildClasses` | are the classes there after each Rebuild (not after the second) | two jobs |
| `Upserts` | is there one row per key, or does the next Rebuild see to that, does Update confirm what it reads and nothing else, is the table a `KeyedTable` while nothing fails | a sequence file with three texts, a class with two, two jobs, two edits, two failing calls, a job of another instance within each |
| `SessionAlone` | over leaked connections, ends of the process and two faults, has every command of one instance that returns 0 stored its tables and links, and does every command succeed as long as nothing has failed | three loads, three jobs, one end, two faults |
| `SessionShared` | do two instances ever leave links of other rows in the file, see such, or report what is not stored; does the file change by whole jobs | two connections each, two jobs, one fault, one end |
| `SessionReload` | does a load set the database up anew (not after an exception) | two loads, one job |
| `SeqLineScan` | do the scanners remove comments and needless blanks and nothing else, is each declaration stored as it is meant, when does a line throw | all lines of up to five of six characters; twelve declarations, each with and without more blanks and a comment |
| `SeqLineNoReturn` | are the parameters of a function without return value stored (cut off wrongly) | three declarations |
| `Plugin` | does the menu show the setting, is the file type current, does the plugin react to typing where it is meant to, is the setting stored | two files, two projects, no nested macros |
| `AutoComplete` | does what appears belong to the call, object and file in front | two objects, one function, two files, two projects |

The five includes give chains, a cycle of two, one of three and two ways to
one file; a second update starts from any link tables the first may leave, and
nothing but these tables is carried over, so a third adds nothing. In `Rebuild`
a second job sees the rows of an earlier one and a third the rows two jobs
old; two edits suffice to drop a line and bring it back. Its class `dir`, which the
line `#include ""` mentions, is the directory of sequences itself and never has a
file; `lib` declares a function twice, `calc` overloads one and mentions an object
of a class that the sequences need not mention. In `Upserts` the sequence file names a
key twice, another key, or is not there, and the class changes; with the jobs of
the other instance up to four jobs run, so that rows are of this job, of the other
instance's or older, and two failing lookups give three rows for a key. In
`Session` two instances suffice for every conflict of locks there is between two statements.
`SessionShared` allows one fault. With two, `DiskWhole` fails: two DROPs of
one instance fail and are ignored while the other has dropped `ObjectLinks` and
not yet created it, which leaves the old rows with an empty link table. Three
instances come to that without any fault: the two DROPs of one are refused
while another is in the transaction of a job, which ends before that instance
drops `ObjectLinks`, and the third, about to create this table, does so then. It
is listed among the hazards; nothing in the repository promises otherwise.

Lines of five characters hold every order of two slashes, a quote, a blank, a
letter and a special character that the automata's memory of two characters can
tell apart. `IsDeclaration` says of which form a line has to be, once its comment
and needless blanks are gone, to declare something; the module of the run has
TLC check that its declarations are of that form. `Plugin` has no counters and is
explored completely; a third file
or project would behave as one of two. In `AutoComplete` two objects, one with
and one without the function, are what a query can confuse, and the function
is declared for the sequence as well; two files and two projects make an old
`m_File` differ from a new one.

`CHECK_DEADLOCK FALSE` is set where bounds on updates, jobs and edits end the
behaviours, and where a line has been parsed.

Fairness. `LinkClosure` is weakly fair on the statements of
`CleanupDeadLinks` and `Rebuild` on the steps of a job: each is a straight piece
of code on one thread, so a step that can be taken is taken. `Terminates` says
that the loop over the includes ends, `JobsEnd` that the loop over undeclared
classes does, though the files of these may name further ones. Nothing obliges
the user to start a job or to load, nor a statement to fail, so `Scan`,
`Prepare`, `Edit`, `Reload` and the faults have no fairness. `Session` states
none: whether a job ends there follows from its statements being finitely many.

## What the runs show to be different from what is written

Each of these is shown by a run:

* A second `Rebuild` deletes the functions of all classes (`RebuildClasses`):
  `RebuildClassDefinition` reads only classes without a row and then deletes the
  rows not confirmed. Against `Model.h` 101. Loading the project again before a
  Rebuild hides it.
* After an exception out of a Rebuild (a file name shorter than four
  characters) the leaked connection keeps its transaction, and loading the
  project fails until Notepad++ is closed, against `Model.h` 107
  (`SessionReload`).
* The parameters of a function declared without `->` are cut two characters
  short, against `SeqParser.cpp` 79 (`SeqLineNoReturn`).

These were met while modelling and have no run of their own:

* `sqlite3_step` failing in the loop of `CleanupDeadLinks` (`Model.cpp` 304-308)
  passes for the end of the rows; links are missing and the update succeeds.
  `LinksCorrect` fails in `LinkClosureFaults` if added there.
* `Update` deletes nothing but links, against `Model.cpp` 246.
* `LoadIntelisense` drops the data it is said to load, `Model.h` 99.
* A Rebuild returns 0 although upserts failed, against `Model.h` 101;
  `RebuildFills` therefore asks that nothing has failed.
* Of several declarations of a function that differ in their parameters only the
  last one is kept, as `UpdateObjDecl` looks them up by class and function.
  `Readme.md` 108 and 109 shows two rows for such a pair; `Todo.txt` 1 to 3 has it
  as an open point. `SequencesMirrored` and `OneRowPerKey` state what does hold:
  one row for each source and name, that of the last line. `lib` and `calc` of
  `MCRebuild` have such a pair.
* `RemoveSpaces` drops the blank behind a text if the last character outside of
  texts is special: `,"x" a` becomes `,"x"a`. `SeqParser.h` 61 names only blanks
  that are double or next to a special character. `SpacesRemoved` goes by that
  and leaves out the lines with such a blank (`Swallows`); without the exclusion
  it fails. The example at `SeqParser.h` 55 and 56 agrees with neither: it keeps
  the blank in `double Y, string test`, which follows a comma.
* A `/` that is the last character of a line is lost in `RemoveComment`; one
  right before a text is held back until after the text, and the text is lost
  (`/"a"b` becomes `/b`). `CommentsRemoved` leaves out both (`Dangling`).
* A Rebuild whose read of the undeclared classes breaks off in `sqlite3_step`
  (`Model.cpp` 390, 394) goes on, and returns 0 without the classes that were
  left. `Session` has this path.
* The tip for a function called without object is that of an object's function
  of the same name if there was a dot earlier in the line: only a dot and a new
  line reset `m_Object` (`NppPIALexer.h` 54 calls it the actual object).
* A load that fails has already exchanged or cleared `Model::db` and has set
  `m_ProjectPath`, while `m_LastProject` stays that of the project before
  (`NppPIALexer.cpp` 577): questions go to another database than the paths
  are made for, or to none.
* After an `Update` with a lookup that failed, two rows of a key, an old and a
  new one, are both offered until the next Rebuild.
* A job of another instance between the marks of a Rebuild and its transaction
  confirms rows that this Rebuild would have deleted; the next one deletes them.
* Two jobs of two instances that overlap may, without any fault, both end with
  their transactions open, and then block each other until the processes end;
  a question asked meanwhile takes a SHARED lock as well.
* `AtomicJobs` fails with "rollback" among the faults: what follows in the job
  is then stored statement by statement. The commit fails, and is reported.
* The line `#include ""` (`SeqParser.cpp` 71-76) is stored under the empty name
  and replaces the row by which a file includes itself: the file's own functions
  are no longer offered in it. `Itself` of `Rebuild` says so, and
  `SequencesMirrored` and `OffersMatchSources` hold with it. (`int ;` is no such
  case: without its blank it is no declaration.)
* With `Nested = TRUE`, a saved macro run during a recording makes the plugin
  forget the setting, and `CheckMarkTrue` fails.

## Proofs

TLAPS checks the proofs for every value of the constants that satisfies the
assumptions each module states about them: any files, classes, texts, numbers of
instances, jobs, edits and faults, where the runs have two or three. What a
theorem assumes beyond that is in its statement.

| module | theorem | states | assumes besides |
|---|---|---|---|
| `LinkClosureProofs` | `TypeCorrect`, `LinksAlwaysSound` | `TypeOK`, `LinksSound` | |
| | `LinksAlwaysCorrect`, `IncludesOffered`, `UpdatesAtomic` | `LinksCorrect`, `ImplicitIncludes`, `AtomicUpdate` | the probe does not fail (`"step" \notin Faults`) |
| `UpsertsProofs` | `TypeCorrect`, `AlwaysOneRowPerKey`, `RebuildAlwaysHeals`, `UpdateAlwaysConfirms` | `TypeOK`, `OneRowPerKey`, `RebuildHeals`, `UpdateConfirms` | |
| | `RowsImplementKeyedTable` | `ImplementsKeyedTable` | |
| `RebuildProofs` | `TypeCorrect`, `SequencesAlwaysMirrored`, `UndeclaredAlwaysResolved`, `UpdateAlwaysKeepsClasses`, `OffersAlwaysMatchSources` | `TypeOK`, `SequencesMirrored`, `UndeclaredResolved`, `UpdateKeepsClasses`, `OffersMatchSources` | |
| `SessionProofs` | `TypeCorrect`, `OkAlwaysStored` | `TypeOK`, `OkMeansStored` | |
| | `JobsAtomic` | `AtomicJobs` | SQLite rolls nothing back by itself (`"rollback" \notin Faults`) |
| | `EveryCommandSucceeds`, `RebuildAlwaysFills` | `AlwaysSucceeds`, `RebuildFills` | one instance (`Single`) |
| | `DiskAlwaysWhole`, `QueriesAlwaysWhole` | `DiskWhole`, `QueriesWhole` | one instance, or two and one fault (`Few`), and no such rollback |
| `SeqLineProofs` | `TypeCorrect`, `CommentsAlwaysRemoved`, `SpacesAlwaysRemoved`, `ThrowsAlwaysInText` | `TypeOK`, `CommentsRemoved`, `SpacesRemoved`, `ThrowsInTextOnly` | |
| | `DeclarationsAlwaysParsed` | `ParsedAsMeant` | lines that are meant to declare something are declarations (`IsDeclaration`) |
| `AutoCompleteProofs` | `TypeCorrect`, `TipAlwaysOfCall`, `ListAlwaysOfPlace` | `TypeOK`, `TipOfCall`, `ListOfPlace` | |
| `PluginProofs` | `TypeCorrect`, `SupportedAlwaysCurrent`, `SavedAlwaysStored`, `ListensAlwaysWhenMeant` | `TypeOK`, `SupportedCurrent`, `SavedMeansStored`, `ListensWhenMeant` | |
| | `CheckMarkAlwaysTrue`, `SettingAlwaysStored` | `CheckMarkTrue`, `SettingStored` | macros are not nested |

That the probe fails, that SQLite rolls back and that macros are nested has to be
excluded: with it `LinksCorrect`, `AtomicJobs` and `CheckMarkTrue` fail, as said
above. With two instances a command of one may be
refused by a lock of the other, so that `AlwaysSucceeds` and `RebuildFills` fail
without any fault; why `Few` is as narrow as it is, is said above under Runs; after
a rollback the rest of a job is stored statement by statement, rows before links.
`IsDeclaration` excludes what the code does not tell apart by its
searches: a path with " as " in it, a name with the sign that ends it, a keyword of
another form somewhere in the line, functions without `->`, and
lines from which the scanners take too much (`Dangling`, `Swallows`).

**Links.** The invariant `StepInv` says, for each place in `CleanupDeadLinks`,
how far the tables have come: after `ClearLinks` the links are empty, after
`InsertPlain` they are `PlainLinks`, and in the loop the temporary table holds
`Inclusions` and nothing beyond `Reachable`. That is enough for soundness, and
it is needed: `LinksSound` says nothing of an open transaction. For correctness,
what the loop's end gives is `SubInclusions(temp) = {}`; a table that contains
the inclusions and to which nothing can be added is closed under composition,
even though the SELECT leaves out pairs of a row with itself, since composing
with such a pair adds nothing (`NothingToAdd`). The rows reached from `a` then
form, with their files, a set that `ClosedFrom` quantifies over, hence contain
the smallest one (`ReachableWhenClosed`); the other inclusion is the soundness
part (`InclusionsReachable`, `StepReachable`). No induction over the number of
rounds is needed, which is why `VisibleFiles` is defined as a smallest set.

**Row updates.** `OneRowPerKey` is not inductive. The invariant `IInv` of
`UpsertsProofs` adds what the code relies on without saying so: every id in the
table has been given out (`IsTable`), so an insert never hits one; a lookup
finds the first row of a key and a confirmation touches that row only, so a
second row of a key is never confirmed while the first one is not, and only keys
of the sources read so far, or of the other instance, are confirmed
(`ConfirmedFirst`); and each key in the sources read so far is in a line still to
be stored, or its first row has the value of the last line about it (`Stored`, over
`SaidIn`). The first gives `OneRowPerKey`, the
second that a Rebuild, which deletes the unconfirmed, leaves at most the first
row of each key, the third what it leaves and that an Update confirms what it
reads. What makes `Stored` inductive in the middle of a source is that the upserts
to do are a suffix of its lines (`Pending`, `LastWord`).
`RowsImplementKeyedTable` maps rows to keys by the lookup itself (`Abstract`);
`KeyedStep` shows step by step that marking, deleting and upserting commute with
that map while no lookup has failed.

**Filling the tables.** The work is in one source: `Wrote` says what storing its
first n lines makes of a table (old rows stay, each other row comes from a line,
and the last line about each name is there: `Holds`), and `ParseLinesWrite`
proves it along the recursive function in `ParseLines`. The invariant `IInv`
then says of every sequence file whether it is still to be read
(`Unconfirmed`: no row of it is confirmed) or has been (`InStep`: its confirmed
rows are exactly those of its text), and of every class nobody had declared that
it is bare, waits with the cursor, or has been read (`Resolving`). Both are
needed: `SequencesMirrored` speaks of the end of a job only. That a sequence
file may be read once more as if it were a class (it is mentioned and declares
nothing) is why `Jobs` says that such a file has no functions, and
`ReadInStep` that it then stays in step. `OInv` adds that the basic types stay
declared, that in the first Rebuild after a load nothing of a class is in the
tables, or all that its description says (`ClassesRead`), and that the links are those of the tables. The set `R` of the property is
the classes read (`ReadSources`); for these and the sequence files `Mirrored` ties
rows to lines in both directions, `VisibleIs` shows that a file sees by the tables
what it sees by the sources, two smallest sets over different graphs, and
`OffersNow` compares the two sides element by element, with `OfferedVisible` for
the query.

**Session.** `IInv` has the locks (two connections never both hold a lock for
writing, and who is in no transaction holds none), and for each instance how it
stands (`InOrder`): nothing is returned before the end, a load is in no
transaction, and in a job's transaction the links have been computed as far as
the program has come (`Linked`); where it goes on after a failing read is one more
step of the program. `OkAlwaysStored` follows because only the commit
sets the result to "ok", and because from the first statement of
`CleanupDeadLinks` on the connection is the one writer. For `JobsAtomic`,
`Transactions` says what holds if SQLite never rolls back by itself: after its
`begin` a job is in its transaction until the end, and what the connection sees
differs from the file only by the job's own writes (`FromJob`), so that the
commit is one step `Store` of `JobStore`; and no one else changes the file in
between, since that takes the lock this connection has or, before it writes, is
seen by it (`OthersTransactions`). Every other statement that reaches the
file is a `Drop` or `Create`, or leaves it as it is (`StatementAlone`).

For one instance on its own, `Alone` says why nothing is refused: only the
connection in use is ever in a transaction, never one left behind by an earlier
load; a load has dropped and created the tables before the statement it is at
(`SetUpTo`); and what a Rebuild has read is in its transaction (`Filled`). It
speaks of the time before the first fault only (`Unspoilt`).

`DiskWhole` can only break where `ObjectLinks` is created next to rows of another
job. `LinksStored` says that the links of the file are those of its rows, and
`Barred` why an instance about to create the table (`Loading`) finds it there if
the rows are: the other instance, if it is among its DROPs and rows are left, has
spent the one fault on the first of them, or is locked out by a
connection of its own that it has left behind with a lock (`Leaks`) and will not
get to drop `ObjectLinks` either. `QueriesWhole` adds `Shown`: an instance asks
inside a transaction of its own only after a command that has failed, and if no
call has, what it wrote there is the marked rows of the file with their links, lacks
a table, or is a whole job that could not be committed yet.

**Auto-completion.** `Tracked` says that as long as nothing was missed
(`followed`), the state, object and function the plugin remembers are those of
the text left of the caret, and that `m_Found` holds an answer to a question
about them. `TipOfCall` and `ListOfPlace` speak only of the moment something is
shown, and follow from it.

**Lines of a sequence.** The lines are arbitrary sequences of characters, and
what is wanted of them is said without a scanner: `InText` counts quotes,
`WithoutComment` cuts at the first of the places where a comment begins,
`Compact` keeps the characters that are to be kept. The invariant ties each scanner to
the part it has read. For `RemoveComment`, `CommentSeen` says that either no
comment has begun and all has been written, or a slash outside of texts is held
back and all before it has been written, or a comment has begun and all before
it has been written; a quote that meets a slash held back is where the line
dangles (`SlashThenQuote`), so that case needs nothing to be said.
For `RemoveSpaces`, `SpacesSeen` names the last character b that is no blank:
what has been written is what the scanner keeps up to b, the flags are set if b is
there, or if the last character outside of texts is special, and at most one
blank behind b is kept, which only the next character that is no blank decides
(`PassesIs`). Which blanks the scanner keeps (`Passes`) is said in the proofs only:
`PassesNeeded` compares that with the blanks that are needed, and the two differ
behind a text that follows a special character and nowhere else
(`CompactUnlessSwallowed`). `CommentRead` and `SpacesRead` add that a scanner is in a
text exactly when its input is, that the end of the output is in a text only if
the line is, and that the output ends with a blank only inside of a text. That
is what `ThrowsAlwaysInText` needs: the one call of `substr` that can throw
follows the blank of an `#include` with nothing behind it (`ThrowsAfterBlank`).
`DeclarationsAlwaysParsed` is about `ParseLine` itself. A declaration is put
together of pieces, and `Placed` says where each of them stands in it (`JoinedThree`,
`JoinedFour`). That no piece holds the sign that ends it makes each search of
`ParseLine` stop right behind the piece (`FoundAt`: `AsFound`, `BracketFound`,
`ArrowFound`, `EndFound`), and what is cut out there is the piece again (`PieceIs`).
The invariant adds only that the line is still the chosen one (`Chosen`).

**Settings.** The invariant `IInv` of `PluginProofs` is the conjunction of the
properties and of `OneMacro`, that no process starts with a macro running, and
`Suspended`, that a macro has switched the plugin off. They need each other: the
check mark is right after a macro because `nPrevAutoComplete` was the setting
before it, which takes the flag for macros to have been in step with Notepad++;
and `MustBeSaved` sees every change because what the plugin takes for stored is
stored.

Recursive definitions are handled without the induction theorems of the
library, which take a predicate as a parameter: a set of numbers that is closed
under successor up to a bound contains the bound (`UpTo`), which follows from the
least element of a set of numbers (`LeastElement`).

Only model-checked: `Terminates` and `JobsEnd`, which are about fairness. Every
other property of a passing run is a theorem, for the instances and faults its
statement names.

## Not modelled

Nearly all lines of the repository are third-party code in `core`: `sqlite3.c`,
its headers and `shell.c`, `dirent.h`, the headers of Scintilla and Notepad++.
Of these only the locks and transactions of SQLite are modelled, in `Session`.
Of the plugin's own code every operation that changes state is, except:

* the check boxes of the settings other than the first, and the list of HTML
  extensions, which matter only to the bracket completion, and this
  (`AutoBracketsFunc`) returns at once;
* how an extension is looked up in the rule for file types
  (`IsSupportedFile`): `Supported` is the set of files it accepts, the rule
  never changes while Notepad++ runs;
* `Export`, which only reads; the log; window layout; the wrappers that send one
  message each; two instances writing one ini file;
* text and file names below what the properties tell apart;
* a pointer `db` that is not initialised before the first load is taken for a
  misuse that SQLite refuses or for the end of the process, not for more.

## Plan

Done: all modules, and the proofs about all of them. What could follow: a weaker
form of `DiskWhole` for any number of instances, which would have to let go
of the file while any of them is loading.
