---------------------------- MODULE AutoComplete ----------------------------
(***************************************************************************)
(* What the plugin asks the database while one types, and what it shows:   *)
(* OnSciCharAdded and ResetAutoComplete of src/src/NppPIALexer.cpp, with   *)
(* the three queries of src/src/Model.cpp they call, and the commands and  *)
(* notifications that change what these go by.                             *)
(*                                                                         *)
(* A word, and "->", is typed in one step.  Of the text left of the caret  *)
(* we keep what it ends with:                                              *)
(*   last   "dot", "word", "(", "()", "->" or "other"                      *)
(*   word   the word it ends with, or that of the call before "(", "()" or *)
(*          "->"                                                           *)
(*   owner  the word before the dot in front of that word, "" if there is  *)
(*          no dot                                                         *)
(*   after  what is left of a word                                         *)
(* Instead of text, m_Found holds the question it is the answer to.        *)
(***************************************************************************)
CONSTANTS Files, Projects,
          Objects, Functions,  \* words
          Databases,           \* sets of <<object, function>> a database may hold
          Elsewhere            \* texts the caret may be moved to

ASSUME WordsAssumption ==
  {"", ".", "(", ")", "->", " "} \cap (Objects \cup Functions) = {}
ASSUME DatabasesAssumption ==
  Databases \subseteq SUBSET ((Objects \cup {""}) \X Functions)

VARIABLES file, project, text,
          rows,       \* the <<object, function>> the open database holds
          m_State, m_File, m_Object, m_Function, m_Found,
          shown,      \* what the last character typed made appear
          followed    \* since the last reset the plugin saw all that
                      \* happened, and no query failed

tracker == <<m_State, m_File, m_Object, m_Function>>
vars == <<file, project, text, rows, tracker, m_Found, shown, followed>>

-----------------------------------------------------------------------------
Words == Objects \cup Functions

Ends == {"dot", "word", "(", "()", "->", "other"}

Texts ==
  [last : Ends, owner : Words \cup {""}, word : Words \cup {""}, after : Ends]

ASSUME ElsewhereAssumption == Elsewhere \subseteq Texts

Text(last, owner, word, after) ==
  [last |-> last, owner |-> owner, word |-> word, after |-> after]

Blank == Text("other", "", "", "other")

(* The text after ch has been typed at the end of t.                       *)
AfterTyping(t, ch) ==
  CASE ch = "." -> Text("dot", IF t.last = "word" THEN t.word ELSE "", "", "other")
    [] ch \in Words ->
         Text("word", IF t.last = "dot" THEN t.owner ELSE "", ch, t.last)
    [] ch = "(" /\ t.last \in {"dot", "word"} -> [t EXCEPT !.last = "("]
    [] ch = "(" /\ t.last \notin {"dot", "word"} -> [Blank EXCEPT !.last = "("]
    [] ch = ")" /\ t.last = "(" -> [t EXCEPT !.last = "()"]
    [] ch = "->" /\ t.last = "()" -> [t EXCEPT !.last = "->"]
    [] ch = "->" /\ t.last # "()" -> [Blank EXCEPT !.last = "->"]
    [] OTHER -> Blank

(* The word that ends at the caret.                                        *)
Word == IF text.last = "word" THEN text.word ELSE ""

-----------------------------------------------------------------------------
Nothing == [about |-> "nothing"]

(* Something else than typing has happened.                                *)
Untyped == [about |-> "untyped"]

Question(about, f, object, function) ==
  [about |-> about, file |-> f, object |-> object, function |-> function]

(* The path relative to the project directory.                             *)
Relative(f, p) == <<f, p>>

(* A file that has never been looked up is no scope in the database.       *)
Answer(question, found) ==
  IF found /\ question.file # <<>> THEN question ELSE Nothing

(* Names, of which the beginning that has been typed is left out.          *)
GetObject(f, object) ==
  Answer(Question("names", f, object, ""),
         \E d \in rows : object \in {"", d[1]})

GetParams(f, object, function) ==
  Answer(Question("params", f, object, function), <<object, function>> \in rows)

GetReturns(f, object, function) ==
  Answer(Question("returns", f, object, function), <<object, function>> \in rows)

(* The query cannot be prepared and leaves m_Found as it was, or it breaks *)
(* off, and its rows are taken for all there are.                          *)
QueryFails ==
  /\ m_Found' \in {m_Found, Nothing}
  /\ shown' = m_Found'
  /\ followed' = FALSE

(* Variant: no rows leave m_Found as it was.                               *)
ShowKeeping(answer) ==
  \/ /\ m_Found' = IF answer = Nothing THEN m_Found ELSE answer
     /\ shown' = m_Found'
     /\ UNCHANGED followed
  \/ QueryFails

(* What is in m_Found after the query is shown, unless it is empty.        *)
Show(answer) ==
  \/ m_Found' = answer /\ shown' = answer /\ UNCHANGED followed
  \/ QueryFails

ResetAutoComplete(f, p) ==
  /\ m_File' = Relative(f, p)
  /\ m_Object' = ""
  /\ m_Function' = ""
  /\ m_Found' = Nothing
  /\ m_State' = "None"

-----------------------------------------------------------------------------
Init ==
  /\ file \in Files /\ project \in Projects /\ text = Blank /\ rows = {}
  /\ m_State = "None" /\ m_File = <<>> /\ m_Object = "" /\ m_Function = ""
  /\ m_Found = Nothing /\ shown = Untyped
  /\ followed = FALSE

Typed(ch) ==
  /\ ch \in Words => text.last # "word"
  /\ text' = AfterTyping(text, ch)
  /\ UNCHANGED <<file, project, rows>>

(* Variant: the tracker is not reset.                                      *)
DotKeeping ==
  /\ Typed(".")
  /\ m_Object' = Word
  /\ shown' = Nothing
  /\ followed' = TRUE
  /\ UNCHANGED <<m_State, m_File, m_Function, m_Found>>

Dot ==
  /\ Typed(".")
  /\ m_File' = Relative(file, project)
  /\ m_Object' = Word
  /\ m_Function' = ""
  /\ m_State' = "Function"
  /\ m_Found' = Nothing /\ shown' = Nothing
  /\ followed' = TRUE

Parenthesis ==
  /\ Typed("(")
  /\ m_Function' = Word
  /\ m_State' = "Params"
  /\ Show(GetParams(m_File, m_Object, Word))
  /\ UNCHANGED <<m_File, m_Object>>

(* The arrow is complete with its second character.                        *)
Arrow ==
  /\ Typed("->")
  /\ m_State' = "Returns"
  /\ Show(GetReturns(m_File, m_Object, m_Function))
  /\ UNCHANGED <<m_File, m_Object, m_Function>>

(* A blank, an operator, a comma, a semicolon.                             *)
Separator ==
  /\ Typed(" ")
  /\ shown' = Nothing
  /\ UNCHANGED <<tracker, m_Found, followed>>

(* Variant: the object is not left out after a parenthesis.                *)
OtherOfObject(ch) ==
  /\ Typed(ch)
  /\ Show(GetObject(m_File, m_Object))
  /\ UNCHANGED tracker

(* A word, or another character.                                           *)
Other(ch) ==
  /\ Typed(ch)
  /\ Show(GetObject(m_File, IF m_State \in {"Params", "Returns"} THEN "" ELSE m_Object))
  /\ UNCHANGED tracker

NewLine ==
  /\ text' = Blank
  /\ ResetAutoComplete(file, project)
  /\ shown' = Nothing
  /\ followed' = TRUE
  /\ UNCHANGED <<file, project, rows>>

OnSciCharAdded ==
  \/ Dot \/ Parenthesis \/ Arrow \/ Separator \/ NewLine
  \/ \E ch \in Words \cup {")"} : Other(ch)

(* The plugin is off, the file is not supported or a macro runs, which is  *)
(* when Plugin does not Listen, or there is more than one selection: the   *)
(* handler returns at once.                                                *)
TypedUnseen ==
  /\ \E ch \in Words \cup {".", "(", ")", "->", " "} : Typed(ch)
  /\ shown' = Nothing
  /\ followed' = FALSE
  /\ UNCHANGED <<tracker, m_Found>>

(* The caret goes to another place in the file; nobody tells the plugin.   *)
CaretMoved ==
  /\ text' \in Elsewhere
  /\ shown' = Untyped
  /\ followed' = FALSE
  /\ UNCHANGED <<file, project, rows, tracker, m_Found>>

OnNppBufferActivated ==
  /\ file' \in Files
  /\ text' \in Elsewhere
  /\ ResetAutoComplete(file', project)
  /\ shown' = Untyped
  /\ followed' = (text' = Blank)
  /\ UNCHANGED <<project, rows>>

(* Saved, perhaps under another name: m_File stays.                        *)
OnNppFileSaved ==
  /\ file' \in Files
  /\ followed' = (followed /\ file' = file)
  /\ shown' = Untyped
  /\ UNCHANGED <<project, text, rows, tracker, m_Found>>

(* A project is loaded, which empties its database; m_File stays.          *)
ReloadData ==
  /\ project' \in Projects
  /\ rows' = {}
  /\ followed' = (followed /\ project' = project)
  /\ shown' = Untyped
  /\ UNCHANGED <<file, text, tracker, m_Found>>

(* The load fails: questions go to no database or to one of another        *)
(* project, as it was.                                                     *)
ReloadFails ==
  /\ rows' \in Databases
  /\ followed' = FALSE
  /\ shown' = Untyped
  /\ UNCHANGED <<file, project, text, tracker, m_Found>>

(* The database is filled, by a Rebuild or an Update.                      *)
RebuildData ==
  /\ rows' \in Databases
  /\ shown' = Untyped
  /\ UNCHANGED <<file, project, text, tracker, m_Found, followed>>

Next ==
  \/ OnSciCharAdded \/ TypedUnseen \/ CaretMoved
  \/ OnNppBufferActivated \/ OnNppFileSaved
  \/ ReloadData \/ ReloadFails \/ RebuildData

Spec == Init /\ [][Next]_vars
-----------------------------------------------------------------------------
(* The state goes with the rest of the tracker: there is no question about *)
(* a function before one has been named, and none about a file before the  *)
(* first reset.                                                            *)
TypeOK ==
  /\ file \in Files /\ project \in Projects /\ text \in Texts
  /\ m_State \in {"None", "Function", "Params", "Returns"}
  /\ m_File = <<>> \/ m_File \in Files \X Projects
  /\ {m_Object, m_Function} \subseteq Words \cup {""}
  /\ m_Function # "" => m_State \in {"Params", "Returns"}
  /\ m_Found = Nothing \/ m_Found.about \in {"names", "params", "returns"}
  /\ shown \in {Nothing, Untyped, m_Found}
  /\ followed => m_File \in Files \X Projects

Here == Relative(file, project)

(* The tip after "object.function(" is about the parameters of this        *)
(* function of this object as seen from the file being edited, and the one *)
(* after "object.function()->" about what it returns; if the database has  *)
(* none there is no tip, and not one of an earlier call.                   *)
TipOfCall ==
  followed /\ shown # Untyped /\ text.owner \in Objects /\ text.word \in Functions =>
    /\ text.last = "(" => shown = GetParams(Here, text.owner, text.word)
    /\ text.last = "->" => shown = GetReturns(Here, text.owner, text.word)

(* NppPIALexer.cpp: a word begun after a dot gets the functions of the     *)
(* object before the dot; one begun as a parameter or a returned value     *)
(* gets only objects and variables, although m_Object still has a value.   *)
ListOfPlace ==
  followed /\ shown # Untyped /\ text.last = "word" =>
    /\ text.owner # "" => shown = GetObject(Here, text.owner)
    /\ text.after \in {"(", "->"} => shown = GetObject(Here, "")
=============================================================================
