------------------------- MODULE AutoCompleteProofs -------------------------
(***************************************************************************)
(* The invariants of AutoComplete hold for all files, projects, words and  *)
(* databases, and wherever the caret is moved.                             *)
(***************************************************************************)
EXTENDS AutoComplete, TLAPS

(* As long as the plugin has seen all since the last reset, its state goes *)
(* with the text: the object is the one before the dot, the function the   *)
(* one called, and the state says on which side of the arrow the caret is. *)
Tracked ==
  followed =>
    /\ m_File = Here
    /\ text.last = "dot" => text.word = "" /\ m_State = "Function"
    /\ text.last \in {"dot", "word", "(", "()"} /\ text.owner # "" =>
         m_Object = text.owner
    /\ text.last \in {"(", "()"} /\ text.owner # "" => m_Function = text.word
    /\ text.last = "(" => m_State = "Params"
    /\ text.last = "->" => m_State = "Returns"

IInv == TypeOK /\ Tracked /\ TipOfCall /\ ListOfPlace

USE WordsAssumption, ElsewhereAssumption

LEMMA BlankText == Blank \in Texts /\ Blank.last = "other" /\ Blank.owner = ""
BY DEF Blank, Text, Texts, Ends

LEMMA WordOfText == ASSUME text \in Texts PROVE Word \in Words \cup {""}
BY DEF Word, Texts

(* What is left of the caret after a character, case by case.              *)
LEMMA TypedDot ==
  ASSUME NEW t \in Texts
  PROVE  LET u == AfterTyping(t, ".")
         IN  /\ u \in Texts /\ u.last = "dot" /\ u.word = ""
             /\ u.owner = IF t.last = "word" THEN t.word ELSE ""
BY DEF AfterTyping, Text, Texts, Ends, Words

LEMMA TypedWord ==
  ASSUME NEW t \in Texts, NEW ch \in Words
  PROVE  LET u == AfterTyping(t, ch)
         IN  /\ u \in Texts /\ u.last = "word" /\ u.word = ch /\ u.after = t.last
             /\ u.owner = IF t.last = "dot" THEN t.owner ELSE ""
BY DEF AfterTyping, Text, Texts, Ends, Words

LEMMA TypedOpening ==
  ASSUME NEW t \in Texts
  PROVE  LET u == AfterTyping(t, "(")
         IN  /\ u \in Texts /\ u.last = "("
             /\ t.last \in {"dot", "word"} => u.owner = t.owner /\ u.word = t.word
             /\ t.last \notin {"dot", "word"} => u.owner = ""
BY DEF AfterTyping, Text, Texts, Ends, Words, Blank

LEMMA TypedClosing ==
  ASSUME NEW t \in Texts
  PROVE  LET u == AfterTyping(t, ")")
         IN  /\ u \in Texts
             /\ t.last = "(" => u.last = "()" /\ u.owner = t.owner /\ u.word = t.word
             /\ t.last # "(" => u = Blank
BY DEF AfterTyping, Text, Texts, Ends, Words, Blank

LEMMA TypedArrow ==
  ASSUME NEW t \in Texts
  PROVE  LET u == AfterTyping(t, "->")
         IN  /\ u \in Texts /\ u.last = "->"
             /\ t.last = "()" => u.owner = t.owner /\ u.word = t.word
             /\ t.last # "()" => u.owner = ""
BY DEF AfterTyping, Text, Texts, Ends, Words, Blank

LEMMA TypedBlank ==
  ASSUME NEW t \in Texts
  PROVE  AfterTyping(t, " ") = Blank
BY DEF AfterTyping, Words, Blank
(* An answer is none or one to the question asked.                         *)
Shown(answer) == answer = Nothing \/ answer.about \in {"names", "params", "returns"}

LEMMA AnswersShown ==
  ASSUME NEW f, NEW object, NEW function
  PROVE  /\ Shown(GetObject(f, object))
         /\ Shown(GetParams(f, object, function))
         /\ Shown(GetReturns(f, object, function))
BY DEF Shown, GetObject, GetParams, GetReturns, Answer, Question

(* What a query leaves.                                                    *)
LEMMA AfterShow ==
  ASSUME TypeOK, NEW answer, Shown(answer), Show(answer)
  PROVE  /\ m_Found' = Nothing \/ m_Found'.about \in {"names", "params", "returns"}
         /\ shown' \in {Nothing, Untyped, m_Found'}
         /\ followed' => followed /\ shown' = answer
<1>1. CASE QueryFails
  BY <1>1, Zenon DEF TypeOK, QueryFails
<1>2. CASE m_Found' = answer /\ shown' = answer /\ UNCHANGED followed
  BY <1>2, Zenon DEF Shown
<1> QED
  BY <1>1, <1>2 DEF Show

LEMMA InitIInv == Init => IInv
BY BlankText DEF Init, IInv, TypeOK, Tracked, TipOfCall, ListOfPlace

LEMMA NextIInv == ASSUME IInv, [Next]_vars PROVE IInv'
<1> USE DEF IInv
<1>0. text \in Texts /\ Word \in Words \cup {""}
  BY WordOfText DEF TypeOK
<1>1. CASE Dot
  <2>1. /\ text' \in Texts /\ text'.last = "dot" /\ text'.word = ""
        /\ text'.owner = Word
        /\ UNCHANGED <<file, project, rows>>
    BY <1>0, <1>1, TypedDot DEF Dot, Typed, Word
  <2>2. /\ m_File' = Relative(file, project) /\ m_Object' = Word /\ m_Function' = ""
        /\ m_State' = "Function" /\ m_Found' = Nothing /\ shown' = Nothing
        /\ followed'
    BY <1>1 DEF Dot
  <2>3. TypeOK'
    BY <1>0, <2>1, <2>2 DEF TypeOK, Relative
  <2>4. Tracked'
    BY <2>1, <2>2 DEF Tracked, Here
  <2> QED
    BY <2>1, <2>3, <2>4 DEF TipOfCall, ListOfPlace
<1>2. CASE Parenthesis
  <2> DEFINE answer == GetParams(m_File, m_Object, Word)
  <2>1. /\ text' \in Texts /\ text'.last = "("
        /\ text.last \in {"dot", "word"} =>
              text'.owner = text.owner /\ text'.word = text.word
        /\ text.last \notin {"dot", "word"} => text'.owner = ""
        /\ UNCHANGED <<file, project, rows>>
    BY <1>0, <1>2, TypedOpening DEF Parenthesis, Typed
  <2>2. /\ m_Function' = Word /\ m_State' = "Params" /\ Show(answer)
        /\ UNCHANGED <<m_File, m_Object>>
    BY <1>2 DEF Parenthesis
  <2>3. /\ m_Found' = Nothing \/ m_Found'.about \in {"names", "params", "returns"}
        /\ shown' \in {Nothing, Untyped, m_Found'}
        /\ followed' => followed /\ shown' = answer
    BY <2>2, AnswersShown, AfterShow
  <2>4. TypeOK'
    BY <1>0, <2>1, <2>2, <2>3 DEF TypeOK
  <2>5. ASSUME followed', text'.owner # ""
        PROVE  m_Object' = text'.owner /\ m_Function' = text'.word
    BY <2>1, <2>2, <2>3, <2>5 DEF Tracked, Word
  <2>6. Tracked'
    BY <2>1, <2>2, <2>3, <2>5 DEF Tracked, Here
  <2>7. TipOfCall'
    <3> SUFFICES ASSUME followed', text'.owner \in Objects
                 PROVE  shown' = GetParams(Here, text.owner, text.word)'
      BY <2>1 DEF TipOfCall
    <3>1. text'.owner # ""
      OBVIOUS
    <3>2. m_Object = text'.owner /\ Word = text'.word /\ m_File = Here
      BY <2>2, <2>3, <2>5, <3>1 DEF Tracked
    <3>3. shown' = answer /\ Here' = Here /\ rows' = rows
      BY <2>1, <2>3 DEF Here
    <3> QED
      BY <3>2, <3>3 DEF GetParams
  <2> QED
    BY <2>1, <2>4, <2>6, <2>7 DEF ListOfPlace
<1>3. CASE Arrow
  <2> DEFINE answer == GetReturns(m_File, m_Object, m_Function)
  <2>1. /\ text' \in Texts /\ text'.last = "->"
        /\ text.last = "()" => text'.owner = text.owner /\ text'.word = text.word
        /\ text.last # "()" => text'.owner = ""
        /\ UNCHANGED <<file, project, rows>>
    BY <1>0, <1>3, TypedArrow DEF Arrow, Typed
  <2>2. /\ m_State' = "Returns" /\ Show(answer)
        /\ UNCHANGED <<m_File, m_Object, m_Function>>
    BY <1>3 DEF Arrow
  <2>3. /\ m_Found' = Nothing \/ m_Found'.about \in {"names", "params", "returns"}
        /\ shown' \in {Nothing, Untyped, m_Found'}
        /\ followed' => followed /\ shown' = answer
    BY <2>2, AnswersShown, AfterShow
  <2>4. TypeOK'
    BY <1>0, <2>1, <2>2, <2>3 DEF TypeOK
  <2>5. Tracked'
    BY <2>1, <2>2, <2>3 DEF Tracked, Here
  <2>6. TipOfCall'
    <3> SUFFICES ASSUME followed', text'.owner \in Objects
                 PROVE  shown' = GetReturns(Here, text.owner, text.word)'
      BY <2>1 DEF TipOfCall
    <3>1. text'.owner # ""
      OBVIOUS
    <3>2. m_Object = text'.owner /\ m_Function = text'.word /\ m_File = Here
      BY <2>1, <2>3, <3>1 DEF Tracked
    <3>3. shown' = answer /\ Here' = Here /\ rows' = rows
      BY <2>1, <2>3 DEF Here
    <3> QED
      BY <3>2, <3>3 DEF GetReturns
  <2> QED
    BY <2>1, <2>4, <2>5, <2>6 DEF ListOfPlace
<1>4. CASE Separator
  <2>1. text' = Blank /\ UNCHANGED <<file, project, rows, tracker, m_Found, followed>>
        /\ shown' = Nothing
    BY <1>0, <1>4, TypedBlank DEF Separator, Typed
  <2> QED
    BY <2>1, BlankText DEF TypeOK, Tracked, TipOfCall, ListOfPlace, tracker, Here
<1>5. CASE NewLine
  <2>1. /\ text' = Blank /\ UNCHANGED <<file, project, rows>>
        /\ m_File' = Relative(file, project) /\ m_Object' = "" /\ m_Function' = ""
        /\ m_Found' = Nothing /\ m_State' = "None"
        /\ shown' = Nothing /\ followed'
    BY <1>5 DEF NewLine, ResetAutoComplete
  <2> QED
    BY <2>1, BlankText DEF TypeOK, Tracked, TipOfCall, ListOfPlace, Here, Relative
<1>6. ASSUME NEW ch \in Words \cup {")"}, Other(ch)
      PROVE  IInv'
  <2> DEFINE object == IF m_State \in {"Params", "Returns"} THEN "" ELSE m_Object
             answer == GetObject(m_File, object)
  <2>1. /\ text' = AfterTyping(text, ch)
        /\ UNCHANGED <<file, project, rows>>
        /\ Show(answer) /\ UNCHANGED <<m_State, m_File, m_Object, m_Function>>
    BY <1>6 DEF Other, Typed, tracker
  <2>2. /\ m_Found' = Nothing \/ m_Found'.about \in {"names", "params", "returns"}
        /\ shown' \in {Nothing, Untyped, m_Found'}
        /\ followed' => followed /\ shown' = answer
    BY <2>1, AnswersShown, AfterShow
  <2>3. CASE ch \in Words
    <3>1. /\ text' \in Texts /\ text'.last = "word" /\ text'.word = ch
          /\ text'.after = text.last
          /\ text'.owner = IF text.last = "dot" THEN text.owner ELSE ""
      <4>1. text' = AfterTyping(text, ch)
        BY <2>1
      <4> DEFINE u == AfterTyping(text, ch)
      <4>2. /\ u \in Texts /\ u.last = "word" /\ u.word = ch /\ u.after = text.last
            /\ u.owner = IF text.last = "dot" THEN text.owner ELSE ""
        BY <1>0, <2>3, TypedWord, Zenon
      <4> HIDE DEF u
      <4> QED
        BY <4>1, <4>2 DEF u
    <3>2. TypeOK'
      BY <2>1, <2>2, <3>1 DEF TypeOK
    <3>3. Tracked'
      BY <2>1, <2>2, <3>1 DEF Tracked, Here
    <3>4. ListOfPlace'
      <4> SUFFICES ASSUME followed'
                   PROVE  /\ text'.owner # "" => shown' = GetObject(Here, text.owner)'
                          /\ text'.after \in {"(", "->"} => shown' = GetObject(Here, "")'
        BY DEF ListOfPlace
      <4>1. shown' = answer /\ Here' = Here /\ rows' = rows /\ m_File = Here
        BY <2>1, <2>2 DEF Here, Tracked
      <4>2. text'.owner # "" => object = text'.owner
        BY <2>2, <3>1 DEF Tracked
      <4>3. text'.after \in {"(", "->"} => object = ""
        BY <2>2, <3>1 DEF Tracked
      <4> HIDE DEF object
      <4> QED
        BY <4>1, <4>2, <4>3 DEF GetObject
    <3> QED
      BY <3>1, <3>2, <3>3, <3>4 DEF TipOfCall
  <2>4. CASE ch = ")"
    <3>1. /\ text' \in Texts
          /\ text.last = "(" => /\ text'.last = "()"
                                /\ text'.owner = text.owner /\ text'.word = text.word
          /\ text.last # "(" => text' = Blank
      BY <1>0, <2>1, <2>4, TypedClosing
    <3>2. /\ text'.last \in {"()", "other"}
          /\ text'.last = "other" => text'.owner = ""
      <4>1. CASE text.last = "("
        BY <3>1, <4>1
      <4>2. CASE text.last # "("
        BY <3>1, <4>2, BlankText
      <4> QED
        BY <4>1, <4>2
    <3>3. TypeOK'
      BY <2>1, <2>2, <3>1 DEF TypeOK
    <3>4. Tracked'
      BY <2>1, <2>2, <3>1, <3>2, BlankText DEF Tracked, Here
    <3> QED
      BY <3>2, <3>3, <3>4 DEF TipOfCall, ListOfPlace
  <2> QED
    BY <2>3, <2>4
<1>7. CASE TypedUnseen
  <2>1. PICK ch \in Words \cup {".", "(", ")", "->", " "} : Typed(ch)
    BY <1>7 DEF TypedUnseen
  <2>2. text' \in Texts
    <3>1. text' = AfterTyping(text, ch)
      BY <2>1 DEF Typed
    <3>2. CASE ch \in Words
      BY <1>0, <3>1, <3>2, TypedWord
    <3>3. CASE ch \in {".", "("}
      BY <1>0, <3>1, <3>3, TypedDot, TypedOpening
    <3>4. CASE ch \in {")", "->"}
      BY <1>0, <3>1, <3>4, TypedClosing, TypedArrow
    <3>5. CASE ch = " "
      BY <1>0, <3>1, <3>5, TypedBlank, BlankText
    <3> QED
      BY <2>1, <3>2, <3>3, <3>4, <3>5
  <2> QED
    BY <1>7, <2>1, <2>2 DEF TypedUnseen, Typed, TypeOK, Tracked, TipOfCall, ListOfPlace,
                            tracker
<1>8. CASE CaretMoved
  BY <1>8 DEF CaretMoved, TypeOK, Tracked, TipOfCall, ListOfPlace, tracker
<1>9. CASE OnNppBufferActivated
  <2>1. /\ file' \in Files /\ text' \in Texts /\ project' = project
        /\ m_File' = Relative(file', project) /\ m_Object' = "" /\ m_Function' = ""
        /\ m_Found' = Nothing /\ m_State' = "None"
        /\ shown' = Untyped /\ followed' = (text' = Blank)
    BY <1>9 DEF OnNppBufferActivated, ResetAutoComplete
  <2>2. TypeOK'
    BY <2>1 DEF TypeOK, Relative
  <2>3. Tracked'
    <3>1. followed' => text' = Blank
      BY <2>1
    <3>2. m_File' = Here'
      BY <2>1 DEF Here
    <3> QED
      BY <3>1, <3>2, BlankText DEF Tracked
  <2> QED
    BY <2>1, <2>2, <2>3 DEF TipOfCall, ListOfPlace
<1>10. CASE OnNppFileSaved
  BY <1>10 DEF OnNppFileSaved, TypeOK, Tracked, TipOfCall, ListOfPlace, tracker, Here
<1>11. CASE ReloadData
  BY <1>11 DEF ReloadData, TypeOK, Tracked, TipOfCall, ListOfPlace, tracker, Here
<1>12. CASE ReloadFails
  BY <1>12 DEF ReloadFails, TypeOK, Tracked, TipOfCall, ListOfPlace, tracker
<1>13. CASE RebuildData
  BY <1>13 DEF RebuildData, TypeOK, Tracked, TipOfCall, ListOfPlace, tracker, Here
<1>14. CASE UNCHANGED vars
  <2>1. UNCHANGED <<file, project, text, rows, m_State, m_File, m_Object, m_Function,
                    m_Found, shown, followed>>
    BY <1>14 DEF vars, tracker
  <2>2. TypeOK' /\ Tracked'
    BY <2>1 DEF TypeOK, Tracked, Here
  <2>3. TipOfCall'
    BY <2>1 DEF TipOfCall, Here, GetParams, GetReturns
  <2>4. ListOfPlace'
    BY <2>1 DEF ListOfPlace, Here, GetObject
  <2> QED
    BY <2>2, <2>3, <2>4
<1> QED
  BY <1>1, <1>2, <1>3, <1>4, <1>5, <1>6, <1>7, <1>8, <1>9, <1>10, <1>11, <1>12,
     <1>13, <1>14 DEF Next, OnSciCharAdded

LEMMA Invariant == Spec => []IInv
BY InitIInv, NextIInv, PTL DEF Spec

(* There is no question about a function before one has been named, and    *)
(* none about a file before the first reset (OnSciCharAdded).              *)
THEOREM TypeCorrect == Spec => []TypeOK
<1>1. IInv => TypeOK
  BY DEF IInv
<1> QED
  BY <1>1, Invariant, PTL

(* OnSciCharAdded: a tip is about the call it stands at.                   *)
THEOREM TipAlwaysOfCall == Spec => []TipOfCall
<1>1. IInv => TipOfCall
  BY DEF IInv
<1> QED
  BY <1>1, Invariant, PTL

(* OnSciCharAdded: a list belongs to the object before the dot, or to none *)
(* among parameters and returned values.                                   *)
THEOREM ListAlwaysOfPlace == Spec => []ListOfPlace
<1>1. IInv => ListOfPlace
  BY DEF IInv
<1> QED
  BY <1>1, Invariant, PTL
=============================================================================
