------------------------- MODULE LinkClosureProofs -------------------------
(***************************************************************************)
(* Theorems about LinkClosure, for any tables and any set of faults.       *)
(***************************************************************************)
EXTENDS LinkClosure, SharedLemmas, TLAPS

-----------------------------------------------------------------------------
(* The queries, element by element.                                        *)

(* A pair the loop may add: a middle row is included by the first row and  *)
(* includes the second, and neither pair is a row with itself.             *)
LEMMA SubInclusionsElement ==
  ASSUME NEW ids, NEW t \in SUBSET (ids \X ids), NEW p \in SubInclusions(t)
  PROVE  \E m \in ids : /\ p \in ids \X ids
                        /\ <<p[1], m>> \in t
                        /\ <<m, p[2]>> \in t
<1>1. PICK c \in t \X t : c[1][2] = c[2][1] /\ p = <<c[1][1], c[2][2]>>
  BY DEF SubInclusions
<1>2. c[1] \in t /\ c[2] \in t /\ c[1] \in ids \X ids /\ c[2] \in ids \X ids
  BY <1>1
<1>3. c[1] = <<c[1][1], c[1][2]>> /\ c[2] = <<c[2][1], c[2][2]>>
  BY <1>2
<1>4. p[1] = c[1][1] /\ p[2] = c[2][2] /\ p \in ids \X ids
  BY <1>1, <1>2
<1>5. QED
  BY <1>1, <1>2, <1>3, <1>4

(* When the probe finds nothing the pairs are closed under composition:    *)
(* composing with a row's pair with itself gives nothing new.              *)
LEMMA NothingToAdd ==
  ASSUME NEW ids, NEW t \in SUBSET (ids \X ids), SubInclusions(t) = {},
         NEW i \in ids, NEW m \in ids, NEW j \in ids,
         <<i, m>> \in t, <<m, j>> \in t
  PROVE  <<i, j>> \in t
<1>1. CASE i = m \/ m = j
  BY <1>1
<1>2. CASE i # m /\ m # j
  <2> DEFINE c == <<<<i, m>>, <<m, j>>>>
  <2>1. c \in {d \in t \X t : /\ d[1][2] = d[2][1]
                              /\ d[1][1] # d[1][2]
                              /\ d[2][1] # d[2][2]}
    BY <1>2
  <2>2. <<c[1][1], c[2][2]>> = <<i, j>>
    OBVIOUS
  <2>3. <<i, j>> \notin SubInclusions(t)
    OBVIOUS
  <2> QED
    BY <2>1, <2>2, <2>3 DEF SubInclusions
<1>3. QED
  BY <1>1, <1>2

LEMMA InclusionsElement ==
  ASSUME NEW tab, NEW i, NEW j
  PROVE  <<i, j>> \in Inclusions(tab)
           <=> /\ i \in DOMAIN tab
               /\ j \in DOMAIN tab
               /\ tab[i].class = tab[j].scope
BY DEF Inclusions

-----------------------------------------------------------------------------
(* The loop neither goes beyond what is reachable nor stops short of it.   *)

LEMMA InclusionsReachable ==
  ASSUME NEW tab
  PROVE  Inclusions(tab) \subseteq Reachable(tab)
<1> SUFFICES ASSUME NEW i \in DOMAIN tab, NEW j \in DOMAIN tab,
                    <<i, j>> \in Inclusions(tab)
             PROVE  <<i, j>> \in Reachable(tab)
  BY ReachableType
<1>1. tab[i].class = tab[j].scope
  BY InclusionsElement
<1>2. \A F \in ClosedFrom(tab, tab[i].class) : tab[j].scope \in F
  BY <1>1 DEF ClosedFrom
<1>3. QED
  BY <1>2, ReachableElement

LEMMA StepReachable ==
  ASSUME NEW tab, NEW t \in SUBSET Reachable(tab)
  PROVE  SubInclusions(t) \subseteq Reachable(tab)
<1> DEFINE ids == DOMAIN tab
<1>1. t \in SUBSET (ids \X ids)
  BY ReachableType
<1> SUFFICES ASSUME NEW p \in SubInclusions(t)
             PROVE  p \in Reachable(tab)
  OBVIOUS
<1>2. PICK m \in ids : /\ p \in ids \X ids
                       /\ <<p[1], m>> \in t
                       /\ <<m, p[2]>> \in t
  BY <1>1, SubInclusionsElement
<1>3. ASSUME NEW F \in ClosedFrom(tab, tab[p[1]].class)
      PROVE  tab[p[2]].scope \in F
  <2>1. tab[m].scope \in F
    BY <1>2, ReachableElement
  <2>2. tab[m].class \in F
    BY <2>1 DEF ClosedFrom
  <2>3. F \in ClosedFrom(tab, tab[m].class)
    <3>1. tab[p[1]].class \in NamesOf(tab)
      BY <1>2 DEF NamesOf
    <3>2. F \subseteq NamesOf(tab)
      BY <3>1 DEF ClosedFrom
    <3>3. QED
      BY <2>2, <3>2 DEF ClosedFrom
  <2>4. QED
    BY <1>2, <2>3, ReachableElement
<1>4. p = <<p[1], p[2]>> /\ p[1] \in ids /\ p[2] \in ids
  BY <1>2
<1>5. QED
  BY <1>3, <1>4, ReachableElement

LEMMA ReachableWhenClosed ==
  ASSUME NEW tab, NEW t \in SUBSET Reachable(tab),
         Inclusions(tab) \subseteq t, SubInclusions(t) = {}
  PROVE  t = Reachable(tab)
<1> DEFINE ids == DOMAIN tab
<1>1. t \in SUBSET (ids \X ids)
  BY ReachableType
<1> SUFFICES ASSUME NEW i \in ids, NEW j \in ids, <<i, j>> \in Reachable(tab)
             PROVE  <<i, j>> \in t
  BY ReachableType
<1> DEFINE F == {tab[i].class} \cup {tab[m].class : m \in {k \in ids : <<i, k>> \in t}}
<1>2. ASSUME NEW r \in ids, tab[r].scope \in F
      PROVE  <<i, r>> \in t
  <2>1. CASE tab[r].scope = tab[i].class
    BY <2>1, InclusionsElement
  <2>2. CASE \E m \in ids : <<i, m>> \in t /\ tab[r].scope = tab[m].class
    <3>1. PICK m \in ids : <<i, m>> \in t /\ tab[r].scope = tab[m].class
      BY <2>2
    <3>2. <<m, r>> \in t
      BY <3>1, InclusionsElement
    <3>3. QED
      BY <1>1, <3>1, <3>2, NothingToAdd
  <2>3. QED
    BY <1>2, <2>1, <2>2
<1>3. F \in ClosedFrom(tab, tab[i].class)
  <2>1. F \subseteq NamesOf(tab) \cup {tab[i].class}
    BY DEF NamesOf
  <2>2. \A r \in ids : tab[r].scope \in F => tab[r].class \in F
    BY <1>2
  <2>3. QED
    BY <2>1, <2>2 DEF ClosedFrom
<1>4. tab[j].scope \in F
  BY <1>3, ReachableElement
<1>5. QED
  BY <1>2, <1>4
-----------------------------------------------------------------------------
(* Links.                                                                  *)

LEMMA SubLinksMonotone ==
  ASSUME NEW s, NEW t, s \subseteq t, NEW ls
  PROVE  SubLinks(ls, s) \subseteq SubLinks(ls, t)
BY DEF SubLinks

LEMMA PlainLinksType ==
  ASSUME NEW tl, IsTable(tl, ListIds, ListRow),
         NEW td, IsTable(td, DeclIds, DeclRow)
  PROVE  PlainLinks(tl, td) \subseteq Link
BY DEF PlainLinks, IsTable, Link

LEMMA SubLinksType ==
  ASSUME NEW ls \in SUBSET Link, NEW t \in SUBSET (ListIds \X ListIds)
  PROVE  SubLinks(ls, t) \subseteq Link
BY DEF SubLinks, Link

LEMMA SubInclusionsType ==
  ASSUME NEW ids, NEW t \in SUBSET (ids \X ids)
  PROVE  SubInclusions(t) \subseteq ids \X ids
BY SubInclusionsElement

LEMMA InclusionsType ==
  ASSUME NEW tl, IsTable(tl, ListIds, ListRow)
  PROVE  /\ Inclusions(tl) \subseteq ListIds \X ListIds
         /\ Reachable(tl) \subseteq ListIds \X ListIds
<1>1. DOMAIN tl \subseteq ListIds
  BY DEF IsTable
<1>2. QED
  BY <1>1, ReachableType

-----------------------------------------------------------------------------
(* What the rows of the link tables are at each statement.                 *)

Closing == {"Insert", "Probe", "Sub", "Commit"}

StepInv ==
  /\ pc \notin {"Idle", "Failed"} => [list |-> list, decl |-> decl] \in Tables
  /\ pc \in {"ClearLinks", "Plain", "Include"} => temp = {}
  /\ pc = "Plain" => links = {}
  /\ pc \in {"Include", "Insert", "Probe", "Sub"} =>
       links = PlainLinks(list, decl)
  /\ pc \in Closing => /\ Inclusions(list) \subseteq temp
                       /\ temp \subseteq Reachable(list)
  /\ pc \in {"Sub", "Commit"} /\ "step" \notin Faults => SubInclusions(temp) = {}
  /\ pc = "Commit" =>
       links = PlainLinks(list, decl) \cup SubLinks(PlainLinks(list, decl), temp)

IInv ==
  /\ TypeOK
  /\ StepInv
  /\ LinksSound
  /\ "step" \notin Faults => LinksCorrect

LEMMA NoRowsType ==
  /\ DOMAIN NoRows = {}
  /\ \A ids, rows : IsTable(NoRows, ids, rows)
<1>1. DOMAIN NoRows = {} /\ NoRows = [i \in DOMAIN NoRows |-> NoRows[i]]
  BY DEF NoRows
<1>2. QED
  BY <1>1 DEF IsTable

LEMMA InitTypeOK == Init => TypeOK
<1> SUFFICES ASSUME Init
             PROVE  TypeOK
  OBVIOUS
<1>1. committed = [list |-> NoRows, decl |-> NoRows, links |-> {}, temp |-> {}]
  BY DEF Init
<1>2. /\ IsTable(committed.list, ListIds, ListRow)
      /\ IsTable(committed.decl, DeclIds, DeclRow)
      /\ committed.links = {} /\ committed.temp = {}
      /\ committed = [list |-> committed.list, decl |-> committed.decl,
                      links |-> committed.links, temp |-> committed.temp]
  BY <1>1, NoRowsType
<1>3. IsTable(list, ListIds, ListRow) /\ IsTable(decl, DeclIds, DeclRow)
  BY NoRowsType DEF Init
<1>4. QED
  BY <1>2, <1>3 DEF Init, TypeOK

(* The values of every variable are of their types, faults or not.         *)
THEOREM TypeCorrect == Spec => []TypeOK
<1>1. Init => TypeOK
  BY InitTypeOK
<1>2. TypeOK /\ [Next]_vars => TypeOK'
  <2> SUFFICES ASSUME TypeOK, [Next]_vars
               PROVE  TypeOK'
    OBVIOUS
  <2> USE DEF TypeOK, Exec
  <2>1. CASE Scan
    BY <2>1, TablesAssumption, MaxScansAssumption DEF Scan
  <2>2. CASE ClearTemp
    BY <2>2 DEF ClearTemp
  <2>3. CASE ClearLinks
    BY <2>3 DEF ClearLinks
  <2>4. CASE InsertPlain
    BY <2>4, PlainLinksType DEF InsertPlain
  <2>5. CASE InsertInclusions
    BY <2>5, InclusionsType DEF InsertInclusions
  <2>6. CASE InsertSubInclusions
    BY <2>6, SubInclusionsType DEF InsertSubInclusions
  <2>7. CASE Probe
    BY <2>7 DEF Probe, tables
  <2>8. CASE InsertSubLinks
    BY <2>8, SubLinksType DEF InsertSubLinks
  <2>9. CASE Commit
    BY <2>9 DEF Commit, tables
  <2>10. CASE ProbeStepFails
    BY <2>10 DEF ProbeStepFails, tables
  <2>11. CASE StatementFails
    BY <2>11 DEF StatementFails, tables
  <2>12. CASE StatementRollsBack
    BY <2>12 DEF StatementRollsBack
  <2>13. CASE Reload
    BY <2>13, NoRowsType DEF Reload
  <2>14. CASE UNCHANGED vars
    BY <2>14 DEF vars
  <2>15. QED
    BY <2>1, <2>2, <2>3, <2>4, <2>5, <2>6, <2>7, <2>8, <2>9, <2>10, <2>11,
       <2>12, <2>13, <2>14 DEF Next, Step
<1>3. QED
  BY <1>1, <1>2, PTL DEF Spec

LEMMA CommitCorrect ==
  ASSUME TypeOK, StepInv, pc = "Commit"
  PROVE  /\ links \subseteq AllLinks(list, decl)
         /\ "step" \notin Faults => links = AllLinks(list, decl)
<1>1. links = PlainLinks(list, decl) \cup SubLinks(PlainLinks(list, decl), temp)
  BY DEF StepInv
<1>2. temp \subseteq Reachable(list) /\ Inclusions(list) \subseteq temp
  BY DEF StepInv, Closing
<1>3. links \subseteq AllLinks(list, decl)
  BY <1>1, <1>2, SubLinksMonotone DEF AllLinks
<1>4. ASSUME "step" \notin Faults
      PROVE  temp = Reachable(list)
  BY <1>2, <1>4, ReachableWhenClosed DEF StepInv
<1>5. QED
  BY <1>1, <1>3, <1>4 DEF AllLinks

LEMMA EmptyLinks == AllLinks(NoRows, NoRows) = {}
<1>1. PlainLinks(NoRows, NoRows) = {} /\ Reachable(NoRows) = {}
  BY NoRowsType DEF PlainLinks, Reachable
<1>2. QED
  BY <1>1 DEF AllLinks, SubLinks

LEMMA StepInvInductive ==
  ASSUME TypeOK, StepInv, [Next]_vars
  PROVE  StepInv'
<1> USE DEF StepInv, Closing, Exec
<1>1. CASE Scan
  BY <1>1, TablesAssumption DEF Scan
<1>2. CASE ClearTemp
  BY <1>2 DEF ClearTemp
<1>3. CASE ClearLinks
  BY <1>3 DEF ClearLinks
<1>4. CASE InsertPlain
  BY <1>4 DEF InsertPlain
<1>5. CASE InsertInclusions
  BY <1>5, InclusionsReachable DEF InsertInclusions
<1>6. CASE InsertSubInclusions
  <2>1. SubInclusions(temp) \subseteq Reachable(list)
    BY <1>6, StepReachable DEF InsertSubInclusions
  <2>2. QED
    BY <1>6, <2>1 DEF InsertSubInclusions
<1>7. CASE Probe
  BY <1>7 DEF Probe, tables
<1>8. CASE InsertSubLinks
  BY <1>8 DEF InsertSubLinks
<1>9. CASE Commit
  BY <1>9 DEF Commit, tables
<1>10. CASE ProbeStepFails
  BY <1>10 DEF ProbeStepFails, tables
<1>11. CASE StatementFails
  BY <1>11 DEF StatementFails, tables
<1>12. CASE StatementRollsBack
  BY <1>12 DEF StatementRollsBack
<1>13. CASE Reload
  BY <1>13 DEF Reload
<1>14. CASE UNCHANGED vars
  BY <1>14 DEF vars
<1>15. QED
  BY <1>1, <1>2, <1>3, <1>4, <1>5, <1>6, <1>7, <1>8, <1>9, <1>10, <1>11,
     <1>12, <1>13, <1>14 DEF Next, Step

LEMMA CommittedInductive ==
  ASSUME TypeOK, StepInv, LinksSound, "step" \notin Faults => LinksCorrect,
         [Next]_vars
  PROVE  LinksSound' /\ ("step" \notin Faults => LinksCorrect')
<1> USE DEF LinksSound, LinksCorrect
<1>1. CASE Commit
  <2>1. /\ committed'.list = list
        /\ committed'.decl = decl
        /\ committed'.links = links
    BY <1>1 DEF Commit
  <2>2. QED
    BY <1>1, <2>1, CommitCorrect DEF Commit
<1>2. CASE Reload
  <2>1. /\ committed'.list = NoRows
        /\ committed'.decl = NoRows
        /\ committed'.links = {}
    BY <1>2 DEF Reload
  <2>2. QED
    BY <2>1, EmptyLinks
<1>3. CASE ~Commit /\ ~Reload
  <2>1. committed' = committed
    BY <1>3 DEF Next, Step, vars, Scan, ClearTemp, ClearLinks, InsertPlain,
       InsertInclusions, InsertSubInclusions, Probe, InsertSubLinks,
       ProbeStepFails, StatementFails, StatementRollsBack
  <2>2. QED
    BY <2>1
<1>4. QED
  BY <1>1, <1>2, <1>3

LEMMA Invariance == Spec => []IInv
<1>1. Init => IInv
  <2> SUFFICES ASSUME Init
               PROVE  IInv
    OBVIOUS
  <2>1. TypeOK
    BY InitTypeOK
  <2>2. StepInv
    BY DEF Init, StepInv, Closing
  <2>3. LinksSound /\ LinksCorrect
    BY EmptyLinks DEF Init, LinksSound, LinksCorrect
  <2>4. QED
    BY <2>1, <2>2, <2>3 DEF IInv
<1>2. TypeOK /\ TypeOK' /\ IInv /\ [Next]_vars => IInv'
  BY StepInvInductive, CommittedInductive DEF IInv
<1>3. QED
  BY <1>1, <1>2, TypeCorrect, PTL DEF Spec

(* No committed link is one that no chain of inclusions calls for,         *)
(* whatever the tables and whichever statement of CleanupDeadLinks fails.  *)
THEOREM LinksAlwaysSound == Spec => []LinksSound
<1>1. IInv => LinksSound
  BY DEF IInv
<1>2. QED
  BY <1>1, Invariance, PTL

(* Unless sqlite3_step fails in the probe, CleanupDeadLinks commits exactly *)
(* the links the objects and declarations call for, for any tables.        *)
THEOREM LinksAlwaysCorrect ==
  ASSUME "step" \notin Faults
  PROVE  Spec => []LinksCorrect
<1>1. IInv => LinksCorrect
  BY DEF IInv
<1>2. QED
  BY <1>1, Invariance, PTL

LEMMA SameQueries ==
  /\ Promise!NoRows = NoRows
  /\ \A tl, td : Promise!AllLinks(tl, td) = AllLinks(tl, td)
BY DEF Promise!NoRows, NoRows, Promise!AllLinks, AllLinks,
   Promise!PlainLinks, PlainLinks, Promise!SubLinks, SubLinks,
   Promise!Reachable, Reachable, Promise!VisibleFiles, VisibleFiles,
   Promise!ClosedFrom, ClosedFrom, Promise!NamesOf, NamesOf

(* Under the same condition an update implements the one-step promise.     *)
THEOREM UpdatesAtomic ==
  ASSUME "step" \notin Faults
  PROVE  Spec => AtomicUpdate
<1> DEFINE view == <<committed.list, committed.decl, committed.links>>
<1>1. Init => Promise!Empty
  BY SameQueries DEF Init, Promise!Empty
<1>2. IInv /\ [Next]_vars => [Promise!Update \/ Promise!Initialise]_view
  <2> SUFFICES ASSUME IInv, [Next]_vars
               PROVE  \/ Promise!Update \/ Promise!Initialise
                      \/ UNCHANGED view
    OBVIOUS
  <2>1. CASE Commit
    <3>1. /\ committed'.list = list
          /\ committed'.decl = decl
          /\ committed'.links = AllLinks(list, decl)
      BY <2>1, CommitCorrect DEF Commit, IInv
    <3>2. [list |-> list, decl |-> decl] \in Tables
      BY <2>1 DEF Commit, IInv, StepInv
    <3>3. QED
      BY <3>1, <3>2, SameQueries DEF Promise!Update
  <2>2. CASE Reload
    BY <2>2, SameQueries DEF Reload, Promise!Initialise, Promise!Empty
  <2>3. CASE ~Commit /\ ~Reload
    BY <2>3 DEF Next, Step, vars, Scan, ClearTemp, ClearLinks, InsertPlain,
       InsertInclusions, InsertSubInclusions, Probe, InsertSubLinks,
       ProbeStepFails, StatementFails, StatementRollsBack
  <2>4. QED
    BY <2>1, <2>2, <2>3
<1>3. QED
  BY <1>1, <1>2, Invariance, PTL DEF Spec, AtomicUpdate, Promise!Spec

-----------------------------------------------------------------------------
(* What auto-completion offers.                                            *)

(* For any tables, a sequence file is offered exactly the declarations of  *)
(* the classes mentioned in the files it includes, directly or not.        *)
THEOREM IncludesOffered ==
  ASSUME "step" \notin Faults
  PROVE  Spec => []ImplicitIncludes
<1>1. LinksCorrect => ImplicitIncludes
  <2> SUFFICES ASSUME LinksCorrect, NEW file \in Names, NEW p
               PROVE  p \in Offered(committed.list, committed.links, file)
                        <=> /\ p \in (DOMAIN committed.list) \X (DOMAIN committed.decl)
                            /\ committed.list[p[1]].class = committed.decl[p[2]].class
                            /\ committed.list[p[1]].scope \in
                                  VisibleFiles(committed.list, file)
    BY Zenon DEF ImplicitIncludes
  <2> DEFINE tl == committed.list
             td == committed.decl
  <2>1. committed.links = AllLinks(tl, td)
    BY DEF LinksCorrect
  <2> HIDE DEF tl, td
  <2>2. QED
    BY <2>1, OfferedVisible DEF tl, td
<1>2. QED
  BY <1>1, LinksAlwaysCorrect, PTL
=============================================================================
