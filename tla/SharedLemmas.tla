---------------------------- MODULE SharedLemmas ----------------------------
(***************************************************************************)
(* What the proofs about several modules rest on: induction over the       *)
(* natural numbers, stated for sets of numbers rather than for predicates, *)
(* and the queries of the intelisense tables, element by element.          *)
(***************************************************************************)
EXTENDS IntelisenseTables, WellFoundedInduction, TLAPS

Less == {p \in Nat \X Nat : p[1] < p[2]}

(* "Less than" has no infinite descent.                                    *)
LEMMA LessWellFounded == IsWellFoundedOn(Less, Nat)
<1>1. Less = OpToRel(<, Nat)
  BY Zenon DEF Less, OpToRel
<1> QED
  BY <1>1, NatLessThanWellFounded, Zenon

(* Numbers that are not none have a least one, ...                         *)
LEMMA LeastElement ==
  ASSUME NEW S \in SUBSET Nat, S # {}
  PROVE  \E m \in S : \A n \in S : m <= n
<1>1. \E m \in S : \A n \in S : <<n, m>> \notin Less
  BY LessWellFounded, WFMin
<1>2. ASSUME NEW m \in S, NEW n \in S, <<n, m>> \notin Less
      PROVE  m <= n
  BY <1>2 DEF Less
<1> QED
  BY <1>1, <1>2, Zenon

(* ... and a greatest one if there is a bound.                             *)
LEMMA GreatestElement ==
  ASSUME NEW b \in Nat, NEW S \in SUBSET (0 .. b), S # {}
  PROVE  \E m \in S : \A n \in S : n <= m
<1> DEFINE T == {k \in 0 .. b : b - k \in S}
<1>1. \A m \in S : b - m \in T
  BY Z3
<1>2. T \in SUBSET Nat /\ T # {}
  <2>1. PICK m \in S : TRUE
    OBVIOUS
  <2>2. b - m \in T
    BY <1>1
  <2>3. T \in SUBSET Nat
    OBVIOUS
  <2> QED
    BY <2>2, <2>3, Zenon
<1>3. PICK k \in T : \A l \in T : k <= l
  <2> HIDE DEF T
  <2> QED
    BY <1>2, LeastElement
<1>4. \A n \in S : n <= b - k
  <2> SUFFICES ASSUME NEW n \in S PROVE n <= b - k
    OBVIOUS
  <2>1. k <= b - n
    BY <1>1, <1>3
  <2> QED
    BY <2>1
<1> QED
  BY <1>4

(* A set with 0 in it and, with each number below b, the next one.         *)
LEMMA UpTo ==
  ASSUME NEW b \in Nat, NEW S \in SUBSET Nat, 0 \in S,
         \A n \in Nat : n < b /\ n \in S => n + 1 \in S
  PROVE  b \in S
<1> DEFINE T == (0 .. b) \ S
<1> SUFFICES ASSUME T # {} PROVE FALSE
  OBVIOUS
<1>1. PICK m \in T : \A n \in T : m <= n
  <2>1. T \in SUBSET Nat
    OBVIOUS
  <2> HIDE DEF T
  <2> QED
    BY <2>1, LeastElement
<1>2. m # 0 /\ m - 1 \in 0 .. b
  OBVIOUS
<1>3. m - 1 \in S
  BY <1>1, <1>2
<1> QED
  BY <1>2, <1>3

-----------------------------------------------------------------------------
(* The pairs are pairs of rows.                                            *)
LEMMA ReachableType ==
  ASSUME NEW tab
  PROVE  /\ Reachable(tab) \subseteq (DOMAIN tab) \X (DOMAIN tab)
         /\ Inclusions(tab) \subseteq (DOMAIN tab) \X (DOMAIN tab)
BY DEF Reachable, Inclusions

LEMMA ReachableElement ==
  ASSUME NEW tab, NEW i, NEW j
  PROVE  <<i, j>> \in Reachable(tab)
           <=> /\ i \in DOMAIN tab
               /\ j \in DOMAIN tab
               /\ \A F \in ClosedFrom(tab, tab[i].class) : tab[j].scope \in F
<1>1. <<i, j>> \in Reachable(tab)
        <=> /\ i \in DOMAIN tab
            /\ j \in DOMAIN tab
            /\ tab[j].scope \in VisibleFiles(tab, tab[i].class)
  BY DEF Reachable
<1>2. j \in DOMAIN tab => tab[j].scope \in NamesOf(tab)
  BY DEF NamesOf
<1>3. QED
  BY <1>1, <1>2 DEF VisibleFiles

LEMMA VisibleElement ==
  ASSUME NEW tab, NEW file, NEW r \in DOMAIN tab
  PROVE  tab[r].scope \in VisibleFiles(tab, file)
           <=> \A F \in ClosedFrom(tab, file) : tab[r].scope \in F
BY DEF VisibleFiles, NamesOf

(* A file sees what the class of each of its objects sees, and, itself     *)
(* aside, nothing else.                                                    *)
LEMMA VisibleThroughObjects ==
  ASSUME NEW tab, NEW file, NEW r \in DOMAIN tab, tab[r].scope # file
  PROVE  tab[r].scope \in VisibleFiles(tab, file)
           <=> \E i \in DOMAIN tab : /\ tab[i].scope = file
                                    /\ <<i, r>> \in Reachable(tab)
<1> DEFINE Sees(i, f) == \A F \in ClosedFrom(tab, tab[i].class) : f \in F
           G == {file} \cup {f \in NamesOf(tab) :
                  \E i \in DOMAIN tab : tab[i].scope = file /\ Sees(i, f)}
<1>1. ASSUME NEW i \in DOMAIN tab, tab[i].scope = file,
             <<i, r>> \in Reachable(tab)
      PROVE  tab[r].scope \in VisibleFiles(tab, file)
  <2> SUFFICES ASSUME NEW F \in ClosedFrom(tab, file)
               PROVE  tab[r].scope \in F
    BY VisibleElement
  <2>1. tab[i].class \in F
    BY <1>1 DEF ClosedFrom
  <2>2. file \in NamesOf(tab)
    BY <1>1 DEF NamesOf
  <2>3. F \in ClosedFrom(tab, tab[i].class)
    BY <2>1, <2>2 DEF ClosedFrom
  <2>4. QED
    BY <1>1, <2>3, ReachableElement
<1>2. ASSUME NEW a \in DOMAIN tab, tab[a].scope \in G
      PROVE  tab[a].class \in G
  <2>0. tab[a].class \in NamesOf(tab)
    BY DEF NamesOf
  <2>1. CASE tab[a].scope = file
    <3>1. Sees(a, tab[a].class)
      BY DEF ClosedFrom
    <3>2. QED
      BY <2>0, <2>1, <3>1
  <2>2. CASE tab[a].scope # file
    <3>1. PICK i \in DOMAIN tab : tab[i].scope = file /\ Sees(i, tab[a].scope)
      BY <1>2, <2>2
    <3>2. Sees(i, tab[a].class)
      BY <3>1 DEF ClosedFrom
    <3>3. QED
      BY <2>0, <3>1, <3>2
  <2>3. QED
    BY <2>1, <2>2
<1>3. G \in ClosedFrom(tab, file)
  BY <1>2 DEF ClosedFrom
<1>4. ASSUME tab[r].scope \in VisibleFiles(tab, file)
      PROVE  \E i \in DOMAIN tab : /\ tab[i].scope = file
                                  /\ <<i, r>> \in Reachable(tab)
  <2>1. tab[r].scope \in G
    BY <1>3, <1>4, VisibleElement
  <2>2. QED
    BY <2>1, ReachableElement
<1>5. QED
  BY <1>1, <1>4

LEMMA SubLinksElement ==
  ASSUME NEW ls, NEW t, NEW l
  PROVE  l \in SubLinks(ls, t)
           <=> \E e \in t, k \in ls :
                 /\ e[2] = k.list
                 /\ l = [list |-> e[1], decl |-> k.decl, rel |-> e[2]]
<1> DEFINE joined == {d \in t \X ls : d[1][2] = d[2].list}
           value(c) == [list |-> c[1][1], decl |-> c[2].decl, rel |-> c[1][2]]
<1>1. SubLinks(ls, t) = {value(c) : c \in joined}
  BY DEF SubLinks
<1>2. ASSUME NEW c \in joined
      PROVE  c[1] \in t /\ c[2] \in ls /\ c[1][2] = c[2].list
  OBVIOUS
<1>3. ASSUME NEW e \in t, NEW k \in ls, e[2] = k.list
      PROVE  /\ <<e, k>> \in joined
             /\ value(<<e, k>>) = [list |-> e[1], decl |-> k.decl, rel |-> e[2]]
  BY <1>3
<1>4. ASSUME l \in SubLinks(ls, t)
      PROVE  \E e \in t, k \in ls :
               e[2] = k.list /\ l = [list |-> e[1], decl |-> k.decl, rel |-> e[2]]
  <2>1. PICK c \in joined : l = value(c)
    BY <1>1, <1>4
  <2> QED
    BY <1>2, <2>1
<1> HIDE DEF joined, value
<1>5. QED
  BY <1>1, <1>3, <1>4

LEMMA OfferedElement ==
  ASSUME NEW tl, NEW td, NEW file, NEW p
  PROVE  p \in Offered(tl, AllLinks(tl, td), file)
           <=> /\ p \in (DOMAIN tl) \X (DOMAIN td)
               /\ tl[p[1]].class = td[p[2]].class
               /\ \/ tl[p[1]].scope = file
                  \/ \E i \in DOMAIN tl : /\ tl[i].scope = file
                                          /\ <<i, p[1]>> \in Reachable(tl)
<1> DEFINE plain == PlainLinks(tl, td)
           sub == SubLinks(plain, Reachable(tl))
           matching == {q \in (DOMAIN tl) \X (DOMAIN td) :
                          tl[q[1]].class = td[q[2]].class}
<1>1. \A l : l \in plain
        <=> \E q \in matching : l = [list |-> q[1], decl |-> q[2], rel |-> q[1]]
  BY DEF PlainLinks
<1>2. \A l : l \in sub
        <=> \E e \in Reachable(tl), q \in matching :
              /\ e[2] = q[1]
              /\ l = [list |-> e[1], decl |-> q[2], rel |-> e[2]]
  <2>1. ASSUME NEW l \in sub
        PROVE  \E e \in Reachable(tl), q \in matching :
                 /\ e[2] = q[1]
                 /\ l = [list |-> e[1], decl |-> q[2], rel |-> e[2]]
    <3>1. PICK e \in Reachable(tl), k \in plain :
                 /\ e[2] = k.list
                 /\ l = [list |-> e[1], decl |-> k.decl, rel |-> e[2]]
      BY SubLinksElement
    <3>2. PICK q \in matching : k = [list |-> q[1], decl |-> q[2], rel |-> q[1]]
      BY <1>1
    <3>3. k.list = q[1] /\ k.decl = q[2]
      BY <3>2
    <3>4. QED
      BY <3>1, <3>3
  <2>2. ASSUME NEW e \in Reachable(tl), NEW q \in matching, e[2] = q[1]
        PROVE  [list |-> e[1], decl |-> q[2], rel |-> e[2]] \in sub
    <3> DEFINE k == [list |-> q[1], decl |-> q[2], rel |-> q[1]]
    <3>1. k \in plain
      BY <1>1
    <3>2. e[2] = k.list /\ k.decl = q[2]
      BY <2>2
    <3>3. QED
      BY <3>1, <3>2, SubLinksElement
  <2>3. QED
    BY <2>1, <2>2
<1>3. ASSUME NEW l \in plain, tl[l.list].scope = file, p = <<l.rel, l.decl>>
      PROVE  p \in matching /\ tl[p[1]].scope = file
  BY <1>1, <1>3
<1>4. ASSUME NEW l \in sub, tl[l.list].scope = file, p = <<l.rel, l.decl>>
      PROVE  /\ p \in matching
             /\ \E i \in DOMAIN tl : /\ tl[i].scope = file
                                     /\ <<i, p[1]>> \in Reachable(tl)
  <2>1. PICK e \in Reachable(tl), q \in matching :
              /\ e[2] = q[1]
              /\ l = [list |-> e[1], decl |-> q[2], rel |-> e[2]]
    BY <1>2, <1>4
  <2>2. e = <<e[1], e[2]>> /\ e[1] \in DOMAIN tl
    BY ReachableType
  <2>3. p = <<e[2], q[2]>> /\ q = <<q[1], q[2]>> /\ l.list = e[1]
    BY <1>4, <2>1
  <2>4. p = q
    BY <2>1, <2>3
  <2>5. QED
    BY <1>4, <2>1, <2>2, <2>3, <2>4
<1>5. ASSUME p \in matching, tl[p[1]].scope = file
      PROVE  \E l \in plain : tl[l.list].scope = file /\ p = <<l.rel, l.decl>>
  <2> DEFINE l == [list |-> p[1], decl |-> p[2], rel |-> p[1]]
  <2>1. l \in plain
    BY <1>1, <1>5
  <2>2. p = <<l.rel, l.decl>> /\ l.list = p[1]
    BY <1>5
  <2>3. QED
    BY <1>5, <2>1, <2>2
<1>6. ASSUME p \in matching, NEW i \in DOMAIN tl, tl[i].scope = file,
             <<i, p[1]>> \in Reachable(tl)
      PROVE  \E l \in sub : tl[l.list].scope = file /\ p = <<l.rel, l.decl>>
  <2> DEFINE l == [list |-> i, decl |-> p[2], rel |-> p[1]]
             e == <<i, p[1]>>
  <2>1. e[1] = i /\ e[2] = p[1]
    OBVIOUS
  <2>2. l \in sub
    BY <1>2, <1>6, <2>1
  <2>3. p = <<l.rel, l.decl>> /\ l.list = i
    BY <1>6
  <2>4. QED
    BY <1>6, <2>2, <2>3
<1>7. p \in Offered(tl, AllLinks(tl, td), file)
        <=> \E l \in plain \cup sub :
              tl[l.list].scope = file /\ p = <<l.rel, l.decl>>
  BY DEF Offered, AllLinks
<1>8. QED
  BY <1>3, <1>4, <1>5, <1>6, <1>7

(* With the links it calls for, a file is offered the declarations of the  *)
(* objects mentioned in the files that it sees.                            *)
LEMMA OfferedVisible ==
  ASSUME NEW tl, NEW td, NEW file, NEW p
  PROVE  p \in Offered(tl, AllLinks(tl, td), file)
           <=> /\ p \in (DOMAIN tl) \X (DOMAIN td)
               /\ tl[p[1]].class = td[p[2]].class
               /\ tl[p[1]].scope \in VisibleFiles(tl, file)
<1>1. ASSUME NEW r \in DOMAIN tl
      PROVE  tl[r].scope \in VisibleFiles(tl, file)
               <=> \/ tl[r].scope = file
                   \/ \E i \in DOMAIN tl : /\ tl[i].scope = file
                                           /\ <<i, r>> \in Reachable(tl)
  <2>1. CASE tl[r].scope = file
    BY <2>1, VisibleElement DEF ClosedFrom
  <2>2. CASE tl[r].scope # file
    BY <2>2, VisibleThroughObjects
  <2> QED
    BY <2>1, <2>2
<1>2. p \in (DOMAIN tl) \X (DOMAIN td) => p[1] \in DOMAIN tl
  OBVIOUS
<1> QED
  BY <1>1, <1>2, OfferedElement

=============================================================================
