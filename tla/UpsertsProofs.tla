--------------------------- MODULE UpsertsProofs ---------------------------
(***************************************************************************)
(* The invariants of Upserts hold for all sources and texts, and rows      *)
(* with ids implement the keyed table.                                     *)
(***************************************************************************)
EXTENDS Upserts, SequenceTheorems, FiniteSetTheorems, TLAPS

Shared == INSTANCE SharedLemmas

LEMMA MinIsLeast ==
  ASSUME NEW S \in SUBSET Nat, S # {}
  PROVE  Min(S) \in S /\ \A n \in S : Min(S) <= n
<1>1. \E m \in S : \A n \in S : m =< n
  BY Shared!LeastElement
<1> QED
  BY <1>1, Zenon DEF Min

LEMMA MinUnique ==
  ASSUME NEW S \in SUBSET Nat, NEW m \in S, \A n \in S : m <= n
  PROVE  Min(S) = m
<1>1. Min(S) \in S /\ \A n \in S : Min(S) <= n
  BY MinIsLeast
<1>2. Min(S) <= m /\ m <= Min(S)
  BY <1>1, Zenon
<1>3. Min(S) \in Nat /\ m \in Nat
  BY <1>1
<1> QED
  BY <1>2, <1>3

LEMMA MaxIsGreatest ==
  ASSUME NEW b \in Nat, NEW S \in SUBSET (0 .. b), S # {}
  PROVE  Max(S) \in S /\ \A n \in S : n <= Max(S)
<1>1. \E m \in S : \A n \in S : m >= n
  BY Shared!GreatestElement
<1> QED
  <2>1. Max(S) \in S /\ \A n \in S : Max(S) >= n
    BY <1>1, Zenon DEF Max
  <2> QED
    BY <2>1

(* A suffix, by its elements.                                              *)
LEMMA SuffixByElement ==
  ASSUME NEW A, NEW s \in Seq(A), NEW t \in Seq(A)
  PROVE  IsSuffix(s, t) <=>
           /\ Len(s) <= Len(t)
           /\ \A i \in 1 .. Len(s) : s[i] = t[i + (Len(t) - Len(s))]
<1> DEFINE rs == Reverse(s)
           rt == Reverse(t)
<1>1. /\ Len(rs) = Len(s) /\ \A i \in 1 .. Len(s) : rs[i] = s[Len(s) - i + 1]
      /\ Len(rt) = Len(t) /\ \A i \in 1 .. Len(t) : rt[i] = t[Len(t) - i + 1]
      /\ rs \in Seq(A) /\ rt \in Seq(A)
  BY DEF Reverse
<1>2. IsSuffix(s, t) <=> Len(s) <= Len(t) /\ SubSeq(rs, 1, Len(s)) = SubSeq(rt, 1, Len(s))
  BY <1>1 DEF IsSuffix, IsPrefix
<1>3. ASSUME Len(s) <= Len(t)
      PROVE  SubSeq(rs, 1, Len(s)) = SubSeq(rt, 1, Len(s))
               <=> \A i \in 1 .. Len(s) : rs[i] = rt[i]
  <2> HIDE DEF rs, rt
  <2>1. /\ SubSeq(rs, 1, Len(s)) = [i \in 1 .. Len(s) |-> rs[i]]
        /\ SubSeq(rt, 1, Len(s)) = [i \in 1 .. Len(s) |-> rt[i]]
    BY <1>1, <1>3
  <2> QED
    BY <2>1
<1>4. ASSUME Len(s) <= Len(t)
      PROVE  (\A i \in 1 .. Len(s) : rs[i] = rt[i])
               <=> \A i \in 1 .. Len(s) : s[i] = t[i + (Len(t) - Len(s))]
  <2> HIDE DEF rs, rt
  <2>1. ASSUME NEW i \in 1 .. Len(s), \A j \in 1 .. Len(s) : rs[j] = rt[j]
        PROVE  s[i] = t[i + (Len(t) - Len(s))]
    <3>1. Len(s) - i + 1 \in 1 .. Len(s) /\ Len(s) - i + 1 \in 1 .. Len(t)
      BY <1>4
    <3>2. rs[Len(s) - i + 1] = s[i]
      <4>1. rs[Len(s) - i + 1] = s[Len(s) - (Len(s) - i + 1) + 1]
        BY <1>1, <3>1
      <4> QED
        BY <4>1
    <3>3. rt[Len(s) - i + 1] = t[i + (Len(t) - Len(s))]
      BY <1>1, <3>1
    <3> QED
      BY <2>1, <3>1, <3>2, <3>3
  <2>2. ASSUME NEW i \in 1 .. Len(s),
               \A j \in 1 .. Len(s) : s[j] = t[j + (Len(t) - Len(s))]
        PROVE  rs[i] = rt[i]
    <3>1. Len(s) - i + 1 \in 1 .. Len(s) /\ i \in 1 .. Len(t)
      BY <1>4
    <3>2. s[Len(s) - i + 1] = t[(Len(s) - i + 1) + (Len(t) - Len(s))]
      BY <2>2, <3>1
    <3>3. (Len(s) - i + 1) + (Len(t) - Len(s)) = Len(t) - i + 1
      OBVIOUS
    <3> QED
      BY <1>1, <3>1, <3>2, <3>3
  <2> QED
    BY <2>1, <2>2
<1> QED
  BY <1>2, <1>3, <1>4

RowSet == [key : Keys, value : Values, state : {0, 1}]

(* A table whose ids have been given out.                                  *)
IsTable(r, n) ==
  n \in Nat /\ DOMAIN r \subseteq 1 .. n /\ r \in [DOMAIN r -> RowSet]

OneRow(r) == \A i, j \in DOMAIN r : r[i].key = r[j].key => i = j

(* The row that a lookup of its key finds.                                 *)
First(r, i) == \A j \in DOMAIN r : r[j].key = r[i].key => i <= j

(* Only rows that lookups find are confirmed, and only those of some keys. *)
ConfirmedFirst(r, keys) ==
  \A i \in DOMAIN r : r[i].state = 1 => r[i].key \in keys /\ First(r, i)

(* The row that a lookup of the key finds has the value.                   *)
Kept(r, key, value) == \E i \in DOMAIN r : First(r, i) /\ r[i] = Row(key, value)

KeysOf(lines) == {lines[i].key : i \in DOMAIN lines}

(* What the sources say, as a function of their texts.                     *)
Analysed(t, isClass, s) ==
  IF t[s] = Absent THEN <<>>
  ELSE IF isClass \/ Table = "ObjectDecl" THEN t[s]
  ELSE <<[key |-> <<s, "">>, value |-> s]>> \o t[s]

About(t, key) == Analysed(t, key[1] \notin SeqFiles, key[1])

Places(t, key) == {i \in DOMAIN About(t, key) : About(t, key)[i].key = key}

SaidIn(t, left, classes) ==
  {key \in Keys : key[1] \in (SeqFiles \ left) \cup classes /\ Places(t, key) # {}}

LastIn(t, key) == About(t, key)[Max(Places(t, key))].value

IsText(t) == DOMAIN t = Sources /\ \A s \in Sources : t[s] \in Texts[s]

(* Lines still to be stored.                                               *)
Pending(t, lines) ==
  /\ lines \in Seq(Lines)
  /\ \A i \in DOMAIN lines : IsSuffix(lines, About(t, lines[i].key))

LEMMA SaidIs ==
  /\ Said = SaidIn(text, toScan, resolved)
  /\ \A key : LastValue(key) = LastIn(text, key)
  /\ \A key : LinesAbout(key) = About(text, key)
  /\ \A b, s : AnalyseFile(b, s) = Analysed(text, b, s)
BY DEF Said, SaidIn, Mentioned, Places, LinesAbout, About, AnalyseFile, Analysed,
       LastValue, LastIn

(* Every line is still to be stored or kept by the row that lookups find.  *)
Stored(r, t, left, classes, lines) ==
  \A key \in SaidIn(t, left, classes) :
     key \in KeysOf(lines) \/ Kept(r, key, LastIn(t, key))

(* The own job reads or has read.                                          *)
Own == pc = "Scan" \/ (pc = "Idle" /\ kind # "Load")

(* What holds of the table at each place of a job: with the marks set, no  *)
(* row is confirmed but those of another instance; while sources are read, *)
(* those of the sources read so far are confirmed and have their values.   *)
Scanned ==
  /\ KeysOf(todo) \subseteq SaidIn(text, toScan, resolved)
  /\ ConfirmedFirst(rows, SaidIn(text, toScan, resolved) \cup others)
  /\ Stored(rows, text, toScan, resolved, todo)

Typed ==
  /\ pc \in {"Idle", "Marked", "Scan", "Other"}
  /\ kind \in {"Load", "Rebuild", "Update"}
  /\ other \in {"none", "Rebuild", "Update"}
  /\ toScan \subseteq SeqFiles /\ resolved \subseteq Sources
  /\ pc \in {"Idle", "Marked"} => toScan = {} /\ todo = <<>>
  /\ others \subseteq Keys
  /\ ok \in BOOLEAN /\ trusted \in BOOLEAN
  /\ jobs \in 0 .. MaxJobs /\ edits \in 0 .. MaxEdits /\ faults \in 0 .. MaxFaults

IInv ==
  /\ Typed
  /\ IsText(text)
  /\ IsTable(rows, last)
  /\ Pending(text, todo)
  /\ pc # "Idle" => kind # "Load"
  /\ trusted => OneRow(rows)
  /\ pc \in {"Marked", "Other"} /\ ok => ConfirmedFirst(rows, others)
  /\ Own /\ ok => Scanned
  /\ Own /\ kind = "Update" => resolved = {}
  /\ pc = "Idle" /\ kind = "Rebuild" => \A i \in DOMAIN rows : rows[i].state = 1

USE BoundsAssumption

-----------------------------------------------------------------------------
(* u is t with a line stored, in the row found or in a new one.            *)
Upserted(t, line, u) ==
  \E id \in 1 .. u.last :
    /\ u.last \in Nat /\ t.last <= u.last
    /\ id \in DOMAIN t.rows => t.rows[id].key = line.key
    /\ id \notin DOMAIN t.rows => t.last < id
    /\ \A j \in DOMAIN t.rows : t.rows[j].key = line.key => id <= j
    /\ DOMAIN u.rows = DOMAIN t.rows \cup {id}
    /\ u.rows \in [DOMAIN u.rows -> RowSet]
    /\ u.rows[id] = Row(line.key, line.value)
    /\ \A i \in DOMAIN t.rows \ {id} : u.rows[i] = t.rows[i]

LEMMA FoundIsFirst ==
  ASSUME NEW r, NEW n, IsTable(r, n), NEW key, Ids(r, key) # {}
  PROVE  LET id == RefreshID(r, key)
         IN  /\ id \in DOMAIN r /\ r[id].key = key /\ id > 0
             /\ \A j \in DOMAIN r : r[j].key = key => id <= j
<1>1. Ids(r, key) \in SUBSET Nat /\ Ids(r, key) \subseteq DOMAIN r
  BY DEF Ids, IsTable
<1>2. RefreshID(r, key) = Min(Ids(r, key))
  BY DEF RefreshID
<1>3. Min(Ids(r, key)) \in Ids(r, key) /\ \A j \in Ids(r, key) : Min(Ids(r, key)) <= j
  BY <1>1, MinIsLeast
<1>4. DOMAIN r \subseteq 1 .. n /\ n \in Nat
  BY DEF IsTable
<1> QED
  BY <1>1, <1>2, <1>3, <1>4 DEF Ids

LEMMA UpdateObjUpserts ==
  ASSUME NEW t, IsTable(t.rows, t.last), NEW line \in Lines
  PROVE  Upserted(t, line, UpdateObj(t, line))
<1> DEFINE r == t.rows
           u == UpdateObj(t, line)
           row == Row(line.key, line.value)
           id == RefreshID(r, line.key)
           new == t.last + 1
<1>1. row \in RowSet
  BY DEF Row, RowSet, Lines
<1>2. /\ u.rows = Write(r, id, new, row)
      /\ u.last = IF id > 0 THEN t.last ELSE new
  BY DEF UpdateObj
<1>3. t.last \in Nat /\ DOMAIN r \subseteq 1 .. t.last /\ r \in [DOMAIN r -> RowSet]
  BY DEF IsTable
<1>4. CASE Ids(r, line.key) = {}
  <2>1. id = 0
    BY <1>4 DEF RefreshID
  <2>2. u.last = new /\ u.rows = [i \in DOMAIN r \cup {new} |-> IF i = new THEN row ELSE r[i]]
    BY <1>2, <2>1 DEF Write
  <2>3. new \notin DOMAIN r
    BY <1>3
  <2>4. \A j \in DOMAIN r : r[j].key # line.key
    BY <1>4 DEF Ids
  <2> HIDE DEF u, row, id
  <2>5. /\ DOMAIN u.rows = DOMAIN r \cup {new}
        /\ u.rows \in [DOMAIN u.rows -> RowSet]
        /\ u.rows[new] = row
        /\ \A i \in DOMAIN r \ {new} : u.rows[i] = r[i]
    BY <1>1, <1>3, <2>2, <2>3
  <2>6. new \in 1 .. u.last /\ u.last \in Nat /\ t.last <= u.last /\ t.last < new
    BY <1>3, <2>2
  <2> QED
    BY <2>3, <2>4, <2>5, <2>6 DEF Upserted, u, row
<1>5. CASE Ids(r, line.key) # {}
  <2>1. /\ id \in DOMAIN r /\ r[id].key = line.key /\ id > 0
        /\ \A j \in DOMAIN r : r[j].key = line.key => id <= j
    BY <1>5, FoundIsFirst
  <2>2. u.last = t.last /\ u.rows = [r EXCEPT ![id] = row]
    BY <1>2, <2>1 DEF Write
  <2> HIDE DEF u, row, id
  <2>3. /\ DOMAIN u.rows = DOMAIN r \cup {id}
        /\ u.rows \in [DOMAIN u.rows -> RowSet]
        /\ u.rows[id] = row
        /\ \A i \in DOMAIN r \ {id} : u.rows[i] = r[i]
    BY <1>1, <1>3, <2>1, <2>2
  <2>4. id \in 1 .. u.last /\ u.last \in Nat /\ t.last <= u.last
    BY <1>3, <2>1, <2>2
  <2> QED
    BY <2>1, <2>3, <2>4 DEF Upserted, u, row
<1> QED
  BY <1>4, <1>5

(* What one upsert keeps, and what it adds.                                *)
LEMMA UpsertKeeps ==
  ASSUME NEW t, IsTable(t.rows, t.last), NEW line \in Lines, NEW u,
         Upserted(t, line, u)
  PROVE  /\ IsTable(u.rows, u.last)
         /\ OneRow(t.rows) => OneRow(u.rows)
         /\ \A keys : ConfirmedFirst(t.rows, keys) =>
                        ConfirmedFirst(u.rows, keys \cup {line.key})
         /\ \A key, value :
               key # line.key /\ Kept(t.rows, key, value) => Kept(u.rows, key, value)
         /\ Kept(u.rows, line.key, line.value)
<1> DEFINE r == t.rows
           s == u.rows
           row == Row(line.key, line.value)
<1>0. t.last \in Nat /\ DOMAIN r \subseteq 1 .. t.last /\ r \in [DOMAIN r -> RowSet]
  BY DEF IsTable
<1>1. PICK id \in 1 .. u.last :
    /\ u.last \in Nat /\ t.last <= u.last
    /\ id \in DOMAIN r => r[id].key = line.key
    /\ id \notin DOMAIN r => t.last < id
    /\ \A j \in DOMAIN r : r[j].key = line.key => id <= j
    /\ DOMAIN s = DOMAIN r \cup {id}
    /\ s \in [DOMAIN s -> RowSet]
    /\ s[id] = row
    /\ \A i \in DOMAIN r \ {id} : s[i] = r[i]
  BY Zenon DEF Upserted
<1>2. IsTable(s, u.last)
  BY <1>0, <1>1 DEF IsTable
<1>3. row.key = line.key /\ row.state = 1
  BY DEF Row
<1> HIDE DEF row, r, s
<1>4. \A i \in DOMAIN r : s[i].key = r[i].key
  BY <1>1, <1>3
<1>5. \A i \in DOMAIN s : s[i].key = line.key => id <= i
  BY <1>1, <1>4
<1>6. First(s, id)
  BY <1>1, <1>3, <1>5 DEF First
<1>7. ASSUME NEW i \in DOMAIN r, First(r, i)
      PROVE  First(s, i)
  <2>1. CASE r[i].key = line.key
    <3>1. id \in DOMAIN r
      BY <1>0, <1>1, <2>1
    <3>2. i <= id /\ id <= i
      BY <1>1, <1>7, <2>1, <3>1 DEF First
    <3>3. i = id
      BY <1>0, <3>2
    <3> QED
      BY <1>6, <3>3
  <2>2. CASE r[i].key # line.key
    BY <1>1, <1>3, <1>4, <1>7, <2>2 DEF First
  <2> QED
    BY <2>1, <2>2
<1>8. ASSUME OneRow(r) PROVE OneRow(s)
  <2> SUFFICES ASSUME NEW i \in DOMAIN s, NEW j \in DOMAIN s, s[i].key = s[j].key
               PROVE  i = j
    BY DEF OneRow
  <2>1. CASE i \in DOMAIN r /\ j \in DOMAIN r
    BY <1>4, <1>8, <2>1 DEF OneRow
  <2>2. CASE i = id /\ j \in DOMAIN r
    <3>1. r[j].key = line.key
      BY <1>1, <1>3, <1>4, <2>2
    <3>2. id \in DOMAIN r
      BY <1>0, <1>1, <2>2, <3>1
    <3> QED
      BY <1>1, <1>8, <2>2, <3>1, <3>2 DEF OneRow
  <2>3. CASE j = id /\ i \in DOMAIN r
    <3>1. r[i].key = line.key
      BY <1>1, <1>3, <1>4, <2>3
    <3>2. id \in DOMAIN r
      BY <1>0, <1>1, <2>3, <3>1
    <3> QED
      BY <1>1, <1>8, <2>3, <3>1, <3>2 DEF OneRow
  <2> QED
    BY <1>1, <2>1, <2>2, <2>3
<1>9. ASSUME NEW keys, ConfirmedFirst(r, keys)
      PROVE  ConfirmedFirst(s, keys \cup {line.key})
  <2> SUFFICES ASSUME NEW i \in DOMAIN s, s[i].state = 1
               PROVE  s[i].key \in keys \cup {line.key} /\ First(s, i)
    BY DEF ConfirmedFirst
  <2>1. CASE i = id
    BY <1>1, <1>3, <1>6, <2>1
  <2>2. CASE i # id
    <3>1. i \in DOMAIN r /\ s[i] = r[i]
      BY <1>1, <2>2
    <3> QED
      BY <1>7, <1>9, <3>1 DEF ConfirmedFirst
  <2> QED
    BY <2>1, <2>2
<1>10. ASSUME NEW key, NEW value, key # line.key, Kept(r, key, value)
       PROVE  Kept(s, key, value)
  <2>1. PICK i \in DOMAIN r : First(r, i) /\ r[i] = Row(key, value)
    BY <1>10 DEF Kept
  <2>2. i # id
    BY <1>1, <1>10, <2>1 DEF Row
  <2>3. i \in DOMAIN s /\ First(s, i) /\ s[i] = Row(key, value)
    BY <1>1, <1>7, <2>1, <2>2
  <2> QED
    BY <2>3 DEF Kept
<1>11. Kept(s, line.key, line.value)
  BY <1>1, <1>6 DEF Kept, row
<1> QED
  BY <1>2, <1>8, <1>9, <1>10, <1>11 DEF r, s

LEMMA UnmarkedRows ==
  ASSUME NEW r, NEW n, IsTable(r, n)
  PROVE  /\ IsTable(Unmarked(r), n)
         /\ DOMAIN Unmarked(r) = DOMAIN r
         /\ \A i \in DOMAIN r : /\ Unmarked(r)[i].key = r[i].key
                                /\ Unmarked(r)[i].value = r[i].value
                                /\ Unmarked(r)[i].state = 0
         /\ OneRow(r) => OneRow(Unmarked(r))
         /\ ConfirmedFirst(Unmarked(r), {})
<1>1. r \in [DOMAIN r -> RowSet]
  BY DEF IsTable
<1>2. DOMAIN Unmarked(r) = DOMAIN r
  BY DEF Unmarked
<1>3. ASSUME NEW i \in DOMAIN r
      PROVE  /\ Unmarked(r)[i] \in RowSet
             /\ Unmarked(r)[i].key = r[i].key
             /\ Unmarked(r)[i].value = r[i].value
             /\ Unmarked(r)[i].state = 0
  <2>1. Unmarked(r)[i] = [r[i] EXCEPT !.state = 0]
    BY DEF Unmarked
  <2>2. r[i] \in RowSet
    BY <1>1
  <2> QED
    BY <2>1, <2>2 DEF RowSet
<1>4. Unmarked(r) \in [DOMAIN r -> RowSet]
  <2>1. Unmarked(r) = [i \in DOMAIN r |-> Unmarked(r)[i]]
    BY DEF Unmarked
  <2> QED
    BY <1>3, <2>1
<1> QED
  BY <1>2, <1>3, <1>4 DEF IsTable, OneRow, ConfirmedFirst

LEMMA LiveRows ==
  ASSUME NEW r, NEW n, IsTable(r, n)
  PROVE  /\ IsTable(Live(r), n)
         /\ DOMAIN Live(r) = {i \in DOMAIN r : r[i].state = 1}
         /\ \A i \in DOMAIN Live(r) : Live(r)[i] = r[i]
         /\ OneRow(r) => OneRow(Live(r))
         /\ \A keys : ConfirmedFirst(r, keys) => ConfirmedFirst(Live(r), keys)
         /\ \A key, value : Kept(r, key, value) => Kept(Live(r), key, value)
<1>1. r \in [DOMAIN r -> RowSet]
  BY DEF IsTable
<1>2. DOMAIN Live(r) = {i \in DOMAIN r : r[i].state = 1}
  <2>1. \A i \in DOMAIN r : r[i].state # 0 <=> r[i].state = 1
    BY <1>1 DEF RowSet
  <2> QED
    BY <2>1 DEF Live
<1>3. Live(r) = [i \in DOMAIN Live(r) |-> r[i]]
  BY DEF Live
<1>4. \A i \in DOMAIN Live(r) : i \in DOMAIN r /\ Live(r)[i] = r[i]
  BY <1>2 DEF Live
<1>5. IsTable(Live(r), n)
  BY <1>1, <1>2, <1>3, <1>4 DEF IsTable
<1>6. \A i \in DOMAIN Live(r) : First(r, i) => First(Live(r), i)
  BY <1>4 DEF First
<1>7. OneRow(r) => OneRow(Live(r))
  BY <1>4 DEF OneRow
<1>8. ASSUME NEW keys, ConfirmedFirst(r, keys) PROVE ConfirmedFirst(Live(r), keys)
  BY <1>4, <1>6, <1>8 DEF ConfirmedFirst
<1>9. ASSUME NEW key, NEW value, Kept(r, key, value) PROVE Kept(Live(r), key, value)
  <2>1. PICK i \in DOMAIN r : First(r, i) /\ r[i] = Row(key, value)
    BY <1>9 DEF Kept
  <2>2. i \in DOMAIN Live(r)
    BY <1>2, <2>1 DEF Row
  <2> QED
    BY <1>4, <1>6, <2>1, <2>2 DEF Kept
<1> QED
  BY <1>2, <1>4, <1>5, <1>7, <1>8, <1>9

-----------------------------------------------------------------------------
LEMMA SuffixOfAll ==
  ASSUME NEW t \in Seq(Lines)
  PROVE  IsSuffix(t, t) /\ IsSuffix(<<>>, t)
<1>1. <<>> \in Seq(Lines) /\ Len(<<>>) = 0 /\ Len(t) \in Nat
  OBVIOUS
<1>2. IsSuffix(t, t)
  BY SuffixByElement
<1>3. IsSuffix(<<>>, t)
  <2> DEFINE e == <<>>
  <2>1. e \in Seq(Lines) /\ Len(e) = 0
    BY <1>1
  <2> HIDE DEF e
  <2>2. Len(e) <= Len(t) /\ \A i \in 1 .. Len(e) : e[i] = t[i + (Len(t) - Len(e))]
    BY <1>1, <2>1
  <2>3. IsSuffix(e, t)
    BY <2>1, <2>2, SuffixByElement
  <2> QED
    BY <2>3 DEF e
<1> QED
  BY <1>2, <1>3

(* The next line to read, and the text after it has been read.             *)
LEMMA TailOfLines ==
  ASSUME NEW s \in Seq(Lines), NEW t \in Seq(Lines), IsSuffix(s, t), s # <<>>
  PROVE  /\ Tail(s) \in Seq(Lines) /\ IsSuffix(Tail(s), t)
         /\ Len(t) - Len(s) \in Nat
         /\ Len(t) - Len(Tail(s)) = (Len(t) - Len(s)) + 1
         /\ Head(s) \in Lines /\ Head(s) = t[(Len(t) - Len(s)) + 1]
<1>1. /\ Len(s) <= Len(t)
      /\ \A i \in 1 .. Len(s) : s[i] = t[i + (Len(t) - Len(s))]
  BY SuffixByElement
<1>2. /\ Len(s) \in Nat \ {0} /\ Len(t) \in Nat
      /\ Tail(s) \in Seq(Lines) /\ Len(Tail(s)) = Len(s) - 1
      /\ \A i \in 1 .. Len(s) - 1 : Tail(s)[i] = s[i + 1]
      /\ Head(s) \in Lines /\ Head(s) = s[1]
  OBVIOUS
<1>3. ASSUME NEW i \in 1 .. Len(Tail(s))
      PROVE  Tail(s)[i] = t[i + (Len(t) - Len(Tail(s)))]
  <2>1. Tail(s)[i] = s[i + 1] /\ i + 1 \in 1 .. Len(s)
    BY <1>2
  <2>2. s[i + 1] = t[(i + 1) + (Len(t) - Len(s))]
    BY <1>1, <2>1
  <2>3. (i + 1) + (Len(t) - Len(s)) = i + (Len(t) - Len(Tail(s)))
    BY <1>2
  <2> QED
    BY <2>1, <2>2, <2>3
<1>4. IsSuffix(Tail(s), t)
  <2>1. Len(Tail(s)) <= Len(t)
    BY <1>1, <1>2
  <2> QED
    BY <1>2, <1>3, <2>1, SuffixByElement
<1>5. Head(s) = t[(Len(t) - Len(s)) + 1]
  <2>1. 1 \in 1 .. Len(s) /\ 1 + (Len(t) - Len(s)) = (Len(t) - Len(s)) + 1
    BY <1>2
  <2> QED
    BY <1>1, <1>2, <2>1
<1> QED
  BY <1>1, <1>2, <1>4, <1>5

LEMMA EmptyTable ==
  IsTable(Empty, 0) /\ OneRow(Empty) /\ DOMAIN Empty = {}
<1>1. DOMAIN Empty = {}
  BY DEF Empty
<1>2. Empty \in [{} -> RowSet]
  BY DEF Empty
<1> QED
  BY <1>1, <1>2 DEF IsTable, OneRow

(* The lines of a source are about the source itself, and they are what    *)
(* is said about their keys, or the rest of it: a sequence file that is    *)
(* read as a class does not mention itself.                                *)
LinesOf(s) == [key : {s} \X Names, value : Values]

LEMMA LinesOfSource ==
  ASSUME NEW s \in Sources
  PROVE  /\ LinesOf(s) \subseteq Lines
         /\ \A line \in LinesOf(s) : line.key \in Keys /\ line.key[1] = s
BY DEF LinesOf, Lines, Keys

LEMMA SeqOfSubset ==
  ASSUME NEW A, NEW B, A \subseteq B, NEW q \in Seq(A)
  PROVE  q \in Seq(B) /\ \A i \in DOMAIN q : q[i] \in A
<1>1. Len(q) \in Nat /\ q \in [1 .. Len(q) -> A]
  OBVIOUS
<1>2. q \in [1 .. Len(q) -> B]
  BY <1>1
<1> QED
  BY <1>1, <1>2, SeqDef

LEMMA AnalysedLines ==
  ASSUME NEW t, IsText(t), NEW b \in BOOLEAN, NEW s \in Sources, b \/ s \in SeqFiles
  PROVE  Analysed(t, b, s) \in Seq(LinesOf(s))
<1>1. t[s] \in Texts[s]
  BY DEF IsText
<1>2. CASE t[s] = Absent
  BY <1>2 DEF Analysed
<1>3. CASE t[s] # Absent
  <2>1. t[s] \in Texts[s] \ {Absent}
    BY <1>1, <1>3
  <2>2. t[s] \in Seq(LinesOf(s))
    BY <2>1, SourcesAssumption DEF LinesOf
  <2>3. CASE b \/ Table = "ObjectDecl"
    BY <1>3, <2>2, <2>3 DEF Analysed
  <2>4. CASE ~(b \/ Table = "ObjectDecl")
    <3> DEFINE self == [key |-> <<s, "">>, value |-> s]
    <3>1. s \in SeqFiles /\ "" \in Names /\ SeqFiles \subseteq Values
      BY <2>4, SourcesAssumption
    <3>2. self \in LinesOf(s)
      BY <3>1 DEF LinesOf
    <3>3. Analysed(t, b, s) = <<self>> \o t[s]
      BY <1>3, <2>4 DEF Analysed
    <3> HIDE DEF self
    <3> QED
      BY <2>2, <3>2, <3>3
  <2> QED
    BY <2>3, <2>4
<1> QED
  BY <1>2, <1>3

LEMMA AboutLines ==
  ASSUME NEW t, IsText(t), NEW key \in Keys
  PROVE  About(t, key) \in Seq(Lines)
<1> DEFINE s == key[1]
           b == s \notin SeqFiles
<1>1. s \in Sources /\ b \in BOOLEAN /\ (b \/ s \in SeqFiles)
  BY DEF Keys
<1> HIDE DEF s, b
<1>2. Analysed(t, b, s) \in Seq(LinesOf(s))
  BY <1>1, AnalysedLines
<1>3. LinesOf(s) \subseteq Lines
  BY <1>1, LinesOfSource
<1>4. About(t, key) = Analysed(t, b, s)
  BY DEF About, b, s
<1> QED
  BY <1>2, <1>3, <1>4, SeqOfSubset

LEMMA SuffixAfterOne ==
  ASSUME NEW A, NEW q \in Seq(A), NEW x \in A
  PROVE  IsSuffix(q, <<x>> \o q)
<1> DEFINE r == <<x>> \o q
<1>1. /\ r \in Seq(A) /\ Len(q) \in Nat /\ Len(r) = Len(q) + 1
      /\ \A i \in 1 .. Len(q) : r[i + 1] = q[i]
  OBVIOUS
<1> HIDE DEF r
<1>2. Len(q) <= Len(r) /\ Len(r) - Len(q) = 1
  BY <1>1
<1>3. IsSuffix(q, r)
  BY <1>1, <1>2, SuffixByElement
<1> QED
  BY <1>3 DEF r

LEMMA SourceLines ==
  ASSUME NEW t, IsText(t), NEW b \in BOOLEAN, NEW s \in Sources, b \/ s \in SeqFiles
  PROVE  LET lines == Analysed(t, b, s)
         IN  /\ Pending(t, lines)
             /\ \A i \in DOMAIN lines : lines[i].key \in Keys /\ lines[i].key[1] = s
<1> DEFINE lines == Analysed(t, b, s)
           all == Analysed(t, s \notin SeqFiles, s)
<1>1. lines \in Seq(LinesOf(s))
  BY AnalysedLines
<1>2. /\ LinesOf(s) \subseteq Lines
      /\ \A line \in LinesOf(s) : line.key \in Keys /\ line.key[1] = s
  BY LinesOfSource
<1>3. lines \in Seq(Lines) /\ \A i \in DOMAIN lines : lines[i] \in LinesOf(s)
  <2> HIDE DEF lines
  <2> QED
    BY <1>1, <1>2, SeqOfSubset
<1>4. all \in Seq(LinesOf(s))
  BY AnalysedLines
<1>5. IsSuffix(lines, all)
  <2>0. \A q \in Seq(Lines) : IsSuffix(q, q) /\ IsSuffix(<<>>, q)
    BY SuffixOfAll
  <2>1. CASE lines = all
    BY <1>3, <2>0, <2>1
  <2>2. CASE lines # all
    <3>1. b /\ s \in SeqFiles /\ t[s] # Absent /\ Table # "ObjectDecl"
      BY <2>2 DEF Analysed
    <3> DEFINE self == [key |-> <<s, "">>, value |-> s]
    <3>2. lines = t[s] /\ all = <<self>> \o t[s]
      BY <3>1 DEF Analysed
    <3>3. self \in LinesOf(s)
      BY <3>1, SourcesAssumption DEF LinesOf
    <3> HIDE DEF self, lines, all
    <3>4. IsSuffix(t[s], <<self>> \o t[s])
      BY <1>1, <3>2, <3>3, SuffixAfterOne
    <3> QED
      BY <3>2, <3>4
  <2> QED
    BY <2>1, <2>2
<1>6. \A key : key[1] = s => About(t, key) = all
  BY DEF About
<1> HIDE DEF lines, all
<1>7. \A i \in DOMAIN lines : lines[i].key \in Keys /\ lines[i].key[1] = s
  BY <1>2, <1>3
<1> QED
  BY <1>3, <1>5, <1>6, <1>7 DEF lines, Pending

(* What is left to do of what is said about a key: its first line is the   *)
(* last word on its key unless the key comes again.                        *)
LEMMA LastWord ==
  ASSUME NEW t, IsText(t), NEW lines, Pending(t, lines), lines # <<>>,
         Head(lines).key \notin KeysOf(Tail(lines))
  PROVE  LastIn(t, Head(lines).key) = Head(lines).value
<1> DEFINE key == Head(lines).key
           all == About(t, key)
           d == Len(all) - Len(lines)
           P == Places(t, key)
<1>0. lines \in Seq(Lines) /\ \A i \in DOMAIN lines : IsSuffix(lines, About(t, lines[i].key))
  BY DEF Pending
<1>1. /\ Head(lines) = lines[1] /\ 1 \in DOMAIN lines /\ lines[1] \in Lines
      /\ Len(lines) \in Nat \ {0} /\ DOMAIN lines = 1 .. Len(lines)
      /\ Len(Tail(lines)) = Len(lines) - 1
      /\ DOMAIN Tail(lines) = 1 .. (Len(lines) - 1)
      /\ \A i \in 1 .. (Len(lines) - 1) : Tail(lines)[i] = lines[i + 1]
  BY <1>0
<1>2. key \in Keys
  BY <1>1 DEF Lines
<1>3. all \in Seq(Lines)
  BY <1>2, AboutLines
<1>4. IsSuffix(lines, all)
  BY <1>0, <1>1
<1> HIDE DEF all
<1>5. /\ Len(lines) <= Len(all)
      /\ \A i \in 1 .. Len(lines) : lines[i] = all[i + (Len(all) - Len(lines))]
  BY <1>0, <1>3, <1>4, SuffixByElement
<1>6. Len(all) \in Nat /\ DOMAIN all = 1 .. Len(all) /\ d \in Nat
  BY <1>1, <1>3, <1>5
<1>7. P = {i \in DOMAIN all : all[i].key = key}
  BY DEF Places, all
<1> HIDE DEF key, P
<1>8. d + 1 \in P /\ all[d + 1] = Head(lines)
  <2>1. d + 1 \in 1 .. Len(all) /\ 1 \in 1 .. Len(lines)
    BY <1>1, <1>5, <1>6
  <2>2. all[d + 1] = lines[1]
    <3>1. lines[1] = all[1 + (Len(all) - Len(lines))]
      BY <1>5, <2>1
    <3>2. 1 + (Len(all) - Len(lines)) = d + 1
      BY <1>1, <1>6
    <3> QED
      BY <3>1, <3>2
  <2> QED
    BY <1>1, <1>6, <1>7, <2>1, <2>2 DEF key
<1>9. ASSUME NEW i \in P PROVE i <= d + 1
  <2> SUFFICES ASSUME i > d + 1 PROVE FALSE
    BY <1>6, <1>7
  <2>1. i \in 1 .. Len(all) /\ all[i].key = key
    BY <1>6, <1>7
  <2> DEFINE j == i - d
  <2>2. j \in 1 .. Len(lines) /\ j - 1 \in 1 .. (Len(lines) - 1) /\ (j - 1) + 1 = j
    BY <1>1, <1>6, <2>1
  <2>3. lines[j] = all[i]
    <3>1. lines[j] = all[j + (Len(all) - Len(lines))]
      BY <1>5, <2>2
    <3>2. j + (Len(all) - Len(lines)) = i
      BY <1>1, <1>6, <2>1
    <3> QED
      BY <3>1, <3>2
  <2> HIDE DEF j, d
  <2>4. Tail(lines)[j - 1] = lines[j] /\ j - 1 \in DOMAIN Tail(lines)
    BY <1>1, <2>2
  <2>5. key \in KeysOf(Tail(lines))
    BY <2>1, <2>3, <2>4 DEF KeysOf
  <2> QED
    BY <2>5 DEF key
<1>10. Max(P) = d + 1
  <2>1. P \in SUBSET (0 .. Len(all)) /\ P # {}
    BY <1>6, <1>7, <1>8
  <2>2. Max(P) \in P /\ \A n \in P : n <= Max(P)
    BY <1>6, <2>1, MaxIsGreatest
  <2>3. Max(P) \in Nat /\ d + 1 \in Nat
    <3>1. Max(P) \in 0 .. Len(all)
      BY <2>1, <2>2, Zenon
    <3>2. d + 1 \in Nat
      BY <1>6
    <3> QED
      BY <1>6, <3>1, <3>2
  <2>4. Max(P) <= d + 1
    BY <1>9, <2>2
  <2>5. d + 1 <= Max(P)
    BY <1>8, <2>2
  <2> HIDE DEF d
  <2> QED
    BY <2>3, <2>4, <2>5
<1> QED
  BY <1>8, <1>10 DEF LastIn, key, P, all

LEMMA Heads ==
  ASSUME NEW t, IsText(t), NEW lines, Pending(t, lines), lines # <<>>
  PROVE  /\ Pending(t, Tail(lines)) /\ Head(lines) \in Lines
         /\ KeysOf(lines) = KeysOf(Tail(lines)) \cup {Head(lines).key}
<1>0. lines \in Seq(Lines) /\ \A i \in DOMAIN lines : IsSuffix(lines, About(t, lines[i].key))
  BY DEF Pending
<1>1. /\ Head(lines) = lines[1] /\ Head(lines) \in Lines
      /\ Len(lines) \in Nat \ {0} /\ DOMAIN lines = 1 .. Len(lines)
      /\ Tail(lines) \in Seq(Lines)
      /\ DOMAIN Tail(lines) = 1 .. (Len(lines) - 1)
      /\ \A i \in 1 .. (Len(lines) - 1) : Tail(lines)[i] = lines[i + 1]
  BY <1>0
<1>2. ASSUME NEW i \in DOMAIN Tail(lines)
      PROVE  IsSuffix(Tail(lines), About(t, Tail(lines)[i].key))
  <2>1. i + 1 \in DOMAIN lines /\ Tail(lines)[i] = lines[i + 1] /\ lines[i + 1] \in Lines
    BY <1>0, <1>1
  <2> DEFINE key == lines[i + 1].key
  <2>2. key \in Keys
    BY <2>1 DEF Lines
  <2>3. IsSuffix(lines, About(t, key))
    BY <1>0, <2>1
  <2> HIDE DEF key
  <2>4. About(t, key) \in Seq(Lines)
    BY <2>2, AboutLines
  <2>5. IsSuffix(Tail(lines), About(t, key))
    BY <1>0, <2>3, <2>4, TailOfLines
  <2> QED
    BY <2>1, <2>5 DEF key
<1>3. KeysOf(lines) = KeysOf(Tail(lines)) \cup {Head(lines).key}
  <2>1. ASSUME NEW i \in DOMAIN lines
        PROVE  lines[i].key \in KeysOf(Tail(lines)) \cup {Head(lines).key}
    <3>1. CASE i = 1
      BY <1>1, <3>1
    <3>2. CASE i # 1
      <4>1. i - 1 \in DOMAIN Tail(lines) /\ Tail(lines)[i - 1] = lines[i]
        BY <1>1, <3>2
      <4> QED
        BY <4>1 DEF KeysOf
    <3> QED
      BY <3>1, <3>2
  <2>2. ASSUME NEW i \in DOMAIN Tail(lines)
        PROVE  Tail(lines)[i].key \in KeysOf(lines)
    <3>1. i + 1 \in DOMAIN lines /\ Tail(lines)[i] = lines[i + 1]
      BY <1>1
    <3> QED
      BY <3>1 DEF KeysOf
  <2>3. Head(lines).key \in KeysOf(lines)
    BY <1>1 DEF KeysOf
  <2> QED
    BY <2>1, <2>2, <2>3 DEF KeysOf
<1> QED
  BY <1>1, <1>2, <1>3 DEF Pending

LEMMA NoLines ==
  ASSUME NEW t
  PROVE  Pending(t, <<>>) /\ KeysOf(<<>>) = {}
BY DEF Pending, KeysOf

(* Reading one more source, a sequence file or the description of a class. *)
NextSource(b, s, left, classes, left2, classes2) ==
  \/ b = FALSE /\ s \in left /\ left2 = left \ {s} /\ classes2 = classes
  \/ b = TRUE /\ s \in Sources /\ left = {} /\ left2 = {} /\ classes2 = classes \cup {s}

LEMMA ReadSource ==
  ASSUME NEW t, IsText(t), NEW r, NEW left, NEW classes, NEW left2, NEW classes2,
         left \subseteq SeqFiles, classes \subseteq Sources,
         Stored(r, t, left, classes, <<>>),
         NEW b, NEW s, NextSource(b, s, left, classes, left2, classes2)
  PROVE  /\ SaidIn(t, left, classes) \subseteq SaidIn(t, left2, classes2)
         /\ KeysOf(Analysed(t, b, s)) \subseteq SaidIn(t, left2, classes2)
         /\ Stored(r, t, left2, classes2, Analysed(t, b, s))
<1> DEFINE lines == Analysed(t, b, s)
<1>0. b \in BOOLEAN /\ s \in Sources /\ (b \/ s \in SeqFiles)
  BY DEF NextSource, Sources
<1>1. /\ (SeqFiles \ left) \cup classes \subseteq (SeqFiles \ left2) \cup classes2
      /\ s \in (SeqFiles \ left2) \cup classes2
      /\ \A x \in (SeqFiles \ left2) \cup classes2 :
            x \in (SeqFiles \ left) \cup classes \/ x = s
  BY DEF NextSource
<1>2. SaidIn(t, left, classes) \subseteq SaidIn(t, left2, classes2)
  BY <1>1 DEF SaidIn
<1>3. /\ Pending(t, lines)
      /\ \A i \in DOMAIN lines : lines[i].key \in Keys /\ lines[i].key[1] = s
  BY <1>0, SourceLines
<1> HIDE DEF lines
<1>4. ASSUME NEW i \in DOMAIN lines
      PROVE  lines[i].key \in SaidIn(t, left2, classes2)
  <2> DEFINE key == lines[i].key
             all == About(t, key)
  <2>1. key \in Keys /\ key[1] = s
    BY <1>3
  <2>2. lines \in Seq(Lines) /\ IsSuffix(lines, all)
    BY <1>3 DEF Pending
  <2>3. all \in Seq(Lines)
    <3> HIDE DEF key
    <3> QED
      BY <2>1, AboutLines
  <2> HIDE DEF key, all
  <2>4. Len(lines) <= Len(all)
        /\ \A j \in 1 .. Len(lines) : lines[j] = all[j + (Len(all) - Len(lines))]
    BY <2>2, <2>3, SuffixByElement
  <2>5. i \in 1 .. Len(lines) /\ Len(lines) \in Nat /\ Len(all) \in Nat
        /\ DOMAIN all = 1 .. Len(all)
    BY <2>2, <2>3
  <2>6. i + (Len(all) - Len(lines)) \in DOMAIN all
    BY <2>4, <2>5
  <2>7. all[i + (Len(all) - Len(lines))].key = key
    BY <2>4, <2>5 DEF key
  <2>8. Places(t, key) # {}
    BY <2>6, <2>7 DEF Places, all
  <2>9. key \in SaidIn(t, left2, classes2)
    BY <1>1, <2>1, <2>8 DEF SaidIn
  <2> QED
    BY <2>9 DEF key
<1>5. ASSUME NEW key \in SaidIn(t, left2, classes2)
      PROVE  key \in KeysOf(lines) \/ Kept(r, key, LastIn(t, key))
  <2>1. CASE key \in SaidIn(t, left, classes)
    <3>1. key \notin KeysOf(<<>>)
      BY NoLines
    <3> QED
      BY <2>1, <3>1 DEF Stored
  <2>2. CASE key \notin SaidIn(t, left, classes)
    <3>1. /\ key \in Keys /\ Places(t, key) # {}
          /\ key[1] \in (SeqFiles \ left2) \cup classes2
          /\ key[1] \notin (SeqFiles \ left) \cup classes
      BY <2>2 DEF SaidIn
    <3>2. key[1] = s /\ s \notin (SeqFiles \ left) \cup classes
      BY <1>1, <3>1
    <3>3. b = (s \notin SeqFiles)
      BY <1>0, <3>2 DEF NextSource
    <3>4. About(t, key) = lines
      BY <3>2, <3>3 DEF About, lines
    <3> QED
      BY <3>1, <3>4 DEF Places, KeysOf
  <2> QED
    BY <2>1, <2>2
<1> QED
  BY <1>2, <1>4, <1>5 DEF Stored, KeysOf, lines

(* Storing the next line.                                                  *)
LEMMA StoreLine ==
  ASSUME NEW t, IsText(t), NEW lines, Pending(t, lines), lines # <<>>,
         NEW tab, IsTable(tab.rows, tab.last), NEW u, Upserted(tab, Head(lines), u),
         NEW left, NEW classes, Stored(tab.rows, t, left, classes, lines)
  PROVE  Stored(u.rows, t, left, classes, Tail(lines))
<1> DEFINE line == Head(lines)
<1>1. line \in Lines /\ KeysOf(lines) = KeysOf(Tail(lines)) \cup {line.key}
  BY Heads
<1>2. line.key \notin KeysOf(Tail(lines)) => LastIn(t, line.key) = line.value
  BY LastWord
<1>3. Upserted(tab, line, u)
  OBVIOUS
<1> HIDE DEF line
<1>4. /\ \A key, value :
            key # line.key /\ Kept(tab.rows, key, value) => Kept(u.rows, key, value)
      /\ Kept(u.rows, line.key, line.value)
  BY <1>1, <1>3, UpsertKeeps
<1> SUFFICES ASSUME NEW key \in SaidIn(t, left, classes), key \notin KeysOf(Tail(lines))
             PROVE  Kept(u.rows, key, LastIn(t, key))
  BY DEF Stored
<1>5. CASE key = line.key
  BY <1>2, <1>4, <1>5
<1>6. CASE key # line.key
  <2>1. Kept(tab.rows, key, LastIn(t, key))
    BY <1>1, <1>6 DEF Stored
  <2> QED
    BY <1>4, <1>6, <2>1
<1> QED
  BY <1>5, <1>6

LEMMA ConfirmedMore ==
  ASSUME NEW r, NEW A, NEW B, A \subseteq B, ConfirmedFirst(r, A)
  PROVE  ConfirmedFirst(r, B)
BY DEF ConfirmedFirst

-----------------------------------------------------------------------------
LEMMA InitIInv == Init => IInv
<1> SUFFICES ASSUME Init PROVE IInv
  OBVIOUS
<1>1. IsText(text)
  BY DEF Init, IsText
<1>2. IsTable(rows, last) /\ OneRow(rows)
  BY EmptyTable DEF Init
<1>3. Pending(text, todo)
  BY NoLines DEF Init
<1>4. Typed
  BY DEF Init, Typed
<1>5. pc = "Idle" /\ kind = "Load"
  BY DEF Init
<1> QED
  BY <1>1, <1>2, <1>3, <1>4, <1>5 DEF IInv, Own

LEMMA RowsTyped ==
  ASSUME NEW r, NEW n, IsTable(r, n)
  PROVE  /\ DOMAIN r \subseteq 1 .. n /\ n \in Nat
         /\ \A i \in DOMAIN r : r[i] \in [key : Keys, value : Values, state : {0, 1}]
BY DEF IsTable, RowSet

(* The steps that store nothing.                                           *)
LEMMA QuietSteps ==
  ASSUME IInv,
         \/ Edit \/ Load \/ RebuildObjList \/ UNCHANGED vars
         \/ \E k \in {"Rebuild", "Update"} : PrepareForUpdate(k) \/ OtherJob(k)
  PROVE  IInv'
<1>1. CASE Edit
  <2>1. /\ pc \in {"Idle", "Marked"} /\ edits < MaxEdits /\ edits' = edits + 1
        /\ ok' = (pc = "Marked" /\ ok)
        /\ UNCHANGED <<rows, last, pc, kind, other, scan, others, trusted, jobs, faults>>
    BY <1>1 DEF Edit
  <2>2. PICK s \in Sources : \E t \in Texts[s] \ {text[s]} : text' = [text EXCEPT ![s] = t]
    BY <1>1 DEF Edit
  <2>3. IsText(text')
    BY <2>2 DEF IInv, IsText
  <2>4. todo = <<>> /\ todo' = <<>> /\ toScan' = toScan /\ resolved' = resolved
    BY <2>1 DEF IInv, Typed, scan
  <2>5. Pending(text', todo')
    BY <2>4, NoLines
  <2>6. Typed'
    <3>1. edits' \in 0 .. MaxEdits
      BY <2>1 DEF IInv, Typed
    <3>2. ok' \in BOOLEAN
      BY <2>1 DEF IInv, Typed
    <3> QED
      BY <2>1, <2>4, <3>1, <3>2 DEF IInv, Typed
  <2>7. (Own /\ ok)' => FALSE
    BY <2>1 DEF Own
  <2>8. /\ (pc # "Idle" => kind # "Load")'
        /\ (trusted => OneRow(rows))'
        /\ (pc \in {"Marked", "Other"} /\ ok => ConfirmedFirst(rows, others))'
        /\ (Own /\ kind = "Update" => resolved = {})'
        /\ (pc = "Idle" /\ kind = "Rebuild" => \A i \in DOMAIN rows : rows[i].state = 1)'
    BY <2>1, <2>4 DEF IInv, Own
  <2>9. IsTable(rows', last')
    BY <2>1 DEF IInv
  <2> QED
    BY <2>3, <2>5, <2>6, <2>7, <2>8, <2>9 DEF IInv
<1>2. CASE Load
  <2>1. /\ pc = "Idle" /\ rows' = Empty /\ last' = 0 /\ kind' = "Load"
        /\ other' = "none" /\ others' = {} /\ ok' = TRUE /\ trusted' = TRUE
        /\ UNCHANGED <<text, pc, toScan, resolved, todo, jobs, edits, faults>>
    BY <1>2 DEF Load, scan, counts
  <2>2. IsTable(rows', last') /\ OneRow(rows')
    BY <2>1, EmptyTable
  <2>3. Typed' /\ IsText(text') /\ Pending(text', todo')
    BY <2>1 DEF IInv, Typed
  <2> QED
    BY <2>1, <2>2, <2>3 DEF IInv, Own
<1>3. CASE RebuildObjList
  <2>1. /\ pc = "Marked" /\ pc' = "Scan" /\ toScan' = SeqFiles /\ resolved' = {}
        /\ UNCHANGED <<text, rows, last, kind, other, todo, others, ok, trusted,
                       jobs, edits, faults>>
    BY <1>3 DEF RebuildObjList, counts
  <2>2. todo = <<>> /\ todo' = <<>>
    BY <2>1 DEF IInv, Typed
  <2>3. Typed' /\ IsText(text') /\ Pending(text', todo') /\ IsTable(rows', last')
    BY <2>1, <2>2, NoLines DEF IInv, Typed
  <2>4. (Own /\ ok => Scanned)'
    <3> SUFFICES ASSUME ok' PROVE Scanned'
      OBVIOUS
    <3>1. ConfirmedFirst(rows', others')
      BY <2>1 DEF IInv
    <3>2. ConfirmedFirst(rows', SaidIn(text', toScan', resolved') \cup others')
      BY <3>1, ConfirmedMore
    <3>3. SaidIn(text', toScan', resolved') = {}
      BY <2>1 DEF SaidIn
    <3>4. KeysOf(todo') = {}
      BY <2>2, NoLines
    <3>5. Stored(rows', text', toScan', resolved', todo')
      BY <3>3 DEF Stored
    <3> QED
      BY <3>2, <3>4, <3>5 DEF Scanned
  <2> QED
    BY <2>1, <2>3, <2>4 DEF IInv
<1>4. CASE UNCHANGED vars
  BY <1>4 DEF vars, scan, counts, IInv, Typed, Own, Scanned
<1>5. ASSUME NEW k \in {"Rebuild", "Update"}, PrepareForUpdate(k)
      PROVE  IInv'
  <2>1. /\ pc = "Idle" /\ jobs < MaxJobs /\ jobs' = jobs + 1 /\ kind' = k
        /\ rows' = Unmarked(rows) /\ pc' = "Marked" /\ other' = "none"
        /\ others' = {} /\ ok' = TRUE
        /\ UNCHANGED <<text, last, toScan, resolved, todo, trusted, edits, faults>>
    BY <1>5 DEF PrepareForUpdate, scan
  <2>2. /\ IsTable(rows', last') /\ ConfirmedFirst(rows', others')
        /\ OneRow(rows) => OneRow(rows')
    BY <2>1, UnmarkedRows DEF IInv
  <2>3. jobs' \in 0 .. MaxJobs
    BY <2>1 DEF IInv, Typed
  <2>4. Typed' /\ IsText(text') /\ Pending(text', todo')
    BY <2>1, <2>3 DEF IInv, Typed
  <2> QED
    BY <2>1, <2>2, <2>4 DEF IInv, Own
<1>6. ASSUME NEW k \in {"Rebuild", "Update"}, OtherJob(k)
      PROVE  IInv'
  <2>1. /\ pc = "Marked" /\ other' = k /\ rows' = Unmarked(rows) /\ pc' = "Other"
        /\ toScan' = SeqFiles /\ resolved' = {}
        /\ UNCHANGED <<text, last, kind, todo, others, ok, trusted, jobs, edits, faults>>
    BY <1>6 DEF OtherJob, counts
  <2>2. /\ IsTable(rows', last') /\ ConfirmedFirst(rows', {})
        /\ OneRow(rows) => OneRow(rows')
    BY <2>1, UnmarkedRows DEF IInv
  <2>3. ConfirmedFirst(rows', others')
    BY <2>2, ConfirmedMore
  <2>4. Typed' /\ IsText(text') /\ Pending(text', todo')
    BY <2>1 DEF IInv, Typed
  <2> QED
    BY <2>1, <2>2, <2>3, <2>4 DEF IInv, Own
<1> QED
  BY <1>1, <1>2, <1>3, <1>4, <1>5, <1>6

(* A source is read.                                                       *)
LEMMA SourceSteps ==
  ASSUME IInv, NEW b \in BOOLEAN, NEW s \in Sources,
         b \/ s \in SeqFiles, pc \in {"Scan", "Other"}, todo = <<>>,
         NextSource(b, s, toScan, resolved, toScan', resolved'),
         b = TRUE => Job = "Rebuild",
         todo' = Analysed(text, b, s),
         UNCHANGED <<text, rows, last, pc, kind, other, others, ok, trusted, counts>>
  PROVE  IInv'
<1>1. Pending(text', todo')
  BY SourceLines DEF IInv
<1>2. toScan' \subseteq SeqFiles /\ resolved' \subseteq Sources
  BY DEF IInv, Typed, NextSource
<1>3. Typed' /\ IsText(text') /\ IsTable(rows', last')
  BY <1>2 DEF IInv, Typed, counts
<1>4. (Own /\ ok => Scanned)'
  <2> SUFFICES ASSUME Own', ok' PROVE Scanned'
    OBVIOUS
  <2>1. Scanned
    BY DEF IInv, Own
  <2>2. Stored(rows, text, toScan, resolved, <<>>)
    BY <2>1 DEF Scanned
  <2>3. toScan \subseteq SeqFiles /\ resolved \subseteq Sources /\ IsText(text)
    BY DEF IInv, Typed
  <2>4. /\ SaidIn(text, toScan, resolved) \subseteq SaidIn(text, toScan', resolved')
        /\ KeysOf(todo') \subseteq SaidIn(text, toScan', resolved')
        /\ Stored(rows, text, toScan', resolved', todo')
    BY <2>2, <2>3, ReadSource
  <2>5. ConfirmedFirst(rows, SaidIn(text, toScan', resolved') \cup others)
    <3>1. ConfirmedFirst(rows, SaidIn(text, toScan, resolved) \cup others)
      BY <2>1 DEF Scanned
    <3> QED
      BY <2>4, <3>1, ConfirmedMore
  <2> QED
    BY <2>4, <2>5 DEF Scanned
<1>5. (Own /\ kind = "Update" => resolved = {})'
  <2> SUFFICES ASSUME Own', kind' = "Update" PROVE resolved' = {}
    OBVIOUS
  <2>1. Own /\ pc = "Scan" /\ resolved = {}
    BY DEF IInv, Own
  <2>2. b = FALSE
    BY <2>1 DEF Job
  <2> QED
    BY <2>1, <2>2 DEF NextSource
<1> QED
  BY <1>1, <1>3, <1>4, <1>5 DEF IInv

(* A line is over.                                                         *)
LEMMA LineSteps ==
  ASSUME IInv, Upsert \/ UpsertFails \/ LookupFails
  PROVE  IInv'
<1> DEFINE line == Head(todo)
           t == [rows |-> rows, last |-> last]
<1>1. /\ NextLine /\ todo # <<>> /\ todo' = Tail(todo)
      /\ others' = IF pc = "Other" THEN others \cup {line.key} ELSE others
      /\ UNCHANGED <<text, pc, kind, other, toScan, resolved, jobs, edits>>
  BY DEF Upsert, UpsertFails, LookupFails, NextLine
<1>2. pc \in {"Scan", "Other"}
  BY <1>1 DEF IInv, Typed
<1>3. /\ Pending(text, Tail(todo)) /\ line \in Lines
      /\ KeysOf(todo) = KeysOf(Tail(todo)) \cup {line.key}
  BY <1>1, Heads DEF IInv
<1>4. line.key \in Keys /\ others' \subseteq Keys
  <2>1. line.key \in Keys
    BY <1>3 DEF Lines
  <2> HIDE DEF line
  <2> QED
    BY <1>1, <2>1 DEF IInv, Typed
<1>5. t.rows = rows /\ t.last = last /\ IsTable(t.rows, t.last)
  BY DEF IInv
<1>6. /\ ok' \in BOOLEAN /\ trusted' \in BOOLEAN /\ faults' \in 0 .. MaxFaults
      /\ ok' => ok
      /\ trusted' => trusted
  <2>1. ok \in BOOLEAN /\ trusted \in BOOLEAN /\ faults \in 0 .. MaxFaults
    BY DEF IInv, Typed
  <2>2. CASE Upsert
    BY <2>1, <2>2 DEF Upsert
  <2>3. CASE UpsertFails
    <3>1. /\ ok' = FALSE /\ trusted' = trusted
          /\ faults < MaxFaults /\ faults' = faults + 1
      BY <2>3 DEF UpsertFails, Fault
    <3>2. faults' \in 0 .. MaxFaults
      BY <2>1, <3>1
    <3> QED
      BY <2>1, <3>1, <3>2, Zenon
  <2>4. CASE LookupFails
    <3>1. /\ ok' = FALSE /\ trusted' = FALSE
          /\ faults < MaxFaults /\ faults' = faults + 1
      BY <2>4 DEF LookupFails, Fault
    <3>2. faults' \in 0 .. MaxFaults
      BY <2>1, <3>1
    <3> QED
      BY <2>1, <3>1, <3>2, Zenon
  <2> QED
    BY <2>2, <2>3, <2>4
<1> HIDE DEF line, t
<1>7. Typed' /\ IsText(text') /\ Pending(text', todo')
  BY <1>1, <1>2, <1>3, <1>4, <1>6 DEF IInv, Typed
<1>8. CASE Upsert
  <2> DEFINE u == UpdateObj(t, line)
  <2>1. rows' = u.rows /\ last' = u.last /\ trusted' = trusted
    BY <1>8 DEF Upsert, t, line
  <2>2. Upserted(t, line, u)
    BY <1>3, <1>5, UpdateObjUpserts
  <2> HIDE DEF u
  <2>3. /\ IsTable(u.rows, u.last)
        /\ OneRow(t.rows) => OneRow(u.rows)
        /\ \A keys : ConfirmedFirst(t.rows, keys) =>
                       ConfirmedFirst(u.rows, keys \cup {line.key})
    BY <1>3, <1>5, <2>2, UpsertKeeps
  <2>4. IsTable(rows', last') /\ (trusted => OneRow(rows))'
    BY <1>5, <2>1, <2>3 DEF IInv
  <2>5. (pc \in {"Marked", "Other"} /\ ok => ConfirmedFirst(rows, others))'
    <3> SUFFICES ASSUME pc = "Other", ok PROVE ConfirmedFirst(rows', others')
      BY <1>1, <1>2, <1>6
    <3>1. ConfirmedFirst(t.rows, others)
      BY <1>5 DEF IInv
    <3> QED
      BY <1>1, <2>1, <2>3, <3>1
  <2>6. (Own /\ ok => Scanned)'
    <3> SUFFICES ASSUME pc = "Scan", ok PROVE Scanned'
      BY <1>1, <1>2, <1>6 DEF Own
    <3> DEFINE said == SaidIn(text, toScan, resolved)
    <3>1. /\ KeysOf(todo) \subseteq said
          /\ ConfirmedFirst(t.rows, said \cup others)
          /\ Stored(t.rows, text, toScan, resolved, todo)
      BY <1>5 DEF IInv, Own, Scanned
    <3>2. KeysOf(todo') \subseteq said /\ line.key \in said
      BY <1>1, <1>3, <3>1
    <3>3. Stored(rows', text, toScan, resolved, todo')
      <4>1. IsText(text) /\ Pending(text, todo) /\ Upserted(t, Head(todo), u)
        BY <2>2 DEF IInv, line
      <4>2. Stored(u.rows, text, toScan, resolved, Tail(todo))
        BY <1>1, <1>5, <3>1, <4>1, StoreLine
      <4> QED
        BY <1>1, <2>1, <4>2
    <3> HIDE DEF said
    <3>4. ConfirmedFirst(rows', (said \cup others) \cup {line.key})
      BY <2>1, <2>3, <3>1
    <3>5. (said \cup others) \cup {line.key} = said \cup others'
      BY <1>1, <3>2
    <3> QED
      BY <1>1, <3>2, <3>3, <3>4, <3>5 DEF Scanned, said
  <2> QED
    BY <1>1, <1>2, <1>7, <2>4, <2>5, <2>6 DEF IInv, Own
<1>9. CASE UpsertFails \/ LookupFails
  <2>1. ~ok'
    BY <1>9 DEF UpsertFails, LookupFails
  <2>2. IsTable(rows', last') /\ (trusted => OneRow(rows))'
    <3>1. CASE UpsertFails
      BY <3>1 DEF UpsertFails, IInv
    <3>2. CASE LookupFails
      <4> DEFINE new == last + 1
                 row == Row(line.key, line.value)
      <4>1. rows' = Write(rows, 0, new, row) /\ last' = new /\ ~trusted'
        BY <3>2 DEF LookupFails, line
      <4>2. row \in RowSet
        BY <1>3 DEF Row, RowSet, Lines
      <4>3. rows' = [i \in DOMAIN rows \cup {new} |-> IF i = new THEN row ELSE rows[i]]
        BY <4>1 DEF Write
      <4>4. IsTable(rows, last)
        BY DEF IInv
      <4> HIDE DEF row
      <4>5. IsTable(rows', last')
        BY <4>1, <4>2, <4>3, <4>4 DEF IsTable
      <4> QED
        BY <4>1, <4>5
    <3> QED
      BY <1>9, <3>1, <3>2
  <2> QED
    BY <1>1, <1>2, <1>7, <2>1, <2>2 DEF IInv, Own
<1> QED
  BY <1>8, <1>9

LEMMA FinishSteps ==
  ASSUME IInv, Finish
  PROVE  IInv'
<1>1. /\ pc \in {"Scan", "Other"} /\ todo = <<>> /\ toScan = {}
      /\ rows' = IF Job = "Rebuild" THEN Live(rows) ELSE rows
      /\ pc' = IF pc = "Other" THEN "Marked" ELSE "Idle"
      /\ UNCHANGED <<text, last, kind, other, toScan, resolved, todo, others, ok, trusted,
                     jobs, edits, faults>>
  BY DEF Finish, Reading, scan, counts
<1>2. Typed' /\ IsText(text') /\ Pending(text', todo')
  BY <1>1 DEF IInv, Typed
<1>3. IsTable(rows, last)
  BY DEF IInv
<1>4. /\ IsTable(rows', last')
      /\ OneRow(rows) => OneRow(rows')
      /\ \A keys : ConfirmedFirst(rows, keys) => ConfirmedFirst(rows', keys)
      /\ \A key, value : Kept(rows, key, value) => Kept(rows', key, value)
  BY <1>1, <1>3, LiveRows
<1>5. (trusted => OneRow(rows))'
  BY <1>1, <1>4 DEF IInv
<1>6. (pc \in {"Marked", "Other"} /\ ok => ConfirmedFirst(rows, others))'
  BY <1>1, <1>4 DEF IInv
<1>7. (Own /\ ok => Scanned)'
  <2> SUFFICES ASSUME pc = "Scan", ok PROVE Scanned'
    BY <1>1 DEF Own
  <2>1. Scanned
    BY DEF IInv, Own
  <2>2. Stored(rows', text, toScan, resolved, todo)
    BY <1>4, <2>1 DEF Scanned, Stored
  <2> QED
    BY <1>1, <1>4, <2>1, <2>2 DEF Scanned
<1>8. (Own /\ kind = "Update" => resolved = {})'
  BY <1>1 DEF IInv, Own
<1>9. (pc = "Idle" /\ kind = "Rebuild" => \A i \in DOMAIN rows : rows[i].state = 1)'
  <2> SUFFICES ASSUME pc = "Scan", kind = "Rebuild"
               PROVE  \A i \in DOMAIN rows' : rows'[i].state = 1
    BY <1>1
  <2>1. rows' = Live(rows)
    BY <1>1 DEF Job
  <2>2. /\ DOMAIN rows' = {i \in DOMAIN rows : rows[i].state = 1}
        /\ \A i \in DOMAIN rows' : rows'[i] = rows[i]
    BY <1>3, <2>1, LiveRows
  <2> QED
    BY <2>2
<1> QED
  BY <1>1, <1>2, <1>4, <1>5, <1>6, <1>7, <1>8, <1>9 DEF IInv

LEMMA NextIInv == ASSUME IInv, [Next]_vars PROVE IInv'
<1>1. ASSUME NEW s \in Sources, ScanFile(s) PROVE IInv'
  <2>1. /\ s \in SeqFiles /\ pc \in {"Scan", "Other"} /\ todo = <<>>
        /\ NextSource(FALSE, s, toScan, resolved, toScan', resolved')
        /\ todo' = Analysed(text, FALSE, s)
        /\ UNCHANGED <<text, rows, last, pc, kind, other, others, ok, trusted, counts>>
    BY <1>1, SaidIs DEF ScanFile, Reading, NextSource, IInv, Typed
  <2> QED
    BY <2>1, SourceSteps
<1>2. ASSUME NEW s \in Sources, RebuildClassDefinition(s) PROVE IInv'
  <2>1. /\ pc \in {"Scan", "Other"} /\ todo = <<>> /\ Job = "Rebuild"
        /\ NextSource(TRUE, s, toScan, resolved, toScan', resolved')
        /\ todo' = Analysed(text, TRUE, s)
        /\ UNCHANGED <<text, rows, last, pc, kind, other, others, ok, trusted, counts>>
    BY <1>2, SaidIs DEF RebuildClassDefinition, Reading, NextSource
  <2> QED
    BY <2>1, SourceSteps
<1> QED
  BY <1>1, <1>2, QuietSteps, LineSteps, FinishSteps DEF Next

LEMMA Invariant == Spec => []IInv
  BY InitIInv, NextIInv, PTL DEF Spec

(* Ids are given out once, upserts work through what the sources say.      *)
THEOREM TypeCorrect == Spec => []TypeOK
<1>1. ASSUME IInv PROVE TypeOK
  <2>1. \A i \in DOMAIN todo : IsSuffix(todo, LinesAbout(todo[i].key))
    BY <1>1, SaidIs DEF IInv, Pending
  <2>2. /\ DOMAIN rows \subseteq 1 .. last /\ last \in Nat
        /\ \A i \in DOMAIN rows : rows[i] \in [key : Keys, value : Values, state : {0, 1}]
    BY <1>1, RowsTyped DEF IInv
  <2> QED
    BY <1>1, <2>1, <2>2 DEF IInv, Typed, IsText, TypeOK
<1> QED
  BY <1>1, Invariant, PTL

(* One row per key, unless a lookup has failed.                            *)
THEOREM AlwaysOneRowPerKey == Spec => []OneRowPerKey
<1>1. ASSUME IInv PROVE OneRowPerKey
  <2> SUFFICES ASSUME trusted, NEW key \in Keys
               PROVE  Cardinality(Ids(rows, key)) <= 1
    BY DEF OneRowPerKey
  <2>1. OneRow(rows)
    BY <1>1 DEF IInv
  <2>2. CASE Ids(rows, key) = {}
    BY <2>2, FS_EmptySet
  <2>3. CASE Ids(rows, key) # {}
    <3>1. PICK i \in Ids(rows, key) : TRUE
      BY <2>3
    <3>2. Ids(rows, key) = {i}
      BY <2>1, <3>1 DEF Ids, OneRow
    <3>3. Cardinality({i}) = 1
      BY FS_Singleton, Zenon
    <3> QED
      BY <3>2, <3>3
  <2> QED
    BY <2>2, <2>3
<1> QED
  BY <1>1, Invariant, PTL

(* What a job that is done has stored, whichever of the two it was: the    *)
(* row found for a key has what the sources say last about it.             *)
LEMMA DoneStored ==
  ASSUME IInv, pc = "Idle", kind # "Load", ok, NEW key \in Said
  PROVE  \E i \in DOMAIN rows :
            /\ First(rows, i) /\ rows[i].key = key
            /\ rows[i].value = LastValue(key) /\ rows[i].state = 1
<1>1. Stored(rows, text, toScan, resolved, <<>>)
  BY DEF IInv, Typed, Own, Scanned
<1>2. key \in SaidIn(text, toScan, resolved) /\ LastValue(key) = LastIn(text, key)
  BY SaidIs
<1>3. Kept(rows, key, LastIn(text, key))
  BY <1>1, <1>2, NoLines DEF Stored
<1>4. PICK i \in DOMAIN rows : First(rows, i) /\ rows[i] = Row(key, LastIn(text, key))
  BY <1>3 DEF Kept
<1> QED
  BY <1>2, <1>4 DEF Row

(* A Rebuild without a failing call makes good for what failed before.     *)
THEOREM RebuildAlwaysHeals == Spec => []RebuildHeals
<1>1. ASSUME IInv PROVE RebuildHeals
  <2> SUFFICES ASSUME Done("Rebuild")
               PROVE  /\ \A key \in Said :
                            \E i \in DOMAIN rows :
                               Ids(rows, key) = {i} /\ rows[i].value = LastValue(key)
                      /\ \A i \in DOMAIN rows : rows[i].key \in Said \cup others
    BY DEF RebuildHeals
  <2>1. pc = "Idle" /\ kind = "Rebuild" /\ ok
    BY DEF Done
  <2>2. /\ ConfirmedFirst(rows, Said \cup others)
        /\ \A i \in DOMAIN rows : rows[i].state = 1
    BY <1>1, <2>1, SaidIs DEF IInv, Own, Scanned
  <2>3. ASSUME NEW key \in Said
        PROVE  \E i \in DOMAIN rows :
                  Ids(rows, key) = {i} /\ rows[i].value = LastValue(key)
    <3>1. PICK i \in DOMAIN rows :
            First(rows, i) /\ rows[i].key = key /\ rows[i].value = LastValue(key)
      BY <1>1, <2>1, DoneStored
    <3>2. DOMAIN rows \subseteq Nat
      BY <1>1 DEF IInv, IsTable
    <3>3. ASSUME NEW j \in DOMAIN rows, rows[j].key = key
          PROVE  j = i
      <4>1. First(rows, j)
        BY <2>2 DEF ConfirmedFirst
      <4>2. i <= j /\ j <= i
        BY <3>1, <3>3, <4>1 DEF First
      <4> QED
        BY <3>2, <4>2
    <3>4. Ids(rows, key) = {i}
      BY <3>1, <3>3 DEF Ids
    <3> QED
      BY <3>1, <3>4
  <2> QED
    BY <2>2, <2>3 DEF ConfirmedFirst
<1> QED
  BY <1>1, Invariant, PTL

(* After an Update lookups find the row that has the value of the source.  *)
THEOREM UpdateAlwaysConfirms == Spec => []UpdateConfirms
<1>1. ASSUME IInv, Done("Update"), NEW key \in Said
      PROVE  /\ rows[RefreshID(rows, key)].value = LastValue(key)
             /\ \A i \in Ids(rows, key) :
                   rows[i].state = 1 => rows[i].value = LastValue(key)
  <2>1. pc = "Idle" /\ kind = "Update" /\ ok
    BY <1>1 DEF Done
  <2>2. PICK i \in DOMAIN rows :
          First(rows, i) /\ rows[i].key = key /\ rows[i].value = LastValue(key)
    BY <1>1, <2>1, DoneStored
  <2>3. ConfirmedFirst(rows, Said \cup others)
    BY <1>1, <2>1, SaidIs DEF IInv, Own, Scanned
  <2>4. Ids(rows, key) \in SUBSET Nat
    BY <1>1 DEF IInv, IsTable, Ids
  <2>5. i \in Ids(rows, key) /\ \A j \in Ids(rows, key) : i <= j
    BY <2>2 DEF Ids, First
  <2>6. RefreshID(rows, key) = i
    BY <2>4, <2>5, MinUnique DEF RefreshID
  <2>7. ASSUME NEW j \in Ids(rows, key), rows[j].state = 1
        PROVE  j = i
    <3>1. j \in DOMAIN rows /\ rows[j].key = key /\ First(rows, j)
      BY <2>3, <2>7 DEF ConfirmedFirst, Ids
    <3>2. i <= j /\ j <= i
      BY <2>2, <2>5, <3>1 DEF First
    <3>3. i \in Nat /\ j \in Nat
      BY <2>4, <2>5
    <3> QED
      BY <3>2, <3>3
  <2> QED
    BY <2>2, <2>6, <2>7
<1>2. ASSUME IInv, Done("Update"), NEW i \in DOMAIN rows, rows[i].state = 1
      PROVE  rows[i].key[1] \in SeqFiles \/ rows[i].key \in others
  <2>1. resolved = {} /\ ConfirmedFirst(rows, SaidIn(text, toScan, resolved) \cup others)
    BY <1>2 DEF Done, IInv, Own, Scanned
  <2> QED
    BY <1>2, <2>1 DEF ConfirmedFirst, SaidIn
<1>3. IInv => UpdateConfirms
  BY <1>1, <1>2 DEF UpdateConfirms
<1> QED
  BY <1>3, Invariant, PTL
-----------------------------------------------------------------------------
(* The table by its keys, and one row as the keyed table has it.           *)
Entry(row) == [value |-> row.value, state |-> row.state]
KeysIn(r) == {r[i].key : i \in DOMAIN r}
Abstract(r) == [key \in KeysIn(r) |-> Entry(r[RefreshID(r, key)])]

LEMMA ByKeyIsAbstract == ByKey = Abstract(rows)
BY DEF ByKey, Abstract, Entry, KeysIn

LEMMA EntryOf ==
  ASSUME NEW r, NEW n, IsTable(r, n), OneRow(r), NEW i \in DOMAIN r
  PROVE  r[i].key \in KeysIn(r) /\ Abstract(r)[r[i].key] = Entry(r[i])
<1>1. r[i].key \in KeysIn(r) /\ i \in Ids(r, r[i].key)
  BY DEF KeysIn, Ids
<1>2. LET id == RefreshID(r, r[i].key) IN id \in DOMAIN r /\ r[id].key = r[i].key
  BY <1>1, FoundIsFirst
<1>3. RefreshID(r, r[i].key) = i
  BY <1>2 DEF OneRow
<1> QED
  BY <1>1, <1>3 DEF Abstract

(* A table of one row per key is known by its rows.                        *)
LEMMA AbstractIs ==
  ASSUME NEW r, NEW n, IsTable(r, n), OneRow(r),
         NEW table, table = [key \in DOMAIN table |-> table[key]],
         DOMAIN table = KeysIn(r),
         \A i \in DOMAIN r : table[r[i].key] = Entry(r[i])
  PROVE  Abstract(r) = table
<1>1. Abstract(r) = [key \in DOMAIN table |-> Abstract(r)[key]]
  BY DEF Abstract
<1>2. ASSUME NEW key \in DOMAIN table
      PROVE  Abstract(r)[key] = table[key]
  <2>1. PICK i \in DOMAIN r : r[i].key = key
    BY DEF KeysIn
  <2> QED
    BY <2>1, EntryOf
<1> QED
  BY <1>1, <1>2

LEMMA AbstractUnmarked ==
  ASSUME NEW r, NEW n, IsTable(r, n), OneRow(r)
  PROVE  Abstract(Unmarked(r)) = Keyed!Unmarked(Abstract(r))
<1> DEFINE s == Unmarked(r)
           table == Keyed!Unmarked(Abstract(r))
<1>1. /\ IsTable(s, n) /\ OneRow(s) /\ DOMAIN s = DOMAIN r
      /\ \A i \in DOMAIN r : /\ s[i].key = r[i].key /\ s[i].value = r[i].value
                             /\ s[i].state = 0
  BY UnmarkedRows
<1>2. DOMAIN table = KeysIn(r) /\ table = [key \in DOMAIN table |-> table[key]]
      /\ \A key \in KeysIn(r) : table[key] = [Abstract(r)[key] EXCEPT !.state = 0]
  BY DEF Keyed!Unmarked, Abstract
<1> HIDE DEF s, table
<1>3. KeysIn(s) = KeysIn(r)
  BY <1>1 DEF KeysIn
<1>4. ASSUME NEW i \in DOMAIN s PROVE table[s[i].key] = Entry(s[i])
  <2>1. r[i].key \in KeysIn(r) /\ Abstract(r)[r[i].key] = Entry(r[i])
    BY <1>1, EntryOf
  <2>2. table[s[i].key] = [Entry(r[i]) EXCEPT !.state = 0]
    BY <1>1, <1>2, <2>1
  <2> QED
    BY <1>1, <2>2 DEF Entry
<1>5. Abstract(s) = table
  BY <1>1, <1>2, <1>3, <1>4, AbstractIs
<1> QED
  BY <1>5 DEF s, table

LEMMA AbstractLive ==
  ASSUME NEW r, NEW n, IsTable(r, n), OneRow(r)
  PROVE  Abstract(Live(r)) = Keyed!Live(Abstract(r))
<1> DEFINE s == Live(r)
           table == Keyed!Live(Abstract(r))
<1>1. /\ IsTable(s, n) /\ OneRow(s) /\ DOMAIN s = {i \in DOMAIN r : r[i].state = 1}
      /\ \A i \in DOMAIN s : s[i] = r[i]
  BY LiveRows
<1>2. /\ DOMAIN table = {key \in KeysIn(r) : Abstract(r)[key].state # 0}
      /\ table = [key \in DOMAIN table |-> table[key]]
      /\ \A key \in DOMAIN table : table[key] = Abstract(r)[key]
  BY DEF Keyed!Live, Abstract
<1>3. \A i \in DOMAIN r : r[i].state \in {0, 1}
  BY RowsTyped
<1> HIDE DEF s, table
<1>4. \A i \in DOMAIN r : /\ r[i].key \in KeysIn(r)
                         /\ Abstract(r)[r[i].key] = Entry(r[i])
  BY EntryOf
<1>5. \A i \in DOMAIN r : r[i].key \in DOMAIN table <=> i \in DOMAIN s
  <2> SUFFICES ASSUME NEW i \in DOMAIN r
               PROVE  r[i].key \in DOMAIN table <=> i \in DOMAIN s
    OBVIOUS
  <2>1. Abstract(r)[r[i].key].state = r[i].state
    <3>1. Abstract(r)[r[i].key] = Entry(r[i])
      BY <1>4
    <3>2. Entry(r[i]).state = r[i].state
      BY DEF Entry
    <3> QED
      BY <3>1, <3>2
  <2>2. r[i].key \in DOMAIN table <=> r[i].state # 0
    BY <1>2, <1>4, <2>1
  <2> QED
    BY <1>1, <1>3, <2>2
<1>6. KeysIn(s) = DOMAIN table
  BY <1>1, <1>2, <1>5 DEF KeysIn
<1>7. ASSUME NEW i \in DOMAIN s PROVE table[s[i].key] = Entry(s[i])
  BY <1>1, <1>2, <1>4, <1>5
<1>8. Abstract(s) = table
  <2>1. IsTable(s, n) /\ OneRow(s) /\ DOMAIN table = KeysIn(s)
        /\ table = [key \in DOMAIN table |-> table[key]]
    BY <1>1, <1>2, <1>6
  <2> QED
    BY <1>7, <2>1, AbstractIs, Zenon
<1> QED
  BY <1>8 DEF s, table

LEMMA AbstractUpserted ==
  ASSUME NEW t, IsTable(t.rows, t.last), OneRow(t.rows), NEW line \in Lines,
         NEW u, Upserted(t, line, u)
  PROVE  Abstract(u.rows) =
           Keyed!Upsert(Abstract(t.rows), line.key, Keyed!Confirmed(line.value))
<1> DEFINE r == t.rows
           s == u.rows
           row == Row(line.key, line.value)
           table == Keyed!Upsert(Abstract(r), line.key, Keyed!Confirmed(line.value))
<1>1. PICK id \in 1 .. u.last :
    /\ id \in DOMAIN r => r[id].key = line.key
    /\ DOMAIN s = DOMAIN r \cup {id}
    /\ s[id] = row
    /\ \A i \in DOMAIN r \ {id} : s[i] = r[i]
  BY Zenon DEF Upserted
<1>2. IsTable(s, u.last) /\ OneRow(s)
  BY UpsertKeeps
<1>3. row.key = line.key /\ Entry(row) = Keyed!Confirmed(line.value)
  BY DEF Row, Entry, Keyed!Confirmed
<1>4. /\ DOMAIN table = KeysIn(r) \cup {line.key}
      /\ table = [key \in DOMAIN table |-> table[key]]
      /\ \A key \in DOMAIN table :
            table[key] = IF key = line.key THEN Keyed!Confirmed(line.value)
                                           ELSE Abstract(r)[key]
  BY DEF Keyed!Upsert, Abstract
<1> HIDE DEF r, s, row, table
<1>5. KeysIn(s) = DOMAIN table
  BY <1>1, <1>3, <1>4 DEF KeysIn
<1>6. ASSUME NEW i \in DOMAIN s PROVE table[s[i].key] = Entry(s[i])
  <2>1. CASE i = id
    BY <1>1, <1>3, <1>4, <2>1
  <2>2. CASE i # id
    <3>1. i \in DOMAIN r /\ s[i] = r[i]
      BY <1>1, <2>2
    <3>2. s[i].key # line.key
      BY <1>1, <1>2, <1>3, <2>2 DEF OneRow
    <3>3. r[i].key \in KeysIn(r) /\ Abstract(r)[r[i].key] = Entry(r[i])
      BY <3>1, EntryOf DEF r
    <3> QED
      BY <1>4, <3>1, <3>2, <3>3
  <2> QED
    BY <2>1, <2>2
<1>7. Abstract(s) = table
  <2>1. DOMAIN table = KeysIn(s) /\ table = [key \in DOMAIN table |-> table[key]]
    BY <1>4, <1>5
  <2> QED
    BY <1>2, <1>6, <2>1, AbstractIs, Zenon
<1> QED
  BY <1>7 DEF r, s, table

(* While no lookup has failed every step is one of the keyed table, or     *)
(* changes nothing of it.                                                  *)
LEMMA KeyedStep ==
  ASSUME IInv, [Next]_vars, trusted'
  PROVE  Keyed!Next \/ UNCHANGED ByKey
<1> DEFINE a == Abstract(rows)
           a2 == Abstract(rows')
<1>1. ByKey = a /\ ByKey' = a2
  BY DEF ByKey, Abstract, Entry, KeysIn
<1>2. IsTable(rows, last) /\ (trusted => OneRow(rows))
  BY DEF IInv
<1> HIDE DEF a, a2
<1>3. CASE Load
  <2>1. rows' = Empty
    BY <1>3 DEF Load
  <2>2. a2 = Keyed!NoRows
    BY <2>1 DEF a2, Abstract, KeysIn, Empty, Keyed!NoRows
  <2> QED
    BY <1>1, <2>2 DEF Keyed!Next
<1>4. ASSUME NEW k \in {"Rebuild", "Update"}, PrepareForUpdate(k)
      PROVE  Keyed!Next
  <2>1. rows' = Unmarked(rows) /\ OneRow(rows)
    BY <1>2, <1>4 DEF PrepareForUpdate
  <2>2. a2 = Keyed!Unmarked(a)
    BY <1>2, <2>1, AbstractUnmarked DEF a, a2
  <2> QED
    BY <1>1, <2>2 DEF Keyed!Next
<1>5. ASSUME NEW k \in {"Rebuild", "Update"}, OtherJob(k)
      PROVE  Keyed!Next
  <2>1. rows' = Unmarked(rows) /\ OneRow(rows)
    BY <1>2, <1>5 DEF OtherJob
  <2>2. a2 = Keyed!Unmarked(a)
    BY <1>2, <2>1, AbstractUnmarked DEF a, a2
  <2> QED
    BY <1>1, <2>2 DEF Keyed!Next
<1>6. CASE Upsert
  <2> DEFINE t == [rows |-> rows, last |-> last]
             line == Head(todo)
             u == UpdateObj(t, line)
  <2>1. /\ todo # <<>> /\ rows' = u.rows /\ OneRow(rows)
    BY <1>2, <1>6 DEF Upsert, NextLine
  <2>2. line \in Lines
    BY <2>1, Heads DEF IInv
  <2>3. t.rows = rows /\ t.last = last
    OBVIOUS
  <2> HIDE DEF t, line
  <2>4. Upserted(t, line, u)
    BY <1>2, <2>2, <2>3, UpdateObjUpserts
  <2> HIDE DEF u
  <2>5. a2 = Keyed!Upsert(a, line.key, Keyed!Confirmed(line.value))
    BY <1>2, <2>1, <2>2, <2>3, <2>4, AbstractUpserted DEF a, a2
  <2>6. line.key \in Keys /\ line.value \in Values
    BY <2>2 DEF Lines
  <2> QED
    BY <1>1, <2>5, <2>6, Zenon DEF Keyed!Next
<1>7. CASE Finish
  <2>1. /\ rows' = IF Job = "Rebuild" THEN Live(rows) ELSE rows
        /\ OneRow(rows)
    BY <1>2, <1>7 DEF Finish
  <2>2. a2 = Keyed!Live(a) \/ a2 = a
    BY <1>2, <2>1, AbstractLive DEF a, a2
  <2> QED
    BY <1>1, <2>2 DEF Keyed!Next
<1>8. CASE LookupFails
  BY <1>8 DEF LookupFails
<1>9. CASE \/ Edit \/ RebuildObjList \/ UpsertFails \/ UNCHANGED vars
           \/ \E s \in Sources : ScanFile(s) \/ RebuildClassDefinition(s)
  <2>1. rows' = rows
    BY <1>9 DEF Edit, RebuildObjList, UpsertFails, vars, ScanFile, RebuildClassDefinition
  <2> QED
    BY <1>1, <2>1 DEF a, a2
<1> QED
  BY <1>3, <1>4, <1>5, <1>6, <1>7, <1>8, <1>9 DEF Next

(* Rows with ids implement the keyed table that Rebuild takes the tables    *)
(* to be, for all texts, as long as no lookup fails.                       *)
THEOREM RowsImplementKeyedTable == Spec => ImplementsKeyedTable
<1>1. ASSUME IInv, [Next]_vars PROVE [trusted' => Keyed!Next]_ByKey
  BY <1>1, KeyedStep
<1> QED
  BY <1>1, Invariant, PTL DEF Spec, ImplementsKeyedTable
=============================================================================
