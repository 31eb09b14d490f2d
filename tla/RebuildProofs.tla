--------------------------- MODULE RebuildProofs ---------------------------
(***************************************************************************)
(* What a Rebuild and an Update leave in the tables, for all sources,      *)
(* texts and orders in which files and classes are read.                   *)
(***************************************************************************)
EXTENDS Rebuild, SharedLemmas, SequenceTheorems, TLAPS

ObjectRow == [class : Sources \cup BasicTypes, state : {0, 1}]
DeclRow == [params : Strings, type : {"seq", "class", "type"}, state : {0, 1}]

TypeOf(s) ==
  IF s \in SeqFiles THEN "seq" ELSE IF s \in Classes THEN "class" ELSE "type"

IsTables(t) ==
  /\ t = [list |-> t.list, decl |-> t.decl]
  /\ t.list \in [DOMAIN t.list -> ObjectRow]
  /\ DOMAIN t.list \subseteq Sources \X Strings
  /\ t.decl \in [DOMAIN t.decl -> DeclRow]
  /\ DOMAIN t.decl \subseteq (Sources \cup BasicTypes) \X Strings
  /\ \A k \in DOMAIN t.decl : t.decl[k].type = TypeOf(k[1])

(* The row a line is stored as.                                            *)
RowOf(line, type) ==
  IF line.kind = "function"
  THEN [params |-> line.params, type |-> type, state |-> 1]
  ELSE [class |-> line.class, state |-> 1]

(* None of the first n lines after line m is about the same.               *)
IsLast(lines, n, m) ==
  \A j \in (m + 1) .. n :
    ~(lines[j].kind = lines[m].kind /\ lines[j].name = lines[m].name)

(* A row about something that the first n lines of a source mention.       *)
FromLine(key, name, kind, lines, n) ==
  \E m \in 1 .. n : lines[m].kind = kind /\ key = <<name, lines[m].name>>

(* The last lines of each kind are in the table.                           *)
Holds(table, name, kind, type, lines, n) ==
  \A m \in 1 .. n :
    lines[m].kind = kind /\ IsLast(lines, n, m) =>
      /\ <<name, lines[m].name>> \in DOMAIN table
      /\ table[<<name, lines[m].name>>] = RowOf(lines[m], type)

(* What writing the lines of one kind makes of a table.                    *)
Wrote(old, new, name, kind, type, lines, n) ==
  /\ DOMAIN old \subseteq DOMAIN new
  /\ \A key \in DOMAIN new :
        \/ key \in DOMAIN old /\ new[key] = old[key]
        \/ FromLine(key, name, kind, lines, n)
  /\ Holds(new, name, kind, type, lines, n)


(* One line more, of the kind the table has ...                            *)
LEMMA WroteOne ==
  ASSUME NEW old, NEW mid, NEW new, NEW name, NEW kind, NEW type,
         NEW lines, NEW n \in Nat,
         Wrote(old, mid, name, kind, type, lines, n),
         lines[n + 1].kind = kind,
         new = Upsert(mid, <<name, lines[n + 1].name>>, RowOf(lines[n + 1], type))
  PROVE  Wrote(old, new, name, kind, type, lines, n + 1)
<1> DEFINE line == lines[n + 1]
           key == <<name, line.name>>
<1>1. /\ DOMAIN new = DOMAIN mid \cup {key}
      /\ new[key] = RowOf(line, type)
      /\ \A k \in DOMAIN mid \ {key} : new[k] = mid[k]
  BY DEF Upsert
<1>2. line.kind = kind
  OBVIOUS
<1> HIDE DEF line
<1>3. DOMAIN old \subseteq DOMAIN new
  BY <1>1 DEF Wrote
<1>4. ASSUME NEW k \in DOMAIN new
      PROVE  \/ k \in DOMAIN old /\ new[k] = old[k]
             \/ FromLine(k, name, kind, lines, n + 1)
  <2>1. CASE k = key
    BY <1>2, <2>1 DEF FromLine, line
  <2>2. CASE k # key
    <3>1. k \in DOMAIN mid /\ new[k] = mid[k]
      BY <1>1, <2>2
    <3>2. CASE FromLine(k, name, kind, lines, n)
      BY <3>2 DEF FromLine
    <3>3. CASE k \in DOMAIN old /\ mid[k] = old[k]
      BY <3>1, <3>3
    <3> QED
      BY <3>1, <3>2, <3>3 DEF Wrote
  <2> QED
    BY <2>1, <2>2
<1>5. Holds(new, name, kind, type, lines, n + 1)
  <2> SUFFICES ASSUME NEW m \in 1 .. (n + 1), lines[m].kind = kind,
                      IsLast(lines, n + 1, m)
               PROVE  /\ <<name, lines[m].name>> \in DOMAIN new
                      /\ new[<<name, lines[m].name>>] = RowOf(lines[m], type)
    BY DEF Holds
  <2>1. CASE m = n + 1
    BY <1>1, <2>1 DEF line
  <2>2. CASE m # n + 1
    <3>1. m \in 1 .. n /\ n + 1 \in (m + 1) .. (n + 1)
      BY <2>2
    <3>2. lines[m].name # line.name
      BY <1>2, <3>1 DEF IsLast, line
    <3>3. IsLast(lines, n, m)
      BY <3>1 DEF IsLast
    <3>4. /\ <<name, lines[m].name>> \in DOMAIN mid
          /\ mid[<<name, lines[m].name>>] = RowOf(lines[m], type)
      BY <3>1, <3>3 DEF Wrote, Holds
    <3>5. <<name, lines[m].name>> # key
      BY <3>2
    <3> QED
      BY <1>1, <3>4, <3>5
  <2> QED
    BY <2>1, <2>2
<1> QED
  BY <1>3, <1>4, <1>5 DEF Wrote

(* ... or of the other one.                                                *)
LEMMA WroteOther ==
  ASSUME NEW old, NEW new, NEW name, NEW kind, NEW type, NEW lines, NEW n \in Nat,
         Wrote(old, new, name, kind, type, lines, n), lines[n + 1].kind # kind
  PROVE  Wrote(old, new, name, kind, type, lines, n + 1)
<1>1. \A key : FromLine(key, name, kind, lines, n) => FromLine(key, name, kind, lines, n + 1)
  BY DEF FromLine
<1>2. Holds(new, name, kind, type, lines, n + 1)
  <2> SUFFICES ASSUME NEW m \in 1 .. (n + 1), lines[m].kind = kind,
                      IsLast(lines, n + 1, m)
               PROVE  /\ <<name, lines[m].name>> \in DOMAIN new
                      /\ new[<<name, lines[m].name>>] = RowOf(lines[m], type)
    BY DEF Holds
  <2>1. m \in 1 .. n
    <3>1. m # n + 1
      OBVIOUS
    <3> QED
      BY <3>1
  <2>2. IsLast(lines, n, m)
    BY <2>1 DEF IsLast
  <2> QED
    BY <2>1, <2>2 DEF Wrote, Holds
<1> QED
  BY <1>1, <1>2, Zenon DEF Wrote

LEMMA WroteNothing ==
  ASSUME NEW table, NEW name, NEW kind, NEW type, NEW lines
  PROVE  Wrote(table, table, name, kind, type, lines, 0)
BY DEF Wrote, Holds

-----------------------------------------------------------------------------
LEMMA UpdateObjListIs ==
  ASSUME NEW t, IsTables(t), NEW scope \in Sources, NEW object \in Strings,
         NEW class \in Sources \cup BasicTypes,
         NEW u, u = UpdateObjList(t, scope, object, class)
  PROVE  /\ IsTables(u)
         /\ u.decl = t.decl
         /\ u.list = Upsert(t.list, <<scope, object>>, [class |-> class, state |-> 1])
<1> DEFINE key == <<scope, object>>
           row == [class |-> class, state |-> 1]
<1>1. u = [list |-> Upsert(t.list, key, row), decl |-> t.decl]
  BY DEF UpdateObjList, IsTables
<1>2. u.decl = t.decl /\ u.list = Upsert(t.list, key, row)
  BY <1>1
<1>3. key \in Sources \X Strings /\ row \in ObjectRow
  BY DEF ObjectRow
<1> HIDE DEF key, row
<1>4. /\ DOMAIN u.list = DOMAIN t.list \cup {key}
      /\ u.list[key] = row
      /\ \A k \in DOMAIN t.list \ {key} : u.list[k] = t.list[k]
      /\ u.list = [k \in DOMAIN u.list |-> u.list[k]]
  BY <1>2 DEF Upsert
<1>5. u.list \in [DOMAIN u.list -> ObjectRow]
  <2>1. \A k \in DOMAIN t.list : t.list[k] \in ObjectRow
    BY DEF IsTables
  <2>2. \A k \in DOMAIN u.list : u.list[k] \in ObjectRow
    BY <1>3, <1>4, <2>1
  <2> QED
    BY <1>4, <2>2
<1>6. IsTables(u)
  BY <1>1, <1>2, <1>3, <1>4, <1>5 DEF IsTables
<1> QED
  BY <1>2, <1>6 DEF key, row

LEMMA UpdateObjDeclIs ==
  ASSUME NEW t, IsTables(t), NEW class \in Sources, NEW function \in Strings,
         NEW params \in Strings,
         NEW u, u = UpdateObjDecl(t, class, function, params, TypeOf(class))
  PROVE  /\ IsTables(u)
         /\ u.list = t.list
         /\ u.decl = Upsert(t.decl, <<class, function>>,
                            [params |-> params, type |-> TypeOf(class), state |-> 1])
<1> DEFINE key == <<class, function>>
           row == [params |-> params, type |-> TypeOf(class), state |-> 1]
<1>1. u = [list |-> t.list, decl |-> Upsert(t.decl, key, row)]
  BY DEF UpdateObjDecl, IsTables
<1>2. u.list = t.list /\ u.decl = Upsert(t.decl, key, row)
  BY <1>1
<1>3. /\ key \in (Sources \cup BasicTypes) \X Strings /\ row \in DeclRow
      /\ key[1] = class /\ row.type = TypeOf(class)
  BY DEF DeclRow, TypeOf
<1> HIDE DEF key, row
<1>4. /\ DOMAIN u.decl = DOMAIN t.decl \cup {key}
      /\ u.decl[key] = row
      /\ \A k \in DOMAIN t.decl \ {key} : u.decl[k] = t.decl[k]
      /\ u.decl = [k \in DOMAIN u.decl |-> u.decl[k]]
  BY <1>2 DEF Upsert
<1>5. u.decl \in [DOMAIN u.decl -> DeclRow]
  <2>1. \A k \in DOMAIN t.decl : t.decl[k] \in DeclRow
    BY DEF IsTables
  <2>2. \A k \in DOMAIN u.decl : u.decl[k] \in DeclRow
    BY <1>3, <1>4, <2>1
  <2> QED
    BY <1>4, <2>2
<1>6. \A k \in DOMAIN u.decl : u.decl[k].type = TypeOf(k[1])
  BY <1>3, <1>4 DEF IsTables
<1>7. IsTables(u)
  BY <1>1, <1>2, <1>3, <1>4, <1>5, <1>6 DEF IsTables
<1> QED
  BY <1>2, <1>7 DEF key, row

(* u is t with one line stored, which goes to the table of its kind.       *)
LineStored(t, u, name, type, line) ==
  /\ IsTables(u)
  /\ line.kind \in {"object", "function"}
  /\ line.kind = "object" =>
       /\ u.decl = t.decl
       /\ u.list = Upsert(t.list, <<name, line.name>>, RowOf(line, type))
  /\ line.kind = "function" =>
       /\ u.list = t.list
       /\ u.decl = Upsert(t.decl, <<name, line.name>>, RowOf(line, type))

LEMMA ParseLineStores ==
  ASSUME NEW t, IsTables(t), NEW name \in Sources, NEW type, NEW line \in Lines,
         line.kind = "function" => type = TypeOf(name)
  PROVE  LineStored(t, ParseLine(t, name, type, line), name, type, line)
<1> DEFINE u == ParseLine(t, name, type, line)
<1> DEFINE n == line.name
<1>1. CASE line.kind = "function"
  <2> DEFINE p == line.params
             row == [params |-> p, type |-> TypeOf(name), state |-> 1]
  <2>1. n \in Strings /\ p \in Strings
    BY <1>1 DEF Lines
  <2>2. u = UpdateObjDecl(t, name, n, p, TypeOf(name)) /\ RowOf(line, type) = row
    BY <1>1 DEF ParseLine, RowOf
  <2> HIDE DEF n, p
  <2>3. IsTables(u) /\ u.list = t.list /\ u.decl = Upsert(t.decl, <<name, n>>, row)
    BY <2>1, <2>2, UpdateObjDeclIs
  <2> QED
    <3> HIDE DEF row, u
    <3> QED
      BY <1>1, <2>2, <2>3 DEF n, u, LineStored
<1>2. CASE line.kind # "function"
  <2> DEFINE c == line.class
             row == [class |-> c, state |-> 1]
  <2>1. line.kind = "object" /\ n \in Strings /\ c \in Sources \cup BasicTypes
    BY <1>2 DEF Lines
  <2>2. u = UpdateObjList(t, name, n, c) /\ RowOf(line, type) = row
    BY <1>2 DEF ParseLine, RowOf
  <2> HIDE DEF n, c
  <2>3. IsTables(u) /\ u.decl = t.decl /\ u.list = Upsert(t.list, <<name, n>>, row)
    BY <2>1, <2>2, UpdateObjListIs
  <2> QED
    <3> HIDE DEF row, u
    <3> QED
      BY <2>1, <2>2, <2>3 DEF n, u, LineStored
<1> QED
  BY <1>1, <1>2

(* All lines of a source, one by one: the recursive function that          *)
(* ParseLines defines exists.                                              *)
LEMMA ParseLinesSteps ==
  ASSUME NEW t, NEW name, NEW type, NEW lines \in Seq(Lines)
  PROVE  \E f : /\ f[0] = t
                /\ \A n \in 1 .. Len(lines) :
                      f[n] = ParseLine(f[n - 1], name, type, lines[n])
                /\ ParseLines(t, name, type, lines) = f[Len(lines)]
<1> DEFINE b == Len(lines)
           Next1(v, n) == ParseLine(v, name, type, lines[n])
           Is(f, k) == f = [n \in 0 .. k |-> IF n = 0 THEN t ELSE Next1(f[n - 1], n)]
           S == {k \in Nat : \E f : Is(f, k)}
<1>0. b \in Nat
  OBVIOUS
<1>5. ParseLines(t, name, type, lines) = (CHOOSE f : Is(f, b))[b]
  BY DEF ParseLines
<1> HIDE DEF Next1
<1>1. 0 \in S
  <2>1. Is([n \in 0 .. 0 |-> t], 0)
    OBVIOUS
  <2> QED
    BY <2>1
<1>2. ASSUME NEW k \in Nat, k < b, k \in S
      PROVE  k + 1 \in S
  <2>1. PICK f : Is(f, k)
    BY <1>2
  <2> DEFINE g == [n \in 0 .. (k + 1) |-> IF n = k + 1 THEN Next1(f[k], k + 1) ELSE f[n]]
  <2>2. ASSUME NEW n \in 0 .. (k + 1)
        PROVE  g[n] = IF n = 0 THEN t ELSE Next1(g[n - 1], n)
    <3>1. CASE n = k + 1
      <4>1. n # 0 /\ n - 1 = k /\ g[n - 1] = f[k] /\ g[n] = Next1(f[k], k + 1)
        BY <3>1
      <4> QED
        BY <3>1, <4>1
    <3>2. CASE n # k + 1
      <4>1. n \in 0 .. k /\ g[n] = f[n]
        BY <3>2
      <4>2. f[n] = IF n = 0 THEN t ELSE Next1(f[n - 1], n)
        BY <2>1, <4>1, Zenon
      <4>3. n # 0 => g[n - 1] = f[n - 1]
        BY <4>1
      <4> QED
        BY <4>1, <4>2, <4>3
    <3> QED
      BY <3>1, <3>2
  <2>3. Is(g, k + 1)
    <3>1. g = [n \in 0 .. (k + 1) |-> g[n]]
      OBVIOUS
    <3> HIDE DEF g
    <3>2. [n \in 0 .. (k + 1) |-> g[n]] =
          [n \in 0 .. (k + 1) |-> IF n = 0 THEN t ELSE Next1(g[n - 1], n)]
      BY <2>2, Zenon
    <3> QED
      BY <3>1, <3>2, Zenon
  <2>4. \E h : Is(h, k + 1)
    <3> HIDE DEF Is, g
    <3> QED
      BY <2>3, Zenon
  <2> HIDE DEF Is
  <2> QED
    BY <2>4
<1>3. b \in S
  <2> HIDE DEF S, b
  <2>1. S \in SUBSET Nat
    BY DEF S
  <2> QED
    BY <1>0, <1>1, <1>2, <2>1, UpTo
<1> DEFINE F == CHOOSE f : Is(f, b)
<1>4. Is(F, b)
  <2>1. \E f : Is(f, b)
    BY <1>3
  <2> HIDE DEF Is
  <2> QED
    BY <2>1, Zenon
<1>6. ParseLines(t, name, type, lines) = F[b]
  BY <1>5
<1> HIDE DEF F
<1>7. F[0] = t
  BY <1>0, <1>4
<1>8. ASSUME NEW n \in 1 .. b PROVE F[n] = Next1(F[n - 1], n)
  <2>1. n \in 0 .. b /\ n # 0
    OBVIOUS
  <2>2. F[n] = IF n = 0 THEN t ELSE Next1(F[n - 1], n)
    BY <1>4, <2>1, Zenon
  <2> QED
    BY <2>1, <2>2
<1> QED
  BY <1>6, <1>7, <1>8 DEF Next1

(* What reading a source leaves in the two tables.                         *)
LEMMA ParseLinesWrite ==
  ASSUME NEW t, IsTables(t), NEW name \in Sources, NEW type,
         NEW lines \in Seq(Lines),
         \A m \in 1 .. Len(lines) : lines[m].kind = "function" => type = TypeOf(name)
  PROVE  LET u == ParseLines(t, name, type, lines)
         IN  /\ IsTables(u)
             /\ Wrote(t.list, u.list, name, "object", type, lines, Len(lines))
             /\ Wrote(t.decl, u.decl, name, "function", type, lines, Len(lines))
<1> DEFINE b == Len(lines)
           Good(v, n) == /\ IsTables(v)
                         /\ Wrote(t.list, v.list, name, "object", type, lines, n)
                         /\ Wrote(t.decl, v.decl, name, "function", type, lines, n)
<1>0. b \in Nat
  OBVIOUS
<1>1. PICK f : /\ f[0] = t
               /\ \A n \in 1 .. b : f[n] = ParseLine(f[n - 1], name, type, lines[n])
               /\ ParseLines(t, name, type, lines) = f[b]
  BY ParseLinesSteps
<1> DEFINE S == {n \in Nat : Good(f[n], n)}
<1>2. Good(f[0], 0)
  <2>1. Good(t, 0)
    BY WroteNothing
  <2> HIDE DEF Good
  <2> QED
    BY <1>1, <2>1
<1>3. ASSUME NEW n \in Nat, n < b, Good(f[n], n)
      PROVE  Good(f[n + 1], n + 1)
  <2> DEFINE line == lines[n + 1]
             v == f[n]
             w == f[n + 1]
  <2>1. n + 1 \in 1 .. b /\ (n + 1) - 1 = n
    BY <1>0, <1>3
  <2>2. w = ParseLine(v, name, type, line)
    BY <1>1, <2>1
  <2>3. line \in Lines
    BY <2>1
  <2>4. line.kind = "function" => type = TypeOf(name)
    BY <2>1
  <2>5. /\ IsTables(v)
        /\ Wrote(t.list, v.list, name, "object", type, lines, n)
        /\ Wrote(t.decl, v.decl, name, "function", type, lines, n)
    BY <1>3
  <2> HIDE DEF v, w, line
  <2>6. /\ IsTables(w)
        /\ line.kind \in {"object", "function"}
        /\ line.kind = "object" =>
              /\ w.decl = v.decl
              /\ w.list = Upsert(v.list, <<name, line.name>>, RowOf(line, type))
        /\ line.kind = "function" =>
              /\ w.list = v.list
              /\ w.decl = Upsert(v.decl, <<name, line.name>>, RowOf(line, type))
    <3>1. IsTables(v)
      BY <2>5
    <3> HIDE DEF Good, b, S
    <3>2. LineStored(v, ParseLine(v, name, type, line), name, type, line)
      BY <2>3, <2>4, <3>1, ParseLineStores, Zenon
    <3> QED
      BY <2>2, <3>2 DEF LineStored
  <2>7. CASE line.kind = "object"
    <3>1. Wrote(t.list, w.list, name, "object", type, lines, n + 1)
      BY <2>5, <2>6, <2>7, WroteOne DEF line
    <3>2. Wrote(t.decl, w.decl, name, "function", type, lines, n + 1)
      <4>1. lines[n + 1].kind # "function"
        BY <2>7 DEF line
      <4> QED
        BY <2>5, <2>6, <2>7, <4>1, WroteOther
    <3> QED
      BY <2>6, <3>1, <3>2 DEF w
  <2>8. CASE line.kind = "function"
    <3>1. Wrote(t.decl, w.decl, name, "function", type, lines, n + 1)
      BY <2>5, <2>6, <2>8, WroteOne DEF line
    <3>2. Wrote(t.list, w.list, name, "object", type, lines, n + 1)
      <4>1. lines[n + 1].kind # "object"
        BY <2>8 DEF line
      <4> QED
        BY <2>5, <2>6, <2>8, <4>1, WroteOther
    <3> QED
      BY <2>6, <3>1, <3>2 DEF w
  <2> QED
    BY <2>6, <2>7, <2>8
<1>4. b \in S
  <2> HIDE DEF Good
  <2>1. S \in SUBSET Nat /\ 0 \in S /\ \A n \in Nat : n < b /\ n \in S => n + 1 \in S
    BY <1>2, <1>3
  <2> HIDE DEF S, b
  <2> QED
    BY <1>0, <2>1, UpTo
<1>5. Good(f[b], b)
  <2> HIDE DEF Good
  <2> QED
    BY <1>4
<1> QED
  BY <1>1, <1>5

-----------------------------------------------------------------------------
(* A thing that lines are about has a last line.                           *)
LEMMA LastExists ==
  ASSUME NEW lines, NEW n \in Nat, NEW m \in 1 .. n
  PROVE  \E i \in 1 .. n :
           /\ lines[i].kind = lines[m].kind /\ lines[i].name = lines[m].name
           /\ IsLast(lines, n, i)
<1> DEFINE Same(j) == lines[j].kind = lines[m].kind /\ lines[j].name = lines[m].name
           S == {j \in 1 .. n : Same(j)}
<1>1. m \in S
  OBVIOUS
<1>2. S \in SUBSET (0 .. n)
  OBVIOUS
<1>3. PICK i \in S : \A j \in S : j <= i
  <2> HIDE DEF S
  <2> QED
    BY <1>1, <1>2, GreatestElement
<1>4. \A j \in (i + 1) .. n : ~Same(j)
  <2> SUFFICES ASSUME NEW j \in (i + 1) .. n, Same(j) PROVE FALSE
    OBVIOUS
  <2>1. i \in 1 .. n /\ j \in 1 .. n /\ j > i
    BY <1>3
  <2>2. j \in S
    BY <2>1
  <2>3. j <= i
    BY <1>3, <2>2
  <2> QED
    BY <2>1, <2>3
<1>5. i \in 1 .. n /\ Same(i)
  BY <1>3
<1>6. IsLast(lines, n, i)
  BY <1>4, <1>5 DEF IsLast
<1> QED
  BY <1>5, <1>6

(* The row of a thing that lines are about.                                *)
LEMMA LineRow ==
  ASSUME NEW table, NEW name, NEW kind, NEW type, NEW lines, NEW n \in Nat,
         Holds(table, name, kind, type, lines, n),
         NEW key, FromLine(key, name, kind, lines, n)
  PROVE  /\ key \in DOMAIN table
         /\ table[key].state = 1
         /\ \E m \in 1 .. n :
              /\ lines[m].kind = kind /\ key = <<name, lines[m].name>>
              /\ IsLast(lines, n, m) /\ table[key] = RowOf(lines[m], type)
<1>1. PICK l \in 1 .. n : lines[l].kind = kind /\ key = <<name, lines[l].name>>
  BY DEF FromLine
<1>2. PICK m \in 1 .. n :
        /\ lines[m].kind = lines[l].kind /\ lines[m].name = lines[l].name
        /\ IsLast(lines, n, m)
  BY LastExists
<1>3. lines[m].kind = kind /\ key = <<name, lines[m].name>>
  BY <1>1, <1>2
<1>4. key \in DOMAIN table /\ table[key] = RowOf(lines[m], type)
  BY <1>2, <1>3, Zenon DEF Holds
<1>5. RowOf(lines[m], type).state = 1
  BY DEF RowOf
<1> QED
  BY <1>2, <1>3, <1>4, <1>5

(* The rows of one source, or of one scope, are the same.                  *)
SameRows(old, new, s) ==
  /\ \A k \in DOMAIN new : k[1] = s => k \in DOMAIN old /\ new[k] = old[k]
  /\ \A k \in DOMAIN old : k[1] = s => k \in DOMAIN new

(* Reading one source leaves the rows of the others alone.                 *)
LEMMA WroteSame ==
  ASSUME NEW old, NEW new, NEW name, NEW kind, NEW type, NEW lines, NEW n,
         Wrote(old, new, name, kind, type, lines, n), NEW s, s # name
  PROVE  SameRows(old, new, s)
<1>1. \A key : FromLine(key, name, kind, lines, n) => key[1] = name
  BY DEF FromLine
<1> QED
  BY <1>1 DEF Wrote, SameRows

(* No row of the source has been confirmed.                                *)
Unconfirmed(t, s) ==
  /\ \A k \in DOMAIN t.list : k[1] = s => t.list[k].state = 0
  /\ \A k \in DOMAIN t.decl : k[1] = s => t.decl[k].state = 0

(* The confirmed rows of a sequence file are those of its text.            *)
InStep(t, f, text) ==
  /\ Holds(t.list, f, "object", "seq", text, Len(text))
  /\ Holds(t.decl, f, "function", "seq", text, Len(text))
  /\ \A k \in DOMAIN t.list :
        k[1] = f /\ t.list[k].state = 1 =>
          k = <<f, "">> \/ FromLine(k, f, "object", text, Len(text))
  /\ \A k \in DOMAIN t.decl :
        k[1] = f /\ t.decl[k].state = 1 => FromLine(k, f, "function", text, Len(text))
  /\ ~FromLine(<<f, "">>, f, "object", text, Len(text)) =>
        <<f, "">> \in DOMAIN t.list /\ t.list[<<f, "">>] = [class |-> f, state |-> 1]

LEMMA ScanWrites ==
  ASSUME NEW t, IsTables(t), NEW f \in SeqFiles, Unconfirmed(t, f),
         files[f] # Absent, files[f] \in Seq(Lines)
  PROVE  LET u == AnalyseFile(t, FALSE, f)
         IN  /\ IsTables(u)
             /\ InStep(u, f, files[f])
             /\ \A s : s # f => SameRows(t.list, u.list, s) /\ SameRows(t.decl, u.decl, s)
<1> DEFINE text == files[f]
           b == Len(text)
           v == UpdateObjList(t, f, "", f)
           u == ParseLines(v, f, "seq", text)
           self == <<f, "">>
<1>1. AnalyseFile(t, FALSE, f) = u
  BY DEF AnalyseFile
<1>2. /\ IsTables(v) /\ v.decl = t.decl
      /\ v.list = Upsert(t.list, self, [class |-> f, state |-> 1])
  <2>1. f \in Sources
    BY DEF Sources
  <2> DEFINE empty == ""
  <2>2. v = UpdateObjList(t, f, empty, f) /\ self = <<f, empty>>
    OBVIOUS
  <2>3. empty \in Strings
    BY SourcesAssumption, Zenon
  <2> HIDE DEF v, empty, self
  <2>4. f \in Sources \cup BasicTypes
    BY <2>1
  <2>5. /\ IsTables(v) /\ v.decl = t.decl
        /\ v.list = Upsert(t.list, <<f, empty>>, [class |-> f, state |-> 1])
    BY <2>1, <2>2, <2>3, <2>4, UpdateObjListIs
  <2> QED
    BY <2>2, <2>5
<1> HIDE DEF v
<1>3. /\ IsTables(u)
      /\ Wrote(v.list, u.list, f, "object", "seq", text, b)
      /\ Wrote(v.decl, u.decl, f, "function", "seq", text, b)
  <2>1. f \in Sources /\ "seq" = TypeOf(f)
    BY DEF Sources, TypeOf
  <2> QED
    BY <1>2, <2>1, ParseLinesWrite
<1>4. b \in Nat
  OBVIOUS
<1> HIDE DEF u, text, b
<1>5. /\ DOMAIN v.list = DOMAIN t.list \cup {self}
      /\ v.list[self] = [class |-> f, state |-> 1]
      /\ \A k \in DOMAIN t.list \ {self} : v.list[k] = t.list[k]
  BY <1>2 DEF Upsert
<1>6. ASSUME NEW s, s # f
      PROVE  SameRows(t.list, u.list, s) /\ SameRows(t.decl, u.decl, s)
  <2>1. SameRows(v.list, u.list, s) /\ SameRows(v.decl, u.decl, s)
    BY <1>3, <1>6, WroteSame
  <2>2. self[1] = f
    OBVIOUS
  <2> QED
    BY <1>2, <1>5, <1>6, <2>1, <2>2 DEF SameRows
<1>7. ASSUME NEW k \in DOMAIN u.list, k[1] = f, u.list[k].state = 1
      PROVE  k = self \/ FromLine(k, f, "object", text, b)
  <2>1. CASE k \in DOMAIN v.list /\ u.list[k] = v.list[k]
    <3>1. CASE k # self
      <4>1. k \in DOMAIN t.list /\ v.list[k] = t.list[k]
        BY <1>5, <2>1, <3>1
      <4>2. t.list[k].state = 0
        BY <1>7, <4>1 DEF Unconfirmed
      <4> HIDE DEF self
      <4> QED
        BY <1>7, <2>1, <4>1, <4>2
    <3> QED
      BY <3>1
  <2> QED
    BY <1>3, <2>1 DEF Wrote
<1>8. ASSUME NEW k \in DOMAIN u.decl, k[1] = f, u.decl[k].state = 1
      PROVE  FromLine(k, f, "function", text, b)
  <2>1. CASE k \in DOMAIN v.decl /\ u.decl[k] = v.decl[k]
    <3>1. k \in DOMAIN t.decl /\ u.decl[k] = t.decl[k]
      BY <1>2, <2>1
    <3>2. t.decl[k].state = 0
      BY <1>8, <3>1 DEF Unconfirmed
    <3> QED
      BY <1>8, <3>1, <3>2
  <2> QED
    BY <1>3, <2>1 DEF Wrote
<1>9. ASSUME ~FromLine(self, f, "object", text, b)
      PROVE  self \in DOMAIN u.list /\ u.list[self] = [class |-> f, state |-> 1]
  <2>1. self \in DOMAIN u.list
    BY <1>3, <1>5 DEF Wrote
  <2> QED
    BY <1>3, <1>5, <1>9, <2>1 DEF Wrote
<1>10. InStep(u, f, text)
  BY <1>3, <1>7, <1>8, <1>9 DEF InStep, Wrote, b
<1> QED
  BY <1>1, <1>3, <1>6, <1>10 DEF text

(* Reading the source of a class, or once more a sequence file that        *)
(* declares nothing.                                                       *)
LEMMA ResolveWrites ==
  ASSUME NEW t, IsTables(t), NEW c \in Sources,
         files[c] # Absent, files[c] \in Seq(Lines),
         c \in SeqFiles => \A m \in 1 .. Len(files[c]) : files[c][m].kind # "function"
  PROVE  LET u == AnalyseFile(t, TRUE, c)
         IN  /\ IsTables(u)
             /\ Wrote(t.list, u.list, c, "object", "class", files[c], Len(files[c]))
             /\ Wrote(t.decl, u.decl, c, "function", "class", files[c], Len(files[c]))
<1>1. AnalyseFile(t, TRUE, c) = ParseLines(t, c, "class", files[c])
  BY DEF AnalyseFile
<1>2. \A m \in 1 .. Len(files[c]) : files[c][m].kind = "function" => "class" = TypeOf(c)
  BY DEF TypeOf, Sources
<1> DEFINE u == ParseLines(t, c, "class", files[c])
<1>3. /\ IsTables(u)
      /\ Wrote(t.list, u.list, c, "object", "class", files[c], Len(files[c]))
      /\ Wrote(t.decl, u.decl, c, "function", "class", files[c], Len(files[c]))
  BY <1>2, ParseLinesWrite
<1> HIDE DEF u
<1> QED
  BY <1>1, <1>3 DEF u
-----------------------------------------------------------------------------
(* The class has no declaration.                                           *)
Bare(t, c) == \A k \in DOMAIN t.decl : k[1] # c

(* The declarations of a class are those of its description file.          *)
ClassIn(t, c, text) ==
  IF text = Absent THEN Bare(t, c)
  ELSE /\ Holds(t.decl, c, "function", "class", text, Len(text))
       /\ \A k \in DOMAIN t.decl :
             k[1] = c => FromLine(k, c, "function", text, Len(text))

(* No source has changed since the job began that runs or ran last.        *)
Current == pc # "Idle" \/ (fresh /\ job # "Load")

SeqIn(f) ==
  IF files[f] = Absent \/ f \in toScan
  THEN Unconfirmed(db, f) ELSE InStep(db, f, files[f])

(* A sequence file that is read like a class declares nothing.             *)
Jobs ==
  /\ pc # "Scan" => toScan = {}
  /\ toScan \subseteq {f \in SeqFiles : files[f] # Absent}
  /\ pc # "Idle" => job # "Load"
  /\ pc = "Resolve" => job = "Rebuild"
  /\ pc = "Resolve" =>
       \A c \in cursor \cap SeqFiles : files[c] # Absent =>
         \A m \in 1 .. Len(files[c]) : files[c][m].kind # "function"

Confirmed ==
  job = "Rebuild" /\ pc \in {"Cleanup", "Idle"} =>
    /\ \A k \in DOMAIN db.list : db.list[k].state # 0
    /\ \A k \in DOMAIN db.decl : db.decl[k].state # 0

Kept ==
  job = "Update" =>
    \A k \in DOMAIN before :
      k[1] \in Classes => k \in DOMAIN db.decl /\ db.decl[k].params = before[k].params

SequencesIn == Current => \A f \in SeqFiles : SeqIn(f)

(* A class nobody has declared yet is found when the directory has been    *)
(* read, and stays with the cursor until its file is read.                 *)
Resolving(c) ==
  /\ pc = "Scan" => Bare(db, c)
  /\ pc = "Resolve" /\ c \in MentionedClasses =>
       (c \in cursor /\ Bare(db, c)) \/ ClassIn(db, c, files[c])
  /\ pc \in {"Cleanup", "Idle"} /\ c \in MentionedClasses => ClassIn(db, c, files[c])

ClassesIn ==
  job = "Rebuild" /\ Current =>
    \A c \in Classes : (\A k \in DOMAIN before : k[1] # c) => Resolving(c)

IInv ==
  /\ TypeOK
  /\ IsTables(db)
  /\ files = [s \in Sources |-> files[s]]
  /\ Jobs
  /\ Confirmed
  /\ Kept
  /\ SequencesIn
  /\ ClassesIn
-----------------------------------------------------------------------------
(* What depends on the rows of one source only.                            *)
LEMMA SameHolds ==
  ASSUME NEW old, NEW new, NEW s, SameRows(old, new, s),
         NEW kind, NEW type, NEW lines, NEW n, Holds(old, s, kind, type, lines, n)
  PROVE  Holds(new, s, kind, type, lines, n)
<1> SUFFICES ASSUME NEW m \in 1 .. n, lines[m].kind = kind, IsLast(lines, n, m)
             PROVE  /\ <<s, lines[m].name>> \in DOMAIN new
                    /\ new[<<s, lines[m].name>>] = RowOf(lines[m], type)
  BY DEF Holds
<1> DEFINE key == <<s, lines[m].name>>
<1>1. key \in DOMAIN old /\ old[key] = RowOf(lines[m], type)
  BY DEF Holds
<1>2. key[1] = s
  OBVIOUS
<1> HIDE DEF key
<1>3. key \in DOMAIN new /\ new[key] = old[key]
  BY <1>1, <1>2 DEF SameRows
<1> QED
  BY <1>1, <1>3 DEF key

LEMMA SameUnconfirmed ==
  ASSUME NEW t, NEW u, NEW s, SameRows(t.list, u.list, s), SameRows(t.decl, u.decl, s),
         Unconfirmed(t, s)
  PROVE  Unconfirmed(u, s)
BY DEF SameRows, Unconfirmed

LEMMA SameInStep ==
  ASSUME NEW t, NEW u, NEW f, SameRows(t.list, u.list, f), SameRows(t.decl, u.decl, f),
         NEW text, InStep(t, f, text)
  PROVE  InStep(u, f, text)
<1> DEFINE b == Len(text)
           self == <<f, "">>
<1>1. /\ Holds(u.list, f, "object", "seq", text, b)
      /\ Holds(u.decl, f, "function", "seq", text, b)
  BY SameHolds DEF InStep
<1>2. \A k \in DOMAIN u.list :
        k[1] = f /\ u.list[k].state = 1 =>
          k = self \/ FromLine(k, f, "object", text, b)
  BY DEF InStep, SameRows
<1>3. \A k \in DOMAIN u.decl :
        k[1] = f /\ u.decl[k].state = 1 => FromLine(k, f, "function", text, b)
  BY DEF InStep, SameRows
<1>4. ASSUME ~FromLine(self, f, "object", text, b)
      PROVE  self \in DOMAIN u.list /\ u.list[self] = [class |-> f, state |-> 1]
  <2>1. self \in DOMAIN t.list /\ t.list[self] = [class |-> f, state |-> 1]
    BY <1>4 DEF InStep
  <2>2. self[1] = f
    OBVIOUS
  <2> HIDE DEF self
  <2>3. self \in DOMAIN u.list /\ u.list[self] = t.list[self]
    BY <2>1, <2>2 DEF SameRows
  <2> QED
    BY <2>1, <2>3
<1> QED
  BY <1>1, <1>2, <1>3, <1>4 DEF InStep

LEMMA SameBare ==
  ASSUME NEW t, NEW u, NEW c, SameRows(t.decl, u.decl, c), Bare(t, c)
  PROVE  Bare(u, c)
BY DEF SameRows, Bare

LEMMA SameClassIn ==
  ASSUME NEW t, NEW u, NEW c, NEW text, SameRows(t.decl, u.decl, c), ClassIn(t, c, text)
  PROVE  ClassIn(u, c, text)
<1>1. CASE text = Absent
  BY <1>1, SameBare DEF ClassIn
<1>2. CASE text # Absent
  <2>1. Holds(u.decl, c, "function", "class", text, Len(text))
    BY <1>2, SameHolds DEF ClassIn
  <2>2. \A k \in DOMAIN u.decl :
          k[1] = c => FromLine(k, c, "function", text, Len(text))
    BY <1>2 DEF ClassIn, SameRows
  <2> QED
    BY <1>2, <2>1, <2>2 DEF ClassIn
<1> QED
  BY <1>1, <1>2

(* Reading a source while the undeclared classes are resolved: it writes   *)
(* its lines, and the rows of all other sources stay.                      *)
WasRead(t, u, c, text) ==
  /\ IsTables(u)
  /\ DOMAIN t.decl \subseteq DOMAIN u.decl
  /\ \A s : s # c => SameRows(t.list, u.list, s) /\ SameRows(t.decl, u.decl, s)
  /\ c \notin Sources \/ text = Absent => u = t
  /\ c \in Sources /\ text # Absent =>
       /\ Wrote(t.list, u.list, c, "object", "class", text, Len(text))
       /\ Wrote(t.decl, u.decl, c, "function", "class", text, Len(text))

LEMMA ReadWrites ==
  ASSUME NEW t, IsTables(t), NEW c,
         c \in Sources => files[c] = Absent \/ files[c] \in Seq(Lines),
         c \in SeqFiles /\ files[c] # Absent =>
           \A m \in 1 .. Len(files[c]) : files[c][m].kind # "function",
         NEW u, u = IF c \in Sources THEN AnalyseFile(t, TRUE, c) ELSE t
  PROVE  WasRead(t, u, c, files[c])
<1>1. CASE c \in Sources /\ files[c] # Absent
  <2>1. u = AnalyseFile(t, TRUE, c)
    BY <1>1
  <2>2. /\ IsTables(u)
        /\ Wrote(t.list, u.list, c, "object", "class", files[c], Len(files[c]))
        /\ Wrote(t.decl, u.decl, c, "function", "class", files[c], Len(files[c]))
    BY <1>1, <2>1, ResolveWrites
  <2>3. \A s : s # c => SameRows(t.list, u.list, s) /\ SameRows(t.decl, u.decl, s)
    BY <2>2, WroteSame
  <2> QED
    BY <1>1, <2>2, <2>3 DEF Wrote, WasRead
<1>2. CASE ~(c \in Sources /\ files[c] # Absent)
  <2>1. u = t
    BY <1>2 DEF AnalyseFile
  <2> QED
    BY <1>2, <2>1 DEF SameRows, WasRead
<1> QED
  BY <1>1, <1>2
(* Read once more, a sequence file stays in step ...                       *)
LEMMA ReadInStep ==
  ASSUME NEW t, NEW u, NEW f, NEW text, InStep(t, f, text),
         \A m \in 1 .. Len(text) : text[m].kind # "function",
         Wrote(t.list, u.list, f, "object", "class", text, Len(text)),
         Wrote(t.decl, u.decl, f, "function", "class", text, Len(text))
  PROVE  InStep(u, f, text)
<1> DEFINE b == Len(text)
           self == <<f, "">>
<1>1. Holds(u.list, f, "object", "seq", text, b)
  <2>1. \A m \in 1 .. b : text[m].kind = "object" =>
          RowOf(text[m], "seq") = RowOf(text[m], "class")
    BY DEF RowOf
  <2> QED
    BY <2>1 DEF Wrote, Holds
<1>2. Holds(u.decl, f, "function", "seq", text, b)
  BY DEF Holds
<1>3. \A k : ~FromLine(k, f, "function", text, b)
  BY DEF FromLine
<1> HIDE DEF self, b
<1>4. \A k \in DOMAIN u.list :
        k[1] = f /\ u.list[k].state = 1 =>
          k = self \/ FromLine(k, f, "object", text, b)
  BY DEF InStep, Wrote, self, b
<1>5. \A k \in DOMAIN u.decl :
        k[1] = f /\ u.decl[k].state = 1 => FromLine(k, f, "function", text, b)
  BY <1>3 DEF InStep, Wrote, b
<1>6. ASSUME ~FromLine(self, f, "object", text, b)
      PROVE  self \in DOMAIN u.list /\ u.list[self] = [class |-> f, state |-> 1]
  <2>1. self \in DOMAIN t.list /\ t.list[self] = [class |-> f, state |-> 1]
    BY <1>6 DEF InStep, self, b
  <2>2. self \in DOMAIN u.list /\ u.list[self] = t.list[self]
    BY <1>6, <2>1 DEF Wrote, b
  <2> QED
    BY <2>1, <2>2
<1> QED
  BY <1>1, <1>2, <1>4, <1>5, <1>6 DEF InStep, self, b

(* ... and a class is declared.                                            *)
LEMMA ReadClassIn ==
  ASSUME NEW t, NEW u, NEW c, NEW text, text # Absent, Bare(t, c) \/ ClassIn(t, c, text),
         Wrote(t.decl, u.decl, c, "function", "class", text, Len(text))
  PROVE  ClassIn(u, c, text)
<1>1. \A k \in DOMAIN t.decl :
        k[1] = c => FromLine(k, c, "function", text, Len(text))
  BY DEF Bare, ClassIn
<1> QED
  BY <1>1 DEF ClassIn, Wrote

LEMMA LiveIs ==
  ASSUME NEW table, NEW R, table \in [DOMAIN table -> R], NEW u, u = Live(table)
  PROVE  /\ u \in [DOMAIN u -> R]
         /\ DOMAIN u \subseteq DOMAIN table
         /\ \A k \in DOMAIN u : u[k] = table[k] /\ u[k].state # 0
         /\ \A k \in DOMAIN table : table[k].state # 0 => k \in DOMAIN u
BY DEF Live

LEMMA LiveHolds ==
  ASSUME NEW table, NEW u, u = Live(table),
         NEW s, NEW kind, NEW type, NEW lines, NEW n,
         Holds(table, s, kind, type, lines, n)
  PROVE  Holds(u, s, kind, type, lines, n)
<1> SUFFICES ASSUME NEW m \in 1 .. n, lines[m].kind = kind, IsLast(lines, n, m)
             PROVE  /\ <<s, lines[m].name>> \in DOMAIN u
                    /\ u[<<s, lines[m].name>>] = RowOf(lines[m], type)
  BY DEF Holds
<1> DEFINE key == <<s, lines[m].name>>
           row == RowOf(lines[m], type)
<1>1. key \in DOMAIN table /\ table[key] = row
  BY DEF Holds
<1>2. row.state = 1
  BY DEF RowOf
<1> HIDE DEF key, row
<1>3. key \in DOMAIN u /\ u[key] = table[key]
  BY <1>1, <1>2 DEF Live
<1> QED
  BY <1>1, <1>3 DEF key, row

(* What is left once the unconfirmed rows are deleted.                     *)
LEMMA LiveTables ==
  ASSUME NEW t, IsTables(t), NEW u, u = [list |-> Live(t.list), decl |-> Live(t.decl)]
  PROVE  /\ IsTables(u)
         /\ \A k \in DOMAIN u.list : u.list[k].state # 0
         /\ \A k \in DOMAIN u.decl : u.decl[k].state # 0
         /\ \A s : Unconfirmed(t, s) => Unconfirmed(u, s)
         /\ \A f, text : InStep(t, f, text) => InStep(u, f, text)
         /\ \A c, text : ClassIn(t, c, text) => ClassIn(u, c, text)
<1>1. u.list = Live(t.list) /\ u.decl = Live(t.decl) /\ u = [list |-> u.list, decl |-> u.decl]
  OBVIOUS
<1>2. /\ t.list \in [DOMAIN t.list -> ObjectRow]
      /\ t.decl \in [DOMAIN t.decl -> DeclRow]
  BY DEF IsTables
<1>3. /\ u.list \in [DOMAIN u.list -> ObjectRow]
      /\ DOMAIN u.list \subseteq DOMAIN t.list
      /\ \A k \in DOMAIN u.list : u.list[k] = t.list[k] /\ u.list[k].state # 0
      /\ \A k \in DOMAIN t.list : t.list[k].state # 0 => k \in DOMAIN u.list
  BY <1>1, <1>2, LiveIs
<1>4. /\ u.decl \in [DOMAIN u.decl -> DeclRow]
      /\ DOMAIN u.decl \subseteq DOMAIN t.decl
      /\ \A k \in DOMAIN u.decl : u.decl[k] = t.decl[k] /\ u.decl[k].state # 0
      /\ \A k \in DOMAIN t.decl : t.decl[k].state # 0 => k \in DOMAIN u.decl
  BY <1>1, <1>2, LiveIs
<1>5. IsTables(u)
  BY <1>1, <1>3, <1>4 DEF IsTables
<1>6. ASSUME NEW s, Unconfirmed(t, s) PROVE Unconfirmed(u, s)
  BY <1>3, <1>4, <1>6 DEF Unconfirmed
<1>7. ASSUME NEW f, NEW text, InStep(t, f, text) PROVE InStep(u, f, text)
  <2> DEFINE b == Len(text)
             self == <<f, "">>
             row == [class |-> f, state |-> 1]
  <2>1. /\ Holds(u.list, f, "object", "seq", text, b)
        /\ Holds(u.decl, f, "function", "seq", text, b)
    BY <1>1, <1>7, LiveHolds DEF InStep
  <2>2. \A k \in DOMAIN u.list :
          k[1] = f /\ u.list[k].state = 1 =>
            k = self \/ FromLine(k, f, "object", text, b)
    BY <1>3, <1>7 DEF InStep
  <2>3. \A k \in DOMAIN u.decl :
          k[1] = f /\ u.decl[k].state = 1 => FromLine(k, f, "function", text, b)
    BY <1>4, <1>7 DEF InStep
  <2>4. ASSUME ~FromLine(self, f, "object", text, b)
        PROVE  self \in DOMAIN u.list /\ u.list[self] = row
    <3>1. self \in DOMAIN t.list /\ t.list[self] = row
      BY <1>7, <2>4 DEF InStep
    <3>2. row.state # 0
      OBVIOUS
    <3> HIDE DEF self, row
    <3> QED
      BY <1>3, <3>1, <3>2
  <2> QED
    BY <2>1, <2>2, <2>3, <2>4 DEF InStep
<1>8. ASSUME NEW c, NEW text, ClassIn(t, c, text) PROVE ClassIn(u, c, text)
  <2>1. CASE text = Absent
    BY <1>4, <1>8, <2>1 DEF ClassIn, Bare
  <2>2. CASE text # Absent
    <3>1. Holds(u.decl, c, "function", "class", text, Len(text))
      BY <1>1, <1>8, <2>2, LiveHolds DEF ClassIn
    <3> QED
      BY <1>4, <1>8, <2>2, <3>1 DEF ClassIn
  <2> QED
    BY <2>1, <2>2
<1> QED
  BY <1>3, <1>4, <1>5, <1>6, <1>7, <1>8

(* The tables a job starts with.                                           *)
LEMMA UnmarkedIs ==
  ASSUME NEW table, NEW u, u = Unmarked(table)
  PROVE  /\ DOMAIN u = DOMAIN table
         /\ u \in [DOMAIN u -> {u[k] : k \in DOMAIN u}]
         /\ \A k \in DOMAIN u : u[k] = [table[k] EXCEPT !.state = 0]
BY DEF Unmarked

LEMMA PreparedTables ==
  ASSUME NEW t, IsTables(t),
         NEW u, u = AddBasicTypes([list |-> Unmarked(t.list), decl |-> Unmarked(t.decl)])
  PROVE  /\ IsTables(u)
         /\ \A s \in Sources : Unconfirmed(u, s)
         /\ \A k \in DOMAIN t.decl :
              k[1] \in Sources => k \in DOMAIN u.decl /\ u.decl[k].params = t.decl[k].params
         /\ \A k \in DOMAIN u.decl : k[1] \in Sources => k \in DOMAIN t.decl
<1> DEFINE empty == ""
           basic == [params |-> empty, type |-> "type", state |-> 1]
           l == Unmarked(t.list)
           d == Unmarked(t.decl)
<1>0. empty \in Strings /\ BasicTypes \cap Sources = {}
  BY SourcesAssumption, Zenon
<1>1. /\ u = [list |-> u.list, decl |-> u.decl]
      /\ u.list = l
      /\ u.decl = [k \in DOMAIN d \cup (BasicTypes \X {empty}) |->
                     IF k[1] \in BasicTypes THEN basic ELSE d[k]]
  BY DEF AddBasicTypes
<1>2. basic \in DeclRow /\ basic.type = "type"
  BY <1>0 DEF DeclRow
<1> HIDE DEF empty, basic
<1>3. \A k \in BasicTypes \X {empty} :
        k[1] \in BasicTypes /\ k \in (Sources \cup BasicTypes) \X Strings
  BY <1>0
<1>4. /\ DOMAIN l = DOMAIN t.list
      /\ \A k \in DOMAIN l : l[k] = [t.list[k] EXCEPT !.state = 0]
      /\ DOMAIN d = DOMAIN t.decl
      /\ \A k \in DOMAIN d : d[k] = [t.decl[k] EXCEPT !.state = 0]
  BY UnmarkedIs
<1>5. l = [k \in DOMAIN l |-> l[k]]
  BY DEF Unmarked
<1> HIDE DEF l, d
<1>6. \A k \in DOMAIN l : l[k] \in ObjectRow /\ l[k].state = 0
  BY <1>4 DEF IsTables, ObjectRow
<1>7. \A k \in DOMAIN d : /\ d[k] \in DeclRow
                          /\ d[k].state = 0
                          /\ d[k].type = TypeOf(k[1])
                          /\ d[k].params = t.decl[k].params
  BY <1>4 DEF IsTables, DeclRow
<1>8. \A s \in BasicTypes : TypeOf(s) = "type"
  BY <1>0 DEF TypeOf, Sources
<1>9. /\ DOMAIN u.decl = DOMAIN d \cup (BasicTypes \X {empty})
      /\ u.decl = [k \in DOMAIN u.decl |-> u.decl[k]]
      /\ \A k \in DOMAIN u.decl : k[1] \in BasicTypes => u.decl[k] = basic
      /\ \A k \in DOMAIN u.decl : k[1] \notin BasicTypes => k \in DOMAIN d /\ u.decl[k] = d[k]
  BY <1>1, <1>3
<1>10. u.decl \in [DOMAIN u.decl -> DeclRow]
  <2>1. \A k \in DOMAIN u.decl : u.decl[k] \in DeclRow
    BY <1>2, <1>7, <1>9
  <2> QED
    BY <1>9, <2>1
<1>11. u.list \in [DOMAIN u.list -> ObjectRow]
  BY <1>1, <1>5, <1>6
<1>12. \A k \in DOMAIN u.decl : u.decl[k].type = TypeOf(k[1])
  BY <1>2, <1>7, <1>8, <1>9
<1>13. /\ DOMAIN u.list \subseteq Sources \X Strings
       /\ DOMAIN u.decl \subseteq (Sources \cup BasicTypes) \X Strings
  BY <1>1, <1>3, <1>4, <1>9 DEF IsTables
<1>14. IsTables(u)
  BY <1>1, <1>10, <1>11, <1>12, <1>13 DEF IsTables
<1>15. ASSUME NEW s \in Sources PROVE Unconfirmed(u, s)
  <2>1. s \notin BasicTypes
    BY <1>0
  <2> QED
    BY <1>1, <1>6, <1>7, <1>9, <2>1 DEF Unconfirmed
<1>16. ASSUME NEW k \in DOMAIN t.decl, k[1] \in Sources
       PROVE  k \in DOMAIN u.decl /\ u.decl[k].params = t.decl[k].params
  <2>1. k[1] \notin BasicTypes /\ k \in DOMAIN d /\ k \in DOMAIN u.decl
    BY <1>0, <1>4, <1>9, <1>16
  <2> QED
    BY <1>7, <1>9, <2>1
<1>17. ASSUME NEW k \in DOMAIN u.decl, k[1] \in Sources PROVE k \in DOMAIN t.decl
  BY <1>0, <1>4, <1>9, <1>17
<1> QED
  BY <1>14, <1>15, <1>16, <1>17
-----------------------------------------------------------------------------
(* The last line about a name is the one that counts.                      *)
LEMMA LastLineIs ==
  ASSUME NEW text \in Seq(Lines), NEW m \in 1 .. Len(text), IsLast(text, Len(text), m)
  PROVE  LastLine(text, text[m].kind, text[m].name) = text[m]
<1> DEFINE Same(j) == text[j].kind = text[m].kind /\ text[j].name = text[m].name
           Counts(i) == Same(i) /\ \A j \in DOMAIN text : Same(j) => j <= i
           chosen == CHOOSE i \in DOMAIN text : Counts(i)
<1>1. Len(text) \in Nat /\ DOMAIN text = 1 .. Len(text)
  OBVIOUS
<1>2. \A j \in DOMAIN text : Same(j) => j <= m
  <2> SUFFICES ASSUME NEW j \in DOMAIN text, j > m PROVE ~Same(j)
    BY <1>1
  <2>1. j \in (m + 1) .. Len(text)
    BY <1>1
  <2> QED
    BY <2>1 DEF IsLast
<1>3. m \in DOMAIN text /\ Counts(m)
  BY <1>1, <1>2
<1>4. LastLine(text, text[m].kind, text[m].name) = text[chosen]
  BY Zenon DEF LastLine
<1>5. chosen \in DOMAIN text /\ Counts(chosen)
  <2> HIDE DEF Counts
  <2> QED
    BY <1>3, Zenon
<1> HIDE DEF chosen
<1>6. chosen = m
  BY <1>1, <1>2, <1>3, <1>5
<1> QED
  BY <1>4, <1>6

LEMMA NamesLast ==
  ASSUME NEW text \in Seq(Lines), text # Absent, NEW kind, NEW name
  PROVE  name \in Names(text, kind) <=>
           \E m \in 1 .. Len(text) :
             text[m].kind = kind /\ text[m].name = name /\ IsLast(text, Len(text), m)
<1>1. Len(text) \in Nat /\ DOMAIN text = 1 .. Len(text)
  OBVIOUS
<1>2. ASSUME name \in Names(text, kind)
      PROVE  \E m \in 1 .. Len(text) :
               text[m].kind = kind /\ text[m].name = name /\ IsLast(text, Len(text), m)
  <2>1. PICK l \in 1 .. Len(text) : text[l].kind = kind /\ text[l].name = name
    BY <1>1, <1>2 DEF Names
  <2> QED
    BY <1>1, <2>1, LastExists
<1> QED
  BY <1>1, <1>2 DEF Names

(* The rows of a source that are just those of its lines say what the      *)
(* source says.                                                            *)
LEMMA DeclaredIs ==
  ASSUME NEW t, NEW c, files[c] # Absent, files[c] \in Seq(Lines), NEW type,
         Holds(t.decl, c, "function", type, files[c], Len(files[c])),
         \A k \in DOMAIN t.decl :
           k[1] = c => FromLine(k, c, "function", files[c], Len(files[c]))
  PROVE  DeclaredFor(t, c) = Declares(c)
<1> DEFINE text == files[c]
           b == Len(text)
<1>1. b \in Nat
  OBVIOUS
<1>2. ASSUME NEW m \in 1 .. b, text[m].kind = "function", IsLast(text, b, m)
      PROVE  /\ LastLine(text, "function", text[m].name) = text[m]
             /\ RowOf(text[m], type).params = text[m].params
  BY <1>2, LastLineIs DEF RowOf
<1>3. ASSUME NEW p \in DeclaredFor(t, c) PROVE p \in Declares(c)
  <2>1. PICK k \in DOMAIN t.decl : k[1] = c /\ p = <<k[2], t.decl[k].params>>
    BY DEF DeclaredFor
  <2>2. FromLine(k, c, "function", text, b)
    BY <2>1
  <2>3. PICK m \in 1 .. b :
          /\ text[m].kind = "function" /\ k = <<c, text[m].name>>
          /\ IsLast(text, b, m) /\ t.decl[k] = RowOf(text[m], type)
    <3> HIDE DEF text, b
    <3> QED
      BY <1>1, <2>2, LineRow DEF text, b
  <2>4. text[m].name \in Names(text, "function")
    BY <2>3, NamesLast
  <2>5. p = <<text[m].name, LastLine(text, "function", text[m].name).params>>
    BY <1>2, <2>1, <2>3
  <2> QED
    BY <2>4, <2>5 DEF Declares
<1>4. ASSUME NEW p \in Declares(c) PROVE p \in DeclaredFor(t, c)
  <2>1. PICK n \in Names(text, "function") :
          p = <<n, LastLine(text, "function", n).params>>
    BY DEF Declares
  <2>2. PICK m \in 1 .. b :
          text[m].kind = "function" /\ text[m].name = n /\ IsLast(text, b, m)
    BY NamesLast
  <2> DEFINE k == <<c, text[m].name>>
  <2>3. k \in DOMAIN t.decl /\ t.decl[k] = RowOf(text[m], type)
    BY <2>2 DEF Holds
  <2>4. k[1] = c /\ k[2] = n
    BY <2>2
  <2>5. p = <<k[2], t.decl[k].params>>
    BY <1>2, <2>1, <2>2, <2>3
  <2> HIDE DEF k
  <2> QED
    BY <2>3, <2>4, <2>5 DEF DeclaredFor
<1> QED
  BY <1>3, <1>4

LEMMA DeclaredNone ==
  ASSUME NEW t, NEW c, files[c] = Absent, Bare(t, c)
  PROVE  DeclaredFor(t, c) = Declares(c)
<1>1. DeclaredFor(t, c) = {}
  BY DEF DeclaredFor, Bare
<1>2. Declares(c) = {}
  BY DEF Declares, Names
<1> QED
  BY <1>1, <1>2

LEMMA ListedIs ==
  ASSUME NEW t, NEW f, files[f] # Absent, files[f] \in Seq(Lines),
         InStep(t, f, files[f]), \A k \in DOMAIN t.list : t.list[k].state = 1
  PROVE  ListedFor(t, f) = Itself(f) \cup Mentions(f)
<1> DEFINE text == files[f]
           b == Len(text)
           empty == ""
           self == <<f, empty>>
<1>1. b \in Nat
  OBVIOUS
<1>2. ASSUME NEW m \in 1 .. b, text[m].kind = "object", IsLast(text, b, m)
      PROVE  /\ LastLine(text, "object", text[m].name) = text[m]
             /\ RowOf(text[m], "seq").class = text[m].class
  BY <1>2, LastLineIs DEF RowOf
<1>3. Holds(t.list, f, "object", "seq", text, b)
  BY DEF InStep
<1>4. \A k \in DOMAIN t.list : k[1] = f => k = self \/ FromLine(k, f, "object", text, b)
  BY DEF InStep
<1>5. FromLine(self, f, "object", text, b) <=> empty \in Names(text, "object")
  <2>1. \A m \in 1 .. b : self = <<f, text[m].name>> <=> text[m].name = empty
    <3> HIDE DEF empty
    <3> QED
      OBVIOUS
  <2>2. DOMAIN text = 1 .. b
    OBVIOUS
  <2> HIDE DEF empty, self, b, text
  <2> QED
    BY <2>1, <2>2 DEF FromLine, Names, text
<1>6. ~FromLine(self, f, "object", text, b) =>
        self \in DOMAIN t.list /\ t.list[self] = [class |-> f, state |-> 1]
  BY DEF InStep
<1>7. Itself(f) = IF empty \in Names(text, "object") THEN {} ELSE {<<empty, f>>}
  BY DEF Itself
<1>8. self[1] = f /\ self[2] = empty
  OBVIOUS
<1> HIDE DEF self, empty
<1>9. ASSUME NEW p \in ListedFor(t, f) PROVE p \in Itself(f) \cup Mentions(f)
  <2>1. PICK k \in DOMAIN t.list : k[1] = f /\ p = <<k[2], t.list[k].class>>
    BY DEF ListedFor
  <2>2. CASE FromLine(k, f, "object", text, b)
    <3>1. PICK m \in 1 .. b :
            /\ text[m].kind = "object" /\ k = <<f, text[m].name>>
            /\ IsLast(text, b, m) /\ t.list[k] = RowOf(text[m], "seq")
      <4> HIDE DEF text, b
      <4> QED
        BY <1>1, <1>3, <2>2, LineRow
    <3>2. text[m].name \in Names(text, "object")
      BY <3>1, NamesLast
    <3>3. p = <<text[m].name, LastLine(text, "object", text[m].name).class>>
      BY <1>2, <2>1, <3>1
    <3> QED
      BY <3>2, <3>3 DEF Mentions
  <2>3. CASE ~FromLine(k, f, "object", text, b)
    <3>1. k = self
      BY <1>4, <2>1, <2>3
    <3>2. p = <<empty, f>>
      BY <1>6, <1>8, <2>1, <2>3, <3>1
    <3> QED
      BY <1>5, <1>7, <2>3, <3>1, <3>2
  <2> QED
    BY <2>2, <2>3
<1>10. ASSUME NEW p \in Mentions(f) PROVE p \in ListedFor(t, f)
  <2>1. PICK n \in Names(text, "object") :
          p = <<n, LastLine(text, "object", n).class>>
    BY DEF Mentions
  <2>2. PICK m \in 1 .. b :
          text[m].kind = "object" /\ text[m].name = n /\ IsLast(text, b, m)
    BY NamesLast
  <2> DEFINE k == <<f, text[m].name>>
  <2>3. k \in DOMAIN t.list /\ t.list[k] = RowOf(text[m], "seq")
    BY <1>3, <2>2 DEF Holds
  <2>4. k[1] = f /\ k[2] = n
    BY <2>2
  <2>5. p = <<k[2], t.list[k].class>>
    BY <1>2, <2>1, <2>2, <2>3
  <2> HIDE DEF k
  <2> QED
    BY <2>3, <2>4, <2>5 DEF ListedFor
<1>11. ASSUME NEW p \in Itself(f) PROVE p \in ListedFor(t, f)
  <2>1. p = <<empty, f>> /\ empty \notin Names(text, "object")
    BY <1>7
  <2>2. self \in DOMAIN t.list /\ t.list[self].class = f
    BY <1>5, <1>6, <2>1
  <2> QED
    BY <1>8, <2>1, <2>2 DEF ListedFor
<1> QED
  BY <1>9, <1>10, <1>11

(* A class that is mentioned is mentioned by a line that counts.           *)
LEMMA MentionedBy ==
  ASSUME NEW c \in MentionedClasses,
         \A f \in SeqFiles : files[f] = Absent \/ files[f] \in Seq(Lines)
  PROVE  \E f \in SeqFiles :
           /\ files[f] # Absent
           /\ \E m \in 1 .. Len(files[f]) :
                /\ files[f][m].kind = "object" /\ files[f][m].class = c
                /\ IsLast(files[f], Len(files[f]), m)
<1>1. PICK f \in SeqFiles : \E p \in Mentions(f) : p[2] = c
  BY DEF MentionedClasses
<1>2. PICK n \in Names(files[f], "object") : LastLine(files[f], "object", n).class = c
  BY <1>1 DEF Mentions
<1>3. files[f] # Absent /\ files[f] \in Seq(Lines)
  BY <1>2 DEF Names
<1>4. PICK m \in 1 .. Len(files[f]) :
        /\ files[f][m].kind = "object" /\ files[f][m].name = n
        /\ IsLast(files[f], Len(files[f]), m)
  BY <1>2, <1>3, NamesLast
<1>5. LastLine(files[f], "object", n) = files[f][m]
  BY <1>3, <1>4, LastLineIs
<1> QED
  BY <1>1, <1>2, <1>3, <1>4, <1>5
-----------------------------------------------------------------------------
LEMMA TextsAre ==
  TypeOK => \A s \in Sources : files[s] = Absent \/ files[s] \in Seq(Lines)
BY SourcesAssumption DEF TypeOK

LEMMA TablesTypes ==
  ASSUME NEW t, IsTables(t)
  PROVE  /\ \A k \in DOMAIN t.list :
              /\ k[1] \in Sources
              /\ t.list[k].class \in Sources \cup BasicTypes
              /\ t.list[k].state \in {0, 1}
         /\ \A k \in DOMAIN t.decl :
              /\ k[1] \in Sources \cup BasicTypes
              /\ t.decl[k].type =
                   CASE k[1] \in SeqFiles -> "seq"
                     [] k[1] \in Classes -> "class"
                     [] OTHER -> "type"
              /\ t.decl[k].state \in {0, 1}
         /\ Undeclared(t) \subseteq Sources \cup BasicTypes
<1>1. ASSUME NEW k \in DOMAIN t.list
      PROVE  /\ k[1] \in Sources
             /\ t.list[k].class \in Sources \cup BasicTypes
             /\ t.list[k].state \in {0, 1}
  BY DEF IsTables, ObjectRow
<1>2. ASSUME NEW k \in DOMAIN t.decl
      PROVE  /\ k[1] \in Sources \cup BasicTypes
             /\ t.decl[k].type =
                  CASE k[1] \in SeqFiles -> "seq"
                    [] k[1] \in Classes -> "class"
                    [] OTHER -> "type"
             /\ t.decl[k].state \in {0, 1}
  <2>1. k[1] \in Sources \cup BasicTypes /\ t.decl[k].state \in {0, 1}
    BY DEF IsTables, DeclRow
  <2>2. t.decl[k].type = TypeOf(k[1])
    BY DEF IsTables
  <2>3. SeqFiles \cap Classes = {}
    BY SourcesAssumption, Zenon
  <2> QED
    BY <2>1, <2>2, <2>3 DEF TypeOf
<1>3. Undeclared(t) \subseteq Sources \cup BasicTypes
  BY <1>1 DEF Undeclared
<1> QED
  BY <1>1, <1>2, <1>3

LEMMA UndeclaredIs ==
  ASSUME NEW t, NEW c
  PROVE  c \in Undeclared(t) <=>
           Bare(t, c) /\ \E k \in DOMAIN t.list : t.list[k].class = c
BY DEF Undeclared, Bare

(* A sequence file without a declaration declares nothing.                 *)
LEMMA BareDeclaresNothing ==
  ASSUME NEW t, NEW f, NEW text \in Seq(Lines), InStep(t, f, text), Bare(t, f)
  PROVE  \A m \in 1 .. Len(text) : text[m].kind # "function"
<1> SUFFICES ASSUME NEW m \in 1 .. Len(text), text[m].kind = "function" PROVE FALSE
  OBVIOUS
<1> DEFINE key == <<f, text[m].name>>
<1>1. Holds(t.decl, f, "function", "seq", text, Len(text))
  BY DEF InStep
<1>2. FromLine(key, f, "function", text, Len(text))
  BY DEF FromLine
<1>3. key[1] = f /\ Len(text) \in Nat
  OBVIOUS
<1> HIDE DEF key
<1>4. key \in DOMAIN t.decl
  BY <1>1, <1>2, <1>3, LineRow
<1> QED
  BY <1>3, <1>4 DEF Bare

LEMMA InitIInv == Init => IInv
<1> SUFFICES ASSUME Init PROVE IInv
  OBVIOUS
<1>1. db = [list |-> db.list, decl |-> db.decl] /\ db.list = NoRows /\ db.decl = NoRows
  BY DEF Init, EmptyTables
<1>2. DOMAIN NoRows = {} /\ \A S : NoRows \in [{} -> S]
  BY DEF NoRows
<1>3. IsTables(db)
  BY <1>1, <1>2 DEF IsTables
<1>4. TypeOK
  BY <1>1, <1>2, BoundsAssumption DEF Init, TypeOK
<1>5. files = [s \in Sources |-> files[s]]
  BY DEF Init
<1>6. Jobs /\ Confirmed /\ Kept /\ SequencesIn /\ ClassesIn
  BY DEF Init, Jobs, Confirmed, Kept, SequencesIn, ClassesIn, Current
<1> QED
  BY <1>3, <1>4, <1>5, <1>6 DEF IInv

LEMMA EditKeeps == IInv /\ Edit => IInv'
<1> SUFFICES ASSUME IInv, Edit PROVE IInv'
  OBVIOUS
<1>1. PICK s \in Sources : \E text \in Texts[s] : files' = [files EXCEPT ![s] = text]
  BY DEF Edit
<1>2. files = [r \in Sources |-> files[r]] /\ IsTables(db)
  BY DEF IInv
<1>3. files' = [r \in Sources |-> files'[r]] /\ \A r \in Sources : files'[r] \in Texts[r]
  BY <1>1, <1>2 DEF IInv, TypeOK
<1>4. TypeOK'
  <2>1. edits' \in 0 .. MaxEdits
    BY BoundsAssumption DEF IInv, TypeOK, Edit
  <2> QED
    BY <1>2, <1>3, <2>1, TablesTypes DEF IInv, TypeOK, Edit
<1>5. Jobs' /\ Confirmed' /\ Kept'
  BY DEF IInv, Jobs, Confirmed, Kept, Edit
<1>6. SequencesIn' /\ ClassesIn'
  BY DEF SequencesIn, ClassesIn, Current, Edit
<1> QED
  BY <1>2, <1>3, <1>4, <1>5, <1>6 DEF IInv, Edit

LEMMA LoadKeeps == IInv /\ Load => IInv'
<1> SUFFICES ASSUME IInv, Load PROVE IInv'
  OBVIOUS
<1>1. /\ db' = [list |-> db'.list, decl |-> db'.decl]
      /\ db'.list = NoRows /\ db'.decl = NoRows
  BY DEF Load, EmptyTables
<1>2. DOMAIN NoRows = {} /\ \A S : NoRows \in [{} -> S]
  BY DEF NoRows
<1>3. IsTables(db)'
  BY <1>1, <1>2 DEF IsTables
<1>4. TypeOK'
  BY <1>1, <1>2 DEF IInv, TypeOK, Load
<1>5. Jobs' /\ Confirmed' /\ Kept' /\ SequencesIn' /\ ClassesIn'
  BY <1>1, <1>2 DEF IInv, Jobs, Confirmed, Kept, SequencesIn, ClassesIn, Current, Load
<1> QED
  BY <1>3, <1>4, <1>5 DEF IInv, Load

LEMMA PrepareKeeps ==
  ASSUME IInv, NEW kind \in {"Rebuild", "Update"}, Prepare(kind)
  PROVE  IInv'
<1> DEFINE u == db'
<1>1. u = AddBasicTypes([list |-> Unmarked(db.list), decl |-> Unmarked(db.decl)])
  BY DEF Prepare
<1>2. IsTables(db)
  BY DEF IInv
<1> HIDE DEF u
<1>3. /\ IsTables(u)
      /\ \A s \in Sources : Unconfirmed(u, s)
      /\ \A k \in DOMAIN db.decl :
           k[1] \in Sources => k \in DOMAIN u.decl /\ u.decl[k].params = db.decl[k].params
      /\ \A k \in DOMAIN u.decl : k[1] \in Sources => k \in DOMAIN db.decl
  BY <1>1, <1>2, PreparedTables
<1> USE DEF u
<1>4. TypeOK'
  BY <1>3, TablesTypes, BoundsAssumption DEF IInv, TypeOK, Prepare
<1>5. Jobs' /\ Confirmed'
  BY DEF Jobs, Confirmed, Prepare
<1>6. Kept'
  BY <1>3 DEF Kept, Prepare, Sources
<1>7. SequencesIn'
  BY <1>3 DEF SequencesIn, SeqIn, Prepare, Sources
<1>8. ClassesIn'
  BY <1>3 DEF ClassesIn, Resolving, Bare, Prepare, Sources
<1> QED
  BY <1>3, <1>4, <1>5, <1>6, <1>7, <1>8 DEF IInv, Prepare
LEMMA ScanFileKeeps == IInv /\ ScanFile => IInv'
<1> SUFFICES ASSUME IInv, ScanFile PROVE IInv'
  OBVIOUS
<1>1. PICK f \in toScan : db' = AnalyseFile(db, FALSE, f) /\ toScan' = toScan \ {f}
  BY DEF ScanFile
<1>2. UNCHANGED <<files, links, pc, job, cursor, before, fresh, edits, jobs>> /\ pc = "Scan"
  BY DEF ScanFile
<1>3. f \in SeqFiles /\ f \in Sources /\ files[f] # Absent
  BY DEF IInv, Jobs, Sources
<1>4. files[f] \in Seq(Lines)
  BY <1>3, TextsAre DEF IInv
<1>5. Unconfirmed(db, f)
  BY <1>2, <1>3 DEF IInv, SequencesIn, SeqIn, Current
<1>6. IsTables(db)
  BY DEF IInv
<1> DEFINE u == db'
<1>7. u = AnalyseFile(db, FALSE, f)
  BY <1>1
<1> HIDE DEF u
<1>8. /\ IsTables(u)
      /\ InStep(u, f, files[f])
      /\ \A s : s # f => SameRows(db.list, u.list, s) /\ SameRows(db.decl, u.decl, s)
  BY <1>3, <1>4, <1>5, <1>6, <1>7, ScanWrites
<1>9. \A c \in Classes : c # f
  BY <1>3, SourcesAssumption, Zenon
<1>10. Kept'
  <2> SUFFICES ASSUME job = "Update", NEW k \in DOMAIN before, k[1] \in Classes
               PROVE  k \in DOMAIN u.decl /\ u.decl[k].params = before[k].params
    BY <1>2 DEF Kept, u
  <2>1. k \in DOMAIN db.decl /\ db.decl[k].params = before[k].params
    BY DEF IInv, Kept
  <2>2. SameRows(db.decl, u.decl, k[1])
    BY <1>8, <1>9
  <2> QED
    BY <2>1, <2>2 DEF SameRows
<1>11. SequencesIn'
  <2> SUFFICES ASSUME NEW g \in SeqFiles
               PROVE  IF files[g] = Absent \/ g \in toScan'
                      THEN Unconfirmed(u, g) ELSE InStep(u, g, files[g])
    BY <1>2 DEF SequencesIn, SeqIn, u
  <2>1. CASE g = f
    BY <1>1, <1>3, <1>8, <2>1
  <2>2. CASE g # f
    <3>1. SameRows(db.list, u.list, g) /\ SameRows(db.decl, u.decl, g)
      BY <1>8, <2>2
    <3>2. IF files[g] = Absent \/ g \in toScan
          THEN Unconfirmed(db, g) ELSE InStep(db, g, files[g])
      BY <1>2 DEF IInv, SequencesIn, SeqIn, Current
    <3>3. g \in toScan' <=> g \in toScan
      BY <1>1, <2>2
    <3> QED
      BY <3>1, <3>2, <3>3, SameUnconfirmed, SameInStep
  <2> QED
    BY <2>1, <2>2
<1>12. ClassesIn'
  <2> SUFFICES ASSUME job = "Rebuild", NEW c \in Classes, \A k \in DOMAIN before : k[1] # c
               PROVE  Bare(u, c)
    BY <1>2 DEF ClassesIn, Resolving, u
  <2>1. Bare(db, c)
    BY <1>2 DEF IInv, ClassesIn, Resolving, Current
  <2> QED
    BY <1>8, <1>9, <2>1, SameBare
<1>13. TypeOK'
  <2>1. toScan' \subseteq SeqFiles
    BY <1>1 DEF IInv, TypeOK
  <2> QED
    BY <1>2, <1>8, <2>1, TablesTypes DEF IInv, TypeOK, u
<1>14. Jobs' /\ Confirmed'
  BY <1>1, <1>2 DEF IInv, Jobs, Confirmed
<1>15. files' = [s \in Sources |-> files'[s]]
  BY <1>2 DEF IInv
<1> QED
  BY <1>8, <1>10, <1>11, <1>12, <1>13, <1>14, <1>15 DEF IInv, u

(* Once the directory has been read, the SELECT finds the classes that are *)
(* mentioned and have no declaration.                                      *)
LEMMA MentionedFound ==
  ASSUME IInv, pc = "Scan", toScan = {}, NEW c \in MentionedClasses, Bare(db, c)
  PROVE  c \in Undeclared(db)
<1>1. \A f \in SeqFiles : files[f] # Absent => files[f] \in Seq(Lines) /\ InStep(db, f, files[f])
  BY TextsAre DEF IInv, SequencesIn, SeqIn, Current, Sources
<1>2. PICK f \in SeqFiles :
        /\ files[f] # Absent
        /\ \E m \in 1 .. Len(files[f]) :
             /\ files[f][m].kind = "object" /\ files[f][m].class = c
             /\ IsLast(files[f], Len(files[f]), m)
  BY <1>1, MentionedBy
<1>3. PICK m \in 1 .. Len(files[f]) :
        /\ files[f][m].kind = "object" /\ files[f][m].class = c
        /\ IsLast(files[f], Len(files[f]), m)
  BY <1>2
<1> DEFINE line == files[f][m]
           key == <<f, line.name>>
<1>4. key \in DOMAIN db.list /\ db.list[key] = RowOf(line, "seq")
  BY <1>1, <1>2, <1>3 DEF InStep, Holds
<1>5. RowOf(line, "seq").class = c
  BY <1>3 DEF RowOf
<1> HIDE DEF key, line
<1>6. \E k \in DOMAIN db.list : db.list[k].class = c
  BY <1>4, <1>5
<1> QED
  BY <1>6, UndeclaredIs

LEMMA ScanDoneKeeps == IInv /\ ScanDone => IInv'
<1> SUFFICES ASSUME IInv, ScanDone PROVE IInv'
  OBVIOUS
<1>1. /\ UNCHANGED <<files, db, links, job, toScan, before, fresh, edits, jobs>>
      /\ pc = "Scan" /\ toScan = {}
      /\ job = "Rebuild" => pc' = "Resolve" /\ cursor' = Undeclared(db)
      /\ job # "Rebuild" => pc' = "Cleanup" /\ cursor' = cursor
  BY DEF ScanDone
<1>2. IsTables(db)
  BY DEF IInv
<1>3. \A f \in SeqFiles : files[f] # Absent => files[f] \in Seq(Lines) /\ InStep(db, f, files[f])
  BY <1>1, TextsAre DEF IInv, SequencesIn, SeqIn, Current, Sources
<1>4. TypeOK'
  BY <1>1, <1>2, TablesTypes DEF IInv, TypeOK
<1>5. Jobs'
  <2>1. ASSUME job = "Rebuild", NEW c \in cursor' \cap SeqFiles, files[c] # Absent
        PROVE  \A m \in 1 .. Len(files[c]) : files[c][m].kind # "function"
    <3>1. Bare(db, c)
      BY <1>1, <2>1, UndeclaredIs
    <3> QED
      BY <1>3, <2>1, <3>1, BareDeclaresNothing
  <2> QED
    BY <1>1, <2>1 DEF IInv, Jobs
<1>6. Confirmed' /\ Kept'
  BY <1>1 DEF IInv, Confirmed, Kept
<1>7. SequencesIn'
  BY <1>1, <1>3 DEF IInv, SequencesIn, SeqIn, Current
<1>8. ClassesIn'
  <2> SUFFICES ASSUME job = "Rebuild", NEW c \in Classes, \A k \in DOMAIN before : k[1] # c
               PROVE  Resolving(c)'
    BY <1>1 DEF ClassesIn
  <2>1. Bare(db, c)
    BY <1>1 DEF IInv, ClassesIn, Resolving, Current
  <2>2. ASSUME c \in MentionedClasses PROVE c \in cursor'
    BY <1>1, <2>1, <2>2, MentionedFound
  <2>3. MentionedClasses' = MentionedClasses
    BY <1>1 DEF MentionedClasses, Mentions, Names
  <2> QED
    BY <1>1, <2>1, <2>2, <2>3 DEF Resolving, Bare
<1>9. files' = [s \in Sources |-> files'[s]] /\ IsTables(db)'
  BY <1>1, <1>2 DEF IInv
<1> QED
  BY <1>4, <1>5, <1>6, <1>7, <1>8, <1>9 DEF IInv

LEMMA ResolveClassKeeps == IInv /\ ResolveClass => IInv'
<1> SUFFICES ASSUME IInv, ResolveClass PROVE IInv'
  OBVIOUS
<1>1. /\ UNCHANGED <<files, links, pc, job, toScan, before, fresh, edits, jobs>>
      /\ pc = "Resolve" /\ job = "Rebuild" /\ toScan = {}
  BY DEF ResolveClass, IInv, Jobs
<1> DEFINE u == db'
<1>2. PICK c \in cursor :
        /\ u = IF c \in Sources THEN AnalyseFile(db, TRUE, c) ELSE db
        /\ cursor \ {c} \subseteq cursor'
        /\ cursor' \subseteq cursor \cup Undeclared(u)
  BY DEF ResolveClass
<1>3. IsTables(db)
  BY DEF IInv
<1>4. c \in Sources => files[c] = Absent \/ files[c] \in Seq(Lines)
  BY TextsAre DEF IInv
<1>5. c \in SeqFiles /\ files[c] # Absent =>
        \A m \in 1 .. Len(files[c]) : files[c][m].kind # "function"
  BY <1>1 DEF IInv, Jobs
<1> HIDE DEF u
<1>6. /\ IsTables(u)
      /\ DOMAIN db.decl \subseteq DOMAIN u.decl
      /\ \A s : s # c => SameRows(db.list, u.list, s) /\ SameRows(db.decl, u.decl, s)
      /\ c \notin Sources \/ files[c] = Absent => u = db
      /\ c \in Sources /\ files[c] # Absent =>
           /\ Wrote(db.list, u.list, c, "object", "class", files[c], Len(files[c]))
           /\ Wrote(db.decl, u.decl, c, "function", "class", files[c], Len(files[c]))
  <2>1. u = IF c \in Sources THEN AnalyseFile(db, TRUE, c) ELSE db
    BY <1>2
  <2>2. WasRead(db, u, c, files[c])
    BY <1>3, <1>4, <1>5, <2>1, ReadWrites, Zenon
  <2> QED
    BY <2>2 DEF WasRead
<1>7. TypeOK'
  BY <1>1, <1>2, <1>6, TablesTypes DEF IInv, TypeOK, u
<1>8. ASSUME NEW g \in SeqFiles
      PROVE  IF files[g] = Absent THEN Unconfirmed(u, g) ELSE InStep(u, g, files[g])
  <2>1. IF files[g] = Absent THEN Unconfirmed(db, g) ELSE InStep(db, g, files[g])
    BY <1>1 DEF IInv, SequencesIn, SeqIn, Current
  <2>2. CASE g # c
    <3>1. SameRows(db.list, u.list, g) /\ SameRows(db.decl, u.decl, g)
      BY <1>6, <2>2
    <3> QED
      BY <2>1, <3>1, SameUnconfirmed, SameInStep
  <2>3. CASE g = c /\ files[c] = Absent
    BY <1>6, <2>1, <2>3
  <2>4. CASE g = c /\ files[c] # Absent
    <3>1. c \in Sources
      BY <2>4 DEF Sources
    <3> QED
      BY <1>5, <1>6, <2>1, <2>4, <3>1, ReadInStep
  <2> QED
    BY <2>2, <2>3, <2>4
<1>9. Jobs'
  <2>1. ASSUME NEW g \in cursor' \cap SeqFiles, files[g] # Absent
        PROVE  \A m \in 1 .. Len(files[g]) : files[g][m].kind # "function"
    <3>1. CASE g \in cursor
      BY <1>1, <2>1, <3>1 DEF IInv, Jobs
    <3>2. CASE g \in Undeclared(u)
      <4>1. Bare(u, g)
        BY <3>2, UndeclaredIs
      <4>2. InStep(u, g, files[g])
        BY <1>8, <2>1
      <4>3. files[g] \in Seq(Lines)
        BY <2>1, TextsAre DEF IInv, Sources
      <4> QED
        BY <4>1, <4>2, <4>3, BareDeclaresNothing
    <3> QED
      BY <1>2, <2>1, <3>1, <3>2
  <2> QED
    BY <1>1, <2>1 DEF IInv, Jobs
<1>10. Confirmed' /\ Kept'
  BY <1>1 DEF Confirmed, Kept
<1>11. SequencesIn'
  BY <1>1, <1>8 DEF SequencesIn, SeqIn, u
<1>12. ClassesIn'
  <2> SUFFICES ASSUME NEW d \in Classes, \A k \in DOMAIN before : k[1] # d,
                      d \in MentionedClasses
               PROVE  (d \in cursor' /\ Bare(u, d)) \/ ClassIn(u, d, files[d])
    <3>1. MentionedClasses' = MentionedClasses
      BY <1>1 DEF MentionedClasses, Mentions, Names
    <3> QED
      BY <1>1, <3>1 DEF ClassesIn, Resolving, u
  <2>1. (d \in cursor /\ Bare(db, d)) \/ ClassIn(db, d, files[d])
    BY <1>1 DEF IInv, ClassesIn, Resolving, Current
  <2>2. CASE d # c
    <3>1. SameRows(db.decl, u.decl, d)
      BY <1>6, <2>2
    <3> QED
      BY <1>2, <2>1, <2>2, <3>1, SameBare, SameClassIn
  <2>3. CASE d = c /\ files[c] = Absent
    BY <1>6, <2>1, <2>3 DEF ClassIn
  <2>4. CASE d = c /\ files[c] # Absent
    <3>1. c \in Sources
      BY <2>4 DEF Sources
    <3> QED
      BY <1>6, <2>1, <2>4, <3>1, ReadClassIn
  <2> QED
    BY <2>2, <2>3, <2>4
<1>13. files' = [s \in Sources |-> files'[s]]
  BY <1>1 DEF IInv
<1> QED
  BY <1>6, <1>7, <1>9, <1>10, <1>11, <1>12, <1>13 DEF IInv, u

LEMMA DeleteDeadKeeps == IInv /\ DeleteDead => IInv'
<1> SUFFICES ASSUME IInv, DeleteDead PROVE IInv'
  OBVIOUS
<1>1. /\ UNCHANGED <<files, links, job, toScan, cursor, before, fresh, edits, jobs>>
      /\ pc = "Resolve" /\ pc' = "Cleanup" /\ cursor = {} /\ job = "Rebuild"
  BY DEF DeleteDead, IInv, Jobs
<1> DEFINE u == db'
<1>2. u = [list |-> Live(db.list), decl |-> Live(db.decl)]
  BY DEF DeleteDead
<1>3. IsTables(db)
  BY DEF IInv
<1> HIDE DEF u
<1>4. /\ IsTables(u)
      /\ \A k \in DOMAIN u.list : u.list[k].state # 0
      /\ \A k \in DOMAIN u.decl : u.decl[k].state # 0
      /\ \A s : Unconfirmed(db, s) => Unconfirmed(u, s)
      /\ \A f, text : InStep(db, f, text) => InStep(u, f, text)
      /\ \A c, text : ClassIn(db, c, text) => ClassIn(u, c, text)
  BY <1>2, <1>3, LiveTables
<1>5. TypeOK'
  BY <1>1, <1>4, TablesTypes DEF IInv, TypeOK, u
<1>6. Jobs' /\ Confirmed' /\ Kept'
  BY <1>1, <1>4 DEF IInv, Jobs, Confirmed, Kept, u
<1>7. SequencesIn'
  BY <1>1, <1>4 DEF IInv, SequencesIn, SeqIn, Current, u
<1>8. ClassesIn'
  <2> SUFFICES ASSUME NEW d \in Classes, \A k \in DOMAIN before : k[1] # d,
                      d \in MentionedClasses
               PROVE  ClassIn(u, d, files[d])
    <3>1. MentionedClasses' = MentionedClasses
      BY <1>1 DEF MentionedClasses, Mentions, Names
    <3> QED
      BY <1>1, <3>1 DEF ClassesIn, Resolving, u
  <2> QED
    BY <1>1, <1>4 DEF IInv, ClassesIn, Resolving, Current
<1>9. files' = [s \in Sources |-> files'[s]]
  BY <1>1 DEF IInv
<1> QED
  BY <1>4, <1>5, <1>6, <1>7, <1>8, <1>9 DEF IInv, u

LEMMA CleanupKeeps == IInv /\ CleanupDeadLinks => IInv'
<1> SUFFICES ASSUME IInv, CleanupDeadLinks PROVE IInv'
  OBVIOUS
<1>1. /\ UNCHANGED <<files, db, job, toScan, cursor, before, fresh, edits, jobs>>
      /\ pc = "Cleanup" /\ pc' = "Idle"
  BY DEF CleanupDeadLinks
<1>2. TypeOK'
  BY <1>1 DEF IInv, TypeOK
<1>3. Jobs' /\ Confirmed' /\ Kept'
  BY <1>1 DEF IInv, Jobs, Confirmed, Kept
<1>4. SequencesIn'
  BY <1>1 DEF IInv, SequencesIn, SeqIn, Current
<1>5. ClassesIn'
  <2>1. MentionedClasses' = MentionedClasses
    BY <1>1 DEF MentionedClasses, Mentions, Names
  <2> QED
    BY <1>1, <2>1 DEF IInv, ClassesIn, Resolving, Current
<1> QED
  BY <1>1, <1>2, <1>3, <1>4, <1>5 DEF IInv
LEMMA NextKeeps == IInv /\ [Next]_vars => IInv'
<1> SUFFICES ASSUME IInv, [Next]_vars PROVE IInv'
  OBVIOUS
<1>1. CASE Edit
  BY <1>1, EditKeeps
<1>2. CASE Load
  BY <1>2, LoadKeeps
<1>3. CASE \E kind \in {"Rebuild", "Update"} : Prepare(kind)
  BY <1>3, PrepareKeeps
<1>4. CASE ScanFile
  BY <1>4, ScanFileKeeps
<1>5. CASE ScanDone
  BY <1>5, ScanDoneKeeps
<1>6. CASE ResolveClass
  BY <1>6, ResolveClassKeeps
<1>7. CASE DeleteDead
  BY <1>7, DeleteDeadKeeps
<1>8. CASE CleanupDeadLinks
  BY <1>8, CleanupKeeps
<1>9. CASE UNCHANGED vars
  <2>1. /\ UNCHANGED <<files, db, pc, job, toScan, cursor, before, fresh>>
        /\ UNCHANGED <<edits, jobs>>
    BY <1>9 DEF vars
  <2>2. TypeOK'
    BY <2>1 DEF IInv, TypeOK
  <2>3. Jobs' /\ Confirmed' /\ Kept' /\ SequencesIn'
    BY <2>1 DEF IInv, Jobs, Confirmed, Kept, SequencesIn, SeqIn, Current
  <2>4. ClassesIn'
    <3>1. MentionedClasses' = MentionedClasses
      BY <2>1 DEF MentionedClasses, Mentions, Names
    <3> QED
      BY <2>1, <3>1 DEF IInv, ClassesIn, Resolving, Current
  <2> QED
    BY <2>1, <2>2, <2>3, <2>4 DEF IInv
<1> QED
  BY <1>1, <1>2, <1>3, <1>4, <1>5, <1>6, <1>7, <1>8, <1>9 DEF Next, Step

LEMMA Inductive == Spec => []IInv
<1>1. Init => IInv
  BY InitIInv
<1>2. IInv /\ [Next]_vars => IInv'
  BY NextKeeps
<1> QED
  BY <1>1, <1>2, PTL DEF Spec

LEMMA MirroredNow == IInv => SequencesMirrored
<1> SUFFICES ASSUME IInv, pc = "Idle", job = "Rebuild", fresh, NEW f \in SeqFiles
             PROVE  /\ DeclaredFor(db, f) = Declares(f)
                    /\ ListedFor(db, f) =
                         IF files[f] = Absent THEN {} ELSE Itself(f) \cup Mentions(f)
  BY DEF SequencesMirrored, Ran
<1>1. /\ \A k \in DOMAIN db.list : db.list[k].state = 1
      /\ \A k \in DOMAIN db.decl : db.decl[k].state = 1
  BY DEF IInv, Confirmed, IsTables, ObjectRow, DeclRow
<1>2. IF files[f] = Absent THEN Unconfirmed(db, f) ELSE InStep(db, f, files[f])
  BY DEF IInv, SequencesIn, SeqIn, Current, Jobs
<1>3. CASE files[f] = Absent
  <2>1. Unconfirmed(db, f)
    BY <1>2, <1>3
  <2>2. Bare(db, f) /\ \A k \in DOMAIN db.list : k[1] # f
    BY <1>1, <2>1 DEF Unconfirmed, Bare
  <2>3. ListedFor(db, f) = {}
    BY <2>2 DEF ListedFor
  <2> QED
    BY <1>3, <2>2, <2>3, DeclaredNone
<1>4. CASE files[f] # Absent
  <2>1. files[f] \in Seq(Lines)
    BY <1>4, TextsAre DEF IInv, Sources
  <2>2. InStep(db, f, files[f])
    BY <1>2, <1>4
  <2>3. ListedFor(db, f) = Itself(f) \cup Mentions(f)
    BY <1>1, <1>4, <2>1, <2>2, ListedIs
  <2>4. /\ Holds(db.decl, f, "function", "seq", files[f], Len(files[f]))
        /\ \A k \in DOMAIN db.decl :
             k[1] = f => FromLine(k, f, "function", files[f], Len(files[f]))
    BY <1>1, <2>2 DEF InStep
  <2>5. DeclaredFor(db, f) = Declares(f)
    BY <1>4, <2>1, <2>4, DeclaredIs
  <2> QED
    BY <1>4, <2>3, <2>5
<1> QED
  BY <1>3, <1>4

LEMMA ResolvedNow == IInv => UndeclaredResolved
<1> SUFFICES ASSUME IInv, pc = "Idle", job = "Rebuild", fresh, NEW c \in MentionedClasses,
                    \A k \in DOMAIN before : k[1] # c
             PROVE  DeclaredFor(db, c) = Declares(c)
  BY DEF UndeclaredResolved, Ran
<1>1. c \in Classes
  BY DEF MentionedClasses
<1>2. ClassIn(db, c, files[c])
  BY <1>1 DEF IInv, ClassesIn, Resolving, Current
<1>3. CASE files[c] = Absent
  BY <1>2, <1>3, DeclaredNone DEF ClassIn
<1>4. CASE files[c] # Absent
  <2>1. files[c] \in Seq(Lines)
    BY <1>1, <1>4, TextsAre DEF IInv, Sources
  <2> QED
    BY <1>2, <1>4, <2>1, DeclaredIs DEF ClassIn
<1> QED
  BY <1>3, <1>4

-----------------------------------------------------------------------------
(* What auto-completion offers after a Rebuild.                            *)

Empty == ""

(* The basic types are declared, and nothing else is declared for them.    *)
BasicRows(t) ==
  \A k \in DOMAIN t.decl : k[1] \in BasicTypes => k[2] = Empty /\ t.decl[k].state = 1

AllTypes(t) == \A type \in BasicTypes : <<type, Empty>> \in DOMAIN t.decl

LinksIn ==
  pc = "Idle" /\ job # "Load" => links = AllLinks(ListView(db), DeclView(db))

(* The description of the class has not been read in this Rebuild, or all  *)
(* of it has.                                                              *)
Untouched(t, c) ==
  /\ Bare(t, c)
  /\ \A k \in DOMAIN t.list : k[1] = c => t.list[k].state = 0

ObjectsIn(t, c, text) ==
  /\ \A k \in DOMAIN t.list :
        k[1] = c /\ t.list[k].state = 1 =>
          text # Absent /\ FromLine(k, c, "object", text, Len(text))
  /\ text # Absent => Holds(t.list, c, "object", "class", text, Len(text))

Whole(t, c, text) == ClassIn(t, c, text) /\ ObjectsIn(t, c, text)

ReadSoFar(c) ==
  /\ Untouched(db, c) \/ Whole(db, c, files[c])
  /\ pc = "Scan" => Untouched(db, c)
  /\ pc = "Resolve" /\ c \in MentionedClasses => c \in cursor \/ Whole(db, c, files[c])
  /\ pc \in {"Cleanup", "Idle"} /\ c \in MentionedClasses => Whole(db, c, files[c])

ClassesRead ==
  job = "Rebuild" /\ Current /\ before = NoRows => \A c \in Classes : ReadSoFar(c)

OInv ==
  /\ BasicRows(db)
  /\ pc # "Idle" \/ job # "Load" => AllTypes(db)
  /\ ClassesRead
  /\ LinksIn

LEMMA SameObjects ==
  ASSUME NEW t, NEW u, NEW c, NEW text, SameRows(t.list, u.list, c), ObjectsIn(t, c, text)
  PROVE  ObjectsIn(u, c, text)
<1>1. ASSUME NEW k \in DOMAIN u.list, k[1] = c, u.list[k].state = 1
      PROVE  text # Absent /\ FromLine(k, c, "object", text, Len(text))
  <2>1. k \in DOMAIN t.list /\ t.list[k].state = 1
    BY <1>1 DEF SameRows
  <2> QED
    BY <1>1, <2>1 DEF ObjectsIn
<1>2. ASSUME text # Absent PROVE Holds(u.list, c, "object", "class", text, Len(text))
  BY <1>2, SameHolds DEF ObjectsIn
<1> QED
  BY <1>1, <1>2 DEF ObjectsIn

(* Reading other sources changes neither, and reading it completes it.     *)
LEMMA SameRead ==
  ASSUME NEW t, NEW u, NEW c, NEW text,
         SameRows(t.list, u.list, c), SameRows(t.decl, u.decl, c)
  PROVE  /\ Untouched(t, c) => Untouched(u, c)
         /\ Whole(t, c, text) => Whole(u, c, text)
<1>1. Untouched(t, c) => Untouched(u, c)
  BY SameBare DEF Untouched, SameRows
<1>2. Whole(t, c, text) => Whole(u, c, text)
  BY SameClassIn, SameObjects DEF Whole
<1> QED
  BY <1>1, <1>2

LEMMA ReadWhole ==
  ASSUME NEW t, NEW u, NEW c, NEW text, text # Absent,
         Untouched(t, c) \/ Whole(t, c, text),
         Wrote(t.list, u.list, c, "object", "class", text, Len(text)),
         Wrote(t.decl, u.decl, c, "function", "class", text, Len(text))
  PROVE  Whole(u, c, text)
<1>1. ClassIn(u, c, text)
  BY ReadClassIn DEF Untouched, Whole
<1>2. ASSUME NEW k \in DOMAIN t.list, k[1] = c, t.list[k].state = 1
      PROVE  FromLine(k, c, "object", text, Len(text))
  <2>1. t.list[k].state # 0
    BY <1>2
  <2> QED
    BY <1>2, <2>1 DEF Untouched, Whole, ObjectsIn
<1>3. ASSUME NEW k \in DOMAIN u.list, k[1] = c, u.list[k].state = 1
      PROVE  FromLine(k, c, "object", text, Len(text))
  <2>1. CASE k \in DOMAIN t.list /\ u.list[k] = t.list[k]
    BY <1>2, <1>3, <2>1
  <2> QED
    BY <1>3, <2>1 DEF Wrote
<1>4. Holds(u.list, c, "object", "class", text, Len(text))
  BY DEF Wrote
<1> QED
  BY <1>1, <1>3, <1>4 DEF Whole, ObjectsIn

LEMMA LiveRead ==
  ASSUME NEW t, IsTables(t), NEW u, u = [list |-> Live(t.list), decl |-> Live(t.decl)],
         NEW c, NEW text
  PROVE  /\ Untouched(t, c) => Untouched(u, c)
         /\ Whole(t, c, text) => Whole(u, c, text)
<1>1. u.list = Live(t.list) /\ u.decl = Live(t.decl)
  OBVIOUS
<1>2. ASSUME NEW table
      PROVE  /\ DOMAIN Live(table) \subseteq DOMAIN table
             /\ \A k \in DOMAIN Live(table) : Live(table)[k] = table[k]
  BY DEF Live
<1>3. /\ DOMAIN u.list \subseteq DOMAIN t.list
      /\ \A k \in DOMAIN u.list : u.list[k] = t.list[k]
      /\ DOMAIN u.decl \subseteq DOMAIN t.decl
      /\ \A k \in DOMAIN u.decl : u.decl[k] = t.decl[k]
  BY <1>1, <1>2
<1>4. Untouched(t, c) => Untouched(u, c)
  BY <1>3 DEF Untouched, Bare
<1>5. ASSUME Whole(t, c, text) PROVE Whole(u, c, text)
  <2>1. ClassIn(u, c, text)
    BY <1>5, LiveTables DEF Whole
  <2>2. text # Absent => Holds(u.list, c, "object", "class", text, Len(text))
    BY <1>1, <1>5, LiveHolds DEF Whole, ObjectsIn
  <2> QED
    BY <1>3, <1>5, <2>1, <2>2 DEF Whole, ObjectsIn
<1> QED
  BY <1>4, <1>5

-----------------------------------------------------------------------------
(* The sources that the tables are made of.                                *)
ReadSources == SeqFiles \cup {c \in Classes : Whole(db, c, files[c])}

(* The tables, read off these sources.                                     *)
Mirrored(read) ==
  /\ \A s \in Sources : \A n, c :
       (<<s, n>> \in DOMAIN db.list /\ db.list[<<s, n>>].class = c)
         <=> s \in read /\ <<n, c>> \in SaidBy(s)
  /\ \A c \in Sources \cup BasicTypes : \A n :
       <<c, n>> \in DOMAIN db.decl <=> \E q \in FunctionsOf(c, read) : q[1] = n

LEMMA ListedRow ==
  ASSUME IsTables(db), NEW f, NEW n, NEW c
  PROVE  <<n, c>> \in ListedFor(db, f)
           <=> <<f, n>> \in DOMAIN db.list /\ db.list[<<f, n>>].class = c
<1>1. \A k \in DOMAIN db.list : k = <<k[1], k[2]>>
  BY DEF IsTables
<1> QED
  BY <1>1 DEF ListedFor

LEMMA DeclaredRow ==
  ASSUME IsTables(db), NEW c, NEW n
  PROVE  (\E q \in DeclaredFor(db, c) : q[1] = n) <=> <<c, n>> \in DOMAIN db.decl
<1> DEFINE key == <<c, n>>
<1>1. \A k \in DOMAIN db.decl : k = <<k[1], k[2]>>
  BY DEF IsTables
<1>2. ASSUME NEW q \in DeclaredFor(db, c), q[1] = n PROVE key \in DOMAIN db.decl
  <2>1. PICK k \in DOMAIN db.decl : k[1] = c /\ q = <<k[2], db.decl[k].params>>
    BY DEF DeclaredFor
  <2>2. k[2] = n
    BY <1>2, <2>1
  <2> QED
    BY <1>1, <2>1, <2>2
<1>3. ASSUME key \in DOMAIN db.decl PROVE \E q \in DeclaredFor(db, c) : q[1] = n
  <2> DEFINE q == <<n, db.decl[key].params>>
  <2>1. key[1] = c /\ key[2] = n /\ q[1] = n
    OBVIOUS
  <2>2. q \in DeclaredFor(db, c)
    <3> HIDE DEF key
    <3> QED
      BY <1>3, <2>1 DEF DeclaredFor
  <2> QED
    BY <2>1, <2>2
<1> QED
  BY <1>2, <1>3

(* What the rows of a class that has been read are about.                  *)
LEMMA ClassListed ==
  ASSUME NEW t, NEW c, files[c] # Absent, files[c] \in Seq(Lines),
         ObjectsIn(t, c, files[c]), \A k \in DOMAIN t.list : t.list[k].state = 1
  PROVE  ListedFor(t, c) = Mentions(c)
<1> DEFINE text == files[c]
           b == Len(text)
<1>1. b \in Nat
  OBVIOUS
<1>2. ASSUME NEW m \in 1 .. b, text[m].kind = "object", IsLast(text, b, m)
      PROVE  /\ LastLine(text, "object", text[m].name) = text[m]
             /\ RowOf(text[m], "class").class = text[m].class
  BY <1>2, LastLineIs DEF RowOf
<1>3. Holds(t.list, c, "object", "class", text, b)
  BY DEF ObjectsIn
<1>4. ASSUME NEW p \in ListedFor(t, c) PROVE p \in Mentions(c)
  <2>1. PICK k \in DOMAIN t.list : k[1] = c /\ p = <<k[2], t.list[k].class>>
    BY DEF ListedFor
  <2>2. FromLine(k, c, "object", text, b)
    BY <2>1 DEF ObjectsIn
  <2>3. PICK m \in 1 .. b :
          /\ text[m].kind = "object" /\ k = <<c, text[m].name>>
          /\ IsLast(text, b, m) /\ t.list[k] = RowOf(text[m], "class")
    <3> HIDE DEF text, b
    <3> QED
      BY <1>1, <1>3, <2>2, LineRow
  <2>4. text[m].name \in Names(text, "object")
    BY <2>3, NamesLast
  <2>5. p = <<text[m].name, LastLine(text, "object", text[m].name).class>>
    BY <1>2, <2>1, <2>3
  <2> QED
    BY <2>4, <2>5 DEF Mentions
<1>5. ASSUME NEW p \in Mentions(c) PROVE p \in ListedFor(t, c)
  <2>1. PICK n \in Names(text, "object") : p = <<n, LastLine(text, "object", n).class>>
    BY DEF Mentions
  <2>2. PICK m \in 1 .. b :
          text[m].kind = "object" /\ text[m].name = n /\ IsLast(text, b, m)
    BY NamesLast
  <2> DEFINE k == <<c, text[m].name>>
  <2>3. k \in DOMAIN t.list /\ t.list[k] = RowOf(text[m], "class")
    BY <1>3, <2>2 DEF Holds
  <2>4. k[1] = c /\ k[2] = n
    BY <2>2
  <2>5. p = <<k[2], t.list[k].class>>
    BY <1>2, <2>1, <2>2, <2>3
  <2> HIDE DEF k
  <2> QED
    BY <2>3, <2>4, <2>5 DEF ListedFor
<1> QED
  BY <1>4, <1>5

(* The sources a Rebuild has read are in the tables, and no other one is.  *)
LEMMA ReadListed ==
  ASSUME IInv, OInv, pc = "Idle", job = "Rebuild", fresh, before = NoRows,
         NEW s \in Sources
  PROVE  /\ s \in ReadSources => ListedFor(db, s) = SaidBy(s) /\ DeclaredFor(db, s) = Declares(s)
         /\ s \notin ReadSources => ListedFor(db, s) = {} /\ DeclaredFor(db, s) = {}
<1>1. /\ \A k \in DOMAIN db.list : db.list[k].state = 1
      /\ \A k \in DOMAIN db.decl : db.decl[k].state = 1
  BY DEF IInv, Confirmed, IsTables, ObjectRow, DeclRow
<1>2. SeqFiles \cap Classes = {} /\ s \in SeqFiles \cup Classes
  BY SourcesAssumption, Zenon DEF Sources
<1>3. CASE s \in SeqFiles
  <2>1. /\ DeclaredFor(db, s) = Declares(s)
        /\ ListedFor(db, s) = IF files[s] = Absent THEN {} ELSE Itself(s) \cup Mentions(s)
    BY <1>3, MirroredNow DEF SequencesMirrored, Ran
  <2> QED
    BY <1>3, <2>1 DEF SaidBy, ReadSources
<1>4. CASE s \notin SeqFiles /\ Whole(db, s, files[s])
  <2>1. CASE files[s] = Absent
    <3>1. Bare(db, s) /\ \A k \in DOMAIN db.list : k[1] # s
      BY <1>1, <1>4, <2>1 DEF Whole, ClassIn, ObjectsIn
    <3>2. ListedFor(db, s) = {}
      BY <3>1 DEF ListedFor
    <3>3. SaidBy(s) = {}
      BY <2>1 DEF SaidBy
    <3>4. s \in ReadSources
      BY <1>2, <1>4 DEF ReadSources
    <3> QED
      BY <2>1, <3>1, <3>2, <3>3, <3>4, DeclaredNone
  <2>2. CASE files[s] # Absent
    <3>1. files[s] \in Seq(Lines)
      BY <2>2, TextsAre DEF IInv
    <3>2. ListedFor(db, s) = Mentions(s)
      BY <1>1, <1>4, <2>2, <3>1, ClassListed DEF Whole
    <3>3. DeclaredFor(db, s) = Declares(s)
      BY <1>4, <2>2, <3>1, DeclaredIs DEF Whole, ClassIn
    <3>4. SaidBy(s) = Mentions(s)
      BY <1>4, <2>2 DEF SaidBy
    <3>5. s \in ReadSources
      BY <1>2, <1>4 DEF ReadSources
    <3> QED
      BY <3>2, <3>3, <3>4, <3>5
  <2> QED
    BY <2>1, <2>2
<1>5. CASE s \notin SeqFiles /\ ~Whole(db, s, files[s])
  <2>1. Untouched(db, s)
    BY <1>2, <1>5 DEF OInv, ClassesRead, ReadSoFar, Current
  <2>2. Bare(db, s) /\ \A k \in DOMAIN db.list : k[1] # s
    BY <1>1, <2>1 DEF Untouched
  <2>3. ListedFor(db, s) = {} /\ DeclaredFor(db, s) = {}
    BY <2>2 DEF ListedFor, DeclaredFor, Bare
  <2>4. s \notin ReadSources
    BY <1>5 DEF ReadSources
  <2> QED
    BY <2>3, <2>4
<1> QED
  BY <1>3, <1>4, <1>5

LEMMA MirroredRows ==
  ASSUME IInv, OInv, pc = "Idle", job = "Rebuild", fresh, before = NoRows
  PROVE  Mirrored(ReadSources)
<1>1. IsTables(db) /\ BasicTypes \cap Sources = {}
  BY SourcesAssumption, Zenon DEF IInv
<1>2. ASSUME NEW s \in Sources, NEW n, NEW c
      PROVE  (<<s, n>> \in DOMAIN db.list /\ db.list[<<s, n>>].class = c)
               <=> s \in ReadSources /\ <<n, c>> \in SaidBy(s)
  BY <1>1, ListedRow, ReadListed
<1>3. ASSUME NEW c \in Sources \cup BasicTypes, NEW n
      PROVE  <<c, n>> \in DOMAIN db.decl <=> \E q \in FunctionsOf(c, ReadSources) : q[1] = n
  <2>1. CASE c \in BasicTypes
    <3> DEFINE z == <<Empty, Empty>>
    <3>1. FunctionsOf(c, ReadSources) = {z} /\ z[1] = Empty
      BY <2>1 DEF FunctionsOf, Empty
    <3>2. <<c, n>> \in DOMAIN db.decl <=> n = Empty
      BY <2>1 DEF OInv, BasicRows, AllTypes
    <3> HIDE DEF z
    <3> QED
      BY <3>1, <3>2
  <2>2. CASE c \in ReadSources
    <3>1. c \in Sources /\ c \notin BasicTypes
      BY <1>1, <2>2 DEF ReadSources, Sources
    <3>2. FunctionsOf(c, ReadSources) = Declares(c)
      BY <2>2, <3>1 DEF FunctionsOf
    <3>3. DeclaredFor(db, c) = Declares(c)
      BY <2>2, <3>1, ReadListed
    <3> QED
      BY <1>1, <3>2, <3>3, DeclaredRow
  <2>3. CASE c \notin BasicTypes /\ c \notin ReadSources
    <3>1. FunctionsOf(c, ReadSources) = {}
      BY <2>3 DEF FunctionsOf
    <3>2. DeclaredFor(db, c) = {}
      BY <2>3, ReadListed
    <3> QED
      BY <1>1, <3>1, <3>2, DeclaredRow
  <2> QED
    BY <2>1, <2>2, <2>3
<1> QED
  BY <1>2, <1>3, Zenon DEF Mirrored

LEMMA MirroredList ==
  ASSUME NEW read, Mirrored(read), NEW s \in Sources, NEW n, NEW c
  PROVE  (<<s, n>> \in DOMAIN db.list /\ db.list[<<s, n>>].class = c)
           <=> s \in read /\ <<n, c>> \in SaidBy(s)
BY Zenon DEF Mirrored

LEMMA MirroredDecl ==
  ASSUME NEW read, Mirrored(read), NEW c \in Sources \cup BasicTypes, NEW n
  PROVE  <<c, n>> \in DOMAIN db.decl <=> \E q \in FunctionsOf(c, read) : q[1] = n
BY Zenon DEF Mirrored

LEMMA SaidPair ==
  ASSUME NEW s, NEW m \in SaidBy(s)
  PROVE  m = <<m[1], m[2]>>
<1> DEFINE empty == ""
<1>1. Itself(s) \subseteq {<<empty, s>>}
  BY DEF Itself
<1> HIDE DEF empty
<1>2. CASE m \in Itself(s)
  BY <1>1, <1>2
<1>3. CASE m \in Mentions(s)
  BY <1>3 DEF Mentions
<1>4. m \in Mentions(s) \/ m \in Itself(s)
  BY DEF SaidBy
<1> QED
  BY <1>2, <1>3, <1>4

(* A sequence file sees the sources that the sources make it see.          *)
LEMMA VisibleIs ==
  ASSUME IsTables(db), NEW read \in SUBSET Sources, SeqFiles \subseteq read, Mirrored(read),
         NEW f \in SeqFiles, NEW r \in DOMAIN db.list
  PROVE  r[1] \in VisibleFiles(ListView(db), f) <=> r[1] \in VisibleSources(f, read)
<1> DEFINE tab == ListView(db)
           Closed(F) == /\ f \in F
                        /\ \A s \in F : \A m \in SaidBy(s) : m[2] \in read => m[2] \in F
<1>1. /\ DOMAIN tab = DOMAIN db.list
      /\ \A k \in DOMAIN tab : tab[k].scope = k[1] /\ tab[k].class = db.list[k].class
  BY DEF ListView
<1>2. \A k \in DOMAIN tab : /\ k = <<k[1], k[2]>> /\ k[1] \in read
                            /\ <<k[2], tab[k].class>> \in SaidBy(k[1])
  <2> SUFFICES ASSUME NEW k \in DOMAIN tab
               PROVE  /\ k = <<k[1], k[2]>> /\ k[1] \in read
                      /\ <<k[2], tab[k].class>> \in SaidBy(k[1])
    OBVIOUS
  <2>1. k \in DOMAIN db.list /\ tab[k].class = db.list[k].class
    BY <1>1
  <2>2. k = <<k[1], k[2]>> /\ k[1] \in Sources
    BY <2>1 DEF IsTables
  <2>3. <<k[1], k[2]>> \in DOMAIN db.list /\ db.list[<<k[1], k[2]>>].class = tab[k].class
    BY <2>1, <2>2
  <2>4. k[1] \in read /\ <<k[2], tab[k].class>> \in SaidBy(k[1])
    BY <2>2, <2>3, MirroredList
  <2> QED
    BY <2>2, <2>4
<1>3. r[1] \in VisibleSources(f, read) <=> \A F \in SUBSET read : Closed(F) => r[1] \in F
  <2>1. r[1] \in read
    BY <1>1, <1>2
  <2> QED
    BY <2>1 DEF VisibleSources
<1>4. r[1] \in VisibleFiles(tab, f) <=> \A G \in ClosedFrom(tab, f) : r[1] \in G
  BY <1>1, VisibleElement
<1> HIDE DEF tab
<1>5. ASSUME r[1] \in VisibleSources(f, read), NEW G \in ClosedFrom(tab, f)
      PROVE  r[1] \in G
  <2> DEFINE F == G \cap read
  <2>1. f \in G /\ \A k \in DOMAIN tab : tab[k].scope \in G => tab[k].class \in G
    BY DEF ClosedFrom
  <2>2. ASSUME NEW s \in F, NEW m \in SaidBy(s), m[2] \in read
        PROVE  m[2] \in F
    <3>1. m = <<m[1], m[2]>> /\ s \in Sources /\ s \in read
      BY SaidPair
    <3>2. <<s, m[1]>> \in DOMAIN db.list /\ db.list[<<s, m[1]>>].class = m[2]
      <4>1. <<m[1], m[2]>> \in SaidBy(s)
        BY <3>1
      <4> QED
        BY <3>1, <4>1, MirroredList
    <3>3. tab[<<s, m[1]>>].scope = s
      BY <1>1, <3>2
    <3> QED
      BY <1>1, <2>1, <2>2, <3>2, <3>3
  <2>3. Closed(F) /\ F \in SUBSET read
    BY <2>1, <2>2
  <2> QED
    BY <1>3, <1>5, <2>3
<1>6. ASSUME r[1] \in VisibleFiles(tab, f), NEW F \in SUBSET read, Closed(F)
      PROVE  r[1] \in F
  <2> DEFINE G == (F \cap (NamesOf(tab) \cup {f})) \cup (NamesOf(tab) \ read)
  <2>1. ASSUME NEW k \in DOMAIN tab, tab[k].scope \in G
        PROVE  tab[k].class \in G
    <3>1. tab[k].class \in NamesOf(tab) /\ tab[k].scope = k[1]
      BY <1>1 DEF NamesOf
    <3>2. ASSUME tab[k].class \in read PROVE tab[k].class \in F
      <4>1. k[1] \in F
        BY <1>2, <2>1, <3>1
      <4> DEFINE m == <<k[2], tab[k].class>>
      <4>2. m \in SaidBy(k[1]) /\ m[2] = tab[k].class
        BY <1>2
      <4> HIDE DEF m
      <4> QED
        BY <1>6, <3>2, <4>1, <4>2
    <3> QED
      BY <3>1, <3>2
  <2>2. f \in G
    BY <1>6
  <2>3. G \in ClosedFrom(tab, f)
    BY <2>1, <2>2 DEF ClosedFrom
  <2>4. r[1] \in G
    BY <1>4, <1>6, <2>3
  <2> QED
    BY <1>1, <1>2, <2>4
<1> QED
  BY <1>3, <1>4, <1>5, <1>6 DEF tab

(* What the sources make auto-completion offer, element by element.        *)
LEMMA SourceElement ==
  ASSUME NEW f, NEW read, NEW e
  PROVE  e \in SourceOffers(f, read) <=>
           \E s \in VisibleSources(f, read) : \E m \in SaidBy(s) :
             \E q \in FunctionsOf(m[2], read) : e = <<m[1], q[1]>>
<1> DEFINE seen == UNION {SaidBy(s) : s \in VisibleSources(f, read)}
           pairs == UNION {{m} \X FunctionsOf(m[2], read) : m \in seen}
<1>1. SourceOffers(f, read) = {<<p[1][1], p[2][1]>> : p \in pairs}
  BY DEF SourceOffers
<1>2. \A m : m \in seen <=> \E s \in VisibleSources(f, read) : m \in SaidBy(s)
  OBVIOUS
<1> HIDE DEF seen
<1>3. \A p : p \in pairs <=> \E m \in seen : \E q \in FunctionsOf(m[2], read) : p = <<m, q>>
  OBVIOUS
<1> HIDE DEF pairs
<1>4. ASSUME e \in SourceOffers(f, read)
      PROVE  \E m \in seen : \E q \in FunctionsOf(m[2], read) : e = <<m[1], q[1]>>
  <2>1. PICK p \in pairs : e = <<p[1][1], p[2][1]>>
    BY <1>1, <1>4
  <2>2. PICK m \in seen : \E q \in FunctionsOf(m[2], read) : p = <<m, q>>
    BY <1>3
  <2> QED
    BY <2>1, <2>2
<1>5. ASSUME NEW m \in seen, NEW q \in FunctionsOf(m[2], read), e = <<m[1], q[1]>>
      PROVE  e \in SourceOffers(f, read)
  <2> DEFINE p == <<m, q>>
  <2>1. p \in pairs /\ p[1] = m /\ p[2] = q
    BY <1>3
  <2> HIDE DEF p
  <2> QED
    BY <1>1, <1>5, <2>1
<1> QED
  BY <1>2, <1>4, <1>5, Zenon

(* What the tables make it offer.                                          *)
LEMMA OffersNow ==
  ASSUME IInv, OInv, pc = "Idle", job = "Rebuild", fresh, before = NoRows,
         NEW f \in SeqFiles
  PROVE  {<<o[1][2], o[2][2]>> : o \in Offered(ListView(db), links, f)}
         = SourceOffers(f, ReadSources)
<1> DEFINE tl == ListView(db)
           td == DeclView(db)
           offered == Offered(tl, links, f)
           read == ReadSources
<1>1. IsTables(db) /\ links = AllLinks(tl, td)
  BY DEF IInv, OInv, LinksIn
<1>2. Mirrored(read)
  BY MirroredRows
<1>3. /\ DOMAIN tl = DOMAIN db.list
      /\ \A k \in DOMAIN tl : tl[k].scope = k[1] /\ tl[k].class = db.list[k].class
      /\ DOMAIN td = DOMAIN db.decl
      /\ \A k \in DOMAIN td : td[k].class = k[1]
  BY DEF ListView, DeclView
<1>4. read \in SUBSET Sources /\ SeqFiles \subseteq read
  BY DEF ReadSources, Sources
<1> HIDE DEF tl, td, read
<1>5. \A p : p \in offered <=>
        /\ p \in (DOMAIN tl) \X (DOMAIN td)
        /\ tl[p[1]].class = td[p[2]].class
        /\ tl[p[1]].scope \in VisibleFiles(tl, f)
  BY <1>1, OfferedVisible
<1> HIDE DEF offered
<1>6. \A r \in DOMAIN db.list : r[1] \in VisibleFiles(tl, f) <=> r[1] \in VisibleSources(f, read)
  BY <1>1, <1>2, <1>4, VisibleIs DEF tl
<1>7. \A k \in DOMAIN db.list : /\ k = <<k[1], k[2]>> /\ k[1] \in Sources
                                /\ db.list[k].class \in Sources \cup BasicTypes
  BY <1>1 DEF IsTables, ObjectRow
<1>8. ASSUME NEW o \in offered
      PROVE  <<o[1][2], o[2][2]>> \in SourceOffers(f, read)
  <2> DEFINE r == o[1]
             d == o[2]
             c == db.list[r].class
  <2>1. /\ r \in DOMAIN db.list /\ d \in DOMAIN db.decl /\ d[1] = c
        /\ r[1] \in VisibleFiles(tl, f)
    BY <1>3, <1>5
  <2>2. r = <<r[1], r[2]>> /\ d = <<d[1], d[2]>> /\ r[1] \in Sources
        /\ c \in Sources \cup BasicTypes
    BY <1>1, <1>7, <2>1 DEF IsTables
  <2>3. r[1] \in VisibleSources(f, read)
    BY <1>6, <2>1
  <2> DEFINE m == <<r[2], c>>
  <2>4. m[1] = r[2] /\ m[2] = c
    OBVIOUS
  <2> HIDE DEF r, d, c
  <2>5. m \in SaidBy(r[1])
    <3>1. <<r[1], r[2]>> \in DOMAIN db.list /\ db.list[<<r[1], r[2]>>].class = c
      BY <2>1, <2>2 DEF c
    <3> QED
      BY <1>2, <2>2, <3>1, MirroredList
  <2>6. PICK q \in FunctionsOf(m[2], read) : q[1] = d[2]
    <3>1. <<c, d[2]>> \in DOMAIN db.decl
      BY <2>1, <2>2
    <3>2. \E q \in FunctionsOf(c, read) : q[1] = d[2]
      BY <1>2, <2>2, <3>1, MirroredDecl
    <3> QED
      BY <2>4, <3>2
  <2>7. <<m[1], q[1]>> \in SourceOffers(f, read)
    <3> HIDE DEF m
    <3> QED
      BY <2>3, <2>5, SourceElement, Zenon
  <2> QED
    BY <2>4, <2>6, <2>7 DEF r, d
<1>9. ASSUME NEW e \in SourceOffers(f, read)
      PROVE  \E o \in offered : e = <<o[1][2], o[2][2]>>
  <2>1. PICK s \in VisibleSources(f, read) : \E m \in SaidBy(s) :
               \E q \in FunctionsOf(m[2], read) : e = <<m[1], q[1]>>
    BY SourceElement
  <2>2. PICK m \in SaidBy(s) : \E q \in FunctionsOf(m[2], read) : e = <<m[1], q[1]>>
    BY <2>1
  <2>3. PICK q \in FunctionsOf(m[2], read) : e = <<m[1], q[1]>>
    BY <2>2
  <2> DEFINE n == q[1]
             r == <<s, m[1]>>
             d == <<m[2], n>>
             o == <<r, d>>
  <2>4. r[1] = s /\ r[2] = m[1] /\ d[1] = m[2] /\ d[2] = n /\ o[1] = r /\ o[2] = d
    OBVIOUS
  <2>5. s \in read /\ s \in Sources
    BY <1>4 DEF VisibleSources
  <2>6. r \in DOMAIN db.list /\ db.list[r].class = m[2]
    <3>1. <<m[1], m[2]>> \in SaidBy(s)
      BY SaidPair
    <3> QED
      BY <1>2, <2>5, <3>1, MirroredList
  <2>7. d \in DOMAIN db.decl
    <3>1. m[2] \in Sources \cup BasicTypes
      BY <1>7, <2>6
    <3> QED
      BY <1>2, <2>3, <3>1, MirroredDecl
  <2>8. o \in (DOMAIN tl) \X (DOMAIN td)
    BY <1>3, <2>6, <2>7
  <2> HIDE DEF r, d, o, n
  <2>9. r[1] \in VisibleFiles(tl, f)
    BY <1>6, <2>4, <2>6
  <2>10. o \in offered
    BY <1>3, <1>5, <2>4, <2>6, <2>7, <2>8, <2>9
  <2> QED
    BY <2>3, <2>4, <2>10 DEF n
<1> QED
  BY <1>8, <1>9 DEF offered, tl, read

LEMMA OffersMatchNow == IInv /\ OInv => OffersMatchSources
<1> SUFFICES ASSUME IInv, OInv, pc = "Idle", job = "Rebuild", fresh, before = NoRows
             PROVE  \E R \in SUBSET Classes :
                      /\ MentionedClasses \subseteq R
                      /\ \A f \in SeqFiles :
                            {<<o[1][2], o[2][2]>> : o \in Offered(ListView(db), links, f)}
                            = SourceOffers(f, SeqFiles \cup R)
  BY DEF OffersMatchSources, Ran
<1> DEFINE R == {c \in Classes : Whole(db, c, files[c])}
<1>1. SeqFiles \cup R = ReadSources /\ R \in SUBSET Classes
  BY DEF ReadSources
<1>2. MentionedClasses \subseteq R
  BY DEF OInv, ClassesRead, ReadSoFar, Current, MentionedClasses
<1>3. \A f \in SeqFiles : {<<o[1][2], o[2][2]>> : o \in Offered(ListView(db), links, f)}
                          = SourceOffers(f, ReadSources)
  BY OffersNow
<1> HIDE DEF R
<1> QED
  BY <1>1, <1>2, <1>3, Zenon

-----------------------------------------------------------------------------
(* Reading a source leaves the basic types alone.                          *)
LEMMA ReadKeepsTypes ==
  ASSUME NEW t, NEW u, NEW c \in Sources,
         \A s : s # c => SameRows(t.decl, u.decl, s),
         BasicRows(t), AllTypes(t)
  PROVE  BasicRows(u) /\ AllTypes(u)
<1>1. ASSUME NEW type \in BasicTypes PROVE SameRows(t.decl, u.decl, type)
  BY SourcesAssumption
<1>2. ASSUME NEW k \in DOMAIN u.decl, k[1] \in BasicTypes
      PROVE  k[2] = Empty /\ u.decl[k].state = 1
  <2>1. k \in DOMAIN t.decl /\ u.decl[k] = t.decl[k]
    BY <1>1, <1>2 DEF SameRows
  <2> QED
    BY <1>2, <2>1 DEF BasicRows
<1>3. ASSUME NEW type \in BasicTypes PROVE <<type, Empty>> \in DOMAIN u.decl
  <2> DEFINE key == <<type, Empty>>
  <2>1. key \in DOMAIN t.decl /\ key[1] = type
    BY DEF AllTypes
  <2> HIDE DEF key
  <2> QED
    BY <1>1, <2>1 DEF SameRows, key
<1> QED
  BY <1>2, <1>3 DEF BasicRows, AllTypes

LEMMA InitOInv == Init => OInv
BY DEF Init, EmptyTables, NoRows, OInv, BasicRows, ClassesRead, Current, LinksIn

LEMMA PrepareOInv ==
  ASSUME IInv, OInv, NEW kind, Prepare(kind)
  PROVE  OInv'
<1> DEFINE u == db'
           l == Unmarked(db.list)
           d == Unmarked(db.decl)
           basic == [params |-> Empty, type |-> "type", state |-> 1]
<1>1. /\ u.list = l
      /\ u.decl = [k \in DOMAIN d \cup (BasicTypes \X {Empty}) |->
                     IF k[1] \in BasicTypes THEN basic ELSE d[k]]
  BY DEF Prepare, AddBasicTypes, Empty
<1>2. DOMAIN d = DOMAIN db.decl
  BY UnmarkedIs
<1>3. basic.state = 1
  OBVIOUS
<1>4. u = AddBasicTypes([list |-> Unmarked(db.list), decl |-> Unmarked(db.decl)])
  BY DEF Prepare
<1> HIDE DEF l, d, basic, u
<1>5. BasicRows(u) /\ AllTypes(u)
  BY <1>1, <1>2, <1>3 DEF OInv, BasicRows, AllTypes
<1>6. /\ \A s \in Sources : Unconfirmed(u, s)
      /\ \A k \in DOMAIN u.decl : k[1] \in Sources => k \in DOMAIN db.decl
  BY <1>4, PreparedTables DEF IInv
<1>7. pc' = "Scan" /\ before' = db.decl
  BY DEF Prepare
<1>8. ASSUME before' = NoRows, NEW c \in Classes PROVE Untouched(u, c)
  <2>1. DOMAIN db.decl = {}
    BY <1>7, <1>8 DEF NoRows
  <2>2. c \in Sources
    BY DEF Sources
  <2> QED
    BY <1>6, <2>1, <2>2 DEF Untouched, Bare, Unconfirmed
<1>9. ClassesRead'
  BY <1>7, <1>8 DEF ClassesRead, ReadSoFar, u
<1> QED
  BY <1>5, <1>7, <1>9 DEF OInv, LinksIn, u

LEMMA ScanFileOInv == IInv /\ OInv /\ ScanFile => OInv'
<1> SUFFICES ASSUME IInv, OInv, ScanFile PROVE OInv'
  OBVIOUS
<1>1. PICK f \in toScan : db' = AnalyseFile(db, FALSE, f)
  BY DEF ScanFile
<1>2. UNCHANGED <<files, pc, job, before, fresh>> /\ pc = "Scan"
  BY DEF ScanFile
<1>3. f \in SeqFiles /\ f \in Sources /\ files[f] # Absent
  BY DEF IInv, Jobs, Sources
<1>4. files[f] \in Seq(Lines)
  BY <1>3, TextsAre DEF IInv
<1>5. Unconfirmed(db, f) /\ IsTables(db)
  BY <1>2, <1>3 DEF IInv, SequencesIn, SeqIn, Current
<1> DEFINE u == db'
<1>6. u = AnalyseFile(db, FALSE, f)
  BY <1>1
<1> HIDE DEF u
<1>7. \A s : s # f => SameRows(db.list, u.list, s) /\ SameRows(db.decl, u.decl, s)
  BY <1>3, <1>4, <1>5, <1>6, ScanWrites
<1>8. BasicRows(u) /\ AllTypes(u)
  BY <1>2, <1>3, <1>7, ReadKeepsTypes DEF OInv
<1>9. ASSUME job = "Rebuild", before = NoRows, NEW c \in Classes PROVE Untouched(u, c)
  <2>1. Untouched(db, c)
    BY <1>2, <1>9 DEF OInv, ClassesRead, ReadSoFar, Current
  <2>2. SameRows(db.list, u.list, c) /\ SameRows(db.decl, u.decl, c)
    BY <1>3, <1>7, SourcesAssumption
  <2> QED
    BY <2>1, <2>2, SameRead
<1>10. ClassesRead'
  BY <1>2, <1>9 DEF ClassesRead, ReadSoFar, u
<1> QED
  BY <1>2, <1>8, <1>10 DEF OInv, LinksIn, u

LEMMA ScanDoneOInv == IInv /\ OInv /\ ScanDone => OInv'
<1> SUFFICES ASSUME IInv, OInv, ScanDone PROVE OInv'
  OBVIOUS
<1>1. /\ UNCHANGED <<files, db, job, before, fresh>>
      /\ pc = "Scan" /\ toScan = {}
      /\ job = "Rebuild" => pc' = "Resolve" /\ cursor' = Undeclared(db)
      /\ pc' \in {"Resolve", "Cleanup"}
  BY DEF ScanDone
<1>2. ASSUME job = "Rebuild", before = NoRows, NEW c \in Classes
      PROVE  /\ Untouched(db, c)
             /\ c \in MentionedClasses => c \in cursor'
  <2>1. Untouched(db, c)
    BY <1>1, <1>2 DEF OInv, ClassesRead, ReadSoFar, Current
  <2>2. ASSUME c \in MentionedClasses PROVE c \in cursor'
    BY <1>1, <1>2, <2>1, <2>2, MentionedFound DEF Untouched
  <2> QED
    BY <2>1, <2>2
<1>3. MentionedClasses' = MentionedClasses
  BY <1>1 DEF MentionedClasses, Mentions, Names
<1>4. ClassesRead'
  BY <1>1, <1>2, <1>3 DEF ClassesRead, ReadSoFar
<1> QED
  BY <1>1, <1>4 DEF OInv, LinksIn

LEMMA ResolveClassOInv == IInv /\ OInv /\ ResolveClass => OInv'
<1> SUFFICES ASSUME IInv, OInv, ResolveClass PROVE OInv'
  OBVIOUS
<1>1. UNCHANGED <<files, pc, job, before, fresh>> /\ pc = "Resolve"
  BY DEF ResolveClass
<1> DEFINE u == db'
<1>2. PICK c \in cursor :
        /\ u = IF c \in Sources THEN AnalyseFile(db, TRUE, c) ELSE db
        /\ cursor \ {c} \subseteq cursor'
  BY DEF ResolveClass
<1>3. IsTables(db)
  BY DEF IInv
<1>4. c \in Sources => files[c] = Absent \/ files[c] \in Seq(Lines)
  BY TextsAre DEF IInv
<1>5. c \in SeqFiles /\ files[c] # Absent =>
        \A m \in 1 .. Len(files[c]) : files[c][m].kind # "function"
  BY <1>1 DEF IInv, Jobs
<1> HIDE DEF u
<1>6. WasRead(db, u, c, files[c])
  BY <1>2, <1>3, <1>4, <1>5, ReadWrites, Zenon
<1>7. BasicRows(u) /\ AllTypes(u)
  <2>1. BasicRows(db) /\ AllTypes(db)
    BY <1>1 DEF OInv
  <2>2. CASE c \in Sources
    BY <1>6, <2>1, <2>2, ReadKeepsTypes DEF WasRead
  <2>3. CASE c \notin Sources
    BY <1>6, <2>1, <2>3 DEF WasRead
  <2> QED
    BY <2>2, <2>3
<1>8. ASSUME job = "Rebuild", before = NoRows, NEW s \in Classes
      PROVE  /\ Untouched(u, s) \/ Whole(u, s, files[s])
             /\ s \in MentionedClasses => s \in cursor' \/ Whole(u, s, files[s])
  <2>1. /\ Untouched(db, s) \/ Whole(db, s, files[s])
        /\ s \in MentionedClasses => s \in cursor \/ Whole(db, s, files[s])
    BY <1>1, <1>8 DEF OInv, ClassesRead, ReadSoFar, Current
  <2>2. CASE s # c
    <3>1. SameRows(db.list, u.list, s) /\ SameRows(db.decl, u.decl, s)
      BY <1>6, <2>2 DEF WasRead
    <3>2. /\ Untouched(db, s) => Untouched(u, s)
          /\ Whole(db, s, files[s]) => Whole(u, s, files[s])
      BY <3>1, SameRead
    <3> QED
      BY <1>2, <2>1, <2>2, <3>2
  <2>3. CASE s = c /\ files[c] = Absent
    <3>1. u = db
      BY <1>6, <2>3 DEF WasRead
    <3>2. Untouched(db, s) => Whole(db, s, files[s])
      BY <2>3 DEF Untouched, Whole, ClassIn, ObjectsIn
    <3> QED
      BY <2>1, <3>1, <3>2
  <2>4. CASE s = c /\ files[c] # Absent
    <3>1. c \in Sources
      BY <2>4 DEF Sources
    <3>2. /\ Wrote(db.list, u.list, c, "object", "class", files[c], Len(files[c]))
          /\ Wrote(db.decl, u.decl, c, "function", "class", files[c], Len(files[c]))
      BY <1>6, <2>4, <3>1 DEF WasRead
    <3> QED
      BY <2>1, <2>4, <3>2, ReadWhole
  <2> QED
    BY <2>2, <2>3, <2>4
<1>9. MentionedClasses' = MentionedClasses
  BY <1>1 DEF MentionedClasses, Mentions, Names
<1>10. ClassesRead'
  BY <1>1, <1>8, <1>9 DEF ClassesRead, ReadSoFar, u
<1> QED
  BY <1>1, <1>7, <1>10 DEF OInv, LinksIn, u

LEMMA DeleteDeadOInv == IInv /\ OInv /\ DeleteDead => OInv'
<1> SUFFICES ASSUME IInv, OInv, DeleteDead PROVE OInv'
  OBVIOUS
<1>1. UNCHANGED <<files, job, before, fresh, cursor>> /\ cursor = {} /\ pc = "Resolve" /\ pc' = "Cleanup"
  BY DEF DeleteDead
<1> DEFINE u == db'
<1>2. u = [list |-> Live(db.list), decl |-> Live(db.decl)]
  BY DEF DeleteDead
<1>3. u.list = Live(db.list) /\ u.decl = Live(db.decl)
  BY <1>2
<1> HIDE DEF u
<1>4. /\ DOMAIN u.decl \subseteq DOMAIN db.decl
      /\ \A k \in DOMAIN u.decl : u.decl[k] = db.decl[k]
      /\ \A k \in DOMAIN db.decl : db.decl[k].state # 0 => k \in DOMAIN u.decl
  BY <1>3 DEF Live
<1>5. BasicRows(u)
  BY <1>4 DEF OInv, BasicRows
<1>6. AllTypes(u)
  <2> SUFFICES ASSUME NEW type \in BasicTypes PROVE <<type, Empty>> \in DOMAIN u.decl
    BY DEF AllTypes
  <2> DEFINE key == <<type, Empty>>
  <2>1. key \in DOMAIN db.decl /\ key[1] = type
    BY <1>1 DEF OInv, AllTypes
  <2> HIDE DEF key
  <2>2. db.decl[key].state = 1
    BY <2>1 DEF OInv, BasicRows
  <2> QED
    BY <1>4, <2>1, <2>2 DEF key
<1>7. ASSUME job = "Rebuild", before = NoRows, NEW c \in Classes
      PROVE  /\ Untouched(u, c) \/ Whole(u, c, files[c])
             /\ c \in MentionedClasses => Whole(u, c, files[c])
  <2>1. /\ Untouched(db, c) \/ Whole(db, c, files[c])
        /\ c \in MentionedClasses => Whole(db, c, files[c])
    BY <1>1, <1>7 DEF OInv, ClassesRead, ReadSoFar, Current
  <2>2. IsTables(db)
    BY DEF IInv
  <2> QED
    BY <1>2, <2>1, <2>2, LiveRead
<1>8. MentionedClasses' = MentionedClasses
  BY <1>1 DEF MentionedClasses, Mentions, Names
<1>9. ClassesRead'
  BY <1>1, <1>7, <1>8 DEF ClassesRead, ReadSoFar, u
<1> QED
  BY <1>1, <1>5, <1>6, <1>9 DEF OInv, LinksIn, u

LEMMA CleanupOInv == IInv /\ OInv /\ CleanupDeadLinks => OInv'
<1> SUFFICES ASSUME IInv, OInv, CleanupDeadLinks PROVE OInv'
  OBVIOUS
<1>1. /\ UNCHANGED <<files, db, job, cursor, before, fresh>>
      /\ pc = "Cleanup" /\ pc' = "Idle" /\ links' = AllLinks(ListView(db), DeclView(db))
  BY DEF CleanupDeadLinks
<1>2. MentionedClasses' = MentionedClasses
  BY <1>1 DEF MentionedClasses, Mentions, Names
<1>3. ClassesRead'
  BY <1>1, <1>2 DEF OInv, ClassesRead, ReadSoFar, Current
<1>4. LinksIn'
  BY <1>1 DEF LinksIn
<1> QED
  BY <1>1, <1>3, <1>4 DEF OInv

LEMMA NextOInv == IInv /\ OInv /\ [Next]_vars => OInv'
<1> SUFFICES ASSUME IInv, OInv, [Next]_vars PROVE OInv'
  OBVIOUS
<1>1. CASE Edit
  <2>1. UNCHANGED <<db, links, pc, job>> /\ pc = "Idle" /\ fresh' = FALSE
    BY <1>1 DEF Edit
  <2> QED
    BY <2>1 DEF OInv, LinksIn, ClassesRead, Current
<1>2. CASE Load
  BY <1>2 DEF Load, EmptyTables, NoRows, OInv, BasicRows, ClassesRead, Current, LinksIn
<1>3. CASE \E kind \in {"Rebuild", "Update"} : Prepare(kind)
  BY <1>3, PrepareOInv
<1>4. CASE ScanFile
  BY <1>4, ScanFileOInv
<1>5. CASE ScanDone
  BY <1>5, ScanDoneOInv
<1>6. CASE ResolveClass
  BY <1>6, ResolveClassOInv
<1>7. CASE DeleteDead
  BY <1>7, DeleteDeadOInv
<1>8. CASE CleanupDeadLinks
  BY <1>8, CleanupOInv
<1>9. CASE UNCHANGED vars
  <2>1. UNCHANGED <<files, db, links, pc, job, cursor, before, fresh>>
    BY <1>9 DEF vars
  <2>2. MentionedClasses' = MentionedClasses
    BY <2>1 DEF MentionedClasses, Mentions, Names
  <2>3. ClassesRead'
    BY <2>1, <2>2 DEF OInv, ClassesRead, ReadSoFar, Current
  <2> QED
    BY <2>1, <2>3 DEF OInv, LinksIn
<1> QED
  BY <1>1, <1>2, <1>3, <1>4, <1>5, <1>6, <1>7, <1>8, <1>9 DEF Next, Step

-----------------------------------------------------------------------------
(* Whatever the sources are and whenever they change: every row is about a *)
(* source, and its type is that of the source, so the queries offer the    *)
(* object's name for classes and the function's for sequences.             *)
THEOREM TypeCorrect == Spec => []TypeOK
<1>1. IInv => TypeOK
  BY DEF IInv
<1> QED
  BY <1>1, Inductive, PTL

(* After a Rebuild (Model::Rebuild, RebuildObjList) the tables hold of     *)
(* every sequence file, for each name, what the last line about it says,   *)
(* and nothing else, for any texts, any order of the directory and any     *)
(* earlier jobs.  Of several declarations of one function that differ in   *)
(* their parameters only the last is there, unlike in Readme.md.           *)
THEOREM SequencesAlwaysMirrored == Spec => []SequencesMirrored
BY Inductive, MirroredNow, PTL

(* However the open cursor of RebuildClassDefinition treats rows inserted  *)
(* under it, a Rebuild declares every class that is mentioned and had no   *)
(* declaration.                                                            *)
THEOREM UndeclaredAlwaysResolved == Spec => []UndeclaredResolved
BY Inductive, ResolvedNow, PTL

(* An Update loses no function of a class, which it does not read.         *)
THEOREM UpdateAlwaysKeepsClasses == Spec => []UpdateKeepsClasses
<1>1. IInv => UpdateKeepsClasses
  BY DEF IInv, Kept, UpdateKeepsClasses, Ran
<1> QED
  BY <1>1, Inductive, PTL

(* After the first Rebuild that follows a load, GetObject and its fellows  *)
(* offer in a sequence file exactly the functions of the objects that the  *)
(* sources make visible there - those mentioned in the file, in the files  *)
(* it includes and in the descriptions of the classes of visible objects   *)
(* that have been read - for all sources.                                  *)
THEOREM OffersAlwaysMatchSources == Spec => []OffersMatchSources
<1>1. Init => IInv /\ OInv
  BY InitIInv, InitOInv
<1>2. IInv /\ OInv /\ [Next]_vars => IInv' /\ OInv'
  BY NextKeeps, NextOInv
<1>3. IInv /\ OInv => OffersMatchSources
  BY OffersMatchNow
<1> QED
  BY <1>1, <1>2, <1>3, PTL DEF Spec
=============================================================================
