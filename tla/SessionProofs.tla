--------------------------- MODULE SessionProofs ---------------------------
(***************************************************************************)
(* What holds of the connections and the file for any number of instances, *)
(* loads, jobs and faults.                                                 *)
(***************************************************************************)
EXTENDS Session, TLAPS

Ops == {"drop", "create", "index", "mark", "begin", "scan", "classes", "read", "delete",
        "clear", "plain", "include", "sub", "commit"}
Statements == [op : Ops, table : Tables, failing : {"returns", "continues", "either"}]

InJob(p) == job[p] # "Load" /\ Running(p)

(* The statements after the one p is at.                                   *)
Left(p) == Len(Program(job[p])) - pc[p]

(* No two connections write, and a lock is held in a transaction only.     *)
Locks ==
  /\ \A c \in Conns : ~tx[c] => lock[c] = "none"
  /\ \A c, d \in Conns : Writing(c) /\ Writing(d) => c = d

(* How far CleanupDeadLinks has come in a transaction.                     *)
Linked(p, t) ==
  /\ Left(p) <= 4 => Writing(Conn(p)) /\ "temp" \in t.has
  /\ Left(p) <= 2 => {"list", "decl", "links"} \subseteq t.has
  /\ Left(p) = 0 => t.from = <<t.list, t.decl>>

(* A connection yet to be opened is in no transaction, and a load stays    *)
(* out of one.                                                             *)
InOrder(p) ==
  /\ db[p] <= opened[p]
  /\ \A n \in 1 .. MaxLoads : n > opened[p] => ~tx[<<p, n>>]
  /\ Running(p) => result[p] = "none"
  /\ Running(p) /\ job[p] = "Load" => db[p] # 0 /\ ~tx[Conn(p)]
  /\ InJob(p) => id[p] \in 1 .. MaxJobs
  /\ InJob(p) /\ db[p] # 0 /\ tx[Conn(p)] => Linked(p, buf[Conn(p)])

IInv ==
  /\ TypeOK
  /\ pc = [p \in Procs |-> pc[p]]
  /\ Locks
  /\ \A p \in Procs : InOrder(p)

-----------------------------------------------------------------------------
(* The programs, statement by statement.                                   *)
LEMMA LoadProgram ==
  /\ Len(Program("Load")) = 9
  /\ \A k \in 1 .. 9 :
       /\ Program("Load")[k] \in Statements
       /\ Program("Load")[k].op \in {"drop", "create", "index"}
       /\ Program("Load")[k].op = "index" => Program("Load")[k].table = "temp"
BY DEF Program, InitDatabase, May, Must, Statements, Ops, Tables

(* The statement at place k of a job, with left more to come.              *)
Placed(s, k, left) ==
  /\ k <= 3 => left > 5
  /\ k \in {1, 2} => s.op = "mark" /\ s.failing = "returns"
  /\ k = 3 => s.op = "begin" /\ s.failing = "returns"
  /\ k > 3 /\ left > 5 => s.op \in {"scan", "classes", "read", "delete"} /\ s.table \in {"list", "decl"}
  /\ left = 5 => s = Must("clear", "temp")
  /\ left = 4 => s = Must("clear", "links")
  /\ left = 3 => s = Must("plain", "links")
  /\ left = 2 => s = Must("include", "temp")
  /\ left = 1 => s = Must("sub", "links")
  /\ left = 0 => s = Must("commit", "list")

LEMMA ClassesPlaced ==
  ASSUME NEW s, NEW k \in Nat, k >= 1, NEW left \in Nat, Placed(s, k, left), s.op = "classes"
  PROVE  k > 3 /\ left > 5 /\ s.table \in {"list", "decl"}
<1>1. k > 3
  <2>1. k \notin {1, 2, 3}
    BY DEF Placed
  <2> QED
    BY <2>1
<1>2. left > 5
  <2>1. left \notin {0, 1, 2, 3, 4, 5}
    BY DEF Placed, Must
  <2> QED
    BY <2>1
<1> QED
  BY <1>1, <1>2 DEF Placed

Joined(b, m, u) ==
  /\ u \in Seq(Statements)
  /\ Len(u) = Len(b) + Len(m)
  /\ \A k \in 1 .. Len(b) : u[k] = b[k]
  /\ \A k \in 1 .. Len(m) : u[Len(b) + k] = m[k]

LEMMA Concat ==
  ASSUME NEW b \in Seq(Statements), NEW m \in Seq(Statements)
  PROVE  Joined(b, m, b \o m)
BY DEF Joined

(* What a job does before CleanupDeadLinks.                                *)
Reads(b) ==
  /\ b \in Seq(Statements)
  /\ Len(b) >= 3
  /\ \A k \in {1, 2} : b[k].op = "mark" /\ b[k].failing = "returns"
  /\ b[3].op = "begin" /\ b[3].failing = "returns"
  /\ \A k \in 4 .. Len(b) :
       b[k].op \in {"scan", "classes", "read", "delete"} /\ b[k].table \in {"list", "decl"}

LEMMA ReadsMore ==
  ASSUME NEW b, Reads(b), NEW m \in Seq(Statements),
         \A k \in 1 .. Len(m) :
           m[k].op \in {"scan", "classes", "read", "delete"} /\ m[k].table \in {"list", "decl"}
  PROVE  Reads(b \o m)
<1> DEFINE u == b \o m
<1>1. /\ u \in Seq(Statements) /\ Len(u) = Len(b) + Len(m)
      /\ \A k \in 1 .. Len(b) : u[k] = b[k]
      /\ \A k \in 1 .. Len(m) : u[Len(b) + k] = m[k]
  BY Concat DEF Reads, Joined
<1>2. Len(b) \in Nat /\ Len(m) \in Nat /\ Len(b) >= 3
  BY DEF Reads
<1> HIDE DEF u
<1>3. ASSUME NEW k \in 4 .. Len(u)
      PROVE  u[k].op \in {"scan", "classes", "read", "delete"} /\ u[k].table \in {"list", "decl"}
  <2>1. CASE k <= Len(b)
    <3>1. u[k] = b[k] /\ k \in 4 .. Len(b)
      BY <1>1, <1>2, <2>1
    <3> QED
      BY <3>1 DEF Reads
  <2>2. CASE k > Len(b)
    <3>1. k - Len(b) \in 1 .. Len(m) /\ Len(b) + (k - Len(b)) = k
      BY <1>1, <1>2, <2>2
    <3> QED
      BY <1>1, <3>1
  <2> QED
    BY <1>2, <2>1, <2>2
<1>4. Reads(u)
  <2>1. u[1] = b[1] /\ u[2] = b[2] /\ u[3] = b[3]
    BY <1>1, <1>2
  <2>2. b[1].op = "mark" /\ b[1].failing = "returns" /\ b[2].op = "mark" /\ b[2].failing = "returns"
        /\ b[3].op = "begin" /\ b[3].failing = "returns"
    BY DEF Reads
  <2>3. Len(u) >= 3
    BY <1>1, <1>2
  <2> QED
    BY <1>1, <1>3, <2>1, <2>2, <2>3 DEF Reads
<1> QED
  BY <1>4 DEF u

LEMMA CleanupIs ==
  /\ CleanupDeadLinks \in Seq(Statements) /\ Len(CleanupDeadLinks) = 6
  /\ CleanupDeadLinks[1] = Must("clear", "temp")
  /\ CleanupDeadLinks[2] = Must("clear", "links")
  /\ CleanupDeadLinks[3] = Must("plain", "links")
  /\ CleanupDeadLinks[4] = Must("include", "temp")
  /\ CleanupDeadLinks[5] = Must("sub", "links")
  /\ CleanupDeadLinks[6] = Must("commit", "list")
<1> DEFINE steps == {Must("clear", "temp"), Must("clear", "links"), Must("plain", "links"),
                     Must("include", "temp"), Must("sub", "links"), Must("commit", "list")}
<1>1. steps \subseteq Statements
  BY DEF Must, Statements, Ops, Tables
<1>2. CleanupDeadLinks \in Seq(steps)
  BY DEF CleanupDeadLinks
<1>3. CleanupDeadLinks \in Seq(Statements)
  <2> HIDE DEF steps
  <2> QED
    BY <1>1, <1>2
<1> QED
  BY <1>3 DEF CleanupDeadLinks

LEMMA ReadsThenCleanup ==
  ASSUME NEW b, Reads(b), NEW n, n = Len(b) + 6,
         NEW s, s = b \o CleanupDeadLinks
  PROVE  /\ Len(s) = n
         /\ \A k \in 1 .. n : s[k] \in Statements /\ Placed(s[k], k, n - k)
<1>1. /\ Len(s) = n /\ s \in Seq(Statements)
      /\ \A k \in 1 .. Len(b) : s[k] = b[k]
      /\ \A k \in 1 .. 6 : s[Len(b) + k] = CleanupDeadLinks[k]
  <2> DEFINE m == CleanupDeadLinks
  <2>1. m \in Seq(Statements) /\ Len(m) = 6 /\ b \in Seq(Statements)
    BY CleanupIs DEF Reads
  <2> HIDE DEF m
  <2>2. Joined(b, m, b \o m)
    BY <2>1, Concat, Zenon
  <2>3. Joined(b, m, s)
    BY <2>2 DEF m
  <2> QED
    BY <2>1, <2>3 DEF Joined, m
<1>2. Len(b) \in Nat /\ Len(b) >= 3
  BY DEF Reads
<1>3. \A k \in 1 .. n : s[k] \in Statements
  <2> TAKE k \in 1 .. n
  <2>1. s \in Seq(Statements) /\ k \in 1 .. Len(s)
    BY <1>1
  <2> QED
    BY <2>1
<1>4. ASSUME NEW k \in 1 .. n PROVE Placed(s[k], k, n - k)
  <2>1. CASE k <= Len(b)
    <3>1. s[k] = b[k] /\ n - k > 5
      BY <1>1, <1>2, <2>1
    <3>2. /\ k \in {1, 2} => b[k].op = "mark" /\ b[k].failing = "returns"
          /\ k = 3 => b[k].op = "begin" /\ b[k].failing = "returns"
          /\ k > 3 => b[k].op \in {"scan", "classes", "read", "delete"} /\ b[k].table \in {"list", "decl"}
      BY <1>2, <2>1 DEF Reads
    <3>3. n - k \in Int
      BY <1>2
    <3> QED
      BY <3>1, <3>2, <3>3 DEF Placed
  <2>2. CASE ~(k <= Len(b))
    <3> DEFINE i == k - Len(b)
    <3>1. i \in 1 .. 6 /\ k = Len(b) + i /\ n - k = 6 - i /\ k > 3
      BY <1>2, <2>2
    <3>2. s[k] = CleanupDeadLinks[i]
      BY <1>1, <3>1
    <3> HIDE DEF i
    <3> QED
      BY <3>1, <3>2, CleanupIs DEF Placed
  <2> QED
    BY <2>1, <2>2, Zenon
<1> QED
  BY <1>1, <1>3, <1>4

LEMMA UpdateProgram ==
  /\ Len(Program("Update")) = 11
  /\ \A k \in 1 .. 11 :
       /\ Program("Update")[k] \in Statements
       /\ Placed(Program("Update")[k], k, 11 - k)
<1>1. Reads(PrepareForUpdate)
  BY DEF PrepareForUpdate, Reads, Must, Statements, Ops, Tables
<1>2. /\ RebuildObjList \in Seq(Statements)
      /\ \A k \in 1 .. Len(RebuildObjList) :
           /\ RebuildObjList[k].op \in {"scan", "classes", "read", "delete"}
           /\ RebuildObjList[k].table \in {"list", "decl"}
  BY DEF RebuildObjList, May, Statements, Ops, Tables
<1> DEFINE b == PrepareForUpdate \o RebuildObjList
<1>3. Reads(b)
  BY <1>1, <1>2, ReadsMore
<1>4. Len(b) = 5
  BY DEF PrepareForUpdate, RebuildObjList
<1>5. Program("Update") = b \o CleanupDeadLinks
  BY DEF Program
<1> HIDE DEF b
<1>6. 11 = Len(b) + 6
  BY <1>4
<1> QED
  BY <1>3, <1>5, <1>6, ReadsThenCleanup

LEMMA RebuildProgram ==
  /\ Len(Program("Rebuild")) = 16
  /\ \A k \in 1 .. 16 :
       /\ Program("Rebuild")[k] \in Statements
       /\ Placed(Program("Rebuild")[k], k, 16 - k)
<1>1. Reads(PrepareForUpdate)
  BY DEF PrepareForUpdate, Reads, Must, Statements, Ops, Tables
<1>2. /\ RebuildObjList \in Seq(Statements)
      /\ \A k \in 1 .. Len(RebuildObjList) :
           /\ RebuildObjList[k].op \in {"scan", "classes", "read", "delete"}
           /\ RebuildObjList[k].table \in {"list", "decl"}
  BY DEF RebuildObjList, May, Statements, Ops, Tables
<1>3. /\ RebuildClassDefinition \in Seq(Statements)
      /\ \A k \in 1 .. Len(RebuildClassDefinition) :
           /\ RebuildClassDefinition[k].op \in {"scan", "classes", "read", "delete"}
           /\ RebuildClassDefinition[k].table \in {"list", "decl"}
  BY DEF RebuildClassDefinition, May, Must, MayOrMust, Statements, Ops, Tables
<1> DEFINE a == PrepareForUpdate \o RebuildObjList
           b == a \o RebuildClassDefinition
<1>4. Reads(a) /\ Len(a) = 5
  <2>1. Reads(a)
    BY <1>1, <1>2, ReadsMore
  <2> QED
    BY <2>1 DEF PrepareForUpdate, RebuildObjList
<1>5. Program("Rebuild") = b \o CleanupDeadLinks
  BY DEF Program
<1> HIDE DEF a
<1>6. Reads(b)
  BY <1>3, <1>4, ReadsMore
<1>7. Len(b) = 10
  <2>1. Len(RebuildClassDefinition) = 5
    BY DEF RebuildClassDefinition
  <2> QED
    <3> DEFINE m == RebuildClassDefinition
    <3>1. a \in Seq(Statements) /\ m \in Seq(Statements)
      BY <1>3, <1>4 DEF Reads
    <3> HIDE DEF m
    <3>2. Len(a \o m) = Len(a) + Len(m)
      BY <3>1, Concat DEF Joined
    <3> QED
      BY <1>4, <2>1, <3>2 DEF m
<1> HIDE DEF b
<1>8. 16 = Len(b) + 6
  BY <1>7
<1> QED
  BY <1>5, <1>6, <1>8, ReadsThenCleanup

(* Where a process is.                                                     *)
LEMMA StatementIs ==
  ASSUME TypeOK, NEW p \in Procs, Running(p)
  PROVE  /\ Statement(p) \in Statements
         /\ pc[p] \in Nat /\ pc[p] >= 1
         /\ Left(p) \in Nat
         /\ job[p] = "Load" => Statement(p).op \in {"drop", "create", "index"}
         /\ job[p] = "Load" /\ Statement(p).op = "index" => Statement(p).table = "temp"
         /\ InJob(p) => Placed(Statement(p), pc[p], Left(p))
<1>1. pc[p] \in 0 .. Len(Program(job[p])) /\ pc[p] > 0 /\ job[p] \in {"Load", "Rebuild", "Update"}
  BY DEF TypeOK, Running
<1>2. CASE job[p] = "Load"
  <2>1. Statement(p) = Program("Load")[pc[p]] /\ pc[p] \in 1 .. 9 /\ Left(p) = 9 - pc[p]
    <3>1. Program(job[p]) = Program("Load")
      BY <1>2
    <3>2. Len(Program("Load")) = 9
      BY LoadProgram
    <3>3. pc[p] \in 0 .. 9 /\ pc[p] > 0
      BY <1>1, <3>1, <3>2, Zenon
    <3>4. Statement(p) = Program("Load")[pc[p]] /\ Left(p) = 9 - pc[p]
      BY <3>1, <3>2, Zenon DEF Statement, Left
    <3> QED
      BY <3>3, <3>4
  <2> QED
    BY <1>2, <2>1, LoadProgram DEF InJob
<1>3. CASE job[p] = "Update"
  <2>1. Statement(p) = Program("Update")[pc[p]] /\ pc[p] \in 1 .. 11 /\ Left(p) = 11 - pc[p]
    <3>1. Program(job[p]) = Program("Update")
      BY <1>3
    <3>2. Len(Program("Update")) = 11
      BY UpdateProgram
    <3>3. pc[p] \in 0 .. 11 /\ pc[p] > 0
      BY <1>1, <3>1, <3>2, Zenon
    <3>4. Statement(p) = Program("Update")[pc[p]] /\ Left(p) = 11 - pc[p]
      BY <3>1, <3>2, Zenon DEF Statement, Left
    <3> QED
      BY <3>3, <3>4
  <2> QED
    BY <1>3, <2>1, UpdateProgram DEF InJob
<1>4. CASE job[p] = "Rebuild"
  <2>1. Statement(p) = Program("Rebuild")[pc[p]] /\ pc[p] \in 1 .. 16 /\ Left(p) = 16 - pc[p]
    <3>1. Program(job[p]) = Program("Rebuild")
      BY <1>4
    <3>2. Len(Program("Rebuild")) = 16
      BY RebuildProgram
    <3>3. pc[p] \in 0 .. 16 /\ pc[p] > 0
      BY <1>1, <3>1, <3>2, Zenon
    <3>4. Statement(p) = Program("Rebuild")[pc[p]] /\ Left(p) = 16 - pc[p]
      BY <3>1, <3>2, Zenon DEF Statement, Left
    <3> QED
      BY <3>3, <3>4
  <2> QED
    BY <1>4, <2>1, RebuildProgram DEF InJob
<1> QED
  BY <1>1, <1>2, <1>3, <1>4
-----------------------------------------------------------------------------
(* What a transaction has written so far are rows of its job.              *)
FromJob(t, file, job_id) ==
  /\ t.has = file.has
  /\ t.list \in {file.list, job_id, 0}
  /\ t.decl \in {file.decl, job_id, 0}

LEMMA EffectIs ==
  ASSUME NEW s \in Statements, s.op = "delete" => s.table \in {"list", "decl"},
         NEW t \in Content, NEW n \in Nat, NEW u, u = Effect(s, t, n)
  PROVE  /\ u \in Content
         /\ s.op \notin {"drop", "create", "index"} => FromJob(u, t, n)
         /\ s.op = "sub" => u.from = <<u.list, u.decl>>
         /\ s.op \in {"mark", "plain", "include"} => u = t
<1> USE DEF Content, FromJob
<1>1. CASE s.op = "drop"
  BY <1>1 DEF Effect, Upserts
<1>2. CASE s.op = "create"
  BY <1>2 DEF Effect, Upserts, Statements
<1>3. CASE s.op \in Upserts
  BY <1>3 DEF Effect, Upserts
<1>4. CASE s.op = "delete"
  <2>1. CASE s.table = "list"
    BY <1>4, <2>1 DEF Effect, Upserts
  <2>2. CASE s.table = "decl"
    BY <1>4, <2>2 DEF Effect, Upserts
  <2> QED
    BY <1>4, <2>1, <2>2
<1>5. CASE s.op = "clear"
  BY <1>5 DEF Effect, Upserts
<1>6. CASE s.op = "sub"
  BY <1>6 DEF Effect, Upserts
<1>7. CASE s.op \in {"mark", "plain", "include", "begin", "read", "commit"}
  BY <1>7 DEF Effect, Upserts
<1>8. CASE s.op = "index"
  BY <1>8 DEF Effect, Upserts
<1> QED
  BY <1>1, <1>2, <1>3, <1>4, <1>5, <1>6, <1>7, <1>8 DEF Statements, Ops, Upserts

LEMMA PerformIs ==
  ASSUME NEW c, NEW s, NEW n, Perform(c, s, n)
  PROVE  /\ s.op = "begin" =>
              tx' = [tx EXCEPT ![c] = TRUE] /\ UNCHANGED <<disk, buf, lock>>
         /\ s.op = "commit" =>
              /\ disk' = View(c)
              /\ buf' = [buf EXCEPT ![c] = NoFile]
              /\ lock' = [lock EXCEPT ![c] = "none"]
              /\ tx' = [tx EXCEPT ![c] = FALSE]
         /\ s.op = "read" =>
              /\ lock' = [lock EXCEPT ![c] =
                            IF lock[c] = "none" /\ tx[c] THEN "shared" ELSE lock[c]]
              /\ UNCHANGED <<disk, buf, tx>>
         /\ s.op \notin {"begin", "commit", "read"} /\ tx[c] =>
              /\ buf' = [buf EXCEPT ![c] = Effect(s, View(c), n)]
              /\ lock' = [lock EXCEPT ![c] =
                            IF lock[c] = "pending" THEN lock[c] ELSE "reserved"]
              /\ UNCHANGED <<disk, tx>>
         /\ s.op \notin {"begin", "commit", "read"} /\ ~tx[c] =>
              disk' = Effect(s, View(c), n) /\ UNCHANGED <<buf, lock, tx>>
<1>1. CASE s.op = "begin"
  BY <1>1 DEF Perform
<1>2. CASE s.op = "commit"
  BY <1>2 DEF Perform
<1>3. CASE s.op = "read"
  BY <1>3 DEF Perform
<1>4. CASE s.op \notin {"begin", "commit", "read"} /\ tx[c]
  BY <1>4 DEF Perform
<1>5. CASE s.op \notin {"begin", "commit", "read"} /\ ~tx[c]
  BY <1>5 DEF Perform, conns
<1> QED
  BY <1>1, <1>2, <1>3, <1>4, <1>5
-----------------------------------------------------------------------------
(* An action of one process leaves the others, and their connections, as   *)
(* they are.                                                               *)
OnlyBy(p) ==
  /\ \A q \in Procs \ {p} :
       /\ db'[q] = db[q] /\ opened'[q] = opened[q] /\ job'[q] = job[q]
       /\ pc'[q] = pc[q] /\ id'[q] = id[q] /\ result'[q] = result[q]
  /\ \A c \in Conns : c[1] # p => buf'[c] = buf[c] /\ lock'[c] = lock[c] /\ tx'[c] = tx[c]

LEMMA ConnIs ==
  ASSUME TypeOK, NEW p \in Procs
  PROVE  /\ db[p] # 0 => Conn(p) \in Conns
         /\ Conn(p)[1] = p
BY DEF TypeOK, Conn, Conns

LEMMA OthersInOrder ==
  ASSUME IInv, NEW p \in Procs, OnlyBy(p), NEW q \in Procs, q # p
  PROVE  InOrder(q)'
<1>1. /\ db'[q] = db[q] /\ opened'[q] = opened[q] /\ job'[q] = job[q]
      /\ pc'[q] = pc[q] /\ id'[q] = id[q] /\ result'[q] = result[q]
  BY DEF OnlyBy
<1>2. \A n \in 1 .. MaxLoads : tx'[<<q, n>>] = tx[<<q, n>>]
  BY DEF OnlyBy, Conns
<1>3. db[q] # 0 => /\ buf'[Conn(q)] = buf[Conn(q)]
                   /\ lock'[Conn(q)] = lock[Conn(q)]
                   /\ tx'[Conn(q)] = tx[Conn(q)]
  BY ConnIs DEF IInv, OnlyBy
<1>4. Conn(q)' = Conn(q) /\ (Left(q)' = Left(q)) /\ (Running(q)' <=> Running(q))
  BY <1>1 DEF Conn, Left, Running
<1>5. InOrder(q)
  BY DEF IInv
<1> QED
  BY <1>1, <1>2, <1>3, <1>4, <1>5 DEF InOrder, InJob, Linked, Writing

LEMMA KeepsOrder ==
  ASSUME IInv, NEW p \in Procs, OnlyBy(p), InOrder(p)', Locks', TypeOK',
         pc' = [q \in Procs |-> pc'[q]]
  PROVE  IInv'
<1>1. \A q \in Procs : InOrder(q)'
  BY OthersInOrder
<1> QED
  BY <1>1 DEF IInv

(* The connections stay as they are.                                       *)
LEMMA SameLocks ==
  ASSUME IInv, UNCHANGED <<lock, tx>>
  PROVE  Locks'
BY DEF IInv, Locks, Writing

LEMMA JobsAreLong ==
  \A kind \in {"Rebuild", "Update"} : Len(Program(kind)) \in Nat /\ Len(Program(kind)) > 10
<1>1. Len(Program("Update")) = 11 /\ Len(Program("Rebuild")) = 16
  BY UpdateProgram, RebuildProgram, Zenon
<1> TAKE kind \in {"Rebuild", "Update"}
<1> DEFINE n == Len(Program(kind))
<1>2. n \in {11, 16}
  <2>1. CASE kind = "Update"
    BY <1>1, <2>1
  <2>2. CASE kind = "Rebuild"
    BY <1>1, <2>2
  <2> QED
    BY <2>1, <2>2
<1> HIDE DEF n
<1>3. n \in Nat /\ n > 10
  BY <1>2
<1> QED
  BY <1>3 DEF n

LEMMA OpenKeeps ==
  ASSUME IInv, NEW p \in Procs, Open(p)
  PROVE  IInv'
<1>1. /\ opened[p] \in 0 .. MaxLoads /\ opened[p] < MaxLoads /\ MaxLoads \in Nat
      /\ opened' = [opened EXCEPT ![p] = opened[p] + 1]
      /\ db' = [db EXCEPT ![p] = opened[p] + 1]
      /\ job' = [job EXCEPT ![p] = "Load"]
      /\ pc' = [pc EXCEPT ![p] = 1]
      /\ result' = [result EXCEPT ![p] = "none"]
      /\ UNCHANGED <<disk, buf, lock, tx, id, jobs, faults, exits>>
  BY SessionAssumption DEF Open, IInv, TypeOK, conns
<1>2. TypeOK /\ pc = [q \in Procs |-> pc[q]]
  BY DEF IInv
<1>3. pc' = [q \in Procs |-> pc'[q]]
  BY <1>1, <1>2
<1>4. TypeOK'
  <2>1. \A q \in Procs : pc'[q] \in 0 .. Len(Program(job'[q]))
    <3> TAKE q \in Procs
    <3>1. CASE q = p
      BY <1>1, <1>2, <3>1, LoadProgram DEF TypeOK
    <3>2. CASE q # p
      BY <1>1, <1>2, <3>2 DEF TypeOK
    <3> QED
      BY <3>1, <3>2
  <2>2. /\ opened' \in [Procs -> 0 .. MaxLoads] /\ db' \in [Procs -> 0 .. MaxLoads]
        /\ job' \in [Procs -> {"Load", "Rebuild", "Update"}]
        /\ result' \in [Procs -> {"none", "ok", "failed"}]
    <3>1. opened[p] + 1 \in 0 .. MaxLoads
      BY <1>1
    <3> QED
      BY <1>1, <1>2, <3>1 DEF TypeOK
  <2> QED
    BY <1>1, <1>2, <2>1, <2>2 DEF TypeOK
<1>5. OnlyBy(p)
  BY <1>1, <1>2 DEF OnlyBy, TypeOK
<1>6. InOrder(p)'
  <2>1. /\ db'[p] = opened[p] + 1 /\ opened'[p] = opened[p] + 1 /\ job'[p] = "Load"
        /\ result'[p] = "none"
    BY <1>1, <1>2 DEF TypeOK
  <2>2. \A n \in 1 .. MaxLoads : n > opened[p] => ~tx[<<p, n>>]
    BY DEF IInv, InOrder
  <2>3. opened[p] + 1 \in 1 .. MaxLoads
    BY <1>1
  <2>4. ~tx[<<p, opened[p] + 1>>]
    BY <1>1, <2>2, <2>3
  <2> QED
    BY <1>1, <2>1, <2>2, <2>3, <2>4 DEF InOrder, InJob, Conn
<1> QED
  BY <1>1, <1>3, <1>4, <1>5, <1>6, SameLocks, KeepsOrder

LEMMA OpenFailsKeeps ==
  ASSUME IInv, NEW p \in Procs, OpenFails(p)
  PROVE  IInv'
<1>1. /\ db' = [db EXCEPT ![p] = 0]
      /\ job' = [job EXCEPT ![p] = "Load"]
      /\ pc' = [pc EXCEPT ![p] = 0]
      /\ result' = [result EXCEPT ![p] = "failed"]
      /\ faults' = faults + 1
      /\ UNCHANGED <<disk, buf, lock, tx, opened, id, jobs, exits>>
  BY DEF OpenFails, Fault, Return, conns
<1>2. TypeOK /\ pc = [q \in Procs |-> pc[q]]
  BY DEF IInv
<1>3. pc' = [q \in Procs |-> pc'[q]]
  BY <1>1, <1>2
<1>4. TypeOK'
  <2>1. \A q \in Procs : pc'[q] \in 0 .. Len(Program(job'[q]))
    <3> TAKE q \in Procs
    <3>1. CASE q = p
      BY <1>1, <1>2, <3>1, LoadProgram DEF TypeOK
    <3>2. CASE q # p
      BY <1>1, <1>2, <3>2 DEF TypeOK
    <3> QED
      BY <3>1, <3>2
  <2> QED
    <3>1. 0 \in 0 .. MaxLoads
      BY SessionAssumption
    <3>2. /\ db' \in [Procs -> 0 .. MaxLoads]
          /\ job' \in [Procs -> {"Load", "Rebuild", "Update"}]
          /\ result' \in [Procs -> {"none", "ok", "failed"}]
          /\ faults' \in Nat
      BY <1>1, <1>2, <3>1 DEF TypeOK
    <3> QED
      BY <1>1, <1>2, <2>1, <3>2 DEF TypeOK
<1>5. OnlyBy(p)
  BY <1>1, <1>2 DEF OnlyBy, TypeOK
<1>6. InOrder(p)'
  <2>1. db'[p] = 0 /\ pc'[p] = 0 /\ opened[p] \in Nat
    BY <1>1, <1>2 DEF TypeOK
  <2>2. \A n \in 1 .. MaxLoads : n > opened[p] => ~tx[<<p, n>>]
    BY DEF IInv, InOrder
  <2> QED
    BY <1>1, <2>1, <2>2 DEF InOrder, InJob, Running
<1> QED
  BY <1>1, <1>3, <1>4, <1>5, <1>6, SameLocks, KeepsOrder

LEMMA StartKeeps ==
  ASSUME IInv, NEW p \in Procs, NEW kind \in {"Rebuild", "Update"}, Start(p, kind)
  PROVE  IInv'
<1>1. /\ jobs < MaxJobs /\ jobs \in Nat /\ MaxJobs \in Nat
      /\ jobs' = jobs + 1
      /\ id' = [id EXCEPT ![p] = jobs + 1]
      /\ job' = [job EXCEPT ![p] = kind]
      /\ pc' = [pc EXCEPT ![p] = 1]
      /\ result' = [result EXCEPT ![p] = "none"]
      /\ UNCHANGED <<disk, buf, lock, tx, opened, db, faults, exits>>
  BY SessionAssumption DEF Start, conns, IInv, TypeOK
<1>2. TypeOK /\ pc = [q \in Procs |-> pc[q]]
  BY DEF IInv
<1>3. pc' = [q \in Procs |-> pc'[q]]
  BY <1>1, <1>2
<1>4. TypeOK'
  <2>1. \A q \in Procs : pc'[q] \in 0 .. Len(Program(job'[q]))
    <3> TAKE q \in Procs
    <3>1. CASE q = p
      <4>1. job'[q] = kind /\ pc'[q] = 1
        BY <1>1, <1>2, <3>1 DEF TypeOK
      <4> QED
        BY <4>1, JobsAreLong
    <3>2. CASE q # p
      BY <1>1, <1>2, <3>2 DEF TypeOK
    <3> QED
      BY <3>1, <3>2
  <2> QED
    BY <1>1, <1>2, <2>1 DEF TypeOK
<1>5. OnlyBy(p)
  BY <1>1, <1>2 DEF OnlyBy, TypeOK
<1>6. InOrder(p)'
  <2>1. job'[p] = kind /\ pc'[p] = 1 /\ id'[p] \in 1 .. MaxJobs /\ result'[p] = "none"
    BY <1>1, <1>2 DEF TypeOK
  <2>2. /\ db'[p] <= opened'[p]
        /\ \A n \in 1 .. MaxLoads : n > opened'[p] => ~tx'[<<p, n>>]
    BY <1>1 DEF IInv, InOrder
  <2>3. Left(p)' > 5
    BY <2>1, JobsAreLong DEF Left
  <2>4. Left(p)' \in Int
    BY <2>1, JobsAreLong DEF Left
  <2>5. Linked(p, buf[Conn(p)])'
    BY <2>3, <2>4 DEF Linked
  <2> QED
    BY <2>1, <2>2, <2>5 DEF InOrder, InJob
<1> QED
  BY <1>1, <1>3, <1>4, <1>5, <1>6, SameLocks, KeepsOrder
LEMMA QueryKeeps ==
  ASSUME IInv, NEW p \in Procs, Query(p)
  PROVE  IInv'
<1> DEFINE c == Conn(p)
<1>1. /\ ~Running(p) /\ db[p] # 0
      /\ lock' = [lock EXCEPT ![c] = IF lock[c] = "none" /\ tx[c] THEN "shared" ELSE lock[c]]
      /\ UNCHANGED <<disk, buf, tx, opened, db, job, pc, id, result, jobs, faults, exits>>
  BY DEF Query
<1>2. TypeOK /\ pc = [q \in Procs |-> pc[q]] /\ Locks /\ InOrder(p)
  BY DEF IInv
<1>3. c \in Conns /\ c[1] = p
  BY <1>1, <1>2, ConnIs
<1> HIDE DEF c
<1>4. /\ lock' \in [Conns -> {"none", "shared", "reserved", "pending"}]
      /\ \A d \in Conns : d # c => lock'[d] = lock[d]
      /\ lock'[c] \in {lock[c], "shared"}
      /\ lock'[c] # lock[c] => tx[c] /\ lock[c] = "none"
  BY <1>1, <1>2, <1>3 DEF TypeOK
<1>5. TypeOK'
  BY <1>1, <1>2, <1>4 DEF TypeOK
<1>6. Locks'
  BY <1>1, <1>2, <1>4 DEF Locks, Writing
<1>7. OnlyBy(p)
  BY <1>1, <1>3, <1>4 DEF OnlyBy
<1>8. InOrder(p)'
  BY <1>1, <1>2 DEF InOrder, InJob, Running
<1> QED
  BY <1>1, <1>2, <1>5, <1>6, <1>7, <1>8, KeepsOrder

LEMMA NoFileIs == NoFile \in Content
BY DEF NoFile, Content

LEMMA ExitKeeps ==
  ASSUME IInv, NEW p \in Procs, Exit(p)
  PROVE  IInv'
<1>1. /\ buf' = [c \in Conns |-> IF c[1] = p THEN NoFile ELSE buf[c]]
      /\ lock' = [c \in Conns |-> IF c[1] = p THEN "none" ELSE lock[c]]
      /\ tx' = [c \in Conns |-> IF c[1] = p THEN FALSE ELSE tx[c]]
      /\ opened' = [opened EXCEPT ![p] = 0]
      /\ db' = [db EXCEPT ![p] = 0]
      /\ job' = [job EXCEPT ![p] = "Load"]
      /\ pc' = [pc EXCEPT ![p] = 0]
      /\ id' = [id EXCEPT ![p] = 0]
      /\ result' = [result EXCEPT ![p] = "none"]
      /\ exits' = exits + 1
      /\ UNCHANGED <<disk, jobs, faults>>
  BY DEF Exit
<1>2. TypeOK /\ pc = [q \in Procs |-> pc[q]] /\ Locks
  BY DEF IInv
<1>3. pc' = [q \in Procs |-> pc'[q]]
  BY <1>1, <1>2
<1>4. TypeOK'
  <2>1. \A q \in Procs : pc'[q] \in 0 .. Len(Program(job'[q]))
    <3> TAKE q \in Procs
    <3>1. CASE q = p
      BY <1>1, <1>2, <3>1, LoadProgram DEF TypeOK
    <3>2. CASE q # p
      BY <1>1, <1>2, <3>2 DEF TypeOK
    <3> QED
      BY <3>1, <3>2
  <2>2. buf' \in [Conns -> Content] /\ tx' \in [Conns -> BOOLEAN]
    BY <1>1, <1>2, NoFileIs DEF TypeOK
  <2>3. lock' \in [Conns -> {"none", "shared", "reserved", "pending"}]
    BY <1>1, <1>2 DEF TypeOK
  <2> QED
    <3>1. 0 \in 0 .. MaxLoads
      BY SessionAssumption
    <3>2. opened' \in [Procs -> 0 .. MaxLoads] /\ db' \in [Procs -> 0 .. MaxLoads]
      BY <1>1, <1>2, <3>1 DEF TypeOK
    <3>3. /\ job' \in [Procs -> {"Load", "Rebuild", "Update"}] /\ id' \in [Procs -> Nat]
          /\ result' \in [Procs -> {"none", "ok", "failed"}]
      BY <1>1, <1>2 DEF TypeOK
    <3>4. disk' \in Content /\ jobs' \in Nat /\ faults' \in Nat /\ exits' \in Nat
      BY <1>1, <1>2 DEF TypeOK
    <3> QED
      BY <2>1, <2>2, <2>3, <3>2, <3>3, <3>4 DEF TypeOK
<1>5. OnlyBy(p)
  BY <1>1, <1>2 DEF OnlyBy, TypeOK
<1>6. Locks'
  <2>1. \A c \in Conns : /\ c[1] = p => ~tx'[c] /\ lock'[c] = "none"
                         /\ c[1] # p => tx'[c] = tx[c] /\ lock'[c] = lock[c]
    BY <1>1
  <2> QED
    BY <1>2, <2>1 DEF Locks, Writing
<1>7. InOrder(p)'
  <2>1. db'[p] = 0 /\ opened'[p] = 0 /\ pc'[p] = 0
    BY <1>1, <1>2 DEF TypeOK
  <2>2. \A n \in 1 .. MaxLoads : ~tx'[<<p, n>>]
    BY <1>1 DEF Conns
  <2> QED
    BY <2>1, <2>2 DEF InOrder, InJob, Running
<1> QED
  BY <1>3, <1>4, <1>5, <1>6, <1>7, KeepsOrder

-----------------------------------------------------------------------------
(* A statement is followed by the next one, or the command returns.        *)
Moved(p) ==
  /\ pc' = [q \in Procs |-> pc'[q]]
  /\ result' \in [Procs -> {"none", "ok", "failed"}]
  /\ \A q \in Procs : q # p => pc'[q] = pc[q] /\ result'[q] = result[q]
  /\ \/ pc'[p] = 0
     \/ pc'[p] = pc[p] + 1 /\ result'[p] = result[p] /\ Left(p) > 0

LEMMA AdvanceMoves ==
  ASSUME IInv, NEW p \in Procs, Running(p), Advance(p)
  PROVE  /\ Moved(p)
         /\ pc'[p] = 0 <=> Left(p) = 0
         /\ pc'[p] = 0 => result'[p] = "ok"
<1>1. TypeOK /\ pc = [q \in Procs |-> pc[q]]
  BY DEF IInv
<1>2. pc[p] \in Nat /\ pc[p] >= 1 /\ Left(p) \in Nat
  BY <1>1, StatementIs
<1>3. CASE pc[p] = Len(Program(job[p]))
  <2>1. pc' = [pc EXCEPT ![p] = 0] /\ result' = [result EXCEPT ![p] = "ok"]
    BY <1>3 DEF Advance, Return
  <2>2. Left(p) = 0
    BY <1>2, <1>3 DEF Left
  <2> QED
    BY <1>1, <2>1, <2>2 DEF Moved, TypeOK
<1>4. CASE pc[p] # Len(Program(job[p]))
  <2>1. pc' = [pc EXCEPT ![p] = pc[p] + 1] /\ result' = result
    BY <1>4 DEF Advance
  <2>2. Left(p) > 0
    <3>1. Len(Program(job[p])) \in Int
      BY <1>1, LoadProgram, JobsAreLong DEF TypeOK
    <3> QED
      BY <1>2, <1>4, <3>1 DEF Left
  <2>3. pc'[p] = pc[p] + 1 /\ pc'[p] # 0 /\ Left(p) # 0
    BY <1>1, <1>2, <2>1, <2>2
  <2>4. pc' = [q \in Procs |-> pc'[q]] /\ \A q \in Procs : q # p => pc'[q] = pc[q]
    BY <1>1, <2>1
  <2>5. result' \in [Procs -> {"none", "ok", "failed"}]
    BY <1>1, <2>1 DEF TypeOK
  <2> QED
    BY <2>1, <2>2, <2>3, <2>4, <2>5 DEF Moved
<1> QED
  BY <1>3, <1>4

(* A statement that leaves nothing behind: it fails, or there is no class  *)
(* to scan.                                                                *)
Yields(p) == GiveUp(p) \/ (Statement(p).op = "classes" /\ Advance(p))

LEMMA GiveUpMoves ==
  ASSUME IInv, NEW p \in Procs, Running(p), Yields(p)
  PROVE  /\ Moved(p)
         /\ InJob(p) /\ pc'[p] = 0 => result'[p] # "ok"
         /\ InJob(p) /\ pc'[p] # 0 => pc[p] > 3 /\ Left(p) > 5
<1>1. TypeOK /\ pc = [q \in Procs |-> pc[q]]
  BY DEF IInv
<1>2. /\ pc[p] \in Nat /\ pc[p] >= 1 /\ Left(p) \in Nat
      /\ InJob(p) => Placed(Statement(p), pc[p], Left(p))
  BY <1>1, StatementIs
<1>3. CASE Return(p, "failed")
  <2>1. pc' = [pc EXCEPT ![p] = 0] /\ result' = [result EXCEPT ![p] = "failed"]
    BY <1>3 DEF Return
  <2> QED
    BY <1>1, <2>1 DEF Moved, TypeOK
<1>4. CASE Advance(p) /\ (Statement(p).failing # "returns" \/ Statement(p).op = "classes")
  <2>1. Advance(p)
    BY <1>4
  <2>2. Moved(p) /\ (pc'[p] = 0 <=> Left(p) = 0)
    BY <2>1, AdvanceMoves
  <2>3. InJob(p) => pc[p] > 3 /\ Left(p) > 5
    <3>1. InJob(p) => Left(p) > 5
      BY <1>2, <1>4 DEF Placed, Must
    <3>2. InJob(p) => ~(pc[p] \in {1, 2, 3})
      BY <1>2, <1>4 DEF Placed
    <3> QED
      BY <1>2, <3>1, <3>2
  <2> QED
    BY <1>2, <2>2, <2>3
<1> QED
  BY <1>3, <1>4 DEF GiveUp, Yields

(* A statement changes the file and the connection that is in use.         *)
Touches(p) ==
  /\ Running(p) /\ Moved(p)
  /\ UNCHANGED <<opened, db, job, id>>
  /\ jobs' \in Nat /\ faults' \in Nat /\ exits' \in Nat
  /\ disk' \in Content /\ buf' \in [Conns -> Content]
  /\ lock' \in [Conns -> {"none", "shared", "reserved", "pending"}]
  /\ tx' \in [Conns -> BOOLEAN]
  /\ \A c \in Conns :
        c # Conn(p) => buf'[c] = buf[c] /\ lock'[c] = lock[c] /\ tx'[c] = tx[c]

LEMMA TouchesKeeps ==
  ASSUME IInv, NEW p \in Procs, Touches(p), Locks',
         job[p] = "Load" => ~tx'[Conn(p)],
         InJob(p) /\ pc'[p] # 0 /\ db[p] # 0 /\ tx'[Conn(p)] => Linked(p, buf[Conn(p)])'
  PROVE  IInv'
<1> USE DEF Touches
<1>1. TypeOK /\ InOrder(p) /\ Conn(p)[1] = p /\ (db[p] # 0 => Conn(p) \in Conns)
  BY ConnIs DEF IInv
<1>2. pc[p] \in Nat /\ pc[p] >= 1 /\ Left(p) \in Nat
  BY <1>1, StatementIs
<1>3. TypeOK'
  <2>1. \A q \in Procs : pc'[q] \in 0 .. Len(Program(job'[q]))
    <3> TAKE q \in Procs
    <3>1. CASE q = p
      <4> DEFINE n == Len(Program(job[p]))
      <4>1. pc[p] \in 0 .. n /\ Left(p) = n - pc[p]
        BY <1>1 DEF TypeOK, Left
      <4>2. n \in Nat
        BY <1>1, LoadProgram, JobsAreLong DEF TypeOK
      <4> HIDE DEF n
      <4>3. pc'[p] \in 0 .. n
        BY <1>2, <4>1, <4>2 DEF Moved
      <4> QED
        BY <3>1, <4>3 DEF n
    <3>2. CASE q # p
      BY <1>1, <3>2 DEF Moved, TypeOK
    <3> QED
      BY <3>1, <3>2
  <2> QED
    BY <1>1, <2>1 DEF TypeOK, Moved
<1>4. OnlyBy(p)
  <2>1. \A c \in Conns : c[1] # p => c # Conn(p)
    BY <1>1
  <2> QED
    BY <2>1 DEF OnlyBy, Moved
<1>5. InOrder(p)'
  <2>1. \A n \in 1 .. MaxLoads : n > opened[p] => ~tx'[<<p, n>>]
    <3> SUFFICES ASSUME NEW n \in 1 .. MaxLoads, n > opened[p] PROVE ~tx'[<<p, n>>]
      OBVIOUS
    <3>1. n # db[p]
      BY <1>1, SessionAssumption DEF InOrder, TypeOK
    <3>2. <<p, n>> # Conn(p) /\ <<p, n>> \in Conns
      BY <3>1 DEF Conn, Conns
    <3> QED
      BY <1>1, <3>2 DEF InOrder
  <2>2. (Running(p))' => pc'[p] # 0 /\ result'[p] = result[p]
    BY <1>2 DEF Moved, Running
  <2>3. Conn(p)' = Conn(p)
    BY DEF Conn
  <2> QED
    BY <1>1, <2>1, <2>2, <2>3 DEF InOrder, InJob
<1> QED
  BY <1>3, <1>4, <1>5, KeepsOrder DEF Moved

(* With more than five statements left nothing is claimed yet.             *)
LEMMA LinkedLater ==
  ASSUME IInv, NEW p \in Procs, Running(p), pc'[p] = pc[p] + 1, job' = job, Left(p) > 5, NEW t
  PROVE  Linked(p, t)'
<1>1. pc[p] \in Nat /\ Left(p) \in Nat
  BY StatementIs DEF IInv
<1>2. Left(p)' = Left(p) - 1
  <2> DEFINE n == Len(Program(job[p]))
  <2>1. n \in Nat
    BY LoadProgram, JobsAreLong DEF IInv, TypeOK
  <2> HIDE DEF n
  <2>2. n - (pc[p] + 1) = (n - pc[p]) - 1
    BY <1>1, <2>1
  <2> QED
    BY <2>2 DEF Left, n
<1>3. Left(p)' > 4 /\ Left(p)' \in Int
  BY <1>1, <1>2
<1> QED
  BY <1>3 DEF Linked

LEMMA ScanThrowsKeeps ==
  ASSUME IInv, NEW p \in Procs, ScanThrows(p)
  PROVE  IInv'
<1>1. /\ Running(p)
      /\ pc' = [pc EXCEPT ![p] = 0]
      /\ result' = [result EXCEPT ![p] = "failed"]
      /\ faults' = faults + 1
      /\ UNCHANGED <<disk, buf, lock, tx, opened, db, job, id, jobs, exits>>
  BY DEF ScanThrows, Fault, Return, conns
<1>2. TypeOK /\ pc = [q \in Procs |-> pc[q]] /\ InOrder(p)
  BY DEF IInv
<1>3. Moved(p) /\ pc'[p] = 0
  BY <1>1, <1>2 DEF Moved, TypeOK
<1>4. Locks'
  BY <1>1, SameLocks
<1>5. job[p] = "Load" => ~tx'[Conn(p)]
  BY <1>1, <1>2 DEF InOrder
<1>6. Touches(p)
  BY <1>1, <1>2, <1>3 DEF Touches, TypeOK
<1> QED
  BY <1>3, <1>4, <1>5, <1>6, TouchesKeeps

LEMMA StatementFailsKeeps ==
  ASSUME IInv, NEW p \in Procs, StatementFails(p) \/ NoClasses(p)
  PROVE  IInv'
<1>1. /\ Running(p) /\ Yields(p)
      /\ faults' \in {faults, faults + 1}
      /\ UNCHANGED <<disk, buf, lock, tx, opened, db, job, id, jobs, exits>>
  BY DEF StatementFails, NoClasses, Yields, Fault, conns
<1>2. TypeOK /\ InOrder(p)
  BY DEF IInv
<1>3. Moved(p) /\ (InJob(p) /\ pc'[p] # 0 => Left(p) > 5)
  BY <1>1, GiveUpMoves
<1>4. Locks'
  BY <1>1, SameLocks
<1>5. job[p] = "Load" => ~tx'[Conn(p)]
  BY <1>1, <1>2 DEF InOrder
<1>6. InJob(p) /\ pc'[p] # 0 => Linked(p, buf[Conn(p)])'
  BY <1>1, <1>3, LinkedLater DEF Moved
<1>7. Touches(p)
  BY <1>1, <1>2, <1>3 DEF Touches, TypeOK
<1> QED
  BY <1>4, <1>5, <1>6, <1>7, TouchesKeeps
LEMMA StatementRollsBackKeeps ==
  ASSUME IInv, NEW p \in Procs, StatementRollsBack(p)
  PROVE  IInv'
<1> DEFINE c == Conn(p)
<1>1. /\ Running(p) /\ db[p] # 0 /\ Yields(p)
      /\ buf' = [buf EXCEPT ![c] = NoFile]
      /\ lock' = [lock EXCEPT ![c] = "none"]
      /\ tx' = [tx EXCEPT ![c] = FALSE]
      /\ faults' = faults + 1
      /\ UNCHANGED <<disk, opened, db, job, id, jobs, exits>>
  BY DEF StatementRollsBack, Yields, Fault
<1>2. TypeOK /\ Locks
  BY DEF IInv
<1>3. Moved(p) /\ c \in Conns
  BY <1>1, <1>2, GiveUpMoves, ConnIs
<1> HIDE DEF c
<1>4. /\ ~tx'[c] /\ lock'[c] = "none"
      /\ \A d \in Conns : d # c => buf'[d] = buf[d] /\ lock'[d] = lock[d] /\ tx'[d] = tx[d]
      /\ buf' \in [Conns -> Content] /\ tx' \in [Conns -> BOOLEAN]
      /\ lock' \in [Conns -> {"none", "shared", "reserved", "pending"}]
  BY <1>1, <1>2, <1>3, NoFileIs DEF TypeOK
<1>5. Locks'
  BY <1>2, <1>4 DEF Locks, Writing
<1>6. Touches(p)
  BY <1>1, <1>2, <1>3, <1>4 DEF Touches, TypeOK, c
<1> QED
  BY <1>4, <1>5, <1>6, TouchesKeeps DEF c

(* A commit that is refused has met readers, so its connection writes.     *)
LEMMA RefusedCommit ==
  ASSUME NEW c, NEW s, ~Succeeds(c, s), s.op = "commit", tx[c]
  PROVE  Writing(c)
<1>1. Defined(s, View(c))
  BY DEF Defined, Needs
<1> QED
  BY <1>1 DEF Succeeds

(* A refused statement makes no connection a writer.                       *)
LEMMA RefusedLocks ==
  ASSUME IInv, NEW p \in Procs, StatementRefused(p), NEW c, c = Conn(p)
  PROVE  \/ lock' = lock
         \/ /\ c \in Conns /\ tx[c]
            /\ \A d \in Conns : d # c => lock'[d] = lock[d]
            /\ lock' \in [Conns -> {"none", "shared", "reserved", "pending"}]
            /\ lock'[c] \in {"reserved", "pending"} => lock[c] \in {"reserved", "pending"}
<1> DEFINE s == Statement(p)
           states == {"none", "shared", "reserved", "pending"}
<1>1. db[p] # 0 => ~Succeeds(c, s)
  BY DEF StatementRefused
<1>2. \/ lock' = lock
      \/ /\ db[p] # 0 /\ tx[c]
         /\ \/ lock' = [lock EXCEPT ![c] = "pending"] /\ s.op = "commit"
            \/ lock' = [lock EXCEPT ![c] = "shared"] /\ lock[c] = "none"
            \/ lock' = [lock EXCEPT ![c] = lock[c]]
  BY DEF StatementRefused
<1>3. /\ lock \in [Conns -> states]
      /\ db[p] # 0 => c \in Conns
      /\ db[p] # 0 /\ tx[c] /\ s.op = "commit" => Writing(c)
  BY <1>1, ConnIs, RefusedCommit DEF IInv, TypeOK
<1> HIDE DEF s
<1>4. ASSUME db[p] # 0, tx[c], NEW new \in states, lock' = [lock EXCEPT ![c] = new],
             new \in {"reserved", "pending"} => lock[c] \in {"reserved", "pending"}
      PROVE  /\ c \in Conns /\ tx[c]
             /\ \A d \in Conns : d # c => lock'[d] = lock[d]
             /\ lock' \in [Conns -> states]
             /\ lock'[c] \in {"reserved", "pending"} => lock[c] \in {"reserved", "pending"}
  BY <1>3, <1>4
<1>5. CASE db[p] # 0 /\ tx[c] /\ lock' = [lock EXCEPT ![c] = "pending"] /\ s.op = "commit"
  <2>1. lock[c] \in {"reserved", "pending"} /\ "pending" \in states
    BY <1>3, <1>5 DEF Writing
  <2> QED
    BY <1>4, <1>5, <2>1
<1>6. CASE db[p] # 0 /\ tx[c] /\ lock' = [lock EXCEPT ![c] = "shared"]
  BY <1>4, <1>6
<1>7. CASE db[p] # 0 /\ tx[c] /\ lock' = [lock EXCEPT ![c] = lock[c]]
  <2>1. lock[c] \in states
    BY <1>3, <1>7
  <2> QED
    BY <1>4, <1>7, <2>1
<1> QED
  BY <1>2, <1>5, <1>6, <1>7, Zenon

LEMMA StatementRefusedKeeps ==
  ASSUME IInv, NEW p \in Procs, StatementRefused(p)
  PROVE  IInv'
<1> DEFINE c == Conn(p)
<1>1. /\ Running(p) /\ Yields(p)
      /\ UNCHANGED <<disk, buf, tx, opened, db, job, id, jobs, faults, exits>>
  BY DEF StatementRefused, Yields
<1>2. TypeOK /\ Locks /\ InOrder(p)
  BY DEF IInv
<1>3. Moved(p) /\ (InJob(p) /\ pc'[p] # 0 => Left(p) > 5)
  BY <1>1, GiveUpMoves
<1>4. \/ lock' = lock
      \/ /\ c \in Conns /\ tx[c]
         /\ \A d \in Conns : d # c => lock'[d] = lock[d]
         /\ lock' \in [Conns -> {"none", "shared", "reserved", "pending"}]
         /\ lock'[c] \in {"reserved", "pending"} => lock[c] \in {"reserved", "pending"}
  BY RefusedLocks, Zenon
<1> HIDE DEF c
<1>5. Locks'
  <2>1. CASE lock' = lock
    BY <1>1, <2>1, SameLocks
  <2>2. CASE lock' # lock
    <3>1. \A d \in Conns : lock'[d] \in {"reserved", "pending"} => lock[d] \in {"reserved", "pending"}
      <4> TAKE d \in Conns
      <4>1. CASE d = c
        BY <1>4, <2>2, <4>1
      <4>2. CASE d # c
        BY <1>4, <2>2, <4>2
      <4> QED
        BY <4>1, <4>2
    <3>2. \A d \in Conns : ~tx'[d] => lock'[d] = "none"
      BY <1>1, <1>2, <1>4, <2>2 DEF Locks
    <3> QED
      BY <1>2, <3>1, <3>2 DEF Locks, Writing
  <2> QED
    BY <2>1, <2>2
<1>6. job[p] = "Load" => ~tx'[Conn(p)]
  BY <1>1, <1>2 DEF InOrder
<1>7. InJob(p) /\ pc'[p] # 0 => Linked(p, buf[Conn(p)])'
  BY <1>1, <1>3, LinkedLater DEF Moved
<1>8. Touches(p)
  BY <1>1, <1>2, <1>3, <1>4 DEF Touches, TypeOK, c
<1> QED
  BY <1>5, <1>6, <1>7, <1>8, TouchesKeeps

LEMMA LeftIs ==
  ASSUME IInv, NEW p \in Procs, Running(p), pc'[p] = pc[p] + 1, job' = job
  PROVE  Left(p) \in Nat /\ Left(p)' = Left(p) - 1
<1>1. pc[p] \in Nat /\ Left(p) \in Nat
  BY StatementIs DEF IInv
<1> DEFINE n == Len(Program(job[p]))
<1>2. n \in Nat
  BY LoadProgram, JobsAreLong DEF IInv, TypeOK
<1> HIDE DEF n
<1>3. n - (pc[p] + 1) = (n - pc[p]) - 1
  BY <1>1, <1>2
<1> QED
  BY <1>1, <1>3 DEF Left, n

(* Where the statements that end or begin something stand.                 *)
LEMMA PlacesAre ==
  ASSUME TypeOK, NEW p \in Procs, Running(p), NEW s, s = Statement(p)
  PROVE  /\ s \in Statements /\ Left(p) \in Nat
         /\ s.op = "delete" => s.table \in {"list", "decl"}
         /\ s.op \in {"begin", "read"} => InJob(p) /\ Left(p) > 5
         /\ s.op = "commit" => InJob(p) /\ Left(p) = 0
         /\ InJob(p) /\ s.op # "commit" => Left(p) # 0
         /\ InJob(p) => Placed(s, pc[p], Left(p))
         /\ InJob(p) => s.op \notin {"drop", "create", "index"}
<1>1. /\ s \in Statements /\ pc[p] \in Nat /\ pc[p] >= 1 /\ Left(p) \in Nat
      /\ job[p] = "Load" => s.op \in {"drop", "create", "index"}
      /\ InJob(p) => Placed(s, pc[p], Left(p))
  BY StatementIs
<1>2. CASE job[p] = "Load"
  BY <1>1, <1>2 DEF InJob
<1>3. CASE job[p] # "Load" /\ pc[p] <= 3
  <2>1. pc[p] \in {1, 2, 3}
    BY <1>1, <1>3
  <2>2. Left(p) > 5 /\ s.op \in {"mark", "begin"}
    BY <1>1, <1>3, <2>1 DEF Placed, InJob
  <2> QED
    BY <1>1, <1>3, <2>2 DEF InJob
<1>4. CASE job[p] # "Load" /\ ~(pc[p] <= 3)
  <2>1. InJob(p) /\ pc[p] > 3
    BY <1>1, <1>4 DEF InJob
  <2>2. CASE Left(p) > 5
    BY <1>1, <2>1, <2>2 DEF Placed
  <2>3. CASE ~(Left(p) > 5)
    <3>1. Left(p) \in {0, 1, 2, 3, 4, 5}
      BY <1>1, <2>3
    <3>2. /\ s.op \in {"clear", "plain", "include", "sub", "commit"}
          /\ s.op = "commit" <=> Left(p) = 0
      BY <1>1, <2>1, <3>1 DEF Placed, Must
    <3> QED
      BY <1>1, <2>1, <3>2
  <2> QED
    BY <2>2, <2>3
<1> QED
  BY <1>2, <1>3, <1>4

LEMMA ViewIs ==
  ASSUME TypeOK, NEW c \in Conns
  PROVE  View(c) \in Content
BY DEF TypeOK, View

(* The state of the connection after a statement written in a transaction. *)
LEMMA WrittenLinks ==
  ASSUME IInv, NEW p \in Procs, InJob(p), db[p] # 0, tx[Conn(p)],
         NEW s, s = Statement(p), s.op \notin {"begin", "read", "commit"},
         Defined(s, View(Conn(p))),
         NEW u, u = Effect(s, View(Conn(p)), id[p]),
         Writing(Conn(p))', buf'[Conn(p)] = u, db' = db,
         job' = job, pc'[p] = pc[p] + 1
  PROVE  Linked(p, buf[Conn(p)])'
<1> DEFINE t == View(Conn(p))
<1>1. TypeOK /\ Running(p) /\ Linked(p, buf[Conn(p)])
  BY DEF IInv, InOrder, InJob
<1>2. /\ s \in Statements /\ Left(p) \in Nat /\ Left(p)' = Left(p) - 1
      /\ s.op = "delete" => s.table \in {"list", "decl"}
      /\ s.op \notin {"drop", "create", "index"}
      /\ Placed(s, pc[p], Left(p))
      /\ Left(p) # 0
  BY <1>1, PlacesAre, LeftIs
<1>3. t \in Content /\ id[p] \in Nat
  BY <1>1, ConnIs, ViewIs DEF TypeOK
<1>4. u.has = t.has /\ (s.op = "sub" => u.from = <<u.list, u.decl>>)
  <2>1. u = Effect(s, t, id[p])
    OBVIOUS
  <2> HIDE DEF t
  <2>2. FromJob(u, t, id[p])
    BY <1>2, <1>3, <2>1, EffectIs
  <2>3. s.op = "sub" => u.from = <<u.list, u.decl>>
    <3>1. ASSUME s.op = "sub" PROVE u = [t EXCEPT !.from = <<t.list, t.decl>>]
      BY <2>1, <3>1 DEF Effect, Upserts
    <3> QED
      BY <1>3, <3>1 DEF Content
  <2> QED
    BY <2>2, <2>3 DEF FromJob
<1>5. Needs(s) \subseteq t.has
  BY DEF Defined
<1>6. Writing(Conn(p)) => t = buf[Conn(p)]
  BY DEF View
<1>7. Conn(p)' = Conn(p)
  BY DEF Conn
<1> HIDE DEF t
<1>8. CASE Left(p) > 5
  BY <1>1, <1>8, LinkedLater
<1>9. CASE Left(p) = 5
  <2>1. "temp" \in u.has
    BY <1>2, <1>4, <1>5, <1>9 DEF Placed, Must, Needs
  <2> QED
    BY <1>2, <1>7, <1>9, <2>1 DEF Linked
<1>10. CASE Left(p) = 4
  <2>1. "temp" \in u.has
    BY <1>1, <1>4, <1>6, <1>10 DEF Linked
  <2> QED
    BY <1>2, <1>7, <1>10, <2>1 DEF Linked
<1>11. CASE Left(p) = 3
  <2>1. "temp" \in u.has
    BY <1>1, <1>4, <1>6, <1>11 DEF Linked
  <2>2. {"list", "decl", "links"} \subseteq u.has
    BY <1>2, <1>4, <1>5, <1>11 DEF Placed, Must, Needs
  <2> QED
    BY <1>2, <1>7, <1>11, <2>1, <2>2 DEF Linked
<1>12. CASE Left(p) \in {1, 2}
  <2>1. "temp" \in u.has /\ {"list", "decl", "links"} \subseteq u.has
    BY <1>1, <1>4, <1>6, <1>12 DEF Linked
  <2>2. Left(p) = 1 => u.from = <<u.list, u.decl>>
    BY <1>2, <1>4 DEF Placed, Must
  <2> QED
    BY <1>2, <1>7, <1>12, <2>1, <2>2 DEF Linked
<1> QED
  BY <1>2, <1>8, <1>9, <1>10, <1>11, <1>12
LEMMA StatementOkKeeps ==
  ASSUME IInv, NEW p \in Procs, StatementOk(p)
  PROVE  IInv'
<1> DEFINE c == Conn(p)
           s == Statement(p)
           u == Effect(s, View(c), id[p])
<1>1. /\ Running(p) /\ db[p] # 0 /\ Succeeds(c, s) /\ Advance(p) /\ Perform(c, s, id[p])
      /\ UNCHANGED <<opened, db, job, id, jobs, faults, exits>>
  BY DEF StatementOk
<1>2. TypeOK /\ Locks /\ InOrder(p)
  BY DEF IInv
<1>3. /\ Moved(p) /\ (pc'[p] = 0 <=> Left(p) = 0)
      /\ c \in Conns /\ View(c) \in Content /\ id[p] \in Nat
      /\ lock[c] \in {"none", "shared", "reserved", "pending"} /\ tx[c] \in BOOLEAN
  BY <1>1, <1>2, AdvanceMoves, ConnIs, ViewIs DEF TypeOK
<1>4. /\ s \in Statements /\ Left(p) \in Nat
      /\ s.op = "delete" => s.table \in {"list", "decl"}
      /\ s.op \in {"begin", "read"} => InJob(p) /\ Left(p) > 5
      /\ s.op = "commit" => InJob(p) /\ Left(p) = 0
  BY <1>1, <1>2, PlacesAre
<1>5. u \in Content
  BY <1>3, <1>4, EffectIs
<1> DEFINE states == {"none", "shared", "reserved", "pending"}
<1>6. /\ lock \in [Conns -> states] /\ tx \in [Conns -> BOOLEAN]
      /\ buf \in [Conns -> Content] /\ disk \in Content
      /\ jobs \in Nat /\ faults \in Nat /\ exits \in Nat
  BY <1>2 DEF TypeOK
<1> HIDE DEF c, s, u
<1>7. ASSUME NEW newBuf \in Content, NEW newLock \in states, NEW newTx \in BOOLEAN,
             buf' = [buf EXCEPT ![c] = newBuf], lock' = [lock EXCEPT ![c] = newLock],
             tx' = [tx EXCEPT ![c] = newTx], disk' \in Content
      PROVE  /\ Touches(p)
             /\ buf'[c] = newBuf /\ lock'[c] = newLock /\ tx'[c] = newTx
             /\ \A d \in Conns : d # c => lock'[d] = lock[d] /\ tx'[d] = tx[d]
  <2>1. /\ buf' \in [Conns -> Content] /\ tx' \in [Conns -> BOOLEAN]
        /\ lock' \in [Conns -> states]
        /\ buf'[c] = newBuf /\ lock'[c] = newLock /\ tx'[c] = newTx
        /\ \A d \in Conns :
             d # c => buf'[d] = buf[d] /\ lock'[d] = lock[d] /\ tx'[d] = tx[d]
    BY <1>3, <1>6, <1>7
  <2> QED
    BY <1>1, <1>3, <1>6, <1>7, <2>1 DEF Touches, c
<1>8. job[p] = "Load" => ~tx[c]
  BY <1>1, <1>2 DEF InOrder, c
<1>9. CASE s.op = "begin"
  <2>1. UNCHANGED <<disk, buf, lock>> /\ tx' = [tx EXCEPT ![c] = TRUE]
    BY <1>1, <1>9, PerformIs
  <2>2. Touches(p) /\ tx'[c] /\ \A d \in Conns : d # c => tx'[d] = tx[d]
    <3>1. buf' = [buf EXCEPT ![c] = buf[c]] /\ lock' = [lock EXCEPT ![c] = lock[c]]
      BY <1>6, <2>1
    <3>2. buf[c] \in Content /\ lock[c] \in states /\ TRUE \in BOOLEAN /\ disk' \in Content
      BY <1>3, <1>6, <2>1
    <3> QED
      BY <1>7, <2>1, <3>1, <3>2
  <2>3. Locks'
    BY <1>2, <2>1, <2>2 DEF Locks, Writing
  <2>4. pc'[p] # 0 => Linked(p, buf[Conn(p)])'
    BY <1>1, <1>3, <1>4, <1>9, LinkedLater DEF Moved
  <2> QED
    BY <1>4, <1>9, <2>2, <2>3, <2>4, TouchesKeeps DEF InJob
<1>10. CASE s.op = "commit"
  <2>1. /\ disk' = View(c)
        /\ buf' = [buf EXCEPT ![c] = NoFile]
        /\ lock' = [lock EXCEPT ![c] = "none"]
        /\ tx' = [tx EXCEPT ![c] = FALSE]
    BY <1>1, <1>10, PerformIs
  <2>2. /\ Touches(p) /\ lock'[c] = "none" /\ ~tx'[c]
        /\ \A d \in Conns : d # c => lock'[d] = lock[d] /\ tx'[d] = tx[d]
    <3>1. NoFile \in Content /\ "none" \in states /\ FALSE \in BOOLEAN /\ disk' \in Content
      BY <1>3, <2>1, NoFileIs
    <3> QED
      BY <1>7, <2>1, <3>1
  <2>3. Locks'
    BY <1>2, <2>2 DEF Locks, Writing
  <2>4. pc'[p] = 0
    BY <1>3, <1>4, <1>10
  <2> QED
    BY <1>4, <1>10, <2>2, <2>3, <2>4, TouchesKeeps DEF InJob
<1>11. CASE s.op = "read"
  <2> DEFINE newLock == IF lock[c] = "none" /\ tx[c] THEN "shared" ELSE lock[c]
  <2>1. lock' = [lock EXCEPT ![c] = newLock] /\ UNCHANGED <<disk, buf, tx>>
    BY <1>1, <1>11, PerformIs
  <2>2. /\ newLock \in states
        /\ newLock \in {"reserved", "pending"} => newLock = lock[c]
        /\ ~tx[c] => newLock = lock[c]
    BY <1>3
  <2> HIDE DEF newLock
  <2>3. /\ Touches(p) /\ lock'[c] = newLock
        /\ \A d \in Conns : d # c => lock'[d] = lock[d]
    <3>1. buf' = [buf EXCEPT ![c] = buf[c]] /\ tx' = [tx EXCEPT ![c] = tx[c]]
      BY <1>6, <2>1
    <3>2. buf[c] \in Content /\ tx[c] \in BOOLEAN /\ disk' \in Content
      BY <1>3, <1>6, <2>1
    <3> QED
      BY <1>7, <2>1, <2>2, <3>1, <3>2
  <2>4. Locks'
    BY <1>2, <2>1, <2>2, <2>3 DEF Locks, Writing
  <2>5. pc'[p] # 0 => Linked(p, buf[Conn(p)])'
    BY <1>1, <1>3, <1>4, <1>11, LinkedLater DEF Moved
  <2> QED
    BY <1>4, <1>11, <2>3, <2>4, <2>5, TouchesKeeps DEF InJob
<1>12. CASE s.op \notin {"begin", "commit", "read"} /\ tx[c]
  <2> DEFINE newLock == IF lock[c] = "pending" THEN lock[c] ELSE "reserved"
  <2>1. buf' = [buf EXCEPT ![c] = u] /\ lock' = [lock EXCEPT ![c] = newLock]
        /\ UNCHANGED <<disk, tx>>
    BY <1>1, <1>12, PerformIs DEF u
  <2>2. newLock \in {"reserved", "pending"}
    OBVIOUS
  <2> HIDE DEF newLock
  <2>3. /\ Touches(p) /\ lock'[c] = newLock /\ buf'[c] = u /\ tx'[c]
        /\ \A d \in Conns : d # c => lock'[d] = lock[d]
    <3>1. tx' = [tx EXCEPT ![c] = tx[c]] /\ tx[c] \in BOOLEAN /\ disk' \in Content
      BY <1>3, <1>6, <2>1
    <3> QED
      BY <1>5, <1>7, <1>12, <2>1, <2>2, <3>1
  <2>4. Defined(s, View(c)) /\ Writable(c)
    BY <1>1, <1>12 DEF Succeeds
  <2>5. \A d \in Conns : d # c => ~Writing(d)
    BY <1>2, <1>3, <2>4 DEF Locks, Writable
  <2>6. Locks'
    <3>1. \A d \in Conns : d # c => lock'[d] \notin {"reserved", "pending"}
      BY <2>3, <2>5 DEF Writing
    <3> QED
      BY <1>2, <1>12, <2>1, <2>3, <3>1 DEF Locks, Writing
  <2>7. InJob(p)
    BY <1>1, <1>8, <1>12 DEF InJob
  <2>8. pc'[p] # 0 => Linked(p, buf[Conn(p)])'
    <3>1. Writing(Conn(p))'
      BY <1>1, <2>2, <2>3 DEF Writing, c, Conn
    <3> QED
      BY <1>1, <1>3, <1>12, <2>3, <2>4, <2>7, <3>1, WrittenLinks DEF c, s, u, Moved
  <2> QED
    BY <2>3, <2>6, <2>7, <2>8, TouchesKeeps DEF InJob
<1>13. CASE s.op \notin {"begin", "commit", "read"} /\ ~tx[c]
  <2>1. disk' = u /\ UNCHANGED <<buf, lock, tx>>
    BY <1>1, <1>13, PerformIs DEF u
  <2>2. Touches(p) /\ tx'[c] = tx[c]
    <3>1. /\ buf' = [buf EXCEPT ![c] = buf[c]] /\ lock' = [lock EXCEPT ![c] = lock[c]]
          /\ tx' = [tx EXCEPT ![c] = tx[c]]
          /\ buf[c] \in Content /\ lock[c] \in states /\ tx[c] \in BOOLEAN /\ disk' \in Content
      BY <1>3, <1>5, <1>6, <2>1
    <3> QED
      BY <1>7, <2>1, <3>1
  <2>3. Locks'
    BY <2>1, SameLocks
  <2> QED
    BY <1>13, <2>2, <2>3, TouchesKeeps DEF c
<1> QED
  BY <1>9, <1>10, <1>11, <1>12, <1>13
-----------------------------------------------------------------------------
LEMMA InitKeeps == Init => IInv
<1> SUFFICES ASSUME Init PROVE IInv
  OBVIOUS
<1>1. /\ disk = NoFile /\ buf = [c \in Conns |-> NoFile]
      /\ lock = [c \in Conns |-> "none"] /\ tx = [c \in Conns |-> FALSE]
      /\ opened = [p \in Procs |-> 0] /\ db = [p \in Procs |-> 0]
      /\ job = [p \in Procs |-> "Load"] /\ pc = [p \in Procs |-> 0]
      /\ id = [p \in Procs |-> 0] /\ result = [p \in Procs |-> "none"]
      /\ jobs = 0 /\ faults = 0 /\ exits = 0
  BY DEF Init
<1>2. TypeOK
  <2>1. 0 \in 0 .. MaxLoads
    BY SessionAssumption
  <2>2. \A p \in Procs : pc[p] \in 0 .. Len(Program(job[p]))
    <3> TAKE p \in Procs
    <3>1. job[p] = "Load" /\ pc[p] = 0
      BY <1>1
    <3>2. 0 \in 0 .. Len(Program("Load"))
      BY LoadProgram
    <3> QED
      BY <3>1, <3>2
  <2> QED
    BY <1>1, <2>1, <2>2, NoFileIs DEF TypeOK
<1>3. Locks
  BY <1>1 DEF Locks, Writing
<1>4. \A p \in Procs : InOrder(p)
  <2> SUFFICES ASSUME NEW p \in Procs PROVE InOrder(p)
    OBVIOUS
  <2>1. \A n \in 1 .. MaxLoads : ~tx[<<p, n>>]
    BY <1>1 DEF Conns
  <2>2. db[p] = 0 /\ opened[p] = 0 /\ ~Running(p)
    BY <1>1 DEF Running
  <2> QED
    BY <2>1, <2>2 DEF InOrder, InJob
<1> QED
  BY <1>1, <1>2, <1>3, <1>4 DEF IInv

LEMMA NextKeeps == IInv /\ [Next]_vars => IInv'
<1> SUFFICES ASSUME IInv, [Next]_vars PROVE IInv'
  OBVIOUS
<1>1. CASE Next
  <2>1. PICK p \in Procs :
          \/ Open(p) \/ OpenFails(p)
          \/ \E kind \in {"Rebuild", "Update"} : Start(p, kind)
          \/ StatementOk(p) \/ StatementRefused(p)
          \/ StatementFails(p) \/ StatementRollsBack(p) \/ ScanThrows(p) \/ NoClasses(p)
          \/ Query(p)
          \/ Exit(p)
    BY <1>1 DEF Next
  <2> QED
    BY <2>1, OpenKeeps, OpenFailsKeeps, StartKeeps, StatementOkKeeps, StatementRefusedKeeps,
       StatementFailsKeeps, StatementRollsBackKeeps, ScanThrowsKeeps, QueryKeeps, ExitKeeps
<1>2. CASE UNCHANGED vars
  BY <1>2 DEF vars, IInv, TypeOK, Locks, Writing, InOrder, InJob, Running, Left, Linked, Conn
<1> QED
  BY <1>1, <1>2

LEMMA Inductive == Spec => []IInv
BY InitKeeps, NextKeeps, PTL DEF Spec

(* Whatever fails and whoever else has the project open, every process is  *)
(* at a statement of the job it runs, and the file, the connections and    *)
(* the counters have the values they are meant to have.                    *)
THEOREM TypeCorrect == Spec => []TypeOK
<1>1. IInv => TypeOK
  BY DEF IInv
<1> QED
  BY <1>1, Inductive, PTL

-----------------------------------------------------------------------------
(* What a job returns 0 for is its commit.                                 *)
LEMMA OkIsCommit ==
  ASSUME IInv, Next, NEW p \in Procs, InJob(p), result'[p] = "ok"
  PROVE  StatementOk(p) /\ Left(p) = 0
<1>1. PICK q \in Procs :
        \/ Open(q) \/ OpenFails(q)
        \/ \E kind \in {"Rebuild", "Update"} : Start(q, kind)
        \/ StatementOk(q) \/ StatementRefused(q)
        \/ StatementFails(q) \/ StatementRollsBack(q) \/ ScanThrows(q) \/ NoClasses(q)
        \/ Query(q)
        \/ Exit(q)
  BY DEF Next
<1>2. result[p] = "none" /\ Running(p) /\ result \in [Procs -> {"none", "ok", "failed"}]
  BY DEF IInv, InOrder, InJob, TypeOK
<1>3. CASE Open(q) \/ OpenFails(q) \/ Exit(q) \/ Query(q)
           \/ ScanThrows(q) \/ \E kind \in {"Rebuild", "Update"} : Start(q, kind)
  BY <1>2, <1>3 DEF Open, OpenFails, Start, Exit, Query, ScanThrows, Return
<1>4. CASE Running(q) /\ Yields(q)
  BY <1>2, <1>4, GiveUpMoves DEF Moved
<1>5. CASE StatementOk(q)
  <2>1. Running(q) /\ Advance(q)
    BY <1>5 DEF StatementOk
  <2>2. Moved(q) /\ (pc'[q] = 0 <=> Left(q) = 0)
    BY <2>1, AdvanceMoves
  <2> QED
    BY <1>2, <1>5, <2>2 DEF Moved
<1>6. StatementRefused(q) \/ StatementFails(q) \/ StatementRollsBack(q) \/ NoClasses(q)
      => Running(q) /\ Yields(q)
  BY DEF StatementRefused, StatementFails, StatementRollsBack, NoClasses, Yields
<1> QED
  BY <1>1, <1>3, <1>4, <1>5, <1>6

LEMMA CommitStores ==
  ASSUME IInv, NEW p \in Procs, InJob(p), StatementOk(p), Left(p) = 0
  PROVE  /\ tx[Conn(p)] /\ Writing(Conn(p)) /\ Conn(p) \in Conns
         /\ disk' = buf[Conn(p)] /\ buf[Conn(p)] \in Content
         /\ Tables \subseteq buf[Conn(p)].has
         /\ buf[Conn(p)].from = <<buf[Conn(p)].list, buf[Conn(p)].decl>>
         /\ ~tx'[Conn(p)] /\ lock'[Conn(p)] = "none"
<1> DEFINE c == Conn(p)
           s == Statement(p)
<1>1. /\ Running(p) /\ db[p] # 0 /\ Succeeds(c, s) /\ Perform(c, s, id[p])
  BY DEF StatementOk
<1>2. TypeOK
  BY DEF IInv
<1>3. s.op = "commit"
  <2>1. Left(p) = 0 /\ Placed(s, pc[p], Left(p))
    BY <1>1, <1>2, PlacesAre
  <2> QED
    BY <2>1 DEF Placed, Must
<1>4. c \in Conns /\ tx[c]
  BY <1>1, <1>2, <1>3, ConnIs DEF Succeeds
<1>5. Linked(p, buf[c])
  BY <1>1, <1>4 DEF IInv, InOrder
<1>6. Writing(c) /\ {"list", "decl", "links", "temp"} \subseteq buf[c].has
      /\ buf[c].from = <<buf[c].list, buf[c].decl>>
  BY <1>5 DEF Linked
<1>7. buf[c] \in Content
  BY <1>2, <1>4 DEF TypeOK
<1>8. Tables \subseteq buf[c].has
  BY <1>6, <1>7 DEF Content, Tables
<1>9. disk' = buf[c]
  BY <1>1, <1>3, <1>4, <1>6, PerformIs DEF View
<1>10. lock' = [lock EXCEPT ![c] = "none"] /\ tx' = [tx EXCEPT ![c] = FALSE]
  BY <1>1, <1>3, PerformIs
<1> HIDE DEF c
<1>11. ~tx'[c] /\ lock'[c] = "none"
  BY <1>2, <1>4, <1>10 DEF TypeOK
<1> QED
  BY <1>4, <1>6, <1>7, <1>8, <1>9, <1>11 DEF c

(* A Rebuild or an Update that returns 0 has stored tables and links that  *)
(* belong together and left no transaction open -- for any number of       *)
(* instances, connections and failing calls, rollbacks by SQLite halfway   *)
(* through the job among them.                                             *)
THEOREM OkAlwaysStored == Spec => OkMeansStored
<1> DEFINE Stored(p) ==
      job[p] # "Load" /\ Running(p) /\ result'[p] = "ok" =>
        /\ Tables \subseteq disk'.has
        /\ disk'.from = <<disk'.list, disk'.decl>>
        /\ \A c \in Conns : c = Conn(p) => ~tx'[c] /\ lock'[c] = "none"
<1>1. IInv /\ [Next]_vars => [\A p \in Procs : Stored(p)]_vars
  <2> SUFFICES ASSUME IInv, Next, NEW p \in Procs, InJob(p), result'[p] = "ok"
               PROVE  Stored(p)
    BY DEF InJob
  <2>1. StatementOk(p) /\ Left(p) = 0
    BY OkIsCommit
  <2> QED
    BY <2>1, CommitStores
<1> QED
  BY <1>1, Inductive, PTL DEF Spec, OkMeansStored
-----------------------------------------------------------------------------
(* Without a rollback by SQLite a job stays in its transaction once that   *)
(* has begun, and its view of the file differs from the file by its own    *)
(* writes only: nobody else changes the file while it writes.              *)
Transaction(p) ==
  InJob(p) /\ pc[p] > 3 =>
    /\ db[p] # 0 /\ tx[Conn(p)]
    /\ Writing(Conn(p)) => FromJob(buf[Conn(p)], disk, id[p])

Transactions == \A p \in Procs : Transaction(p)

Step(p) ==
  \/ Open(p) \/ OpenFails(p)
  \/ \E kind \in {"Rebuild", "Update"} : Start(p, kind)
  \/ StatementOk(p) \/ StatementRefused(p)
  \/ StatementFails(p) \/ StatementRollsBack(p) \/ ScanThrows(p) \/ NoClasses(p)
  \/ Query(p)
  \/ Exit(p)

LEMMA StepOnlyBy ==
  ASSUME IInv, NEW p \in Procs, Step(p)
  PROVE  OnlyBy(p)
<1> DEFINE c == Conn(p)
<1>1. TypeOK /\ pc = [q \in Procs |-> pc[q]] /\ c[1] = p /\ (db[p] # 0 => c \in Conns)
  BY ConnIs DEF IInv
<1> HIDE DEF c
<1>2. CASE Open(p) \/ OpenFails(p) \/ Exit(p) \/ ScanThrows(p)
           \/ \E kind \in {"Rebuild", "Update"} : Start(p, kind)
  <2>1. CASE Exit(p)
    BY <1>1, <2>1 DEF Exit, OnlyBy, TypeOK
  <2>2. CASE Open(p) \/ OpenFails(p) \/ ScanThrows(p)
             \/ \E kind \in {"Rebuild", "Update"} : Start(p, kind)
    <3>1. UNCHANGED <<buf, lock, tx>>
      BY <2>2 DEF Open, OpenFails, ScanThrows, Start, conns
    <3>2. CASE Open(p) \/ \E kind \in {"Rebuild", "Update"} : Start(p, kind)
      BY <1>1, <3>1, <3>2 DEF Open, Start, OnlyBy, TypeOK
    <3>3. CASE OpenFails(p) \/ ScanThrows(p)
      BY <1>1, <3>1, <3>3 DEF OpenFails, ScanThrows, Return, OnlyBy, TypeOK
    <3> QED
      BY <2>2, <3>2, <3>3
  <2> QED
    BY <1>2, <2>1, <2>2
<1>3. CASE Query(p)
  <2>1. lock' = [lock EXCEPT ![c] = IF lock[c] = "none" /\ tx[c] THEN "shared" ELSE lock[c]]
    BY <1>3 DEF Query, c
  <2>2. \A d \in Conns : d # c => lock'[d] = lock[d]
    BY <1>1, <2>1 DEF TypeOK
  <2> QED
    BY <1>1, <1>3, <2>2 DEF Query, OnlyBy
<1>4. CASE /\ Moved(p) /\ UNCHANGED <<opened, db, job, id>>
           /\ \A d \in Conns : d # c => buf'[d] = buf[d] /\ lock'[d] = lock[d] /\ tx'[d] = tx[d]
  BY <1>1, <1>4 DEF Moved, OnlyBy
<1>5. CASE StatementOk(p)
  <2>1. /\ Running(p) /\ db[p] # 0 /\ Advance(p) /\ Perform(c, Statement(p), id[p])
        /\ UNCHANGED <<opened, db, job, id>>
    BY <1>5 DEF StatementOk, c
  <2>2. \A d \in Conns : d # c => buf'[d] = buf[d] /\ lock'[d] = lock[d] /\ tx'[d] = tx[d]
    <3> DEFINE s == Statement(p)
    <3> HIDE DEF s
    <3>1. Perform(c, s, id[p])
      BY <2>1 DEF s
    <3>2. /\ buf \in [Conns -> Content] /\ tx \in [Conns -> BOOLEAN]
          /\ lock \in [Conns -> {"none", "shared", "reserved", "pending"}] /\ c \in Conns
      BY <1>1, <2>1 DEF TypeOK
    <3>3. CASE s.op = "begin"
      BY <3>1, <3>2, <3>3, PerformIs
    <3>4. CASE s.op = "commit"
      BY <3>1, <3>2, <3>4, PerformIs
    <3>5. CASE s.op = "read"
      BY <3>1, <3>2, <3>5, PerformIs
    <3>6. CASE s.op \notin {"begin", "commit", "read"}
      BY <3>1, <3>2, <3>6, PerformIs
    <3> QED
      BY <3>3, <3>4, <3>5, <3>6
  <2> QED
    BY <1>4, <2>1, <2>2, AdvanceMoves
<1>6. CASE StatementRefused(p)
  <2>1. /\ Running(p) /\ Yields(p) /\ UNCHANGED <<opened, db, job, id, buf, tx>>
    BY <1>6 DEF StatementRefused, Yields
  <2>2. \A d \in Conns : d # c => lock'[d] = lock[d]
    BY <1>6, RefusedLocks DEF c
  <2> QED
    BY <1>4, <2>1, <2>2, GiveUpMoves
<1>7. CASE StatementFails(p) \/ NoClasses(p)
  <2>1. Running(p) /\ Yields(p) /\ UNCHANGED <<opened, db, job, id, buf, lock, tx>>
    BY <1>7 DEF StatementFails, NoClasses, Yields, conns
  <2> QED
    BY <1>4, <2>1, GiveUpMoves
<1>8. CASE StatementRollsBack(p)
  <2>1. /\ Running(p) /\ Yields(p) /\ UNCHANGED <<opened, db, job, id>>
        /\ buf' = [buf EXCEPT ![c] = NoFile]
        /\ lock' = [lock EXCEPT ![c] = "none"]
        /\ tx' = [tx EXCEPT ![c] = FALSE]
    BY <1>8 DEF StatementRollsBack, Yields, c
  <2>2. \A d \in Conns : d # c => buf'[d] = buf[d] /\ lock'[d] = lock[d] /\ tx'[d] = tx[d]
    BY <1>1, <2>1 DEF TypeOK
  <2> QED
    BY <1>4, <2>1, <2>2, GiveUpMoves
<1> QED
  BY <1>2, <1>3, <1>5, <1>6, <1>7, <1>8 DEF Step

(* Who changes the file writes alone.                                      *)
LEMMA OneWriter ==
  ASSUME IInv, NEW p \in Procs, Step(p), disk' # disk, NEW d \in Conns, Writing(d)
  PROVE  StatementOk(p) /\ d = Conn(p)
<1> DEFINE c == Conn(p)
           s == Statement(p)
<1>1. StatementOk(p)
  BY DEF Step, Open, OpenFails, Start, StatementRefused, StatementFails, StatementRollsBack,
         ScanThrows, NoClasses, Query, Exit
<1>2. Succeeds(c, s) /\ Perform(c, s, id[p]) /\ db[p] # 0
  BY <1>1 DEF StatementOk
<1>3. c \in Conns /\ Locks
  BY <1>2, ConnIs DEF IInv
<1> HIDE DEF c, s
<1>4. CASE s.op = "commit"
  <2>1. disk' = View(c)
    BY <1>2, <1>4, PerformIs
  <2>2. Writing(c)
    BY <2>1 DEF View
  <2> QED
    BY <1>1, <1>3, <2>2 DEF Locks, c
<1>5. CASE s.op \in {"begin", "read"}
  BY <1>2, <1>5, PerformIs
<1>6. CASE s.op \notin {"begin", "commit", "read"}
  <2>1. Writable(c)
    BY <1>2, <1>6 DEF Succeeds
  <2> QED
    BY <1>1, <1>3, <2>1 DEF Writable, Locks, c
<1> QED
  BY <1>4, <1>5, <1>6

LEMMA OthersTransactions ==
  ASSUME IInv, Transactions, NEW p \in Procs, Step(p), NEW q \in Procs, q # p
  PROVE  Transaction(q)'
<1>1. /\ db'[q] = db[q] /\ job'[q] = job[q] /\ pc'[q] = pc[q] /\ id'[q] = id[q]
      /\ \A c \in Conns : c[1] = q => buf'[c] = buf[c] /\ lock'[c] = lock[c] /\ tx'[c] = tx[c]
  BY StepOnlyBy DEF OnlyBy
<1>2. Conn(q)[1] = q /\ Conn(p)[1] = p /\ (db[q] # 0 => Conn(q) \in Conns)
  BY ConnIs DEF IInv
<1>3. Conn(q)' = Conn(q) /\ (InJob(q)' <=> InJob(q))
  BY <1>1 DEF Conn, InJob, Running
<1>4. Transaction(q)
  BY DEF Transactions
<1>5. db[q] # 0 /\ Writing(Conn(q)) => disk' = disk
  BY <1>2, OneWriter
<1> QED
  BY <1>1, <1>2, <1>3, <1>4, <1>5 DEF Transaction, Writing
LEMMA SuccessKeepsTransaction ==
  ASSUME IInv, NEW p \in Procs, Transaction(p), StatementOk(p)
  PROVE  Transaction(p)'
<1> DEFINE c == Conn(p)
           s == Statement(p)
           u == Effect(s, View(c), id[p])
<1>1. /\ Running(p) /\ db[p] # 0 /\ Succeeds(c, s) /\ Advance(p) /\ Perform(c, s, id[p])
      /\ UNCHANGED <<opened, db, job, id>>
  BY DEF StatementOk
<1>2. TypeOK /\ Locks /\ Moved(p) /\ (pc'[p] = 0 <=> Left(p) = 0)
  BY <1>1, AdvanceMoves DEF IInv
<1> SUFFICES ASSUME InJob(p), pc'[p] # 0, pc'[p] > 3
             PROVE  tx'[c] /\ (Writing(c)' => FromJob(buf'[c], disk', id[p]))
  <2>1. InJob(p)' => InJob(p) /\ (pc'[p] > 3 => pc'[p] # 0)
    BY <1>1 DEF InJob
  <2>2. c' = c
    BY <1>1 DEF Conn
  <2> QED
    BY <1>1, <2>1, <2>2 DEF Transaction, Writing, InJob, Running
<1>3. /\ s \in Statements /\ Left(p) \in Nat /\ Left(p) # 0 /\ pc[p] \in Nat /\ pc[p] >= 1
      /\ s.op = "delete" => s.table \in {"list", "decl"}
      /\ s.op \notin {"drop", "create", "index", "commit"}
      /\ Placed(s, pc[p], Left(p)) /\ pc[p] >= 3
  BY <1>1, <1>2, PlacesAre, StatementIs DEF Moved
<1>4. /\ c \in Conns /\ View(c) \in Content /\ id[p] \in Nat
      /\ lock \in [Conns -> {"none", "shared", "reserved", "pending"}]
      /\ tx \in [Conns -> BOOLEAN] /\ buf \in [Conns -> Content]
  BY <1>1, <1>2, ConnIs, ViewIs DEF TypeOK
<1>5. pc[p] > 3 => tx[c] /\ (Writing(c) => FromJob(buf[c], disk, id[p]))
  BY DEF Transaction
<1>6. CASE s.op = "begin"
  <2>1. UNCHANGED <<disk, buf, lock>> /\ tx' = [tx EXCEPT ![c] = TRUE]
    BY <1>1, <1>6, PerformIs
  <2>2. ~tx[c]
    BY <1>1, <1>6 DEF Succeeds
  <2>3. lock'[c] = "none"
    BY <1>2, <1>4, <2>1, <2>2 DEF Locks
  <2>4. tx'[c]
    <3> HIDE DEF c
    <3> QED
      BY <1>4, <2>1
  <2> QED
    BY <1>1, <2>3, <2>4 DEF Writing, Conn
<1>7. s.op # "begin" => pc[p] > 3
  <2>1. pc[p] = 3 => s.op = "begin"
    BY <1>3 DEF Placed
  <2> QED
    BY <1>3, <2>1
<1> HIDE DEF c, s, u
<1>8. CASE s.op = "read"
  <2>1. /\ lock' = [lock EXCEPT ![c] = IF lock[c] = "none" /\ tx[c] THEN "shared" ELSE lock[c]]
        /\ UNCHANGED <<disk, buf, tx>>
    BY <1>1, <1>8, PerformIs
  <2>2. lock'[c] \in {"reserved", "pending"} => lock[c] \in {"reserved", "pending"}
    BY <1>4, <2>1
  <2>3. Writing(c)' => Writing(c)
    BY <1>1, <2>2 DEF Writing, c, Conn
  <2> QED
    BY <1>5, <1>7, <1>8, <2>1, <2>3
<1>9. CASE s.op \notin {"begin", "read"}
  <2>1. tx[c]
    BY <1>5, <1>7, <1>9
  <2>2. buf' = [buf EXCEPT ![c] = u] /\ UNCHANGED <<disk, tx>>
    BY <1>1, <1>3, <1>9, <2>1, PerformIs DEF u
  <2>3. FromJob(u, View(c), id[p])
    <3>1. u = Effect(s, View(c), id[p])
      BY DEF u
    <3>2. s.op \notin {"drop", "create", "index"}
      BY <1>3
    <3> QED
      BY <1>3, <1>4, <3>1, <3>2, EffectIs
  <2>4. FromJob(View(c), disk, id[p])
    <3>1. CASE Writing(c)
      BY <1>5, <1>7, <1>9, <2>1, <3>1 DEF View
    <3>2. CASE ~Writing(c)
      BY <3>2 DEF View, FromJob
    <3> QED
      BY <3>1, <3>2
  <2>5. FromJob(u, disk, id[p])
    BY <2>3, <2>4 DEF FromJob
  <2> QED
    BY <1>4, <2>1, <2>2, <2>5
<1> QED
  BY <1>8, <1>9, <1>6

LEMMA OwnTransaction ==
  ASSUME IInv, Transactions, "rollback" \notin Faults, NEW p \in Procs, Step(p)
  PROVE  Transaction(p)'
<1>1. Transaction(p) /\ TypeOK /\ pc = [q \in Procs |-> pc[q]]
  BY DEF Transactions, IInv
<1>2. CASE \/ Open(p) \/ OpenFails(p) \/ Exit(p) \/ Query(p) \/ ScanThrows(p)
           \/ \E kind \in {"Rebuild", "Update"} : Start(p, kind)
  <2>1. ~(InJob(p)' /\ pc'[p] > 3)
    <3>1. CASE Open(p) \/ \E kind \in {"Rebuild", "Update"} : Start(p, kind)
      <4>1. pc' = [pc EXCEPT ![p] = 1]
        BY <3>1 DEF Open, Start
      <4>2. pc'[p] = 1
        BY <1>1, <4>1
      <4> QED
        BY <4>2
    <3>2. CASE OpenFails(p) \/ Exit(p) \/ ScanThrows(p)
      <4>1. pc' = [pc EXCEPT ![p] = 0]
        BY <3>2 DEF OpenFails, Exit, ScanThrows, Return
      <4>2. pc'[p] = 0
        BY <1>1, <4>1
      <4> QED
        BY <4>2
    <3>3. CASE Query(p)
      BY <3>3 DEF Query, InJob, Running
    <3> QED
      BY <1>2, <3>1, <3>2, <3>3
  <2> QED
    BY <2>1 DEF Transaction
<1>3. CASE StatementOk(p)
  BY <1>1, <1>3, SuccessKeepsTransaction
<1>4. CASE StatementRefused(p) \/ StatementFails(p) \/ NoClasses(p)
  <2>1. /\ Running(p) /\ Yields(p) /\ UNCHANGED <<disk, buf, tx, db, job, id>>
    BY <1>4 DEF StatementRefused, StatementFails, NoClasses, Yields, conns
  <2>2. InJob(p)' /\ pc'[p] > 3 => InJob(p) /\ pc[p] > 3
    <3>1. InJob(p)' => InJob(p) /\ pc'[p] # 0
      <4>1. pc'[p] > 0 => pc'[p] # 0
        OBVIOUS
      <4> QED
        BY <2>1, <4>1 DEF InJob, Running
    <3> QED
      BY <2>1, <3>1, GiveUpMoves
  <2>3. Writing(Conn(p))' => Writing(Conn(p))
    <3>1. Conn(p)' = Conn(p)
      BY <2>1 DEF Conn
    <3>2. CASE StatementFails(p) \/ NoClasses(p)
      BY <3>1, <3>2 DEF StatementFails, NoClasses, conns, Writing
    <3>3. CASE StatementRefused(p)
      <4> DEFINE c == Conn(p)
      <4>1. \/ lock' = lock
            \/ lock'[c] \in {"reserved", "pending"} => lock[c] \in {"reserved", "pending"}
        BY <3>3, RefusedLocks
      <4> QED
        BY <3>1, <4>1 DEF Writing
    <3> QED
      BY <1>4, <3>2, <3>3
  <2>4. Conn(p)' = Conn(p)
    BY <2>1 DEF Conn
  <2> QED
    BY <1>1, <2>1, <2>2, <2>3, <2>4 DEF Transaction
<1>5. ~StatementRollsBack(p)
  BY DEF StatementRollsBack, Fault
<1> QED
  BY <1>2, <1>3, <1>4, <1>5 DEF Step
LEMMA RecordOf ==
  ASSUME NEW t \in Content
  PROVE  t = [has |-> t.has, list |-> t.list, decl |-> t.decl, from |-> t.from]
BY DEF Content

(* A job changes the file by its commit only.                              *)
LEMMA CommitIsStore ==
  ASSUME IInv, Transactions, NEW p \in Procs, InJob(p), StatementOk(p), Left(p) = 0
  PROVE  Store!Store
<1> DEFINE t == buf[Conn(p)]
<1>1. /\ disk' = t /\ t \in Content /\ Tables \subseteq t.has /\ t.from = <<t.list, t.decl>>
      /\ Writing(Conn(p))
  BY CommitStores
<1>2. pc[p] > 3
  <2>1. Running(p) /\ TypeOK
    BY DEF IInv, InJob
  <2>2. pc[p] \in Nat /\ Placed(Statement(p), pc[p], Left(p))
    BY <2>1, StatementIs
  <2> QED
    BY <2>2 DEF Placed
<1>3. FromJob(t, disk, id[p])
  BY <1>1, <1>2 DEF Transactions, Transaction
<1>4. id[p] \in 1 .. MaxJobs
  BY DEF IInv, InOrder
<1>5. t = [has |-> disk.has, list |-> t.list, decl |-> t.decl, from |-> <<t.list, t.decl>>]
  BY <1>1, <1>3, RecordOf DEF FromJob
<1> HIDE DEF t
<1>6. /\ t.list \in {disk.list, id[p], 0} /\ t.decl \in {disk.decl, id[p], 0}
      /\ Tables \subseteq disk.has
  BY <1>1, <1>3 DEF FromJob
<1> QED
  BY <1>1, <1>4, <1>5, <1>6 DEF Store!Store

LEMMA StatementAlone ==
  ASSUME IInv, Transactions, NEW p \in Procs, StatementOk(p), disk' # disk,
         ~(InJob(p) /\ Left(p) = 0)
  PROVE  Store!Drop \/ Store!Create
<1> DEFINE c == Conn(p)
           s == Statement(p)
<1>1. /\ Running(p) /\ db[p] # 0 /\ Succeeds(c, s) /\ Perform(c, s, id[p])
  BY DEF StatementOk
<1>2. TypeOK
  BY DEF IInv
<1>3. /\ s \in Statements /\ pc[p] \in Nat /\ pc[p] >= 1
      /\ s.op # "commit"
      /\ s.op = "delete" => s.table \in {"list", "decl"}
      /\ job[p] = "Load" => s.op \in {"drop", "create", "index"}
      /\ s.op = "index" => s.table = "temp"
      /\ InJob(p) => Placed(s, pc[p], Left(p))
  <2>1. InJob(p) \/ job[p] = "Load"
    BY <1>1 DEF InJob
  <2> QED
    BY <1>1, <1>2, <2>1, PlacesAre, StatementIs
<1> HIDE DEF c, s
<1>4. s.op \notin {"begin", "commit", "read"} /\ ~tx[c]
  BY <1>1, <1>3, PerformIs
<1>5. disk' = Effect(s, disk, id[p]) /\ disk \in Content /\ id[p] \in Nat
  BY <1>1, <1>2, <1>4, PerformIs DEF View, TypeOK
<1>6. CASE job[p] # "Load"
  <2>1. InJob(p)
    BY <1>1, <1>6 DEF InJob
  <2>2. pc[p] \in {1, 2, 3}
    BY <1>3, <1>4, <2>1 DEF Transactions, Transaction, c
  <2>3. s.op = "mark"
    BY <1>3, <1>4, <2>1, <2>2 DEF Placed
  <2> QED
    BY <1>3, <1>5, <2>3, EffectIs
<1>7. CASE s.op = "drop"
  <2> DEFINE table == s.table
  <2>1. table \in Tables
    BY <1>3 DEF Statements
  <2>2. disk' = [disk EXCEPT !.has = disk.has \ Gone(table),
                             !.list = IF table = "list" THEN 0 ELSE disk.list,
                             !.decl = IF table = "decl" THEN 0 ELSE disk.decl,
                             !.from = IF table = "links" THEN <<0, 0>> ELSE disk.from]
    BY <1>5, <1>7 DEF Effect, Upserts
  <2> HIDE DEF table
  <2>3. disk' = [has |-> disk.has \ Gone(table),
                 list |-> IF table = "list" THEN 0 ELSE disk.list,
                 decl |-> IF table = "decl" THEN 0 ELSE disk.decl,
                 from |-> IF table = "links" THEN <<0, 0>> ELSE disk.from]
    BY <1>5, <2>2 DEF Content
  <2> QED
    BY <2>1, <2>3 DEF Store!Drop, Gone
<1>8. CASE s.op = "create"
  <2>1. Defined(s, disk)
    BY <1>1, <1>4 DEF Succeeds, View
  <2>2. s.table \in Tables \ disk.has /\ s.table # "index"
    BY <1>3, <1>8, <2>1 DEF Defined, Statements, Tables
  <2>3. disk' = [disk EXCEPT !.has = disk.has \cup {s.table}]
    BY <1>5, <1>8 DEF Effect, Upserts
  <2> QED
    BY <2>2, <2>3 DEF Store!Create
<1>9. CASE s.op = "index"
  <2>1. Defined(s, disk)
    BY <1>1, <1>4, <1>9 DEF Succeeds, View
  <2>2. s.table = "temp"
    BY <1>3, <1>9
  <2>3. "index" \notin disk.has /\ "temp" \in disk.has
    BY <1>9, <2>1, <2>2 DEF Defined, Needs
  <2>4. disk' = [disk EXCEPT !.has = disk.has \cup {"index"}]
    BY <1>5, <1>9 DEF Effect, Upserts
  <2> QED
    BY <2>3, <2>4 DEF Store!Create
<1> QED
  BY <1>3, <1>6, <1>7, <1>8, <1>9

LEMMA OwnTransactions ==
  ASSUME "rollback" \notin Faults
  PROVE  IInv /\ Transactions /\ [Next]_vars => Transactions' /\ [Store!Next]_disk
<1> SUFFICES ASSUME IInv, Transactions, [Next]_vars
             PROVE  Transactions' /\ [Store!Next]_disk
  OBVIOUS
<1>1. CASE Next
  <2>1. PICK p \in Procs : Step(p)
    BY <1>1 DEF Next, Step
  <2>2. Transactions'
    <3> SUFFICES ASSUME NEW q \in Procs PROVE Transaction(q)'
      BY DEF Transactions
    <3>1. CASE q = p
      BY <2>1, <3>1, OwnTransaction
    <3>2. CASE q # p
      BY <2>1, <3>2, OthersTransactions
    <3> QED
      BY <3>1, <3>2
  <2>3. StatementOk(p) => disk' = disk \/ Store!Next
    BY CommitIsStore, StatementAlone DEF Store!Next
  <2>4. ~StatementOk(p) => disk' = disk
    BY <2>1 DEF Step, Open, OpenFails, Start, StatementRefused, StatementFails,
                StatementRollsBack, ScanThrows, NoClasses, Query, Exit
  <2> QED
    BY <2>2, <2>3, <2>4
<1>2. CASE UNCHANGED vars
  <2>1. Transactions'
    BY <1>2 DEF vars, Transactions, Transaction, InJob, Running, Writing, Conn, FromJob
  <2> QED
    BY <1>2, <2>1 DEF vars
<1> QED
  BY <1>1, <1>2

(* Session implements JobStore: the file changes by whole jobs, whatever   *)
(* they are interrupted by and whoever else has the project open.  Of the  *)
(* faults a rollback by SQLite halfway through a job is left out: the      *)
(* statements after it are then stored one by one, which is no step of     *)
(* JobStore.                                                               *)
THEOREM JobsAtomic ==
  ASSUME "rollback" \notin Faults
  PROVE  Spec => AtomicJobs
<1>1. Init => Store!Init /\ Transactions
  BY DEF Init, Store!Init, NoFile, Store!NoFile, Transactions, Transaction, InJob, Running
<1>2. IInv /\ Transactions /\ [Next]_vars => Transactions' /\ [Store!Next]_disk
  BY OwnTransactions
<1> QED
  BY <1>1, <1>2, Inductive, PTL DEF Spec, AtomicJobs, Store!Spec
-----------------------------------------------------------------------------
(* LoadIntelisense statement by statement, and the upserts of a Rebuild.   *)
Order == <<"list", "decl", "links", "temp">>

LEMMA OrderIs ==
  /\ \A i \in 1 .. 4 : Order[i] \in Tables
  /\ \A i, j \in 1 .. 4 : Order[i] = Order[j] => i = j
  /\ \A table \in Tables : \E i \in 1 .. 4 : table = Order[i]
BY DEF Order, Tables

LoadStep(s, k) ==
  /\ k <= 4 => s = May("drop", Order[k])
  /\ k > 4 /\ k <= 8 => s = Must("create", Order[k - 4])
  /\ k > 8 => s = Must("index", "temp")

LEMMA LoadSteps ==
  \A k \in 1 .. 9 : LoadStep(Program("Load")[k], k)
<1>1. Program("Load") =
        <<May("drop", "list"), May("drop", "decl"), May("drop", "links"),
          May("drop", "temp"),
          Must("create", "list"), Must("create", "decl"), Must("create", "links"),
          Must("create", "temp"), Must("index", "temp")>>
  BY DEF Program, InitDatabase
<1>2. Order[1] = "list" /\ Order[2] = "decl" /\ Order[3] = "links" /\ Order[4] = "temp"
  BY DEF Order
<1>3. ASSUME NEW k \in 1 .. 9 PROVE LoadStep(Program("Load")[k], k)
  <2>1. CASE k \in {1, 2, 3, 4}
    BY <1>1, <1>2, <2>1 DEF LoadStep
  <2>2. CASE k \in {5, 6, 7, 8}
    BY <1>1, <1>2, <2>2 DEF LoadStep
  <2>3. CASE k = 9
    BY <1>1, <2>3 DEF LoadStep
  <2> QED
    BY <2>1, <2>2, <2>3
<1> QED
  BY <1>3

LEMMA LoadIs ==
  ASSUME TypeOK, NEW p \in Procs, Running(p), job[p] = "Load"
  PROVE  /\ pc[p] \in 1 .. 9 /\ Left(p) = 9 - pc[p]
         /\ LoadStep(Statement(p), pc[p])
<1>1. Len(Program(job[p])) = 9 /\ Program(job[p]) = Program("Load")
  BY LoadProgram
<1>2. pc[p] \in 0 .. 9 /\ pc[p] > 0
  BY <1>1 DEF TypeOK, Running
<1>3. Statement(p) = Program("Load")[pc[p]] /\ Left(p) = 9 - pc[p]
  BY <1>1, Zenon DEF Statement, Left
<1>4. pc[p] \in 1 .. 9
  BY <1>2
<1>5. LoadStep(Program("Load")[pc[p]], pc[p])
  BY <1>4, LoadSteps, Zenon
<1>6. LoadStep(Statement(p), pc[p])
  BY <1>3, <1>5, Zenon
<1> QED
  BY <1>3, <1>4, <1>6

LEMMA RebuildScans ==
  Program("Rebuild")[4] = May("scan", "decl") /\ Program("Rebuild")[5] = May("scan", "list")
<1> DEFINE a == PrepareForUpdate \o RebuildObjList
           b == a \o RebuildClassDefinition
<1>1. Program("Rebuild") = b \o CleanupDeadLinks
  BY DEF Program
<1>2. /\ PrepareForUpdate \in Seq(Statements) /\ Len(PrepareForUpdate) = 3
      /\ RebuildObjList \in Seq(Statements) /\ Len(RebuildObjList) = 2
      /\ RebuildObjList[1] = May("scan", "decl") /\ RebuildObjList[2] = May("scan", "list")
  BY DEF PrepareForUpdate, RebuildObjList, Must, May, Statements, Ops, Tables
<1>3. RebuildClassDefinition \in Seq(Statements) /\ CleanupDeadLinks \in Seq(Statements)
      /\ Len(RebuildClassDefinition) = 5
  BY CleanupIs DEF RebuildClassDefinition, May, Must, MayOrMust, Statements, Ops, Tables
<1>4. Joined(PrepareForUpdate, RebuildObjList, a)
  BY <1>2, Concat, Zenon
<1>5. a \in Seq(Statements) /\ Len(a) = 5
      /\ a[4] = May("scan", "decl") /\ a[5] = May("scan", "list")
  <2> HIDE DEF a
  <2>1. a \in Seq(Statements) /\ Len(a) = 3 + 2
    BY <1>2, <1>4 DEF Joined
  <2>2. a[3 + 1] = RebuildObjList[1] /\ a[3 + 2] = RebuildObjList[2]
    <3>1. 1 \in 1 .. 2 /\ 2 \in 1 .. 2
      OBVIOUS
    <3> QED
      BY <1>2, <1>4, <3>1 DEF Joined
  <2> QED
    BY <1>2, <2>1, <2>2
<1> HIDE DEF a
<1>6. Joined(a, RebuildClassDefinition, b)
  BY <1>3, <1>5, Concat, Zenon
<1> HIDE DEF b
<1>7. b \in Seq(Statements) /\ Len(b) = 10 /\ b[4] = a[4] /\ b[5] = a[5]
  BY <1>3, <1>5, <1>6 DEF Joined
<1>8. Joined(b, CleanupDeadLinks, Program("Rebuild"))
  BY <1>1, <1>3, <1>7, Concat, Zenon
<1> DEFINE u == Program("Rebuild")
<1> HIDE DEF u
<1>9. u[4] = b[4] /\ u[5] = b[5]
  <2>1. Joined(b, CleanupDeadLinks, u)
    BY <1>8 DEF u
  <2> QED
    BY <1>7, <2>1 DEF Joined
<1> QED
  BY <1>5, <1>7, <1>9 DEF u
-----------------------------------------------------------------------------
(* One instance on its own, before any call has failed: only its current   *)
(* connection is ever in a transaction, and in one only while a job is     *)
(* past its BEGIN, a load has dropped and created the tables before the    *)
(* statement it is at, and once one is through all tables are there.       *)
SetUpTo(k) ==
  /\ 4 < k => "index" \notin disk.has
  /\ \A i \in 1 .. 4 :
       /\ i < k /\ k <= i + 4 => Order[i] \notin disk.has
       /\ i + 4 < k => Order[i] \in disk.has

(* What a Rebuild has read is in its transaction from then on.             *)
Filled(p) ==
  InJob(p) /\ job[p] = "Rebuild" /\ pc[p] > 4 =>
    /\ Writing(Conn(p)) /\ buf[Conn(p)].decl = id[p]
    /\ pc[p] > 5 => buf[Conn(p)].list = id[p]

Ready(p) ==
  /\ result[p] # "failed"
  /\ ~(Running(p) /\ job[p] = "Load") => Tables \subseteq disk.has
  /\ InJob(p) /\ Writing(Conn(p)) => Tables \subseteq buf[Conn(p)].has
  /\ Filled(p)

Alone(p) ==
  /\ db[p] = opened[p]
  /\ \A c \in Conns : tx[c] <=> (c = Conn(p) /\ InJob(p) /\ pc[p] > 3)
  /\ Running(p) /\ job[p] = "Load" => SetUpTo(pc[p])
  /\ db[p] # 0 => Ready(p)

Unspoilt == faults = 0 => \A p \in Procs : Alone(p)

(* No statement is refused.                                                *)
LEMMA AllSucceed ==
  ASSUME IInv, NEW p \in Procs, Alone(p), Running(p), db[p] # 0
  PROVE  Succeeds(Conn(p), Statement(p))
<1> DEFINE c == Conn(p)
           s == Statement(p)
<1>1. TypeOK /\ Locks /\ c \in Conns /\ Ready(p)
      /\ (job[p] = "Load" => SetUpTo(pc[p]))
      /\ \A d \in Conns : tx[d] <=> (d = c /\ InJob(p) /\ pc[p] > 3)
  BY ConnIs DEF IInv, Alone
<1>2. \A d \in Conns : d # c => lock[d] = "none"
  BY <1>1 DEF Locks
<1>3. Readable(c) /\ Writable(c) /\ Exclusive(c)
  BY <1>1, <1>2 DEF Readable, Writable, Exclusive, Writing
<1>4. Defined(s, View(c))
  <2>1. CASE job[p] = "Load"
    <3>1. /\ pc[p] \in 1 .. 9 /\ LoadStep(s, pc[p]) /\ SetUpTo(pc[p])
      BY <1>1, <2>1, LoadIs
    <3>2. View(c) = disk
      BY <1>1, <2>1 DEF View, InJob
    <3>3. CASE pc[p] <= 4
      <4>1. s = May("drop", Order[pc[p]]) /\ Order[pc[p]] \in Tables
        BY <3>1, <3>3, OrderIs DEF LoadStep
      <4> QED
        BY <4>1 DEF May, Defined, Needs, Tables
    <3>4. CASE pc[p] > 4 /\ pc[p] <= 8
      <4> DEFINE i == pc[p] - 4
      <4>1. i \in 1 .. 4 /\ i < pc[p] /\ pc[p] <= i + 4 /\ s = Must("create", Order[i])
        BY <3>1, <3>4 DEF LoadStep
      <4> HIDE DEF i
      <4>2. Order[i] \notin disk.has
        BY <3>1, <4>1 DEF SetUpTo
      <4> QED
        BY <3>2, <4>1, <4>2, OrderIs DEF Must, Defined, Needs, Tables
    <3>5. CASE pc[p] > 8
      <4>1. 4 \in 1 .. 4 /\ 4 + 4 < pc[p] /\ Order[4] = "temp"
        BY <3>1, <3>5 DEF Order
      <4>2. "temp" \in disk.has /\ "index" \notin disk.has
        BY <3>1, <4>1 DEF SetUpTo
      <4> QED
        BY <3>1, <3>2, <3>5, <4>2 DEF LoadStep, Must, Defined, Needs
    <3> QED
      BY <3>1, <3>3, <3>4, <3>5
  <2>2. CASE job[p] # "Load"
    <3>1. InJob(p) /\ Tables \subseteq disk.has /\ (Writing(c) => Tables \subseteq buf[c].has)
      BY <1>1, <2>2 DEF InJob, Ready
    <3>2. Tables \subseteq View(c).has
      BY <3>1 DEF View
    <3>3. s \in Statements /\ s.op \notin {"create", "index"} /\ Needs(s) \subseteq Tables
      BY <1>1, <3>1, PlacesAre DEF Statements, Needs, Tables
    <3> QED
      BY <3>2, <3>3 DEF Defined
  <2> QED
    BY <2>1, <2>2
<1>5. s.op = "begin" => ~tx[c]
  <2>1. InJob(p) => Placed(s, pc[p], Left(p)) /\ pc[p] \in Nat /\ pc[p] >= 1 /\ Left(p) \in Nat
    BY <1>1, StatementIs
  <2>2. InJob(p) /\ pc[p] > 3 => s.op # "begin"
    <3> SUFFICES ASSUME InJob(p), pc[p] > 3 PROVE s.op # "begin"
      OBVIOUS
    <3>1. CASE Left(p) > 5
      BY <2>1, <3>1 DEF Placed
    <3>2. CASE Left(p) \in {0, 1, 2, 3, 4, 5}
      BY <2>1, <3>2 DEF Placed, Must
    <3> QED
      BY <2>1, <3>1, <3>2
  <2> QED
    BY <1>1, <2>2
<1>6. s.op = "commit" => tx[c]
  <2>1. s.op = "commit" => InJob(p) /\ Left(p) = 0
    BY <1>1, PlacesAre
  <2>2. InJob(p) => Placed(s, pc[p], Left(p)) /\ pc[p] \in Nat /\ Left(p) \in Nat
    BY <1>1, StatementIs
  <2>3. s.op = "commit" => pc[p] > 3
    BY <2>1, <2>2 DEF Placed
  <2> QED
    BY <1>1, <2>1, <2>3
<1>7. s.op = "drop" => ~tx[c] /\ Exclusive(c)
  BY <1>1, <1>3, PlacesAre
<1> HIDE DEF c, s
<1>8. Succeeds(c, s)
  <2>1. CASE s.op = "begin"
    BY <1>4, <1>5, <2>1 DEF Succeeds
  <2>2. CASE s.op = "commit"
    BY <1>3, <1>4, <1>6, <2>2 DEF Succeeds
  <2>3. CASE s.op = "read"
    BY <1>3, <1>4, <2>3 DEF Succeeds
  <2>4. CASE s.op \notin {"begin", "commit", "read"}
    BY <1>3, <1>4, <2>4 DEF Succeeds
  <2> QED
    BY <2>1, <2>2, <2>3, <2>4
<1> QED
  BY <1>8 DEF c, s
(* A statement of a load.                                                  *)
LEMMA LoadStatement ==
  ASSUME IInv, NEW p \in Procs, StatementOk(p), job[p] = "Load"
  PROVE  /\ disk' = Effect(Statement(p), disk, id[p])
         /\ UNCHANGED <<buf, lock, tx, opened, db, job, id, faults>>
         /\ \/ pc'[p] = pc[p] + 1 /\ pc[p] < 9 /\ result'[p] = result[p]
            \/ pc'[p] = 0 /\ pc[p] = 9 /\ result'[p] = "ok"
<1>1. /\ Running(p) /\ Perform(Conn(p), Statement(p), id[p]) /\ Advance(p)
      /\ UNCHANGED <<opened, db, job, id, jobs, faults, exits>>
  BY DEF StatementOk
<1>2. TypeOK /\ ~tx[Conn(p)]
  BY <1>1 DEF IInv, InOrder
<1>3. pc[p] \in 1 .. 9 /\ Left(p) = 9 - pc[p]
      /\ Statement(p).op \in {"drop", "create", "index"}
  BY <1>1, <1>2, LoadIs, StatementIs
<1>4. disk' = Effect(Statement(p), View(Conn(p)), id[p]) /\ UNCHANGED <<buf, lock, tx>>
  <2> DEFINE s == Statement(p)
             c == Conn(p)
  <2>1. s.op \notin {"begin", "commit", "read"} /\ Perform(c, s, id[p]) /\ ~tx[c]
    BY <1>1, <1>2, <1>3
  <2> HIDE DEF s, c
  <2>2. disk' = Effect(s, View(c), id[p]) /\ UNCHANGED <<buf, lock, tx>>
    BY <2>1, PerformIs
  <2> QED
    BY <2>2 DEF s, c
<1>5. View(Conn(p)) = disk
  BY <1>2 DEF View
<1>6. Moved(p) /\ (pc'[p] = 0 <=> Left(p) = 0) /\ (pc'[p] = 0 => result'[p] = "ok")
  BY <1>1, AdvanceMoves
<1> QED
  BY <1>1, <1>3, <1>4, <1>5, <1>6 DEF Moved

LEMMA SetUpFurther ==
  ASSUME IInv, NEW p \in Procs, Running(p), StatementOk(p), job[p] = "Load", SetUpTo(pc[p])
  PROVE  /\ pc'[p] # 0 => SetUpTo(pc[p])'
         /\ pc'[p] = 0 => Tables \subseteq disk'.has
<1> DEFINE k == pc[p]
           s == Statement(p)
<1>1. TypeOK /\ disk \in Content /\ id[p] \in Nat
  BY DEF IInv, TypeOK
<1>2. k \in 1 .. 9 /\ LoadStep(s, k)
  BY <1>1, LoadIs
<1>3. /\ disk' = Effect(s, disk, id[p])
      /\ \/ pc'[p] = k + 1 /\ k < 9
         \/ pc'[p] = 0 /\ k = 9
  BY LoadStatement
<1> HIDE DEF k, s
<1>4. /\ 4 < k => "index" \notin disk.has
      /\ \A i \in 1 .. 4 : /\ i < k /\ k <= i + 4 => Order[i] \notin disk.has
                           /\ i + 4 < k => Order[i] \in disk.has
  BY DEF SetUpTo, k
<1>5. CASE k <= 4
  <2>1. disk'.has = disk.has \ Gone(Order[k])
    <3>1. s = May("drop", Order[k])
      BY <1>2, <1>5 DEF LoadStep
    <3>2. s.op = "drop" /\ s.table = Order[k]
      BY <3>1 DEF May
    <3> QED
      BY <1>1, <1>3, <3>2 DEF Effect, Upserts, Content
  <2>2. pc'[p] = k + 1
    BY <1>2, <1>3, <1>5
  <2>3. ASSUME NEW i \in 1 .. 4
        PROVE  /\ i < k + 1 /\ k + 1 <= i + 4 => Order[i] \notin disk'.has
               /\ i + 4 < k + 1 => Order[i] \in disk'.has
    <3>1. ~(i + 4 < k + 1)
      BY <1>2, <1>5
    <3>2. CASE i = k
      BY <2>1, <3>1, <3>2 DEF Gone
    <3>3. CASE i # k
      <4>1. i < k + 1 /\ k + 1 <= i + 4 => i < k /\ k <= i + 4
        BY <1>2, <3>3
      <4> QED
        BY <1>4, <2>1, <3>1, <4>1
    <3> QED
      BY <3>2, <3>3
  <2>4. 4 < k + 1 => "index" \notin disk'.has
    <3>1. 4 < k + 1 => Order[k] = "temp"
      BY <1>2, <1>5 DEF Order
    <3> QED
      BY <2>1, <3>1 DEF Gone
  <2>5. SetUpTo(pc[p])'
    BY <2>2, <2>3, <2>4 DEF SetUpTo
  <2> QED
    BY <1>2, <2>2, <2>5
<1>6. CASE k > 4 /\ k <= 8
  <2> DEFINE j == k - 4
  <2>1. j \in 1 .. 4 /\ k = j + 4
    BY <1>2, <1>6
  <2>2. disk'.has = disk.has \cup {Order[j]}
    <3>1. s = Must("create", Order[j])
      BY <1>2, <1>6 DEF LoadStep
    <3>2. s.op = "create" /\ s.table = Order[j]
      BY <3>1 DEF Must
    <3> QED
      BY <1>1, <1>3, <3>2 DEF Effect, Upserts, Content
  <2> HIDE DEF j
  <2>3. pc'[p] = k + 1
    BY <1>2, <1>3, <1>6
  <2>4. ASSUME NEW i \in 1 .. 4
        PROVE  /\ i < k + 1 /\ k + 1 <= i + 4 => Order[i] \notin disk'.has
               /\ i + 4 < k + 1 => Order[i] \in disk'.has
    <3>1. CASE i = j
      BY <2>1, <2>2, <3>1
    <3>2. CASE i # j
      <4>1. /\ i < k + 1 /\ k + 1 <= i + 4 => i < k /\ k <= i + 4
            /\ i + 4 < k + 1 => i + 4 < k
        BY <1>2, <1>6, <2>1, <3>2
      <4>2. Order[i] # Order[j]
        BY <2>1, <3>2, OrderIs
      <4> QED
        BY <1>4, <2>2, <4>1, <4>2
    <3> QED
      BY <3>1, <3>2
  <2>5. "index" \notin disk'.has
    <3>1. Order[j] # "index"
      BY <2>1, OrderIs DEF Tables
    <3> QED
      BY <1>4, <1>6, <2>2, <3>1
  <2>6. SetUpTo(pc[p])'
    BY <2>3, <2>4, <2>5 DEF SetUpTo
  <2> QED
    BY <1>2, <2>3, <2>6
<1>7. CASE k = 9
  <2>1. s.op = "index"
    BY <1>2, <1>7 DEF LoadStep, Must
  <2>2. disk.has \subseteq disk'.has
    BY <1>1, <1>3, <2>1 DEF Effect, Upserts, Content
  <2>3. \A i \in 1 .. 4 : Order[i] \in disk.has
    BY <1>4, <1>7
  <2>4. Tables \subseteq disk.has
    BY <1>1, <2>3, OrderIs DEF Content
  <2> QED
    BY <1>3, <1>7, <2>2, <2>4
<1> QED
  BY <1>2, <1>5, <1>6, <1>7

LEMMA AloneLoads ==
  ASSUME IInv, NEW p \in Procs, StatementOk(p), job[p] = "Load", Alone(p)
  PROVE  Alone(p)'
<1>1. Running(p) /\ db[p] # 0 /\ Ready(p) /\ SetUpTo(pc[p])
  BY DEF StatementOk, Alone
<1>2. /\ UNCHANGED <<buf, lock, tx, opened, db, job, id, faults>>
      /\ \/ pc'[p] = pc[p] + 1 /\ pc[p] < 9 /\ result'[p] = result[p]
         \/ pc'[p] = 0 /\ pc[p] = 9 /\ result'[p] = "ok"
  BY LoadStatement
<1>3. /\ pc'[p] # 0 => SetUpTo(pc[p])'
      /\ pc'[p] = 0 => Tables \subseteq disk'.has
  BY <1>1, SetUpFurther
<1>4. ~InJob(p) /\ ~InJob(p)' /\ Conn(p)' = Conn(p) /\ (Running(p)' => pc'[p] # 0)
      /\ (~Running(p)' => pc'[p] = 0)
  <2>1. pc[p] \in 1 .. 9
    BY <1>1, LoadIs DEF IInv
  <2> QED
    BY <1>2, <2>1 DEF InJob, Conn, Running
<1>5. \A c \in Conns : ~tx'[c]
  BY <1>2, <1>4 DEF Alone
<1>6. Ready(p)'
  <2>1. result'[p] # "failed"
    BY <1>1, <1>2 DEF Ready
  <2>2. ~(Running(p)' /\ job'[p] = "Load") => Tables \subseteq disk'.has
    BY <1>2, <1>3, <1>4
  <2> QED
    BY <1>4, <2>1, <2>2 DEF Ready, Filled
<1> QED
  BY <1>2, <1>3, <1>4, <1>5, <1>6 DEF Alone
(* What a statement of a job does to the connection and to the file.       *)
JobStatement(p) ==
  LET c == Conn(p)
      s == Statement(p)
  IN  /\ s.op = "begin" =>
           tx'[c] /\ buf'[c] = buf[c] /\ lock'[c] = lock[c] /\ disk' = disk
      /\ s.op = "commit" =>
           ~tx'[c] /\ lock'[c] = "none" /\ disk' = View(c)
      /\ s.op = "read" =>
           /\ tx'[c] = tx[c] /\ buf'[c] = buf[c] /\ disk' = disk
           /\ lock'[c] # lock[c] => lock[c] = "none" /\ lock'[c] = "shared"
      /\ s.op \notin {"begin", "commit", "read"} /\ tx[c] =>
           /\ tx'[c] /\ lock'[c] \in {"reserved", "pending"} /\ disk' = disk
           /\ buf'[c] = Effect(s, View(c), id[p])
      /\ s.op \notin {"begin", "commit", "read"} /\ ~tx[c] =>
           /\ ~tx'[c] /\ buf'[c] = buf[c] /\ lock'[c] = lock[c]
           /\ disk' = Effect(s, View(c), id[p])

LEMMA JobStatementIs ==
  ASSUME IInv, NEW p \in Procs, StatementOk(p)
  PROVE  /\ JobStatement(p)
         /\ \A d \in Conns : d # Conn(p) => tx'[d] = tx[d]
         /\ UNCHANGED <<opened, db, job, id, faults>>
         /\ \/ pc'[p] = pc[p] + 1 /\ Left(p) > 0 /\ result'[p] = result[p]
            \/ pc'[p] = 0 /\ Left(p) = 0 /\ result'[p] = "ok"
<1> DEFINE c == Conn(p)
           s == Statement(p)
<1>1. /\ Running(p) /\ db[p] # 0 /\ Perform(c, s, id[p]) /\ Advance(p)
      /\ UNCHANGED <<opened, db, job, id, jobs, faults, exits>>
  BY DEF StatementOk
<1>2. TypeOK /\ c \in Conns
  BY <1>1, ConnIs DEF IInv
<1>3. /\ lock \in [Conns -> {"none", "shared", "reserved", "pending"}]
      /\ tx \in [Conns -> BOOLEAN] /\ buf \in [Conns -> Content]
  BY <1>2 DEF TypeOK
<1>4. Moved(p) /\ (pc'[p] = 0 <=> Left(p) = 0) /\ (pc'[p] = 0 => result'[p] = "ok")
  BY <1>1, AdvanceMoves
<1> HIDE DEF c, s
<1>5. CASE s.op = "begin"
  <2>1. tx' = [tx EXCEPT ![c] = TRUE] /\ UNCHANGED <<disk, buf, lock>>
    BY <1>1, <1>5, PerformIs
  <2>2. tx'[c] /\ \A d \in Conns : d # c => tx'[d] = tx[d]
    BY <1>2, <1>3, <2>1
  <2> QED
    BY <1>1, <1>4, <1>5, <2>1, <2>2 DEF JobStatement, c, s, Moved
<1>6. CASE s.op = "commit"
  <2>1. /\ disk' = View(c)
        /\ lock' = [lock EXCEPT ![c] = "none"]
        /\ tx' = [tx EXCEPT ![c] = FALSE]
    BY <1>1, <1>6, PerformIs
  <2>2. ~tx'[c] /\ lock'[c] = "none" /\ \A d \in Conns : d # c => tx'[d] = tx[d]
    BY <1>2, <1>3, <2>1
  <2> QED
    BY <1>1, <1>4, <1>6, <2>1, <2>2 DEF JobStatement, c, s, Moved
<1>7. CASE s.op = "read"
  <2>1. /\ lock' = [lock EXCEPT ![c] = IF lock[c] = "none" /\ tx[c] THEN "shared" ELSE lock[c]]
        /\ UNCHANGED <<disk, buf, tx>>
    BY <1>1, <1>7, PerformIs
  <2>2. lock'[c] # lock[c] => lock[c] = "none" /\ lock'[c] = "shared"
    BY <1>2, <1>3, <2>1
  <2> QED
    BY <1>1, <1>4, <1>7, <2>1, <2>2 DEF JobStatement, c, s, Moved
<1>8. CASE s.op \notin {"begin", "commit", "read"} /\ tx[c]
  <2>1. /\ buf' = [buf EXCEPT ![c] = Effect(s, View(c), id[p])]
        /\ lock' = [lock EXCEPT ![c] = IF lock[c] = "pending" THEN lock[c] ELSE "reserved"]
        /\ UNCHANGED <<disk, tx>>
    BY <1>1, <1>8, PerformIs
  <2> DEFINE u == Effect(s, View(c), id[p])
  <2> HIDE DEF u
  <2>2. buf'[c] = u
    BY <1>2, <1>3, <2>1 DEF u
  <2>3. lock'[c] \in {"reserved", "pending"}
    BY <1>2, <1>3, <2>1
  <2> QED
    BY <1>1, <1>4, <1>8, <2>1, <2>2, <2>3 DEF JobStatement, c, s, u, Moved
<1>9. CASE s.op \notin {"begin", "commit", "read"} /\ ~tx[c]
  <2>1. disk' = Effect(s, View(c), id[p]) /\ UNCHANGED <<buf, lock, tx>>
    BY <1>1, <1>9, PerformIs
  <2> QED
    BY <1>1, <1>4, <1>9, <2>1 DEF JobStatement, c, s, Moved
<1> QED
  BY <1>5, <1>6, <1>7, <1>8, <1>9
(* A job keeps its own rows.                                               *)
LEMMA KeepsRows ==
  ASSUME NEW s \in Statements, NEW t \in Content, NEW n \in Nat,
         s.op \notin {"drop", "create", "index"}, s.op = "delete" => s.table \in {"list", "decl"},
         NEW u, u = Effect(s, t, n)
  PROVE  /\ t.list = n /\ t.decl = n => u.list = n /\ u.decl = n
         /\ s.op \in Upserts => u[s.table] = n \/ s.table \notin {"list", "decl"}
         /\ s.op \in Upserts /\ s.table = "list" => u.decl = t.decl
<1> USE DEF Content
<1>1. CASE s.op \in Upserts
  <2>1. CASE s.table = "list"
    BY <1>1, <2>1 DEF Effect, Upserts
  <2>2. CASE s.table = "decl"
    BY <1>1, <2>2 DEF Effect, Upserts
  <2>3. CASE s.table \notin {"list", "decl"}
    BY <1>1, <2>3 DEF Effect, Upserts
  <2> QED
    BY <1>1, <2>1, <2>2, <2>3
<1>2. CASE s.op = "delete"
  <2>1. CASE s.table = "list"
    BY <1>2, <2>1 DEF Effect, Upserts
  <2>2. CASE s.table = "decl"
    BY <1>2, <2>2 DEF Effect, Upserts
  <2> QED
    BY <1>2, <2>1, <2>2
<1>3. CASE s.op = "clear"
  BY <1>3 DEF Effect, Upserts
<1>4. CASE s.op = "sub"
  BY <1>4 DEF Effect, Upserts
<1>5. CASE s.op \in {"mark", "plain", "include", "begin", "read", "commit"}
  BY <1>5 DEF Effect, Upserts
<1> QED
  BY <1>1, <1>2, <1>3, <1>4, <1>5 DEF Statements, Ops, Upserts

LEMMA RebuildIs ==
  ASSUME TypeOK, NEW p \in Procs, Running(p), job[p] = "Rebuild"
  PROVE  /\ pc[p] = 4 => Statement(p) = May("scan", "decl")
         /\ pc[p] = 5 => Statement(p) = May("scan", "list")
<1>1. Statement(p) = Program("Rebuild")[pc[p]]
  BY DEF Statement
<1> QED
  BY <1>1, RebuildScans

(* The rows of a Rebuild after a statement of it in its transaction.       *)
LEMMA FilledFurther ==
  ASSUME IInv, NEW p \in Procs, StatementOk(p), InJob(p), job[p] = "Rebuild",
         pc'[p] = pc[p] + 1, pc[p] >= 4, Filled(p), tx[Conn(p)]
  PROVE  Filled(p)'
<1> DEFINE c == Conn(p)
           s == Statement(p)
           t == View(c)
           u == Effect(s, t, id[p])
<1>1. /\ JobStatement(p) /\ job' = job /\ id' = id /\ db' = db
      /\ TypeOK /\ Running(p) /\ db[p] # 0 /\ Left(p) # 0
  <2>1. JobStatement(p) /\ job' = job /\ id' = id /\ db' = db
        /\ \/ pc'[p] = pc[p] + 1 /\ Left(p) > 0 /\ result'[p] = result[p]
           \/ pc'[p] = 0 /\ Left(p) = 0 /\ result'[p] = "ok"
    BY JobStatementIs
  <2>2. TypeOK /\ Running(p) /\ db[p] # 0
    BY DEF IInv, StatementOk
  <2>3. pc[p] \in Nat
    BY <2>2, StatementIs
  <2> QED
    BY <2>1, <2>2, <2>3
<1>2. /\ s \in Statements /\ Left(p) \in Nat /\ pc[p] \in Nat
      /\ s.op = "delete" => s.table \in {"list", "decl"}
      /\ s.op \notin {"drop", "create", "index", "begin", "commit"}
      /\ pc[p] = 4 => s = May("scan", "decl")
      /\ pc[p] = 5 => s = May("scan", "list")
  <2>1. s.op # "commit"
    BY <1>1, PlacesAre
  <2>2. s.op # "begin"
    BY <1>1 DEF StatementOk, Succeeds
  <2> QED
    BY <1>1, <2>1, <2>2, PlacesAre, StatementIs, RebuildIs
<1>3. c \in Conns /\ t \in Content /\ id[p] \in Nat /\ c' = c
  BY <1>1, ConnIs, ViewIs DEF TypeOK, Conn
<1>4. pc[p] > 4 => Writing(c) /\ t = buf[c] /\ t.decl = id[p] /\ (pc[p] > 5 => t.list = id[p])
  BY DEF Filled, View
<1>5. /\ t.list = id[p] /\ t.decl = id[p] => u.list = id[p] /\ u.decl = id[p]
      /\ s.op \in Upserts => u[s.table] = id[p] \/ s.table \notin {"list", "decl"}
      /\ s.op \in Upserts /\ s.table = "list" => u.decl = t.decl
  BY <1>2, <1>3, KeepsRows
<1>6. /\ s.op = "read" => /\ buf'[c] = buf[c]
                          /\ lock'[c] # lock[c] => lock[c] = "none"
      /\ s.op # "read" => lock'[c] \in {"reserved", "pending"} /\ buf'[c] = u
  BY <1>1, <1>2 DEF JobStatement
<1> SUFFICES /\ lock'[c] \in {"reserved", "pending"} /\ buf'[c].decl = id[p]
             /\ pc[p] + 1 > 5 => buf'[c].list = id[p]
  BY <1>1, <1>3 DEF Filled, Writing
<1> HIDE DEF c, s, t, u
<1>7. CASE pc[p] = 4
  <2>1. s.op \in Upserts /\ s.table = "decl"
    BY <1>2, <1>7 DEF May, Upserts
  <2> QED
    BY <1>5, <1>6, <1>7, <2>1 DEF Upserts
<1>8. CASE pc[p] = 5
  <2>1. s.op \in Upserts /\ s.table = "list"
    BY <1>2, <1>8 DEF May, Upserts
  <2> QED
    BY <1>4, <1>5, <1>6, <1>8, <2>1 DEF Upserts
<1>9. CASE pc[p] > 5
  <2>1. lock[c] \in {"reserved", "pending"} /\ u.list = id[p] /\ u.decl = id[p]
        /\ t = buf[c] /\ t.list = id[p] /\ t.decl = id[p]
    BY <1>2, <1>4, <1>5, <1>9 DEF Writing
  <2>2. CASE s.op = "read"
    BY <1>6, <2>1, <2>2
  <2>3. CASE s.op # "read"
    BY <1>6, <2>1, <2>3
  <2> QED
    BY <2>2, <2>3
<1> QED
  BY <1>2, <1>7, <1>8, <1>9

LEMMA AloneWorks ==
  ASSUME IInv, NEW p \in Procs, StatementOk(p), InJob(p), Alone(p)
  PROVE  Alone(p)'
<1> DEFINE c == Conn(p)
           s == Statement(p)
           t == View(c)
           u == Effect(s, t, id[p])
<1>1. /\ Running(p) /\ db[p] # 0 /\ Ready(p) /\ TypeOK /\ Locks
      /\ \A d \in Conns : tx[d] <=> (d = c /\ InJob(p) /\ pc[p] > 3)
      /\ Tables \subseteq disk.has /\ (Writing(c) => Tables \subseteq buf[c].has)
  BY DEF StatementOk, Alone, Ready, InJob, IInv
<1>2. /\ JobStatement(p) /\ \A d \in Conns : d # c => tx'[d] = tx[d]
      /\ UNCHANGED <<opened, db, job, id, faults>>
      /\ \/ pc'[p] = pc[p] + 1 /\ Left(p) > 0 /\ result'[p] = result[p]
         \/ pc'[p] = 0 /\ Left(p) = 0 /\ result'[p] = "ok"
  BY JobStatementIs
<1>3. /\ s \in Statements /\ Left(p) \in Nat /\ pc[p] \in Nat /\ pc[p] >= 1
      /\ s.op = "delete" => s.table \in {"list", "decl"}
      /\ s.op = "commit" => Left(p) = 0
      /\ s.op # "commit" => Left(p) # 0
      /\ Placed(s, pc[p], Left(p))
      /\ s.op \notin {"drop", "create", "index"}
  BY <1>1, PlacesAre, StatementIs
<1>4. c \in Conns /\ t \in Content /\ id[p] \in Nat /\ c' = c /\ Tables \subseteq t.has
  <2>1. Tables \subseteq t.has
    BY <1>1 DEF View
  <2> QED
    BY <1>1, <1>2, <2>1, ConnIs, ViewIs DEF TypeOK, Conn
<1>5. u \in Content /\ Tables \subseteq u.has /\ (s.op = "mark" => u = t)
  <2> HIDE DEF s, t
  <2>1. /\ u \in Content
        /\ s.op \notin {"drop", "create", "index"} => FromJob(u, t, id[p])
        /\ s.op \in {"mark", "plain", "include"} => u = t
    BY <1>3, <1>4, EffectIs
  <2> QED
    BY <1>3, <1>4, <2>1 DEF FromJob
<1>6. /\ tx[c] <=> pc[p] > 3
      /\ pc[p] <= 3 => lock[c] = "none"
      /\ ~tx[c] => t = disk
  <2>1. tx[c] <=> pc[p] > 3
    BY <1>1, <1>4
  <2>2. pc[p] <= 3 => ~tx[c]
    BY <1>3, <2>1
  <2> QED
    BY <1>1, <1>4, <2>1, <2>2 DEF Locks, View
<1>7. InJob(p)' <=> pc'[p] > 0
  BY <1>2 DEF InJob, Running
<1>8. CASE pc[p] \in {1, 2}
  <2>1. s.op = "mark" /\ Left(p) # 0
    BY <1>3, <1>8 DEF Placed
  <2>2. pc'[p] = pc[p] + 1 /\ ~tx'[c] /\ lock'[c] = lock[c] /\ disk' = disk /\ result'[p] = result[p]
    BY <1>2, <1>5, <1>6, <1>8, <2>1 DEF JobStatement
  <2>3. InJob(p)' /\ ~(pc'[p] > 3) /\ ~Writing(c)'
    BY <1>4, <1>6, <1>7, <1>8, <2>2 DEF Writing
  <2>4. Ready(p)'
    <3>1. result'[p] # "failed" /\ Tables \subseteq disk'.has
      BY <1>1, <2>2 DEF Ready
    <3>2. ~(pc'[p] > 4)
      BY <1>3, <1>8, <2>2
    <3> QED
      BY <1>4, <2>3, <3>1, <3>2 DEF Ready, Filled
  <2> QED
    BY <1>1, <1>2, <1>4, <2>2, <2>3, <2>4 DEF Alone, InJob
<1>9. CASE pc[p] = 3
  <2>1. s.op = "begin" /\ Left(p) # 0
    BY <1>3, <1>9 DEF Placed
  <2>2. pc'[p] = 4 /\ tx'[c] /\ lock'[c] = lock[c] /\ disk' = disk /\ result'[p] = result[p]
    BY <1>2, <1>9, <2>1 DEF JobStatement
  <2>3. InJob(p)' /\ pc'[p] > 3 /\ ~(pc'[p] > 4) /\ ~Writing(c)'
    BY <1>4, <1>6, <1>7, <1>9, <2>2 DEF Writing
  <2>4. Ready(p)'
    BY <1>1, <1>4, <2>2, <2>3 DEF Ready, Filled, Running, InJob
  <2> QED
    BY <1>1, <1>2, <1>4, <1>6, <1>9, <2>2, <2>3, <2>4 DEF Alone, InJob
<1>10. CASE pc[p] > 3 /\ s.op = "commit"
  <2>1. pc'[p] = 0 /\ ~tx'[c] /\ lock'[c] = "none" /\ disk' = t /\ result'[p] = "ok"
    BY <1>2, <1>3, <1>10 DEF JobStatement
  <2>2. ~InJob(p)' /\ ~Running(p)'
    BY <1>7, <2>1 DEF Running
  <2>3. Ready(p)'
    BY <1>4, <2>1, <2>2 DEF Ready, Filled
  <2> QED
    BY <1>1, <1>2, <1>4, <2>1, <2>2, <2>3 DEF Alone
<1>11. CASE pc[p] > 3 /\ s.op # "commit"
  <2>1. pc'[p] = pc[p] + 1 /\ result'[p] = result[p] /\ tx[c]
    BY <1>2, <1>3, <1>6, <1>11
  <2>2. s.op # "begin"
    BY <2>1 DEF StatementOk, Succeeds
  <2>3. /\ tx'[c] /\ disk' = disk
        /\ lock'[c] \in {"reserved", "pending"} => Tables \subseteq buf'[c].has
    <3>1. CASE s.op = "read"
      BY <1>1, <1>2, <2>1, <3>1 DEF JobStatement, Writing
    <3>2. CASE s.op # "read"
      <4> HIDE DEF u
      <4>1. s.op \notin {"begin", "commit", "read"}
        BY <1>11, <2>2, <3>2
      <4>2. tx'[c] /\ disk' = disk /\ buf'[c] = u
        BY <1>2, <2>1, <4>1 DEF JobStatement, u
      <4> QED
        BY <1>5, <4>2
    <3> QED
      BY <3>1, <3>2
  <2>4. InJob(p)' /\ pc'[p] > 3
    BY <1>3, <1>7, <1>11, <2>1
  <2>5. Filled(p)'
    <3>1. CASE job[p] = "Rebuild"
      BY <1>1, <1>3, <1>11, <2>1, <3>1, FilledFurther DEF Ready
    <3>2. CASE job[p] # "Rebuild"
      BY <1>2, <3>2 DEF Filled
    <3> QED
      BY <3>1, <3>2
  <2>6. Ready(p)'
    BY <1>1, <1>4, <2>1, <2>3, <2>4, <2>5 DEF Ready, Running, InJob, Writing
  <2> QED
    BY <1>1, <1>2, <1>4, <1>6, <1>11, <2>1, <2>3, <2>4, <2>6 DEF Alone, InJob
<1> QED
  BY <1>3, <1>8, <1>9, <1>10, <1>11

(* With a connection nothing is refused; without one only jobs are.        *)
LEMMA AloneRefused ==
  ASSUME IInv, NEW p \in Procs, StatementRefused(p), Alone(p)
  PROVE  Alone(p)'
<1>1. /\ Running(p) /\ Yields(p)
      /\ db[p] # 0 => ~Succeeds(Conn(p), Statement(p))
      /\ UNCHANGED <<disk, buf, tx, opened, db, job, id, faults>>
  BY DEF StatementRefused, Yields
<1>2. db[p] = 0
  BY <1>1, AllSucceed
<1>3. job[p] # "Load"
  BY <1>1, <1>2 DEF IInv, InOrder
<1>4. Conn(p) \notin Conns /\ Conn(p)' \notin Conns
  BY <1>1, <1>2 DEF Conn, Conns
<1> QED
  BY <1>1, <1>2, <1>3, <1>4 DEF Alone

(* A Rebuild that has no class to scan is past its scans of the sequences. *)
LEMMA AloneSkips ==
  ASSUME IInv, NEW p \in Procs, NoClasses(p), Alone(p)
  PROVE  Alone(p)'
<1>1. /\ Running(p) /\ Yields(p) /\ Statement(p).op = "classes"
      /\ UNCHANGED <<disk, buf, lock, tx, opened, db, job, id>>
  BY DEF NoClasses, Yields, conns
<1>2. TypeOK
  BY DEF IInv
<1>3. InJob(p) /\ pc[p] \in Nat /\ pc[p] >= 1 /\ Left(p) \in Nat
  BY <1>1, <1>2, StatementIs DEF InJob
<1>4. Left(p) > 5 /\ pc[p] > 3
  <2>1. Placed(Statement(p), pc[p], Left(p))
    BY <1>1, <1>2, <1>3, StatementIs
  <2> QED
    BY <1>1, <1>3, <2>1, ClassesPlaced
<1>5. pc'[p] = pc[p] + 1
  <2>1. Advance(p)
    BY DEF NoClasses
  <2>2. Moved(p) /\ (pc'[p] = 0 <=> Left(p) = 0)
    BY <1>1, <2>1, AdvanceMoves
  <2> QED
    BY <1>4, <2>2 DEF Moved
<1>6. result'[p] = result[p]
  <2>1. Advance(p) /\ Left(p) # 0
    BY <1>4 DEF NoClasses
  <2> QED
    BY <2>1 DEF Advance, Left
<1>7. job[p] = "Rebuild" => pc[p] > 5
  <2>1. job[p] = "Rebuild" => pc[p] \notin {4, 5}
    BY <1>1, <1>2, RebuildIs DEF May
  <2> QED
    BY <1>3, <1>4, <2>1
<1>8. /\ InJob(p)' /\ Running(p)' /\ Conn(p)' = Conn(p)
      /\ Writing(Conn(p))' <=> Writing(Conn(p))
  BY <1>1, <1>3, <1>5 DEF InJob, Running, Conn, Writing
<1>9. db[p] # 0 => Ready(p)'
  BY <1>1, <1>3, <1>5, <1>6, <1>7, <1>8 DEF Alone, Ready, Filled, InJob
<1> QED
  BY <1>1, <1>3, <1>4, <1>5, <1>8, <1>9 DEF Alone, InJob

LEMMA AloneOpens ==
  ASSUME IInv, NEW p \in Procs, Open(p), Alone(p)
  PROVE  Alone(p)'
<1>1. /\ ~Running(p)
      /\ opened' = [opened EXCEPT ![p] = opened[p] + 1]
      /\ db' = [db EXCEPT ![p] = opened[p] + 1]
      /\ job' = [job EXCEPT ![p] = "Load"]
      /\ pc' = [pc EXCEPT ![p] = 1]
      /\ result' = [result EXCEPT ![p] = "none"]
      /\ UNCHANGED <<disk, buf, lock, tx>>
  BY DEF Open, conns
<1>2. TypeOK /\ pc = [q \in Procs |-> pc[q]]
  BY DEF IInv
<1>3. /\ opened'[p] = db'[p] /\ job'[p] = "Load" /\ pc'[p] = 1 /\ result'[p] = "none"
  BY <1>1, <1>2 DEF TypeOK
<1>4. ~InJob(p) /\ ~InJob(p)' /\ Running(p)'
  BY <1>1, <1>3 DEF InJob, Running
<1>5. \A c \in Conns : ~tx'[c]
  BY <1>1, <1>4 DEF Alone
<1>6. SetUpTo(pc[p])'
  BY <1>3 DEF SetUpTo
<1>7. Ready(p)'
  BY <1>3, <1>4 DEF Ready, Filled
<1> QED
  BY <1>3, <1>4, <1>5, <1>6, <1>7 DEF Alone

LEMMA AloneStarts ==
  ASSUME IInv, NEW p \in Procs, NEW kind \in {"Rebuild", "Update"}, Start(p, kind), Alone(p)
  PROVE  Alone(p)'
<1>1. /\ ~Running(p)
      /\ job' = [job EXCEPT ![p] = kind]
      /\ pc' = [pc EXCEPT ![p] = 1]
      /\ result' = [result EXCEPT ![p] = "none"]
      /\ UNCHANGED <<disk, buf, lock, tx, opened, db>>
  BY DEF Start, conns
<1>2. TypeOK /\ pc = [q \in Procs |-> pc[q]] /\ Locks
  BY DEF IInv
<1>3. job'[p] = kind /\ pc'[p] = 1 /\ result'[p] = "none" /\ kind # "Load"
  BY <1>1, <1>2 DEF TypeOK
<1>4. ~InJob(p) /\ ~(Running(p)' /\ job'[p] = "Load") /\ ~(pc'[p] > 3) /\ ~(pc'[p] > 4)
  BY <1>1, <1>3 DEF InJob
<1>5. \A c \in Conns : ~tx[c]
  BY <1>4 DEF Alone
<1>6. db[p] # 0 => Ready(p)'
  <2> SUFFICES ASSUME db[p] # 0 PROVE Ready(p)'
    OBVIOUS
  <2>1. Tables \subseteq disk.has
    BY <1>1 DEF Alone, Ready
  <2>2. Conn(p) \in Conns /\ Conn(p)' = Conn(p)
    BY <1>1, <1>2, ConnIs DEF Conn
  <2>3. ~Writing(Conn(p))'
    BY <1>1, <1>2, <1>5, <2>2 DEF Locks, Writing
  <2> QED
    BY <1>1, <1>3, <1>4, <2>1, <2>3 DEF Ready, Filled
<1> QED
  BY <1>1, <1>4, <1>5, <1>6 DEF Alone

LEMMA AloneAsks ==
  ASSUME IInv, NEW p \in Procs, Query(p), Alone(p)
  PROVE  Alone(p)'
<1> DEFINE c == Conn(p)
<1>1. /\ ~Running(p) /\ db[p] # 0
      /\ lock' = [lock EXCEPT ![c] = IF lock[c] = "none" /\ tx[c] THEN "shared" ELSE lock[c]]
      /\ UNCHANGED <<disk, buf, tx, opened, db, job, pc, id, result>>
  BY DEF Query
<1>2. lock \in [Conns -> {"none", "shared", "reserved", "pending"}] /\ c \in Conns
  BY <1>1, ConnIs DEF IInv, TypeOK
<1>3. ~tx[c]
  BY <1>1, <1>2 DEF Alone, InJob
<1> HIDE DEF c
<1>4. lock' = lock
  BY <1>1, <1>2, <1>3
<1>5. (Ready(p)' <=> Ready(p)) /\ (InJob(p)' <=> InJob(p)) /\ Conn(p)' = Conn(p)
      /\ (Running(p)' <=> Running(p))
  BY <1>1, <1>4 DEF Ready, Filled, InJob, Running, Writing, Conn
<1> QED
  BY <1>1, <1>5 DEF Alone

LEMMA AloneExits ==
  ASSUME IInv, NEW p \in Procs, Exit(p), Alone(p)
  PROVE  Alone(p)'
<1>1. /\ tx' = [c \in Conns |-> IF c[1] = p THEN FALSE ELSE tx[c]]
      /\ opened' = [opened EXCEPT ![p] = 0]
      /\ db' = [db EXCEPT ![p] = 0]
      /\ pc' = [pc EXCEPT ![p] = 0]
  BY DEF Exit
<1>2. db'[p] = 0 /\ opened'[p] = 0 /\ pc'[p] = 0
  BY <1>1 DEF IInv, TypeOK
<1>3. Conn(p)[1] = p
  BY DEF Conn
<1>4. \A c \in Conns : ~tx'[c]
  BY <1>1, <1>3 DEF Alone
<1>5. ~Running(p)' /\ ~InJob(p)'
  BY <1>2 DEF Running, InJob
<1> QED
  BY <1>2, <1>4, <1>5 DEF Alone

LEMMA FaultsGrow ==
  ASSUME IInv, NEW p \in Procs, Step(p)
  PROVE  /\ faults' \in {faults, faults + 1}
         /\ faults' = 0 => /\ faults = 0
                           /\ ~OpenFails(p) /\ ~StatementFails(p)
                           /\ ~StatementRollsBack(p) /\ ~ScanThrows(p)
<1>1. faults \in Nat
  BY DEF IInv, TypeOK
<1>2. OpenFails(p) \/ StatementFails(p) \/ StatementRollsBack(p) \/ ScanThrows(p)
      => faults' = faults + 1
  BY DEF OpenFails, StatementFails, StatementRollsBack, ScanThrows, Fault
<1>3. Open(p) \/ (\E kind \in {"Rebuild", "Update"} : Start(p, kind)) \/ StatementOk(p)
      \/ StatementRefused(p) \/ NoClasses(p) \/ Query(p) \/ Exit(p) => faults' = faults
  BY DEF Open, Start, StatementOk, StatementRefused, NoClasses, Query, Exit
<1> QED
  BY <1>1, <1>2, <1>3 DEF Step

Single == \A p, q \in Procs : p = q

LEMMA UnspoiltKeeps ==
  ASSUME Single
  PROVE  IInv /\ Unspoilt /\ [Next]_vars => Unspoilt'
<1> SUFFICES ASSUME IInv, Unspoilt, [Next]_vars, faults' = 0, NEW q \in Procs
             PROVE  Alone(q)'
  BY DEF Unspoilt
<1>1. CASE Next
  <2>1. PICK p \in Procs : Step(p)
    BY <1>1 DEF Next, Step
  <2>2. Alone(p) /\ q = p
    BY <2>1, FaultsGrow DEF Unspoilt, Single
  <2>3. StatementOk(p) => InJob(p) \/ job[p] = "Load"
    BY DEF StatementOk, InJob
  <2> QED
    BY <2>1, <2>2, <2>3, FaultsGrow, AloneLoads, AloneWorks, AloneRefused, AloneSkips, AloneOpens,
       AloneStarts, AloneAsks, AloneExits DEF Step
<1>2. CASE UNCHANGED vars
  <2>1. Alone(q)
    BY <1>2 DEF vars, Unspoilt
  <2> QED
    BY <1>2, <2>1 DEF vars, Alone, Ready, Filled, SetUpTo, InJob, Running, Writing, Conn
<1> QED
  BY <1>1, <1>2

LEMMA UnspoiltAtFirst == Init => Unspoilt
<1> SUFFICES ASSUME Init, NEW p \in Procs PROVE Alone(p)
  BY DEF Unspoilt
<1>1. db[p] = 0 /\ opened[p] = 0 /\ pc[p] = 0 /\ \A c \in Conns : ~tx[c]
  BY DEF Init
<1>2. ~Running(p) /\ ~InJob(p)
  BY <1>1 DEF Running, InJob
<1> QED
  BY <1>1, <1>2 DEF Alone

LEMMA UnspoiltAlways ==
  ASSUME Single
  PROVE  Spec => []Unspoilt
<1>1. IInv /\ Unspoilt /\ [Next]_vars => Unspoilt'
  BY UnspoiltKeeps
<1> QED
  BY <1>1, UnspoiltAtFirst, Inductive, PTL DEF Spec

(* One instance on its own, with any number of loads over connections that *)
(* stay open, jobs and ends of the process: as long as no call has failed, *)
(* every command succeeds once a project is loaded.                        *)
THEOREM EveryCommandSucceeds ==
  ASSUME Single
  PROVE  Spec => []AlwaysSucceeds
<1>1. IInv /\ Unspoilt => AlwaysSucceeds
  BY DEF Unspoilt, Alone, Ready, AlwaysSucceeds, IInv, TypeOK
<1> QED
  BY <1>1, UnspoiltAlways, Inductive, PTL

(* What a Rebuild has in its transaction when it commits.                  *)
LEMMA RebuildStores ==
  ASSUME IInv, NEW p \in Procs, Alone(p), Next, job[p] = "Rebuild", Running(p),
         result'[p] = "ok"
  PROVE  disk'.list = id[p] /\ disk'.decl = id[p]
<1>1. InJob(p) /\ TypeOK
  BY DEF InJob, IInv
<1>2. StatementOk(p) /\ Left(p) = 0
  BY <1>1, OkIsCommit
<1>3. disk' = buf[Conn(p)]
  BY <1>1, <1>2, CommitStores
<1>4. pc[p] > 5
  <2>1. pc[p] = 16
    <3> DEFINE n == Len(Program(job[p]))
    <3>1. n = 16
      BY RebuildProgram
    <3>2. pc[p] \in Nat
      BY <1>1, StatementIs
    <3>3. n - pc[p] = 0
      BY <1>2 DEF Left
    <3> HIDE DEF n
    <3> QED
      BY <3>1, <3>2, <3>3
  <2> QED
    BY <2>1
<1>5. Filled(p) /\ pc[p] > 4
  BY <1>2, <1>4, StatementIs, <1>1 DEF Alone, Ready, StatementOk
<1> QED
  BY <1>1, <1>3, <1>4, <1>5 DEF Filled

(* A Rebuild of one instance on its own that returns 0 before any call has *)
(* failed has stored the rows it has read, in both tables.                 *)
THEOREM RebuildAlwaysFills ==
  ASSUME Single
  PROVE  Spec => RebuildFills
<1> DEFINE Fills(p) ==
      faults = 0 /\ job[p] = "Rebuild" /\ Running(p) /\ result'[p] = "ok" =>
        disk'.list = id[p] /\ disk'.decl = id[p]
<1>1. IInv /\ Unspoilt /\ [Next]_vars => [\A p \in Procs : Fills(p)]_vars
  <2> SUFFICES ASSUME IInv, Unspoilt, Next, NEW p \in Procs PROVE Fills(p)
    OBVIOUS
  <2> QED
    BY RebuildStores DEF Unspoilt
<1> QED
  BY <1>1, UnspoiltAlways, Inductive, PTL DEF Spec, RebuildFills
-----------------------------------------------------------------------------
(* The links on the disk.                                                  *)
Full == disk.list # 0 /\ disk.decl # 0

RowsInTables ==
  /\ disk.list # 0 => "list" \in disk.has
  /\ disk.decl # 0 => "decl" \in disk.has
  /\ disk.from # <<0, 0>> => "links" \in disk.has

Loading(p, k) == job[p] = "Load" /\ pc[p] = k

(* A connection that p has left behind holds a lock.                       *)
Leaks(p) == \E n \in 1 .. MaxLoads : n # db[p] /\ lock[<<p, n>>] # "none"

(* While q is about to create ObjectLinks next to rows of another job, the *)
(* links of these rows are there and stay: who else is dropping tables is  *)
(* locked out by a connection of its own before it gets to ObjectLinks, or *)
(* would have to meet a second failing DROP.                               *)
Barred(q) ==
  Loading(q, 7) /\ Full =>
    /\ disk.from = <<disk.list, disk.decl>>
    /\ \A n \in 1 .. MaxLoads : lock[<<q, n>>] = "none"
    /\ \A p \in Procs \ {q} :
         /\ Loading(p, 2) => faults > 0 \/ Leaks(p)
         /\ Loading(p, 3) => Leaks(p)

LinksStored ==
  /\ RowsInTables
  /\ Full /\ "links" \in disk.has => disk.from = <<disk.list, disk.decl>>
  /\ \A q \in Procs : Barred(q)
  /\ faults <= MaxFaults

(* One instance, or two of which one call may fail.                        *)
Few == \A p, q \in Procs : p # q => Procs = {p, q} /\ MaxFaults <= 1

(* Who goes on loading has done, or failed to do, a statement of the load. *)
LEMMA LoadGoesOn ==
  ASSUME IInv, NEW p \in Procs, Step(p), job'[p] = "Load", pc'[p] # 0, pc'[p] # 1
  PROVE  /\ job[p] = "Load" /\ Running(p) /\ pc'[p] = pc[p] + 1
         /\ lock' = lock /\ db' = db
         /\ \/ StatementOk(p)
            \/ StatementRefused(p) /\ Statement(p).failing # "returns"
            \/ StatementFails(p) /\ Statement(p).failing # "returns"
<1>1. TypeOK /\ pc = [q \in Procs |-> pc[q]] /\ InOrder(p)
  BY DEF IInv
<1>2. CASE StatementOk(p)
  <2>1. job' = job /\ Running(p)
    BY <1>2 DEF StatementOk
  <2> QED
    BY <1>2, <2>1, LoadStatement
<1>3. CASE StatementRefused(p) \/ StatementFails(p)
  <2>1. Running(p) /\ GiveUp(p) /\ Yields(p) /\ job' = job /\ db' = db
    BY <1>3 DEF StatementRefused, StatementFails, Yields
  <2>2. Statement(p).failing # "returns"
    <3>1. Statement(p).failing = "returns" => pc' = [pc EXCEPT ![p] = 0]
      BY <2>1 DEF GiveUp, Return
    <3> QED
      BY <1>1, <3>1
  <2>3. pc'[p] = pc[p] + 1
    BY <2>1, GiveUpMoves DEF Moved
  <2>4. lock' = lock
    <3>1. ~tx[Conn(p)]
      BY <1>1, <2>1 DEF InOrder
    <3> QED
      BY <1>3, <3>1 DEF StatementRefused, StatementFails, conns
  <2> QED
    BY <1>3, <2>1, <2>2, <2>3, <2>4
<1>4. CASE Open(p)
  BY <1>1, <1>4 DEF Open
<1>5. CASE OpenFails(p) \/ ScanThrows(p) \/ Exit(p)
  <2>1. pc' = [pc EXCEPT ![p] = 0]
    BY <1>5 DEF OpenFails, ScanThrows, Exit, Return
  <2> QED
    BY <1>1, <2>1
<1>6. CASE Query(p)
  BY <1>1, <1>6 DEF Query, Running, TypeOK
<1>7. CASE \E kind \in {"Rebuild", "Update"} : Start(p, kind)
  BY <1>1, <1>7 DEF Start, TypeOK
<1>8. CASE StatementRollsBack(p)
  BY <1>1, <1>8 DEF StatementRollsBack, InOrder
<1>9. ~NoClasses(p)
  <2>1. NoClasses(p) => Running(p) /\ Statement(p).op = "classes" /\ job' = job
    BY DEF NoClasses
  <2> QED
    BY <1>1, <2>1, StatementIs
<1> QED
  BY <1>2, <1>3, <1>4, <1>5, <1>6, <1>7, <1>8, <1>9 DEF Step

(* What a statement of a load does to the file.                            *)
LEMMA LoadEffect ==
  ASSUME IInv, RowsInTables, NEW p \in Procs, StatementOk(p), job[p] = "Load"
  PROVE  /\ pc[p] \in 1 .. 9
         /\ Exclusive(Conn(p))
         /\ disk'.list \in {disk.list, 0} /\ disk'.decl \in {disk.decl, 0}
         /\ pc[p] # 3 => disk'.from = disk.from
         /\ pc[p] = 1 => disk'.list = 0
         /\ pc[p] \in {2, 6} => disk'.decl = 0
         /\ pc[p] = 3 => "links" \notin disk'.has
         /\ pc[p] # 7 /\ "links" \in disk'.has => "links" \in disk.has
         /\ pc[p] = 7 => disk.from = <<0, 0>>
         /\ RowsInTables'
<1> DEFINE c == Conn(p)
           s == Statement(p)
           k == pc[p]
<1>1. /\ Running(p) /\ Succeeds(c, s) /\ TypeOK /\ ~tx[c] /\ disk \in Content
  BY DEF StatementOk, IInv, InOrder, TypeOK
<1>2. k \in 1 .. 9 /\ LoadStep(s, k) /\ s.op \in {"drop", "create", "index"}
  BY <1>1, LoadIs, StatementIs
<1>3. disk' = Effect(s, disk, id[p]) /\ View(c) = disk
  BY <1>1, LoadStatement DEF View
<1>4. Defined(s, disk) /\ Exclusive(c)
  <2> HIDE DEF s, c
  <2>1. s.op \notin {"begin", "commit", "read"}
    BY <1>2
  <2> QED
    BY <1>1, <1>3, <2>1 DEF Succeeds
<1>5. Order[1] = "list" /\ Order[2] = "decl" /\ Order[3] = "links" /\ Order[4] = "temp"
  BY DEF Order
<1> HIDE DEF c, s, k
<1>6. CASE k \in {1, 2, 3, 4}
  <2>1. s.op = "drop" /\ s.table = Order[k]
    BY <1>2, <1>6 DEF LoadStep, May
  <2>2. /\ disk'.has = disk.has \ Gone(Order[k])
        /\ disk'.list = (IF k = 1 THEN 0 ELSE disk.list)
        /\ disk'.decl = (IF k = 2 THEN 0 ELSE disk.decl)
        /\ disk'.from = (IF k = 3 THEN <<0, 0>> ELSE disk.from)
    BY <1>1, <1>3, <1>5, <1>6, <2>1 DEF Effect, Upserts, Content
  <2>3. /\ k = 1 => disk'.has = disk.has \ {"list"}
        /\ k = 2 => disk'.has = disk.has \ {"decl"}
        /\ k = 3 => disk'.has = disk.has \ {"links"}
        /\ k = 4 => disk'.has = disk.has \ {"temp", "index"}
    BY <1>5, <2>2 DEF Gone
  <2> QED
    BY <1>2, <1>4, <1>6, <2>2, <2>3 DEF RowsInTables, k, c
<1>7. CASE k \in {5, 6, 7, 8}
  <2>1. s.op = "create" /\ s.table = Order[k - 4]
    BY <1>2, <1>7 DEF LoadStep, Must
  <2>2. /\ disk'.has = disk.has \cup {s.table} /\ s.table \notin disk.has
        /\ disk'.list = disk.list /\ disk'.decl = disk.decl /\ disk'.from = disk.from
    BY <1>1, <1>3, <1>4, <2>1 DEF Effect, Upserts, Content, Defined
  <2>3. /\ k = 6 => s.table = "decl"
        /\ k = 7 => s.table = "links"
        /\ k = 5 => s.table = "list"
        /\ k = 8 => s.table = "temp"
    BY <1>5, <1>7, <2>1
  <2> QED
    BY <1>2, <1>4, <1>7, <2>2, <2>3 DEF RowsInTables, k, c
<1>8. CASE k = 9
  <2>1. s.op = "index"
    BY <1>2, <1>8 DEF LoadStep, Must
  <2>2. /\ disk'.has = disk.has \cup {"index"}
        /\ disk'.list = disk.list /\ disk'.decl = disk.decl /\ disk'.from = disk.from
    BY <1>1, <1>3, <2>1 DEF Effect, Upserts, Content
  <2> QED
    BY <1>2, <1>4, <1>8, <2>2 DEF RowsInTables, k, c
<1> QED
  BY <1>2, <1>6, <1>7, <1>8

(* Who changes the file: a load, or a job with its commit.                 *)
LEMMA DiskChange ==
  ASSUME IInv, Transactions, NEW p \in Procs, Step(p), disk' # disk
  PROVE  /\ StatementOk(p)
         /\ job[p] = "Load" \/ (InJob(p) /\ Left(p) = 0)
<1>1. StatementOk(p)
  BY DEF Step, Open, OpenFails, Start, StatementRefused, StatementFails, StatementRollsBack,
         ScanThrows, NoClasses, Query, Exit
<1>2. CASE InJob(p) /\ Left(p) # 0
  <2> DEFINE c == Conn(p)
             s == Statement(p)
  <2>1. JobStatement(p) /\ Running(p) /\ TypeOK /\ db[p] # 0
    BY <1>1, JobStatementIs DEF IInv, StatementOk
  <2>2. /\ s \in Statements /\ pc[p] \in Nat /\ pc[p] >= 1
        /\ s.op # "commit" /\ Placed(s, pc[p], Left(p)) /\ s.op \notin {"drop", "create", "index"}
        /\ s.op = "delete" => s.table \in {"list", "decl"}
    BY <1>2, <2>1, PlacesAre, StatementIs
  <2>3. s.op \notin {"begin", "read"} /\ ~tx[c] /\ disk' = Effect(s, View(c), id[p])
    BY <1>2, <2>1, <2>2 DEF JobStatement
  <2>4. pc[p] \in {1, 2, 3}
    BY <1>2, <2>2, <2>3 DEF Transactions, Transaction
  <2>5. s.op = "mark"
    BY <2>2, <2>3, <2>4 DEF Placed
  <2>6. disk' = View(c)
    <3> HIDE DEF s, c
    <3> QED
      BY <2>3, <2>5 DEF Effect, Upserts
  <2> QED
    BY <2>3, <2>6 DEF View
<1> QED
  BY <1>1, <1>2 DEF StatementOk, InJob
(* A load that is refused a DROP next to one without locks has itself      *)
(* left a connection with a lock behind.                                   *)
LEMMA RefusedLeaks ==
  ASSUME IInv, NEW p \in Procs, NEW q \in Procs, Procs = {p, q}, p # q,
         StatementRefused(p), job[p] = "Load", Statement(p).op = "drop",
         \A n \in 1 .. MaxLoads : lock[<<q, n>>] = "none"
  PROVE  Leaks(p)
<1> DEFINE c == Conn(p)
           s == Statement(p)
<1>1. /\ Running(p) /\ db[p] # 0 /\ ~tx[c] /\ TypeOK /\ Locks
  BY DEF StatementRefused, IInv, InOrder
<1>2. c \in Conns /\ ~Succeeds(c, s) /\ lock[c] = "none"
  BY <1>1, ConnIs DEF StatementRefused, Locks
<1>3. PICK o \in Conns : o # c /\ lock[o] # "none"
  <2> SUFFICES ASSUME \A o \in Conns : o # c => lock[o] = "none" PROVE FALSE
    OBVIOUS
  <2> HIDE DEF c, s
  <2>1. \A o \in Conns : lock[o] = "none"
    BY <1>2
  <2>2. Exclusive(c) /\ Writable(c)
    BY <2>1 DEF Exclusive, Writable, Readable, Writing
  <2>3. Defined(s, View(c))
    <3>1. s.op = "drop"
      BY DEF s
    <3> QED
      BY <3>1 DEF Defined, Needs
  <2>4. Succeeds(c, s)
    BY <2>2, <2>3 DEF Succeeds, s
  <2> QED
    BY <1>2, <2>4
<1>4. PICK r \in Procs, n \in 1 .. MaxLoads : o = <<r, n>>
  BY DEF Conns
<1>5. r = p
  BY <1>3, <1>4
<1>6. n # db[p]
  BY <1>3, <1>4, <1>5 DEF Conn
<1> QED
  BY <1>3, <1>4, <1>5, <1>6 DEF Leaks

LEMMA LeaksMeet ==
  ASSUME IInv, NEW p \in Procs, Leaks(p)
  PROVE  ~Exclusive(Conn(p))
<1>1. PICK n \in 1 .. MaxLoads : n # db[p] /\ lock[<<p, n>>] # "none"
  BY DEF Leaks
<1>2. <<p, n>> \in Conns /\ <<p, n>> # Conn(p)
  BY <1>1 DEF Conns, Conn
<1> QED
  BY <1>1, <1>2 DEF Exclusive

LEMMA BarredOwn ==
  ASSUME IInv, LinksStored, NEW p \in Procs, Step(p)
  PROVE  Barred(p)'
<1> SUFFICES ASSUME job'[p] = "Load", pc'[p] = 7 PROVE ~Full'
  BY DEF Barred, Loading
<1>1. /\ job[p] = "Load" /\ Running(p) /\ pc[p] + 1 = 7
      /\ \/ StatementOk(p)
         \/ Statement(p).failing # "returns"
  BY LoadGoesOn
<1>2. pc[p] = 6 /\ LoadStep(Statement(p), pc[p])
  <2>1. pc[p] \in 1 .. 9 /\ LoadStep(Statement(p), pc[p])
    BY <1>1, LoadIs DEF IInv
  <2> QED
    BY <1>1, <2>1
<1>3. Statement(p).failing = "returns"
  BY <1>2 DEF LoadStep, Must
<1>4. disk'.decl = 0
  BY <1>1, <1>2, <1>3, LoadEffect DEF LinksStored
<1> QED
  BY <1>4 DEF Full

(* The commit of the other instance.                                       *)
LEMMA BarredByCommit ==
  ASSUME IInv, NEW p \in Procs, StatementOk(p), InJob(p), Left(p) = 0,
         NEW q \in Procs, q # p, Procs = {p, q}
  PROVE  Barred(q)'
<1> DEFINE c == Conn(p)
<1>1. /\ Writing(c) /\ disk' = buf[c] /\ buf[c].from = <<buf[c].list, buf[c].decl>>
  BY CommitStores
<1>2. Exclusive(c)
  <2>1. Statement(p).op = "commit"
    BY PlacesAre DEF InJob, IInv
  <2> DEFINE s == Statement(p)
  <2>2. Succeeds(c, s)
    BY DEF StatementOk
  <2> HIDE DEF s, c
  <2> QED
    BY <1>1, <2>1, <2>2 DEF Succeeds, s
<1>3. pc'[p] = 0
  <2>1. Running(p) /\ Advance(p)
    BY DEF StatementOk
  <2> QED
    BY <2>1, AdvanceMoves
<1>4. OnlyBy(p) /\ Conn(p)[1] = p
  BY StepOnlyBy, ConnIs DEF Step, IInv
<1>5. ASSUME NEW n \in 1 .. MaxLoads PROVE lock'[<<q, n>>] = "none"
  <2>1. <<q, n>> \in Conns /\ <<q, n>>[1] # p /\ <<q, n>> # c
    BY <1>4 DEF Conns
  <2>2. lock[<<q, n>>] = "none"
    BY <1>2, <2>1 DEF Exclusive
  <2> QED
    BY <1>4, <2>1, <2>2 DEF OnlyBy
<1>6. ASSUME NEW r \in Procs \ {q} PROVE ~Loading(r, 2)' /\ ~Loading(r, 3)'
  BY <1>3, <1>6 DEF Loading
<1> QED
  BY <1>1, <1>5, <1>6 DEF Barred

(* A statement of the other instance's load.                               *)
LEMMA BarredByLoad ==
  ASSUME IInv, LinksStored, NEW p \in Procs, StatementOk(p), job[p] = "Load",
         NEW q \in Procs, q # p, Procs = {p, q}
  PROVE  Barred(q)'
<1> SUFFICES ASSUME Loading(q, 7)', Full' PROVE Barred(q)'
  BY DEF Barred
<1>1. /\ pc[p] \in 1 .. 9 /\ Exclusive(Conn(p))
      /\ disk'.list \in {disk.list, 0} /\ disk'.decl \in {disk.decl, 0}
      /\ pc[p] # 3 => disk'.from = disk.from
      /\ pc[p] = 1 => disk'.list = 0
      /\ pc[p] \in {2, 6} => disk'.decl = 0
  BY LoadEffect DEF LinksStored
<1>2. disk'.list = disk.list /\ disk'.decl = disk.decl /\ Full /\ pc[p] \notin {1, 2}
  BY <1>1 DEF Full
<1>3. OnlyBy(p)
  BY StepOnlyBy DEF Step
<1>4. Loading(q, 7)
  BY <1>3 DEF Loading, OnlyBy
<1>5. /\ disk.from = <<disk.list, disk.decl>>
      /\ \A n \in 1 .. MaxLoads : lock[<<q, n>>] = "none"
      /\ Loading(p, 3) => Leaks(p)
  BY <1>2, <1>4 DEF LinksStored, Barred
<1>6. pc[p] # 3
  BY <1>1, <1>5, LeaksMeet DEF Loading
<1>7. UNCHANGED lock /\ pc'[p] \in {pc[p] + 1, 0}
  BY LoadStatement
<1>8. ASSUME NEW r \in Procs \ {q} PROVE ~Loading(r, 2)' /\ ~Loading(r, 3)'
  BY <1>1, <1>2, <1>7, <1>8 DEF Loading
<1> QED
  BY <1>1, <1>2, <1>5, <1>6, <1>7, <1>8 DEF Barred

(* Whatever else the other instance does.                                  *)
LEMMA BarredByRest ==
  ASSUME IInv, LinksStored, NEW p \in Procs, Step(p), disk' = disk,
         ~(StatementOk(p) /\ job[p] = "Load"),
         NEW q \in Procs, q # p, Procs = {p, q}, MaxFaults <= 1
  PROVE  Barred(q)'
<1> SUFFICES ASSUME Loading(q, 7)', Full' PROVE Barred(q)'
  BY DEF Barred
<1>1. OnlyBy(p) /\ faults' \in {faults, faults + 1} /\ faults \in Nat /\ MaxFaults \in Nat
  BY StepOnlyBy, FaultsGrow, SessionAssumption DEF IInv, TypeOK
<1>2. Loading(q, 7) /\ Full
  BY <1>1 DEF Loading, OnlyBy, Full
<1>3. /\ disk.from = <<disk.list, disk.decl>>
      /\ \A n \in 1 .. MaxLoads : lock[<<q, n>>] = "none"
      /\ Loading(p, 2) => faults > 0 \/ Leaks(p)
      /\ Loading(p, 3) => Leaks(p)
  BY <1>2 DEF LinksStored, Barred
<1>4. ASSUME NEW n \in 1 .. MaxLoads PROVE lock'[<<q, n>>] = "none"
  <2>1. <<q, n>> \in Conns /\ <<q, n>>[1] # p
    BY DEF Conns
  <2> QED
    BY <1>1, <1>3, <2>1 DEF OnlyBy
<1>5. ASSUME job'[p] = "Load", pc'[p] \in {2, 3}
      PROVE  /\ pc'[p] = 2 => faults' > 0 \/ Leaks(p)'
             /\ pc'[p] = 3 => Leaks(p)'
  <2>1. /\ job[p] = "Load" /\ Running(p) /\ pc'[p] = pc[p] + 1
        /\ lock' = lock /\ db' = db
        /\ StatementRefused(p) \/ StatementFails(p)
    BY <1>5, LoadGoesOn
  <2>2. pc[p] \in 1 .. 9 /\ LoadStep(Statement(p), pc[p])
    BY <2>1, LoadIs DEF IInv
  <2>3. pc[p] \in {1, 2} /\ Statement(p).op = "drop"
    <3>1. pc[p] \in {1, 2}
      BY <1>5, <2>1, <2>2
    <3> QED
      BY <2>2, <3>1 DEF LoadStep, May
  <2>4. StatementRefused(p) => Leaks(p)
    BY <1>3, <2>1, <2>3, RefusedLeaks
  <2>5. StatementFails(p) => faults < MaxFaults /\ faults' = faults + 1
    BY DEF StatementFails, Fault
  <2>6. Leaks(p) => Leaks(p)'
    BY <2>1 DEF Leaks
  <2>7. pc[p] = 2 /\ faults > 0 => ~StatementFails(p)
    BY <1>1, <2>5
  <2>8. pc'[p] = 2 => faults' > 0 \/ Leaks(p)'
    BY <1>1, <2>1, <2>4, <2>5, <2>6
  <2>9. pc'[p] = 3 => Leaks(p)'
    <3> SUFFICES ASSUME pc'[p] = 3 PROVE Leaks(p)
      BY <2>6
    <3>1. Loading(p, 2)
      BY <2>1, <2>3 DEF Loading
    <3> QED
      BY <1>3, <2>1, <2>4, <2>7, <3>1 DEF Loading
  <2> QED
    BY <2>8, <2>9
<1>6. ASSUME NEW r \in Procs \ {q}
      PROVE  /\ Loading(r, 2)' => faults' > 0 \/ Leaks(r)'
             /\ Loading(r, 3)' => Leaks(r)'
  <2>1. r = p
    BY <1>6
  <2> QED
    BY <1>5, <2>1 DEF Loading
<1> QED
  BY <1>3, <1>4, <1>6 DEF Barred
LEMMA LinksKeep ==
  ASSUME IInv, Transactions, LinksStored, NEW p \in Procs, Step(p)
  PROVE  /\ RowsInTables'
         /\ Full' /\ "links" \in disk'.has => disk'.from = <<disk'.list, disk'.decl>>
<1>1. CASE disk' = disk
  BY <1>1 DEF LinksStored, RowsInTables, Full
<1>2. CASE disk' # disk /\ InJob(p)
  <2>1. StatementOk(p) /\ Left(p) = 0
    BY <1>2, DiskChange DEF InJob
  <2> DEFINE t == buf[Conn(p)]
  <2>2. disk' = t /\ Tables \subseteq t.has /\ t.from = <<t.list, t.decl>>
    BY <1>2, <2>1, CommitStores
  <2> HIDE DEF t
  <2> QED
    BY <2>2 DEF RowsInTables, Tables
<1>3. CASE disk' # disk /\ ~InJob(p)
  <2>1. StatementOk(p) /\ job[p] = "Load"
    BY <1>3, DiskChange
  <2>2. /\ disk'.list \in {disk.list, 0} /\ disk'.decl \in {disk.decl, 0}
        /\ pc[p] # 3 => disk'.from = disk.from
        /\ pc[p] = 3 => "links" \notin disk'.has
        /\ pc[p] # 7 /\ "links" \in disk'.has => "links" \in disk.has
        /\ pc[p] = 7 => disk.from = <<0, 0>>
        /\ RowsInTables'
    BY <2>1, LoadEffect DEF LinksStored
  <2> SUFFICES ASSUME Full', "links" \in disk'.has
               PROVE  disk'.from = <<disk'.list, disk'.decl>>
    BY <2>2
  <2>3. Full /\ disk'.list = disk.list /\ disk'.decl = disk.decl
    BY <2>2 DEF Full
  <2>4. pc[p] # 7
    <3> SUFFICES ASSUME pc[p] = 7 PROVE FALSE
      OBVIOUS
    <3>1. disk.from = <<disk.list, disk.decl>> /\ disk.from = <<0, 0>>
      BY <2>1, <2>2, <2>3 DEF LinksStored, Barred, Loading
    <3> QED
      BY <2>3, <3>1 DEF Full
  <2> QED
    BY <2>2, <2>3, <2>4 DEF LinksStored
<1> QED
  BY <1>1, <1>2, <1>3

LEMMA LinksStoredKeeps ==
  ASSUME Few
  PROVE  IInv /\ Transactions /\ LinksStored /\ [Next]_vars => LinksStored'
<1> SUFFICES ASSUME IInv, Transactions, LinksStored, [Next]_vars PROVE LinksStored'
  OBVIOUS
<1>1. CASE Next
  <2>1. PICK p \in Procs : Step(p)
    BY <1>1 DEF Next, Step
  <2>2. ASSUME NEW q \in Procs PROVE Barred(q)'
    <3>1. CASE q = p
      BY <2>1, <3>1, BarredOwn
    <3>2. CASE q # p
      <4>1. Procs = {p, q} /\ MaxFaults <= 1
        BY <3>2 DEF Few
      <4>2. CASE StatementOk(p) /\ job[p] = "Load"
        BY <3>2, <4>1, <4>2, BarredByLoad
      <4>3. CASE disk' # disk /\ ~(StatementOk(p) /\ job[p] = "Load")
        <5>1. StatementOk(p) /\ InJob(p) /\ Left(p) = 0
          BY <2>1, <4>3, DiskChange
        <5> QED
          BY <3>2, <4>1, <5>1, BarredByCommit
      <4>4. CASE disk' = disk /\ ~(StatementOk(p) /\ job[p] = "Load")
        BY <2>1, <3>2, <4>1, <4>4, BarredByRest
      <4> QED
        BY <4>2, <4>3, <4>4
    <3> QED
      BY <3>1, <3>2
  <2>3. faults' <= MaxFaults
    <3>1. faults' = faults \/ (faults < MaxFaults /\ faults' = faults + 1)
      BY <2>1 DEF Step, Open, OpenFails, Start, StatementOk, StatementRefused, StatementFails,
                  StatementRollsBack, ScanThrows, NoClasses, Query, Exit, Fault
    <3> QED
      BY <3>1, SessionAssumption DEF LinksStored, IInv, TypeOK
  <2>4. /\ RowsInTables'
        /\ Full' /\ "links" \in disk'.has => disk'.from = <<disk'.list, disk'.decl>>
    BY <2>1, LinksKeep
  <2> QED
    BY <2>2, <2>3, <2>4 DEF LinksStored
<1>2. CASE UNCHANGED vars
  BY <1>2 DEF vars, LinksStored, RowsInTables, Full, Barred, Loading, Leaks
<1> QED
  BY <1>1, <1>2

LEMMA LinksStoredAtFirst == Init => LinksStored
<1> SUFFICES ASSUME Init PROVE LinksStored
  OBVIOUS
<1>1. disk.list = 0 /\ disk.decl = 0 /\ disk.from = <<0, 0>> /\ faults = 0
  BY DEF Init, NoFile
<1> QED
  BY <1>1, SessionAssumption DEF LinksStored, RowsInTables, Full, Barred

LEMMA StoredAlways ==
  ASSUME Few, "rollback" \notin Faults
  PROVE  Spec => [](Transactions /\ LinksStored)
<1>1. Init => Transactions
  BY DEF Init, Transactions, Transaction, InJob, Running
<1>2. IInv /\ Transactions /\ [Next]_vars => Transactions'
  BY OwnTransactions
<1>3. IInv /\ Transactions /\ LinksStored /\ [Next]_vars => LinksStored'
  BY LinksStoredKeeps
<1> QED
  BY <1>1, <1>2, <1>3, LinksStoredAtFirst, Inductive, PTL DEF Spec

LEMMA StoredIsWhole == LinksStored => DiskWhole
BY DEF LinksStored, DiskWhole, Whole, Full, Tables

(* The file never shows links that were computed from other rows, whatever *)
(* a job is interrupted by: for one instance and any number of failing     *)
(* calls, and for two of which one call may fail.  A rollback by SQLite    *)
(* halfway through a job is left out: the rest of the job is then stored   *)
(* statement by statement.                                                 *)
THEOREM DiskAlwaysWhole ==
  ASSUME Few, "rollback" \notin Faults
  PROVE  Spec => []DiskWhole
BY StoredAlways, StoredIsWhole, PTL
-----------------------------------------------------------------------------
(* What an instance gets to see.  After a command that has succeeded its   *)
(* connection is in no transaction; after one that has failed although no  *)
(* call has, what is written in an open transaction is what the file had   *)
(* when it was marked, or lacks a table, or is what could not be committed *)
(* yet.                                                                    *)
Shown(p) ==
  db[p] # 0 =>
    /\ ~Running(p) => result[p] # "none"
    /\ ~Running(p) /\ result[p] = "ok" => ~tx[Conn(p)]
    /\ faults = 0 /\ tx[Conn(p)] /\ Writing(Conn(p))
       /\ (~Running(p) \/ (InJob(p) /\ pc[p] <= 3)) => Whole(buf[Conn(p)])

(* A statement of a job that is refused in a transaction that has written. *)
LEMMA RefusedIsWhole ==
  ASSUME IInv, Transactions, NEW p \in Procs, StatementRefused(p), InJob(p), pc[p] > 3,
         db[p] # 0, tx[Conn(p)], Writing(Conn(p))
  PROVE  Whole(buf[Conn(p)])
<1> DEFINE c == Conn(p)
           s == Statement(p)
<1>1. Running(p) /\ ~Succeeds(c, s) /\ TypeOK /\ Locks /\ Linked(p, buf[c])
  BY DEF StatementRefused, InJob, IInv, InOrder
<1>2. c \in Conns /\ View(c) = buf[c]
  BY <1>1, ConnIs DEF View
<1>3. /\ s \in Statements /\ Left(p) \in Nat /\ pc[p] \in Nat
      /\ Placed(s, pc[p], Left(p)) /\ (s.op = "commit" => Left(p) = 0)
      /\ s.op \notin {"drop", "create", "index"}
  BY <1>1, PlacesAre, StatementIs
<1>4. Readable(c) /\ Writable(c)
  BY <1>1, <1>2 DEF Readable, Writable, Writing, Locks
<1>5. s.op # "begin"
  <2>1. CASE Left(p) > 5
    BY <1>3, <2>1 DEF Placed
  <2>2. CASE Left(p) \in {0, 1, 2, 3, 4, 5}
    BY <1>3, <2>2 DEF Placed, Must
  <2> QED
    BY <1>3, <2>1, <2>2
<1>6. CASE s.op = "commit"
  BY <1>1, <1>3, <1>6 DEF Linked, Whole
<1>7. CASE s.op # "commit"
  <2> HIDE DEF s, c
  <2>1. ~Defined(s, View(c))
    <3>1. CASE s.op = "read"
      BY <1>1, <1>4, <3>1 DEF Succeeds
    <3>2. CASE s.op # "read"
      BY <1>1, <1>4, <1>5, <1>7, <3>2 DEF Succeeds, c
    <3> QED
      BY <3>1, <3>2
  <2>2. ~(Needs(s) \subseteq buf[c].has)
    BY <1>2, <1>3, <2>1 DEF Defined
  <2>3. Needs(s) \subseteq Tables
    BY <1>3 DEF Needs, Statements, Tables
  <2>4. ~(Tables \subseteq buf[c].has)
    BY <2>2, <2>3
  <2> QED
    BY <2>4 DEF Whole, c
<1> QED
  BY <1>6, <1>7
(* How a statement that does not succeed leaves the command.               *)
LEMMA GivenUp ==
  ASSUME IInv, NEW p \in Procs, Running(p), Yields(p), pc'[p] = 0
  PROVE  result'[p] # "none" /\ (result'[p] = "ok" => job[p] = "Load")
<1>1. result \in [Procs -> {"none", "ok", "failed"}]
  BY DEF IInv, TypeOK
<1>2. CASE Return(p, "failed")
  <2>1. result' = [result EXCEPT ![p] = "failed"]
    BY <1>2 DEF Return
  <2> QED
    BY <1>1, <2>1
<1>3. CASE Advance(p)
  <2>2. result'[p] = "ok"
    BY <1>3, AdvanceMoves
  <2>3. InJob(p) => result'[p] # "ok"
    BY GiveUpMoves
  <2> QED
    BY <2>2, <2>3 DEF InJob
<1> QED
  BY <1>2, <1>3 DEF Yields, GiveUp

LEMMA ShownRefused ==
  ASSUME IInv, Transactions, NEW p \in Procs, StatementRefused(p), Shown(p)
  PROVE  Shown(p)'
<1> DEFINE c == Conn(p)
<1>1. /\ Running(p) /\ Yields(p)
      /\ UNCHANGED <<disk, buf, tx, opened, db, job, id, jobs, faults, exits>>
  BY DEF StatementRefused, Yields
<1>2. Moved(p) /\ c' = c /\ TypeOK /\ pc[p] \in Nat /\ pc[p] >= 1 /\ InOrder(p)
  BY <1>1, GiveUpMoves, StatementIs DEF Conn, IInv
<1>3. pc'[p] = 0 => result'[p] # "none" /\ (result'[p] = "ok" => job[p] = "Load")
  BY <1>1, GivenUp
<1>4. job[p] = "Load" => ~tx[c]
  BY <1>1, <1>2 DEF InOrder
<1>5. ~Running(p)' <=> pc'[p] = 0
  BY <1>2 DEF Moved, Running
<1>6. Writing(c)' => Writing(c) \/ lock' = lock
  <2>1. \/ lock' = lock
        \/ lock'[c] \in {"reserved", "pending"} => lock[c] \in {"reserved", "pending"}
    BY RefusedLocks
  <2> QED
    BY <1>2, <2>1 DEF Writing
<1>7. Writing(c)' => Writing(c)
  BY <1>2, <1>6 DEF Writing
<1> HIDE DEF c
<1>8. ASSUME db[p] # 0, faults = 0, tx[c], Writing(c)', ~Running(p)' \/ (InJob(p)' /\ pc'[p] <= 3)
      PROVE  Whole(buf[c])
  <2>1. InJob(p) /\ Writing(c)
    BY <1>1, <1>4, <1>7, <1>8 DEF InJob
  <2>2. CASE pc[p] <= 3
    BY <1>8, <2>1, <2>2 DEF Shown, c
  <2>3. CASE pc[p] > 3
    <3>1. Whole(buf[Conn(p)])
      BY <1>8, <2>1, <2>3, RefusedIsWhole DEF c
    <3> QED
      BY <3>1 DEF c
  <2> QED
    BY <1>2, <2>2, <2>3
<1> QED
  BY <1>1, <1>2, <1>3, <1>4, <1>5, <1>8 DEF Shown, c

LEMMA ShownOk ==
  ASSUME IInv, DiskWhole, NEW p \in Procs, StatementOk(p), Shown(p)
  PROVE  Shown(p)'
<1> DEFINE c == Conn(p)
           s == Statement(p)
<1>1. Running(p) /\ db[p] # 0 /\ TypeOK /\ InOrder(p)
  BY DEF StatementOk, IInv
<1>2. CASE job[p] = "Load"
  <2>1. /\ UNCHANGED <<tx, db, job>> /\ ~tx[c]
        /\ \/ pc'[p] = pc[p] + 1 /\ pc[p] < 9
           \/ pc'[p] = 0 /\ result'[p] = "ok"
    BY <1>1, <1>2, LoadStatement DEF InOrder
  <2>2. c' = c /\ (~Running(p)' => pc'[p] = 0) /\ pc[p] \in 1 .. 9
    BY <1>1, <1>2, <2>1, LoadIs DEF Conn, Running
  <2>3. ~Running(p)' => result'[p] = "ok"
    BY <2>1, <2>2
  <2> QED
    BY <2>1, <2>2, <2>3 DEF Shown
<1>3. CASE job[p] # "Load"
  <2>1. InJob(p)
    BY <1>1, <1>3 DEF InJob
  <2>2. /\ JobStatement(p) /\ UNCHANGED <<db, job, id, faults>>
        /\ \/ pc'[p] = pc[p] + 1 /\ Left(p) > 0 /\ result'[p] = result[p]
           \/ pc'[p] = 0 /\ Left(p) = 0 /\ result'[p] = "ok"
    BY JobStatementIs
  <2>3. /\ s \in Statements /\ Left(p) \in Nat /\ pc[p] \in Nat /\ pc[p] >= 1
        /\ Placed(s, pc[p], Left(p)) /\ c' = c
    BY <1>1, <2>1, <2>2, StatementIs DEF Conn
  <2>4. CASE pc'[p] = 0
    <3>1. Left(p) = 0
      BY <2>2, <2>3, <2>4
    <3>2. ~tx'[c] /\ result'[p] = "ok"
      BY <2>1, <2>2, <2>3, <2>4, <3>1, CommitStores
    <3> QED
      BY <2>3, <3>2 DEF Shown
  <2>5. CASE pc'[p] = pc[p] + 1
    <3>1. Running(p)'
      BY <2>3, <2>5 DEF Running
    <3> SUFFICES ASSUME faults = 0, tx'[c], Writing(c)', pc'[p] <= 3 PROVE Whole(buf'[c])
      BY <2>2, <2>3, <3>1 DEF Shown
    <3>2. pc[p] \in {1, 2}
      BY <2>3, <2>5
    <3>3. s.op = "mark"
      BY <2>3, <3>2 DEF Placed
    <3>4. tx[c] /\ buf'[c] = Effect(s, View(c), id[p])
      BY <2>2, <3>3 DEF JobStatement
    <3>5. buf'[c] = View(c)
      <4> HIDE DEF s, c
      <4> QED
        BY <3>3, <3>4 DEF Effect, Upserts
    <3>6. CASE Writing(c)
      <4>1. Whole(buf[c])
        <5>1. InJob(p) /\ pc[p] <= 3
          BY <2>1, <3>2
        <5> QED
          BY <1>1, <3>4, <3>6, <5>1 DEF Shown
      <4> QED
        BY <3>4, <3>5, <3>6, <4>1 DEF View
    <3>7. CASE ~Writing(c)
      BY <3>5, <3>7 DEF View, DiskWhole
    <3> QED
      BY <3>6, <3>7
  <2> QED
    BY <2>2, <2>4, <2>5
<1> QED
  BY <1>2, <1>3

LEMMA ShownOwn ==
  ASSUME IInv, Transactions, DiskWhole, NEW p \in Procs, Step(p), Shown(p)
  PROVE  Shown(p)'
<1>1. TypeOK /\ pc = [q \in Procs |-> pc[q]] /\ InOrder(p)
  BY DEF IInv
<1>2. CASE Open(p)
  <2>1. job'[p] = "Load" /\ pc'[p] = 1
    BY <1>1, <1>2 DEF Open, TypeOK
  <2> QED
    BY <2>1 DEF Shown, Running, InJob
<1>3. CASE OpenFails(p) \/ Exit(p)
  <2>1. db'[p] = 0
    BY <1>1, <1>3 DEF OpenFails, Exit, TypeOK
  <2> QED
    BY <2>1 DEF Shown
<1>4. CASE \E kind \in {"Rebuild", "Update"} : Start(p, kind)
  <2>1. ~Running(p) /\ pc'[p] = 1 /\ UNCHANGED <<buf, lock, tx, db, faults>>
    BY <1>1, <1>4 DEF Start, conns
  <2>2. Running(p)' /\ Conn(p)' = Conn(p) /\ (Writing(Conn(p))' <=> Writing(Conn(p)))
    BY <2>1 DEF Running, Conn, Writing
  <2> QED
    BY <2>1, <2>2 DEF Shown
<1>5. CASE Query(p)
  <2> DEFINE c == Conn(p)
  <2>1. /\ ~Running(p) /\ db[p] # 0
        /\ lock' = [lock EXCEPT ![c] = IF lock[c] = "none" /\ tx[c] THEN "shared" ELSE lock[c]]
        /\ UNCHANGED <<disk, buf, tx, opened, db, job, pc, id, result, faults>>
    BY <1>5 DEF Query
  <2>2. c \in Conns /\ lock \in [Conns -> {"none", "shared", "reserved", "pending"}]
    BY <1>1, <2>1, ConnIs DEF TypeOK
  <2>3. c' = c /\ ~Running(p)'
    BY <2>1 DEF Conn, Running
  <2> HIDE DEF c
  <2>4. lock'[c] \in {"reserved", "pending"} => lock[c] \in {"reserved", "pending"}
    BY <2>1, <2>2
  <2>5. Writing(c)' => Writing(c)
    BY <2>3, <2>4 DEF Writing
  <2> QED
    BY <2>1, <2>3, <2>5 DEF Shown, c
<1>6. CASE ScanThrows(p)
  <2>1. pc'[p] = 0 /\ result'[p] = "failed" /\ faults' = faults + 1 /\ faults \in Nat
    BY <1>1, <1>6 DEF ScanThrows, Return, Fault, TypeOK
  <2>2. faults' # 0
    BY <2>1
  <2> QED
    BY <2>1, <2>2 DEF Shown
<1>7. CASE StatementFails(p) \/ StatementRollsBack(p)
  <2>1. /\ Running(p) /\ Yields(p) /\ job' = job /\ db' = db
        /\ faults' = faults + 1 /\ faults \in Nat
        /\ tx'[Conn(p)] => tx[Conn(p)]
    <3>1. StatementFails(p) => tx' = tx
      BY DEF StatementFails, conns
    <3>2. StatementRollsBack(p) => tx' = [tx EXCEPT ![Conn(p)] = FALSE]
      BY DEF StatementRollsBack
    <3> DEFINE c == Conn(p)
    <3>3. tx \in [Conns -> BOOLEAN] /\ (db[p] # 0 => c \in Conns)
      BY <1>1, ConnIs DEF TypeOK
    <3>4. tx'[c] => tx[c]
      <4>1. db[p] # 0
        BY <1>7 DEF StatementFails, StatementRollsBack
      <4> HIDE DEF c
      <4>2. StatementRollsBack(p) => tx' = [tx EXCEPT ![c] = FALSE]
        BY <3>2 DEF c
      <4> QED
        BY <1>7, <3>1, <3>3, <4>1, <4>2
    <3> QED
      BY <1>1, <1>7, <3>4 DEF StatementFails, StatementRollsBack, Yields, Fault, TypeOK
  <2>2. faults' # 0 /\ Conn(p)' = Conn(p)
    BY <2>1 DEF Conn
  <2>3. ~Running(p)' => pc'[p] = 0
    BY <1>1, <2>1, GiveUpMoves, StatementIs DEF Moved, Running
  <2>4. pc'[p] = 0 => result'[p] # "none" /\ (result'[p] = "ok" => job[p] = "Load")
    BY <2>1, GivenUp
  <2>5. job[p] = "Load" => ~tx[Conn(p)]
    BY <1>1, <2>1 DEF InOrder
  <2> QED
    BY <2>1, <2>2, <2>3, <2>4, <2>5 DEF Shown
<1>8. CASE NoClasses(p)
  <2>1. /\ Running(p) /\ Yields(p) /\ Advance(p) /\ Statement(p).op = "classes"
        /\ UNCHANGED <<disk, buf, lock, tx, db, job>>
    BY <1>8 DEF NoClasses, Yields, conns
  <2>2. InJob(p) /\ pc[p] > 3 /\ Left(p) > 5 /\ pc[p] \in Nat
    <3>1. Placed(Statement(p), pc[p], Left(p)) /\ InJob(p) /\ pc[p] \in Nat /\ pc[p] >= 1
          /\ Left(p) \in Nat
      BY <1>1, <2>1, StatementIs DEF InJob
    <3> QED
      BY <2>1, <3>1, ClassesPlaced
  <2>3. pc'[p] = pc[p] + 1
    <3>1. Moved(p) /\ (pc'[p] = 0 <=> Left(p) = 0)
      BY <2>1, AdvanceMoves
    <3> QED
      BY <2>2, <3>1 DEF Moved
  <2>4. Running(p)' /\ ~(pc'[p] <= 3)
    BY <2>2, <2>3 DEF Running
  <2> QED
    BY <2>4 DEF Shown
<1> QED
  BY <1>2, <1>3, <1>4, <1>5, <1>6, <1>7, <1>8, ShownRefused, ShownOk DEF Step

LEMMA ShownOthers ==
  ASSUME IInv, NEW p \in Procs, Step(p), NEW q \in Procs, q # p, Shown(q)
  PROVE  Shown(q)'
<1>1. /\ db'[q] = db[q] /\ job'[q] = job[q] /\ pc'[q] = pc[q] /\ result'[q] = result[q]
      /\ \A c \in Conns : c[1] = q => buf'[c] = buf[c] /\ lock'[c] = lock[c] /\ tx'[c] = tx[c]
  BY StepOnlyBy DEF OnlyBy
<1>2. Conn(q)[1] = q /\ (db[q] # 0 => Conn(q) \in Conns)
  BY ConnIs DEF IInv
<1>3. Conn(q)' = Conn(q) /\ (InJob(q)' <=> InJob(q)) /\ (Running(q)' <=> Running(q))
  BY <1>1 DEF Conn, InJob, Running
<1>4. faults' = 0 => faults = 0
  BY FaultsGrow
<1> QED
  BY <1>1, <1>2, <1>3, <1>4 DEF Shown, Writing

LEMMA ShownKeeps ==
  IInv /\ Transactions /\ DiskWhole /\ (\A p \in Procs : Shown(p)) /\ [Next]_vars
    => (\A p \in Procs : Shown(p))'
<1> SUFFICES ASSUME IInv, Transactions, DiskWhole, \A p \in Procs : Shown(p), [Next]_vars,
                    NEW q \in Procs
             PROVE  Shown(q)'
  OBVIOUS
<1>1. CASE Next
  <2>1. PICK p \in Procs : Step(p)
    BY <1>1 DEF Next, Step
  <2> QED
    BY <2>1, ShownOwn, ShownOthers
<1>2. CASE UNCHANGED vars
  <2>1. Shown(q)
    OBVIOUS
  <2> QED
    BY <1>2, <2>1 DEF vars, Shown, Running, InJob, Writing, Conn
<1> QED
  BY <1>1, <1>2

LEMMA ShownIsWhole ==
  ASSUME IInv, DiskWhole, \A p \in Procs : Shown(p)
  PROVE  QueriesWhole
<1> SUFFICES ASSUME NEW p \in Procs, ~Running(p), db[p] # 0, faults = 0 \/ result[p] # "failed"
             PROVE  Whole(View(Conn(p)))
  BY DEF QueriesWhole
<1>1. Shown(p) /\ result[p] \in {"none", "ok", "failed"}
  BY DEF IInv, TypeOK
<1>2. CASE tx[Conn(p)] /\ Writing(Conn(p))
  BY <1>1, <1>2 DEF Shown, View
<1>3. CASE ~(tx[Conn(p)] /\ Writing(Conn(p)))
  BY <1>3 DEF View, DiskWhole
<1> QED
  BY <1>2, <1>3

(* What an instance gets to see when it asks belongs together, though it   *)
(* may ask inside a transaction of its own that was never ended and while  *)
(* another instance works on the file -- for the instances and faults of   *)
(* DiskAlwaysWhole.                                                        *)
THEOREM QueriesAlwaysWhole ==
  ASSUME Few, "rollback" \notin Faults
  PROVE  Spec => []QueriesWhole
<1> DEFINE AllShown == \A p \in Procs : Shown(p)
<1>1. Init => AllShown
  BY DEF Init, Shown
<1>2. IInv /\ Transactions /\ DiskWhole /\ AllShown /\ [Next]_vars => AllShown'
  BY ShownKeeps
<1>3. IInv /\ DiskWhole /\ AllShown => QueriesWhole
  BY ShownIsWhole
<1>4. Spec => [](Transactions /\ LinksStored)
  BY StoredAlways
<1> HIDE DEF AllShown
<1> QED
  BY <1>1, <1>2, <1>3, <1>4, DiskAlwaysWhole, Inductive, PTL DEF Spec
=============================================================================
