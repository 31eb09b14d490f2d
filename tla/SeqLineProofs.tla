--------------------------- MODULE SeqLineProofs ---------------------------
(***************************************************************************)
(* The scanners remove comments and needless blanks, and nothing else,     *)
(* from lines of any length, and ParseLine stores what a declaration of    *)
(* any length declares.                                                    *)
(***************************************************************************)
EXTENDS SeqLine, SharedLemmas, SequenceTheorems, FiniteSetTheorems

LEMMA Literals == "/" # Quote /\ White # Quote /\ {"/", White} \subseteq Characters
BY LinesAssumption DEF Quote, White

-----------------------------------------------------------------------------
(* Texts.  A quote begins or ends one, other characters do not.            *)
LEMMA QuotesCounted ==
  ASSUME NEW s, NEW i \in Nat
  PROVE  Cardinality({j \in 1 .. i : s[j] = Quote}) \in Nat
<1> DEFINE Q == {j \in 1 .. i : s[j] = Quote}
<1>1. IsFiniteSet(1 .. i)
  BY FS_Interval
<1>2. IsFiniteSet(Q)
  BY <1>1, FS_Subset
<1> HIDE DEF Q
<1>3. Cardinality(Q) \in Nat
  BY <1>2, FS_CardinalityType
<1> QED
  BY <1>3 DEF Q

LEMMA OpenNone == ASSUME NEW s PROVE ~Open(s, 0)
<1>1. {j \in 1 .. 0 : s[j] = Quote} = {}
  OBVIOUS
<1> QED
  BY <1>1, FS_EmptySet DEF Open

LEMMA OpenOneMore ==
  ASSUME NEW s, NEW i \in Nat
  PROVE  /\ s[i + 1] = Quote => (Open(s, i + 1) <=> ~Open(s, i))
         /\ s[i + 1] # Quote => (Open(s, i + 1) <=> Open(s, i))
<1> DEFINE Q(k) == {j \in 1 .. k : s[j] = Quote}
           n == Cardinality(Q(i))
<1>1. IsFiniteSet(Q(i)) /\ n \in Nat
  <2>1. IsFiniteSet(1 .. i)
    BY FS_Interval
  <2> QED
    BY <2>1, FS_Subset, QuotesCounted
<1>2. CASE s[i + 1] = Quote
  <2>1. Q(i + 1) = Q(i) \cup {i + 1} /\ i + 1 \notin Q(i)
    BY <1>2
  <2> HIDE DEF Q
  <2>2. Cardinality(Q(i + 1)) = n + 1
    BY <1>1, <2>1, FS_AddElement
  <2>3. (n + 1) % 2 = 1 <=> ~(n % 2 = 1)
    <3> HIDE DEF n
    <3> QED
      BY <1>1, Z3
  <2> QED
    BY <1>2, <2>2, <2>3 DEF Open, Q
<1>3. CASE s[i + 1] # Quote
  <2>1. Q(i + 1) = Q(i)
    BY <1>3
  <2> QED
    BY <1>3, <2>1 DEF Open
<1> QED
  BY <1>2, <1>3

(* Whether a text has begun depends on the characters so far only.         *)
LEMMA OpenSame ==
  ASSUME NEW s, NEW t, NEW i \in Nat, \A j \in 1 .. i : s[j] = t[j]
  PROVE  Open(s, i) <=> Open(t, i)
<1>1. {j \in 1 .. i : s[j] = Quote} = {j \in 1 .. i : t[j] = Quote}
  OBVIOUS
<1> QED
  BY <1>1 DEF Open

LEMMA InTextSame ==
  ASSUME NEW s, NEW t, NEW i \in Nat, i > 0, \A j \in 1 .. i : s[j] = t[j]
  PROVE  InText(s, i) <=> InText(t, i)
BY OpenSame DEF InText

(* One character more.                                                     *)
LEMMA Appended ==
  ASSUME NEW s \in Seq(Characters), NEW c \in Characters,
         NEW t, t = s \o <<c>>
  PROVE  /\ t \in Seq(Characters)
         /\ Len(t) = Len(s) + 1
         /\ \A j \in 1 .. Len(s) : t[j] = s[j]
         /\ t[Len(t)] = c
         /\ c = Quote => (Open(t, Len(t)) <=> ~Open(s, Len(s)))
         /\ c # Quote => (Open(t, Len(t)) <=> Open(s, Len(s)))
<1>1. <<c>> \in Seq(Characters) /\ Len(<<c>>) = 1 /\ <<c>>[1] = c
  OBVIOUS
<1>2. /\ t \in Seq(Characters) /\ Len(t) = Len(s) + 1
      /\ \A j \in 1 .. Len(s) + 1 : t[j] = IF j <= Len(s) THEN s[j] ELSE <<c>>[j - Len(s)]
  BY <1>1, ConcatProperties
<1>3. Len(s) \in Nat
  OBVIOUS
<1>4. \A j \in 1 .. Len(s) : t[j] = s[j]
  BY <1>2, <1>3
<1>5. t[Len(s) + 1] = c
  BY <1>1, <1>2, <1>3
<1>6. Open(t, Len(s)) <=> Open(s, Len(s))
  BY <1>3, <1>4, OpenSame
<1>7. /\ c = Quote => (Open(t, Len(s) + 1) <=> ~Open(s, Len(s)))
      /\ c # Quote => (Open(t, Len(s) + 1) <=> Open(s, Len(s)))
  BY <1>3, <1>5, <1>6, OpenOneMore
<1> QED
  BY <1>2, <1>4, <1>5, <1>7

-----------------------------------------------------------------------------
(* RemoveComment.                                                          *)
CommentState == [out : Seq(Characters), text : BOOLEAN, slashes : 0 .. 2]

InCode(c, ch) == ~(IF ch = Quote THEN ~c.text ELSE c.text) /\ ch # Quote

(* What a step does.                                                       *)
CommentCase(c, ch, u) ==
  \/ InCode(c, ch) /\ ch = "/" /\ c.slashes = 0 /\ u.slashes = 1 /\ u.out = c.out
  \/ InCode(c, ch) /\ ch = "/" /\ c.slashes # 0 /\ u.slashes = 2 /\ u.out = c.out
  \/ /\ InCode(c, ch) /\ ch # "/" /\ c.slashes = 1
     /\ u.slashes = 0 /\ u.out = (c.out \o <<"/">>) \o <<ch>>
  \/ InCode(c, ch) /\ ch # "/" /\ c.slashes = 2 /\ u.slashes = 2 /\ u.out = c.out
  \/ /\ ~(InCode(c, ch) /\ ch = "/") /\ c.slashes = 0
     /\ u.slashes = 0 /\ u.out = c.out \o <<ch>>
  \/ ~InCode(c, ch) /\ c.slashes # 0 /\ u.slashes = c.slashes /\ u.out = c.out

LEMMA CommentStepIs ==
  ASSUME NEW c \in CommentState, NEW ch \in Characters, NEW u, u = CommentStep(c, ch)
  PROVE  /\ u \in CommentState
         /\ u.text = IF ch = Quote THEN ~c.text ELSE c.text
         /\ CommentCase(c, ch, u)
<1> DEFINE text == IF ch = Quote THEN ~c.text ELSE c.text
           code == ~text /\ ch # Quote
           n == c.slashes
           slashes == IF code /\ ch = "/" THEN IF n < 2 THEN n + 1 ELSE 2
                      ELSE IF code /\ n = 1 THEN 0 ELSE n
           held == If(code /\ ch # "/" /\ n = 1, <<"/">>)
           new == If(slashes < 1, <<ch>>)
           out == c.out \o held \o new
<1>1. u = [text |-> text, slashes |-> slashes, out |-> out]
  BY DEF CommentStep
<1>2. u.text = text /\ u.slashes = slashes /\ u.out = out
  <2> HIDE DEF text, slashes, out
  <2> QED
    BY <1>1
<1>3. n \in 0 .. 2 /\ c.text \in BOOLEAN /\ c.out \in Seq(Characters)
  BY DEF CommentState
<1>4. text \in BOOLEAN /\ (InCode(c, ch) <=> code)
  BY <1>3 DEF InCode
<1> HIDE DEF text
<1> DEFINE slash == ch = "/"
<1>5. /\ held = If(code /\ ~slash /\ n = 1, <<"/">>)
      /\ slashes = IF code /\ slash THEN IF n < 2 THEN n + 1 ELSE 2
                   ELSE IF code /\ n = 1 THEN 0 ELSE n
  OBVIOUS
<1> HIDE DEF code, slash, n, slashes, held
<1>6. slashes \in 0 .. 2
  BY <1>3, <1>5
<1>7. <<"/">> \in Seq(Characters) /\ <<ch>> \in Seq(Characters) /\ <<>> \in Seq(Characters)
  BY Literals
<1>8. held \in Seq(Characters) /\ new \in Seq(Characters)
  BY <1>5, <1>7 DEF If
<1>9. out \in Seq(Characters)
  BY <1>3, <1>8, ConcatProperties
<1>10. c.out \o <<>> = c.out
  BY <1>3, ConcatEmptySeq
<1>11. u \in CommentState
  <2> HIDE DEF out
  <2> QED
    BY <1>1, <1>4, <1>6, <1>9 DEF CommentState
<1>12. CASE slashes = 0
  <2>1. new = <<ch>>
    BY <1>12 DEF If
  <2>2. CASE n = 0
    <3>1. ~(code /\ slash)
      BY <1>5, <1>12, <2>2
    <3>2. held = <<>>
      BY <1>5, <2>2 DEF If
    <3>3. out = c.out \o <<ch>>
      BY <1>10, <2>1, <3>2
    <3> HIDE DEF out
    <3> QED
      BY <1>2, <1>4, <1>11, <1>12, <2>2, <3>1, <3>3 DEF CommentCase, text, n, slash
  <2>3. CASE n # 0
    <3>1. code /\ ~slash /\ n = 1
      BY <1>3, <1>5, <1>12, <2>3
    <3>2. held = <<"/">>
      BY <1>5, <3>1 DEF If
    <3>3. out = (c.out \o <<"/">>) \o <<ch>>
      BY <2>1, <3>2
    <3> HIDE DEF out
    <3> QED
      BY <1>2, <1>4, <1>11, <1>12, <3>1, <3>3 DEF CommentCase, text, n, slash
  <2> QED
    BY <2>2, <2>3
<1>13. CASE slashes # 0
  <2>1. ~(code /\ ~slash /\ n = 1)
    BY <1>5, <1>13
  <2>2. held = <<>> /\ new = <<>>
    BY <1>5, <1>6, <1>13, <2>1 DEF If
  <2>3. out = c.out
    BY <1>10, <2>2
  <2>4. \/ code /\ slash /\ n = 0 /\ slashes = 1
        \/ code /\ slash /\ n # 0 /\ slashes = 2
        \/ code /\ ~slash /\ n = 2 /\ slashes = 2
        \/ ~code /\ n # 0 /\ slashes = n
    BY <1>3, <1>5, <1>13
  <2> HIDE DEF out
  <2> QED
    BY <1>2, <1>4, <1>11, <2>3, <2>4 DEF CommentCase, text, n, slash
<1> QED
  BY <1>12, <1>13

(* After n characters: the scanner knows whether it is in a text; what it  *)
(* has written is no longer than what it has read, and ends in a text only *)
(* if it writes, and the line is in a text there.                          *)
CommentRead(c, s, n) ==
  /\ c \in CommentState
  /\ c.text <=> Open(s, n)
  /\ Len(c.out) <= n
  /\ c.slashes # 0 => Len(c.out) < n
  /\ Open(c.out, Len(c.out)) <=> c.slashes = 0 /\ c.text

LEMMA CommentReadStep ==
  ASSUME NEW s \in Seq(Characters), NEW n \in Nat, n < Len(s),
         NEW c, CommentRead(c, s, n), NEW u, u = CommentStep(c, s[n + 1])
  PROVE  CommentRead(u, s, n + 1)
<1> DEFINE ch == s[n + 1]
<1>1. ch \in Characters
  OBVIOUS
<1>2. /\ u \in CommentState
      /\ u.text = IF ch = Quote THEN ~c.text ELSE c.text
      /\ CommentCase(c, ch, u)
  <2>1. c \in CommentState
    BY DEF CommentRead
  <2> HIDE DEF ch
  <2>2. u = CommentStep(c, ch)
    BY DEF ch
  <2> QED
    BY <1>1, <2>1, <2>2, CommentStepIs
<1>3. /\ ch = Quote => (Open(s, n + 1) <=> ~Open(s, n))
      /\ ch # Quote => (Open(s, n + 1) <=> Open(s, n))
  BY OpenOneMore
<1> HIDE DEF ch
<1>4. /\ c.out \in Seq(Characters) /\ Len(c.out) \in Nat /\ c.slashes \in 0 .. 2
      /\ u.out \in Seq(Characters) /\ Len(u.out) \in Nat /\ u.slashes \in 0 .. 2
      /\ c.text \in BOOLEAN /\ u.text \in BOOLEAN
  BY <1>2 DEF CommentRead, CommentState
<1>5. u.text <=> Open(s, n + 1)
  BY <1>2, <1>3, <1>4 DEF CommentRead
<1>6. CASE u.out = c.out /\ u.slashes # 0
  <2>1. c.slashes # 0 \/ InCode(c, ch)
    BY <1>2, <1>6 DEF CommentCase
  <2>2. ~Open(c.out, Len(c.out))
    BY <2>1, <1>4 DEF CommentRead, InCode
  <2> QED
    BY <1>2, <1>4, <1>5, <1>6, <2>2 DEF CommentRead
<1>7. CASE /\ ~(InCode(c, ch) /\ ch = "/") /\ c.slashes = 0
           /\ u.slashes = 0 /\ u.out = c.out \o <<ch>>
  <2> DEFINE o == c.out
             v == u.out
  <2>1. o \in Seq(Characters) /\ v = o \o <<ch>>
    BY <1>4, <1>7
  <2> HIDE DEF o, v
  <2>2. /\ Len(v) = Len(o) + 1
        /\ ch = Quote => (Open(v, Len(v)) <=> ~Open(o, Len(o)))
        /\ ch # Quote => (Open(v, Len(v)) <=> Open(o, Len(o)))
    BY <1>1, <2>1, Appended
  <2> QED
    BY <1>2, <1>4, <1>5, <1>7, <2>2 DEF CommentRead, o, v
<1>8. CASE /\ InCode(c, ch) /\ ch # "/" /\ c.slashes = 1
           /\ u.slashes = 0 /\ u.out = (c.out \o <<"/">>) \o <<ch>>
  <2> DEFINE slash == "/"
             o == c.out
             t == o \o <<slash>>
             v == u.out
  <2>1. /\ slash \in Characters /\ slash # Quote
        /\ o \in Seq(Characters) /\ t = o \o <<slash>> /\ v = t \o <<ch>>
    BY <1>4, <1>8, Literals
  <2> HIDE DEF slash, o, t, v
  <2>2. /\ t \in Seq(Characters) /\ Len(t) = Len(o) + 1
        /\ Open(t, Len(t)) <=> Open(o, Len(o))
    BY <2>1, Appended
  <2>3. /\ Len(v) = Len(t) + 1
        /\ ch # Quote => (Open(v, Len(v)) <=> Open(t, Len(t)))
    BY <1>1, <2>1, <2>2, Appended
  <2>4. ch # Quote /\ ~u.text /\ ~Open(c.out, Len(c.out))
    BY <1>2, <1>4, <1>8 DEF InCode, CommentRead
  <2>5. Len(c.out) < n
    BY <1>8 DEF CommentRead
  <2> QED
    BY <1>2, <1>4, <1>5, <1>8, <2>2, <2>3, <2>4, <2>5 DEF CommentRead, o, v
<1>9. CommentCase(c, ch, u) /\ 1 # 0 /\ 2 # 0
  BY <1>2
<1> QED
  BY <1>6, <1>7, <1>8, <1>9, Zenon DEF CommentCase

(* The beginning of a line.                                                *)
LEMMA Beginning ==
  ASSUME NEW s \in Seq(Characters), NEW m \in 0 .. Len(s),
         NEW t, t = SubSeq(s, 1, m)
  PROVE  /\ t \in Seq(Characters)
         /\ Len(t) = m
         /\ \A j \in 1 .. m : t[j] = s[j]
<1>1. \A j \in 1 .. m : s[j] \in Characters
  OBVIOUS
<1>2. 1 \in Int /\ m \in Int
  OBVIOUS
<1>3. /\ SubSeq(s, 1, m) \in Seq(Characters)
      /\ Len(SubSeq(s, 1, m)) = IF 1 <= m THEN m - 1 + 1 ELSE 0
      /\ \A i \in 1 .. m - 1 + 1 : SubSeq(s, 1, m)[i] = s[1 + i - 1]
  BY <1>1, <1>2, SubSeqProperties
<1> QED
  BY <1>3

LEMMA BeginningGrows ==
  ASSUME NEW s \in Seq(Characters), NEW n \in Nat, n < Len(s), NEW c, c = s[n + 1]
  PROVE  SubSeq(s, 1, n) \o <<c>> = SubSeq(s, 1, n + 1)
<1>1. 1 \in 1 .. Len(s) /\ n + 1 \in 1 .. Len(s) /\ n + 1 - 1 = n
  OBVIOUS
<1>2. SubSeq(s, 1, n + 1) = SubSeq(s, 1, n + 1 - 1) \o <<s[n + 1]>>
  BY <1>1, SubSeqRecursiveSecond
<1> QED
  BY <1>1, <1>2

(* WithoutComment(s) is s, or ends right before the first comment.         *)
LEMMA CommentsOf ==
  ASSUME NEW s, NEW i
  PROVE  i \in CommentAt(s) <=> /\ i \in 1 .. Len(s) - 1
                                /\ s[i] = "/" /\ s[i + 1] = "/" /\ ~InText(s, i)
BY DEF CommentAt

LEMMA FirstComment ==
  ASSUME NEW s \in Seq(Characters), NEW k \in CommentAt(s),
         \A j \in CommentAt(s) : k <= j
  PROVE  WithoutComment(s) = SubSeq(s, 1, k - 1)
<1> DEFINE C == CommentAt(s)
           m == CHOOSE i \in C : \A j \in C : i <= j
<1>1. C \subseteq Nat
  BY CommentsOf
<1> HIDE DEF C
<1>2. m \in C /\ \A j \in C : m <= j
  BY DEF C
<1> HIDE DEF m
<1>3. m = k
  BY <1>1, <1>2 DEF C
<1>4. C # {}
  BY DEF C
<1> QED
  BY <1>3, <1>4 DEF WithoutComment, m, C

(* Up to a slash outside of texts that no quote may follow, and a little   *)
(* farther, nothing has been cut off.                                      *)
LEMMA SlashThenQuote ==
  ASSUME NEW s \in Seq(Characters), NEW n \in 1 .. Len(s),
         s[n] = "/", ~InText(s, n), n = Len(s) \/ s[n + 1] = Quote,
         \A k \in CommentAt(s) : k >= n
  PROVE  Dangling(WithoutComment(s))
<1> DEFINE w == WithoutComment(s)
<1>1. CASE CommentAt(s) = {}
  <2>1. w = s
    BY <1>1 DEF WithoutComment
  <2> QED
    BY <2>1 DEF Dangling
<1>2. CASE CommentAt(s) # {}
  <2>1. CommentAt(s) \in SUBSET Nat
    BY CommentsOf
  <2>2. PICK k \in CommentAt(s) : \A j \in CommentAt(s) : k <= j
    BY <1>2, <2>1, LeastElement
  <2>3. w = SubSeq(s, 1, k - 1)
    BY <2>2, FirstComment
  <2>4. k \in 1 .. Len(s) - 1 /\ s[k] = "/" /\ s[k + 1] = "/"
    BY CommentsOf
  <2>5. k >= n + 2 /\ s[n + 1] = Quote
    <3>1. Len(s) \in Nat
      OBVIOUS
    <3>2. k # n /\ k # n + 1
      BY <2>4, <3>1, Literals
    <3> QED
      BY <2>4, <3>1, <3>2
  <2>6. k - 1 \in 0 .. Len(s) /\ k \in Nat /\ n \in Nat /\ n > 0
    BY <2>4
  <2> HIDE DEF w
  <2>7. Len(w) = k - 1 /\ w \in Seq(Characters) /\ \A j \in 1 .. k - 1 : w[j] = s[j]
    BY <2>3, <2>6, Beginning
  <2>8. \A j \in 1 .. n + 1 : w[j] = s[j]
    BY <2>5, <2>6, <2>7
  <2>9. ~InText(w, n)
    BY <2>8, InTextSame
  <2>10. n \in DOMAIN w /\ w[n] = "/" /\ w[n + 1] = Quote
    <3>1. DOMAIN w = 1 .. k - 1
      BY <2>7
    <3> QED
      BY <2>5, <2>6, <2>8, <3>1
  <2> QED
    BY <2>9, <2>10 DEF Dangling, w
<1> QED
  BY <1>1, <1>2

(* After n characters of a line in which no slash is left dangling: a      *)
(* slash is held back, a comment has been found, or neither.               *)
CommentSeen(c, s, n) ==
  LET C == CommentAt(s)
  IN  /\ c.slashes = 0 => c.out = SubSeq(s, 1, n) /\ \A k \in C : k > n
      /\ c.slashes = 1 => /\ n > 0 /\ s[n] = "/" /\ ~InText(s, n)
                          /\ c.out = SubSeq(s, 1, n - 1)
                          /\ \A k \in C : k >= n
      /\ c.slashes = 2 => \E k \in C : /\ k < n /\ c.out = SubSeq(s, 1, k - 1)
                                       /\ \A j \in C : k <= j

LEMMA SeenBehind ==
  ASSUME NEW c, NEW s, NEW n, NEW k \in CommentAt(s), c.slashes = 2, k < n,
         c.out = SubSeq(s, 1, k - 1), \A j \in CommentAt(s) : k <= j
  PROVE  CommentSeen(c, s, n)
<1>1. \E i \in CommentAt(s) : /\ i < n /\ c.out = SubSeq(s, 1, i - 1)
                              /\ \A j \in CommentAt(s) : i <= j
  BY Zenon
<1>2. c.slashes # 0 /\ c.slashes # 1
  OBVIOUS
<1> QED
  BY <1>1, <1>2, Zenon DEF CommentSeen

LEMMA CommentSeenStep ==
  ASSUME NEW s \in Seq(Characters), NEW n \in Nat, n < Len(s),
         ~Dangling(WithoutComment(s)),
         NEW c, CommentRead(c, s, n), CommentSeen(c, s, n),
         NEW u, u = CommentStep(c, s[n + 1])
  PROVE  CommentSeen(u, s, n + 1)
<1> DEFINE ch == s[n + 1]
           C == CommentAt(s)
           o == c.out
           v == u.out
<1>1. ch \in Characters /\ Len(s) \in Nat
  OBVIOUS
<1>2. u \in CommentState /\ CommentCase(c, ch, u)
  BY <1>1, CommentStepIs DEF CommentRead
<1>3. InCode(c, ch) <=> ~InText(s, n + 1)
  <2>1. /\ ch = Quote => (Open(s, n + 1) <=> ~Open(s, n))
        /\ ch # Quote => (Open(s, n + 1) <=> Open(s, n))
    BY OpenOneMore
  <2>2. c.text <=> Open(s, n)
    BY DEF CommentRead
  <2> HIDE DEF ch
  <2>3. InCode(c, ch) <=> ch # Quote /\ ~Open(s, n + 1)
    BY <2>1, <2>2 DEF InCode
  <2> QED
    BY <2>3 DEF InText, ch
<1>4. C \subseteq Nat
  BY CommentsOf
<1>5. \A k \in C : k = n + 1 => ch = "/" /\ InCode(c, ch)
  BY <1>3, CommentsOf
<1>6. \A k \in C : k = n => ch = "/"
  BY CommentsOf
<1>7. CommentSeen(c, s, n)
  OBVIOUS
<1> HIDE DEF ch, C
<1>8. CASE InCode(c, ch) /\ ch = "/" /\ c.slashes = 0 /\ u.slashes = 1 /\ u.out = c.out
  <2>1. \A k \in C : k >= n + 1
    BY <1>4, <1>7, <1>8 DEF CommentSeen, C
  <2>2. s[n + 1] = "/" /\ ~InText(s, n + 1) /\ n + 1 > 0 /\ n + 1 - 1 = n
    BY <1>3, <1>8 DEF ch
  <2>3. u.out = SubSeq(s, 1, n)
    BY <1>7, <1>8 DEF CommentSeen
  <2> QED
    BY <1>8, <2>1, <2>2, <2>3 DEF CommentSeen, C
<1>9. CASE InCode(c, ch) /\ ch = "/" /\ c.slashes # 0 /\ u.slashes = 2 /\ u.out = c.out
  <2>1. CASE c.slashes = 1
    <3>1. /\ n > 0 /\ s[n] = "/" /\ ~InText(s, n) /\ c.out = SubSeq(s, 1, n - 1)
          /\ \A k \in C : k >= n
      BY <1>7, <2>1 DEF CommentSeen, C
    <3>2. n \in C
      <4>1. n \in 1 .. Len(s) - 1 /\ s[n + 1] = "/"
        BY <1>1, <1>9, <3>1 DEF ch
      <4> QED
        BY <3>1, <4>1, CommentsOf DEF C
    <3>3. n < n + 1
      OBVIOUS
    <3> QED
      BY <1>9, <3>1, <3>2, <3>3, SeenBehind DEF C
  <2>2. CASE c.slashes = 2
    <3>1. PICK k \in C : k < n /\ c.out = SubSeq(s, 1, k - 1) /\ \A j \in C : k <= j
      BY <1>7, <2>2 DEF CommentSeen, C
    <3>2. k < n + 1
      BY <1>4, <3>1
    <3> QED
      BY <1>9, <3>1, <3>2, SeenBehind DEF C
  <2> QED
    BY <1>9, <2>1, <2>2 DEF CommentRead, CommentState
<1>10. CASE /\ InCode(c, ch) /\ ch # "/" /\ c.slashes = 1
            /\ u.slashes = 0 /\ u.out = (c.out \o <<"/">>) \o <<ch>>
  <2> DEFINE slash == "/"
  <2>1. /\ n > 0 /\ s[n] = slash /\ c.out = SubSeq(s, 1, n - 1)
        /\ \A k \in C : k >= n
    BY <1>7, <1>10 DEF CommentSeen, C
  <2>2. n - 1 \in Nat /\ n - 1 < Len(s) /\ n - 1 + 1 = n
    BY <1>1, <2>1
  <2>3. u.out = (c.out \o <<slash>>) \o <<ch>>
    BY <1>10
  <2> HIDE DEF slash
  <2>4. c.out \o <<slash>> = SubSeq(s, 1, n)
    BY <2>1, <2>2, BeginningGrows
  <2>5. SubSeq(s, 1, n) \o <<ch>> = SubSeq(s, 1, n + 1)
    BY BeginningGrows DEF ch
  <2>6. u.out = SubSeq(s, 1, n + 1)
    BY <2>3, <2>4, <2>5
  <2>7. \A k \in C : k > n + 1
    BY <1>4, <1>5, <1>6, <1>10, <2>1
  <2> QED
    BY <1>10, <2>6, <2>7 DEF CommentSeen, C
<1>11. CASE c.slashes = 2 /\ u.slashes = 2 /\ u.out = c.out
  <2>1. PICK k \in C : k < n /\ c.out = SubSeq(s, 1, k - 1) /\ \A j \in C : k <= j
    BY <1>7, <1>11 DEF CommentSeen, C
  <2>2. k < n + 1
    BY <1>4, <2>1
  <2> QED
    BY <1>11, <2>1, <2>2, SeenBehind DEF C
<1>12. CASE /\ ~(InCode(c, ch) /\ ch = "/") /\ c.slashes = 0
            /\ u.slashes = 0 /\ u.out = c.out \o <<ch>>
  <2>1. c.out = SubSeq(s, 1, n) /\ \A k \in C : k > n
    BY <1>7, <1>12 DEF CommentSeen, C
  <2>2. SubSeq(s, 1, n) \o <<ch>> = SubSeq(s, 1, n + 1)
    BY BeginningGrows DEF ch
  <2>3. \A k \in C : k > n + 1
    BY <1>4, <1>5, <1>12, <2>1
  <2> QED
    BY <1>12, <2>1, <2>2, <2>3 DEF CommentSeen, C
<1>13. ~(~InCode(c, ch) /\ c.slashes = 1)
  <2> SUFFICES ASSUME ~InCode(c, ch), c.slashes = 1 PROVE FALSE
    OBVIOUS
  <2>1. /\ n > 0 /\ s[n] = "/" /\ ~InText(s, n)
        /\ \A k \in C : k >= n
    BY <1>7 DEF CommentSeen, C
  <2>2. ~c.text
    BY <2>1 DEF CommentRead, InText
  <2>3. s[n + 1] = Quote
    BY <2>2 DEF InCode, ch
  <2>4. n \in 1 .. Len(s)
    BY <1>1, <2>1
  <2> QED
    BY <2>1, <2>3, <2>4, SlashThenQuote DEF C
<1>14. c.slashes = 0 \/ c.slashes = 1 \/ c.slashes = 2
  BY DEF CommentRead, CommentState
<1>15. CommentCase(c, ch, u)
  BY <1>2
<1> QED
  BY <1>8, <1>9, <1>10, <1>11, <1>12, <1>13, <1>14, <1>15, Zenon DEF CommentCase

LEMMA CommentSeenAll ==
  ASSUME NEW s \in Seq(Characters), ~Dangling(WithoutComment(s)),
         NEW c, CommentRead(c, s, Len(s)), CommentSeen(c, s, Len(s))
  PROVE  c.out = WithoutComment(s)
<1> DEFINE C == CommentAt(s)
<1>1. \A k \in C : k \in Nat /\ k < Len(s)
  BY CommentsOf
<1>2. CommentSeen(c, s, Len(s)) /\ Len(s) \in Nat
  OBVIOUS
<1> HIDE DEF C
<1>3. CASE c.slashes = 0
  <2>1. c.out = SubSeq(s, 1, Len(s)) /\ C = {}
    BY <1>1, <1>2, <1>3 DEF CommentSeen, C
  <2>2. SubSeq(s, 1, Len(s)) = s
    BY SubSeqFull
  <2> QED
    BY <2>1, <2>2 DEF WithoutComment, C
<1>4. CASE c.slashes = 1
  <2>1. /\ Len(s) > 0 /\ s[Len(s)] = "/" /\ ~InText(s, Len(s))
        /\ \A k \in C : k >= Len(s)
    BY <1>2, <1>4 DEF CommentSeen, C
  <2>2. Len(s) \in 1 .. Len(s)
    BY <1>2, <2>1
  <2> QED
    BY <2>1, <2>2, SlashThenQuote DEF C
<1>5. CASE c.slashes = 2
  <2>1. PICK k \in C : c.out = SubSeq(s, 1, k - 1) /\ \A j \in C : k <= j
    BY <1>2, <1>5 DEF CommentSeen, C
  <2> QED
    BY <2>1, FirstComment DEF C
<1> QED
  BY <1>3, <1>4, <1>5 DEF CommentRead, CommentState

-----------------------------------------------------------------------------
(* RemoveSpaces.                                                           *)
SpacesState ==
  [out : Seq(Characters), text : BOOLEAN, white : BOOLEAN, special : BOOLEAN,
   start : BOOLEAN]

Plain(r, ch) == (IF ch = Quote THEN ~r.text ELSE r.text) \/ ch = Quote

(* What a step does.                                                       *)
SpacesCase(r, ch, u) ==
  \/ /\ ~Plain(r, ch) /\ ch = White
     /\ u.out = r.out /\ u.start = r.start /\ u.special = r.special
     /\ u.white <=> r.start /\ ~r.special
  \/ /\ Plain(r, ch) \/ ch # White
     /\ u.start /\ ~u.white
     /\ Plain(r, ch) => u.special = r.special
     /\ ~Plain(r, ch) => (u.special <=> ch \in Special)
     /\ r.white /\ (Plain(r, ch) \/ ch \notin Special) =>
          u.out = (r.out \o <<White>>) \o <<ch>>
     /\ ~(r.white /\ (Plain(r, ch) \/ ch \notin Special)) => u.out = r.out \o <<ch>>

LEMMA SpacesStepIs ==
  ASSUME NEW r \in SpacesState, NEW ch \in Characters, NEW u, u = SpacesStep(r, ch)
  PROVE  /\ u \in SpacesState
         /\ u.text = IF ch = Quote THEN ~r.text ELSE r.text
         /\ SpacesCase(r, ch, u)
<1> DEFINE text == IF ch = Quote THEN ~r.text ELSE r.text
           plain == text \/ ch = Quote
           kept == r.white /\ (plain \/ ch \notin Special)
           special == IF plain THEN r.special ELSE ch \in Special
           out == r.out \o If(kept, <<White>>) \o <<ch>>
<1>1. r.text \in BOOLEAN /\ r.white \in BOOLEAN /\ r.special \in BOOLEAN
      /\ r.start \in BOOLEAN /\ r.out \in Seq(Characters)
  BY DEF SpacesState
<1>2. text \in BOOLEAN /\ special \in BOOLEAN /\ (Plain(r, ch) <=> plain)
  <2>1. text \in BOOLEAN
    BY <1>1
  <2>2. special \in BOOLEAN
    <3>1. (ch \in Special) \in BOOLEAN
      OBVIOUS
    <3> HIDE DEF plain
    <3> QED
      BY <1>1, <3>1
  <2> QED
    BY <2>1, <2>2, Zenon DEF Plain
<1>3. CASE ~plain /\ ch = White
  <2>1. u = [r EXCEPT !.white = r.start /\ ~r.special]
    BY <1>3 DEF SpacesStep
  <2>2. /\ u \in SpacesState
        /\ u.out = r.out /\ u.start = r.start /\ u.special = r.special /\ u.text = r.text
        /\ u.white = (r.start /\ ~r.special)
    BY <1>1, <2>1 DEF SpacesState
  <2>3. text = r.text
    BY <1>3
  <2>4. u.white <=> r.start /\ ~r.special
    BY <2>2
  <2> QED
    BY <1>2, <1>3, <2>2, <2>3, <2>4, Zenon DEF SpacesCase
<1>4. CASE plain \/ ch # White
  <2>1. u = [text |-> text, white |-> FALSE, special |-> special, start |-> TRUE,
             out |-> out]
    BY <1>4 DEF SpacesStep
  <2>2. <<White>> \in Seq(Characters) /\ <<ch>> \in Seq(Characters) /\ <<>> \in Seq(Characters)
    BY Literals
  <2>3. out \in Seq(Characters)
    <3>1. If(kept, <<White>>) \in Seq(Characters)
      BY <2>2 DEF If
    <3> QED
      BY <1>1, <2>2, <3>1, ConcatProperties
  <2>4. /\ kept => out = (r.out \o <<White>>) \o <<ch>>
        /\ ~kept => out = r.out \o <<ch>>
    <3>1. r.out \o <<>> = r.out
      BY <1>1, ConcatEmptySeq
    <3> HIDE DEF kept
    <3> QED
      BY <3>1 DEF If
  <2>5. u.text = text /\ u.white = FALSE /\ u.special = special /\ u.start = TRUE /\ u.out = out
    <3> HIDE DEF text, special, out
    <3> QED
      BY <2>1
  <2>6. u \in SpacesState
    <3> HIDE DEF text, special, out
    <3> QED
      BY <1>2, <2>1, <2>3 DEF SpacesState
  <2>7. /\ plain => u.special = r.special
        /\ ~plain => (u.special <=> ch \in Special)
    <3> HIDE DEF plain
    <3> QED
      BY <2>5
  <2>8. u.text = text /\ ~u.white /\ u.start
    BY <2>5
  <2> HIDE DEF out, special
  <2>9. /\ kept => u.out = (r.out \o <<White>>) \o <<ch>>
        /\ ~kept => u.out = r.out \o <<ch>>
    BY <2>4, <2>5
  <2>10. kept <=> r.white /\ (Plain(r, ch) \/ ch \notin Special)
    BY <1>2
  <2>11. SpacesCase(r, ch, u)
    <3> HIDE DEF kept, plain
    <3> QED
      BY <1>2, <1>4, <2>7, <2>8, <2>9, <2>10, Zenon DEF SpacesCase
  <2> QED
    BY <2>6, <2>8, <2>11
<1> QED
  BY <1>3, <1>4

(* After n characters: the scanner knows whether it is in a text, writes   *)
(* no more than it has read, and ends with a blank only in a text.         *)
SpacesRead(r, s, n) ==
  /\ r \in SpacesState
  /\ r.text <=> Open(s, n)
  /\ Len(r.out) <= n
  /\ r.white => Len(r.out) < n
  /\ r.out # <<>> /\ r.out[Len(r.out)] = White => r.text

LEMMA SpacesReadStep ==
  ASSUME NEW s \in Seq(Characters), NEW n \in Nat, n < Len(s),
         NEW r, SpacesRead(r, s, n), NEW u, u = SpacesStep(r, s[n + 1])
  PROVE  SpacesRead(u, s, n + 1)
<1> DEFINE ch == s[n + 1]
<1>1. ch \in Characters
  OBVIOUS
<1>2. /\ u \in SpacesState
      /\ u.text = IF ch = Quote THEN ~r.text ELSE r.text
      /\ SpacesCase(r, ch, u)
  BY <1>1, SpacesStepIs DEF SpacesRead
<1>3. /\ ch = Quote => (Open(s, n + 1) <=> ~Open(s, n))
      /\ ch # Quote => (Open(s, n + 1) <=> Open(s, n))
  BY OpenOneMore
<1> HIDE DEF ch
<1>4. /\ r.out \in Seq(Characters) /\ Len(r.out) \in Nat
      /\ r.text \in BOOLEAN /\ u.text \in BOOLEAN /\ r.white \in BOOLEAN
  BY <1>2 DEF SpacesRead, SpacesState
<1>5. u.text <=> Open(s, n + 1)
  BY <1>2, <1>3, <1>4 DEF SpacesRead
<1>6. CASE ~Plain(r, ch) /\ ch = White /\ u.out = r.out
  <2>1. ~r.text /\ ~u.text
    BY <1>2, <1>6, Literals DEF Plain
  <2> QED
    BY <1>2, <1>4, <1>5, <1>6, <2>1 DEF SpacesRead
<1>7. CASE /\ Plain(r, ch) \/ ch # White
           /\ ~u.white
           /\ \/ u.out = r.out \o <<ch>>
              \/ r.white /\ u.out = (r.out \o <<White>>) \o <<ch>>
  <2> DEFINE o == r.out
             t == o \o <<White>>
             v == u.out
  <2>1. /\ o \in Seq(Characters) /\ Len(o) \in Nat /\ White \in Characters
        /\ t = o \o <<White>>
        /\ v = o \o <<ch>> \/ (r.white /\ v = t \o <<ch>>)
    BY <1>4, <1>7, Literals
  <2> HIDE DEF o, t, v
  <2>2. t \in Seq(Characters) /\ Len(t) = Len(o) + 1
    BY <2>1, Appended
  <2>3. /\ v[Len(v)] = ch
        /\ Len(v) = Len(o) + 1 \/ (r.white /\ Len(v) = Len(o) + 2)
    <3>1. CASE v = o \o <<ch>>
      BY <1>1, <2>1, <3>1, Appended
    <3>2. CASE r.white /\ v = t \o <<ch>>
      <4>1. Len(v) = Len(t) + 1 /\ v[Len(v)] = ch
        BY <1>1, <2>2, <3>2, Appended
      <4> QED
        BY <2>1, <2>2, <3>2, <4>1
    <3> QED
      BY <2>1, <3>1, <3>2
  <2>4. ch = White => u.text
    BY <1>2, <1>7, Literals DEF Plain
  <2>5. Len(v) <= n + 1
    BY <2>1, <2>3 DEF SpacesRead, o
  <2> QED
    BY <1>2, <1>4, <1>5, <1>7, <2>3, <2>4, <2>5 DEF SpacesRead, v
<1> QED
  BY <1>2, <1>6, <1>7 DEF SpacesCase

(* The blanks that the scanner keeps: after a character that is no blank,  *)
(* and before one that is not special, unless the last character outside   *)
(* of texts is special.                                                    *)
Passes(s, i) ==
  i > 1 /\ Solid(s, i - 1) /\ ~LastSpecial(s, i - 1) /\ PlainNext(s, i)

KeptAt(s, j) == Solid(s, j) \/ Passes(s, j)

Scanned(s) == Picked(s, {i \in DOMAIN s : KeptAt(s, i)})

LEMMA WhiteNotSpecial == White \notin Special
BY DEF White, Special

LEMMA LastSpecialStep ==
  ASSUME NEW s, NEW n \in Nat
  PROVE  /\ InText(s, n + 1) \/ s[n + 1] = White =>
              (LastSpecial(s, n + 1) <=> LastSpecial(s, n))
         /\ ~InText(s, n + 1) /\ s[n + 1] # White =>
              (LastSpecial(s, n + 1) <=> s[n + 1] \in Special)
<1> DEFINE Out == {k \in Nat : ~InText(s, k) /\ s[k] # White}
           Marked == {k \in Nat : s[k] \in Special}
           Last(i, j) == j \in 1 .. i /\ j \in Out /\ j \in Marked /\ \A k \in 1 .. i : k \in Out => k <= j
<1>1. \A i \in Nat : LastSpecial(s, i) <=> \E j : Last(i, j)
  BY WhiteNotSpecial DEF LastSpecial, IsSpecial
<1>2. \A k \in Nat : k \in Out <=> ~InText(s, k) /\ s[k] # White
  OBVIOUS
<1>3. \A k \in Nat : k \in Marked <=> s[k] \in Special
  OBVIOUS
<1> HIDE DEF Out, Marked
<1>4. CASE n + 1 \notin Out
  <2>1. \A j : Last(n + 1, j) <=> Last(n, j)
    BY <1>4
  <2> HIDE DEF Last
  <2>2. LastSpecial(s, n + 1) <=> LastSpecial(s, n)
    BY <1>1, <2>1
  <2> QED
    BY <1>2, <1>4, <2>2
<1>5. CASE n + 1 \in Out
  <2>1. \A j : Last(n + 1, j) <=> j = n + 1 /\ j \in Marked
    BY <1>5
  <2> HIDE DEF Last
  <2>2. LastSpecial(s, n + 1) <=> n + 1 \in Marked
    BY <1>1, <2>1
  <2> QED
    BY <1>2, <1>3, <1>5, <2>2
<1> QED
  BY <1>4, <1>5

LEMMA LastSpecialSame ==
  ASSUME NEW s, NEW n \in Nat, NEW b \in 0 .. n,
         \A j \in b + 1 .. n : ~InText(s, j) /\ s[j] = White
  PROVE  LastSpecial(s, n) <=> LastSpecial(s, b)
BY WhiteNotSpecial DEF LastSpecial, IsSpecial

(* Only the blank right after a character that is not a blank is kept, ... *)
LEMMA PassesFirst ==
  ASSUME NEW s, NEW i \in Nat, i > 0, i = 1 \/ ~Solid(s, i - 1)
  PROVE  ~Passes(s, i)
BY DEF Passes

(* ... if another one follows, ...                                         *)
LEMMA PassesBetween ==
  ASSUME NEW s, NEW i, \A j \in i + 1 .. Len(s) : ~Solid(s, j)
  PROVE  ~Passes(s, i)
BY DEF Passes, PlainNext

(* ... that is not special, nor the last one outside of texts.             *)
LEMMA PassesIs ==
  ASSUME NEW s \in Seq(Characters), NEW n \in Nat, n < Len(s),
         NEW b \in Nat, b > 0, b < n, Solid(s, b), Solid(s, n + 1),
         \A j \in b + 1 .. n : ~Solid(s, j)
  PROVE  Passes(s, b + 1) <=> ~IsSpecial(s, n + 1) /\ ~LastSpecial(s, b)
<1>1. Len(s) \in Nat /\ b + 1 - 1 = b /\ b + 1 > 1
  OBVIOUS
<1>2. PlainNext(s, b + 1) <=> ~IsSpecial(s, n + 1)
  <2>1. n + 1 \in b + 1 + 1 .. Len(s) /\ \A k \in b + 1 + 1 .. n + 1 - 1 : ~Solid(s, k)
    BY <1>1
  <2>2. ASSUME NEW j \in b + 1 + 1 .. Len(s), Solid(s, j),
               \A k \in b + 1 + 1 .. j - 1 : ~Solid(s, k)
        PROVE  j = n + 1
    BY <1>1, <2>2
  <2> QED
    BY <2>1, <2>2 DEF PlainNext
<1> QED
  BY <1>1, <1>2 DEF Passes

(* The characters to keep, one by one: the recursive function that Picked  *)
(* defines exists.                                                         *)
Compacts(f, s) ==
  /\ f[0] = <<>>
  /\ \A n \in 1 .. Len(s) : f[n] = f[n - 1] \o If(KeptAt(s, n), <<s[n]>>)
  /\ Scanned(s) = f[Len(s)]

LEMMA CompactSteps ==
  ASSUME NEW s \in Seq(Characters)
  PROVE  \E f : Compacts(f, s)
<1> DEFINE b == Len(s)
           kept == {i \in DOMAIN s : KeptAt(s, i)}
           Next1(v, n) == v \o If(n \in kept, <<s[n]>>)
           Is(f, k) == f = [n \in 0 .. k |-> IF n = 0 THEN <<>> ELSE Next1(f[n - 1], n)]
           S == {k \in Nat : \E f : Is(f, k)}
<1>0. b \in Nat
  OBVIOUS
<1>5. Scanned(s) = (CHOOSE f : Is(f, b))[b]
  BY DEF Scanned, Picked
<1>8. \A n \in 1 .. b : n \in kept <=> KeptAt(s, n)
  OBVIOUS
<1> HIDE DEF kept
<1>9. \A v : \A n \in 1 .. b : Next1(v, n) = v \o If(KeptAt(s, n), <<s[n]>>)
  BY <1>8 DEF If
<1> HIDE DEF Next1
<1>1. 0 \in S
  <2>1. Is([n \in 0 .. 0 |-> <<>>], 0)
    OBVIOUS
  <2> QED
    BY <2>1
<1>2. ASSUME NEW k \in Nat, k < b, k \in S
      PROVE  k + 1 \in S
  <2>1. PICK f : Is(f, k)
    BY <1>2
  <2> DEFINE g == [n \in 0 .. (k + 1) |-> IF n = k + 1 THEN Next1(f[k], k + 1) ELSE f[n]]
  <2>2. ASSUME NEW n \in 0 .. (k + 1)
        PROVE  g[n] = IF n = 0 THEN <<>> ELSE Next1(g[n - 1], n)
    <3>1. CASE n = k + 1
      <4>1. n # 0 /\ n - 1 = k /\ g[n - 1] = f[k] /\ g[n] = Next1(f[k], k + 1)
        BY <3>1
      <4> QED
        BY <3>1, <4>1
    <3>2. CASE n # k + 1
      <4>1. n \in 0 .. k /\ g[n] = f[n]
        BY <3>2
      <4>2. f[n] = IF n = 0 THEN <<>> ELSE Next1(f[n - 1], n)
        BY <2>1, <4>1, Zenon
      <4>3. n # 0 => g[n - 1] = f[n - 1]
        BY <4>1
      <4> QED
        BY <4>1, <4>2, <4>3
    <3> QED
      BY <3>1, <3>2
  <2>3. Is(g, k + 1)
    <3>1. g = [n \in 0 .. (k + 1) |-> g[n]]
      OBVIOUS
    <3> HIDE DEF g
    <3>2. [n \in 0 .. (k + 1) |-> g[n]] =
          [n \in 0 .. (k + 1) |-> IF n = 0 THEN <<>> ELSE Next1(g[n - 1], n)]
      BY <2>2, Zenon
    <3> QED
      BY <3>1, <3>2, Zenon
  <2>4. \E h : Is(h, k + 1)
    <3> HIDE DEF Is, g
    <3> QED
      BY <2>3, Zenon
  <2> HIDE DEF Is
  <2> QED
    BY <2>4
<1>3. b \in S
  <2> HIDE DEF S, b
  <2>1. S \in SUBSET Nat
    BY DEF S
  <2> QED
    BY <1>0, <1>1, <1>2, <2>1, UpTo
<1> DEFINE F == CHOOSE f : Is(f, b)
<1>4. Is(F, b)
  <2>1. \E f : Is(f, b)
    BY <1>3
  <2> HIDE DEF Is
  <2> QED
    BY <2>1, Zenon
<1>6. Scanned(s) = F[b]
  BY <1>5
<1> HIDE DEF F
<1>7. F[0] = <<>>
  BY <1>0, <1>4
<1>10. ASSUME NEW n \in 1 .. b
       PROVE  F[n] = F[n - 1] \o If(KeptAt(s, n), <<s[n]>>)
  <2>1. n \in 0 .. b /\ n # 0
    BY <1>0
  <2>2. F[n] = Next1(F[n - 1], n)
    BY <1>4, <2>1
  <2> QED
    BY <1>9, <2>2
<1> QED
  BY <1>6, <1>7, <1>10, Zenon DEF Compacts

(* After n characters, of which the b-th is the last one that is no blank, *)
(* and one blank more than has been written is to be kept at most.         *)
SpacesSeen(r, s, f, n, b) ==
  /\ b \in 0 .. n
  /\ b # 0 => Solid(s, b)
  /\ \A j \in b + 1 .. n : ~Solid(s, j)
  /\ r.out = f[b]
  /\ r.start <=> b # 0
  /\ r.white <=> b # 0 /\ b < n /\ ~r.special
  /\ r.special <=> LastSpecial(s, n)
  /\ b < n => f[n] = f[b] \o If(Passes(s, b + 1), <<White>>)

LEMMA CompactsNext ==
  ASSUME NEW s, NEW f, Compacts(f, s),
         NEW m \in 1 .. Len(s), NEW n, n = m - 1, NEW c, c = s[m]
  PROVE  f[m] = f[n] \o If(KeptAt(s, m), <<c>>)
<1>1. f[m] = f[m - 1] \o If(KeptAt(s, m), <<s[m]>>)
  BY DEF Compacts
<1> QED
  BY <1>1

LEMMA SpacesSeenStep ==
  ASSUME NEW s \in Seq(Characters), NEW n \in Nat, n < Len(s),
         NEW f, Compacts(f, s),
         NEW r, SpacesRead(r, s, n), NEW b, SpacesSeen(r, s, f, n, b),
         NEW u, u = SpacesStep(r, s[n + 1])
  PROVE  \E a : SpacesSeen(u, s, f, n + 1, a)
<1> DEFINE ch == s[n + 1]
           k == KeptAt(s, n + 1)
           w == If(Passes(s, b + 1), <<White>>)
<1>1. ch \in Characters /\ Len(s) \in Nat /\ n + 1 \in 1 .. Len(s) /\ n + 1 - 1 = n
  OBVIOUS
<1>2. u \in SpacesState /\ SpacesCase(r, ch, u)
  BY <1>1, SpacesStepIs DEF SpacesRead
<1>3. Plain(r, ch) <=> InText(s, n + 1)
  <2>1. /\ ch = Quote => (Open(s, n + 1) <=> ~Open(s, n))
        /\ ch # Quote => (Open(s, n + 1) <=> Open(s, n))
    BY OpenOneMore
  <2>2. r.text <=> Open(s, n)
    BY DEF SpacesRead
  <2> HIDE DEF ch
  <2>3. Plain(r, ch) <=> ch = Quote \/ Open(s, n + 1)
    BY <2>1, <2>2 DEF Plain
  <2> QED
    BY <2>3 DEF InText, ch
<1>4. f[n + 1] = f[n] \o If(k, <<ch>>)
  <2>1. PICK m : m = n + 1
    OBVIOUS
  <2>2. m \in 1 .. Len(s) /\ n = m - 1 /\ ch = s[m]
    BY <1>1, <2>1
  <2>3. f[m] = f[n] \o If(KeptAt(s, m), <<ch>>)
    <3> HIDE DEF ch
    <3> QED
      BY <2>2, CompactsNext
  <2> QED
    BY <2>1, <2>3
<1>5. SpacesSeen(r, s, f, n, b) /\ b \in 0 .. n
  BY DEF SpacesSeen
<1>6. LastSpecial(s, n) <=> LastSpecial(s, b)
  BY <1>5, LastSpecialSame DEF SpacesSeen, Solid
<1>7. /\ Plain(r, ch) \/ ch = White => (LastSpecial(s, n + 1) <=> LastSpecial(s, n))
      /\ ~Plain(r, ch) /\ ch # White => (LastSpecial(s, n + 1) <=> ch \in Special)
  BY <1>3, LastSpecialStep
<1>8. r.out \in Seq(Characters) /\ r.out \o <<>> = r.out
  <2>1. r.out \in Seq(Characters)
    BY DEF SpacesRead, SpacesState
  <2> QED
    BY <2>1, ConcatEmptySeq
<1>9. Solid(s, n + 1) <=> Plain(r, ch) \/ ch # White
  BY <1>3 DEF Solid
<1> HIDE DEF ch, k
<1>10. CASE /\ ~Plain(r, ch) /\ ch = White
            /\ u.out = r.out /\ u.start = r.start /\ u.special = r.special
            /\ u.white <=> r.start /\ ~r.special
  <2>1. f[n + 1] = f[b] \o w
    <3>1. CASE b = n
      <4>1. k <=> Passes(s, b + 1)
        BY <1>9, <1>10, <3>1 DEF KeptAt, k
      <4> QED
        BY <1>4, <1>10, <3>1, <4>1 DEF If
    <3>2. CASE b # n
      <4>1. b < n /\ n \in b + 1 .. n
        BY <1>5, <3>2
      <4>2. ~Solid(s, n)
        BY <1>5, <4>1 DEF SpacesSeen
      <4>3. ~Passes(s, n + 1)
        BY <1>1, <4>2, PassesFirst
      <4>4. ~k
        BY <1>9, <1>10, <4>3 DEF KeptAt, k
      <4>5. f[n] = r.out \o w /\ r.out = f[b]
        BY <1>5, <4>1 DEF SpacesSeen
      <4>6. f[n] \in Seq(Characters)
        <5>1. <<White>> \in Seq(Characters) /\ <<>> \in Seq(Characters)
          BY Literals
        <5>2. w \in Seq(Characters)
          BY <5>1 DEF If
        <5> QED
          BY <1>8, <4>5, <5>2, ConcatProperties
      <4>7. f[n] \o <<>> = f[n]
        BY <4>6, ConcatEmptySeq
      <4> QED
        BY <1>4, <4>4, <4>5, <4>7 DEF If
    <3> QED
      BY <3>1, <3>2
  <2>2. \A j \in b + 1 .. n + 1 : ~Solid(s, j)
    BY <1>5, <1>9, <1>10 DEF SpacesSeen
  <2>3. b < n + 1 /\ b \in 0 .. n + 1
    BY <1>5
  <2> HIDE DEF w
  <2>4. SpacesSeen(u, s, f, n + 1, b)
    BY <1>5, <1>7, <1>10, <2>1, <2>2, <2>3 DEF SpacesSeen, w
  <2> QED
    BY <2>4
<1>11. CASE /\ Plain(r, ch) \/ ch # White
            /\ u.start /\ ~u.white
            /\ Plain(r, ch) => u.special = r.special
            /\ ~Plain(r, ch) => (u.special <=> ch \in Special)
            /\ r.white /\ (Plain(r, ch) \/ ch \notin Special) =>
                 u.out = (r.out \o <<White>>) \o <<ch>>
            /\ ~(r.white /\ (Plain(r, ch) \/ ch \notin Special)) => u.out = r.out \o <<ch>>
  <2> DEFINE late == r.white /\ (Plain(r, ch) \/ ch \notin Special)
  <2>1. f[n + 1] = f[n] \o <<ch>>
    BY <1>4, <1>9, <1>11 DEF If, KeptAt, k
  <2>2. late => f[n] = r.out \o <<White>>
    <3> SUFFICES ASSUME late PROVE f[n] = r.out \o <<White>>
      OBVIOUS
    <3>1. b # 0 /\ b < n /\ ~LastSpecial(s, b)
      BY <1>5, <1>6 DEF SpacesSeen
    <3>2. Passes(s, b + 1)
      <4>1. Solid(s, b) /\ b \in Nat /\ b > 0 /\ \A j \in b + 1 .. n : ~Solid(s, j)
        BY <1>5, <3>1 DEF SpacesSeen
      <4>2. Solid(s, n + 1)
        BY <1>9, <1>11
      <4>3. ~IsSpecial(s, n + 1)
        BY <1>3 DEF ch, IsSpecial
      <4> QED
        BY <3>1, <4>1, <4>2, <4>3, PassesIs
    <3> QED
      BY <1>5, <3>1, <3>2 DEF SpacesSeen, If
  <2>3. ~late => f[n] = r.out
    <3> SUFFICES ASSUME ~late PROVE f[n] = r.out
      OBVIOUS
    <3>1. CASE b = n
      BY <1>5, <3>1 DEF SpacesSeen
    <3>2. CASE b # n
      <4>1. b < n /\ b \in Nat
        BY <1>5, <3>2
      <4>2. ~Passes(s, b + 1)
        <5>1. CASE b = 0
          BY <5>1, PassesFirst
        <5>2. CASE b # 0
          <6>1. Solid(s, b) /\ \A j \in b + 1 .. n : ~Solid(s, j)
            BY <1>5, <5>2 DEF SpacesSeen
          <6>2. Solid(s, n + 1)
            BY <1>9, <1>11
          <6>3. LastSpecial(s, b) \/ ~(Plain(r, ch) \/ ch \notin Special)
            BY <1>5, <1>6, <4>1, <5>2 DEF SpacesSeen
          <6>4. LastSpecial(s, b) \/ IsSpecial(s, n + 1)
            BY <1>3, <6>3 DEF ch, IsSpecial
          <6> QED
            BY <4>1, <5>2, <6>1, <6>2, <6>4, PassesIs
        <5> QED
          BY <5>1, <5>2
      <4>3. f[n] = r.out \o <<>>
        BY <1>5, <4>1, <4>2 DEF SpacesSeen, If
      <4> QED
        BY <1>8, <4>3
    <3> QED
      BY <3>1, <3>2
  <2>4. u.out = f[n + 1]
    <3>1. /\ late => u.out = (r.out \o <<White>>) \o <<ch>>
          /\ ~late => u.out = r.out \o <<ch>>
      BY <1>11
    <3> HIDE DEF late
    <3> QED
      BY <2>1, <2>2, <2>3, <3>1
  <2>5. u.special <=> LastSpecial(s, n + 1)
    <3>1. r.special <=> LastSpecial(s, n)
      BY <1>5 DEF SpacesSeen
    <3> QED
      BY <1>7, <1>11, <3>1, Zenon
  <2>6. Solid(s, n + 1)
    BY <1>9, <1>11
  <2>7. SpacesSeen(u, s, f, n + 1, n + 1)
    <3>1. n + 1 \in 0 .. n + 1 /\ n + 1 # 0 /\ ~(n + 1 < n + 1)
      OBVIOUS
    <3>2. \A j \in n + 1 + 1 .. n + 1 : ~Solid(s, j)
      OBVIOUS
    <3> QED
      BY <1>11, <2>4, <2>5, <2>6, <3>1, <3>2, Zenon DEF SpacesSeen
  <2> QED
    BY <2>7
<1> QED
  BY <1>2, <1>10, <1>11 DEF SpacesCase

LEMMA SpacesSeenAll ==
  ASSUME NEW s \in Seq(Characters), NEW f, Compacts(f, s),
         NEW r, SpacesRead(r, s, Len(s)), NEW b, SpacesSeen(r, s, f, Len(s), b)
  PROVE  r.out = Scanned(s)
<1>1. Len(s) \in Nat /\ b \in 0 .. Len(s)
  BY DEF SpacesSeen
<1>2. CASE b = Len(s)
  BY <1>2 DEF SpacesSeen, Compacts
<1>3. CASE b < Len(s)
  <2>1. ~Passes(s, b + 1)
    BY <1>1, PassesBetween DEF SpacesSeen
  <2>2. f[Len(s)] = r.out \o <<>>
    BY <1>3, <2>1 DEF SpacesSeen, If
  <2>3. r.out \in Seq(Characters)
    BY DEF SpacesRead, SpacesState
  <2> QED
    BY <2>2, <2>3, ConcatEmptySeq DEF Compacts
<1> QED
  BY <1>1, <1>2, <1>3

(* After a character outside of texts that is no blank, the last one is    *)
(* that one; so only behind a text a needed blank is not kept.             *)
LEMMA PassesNeeded ==
  ASSUME NEW s, NEW i \in Nat
  PROVE  Passes(s, i) <=> Needed(s, i) /\ ~(InText(s, i - 1) /\ LastSpecial(s, i - 1))
<1>1. CASE ~(i > 1 /\ Solid(s, i - 1))
  BY <1>1 DEF Passes, Needed
<1>2. CASE i > 1 /\ Solid(s, i - 1)
  <2>1. i - 2 \in Nat /\ i - 2 + 1 = i - 1
    BY <1>2
  <2>2. ~InText(s, i - 1) => (LastSpecial(s, i - 1) <=> IsSpecial(s, i - 1))
    BY <1>2, <2>1, LastSpecialStep DEF Solid, IsSpecial
  <2>3. InText(s, i - 1) => ~IsSpecial(s, i - 1)
    BY DEF IsSpecial
  <2> QED
    BY <1>2, <2>2, <2>3 DEF Passes, Needed
<1> QED
  BY <1>1, <1>2

LEMMA CompactUnlessSwallowed ==
  ASSUME NEW s \in Seq(Characters), ~Swallows(s)
  PROVE  Scanned(s) = Compact(s)
<1>1. ASSUME NEW i \in DOMAIN s
      PROVE  KeptAt(s, i) <=> Solid(s, i) \/ Needed(s, i)
  <2>1. i \in Nat
    OBVIOUS
  <2> QED
    BY <2>1, PassesNeeded DEF Swallows, KeptAt
<1>2. {i \in DOMAIN s : KeptAt(s, i)} = {i \in DOMAIN s : Solid(s, i) \/ Needed(s, i)}
  BY <1>1
<1> QED
  BY <1>2 DEF Scanned, Compact

-----------------------------------------------------------------------------
(* ParseLine throws only if nothing follows "#include".                    *)
LEMMA ThrowsAfterBlank ==
  ASSUME NEW s \in Seq(Characters), Parsed(s) = Throws
  PROVE  s # <<>> /\ s[Len(s)] = White
<1> DEFINE pattern == <<"#include", White>>
           M == Matches(s, pattern, 1)
           i == Find(s, pattern, 1)
<1>1. \A name, class : Object(name, class) # Throws
  BY DEF Object, Throws
<1>2. \A name, params, returns :
        [kind |-> "function", name |-> name, params |-> params, returns |-> returns] # Throws
  BY DEF Throws
<1>3. Nothing # Throws
  BY DEF Nothing, Throws
<1>4. ParseUsing(s) # Throws
  <2>1. ParseUsing(s) = Nothing \/ \E name, class : ParseUsing(s) = Object(name, class)
    BY Zenon DEF ParseUsing
  <2> QED
    BY <1>1, <1>3, <2>1
<1>5. ParseFunction(s) # Throws
  <2>1. \/ ParseFunction(s) = Nothing
        \/ \E name, params, returns : ParseFunction(s) =
             [kind |-> "function", name |-> name, params |-> params, returns |-> returns]
    BY Zenon DEF ParseFunction
  <2> QED
    BY <1>2, <1>3, <2>1
<1>6. ParseVariable(s) # Throws
  <2>1. ParseVariable(s) = Nothing \/ \E name, class : ParseVariable(s) = Object(name, class)
    BY Zenon DEF ParseVariable
  <2> QED
    BY <1>1, <1>3, <2>1
<1>7. M # {} /\ ParseInclude(s) = Throws
  BY <1>4, <1>5, <1>6 DEF Parsed
<1>8. Rest(s, i + 2) = <<>>
  <2> DEFINE a == Rest(s, i + 2)
  <2>1. a # <<>> => \E name, class : ParseInclude(s) = Object(name, class)
    BY Zenon DEF ParseInclude
  <2> HIDE DEF a
  <2>2. a = <<>>
    BY <1>1, <1>7, <2>1
  <2> QED
    BY <2>2 DEF a
<1>9. Len(pattern) = 2 /\ pattern[2] = White /\ Len(s) \in Nat
  OBVIOUS
<1> HIDE DEF pattern
<1>10. M = {j \in 1 .. Len(s) - 1 : SubSeq(s, j, j + 1) = pattern}
  <2>1. M = {j \in 1 .. Len(s) - Len(pattern) + 1 : SubSeq(s, j, j + Len(pattern) - 1) = pattern}
    BY DEF Matches
  <2>2. \A j \in Int : j + 2 - 1 = j + 1
    OBVIOUS
  <2>3. Len(s) - 2 + 1 = Len(s) - 1
    BY <1>9
  <2> QED
    BY <1>9, <2>1, <2>2, <2>3
<1>11. i \in M
  <2>1. M \in SUBSET Nat
    BY <1>10
  <2>2. i = CHOOSE k \in M : \A j \in M : k <= j
    BY DEF Find
  <2> HIDE DEF M, i
  <2>3. \E k \in M : \A j \in M : k <= j
    BY <1>7, <2>1, LeastElement
  <2> QED
    BY <2>2, <2>3, Zenon
<1> HIDE DEF M, i
<1>12. i \in 1 .. Len(s) - 1 /\ SubSeq(s, i, i + 1) = pattern
  BY <1>10, <1>11
<1>13. s[i + 1] = White
  <2>1. i \in Int /\ i + 1 \in Int /\ i + 1 - i + 1 = 2 /\ i + 2 - 1 = i + 1
    BY <1>12
  <2>2. \A j \in i .. i + 1 : s[j] \in Characters
    BY <1>9, <1>12
  <2> DEFINE t == SubSeq(s, i, i + 1)
  <2>3. \A k \in 1 .. i + 1 - i + 1 : t[k] = s[i + k - 1]
    BY <2>1, <2>2, SubSeqProperties
  <2> HIDE DEF t
  <2>4. 2 \in 1 .. i + 1 - i + 1
    BY <2>1
  <2>5. t[2] = s[i + 2 - 1]
    BY <2>3, <2>4, Zenon
  <2> QED
    BY <1>9, <1>12, <2>1, <2>5 DEF t
<1>14. i + 1 = Len(s)
  <2> SUFFICES ASSUME i + 2 <= Len(s) PROVE FALSE
    BY <1>9, <1>12
  <2>1. i + 2 \in Int /\ Len(s) \in Int /\ Len(s) - (i + 2) + 1 > 0
    BY <1>9, <1>12
  <2>2. \A j \in i + 2 .. Len(s) : s[j] \in Characters
    BY <1>9, <1>12
  <2> DEFINE t == SubSeq(s, i + 2, Len(s))
  <2>3. Len(t) = IF i + 2 <= Len(s) THEN Len(s) - (i + 2) + 1 ELSE 0
    BY <2>1, <2>2, SubSeqProperties
  <2>4. t = <<>>
    BY <1>8 DEF Rest
  <2> HIDE DEF t
  <2>5. Len(t) = 0
    BY <2>4
  <2> QED
    BY <2>1, <2>3, <2>5
<1> QED
  BY <1>12, <1>13, <1>14

-----------------------------------------------------------------------------
(* Of these the declarations are put together.                             *)
Letters ==
  Characters \cup Special \cup BasicTypes
    \cup {White, Quote, "using", "as", "#include", "function"}

LEMMA TextsOfLetters == ASSUME NEW s \in Texts PROVE s \in Seq(Letters)
  BY DEF Texts, Letters

LEMMA Slice ==
  ASSUME NEW s \in Seq(Letters), NEW t \in Seq(Letters), NEW i \in Nat, NEW j \in Nat, i > 0,
         j - i + 1 = Len(t), j <= Len(s),
         \A k \in 1 .. Len(t) : s[i + k - 1] = t[k]
  PROVE  SubSeq(s, i, j) = t
<1> DEFINE c == SubSeq(s, i, j)
<1>1. \A k \in i .. j : s[k] \in Letters
  OBVIOUS
<1>2. c \in Seq(Letters)
  BY <1>1, SubSeqProperties
<1>3. Len(c) = Len(t)
  BY <1>1, SubSeqProperties
<1>4. \A k \in 1 .. Len(t) : c[k] = s[i + k - 1]
  BY <1>1, SubSeqProperties
<1> HIDE DEF c
<1> QED
  BY <1>2, <1>3, <1>4, SeqEqual DEF c

(* A piece of a text, behind the first o characters of it.                 *)
Placed(s, t, o) ==
  /\ o \in Nat
  /\ o + Len(t) <= Len(s)
  /\ \A i \in 1 .. Len(t) : s[o + i] = t[i]

LEMMA PlacedWithin ==
  ASSUME NEW s \in Seq(Letters), NEW r \in Seq(Letters), NEW t \in Seq(Letters), NEW o,
         Placed(r, t, o), Placed(s, r, 0)
  PROVE  Placed(s, t, o)
<1>1. o \in Nat /\ o + Len(t) <= Len(r) /\ Len(r) <= Len(s)
  BY DEF Placed
<1>2. Len(t) \in Nat /\ Len(r) \in Nat /\ Len(s) \in Nat
  OBVIOUS
<1>3. \A i \in 1 .. Len(t) : s[o + i] = t[i]
  <2> TAKE i \in 1 .. Len(t)
  <2>1. o + i \in 1 .. Len(r)
    BY <1>1, <1>2
  <2>2. r[o + i] = t[i]
    BY DEF Placed
  <2>3. s[0 + (o + i)] = r[o + i]
    BY <2>1 DEF Placed
  <2>4. 0 + (o + i) = o + i
    BY <1>1
  <2> QED
    BY <2>2, <2>3, <2>4
<1> QED
  BY <1>1, <1>2, <1>3 DEF Placed

LEMMA Joined ==
  ASSUME NEW a \in Seq(Letters), NEW b \in Seq(Letters), NEW s, s = a \o b
  PROVE  /\ s \in Seq(Letters) /\ Len(s) = Len(a) + Len(b)
         /\ Placed(s, a, 0) /\ Placed(s, b, Len(a))
<1>1. /\ s \in Seq(Letters)
      /\ Len(s) = Len(a) + Len(b)
      /\ \A i \in 1 .. Len(a) : s[i] = a[i]
      /\ \A i \in 1 .. Len(b) : s[Len(a) + i] = b[i]
  BY ConcatProperties
<1>2. Len(a) \in Nat /\ Len(b) \in Nat
  OBVIOUS
<1> QED
  BY <1>1, <1>2 DEF Placed

IsThree(s, a, b, c) == s = a \o b \o c
IsFour(s, a, b, c, d) == s = a \o b \o c \o d

LEMMA JoinedThree ==
  ASSUME NEW a \in Seq(Letters), NEW b \in Seq(Letters), NEW c \in Seq(Letters),
         NEW s, IsThree(s, a, b, c)
  PROVE  /\ s \in Seq(Letters) /\ Len(s) = Len(a) + Len(b) + Len(c)
         /\ Placed(s, a, 0) /\ Placed(s, b, Len(a)) /\ Placed(s, c, Len(a) + Len(b))
<1> DEFINE r == a \o b
<1>1. /\ r \in Seq(Letters) /\ Len(r) = Len(a) + Len(b)
      /\ Placed(r, a, 0) /\ Placed(r, b, Len(a))
  BY Joined, Zenon
<1>2. s = r \o c
  BY DEF IsThree
<1> HIDE DEF r
<1>3. /\ s \in Seq(Letters) /\ Len(s) = Len(r) + Len(c)
      /\ Placed(s, r, 0) /\ Placed(s, c, Len(r))
  BY <1>1, <1>2, Joined, Zenon
<1>4. Placed(s, a, 0) /\ Placed(s, b, Len(a))
  BY <1>1, <1>3, PlacedWithin, Zenon
<1> QED
  BY <1>1, <1>3, <1>4, Zenon

LEMMA JoinedFour ==
  ASSUME NEW a \in Seq(Letters), NEW b \in Seq(Letters), NEW c \in Seq(Letters),
         NEW d \in Seq(Letters), NEW s, IsFour(s, a, b, c, d)
  PROVE  /\ s \in Seq(Letters) /\ Len(s) = Len(a) + Len(b) + Len(c) + Len(d)
         /\ Placed(s, a, 0) /\ Placed(s, b, Len(a)) /\ Placed(s, c, Len(a) + Len(b))
         /\ Placed(s, d, Len(a) + Len(b) + Len(c))
<1> DEFINE r == a \o b \o c
<1>1. IsThree(r, a, b, c)
  BY DEF IsThree
<1>2. s = r \o d
  BY DEF IsFour
<1> HIDE DEF r
<1>3. /\ r \in Seq(Letters) /\ Len(r) = Len(a) + Len(b) + Len(c)
      /\ Placed(r, a, 0) /\ Placed(r, b, Len(a)) /\ Placed(r, c, Len(a) + Len(b))
  BY <1>1, JoinedThree, Zenon
<1>4. /\ s \in Seq(Letters) /\ Len(s) = Len(r) + Len(d)
      /\ Placed(s, r, 0) /\ Placed(s, d, Len(r))
  BY <1>2, <1>3, Joined, Zenon
<1>5. Placed(s, a, 0) /\ Placed(s, b, Len(a)) /\ Placed(s, c, Len(a) + Len(b))
  BY <1>3, <1>4, PlacedWithin, Zenon
<1> QED
  BY <1>3, <1>4, <1>5, Zenon

(* What is cut out of a text where a piece of it stands.                   *)
LEMMA PieceIs ==
  ASSUME NEW s \in Seq(Letters), NEW t \in Seq(Letters), NEW o, Placed(s, t, o)
  PROVE  /\ SubSeq(s, o + 1, o + Len(t)) = t
         /\ Cut(s, o + 1, Len(t)) = t
         /\ o + Len(t) = Len(s) => Rest(s, o + 1) = t
<1> DEFINE m == Len(t)
           e == o + m
           j == o + 1
<1>1. m \in Nat /\ Len(s) \in Nat /\ o \in Nat /\ o + m <= Len(s)
  BY DEF Placed
<1>2. \A i \in 1 .. m : s[o + i] = t[i]
  BY DEF Placed
<1> HIDE DEF m
<1>3. /\ e \in Nat /\ j \in Nat /\ j > 0 /\ e - j + 1 = m /\ e <= Len(s)
      /\ j + m - 1 = e /\ (j + m > Len(s) => e = Len(s))
  BY <1>1
<1>4. \A k \in 1 .. m : s[j + k - 1] = t[k]
  <2> TAKE k \in 1 .. m
  <2>1. j + k - 1 = o + k
    BY <1>1
  <2> QED
    BY <1>2, <2>1
<1> HIDE DEF e, j
<1>5. SubSeq(s, j, e) = t
  BY <1>1, <1>3, <1>4, Slice DEF m
<1>6. e = Len(s) => Rest(s, j) = t
  BY <1>5 DEF Rest
<1>7. Cut(s, j, m) = t
  <2>1. ~(m < 0)
    BY <1>1
  <2> QED
    BY <1>3, <1>5, <1>6, <2>1 DEF Cut
<1> QED
  BY <1>5, <1>6, <1>7 DEF m, e, j

LEMMA PieceOut ==
  ASSUME NEW s \in Seq(Letters), NEW t \in Seq(Letters), NEW o, Placed(s, t, o)
  PROVE  SubSeq(s, o + 1, o + Len(t)) = t
BY PieceIs, Zenon

LEMMA PieceCut ==
  ASSUME NEW s \in Seq(Letters), NEW t \in Seq(Letters), NEW o, Placed(s, t, o)
  PROVE  Cut(s, o + 1, Len(t)) = t
BY PieceIs, Zenon

LEMMA PieceRest ==
  ASSUME NEW s \in Seq(Letters), NEW t \in Seq(Letters), NEW o, Placed(s, t, o),
         o + Len(t) = Len(s)
  PROVE  Rest(s, o + 1) = t
BY PieceIs, Zenon

(* Where a pattern is in a text.                                           *)
LEMMA MatchesIs ==
  ASSUME NEW s \in Seq(Letters), NEW p \in Seq(Letters), p # <<>>, NEW from \in Nat, from > 0
  PROVE  Matches(s, p, from) =
           {i \in from .. Len(s) - Len(p) + 1 : \A k \in 1 .. Len(p) : s[i + k - 1] = p[k]}
<1> SUFFICES ASSUME NEW i \in from .. Len(s) - Len(p) + 1
             PROVE  SubSeq(s, i, i + Len(p) - 1) = p <=>
                      \A k \in 1 .. Len(p) : s[i + k - 1] = p[k]
  BY DEF Matches
<1> DEFINE n == Len(p)
           j == i + n - 1
<1>1. n \in Nat /\ n > 0 /\ Len(s) \in Nat /\ i \in Nat /\ i > 0 /\ j \in Nat /\ j <= Len(s)
      /\ j - i + 1 = n
  OBVIOUS
<1>2. ASSUME SubSeq(s, i, j) = p, NEW k \in 1 .. n
      PROVE  s[i + k - 1] = p[k]
  <2>1. \A l \in i .. j : s[l] \in Letters
    BY <1>1
  <2>2. \A l \in 1 .. j - i + 1 : SubSeq(s, i, j)[l] = s[i + l - 1]
    BY <1>1, <2>1, SubSeqProperties
  <2> HIDE DEF n, j
  <2> QED
    BY <1>1, <1>2, <2>2
<1>3. (\A k \in 1 .. n : s[i + k - 1] = p[k]) => SubSeq(s, i, j) = p
  BY <1>1, Slice
<1> QED
  BY <1>2, <1>3

(* The first place is the one no other comes before.                       *)
LEMMA FindIs ==
  ASSUME NEW s, NEW p, NEW from \in Nat, NEW i \in Matches(s, p, from),
         \A j \in Matches(s, p, from) : i <= j
  PROVE  Find(s, p, from) = i
<1> DEFINE M == Matches(s, p, from)
<1>1. M \subseteq Int
  BY DEF Matches
<1> HIDE DEF M
<1>2. \A k \in M : (\A j \in M : k <= j) => k = i
  BY <1>1 DEF M
<1>3. (CHOOSE k \in M : \A j \in M : k <= j) = i
  BY <1>2 DEF M
<1> QED
  BY <1>3 DEF Find, M

(* A pattern of two.                                                       *)
LEMMA PairMatches ==
  ASSUME NEW s \in Seq(Letters), NEW x \in Letters, NEW y \in Letters,
         NEW from \in Nat, from > 0
  PROVE  Matches(s, <<x, y>>, from) =
           {i \in from .. Len(s) - 1 : s[i] = x /\ s[i + 1] = y}
<1> DEFINE p == <<x, y>>
<1>1. p \in Seq(Letters) /\ p # <<>> /\ Len(p) = 2 /\ p[1] = x /\ p[2] = y
  OBVIOUS
<1> HIDE DEF p
<1>2. Matches(s, p, from) =
        {i \in from .. Len(s) - Len(p) + 1 : \A k \in 1 .. Len(p) : s[i + k - 1] = p[k]}
  BY <1>1, MatchesIs, Zenon
<1>3. Len(s) \in Nat /\ Len(s) - 2 + 1 = Len(s) - 1
  OBVIOUS
<1>4. ASSUME NEW i \in Int
      PROVE  (\A k \in 1 .. 2 : s[i + k - 1] = p[k]) <=> s[i] = x /\ s[i + 1] = y
  <2>1. i + 1 - 1 = i /\ i + 2 - 1 = i + 1 /\ 1 .. 2 = {1, 2}
    OBVIOUS
  <2> QED
    BY <1>1, <2>1
<1>5. Matches(s, p, from) = {i \in from .. Len(s) - 1 : s[i] = x /\ s[i + 1] = y}
  BY <1>1, <1>2, <1>3, <1>4
<1> QED
  BY <1>5 DEF p

(* A pattern of one.                                                       *)
LEMMA SingleMatches ==
  ASSUME NEW s \in Seq(Letters), NEW x \in Letters, NEW from \in Nat, from > 0
  PROVE  Matches(s, <<x>>, from) = {i \in from .. Len(s) : s[i] = x}
<1> DEFINE p == <<x>>
<1>1. p \in Seq(Letters) /\ p # <<>> /\ Len(p) = 1 /\ p[1] = x
  OBVIOUS
<1> HIDE DEF p
<1>2. Matches(s, p, from) =
        {i \in from .. Len(s) - Len(p) + 1 : \A k \in 1 .. Len(p) : s[i + k - 1] = p[k]}
  BY <1>1, MatchesIs, Zenon
<1>3. Len(s) \in Nat /\ Len(s) - 1 + 1 = Len(s)
  OBVIOUS
<1>4. ASSUME NEW i \in Int
      PROVE  (\A k \in 1 .. 1 : s[i + k - 1] = p[k]) <=> s[i] = x
  <2>1. i + 1 - 1 = i /\ 1 .. 1 = {1}
    OBVIOUS
  <2> QED
    BY <1>1, <2>1
<1>5. Matches(s, p, from) = {i \in from .. Len(s) : s[i] = x}
  BY <1>1, <1>2, <1>3, <1>4
<1> QED
  BY <1>5 DEF p

(* A pattern of three.                                                     *)
LEMMA TripleMatches ==
  ASSUME NEW s \in Seq(Letters), NEW x \in Letters, NEW y \in Letters, NEW z \in Letters,
         NEW from \in Nat, from > 0
  PROVE  Matches(s, <<x, y, z>>, from) =
           {i \in from .. Len(s) - 2 : s[i] = x /\ s[i + 1] = y /\ s[i + 2] = z}
<1> DEFINE p == <<x, y, z>>
<1>1. p \in Seq(Letters) /\ p # <<>> /\ Len(p) = 3 /\ p[1] = x /\ p[2] = y /\ p[3] = z
  OBVIOUS
<1> HIDE DEF p
<1>2. Matches(s, p, from) =
        {i \in from .. Len(s) - Len(p) + 1 : \A k \in 1 .. Len(p) : s[i + k - 1] = p[k]}
  BY <1>1, MatchesIs, Zenon
<1>3. Len(s) \in Nat /\ Len(s) - 3 + 1 = Len(s) - 2
  OBVIOUS
<1>4. ASSUME NEW i \in Int
      PROVE  (\A k \in 1 .. 3 : s[i + k - 1] = p[k]) <=>
               s[i] = x /\ s[i + 1] = y /\ s[i + 2] = z
  <2>1. i + 1 - 1 = i /\ i + 2 - 1 = i + 1 /\ i + 3 - 1 = i + 2 /\ 1 .. 3 = {1, 2, 3}
    OBVIOUS
  <2> QED
    BY <1>1, <2>1
<1>5. Matches(s, p, from) =
        {i \in from .. Len(s) - 2 : s[i] = x /\ s[i + 1] = y /\ s[i + 2] = z}
  BY <1>1, <1>2, <1>3, <1>4
<1> QED
  BY <1>5 DEF p

-----------------------------------------------------------------------------
(* A text that begins with a keyword.                                      *)
LEMMA FoundFirst ==
  ASSUME NEW s \in Seq(Letters), NEW x \in Letters, s[1] = x, s[2] = White, Len(s) >= 2
  PROVE  Matches(s, <<x, White>>, 1) # {} /\ Find(s, <<x, White>>, 1) = 1
<1> DEFINE M == Matches(s, <<x, White>>, 1)
<1>1. White \in Letters
  BY DEF Letters
<1>2. M = {i \in 1 .. Len(s) - 1 : s[i] = x /\ s[i + 1] = White}
  BY <1>1, PairMatches
<1>3. 1 \in 1 .. Len(s) - 1 /\ 1 + 1 = 2
  OBVIOUS
<1>4. 1 \in M /\ \A i \in M : 1 <= i
  BY <1>2, <1>3
<1> QED
  BY <1>4, FindIs

(* The first place of a pattern.                                           *)
FoundAt(s, pattern, from, c) ==
  Matches(s, pattern, from) # {} /\ Find(s, pattern, from) = c

LEMMA FirstSingle ==
  ASSUME NEW s \in Seq(Letters), NEW x \in Letters, NEW from \in Nat, from > 0,
         NEW c \in from .. Len(s), s[c] = x, \A i \in from .. c - 1 : s[i] # x
  PROVE  FoundAt(s, <<x>>, from, c)
<1> DEFINE M == Matches(s, <<x>>, from)
<1>1. M = {i \in from .. Len(s) : s[i] = x}
  BY SingleMatches
<1> HIDE DEF M
<1>2. c \in M /\ \A i \in M : c <= i
  <2>1. ASSUME NEW i \in M, i < c PROVE FALSE
    BY <1>1, <2>1
  <2> QED
    BY <1>1, <2>1
<1> QED
  BY <1>2, FindIs DEF M, FoundAt

LEMMA FirstPair ==
  ASSUME NEW s \in Seq(Letters), NEW x \in Letters, NEW y \in Letters,
         NEW from \in Nat, from > 0, NEW c \in from .. Len(s) - 1, s[c] = x, s[c + 1] = y,
         \A i \in from .. c - 1 : ~(s[i] = x /\ s[i + 1] = y)
  PROVE  FoundAt(s, <<x, y>>, from, c)
<1> DEFINE M == Matches(s, <<x, y>>, from)
<1>1. M = {i \in from .. Len(s) - 1 : s[i] = x /\ s[i + 1] = y}
  BY PairMatches
<1> HIDE DEF M
<1>2. c \in M /\ \A i \in M : c <= i
  <2>1. ASSUME NEW i \in M, i < c PROVE FALSE
    BY <1>1, <2>1
  <2> QED
    BY <1>1, <2>1
<1> QED
  BY <1>2, FindIs DEF M, FoundAt

LEMMA FirstTriple ==
  ASSUME NEW s \in Seq(Letters), NEW x \in Letters, NEW y \in Letters, NEW z \in Letters,
         NEW from \in Nat, from > 0, NEW c \in from .. Len(s) - 2,
         s[c] = x, s[c + 1] = y, s[c + 2] = z,
         \A i \in from .. c - 1 : ~(s[i] = x /\ s[i + 1] = y /\ s[i + 2] = z)
  PROVE  FoundAt(s, <<x, y, z>>, from, c)
<1> DEFINE M == Matches(s, <<x, y, z>>, from)
<1>1. M = {i \in from .. Len(s) - 2 : s[i] = x /\ s[i + 1] = y /\ s[i + 2] = z}
  BY TripleMatches
<1> HIDE DEF M
<1>2. c \in M /\ \A i \in M : c <= i
  <2>1. ASSUME NEW i \in M, i < c PROVE FALSE
    BY <1>1, <2>1
  <2> QED
    BY <1>1, <2>1
<1> QED
  BY <1>2, FindIs DEF M, FoundAt

-----------------------------------------------------------------------------
(* 'using "path" as name'                                                  *)
LEMMA UsingParts ==
  ASSUME NEW path \in Seq(Letters), NEW name \in Seq(Letters), NEW s, IsUsing(s, path, name)
  PROVE  /\ s \in Seq(Letters) /\ Len(s) = Len(path) + Len(name) + 7
         /\ Placed(s, <<"using", White, Quote>>, 0)
         /\ Placed(s, path, 3)
         /\ Placed(s, <<Quote, White, "as", White>>, Len(path) + 3)
         /\ Placed(s, name, Len(path) + 7)
<1> DEFINE a == <<"using", White, Quote>>
           c == <<Quote, White, "as", White>>
<1>1. a \in Seq(Letters)
  BY DEF Letters
<1>2. c \in Seq(Letters)
  BY DEF Letters
<1>3. Len(a) = 3 /\ Len(c) = 4
  OBVIOUS
<1>4. IsFour(s, a, path, c, name)
  BY DEF IsUsing, IsFour
<1> HIDE DEF a, c
<1>5. /\ s \in Seq(Letters) /\ Len(s) = Len(a) + Len(path) + Len(c) + Len(name)
      /\ Placed(s, a, 0) /\ Placed(s, path, Len(a)) /\ Placed(s, c, Len(a) + Len(path))
      /\ Placed(s, name, Len(a) + Len(path) + Len(c))
  BY <1>1, <1>2, <1>4, JoinedFour, Zenon
<1>6. /\ Len(a) + Len(path) = Len(path) + 3
      /\ Len(a) + Len(path) + Len(c) = Len(path) + 7
      /\ Len(a) + Len(path) + Len(c) + Len(name) = Len(path) + Len(name) + 7
  BY <1>3
<1> QED
  BY <1>3, <1>5, <1>6 DEF a, c

(* The first " as " is the one behind the path.                            *)
LEMMA AsFound ==
  ASSUME NEW path \in Seq(Letters), NEW s \in Seq(Letters),
         Len(s) >= Len(path) + 7, Placed(s, path, 3),
         Placed(s, <<Quote, White, "as", White>>, Len(path) + 3),
         Without(path, {<<White, "as", White>>})
  PROVE  FoundAt(s, <<White, "as", White>>, 4, Len(path) + 5)
<1> DEFINE m == Len(path)
           c == m + 5
<1>1. White \in Letters /\ "as" \in Letters
  BY DEF Letters
<1>2. m \in Nat /\ Len(s) \in Nat /\ Len(s) >= m + 7
  OBVIOUS
<1>3. \A i \in 1 .. m - 2 : ~(path[i] = White /\ path[i + 1] = "as" /\ path[i + 2] = White)
  <2>1. Matches(path, <<White, "as", White>>, 1) =
          {i \in 1 .. m - 2 : path[i] = White /\ path[i + 1] = "as" /\ path[i + 2] = White}
    BY <1>1, TripleMatches
  <2>2. Matches(path, <<White, "as", White>>, 1) = {}
    BY DEF Without
  <2> QED
    BY <2>1, <2>2
<1>4. \A i \in 1 .. m : s[3 + i] = path[i]
  BY DEF Placed
<1>5. \A i \in 1 .. 4 : s[m + 3 + i] = <<Quote, White, "as", White>>[i]
  BY DEF Placed
<1> HIDE DEF m
<1>6. s[m + 4] = Quote /\ s[m + 5] = White /\ s[m + 6] = "as" /\ s[m + 7] = White
  <2> DEFINE p == <<Quote, White, "as", White>>
  <2>1. p[1] = Quote /\ p[2] = White /\ p[3] = "as" /\ p[4] = White
    OBVIOUS
  <2>2. \A i \in 1 .. 4 : s[m + 3 + i] = p[i]
    BY <1>5
  <2> HIDE DEF p
  <2>3. m + 3 + 1 = m + 4 /\ m + 3 + 2 = m + 5 /\ m + 3 + 3 = m + 6 /\ m + 3 + 4 = m + 7
    BY <1>2
  <2> QED
    BY <2>1, <2>2, <2>3
<1>7. c \in 4 .. Len(s) - 2 /\ c + 1 = m + 6 /\ c + 2 = m + 7
  BY <1>2
<1>8. s[c] = White /\ s[c + 1] = "as" /\ s[c + 2] = White
  BY <1>6, <1>7
<1>9. ASSUME NEW i \in 4 .. c - 1, s[i] = White, s[i + 1] = "as", s[i + 2] = White
      PROVE  FALSE
  <2>1. White # Quote /\ "as" # Quote
    BY DEF White, Quote
  <2>2. i # m + 4 /\ i + 1 # m + 4 /\ i + 2 # m + 4
    BY <1>6, <1>9, <2>1
  <2> DEFINE k == i - 3
  <2>3. k \in 1 .. m - 2 /\ k \in 1 .. m /\ k + 1 \in 1 .. m /\ k + 2 \in 1 .. m
    BY <1>2, <2>2
  <2>4. 3 + k = i /\ 3 + (k + 1) = i + 1 /\ 3 + (k + 2) = i + 2
    OBVIOUS
  <2> HIDE DEF k
  <2>5. path[k] = White /\ path[k + 1] = "as" /\ path[k + 2] = White
    BY <1>4, <1>9, <2>3, <2>4
  <2> QED
    BY <1>3, <2>3, <2>5
<1>10. \A i \in 4 .. c - 1 : ~(s[i] = White /\ s[i + 1] = "as" /\ s[i + 2] = White)
  BY <1>9
<1> HIDE DEF c
<1>11. FoundAt(s, <<White, "as", White>>, 4, c)
  <2>1. 4 \in Nat /\ 4 > 0
    OBVIOUS
  <2> QED
    BY <1>1, <1>7, <1>8, <1>10, <2>1, FirstTriple, Zenon
<1> QED
  BY <1>11 DEF c, m

LEMMA UsingParsed ==
  ASSUME NEW path \in Seq(Letters), NEW name \in Seq(Letters), NEW s, IsUsing(s, path, name)
  PROVE  Parsed(s) = Object(name, <<"SOURCE">> \o path)
<1> DEFINE m == Len(path)
           n == Len(name)
           as == <<White, "as", White>>
<1>1. m \in Nat /\ n \in Nat
  OBVIOUS
<1>2. Without(path, {as})
  BY DEF IsUsing
<1>3. /\ s \in Seq(Letters) /\ Len(s) = m + n + 7
      /\ Placed(s, <<"using", White, Quote>>, 0) /\ Placed(s, path, 3)
      /\ Placed(s, <<Quote, White, "as", White>>, m + 3) /\ Placed(s, name, m + 7)
  BY UsingParts, Zenon
<1>4. FoundAt(s, as, 4, m + 5)
  <2>1. Len(s) >= m + 7
    BY <1>1, <1>3
  <2> QED
    BY <1>2, <1>3, <2>1, AsFound
<1>5. Cut(s, 3 + 1, m) = path
  BY <1>3, PieceCut, Zenon
<1>6. Rest(s, m + 7 + 1) = name
  <2>1. m + 7 + n = Len(s)
    BY <1>1, <1>3
  <2> QED
    BY <1>3, <2>1, PieceRest, Zenon
<1>7. FoundAt(s, <<"using", White>>, 1, 1)
  <2> DEFINE a == <<"using", White, Quote>>
  <2>1. Len(a) = 3 /\ a[1] = "using" /\ a[2] = White
    OBVIOUS
  <2>2. \A i \in 1 .. Len(a) : s[0 + i] = a[i]
    BY <1>3 DEF Placed
  <2> HIDE DEF a
  <2>3. s[1] = "using" /\ s[2] = White
    BY <2>1, <2>2
  <2>4. "using" \in Letters /\ Len(s) >= 2
    BY <1>1, <1>3 DEF Letters
  <2> QED
    BY <1>3, <2>3, <2>4, FoundFirst, Zenon DEF FoundAt
<1> HIDE DEF m, n, as
<1>8. 1 + 3 = 4 /\ 3 + 1 = 4 /\ m + 7 + 1 = m + 8
  BY <1>1
<1> DEFINE found == Find(s, as, 4)
<1>9. ParseUsing(s) = Object(Rest(s, found + 3), <<"SOURCE">> \o Cut(s, 4, found - 4 - 1))
  BY <1>4, <1>7, <1>8 DEF ParseUsing, as, FoundAt
<1>10. found = m + 5
  BY <1>4 DEF FoundAt
<1> HIDE DEF found
<1>11. found + 3 = m + 8 /\ found - 4 - 1 = m
  BY <1>1, <1>10
<1>12. ParseUsing(s) = Object(name, <<"SOURCE">> \o path)
  BY <1>5, <1>6, <1>8, <1>9, <1>11
<1> QED
  BY <1>7, <1>12 DEF Parsed, FoundAt

-----------------------------------------------------------------------------
(* '#include "path"'                                                       *)
LEMMA IncludeParts ==
  ASSUME NEW path \in Seq(Letters), NEW s, IsInclude(s, path)
  PROVE  /\ s \in Seq(Letters) /\ Len(s) = Len(path) + 4
         /\ s[1] = "#include" /\ s[2] = White
         /\ Placed(s, path, 3)
<1> DEFINE a == <<"#include", White, Quote>>
           c == <<Quote>>
<1>1. a \in Seq(Letters)
  BY DEF Letters
<1>2. c \in Seq(Letters)
  BY DEF Letters
<1>3. Len(a) = 3 /\ a[1] = "#include" /\ a[2] = White /\ Len(c) = 1
  OBVIOUS
<1>4. IsThree(s, a, path, c)
  BY DEF IsInclude, IsThree
<1> HIDE DEF a, c
<1>5. /\ s \in Seq(Letters) /\ Len(s) = Len(a) + Len(path) + Len(c)
      /\ Placed(s, a, 0) /\ Placed(s, path, Len(a)) /\ Placed(s, c, Len(a) + Len(path))
  BY <1>1, <1>2, <1>4, JoinedThree, Zenon
<1>6. Len(s) = Len(path) + 4
  BY <1>3, <1>5
<1>7. s[1] = "#include" /\ s[2] = White
  <2>1. \A i \in 1 .. Len(a) : s[0 + i] = a[i]
    BY <1>5 DEF Placed
  <2> QED
    BY <1>3, <2>1
<1> QED
  BY <1>3, <1>5, <1>6, <1>7

LEMMA IncludeParsed ==
  ASSUME NEW path \in Seq(Letters), NEW s, IsInclude(s, path)
  PROVE  Parsed(s) = Object(path, <<"SEQUENCES">> \o path)
<1> DEFINE m == Len(path)
           r == Rest(s, 3)
<1>1. m \in Nat
  OBVIOUS
<1>2. Matches(s, <<"using", White>>, 1) = {}
  BY DEF IsInclude, Without
<1>3. /\ s \in Seq(Letters) /\ Len(s) = m + 4 /\ s[1] = "#include" /\ s[2] = White
      /\ Placed(s, path, 3)
  BY IncludeParts, Zenon
<1>4. \A i \in 1 .. m : s[3 + i] = path[i]
  BY <1>3 DEF Placed
<1> HIDE DEF m
<1>5. FoundAt(s, <<"#include", White>>, 1, 1)
  <2>1. "#include" \in Letters /\ Len(s) >= 2
    BY <1>1, <1>3 DEF Letters
  <2> QED
    BY <1>3, <2>1, FoundFirst, Zenon DEF FoundAt
<1>6. r \in Seq(Letters) /\ Len(r) = m + 2 /\ \A i \in 1 .. m + 2 : r[i] = s[3 + i - 1]
  <2>1. \A i \in 3 .. Len(s) : s[i] \in Letters
    BY <1>3
  <2>2. Len(s) \in Int /\ 3 \in Int /\ Len(s) - 3 + 1 = m + 2 /\ 3 <= Len(s)
    BY <1>1, <1>3
  <2> QED
    BY <2>1, <2>2, SubSeqProperties DEF Rest
<1> HIDE DEF r
<1>7. Placed(r, path, 1)
  <2>1. \A i \in 1 .. m : r[1 + i] = path[i]
    <3> TAKE i \in 1 .. m
    <3>1. 1 + i \in 1 .. m + 2 /\ 3 + (1 + i) - 1 = 3 + i
      BY <1>1
    <3> QED
      BY <1>4, <1>6, <3>1
  <2>2. 1 \in Nat /\ 1 + m <= Len(r)
    BY <1>1, <1>6
  <2> QED
    BY <2>1, <2>2 DEF Placed, m
<1>8. Cut(r, 1 + 1, m) = path
  BY <1>6, <1>7, PieceCut, Zenon DEF m
<1>9. Len(r) - 2 = m /\ r # <<>> /\ 1 + 1 = 2 /\ 1 + 2 = 3
  BY <1>1, <1>6
<1>10. ParseInclude(s) = Object(Cut(r, 2, Len(r) - 2), <<"SEQUENCES">> \o Cut(r, 2, Len(r) - 2))
  BY <1>5, <1>9 DEF ParseInclude, r, FoundAt
<1>11. ParseInclude(s) = Object(path, <<"SEQUENCES">> \o path)
  BY <1>8, <1>9, <1>10
<1> QED
  BY <1>2, <1>5, <1>11 DEF Parsed, FoundAt

-----------------------------------------------------------------------------
(* 'function name(params)->returns'                                        *)
FunctionParts(s, name, params, returns, n, m, k) ==
  /\ s \in Seq(Letters) /\ Len(s) = n + m + k + 6
  /\ Placed(s, <<"function", White>>, 0) /\ Placed(s, name, 2)
  /\ Placed(s, <<"(">>, n + 2) /\ Placed(s, params, n + 3)
  /\ Placed(s, <<")", "-", ">">>, n + m + 3) /\ Placed(s, returns, n + m + 6)

LEMMA FunctionJoined ==
  ASSUME NEW name \in Seq(Letters), NEW params \in Seq(Letters), NEW returns \in Seq(Letters),
         NEW s, IsFunction(s, name, params, returns)
  PROVE  FunctionParts(s, name, params, returns, Len(name), Len(params), Len(returns))
<1> DEFINE a == <<"function", White>>
           b == <<"(">>
           d == <<")", "-", ">">>
           r == a \o name \o b \o params
<1>1. /\ "function" \in Letters /\ White \in Letters
      /\ "(" \in Letters /\ ")" \in Letters /\ "-" \in Letters /\ ">" \in Letters
  BY DEF Letters, Special
<1>2. a \in Seq(Letters)
  BY <1>1
<1>3. b \in Seq(Letters)
  BY <1>1
<1>4. d \in Seq(Letters)
  BY <1>1
<1>5. IsThree(s, r, d, returns) /\ IsFour(r, a, name, b, params)
  BY DEF IsFunction, IsThree, IsFour
<1>6. Len(a) = 2 /\ Len(b) = 1 /\ Len(d) = 3
  OBVIOUS
<1> HIDE DEF a, b, d, r
<1>7. /\ r \in Seq(Letters) /\ Len(r) = Len(a) + Len(name) + Len(b) + Len(params)
      /\ Placed(r, a, 0) /\ Placed(r, name, Len(a)) /\ Placed(r, b, Len(a) + Len(name))
      /\ Placed(r, params, Len(a) + Len(name) + Len(b))
  BY <1>2, <1>3, <1>5, JoinedFour, Zenon
<1>8. /\ s \in Seq(Letters) /\ Len(s) = Len(r) + Len(d) + Len(returns)
      /\ Placed(s, r, 0) /\ Placed(s, d, Len(r)) /\ Placed(s, returns, Len(r) + Len(d))
  BY <1>4, <1>5, <1>7, JoinedThree, Zenon
<1>9. /\ Placed(s, a, 0) /\ Placed(s, name, Len(a)) /\ Placed(s, b, Len(a) + Len(name))
      /\ Placed(s, params, Len(a) + Len(name) + Len(b))
  <2>1. \A x \in Seq(Letters) : \A o : Placed(r, x, o) => Placed(s, x, o)
    BY <1>7, <1>8, PlacedWithin, Zenon
  <2> QED
    BY <1>2, <1>3, <1>7, <2>1, Zenon
<1>10. /\ Len(a) + Len(name) = Len(name) + 2
      /\ Len(a) + Len(name) + Len(b) = Len(name) + 3
      /\ Len(r) = Len(name) + Len(params) + 3
      /\ Len(r) + Len(d) = Len(name) + Len(params) + 6
      /\ Len(r) + Len(d) + Len(returns) = Len(name) + Len(params) + Len(returns) + 6
  <2> DEFINE n == Len(name)
             m == Len(params)
             k == Len(returns)
             l == Len(r)
  <2>1. n \in Nat /\ m \in Nat /\ k \in Nat
    OBVIOUS
  <2>2. l = 2 + n + 1 + m
    BY <1>7, <1>6
  <2> HIDE DEF n, m, k, l
  <2>3. /\ 2 + n = n + 2 /\ 2 + n + 1 = n + 3 /\ l = n + m + 3
        /\ l + 3 = n + m + 6 /\ l + 3 + k = n + m + k + 6
    BY <2>1, <2>2
  <2> QED
    BY <1>6, <2>3 DEF n, m, k, l
<1> QED
  BY <1>8, <1>9, <1>10, <1>6 DEF FunctionParts, a, b, d

(* The single characters of it.                                            *)
LEMMA FunctionSigns ==
  ASSUME NEW name, NEW params, NEW returns, NEW n \in Nat, NEW m \in Nat, NEW k \in Nat,
         NEW s, FunctionParts(s, name, params, returns, n, m, k)
  PROVE  /\ s[1] = "function" /\ s[2] = White /\ s[n + 3] = "("
         /\ s[n + m + 4] = ")" /\ s[n + m + 5] = "-" /\ s[n + m + 6] = ">"
<1> DEFINE a == <<"function", White>>
           b == <<"(">>
           d == <<")", "-", ">">>
<1>1. Len(a) = 2 /\ a[1] = "function" /\ a[2] = White /\ Len(b) = 1 /\ b[1] = "("
  OBVIOUS
<1>2. Len(d) = 3 /\ d[1] = ")" /\ d[2] = "-" /\ d[3] = ">"
  OBVIOUS
<1>3. /\ \A i \in 1 .. Len(a) : s[0 + i] = a[i]
      /\ \A i \in 1 .. Len(b) : s[n + 2 + i] = b[i]
      /\ \A i \in 1 .. Len(d) : s[n + m + 3 + i] = d[i]
  BY DEF FunctionParts, Placed
<1> HIDE DEF a, b, d
<1>4. s[0 + 1] = "function" /\ s[0 + 2] = White /\ s[n + 2 + 1] = "("
  BY <1>1, <1>3
<1>5. s[n + m + 3 + 1] = ")" /\ s[n + m + 3 + 2] = "-" /\ s[n + m + 3 + 3] = ">"
  BY <1>2, <1>3
<1>6. /\ n + 2 + 1 = n + 3 /\ n + m + 3 + 1 = n + m + 4 /\ n + m + 3 + 2 = n + m + 5
      /\ n + m + 3 + 3 = n + m + 6
  OBVIOUS
<1> QED
  BY <1>4, <1>5, <1>6

(* The first bracket is the one behind the name, the first arrow the one   *)
(* behind the parameters.                                                  *)
LEMMA BracketFound ==
  ASSUME NEW name \in Seq(Letters), NEW s \in Seq(Letters), Placed(s, name, 2),
         Len(name) + 3 <= Len(s), s[Len(name) + 3] = "(", Without(name, {<<"(">>, <<"-", ">">>})
  PROVE  FoundAt(s, <<"(">>, 3, Len(name) + 3)
<1> DEFINE n == Len(name)
           c == n + 3
<1>1. "(" \in Letters
  BY DEF Letters, Special
<1>2. \A i \in 1 .. n : name[i] # "("
  <2>1. Matches(name, <<"(">>, 1) = {i \in 1 .. n : name[i] = "("}
    BY <1>1, SingleMatches
  <2>2. Matches(name, <<"(">>, 1) = {}
    BY DEF Without
  <2> QED
    BY <2>1, <2>2
<1>3. \A i \in 1 .. n : s[2 + i] = name[i]
  BY DEF Placed
<1>4. n \in Nat /\ Len(s) \in Nat /\ n + 3 <= Len(s) /\ s[c] = "("
  OBVIOUS
<1> HIDE DEF n
<1>5. \A i \in 3 .. c - 1 : s[i] # "("
  <2> TAKE i \in 3 .. c - 1
  <2> DEFINE j == i - 2
  <2>1. j \in 1 .. n /\ 2 + j = i
    BY <1>4
  <2> HIDE DEF j
  <2> QED
    BY <1>2, <1>3, <2>1
<1>6. c \in 3 .. Len(s)
  BY <1>4
<1> HIDE DEF c
<1>7. FoundAt(s, <<"(">>, 3, c)
  <2>1. 3 \in Nat /\ 3 > 0
    OBVIOUS
  <2> QED
    BY <1>1, <1>4, <1>5, <1>6, <2>1, FirstSingle, Zenon
<1> QED
  BY <1>7 DEF c, n

LEMMA ArrowFound ==
  ASSUME NEW name \in Seq(Letters), NEW params \in Seq(Letters), NEW returns, NEW k \in Nat,
         NEW s, FunctionParts(s, name, params, returns, Len(name), Len(params), k),
         Without(name, {<<"(">>, <<"-", ">">>}), Without(params, {<<"-", ">">>})
  PROVE  FoundAt(s, <<"-", ">">>, 3, Len(name) + Len(params) + 5)
<1> DEFINE n == Len(name)
           m == Len(params)
           c == n + m + 5
<1>1. "-" \in Letters /\ ">" \in Letters
  BY DEF Letters, Special
<1>2. n \in Nat /\ m \in Nat
  OBVIOUS
<1>3. \A i \in 1 .. n - 1 : ~(name[i] = "-" /\ name[i + 1] = ">")
  <2>1. Matches(name, <<"-", ">">>, 1) = {i \in 1 .. n - 1 : name[i] = "-" /\ name[i + 1] = ">"}
    BY <1>1, PairMatches
  <2>2. Matches(name, <<"-", ">">>, 1) = {}
    BY DEF Without
  <2> QED
    BY <2>1, <2>2
<1>4. \A i \in 1 .. m - 1 : ~(params[i] = "-" /\ params[i + 1] = ">")
  <2>1. Matches(params, <<"-", ">">>, 1) =
          {i \in 1 .. m - 1 : params[i] = "-" /\ params[i + 1] = ">"}
    BY <1>1, PairMatches
  <2>2. Matches(params, <<"-", ">">>, 1) = {}
    BY DEF Without
  <2> QED
    BY <2>1, <2>2
<1>5. FunctionParts(s, name, params, returns, n, m, k)
  OBVIOUS
<1>6. /\ \A i \in 1 .. n : s[2 + i] = name[i]
      /\ \A i \in 1 .. m : s[n + 3 + i] = params[i]
  BY <1>5 DEF FunctionParts, Placed
<1> HIDE DEF n, m
<1>7. s[n + 3] = "(" /\ s[n + m + 4] = ")" /\ s[n + m + 5] = "-" /\ s[n + m + 6] = ">"
  BY <1>2, <1>5, FunctionSigns
<1>8. s \in Seq(Letters) /\ Len(s) = n + m + k + 6
  BY <1>5 DEF FunctionParts
<1>9. c \in 3 .. Len(s) - 1 /\ c + 1 = n + m + 6
  BY <1>2, <1>8
<1>10. s[c] = "-" /\ s[c + 1] = ">"
  BY <1>7, <1>9
<1>11. ASSUME NEW i \in 3 .. c - 1, s[i] = "-", s[i + 1] = ">"
       PROVE  FALSE
  <2>1. i # n + 3 /\ i + 1 # n + 3 /\ i # n + m + 4 /\ i + 1 # n + m + 4
    BY <1>7, <1>11
  <2>2. i \in Int /\ i >= 3 /\ i < n + m + 5
    BY <1>2
  <2>3. i < n + 2 \/ (i > n + 3 /\ i < n + m + 3)
    BY <1>2, <2>1, <2>2
  <2>4. CASE i < n + 2
    <3> DEFINE j == i - 2
    <3>1. /\ j \in 1 .. n - 1 /\ j \in 1 .. n /\ j + 1 \in 1 .. n
          /\ 2 + j = i /\ 2 + (j + 1) = i + 1
      BY <1>2, <2>2, <2>4
    <3> HIDE DEF j
    <3>2. name[j] = "-" /\ name[j + 1] = ">"
      BY <1>6, <1>11, <3>1
    <3> QED
      BY <1>3, <3>1, <3>2
  <2>5. CASE i > n + 3 /\ i < n + m + 3
    <3> DEFINE j == i - (n + 3)
    <3>1. /\ j \in 1 .. m - 1 /\ j \in 1 .. m /\ j + 1 \in 1 .. m
          /\ n + 3 + j = i /\ n + 3 + (j + 1) = i + 1
      BY <1>2, <2>2, <2>5
    <3> HIDE DEF j
    <3>2. params[j] = "-" /\ params[j + 1] = ">"
      BY <1>6, <1>11, <3>1
    <3> QED
      BY <1>4, <3>1, <3>2
  <2> QED
    BY <2>3, <2>4, <2>5
<1>12. \A i \in 3 .. c - 1 : ~(s[i] = "-" /\ s[i + 1] = ">")
  BY <1>11
<1> HIDE DEF c
<1>13. FoundAt(s, <<"-", ">">>, 3, c)
  <2>1. 3 \in Nat /\ 3 > 0
    OBVIOUS
  <2> QED
    BY <1>1, <1>8, <1>9, <1>10, <1>12, <2>1, FirstPair, Zenon
<1> QED
  BY <1>13 DEF c, n, m

LEMMA FunctionParsed ==
  ASSUME NEW name \in Seq(Letters), NEW params \in Seq(Letters), NEW returns \in Seq(Letters),
         NEW s, IsFunction(s, name, params, returns)
  PROVE  Parsed(s) =
           [kind |-> "function", name |-> name, params |-> params, returns |-> returns]
<1> DEFINE n == Len(name)
           m == Len(params)
           k == Len(returns)
           bracket == <<"(">>
           arrow == <<"-", ">">>
<1>1. n \in Nat /\ m \in Nat /\ k \in Nat
  OBVIOUS
<1>2. Matches(s, <<"using", White>>, 1) = {} /\ Matches(s, <<"#include", White>>, 1) = {}
  BY DEF IsFunction, Without
<1>3. Without(name, {bracket, arrow}) /\ Without(params, {arrow})
  BY DEF IsFunction
<1>4. FunctionParts(s, name, params, returns, n, m, k)
  BY FunctionJoined, Zenon
<1>5. /\ s[1] = "function" /\ s[2] = White /\ s[n + 3] = "("
      /\ s[n + m + 4] = ")" /\ s[n + m + 5] = "-" /\ s[n + m + 6] = ">"
  <2> HIDE DEF n, m, k
  <2> QED
    BY <1>1, <1>4, FunctionSigns
<1>6. /\ s \in Seq(Letters) /\ Len(s) = n + m + k + 6 /\ Placed(s, name, 2)
      /\ Placed(s, params, n + 3) /\ Placed(s, returns, n + m + 6)
  BY <1>4 DEF FunctionParts
<1>7. n + 3 <= Len(s) /\ Len(s) >= 2 /\ n + m + 6 + k = Len(s)
  <2> HIDE DEF n, m, k
  <2> QED
    BY <1>1, <1>6
<1>8. FoundAt(s, bracket, 3, n + 3)
  BY <1>3, <1>5, <1>6, <1>7, BracketFound
<1>9. FoundAt(s, arrow, 3, n + m + 5)
  BY <1>1, <1>3, <1>4, ArrowFound, Zenon
<1>10. Cut(s, 2 + 1, n) = name
  BY <1>6, PieceCut, Zenon
<1>11. Cut(s, n + 3 + 1, m) = params
  BY <1>6, PieceCut, Zenon
<1>12. Rest(s, n + m + 6 + 1) = returns
  BY <1>6, <1>7, PieceRest, Zenon
<1>13. FoundAt(s, <<"function", White>>, 1, 1)
  <2>1. "function" \in Letters
    BY DEF Letters
  <2> QED
    BY <1>5, <1>6, <1>7, <2>1, FoundFirst, Zenon DEF FoundAt
<1> HIDE DEF n, m, k
<1> DEFINE b == Find(s, bracket, 3)
           c == Find(s, arrow, 3)
<1>14. ParseFunction(s) =
         [kind |-> "function", name |-> Cut(s, 3, b - 3), params |-> Cut(s, b + 1, c - b - 2),
          returns |-> Rest(s, c + 2)]
  <2>1. 1 + 2 = 3
    OBVIOUS
  <2> QED
    BY <1>8, <1>9, <1>13, <2>1 DEF ParseFunction, If, FoundAt
<1>15. b = n + 3 /\ c = n + m + 5
  BY <1>8, <1>9 DEF FoundAt
<1> HIDE DEF b, c
<1>16. b - 3 = n /\ b + 1 = n + 3 + 1 /\ c - b - 2 = m /\ c + 2 = n + m + 6 + 1 /\ 2 + 1 = 3
  BY <1>1, <1>15
<1>17. ParseFunction(s) =
         [kind |-> "function", name |-> name, params |-> params, returns |-> returns]
  BY <1>10, <1>11, <1>12, <1>14, <1>16, Zenon
<1> QED
  BY <1>2, <1>13, <1>17 DEF Parsed, FoundAt

-----------------------------------------------------------------------------
(* 'type name=value;'                                                      *)
LEMMA VariableParts ==
  ASSUME NEW t \in Letters, NEW name \in Seq(Letters), NEW s \in Seq(Letters),
         IsVariable(s, t, name)
  PROVE  LET rest == Rest(s, Len(name) + 3)
         IN  /\ rest \in Seq(Letters) /\ Len(s) = Len(name) + Len(rest) + 2
             /\ s[1] = t /\ s[2] = White
             /\ Placed(s, name, 2) /\ Placed(s, rest, Len(name) + 2)
<1> DEFINE a == <<t>>
           b == <<White>>
           rest == Rest(s, Len(name) + 3)
<1>1. a \in Seq(Letters)
  OBVIOUS
<1>2. b \in Seq(Letters)
  BY DEF Letters
<1>3. Len(a) = 1 /\ a[1] = t /\ Len(b) = 1 /\ b[1] = White
  OBVIOUS
<1>4. IsFour(s, a, b, name, rest)
  BY DEF IsVariable, IsFour
<1>5. rest \in Seq(Letters)
  <2>1. Len(name) + 3 \in Int /\ Len(s) \in Int
    OBVIOUS
  <2>2. \A i \in Len(name) + 3 .. Len(s) : s[i] \in Letters
    OBVIOUS
  <2> QED
    BY <2>1, <2>2, SubSeqProperties DEF Rest
<1> HIDE DEF a, b, rest
<1>6. /\ s \in Seq(Letters) /\ Len(s) = Len(a) + Len(b) + Len(name) + Len(rest)
      /\ Placed(s, a, 0) /\ Placed(s, b, Len(a)) /\ Placed(s, name, Len(a) + Len(b))
      /\ Placed(s, rest, Len(a) + Len(b) + Len(name))
  BY <1>1, <1>2, <1>4, <1>5, JoinedFour, Zenon
<1>7. s[1] = t /\ s[2] = White
  <2>1. /\ \A i \in 1 .. Len(a) : s[0 + i] = a[i]
        /\ \A i \in 1 .. Len(b) : s[Len(a) + i] = b[i]
    BY <1>6 DEF Placed
  <2>2. s[0 + 1] = t /\ s[1 + 1] = White
    BY <1>3, <2>1
  <2> QED
    BY <2>2
<1>8. /\ Len(a) + Len(b) = 2 /\ Len(a) + Len(b) + Len(name) = Len(name) + 2
      /\ Len(a) + Len(b) + Len(name) + Len(rest) = Len(name) + Len(rest) + 2
  <2> DEFINE n == Len(name)
             k == Len(rest)
  <2>1. n \in Nat /\ k \in Nat
    BY <1>5
  <2> HIDE DEF n, k
  <2>2. 1 + 1 = 2 /\ 1 + 1 + n = n + 2 /\ 1 + 1 + n + k = n + k + 2
    BY <2>1
  <2> QED
    BY <1>3, <2>2 DEF n, k
<1> QED
  BY <1>5, <1>6, <1>7, <1>8 DEF rest

(* What ends a name is not found before.                                   *)
LEMMA EndFound ==
  ASSUME NEW name \in Seq(Letters), NEW rest \in Seq(Letters), NEW s \in Seq(Letters),
         Len(s) = Len(name) + Len(rest) + 2, Placed(s, name, 2), Placed(s, rest, Len(name) + 2),
         NEW x \in Letters, Without(name, {<<x>>})
  PROVE  /\ Without(rest, {<<x>>}) => Matches(s, <<x>>, 3) = {}
         /\ rest = <<>> => Matches(s, <<x>>, 3) = {}
         /\ rest # <<>> /\ rest[1] = x => FoundAt(s, <<x>>, 3, Len(name) + 3)
<1> DEFINE n == Len(name)
           k == Len(rest)
<1>1. \A i \in 1 .. n : name[i] # x
  <2>1. Matches(name, <<x>>, 1) = {i \in 1 .. n : name[i] = x}
    BY SingleMatches
  <2>2. Matches(name, <<x>>, 1) = {}
    BY DEF Without
  <2> QED
    BY <2>1, <2>2
<1>2. Matches(rest, <<x>>, 1) = {i \in 1 .. k : rest[i] = x}
  BY SingleMatches
<1>3. Matches(s, <<x>>, 3) = {i \in 3 .. Len(s) : s[i] = x}
  BY SingleMatches
<1>4. /\ \A i \in 1 .. n : s[2 + i] = name[i]
      /\ \A i \in 1 .. k : s[n + 2 + i] = rest[i]
  BY DEF Placed
<1>5. n \in Nat /\ k \in Nat /\ Len(s) = n + k + 2
  OBVIOUS
<1>6. rest = <<>> <=> k = 0
  OBVIOUS
<1> HIDE DEF n, k
<1>7. \A i \in 3 .. n + 2 : s[i] # x
  <2> TAKE i \in 3 .. n + 2
  <2> DEFINE j == i - 2
  <2>1. j \in 1 .. n /\ 2 + j = i
    BY <1>5
  <2> HIDE DEF j
  <2> QED
    BY <1>1, <1>4, <2>1
<1>8. (\A i \in 1 .. k : rest[i] # x) => Matches(s, <<x>>, 3) = {}
  <2> SUFFICES ASSUME \A i \in 1 .. k : rest[i] # x, NEW i \in 3 .. Len(s), s[i] = x
               PROVE  FALSE
    BY <1>3
  <2>1. i >= n + 3
    BY <1>5, <1>7
  <2> DEFINE j == i - (n + 2)
  <2>2. j \in 1 .. k /\ n + 2 + j = i
    BY <1>5, <2>1
  <2> HIDE DEF j
  <2> QED
    BY <1>4, <2>2
<1>9. Without(rest, {<<x>>}) => Matches(s, <<x>>, 3) = {}
  <2>1. Without(rest, {<<x>>}) => Matches(rest, <<x>>, 1) = {}
    BY DEF Without
  <2> QED
    BY <1>2, <1>8, <2>1
<1>10. rest = <<>> => Matches(s, <<x>>, 3) = {}
  BY <1>6, <1>8
<1>11. ASSUME rest # <<>>, rest[1] = x
       PROVE  FoundAt(s, <<x>>, 3, n + 3)
  <2> DEFINE c == n + 3
  <2>1. c \in 3 .. Len(s) /\ n + 2 + 1 = c /\ 1 \in 1 .. k /\ c - 1 = n + 2
    BY <1>5, <1>6, <1>11
  <2>2. s[c] = x
    BY <1>4, <1>11, <2>1
  <2>3. \A i \in 3 .. c - 1 : s[i] # x
    BY <1>7, <2>1
  <2> HIDE DEF c
  <2>4. FoundAt(s, <<x>>, 3, c)
    <3>1. 3 \in Nat /\ 3 > 0
      OBVIOUS
    <3> QED
      BY <2>1, <2>2, <2>3, <3>1, FirstSingle, Zenon
  <2> QED
    BY <2>4 DEF c
<1> QED
  BY <1>9, <1>10, <1>11 DEF n

LEMMA VariableParsed ==
  ASSUME NEW s \in Seq(Letters), NEW t \in BasicTypes, NEW name \in Seq(Letters),
         IsVariable(s, t, name)
  PROVE  Parsed(s) = Object(name, <<t>>)
<1> DEFINE n == Len(name)
           rest == Rest(s, n + 3)
           k == Len(rest)
           equal == <<"=">>
           semicolon == <<";">>
<1>1. t \in Letters /\ "=" \in Letters /\ ";" \in Letters
  BY DEF Letters, Special
<1>2. Without(name, {equal}) /\ Without(name, {semicolon})
  BY DEF IsVariable, Without
<1>3. \/ rest = <<>>
      \/ rest # <<>> /\ rest[1] = "="
      \/ rest # <<>> /\ rest[1] = ";" /\ Without(rest, {equal})
  BY DEF IsVariable
<1>4. /\ Matches(s, <<"using", White>>, 1) = {} /\ Matches(s, <<"#include", White>>, 1) = {}
      /\ Matches(s, <<"function", White>>, 1) = {}
  BY DEF IsVariable, Without
<1>5. /\ rest \in Seq(Letters) /\ Len(s) = n + k + 2
      /\ s[1] = t /\ s[2] = White
      /\ Placed(s, name, 2) /\ Placed(s, rest, n + 2)
  BY <1>1, VariableParts, Zenon
<1> HIDE DEF rest
<1>6. n \in Nat /\ k \in Nat
  BY <1>5
<1>7. rest = <<>> => k = 0
  OBVIOUS
<1>8. SubSeq(s, 2 + 1, 2 + n) = name
  BY <1>5, PieceOut, Zenon
<1>9. /\ Without(rest, {equal}) => Matches(s, equal, 3) = {}
      /\ rest = <<>> => Matches(s, equal, 3) = {}
      /\ rest # <<>> /\ rest[1] = "=" => FoundAt(s, equal, 3, n + 3)
  BY <1>1, <1>2, <1>5, EndFound
<1>10. /\ rest = <<>> => Matches(s, semicolon, 3) = {}
       /\ rest # <<>> /\ rest[1] = ";" => FoundAt(s, semicolon, 3, n + 3)
  BY <1>1, <1>2, <1>5, EndFound
<1> HIDE DEF n, k
<1>11. rest = <<>> => Len(s) + 1 = n + 3
  BY <1>5, <1>6, <1>7
<1> DEFINE ends == IF Matches(s, equal, 3) # {} THEN {Find(s, equal, 3)}
                   ELSE IF Matches(s, semicolon, 3) # {} THEN {Find(s, semicolon, 3)}
                   ELSE {Len(s) + 1}
           end == CHOOSE e \in ends : TRUE
<1>12. Len(s) >= 2 /\ 2 + 1 = 3 /\ n + 3 - 1 = 2 + n
  BY <1>5, <1>6
<1>13. ParseVariable(s) = Object(SubSeq(s, 3, end - 1), <<s[1]>>)
  BY <1>5, <1>12 DEF ParseVariable
<1> HIDE DEF equal, semicolon
<1>14. ends = {n + 3}
  <2>1. CASE rest = <<>>
    BY <1>9, <1>10, <1>11, <2>1
  <2>2. CASE rest # <<>> /\ rest[1] = "="
    BY <1>9, <2>2 DEF FoundAt
  <2>3. CASE rest # <<>> /\ rest[1] = ";" /\ Without(rest, {equal})
    BY <1>9, <1>10, <2>3 DEF FoundAt
  <2> QED
    BY <1>3, <2>1, <2>2, <2>3
<1> HIDE DEF ends
<1>15. end = n + 3
  BY <1>14
<1> HIDE DEF end
<1>16. SubSeq(s, 3, end - 1) = name
  <2>1. end - 1 = 2 + n
    BY <1>6, <1>15
  <2> QED
    BY <1>8, <1>12, <2>1
<1>17. ParseVariable(s) = Object(name, <<t>>)
  BY <1>5, <1>13, <1>16
<1> QED
  BY <1>4, <1>17 DEF Parsed

-----------------------------------------------------------------------------
(* A declaration is stored as what it declares.                            *)
LEMMA DeclarationParsed ==
  ASSUME NEW s \in Texts, NEW what, Declares(s, what)
  PROVE  Parsed(s) = what
<1>1. \A t \in Texts : t \in Seq(Letters)
  BY TextsOfLetters
<1>2. CASE what.kind = "object"
  <2> DEFINE name == what.name
             path == Tail(what.class)
  <2>1. name \in Texts
    BY <1>2 DEF Declares
  <2>2. name \in Seq(Letters) /\ s \in Seq(Letters)
    BY <1>1, <2>1
  <2>3. path \in Seq(Letters)
    BY <1>1, <1>2 DEF Declares
  <2>4. \/ IsUsing(s, path, name) /\ what = Object(name, <<"SOURCE">> \o path)
        \/ IsInclude(s, name) /\ what = Object(name, <<"SEQUENCES">> \o name)
        \/ \E t \in BasicTypes : IsVariable(s, t, name) /\ what = Object(name, <<t>>)
    BY <1>2 DEF Declares
  <2> HIDE DEF name, path
  <2>5. CASE IsUsing(s, path, name) /\ what = Object(name, <<"SOURCE">> \o path)
    <3>1. Parsed(s) = Object(name, <<"SOURCE">> \o path)
      BY <2>2, <2>3, <2>5, UsingParsed, Zenon
    <3> QED
      BY <2>5, <3>1, Zenon
  <2>6. CASE IsInclude(s, name) /\ what = Object(name, <<"SEQUENCES">> \o name)
    <3>1. Parsed(s) = Object(name, <<"SEQUENCES">> \o name)
      BY <2>2, <2>6, IncludeParsed, Zenon
    <3> QED
      BY <2>6, <3>1, Zenon
  <2>7. CASE \E t \in BasicTypes : IsVariable(s, t, name) /\ what = Object(name, <<t>>)
    <3>1. PICK t \in BasicTypes : IsVariable(s, t, name) /\ what = Object(name, <<t>>)
      BY <2>7
    <3>2. Parsed(s) = Object(name, <<t>>)
      BY <2>2, <3>1, VariableParsed, Zenon
    <3> QED
      BY <3>1, <3>2, Zenon
  <2> QED
    BY <2>4, <2>5, <2>6, <2>7, Zenon
<1>3. CASE what.kind # "object"
  <2> DEFINE name == what.name
             params == what.params
             returns == what.returns
             f == [kind |-> "function", name |-> name, params |-> params, returns |-> returns]
  <2>1. {name, params, returns} \subseteq Texts /\ IsFunction(s, name, params, returns)
    BY <1>3 DEF Declares
  <2>2. what = f
    BY <1>3, Zenon DEF Declares
  <2>3. name \in Seq(Letters) /\ params \in Seq(Letters) /\ returns \in Seq(Letters)
    BY <1>1, <2>1
  <2> HIDE DEF name, params, returns
  <2>4. Parsed(s) = f
    BY <2>1, <2>3, FunctionParsed, Zenon
  <2> QED
    BY <2>2, <2>4, Zenon
<1> QED
  BY <1>2, <1>3

-----------------------------------------------------------------------------
(* The inductive invariant: how far each scanner is.  What the first one   *)
(* leaves is the line that the second one reads.                           *)
CommentSoFar(n) ==
  /\ CommentRead(comment, line, n)
  /\ ~Dangling(WithoutComment(line)) => CommentSeen(comment, line, n)

SpacesSoFar(n) ==
  /\ SpacesRead(spaces, comment.out, n)
  /\ \E f, b : Compacts(f, comment.out) /\ SpacesSeen(spaces, comment.out, f, n, b)

CommentDone ==
  /\ CommentRead(comment, line, Len(line))
  /\ ~Dangling(WithoutComment(line)) => comment.out = WithoutComment(line)

SpacesDone ==
  /\ SpacesRead(spaces, comment.out, Len(comment.out))
  /\ ~Swallows(comment.out) => spaces.out = Compact(comment.out)

IInv ==
  /\ line \in Seq(Characters)
  /\ pc \in {"RemoveComment", "RemoveSpaces", "Parsed"}
  /\ pos \in Nat /\ pos > 0
  /\ pc = "RemoveComment" =>
       pos <= Len(line) + 1 /\ CommentSoFar(pos - 1) /\ spaces = SpacesStart
  /\ pc # "RemoveComment" => pos <= Len(comment.out) + 1 /\ CommentDone
  /\ pc = "RemoveSpaces" => SpacesSoFar(pos - 1)
  /\ pc = "Parsed" => SpacesDone
  /\ ThrowsInTextOnly

LEMMA IInvInit == Init => IInv
<1> SUFFICES ASSUME Init PROVE IInv
  OBVIOUS
<1>1. line \in Seq(Characters)
  BY LinesAssumption DEF Init
<1>2. pos = 1 /\ pc = "RemoveComment" /\ spaces = SpacesStart /\ comment = CommentStart
      /\ stored = Nothing
  BY DEF Init
<1>3. /\ comment.out = <<>> /\ comment.slashes = 0 /\ ~comment.text
      /\ comment \in CommentState
  BY <1>2 DEF CommentStart, CommentState
<1>4. CommentRead(comment, line, 0)
  BY <1>3, OpenNone DEF CommentRead
<1>5. CommentSeen(comment, line, 0)
  <2>1. SubSeq(line, 1, 0) = <<>>
    BY SubSeqEmpty
  <2>2. \A k \in CommentAt(line) : k > 0
    BY CommentsOf
  <2> QED
    BY <1>3, <2>1, <2>2 DEF CommentSeen
<1>6. Nothing # Throws
  BY DEF Nothing, Throws
<1>7. pos - 1 = 0 /\ pos <= Len(line) + 1
  BY <1>1, <1>2
<1> QED
  BY <1>1, <1>2, <1>4, <1>5, <1>6, <1>7 DEF IInv, CommentSoFar, ThrowsInTextOnly

LEMMA SpacesBegun ==
  ASSUME comment.out \in Seq(Characters), spaces = SpacesStart
  PROVE  SpacesSoFar(0)
<1> DEFINE s == comment.out
<1>1. /\ spaces.out = <<>> /\ ~spaces.text /\ ~spaces.white /\ ~spaces.special
      /\ ~spaces.start /\ spaces \in SpacesState
  BY DEF SpacesStart, SpacesState
<1>2. SpacesRead(spaces, s, 0)
  BY <1>1, OpenNone DEF SpacesRead
<1>3. PICK f : Compacts(f, s)
  BY CompactSteps
<1>4. SpacesSeen(spaces, s, f, 0, 0)
  <2>1. f[0] = <<>> /\ ~LastSpecial(s, 0)
    BY <1>3 DEF Compacts, LastSpecial
  <2> QED
    BY <1>1, <2>1 DEF SpacesSeen
<1> QED
  BY <1>2, <1>3, <1>4 DEF SpacesSoFar

LEMMA IInvStep == IInv /\ [Next]_vars => IInv'
<1> SUFFICES ASSUME IInv, [Next]_vars PROVE IInv'
  OBVIOUS
<1>1. CASE RemoveComment
  <2> DEFINE n == pos - 1
  <2>1. /\ pc = "RemoveComment" /\ pos <= Len(line) /\ n \in Nat /\ n < Len(line)
        /\ n + 1 = pos /\ line \in Seq(Characters)
    BY <1>1 DEF RemoveComment, IInv
  <2>2. comment' = CommentStep(comment, line[n + 1])
    BY <1>1, <2>1 DEF RemoveComment
  <2>3. CommentSoFar(n) /\ spaces = SpacesStart
    BY <2>1 DEF IInv
  <2>4. /\ UNCHANGED <<line, spaces, stored, pc>> /\ pos' = pos + 1
        /\ pos \in Nat /\ pos > 0 /\ Len(line) \in Nat
    BY <1>1, <2>1 DEF RemoveComment, IInv
  <2> HIDE DEF n
  <2>5. CommentRead(comment', line, n + 1)
    BY <2>1, <2>2, <2>3, CommentReadStep DEF CommentSoFar
  <2>6. ~Dangling(WithoutComment(line)) => CommentSeen(comment', line, n + 1)
    BY <2>1, <2>2, <2>3, CommentSeenStep DEF CommentSoFar
  <2>7. CommentSoFar(pos - 1)'
    <3>1. (pos - 1)' = n + 1
      BY <2>1, <2>4
    <3> QED
      BY <2>4, <2>5, <2>6, <3>1 DEF CommentSoFar
  <2>8. pos' \in Nat /\ pos' > 0 /\ pos' <= Len(line) + 1
    BY <2>1, <2>4
  <2> QED
    BY <2>1, <2>3, <2>4, <2>7, <2>8 DEF IInv, ThrowsInTextOnly
<1>2. CASE CommentRemoved
  <2>1. /\ pc = "RemoveComment" /\ pos - 1 = Len(line) /\ line \in Seq(Characters)
        /\ CommentSoFar(pos - 1) /\ spaces = SpacesStart
    BY <1>2 DEF CommentRemoved, IInv
  <2>2. /\ pos' = 1 /\ pc' = "RemoveSpaces"
        /\ UNCHANGED <<line, comment, spaces, stored>>
    BY <1>2 DEF CommentRemoved
  <2>3. CommentDone
    BY <2>1, CommentSeenAll DEF CommentSoFar, CommentDone
  <2>4. comment.out \in Seq(Characters)
    BY <2>3 DEF CommentDone, CommentRead, CommentState
  <2>5. SpacesSoFar(0)
    BY <2>1, <2>4, SpacesBegun
  <2>6. CommentDone' /\ SpacesSoFar(0)'
    BY <2>2, <2>3, <2>5 DEF CommentDone, SpacesSoFar
  <2>7. (pos - 1)' = 0 /\ (pos <= Len(comment.out) + 1)'
    BY <2>2, <2>4
  <2> QED
    BY <2>1, <2>2, <2>6, <2>7 DEF IInv, ThrowsInTextOnly
<1>3. CASE RemoveSpaces
  <2> DEFINE n == pos - 1
             s == comment.out
  <2>1. /\ pc = "RemoveSpaces" /\ pos <= Len(s) /\ pos \in Nat /\ pos > 0
        /\ line \in Seq(Characters) /\ CommentDone /\ SpacesSoFar(n)
    BY <1>3 DEF RemoveSpaces, IInv
  <2>2. s \in Seq(Characters) /\ Len(s) \in Nat
    <3>1. s \in Seq(Characters)
      BY <2>1 DEF CommentDone, CommentRead, CommentState
    <3> QED
      BY <3>1
  <2>3. n \in Nat /\ n < Len(s) /\ n + 1 = pos
    BY <2>1, <2>2
  <2>4. spaces' = SpacesStep(spaces, s[n + 1])
    BY <1>3, <2>3 DEF RemoveSpaces
  <2>5. UNCHANGED <<line, comment, stored, pc>> /\ pos' = pos + 1
    BY <1>3 DEF RemoveSpaces
  <2>6. PICK f, b : SpacesRead(spaces, s, n) /\ Compacts(f, s) /\ SpacesSeen(spaces, s, f, n, b)
    BY <2>1 DEF SpacesSoFar
  <2> HIDE DEF n, s
  <2>7. SpacesRead(spaces', s, n + 1)
    BY <2>2, <2>3, <2>4, <2>6, SpacesReadStep
  <2>8. \E a : SpacesSeen(spaces', s, f, n + 1, a)
    BY <2>2, <2>3, <2>4, <2>6, SpacesSeenStep
  <2>9. SpacesSoFar(pos - 1)'
    <3>1. s = comment.out' /\ (pos - 1)' = n + 1
      BY <2>1, <2>3, <2>5 DEF s
    <3>2. \E g, a : Compacts(g, s) /\ SpacesSeen(spaces', s, g, n + 1, a)
      BY <2>6, <2>8
    <3> QED
      BY <2>7, <3>1, <3>2 DEF SpacesSoFar
  <2>10. (pos - 1)' = n + 1 /\ pos' \in Nat /\ pos' > 0 /\ pos' <= Len(s) + 1
    BY <2>1, <2>2, <2>3, <2>5
  <2>11. CommentDone' /\ s = comment.out'
    BY <2>1, <2>5 DEF CommentDone, s
  <2> QED
    BY <2>1, <2>5, <2>9, <2>10, <2>11 DEF IInv, ThrowsInTextOnly
<1>4. CASE ParseLine
  <2> DEFINE s == comment.out
  <2>1. /\ pc = "RemoveSpaces" /\ pos \in Nat /\ pos > 0 /\ pos <= Len(s) + 1 /\ pos > Len(s)
        /\ line \in Seq(Characters) /\ CommentDone /\ SpacesSoFar(pos - 1)
    BY <1>4 DEF ParseLine, IInv
  <2>2. s \in Seq(Characters) /\ Len(s) \in Nat
    <3>1. s \in Seq(Characters)
      BY <2>1 DEF CommentDone, CommentRead, CommentState
    <3> QED
      BY <3>1
  <2>3. pos - 1 = Len(s)
    BY <2>1, <2>2
  <2>4. /\ stored' = Parsed(spaces.out) /\ pc' = "Parsed"
        /\ UNCHANGED <<line, pos, comment, spaces>>
    BY <1>4 DEF ParseLine
  <2>5. PICK f, b : /\ SpacesRead(spaces, s, Len(s)) /\ Compacts(f, s)
                    /\ SpacesSeen(spaces, s, f, Len(s), b)
    BY <2>1, <2>3 DEF SpacesSoFar
  <2>6. ~Swallows(s) => spaces.out = Compact(s)
    BY <2>2, <2>5, SpacesSeenAll, CompactUnlessSwallowed
  <2>7. SpacesDone' /\ CommentDone'
    BY <2>1, <2>4, <2>5, <2>6 DEF SpacesDone, CommentDone
  <2>8. ThrowsInTextOnly'
    <3> SUFFICES ASSUME stored' = Throws PROVE Open(line, Len(line))
      BY <2>4 DEF ThrowsInTextOnly
    <3>1. spaces.out \in Seq(Characters)
      BY <2>5 DEF SpacesRead, SpacesState
    <3>2. spaces.out # <<>> /\ spaces.out[Len(spaces.out)] = White
      BY <2>4, <3>1, ThrowsAfterBlank
    <3>3. Open(s, Len(s))
      BY <2>5, <3>2 DEF SpacesRead
    <3>4. CommentRead(comment, line, Len(line))
      BY <2>1 DEF CommentDone
    <3> QED
      BY <3>3, <3>4 DEF CommentRead
  <2> QED
    BY <2>1, <2>4, <2>7, <2>8 DEF IInv
<1>5. CASE UNCHANGED vars
  BY <1>5 DEF vars, IInv, CommentSoFar, SpacesSoFar, CommentDone, SpacesDone, ThrowsInTextOnly
<1> QED
  BY <1>1, <1>2, <1>3, <1>4, <1>5 DEF Next

LEMMA IInvAlways == Spec => []IInv
BY IInvInit, IInvStep, PTL DEF Spec

(* The counters of the scanners keep to the few values that their tests    *)
(* tell apart, and a scanner writes no more than it has read.              *)
THEOREM TypeCorrect == Spec => []TypeOK
<1>1. IInv => TypeOK
  <2> SUFFICES ASSUME IInv PROVE TypeOK
    OBVIOUS
  <2>1. /\ line \in Seq(Characters) /\ Len(line) \in Nat /\ pos \in Nat /\ pos > 0
        /\ pc \in {"RemoveComment", "RemoveSpaces", "Parsed"}
    BY DEF IInv
  <2>2. CASE pc = "RemoveComment"
    <3>1. /\ pos <= Len(line) + 1 /\ CommentRead(comment, line, pos - 1)
          /\ spaces = SpacesStart
      BY <2>2 DEF IInv, CommentSoFar
    <3>2. /\ comment.text \in BOOLEAN /\ comment.slashes \in 0 .. 2
          /\ comment.out \in Seq(Characters) /\ Len(comment.out) <= pos - 1
      BY <3>1 DEF CommentRead, CommentState
    <3>3. /\ \A flag \in {"text", "white", "special", "start"} : spaces[flag] \in BOOLEAN
          /\ spaces.out = <<>>
      BY <3>1 DEF SpacesStart
    <3> QED
      BY <2>1, <2>2, <3>1, <3>2, <3>3 DEF TypeOK
  <2>3. CASE pc # "RemoveComment"
    <3>1. pos <= Len(comment.out) + 1 /\ CommentRead(comment, line, Len(line))
      BY <2>3 DEF IInv, CommentDone
    <3>2. /\ comment.text \in BOOLEAN /\ comment.slashes \in 0 .. 2
          /\ comment.out \in Seq(Characters) /\ Len(comment.out) <= Len(line)
      BY <3>1 DEF CommentRead, CommentState
    <3>3. \E n \in Nat : n <= Len(comment.out) /\ SpacesRead(spaces, comment.out, n)
      <4>1. CASE pc = "RemoveSpaces"
        <5>1. SpacesRead(spaces, comment.out, pos - 1)
          BY <4>1 DEF IInv, SpacesSoFar
        <5>2. pos - 1 \in Nat /\ pos - 1 <= Len(comment.out)
          BY <2>1, <3>1, <3>2
        <5> QED
          BY <5>1, <5>2
      <4>2. CASE pc = "Parsed"
        BY <3>2, <4>2 DEF IInv, SpacesDone
      <4> QED
        BY <2>1, <2>3, <4>1, <4>2
    <3>4. spaces \in SpacesState /\ Len(spaces.out) <= Len(comment.out)
      BY <3>2, <3>3 DEF SpacesRead, SpacesState
    <3>5. \A flag \in {"text", "white", "special", "start"} : spaces[flag] \in BOOLEAN
      BY <3>4 DEF SpacesState
    <3> QED
      BY <2>1, <3>1, <3>2, <3>4, <3>5 DEF TypeOK
  <2> QED
    BY <2>2, <2>3
<1> QED
  BY <1>1, IInvAlways, PTL

(* RemoveComment takes the comment away and nothing else, from every line  *)
(* without a single slash right before a text or at its end.               *)
THEOREM CommentsAlwaysRemoved == Spec => []CommentsRemoved
<1>1. IInv => CommentsRemoved
  BY DEF IInv, CommentDone, CommentsRemoved
<1> QED
  BY <1>1, IInvAlways, PTL

(* RemoveSpaces takes just the blanks away that are double, or before or   *)
(* after a special character, from every line without a blank to keep      *)
(* behind a text that follows a special character.                         *)
THEOREM SpacesAlwaysRemoved == Spec => []SpacesRemoved
<1>1. IInv => SpacesRemoved
  BY DEF IInv, SpacesDone, SpacesRemoved
<1> QED
  BY <1>1, IInvAlways, PTL

(* ParseLine throws for no line but one that ends inside a text.           *)
THEOREM ThrowsAlwaysInText == Spec => []ThrowsInTextOnly
<1>1. IInv => ThrowsInTextOnly
  BY DEF IInv
<1> QED
  BY <1>1, IInvAlways, PTL

(* The line stays the one chosen, and what is stored is what it parses to. *)
Chosen ==
  /\ \E l \in Lines : line = l.text /\ meant = l.meant
  /\ pc = "Parsed" => stored = Parsed(spaces.out)

LEMMA ChosenAlways == Spec => []Chosen
<1>1. Init => Chosen
  BY DEF Init, Chosen
<1>2. Chosen /\ [Next]_vars => Chosen'
  <2> SUFFICES ASSUME Chosen, [Next]_vars PROVE Chosen'
    OBVIOUS
  <2>1. UNCHANGED <<line, meant>>
    BY DEF Next, RemoveComment, CommentRemoved, RemoveSpaces, ParseLine, vars
  <2>2. (pc = "Parsed" => stored = Parsed(spaces.out))'
    BY DEF Chosen, Next, RemoveComment, CommentRemoved, RemoveSpaces, ParseLine, vars
  <2> QED
    BY <2>1, <2>2 DEF Chosen
<1> QED
  BY <1>1, <1>2, PTL DEF Spec

(* However it is spaced and commented, a line that declares an object, an  *)
(* include, a function or a variable is stored as what it declares: of     *)
(* names, paths and parameters of any length, and whatever the other lines *)
(* are.                                                                    *)
THEOREM DeclarationsAlwaysParsed ==
  ASSUME \A l \in Lines : l.meant # Anything => IsDeclaration(l)
  PROVE  Spec => []ParsedAsMeant
<1>1. IInv /\ Chosen => ParsedAsMeant
  <2> SUFFICES ASSUME IInv, Chosen, pc = "Parsed", meant # Anything
               PROVE  stored = meant
    BY DEF ParsedAsMeant
  <2>1. PICK l \in Lines : line = l.text /\ meant = l.meant
    BY DEF Chosen
  <2>2. /\ ~Dangling(WithoutComment(line)) /\ ~Swallows(WithoutComment(line))
        /\ Declares(Compact(WithoutComment(line)), meant)
    BY <2>1 DEF IsDeclaration
  <2>3. CommentDone /\ SpacesDone
    BY DEF IInv
  <2>4. comment.out = WithoutComment(line)
    BY <2>2, <2>3 DEF CommentDone
  <2>5. spaces.out = Compact(comment.out)
    BY <2>2, <2>3, <2>4 DEF SpacesDone
  <2>6. spaces.out \in Texts
    BY <2>3 DEF SpacesDone, SpacesRead, SpacesState, Texts
  <2>7. Declares(spaces.out, meant)
    BY <2>2, <2>4, <2>5
  <2>8. Parsed(spaces.out) = meant
    BY <2>6, <2>7, DeclarationParsed
  <2> QED
    BY <2>8 DEF Chosen
<1> QED
  BY <1>1, IInvAlways, ChosenAlways, PTL
=============================================================================
