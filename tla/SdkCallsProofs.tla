-------------------------- MODULE SdkCallsProofs --------------------------
(***************************************************************************)
(* Proofs about the stream redactor and the governed calls of the SDK, for *)
(* texts of every length, cut into deltas in every way, every window and   *)
(* length of an entity, and every setting, failure and retry.              *)
(***************************************************************************)
EXTENDS SdkCalls, FiniteSetTheorems, SequenceTheorems, WellFoundedInduction, TLAPS

(***************************************************************************)
(* Induction over texts: a set with the empty sequence that is closed      *)
(* under appending holds every sequence.                                   *)
(***************************************************************************)
\* A set of natural numbers has a least one
LEMMA LeastOf ==
    ASSUME NEW T, T \in SUBSET Nat, T # {}
    PROVE  \E m \in T : \A k \in T : m <= k
<1> DEFINE R == OpToRel(<, Nat)
<1>1. IsWellFoundedOn(R, Nat)
  BY NatLessThanWellFounded
<1>2. \A x, y \in Nat : <<x, y>> \in R <=> x < y
  BY DEF OpToRel
<1> HIDE DEF R
<1>3. PICK x \in T : \A y \in T : ~(<<y, x>> \in R)
  BY <1>1, WFMin
<1>4. \A y \in T : y \in Nat /\ x \in Nat /\ ~(y < x)
  BY <1>3, <1>2
<1> QED
  BY <1>4

LEMMA ByAppending ==
    ASSUME NEW S, NEW G, <<>> \in G, \A s \in G, c \in S : Append(s, c) \in G
    PROVE  \A s \in Seq(S) : s \in G
<1> SUFFICES ASSUME NEW t \in Seq(S), t \notin G PROVE FALSE
  OBVIOUS
<1> DEFINE Bad == {n \in Nat : \E s \in Seq(S) : Len(s) = n /\ s \notin G}
<1>1. Len(t) \in Bad
  OBVIOUS
<1>2. PICK n \in Bad : \A k \in Bad : n <= k
  <2>1. Bad \in SUBSET Nat /\ Bad # {}
    BY <1>1
  <2> QED
    BY <2>1, LeastOf
<1>3. PICK s \in Seq(S) : Len(s) = n /\ s \notin G
  BY <1>2
<1>4. s # <<>>
  BY <1>3
<1>5. PICK r \in Seq(S), c \in S : s = Append(r, c)
  BY <1>4, SequenceEmptyOrAppend
<1>6. Len(r) = n - 1 /\ Len(r) \in Nat /\ n \in Nat
  BY <1>5, <1>3, <1>2, AppendProperties
<1>7. r \notin G
  BY <1>5, <1>3
<1>8. Len(r) \in Bad
  BY <1>6, <1>7
<1> QED
  BY <1>8, <1>6, <1>2

(***************************************************************************)
(* What the marks of a text leave.                                         *)
(***************************************************************************)
Mark == Char \cup {"", OMISSIS}
Letter == Char \cup {OMISSIS}

StepOf(marks, s, n) ==
    IF n = 0 THEN <<>>
    ELSE IF marks[n] = "" THEN s[n - 1] ELSE Append(s[n - 1], marks[n])
IsUpto(marks, s) == s = [n \in 0..Len(marks) |-> StepOf(marks, s, n)]

LEMMA UptoExists ==
    ASSUME NEW marks, Len(marks) \in Nat
    PROVE  \E s : IsUpto(marks, s)
<1> DEFINE P(k) == \E s : s = [n \in 0..k |-> StepOf(marks, s, n)]
           Bad == {k \in Nat : ~P(k)}
<1> SUFFICES Bad = {}
  BY DEF IsUpto
<1> SUFFICES ASSUME Bad # {} PROVE FALSE
  OBVIOUS
<1>1. PICK m \in Bad : \A k \in Bad : m <= k
  <2>1. Bad \in SUBSET Nat
    OBVIOUS
  <2> QED
    BY <2>1, LeastOf
<1>2. m \in Nat /\ ~P(m)
  BY <1>1
<1>3. m # 0
  <2> DEFINE s == [n \in 0..0 |-> <<>>]
  <2>1. s = [n \in 0..0 |-> StepOf(marks, s, n)]
    <3>1. \A n \in 0..0 : n = 0
      OBVIOUS
    <3>2. \A n \in 0..0 : StepOf(marks, s, n) = <<>>
      BY <3>1 DEF StepOf
    <3> QED
      BY <3>2
  <2>2. P(0)
    BY <2>1
  <2> QED
    BY <1>2, <2>2
<1>4. P(m - 1)
  <2>1. m - 1 \in Nat /\ ~(m <= m - 1)
    BY <1>2, <1>3
  <2>2. m - 1 \notin Bad
    BY <2>1, <1>1
  <2> QED
    BY <2>1, <2>2
<1>5. PICK s : s = [n \in 0..(m - 1) |-> StepOf(marks, s, n)]
  BY <1>4
<1> DEFINE t == [n \in 0..m |-> StepOf(marks, s, n)]
<1>6. \A n \in 0..(m - 1) : t[n] = s[n]
  BY <1>5, <1>2, <1>3
<1>7. \A n \in 0..m : StepOf(marks, t, n) = StepOf(marks, s, n)
  <2> SUFFICES ASSUME NEW n \in 0..m PROVE StepOf(marks, t, n) = StepOf(marks, s, n)
    OBVIOUS
  <2> HIDE DEF t
  <2>1. n = 0 \/ n - 1 \in 0..(m - 1)
    BY <1>2
  <2> QED
    BY <2>1, <1>6 DEF StepOf
<1>8. t = [n \in 0..m |-> StepOf(marks, t, n)]
  BY <1>7
<1> QED
  BY <1>8, <1>2

LEMMA WrittenIs ==
    ASSUME NEW marks, Len(marks) \in Nat
    PROVE  \E s : IsUpto(marks, s) /\ Written(marks) = s[Len(marks)]
<1> DEFINE s == CHOOSE s : IsUpto(marks, s)
<1>1. IsUpto(marks, s)
  BY UptoExists
<1>2. Written(marks) = s[Len(marks)]
  BY DEF Written, IsUpto, StepOf
<1> QED
  BY <1>1, <1>2

LEMMA UptoAgrees ==
    ASSUME NEW marks, NEW more, NEW s, NEW t, Len(marks) \in Nat, Len(more) \in Nat,
           IsUpto(marks, s), IsUpto(more, t), Len(marks) <= Len(more),
           \A i \in 1..Len(marks) : marks[i] = more[i]
    PROVE  \A n \in 0..Len(marks) : s[n] = t[n]
<1> DEFINE Bad == {n \in 0..Len(marks) : s[n] # t[n]}
<1> SUFFICES ASSUME Bad # {} PROVE FALSE
  OBVIOUS
<1>1. PICK n \in Bad : \A k \in Bad : n <= k
  <2>1. Bad \in SUBSET Nat
    OBVIOUS
  <2> QED
    BY <2>1, LeastOf
<1>2. n \in 0..Len(marks) /\ n \in 0..Len(more) /\ s[n] # t[n]
  BY <1>1
<1>3. s[n] = StepOf(marks, s, n) /\ t[n] = StepOf(more, t, n)
  BY <1>2 DEF IsUpto
<1>4. n # 0
  BY <1>2, <1>3 DEF StepOf
<1>5. n - 1 \in 0..Len(marks) /\ ~(n <= n - 1) /\ n \in 1..Len(marks)
  BY <1>2, <1>4
<1>6. s[n - 1] = t[n - 1]
  BY <1>5, <1>1
<1>7. marks[n] = more[n]
  BY <1>5
<1>8. StepOf(marks, s, n) = StepOf(more, t, n)
  BY <1>6, <1>7 DEF StepOf
<1> QED
  BY <1>2, <1>3, <1>8

LEMMA WrittenEmpty == Written(<<>>) = <<>>
<1>1. Len(<<>>) = 0
  OBVIOUS
<1>2. PICK s : IsUpto(<<>>, s) /\ Written(<<>>) = s[0]
  BY <1>1, WrittenIs
<1> QED
  BY <1>1, <1>2 DEF IsUpto, StepOf

LEMMA WrittenAppend ==
    ASSUME NEW marks \in Seq(Mark), NEW c \in Mark
    PROVE  Written(Append(marks, c)) =
             IF c = "" THEN Written(marks) ELSE Append(Written(marks), c)
<1> DEFINE more == Append(marks, c)
           m == Len(marks)
<1>1. /\ more \in Seq(Mark) /\ Len(more) = m + 1 /\ m \in Nat /\ more[m + 1] = c
      /\ \A i \in 1..m : marks[i] = more[i]
  BY AppendProperties
<1> HIDE DEF more
<1>2. PICK s : IsUpto(marks, s) /\ Written(marks) = s[m]
  BY <1>1, WrittenIs
<1>3. PICK t : IsUpto(more, t) /\ Written(more) = t[m + 1]
  <2>1. Len(more) \in Nat
    BY <1>1
  <2> QED
    BY <1>1, <2>1, WrittenIs
<1>4. s[m] = t[m]
  <2>1. Len(more) \in Nat /\ Len(marks) <= Len(more) /\ m \in 0..Len(marks)
    BY <1>1
  <2> QED
    BY <2>1, <1>1, <1>2, <1>3, UptoAgrees
<1>5. t[m + 1] = StepOf(more, t, m + 1)
  BY <1>1, <1>3 DEF IsUpto
<1>6. m + 1 # 0 /\ (m + 1) - 1 = m
  BY <1>1
<1>7. t[m + 1] = IF c = "" THEN t[m] ELSE Append(t[m], c)
  BY <1>5, <1>6, <1>1 DEF StepOf
<1> QED
  BY <1>2, <1>3, <1>4, <1>7 DEF more

\* Sequences joined at their ends
LEMMA ConcatAppend ==
    ASSUME NEW S, NEW a \in Seq(S), NEW b \in Seq(S), NEW c \in S
    PROVE  a \o Append(b, c) = Append(a \o b, c) /\ Append(b, c) = b \o <<c>>
<1>1. Append(b, c) = b \o <<c>> /\ Append(a \o b, c) = (a \o b) \o <<c>>
  BY ConcatProperties, AppendIsConcat
<1>2. <<c>> \in Seq(S)
  OBVIOUS
<1> QED
  BY <1>1, <1>2, ConcatAssociative

LEMMA WrittenType == \A marks \in Seq(Mark) : Written(marks) \in Seq(Letter)
<1> DEFINE G == {s \in Seq(Mark) : Written(s) \in Seq(Letter)}
<1>1. <<>> \in G
  BY WrittenEmpty, EmptySeq
<1>2. \A s \in G, c \in Mark : Append(s, c) \in G
  <2> SUFFICES ASSUME NEW s \in Seq(Mark), Written(s) \in Seq(Letter), NEW c \in Mark
               PROVE  Append(s, c) \in Seq(Mark) /\ Written(Append(s, c)) \in Seq(Letter)
    OBVIOUS
  <2>1. Append(s, c) \in Seq(Mark)
    BY AppendProperties
  <2>2. c = "" \/ c \in Letter
    BY DEF Mark, Letter
  <2>3. c \in Letter => Append(Written(s), c) \in Seq(Letter)
    BY AppendProperties
  <2>4. Written(Append(s, c)) = IF c = "" THEN Written(s) ELSE Append(Written(s), c)
    BY WrittenAppend
  <2> QED
    BY <2>1, <2>2, <2>3, <2>4
<1> HIDE DEF G
<1>3. \A s \in Seq(Mark) : s \in G
  BY <1>1, <1>2, ByAppending
<1> QED
  BY <1>3 DEF G

\* The marks of two texts leave what each leaves
LEMMA WrittenConcat ==
    \A a \in Seq(Mark), b \in Seq(Mark) : Written(a \o b) = Written(a) \o Written(b)
<1> SUFFICES ASSUME NEW a \in Seq(Mark)
             PROVE  \A b \in Seq(Mark) : Written(a \o b) = Written(a) \o Written(b)
  OBVIOUS
<1> DEFINE G == {s \in Seq(Mark) : Written(a \o s) = Written(a) \o Written(s)}
<1>1. <<>> \in G
  <2>1. a \o <<>> = a
    BY ConcatEmptySeq
  <2>2. Written(a) \o <<>> = Written(a)
    BY WrittenType, ConcatEmptySeq
  <2>3. Written(a \o <<>>) = Written(a) \o Written(<<>>)
    BY <2>1, <2>2, WrittenEmpty
  <2> QED
    BY <2>3, EmptySeq
<1>2. \A s \in G, c \in Mark : Append(s, c) \in G
  <2> SUFFICES ASSUME NEW s \in Seq(Mark), Written(a \o s) = Written(a) \o Written(s),
                      NEW c \in Mark
               PROVE  /\ Append(s, c) \in Seq(Mark)
                      /\ Written(a \o Append(s, c)) = Written(a) \o Written(Append(s, c))
    OBVIOUS
  <2>1. Append(s, c) \in Seq(Mark) /\ a \o s \in Seq(Mark)
    BY AppendProperties, ConcatProperties
  <2>2. a \o Append(s, c) = Append(a \o s, c)
    BY ConcatAppend
  <2>3. Written(Append(a \o s, c)) = IF c = "" THEN Written(a \o s) ELSE Append(Written(a \o s), c)
    BY <2>1, WrittenAppend
  <2>4. Written(Append(s, c)) = IF c = "" THEN Written(s) ELSE Append(Written(s), c)
    BY WrittenAppend
  <2>5. CASE c = ""
    BY <2>1, <2>2, <2>3, <2>4, <2>5
  <2>6. CASE c # ""
    <3>1. c \in Letter /\ Written(a) \in Seq(Letter) /\ Written(s) \in Seq(Letter)
      BY <2>6, WrittenType DEF Mark, Letter
    <3>2. Written(a) \o Append(Written(s), c) = Append(Written(a) \o Written(s), c)
      BY <3>1, ConcatAppend
    <3> QED
      BY <2>1, <2>2, <2>3, <2>4, <2>6, <3>2
  <2> QED
    BY <2>5, <2>6
<1> HIDE DEF G
<1>3. \A s \in Seq(Mark) : s \in G
  BY <1>1, <1>2, ByAppending
<1> QED
  BY <1>3 DEF G

\* Marks that all leave something are what is left
LEMMA WrittenWhole == \A marks \in Seq(Letter) : Written(marks) = marks
<1> DEFINE G == {s \in Seq(Letter) : Written(s) = s}
<1>1. <<>> \in G
  BY WrittenEmpty
<1>2. \A s \in G, c \in Letter : Append(s, c) \in G
  <2> SUFFICES ASSUME NEW s \in Seq(Letter), Written(s) = s, NEW c \in Letter
               PROVE  Append(s, c) \in Seq(Letter) /\ Written(Append(s, c)) = Append(s, c)
    OBVIOUS
  <2>1. Append(s, c) \in Seq(Letter)
    BY AppendProperties
  <2>2. c # "" /\ c \in Mark /\ Letter \subseteq Mark
    BY DEF Letter, Mark, Char, OMISSIS, Plain, Digit, Term, Stop
  <2>3. s \in Seq(Mark)
    BY <2>2, SeqMonotonic
  <2> QED
    BY <2>1, <2>2, <2>3, WrittenAppend
<1> HIDE DEF G
<1>3. \A s \in Seq(Letter) : s \in G
  BY <1>1, <1>2, ByAppending
<1> QED
  BY <1>3 DEF G

\* Marks that leave nothing leave nothing
LEMMA WrittenNone == \A marks \in Seq({""}) : Written(marks) = <<>>
<1> DEFINE G == {s \in Seq({""}) : Written(s) = <<>>}
<1>1. <<>> \in G
  BY WrittenEmpty
<1>2. \A s \in G, c \in {""} : Append(s, c) \in G
  <2> SUFFICES ASSUME NEW s \in Seq({""}), Written(s) = <<>>
               PROVE  Append(s, "") \in Seq({""}) /\ Written(Append(s, "")) = <<>>
    OBVIOUS
  <2>1. Append(s, "") \in Seq({""})
    BY AppendProperties
  <2>2. "" \in Mark /\ {""} \subseteq Mark
    BY DEF Mark
  <2>3. s \in Seq(Mark)
    BY <2>2, SeqMonotonic
  <2> QED
    BY <2>1, <2>2, <2>3, WrittenAppend
<1> HIDE DEF G
<1>3. \A s \in Seq({""}) : s \in G
  BY <1>1, <1>2, ByAppending
<1> QED
  BY <1>3 DEF G

(***************************************************************************)
(* Two texts one after the other.  They are apart for a kind of character  *)
(* when no stretch of it runs from one into the other; then what is found  *)
(* in the whole is what is found in each.                                  *)
(***************************************************************************)
Apart(a, c, kind) == ~(/\ Len(a) > 0 /\ a[Len(a)] \in kind
                       /\ Len(c) > 0 /\ c[1] \in kind)
Good(a, c, sentences) == /\ Apart(a, c, {Digit})
                         /\ sentences => Apart(a, c, Char \ {Stop})

Place == Nat \ {0}
\* The spans T are those of A and, moved by n, those of C
Parts(T, A, C, n) ==
    /\ T \subseteq Place \X Place /\ A \subseteq Place \X Place /\ C \subseteq Place \X Place
    /\ \A i, j \in Place : <<i, j>> \in T <=>
          <<i, j>> \in A \/ (i > n /\ j > n /\ <<i - n, j - n>> \in C)
    /\ \A i, j \in Place : <<i, j>> \in A => i <= j /\ j <= n

\* Reading a text that is two
LEMMA Joined ==
    ASSUME NEW a \in Seq(Char), NEW c \in Seq(Char)
    PROVE  /\ a \o c \in Seq(Char) /\ Len(a \o c) = Len(a) + Len(c)
           /\ Len(a) \in Nat /\ Len(c) \in Nat
           /\ \A i \in 1..Len(a) : (a \o c)[i] = a[i]
           /\ \A i \in Place : i > Len(a) => (a \o c)[i] = c[i - Len(a)] \/ i > Len(a) + Len(c)
<1>1. /\ a \o c \in Seq(Char) /\ Len(a \o c) = Len(a) + Len(c)
      /\ \A i \in 1 .. Len(a) + Len(c) : (a \o c)[i] = IF i <= Len(a) THEN a[i] ELSE c[i - Len(a)]
  BY ConcatProperties
<1>2. Len(a) \in Nat /\ Len(c) \in Nat
  BY LenProperties
<1> QED
  BY <1>1, <1>2 DEF Place

LEMMA StretchIs ==
    ASSUME NEW t \in Seq(Char), NEW kind, NEW i \in Place, NEW j \in Place
    PROVE  <<i, j>> \in Stretches(t, kind) <=>
             /\ i <= j /\ j <= Len(t)
             /\ \A m \in i..j : t[m] \in kind
             /\ i = 1 \/ t[i - 1] \notin kind
             /\ j = Len(t) \/ t[j + 1] \notin kind
<1>1. Len(t) \in Nat
  BY LenProperties
<1>2. <<i, j>> \in (1..Len(t)) \X (1..Len(t)) <=> i <= Len(t) /\ j <= Len(t)
  BY <1>1 DEF Place
<1>3. <<i, j>>[1] = i /\ <<i, j>>[2] = j
  OBVIOUS
<1>4. <<i, j>> \in Stretches(t, kind) <=>
             /\ <<i, j>> \in (1..Len(t)) \X (1..Len(t))
             /\ i <= j
             /\ \A m \in i..j : t[m] \in kind
             /\ i = 1 \/ t[i - 1] \notin kind
             /\ j = Len(t) \/ t[j + 1] \notin kind
  BY DEF Stretches
<1> QED
  BY <1>1, <1>2, <1>4 DEF Place

LEMMA StretchesType ==
    ASSUME NEW t \in Seq(Char), NEW kind
    PROVE  Stretches(t, kind) \subseteq Place \X Place /\ IsFiniteSet(Stretches(t, kind))
<1>1. Len(t) \in Nat
  BY LenProperties
<1>2. Stretches(t, kind) \subseteq (1..Len(t)) \X (1..Len(t))
  BY DEF Stretches
<1>3. (1..Len(t)) \subseteq Place
  BY <1>1 DEF Place
<1>4. IsFiniteSet(1..Len(t))
  BY <1>1, FS_Interval
<1>5. IsFiniteSet((1..Len(t)) \X (1..Len(t)))
  BY <1>4, FS_Product
<1> QED
  BY <1>2, <1>3, <1>5, FS_Subset

LEMMA StretchesParts ==
    ASSUME NEW a \in Seq(Char), NEW c \in Seq(Char), NEW kind, Apart(a, c, kind)
    PROVE  Parts(Stretches(a \o c, kind), Stretches(a, kind), Stretches(c, kind), Len(a))
<1> DEFINE t == a \o c
           n == Len(a)
<1>1. /\ t \in Seq(Char) /\ Len(t) = n + Len(c) /\ n \in Nat /\ Len(c) \in Nat
      /\ \A i \in 1..n : t[i] = a[i]
      /\ \A i \in Place : i > n => t[i] = c[i - n] \/ i > Len(t)
  BY Joined
<1>2. n > 0 /\ Len(c) > 0 => a[n] \notin kind \/ c[1] \notin kind
  BY DEF Apart
<1> HIDE DEF t, n
<1>3. ASSUME NEW i \in Place, NEW j \in Place
      PROVE  /\ <<i, j>> \in Stretches(a, kind) => i <= j /\ j <= n
             /\ j <= n => (<<i, j>> \in Stretches(t, kind) <=> <<i, j>> \in Stretches(a, kind))
  <2>1. <<i, j>> \in Stretches(a, kind) <=>
             /\ i <= j /\ j <= n
             /\ \A m \in i..j : a[m] \in kind
             /\ i = 1 \/ a[i - 1] \notin kind
             /\ j = n \/ a[j + 1] \notin kind
    BY StretchIs DEF n
  <2>2. <<i, j>> \in Stretches(t, kind) <=>
             /\ i <= j /\ j <= Len(t)
             /\ \A m \in i..j : t[m] \in kind
             /\ i = 1 \/ t[i - 1] \notin kind
             /\ j = Len(t) \/ t[j + 1] \notin kind
    BY StretchIs, <1>1
  <2>3. CASE i <= j /\ j <= n
    <3>1. \A m \in i..j : t[m] = a[m]
      BY <1>1, <2>3 DEF Place
    <3>2. i # 1 => t[i - 1] = a[i - 1]
      BY <1>1, <2>3 DEF Place
    <3>3. j < n => t[j + 1] = a[j + 1] /\ j # Len(t)
      BY <1>1, <2>3 DEF Place
    <3>4. j = n /\ j # Len(t) => t[j + 1] = c[1] /\ Len(c) > 0 /\ n > 0
      BY SMTT(40), <1>1, <2>3 DEF Place
    <3>5. j \in i..j /\ j <= Len(t)
      BY <1>1, <2>3 DEF Place
    <3>8. (\A m \in i..j : t[m] \in kind) <=> (\A m \in i..j : a[m] \in kind)
      BY <3>1
    <3>9. (i = 1 \/ t[i - 1] \notin kind) <=> (i = 1 \/ a[i - 1] \notin kind)
      BY <3>2
    <3>6. CASE j < n
      <4>1. j # n /\ j # Len(t) /\ t[j + 1] = a[j + 1]
        BY <3>3, <3>6, <1>1 DEF Place
      <4> QED
        BY <2>1, <2>2, <2>3, <3>8, <3>9, <3>5, <4>1
    <3>7. CASE j = n
      <4>1. (\A m \in i..j : a[m] \in kind) => a[n] \in kind
        BY <3>5, <3>7
      <4> QED
        BY <2>1, <2>2, <2>3, <3>8, <3>9, <3>4, <3>5, <3>7, <4>1, <1>2
    <3> QED
      BY <3>6, <3>7, <2>3, <1>1 DEF Place
  <2> QED
    BY <2>1, <2>2, <2>3
<1>4. ASSUME NEW i \in Place, NEW j \in Place, j > n
      PROVE  <<i, j>> \in Stretches(t, kind) <=> i > n /\ <<i - n, j - n>> \in Stretches(c, kind)
  <2>1. <<i, j>> \in Stretches(t, kind) <=>
             /\ i <= j /\ j <= Len(t)
             /\ \A m \in i..j : t[m] \in kind
             /\ i = 1 \/ t[i - 1] \notin kind
             /\ j = Len(t) \/ t[j + 1] \notin kind
    BY StretchIs, <1>1
  <2>2. CASE i <= n
    <3> SUFFICES ASSUME <<i, j>> \in Stretches(t, kind) PROVE FALSE
      BY <2>2, <1>1 DEF Place
    <3>1. n \in i..j /\ n + 1 \in i..j /\ n \in 1..n /\ n + 1 \in Place /\ ~(n + 1 > Len(t))
      BY <2>1, <2>2, <1>1, <1>4 DEF Place
    <3>2. t[n] = a[n] /\ t[n + 1] = c[1] /\ n > 0 /\ Len(c) > 0
      <4>1. n + 1 > n /\ (n + 1) - n = 1 /\ n > 0 /\ Len(c) > 0
        BY <3>1, <1>1
      <4> QED
        BY <3>1, <4>1, <1>1
    <3> QED
      BY <2>1, <3>1, <3>2, <1>2
  <2>3. CASE i > n
    <3>1. i - n \in Place /\ j - n \in Place
      BY <2>3, <1>4, <1>1 DEF Place
    <3>2. <<i - n, j - n>> \in Stretches(c, kind) <=>
             /\ i - n <= j - n /\ j - n <= Len(c)
             /\ \A m \in (i - n)..(j - n) : c[m] \in kind
             /\ i - n = 1 \/ c[i - n - 1] \notin kind
             /\ j - n = Len(c) \/ c[j - n + 1] \notin kind
      BY <3>1, StretchIs
    <3>3. CASE ~(i <= j /\ j <= Len(t))
      BY <2>1, <3>2, <3>3, <1>1, <2>3 DEF Place
    <3>4. CASE i <= j /\ j <= Len(t)
      <4>1. /\ \A m \in i..j : m \in Place /\ t[m] = c[m - n] /\ m - n \in (i - n)..(j - n)
            /\ \A m \in (i - n)..(j - n) : m + n \in i..j /\ (m + n) - n = m
        BY <1>1, <2>3, <3>4 DEF Place
      <4>2. (\A m \in i..j : t[m] \in kind) <=> (\A m \in (i - n)..(j - n) : c[m] \in kind)
        BY <4>1
      <4>3. j # Len(t) => t[j + 1] = c[j - n + 1]
        <5>1. j # Len(t) => /\ j + 1 \in Place /\ j + 1 > n /\ ~(j + 1 > Len(t))
                            /\ (j + 1) - n = j - n + 1
          BY <1>1, <3>4, <2>3 DEF Place
        <5> QED
          BY <5>1, <1>1
      <4>4. i - n # 1 => t[i - 1] = c[i - n - 1]
        <5>1. i - n # 1 => /\ i - 1 \in Place /\ i - 1 > n /\ ~(i - 1 > Len(t))
                           /\ (i - 1) - n = i - n - 1
          BY <1>1, <3>4, <2>3 DEF Place
        <5> QED
          BY <5>1, <1>1
      <4>5. i - n = 1 /\ i # 1 /\ c[1] \in kind => t[i - 1] \notin kind
        <5>1. i - n = 1 /\ i # 1 => n > 0 /\ i - 1 = n /\ Len(c) > 0 /\ t[n] = a[n]
          BY <1>1, <3>4, <2>3 DEF Place
        <5> QED
          BY <5>1, <1>2
      <4>6. (\A m \in (i - n)..(j - n) : c[m] \in kind) => c[i - n] \in kind
        <5>1. i - n \in (i - n)..(j - n)
          BY <1>1, <3>4, <2>3 DEF Place
        <5> QED
          BY <5>1
      <4>7. /\ i - n <= j - n /\ j - n <= Len(c) /\ (j - n = Len(c) <=> j = Len(t))
            /\ i = 1 => i - n = 1
        BY <1>1, <3>4, <2>3 DEF Place
      <4>8. CASE i - n = 1
        BY <2>1, <3>2, <3>4, <2>3, <4>2, <4>3, <4>5, <4>6, <4>7, <4>8
      <4>9. CASE i - n # 1
        BY <2>1, <3>2, <3>4, <2>3, <4>2, <4>3, <4>4, <4>7, <4>9
      <4> QED
        BY <4>8, <4>9
    <3> QED
      BY <3>3, <3>4
  <2> QED
    BY <2>2, <2>3, <1>1 DEF Place
<1>5. ASSUME NEW i \in Place, NEW j \in Place
      PROVE  <<i, j>> \in Stretches(t, kind) <=>
               \/ <<i, j>> \in Stretches(a, kind)
               \/ i > n /\ j > n /\ <<i - n, j - n>> \in Stretches(c, kind)
  <2>1. CASE j <= n
    BY <2>1, <1>3, <1>1 DEF Place
  <2>2. CASE j > n
    BY <2>2, <1>3, <1>4, <1>1 DEF Place
  <2> QED
    BY <2>1, <2>2, <1>1 DEF Place
<1>6. /\ Stretches(t, kind) \subseteq Place \X Place /\ Stretches(a, kind) \subseteq Place \X Place
      /\ Stretches(c, kind) \subseteq Place \X Place
  BY <1>1, StretchesType
<1> QED
  BY <1>3, <1>5, <1>6 DEF Parts, t, n

LEMMA EntityIs ==
    ASSUME NEW t, NEW i, NEW j
    PROVE  <<i, j>> \in Entities(t) <=>
             <<i, j>> \in Stretches(t, {Digit}) /\ j - i + 1 \in MinLen..MaxLen
BY DEF Entities

LEMMA TermIs ==
    ASSUME NEW t \in Seq(Char), NEW i, NEW j
    PROVE  <<i, j>> \in Terms(t) <=> i = j /\ i \in 1..Len(t) /\ t[i] = Term
BY DEF Terms

LEMMA FindsType ==
    ASSUME NEW t \in Seq(Char), NEW sentences \in BOOLEAN
    PROVE  /\ Entities(t) \subseteq Place \X Place /\ IsFiniteSet(Entities(t))
           /\ Terms(t) \subseteq Place \X Place /\ IsFiniteSet(Terms(t))
           /\ Matches(t) \subseteq Place \X Place /\ IsFiniteSet(Matches(t))
           /\ Sentences(t) \subseteq Place \X Place
           /\ Spans(t, sentences) \subseteq Place \X Place
<1>1. Stretches(t, {Digit}) \subseteq Place \X Place /\ IsFiniteSet(Stretches(t, {Digit}))
  BY StretchesType
<1>2. Entities(t) \subseteq Stretches(t, {Digit})
  BY DEF Entities
<1>3. Entities(t) \subseteq Place \X Place /\ IsFiniteSet(Entities(t))
  BY <1>1, <1>2, FS_Subset
<1>4. Len(t) \in Nat /\ IsFiniteSet(1..Len(t)) /\ (1..Len(t)) \subseteq Place
  <2>1. Len(t) \in Nat
    BY LenProperties
  <2>2. IsFiniteSet(1..Len(t))
    BY <2>1, FS_Interval
  <2> QED
    BY <2>1, <2>2 DEF Place
<1>5. Terms(t) \subseteq (1..Len(t)) \X (1..Len(t))
  BY DEF Terms
<1>6. IsFiniteSet((1..Len(t)) \X (1..Len(t)))
  BY <1>4, FS_Product
<1>7. Terms(t) \subseteq Place \X Place /\ IsFiniteSet(Terms(t))
  BY <1>4, <1>5, <1>6, FS_Subset
<1>8. Matches(t) \subseteq Place \X Place /\ IsFiniteSet(Matches(t))
  BY <1>3, <1>7, FS_Union DEF Matches
<1>9. Sentences(t) \subseteq Place \X Place
  BY StretchesType DEF Sentences
<1> QED
  BY <1>3, <1>7, <1>8, <1>9 DEF Spans

LEMMA EntitiesParts ==
    ASSUME NEW a \in Seq(Char), NEW c \in Seq(Char), Apart(a, c, {Digit})
    PROVE  Parts(Entities(a \o c), Entities(a), Entities(c), Len(a))
<1> DEFINE t == a \o c
           n == Len(a)
<1>1. t \in Seq(Char) /\ n \in Nat
  BY Joined
<1>2. Parts(Stretches(t, {Digit}), Stretches(a, {Digit}), Stretches(c, {Digit}), n)
  BY StretchesParts
<1>3. /\ Entities(t) \subseteq Place \X Place /\ Entities(a) \subseteq Place \X Place
      /\ Entities(c) \subseteq Place \X Place
  BY <1>1, FindsType
<1> HIDE DEF t, n
<1>4. ASSUME NEW i \in Place, NEW j \in Place
      PROVE  /\ <<i, j>> \in Entities(t) <=>
                    <<i, j>> \in Entities(a) \/ (i > n /\ j > n /\ <<i - n, j - n>> \in Entities(c))
             /\ <<i, j>> \in Entities(a) => i <= j /\ j <= n
  <2>1. (j - n) - (i - n) + 1 = j - i + 1
    BY <1>1 DEF Place
  <2>2. <<i - n, j - n>> \in Entities(c) <=>
          <<i - n, j - n>> \in Stretches(c, {Digit}) /\ j - i + 1 \in MinLen..MaxLen
    BY <2>1, EntityIs
  <2> QED
    BY <2>2, EntityIs, <1>2 DEF Parts
<1> QED
  BY <1>3, <1>4 DEF Parts, t, n

LEMMA TermsParts ==
    ASSUME NEW a \in Seq(Char), NEW c \in Seq(Char)
    PROVE  Parts(Terms(a \o c), Terms(a), Terms(c), Len(a))
<1> DEFINE t == a \o c
           n == Len(a)
<1>1. /\ t \in Seq(Char) /\ Len(t) = n + Len(c) /\ n \in Nat /\ Len(c) \in Nat
      /\ \A i \in 1..n : t[i] = a[i]
      /\ \A i \in Place : i > n => t[i] = c[i - n] \/ i > Len(t)
  BY Joined
<1>3. /\ Terms(t) \subseteq Place \X Place /\ Terms(a) \subseteq Place \X Place
      /\ Terms(c) \subseteq Place \X Place
  BY <1>1, FindsType
<1> HIDE DEF t
<1>4. ASSUME NEW i \in Place, NEW j \in Place
      PROVE  /\ <<i, j>> \in Terms(t) <=>
                    <<i, j>> \in Terms(a) \/ (i > n /\ j > n /\ <<i - n, j - n>> \in Terms(c))
             /\ <<i, j>> \in Terms(a) => i <= j /\ j <= n
  <2>1. <<i, j>> \in Terms(t) <=> i = j /\ i \in 1..Len(t) /\ t[i] = Term
    BY <1>1, TermIs
  <2>2. <<i, j>> \in Terms(a) <=> i = j /\ i \in 1..n /\ a[i] = Term
    BY TermIs
  <2>3. <<i - n, j - n>> \in Terms(c) <=> i - n = j - n /\ i - n \in 1..Len(c) /\ c[i - n] = Term
    BY TermIs
  <2>4. CASE i <= n
    <3>1. i \in 1..n /\ i \in 1..Len(t) /\ ~(i > n)
      BY <2>4, <1>1 DEF Place
    <3> QED
      BY <3>1, <2>1, <2>2, <1>1
  <2>5. CASE i > n
    <3>1. /\ i - n = j - n <=> i = j
          /\ i - n \in 1..Len(c) <=> i \in 1..Len(t)
          /\ i \notin 1..n
          /\ i \in 1..Len(t) => ~(i > Len(t))
      BY <2>5, <1>1 DEF Place
    <3> QED
      BY <3>1, <2>1, <2>2, <2>3, <2>5, <1>1
  <2> QED
    BY <2>2, <2>4, <2>5, <1>1 DEF Place
<1> QED
  BY <1>3, <1>4 DEF Parts, t

LEMMA UnionParts ==
    ASSUME NEW n \in Nat, NEW T, NEW A, NEW C, NEW U, NEW B, NEW D,
           Parts(T, A, C, n), Parts(U, B, D, n)
    PROVE  Parts(T \cup U, A \cup B, C \cup D, n)
BY DEF Parts

LEMMA MatchesParts ==
    ASSUME NEW a \in Seq(Char), NEW c \in Seq(Char), Apart(a, c, {Digit})
    PROVE  Parts(Matches(a \o c), Matches(a), Matches(c), Len(a))
<1>1. Len(a) \in Nat
  BY LenProperties
<1> QED
  BY <1>1, EntitiesParts, TermsParts, UnionParts DEF Matches

\* The sentences of a text with a term in them
Named(t) == {s \in Sentences(t) : \E m \in Terms(t) : s[1] <= m[1] /\ m[1] <= s[2]}

LEMMA NamedIs ==
    ASSUME NEW t \in Seq(Char), NEW i \in Place, NEW j \in Place
    PROVE  <<i, j>> \in Named(t) <=> /\ <<i, j>> \in Sentences(t)
                                     /\ \E m \in i..j : <<m, m>> \in Terms(t)
<1>1. \A s \in Terms(t) : s = <<s[1], s[1]>> /\ s[1] \in Nat
  BY LenProperties DEF Terms
<1>2. (\E s \in Terms(t) : i <= s[1] /\ s[1] <= j) <=> (\E m \in i..j : <<m, m>> \in Terms(t))
  <2>1. ASSUME NEW s \in Terms(t), i <= s[1], s[1] <= j
        PROVE  \E m \in i..j : <<m, m>> \in Terms(t)
    BY <2>1, <1>1 DEF Place
  <2>2. ASSUME NEW m \in i..j, <<m, m>> \in Terms(t)
        PROVE  \E s \in Terms(t) : i <= s[1] /\ s[1] <= j
    BY <2>2 DEF Place
  <2> QED
    BY <2>1, <2>2
<1> QED
  BY <1>2 DEF Named

LEMMA NamedParts ==
    ASSUME NEW a \in Seq(Char), NEW c \in Seq(Char), Apart(a, c, Char \ {Stop})
    PROVE  Parts(Named(a \o c), Named(a), Named(c), Len(a))
<1> DEFINE t == a \o c
           n == Len(a)
<1>1. t \in Seq(Char) /\ n \in Nat
  BY Joined
<1>2. Parts(Sentences(t), Sentences(a), Sentences(c), n)
  BY StretchesParts DEF Sentences
<1>3. Parts(Terms(t), Terms(a), Terms(c), n)
  BY TermsParts
<1>4. /\ Named(t) \subseteq Place \X Place /\ Named(a) \subseteq Place \X Place
      /\ Named(c) \subseteq Place \X Place
  BY <1>1, FindsType DEF Named
<1> HIDE DEF t, n
<1>5. ASSUME NEW i \in Place, NEW j \in Place
      PROVE  /\ <<i, j>> \in Named(t) <=>
                    <<i, j>> \in Named(a) \/ (i > n /\ j > n /\ <<i - n, j - n>> \in Named(c))
             /\ <<i, j>> \in Named(a) => i <= j /\ j <= n
  <2>1. /\ <<i, j>> \in Named(t) <=> /\ <<i, j>> \in Sentences(t)
                                     /\ \E m \in i..j : <<m, m>> \in Terms(t)
        /\ <<i, j>> \in Named(a) <=> /\ <<i, j>> \in Sentences(a)
                                     /\ \E m \in i..j : <<m, m>> \in Terms(a)
    BY <1>1, NamedIs
  <2>2. <<i, j>> \in Sentences(a) => i <= j /\ j <= n
    BY <1>2 DEF Parts
  <2>3. CASE <<i, j>> \in Sentences(a)
    <3>1. ~(j > n) /\ \A m \in i..j : m \in Place /\ ~(m > n)
      BY <2>2, <2>3, <1>1 DEF Place
    <3>2. \A m \in i..j : <<m, m>> \in Terms(t) <=> <<m, m>> \in Terms(a)
      BY <3>1, <1>3 DEF Parts
    <3>3. <<i, j>> \in Sentences(t) /\ ~(j > n)
      BY <3>1, <2>3, <1>2 DEF Parts
    <3> QED
      BY <2>1, <2>2, <2>3, <3>2, <3>3
  <2>4. CASE i > n /\ j > n /\ <<i - n, j - n>> \in Sentences(c)
    <3>1. i - n \in Place /\ j - n \in Place
      BY <2>4, <1>1 DEF Place
    <3>2. <<i - n, j - n>> \in Named(c) <=> \E m \in (i - n)..(j - n) : <<m, m>> \in Terms(c)
      BY <3>1, <2>4, NamedIs
    <3>3. \A m \in i..j : /\ m \in Place /\ m > n /\ ~(m <= n)
                          /\ m - n \in (i - n)..(j - n)
      BY <2>4, <1>1 DEF Place
    <3>4. \A m \in i..j : <<m, m>> \in Terms(t) <=> <<m - n, m - n>> \in Terms(c)
      BY <3>3, <1>3 DEF Parts
    <3>5. \A m \in (i - n)..(j - n) : m + n \in i..j /\ (m + n) - n = m
      BY <2>4, <1>1 DEF Place
    <3>6. (\E m \in i..j : <<m, m>> \in Terms(t)) <=>
             (\E m \in (i - n)..(j - n) : <<m, m>> \in Terms(c))
      <4>1. ASSUME NEW m \in i..j, <<m, m>> \in Terms(t)
            PROVE  \E k \in (i - n)..(j - n) : <<k, k>> \in Terms(c)
        BY <4>1, <3>3, <3>4
      <4>2. ASSUME NEW m \in (i - n)..(j - n), <<m, m>> \in Terms(c)
            PROVE  \E k \in i..j : <<k, k>> \in Terms(t)
        <5>1. m + n \in i..j /\ (m + n) - n = m
          BY <3>5
        <5> QED
          BY <5>1, <3>4, <4>2
      <4> QED
        BY <4>1, <4>2
    <3>7. <<i, j>> \in Sentences(t) /\ <<i, j>> \notin Sentences(a)
      BY <2>4, <2>2, <1>1, <1>2 DEF Parts, Place
    <3> QED
      BY <2>1, <2>4, <3>2, <3>6, <3>7
  <2>5. CASE /\ <<i, j>> \notin Sentences(a)
             /\ ~(i > n /\ j > n /\ <<i - n, j - n>> \in Sentences(c))
    <3>1. <<i, j>> \notin Sentences(t)
      BY <2>5, <1>2 DEF Parts
    <3>2. <<i - n, j - n>> \in Named(c) => <<i - n, j - n>> \in Sentences(c)
      BY DEF Named
    <3> QED
      BY <2>1, <2>5, <3>1, <3>2
  <2> QED
    BY <2>3, <2>4, <2>5
<1> QED
  BY <1>4, <1>5 DEF Parts, t, n

LEMMA SpansParts ==
    ASSUME NEW a \in Seq(Char), NEW c \in Seq(Char), NEW sentences \in BOOLEAN,
           Good(a, c, sentences)
    PROVE  Parts(Spans(a \o c, sentences), Spans(a, sentences), Spans(c, sentences), Len(a))
<1>1. Len(a) \in Nat
  BY LenProperties
<1>2. CASE ~sentences
  BY <1>2, MatchesParts DEF Good, Spans
<1>3. CASE sentences
  <2>1. \A t : Spans(t, sentences) = Entities(t) \cup Named(t)
    BY <1>3 DEF Spans, Named
  <2>2. /\ Parts(Entities(a \o c), Entities(a), Entities(c), Len(a))
        /\ Parts(Named(a \o c), Named(a), Named(c), Len(a))
    BY <1>3, EntitiesParts, NamedParts DEF Good
  <2> QED
    BY <2>1, <2>2, <1>1, UnionParts
<1> QED
  BY <1>2, <1>3

\* As many are found in the whole as in the two
LEMMA PartsCount ==
    ASSUME NEW n \in Nat, NEW T, NEW A, NEW C, Parts(T, A, C, n), IsFiniteSet(T),
           IsFiniteSet(A), IsFiniteSet(C)
    PROVE  Cardinality(T) = Cardinality(A) + Cardinality(C)
<1> DEFINE D == {s \in T : s[2] > n}
           f == [s \in C |-> <<s[1] + n, s[2] + n>>]
<1>1. /\ \A s \in T : s = <<s[1], s[2]>> /\ s[1] \in Place /\ s[2] \in Place
      /\ \A s \in A : s = <<s[1], s[2]>> /\ s[1] \in Place /\ s[2] \in Place
      /\ \A s \in C : s = <<s[1], s[2]>> /\ s[1] \in Place /\ s[2] \in Place
  BY DEF Parts
<1>2. T = A \cup D /\ A \cap D = {}
  <2>1. \A s \in A : s \in T /\ ~(s[2] > n)
    <3> SUFFICES ASSUME NEW s \in A PROVE s \in T /\ ~(s[2] > n)
      OBVIOUS
    <3>1. s = <<s[1], s[2]>> /\ s[1] \in Place /\ s[2] \in Place /\ <<s[1], s[2]>> \in A
      BY <1>1
    <3>2. <<s[1], s[2]>> \in T /\ s[2] <= n
      BY <3>1 DEF Parts
    <3> QED
      BY <3>1, <3>2 DEF Place
  <2>2. ASSUME NEW s \in T PROVE s \in A \/ s[2] > n
    <3>1. s = <<s[1], s[2]>> /\ s[1] \in Place /\ s[2] \in Place /\ <<s[1], s[2]>> \in T
      BY <1>1
    <3>2. <<s[1], s[2]>> \in A \/ s[2] > n
      BY <3>1 DEF Parts
    <3> QED
      BY <3>1, <3>2
  <2> QED
    BY <2>1, <2>2
<1>3. f \in Bijection(C, D)
  <2>1. \A s \in C : f[s] \in D
    <3> SUFFICES ASSUME NEW s \in C PROVE <<s[1] + n, s[2] + n>> \in D
      OBVIOUS
    <3>1. /\ s[1] + n \in Place /\ s[2] + n \in Place /\ s[1] + n > n /\ s[2] + n > n
          /\ (s[1] + n) - n = s[1] /\ (s[2] + n) - n = s[2]
      BY <1>1 DEF Place
    <3>2. <<s[1] + n, s[2] + n>> \in T
      BY <3>1, <1>1 DEF Parts
    <3> QED
      BY <3>1, <3>2
  <2>2. \A s, r \in C : f[s] = f[r] => s = r
    <3> SUFFICES ASSUME NEW s \in C, NEW r \in C, s[1] + n = r[1] + n, s[2] + n = r[2] + n
                 PROVE  s = r
      OBVIOUS
    <3>1. s[1] = r[1] /\ s[2] = r[2]
      BY <1>1 DEF Place
    <3> QED
      BY <3>1, <1>1
  <2>3. \A d \in D : \E s \in C : f[s] = d
    <3> SUFFICES ASSUME NEW d \in D PROVE \E s \in C : <<s[1] + n, s[2] + n>> = d
      OBVIOUS
    <3>1. /\ d \in T /\ d[2] > n /\ d \notin A /\ d = <<d[1], d[2]>>
          /\ d[1] \in Place /\ d[2] \in Place
      BY <1>1, <1>2
    <3>2. <<d[1] - n, d[2] - n>> \in C
      BY <3>1 DEF Parts
    <3>3. (d[1] - n) + n = d[1] /\ (d[2] - n) + n = d[2]
      BY <3>1 DEF Place
    <3> QED
      BY <3>1, <3>2, <3>3
  <2>4. f \in [C -> D]
    BY <2>1
  <2> HIDE DEF f, D
  <2> QED
    BY <2>2, <2>3, <2>4 DEF Bijection, Injection, Surjection, IsInjective
<1> HIDE DEF f, D
<1>4. IsFiniteSet(D) /\ Cardinality(D) = Cardinality(C)
  <2>1. ExistsBijection(C, D)
    BY <1>3 DEF ExistsBijection
  <2> QED
    BY <2>1, FS_Bijection
<1>5. /\ Cardinality(A \cup D) = Cardinality(A) + Cardinality(D) - Cardinality(A \cap D)
      /\ Cardinality(A \cap D) = 0
  BY <1>2, <1>4, FS_Union, FS_EmptySet
<1>6. Cardinality(A) \in Nat /\ Cardinality(C) \in Nat
  BY FS_CardinalityType
<1> QED
  BY <1>2, <1>4, <1>5, <1>6

LEMMA CountConcat ==
    ASSUME NEW a \in Seq(Char), NEW c \in Seq(Char), Apart(a, c, {Digit})
    PROVE  Count(a \o c) = Count(a) + Count(c)
<1>1. a \o c \in Seq(Char) /\ Len(a) \in Nat
  BY Joined
<1>2. IsFiniteSet(Matches(a \o c)) /\ IsFiniteSet(Matches(a)) /\ IsFiniteSet(Matches(c))
  BY <1>1, FindsType
<1>3. Parts(Matches(a \o c), Matches(a), Matches(c), Len(a))
  BY MatchesParts
<1>4. Cardinality(Matches(a \o c)) = Cardinality(Matches(a)) + Cardinality(Matches(c))
  BY <1>1, <1>2, <1>3, PartsCount
<1> QED
  BY <1>4 DEF Count

(***************************************************************************)
(* The marks of a text, and what redacting two texts one after the other   *)
(* gives.                                                                  *)
(***************************************************************************)
\* A span is over position i; a span is over i and the position before
Over(S, i) == \E s \in S : s[1] <= i /\ i <= s[2]
GoesOn(S, i) == \E s \in S : /\ s[1] <= i - 1 /\ i - 1 <= s[2]
                             /\ s[1] <= i /\ i <= s[2]
MarkOf(t, S, i) == IF ~Over(S, i) THEN t[i] ELSE IF GoesOn(S, i) THEN "" ELSE OMISSIS

LEMMA MarksAre ==
    ASSUME NEW t \in Seq(Char), NEW sentences
    PROVE  /\ Marks(t, sentences) \in Seq(Mark)
           /\ Len(Marks(t, sentences)) = Len(t)
           /\ \A i \in 1..Len(t) :
                 Marks(t, sentences)[i] = MarkOf(t, Spans(t, sentences), i)
<1>1. Len(t) \in Nat /\ \A i \in 1..Len(t) : t[i] \in Char
  BY LenProperties, ElementOfSeq
<1>2. Marks(t, sentences) = [i \in 1..Len(t) |-> MarkOf(t, Spans(t, sentences), i)]
  BY DEF Marks, MarkOf, Over, GoesOn
<1>3. \A i \in 1..Len(t) : MarkOf(t, Spans(t, sentences), i) \in Mark
  BY <1>1 DEF MarkOf, Mark
<1> QED
  BY <1>1, <1>2, <1>3

LEMMA MarkParts ==
    ASSUME NEW n \in Nat, NEW T, NEW A, NEW C, Parts(T, A, C, n), NEW i \in Place
    PROVE  /\ i <= n => (Over(T, i) <=> Over(A, i)) /\ (GoesOn(T, i) <=> GoesOn(A, i))
           /\ i > n => (Over(T, i) <=> Over(C, i - n)) /\ (GoesOn(T, i) <=> GoesOn(C, i - n))
<1>1. /\ \A s \in T : s = <<s[1], s[2]>> /\ s[1] \in Place /\ s[2] \in Place
      /\ \A s \in A : s = <<s[1], s[2]>> /\ s[1] \in Place /\ s[2] \in Place
      /\ \A s \in C : s = <<s[1], s[2]>> /\ s[1] \in Place /\ s[2] \in Place
  BY DEF Parts
<1>2. \A s \in A : s \in T /\ s[2] <= n
  <2> SUFFICES ASSUME NEW s \in A PROVE s \in T /\ s[2] <= n
    OBVIOUS
  <2>1. s = <<s[1], s[2]>> /\ s[1] \in Place /\ s[2] \in Place /\ <<s[1], s[2]>> \in A
    BY <1>1
  <2>2. <<s[1], s[2]>> \in T /\ s[2] <= n
    BY <2>1 DEF Parts
  <2> QED
    BY <2>1, <2>2
<1>3. \A s \in T : s \in A \/ (s[1] > n /\ s[2] > n /\ <<s[1] - n, s[2] - n>> \in C)
  <2> SUFFICES ASSUME NEW s \in T
               PROVE  s \in A \/ (s[1] > n /\ s[2] > n /\ <<s[1] - n, s[2] - n>> \in C)
    OBVIOUS
  <2>1. s = <<s[1], s[2]>> /\ s[1] \in Place /\ s[2] \in Place /\ <<s[1], s[2]>> \in T
    BY <1>1
  <2> QED
    BY <2>1 DEF Parts
<1>4. \A s \in C : /\ <<s[1] + n, s[2] + n>> \in T
                   /\ <<s[1] + n, s[2] + n>>[1] = s[1] + n /\ <<s[1] + n, s[2] + n>>[2] = s[2] + n
  <2> SUFFICES ASSUME NEW s \in C PROVE <<s[1] + n, s[2] + n>> \in T
    OBVIOUS
  <2>1. s = <<s[1], s[2]>> /\ s[1] \in Place /\ s[2] \in Place /\ <<s[1], s[2]>> \in C
    BY <1>1
  <2>2. /\ s[1] + n \in Place /\ s[2] + n \in Place /\ s[1] + n > n /\ s[2] + n > n
        /\ (s[1] + n) - n = s[1] /\ (s[2] + n) - n = s[2]
    BY <2>1 DEF Place
  <2> QED
    BY <2>1, <2>2 DEF Parts
<1>5. ASSUME i <= n
      PROVE  (Over(T, i) <=> Over(A, i)) /\ (GoesOn(T, i) <=> GoesOn(A, i))
  <2>1. \A s \in T : s[1] <= i => s \in A
    <3> SUFFICES ASSUME NEW s \in T, s[1] <= i, s \notin A PROVE FALSE
      OBVIOUS
    <3>1. s[1] \in Nat /\ i \in Nat /\ i <= n
      BY <1>1, <1>5 DEF Place
    <3>2. s[1] > n
      BY <1>3
    <3> QED
      BY <3>1, <3>2
  <2> QED
    BY <2>1, <1>2 DEF Over, GoesOn
<1>6. ASSUME i > n
      PROVE  (Over(T, i) <=> Over(C, i - n)) /\ (GoesOn(T, i) <=> GoesOn(C, i - n))
  <2>1. ASSUME NEW s \in T, i <= s[2]
        PROVE  /\ <<s[1] - n, s[2] - n>> \in C
               /\ <<s[1] - n, s[2] - n>>[1] = s[1] - n /\ <<s[1] - n, s[2] - n>>[2] = s[2] - n
    <3>1. s \notin A
      BY <1>1, <1>2, <1>6, <2>1 DEF Place
    <3> QED
      BY <3>1, <1>3
  <2>2. ASSUME NEW s \in T, i <= s[2]
        PROVE  /\ s[1] <= i <=> s[1] - n <= i - n
               /\ i - n <= s[2] - n
               /\ s[1] <= i - 1 <=> s[1] - n <= (i - n) - 1
               /\ i - 1 <= s[2] <=> (i - n) - 1 <= s[2] - n
    BY <1>1, <2>2 DEF Place
  <2>3. ASSUME NEW s \in C
        PROVE  /\ s[1] <= i - n <=> s[1] + n <= i
               /\ i - n <= s[2] <=> i <= s[2] + n
               /\ s[1] <= (i - n) - 1 <=> s[1] + n <= i - 1
               /\ (i - n) - 1 <= s[2] <=> i - 1 <= s[2] + n
    BY <1>1 DEF Place
  <2>4. Over(T, i) => Over(C, i - n)
    BY <2>1, <2>2 DEF Over
  <2>5. Over(C, i - n) => Over(T, i)
    BY <1>4, <2>3 DEF Over
  <2>6. GoesOn(T, i) => GoesOn(C, i - n)
    BY <2>1, <2>2 DEF GoesOn
  <2>7. GoesOn(C, i - n) => GoesOn(T, i)
    BY <1>4, <2>3 DEF GoesOn
  <2> QED
    BY <2>4, <2>5, <2>6, <2>7
<1> QED
  BY <1>5, <1>6

LEMMA RedactConcat ==
    ASSUME NEW a \in Seq(Char), NEW c \in Seq(Char), NEW sentences \in BOOLEAN,
           Good(a, c, sentences)
    PROVE  Redact(a \o c, sentences) = Redact(a, sentences) \o Redact(c, sentences)
<1> DEFINE t == a \o c
           n == Len(a)
           M(x) == Marks(x, sentences)
<1>1. /\ t \in Seq(Char) /\ Len(t) = n + Len(c) /\ n \in Nat /\ Len(c) \in Nat
      /\ \A i \in 1..n : t[i] = a[i]
      /\ \A i \in Place : i > n => t[i] = c[i - n] \/ i > Len(t)
  BY Joined
<1>2. Parts(Spans(t, sentences), Spans(a, sentences), Spans(c, sentences), n)
  BY SpansParts
<1> HIDE DEF t
<1>3. /\ M(t) \in Seq(Mark) /\ Len(M(t)) = n + Len(c)
      /\ M(a) \in Seq(Mark) /\ Len(M(a)) = n
      /\ M(c) \in Seq(Mark) /\ Len(M(c)) = Len(c)
      /\ \A i \in 1..(n + Len(c)) : M(t)[i] = MarkOf(t, Spans(t, sentences), i)
      /\ \A i \in 1..n : M(a)[i] = MarkOf(a, Spans(a, sentences), i)
      /\ \A i \in 1..Len(c) : M(c)[i] = MarkOf(c, Spans(c, sentences), i)
  BY <1>1, MarksAre
<1> HIDE DEF n, M
<1>4. /\ M(a) \o M(c) \in Seq(Mark) /\ Len(M(a) \o M(c)) = n + Len(c)
      /\ \A i \in 1..(n + Len(c)) : (M(a) \o M(c))[i] = IF i <= n THEN M(a)[i] ELSE M(c)[i - n]
  BY <1>3, ConcatProperties
<1>5. ASSUME NEW i \in 1..(n + Len(c)) PROVE M(t)[i] = (M(a) \o M(c))[i]
  <2>1. i \in Place /\ ~(i > Len(t))
    BY <1>1 DEF Place
  <2>2. CASE i <= n
    <3>1. i \in 1..n
      BY <2>2, <1>1
    <3>2. MarkOf(t, Spans(t, sentences), i) = MarkOf(a, Spans(a, sentences), i)
      BY <2>1, <2>2, <3>1, <1>1, <1>2, MarkParts DEF MarkOf
    <3> QED
      BY <2>2, <3>1, <3>2, <1>3, <1>4
  <2>3. CASE i > n
    <3>1. i - n \in 1..Len(c) /\ ~(i <= n)
      BY <2>3, <1>1
    <3>2. t[i] = c[i - n]
      BY <2>1, <2>3, <1>1
    <3>3. MarkOf(t, Spans(t, sentences), i) = MarkOf(c, Spans(c, sentences), i - n)
      BY <2>1, <2>3, <3>2, <1>1, <1>2, MarkParts DEF MarkOf
    <3> QED
      BY <3>1, <3>3, <1>3, <1>4
  <2>4. i <= n \/ i > n
    BY <2>1, <1>1 DEF Place
  <2> QED
    BY <2>2, <2>3, <2>4
<1>6. M(t) = M(a) \o M(c)
  BY <1>3, <1>4, <1>5, SeqEqual
<1>7. Written(M(a) \o M(c)) = Written(M(a)) \o Written(M(c))
  BY <1>3, WrittenConcat
<1> QED
  BY <1>6, <1>7 DEF Redact, M, t

LEMMA RedactType ==
    ASSUME NEW t \in Seq(Char), NEW sentences
    PROVE  Redact(t, sentences) \in Seq(Letter)
BY MarksAre, WrittenType DEF Redact

LEMMA RedactEmpty == \A sentences : Redact(<<>>, sentences) = <<>>
<1> SUFFICES ASSUME NEW sentences PROVE Redact(<<>>, sentences) = <<>>
  OBVIOUS
<1>1. <<>> \in Seq(Char) /\ Len(<<>>) = 0
  OBVIOUS
<1>2. Marks(<<>>, sentences) \in Seq(Mark) /\ Len(Marks(<<>>, sentences)) = 0
  BY <1>1, MarksAre
<1>3. Marks(<<>>, sentences) = <<>>
  BY <1>2
<1> QED
  BY <1>3, WrittenEmpty DEF Redact

LEMMA CountEmpty == Count(<<>>) = 0
<1>1. Matches(<<>>) = {}
  BY DEF Matches, Entities, Terms, Stretches
<1> QED
  BY <1>1, FS_EmptySet DEF Count

(***************************************************************************)
(* A text in which nothing is found is left as it is, and any other shows  *)
(* a mask.                                                                 *)
(***************************************************************************)
Masked(s) == \E i \in 1..Len(s) : s[i] = OMISSIS

LEMMA CharIsLetter ==
    ASSUME NEW t \in Seq(Char)
    PROVE  t \in Seq(Letter) /\ ~Masked(t)
<1>1. Char \subseteq Letter
  BY DEF Letter
<1>2. OMISSIS \notin Char
  BY DEF OMISSIS, Char, Plain, Digit, Term, Stop
<1>3. \A i \in 1..Len(t) : t[i] \in Char
  BY ElementOfSeq
<1> QED
  BY <1>1, <1>2, <1>3, SeqMonotonic DEF Masked

LEMMA MaskedConcat ==
    ASSUME NEW a \in Seq(Letter), NEW c \in Seq(Letter)
    PROVE  Masked(a \o c) <=> Masked(a) \/ Masked(c)
<1>1. /\ Len(a \o c) = Len(a) + Len(c) /\ Len(a) \in Nat /\ Len(c) \in Nat
      /\ \A i \in 1 .. Len(a) + Len(c) : (a \o c)[i] = IF i <= Len(a) THEN a[i] ELSE c[i - Len(a)]
  BY ConcatProperties, LenProperties
<1>2. ASSUME Masked(a \o c) PROVE Masked(a) \/ Masked(c)
  <2>1. PICK i \in 1..(Len(a) + Len(c)) : (a \o c)[i] = OMISSIS
    BY <1>1, <1>2 DEF Masked
  <2>2. CASE i <= Len(a)
    <3>1. i \in 1..Len(a) /\ a[i] = OMISSIS
      BY <1>1, <2>1, <2>2
    <3> QED
      BY <3>1 DEF Masked
  <2>3. CASE ~(i <= Len(a))
    <3>1. i - Len(a) \in 1..Len(c) /\ c[i - Len(a)] = OMISSIS
      BY <1>1, <2>1, <2>3
    <3> QED
      BY <3>1 DEF Masked
  <2> QED
    BY <2>2, <2>3
<1>3. ASSUME Masked(a) PROVE Masked(a \o c)
  <2>1. PICK i \in 1..Len(a) : a[i] = OMISSIS
    BY <1>3 DEF Masked
  <2>2. i \in 1..(Len(a) + Len(c)) /\ (a \o c)[i] = OMISSIS
    BY <2>1, <1>1
  <2> QED
    BY <2>2, <1>1 DEF Masked
<1>4. ASSUME Masked(c) PROVE Masked(a \o c)
  <2>1. PICK i \in 1..Len(c) : c[i] = OMISSIS
    BY <1>4 DEF Masked
  <2>2. i + Len(a) \in 1..(Len(a) + Len(c)) /\ ~(i + Len(a) <= Len(a)) /\ (i + Len(a)) - Len(a) = i
    BY <2>1, <1>1
  <2>3. (a \o c)[i + Len(a)] = OMISSIS
    BY <2>1, <2>2, <1>1
  <2> QED
    BY <2>2, <2>3, <1>1 DEF Masked
<1> QED
  BY <1>2, <1>3, <1>4

LEMMA MaskStays == \A marks \in Seq(Mark) : Masked(marks) => Masked(Written(marks))
<1> DEFINE G == {s \in Seq(Mark) : Masked(s) => Masked(Written(s))}
<1>1. <<>> \in G
  <2>1. ~Masked(<<>>)
    BY DEF Masked
  <2> QED
    BY <2>1, EmptySeq
<1>2. \A s \in G, c \in Mark : Append(s, c) \in G
  <2> SUFFICES ASSUME NEW s \in Seq(Mark), Masked(s) => Masked(Written(s)), NEW c \in Mark
               PROVE  /\ Append(s, c) \in Seq(Mark)
                      /\ Masked(Append(s, c)) => Masked(Written(Append(s, c)))
    OBVIOUS
  <2> DEFINE w == Written(s)
             t == Append(s, c)
  <2>1. /\ t \in Seq(Mark) /\ Len(t) = Len(s) + 1 /\ Len(s) \in Nat
        /\ \A i \in 1..Len(s) : t[i] = s[i]
        /\ t[Len(s) + 1] = c
    BY AppendProperties, LenProperties
  <2>2. Written(t) = IF c = "" THEN w ELSE Append(w, c)
    BY WrittenAppend
  <2>3. w \in Seq(Letter)
    BY WrittenType
  <2> HIDE DEF w, t
  <2>4. Masked(t) => Masked(s) \/ c = OMISSIS
    BY <2>1 DEF Masked
  <2>5. ASSUME c # "" PROVE (Masked(w) \/ c = OMISSIS) => Masked(Append(w, c))
    <3>1. c \in Letter
      BY <2>5 DEF Mark, Letter
    <3>2. /\ Len(Append(w, c)) = Len(w) + 1 /\ Len(w) \in Nat
          /\ \A i \in 1..Len(w) : Append(w, c)[i] = w[i]
          /\ Append(w, c)[Len(w) + 1] = c
      BY <2>3, <3>1, AppendProperties, LenProperties
    <3>3. Len(w) + 1 \in 1..Len(Append(w, c)) /\ 1..Len(w) \subseteq 1..Len(Append(w, c))
      BY <3>2
    <3> QED
      BY <3>2, <3>3 DEF Masked
  <2>6. c = "" => c # OMISSIS
    BY DEF OMISSIS
  <2>7. Masked(s) => Masked(w)
    BY DEF w
  <2>8. t \in Seq(Mark) /\ (Masked(t) => Masked(Written(t)))
    BY <2>1, <2>2, <2>4, <2>5, <2>6, <2>7
  <2> QED
    BY <2>8 DEF t
<1> HIDE DEF G
<1>3. \A s \in Seq(Mark) : s \in G
  BY <1>1, <1>2, ByAppending
<1> QED
  BY <1>3 DEF G

\* A character of a kind is in a stretch of it
LEMMA StretchAround ==
    ASSUME NEW t \in Seq(Char), NEW kind, NEW p \in 1..Len(t), t[p] \in kind
    PROVE  \E i, j \in Place : i <= p /\ p <= j /\ <<i, j>> \in Stretches(t, kind)
<1>1. Len(t) \in Nat /\ p \in Place
  BY LenProperties DEF Place
<1> DEFINE A == {i \in 1..p : \A m \in i..p : t[m] \in kind}
           B == {d \in 0..(Len(t) - p) : \A m \in p..(Len(t) - d) : t[m] \in kind}
<1>2. PICK i \in A : \A k \in A : i <= k
  <2>1. A \in SUBSET Nat
    BY <1>1
  <2>2. \A m \in p..p : m = p
    BY <1>1
  <2>3. p \in A
    BY <1>1, <2>2 DEF Place
  <2> QED
    BY <2>1, <2>3, LeastOf
<1>3. PICK d \in B : \A k \in B : d <= k
  <2>1. B \in SUBSET Nat
    BY <1>1
  <2>2. /\ \A m \in p..(Len(t) - (Len(t) - p)) : m = p
        /\ Len(t) - p \in 0..(Len(t) - p)
    BY <1>1
  <2>3. Len(t) - p \in B
    BY <2>2
  <2> QED
    BY <2>1, <2>3, LeastOf
<1> DEFINE j == Len(t) - d
<1>4. /\ i \in 1..p /\ \A m \in i..p : t[m] \in kind
      /\ d \in 0..(Len(t) - p) /\ \A m \in p..j : t[m] \in kind
  BY <1>2, <1>3
<1>5. i \in Place /\ j \in Place /\ i <= p /\ p <= j /\ j <= Len(t) /\ j \in Nat
  BY <1>4, <1>1 DEF Place
<1>6. \A m \in i..j : t[m] \in kind
  <2>1. \A m \in i..j : m \in i..p \/ m \in p..j
    BY <1>5, <1>1 DEF Place
  <2> QED
    BY <2>1, <1>4
<1>7. i = 1 \/ t[i - 1] \notin kind
  <2> SUFFICES ASSUME i # 1, t[i - 1] \in kind PROVE FALSE
    OBVIOUS
  <2>1. i - 1 \in 1..p /\ ~(i <= i - 1) /\ \A m \in (i - 1)..p : m = i - 1 \/ m \in i..p
    BY <1>4, <1>5 DEF Place
  <2>2. i - 1 \in A
    BY <2>1, <1>4
  <2> QED
    BY <2>1, <2>2, <1>2
<1>8. j = Len(t) \/ t[j + 1] \notin kind
  <2> SUFFICES ASSUME j # Len(t), t[j + 1] \in kind PROVE FALSE
    OBVIOUS
  <2>0. /\ d \in 0..(Len(t) - p) /\ d # 0 /\ Len(t) \in Nat /\ p \in Nat
    BY <1>4, <1>1
  <2>1. d - 1 \in 0..(Len(t) - p) /\ ~(d <= d - 1)
    BY <2>0
  <2>3. ASSUME NEW m \in p..(Len(t) - (d - 1)) PROVE m = j + 1 \/ m \in p..j
    <3> HIDE DEF A, B, j
    <3>1. \A n \in Nat, q \in Nat, e \in Nat :
             q \in p..(n - (e - 1)) => q = n - e + 1 \/ q \in p..(n - e)
      BY <2>0
    <3> QED
      BY <2>0, <3>1 DEF j
  <2>2. d - 1 \in B
    BY <2>1, <2>3, <1>4
  <2> QED
    BY <2>1, <2>2, <1>3
<1> HIDE DEF j
<1>9. <<i, j>> \in Stretches(t, kind)
  BY <1>5, <1>6, <1>7, <1>8, StretchIs
<1> QED
  BY <1>5, <1>9

LEMMA CountType == ASSUME NEW t \in Seq(Char)
                   PROVE  Count(t) \in Nat /\ (Count(t) = 0 <=> Matches(t) = {})
<1>1. IsFiniteSet(Matches(t))
  BY FindsType
<1> QED
  BY <1>1, FS_CardinalityType, FS_EmptySet DEF Count

\* Nothing found, nothing changed
LEMMA CleanStays ==
    ASSUME NEW t \in Seq(Char), NEW sentences, Count(t) = 0
    PROVE  Redact(t, sentences) = t
<1>1. Entities(t) = {} /\ Terms(t) = {}
  BY CountType DEF Matches
<1>2. Spans(t, sentences) = {}
  BY <1>1 DEF Spans, Matches
<1>3. \A i : MarkOf(t, Spans(t, sentences), i) = t[i]
  BY <1>2 DEF MarkOf, Over
<1>4. Char \subseteq Mark
  BY DEF Mark
<1>5. t \in Seq(Mark)
  BY <1>4, SeqMonotonic
<1>6. Marks(t, sentences) = t
  BY <1>3, <1>5, MarksAre, SeqEqual
<1> QED
  BY <1>6, CharIsLetter, WrittenWhole DEF Redact

\* What is found is covered
LEMMA FoundIsCovered ==
    ASSUME NEW t \in Seq(Char), NEW sentences \in BOOLEAN, Count(t) # 0
    PROVE  \E p \in 1..Len(t) : Over(Spans(t, sentences), p)
<1>1. PICK s \in Matches(t) : TRUE
  BY CountType
<1>2. s = <<s[1], s[2]>> /\ s[1] \in Place /\ s[2] \in Place
  BY FindsType
<1>3. s[1] <= s[2] /\ s[1] \in 1..Len(t)
  <2>1. CASE s \in Entities(t)
    BY <2>1 DEF Entities, Stretches
  <2>2. CASE s \in Terms(t)
    <3>1. s[1] = s[2] /\ s[1] \in 1..Len(t)
      BY <1>2, <2>2, TermIs
    <3> QED
      BY <3>1, <1>2 DEF Place
  <2> QED
    BY <1>1, <2>1, <2>2 DEF Matches
<1>4. CASE s \in Spans(t, sentences)
  BY <1>2, <1>3, <1>4 DEF Over, Place
<1>5. CASE s \notin Spans(t, sentences)
  <2>1. sentences /\ s \in Terms(t)
    BY <1>1, <1>5 DEF Spans, Matches
  <2>2. t[s[1]] \in Char \ {Stop}
    BY <2>1, <1>2, TermIs DEF Char, Term, Stop
  <2>3. PICK i, j \in Place : i <= s[1] /\ s[1] <= j /\ <<i, j>> \in Sentences(t)
    BY <2>2, <1>3, StretchAround DEF Sentences
  <2>4. <<i, j>>[1] = i /\ <<i, j>>[2] = j
    OBVIOUS
  <2>5. <<i, j>> \in Spans(t, sentences)
    BY <2>1, <2>3, <2>4 DEF Spans
  <2> QED
    BY <1>3, <2>3, <2>4, <2>5 DEF Over
<1> QED
  BY <1>4, <1>5

LEMMA FoundShows ==
    ASSUME NEW t \in Seq(Char), NEW sentences \in BOOLEAN, Count(t) # 0
    PROVE  Masked(Redact(t, sentences))
<1> DEFINE S == Spans(t, sentences)
           P == {p \in 1..Len(t) : Over(S, p)}
<1>1. Len(t) \in Nat
  BY LenProperties
<1>2. PICK p \in P : \A k \in P : p <= k
  <2>1. P \in SUBSET Nat /\ P # {}
    BY <1>1, FoundIsCovered
  <2> QED
    BY <2>1, LeastOf
<1>3. p \in 1..Len(t) /\ Over(S, p)
  BY <1>2
<1>4. ~GoesOn(S, p)
  <2> SUFFICES ASSUME NEW s \in S, s[1] <= p - 1, p - 1 <= s[2] PROVE FALSE
    BY DEF GoesOn
  <2>1. s[1] \in Place
    BY FindsType
  <2>2. p - 1 \in 1..Len(t) /\ ~(p <= p - 1)
    BY <2>1, <1>1, <1>3 DEF Place
  <2>3. Over(S, p - 1)
    BY DEF Over
  <2>4. p - 1 \in P
    BY <2>2, <2>3
  <2> QED
    BY <2>2, <2>4, <1>2
<1>5. Marks(t, sentences)[p] = OMISSIS
  BY <1>3, <1>4, MarksAre DEF MarkOf
<1>6. Marks(t, sentences) \in Seq(Mark) /\ p \in 1..Len(Marks(t, sentences))
  BY <1>3, MarksAre
<1>7. Masked(Marks(t, sentences))
  BY <1>5, <1>6 DEF Masked
<1> QED
  BY <1>6, <1>7, MaskStays DEF Redact

\* A text is left as it is exactly when nothing is found in it
LEMMA CleanIs ==
    ASSUME NEW t \in Seq(Char), NEW sentences \in BOOLEAN
    PROVE  /\ Count(t) = 0 <=> Redact(t, sentences) = t
           /\ Count(t) = 0 <=> ~Masked(Redact(t, sentences))
BY CleanStays, FoundShows, CharIsLetter

(***************************************************************************)
(* Runs: a run of digits too long for an entity, and the text before and   *)
(* after a run of a kind.                                                  *)
(***************************************************************************)
LEMMA AllOneKind ==
    ASSUME NEW t \in Seq(Char), NEW kind, \A m \in 1..Len(t) : t[m] \in kind,
           NEW i \in Place, NEW j \in Place
    PROVE  <<i, j>> \in Stretches(t, kind) <=> i = 1 /\ j = Len(t)
<1>1. Len(t) \in Nat
  BY LenProperties
<1>2. ASSUME <<i, j>> \in Stretches(t, kind) PROVE i = 1 /\ j = Len(t)
  <2>1. /\ i <= j /\ j <= Len(t) /\ (i = 1 \/ t[i - 1] \notin kind)
        /\ j = Len(t) \/ t[j + 1] \notin kind
    BY <1>2, StretchIs
  <2>2. i # 1 => i - 1 \in 1..Len(t)
    BY <2>1, <1>1 DEF Place
  <2>3. j # Len(t) => j + 1 \in 1..Len(t)
    BY <2>1, <1>1 DEF Place
  <2> QED
    BY <2>1, <2>2, <2>3
<1>3. ASSUME i = 1, j = Len(t) PROVE <<i, j>> \in Stretches(t, kind)
  <2>1. i <= j /\ j <= Len(t) /\ \A m \in i..j : t[m] \in kind
    BY <1>3, <1>1 DEF Place
  <2> QED
    BY <2>1, <1>3, StretchIs
<1> QED
  BY <1>2, <1>3

LEMMA RunIsText ==
    ASSUME NEW kind \in SUBSET Char, NEW r \in Seq(kind)
    PROVE  r \in Seq(Char) /\ \A m \in 1..Len(r) : r[m] \in kind
BY SeqMonotonic, ElementOfSeq

LEMMA LongRun ==
    ASSUME NEW r \in Seq({Digit}), Len(r) > MaxLen
    PROVE  Count(r) = 0
<1>1. r \in Seq(Char) /\ \A m \in 1..Len(r) : r[m] = Digit
  <2>1. {Digit} \in SUBSET Char
    BY DEF Char
  <2> QED
    BY <2>1, RunIsText
<1>2. Entities(r) \subseteq Place \X Place /\ Len(r) \in Nat
  BY <1>1, FindsType, LenProperties
<1>3. ASSUME NEW i \in Place, NEW j \in Place PROVE <<i, j>> \notin Entities(r)
  <2>1. <<i, j>> \in Stretches(r, {Digit}) => i = 1 /\ j = Len(r)
    BY <1>1, AllOneKind
  <2>2. j = Len(r) /\ i = 1 => j - i + 1 \notin MinLen..MaxLen
    BY <1>2, WindowHoldsAnEntity
  <2> QED
    BY <2>1, <2>2, EntityIs
<1>4. Entities(r) = {}
  <2>1. ASSUME NEW s \in Entities(r) PROVE FALSE
    <3>1. s = <<s[1], s[2]>> /\ s[1] \in Place /\ s[2] \in Place
      BY <2>1, <1>2
    <3> QED
      BY <3>1, <2>1, <1>3
  <2> QED
    BY <2>1
<1>5. Terms(r) = {}
  BY <1>1 DEF Terms, Digit, Term
<1> QED
  BY <1>1, <1>4, <1>5, CountType DEF Matches

LEMMA TextAppend ==
    \A a \in Seq(Char), b \in Seq(Char), c \in Char : a \o Append(b, c) = Append(a \o b, c)
BY ConcatAppend

\* A text ends with a run of a kind, which may be empty
LEMMA Trailing ==
    ASSUME NEW kind \in SUBSET Char, NEW t \in Seq(Char)
    PROVE  \E u \in Seq(Char), r \in Seq(kind) :
              t = u \o r /\ (Len(u) > 0 => u[Len(u)] \notin kind)
<1> DEFINE Splits(s, u, r) == s = u \o r /\ (Len(u) > 0 => u[Len(u)] \notin kind)
           G == {s \in Seq(Char) : \E u \in Seq(Char), r \in Seq(kind) : Splits(s, u, r)}
<1>1. <<>> \in G
  <2>1. <<>> \in Seq(Char) /\ <<>> \in Seq(kind) /\ Len(<<>>) = 0
    BY EmptySeq
  <2>2. Splits(<<>>, <<>>, <<>>)
    BY <2>1
  <2> HIDE DEF Splits
  <2> QED
    BY <2>1, <2>2
<1>2. ASSUME NEW s \in G, NEW c \in Char PROVE Append(s, c) \in G
  <2>1. PICK u \in Seq(Char), r \in Seq(kind) : Splits(s, u, r)
    OBVIOUS
  <2>2. s \in Seq(Char) /\ Append(s, c) \in Seq(Char) /\ r \in Seq(Char)
    BY AppendProperties, SeqMonotonic
  <2>3. CASE c \in kind
    <3>1. Append(r, c) \in Seq(kind)
      BY <2>3, AppendProperties
    <3>2. Append(s, c) = u \o Append(r, c)
      <4>1. s = u \o r
        BY <2>1
      <4> HIDE DEF Splits
      <4> QED
        BY <4>1, <2>2, TextAppend
    <3>3. Splits(Append(s, c), u, Append(r, c))
      BY <3>2, <2>1
    <3> HIDE DEF Splits
    <3> QED
      BY <3>1, <3>3, <2>2
  <2>4. CASE c \notin kind
    <3>1. <<>> \in Seq(kind) /\ Append(s, c) = Append(s, c) \o <<>>
      BY <2>2, EmptySeq, ConcatEmptySeq
    <3>2. Append(s, c)[Len(Append(s, c))] = c
      BY <2>2, AppendProperties
    <3>3. Splits(Append(s, c), Append(s, c), <<>>)
      BY <3>1, <3>2, <2>4
    <3> HIDE DEF Splits
    <3> QED
      BY <3>1, <3>3, <2>2
  <2> QED
    BY <2>3, <2>4
<1> HIDE DEF G
<1>3. t \in G
  BY <1>1, <1>2, ByAppending
<1> QED
  BY <1>3 DEF G

\* and begins with one
LEMMA Leading ==
    ASSUME NEW kind \in SUBSET Char, NEW t \in Seq(Char)
    PROVE  \E r \in Seq(kind), y \in Seq(Char) :
              t = r \o y /\ (Len(y) > 0 => y[1] \notin kind)
<1> DEFINE Splits(s, r, y) == s = r \o y /\ (Len(y) > 0 => y[1] \notin kind)
           G == {s \in Seq(Char) : \E r \in Seq(kind), y \in Seq(Char) : Splits(s, r, y)}
<1>1. <<>> \in G
  <2>1. <<>> \in Seq(Char) /\ <<>> \in Seq(kind) /\ Len(<<>>) = 0
    BY EmptySeq
  <2>2. Splits(<<>>, <<>>, <<>>)
    BY <2>1
  <2> HIDE DEF Splits
  <2> QED
    BY <2>1, <2>2
<1>2. ASSUME NEW s \in G, NEW c \in Char PROVE Append(s, c) \in G
  <2>1. PICK r \in Seq(kind), y \in Seq(Char) : Splits(s, r, y)
    OBVIOUS
  <2>2. /\ s \in Seq(Char) /\ Append(s, c) \in Seq(Char) /\ r \in Seq(Char)
        /\ Append(y, c) \in Seq(Char) /\ Len(y) \in Nat
    BY AppendProperties, SeqMonotonic, LenProperties
  <2>3. CASE y = <<>> /\ c \in kind
    <3>1. Append(r, c) \in Seq(kind) /\ <<>> \in Seq(Char) /\ Len(<<>>) = 0
      BY <2>3, AppendProperties, EmptySeq
    <3>2. s = r /\ Append(r, c) \in Seq(Char)
      BY <2>1, <2>3, <2>2, ConcatEmptySeq, AppendProperties
    <3>3. Append(s, c) = Append(r, c) \o <<>>
      BY <3>2, ConcatEmptySeq
    <3>4. Splits(Append(s, c), Append(r, c), <<>>)
      BY <3>1, <3>3
    <3> HIDE DEF Splits
    <3> QED
      BY <3>1, <3>4, <2>2
  <2>4. CASE ~(y = <<>> /\ c \in kind)
    <3>1. Append(s, c) = r \o Append(y, c)
      <4>1. s = r \o y
        BY <2>1
      <4> HIDE DEF Splits
      <4> QED
        BY SMTT(40), <4>1, <2>2, TextAppend
    <3>2. Append(y, c)[1] \notin kind
      <4>1. CASE y = <<>>
        <5>1. Append(y, c)[1] = c
          BY <4>1
        <5> QED
          BY <5>1, <4>1, <2>4
      <4>2. CASE y # <<>>
        <5>1. Len(y) > 0 /\ 1 \in 1..Len(y)
          BY <4>2, EmptySeq
        <5>2. Append(y, c)[1] = y[1]
          BY <5>1, AppendProperties
        <5> QED
          BY <5>1, <5>2, <2>1
      <4> QED
        BY <4>1, <4>2
    <3>3. Splits(Append(s, c), r, Append(y, c))
      BY <3>1, <3>2
    <3> HIDE DEF Splits
    <3> QED
      BY <3>3, <2>2
  <2> QED
    BY <2>3, <2>4
<1> HIDE DEF G
<1>3. t \in G
  BY <1>1, <1>2, ByAppending
<1> QED
  BY <1>3 DEF G

(***************************************************************************)
(* The algebra of texts, with the operators on sequences out of sight of   *)
(* the provers.                                                            *)
(***************************************************************************)
Text(a) == a \in Seq(Char)
Run(a, kind) == a \in Seq(kind)
Join(a, b) == a \o b
Ends(a, kind) == a # <<>> => a[Len(a)] \notin kind
Begins(a, kind) == a # <<>> => a[1] \notin kind
Digits == {Digit}

LEMMA TextJoin ==
    /\ \A a, b : Text(a) /\ Text(b) => Text(Join(a, b)) /\ Len(Join(a, b)) = Len(a) + Len(b)
    /\ \A a, b, c : Text(a) /\ Text(b) /\ Text(c) => Join(Join(a, b), c) = Join(a, Join(b, c))
    /\ \A a : Text(a) => Join(a, <<>>) = a /\ Join(<<>>, a) = a
    /\ Text(<<>>)
BY ConcatProperties, ConcatAssociative, ConcatEmptySeq, EmptySeq DEF Text, Join

LEMMA TextLen == \A a : Text(a) => Len(a) \in Nat /\ (a # <<>> <=> Len(a) > 0)
<1> SUFFICES ASSUME NEW a, Text(a) PROVE Len(a) \in Nat /\ (a # <<>> <=> Len(a) > 0)
  OBVIOUS
<1>1. a # <<>> => Len(a) \in Nat \ {0}
  BY EmptySeq DEF Text
<1>2. a = <<>> => Len(a) = 0
  BY EmptySeq
<1> QED
  BY <1>1, <1>2

LEMMA RunJoin ==
    /\ \A kind, a, b : Run(a, kind) /\ Run(b, kind) => Run(Join(a, b), kind)
    /\ \A kind \in SUBSET Char : \A a : Run(a, kind) => Text(a)
    /\ Digits \in SUBSET Char
<1>1. \A kind, a, b : Run(a, kind) /\ Run(b, kind) => Run(Join(a, b), kind)
  BY ConcatProperties DEF Run, Join
<1>2. \A kind \in SUBSET Char : \A a : Run(a, kind) => Text(a)
  BY SeqMonotonic DEF Run, Text
<1>3. Digits \in SUBSET Char
  BY DEF Digits, Char
<1> QED
  BY <1>1, <1>2, <1>3

\* A text ends, and begins, with a run of a kind, which may be empty
LEMMA Parted ==
    ASSUME NEW kind \in SUBSET Char, NEW t, Text(t)
    PROVE  /\ \E u, r : Text(u) /\ Run(r, kind) /\ t = Join(u, r) /\ Ends(u, kind)
           /\ \E r, y : Text(y) /\ Run(r, kind) /\ t = Join(r, y) /\ Begins(y, kind)
<1>1. PICK u \in Seq(Char), r \in Seq(kind) :
             t = u \o r /\ (Len(u) > 0 => u[Len(u)] \notin kind)
  BY Trailing DEF Text
<1>2. Ends(u, kind)
  BY <1>1, TextLen DEF Ends, Text
<1>3. PICK q \in Seq(kind), y \in Seq(Char) :
             t = q \o y /\ (Len(y) > 0 => y[1] \notin kind)
  BY Leading DEF Text
<1>4. Begins(y, kind)
  BY <1>3, TextLen DEF Begins, Text
<1>5. Text(u) /\ Run(r, kind) /\ t = Join(u, r)
  BY <1>1 DEF Text, Run, Join
<1>6. Text(y) /\ Run(q, kind) /\ t = Join(q, y)
  BY <1>3 DEF Text, Run, Join
<1> QED
  BY <1>2, <1>4, <1>5, <1>6

\* A text that ends, or begins, with another kind is apart
LEMMA EndsApart ==
    ASSUME NEW kind, NEW u, Text(u), Ends(u, kind)
    PROVE  /\ \A c : Apart(u, c, kind)
           /\ u # <<>> => \A a, c : Text(a) => Apart(Join(a, u), c, kind)
<1>1. ASSUME NEW c PROVE Apart(u, c, kind)
  BY TextLen DEF Ends, Apart
<1>2. ASSUME u # <<>>, NEW a, NEW c, Text(a) PROVE Apart(Join(a, u), c, kind)
  <2>1. Len(u) > 0 /\ Len(u) \in Nat /\ Len(a) \in Nat
    BY <1>2, TextLen
  <2>2. Len(Join(a, u)) = Len(a) + Len(u) /\ Len(a) + Len(u) \in Place
        /\ Len(a) + Len(u) > Len(a) /\ (Len(a) + Len(u)) - Len(a) = Len(u)
    BY <2>1, <1>2, TextJoin DEF Place
  <2>3. (a \o u)[Len(a) + Len(u)] = u[(Len(a) + Len(u)) - Len(a)]
    BY <2>2, <2>1, <1>2, Joined DEF Text
  <2>4. Join(a, u)[Len(Join(a, u))] = u[Len(u)]
    BY <2>2, <2>3 DEF Join
  <2> QED
    BY <2>4, <1>2 DEF Apart, Ends
<1> QED
  BY <1>1, <1>2

LEMMA BeginsApart ==
    ASSUME NEW kind, NEW y, Text(y), Begins(y, kind)
    PROVE  \A a : Apart(a, y, kind)
BY TextLen DEF Begins, Apart

LEMMA CountJoin ==
    /\ \A a, c : Text(a) /\ Text(c) /\ Apart(a, c, Digits) =>
                   Count(Join(a, c)) = Count(a) + Count(c)
    /\ \A a : Text(a) => Count(a) \in Nat
    /\ \A r : Run(r, Digits) /\ Len(r) > MaxLen => Count(r) = 0
BY CountConcat, CountType, LongRun DEF Text, Join, Run, Digits

(***************************************************************************)
(* A long piece keeps what comes before it from what comes after: what is  *)
(* counted in the whole is what is counted up to its end and from its      *)
(* start, less what is counted in it.                                      *)
(***************************************************************************)
LEMMA CountOn ==
    ASSUME NEW x, NEW b, NEW z, Text(x), Text(b), Text(z), x = <<>> \/ Len(b) > MaxLen
    PROVE  Count(Join(x, Join(b, z))) + Count(b) = Count(Join(b, z)) + Count(Join(x, b))
<1>1. CASE x = <<>>
  <2>1. Join(x, Join(b, z)) = Join(b, z) /\ Join(x, b) = b /\ Text(Join(b, z))
    BY <1>1, TextJoin
  <2>2. Count(Join(b, z)) \in Nat /\ Count(b) \in Nat
    BY <2>1, CountJoin
  <2> QED
    BY <2>1, <2>2
<1>2. CASE Len(b) > MaxLen
  <2>1. PICK u, r : Text(u) /\ Run(r, Digits) /\ b = Join(u, r) /\ Ends(u, Digits)
    BY RunJoin, Parted
  <2>2. Text(r)
    BY <2>1, RunJoin
  <2>3. CASE u # <<>>
    <3>1. \A c : Apart(Join(x, u), c, Digits) /\ Apart(u, c, Digits)
      BY <2>1, <2>3, EndsApart
    <3>2. Text(Join(x, u)) /\ Text(Join(r, z))
      BY <2>1, <2>2, TextJoin
    <3>3. /\ Join(x, Join(b, z)) = Join(Join(x, u), Join(r, z))
          /\ Join(x, b) = Join(Join(x, u), r) /\ Join(b, z) = Join(u, Join(r, z))
      BY <2>1, <2>2, TextJoin
    <3>4. /\ Count(Join(x, Join(b, z))) = Count(Join(x, u)) + Count(Join(r, z))
          /\ Count(Join(x, b)) = Count(Join(x, u)) + Count(r)
          /\ Count(Join(b, z)) = Count(u) + Count(Join(r, z))
          /\ Count(b) = Count(u) + Count(r)
      BY <3>1, <3>2, <3>3, <2>1, <2>2, CountJoin
    <3>5. /\ Count(Join(x, u)) \in Nat /\ Count(Join(r, z)) \in Nat
          /\ Count(u) \in Nat /\ Count(r) \in Nat
      BY <3>2, <2>1, <2>2, CountJoin
    <3> QED
      BY <3>4, <3>5
  <2>4. CASE u = <<>>
    <3>1. b = r /\ Run(b, Digits)
      BY <2>1, <2>2, <2>4, TextJoin
    <3>2. PICK y, p : Text(y) /\ Run(p, Digits) /\ x = Join(y, p) /\ Ends(y, Digits)
      BY RunJoin, Parted
    <3>3. PICK q, w : Text(w) /\ Run(q, Digits) /\ z = Join(q, w) /\ Begins(w, Digits)
      BY RunJoin, Parted
    <3>4. Text(p) /\ Text(q)
      BY <3>2, <3>3, RunJoin
    <3>5. /\ Run(Join(p, b), Digits) /\ Run(Join(b, q), Digits)
          /\ Run(Join(p, Join(b, q)), Digits)
      BY <3>1, <3>2, <3>3, RunJoin
    <3>6. /\ Text(Join(p, b)) /\ Text(Join(b, q)) /\ Text(Join(p, Join(b, q)))
          /\ Text(Join(Join(p, Join(b, q)), w))
      BY <3>3, <3>4, TextJoin
    <3>7. Len(Join(p, b)) > MaxLen /\ Len(Join(b, q)) > MaxLen /\ Len(Join(p, Join(b, q))) > MaxLen
      <4>1. Len(p) \in Nat /\ Len(b) \in Nat /\ Len(q) \in Nat
        BY <3>4, TextLen
      <4>2. Len(Join(p, b)) = Len(p) + Len(b) /\ Len(Join(b, q)) = Len(b) + Len(q)
        BY <3>4, TextJoin
      <4>3. Len(Join(p, Join(b, q))) = Len(p) + Len(Join(b, q))
        BY <3>4, <3>6, TextJoin
      <4> QED
        BY <4>1, <4>2, <4>3, <1>2, WindowHoldsAnEntity
    <3>8. /\ Count(Join(p, b)) = 0 /\ Count(Join(b, q)) = 0
          /\ Count(Join(p, Join(b, q))) = 0 /\ Count(b) = 0
      BY <3>5, <3>7, <3>1, <1>2, CountJoin
    <3>9. /\ Join(x, b) = Join(y, Join(p, b)) /\ Join(b, z) = Join(Join(b, q), w)
          /\ Join(x, Join(b, z)) = Join(y, Join(Join(p, Join(b, q)), w))
      <4>1. Join(x, b) = Join(y, Join(p, b)) /\ Join(b, z) = Join(Join(b, q), w)
        BY <3>2, <3>3, <3>4, TextJoin
      <4>2. Join(p, Join(b, z)) = Join(Join(p, Join(b, q)), w)
        BY <4>1, <3>3, <3>4, <3>6, TextJoin
      <4>3. Join(x, Join(b, z)) = Join(y, Join(p, Join(b, z)))
        BY <4>1, <3>2, <3>3, <3>4, <3>6, TextJoin
      <4> QED
        BY <4>1, <4>2, <4>3
    <3>10. /\ \A c : Apart(y, c, Digits)
           /\ \A a : Apart(a, w, Digits)
      BY <3>2, <3>3, EndsApart, BeginsApart
    <3>11. /\ Count(Join(x, b)) = Count(y) + Count(Join(p, b))
           /\ Count(Join(b, z)) = Count(Join(b, q)) + Count(w)
           /\ Count(Join(x, Join(b, z))) = Count(y) + Count(Join(Join(p, Join(b, q)), w))
           /\ Count(Join(Join(p, Join(b, q)), w)) = Count(Join(p, Join(b, q))) + Count(w)
      BY <3>2, <3>3, <3>6, <3>9, <3>10, CountJoin
    <3>12. Count(y) \in Nat /\ Count(w) \in Nat
      BY <3>2, <3>3, CountJoin
    <3> QED
      BY <3>11, <3>12, <3>8
  <2> QED
    BY <2>3, <2>4
<1> QED
  BY <1>1, <1>2

(***************************************************************************)
(* A text that is one span is one mask.                                    *)
(***************************************************************************)
LEMMA OneSpan ==
    ASSUME NEW t \in Seq(Char), NEW sentences \in BOOLEAN, t # <<>>,
           <<1, Len(t)>> \in Spans(t, sentences)
    PROVE  Redact(t, sentences) = <<OMISSIS>>
<1> DEFINE S == Spans(t, sentences)
           marks == Marks(t, sentences)
<1>1. /\ S \subseteq Place \X Place /\ Len(t) \in Nat /\ Len(t) > 0
  BY FindsType, TextLen
<1> HIDE DEF S
<1>2. PICK span \in S : span[1] = 1 /\ span[2] = Len(t)
  <2>1. <<1, Len(t)>> \in S
    BY DEF S
  <2> QED
    BY <2>1
<1>3. \A i \in 1..Len(t) : Over(S, i) /\ (GoesOn(S, i) <=> i # 1)
  <2> TAKE i \in 1..Len(t)
  <2>1. Over(S, i)
    BY <1>2, <1>1 DEF Over
  <2>2. i # 1 => GoesOn(S, i)
    BY <1>2, <1>1 DEF GoesOn
  <2>3. \A s \in S : ~(s[1] <= 1 - 1)
    <3> TAKE s \in S
    <3>1. s[1] \in Place
      BY <1>1
    <3> QED
      BY <3>1 DEF Place
  <2>4. ~GoesOn(S, 1)
    BY <2>3 DEF GoesOn
  <2> QED
    BY <2>1, <2>2, <2>4
<1>4. marks \in Seq(Mark) /\ Len(marks) = Len(t) /\ Len(marks) \in Nat
  BY MarksAre, <1>1
<1>13. \A i \in 1..Len(t) : marks[i] = IF i = 1 THEN OMISSIS ELSE ""
  <2>1. \A i \in 1..Len(t) : marks[i] = MarkOf(t, S, i)
    BY MarksAre DEF S
  <2>2. \A i \in 1..Len(t) : MarkOf(t, S, i) = IF i = 1 THEN OMISSIS ELSE ""
    BY <1>3 DEF MarkOf
  <2> QED
    BY <2>1, <2>2
<1> HIDE DEF marks
<1> DEFINE rest == Tail(marks)
<1>5. marks # <<>>
  BY <1>4, <1>1, EmptySeq
<1>6. rest \in Seq(Mark) /\ Len(rest) = Len(marks) - 1
  BY <1>4, <1>5, HeadTailProperties
<1>14. \A i \in 1..Len(rest) : rest[i] = marks[i + 1]
  BY <1>4, <1>5, HeadTailProperties
<1> HIDE DEF rest
<1>7. \A i \in 1..Len(rest) : rest[i] = ""
  <2> TAKE i \in 1..Len(rest)
  <2>1. i + 1 \in 1..Len(t) /\ i + 1 # 1
    BY <1>6, <1>4
  <2> QED
    BY <2>1, <1>14, <1>13
<1>8. rest \in Seq({""})
  <2>1. Len(rest) \in Nat /\ rest = [i \in 1..Len(rest) |-> rest[i]]
    BY <1>6, LenProperties
  <2>2. [i \in 1..Len(rest) |-> rest[i]] = [i \in 1..Len(rest) |-> ""]
    BY <1>7
  <2>3. [i \in 1..Len(rest) |-> ""] \in Seq({""})
    BY <2>1
  <2> QED
    BY <2>1, <2>2, <2>3
<1>9. <<OMISSIS>> \in Seq(Mark) /\ OMISSIS \in Mark /\ <<OMISSIS>> \in Seq(Letter)
  BY DEF Mark, Letter
<1>10. marks = <<OMISSIS>> \o rest
  <2>1. 1 \in 1..Len(marks) /\ Len(marks) \in 1..Len(marks)
    BY <1>4, <1>1
  <2>2. SubSeq(marks, 1, Len(marks)) = <<marks[1]>> \o SubSeq(marks, 2, Len(marks))
    <3>1. SubSeq(marks, 1, Len(marks)) = <<marks[1]>> \o SubSeq(marks, 1 + 1, Len(marks))
      BY <2>1, <1>4, SubSeqRecursiveFirst
    <3> QED
      BY <3>1
  <2>3. SubSeq(marks, 1, Len(marks)) = marks /\ SubSeq(marks, 2, Len(marks)) = rest
    BY <1>4, <1>5, SubSeqFull, TailIsSubSeq DEF rest
  <2>4. marks[1] = OMISSIS
    BY <2>1, <1>4, <1>13
  <2> QED
    BY <2>2, <2>3, <2>4
<1>11. Written(marks) = Written(<<OMISSIS>>) \o Written(rest)
  BY <1>10, <1>9, <1>6, WrittenConcat
<1>12. Written(<<OMISSIS>>) = <<OMISSIS>> /\ Written(rest) = <<>>
  BY <1>9, <1>8, WrittenWhole, WrittenNone
<1> QED
  BY <1>11, <1>12, <1>9, ConcatEmptySeq DEF Redact, marks

(***************************************************************************)
(* The algebra of what is written, and of redaction over it.               *)
(***************************************************************************)
Wrote(a) == a \in Seq(Letter)
NoTerm(t) == Terms(t) = {}

LEMMA WroteJoin ==
    /\ \A a, b : Wrote(a) /\ Wrote(b) => Wrote(Join(a, b)) /\ Len(Join(a, b)) = Len(a) + Len(b)
    /\ \A a, b, c : Wrote(a) /\ Wrote(b) /\ Wrote(c) => Join(Join(a, b), c) = Join(a, Join(b, c))
    /\ \A a : Wrote(a) => Join(a, <<>>) = a /\ Join(<<>>, a) = a
    /\ \A a : Text(a) => Wrote(a) /\ ~Masked(a)
    /\ \A a, b : Wrote(a) /\ Wrote(b) => (Masked(Join(a, b)) <=> Masked(a) \/ Masked(b))
    /\ Wrote(<<>>) /\ Wrote(<<OMISSIS>>)
<1>1. \A a, b : Wrote(a) /\ Wrote(b) => Wrote(Join(a, b)) /\ Len(Join(a, b)) = Len(a) + Len(b)
  BY ConcatProperties DEF Wrote, Join
<1>2. \A a, b, c : Wrote(a) /\ Wrote(b) /\ Wrote(c) => Join(Join(a, b), c) = Join(a, Join(b, c))
  BY ConcatAssociative DEF Wrote, Join
<1>3. \A a : Wrote(a) => Join(a, <<>>) = a /\ Join(<<>>, a) = a
  BY ConcatEmptySeq DEF Wrote, Join
<1>4. \A a : Text(a) => Wrote(a) /\ ~Masked(a)
  BY CharIsLetter DEF Wrote, Text
<1>5. \A a, b : Wrote(a) /\ Wrote(b) => (Masked(Join(a, b)) <=> Masked(a) \/ Masked(b))
  BY MaskedConcat DEF Wrote, Join
<1>6. Wrote(<<>>) /\ Wrote(<<OMISSIS>>)
  <2>1. OMISSIS \in Letter
    BY DEF Letter
  <2> QED
    BY <2>1, EmptySeq DEF Wrote
<1> QED
  BY <1>1, <1>2, <1>3, <1>4, <1>5, <1>6

LEMMA CancelJoin ==
    ASSUME NEW a, NEW b, NEW c, Wrote(a), Wrote(b), Wrote(c)
    PROVE  (Join(a, c) = Join(b, c) => a = b) /\ (Join(c, a) = Join(c, b) => a = b)
BY ConcatSimplifications DEF Wrote, Join

LEMMA RedactJoin ==
    ASSUME NEW s \in BOOLEAN
    PROVE  /\ \A a, c : Text(a) /\ Text(c) /\ Good(a, c, s) =>
                           Redact(Join(a, c), s) = Join(Redact(a, s), Redact(c, s))
           /\ \A a : Text(a) => Wrote(Redact(a, s))
           /\ \A a : Text(a) /\ Count(a) = 0 => Redact(a, s) = a
           /\ \A a : Text(a) => (Count(a) = 0 <=> ~Masked(Redact(a, s)))
           /\ Redact(<<>>, s) = <<>> /\ Count(<<>>) = 0
BY RedactConcat, RedactType, CleanIs, RedactEmpty, CountEmpty DEF Text, Join, Wrote

LEMMA TermJoin ==
    /\ \A a, c : Text(a) /\ Text(c) => (NoTerm(Join(a, c)) <=> NoTerm(a) /\ NoTerm(c))
    /\ \A a : \A s, f \in BOOLEAN : Text(a) /\ NoTerm(a) => Redact(a, s) = Redact(a, f)
    /\ \A a : Text(a) /\ Count(a) = 0 => NoTerm(a)
<1>1. ASSUME NEW a, NEW c, Text(a), Text(c)
      PROVE  NoTerm(Join(a, c)) <=> NoTerm(a) /\ NoTerm(c)
  <2> DEFINE n == Len(a)
             T == Terms(Join(a, c))
             A == Terms(a)
             C == Terms(c)
  <2>1. Parts(T, A, C, n) /\ n \in Nat
    BY <1>1, TermsParts, TextLen DEF Text, Join
  <2> HIDE DEF n, T, A, C
  <2>2. /\ \A s \in A : s = <<s[1], s[2]>> /\ s[1] \in Place /\ s[2] \in Place
        /\ \A s \in C : s = <<s[1], s[2]>> /\ s[1] \in Place /\ s[2] \in Place
        /\ \A s \in T : s = <<s[1], s[2]>> /\ s[1] \in Place /\ s[2] \in Place
    BY <2>1 DEF Parts
  <2>3. /\ \A i, j \in Place : <<i, j>> \in A => <<i, j>> \in T
        /\ \A i, j \in Place : <<i, j>> \in T => <<i, j>> \in A \/ <<i - n, j - n>> \in C
    BY <2>1 DEF Parts
  <2>4. ASSUME NEW i \in Place, NEW j \in Place, <<i, j>> \in C PROVE <<i + n, j + n>> \in T
    <3>1. /\ i + n \in Place /\ j + n \in Place /\ i + n > n /\ j + n > n
          /\ (i + n) - n = i /\ (j + n) - n = j
      BY <2>1 DEF Place
    <3> QED
      BY <3>1, <2>4, <2>1 DEF Parts
  <2>5. ASSUME T = {} PROVE A = {} /\ C = {}
    <3>1. ASSUME NEW s \in A PROVE FALSE
      <4>1. <<s[1], s[2]>> \in A /\ s[1] \in Place /\ s[2] \in Place
        BY <2>2
      <4> QED
        BY <4>1, <2>3, <2>5
    <3>2. ASSUME NEW s \in C PROVE FALSE
      <4>1. <<s[1], s[2]>> \in C /\ s[1] \in Place /\ s[2] \in Place
        BY <2>2
      <4> QED
        BY <4>1, <2>4, <2>5
    <3> QED
      BY <3>1, <3>2
  <2>6. ASSUME A = {}, C = {} PROVE T = {}
    <3>1. ASSUME NEW s \in T PROVE FALSE
      <4>1. <<s[1], s[2]>> \in T /\ s[1] \in Place /\ s[2] \in Place
        BY <2>2
      <4> QED
        BY <4>1, <2>3, <2>6
    <3> QED
      BY <3>1
  <2> QED
    BY <2>5, <2>6 DEF NoTerm, T, A, C
<1>2. ASSUME NEW a, Text(a), NoTerm(a), NEW s \in BOOLEAN, NEW f \in BOOLEAN
      PROVE  Redact(a, s) = Redact(a, f)
  <2>1. \A h \in BOOLEAN : Spans(a, h) = Entities(a)
    BY <1>2 DEF NoTerm, Spans, Matches
  <2>2. Marks(a, s) = Marks(a, f)
    BY <2>1 DEF Marks
  <2> QED
    BY <2>2 DEF Redact
<1>3. ASSUME NEW a, Text(a), Count(a) = 0 PROVE NoTerm(a)
  BY <1>3, CountType DEF Text, NoTerm, Matches
<1> QED
  BY <1>1, <1>2, <1>3

\* A run of digits is left as it is, or is one mask
LEMMA DigitsRedacted ==
    ASSUME NEW r, Run(r, Digits)
    PROVE  /\ Redact(r, FALSE) = r \/ Redact(r, FALSE) = <<OMISSIS>>
           /\ Text(r) /\ NoTerm(r)
<1>1. r \in Seq(Char) /\ Text(r) /\ Len(r) \in Nat
  BY RunJoin, TextLen DEF Text
<1>2. \A m \in 1..Len(r) : r[m] = Digit
  BY ElementOfSeq DEF Run, Digits
<1>3. Terms(r) = {}
  BY <1>2 DEF Terms, Digit, Term
<1>4. CASE Count(r) = 0
  BY <1>4, <1>1, <1>3, RedactJoin DEF NoTerm
<1>5. CASE Count(r) # 0
  <2>1. Entities(r) # {} /\ Matches(r) = Entities(r)
    BY <1>5, <1>3, <1>1, CountType DEF Matches
  <2>2. PICK s \in Entities(r) : TRUE
    BY <2>1
  <2>3. s = <<s[1], s[2]>> /\ s[1] \in Place /\ s[2] \in Place
    <3>1. Entities(r) \subseteq Place \X Place
      BY <1>1, FindsType
    <3> QED
      BY <3>1
  <2>4. <<s[1], s[2]>> \in Stretches(r, {Digit})
    BY <2>3, <2>2, EntityIs
  <2>5. s[1] = 1 /\ s[2] = Len(r)
    BY <2>3, <2>4, <1>1, <1>2, AllOneKind
  <2>6. r # <<>>
    BY <2>5, <2>3, <1>1, TextLen DEF Place
  <2>7. <<1, Len(r)>> \in Spans(r, FALSE)
    BY <2>5, <2>3, <2>1 DEF Spans
  <2>8. Redact(r, FALSE) = <<OMISSIS>>
    BY <2>6, <2>7, <1>1, OneSpan
  <2> QED
    BY <2>8, <1>1, <1>3 DEF NoTerm
<1> QED
  BY <1>4, <1>5

\* A sentence with a term is one mask
LEMMA SentenceRedacted ==
    ASSUME NEW t, Run(t, Char \ {Stop}), ~NoTerm(t)
    PROVE  Redact(t, TRUE) = <<OMISSIS>>
<1>1. t \in Seq(Char) /\ Text(t) /\ Len(t) \in Nat
  <2>1. Char \ {Stop} \in SUBSET Char
    OBVIOUS
  <2> QED
    BY <2>1, RunJoin, TextLen DEF Text
<1>2. \A m \in 1..Len(t) : t[m] \in Char \ {Stop}
  BY ElementOfSeq DEF Run
<1>3. PICK m \in 1..Len(t) : <<m, m>> \in Terms(t)
  BY DEF NoTerm, Terms
<1>4. 1 \in Place /\ Len(t) \in Place /\ t # <<>>
  BY <1>1, <1>3, TextLen DEF Place
<1>5. <<1, Len(t)>> \in Sentences(t)
  BY <1>1, <1>2, <1>4, AllOneKind DEF Sentences
<1>6. <<1, Len(t)>> \in Named(t)
  BY <1>1, <1>3, <1>4, <1>5, NamedIs
<1>7. <<1, Len(t)>> \in Spans(t, TRUE)
  BY <1>6 DEF Named, Spans
<1> QED
  BY <1>1, <1>4, <1>7, OneSpan

LEMMA PlainJoin ==
    ASSUME NEW s \in BOOLEAN, ~s
    PROVE  \A a, c : Text(a) /\ Text(c) /\ Apart(a, c, Digits) =>
                        Redact(Join(a, c), s) = Join(Redact(a, s), Redact(c, s))
BY RedactJoin DEF Good, Digits

(***************************************************************************)
(* A long piece keeps what was let out before it from what comes after: if *)
(* what is written of a text is something and then what is written of its  *)
(* end, it stays so however the text goes on.  Without sentences, first.   *)
(***************************************************************************)
LEMMA PlainOn ==
    ASSUME NEW x, NEW b, NEW z, NEW e, NEW s \in BOOLEAN, ~s,
           Text(x), Text(b), Text(z), Wrote(e), Len(b) > MaxLen,
           Redact(Join(x, b), s) = Join(e, Redact(b, s))
    PROVE  Redact(Join(x, Join(b, z)), s) = Join(e, Redact(Join(b, z), s))
<1> DEFINE R(t) == Redact(t, s)
<1>1. \A t : Text(t) => Wrote(R(t))
  BY RedactJoin
<1>2. \A a, c : Text(a) /\ Text(c) /\ Apart(a, c, Digits) => R(Join(a, c)) = Join(R(a), R(c))
  BY PlainJoin
<1>3. \A r : Run(r, Digits) /\ Len(r) > MaxLen => R(r) = r
  <2> SUFFICES ASSUME NEW r, Run(r, Digits), Len(r) > MaxLen PROVE R(r) = r
    OBVIOUS
  <2>1. Count(r) = 0 /\ Text(r)
    BY CountJoin, RunJoin
  <2> QED
    BY <2>1, RedactJoin
<1>4. R(Join(x, b)) = Join(e, R(b))
  OBVIOUS
<1> HIDE DEF R
<1>5. PICK u, r : Text(u) /\ Run(r, Digits) /\ b = Join(u, r) /\ Ends(u, Digits)
  BY RunJoin, Parted
<1>6. Text(r)
  BY <1>5, RunJoin
<1>7. CASE u # <<>>
  <2>1. \A c : Apart(Join(x, u), c, Digits) /\ Apart(u, c, Digits)
    BY <1>5, <1>7, EndsApart
  <2>2. Text(Join(x, u)) /\ Text(Join(r, z))
    BY <1>5, <1>6, TextJoin
  <2>3. /\ Join(x, Join(b, z)) = Join(Join(x, u), Join(r, z))
        /\ Join(x, b) = Join(Join(x, u), r) /\ Join(b, z) = Join(u, Join(r, z))
    BY <1>5, <1>6, TextJoin
  <2>4. /\ R(Join(x, Join(b, z))) = Join(R(Join(x, u)), R(Join(r, z)))
        /\ R(Join(x, b)) = Join(R(Join(x, u)), R(r))
        /\ R(Join(b, z)) = Join(R(u), R(Join(r, z)))
        /\ R(b) = Join(R(u), R(r))
    BY <2>1, <2>2, <2>3, <1>5, <1>6, <1>2
  <2>5. /\ Wrote(R(Join(x, u))) /\ Wrote(R(Join(r, z))) /\ Wrote(R(u)) /\ Wrote(R(r))
        /\ Wrote(Join(e, R(u)))
    BY <2>2, <1>1, <1>5, <1>6, WroteJoin
  <2>6. Join(R(Join(x, u)), R(r)) = Join(Join(e, R(u)), R(r))
    BY <2>4, <2>5, <1>4, WroteJoin
  <2>7. R(Join(x, u)) = Join(e, R(u))
    BY <2>5, <2>6, CancelJoin
  <2>8. Join(Join(e, R(u)), R(Join(r, z))) = Join(e, Join(R(u), R(Join(r, z))))
    BY <2>5, WroteJoin
  <2> QED
    BY <2>4, <2>7, <2>8 DEF R
<1>8. CASE u = <<>>
  <2>1. b = r /\ Run(b, Digits)
    BY <1>5, <1>6, <1>8, TextJoin
  <2>2. PICK y, p : Text(y) /\ Run(p, Digits) /\ x = Join(y, p) /\ Ends(y, Digits)
    BY RunJoin, Parted
  <2>3. PICK q, w : Text(w) /\ Run(q, Digits) /\ z = Join(q, w) /\ Begins(w, Digits)
    BY RunJoin, Parted
  <2>4. Text(p) /\ Text(q)
    BY <2>2, <2>3, RunJoin
  <2>5. /\ Run(Join(p, b), Digits) /\ Run(Join(b, q), Digits)
        /\ Run(Join(p, Join(b, q)), Digits)
    BY <2>1, <2>2, <2>3, RunJoin
  <2>6. /\ Text(Join(p, b)) /\ Text(Join(b, q)) /\ Text(Join(p, Join(b, q)))
        /\ Text(Join(Join(p, Join(b, q)), w))
    BY <2>3, <2>4, TextJoin
  <2>7. Len(Join(p, b)) > MaxLen /\ Len(Join(b, q)) > MaxLen /\ Len(Join(p, Join(b, q))) > MaxLen
    <3>1. Len(p) \in Nat /\ Len(b) \in Nat /\ Len(q) \in Nat
      BY <2>4, TextLen
    <3>2. Len(Join(p, b)) = Len(p) + Len(b) /\ Len(Join(b, q)) = Len(b) + Len(q)
      BY <2>4, TextJoin
    <3>3. Len(Join(p, Join(b, q))) = Len(p) + Len(Join(b, q))
      BY <2>4, <2>6, TextJoin
    <3> QED
      BY <3>1, <3>2, <3>3, WindowHoldsAnEntity
  <2>8. /\ R(Join(p, b)) = Join(p, b) /\ R(Join(b, q)) = Join(b, q)
        /\ R(Join(p, Join(b, q))) = Join(p, Join(b, q)) /\ R(b) = b
    BY <2>5, <2>7, <2>1, <1>3
  <2>9. /\ Join(x, b) = Join(y, Join(p, b)) /\ Join(b, z) = Join(Join(b, q), w)
        /\ Join(x, Join(b, z)) = Join(y, Join(Join(p, Join(b, q)), w))
    <3>1. Join(x, b) = Join(y, Join(p, b)) /\ Join(b, z) = Join(Join(b, q), w)
      BY <2>2, <2>3, <2>4, TextJoin
    <3>2. Join(p, Join(b, z)) = Join(Join(p, Join(b, q)), w)
      BY <3>1, <2>3, <2>4, <2>6, TextJoin
    <3>3. Join(x, Join(b, z)) = Join(y, Join(p, Join(b, z)))
      BY <3>1, <2>2, <2>3, <2>4, <2>6, TextJoin
    <3> QED
      BY <3>1, <3>2, <3>3
  <2>10. (\A c : Apart(y, c, Digits)) /\ (\A a : Apart(a, w, Digits))
    BY <2>2, <2>3, EndsApart, BeginsApart
  <2>11. /\ R(Join(x, b)) = Join(R(y), Join(p, b))
         /\ R(Join(b, z)) = Join(Join(b, q), R(w))
         /\ R(Join(x, Join(b, z))) = Join(R(y), Join(Join(p, Join(b, q)), R(w)))
    BY <2>2, <2>3, <2>6, <2>8, <2>9, <2>10, <1>2
  <2>12. /\ Wrote(R(y)) /\ Wrote(R(w)) /\ Wrote(p) /\ Wrote(b) /\ Wrote(q)
         /\ Wrote(Join(b, q)) /\ Wrote(Join(R(y), p)) /\ Wrote(Join(Join(b, q), R(w)))
    BY <2>2, <2>3, <2>4, <1>1, WroteJoin
  <2>13. Join(Join(R(y), p), b) = Join(e, b)
    <3>1. Join(R(y), Join(p, b)) = Join(e, b)
      BY <2>11, <2>8, <1>4
    <3>2. Join(Join(R(y), p), b) = Join(R(y), Join(p, b))
      BY <2>12, WroteJoin
    <3> QED
      BY <3>1, <3>2
  <2>14. Join(R(y), p) = e
    BY <2>12, <2>13, CancelJoin
  <2>15. Join(Join(p, Join(b, q)), R(w)) = Join(p, Join(Join(b, q), R(w)))
    BY <2>12, WroteJoin
  <2>16. Join(R(y), Join(p, Join(Join(b, q), R(w)))) = Join(Join(R(y), p), Join(Join(b, q), R(w)))
    BY <2>12, WroteJoin
  <2> QED
    BY <2>11, <2>14, <2>15, <2>16 DEF R
<1> QED
  BY <1>7, <1>8

(***************************************************************************)
(* With sentences: the end of a sentence keeps what is before it from what *)
(* comes after.                                                            *)
(***************************************************************************)
Within == Char \ {Stop}

LEMMA WithinType ==
    Within \in SUBSET Char /\ Digit \in Within /\ Stop \notin Within /\ Stop \in Char
BY DEF Within, Char, Plain, Digit, Term, Stop

LEMMA StopApart ==
    /\ \A t, c : Text(t) /\ Ends(t, Within) => Good(t, c, TRUE)
    /\ \A a, y : Text(y) /\ Begins(y, Within) => Good(a, y, TRUE)
<1>1. \A t : Ends(t, Within) => Ends(t, Digits)
  BY WithinType DEF Ends, Digits
<1>2. \A t : Begins(t, Within) => Begins(t, Digits)
  BY WithinType DEF Begins, Digits
<1>3. \A t, c : Text(t) /\ Ends(t, Within) => Good(t, c, TRUE)
  BY <1>1, EndsApart DEF Good, Digits, Within
<1>4. \A a, y : Text(y) /\ Begins(y, Within) => Good(a, y, TRUE)
  BY <1>2, BeginsApart DEF Good, Digits, Within
<1> QED
  BY <1>3, <1>4

LEMMA LastOf ==
    ASSUME NEW a, NEW u, Wrote(a), Wrote(u), u # <<>>
    PROVE  /\ Join(a, u)[Len(Join(a, u))] = u[Len(u)]
           /\ Join(a, u) # <<>> /\ Len(u) \in 1..Len(u)
<1>1. a \in Seq(Letter) /\ u \in Seq(Letter) /\ Len(a) \in Nat /\ Len(u) \in Nat /\ Len(u) > 0
  BY LenProperties, EmptySeq DEF Wrote
<1>2. Len(a \o u) = Len(a) + Len(u)
  BY <1>1, ConcatProperties
<1>3. /\ Len(a) + Len(u) \in 1..Len(a) + Len(u) /\ ~(Len(a) + Len(u) <= Len(a))
      /\ (Len(a) + Len(u)) - Len(a) = Len(u) /\ Len(a) + Len(u) # 0
  BY <1>1
<1>4. (a \o u)[Len(a) + Len(u)] = u[(Len(a) + Len(u)) - Len(a)]
  BY <1>1, <1>3, ConcatProperties
<1>5. a \o u # <<>>
  BY <1>2, <1>3, EmptySeq
<1> QED
  BY <1>1, <1>2, <1>3, <1>4, <1>5 DEF Join

\* The end of a sentence is let out as it is
LEMMA StopKept ==
    ASSUME NEW t, Text(t), t # <<>>, Ends(t, Within)
    PROVE  \E A : /\ Wrote(A) /\ Redact(t, TRUE) = Join(A, <<Stop>>)
                  /\ Text(<<Stop>>) /\ <<Stop>> # <<>>
<1>1. t \in Seq(Char)
  BY DEF Text
<1>2. PICK r \in Seq(Char), c \in Char : t = Append(r, c)
  BY <1>1, SequenceEmptyOrAppend
<1>3. t[Len(t)] = c
  BY <1>2, AppendProperties
<1>4. c = Stop
  BY <1>3 DEF Ends, Within
<1>5. Text(r) /\ Text(<<Stop>>) /\ t = Join(r, <<Stop>>) /\ Wrote(<<Stop>>)
  <2>1. <<Stop>> \in Seq(Char) /\ Append(r, Stop) = r \o <<Stop>>
    BY WithinType, AppendIsConcat
  <2> QED
    BY <2>1, <1>2, <1>4, WroteJoin DEF Text, Join
<1>6. Len(<<Stop>>) = 1 /\ <<Stop>>[1] = Stop /\ <<Stop>> # <<>>
  OBVIOUS
<1>7. Begins(<<Stop>>, Within)
  BY <1>6, WithinType DEF Begins
<1>8. Count(<<Stop>>) = 0
  <2>1. <<Stop>> \in Seq(Char)
    BY <1>5 DEF Text
  <2>2. Terms(<<Stop>>) = {}
    BY <1>6 DEF Terms, Stop, Term
  <2>3. Stretches(<<Stop>>, {Digit}) = {}
    <3>1. ASSUME NEW s \in Stretches(<<Stop>>, {Digit}) PROVE FALSE
      <4>1. s[1] \in 1..1 /\ s[2] \in 1..1 /\ \A i \in s[1]..s[2] : <<Stop>>[i] \in {Digit}
        BY <1>6 DEF Stretches
      <4>2. 1 \in s[1]..s[2]
        BY <4>1
      <4> QED
        BY <4>1, <4>2, <1>6 DEF Stop, Digit
    <3> QED
      BY <3>1
  <2>4. Entities(<<Stop>>) = {}
    BY <2>3 DEF Entities
  <2> QED
    BY <2>1, <2>2, <2>4, CountType DEF Matches
<1>9. Redact(<<Stop>>, TRUE) = <<Stop>>
  BY <1>5, <1>8, RedactJoin
<1>10. Good(r, <<Stop>>, TRUE)
  BY <1>5, <1>7, StopApart
<1>11. Redact(t, TRUE) = Join(Redact(r, TRUE), <<Stop>>) /\ Wrote(Redact(r, TRUE))
  <2> DEFINE stop == <<Stop>>
  <2>1. Text(stop) /\ Redact(stop, TRUE) = stop /\ Good(r, stop, TRUE) /\ t = Join(r, stop)
    BY <1>5, <1>9, <1>10
  <2> HIDE DEF stop
  <2>2. Redact(Join(r, stop), TRUE) = Join(Redact(r, TRUE), Redact(stop, TRUE))
    BY <1>5, <2>1, RedactJoin
  <2>3. Redact(t, TRUE) = Join(Redact(r, TRUE), stop) /\ Wrote(Redact(r, TRUE))
    BY <1>5, <2>1, <2>2, RedactJoin
  <2> QED
    BY <2>3 DEF stop
<1> QED
  BY <1>5, <1>6, <1>11

\* A mask that is last is the only one
LEMMA LastMask ==
    ASSUME NEW a, NEW c, NEW v, Wrote(a), Wrote(c), Wrote(v), c # <<>>, ~Masked(v),
           Join(a, c) = Join(v, <<OMISSIS>>)
    PROVE  ~Masked(a)
<1> SUFFICES ASSUME Masked(a) PROVE FALSE
  OBVIOUS
<1>1. /\ Len(a) \in Nat /\ Len(c) \in Nat /\ Len(v) \in Nat /\ Len(c) > 0
  BY LenProperties, EmptySeq DEF Wrote
<1>2. Len(<<OMISSIS>>) = 1 /\ Wrote(<<OMISSIS>>)
  BY WroteJoin
<1>3. Len(a) + Len(c) = Len(v) + 1
  <2>1. Len(Join(a, c)) = Len(a) + Len(c)
    BY WroteJoin
  <2>2. Len(Join(v, <<OMISSIS>>)) = Len(v) + Len(<<OMISSIS>>)
    BY <1>2, WroteJoin
  <2> QED
    BY <2>1, <2>2, <1>2
<1>4. PICK i \in 1..Len(a) : a[i] = OMISSIS
  BY DEF Masked
<1>5. i \in 1..Len(v) /\ i \in 1..Len(a) + Len(c) /\ i \in 1..Len(v) + Len(<<OMISSIS>>)
  BY <1>1, <1>2, <1>3
<1>6. (a \o c)[i] = a[i]
  BY <1>5, ConcatProperties DEF Wrote
<1>7. (v \o <<OMISSIS>>)[i] = v[i]
  BY <1>5, <1>2, ConcatProperties DEF Wrote
<1>8. v[i] = OMISSIS
  BY <1>4, <1>6, <1>7 DEF Join
<1> QED
  BY <1>5, <1>8 DEF Masked

LEMMA BeginsJoin ==
    ASSUME NEW kind, NEW y, NEW c, Text(y), Text(c), y # <<>>, Begins(y, kind)
    PROVE  \A a : Apart(a, Join(y, c), kind)
<1>1. Len(y) \in Nat /\ Len(y) > 0 /\ 1 \in 1..Len(y)
  BY TextLen
<1>2. (y \o c)[1] = y[1]
  BY <1>1, Joined DEF Text
<1> QED
  BY <1>2 DEF Begins, Apart, Join

\* What is written of a piece in which nothing is found, up to its last digits
LEMMA CleanPiece ==
    ASSUME NEW b, NEW z, Text(b), Text(z), Len(b) > MaxLen, Count(Join(b, z)) = 0
    PROVE  \E u, r, w : /\ Text(u) /\ u # <<>> /\ Text(r) /\ b = Join(u, r)
                        /\ Wrote(w) /\ Redact(b, TRUE) = Join(u, w)
                        /\ Masked(w) => w = <<OMISSIS>>
<1>1. PICK u, r : Text(u) /\ Run(r, Digits) /\ b = Join(u, r) /\ Ends(u, Digits)
  BY RunJoin, Parted
<1>2. Text(r) /\ NoTerm(r) /\ (Redact(r, FALSE) = r \/ Redact(r, FALSE) = <<OMISSIS>>)
  BY <1>1, DigitsRedacted
<1>3. Redact(b, TRUE) = Redact(b, FALSE)
  <2>1. NoTerm(Join(b, z)) /\ Text(Join(b, z))
    BY TermJoin, TextJoin
  <2> QED
    BY <2>1, TermJoin
<1>4. CASE u # <<>>
  <2>1. \A c : Apart(u, c, Digits)
    BY <1>1, EndsApart
  <2>2. Join(b, z) = Join(u, Join(r, z)) /\ Text(Join(r, z))
    BY <1>1, <1>2, TextJoin
  <2>3. Count(Join(b, z)) = Count(u) + Count(Join(r, z))
    BY <2>1, <2>2, <1>1, CountJoin
  <2>4. Count(u) = 0
    <3>1. Count(u) \in Nat /\ Count(Join(r, z)) \in Nat
      BY <1>1, <2>2, CountJoin
    <3> QED
      BY <3>1, <2>3
  <2>5. Redact(u, FALSE) = u
    BY <1>1, <2>4, RedactJoin
  <2>6. Redact(b, TRUE) = Join(u, Redact(r, FALSE))
    BY <1>1, <1>2, <1>3, <2>1, <2>5, PlainJoin
  <2>7. /\ Wrote(Redact(r, FALSE))
        /\ Masked(Redact(r, FALSE)) => Redact(r, FALSE) = <<OMISSIS>>
    <3>1. Wrote(r) /\ ~Masked(r)
      BY <1>2, WroteJoin
    <3> QED
      BY <3>1, <1>2, WroteJoin
  <2> QED
    BY <2>6, <2>7, <1>1, <1>2, <1>4
<1>5. CASE u = <<>>
  <2>1. b = r /\ b # <<>>
    <3>1. Len(b) > 0
      BY WindowHoldsAnEntity, TextLen
    <3> QED
      BY <3>1, <1>1, <1>2, <1>5, TextJoin, TextLen
  <2>2. Count(b) = 0
    BY <2>1, <1>1, CountJoin
  <2>3. Redact(b, TRUE) = b
    BY <2>2, RedactJoin
  <2>4. /\ b = Join(b, <<>>) /\ Text(<<>>) /\ Wrote(<<>>) /\ ~Masked(<<>>)
    BY TextJoin, WroteJoin
  <2> QED
    BY <2>1, <2>3, <2>4
<1> QED
  BY <1>4, <1>5

(***************************************************************************)
(* With sentences, and more held than may be held: what was let out before *)
(* a long piece stays, or else a mask shows in what was to be written and  *)
(* in what is.                                                             *)
(***************************************************************************)
LEMMA MaskShows ==
    ASSUME NEW x, NEW b, NEW z, NEW e, Text(x), Text(b), Text(z), Wrote(e), Len(b) > MaxLen,
           Redact(Join(x, b), TRUE) = Join(e, Redact(b, TRUE)), ~NoTerm(x),
           Count(Join(b, z)) = 0, ~Masked(e)
    PROVE  FALSE
<1> DEFINE R(t) == Redact(t, TRUE)
<1>1. /\ \A t : Text(t) => Wrote(R(t)) /\ (Count(t) = 0 => R(t) = t)
      /\ \A t : Text(t) /\ ~NoTerm(t) => Masked(R(t))
      /\ \A a, c : Text(a) /\ Text(c) /\ Good(a, c, TRUE) => R(Join(a, c)) = Join(R(a), R(c))
      /\ \A t : Run(t, Within) /\ ~NoTerm(t) => R(t) = <<OMISSIS>>
      /\ R(<<>>) = <<>> /\ NoTerm(<<>>)
  BY RedactJoin, TermJoin, SentenceRedacted, TextJoin DEF Within
<1>2. R(Join(x, b)) = Join(e, R(b))
  OBVIOUS
<1>3. PICK u, r, w : /\ Text(u) /\ u # <<>> /\ Text(r) /\ b = Join(u, r)
                     /\ Wrote(w) /\ R(b) = Join(u, w)
                     /\ Masked(w) => w = <<OMISSIS>>
  BY CleanPiece
<1> HIDE DEF R
<1>4. PICK p, q : Text(p) /\ Run(q, Within) /\ x = Join(p, q) /\ Ends(p, Within)
  BY WithinType, Parted
<1>5. Text(q) /\ Wrote(u) /\ ~Masked(u) /\ Wrote(Join(e, u)) /\ ~Masked(Join(e, u))
  BY SMTT(40), <1>3, <1>4, WithinType, RunJoin, WroteJoin
<1>6. \A c : Text(c) => R(Join(p, c)) = Join(R(p), R(c))
  BY <1>4, <1>1, StopApart
<1>7. CASE ~NoTerm(p)
  <2>1. p # <<>>
    BY <1>7, <1>1
  <2>2. PICK A : Wrote(A) /\ R(p) = Join(A, <<Stop>>) /\ Text(<<Stop>>) /\ <<Stop>> # <<>>
    BY <2>1, <1>4, StopKept DEF R
  <2> DEFINE stop == <<Stop>>
  <2>3. Wrote(A) /\ R(p) = Join(A, stop) /\ Text(stop) /\ Wrote(stop) /\ ~Masked(stop) /\ stop # <<>>
    BY <2>2, WroteJoin
  <2> HIDE DEF stop
  <2>4. Masked(A)
    <3>1. Masked(R(p))
      BY <1>7, <1>4, <1>1
    <3> QED
      BY <3>1, <2>3, WroteJoin
  <2>5. Text(Join(q, b)) /\ Join(x, b) = Join(p, Join(q, b))
    BY <1>4, <1>5, TextJoin
  <2>6. Wrote(R(Join(q, b))) /\ Wrote(Join(stop, R(Join(q, b)))) /\ Wrote(R(b))
    BY <2>5, <2>3, <1>1, WroteJoin
  <2>7. R(Join(x, b)) = Join(A, Join(stop, R(Join(q, b))))
    BY <2>3, <2>5, <2>6, <1>6, WroteJoin
  <2>8. R(Join(x, b)) = Join(Join(e, u), w)
    BY <1>2, <1>3, <1>5, WroteJoin
  <2>9. Masked(w)
    <3>1. Masked(Join(A, Join(stop, R(Join(q, b)))))
      BY <2>3, <2>4, <2>6, WroteJoin
    <3>2. Masked(Join(Join(e, u), w))
      BY <3>1, <2>7, <2>8
    <3> QED
      BY <3>2, <1>5, <1>3, WroteJoin
  <2>10. Join(stop, R(Join(q, b))) # <<>>
    <3>1. Len(Join(stop, R(Join(q, b)))) = Len(stop) + Len(R(Join(q, b)))
      BY <2>3, <2>6, WroteJoin
    <3>2. Len(stop) \in Nat /\ Len(stop) > 0 /\ Len(R(Join(q, b))) \in Nat /\ Len(<<>>) = 0
      BY <2>3, <2>6, TextLen, LenProperties, EmptySeq DEF Wrote
    <3> QED
      BY <3>1, <3>2
  <2>11. Join(A, Join(stop, R(Join(q, b)))) = Join(Join(e, u), <<OMISSIS>>)
    BY <2>7, <2>8, <2>9, <1>3
  <2> QED
    BY <2>3, <2>4, <2>6, <2>10, <2>11, <1>5, LastMask
<1>8. CASE NoTerm(p)
  <2>1. ~NoTerm(q)
    BY <1>8, <1>4, <1>5, TermJoin
  <2>2. PICK c, y : Text(y) /\ Run(c, Within) /\ b = Join(c, y) /\ Begins(y, Within)
    BY WithinType, Parted
  <2>3. Text(c) /\ Run(Join(q, c), Within) /\ Text(Join(q, c)) /\ ~NoTerm(Join(q, c))
    BY <2>1, <2>2, <1>4, <1>5, WithinType, RunJoin, TextJoin, TermJoin
  <2>4. R(Join(q, c)) = <<OMISSIS>>
    BY <2>3, <1>1
  <2>5. \A a : Text(a) => R(Join(a, y)) = Join(R(a), R(y))
    BY <2>2, <1>1, StopApart
  <2>6. Join(x, b) = Join(p, Join(Join(q, c), y)) /\ Text(Join(Join(q, c), y))
    <3>1. Join(q, b) = Join(Join(q, c), y) /\ Text(Join(Join(q, c), y))
      BY <2>2, <2>3, <1>5, TextJoin
    <3>2. Join(x, b) = Join(p, Join(q, b))
      BY <1>4, <1>5, TextJoin
    <3> QED
      BY <3>1, <3>2
  <2> DEFINE mask == <<OMISSIS>>
  <2>7. Wrote(mask) /\ Masked(mask) /\ R(Join(q, c)) = mask
    <3>1. Masked(<<OMISSIS>>)
      BY DEF Masked
    <3> QED
      BY <3>1, <2>4, WroteJoin
  <2>8. /\ Wrote(R(c)) /\ Wrote(R(y)) /\ Wrote(R(p)) /\ Wrote(Join(e, R(c)))
        /\ Wrote(Join(R(p), mask))
    BY <2>2, <2>3, <2>7, <1>4, <1>1, WroteJoin
  <2> HIDE DEF mask
  <2>9. R(Join(x, b)) = Join(Join(R(p), mask), R(y))
    <3>1. R(Join(x, b)) = Join(R(p), Join(mask, R(y)))
      BY <2>3, <2>5, <2>6, <2>7, <1>6
    <3> QED
      BY <3>1, <2>7, <2>8, WroteJoin
  <2>10. R(Join(x, b)) = Join(Join(e, R(c)), R(y))
    <3>1. R(b) = Join(R(c), R(y))
      BY <2>2, <2>3, <2>5
    <3> QED
      BY <3>1, <2>8, <1>2, WroteJoin
  <2>11. Join(e, R(c)) = Join(R(p), mask)
    <3>1. Join(Join(e, R(c)), R(y)) = Join(Join(R(p), mask), R(y))
      BY <2>9, <2>10
    <3> QED
      BY <3>1, <2>8, CancelJoin
  <2>12. Masked(Join(e, R(c)))
    <3>1. Masked(Join(R(p), mask))
      BY <2>7, <2>8, WroteJoin
    <3> QED
      BY <3>1, <2>11
  <2>13. CASE y # <<>>
    <3>1. \A a : Apart(a, Join(y, z), Digits)
      <4>1. Begins(y, Digits)
        BY <2>2, WithinType DEF Begins, Digits
      <4> QED
        BY <4>1, <2>2, <2>13, BeginsJoin
    <3>2. Join(b, z) = Join(c, Join(y, z)) /\ Text(Join(y, z))
      BY <2>2, <2>3, TextJoin
    <3>3. Count(Join(b, z)) = Count(c) + Count(Join(y, z))
      BY <3>1, <3>2, <2>3, CountJoin
    <3>4. Count(c) \in Nat /\ Count(Join(y, z)) \in Nat
      BY <3>2, <2>3, CountJoin
    <3>5. Count(c) = 0
      BY <3>3, <3>4
    <3>6. R(c) = c
      BY <3>5, <2>3, <1>1
    <3> QED
      BY <3>6, <2>3, <2>12, WroteJoin
  <2>14. CASE y = <<>>
    <3>1. b = c
      BY <2>2, <2>3, <2>14, TextJoin
    <3>2. Join(Join(e, u), w) = Join(R(p), mask)
      <4>1. Join(e, Join(u, w)) = Join(R(p), mask)
        BY <3>1, <2>11, <1>3
      <4> QED
        BY <4>1, <1>3, <1>5, WroteJoin
    <3>3. w = mask
      <4>1. Masked(Join(Join(e, u), w))
        BY <3>2, <2>7, <2>8, WroteJoin
      <4> QED
        BY <4>1, <1>3, <1>5, WroteJoin DEF mask
    <3>4. Join(e, u) = R(p)
      BY <3>2, <3>3, <2>7, <2>8, <1>5, CancelJoin
    <3>5. /\ Join(e, u)[Len(Join(e, u))] = u[Len(u)] /\ Join(e, u) # <<>>
          /\ Len(u) \in 1..Len(u)
      BY <1>3, <1>5, LastOf
    <3>6. p # <<>>
      BY <3>4, <3>5, <1>1
    <3>7. PICK A : Wrote(A) /\ R(p) = Join(A, <<Stop>>) /\ Text(<<Stop>>) /\ <<Stop>> # <<>>
      BY <3>6, <1>4, StopKept DEF R
    <3>8. R(p)[Len(R(p))] = Stop
      <4> DEFINE stop == <<Stop>>
      <4>1. Wrote(A) /\ Wrote(stop) /\ stop # <<>> /\ R(p) = Join(A, stop)
        BY <3>7, WroteJoin
      <4>2. stop[Len(stop)] = Stop
        OBVIOUS
      <4> HIDE DEF stop
      <4>3. Join(A, stop)[Len(Join(A, stop))] = stop[Len(stop)]
        BY <4>1, LastOf
      <4> QED
        BY <4>1, <4>2, <4>3
    <3>9. u[Len(u)] \in Within
      <4>1. u \in Seq(Char) /\ r \in Seq(Char) /\ b = u \o r
        BY <1>3 DEF Text, Join
      <4>2. b[Len(u)] = u[Len(u)] /\ Len(u) \in 1..Len(b)
        <5>1. (u \o r)[Len(u)] = u[Len(u)] /\ Len(b) = Len(u) + Len(r) /\ Len(r) \in Nat
              /\ Len(u) \in Nat
          BY <4>1, <3>5, Joined
        <5> QED
          BY <5>1, <4>1, <3>5
      <4>3. b \in Seq(Within)
        BY <3>1, <2>2 DEF Run
      <4> QED
        BY <4>2, <4>3, ElementOfSeq
    <3> QED
      BY <3>4, <3>5, <3>8, <3>9, WithinType
  <2> QED
    BY <2>13, <2>14
<1> QED
  BY <1>7, <1>8

LEMMA CutHides ==
    ASSUME NEW x, NEW b, NEW z, NEW e, NEW s \in BOOLEAN,
           Text(x), Text(b), Text(z), Wrote(e), Len(b) > MaxLen,
           Redact(Join(x, b), s) = Join(e, Redact(b, s))
    PROVE  LET whole == Redact(Join(x, Join(b, z)), s)
               parts == Join(e, Redact(Join(b, z), s))
           IN whole = parts \/ (s /\ Masked(whole) /\ Masked(parts))
<1> DEFINE whole == Redact(Join(x, Join(b, z)), s)
           parts == Join(e, Redact(Join(b, z), s))
<1>1. Text(Join(b, z)) /\ Text(Join(x, Join(b, z))) /\ Text(Join(x, b))
  BY TextJoin
<1>2. CASE ~s
  BY <1>2, PlainOn
<1>3. CASE s /\ NoTerm(Join(x, Join(b, z)))
  <2>1. PICK f \in BOOLEAN : ~f
    OBVIOUS
  <2>2. NoTerm(x) /\ NoTerm(b) /\ NoTerm(z) /\ NoTerm(Join(b, z)) /\ NoTerm(Join(x, b))
    BY <1>1, <1>3, TermJoin
  <2>3. /\ whole = Redact(Join(x, Join(b, z)), f)
        /\ Redact(Join(b, z), s) = Redact(Join(b, z), f)
        /\ Redact(b, s) = Redact(b, f) /\ Redact(Join(x, b), s) = Redact(Join(x, b), f)
    BY <1>1, <1>3, <2>2, TermJoin
  <2>4. Redact(Join(x, b), f) = Join(e, Redact(b, f))
    BY <2>3
  <2>5. Redact(Join(x, Join(b, z)), f) = Join(e, Redact(Join(b, z), f))
    BY <2>1, <2>4, PlainOn
  <2> QED
    BY <2>3, <2>5
<1>4. CASE s /\ ~NoTerm(Join(x, Join(b, z)))
  <2>1. s = TRUE
    BY <1>4
  <2>2. Masked(whole)
    <3>1. Count(Join(x, Join(b, z))) # 0
      BY <1>1, <1>4, TermJoin
    <3> QED
      BY <3>1, <1>1, RedactJoin
  <2>3. Wrote(Redact(Join(b, z), s))
    BY <1>1, RedactJoin
  <2>4. CASE Masked(e) \/ Masked(Redact(Join(b, z), s))
    BY <2>1, <2>2, <2>3, <2>4, WroteJoin
  <2>5. CASE ~Masked(e) /\ ~Masked(Redact(Join(b, z), s))
    <3>1. Count(Join(b, z)) = 0
      BY <2>5, <1>1, RedactJoin
    <3>2. ~NoTerm(x)
      BY <3>1, <1>1, <1>4, TermJoin
    <3> QED
      BY <3>1, <3>2, <2>1, <2>5, MaskShows
  <2> QED
    BY <2>4, <2>5
<1> QED
  BY <1>2, <1>3, <1>4

(***************************************************************************)
(* Where the redactor cuts what it holds, and what it lets out there.      *)
(***************************************************************************)
LEMMA GreatestOf ==
    ASSUME NEW n \in Nat, NEW S, S \in SUBSET (0..n), S # {}
    PROVE  Max(S) \in S
<1> DEFINE T == {k \in Nat : n - k \in S}
<1>1. T \in SUBSET Nat
  OBVIOUS
<1>2. PICK v \in S : TRUE
  OBVIOUS
<1>3. n - v \in Nat /\ n - (n - v) = v
  BY <1>2
<1>4. n - v \in T
  BY <1>3, <1>2
<1>5. PICK m \in T : \A k \in T : m <= k
  BY <1>1, <1>4, LeastOf
<1>6. n - m \in S /\ m \in Nat
  BY <1>5
<1>7. \A y \in S : n - m >= y
  <2> TAKE y \in S
  <2>1. y \in Int /\ n - y \in Nat /\ n - (n - y) = y
    OBVIOUS
  <2>2. n - y \in T
    BY <2>1
  <2>3. m <= n - y
    BY <2>2, <1>5
  <2> QED
    BY <2>1, <2>3, <1>6
<1>8. \E x \in S : \A y \in S : x >= y
  BY <1>6, <1>7
<1> QED
  BY <1>8 DEF Max

LEMMA SuffixSplits ==
    ASSUME NEW s, NEW t, Wrote(s), Wrote(t), IsSuffix(s, t)
    PROVE  LET e == SubSeq(t, 1, Len(t) - Len(s))
           IN Wrote(e) /\ t = Join(e, s)
<1> DEFINE n == Len(s)
           m == Len(t)
           e == SubSeq(t, 1, m - n)
<1>1. s \in Seq(Letter) /\ t \in Seq(Letter) /\ n \in Nat /\ m \in Nat
  BY LenProperties DEF Wrote
<1>2. /\ \A i \in 1..n : s[i] \in Letter
      /\ \A i \in 1..m : t[i] \in Letter
  BY <1>1, ElementOfSeq
<1>3. /\ Reverse(s) = [i \in 1..n |-> s[(n - i) + 1]]
      /\ Reverse(t) = [i \in 1..m |-> t[(m - i) + 1]]
  BY DEF Reverse
<1>4. /\ \A i \in 1..n : (n - i) + 1 \in 1..n
      /\ \A i \in 1..m : (m - i) + 1 \in 1..m
  BY <1>1
<1> HIDE DEF n, m
<1>5. Reverse(s) \in Seq(Letter) /\ Len(Reverse(s)) = n
  BY <1>1, <1>2, <1>3, <1>4
<1>6. Reverse(t) \in Seq(Letter) /\ Len(Reverse(t)) = m
  BY <1>1, <1>2, <1>3, <1>4
<1>7. n <= m /\ SubSeq(Reverse(s), 1, n) = SubSeq(Reverse(t), 1, n)
  BY <1>5, <1>6 DEF IsSuffix, IsPrefix
<1>8. ASSUME NEW i \in 1..n PROVE s[i] = t[(m - n) + i]
  <2> DEFINE k == (n - i) + 1
  <2>1. k \in 1..n /\ k \in 1..m /\ (n - k) + 1 = i /\ (m - k) + 1 = (m - n) + i
    BY <1>1, <1>7
  <2>2. \A j \in 1..n : j \in 1..m /\ (n - 1) + 1 = n /\ (1 + j) - 1 = j
    BY <1>1, <1>7
  <2>3. /\ \A j \in 1..n : Reverse(s)[j] \in Letter
        /\ \A j \in 1..n : Reverse(t)[j] \in Letter
    BY <1>2, <1>3, <1>4, <2>2
  <2> HIDE DEF k
  <2>4. SubSeq(Reverse(s), 1, n)[k] = Reverse(s)[k]
    <3>1. \A j \in 1..(n - 1) + 1 : SubSeq(Reverse(s), 1, n)[j] = Reverse(s)[(1 + j) - 1]
      BY <2>3, <1>1, SubSeqProperties
    <3> QED
      BY <3>1, <2>1, <2>2
  <2>5. SubSeq(Reverse(t), 1, n)[k] = Reverse(t)[k]
    <3>1. \A j \in 1..(n - 1) + 1 : SubSeq(Reverse(t), 1, n)[j] = Reverse(t)[(1 + j) - 1]
      BY <2>3, <1>1, SubSeqProperties
    <3> QED
      BY <3>1, <2>1, <2>2
  <2>6. Reverse(s)[k] = s[(n - k) + 1] /\ Reverse(t)[k] = t[(m - k) + 1]
    BY <2>1, <1>3
  <2> QED
    BY <2>1, <2>4, <2>5, <2>6, <1>7
<1>9. e \in Seq(Letter) /\ Len(e) = m - n /\ \A i \in 1..m - n : e[i] = t[i]
  <2>1. \A i \in 1..m - n : i \in 1..m /\ (1 + i) - 1 = i
    BY <1>1, <1>7
  <2>2. \A i \in 1..m - n : t[i] \in Letter
    BY <2>1, <1>2
  <2>3. /\ e \in Seq(Letter) /\ Len(e) = IF 1 <= m - n THEN (m - n) - 1 + 1 ELSE 0
        /\ \A i \in 1..((m - n) - 1) + 1 : e[i] = t[(1 + i) - 1]
    BY <2>2, <1>1, SubSeqProperties
  <2>4. ((m - n) - 1) + 1 = m - n /\ (~(1 <= m - n) => m - n = 0)
    BY <1>1, <1>7
  <2> QED
    BY <2>1, <2>3, <2>4
<1> HIDE DEF e
<1>10. t = e \o s
  <2>1. /\ e \o s \in Seq(Letter) /\ Len(e \o s) = (m - n) + n
        /\ \A i \in 1..(m - n) + n : (e \o s)[i] = IF i <= m - n THEN e[i] ELSE s[i - (m - n)]
    BY <1>9, <1>1, ConcatProperties DEF n
  <2>2. (m - n) + n = m
    BY <1>1
  <2>3. ASSUME NEW i \in 1..m PROVE t[i] = (e \o s)[i]
    <3>1. CASE i <= m - n
      <4>1. i \in 1..m - n
        BY <3>1
      <4> QED
        BY <4>1, <3>1, <2>1, <2>2, <1>9
    <3>2. CASE ~(i <= m - n)
      <4>1. i - (m - n) \in 1..n /\ (m - n) + (i - (m - n)) = i
        BY <3>2, <1>1, <1>7
      <4>2. (e \o s)[i] = s[i - (m - n)]
        BY <3>2, <2>1, <2>2
      <4> QED
        BY <4>1, <4>2, <1>8
    <3> QED
      BY <3>1, <3>2
  <2> QED
    BY <2>1, <2>2, <2>3, <1>1, SeqEqual DEF m
<1> QED
  BY <1>9, <1>10 DEF Wrote, Join, e, n, m

LEMMA CutType ==
    ASSUME NEW r, Text(r.buf), Len(r.buf) > Window
    PROVE  /\ Cut(r) \in 0..(Len(r.buf) - Window)
           /\ (Holding(r) /\ Cut(r) > 0) => r.buf[Cut(r)] = Stop
<1> DEFINE t == r.buf
           pos == Len(t) - Window
           at == {s \in Sentences(t) : s[1] - 1 <= pos}
           S == {0} \cup {s[1] - 1 : s \in at}
<1>1. t \in Seq(Char) /\ Len(t) \in Nat /\ pos \in Nat /\ Window \in Nat
  BY TextLen, WindowHoldsAnEntity DEF Text
<1>2. Cut(r) = IF Holding(r) THEN Max(S) ELSE pos
  BY DEF Cut, SentenceStart
<1>3. \A s \in at : s = <<s[1], s[2]>> /\ s[1] \in Place /\ s[2] \in Place /\ s[1] - 1 <= pos
                    /\ s \in Sentences(t)
  <2>1. Sentences(t) \subseteq Place \X Place
    BY <1>1, FindsType
  <2>2. at \subseteq Sentences(t) /\ \A s \in at : s[1] - 1 <= pos
    OBVIOUS
  <2> HIDE DEF at
  <2> QED
    BY <2>1, <2>2
<1> HIDE DEF at, pos
<1>4. S \in SUBSET (0..pos) /\ S # {}
  <2>1. \A s \in at : s[1] - 1 \in 0..pos
    BY <1>3, <1>1 DEF Place
  <2> QED
    BY <2>1, <1>1
<1>5. Max(S) \in S
  BY <1>1, <1>4, GreatestOf
<1> DEFINE v == Max(S)
<1>6. v \in S
  BY <1>5
<1> HIDE DEF v
<1>7. ASSUME v > 0 PROVE t[v] = Stop
  <2>1. PICK s \in at : v = s[1] - 1
    BY <1>6, <1>7
  <2>2. <<s[1], s[2]>> \in Stretches(t, Char \ {Stop}) /\ s[1] \in Place /\ s[2] \in Place
    BY <1>3 DEF Sentences
  <2>3. s[1] <= s[2] /\ s[2] <= Len(t) /\ (s[1] = 1 \/ t[s[1] - 1] \notin Char \ {Stop})
    <3>1. PICK i \in Place, j \in Place : i = s[1] /\ j = s[2]
      BY <2>2
    <3>2. <<i, j>> \in Stretches(t, Char \ {Stop})
      BY <2>2, <3>1
    <3>3. i <= j /\ j <= Len(t) /\ (i = 1 \/ t[i - 1] \notin Char \ {Stop})
      BY <3>2, <1>1, StretchIs
    <3> QED
      BY <3>1, <3>3
  <2>4. v \in 1..Len(t)
    BY <2>1, <2>2, <2>3, <1>1, <1>7 DEF Place
  <2>5. t[v] \in Char
    BY <2>4, <1>1, ElementOfSeq
  <2>6. s[1] # 1
    BY <2>1, <1>7
  <2> QED
    BY <2>1, <2>3, <2>5, <2>6
<1> QED
  BY <1>2, <1>4, <1>6, <1>7, <1>1 DEF v, pos

\* The two parts of what is held, and what is let out of the first
LEMMA CutParts ==
    ASSUME NEW r, Text(r.buf), r.sentences \in BOOLEAN, LetsGo(r)
    PROVE  \E x : LET red == Redact(r.buf, r.sentences)
                      last1 == Redact(Tail1(r), r.sentences)
                      e == SubSeq(red, 1, Len(red) - Len(last1))
                  IN /\ Text(x) /\ Text(Tail1(r)) /\ r.buf = Join(x, Tail1(r))
                     /\ Len(Tail1(r)) > MaxLen
                     /\ Wrote(e) /\ red = Join(e, last1)
                     /\ Holding(r) => x # <<>> /\ Ends(x, Within)
<1> DEFINE t == r.buf
           c == Cut(r)
           x == SubSeq(t, 1, c)
           b == SubSeq(t, c + 1, Len(t))
<1>1. t \in Seq(Char) /\ Len(t) \in Nat /\ Len(t) > Window /\ c > 0 /\ Window \in Nat
      /\ Window > MaxLen /\ MaxLen \in Nat
  BY TextLen, WindowHoldsAnEntity DEF Text, LetsGo
<1>2. c \in 0..(Len(t) - Window) /\ (Holding(r) => t[c] = Stop)
  BY <1>1, CutType
<1> HIDE DEF c
<1>3. \A i \in 1..Len(t) : t[i] \in Char
  BY <1>1, ElementOfSeq
<1>4. c \in 1..Len(t) /\ c \in Int /\ c + 1 \in Int /\ c + 1 <= Len(t) /\ c \in Nat
  BY <1>1, <1>2
<1>5. x \in Seq(Char) /\ Len(x) = c /\ x[c] = t[c]
  <2>1. /\ \A i \in 1..c : i \in 1..Len(t)
        /\ (c - 1) + 1 = c /\ (1 + c) - 1 = c /\ c \in 1..c /\ 1 <= c
    BY <1>1, <1>4
  <2>2. \A i \in 1..c : t[i] \in Char
    BY <2>1, <1>3
  <2>3. /\ x \in Seq(Char) /\ Len(x) = IF 1 <= c THEN (c - 1) + 1 ELSE 0
        /\ \A i \in 1..(c - 1) + 1 : x[i] = t[(1 + i) - 1]
    BY <2>2, <1>4, SubSeqProperties
  <2> QED
    BY <2>1, <2>3
<1>6. b \in Seq(Char) /\ Len(b) = Len(t) - c
  <2>1. /\ \A i \in (c + 1)..Len(t) : i \in 1..Len(t)
        /\ (Len(t) - (c + 1)) + 1 = Len(t) - c
    BY <1>1, <1>4
  <2>2. \A i \in (c + 1)..Len(t) : t[i] \in Char
    BY <2>1, <1>3
  <2>3. b \in Seq(Char) /\ Len(b) = IF c + 1 <= Len(t) THEN (Len(t) - (c + 1)) + 1 ELSE 0
    BY <2>2, <1>1, <1>4, SubSeqProperties
  <2> QED
    BY <2>1, <2>3, <1>4
<1>7. t = x \o b
  <2>1. 1 \in 1..Len(t) + 1 /\ c \in (1 - 1)..Len(t) /\ Len(t) \in c..Len(t)
    BY <1>1, <1>4
  <2>2. x \o b = SubSeq(t, 1, Len(t))
    BY <2>1, <1>1, ConcatAdjacentSubSeq
  <2> QED
    BY <2>2, <1>1, SubSeqFull
<1>8. b = Tail1(r)
  BY DEF Tail1, c
<1> HIDE DEF x, b
<1>9. Len(b) > MaxLen
  BY <1>1, <1>2, <1>6
<1>10. Text(x) /\ Text(b) /\ t = Join(x, b)
  BY <1>5, <1>6, <1>7 DEF Text, Join
<1>11. Holding(r) => x # <<>> /\ Ends(x, Within)
  <2>1. x # <<>>
    BY <1>5, <1>1, EmptySeq
  <2>2. Holding(r) => x[Len(x)] = Stop
    BY <1>2, <1>5
  <2> QED
    BY <2>1, <2>2, WithinType DEF Ends
<1>12. Wrote(Redact(t, r.sentences)) /\ Wrote(Redact(b, r.sentences))
  BY <1>10, RedactJoin
<1>13. IsSuffix(Redact(b, r.sentences), Redact(t, r.sentences))
  BY <1>8 DEF LetsGo, SplitsClean
<1>14. LET red == Redact(t, r.sentences)
           e == SubSeq(red, 1, Len(red) - Len(Redact(b, r.sentences)))
       IN Wrote(e) /\ red = Join(e, Redact(b, r.sentences))
  BY <1>12, <1>13, SuffixSplits
<1> QED
  BY <1>8, <1>9, <1>10, <1>11, <1>14

(***************************************************************************)
(* A redactor that was fed a text: what it let out, with what it would     *)
(* write of what it holds and of whatever may come, is what it would write *)
(* of the whole, or both show a mask; and the counts add up.               *)
(***************************************************************************)
Redactor == [sentences : BOOLEAN, buf : Seq(Char), count : Int, overrun : BOOLEAN]

Follows(r, fed, sent, z) ==
    LET whole == Redact(Join(fed, z), r.sentences)
        parts == Join(sent, Redact(Join(r.buf, z), r.sentences))
    IN /\ Count(Join(fed, z)) = 0 <=> parts = Join(fed, z)
       /\ ~r.overrun => whole = parts

Behind(r, fed) == \E gone : /\ Text(gone) /\ fed = Join(gone, r.buf)
                            /\ gone = <<>> \/ Len(r.buf) > MaxLen

Streamed(r, fed, sent) ==
    /\ r \in Redactor /\ Text(fed) /\ Wrote(sent)
    /\ r.overrun => r.sentences
    /\ Behind(r, fed)
    /\ Total(r) = Count(fed)
    /\ \A z : Text(z) => Follows(r, fed, sent, z)

\* The same when nothing more comes
Finished(r, fed, sent) ==
    /\ r \in Redactor /\ Text(fed) /\ Wrote(sent)
    /\ Total(r) = Count(fed)
    /\ Count(fed) = 0 <=> Join(sent, Rest(r)) = fed
    /\ ~r.overrun => Redact(fed, r.sentences) = Join(sent, Rest(r))

LEMMA RedactorParts ==
    ASSUME NEW r \in Redactor
    PROVE  /\ r.sentences \in BOOLEAN /\ r.count \in Int /\ r.overrun \in BOOLEAN
           /\ Text(r.buf) /\ r.buf \in Seq(Char)
BY DEF Redactor, Text

LEMMA NewStreamed ==
    ASSUME NEW s \in BOOLEAN
    PROVE  Streamed(NewRedactor(s), <<>>, <<>>)
<1> DEFINE r == NewRedactor(s)
<1>1. /\ r \in Redactor /\ r.buf = <<>> /\ r.count = 0 /\ ~r.overrun /\ r.sentences = s
  BY EmptySeq DEF NewRedactor, Redactor
<1> HIDE DEF r
<1>2. Text(<<>>) /\ Wrote(<<>>) /\ Count(<<>>) = 0
  BY <1>1, TextJoin, WroteJoin, RedactJoin
<1>3. Behind(r, <<>>)
  BY <1>1, <1>2, TextJoin DEF Behind
<1>4. Total(r) = Count(<<>>)
  BY <1>1, <1>2 DEF Total
<1>5. ASSUME NEW z, Text(z) PROVE Follows(r, <<>>, <<>>, z)
  <2>1. Join(<<>>, z) = z /\ Wrote(Redact(z, s))
    BY <1>5, TextJoin, RedactJoin
  <2>2. Join(<<>>, Redact(z, s)) = Redact(z, s)
    BY <2>1, WroteJoin
  <2>3. Count(z) = 0 <=> Redact(z, s) = z
    BY <1>5, CleanIs DEF Text
  <2> QED
    BY <2>1, <2>2, <2>3, <1>1 DEF Follows
<1> QED
  BY <1>1, <1>2, <1>3, <1>4, <1>5 DEF Streamed, r

\* More is held
LEMMA HeldStreamed ==
    ASSUME NEW r, NEW fed, NEW sent, NEW d, Streamed(r, fed, sent), Text(d)
    PROVE  /\ Streamed(Held(r, d), Join(fed, d), sent)
           /\ (~Held(r, d).overrun /\ Held(r, d).sentences) => Holding(Held(r, d))
<1> DEFINE h == Held(r, d)
<1>1. r \in Redactor /\ Text(fed) /\ Wrote(sent) /\ Text(r.buf) /\ r.buf \in Seq(Char)
  BY RedactorParts DEF Streamed
<1>2. Text(Join(r.buf, d)) /\ Text(Join(fed, d))
  BY <1>1, TextJoin
<1>3. /\ h \in Redactor /\ h.buf = Join(r.buf, d) /\ h.count = r.count /\ h.sentences = r.sentences
      /\ h.overrun <=> (r.overrun \/ (r.sentences /\ Len(h.buf) > MaxHold))
  <2> DEFINE buf == Join(r.buf, d)
             over == r.overrun \/ (r.sentences /\ Len(buf) > MaxHold)
  <2>1. h = [r EXCEPT !.buf = buf, !.overrun = over]
    BY DEF Held, Join
  <2>2. buf \in Seq(Char)
    BY <1>2 DEF Text
  <2>3. over \in BOOLEAN /\ (over <=> (r.overrun \/ (r.sentences /\ Len(buf) > MaxHold)))
    BY <1>1, RedactorParts
  <2> HIDE DEF over, buf
  <2>4. /\ h \in Redactor /\ h.buf = buf /\ h.count = r.count /\ h.sentences = r.sentences
        /\ h.overrun = over
    BY <1>1, <2>1, <2>2, <2>3 DEF Redactor
  <2> QED
    BY <2>3, <2>4 DEF buf
<1> HIDE DEF h
<1>4. (~h.overrun /\ h.sentences) => Holding(h)
  <2>1. Len(h.buf) \in Nat
    BY <1>2, <1>3, TextLen
  <2> QED
    BY <1>3, <2>1, WindowHoldsAnEntity DEF Holding
<1>5. PICK gone : /\ Text(gone) /\ fed = Join(gone, r.buf)
                  /\ gone = <<>> \/ Len(r.buf) > MaxLen
  BY DEF Streamed, Behind
<1>6. Behind(h, Join(fed, d))
  <2>1. Join(fed, d) = Join(gone, h.buf)
    BY <1>5, <1>1, <1>3, TextJoin
  <2>2. Len(r.buf) > MaxLen => Len(h.buf) > MaxLen
    <3>1. Len(r.buf) \in Nat /\ Len(d) \in Nat
      BY <1>1, TextLen
    <3>2. Len(h.buf) = Len(r.buf) + Len(d)
      BY <1>1, <1>3, TextJoin
    <3> QED
      BY <3>1, <3>2, WindowHoldsAnEntity
  <2> QED
    BY <2>1, <2>2, <1>5 DEF Behind
<1>7. Total(h) = Count(Join(fed, d))
  <2>1. Count(Join(gone, Join(r.buf, d))) + Count(r.buf)
          = Count(Join(r.buf, d)) + Count(Join(gone, r.buf))
    BY <1>1, <1>5, CountOn
  <2>2. Join(fed, d) = Join(gone, Join(r.buf, d))
    BY <1>5, <1>1, TextJoin
  <2>3. r.count + Count(r.buf) = Count(fed) /\ r.count \in Int
    BY <1>1, RedactorParts DEF Streamed, Total
  <2>4. /\ Count(r.buf) \in Nat /\ Count(fed) \in Nat
        /\ Count(Join(r.buf, d)) \in Nat /\ Count(Join(fed, d)) \in Nat
    BY <1>1, <1>2, CountJoin
  <2>5. Count(Join(fed, d)) + Count(r.buf) = Count(Join(r.buf, d)) + Count(fed)
    BY <2>1, <2>2, <1>5
  <2>6. r.count + Count(Join(r.buf, d)) = Count(Join(fed, d))
    BY <2>3, <2>4, <2>5
  <2> QED
    BY <2>6, <1>3 DEF Total
<1>8. ASSUME NEW z, Text(z) PROVE Follows(h, Join(fed, d), sent, z)
  <2>1. Text(Join(d, z)) /\ Follows(r, fed, sent, Join(d, z))
    BY <1>8, TextJoin DEF Streamed
  <2>2. Join(Join(fed, d), z) = Join(fed, Join(d, z)) /\ Join(h.buf, z) = Join(r.buf, Join(d, z))
    BY <1>8, <1>1, <1>3, TextJoin
  <2> QED
    BY <2>1, <2>2, <1>3 DEF Follows
<1>9. h.overrun => h.sentences
  BY <1>3 DEF Streamed
<1> QED
  BY <1>1, <1>2, <1>3, <1>4, <1>6, <1>7, <1>8, <1>9 DEF Streamed, h

\* What ends a sentence is let out as it would be with what comes
LEMMA SentenceOn ==
    ASSUME NEW x, NEW b, NEW z, NEW e, NEW s \in BOOLEAN,
           Text(x), Text(b), Text(z), Wrote(e), Ends(x, Within),
           Redact(Join(x, b), s) = Join(e, Redact(b, s))
    PROVE  Redact(Join(x, Join(b, z)), s) = Join(e, Redact(Join(b, z), s))
<1>1. Good(x, b, s) /\ Good(x, Join(b, z), s)
  <2>1. Good(x, b, TRUE) /\ Good(x, Join(b, z), TRUE)
    BY StopApart
  <2> QED
    BY <2>1 DEF Good
<1>2. Text(Join(b, z))
  BY TextJoin
<1>3. /\ Redact(Join(x, b), s) = Join(Redact(x, s), Redact(b, s))
      /\ Redact(Join(x, Join(b, z)), s) = Join(Redact(x, s), Redact(Join(b, z), s))
  BY <1>1, <1>2, RedactJoin
<1>4. Wrote(Redact(x, s)) /\ Wrote(Redact(b, s))
  BY RedactJoin
<1>5. Redact(x, s) = e
  <2> DEFINE p == Redact(x, s)
             q == Redact(b, s)
  <2>1. Wrote(p) /\ Wrote(q) /\ Join(p, q) = Join(e, q)
    BY <1>3, <1>4
  <2> HIDE DEF p, q
  <2>2. p = e
    BY <2>1, CancelJoin
  <2> QED
    BY <2>2 DEF p
<1> QED
  BY <1>3, <1>5

\* What is held is cut, and its first part let out
LEMMA CutStreamed ==
    ASSUME NEW h, NEW fed, NEW sent, NEW k, NEW e, Streamed(h, fed, sent), LetsGo(h),
           (~h.overrun /\ h.sentences) => Holding(h),
           k = [h EXCEPT !.buf = Tail1(h), !.count = @ + Count(h.buf) - Count(Tail1(h))],
           e = SubSeq(Redact(h.buf, h.sentences), 1,
                      Len(Redact(h.buf, h.sentences)) - Len(Redact(Tail1(h), h.sentences)))
    PROVE  Streamed(k, fed, Join(sent, e))
<1> DEFINE b == Tail1(h)
<1>1. /\ h \in Redactor /\ Text(fed) /\ Wrote(sent) /\ Text(h.buf) /\ h.sentences \in BOOLEAN
      /\ h.count \in Int /\ h.overrun \in BOOLEAN
  BY RedactorParts DEF Streamed
<1>2. PICK x : /\ Text(x) /\ Text(b) /\ h.buf = Join(x, b) /\ Len(b) > MaxLen /\ Wrote(e)
               /\ Redact(h.buf, h.sentences) = Join(e, Redact(b, h.sentences))
               /\ Holding(h) => x # <<>> /\ Ends(x, Within)
  BY <1>1, CutParts
<1>3. Count(h.buf) \in Nat /\ Count(b) \in Nat
  BY <1>1, <1>2, CountJoin
<1>4. /\ k \in Redactor /\ k.buf = b /\ k.sentences = h.sentences /\ k.overrun = h.overrun
      /\ k.count = h.count + Count(h.buf) - Count(b)
  <2> HIDE DEF b
  <2>1. k = [h EXCEPT !.buf = b, !.count = @ + Count(h.buf) - Count(b)]
    BY DEF b
  <2>2. b \in Seq(Char) /\ h.count + Count(h.buf) - Count(b) \in Int
    BY <1>1, <1>2, <1>3 DEF Text
  <2> QED
    BY <1>1, <2>1, <2>2 DEF Redactor
<1> HIDE DEF b
<1>5. Wrote(Join(sent, e))
  BY <1>1, <1>2, WroteJoin
<1>6. Behind(k, fed)
  <2>1. PICK gone : Text(gone) /\ fed = Join(gone, h.buf)
    BY DEF Streamed, Behind
  <2>2. Text(Join(gone, x)) /\ fed = Join(Join(gone, x), b)
    BY <2>1, <1>2, TextJoin
  <2> QED
    BY <2>2, <1>2, <1>4 DEF Behind
<1>7. Total(k) = Count(fed)
  <2>1. h.count + Count(h.buf) = Count(fed)
    BY DEF Streamed, Total
  <2> QED
    BY <2>1, <1>1, <1>3, <1>4 DEF Total
<1>8. ASSUME NEW z, Text(z) PROVE Follows(k, fed, Join(sent, e), z)
  <2> DEFINE s == h.sentences
             whole == Redact(Join(fed, z), s)
             middle == Redact(Join(x, Join(b, z)), s)
             after == Redact(Join(b, z), s)
  <2>1. /\ Text(Join(b, z)) /\ Text(Join(x, Join(b, z))) /\ Text(Join(fed, z))
        /\ Join(h.buf, z) = Join(x, Join(b, z))
    BY <1>8, <1>1, <1>2, TextJoin
  <2>2. Wrote(middle) /\ Wrote(after) /\ Wrote(Join(e, after))
    BY <2>1, <1>1, <1>2, RedactJoin, WroteJoin
  <2>3. Join(Join(sent, e), after) = Join(sent, Join(e, after))
    BY <2>2, <1>1, <1>2, WroteJoin
  <2>4. /\ Count(Join(fed, z)) = 0 <=> Join(sent, middle) = Join(fed, z)
        /\ ~h.overrun => whole = Join(sent, middle)
    BY <2>1, <1>8 DEF Streamed, Follows
  <2>5. middle = Join(e, after) \/ (s /\ Masked(middle) /\ Masked(Join(e, after)))
    <3>1. Redact(Join(x, b), h.sentences) = Join(e, Redact(b, h.sentences))
      BY <1>2
    <3> QED
      BY <3>1, <1>1, <1>2, <1>8, CutHides
  <2>6. ~h.overrun => middle = Join(e, after)
    <3>1. CASE ~s
      BY <3>1, <2>5
    <3>2. CASE s /\ ~h.overrun
      <4>1. Ends(x, Within)
        BY <3>2, <1>2
      <4>2. Redact(Join(x, b), h.sentences) = Join(e, Redact(b, h.sentences))
        BY <1>2
      <4> QED
        BY <4>1, <4>2, <1>1, <1>2, <1>8, SentenceOn
    <3> QED
      BY <3>1, <3>2, <1>1
  <2>7. Join(sent, middle) = Join(fed, z) <=> Join(sent, Join(e, after)) = Join(fed, z)
    <3>1. CASE middle = Join(e, after)
      BY <3>1
    <3>2. CASE Masked(middle) /\ Masked(Join(e, after))
      <4>1. Masked(Join(sent, middle)) /\ Masked(Join(sent, Join(e, after)))
        BY <3>2, <2>2, <1>1, WroteJoin
      <4>2. ~Masked(Join(fed, z))
        BY <2>1, WroteJoin
      <4> QED
        BY <4>1, <4>2
    <3> QED
      BY <3>1, <3>2, <2>5
  <2> HIDE DEF middle, after
  <2>8. /\ Count(Join(fed, z)) = 0 <=> Join(Join(sent, e), after) = Join(fed, z)
        /\ ~h.overrun => whole = Join(Join(sent, e), after)
    BY <2>3, <2>4, <2>6, <2>7
  <2> QED
    BY <2>8, <1>4 DEF Follows, after
<1>9. k.overrun => k.sentences
  BY <1>4 DEF Streamed
<1> QED
  BY <1>1, <1>4, <1>5, <1>6, <1>7, <1>8, <1>9 DEF Streamed

LEMMA FedStreamed ==
    ASSUME NEW r, NEW fed, NEW sent, NEW d, Streamed(r, fed, sent), Text(d)
    PROVE  Streamed(Fed(r, d), Join(fed, d), Join(sent, Emitted(r, d)))
<1> DEFINE h == Held(r, d)
<1>1. Streamed(h, Join(fed, d), sent) /\ ((~h.overrun /\ h.sentences) => Holding(h))
  BY HeldStreamed
<1>2. CASE d # <<>> /\ LetsGo(h)
  <2>1. Fed(r, d) = [h EXCEPT !.buf = Tail1(h), !.count = @ + Count(h.buf) - Count(Tail1(h))]
    BY <1>2 DEF Fed
  <2>2. Emitted(r, d) = SubSeq(Redact(h.buf, h.sentences), 1,
                Len(Redact(h.buf, h.sentences)) - Len(Redact(Tail1(h), h.sentences)))
    BY <1>2 DEF Emitted
  <2> HIDE DEF h
  <2> QED
    BY <1>1, <1>2, <2>1, <2>2, CutStreamed
<1>3. CASE ~(d # <<>> /\ LetsGo(h))
  <2>1. Fed(r, d) = h /\ Emitted(r, d) = <<>>
    BY <1>3 DEF Fed, Emitted
  <2>2. Join(sent, <<>>) = sent
    BY WroteJoin DEF Streamed
  <2> QED
    BY <1>1, <2>1, <2>2
<1> QED
  BY <1>2, <1>3

LEMMA StreamedFinished ==
    ASSUME NEW r, NEW fed, NEW sent, Streamed(r, fed, sent)
    PROVE  /\ Finished(r, fed, sent)
           /\ Finished([r EXCEPT !.buf = <<>>, !.count = Total(r)], fed, Join(sent, Rest(r)))
           /\ Total(r) \in Nat /\ Text(fed)
           /\ Count(fed) = 0 <=> Join(sent, Rest(r)) = fed
<1> DEFINE k == [r EXCEPT !.buf = <<>>, !.count = Total(r)]
<1>1. /\ r \in Redactor /\ Text(fed) /\ Wrote(sent) /\ Text(r.buf) /\ r.sentences \in BOOLEAN
      /\ Total(r) = Count(fed) /\ r.overrun \in BOOLEAN
  BY RedactorParts DEF Streamed
<1>2. Text(<<>>) /\ Join(fed, <<>>) = fed /\ Join(r.buf, <<>>) = r.buf
  BY <1>1, TextJoin
<1>3. Follows(r, fed, sent, <<>>)
  BY <1>2 DEF Streamed
<1>4. /\ Count(fed) = 0 <=> Join(sent, Rest(r)) = fed
      /\ ~r.overrun => Redact(fed, r.sentences) = Join(sent, Rest(r))
  BY <1>2, <1>3 DEF Follows, Rest
<1>5. Total(r) \in Nat
  BY <1>1, CountJoin
<1>6. Finished(r, fed, sent)
  BY <1>1, <1>4 DEF Finished
<1>7. /\ k \in Redactor /\ k.buf = <<>> /\ k.count = Total(r) /\ k.sentences = r.sentences
      /\ k.overrun = r.overrun
  <2>1. <<>> \in Seq(Char) /\ Total(r) \in Int
    BY <1>5, EmptySeq
  <2> QED
    BY <2>1, <1>1 DEF Redactor
<1> HIDE DEF k
<1>8. Rest(k) = <<>> /\ Total(k) = Total(r)
  <2>1. Redact(<<>>, k.sentences) = <<>> /\ Count(<<>>) = 0
    BY <1>1, <1>7, RedactJoin
  <2> QED
    BY <2>1, <1>5, <1>7 DEF Rest, Total
<1>9. Wrote(Join(sent, Rest(r))) /\ Join(Join(sent, Rest(r)), <<>>) = Join(sent, Rest(r))
  <2>1. Wrote(Rest(r))
    BY <1>1, RedactJoin DEF Rest
  <2> QED
    BY <2>1, <1>1, WroteJoin
<1>10. Finished(k, fed, Join(sent, Rest(r)))
  BY <1>1, <1>4, <1>7, <1>8, <1>9 DEF Finished
<1> QED
  BY <1>1, <1>4, <1>5, <1>6, <1>10 DEF k

(***************************************************************************)
(* A call: what it said, did and answered at each of its steps.            *)
(***************************************************************************)
Pc == {"new", "judging", "accessing", "calling", "streaming", "closing", "returned", "raised"}
Event == {"call", "classify", "none", "ALLOW", "REDACT", "BLOCK"}
Call == [kind : Kind, pc : Pc, events : Seq(Event), action : {"none", "ALLOW", "REDACT", "BLOCK"},
         masked : BOOLEAN, tries : Nat, fed : Seq(Char), sent : Seq(Letter), redactor : Redactor]

\* What the subscribers of the bus were told of a call with two events
Told(k) == CASE k.pc = "new" -> <<>>
             [] k.pc = "returned" -> <<"call", k.action>>
             [] OTHER -> <<"call">>

\* The action is decided
Settled(k) == \/ k.action = "BLOCK" /\ k.tries = 0
              \/ /\ k.action \in {"ALLOW", "REDACT"} /\ k.tries > 0
                 /\ k.action = "ALLOW" <=> (~k.masked /\ k.sent = k.fed)

Controlled(k, s) ==
    /\ k.pc \in {"new", "judging", "accessing"} => k.tries = 0 /\ k.action = "none"
    /\ k.pc = "accessing" => k.kind \notin Governed
    /\ k.pc \in {"calling", "streaming"} => k.action # "BLOCK"
    /\ k.pc = "streaming" => k.kind = "stream" /\ k.tries > 0
    /\ k.action = "BLOCK" => k.tries = 0
    /\ (k.kind \in Governed /\ k.pc \in {"closing", "returned"}) => Settled(k)
    /\ (k.kind \in Governed /\ s.audit /\ k.pc # "raised") => k.events = Told(k)

Open == {"new", "judging", "accessing", "calling", "streaming"}
Redacts(k, s) ==
    k.kind = "stream" =>
        /\ s.pii => /\ Finished(k.redactor, k.fed, k.sent)
                    /\ k.pc \in Open => Streamed(k.redactor, k.fed, k.sent)
        /\ ~s.pii => k.sent = k.fed /\ k.redactor.buf = <<>>

CallInv(k, s) == k \in Call /\ Controlled(k, s) /\ Redacts(k, s)

SdkInv ==
    /\ setting \in Settings /\ last \in Calls \cup {"none"} /\ faults \in 0..MaxFaults
    /\ calls \in [Calls -> Call]
    /\ \A c \in Calls : calls[c].kind \in Kinds /\ CallInv(calls[c], setting)

LEMMA CallParts ==
    ASSUME NEW k \in Call
    PROVE  /\ k.kind \in Kind /\ k.pc \in Pc /\ k.events \in Seq(Event)
           /\ k.action \in {"none", "ALLOW", "REDACT", "BLOCK"} /\ k.masked \in BOOLEAN
           /\ k.tries \in Nat /\ k.fed \in Seq(Char) /\ k.sent \in Seq(Letter)
           /\ k.redactor \in Redactor
BY DEF Call

\* What a step leaves of a call as it was
LEMMA PcPut ==
    ASSUME NEW k \in Call, NEW p \in Pc
    PROVE  LET j == [k EXCEPT !.pc = p]
           IN /\ j \in Call /\ j.pc = p /\ j.kind = k.kind /\ j.events = k.events
              /\ j.action = k.action /\ j.masked = k.masked /\ j.tries = k.tries
              /\ j.fed = k.fed /\ j.sent = k.sent /\ j.redactor = k.redactor
BY DEF Call

LEMMA EventPut ==
    ASSUME NEW k \in Call, NEW e \in Event
    PROVE  LET j == [k EXCEPT !.events = Append(@, e)]
           IN /\ j \in Call /\ j.pc = k.pc /\ j.kind = k.kind /\ j.events = Append(k.events, e)
              /\ j.action = k.action /\ j.masked = k.masked /\ j.tries = k.tries
              /\ j.fed = k.fed /\ j.sent = k.sent /\ j.redactor = k.redactor
<1> DEFINE q == Append(k.events, e)
           j == [k EXCEPT !.events = q]
<1>1. q \in Seq(Event)
  BY CallParts, AppendProperties
<1>2. j = [k EXCEPT !.events = Append(@, e)]
  OBVIOUS
<1> HIDE DEF q
<1>3. /\ j \in Call /\ j.pc = k.pc /\ j.kind = k.kind /\ j.events = q
      /\ j.action = k.action /\ j.masked = k.masked /\ j.tries = k.tries
      /\ j.fed = k.fed /\ j.sent = k.sent /\ j.redactor = k.redactor
  BY <1>1 DEF Call
<1> HIDE DEF j
<1> QED
  BY <1>2, <1>3 DEF q

LEMMA ActionPut ==
    ASSUME NEW k \in Call, NEW a \in {"none", "ALLOW", "REDACT", "BLOCK"}
    PROVE  LET j == [k EXCEPT !.action = a]
           IN /\ j \in Call /\ j.pc = k.pc /\ j.kind = k.kind /\ j.events = k.events
              /\ j.action = a /\ j.masked = k.masked /\ j.tries = k.tries
              /\ j.fed = k.fed /\ j.sent = k.sent /\ j.redactor = k.redactor
BY DEF Call

LEMMA TriesPut ==
    ASSUME NEW k \in Call
    PROVE  LET j == [k EXCEPT !.tries = @ + 1]
           IN /\ j \in Call /\ j.pc = k.pc /\ j.kind = k.kind /\ j.events = k.events
              /\ j.action = k.action /\ j.masked = k.masked /\ j.tries = k.tries + 1
              /\ j.fed = k.fed /\ j.sent = k.sent /\ j.redactor = k.redactor
BY DEF Call

Marked(j, k, p) == \E m \in BOOLEAN : j = [k EXCEPT !.pc = p, !.masked = m]

LEMMA MaskedPut ==
    ASSUME NEW k \in Call, NEW p \in Pc, NEW j, Marked(j, k, p)
    PROVE  /\ j \in Call /\ j.pc = p /\ j.kind = k.kind /\ j.events = k.events
           /\ j.action = k.action /\ j.tries = k.tries
           /\ j.fed = k.fed /\ j.sent = k.sent /\ j.redactor = k.redactor
BY DEF Call, Marked

AnswerOf(j, k, p, f, s, a) ==
    /\ j \in Call /\ j.pc = p /\ j.kind = k.kind /\ j.events = k.events
    /\ j.action = a /\ (j.masked <=> k.masked) /\ j.tries = k.tries
    /\ j.fed = f /\ j.sent = s /\ j.redactor = k.redactor

LEMMA AnswerPut ==
    ASSUME NEW k \in Call, NEW p \in Pc, NEW f \in Seq(Char), NEW s \in Seq(Letter),
           NEW a \in {"none", "ALLOW", "REDACT", "BLOCK"}, NEW j,
           j = [[k EXCEPT !.fed = f] EXCEPT !.pc = p, !.sent = s, !.action = a]
    PROVE  AnswerOf(j, k, p, f, s, a)
BY DEF Call, AnswerOf

PieceOf(j, k, f, s, r) ==
    /\ j \in Call /\ j.pc = k.pc /\ j.kind = k.kind /\ j.events = k.events
    /\ j.action = k.action /\ j.tries = k.tries
    /\ j.fed = f /\ j.sent = s /\ j.redactor = r

LEMMA PiecePut ==
    ASSUME NEW k \in Call, NEW f \in Seq(Char), NEW s \in Seq(Letter), NEW r \in Redactor,
           NEW j,
           \/ j = [k EXCEPT !.fed = f, !.redactor = r, !.sent = s]
           \/ j = [k EXCEPT !.fed = f, !.sent = s] /\ r = k.redactor
    PROVE  PieceOf(j, k, f, s, r)
<1>1. CASE j = [k EXCEPT !.fed = f, !.redactor = r, !.sent = s]
  BY <1>1 DEF Call, PieceOf
<1>2. CASE j = [k EXCEPT !.fed = f, !.sent = s] /\ r = k.redactor
  BY <1>2 DEF Call, PieceOf
<1> QED
  BY <1>1, <1>2

EndOf(j, k, p, s, n, a) ==
    /\ j \in Call /\ j.pc = p /\ j.kind = k.kind /\ j.events = k.events
    /\ j.action = a /\ (j.masked <=> k.masked) /\ j.tries = k.tries
    /\ j.fed = k.fed /\ j.sent = s
    /\ j.redactor = [k.redactor EXCEPT !.buf = <<>>, !.count = n]
    /\ j.redactor \in Redactor /\ j.redactor.buf = <<>>

LEMMA EndPut ==
    ASSUME NEW k \in Call, NEW p \in Pc, NEW s \in Seq(Letter), NEW n \in Int,
           NEW a \in {"none", "ALLOW", "REDACT", "BLOCK"}, NEW j, NEW r,
           r = [k.redactor EXCEPT !.buf = <<>>, !.count = n],
           j = [k EXCEPT !.pc = p, !.action = a, !.sent = s, !.redactor = r]
    PROVE  EndOf(j, k, p, s, n, a)
<1>1. r \in Redactor /\ r.buf = <<>>
  <2>1. <<>> \in Seq(Char) /\ k.redactor \in Redactor
    BY CallParts, EmptySeq
  <2> QED
    BY <2>1 DEF Redactor
<1>2. /\ j \in Call /\ j.pc = p /\ j.kind = k.kind /\ j.events = k.events
      /\ j.action = a /\ (j.masked <=> k.masked) /\ j.tries = k.tries
      /\ j.fed = k.fed /\ j.sent = s /\ j.redactor = r
  BY <1>1 DEF Call
<1> QED
  BY <1>1, <1>2 DEF EndOf

\* A call that ended with an error says nothing of its action
LEMMA RaisedInv ==
    ASSUME NEW k, NEW j, NEW s, CallInv(k, s), j \in Call, j.pc = "raised", j.kind = k.kind,
           j.action = "BLOCK" => j.tries = 0, j.fed = k.fed, j.sent = k.sent,
           j.redactor = k.redactor
    PROVE  CallInv(j, s)
<1>1. Controlled(j, s)
  BY DEF Controlled
<1>2. Redacts(j, s)
  BY DEF CallInv, Redacts, Open
<1> QED
  BY <1>1, <1>2 DEF CallInv

\* A step that is not about the text of a stream
LEMMA TextKept ==
    ASSUME NEW k, NEW j, NEW s, Redacts(k, s), j.kind = k.kind,
           k.kind = "stream" => /\ j.fed = k.fed /\ j.sent = k.sent /\ j.redactor = k.redactor
                                /\ j.pc \in Open => k.pc \in Open
    PROVE  Redacts(j, s)
BY DEF Redacts

LEMMA Moved ==
    ASSUME NEW c \in Calls, NEW j, SdkInv, Put(c, j), CallInv(j, setting),
           j.kind = calls[c].kind, setting' = setting,
           last' \in Calls \cup {"none"}, faults' \in 0..MaxFaults
    PROVE  SdkInv'
<1>1. calls' = [calls EXCEPT ![c] = j] /\ j \in Call
  BY DEF Put, CallInv
<1>2. calls' \in [Calls -> Call]
  BY <1>1 DEF SdkInv
<1>3. ASSUME NEW d \in Calls PROVE calls'[d].kind \in Kinds /\ CallInv(calls'[d], setting)
  <2>1. calls'[d] = IF d = c THEN j ELSE calls[d]
    BY <1>1 DEF SdkInv
  <2>2. /\ calls[d].kind \in Kinds /\ CallInv(calls[d], setting)
        /\ j.kind \in Kinds /\ CallInv(j, setting)
    BY DEF SdkInv
  <2> QED
    BY <2>1, <2>2
<1>4. setting' \in Settings
  BY DEF SdkInv
<1> QED
  BY <1>2, <1>3, <1>4 DEF SdkInv

LEMMA FaultType ==
    ASSUME faults \in 0..MaxFaults
    PROVE  /\ Faulty => faults' \in 0..MaxFaults
           /\ UNCHANGED faults => faults' \in 0..MaxFaults
BY CallAssumption DEF Faulty

LEMMA SettingParts ==
    ASSUME NEW s \in Settings
    PROVE  s.audit \in BOOLEAN /\ s.pii \in BOOLEAN /\ s.sentences \in BOOLEAN
BY CallAssumption DEF Setting

\* An event is told to every subscriber, or the call ends with an error
Delivers(c, j, k, e, next) ==
    /\ Put(c, j) /\ j.kind = k.kind /\ j.action = k.action /\ j.masked = k.masked
    /\ j.tries = k.tries /\ j.fed = k.fed /\ j.sent = k.sent /\ j.redactor = k.redactor
    /\ \/ j.pc = "raised"
       \/ j.pc = next /\ (setting.audit => j.events = Append(k.events, e))

LEMMA EmitsTo ==
    ASSUME NEW c \in Calls, NEW k, NEW e \in Event, NEW next \in Pc,
           SdkInv, Emits(c, k, e, next), k \in Call
    PROVE  /\ faults' \in 0..MaxFaults
           /\ \E j \in Call : Delivers(c, j, k, e, next)
<1> DEFINE kept == [k EXCEPT !.events = Append(@, e)]
<1>1. "raised" \in Pc
  BY DEF Pc
<1>2. /\ kept \in Call /\ kept.kind = k.kind /\ kept.events = Append(k.events, e)
      /\ kept.action = k.action /\ kept.masked = k.masked /\ kept.tries = k.tries
      /\ kept.fed = k.fed /\ kept.sent = k.sent /\ kept.redactor = k.redactor
  BY EventPut
<1>3. \/ Put(c, [k EXCEPT !.pc = next]) /\ ~setting.audit /\ UNCHANGED faults
      \/ Put(c, [kept EXCEPT !.pc = next]) /\ UNCHANGED faults
      \/ Put(c, [k EXCEPT !.pc = "raised"]) /\ Faulty
      \/ Put(c, [kept EXCEPT !.pc = "raised"]) /\ Faulty
  BY DEF Emits
<1>4. faults' \in 0..MaxFaults
  BY <1>3, FaultType DEF SdkInv
<1> HIDE DEF kept
<1>5. ASSUME Put(c, [k EXCEPT !.pc = next]), ~setting.audit
      PROVE  \E j \in Call : Delivers(c, j, k, e, next)
  BY <1>5, PcPut DEF Delivers
<1>6. ASSUME Put(c, [kept EXCEPT !.pc = next])
      PROVE  \E j \in Call : Delivers(c, j, k, e, next)
  <2> DEFINE j == [kept EXCEPT !.pc = next]
  <2>1. /\ j \in Call /\ j.pc = next /\ j.kind = kept.kind /\ j.events = kept.events
        /\ j.action = kept.action /\ j.masked = kept.masked /\ j.tries = kept.tries
        /\ j.fed = kept.fed /\ j.sent = kept.sent /\ j.redactor = kept.redactor
    BY <1>1, <1>2, PcPut
  <2>2. Put(c, j)
    BY <1>6
  <2> HIDE DEF j
  <2> QED
    BY <2>1, <2>2, <1>2 DEF Delivers
<1>7. ASSUME Put(c, [k EXCEPT !.pc = "raised"])
      PROVE  \E j \in Call : Delivers(c, j, k, e, next)
  BY <1>7, <1>1, PcPut DEF Delivers
<1>8. ASSUME Put(c, [kept EXCEPT !.pc = "raised"])
      PROVE  \E j \in Call : Delivers(c, j, k, e, next)
  <2> DEFINE j == [kept EXCEPT !.pc = "raised"]
  <2>1. /\ j \in Call /\ j.pc = "raised" /\ j.kind = kept.kind /\ j.events = kept.events
        /\ j.action = kept.action /\ j.masked = kept.masked /\ j.tries = kept.tries
        /\ j.fed = kept.fed /\ j.sent = kept.sent /\ j.redactor = kept.redactor
    BY <1>1, <1>2, PcPut
  <2>2. Put(c, j)
    BY <1>8
  <2> HIDE DEF j
  <2> QED
    BY <2>1, <2>2, <1>2 DEF Delivers
<1> QED
  BY <1>3, <1>4, <1>5, <1>6, <1>7, <1>8

LEMMA At0 ==
    ASSUME NEW c \in Calls, SdkInv
    PROVE  /\ calls[c] \in Call /\ Controlled(calls[c], setting) /\ Redacts(calls[c], setting)
           /\ CallInv(calls[c], setting)
           /\ setting \in Settings /\ last \in Calls \cup {"none"} /\ faults \in 0..MaxFaults
BY DEF SdkInv, CallInv

(***************************************************************************)
(* One lemma per step.                                                     *)
(***************************************************************************)
LEMMA OpensInv == ASSUME NEW c \in Calls, SdkInv, Opens(c) PROVE SdkInv'
<1> DEFINE k == calls[c]
<1>1. /\ k \in Call /\ Controlled(k, setting) /\ Redacts(k, setting) /\ CallInv(k, setting)
      /\ last \in Calls \cup {"none"}
  BY At0
<1>2. k.pc = "new" /\ k.kind \in Governed /\ setting' = setting /\ last' = last
  BY DEF Opens, At
<1>3. Emits(c, k, "call", "judging") /\ "judging" \in Pc /\ "call" \in Event
  BY DEF Opens, Pc, Event
<1> HIDE DEF k
<1>4. faults' \in 0..MaxFaults
  BY <1>1, <1>3, EmitsTo
<1>5. PICK j \in Call : Delivers(c, j, k, "call", "judging")
  BY <1>1, <1>3, EmitsTo
<1>6. /\ Put(c, j) /\ j.kind = k.kind /\ j.action = k.action /\ j.masked = k.masked
      /\ j.tries = k.tries /\ j.fed = k.fed /\ j.sent = k.sent /\ j.redactor = k.redactor
      /\ \/ j.pc = "raised"
         \/ j.pc = "judging" /\ (setting.audit => j.events = Append(k.events, "call"))
  BY <1>5 DEF Delivers
<1>7. k.tries = 0 /\ k.action = "none" /\ (setting.audit => k.events = <<>>)
  BY <1>1, <1>2 DEF Controlled, Told
<1>8. CallInv(j, setting)
  <2>1. CASE j.pc = "raised"
    BY <2>1, <1>1, <1>6, <1>7, RaisedInv
  <2>2. CASE j.pc = "judging" /\ (setting.audit => j.events = Append(k.events, "call"))
    <3>1. setting.audit => j.events = <<"call">>
      BY <2>2, <1>7
    <3>2. Controlled(j, setting)
      BY <3>1, <2>2, <1>6, <1>7 DEF Controlled, Told
    <3>3. Redacts(j, setting)
      BY <2>2, <1>1, <1>2, <1>6, TextKept DEF Open
    <3> QED
      BY <3>2, <3>3 DEF CallInv
  <2> QED
    BY <2>1, <2>2, <1>6
<1> QED
  BY <1>1, <1>2, <1>4, <1>6, <1>8, Moved DEF k

LEMMA AllowedInv == ASSUME NEW c \in Calls, SdkInv, Allowed(c) PROVE SdkInv'
<1> DEFINE k == calls[c]
<1>1. /\ k \in Call /\ Controlled(k, setting) /\ Redacts(k, setting)
      /\ last \in Calls \cup {"none"} /\ faults \in 0..MaxFaults
  BY At0
<1>2. /\ k.pc = "judging" /\ setting' = setting /\ last' = last /\ faults' = faults
      /\ \E m \in BOOLEAN : Put(c, [k EXCEPT !.pc = "calling", !.masked = m])
  BY DEF Allowed, At
<1>3. PICK j : Put(c, j) /\ Marked(j, k, "calling")
  BY <1>2 DEF Marked
<1> HIDE DEF k
<1>4. "calling" \in Pc
  BY DEF Pc
<1>5. /\ j \in Call /\ j.pc = "calling" /\ j.kind = k.kind /\ j.events = k.events
      /\ j.action = k.action /\ j.tries = k.tries
      /\ j.fed = k.fed /\ j.sent = k.sent /\ j.redactor = k.redactor
  BY <1>1, <1>4, <1>3, MaskedPut
<1>7. Controlled(j, setting)
  BY <1>1, <1>2, <1>5 DEF Controlled, Told
<1>8. Redacts(j, setting)
  BY <1>1, <1>2, <1>5, TextKept DEF Open
<1>9. CallInv(j, setting)
  BY <1>5, <1>7, <1>8 DEF CallInv
<1> QED
  BY <1>1, <1>2, <1>5, <1>3, <1>9, Moved DEF k

LEMMA RefusedInv == ASSUME NEW c \in Calls, SdkInv, Refused(c) PROVE SdkInv'
<1> DEFINE k == calls[c]
           i == [k EXCEPT !.pc = "closing"]
           j == [i EXCEPT !.action = "BLOCK"]
<1>1. /\ k \in Call /\ Controlled(k, setting) /\ Redacts(k, setting)
      /\ last \in Calls \cup {"none"} /\ faults \in 0..MaxFaults
  BY At0
<1>2. k.pc = "judging" /\ setting' = setting /\ last' \in Calls \cup {"none"} /\ faults' = faults
  BY <1>1 DEF Refused, At
<1>3. Put(c, j)
  <2>1. Put(c, [k EXCEPT !.pc = "closing", !.action = "BLOCK"])
    BY DEF Refused
  <2>2. [k EXCEPT !.pc = "closing", !.action = "BLOCK"] = j
    OBVIOUS
  <2> QED
    BY <2>1, <2>2
<1> HIDE DEF k
<1>4. "closing" \in Pc
  BY DEF Pc
<1>5. /\ i \in Call /\ i.pc = "closing" /\ i.kind = k.kind /\ i.events = k.events
      /\ i.action = k.action /\ i.masked = k.masked /\ i.tries = k.tries
      /\ i.fed = k.fed /\ i.sent = k.sent /\ i.redactor = k.redactor
  BY <1>1, <1>4, PcPut
<1> HIDE DEF i
<1>6. /\ j \in Call /\ j.pc = i.pc /\ j.kind = i.kind /\ j.events = i.events
      /\ j.action = "BLOCK" /\ j.masked = i.masked /\ j.tries = i.tries
      /\ j.fed = i.fed /\ j.sent = i.sent /\ j.redactor = i.redactor
  BY <1>5, ActionPut
<1> HIDE DEF j
<1>7. Controlled(j, setting)
  BY <1>1, <1>2, <1>5, <1>6 DEF Controlled, Told, Settled
<1>8. Redacts(j, setting)
  BY <1>1, <1>2, <1>5, <1>6, TextKept DEF Open
<1>9. CallInv(j, setting) /\ j.kind = k.kind
  BY <1>5, <1>6, <1>7, <1>8 DEF CallInv
<1> QED
  BY <1>1, <1>2, <1>3, <1>9, Moved DEF k

\* A call of a document: it is told with the action it is given, and not streamed
LEMMA TellsInv ==
    ASSUME NEW c \in Calls, SdkInv, calls[c].kind \notin Governed,
           calls[c].pc \in {"new", "accessing"}, NEW e \in Event, NEW i \in Call,
           i.kind = calls[c].kind, i.tries = calls[c].tries, i.fed = calls[c].fed,
           i.sent = calls[c].sent, i.redactor = calls[c].redactor,
           NEW next \in {"accessing", "calling", "raised"}, Emits(c, i, e, next),
           next = "accessing" => i.action = "none", next = "calling" => i.action # "BLOCK",
           setting' = setting, last' = last
    PROVE  SdkInv'
<1> DEFINE k == calls[c]
<1>1. /\ k \in Call /\ Controlled(k, setting) /\ Redacts(k, setting)
      /\ last \in Calls \cup {"none"}
  BY At0
<1>2. k.tries = 0
  BY <1>1 DEF Controlled
<1>3. next \in Pc /\ k.kind \notin Governed /\ k.kind # "stream"
  BY DEF Pc, Governed
<1> HIDE DEF k
<1>4. faults' \in 0..MaxFaults /\ \E j \in Call : Delivers(c, j, i, e, next)
  BY <1>3, EmitsTo
<1>5. PICK j \in Call : Delivers(c, j, i, e, next)
  BY <1>4
<1>6. /\ Put(c, j) /\ j.kind = k.kind /\ j.action = i.action /\ j.tries = 0
      /\ j.pc = "raised" \/ j.pc = next
  BY <1>2, <1>5 DEF Delivers, k
<1>7. Controlled(j, setting)
  BY <1>3, <1>6 DEF Controlled
<1>8. Redacts(j, setting)
  BY <1>1, <1>3, <1>6, TextKept
<1>9. CallInv(j, setting)
  BY <1>7, <1>8 DEF CallInv
<1> QED
  BY <1>1, <1>4, <1>6, <1>9, Moved DEF k

LEMMA OutsideZoneInv == ASSUME NEW c \in Calls, SdkInv, OutsideZone(c) PROVE SdkInv'
<1> DEFINE k == calls[c]
           i == [k EXCEPT !.action = "BLOCK"]
<1>1. k \in Call
  BY At0
<1>2. /\ k.pc = "new" /\ k.kind \notin Governed /\ Emits(c, i, "BLOCK", "raised")
      /\ setting' = setting /\ last' = last /\ "BLOCK" \in Event
  BY DEF OutsideZone, At, Event
<1> HIDE DEF k
<1>3. /\ i \in Call /\ i.kind = k.kind /\ i.tries = k.tries
      /\ i.fed = k.fed /\ i.sent = k.sent /\ i.redactor = k.redactor
  BY <1>1, ActionPut
<1> HIDE DEF i
<1> QED
  BY <1>2, <1>3, TellsInv DEF k

LEMMA ClassifiesInv == ASSUME NEW c \in Calls, SdkInv, Classifies(c) PROVE SdkInv'
<1> DEFINE k == calls[c]
<1>1. k \in Call /\ Controlled(k, setting)
  BY At0
<1>2. /\ k.pc = "new" /\ k.kind \notin Governed /\ Emits(c, k, "classify", "accessing")
      /\ setting' = setting /\ last' = last /\ "classify" \in Event
  BY DEF Classifies, At, Event, Governed
<1>3. k.action = "none"
  BY <1>1, <1>2 DEF Controlled
<1> QED
  BY <1>1, <1>2, <1>3, TellsInv

LEMMA AccessesInv == ASSUME NEW c \in Calls, SdkInv, Accesses(c) PROVE SdkInv'
<1> DEFINE k == calls[c]
           i == [k EXCEPT !.action = "ALLOW"]
<1>1. k \in Call /\ Controlled(k, setting)
  BY At0
<1>2. /\ k.pc \in {"new", "accessing"} /\ (k.pc = "new" => k.kind = "query")
      /\ Emits(c, i, "ALLOW", "calling")
      /\ setting' = setting /\ last' = last /\ "ALLOW" \in Event
  BY DEF Accesses, At, Event
<1>3. k.kind \notin Governed
  BY <1>1, <1>2 DEF Controlled, Governed
<1> HIDE DEF k
<1>4. /\ i \in Call /\ i.kind = k.kind /\ i.tries = k.tries /\ i.action = "ALLOW"
      /\ i.fed = k.fed /\ i.sent = k.sent /\ i.redactor = k.redactor
  BY <1>1, ActionPut
<1> HIDE DEF i
<1> QED
  BY <1>2, <1>3, <1>4, TellsInv DEF k

\* An answer in one piece is masked, and its action says so
LEMMA AnswerIs ==
    ASSUME NEW raw \in Answers, setting \in Settings
    PROVE  LET sent == IF setting.pii THEN Redact(raw, setting.sentences) ELSE raw
               count == IF setting.pii THEN Count(raw) ELSE 0
           IN /\ raw \in Seq(Char) /\ sent \in Seq(Letter) /\ count \in Nat
              /\ count = 0 <=> sent = raw
<1>1. raw \in Seq(Char)
  BY CallAssumption
<1>2. setting.pii \in BOOLEAN /\ setting.sentences \in BOOLEAN
  BY SettingParts
<1>3. Text(raw) /\ Wrote(raw)
  BY <1>1, CharIsLetter DEF Text, Wrote
<1>4. Wrote(Redact(raw, setting.sentences)) /\ Count(raw) \in Nat
  BY <1>2, <1>3, RedactJoin, CountJoin
<1>5. Count(raw) = 0 <=> Redact(raw, setting.sentences) = raw
  BY <1>1, <1>2, CleanIs
<1> QED
  BY <1>1, <1>3, <1>4, <1>5 DEF Wrote

LEMMA ActionIs ==
    ASSUME NEW k, NEW count \in Nat
    PROVE  /\ Action(k, count) \in {"ALLOW", "REDACT"}
           /\ Action(k, count) = "ALLOW" <=> (~k.masked /\ count = 0)
BY DEF Action

LEMMA TriedIs ==
    ASSUME NEW c \in Calls, SdkInv
    PROVE  /\ Tried(c) \in Call /\ Tried(c).kind = calls[c].kind /\ Tried(c).pc = calls[c].pc
           /\ Tried(c).events = calls[c].events /\ Tried(c).action = calls[c].action
           /\ Tried(c).masked = calls[c].masked /\ Tried(c).tries = calls[c].tries + 1
           /\ Tried(c).fed = calls[c].fed /\ Tried(c).sent = calls[c].sent
           /\ Tried(c).redactor = calls[c].redactor
           /\ calls[c].tries \in Nat
<1>1. calls[c] \in Call
  BY At0
<1> QED
  BY <1>1, TriesPut, CallParts DEF Tried

LEMMA AnsweredInv == ASSUME NEW c \in Calls, SdkInv, Answered(c) PROVE SdkInv'
<1> DEFINE k == calls[c]
           i == Tried(c)
<1>1. /\ k \in Call /\ Controlled(k, setting) /\ Redacts(k, setting)
      /\ setting \in Settings /\ last \in Calls \cup {"none"} /\ faults \in 0..MaxFaults
  BY At0
<1>2. /\ k.pc = "calling" /\ k.kind # "stream"
      /\ setting' = setting /\ last' = last /\ faults' = faults
  BY DEF Answered, At
<1>3. PICK raw \in Answers :
        LET sent == IF setting.pii THEN Redact(raw, setting.sentences) ELSE raw
            count == IF setting.pii THEN Count(raw) ELSE 0
            h == [i EXCEPT !.fed = raw]
        IN Put(c, [h EXCEPT !.pc = "closing", !.sent = sent, !.action = Action(h, count)])
  BY DEF Answered
<1> DEFINE sent == IF setting.pii THEN Redact(raw, setting.sentences) ELSE raw
           count == IF setting.pii THEN Count(raw) ELSE 0
           h == [i EXCEPT !.fed = raw]
           a == Action(h, count)
           j == [h EXCEPT !.pc = "closing", !.sent = sent, !.action = a]
<1>4. raw \in Seq(Char) /\ sent \in Seq(Letter) /\ count \in Nat /\ (count = 0 <=> sent = raw)
  BY <1>1, AnswerIs
<1>5. Put(c, j)
  BY <1>3
<1> HIDE DEF sent, count
<1>6. a \in {"ALLOW", "REDACT"} /\ (a = "ALLOW" <=> (~h.masked /\ count = 0))
  BY <1>4, ActionIs
<1>7. /\ i \in Call /\ i.kind = k.kind /\ i.events = k.events /\ i.masked = k.masked
      /\ i.tries = k.tries + 1 /\ k.tries \in Nat
  BY TriedIs
<1> HIDE DEF a, i, k
<1>8. h.masked <=> i.masked
  BY <1>7 DEF Call
<1>9. /\ j \in Call /\ j.pc = "closing" /\ j.kind = i.kind /\ j.events = i.events
      /\ j.action = a /\ (j.masked <=> i.masked) /\ j.tries = i.tries
      /\ j.fed = raw /\ j.sent = sent
  <2>1. "closing" \in Pc /\ a \in {"none", "ALLOW", "REDACT", "BLOCK"}
    BY <1>6 DEF Pc
  <2>2. j = [[i EXCEPT !.fed = raw] EXCEPT !.pc = "closing", !.sent = sent, !.action = a]
    OBVIOUS
  <2> HIDE DEF j, h
  <2>3. AnswerOf(j, i, "closing", raw, sent, a)
    BY <2>1, <2>2, <1>4, <1>7, AnswerPut
  <2> QED
    BY <2>3 DEF AnswerOf
<1> HIDE DEF h, j
<1>10. j.tries > 0
  BY <1>7, <1>9
<1>11. Settled(j)
  BY <1>4, <1>6, <1>8, <1>9, <1>10 DEF Settled
<1>12. Controlled(j, setting)
  <2>1. j.action # "BLOCK" /\ j.kind = k.kind /\ j.events = k.events
    BY <1>6, <1>7, <1>9
  <2>2. (k.kind \in Governed /\ setting.audit) => k.events = <<"call">>
    BY <1>1, <1>2 DEF Controlled, Told
  <2> QED
    BY <2>1, <2>2, <1>9, <1>11 DEF Controlled, Told
<1>13. Redacts(j, setting)
  BY <1>2, <1>7, <1>9 DEF Redacts
<1>14. CallInv(j, setting) /\ j.kind = k.kind
  BY <1>7, <1>9, <1>12, <1>13 DEF CallInv
<1> QED
  BY <1>1, <1>2, <1>5, <1>14, Moved DEF k

LEMMA IngestedInv == ASSUME NEW c \in Calls, SdkInv, Ingested(c) PROVE SdkInv'
<1> DEFINE k == calls[c]
           i == Tried(c)
           j == [i EXCEPT !.pc = "returned"]
<1>1. /\ k \in Call /\ Controlled(k, setting)
      /\ last \in Calls \cup {"none"} /\ faults \in 0..MaxFaults
  BY At0
<1>2. /\ k.pc = "calling" /\ k.kind \notin Governed /\ k.kind # "stream" /\ Put(c, j)
      /\ setting' = setting /\ last' = last /\ faults' = faults
  BY DEF Ingested, At, Governed
<1>3. i \in Call /\ i.kind = k.kind /\ i.action = k.action
  BY TriedIs
<1> HIDE DEF i, k
<1>4. j \in Call /\ j.pc = "returned" /\ j.kind = i.kind /\ j.action = i.action
  <2>1. "returned" \in Pc
    BY DEF Pc
  <2> QED
    BY <2>1, <1>3, PcPut
<1> HIDE DEF j
<1>5. Controlled(j, setting) /\ Redacts(j, setting)
  BY <1>1, <1>2, <1>3, <1>4 DEF Controlled, Redacts
<1>6. CallInv(j, setting) /\ j.kind = k.kind
  BY <1>3, <1>4, <1>5 DEF CallInv
<1> QED
  BY <1>1, <1>2, <1>6, Moved DEF k

\* A call that raises at an attempt
LEMMA RaisesInv ==
    ASSUME NEW c \in Calls, SdkInv, Faulty, NEW k \in Call, Raises(c, k),
           k.kind = calls[c].kind, k.action = "BLOCK" => k.tries = 0,
           k.fed = calls[c].fed, k.sent = calls[c].sent, k.redactor = calls[c].redactor
    PROVE  SdkInv'
<1> DEFINE j == [k EXCEPT !.pc = "raised"]
           o == calls[c]
<1>1. CallInv(o, setting) /\ last \in Calls \cup {"none"} /\ faults \in 0..MaxFaults
  BY At0
<1>2. Put(c, j) /\ setting' = setting /\ last' = last /\ faults' \in 0..MaxFaults
  BY <1>1, FaultType DEF Raises
<1>3. /\ j \in Call /\ j.pc = "raised" /\ j.kind = k.kind /\ j.action = k.action
      /\ j.tries = k.tries /\ j.fed = k.fed /\ j.sent = k.sent /\ j.redactor = k.redactor
  <2>1. "raised" \in Pc
    BY DEF Pc
  <2> QED
    BY <2>1, PcPut
<1> HIDE DEF j
<1>4. CallInv(j, setting)
  <2> HIDE DEF o
  <2>1. k.kind = o.kind /\ k.fed = o.fed /\ k.sent = o.sent /\ k.redactor = o.redactor
    BY DEF o
  <2> QED
    BY <2>1, <1>1, <1>3, RaisedInv
<1> QED
  BY <1>1, <1>2, <1>3, <1>4, Moved

LEMMA FailsForGoodInv == ASSUME NEW c \in Calls, SdkInv, FailsForGood(c) PROVE SdkInv'
<1>1. Controlled(calls[c], setting) /\ calls[c].pc = "calling"
  BY At0 DEF FailsForGood, At
<1>2. Tried(c).action # "BLOCK"
  BY <1>1, TriedIs DEF Controlled
<1>3. Faulty /\ Raises(c, Tried(c))
  BY DEF FailsForGood
<1> QED
  BY <1>2, <1>3, TriedIs, RaisesInv

LEMMA CancelledInv == ASSUME NEW c \in Calls, SdkInv, Cancelled(c) PROVE SdkInv'
<1>1. calls[c] \in Call /\ (calls[c].action = "BLOCK" => calls[c].tries = 0)
  BY At0 DEF Controlled
<1>2. Faulty /\ Raises(c, calls[c])
  BY DEF Cancelled
<1> QED
  BY <1>1, <1>2, RaisesInv

LEMMA FailsTransientlyInv == ASSUME NEW c \in Calls, SdkInv, FailsTransiently(c) PROVE SdkInv'
<1> DEFINE k == calls[c]
           i == Tried(c)
<1>1. /\ k \in Call /\ Controlled(k, setting) /\ Redacts(k, setting)
      /\ last \in Calls \cup {"none"} /\ faults \in 0..MaxFaults
  BY At0
<1>2. k.pc = "calling" /\ k.kind # "stream" /\ Faulty
  BY DEF FailsTransiently, At
<1>3. /\ i \in Call /\ i.kind = k.kind /\ i.pc = k.pc /\ i.events = k.events
      /\ i.action = k.action /\ i.fed = k.fed /\ i.sent = k.sent /\ i.redactor = k.redactor
  BY TriedIs
<1>4. CASE Put(c, i) /\ UNCHANGED <<setting, last>>
  <2>1. setting' = setting /\ last' = last /\ faults' \in 0..MaxFaults
    BY <1>1, <1>2, <1>4, FaultType
  <2> HIDE DEF i, k
  <2>2. k.action # "BLOCK" /\ ((k.kind \in Governed /\ setting.audit) => k.events = <<"call">>)
    BY <1>1, <1>2 DEF Controlled, Told
  <2>3. Controlled(i, setting) /\ Redacts(i, setting)
    BY <2>2, <1>2, <1>3 DEF Controlled, Told, Redacts
  <2>4. CallInv(i, setting)
    BY <2>3, <1>3 DEF CallInv
  <2> QED
    BY <2>1, <2>4, <1>1, <1>3, <1>4, Moved DEF k
<1>5. CASE Raises(c, i)
  <2>1. i.action # "BLOCK"
    BY <1>1, <1>2, <1>3 DEF Controlled
  <2> QED
    BY <2>1, <1>2, <1>3, <1>5, RaisesInv
<1> QED
  BY <1>4, <1>5 DEF FailsTransiently

LEMMA StreamOpensInv == ASSUME NEW c \in Calls, SdkInv, StreamOpens(c) PROVE SdkInv'
<1> DEFINE k == calls[c]
           i == Tried(c)
           j == [i EXCEPT !.pc = "streaming"]
<1>1. /\ k \in Call /\ Controlled(k, setting) /\ Redacts(k, setting)
      /\ last \in Calls \cup {"none"} /\ faults \in 0..MaxFaults
  BY At0
<1>2. /\ k.pc = "calling" /\ k.kind = "stream" /\ Put(c, j)
      /\ setting' = setting /\ last' = last /\ faults' = faults
  BY DEF StreamOpens, At
<1>3. /\ i \in Call /\ i.kind = k.kind /\ i.events = k.events /\ i.action = k.action
      /\ i.tries = k.tries + 1 /\ k.tries \in Nat
      /\ i.fed = k.fed /\ i.sent = k.sent /\ i.redactor = k.redactor
  BY TriedIs
<1> HIDE DEF i, k
<1>4. /\ j \in Call /\ j.pc = "streaming" /\ j.kind = i.kind /\ j.events = i.events
      /\ j.action = i.action /\ j.tries = i.tries
      /\ j.fed = i.fed /\ j.sent = i.sent /\ j.redactor = i.redactor
  <2>1. "streaming" \in Pc
    BY DEF Pc
  <2> QED
    BY <2>1, <1>3, PcPut
<1> HIDE DEF j
<1>5. j.tries > 0 /\ k.action # "BLOCK"
  BY <1>1, <1>2, <1>3, <1>4 DEF Controlled
<1>6. (k.kind \in Governed /\ setting.audit) => k.events = <<"call">>
  BY <1>1, <1>2 DEF Controlled, Told
<1>7. Controlled(j, setting)
  BY <1>2, <1>3, <1>4, <1>5, <1>6 DEF Controlled, Told
<1>8. Redacts(j, setting)
  BY <1>1, <1>2, <1>3, <1>4, TextKept DEF Open
<1>9. CallInv(j, setting) /\ j.kind = k.kind
  BY <1>3, <1>4, <1>7, <1>8 DEF CallInv
<1> QED
  BY <1>1, <1>2, <1>9, Moved DEF k

\* A call whose pieces move on
LEMMA PiecedInv ==
    ASSUME NEW c \in Calls, SdkInv, NEW j \in Call, Put(c, j), calls[c].pc = "streaming",
           j.pc = "streaming", j.kind = calls[c].kind, j.events = calls[c].events,
           j.action = calls[c].action, j.tries = calls[c].tries, Redacts(j, setting),
           setting' = setting, last' = last, faults' = faults
    PROVE  SdkInv'
<1> DEFINE k == calls[c]
<1>1. /\ Controlled(k, setting) /\ last \in Calls \cup {"none"} /\ faults \in 0..MaxFaults
  BY At0
<1>2. /\ k.pc = "streaming" /\ j.kind = k.kind /\ j.events = k.events
      /\ j.action = k.action /\ j.tries = k.tries
  OBVIOUS
<1> HIDE DEF k
<1>3. Controlled(j, setting)
  BY <1>1, <1>2 DEF Controlled, Told
<1>4. CallInv(j, setting)
  BY <1>3 DEF CallInv
<1> QED
  BY <1>1, <1>2, <1>4, Moved DEF k

LEMMA DeltaInv == ASSUME NEW c \in Calls, SdkInv, Delta(c) PROVE SdkInv'
<1> DEFINE k == calls[c]
<1>1. /\ k \in Call /\ Controlled(k, setting) /\ Redacts(k, setting) /\ setting \in Settings
  BY At0
<1>2. k.pc = "streaming" /\ setting' = setting /\ last' = last /\ faults' = faults
  BY DEF Delta, At
<1>3. k.kind = "stream" /\ k.fed \in Seq(Char) /\ k.sent \in Seq(Letter)
  BY <1>1, <1>2, CallParts DEF Controlled
<1>4. PICK piece \in Piece :
        Put(c, IF setting.pii
               THEN [k EXCEPT !.fed = @ \o piece, !.redactor = Fed(@, piece),
                              !.sent = @ \o Emitted(k.redactor, piece)]
               ELSE [k EXCEPT !.fed = @ \o piece, !.sent = @ \o piece])
  BY DEF Delta
<1>5. piece \in Seq(Char)
  <2>1. PICK n \in 1..MaxPiece : piece \in [1..n -> Char]
    BY DEF Piece
  <2>2. n \in Nat
    BY CallAssumption
  <2> QED
    BY <2>1, <2>2
<1> DEFINE f == Join(k.fed, piece)
<1>6. f \in Seq(Char) /\ Text(piece)
  BY <1>3, <1>5, TextJoin DEF Text
<1>7. CASE setting.pii
  <2> DEFINE s == Join(k.sent, Emitted(k.redactor, piece))
             r == Fed(k.redactor, piece)
             j == [k EXCEPT !.fed = f, !.redactor = r, !.sent = s]
  <2>1. Streamed(k.redactor, k.fed, k.sent)
    BY <1>1, <1>2, <1>3, <1>7 DEF Redacts, Open
  <2>2. Streamed(r, f, s)
    BY <2>1, <1>6, FedStreamed
  <2>3. Finished(r, f, s) /\ r \in Redactor /\ s \in Seq(Letter)
    BY <2>2, StreamedFinished DEF Streamed, Wrote
  <2>4. Put(c, j)
    BY <1>4, <1>7 DEF Join
  <2>5. j = [k EXCEPT !.fed = f, !.redactor = r, !.sent = s]
    OBVIOUS
  <2> HIDE DEF k, f, s, r, j
  <2>6. PieceOf(j, k, f, s, r)
    BY <2>5, <2>3, <1>1, <1>6, PiecePut
  <2>7. /\ j \in Call /\ j.pc = k.pc /\ j.kind = k.kind /\ j.events = k.events
        /\ j.action = k.action /\ j.tries = k.tries
        /\ j.fed = f /\ j.sent = s /\ j.redactor = r
    BY <2>6 DEF PieceOf
  <2>8. Redacts(j, setting)
    BY <2>2, <2>3, <2>7, <1>7 DEF Redacts
  <2> QED
    BY <2>4, <2>7, <2>8, <1>2, PiecedInv DEF k
<1>8. CASE ~setting.pii
  <2> DEFINE j == [k EXCEPT !.fed = f, !.sent = f]
  <2>1. k.sent = k.fed /\ k.redactor.buf = <<>>
    BY <1>1, <1>3, <1>8 DEF Redacts
  <2>2. Put(c, j)
    BY <2>1, <1>4, <1>8 DEF Join
  <2>3. f \in Seq(Letter)
    BY <1>6, CharIsLetter
  <2>4. j = [k EXCEPT !.fed = f, !.sent = f]
    OBVIOUS
  <2> HIDE DEF k, f, j
  <2>5. PieceOf(j, k, f, f, k.redactor)
    BY <2>4, <2>3, <1>1, <1>6, PiecePut, CallParts
  <2>6. /\ j \in Call /\ j.pc = k.pc /\ j.kind = k.kind /\ j.events = k.events
        /\ j.action = k.action /\ j.tries = k.tries
        /\ j.fed = f /\ j.sent = f /\ j.redactor = k.redactor
    BY <2>5 DEF PieceOf
  <2>7. Redacts(j, setting)
    BY <2>1, <2>6, <1>8 DEF Redacts
  <2> QED
    BY <2>2, <2>6, <2>7, <1>2, PiecedInv DEF k
<1> QED
  BY <1>7, <1>8

LEMMA StreamEndsInv == ASSUME NEW c \in Calls, SdkInv, StreamEnds(c) PROVE SdkInv'
<1> DEFINE k == calls[c]
           count == IF setting.pii THEN Total(k.redactor) ELSE 0
           a == Action(k, count)
           sent == Join(k.sent, Rest(k.redactor))
           j == [k EXCEPT !.pc = "closing", !.action = a, !.sent = sent,
                          !.redactor.buf = <<>>, !.redactor.count = count]
<1>1. /\ k \in Call /\ Controlled(k, setting) /\ Redacts(k, setting) /\ setting \in Settings
      /\ last \in Calls \cup {"none"} /\ faults \in 0..MaxFaults
  BY At0
<1>2. k.pc = "streaming" /\ setting' = setting /\ last' = c /\ faults' = faults
  BY DEF StreamEnds, At
<1>3. Put(c, j)
  BY DEF StreamEnds, Join
<1>4. k.kind = "stream" /\ k.tries > 0 /\ k.fed \in Seq(Char) /\ k.redactor \in Redactor
  BY <1>1, <1>2, CallParts DEF Controlled
<1>5. /\ count \in Nat /\ sent \in Seq(Letter) /\ (count = 0 <=> sent = k.fed)
      /\ setting.pii => Finished([k.redactor EXCEPT !.buf = <<>>, !.count = count], k.fed, sent)
      /\ ~setting.pii => sent = k.fed
  <2>1. CASE setting.pii
    <3>1. Streamed(k.redactor, k.fed, k.sent)
      BY <1>1, <1>2, <1>4, <2>1 DEF Redacts, Open
    <3>2. /\ Finished([k.redactor EXCEPT !.buf = <<>>, !.count = Total(k.redactor)], k.fed, sent)
          /\ Total(k.redactor) \in Nat /\ Total(k.redactor) = Count(k.fed)
          /\ Count(k.fed) = 0 <=> sent = k.fed
      BY <3>1, StreamedFinished DEF Streamed
    <3>3. sent \in Seq(Letter)
      BY <3>2 DEF Finished, Wrote
    <3>4. count = Total(k.redactor)
      BY <2>1
    <3> HIDE DEF k, sent, count
    <3> QED
      BY <2>1, <3>2, <3>3, <3>4
  <2>2. CASE ~setting.pii
    <3>1. k.sent = k.fed /\ k.redactor.buf = <<>> /\ count = 0
      BY <1>1, <1>4, <2>2 DEF Redacts
    <3>2. k.redactor.sentences \in BOOLEAN
      BY <1>4, RedactorParts
    <3>3. Rest(k.redactor) = <<>>
      BY <3>1, <3>2, RedactJoin DEF Rest
    <3>4. Wrote(k.fed)
      BY <1>4, CharIsLetter DEF Wrote
    <3>5. sent = k.fed /\ sent \in Seq(Letter)
      BY <3>1, <3>3, <3>4, WroteJoin DEF Wrote
    <3> HIDE DEF count, sent
    <3> QED
      BY <2>2, <3>1, <3>5
  <2> QED
    BY <2>1, <2>2
<1> HIDE DEF count, sent
<1>6. a \in {"ALLOW", "REDACT"} /\ (a = "ALLOW" <=> (~k.masked /\ count = 0))
  BY <1>5, ActionIs
<1> HIDE DEF a
<1> DEFINE r == [k.redactor EXCEPT !.buf = <<>>, !.count = count]
<1>7. j = [k EXCEPT !.pc = "closing", !.action = a, !.sent = sent, !.redactor = r]
  OBVIOUS
<1> HIDE DEF k, j
<1>8. EndOf(j, k, "closing", sent, count, a)
  <2>1. "closing" \in Pc /\ a \in {"none", "ALLOW", "REDACT", "BLOCK"} /\ count \in Int
    BY <1>5, <1>6 DEF Pc
  <2> QED
    BY <2>1, <1>1, <1>5, <1>7, EndPut DEF r
<1>9. /\ j \in Call /\ j.pc = "closing" /\ j.kind = k.kind /\ j.events = k.events
      /\ j.action = a /\ (j.masked <=> k.masked) /\ j.tries = k.tries
      /\ j.fed = k.fed /\ j.sent = sent
      /\ j.redactor = [k.redactor EXCEPT !.buf = <<>>, !.count = count]
      /\ j.redactor.buf = <<>>
  BY <1>8 DEF EndOf
<1>10. Settled(j)
  BY <1>4, <1>5, <1>6, <1>9 DEF Settled
<1>11. Controlled(j, setting)
  <2>1. j.action # "BLOCK"
    BY <1>6, <1>9
  <2>2. (k.kind \in Governed /\ setting.audit) => k.events = <<"call">>
    BY <1>1, <1>2 DEF Controlled, Told
  <2> QED
    BY <2>1, <2>2, <1>9, <1>10 DEF Controlled, Told
<1>12. Redacts(j, setting)
  BY <1>5, <1>9 DEF Redacts, Open
<1>13. CallInv(j, setting)
  BY <1>9, <1>11, <1>12 DEF CallInv
<1> QED
  BY <1>1, <1>2, <1>3, <1>9, <1>13, Moved DEF k

LEMMA ClosesInv == ASSUME NEW c \in Calls, SdkInv, Closes(c) PROVE SdkInv'
<1> DEFINE k == calls[c]
<1>1. /\ k \in Call /\ Controlled(k, setting) /\ Redacts(k, setting) /\ CallInv(k, setting)
      /\ last \in Calls \cup {"none"} /\ faults \in 0..MaxFaults
  BY At0
<1>2. k.pc = "closing" /\ setting' = setting /\ last' = last
  BY DEF Closes, At
<1>3. \/ /\ k.kind = "query" /\ Put(c, [k EXCEPT !.pc = "returned"]) /\ faults' = faults
      \/ Emits(c, k, k.action, "returned")
  BY DEF Closes
<1>4. "returned" \in Pc /\ k.action \in Event
  BY <1>1, CallParts DEF Pc, Event
<1>5. /\ k.action = "BLOCK" => k.tries = 0
      /\ k.kind \in Governed => Settled(k)
      /\ (k.kind \in Governed /\ setting.audit) => k.events = <<"call">>
  BY <1>1, <1>2 DEF Controlled, Told
<1> HIDE DEF k
<1>6. CASE k.kind = "query" /\ Put(c, [k EXCEPT !.pc = "returned"]) /\ faults' = faults
  <2> DEFINE j == [k EXCEPT !.pc = "returned"]
  <2>1. /\ j \in Call /\ j.pc = "returned" /\ j.kind = k.kind /\ j.action = k.action
        /\ j.tries = k.tries
    BY <1>1, <1>4, PcPut
  <2>2. Put(c, j)
    BY <1>6
  <2> HIDE DEF j
  <2>3. Controlled(j, setting) /\ Redacts(j, setting)
    BY <2>1, <1>5, <1>6 DEF Controlled, Redacts, Governed
  <2>4. CallInv(j, setting)
    BY <2>1, <2>3 DEF CallInv
  <2> QED
    BY <2>1, <2>2, <2>4, <1>1, <1>2, <1>6, Moved DEF k
<1>7. CASE Emits(c, k, k.action, "returned")
  <2>1. faults' \in 0..MaxFaults /\ \E j \in Call : Delivers(c, j, k, k.action, "returned")
    BY <1>1, <1>4, <1>7, EmitsTo
  <2>2. PICK j \in Call : Delivers(c, j, k, k.action, "returned")
    BY <2>1
  <2>3. /\ Put(c, j) /\ j.kind = k.kind /\ j.action = k.action /\ j.tries = k.tries
        /\ j.fed = k.fed /\ j.sent = k.sent /\ j.redactor = k.redactor
    BY <2>2 DEF Delivers
  <2>4. \/ j.pc = "raised"
        \/ j.pc = "returned" /\ (setting.audit => j.events = Append(k.events, k.action))
    BY <2>2 DEF Delivers
  <2>5. Settled(k) => Settled(j)
    BY <2>2 DEF Delivers, Settled
  <2>6. CallInv(j, setting)
    <3>1. CASE j.pc = "raised"
      BY <3>1, <2>3, <1>1, <1>5, RaisedInv
    <3>2. CASE j.pc = "returned" /\ (setting.audit => j.events = Append(k.events, k.action))
      <4>1. (j.kind \in Governed /\ setting.audit) => j.events = <<"call", j.action>>
        BY <3>2, <2>3, <1>5
      <4>2. Controlled(j, setting)
        BY <4>1, <3>2, <2>3, <2>5, <1>5 DEF Controlled, Told
      <4>3. Redacts(j, setting)
        BY <3>2, <2>3, <1>1, TextKept DEF Open
      <4> QED
        BY <4>2, <4>3 DEF CallInv
    <3> QED
      BY <3>1, <3>2, <2>4
  <2> QED
    BY <2>1, <2>3, <2>6, <1>1, <1>2, Moved DEF k
<1> QED
  BY <1>3, <1>6, <1>7

LEMMA NewCallInv ==
    ASSUME NEW kind \in Kinds, setting \in Settings
    PROVE  CallInv(NewCall(kind), setting) /\ NewCall(kind).kind = kind
<1> DEFINE s == setting.pii /\ setting.sentences
           r == NewRedactor(s)
           k == NewCall(kind)
<1>1. s \in BOOLEAN /\ kind \in Kind
  BY SettingParts, CallAssumption
<1>2. Streamed(r, <<>>, <<>>)
  BY <1>1, NewStreamed
<1>3. r \in Redactor /\ r.buf = <<>> /\ Finished(r, <<>>, <<>>)
  BY <1>1, <1>2, StreamedFinished DEF Streamed, NewRedactor
<1>4. k = [kind |-> kind, pc |-> "new", events |-> <<>>, action |-> "none",
           masked |-> FALSE, tries |-> 0, fed |-> <<>>, sent |-> <<>>, redactor |-> r]
  BY DEF NewCall
<1> HIDE DEF s, r, k
<1>5. /\ k.kind = kind /\ k.pc = "new" /\ k.events = <<>> /\ k.action = "none"
      /\ k.tries = 0 /\ k.fed = <<>> /\ k.sent = <<>> /\ k.redactor = r
  BY <1>4
<1>6. k \in Call
  <2>1. <<>> \in Seq(Event) /\ <<>> \in Seq(Char) /\ <<>> \in Seq(Letter) /\ "new" \in Pc
    BY EmptySeq DEF Pc
  <2> QED
    BY <2>1, <1>1, <1>3, <1>4 DEF Call
<1>7. Controlled(k, setting)
  BY <1>5 DEF Controlled, Told
<1>8. Redacts(k, setting)
  BY <1>2, <1>3, <1>5 DEF Redacts
<1> QED
  BY <1>5, <1>6, <1>7, <1>8 DEF CallInv, k

LEMMA SdkInitInv == Init => SdkInv
<1> SUFFICES ASSUME Init PROVE SdkInv
  OBVIOUS
<1>1. PICK kind \in [Calls -> Kinds] : calls = [c \in Calls |-> NewCall(kind[c])]
  BY DEF Init
<1>2. setting \in Settings /\ last = "none" /\ faults = 0
  BY DEF Init
<1>3. ASSUME NEW c \in Calls
      PROVE  calls[c] \in Call /\ calls[c].kind \in Kinds /\ CallInv(calls[c], setting)
  <2>1. calls[c] = NewCall(kind[c]) /\ kind[c] \in Kinds
    BY <1>1
  <2>2. CallInv(NewCall(kind[c]), setting) /\ NewCall(kind[c]).kind = kind[c]
    BY <2>1, <1>2, NewCallInv
  <2> QED
    BY <2>1, <2>2 DEF CallInv
<1>4. calls \in [Calls -> Call]
  BY <1>1, <1>3
<1>5. faults \in 0..MaxFaults
  BY <1>2, CallAssumption
<1> QED
  BY <1>2, <1>3, <1>4, <1>5 DEF SdkInv

LEMMA SdkStepInv == SdkInv /\ [Next]_vars => SdkInv'
<1> SUFFICES ASSUME SdkInv, [Next]_vars PROVE SdkInv'
  OBVIOUS
<1>1. CASE UNCHANGED vars
  BY <1>1 DEF vars, SdkInv
<1>2. CASE Next
  <2>1. PICK c \in Calls :
          \/ Opens(c) \/ Allowed(c) \/ Refused(c) \/ OutsideZone(c) \/ Classifies(c)
          \/ Accesses(c) \/ Answered(c) \/ Ingested(c) \/ FailsTransiently(c) \/ TimesOut(c)
          \/ FailsForGood(c) \/ Cancelled(c) \/ StreamOpens(c) \/ Delta(c) \/ StreamEnds(c)
          \/ Closes(c)
    BY <1>2 DEF Next
  <2>2. CASE Opens(c)
    BY <2>2, OpensInv
  <2>3. CASE Allowed(c)
    BY <2>3, AllowedInv
  <2>4. CASE Refused(c)
    BY <2>4, RefusedInv
  <2>5. CASE OutsideZone(c)
    BY <2>5, OutsideZoneInv
  <2>6. CASE Classifies(c)
    BY <2>6, ClassifiesInv
  <2>7. CASE Accesses(c)
    BY <2>7, AccessesInv
  <2>8. CASE Answered(c)
    BY <2>8, AnsweredInv
  <2>9. CASE Ingested(c)
    BY <2>9, IngestedInv
  <2>10. CASE FailsTransiently(c)
    BY <2>10, FailsTransientlyInv
  <2>11. CASE TimesOut(c)
    BY <2>11, FailsTransientlyInv DEF TimesOut
  <2>12. CASE FailsForGood(c)
    BY <2>12, FailsForGoodInv
  <2>13. CASE Cancelled(c)
    BY <2>13, CancelledInv
  <2>14. CASE StreamOpens(c)
    BY <2>14, StreamOpensInv
  <2>15. CASE Delta(c)
    BY <2>15, DeltaInv
  <2>16. CASE StreamEnds(c)
    BY <2>16, StreamEndsInv
  <2>17. CASE Closes(c)
    BY <2>17, ClosesInv
  <2> QED
    BY <2>1, <2>2, <2>3, <2>4, <2>5, <2>6, <2>7, <2>8, <2>9, <2>10, <2>11, <2>12, <2>13, <2>14,
       <2>15, <2>16, <2>17
<1> QED
  BY <1>1, <1>2

(* Whatever fails, is tried again, cancelled or stopped, every call keeps   *)
(* to the order of its events, attempts and action, and what a stream let    *)
(* out with what its redactor would still write is the redaction of what it  *)
(* was fed, and of what it may still be fed.                                 *)
THEOREM SdkInvariant == Spec => [](TypeOK /\ SdkInv)
<1>1. Init => SdkInv
  BY SdkInitInv
<1>2. SdkInv /\ [Next]_vars => SdkInv'
  BY SdkStepInv
<1>3. SdkInv => TypeOK
  <2> SUFFICES ASSUME SdkInv, NEW c \in Calls
               PROVE  /\ calls[c].kind \in Kinds /\ calls[c].pc \in Pc
                      /\ calls[c].action \in {"none", "ALLOW", "REDACT", "BLOCK"}
                      /\ calls[c].redactor.buf \in Seq(Char)
    BY DEF TypeOK, SdkInv, Pc
  <2>1. calls[c] \in Call /\ calls[c].kind \in Kinds
    BY DEF SdkInv
  <2>2. calls[c].redactor.buf \in Seq(Char)
    BY <2>1, CallParts, RedactorParts
  <2> QED
    BY <2>1, <2>2, CallParts
<1> QED
  BY <1>1, <1>2, <1>3, PTL DEF Spec

(* A stream cut into deltas anywhere, of any length, with any window above  *)
(* the longest entity: counts always add up, and the text is that of the     *)
(* whole redacted, as long as no more is held than max_hold_chars.           *)
THEOREM StreamsAreWhole == Spec => []StreamIsWhole
<1>1. SdkInv => StreamIsWhole
  <2> SUFFICES ASSUME SdkInv, NEW c \in Calls, setting.pii, calls[c].kind = "stream"
               PROVE  LET k == calls[c]
                      IN /\ Total(k.redactor) = Count(k.fed)
                         /\ ~k.redactor.overrun =>
                              k.sent \o Rest(k.redactor) = Redact(k.fed, k.redactor.sentences)
    BY DEF StreamIsWhole
  <2>1. Redacts(calls[c], setting)
    BY At0
  <2>2. Finished(calls[c].redactor, calls[c].fed, calls[c].sent)
    BY <2>1 DEF Redacts
  <2> QED
    BY <2>2 DEF Finished, Join
<1> QED
  BY <1>1, SdkInvariant, PTL

(* The action of a call says what happened to it, for every text, policy of  *)
(* attempts, failure and setting, and past max_hold_chars too.               *)
THEOREM ActionsAreTrue == Spec => []ActionIsTrue
<1>1. SdkInv => ActionIsTrue
  <2> SUFFICES ASSUME SdkInv, NEW c \in Calls
               PROVE  LET k == calls[c]
                      IN /\ (k.action = "BLOCK") => k.tries = 0
                         /\ (k.pc = "returned" /\ k.kind \in Governed) =>
                              /\ k.tries = 0 => k.action = "BLOCK"
                              /\ k.tries > 0 =>
                                    (k.action = "ALLOW" <=> (~k.masked /\ k.sent = k.fed))
                              /\ setting.audit => k.events = <<"call", k.action>>
    BY DEF ActionIsTrue, At
  <2> DEFINE k == calls[c]
  <2>1. k \in Call /\ Controlled(k, setting)
    BY At0
  <2> HIDE DEF k
  <2>2. k.action = "BLOCK" => k.tries = 0
    BY <2>1 DEF Controlled
  <2>3. ASSUME k.pc = "returned" /\ k.kind \in Governed
        PROVE  /\ k.tries = 0 => k.action = "BLOCK"
               /\ k.tries > 0 => (k.action = "ALLOW" <=> (~k.masked /\ k.sent = k.fed))
               /\ setting.audit => k.events = <<"call", k.action>>
    <3>1. Settled(k)
      BY <2>1, <2>3 DEF Controlled
    <3>2. setting.audit => k.events = <<"call", k.action>>
      BY <2>1, <2>3 DEF Controlled, Told
    <3>3. k.tries \in Nat
      BY <2>1, CallParts
    <3> QED
      BY <3>1, <3>2, <3>3 DEF Settled
  <2> QED
    BY <2>2, <2>3 DEF k
<1> QED
  BY <1>1, SdkInvariant, PTL
=============================================================================
