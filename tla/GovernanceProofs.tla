-------------------------- MODULE GovernanceProofs --------------------------
(***************************************************************************)
(* Proofs about Governance, for any sessions, windows, guards, settings    *)
(* and requests: what passes is clean, what is refused is refused for the  *)
(* reason given, and a session is broken off exactly when its texts repeat.*)
(***************************************************************************)
EXTENDS Governance, SequenceTheorems, TLAPS

(***************************************************************************)
(* The last texts of a window.                                             *)
(***************************************************************************)
LEMMA LastTextsOf ==
    ASSUME NEW S, NEW q \in Seq(S), NEW n \in Nat \ {0}
    PROVE  /\ Last(q, n) \in Seq(S) /\ Len(Last(q, n)) = Least(Len(q), n)
           /\ \A i \in 1..Len(Last(q, n)) : Last(q, n)[i] = q[Len(q) - Len(Last(q, n)) + i]
<1> DEFINE first == IF Len(q) > n THEN Len(q) - n + 1 ELSE 1
           l == Last(q, n)
<1>1. Len(q) \in Nat /\ first \in Nat /\ first >= 1 /\ first <= Len(q) + 1
  OBVIOUS
<1>2. l = SubSeq(q, first, Len(q))
  BY DEF Last
<1>3. \A i \in first..Len(q) : q[i] \in S
  BY <1>1
<1>4. l \in Seq(S) /\ Len(l) = Len(q) - first + 1 /\ \A i \in 1..Len(l) : l[i] = q[first + i - 1]
  <2> HIDE DEF l, first
  <2>1. CASE first <= Len(q)
    BY <1>1, <1>2, <1>3, <2>1, SubSeqProperties
  <2>2. CASE first = Len(q) + 1
    BY <1>1, <1>2, <1>3, <2>2, SubSeqProperties
  <2> QED
    BY <1>1, <2>1, <2>2
<1>5. first = IF Len(q) > n THEN Len(q) - n + 1 ELSE 1
  OBVIOUS
<1> SUFFICES /\ l \in Seq(S) /\ Len(l) = Least(Len(q), n)
             /\ \A i \in 1..Len(l) : l[i] = q[Len(q) - Len(l) + i]
  OBVIOUS
<1> HIDE DEF l, first
<1>6. Len(l) = Least(Len(q), n)
  <2>1. CASE Len(q) > n
    <3>1. first = Len(q) - n + 1
      BY <1>5, <2>1
    <3>2. Len(l) = n /\ ~(Len(q) < n)
      BY <1>1, <1>4, <2>1, <3>1
    <3> QED
      BY <3>2 DEF Least
  <2>2. CASE ~(Len(q) > n)
    <3>1. Len(l) = Len(q)
      BY <1>1, <1>4, <1>5, <2>2
    <3>2. Len(q) < n \/ Len(q) = n
      BY <1>1, <2>2
    <3> QED
      BY <3>1, <3>2 DEF Least
  <2> QED
    BY <2>1, <2>2
<1>7. \A i \in 1..Len(l) : first + i - 1 = Len(q) - Len(l) + i
  BY <1>1, <1>4
<1> QED
  BY <1>4, <1>6, <1>7

\* v is the window w with the text c after it
Shifted(w, c, v) ==
    /\ v \in Seq(Content) /\ Len(v) = Least(Len(w) + 1, Window) /\ Len(v) >= 1
    /\ v[Len(v)] = c
    /\ \A i \in 1..(Len(v) - 1) : /\ v[i] = w[Len(w) + 1 - Len(v) + i]
                                  /\ Len(w) + 1 - Len(v) + i \in 1..Len(w)

\* A window with one more text: the text comes last, and what was before it keeps its order
LEMMA WindowStep ==
    ASSUME NEW w \in Seq(Content), NEW c \in Content
    PROVE  Shifted(w, c, Last(Append(w, c), Window))
<1> DEFINE q == Append(w, c)
           v == Last(q, Window)
<1>1. q \in Seq(Content) /\ Len(q) = Len(w) + 1 /\ q[Len(w) + 1] = c /\ Len(w) \in Nat
  OBVIOUS
<1>2. \A i \in 1..Len(w) : q[i] = w[i]
  OBVIOUS
<1>0. v = Last(q, Window) /\ Window \in Nat \ {0}
  BY GovernanceAssumption
<1> SUFFICES Shifted(w, c, v)
  OBVIOUS
<1> HIDE DEF q, v
<1>3. /\ v \in Seq(Content) /\ Len(v) = Least(Len(q), Window)
      /\ \A i \in 1..Len(v) : v[i] = q[Len(q) - Len(v) + i]
  <2>1. /\ Last(q, Window) \in Seq(Content) /\ Len(Last(q, Window)) = Least(Len(q), Window)
        /\ \A i \in 1..Len(Last(q, Window)) :
              Last(q, Window)[i] = q[Len(q) - Len(Last(q, Window)) + i]
    BY <1>0, <1>1, LastTextsOf, Zenon
  <2> QED
    BY <1>0, <2>1, Zenon
<1>4. Len(v) = Least(Len(w) + 1, Window) /\ Len(v) >= 1 /\ Len(v) <= Len(w) + 1 /\ Len(v) \in Nat
  BY <1>1, <1>3, GovernanceAssumption DEF Least
<1>5. v[Len(v)] = c
  <2>1. Len(v) \in 1..Len(v) /\ Len(q) - Len(v) + Len(v) = Len(w) + 1
    BY <1>1, <1>4
  <2> QED
    BY <1>1, <1>3, <2>1
<1>6. ASSUME NEW i \in 1..(Len(v) - 1)
      PROVE  /\ v[i] = w[Len(w) + 1 - Len(v) + i]
             /\ Len(w) + 1 - Len(v) + i \in 1..Len(w)
  <2>1. i \in 1..Len(v) /\ Len(w) + 1 - Len(v) + i \in 1..Len(w)
    BY <1>1, <1>4
  <2>2. v[i] = q[Len(w) + 1 - Len(v) + i]
    <3>1. Len(q) - Len(v) + i = Len(w) + 1 - Len(v) + i
      BY <1>1
    <3> QED
      BY <1>3, <2>1, <3>1
  <2> QED
    BY <1>2, <2>1, <2>2
<1> QED
  BY <1>3, <1>4, <1>5, <1>6 DEF Shifted

(***************************************************************************)
(* The streak of a session, with one more text.                            *)
(***************************************************************************)
LEMMA StreakStep ==
    ASSUME NEW s \in Sessions, LoopOk, NEW c \in Content,
           NEW v, v = Last(Append(windows[s], c), Window),
           windows' = [windows EXCEPT ![s] = v],
           similar' = [similar EXCEPT ![s] = Consecutive(s, v)],
           streak' = [streak EXCEPT ![s] = Longer(s, windows[s], c)]
    PROVE  LoopOk'
<1> DEFINE w == windows[s]
           n == streak[s]
           k == similar[s]
           cap == LastTexts + MaxConsecutive
           kk == Consecutive(s, v)
           nn == Longer(s, w, c)
           words == w # <<>> /\ w[Len(w)].template # Wordless
<1>1. /\ w \in Seq(Content) /\ Len(w) \in Nat /\ k \in Nat /\ n.alike \in Nat /\ n.equal \in Nat
      /\ cap \in Nat /\ cap > MaxConsecutive + 2 /\ MaxConsecutive \in Nat /\ MaxConsecutive > 0
      /\ LastTexts \in Nat /\ LastTexts >= 3 /\ Window \in Nat /\ Window > 0
  BY GovernanceAssumption DEF LoopOk
<1>2. /\ w = <<>> <=> n.alike = 0
      /\ n.alike <= cap /\ n.equal <= cap /\ k <= MaxConsecutive
      /\ \A i \in 1..Len(w) : i > Len(w) - n.equal => w[i] = w[Len(w)]
      /\ \A m \in 1..Len(w) :
            (\A i \in 1..Len(w) : i > Len(w) - m => w[i].template = w[Len(w)].template)
               => n.alike >= Least(m, cap)
      /\ Len(w) <= Window /\ (Len(w) < 3 => k = 0)
      /\ k > 0 => words /\ n.alike >= k + 2
      /\ Window >= 3 => /\ Len(w) < 3 => n.equal <= Len(w)
                        /\ words => k = MaxConsecutive \/ n.equal < LastTexts + k
  <2>1. StreakOk(s)
    BY DEF LoopOk
  <2> QED
    BY <2>1, <1>1 DEF StreakOk
<1> HIDE DEF w, n, k, cap, nn, kk, words
<1>3. /\ v \in Seq(Content) /\ Len(v) = Least(Len(w) + 1, Window) /\ Len(v) >= 1 /\ v[Len(v)] = c
      /\ \A i \in 1..(Len(v) - 1) : /\ v[i] = w[Len(w) + 1 - Len(v) + i]
                                    /\ Len(w) + 1 - Len(v) + i \in 1..Len(w)
  <2>1. v = Last(Append(w, c), Window)
    BY DEF w
  <2> QED
    <3>1. w \in Seq(Content)
      BY <1>1
    <3>2. Shifted(w, c, Last(Append(w, c), Window))
      BY <3>1, WindowStep
    <3>3. Shifted(w, c, v)
      BY <2>1, <3>2
    <3> QED
      BY <3>3 DEF Shifted
<1>4. /\ Len(v) \in Nat /\ Len(v) <= Len(w) + 1 /\ Len(v) <= Window
      /\ (Len(v) < 3 => Len(w) < 3) /\ (Len(v) < 3 /\ Window >= 3 => Len(v) = Len(w) + 1)
      /\ (w = <<>> <=> Len(w) = 0) /\ v # <<>>
  BY <1>1, <1>2, <1>3 DEF Least
<1>5. /\ nn.alike = IF w # <<>> /\ w[Len(w)].template = c.template THEN Least(n.alike + 1, cap) ELSE 1
      /\ nn.equal = IF w # <<>> /\ w[Len(w)] = c THEN Least(n.equal + 1, cap) ELSE 1
      /\ nn = [alike |-> nn.alike, equal |-> nn.equal]
  BY DEF Longer, nn, n, cap, w
<1>6. /\ nn.alike \in Nat /\ nn.equal \in Nat /\ nn.alike > 0 /\ nn.equal > 0
      /\ nn.alike <= cap /\ nn.equal <= cap /\ nn.alike <= n.alike + 1 /\ nn.equal <= n.equal + 1
  <2>1. /\ Least(n.alike + 1, cap) \in Nat /\ Least(n.alike + 1, cap) > 0
        /\ Least(n.alike + 1, cap) <= cap /\ Least(n.alike + 1, cap) <= n.alike + 1
        /\ Least(n.equal + 1, cap) \in Nat /\ Least(n.equal + 1, cap) > 0
        /\ Least(n.equal + 1, cap) <= cap /\ Least(n.equal + 1, cap) <= n.equal + 1
    BY <1>1 DEF Least
  <2>2. (nn.alike = Least(n.alike + 1, cap) \/ nn.alike = 1)
        /\ (nn.equal = Least(n.equal + 1, cap) \/ nn.equal = 1)
    BY <1>5
  <2>3. nn.alike \in Nat /\ nn.alike > 0 /\ nn.alike <= cap /\ nn.alike <= n.alike + 1
    BY <1>1, <2>1, <2>2
  <2>4. nn.equal \in Nat /\ nn.equal > 0 /\ nn.equal <= cap /\ nn.equal <= n.equal + 1
    BY <1>1, <2>1, <2>2
  <2> QED
    BY <2>3, <2>4
\* the last texts of the window that are equal
<1>7. \A i \in 1..Len(v) : i > Len(v) - nn.equal => v[i] = v[Len(v)]
  <2> SUFFICES ASSUME NEW i \in 1..Len(v), i > Len(v) - nn.equal, i # Len(v)
               PROVE  v[i] = c
    BY <1>3
  <2> DEFINE j == Len(w) + 1 - Len(v) + i
  <2>1. i \in 1..(Len(v) - 1) /\ nn.equal > 1
    BY <1>4, <1>6
  <2>2. w # <<>> /\ w[Len(w)] = c /\ nn.equal <= n.equal + 1
    BY <1>5, <1>6, <2>1
  <2>3. v[i] = w[j] /\ j \in 1..Len(w)
    BY <1>3, <2>1
  <2>4. j > Len(w) - n.equal
    BY SMTT(40), <1>1, <1>4, <1>6, <2>2
  <2> HIDE DEF j
  <2> QED
    BY <1>2, <2>2, <2>3, <2>4
\* and those of one template, which are counted exactly
<1>8. ASSUME NEW m \in 1..Len(v),
             \A i \in 1..Len(v) : i > Len(v) - m => v[i].template = v[Len(v)].template
      PROVE  nn.alike >= Least(m, cap)
  <2>1. CASE m = 1
    BY <1>1, <1>6, <2>1 DEF Least
  <2>2. CASE m > 1
    <3>1. m - 1 \in 1..Len(w) /\ Len(v) - 1 \in 1..(Len(v) - 1) /\ Len(w) > 0
      BY <1>1, <1>4, <2>2
    <3>2. ASSUME NEW j \in 1..Len(w), j > Len(w) - (m - 1)
          PROVE  w[j].template = c.template
      <4> DEFINE i == j - (Len(w) + 1 - Len(v))
      <4>1. i \in 1..(Len(v) - 1) /\ i > Len(v) - m /\ i \in 1..Len(v)
        BY <1>1, <1>4, <2>2, <3>2
      <4>2. Len(w) + 1 - Len(v) + i = j
        BY <1>1, <1>4
      <4> HIDE DEF i
      <4>3. v[i] = w[j]
        BY <1>3, <4>1, <4>2
      <4> QED
        BY <1>3, <1>8, <4>1, <4>3
    <3>3. w[Len(w)].template = c.template
      <4>1. Len(w) \in 1..Len(w) /\ Len(w) > Len(w) - (m - 1)
        BY <1>1, <2>2, <3>1
      <4> QED
        BY <3>2, <4>1
    <3>4. n.alike >= Least(m - 1, cap)
      BY <1>2, <3>1, <3>2, <3>3
    <3>5. nn.alike = Least(n.alike + 1, cap)
      BY <1>4, <1>5, <3>1, <3>3
    <3> QED
      BY <1>1, <2>2, <3>4, <3>5 DEF Least
  <2> QED
    BY <2>1, <2>2
\* whether the texts compared are similar
<1> DEFINE l == Last(v, LastTexts)
<1>9. /\ Len(l) = Least(Len(v), LastTexts) /\ Len(l) \in Nat
      /\ \A i \in 1..Len(l) : l[i] = v[Len(v) - Len(l) + i] /\ l[i] \in Content
  <2>1. /\ l \in Seq(Content) /\ Len(l) = Least(Len(v), LastTexts)
        /\ \A i \in 1..Len(l) : l[i] = v[Len(v) - Len(l) + i]
    <3>1. LastTexts \in Nat \ {0}
      BY <1>1
    <3> QED
      <4>1. v \in Seq(Content)
        BY <1>3
      <4>2. /\ Last(v, LastTexts) \in Seq(Content)
            /\ Len(Last(v, LastTexts)) = Least(Len(v), LastTexts)
            /\ \A i \in 1..Len(Last(v, LastTexts)) :
                  Last(v, LastTexts)[i] = v[Len(v) - Len(Last(v, LastTexts)) + i]
        BY <3>1, <4>1, LastTextsOf, ZenonT(60)
      <4> QED
        BY <4>2
  <2> HIDE DEF l
  <2> QED
    BY <2>1
<1>10. kk = IF Len(v) < 3 THEN k ELSE IF Similar(l) THEN Least(k + 1, MaxConsecutive) ELSE 0
  BY DEF Consecutive, k, kk
<1> HIDE DEF l
<1>11. ASSUME Similar(l), Len(v) >= 3
       PROVE  /\ nn.alike >= 3 /\ c.template # Wordless
              /\ w # <<>> /\ w[Len(w)].template = c.template
  <2>1. Len(l) >= 3 /\ Len(l) <= Len(v)
    BY <1>1, <1>4, <1>9, <1>11 DEF Least
  <2>2. \A i \in 1..Len(v) : i > Len(v) - Len(l) => v[i].template = c.template
    <3> SUFFICES ASSUME NEW i \in 1..Len(v), i > Len(v) - Len(l)
                 PROVE  v[i].template = c.template
      OBVIOUS
    <3> DEFINE j == i - (Len(v) - Len(l))
    <3>1. j \in 1..Len(l) /\ Len(l) \in 1..Len(l) /\ Len(v) - Len(l) + j = i
          /\ Len(v) - Len(l) + Len(l) = Len(v)
      BY <1>4, <1>9, <2>1
    <3> HIDE DEF j
    <3>2. l[j] = v[i] /\ l[Len(l)] = v[Len(v)]
      BY <1>9, <3>1
    <3>3. l[j] \in Elements(l) /\ l[Len(l)] \in Elements(l)
      BY <3>1 DEF Elements
    <3> QED
      BY <1>3, <1>11, <3>2, <3>3 DEF Similar
  <2>3. nn.alike >= Least(Len(l), cap)
    <3>1. Len(l) \in 1..Len(v)
      BY <1>4, <1>9, <2>1
    <3> QED
      BY <1>3, <1>8, <2>2, <3>1
  <2>4. nn.alike >= 3
    BY <1>1, <1>6, <1>9, <2>1, <2>3 DEF Least
  <2>5. c.template # Wordless
    <3>1. Len(l) \in 1..Len(l) /\ l[Len(l)] = v[Len(v)]
      BY <1>4, <1>9, <2>1
    <3> QED
      BY <1>3, <1>11, <3>1 DEF Similar, Elements
  <2> QED
    BY <1>5, <2>4, <2>5
<1>12. ASSUME nn.equal >= LastTexts, Len(v) >= 3, c.template # Wordless PROVE Similar(l)
  <2>1. ASSUME NEW a \in Elements(l) PROVE a = c
    <3>1. PICK i \in 1..Len(l) : a = l[i]
      BY <2>1 DEF Elements
    <3> DEFINE j == Len(v) - Len(l) + i
    <3>2. j \in 1..Len(v) /\ j > Len(v) - nn.equal
      <4>1. Len(l) <= Len(v) /\ Len(l) <= LastTexts
        BY <1>1, <1>4, <1>9 DEF Least
      <4>2. Len(v) \in Nat /\ Len(l) \in Nat
        BY <1>4, <1>9
      <4>3. nn.equal \in Nat /\ nn.equal >= LastTexts
        BY <1>6, <1>12
      <4> QED
        BY <1>1, <4>2, <4>3, <3>1, <4>1
    <3>3. a = v[j]
      BY <1>9, <3>1
    <3> HIDE DEF j
    <3> QED
      BY <1>3, <1>7, <3>2, <3>3
  <2> QED
    BY <1>12, <2>1 DEF Similar
<1>13. /\ kk \in Nat /\ kk <= MaxConsecutive
       /\ Len(v) < 3 => kk = 0 /\ (Window >= 3 => nn.equal <= Len(v))
  <2>1. kk \in Nat /\ kk <= MaxConsecutive
    BY <1>1, <1>2, <1>10 DEF Least
  <2>2. ASSUME Len(v) < 3 PROVE kk = 0 /\ (Window >= 3 => nn.equal <= Len(v))
    <3>1. Len(w) < 3 /\ k = 0 /\ kk = 0
      BY <1>2, <1>4, <1>10, <2>2
    <3>2. ASSUME Window >= 3 PROVE nn.equal <= Len(v)
      <4>1. Len(v) = Len(w) + 1 /\ n.equal <= Len(w)
        BY <1>2, <1>4, <2>2, <3>1, <3>2
      <4> QED
        BY <1>1, <1>6, <4>1
    <3> QED
      BY <3>1, <3>2
  <2> QED
    BY <2>1, <2>2
<1>14. kk > 0 => c.template # Wordless /\ nn.alike >= kk + 2
  <2> SUFFICES ASSUME kk > 0 PROVE c.template # Wordless /\ nn.alike >= kk + 2
    OBVIOUS
  <2>1. Len(v) >= 3 /\ Similar(l) /\ kk = Least(k + 1, MaxConsecutive)
    BY <1>4, <1>10, <1>13
  <2>2. nn.alike >= 3 /\ nn.alike = Least(n.alike + 1, cap) /\ c.template # Wordless
    BY <1>5, <1>11, <2>1
  <2>3. CASE k = 0
    BY <1>1, <2>1, <2>2, <2>3 DEF Least
  <2>4. CASE k > 0
    BY <1>1, <1>2, <2>1, <2>2, <2>4 DEF Least
  <2> QED
    BY <1>1, <2>3, <2>4
<1>15. ASSUME Window >= 3, c.template # Wordless
       PROVE  kk = MaxConsecutive \/ nn.equal < LastTexts + kk
  <2>1. CASE Len(v) < 3
    BY <1>1, <1>4, <1>6, <1>13, <1>15, <2>1
  <2>2. CASE Len(v) >= 3 /\ Similar(l)
    <3>1. kk = Least(k + 1, MaxConsecutive)
      BY <1>4, <1>10, <2>2
    <3>2. CASE w # <<>> /\ w[Len(w)] = c
      <4>1. words
        BY <1>15, <3>2 DEF words
      <4> QED
        BY <1>1, <1>2, <1>6, <1>15, <3>1, <4>1 DEF Least
    <3>3. CASE ~(w # <<>> /\ w[Len(w)] = c)
      <4>1. nn.equal = 1
        BY <1>5, <3>3
      <4> QED
        BY <1>1, <3>1, <4>1 DEF Least
    <3> QED
      BY <3>2, <3>3
  <2>3. CASE Len(v) >= 3 /\ ~Similar(l)
    <3>1. kk = 0 /\ ~(nn.equal >= LastTexts)
      BY <1>4, <1>10, <1>12, <1>15, <2>3
    <3> QED
      BY <1>1, <1>6, <3>1
  <2> QED
    BY <1>4, <2>1, <2>2, <2>3
<1>16. /\ windows'[s] = v /\ similar'[s] = kk /\ streak'[s] = nn
       /\ \A t \in Sessions \ {s} : /\ windows'[t] = windows[t] /\ similar'[t] = similar[t]
                                    /\ streak'[t] = streak[t]
       /\ windows' \in [Sessions -> Seq(Content)] /\ similar' \in [Sessions -> Nat]
       /\ streak' \in [Sessions -> [alike: Nat, equal: Nat]]
  BY <1>3, <1>5, <1>6, <1>13 DEF LoopOk, kk, nn, w
<1>17. StreakOk(s)'
  <2>1. /\ v = <<>> <=> nn.alike = 0
        /\ nn.alike \in 0..cap /\ nn.equal \in 0..cap /\ kk \in 0..MaxConsecutive
    BY <1>1, <1>4, <1>6, <1>13
  <2>2. \A m \in 1..Len(v) :
           (\A i \in 1..Len(v) : i > Len(v) - m => v[i].template = v[Len(v)].template)
              => nn.alike >= Least(m, cap)
    BY <1>8
  <2> QED
    BY <1>3, <1>4, <1>7, <1>13, <1>14, <1>15, <1>16, <2>1, <2>2 DEF StreakOk, cap
<1>18. ASSUME NEW t \in Sessions \ {s} PROVE StreakOk(t)'
  <2>1. StreakOk(t)
    BY DEF LoopOk
  <2> QED
    BY <1>16, <2>1 DEF StreakOk
<1> QED
  BY <1>16, <1>17, <1>18 DEF LoopOk

(***************************************************************************)
(* The pipeline: what every stage leaves alone.                            *)
(***************************************************************************)
\* What is asked of the settings does not change with a step
LEMMA SettingsStay ==
    ASSUME settings' = settings
    PROVE  /\ \A t : Flagged(t)' <=> Flagged(t)
           /\ \A r : ScannedTexts(r)' = ScannedTexts(r)
           /\ \A r : ScanTruncated(r)' <=> ScanTruncated(r)
           /\ \A r : Refused(r)' = Refused(r)
           /\ \A v : Refuses(v)' <=> Refuses(v)
           /\ EgressMode' = EgressMode
BY DEF Flagged, ScannedTexts, ScanTruncated, Refused, Refuses, EgressMode

LEMMA RunFields ==
    ASSUME RunOk
    PROVE  /\ settings \in Setting /\ run \in Run
           /\ run.stage \in Stage /\ run.req \in Requests \cup {NoRequest}
           /\ run.action \in {"ALLOW", "BLOCK", "CIRCUIT_BREAK", "ERROR"}
           /\ run.would \in {"none", "BLOCK", "CIRCUIT_BREAK"}
           /\ run.checks \in Checks /\ run.masked \in SUBSET Text
           /\ run.checks.loop \in {"none", "clear", "loop"}
           /\ run.checks.firewall \in {"none", "clean", "injection"}
           /\ run.checks.egress \in {"none", "allowed", "observed", "refused"}
           /\ run.checks.guards \in Seq({"ALLOW", "BLOCK", "ERROR"})
           /\ run.stage # "idle" => run.req \in Request
<1>1. settings \in Setting /\ run \in Run /\ (run.stage # "idle" => run.req \in Request)
  BY DEF RunOk
<1>2. /\ run.stage \in Stage /\ run.req \in Requests \cup {NoRequest}
      /\ run.action \in {"ALLOW", "BLOCK", "CIRCUIT_BREAK", "ERROR"}
      /\ run.would \in {"none", "BLOCK", "CIRCUIT_BREAK"}
      /\ run.checks \in Checks /\ run.masked \in SUBSET Text
  BY <1>1 DEF Run
<1>3. /\ run.checks.loop \in {"none", "clear", "loop"}
      /\ run.checks.firewall \in {"none", "clean", "injection"}
      /\ run.checks.egress \in {"none", "allowed", "observed", "refused"}
      /\ run.checks.guards \in Seq({"ALLOW", "BLOCK", "ERROR"})
  BY <1>2 DEF Checks
<1> QED
  BY <1>1, <1>2, <1>3

LEMMA RequestFields ==
    ASSUME NEW req \in Request
    PROVE  /\ req.surface \in Surfaces /\ req.session \in Sessions /\ req.content \in Content
           /\ req.texts \in SUBSET Text /\ req.policies \in Seq(Policy)
           /\ req.params \in Arguments
BY DEF Request

LEMMA IdleRun == Idle \in Run
<1>1. NoChecks \in Checks
  BY DEF NoChecks, Checks
<1> QED
  BY <1>1 DEF Idle, Run, Stage

\* What the loop breaker keeps is only changed by its own stage
LEMMA OnlyRunLoop ==
    ASSUME PipelineInv, OnlyRun
    PROVE  LoopOk' /\ settings' = settings /\ streak' = streak
<1>1. LoopOk /\ UNCHANGED <<settings, windows, similar, streak>>
  BY DEF PipelineInv, OnlyRun
<1>2. \A s \in Sessions : StreakOk(s)'
  BY <1>1 DEF LoopOk, StreakOk
<1> QED
  BY <1>1, <1>2 DEF LoopOk

\* and its verdict stays with the run
LEMMA LoopJudgedStays ==
    ASSUME LoopJudged, streak' = streak,
           \/ run'.checks.loop = "none"
           \/ run'.checks.loop = run.checks.loop /\ run'.req = run.req
    PROVE  LoopJudged'
BY DEF LoopJudged

(***************************************************************************)
(* The stages, one lemma each.                                             *)
(***************************************************************************)
LEMMA InitPipeline == Init => PipelineInv
<1> SUFFICES ASSUME Init PROVE PipelineInv
  OBVIOUS
<1>1. run = Idle /\ settings \in Settings
  BY DEF Init
<1>2. RunOk
  BY <1>1, IdleRun, GovernanceAssumption DEF RunOk, Idle
<1>3. LoopOk
  <2>1. /\ windows \in [Sessions -> Seq(Content)] /\ similar \in [Sessions -> Nat]
        /\ streak \in [Sessions -> [alike: Nat, equal: Nat]]
    BY DEF Init
  <2>2. ASSUME NEW s \in Sessions PROVE StreakOk(s)
    <3>1. windows[s] = <<>> /\ similar[s] = 0 /\ streak[s] = [alike |-> 0, equal |-> 0]
      BY DEF Init
    <3> QED
      BY <3>1, GovernanceAssumption DEF StreakOk
  <2> QED
    BY <2>1, <2>2 DEF LoopOk
<1>4. /\ run.stage = "idle" /\ run.checks.loop = "none" /\ run.checks.firewall = "none"
      /\ run.checks.deep = FALSE /\ run.checks.egress = "none" /\ run.checks.guards = <<>>
      /\ run.would = "none" /\ run.action = "ALLOW"
  BY <1>1 DEF Idle, NoChecks
<1> QED
  BY <1>2, <1>3, <1>4
     DEF PipelineInv, LoopJudged, NotYet, ScanOk, MaskOk, EgressOk, GuardsOk, CauseOk, ResultOk,
         Past, Judged, Verdict

LEMMA ArrivesInv ==
    ASSUME PipelineInv, \E req \in Requests : Arrives(req)
    PROVE  PipelineInv'
<1>1. PICK req \in Requests : Arrives(req)
  OBVIOUS
<1>2. run' = [Idle EXCEPT !.stage = "loop", !.req = req] /\ OnlyRun
  BY <1>1 DEF Arrives, OnlyRun
<1>3. LoopOk' /\ settings' = settings /\ streak' = streak
  BY <1>2, OnlyRunLoop
<1>4. /\ run'.stage = "loop" /\ run'.req = req
      /\ run'.checks.loop = "none" /\ run'.checks.firewall = "none"
      /\ run'.checks.deep = FALSE /\ run'.checks.egress = "none" /\ run'.checks.guards = <<>>
      /\ run'.would = "none" /\ run'.action = "ALLOW"
  BY <1>2 DEF Idle, NoChecks
<1>5. RunOk'
  <2>1. run' \in Run
    BY <1>2, IdleRun DEF Run, Stage
  <2> QED
    BY <1>3, <1>4, <2>1, GovernanceAssumption DEF PipelineInv, RunOk
<1>6. LoopJudged'
  BY <1>4 DEF LoopJudged
<1> QED
  BY <1>3, <1>4, <1>5, <1>6
     DEF PipelineInv, NotYet, ScanOk, MaskOk, EgressOk, GuardsOk, CauseOk, ResultOk,
         Past, Judged, Verdict

LEMMA LeavesInv == ASSUME PipelineInv, Leaves PROVE PipelineInv'
<1>1. run' = Idle /\ OnlyRun
  BY DEF Leaves, OnlyRun
<1>2. LoopOk' /\ settings' = settings /\ streak' = streak
  BY <1>1, OnlyRunLoop
<1>3. /\ run'.stage = "idle"
      /\ run'.checks.loop = "none" /\ run'.checks.firewall = "none"
      /\ run'.checks.deep = FALSE /\ run'.checks.egress = "none" /\ run'.checks.guards = <<>>
      /\ run'.would = "none" /\ run'.action = "ALLOW"
  BY <1>1 DEF Idle, NoChecks
<1>4. RunOk'
  BY <1>1, <1>2, <1>3, IdleRun DEF PipelineInv, RunOk
<1> QED
  BY <1>2, <1>3, <1>4
     DEF PipelineInv, LoopJudged, NotYet, ScanOk, MaskOk, EgressOk, GuardsOk, CauseOk, ResultOk,
         Past, Judged, Verdict

\* An engine raises: the run is given up
LEMMA RaisesInv == ASSUME PipelineInv, Raises PROVE PipelineInv'
<1>1. /\ run.stage \in {"firewall", "pii", "egress", "guards"} /\ OnlyRun
      /\ run' = [Idle EXCEPT !.stage = "done", !.req = run.req,
                     !.action = IF run.req.surface = "gateway" THEN "BLOCK" ELSE "ERROR",
                     !.domain = IF run.req.surface = "gateway" THEN "pipeline" ELSE "none"]
  BY DEF Raises
<1>2. LoopOk' /\ settings' = settings /\ streak' = streak
  BY <1>1, OnlyRunLoop
<1>3. /\ run'.stage = "done" /\ run'.req = run.req
      /\ run'.checks.loop = "none" /\ run'.checks.firewall = "none"
      /\ run'.checks.deep = FALSE /\ run'.checks.egress = "none" /\ run'.checks.guards = <<>>
      /\ run'.would = "none"
      /\ run'.action = IF run.req.surface = "gateway" THEN "BLOCK" ELSE "ERROR"
      /\ run'.domain = IF run.req.surface = "gateway" THEN "pipeline" ELSE "none"
  BY <1>1 DEF Idle, NoChecks
<1>4. run.req \in Request /\ run.req \in Requests \cup {NoRequest}
  BY <1>1, RunFields DEF PipelineInv
<1>5. RunOk'
  <2>1. run' \in Run
    BY ZenonT(60), <1>1, <1>4, IdleRun DEF Run, Stage
  <2> QED
    BY <1>2, <1>3, <1>4, <2>1 DEF PipelineInv, RunOk
<1>6. ~Judged'
  BY <1>3 DEF Judged
<1> QED
  BY <1>2, <1>3, <1>5, <1>6
     DEF PipelineInv, LoopJudged, NotYet, ScanOk, MaskOk, EgressOk, GuardsOk, CauseOk, ResultOk,
         Past, Verdict

LEMMA LoopInv == ASSUME PipelineInv, Loop PROVE PipelineInv'
<1> DEFINE s == run.req.session
           v == Last(Append(windows[s], run.req.content), Window)
           n == Consecutive(s, v)
           isLoop == Len(v) >= 3 /\ n >= MaxConsecutive
           words == run.req.content.template # Wordless
<1>1. /\ RunOk /\ LoopOk /\ run.stage = "loop" /\ run \in Run /\ run.req \in Request
      /\ settings' = settings
      /\ run.would = "none" /\ run.checks.loop = "none" /\ run.checks.firewall = "none"
      /\ ~run.checks.deep /\ run.checks.egress = "none" /\ run.checks.guards = <<>>
      /\ run.action = "ALLOW"
  BY RunFields DEF PipelineInv, NotYet, Loop
<1>2. s \in Sessions /\ run.req.content \in Content
  BY <1>1, RequestFields
<1>3. ASSUME RunOk', LoopOk', LoopJudged',
             run'.stage = "firewall", run'.would = "none", run'.checks.firewall = "none",
             run'.checks.deep = FALSE, run'.checks.egress = "none", run'.checks.guards = <<>>,
             run'.action = IF run'.checks.loop = "loop" THEN "CIRCUIT_BREAK" ELSE "ALLOW"
      PROVE  PipelineInv'
  BY <1>3 DEF PipelineInv, NotYet, ScanOk, MaskOk, EgressOk, GuardsOk, CauseOk, ResultOk,
              Past, Judged, Verdict
<1>4. CASE ~LoopOn(run.req.surface)
  <2>1. run' = Next1("firewall", run) /\ UNCHANGED <<windows, similar, streak>>
    BY <1>4 DEF Loop
  <2>2. run' = [run EXCEPT !.stage = "firewall"]
    BY <2>1 DEF Next1
  <2>3. run' \in Run /\ run'.stage = "firewall" /\ run'.req = run.req /\ run'.would = "none"
        /\ run'.checks = run.checks /\ run'.action = "ALLOW"
    BY <1>1, <2>2 DEF Run, Stage
  <2>4. LoopOk' /\ LoopJudged'
    BY <1>1, <2>1, <2>3, OnlyRunLoop, LoopJudgedStays DEF PipelineInv, OnlyRun
  <2>5. RunOk'
    BY <1>1, <2>3 DEF RunOk
  <2>6. run'.checks.deep = FALSE
    <3>1. run.checks.deep \in BOOLEAN
      BY <1>1, RunFields DEF Checks
    <3> QED
      BY <1>1, <2>3, <3>1
  <2> QED
    BY <1>1, <1>3, <2>3, <2>4, <2>5, <2>6
<1>5. CASE LoopOn(run.req.surface)
  <2>1. /\ windows' = [windows EXCEPT ![s] = v]
        /\ similar' = [similar EXCEPT ![s] = n]
        /\ streak' = [streak EXCEPT ![s] = Longer(s, windows[s], run.req.content)]
        /\ run' = [run EXCEPT !.stage = "firewall",
                       !.checks.loop = IF isLoop THEN "loop" ELSE "clear",
                       !.action = IF isLoop THEN "CIRCUIT_BREAK" ELSE "ALLOW"]
    BY <1>5 DEF Loop
  <2>2. LoopOk'
    BY <1>1, <1>2, <2>1, StreakStep
  <2>3. windows'[s] = v /\ similar'[s] = n
    BY <1>1, <1>2, <2>1 DEF LoopOk
  <2>15. v # <<>> /\ v[Len(v)] = run.req.content
    <3>1. windows[s] \in Seq(Content)
      BY <1>1, <1>2 DEF LoopOk
    <3>2. Shifted(windows[s], run.req.content, v)
      BY <1>2, <3>1, WindowStep
    <3> QED
      BY <3>2 DEF Shifted
  <2> HIDE DEF v, n, words
  <2> DEFINE outcome == IF isLoop THEN "loop" ELSE "clear"
  <2>5. run' = [run EXCEPT !.stage = "firewall", !.checks.loop = outcome,
                    !.action = IF isLoop THEN "CIRCUIT_BREAK" ELSE "ALLOW"]
    BY <2>1
  <2>6. outcome \in {"clear", "loop"} /\ (outcome = "loop" <=> isLoop)
    OBVIOUS
  <2> HIDE DEF outcome, isLoop
  <2>7. run'.checks = [run.checks EXCEPT !.loop = outcome] /\ run.checks \in Checks
    BY <1>1, <2>5 DEF Run
  <2>8. run'.checks \in Checks
    BY <2>6, <2>7 DEF Checks
  <2>9. /\ run'.stage = "firewall" /\ run'.req = run.req /\ run'.would = "none"
        /\ run'.action = IF isLoop THEN "CIRCUIT_BREAK" ELSE "ALLOW"
    BY <1>1, <2>5 DEF Run
  <2>10. run' \in Run
    BY <1>1, <2>5, <2>7, <2>8 DEF Run, Stage
  <2>11. /\ run'.checks.loop = outcome /\ run'.checks.firewall = "none"
         /\ run'.checks.egress = "none" /\ run'.checks.guards = <<>>
    BY <1>1, <2>7 DEF Checks
  <2>12. run'.checks.deep = FALSE
    <3>1. run.checks.deep \in BOOLEAN /\ run'.checks.deep = run.checks.deep
      BY <2>7 DEF Checks
    <3> QED
      BY <1>1, <3>1
  <2>13. RunOk'
    BY <1>1, <2>9, <2>10 DEF RunOk
  <2>14. LoopJudged'
    <3>0. PICK u \in Sessions : u = s
      BY <1>2
    <3>1. StreakOk(u)' /\ MaxConsecutive \in Nat /\ MaxConsecutive > 0
      BY <2>2, GovernanceAssumption DEF LoopOk
    <3>2. /\ n \in 0..MaxConsecutive /\ Len(v) \in Nat
          /\ streak'[s].alike \in Nat /\ streak'[s].equal \in Nat
          /\ Len(v) < 3 => n = 0
          /\ n > 0 => words /\ streak'[s].alike >= n + 2
          /\ Window >= 3 => /\ Len(v) < 3 => streak'[s].equal <= Len(v)
                            /\ words => n = MaxConsecutive \/ streak'[s].equal < LastTexts + n
      <4>1. v \in Seq(Content) /\ streak'[u] \in [alike: Nat, equal: Nat]
        BY <3>0, <2>2, <2>3 DEF LoopOk
      <4>2. windows'[u] = v /\ similar'[u] = n /\ streak'[u] = streak'[s]
        BY <2>3, <3>0
      <4>3. /\ n \in 0..MaxConsecutive
            /\ Len(v) < 3 => n = 0
            /\ n > 0 => words /\ streak'[u].alike >= n + 2
            /\ Window >= 3 => /\ Len(v) < 3 => streak'[u].equal <= Len(v)
                              /\ words => n = MaxConsecutive \/ streak'[u].equal < LastTexts + n
        <5>1. v # <<>> /\ v[Len(v)] = run.req.content
          BY <2>15
        <5> QED
          BY <3>1, <4>2, <5>1 DEF StreakOk, words
      <4>4. Len(v) \in Nat /\ streak'[u].alike \in Nat /\ streak'[u].equal \in Nat
        BY <4>1
      <4> QED
        BY <4>2, <4>3, <4>4
    <3>3. isLoop => words /\ streak'[s].alike >= MaxConsecutive + 2
      BY <3>1, <3>2 DEF isLoop
    <3>4. Window >= 3 /\ words /\ streak'[s].equal >= LastTexts + MaxConsecutive - 1 => isLoop
      BY <3>1, <3>2, GovernanceAssumption DEF isLoop
    <3> QED
      BY <2>6, <2>9, <2>11, <3>3, <3>4 DEF LoopJudged, words
  <2> QED
    BY <1>3, <2>2, <2>6, <2>9, <2>11, <2>12, <2>13, <2>14
<1> QED
  BY <1>4, <1>5

\* What the firewall finds is on the record, and blocks
LEMMA FirewallInv == ASSUME PipelineInv, Firewall PROVE PipelineInv'
<1> DEFINE req == run.req
           on == settings.injection /\ run.action # "CIRCUIT_BREAK"
           injected == on /\ \E t \in ScannedTexts(req) : Flagged(t)
           deep == \/ on /\ ScanTruncated(req)
                   \/ /\ ~settings.injection /\ settings.pii /\ DeepText(req)
                      /\ run.action = "ALLOW"
           found == IF injected THEN "injection"
                    ELSE IF on /\ ScannedTexts(req) # {} THEN "clean" ELSE "none"
           action == IF injected \/ deep THEN "BLOCK" ELSE run.action
<1>1. /\ RunOk /\ LoopOk /\ run.stage = "firewall" /\ run \in Run /\ run.req \in Request
      /\ OnlyRun /\ run.would = "none" /\ run.checks \in Checks
      /\ run.checks.egress = "none" /\ run.checks.guards = <<>>
      /\ run.checks.loop \in {"none", "clear", "loop"}
      /\ run.action = IF run.checks.loop = "loop" THEN "CIRCUIT_BREAK" ELSE "ALLOW"
  BY RunFields DEF PipelineInv, NotYet, Firewall
<1>2. LoopOk' /\ settings' = settings /\ streak' = streak
  BY <1>1, OnlyRunLoop
<1>3. run' = [run EXCEPT !.stage = "pii", !.checks.firewall = found, !.checks.deep = deep,
                  !.action = action]
  BY <1>1 DEF Firewall, Run
<1>4. /\ found \in {"none", "clean", "injection"} /\ (found = "injection" <=> injected)
      /\ deep \in BOOLEAN /\ action \in {"ALLOW", "BLOCK", "CIRCUIT_BREAK", "ERROR"}
  BY <1>1
<1> HIDE DEF found, deep, action
<1>5. /\ run'.stage = "pii" /\ run'.req = run.req /\ run'.would = "none" /\ run'.action = action
      /\ run'.checks = [run.checks EXCEPT !.firewall = found, !.deep = deep]
      /\ run'.masked = run.masked /\ run'.domain = run.domain /\ run'.reason = run.reason
  BY <1>1, <1>3 DEF Run
<1>6. /\ run'.checks \in Checks /\ run'.checks.loop = run.checks.loop
      /\ run'.checks.firewall = found /\ run'.checks.deep = deep
      /\ run'.checks.egress = "none" /\ run'.checks.guards = <<>>
  BY <1>1, <1>4, <1>5 DEF Checks
<1>7. RunOk'
  <2>1. run' \in Run
    BY ZenonT(60), <1>1, <1>3, <1>4, <1>5, <1>6 DEF Run, Stage
  <2> QED
    BY <1>1, <1>2, <1>5, <2>1 DEF RunOk
<1>8. LoopJudged'
  BY <1>2, <1>5, <1>6, LoopJudgedStays DEF PipelineInv
<1>9. Verdict' = action /\ ScanOn' = on
  BY <1>1, <1>2, <1>5, <1>6 DEF Verdict, ScanOn
<1>10. ScanOk'
  <2>1. action = "CIRCUIT_BREAK" <=> run.checks.loop = "loop"
    BY <1>1 DEF action, deep
  <2>2. action # "ERROR" /\ (injected \/ deep => action = "BLOCK")
    BY <1>1 DEF action
  <2>3. injected <=> on /\ \E t \in ScannedTexts(req)' : Flagged(t)'
    BY <1>2, <1>5, SettingsStay
  <2>4. deep <=> \/ on /\ ScanTruncated(req)'
                 \/ /\ ~settings.injection /\ settings.pii /\ DeepText(req)
                    /\ run.checks.loop # "loop"
    BY <1>1, <1>2, <1>5, SettingsStay DEF deep
  <2> QED
    BY <1>2, <1>4, <1>5, <1>6, <1>9, <2>1, <2>2, <2>3, <2>4 DEF ScanOk
<1>11. CauseOk'
  BY <1>1, <1>4, <1>5, <1>6, <1>9 DEF CauseOk, action
<1>12. NotYet' /\ MaskOk' /\ EgressOk' /\ GuardsOk' /\ ResultOk'
  BY <1>5, <1>6 DEF NotYet, MaskOk, EgressOk, GuardsOk, ResultOk, Past
<1> QED
  BY <1>2, <1>7, <1>8, <1>10, <1>11, <1>12 DEF PipelineInv

\* What the scan said of a request stays said in the stages after it
LEMMA ScanStays ==
    ASSUME PipelineInv, settings' = settings, Past({"pii", "egress", "guards"}),
           run'.req = run.req, run'.checks.loop = run.checks.loop,
           run'.checks.firewall = run.checks.firewall, run'.checks.deep = run.checks.deep,
           \/ Verdict' = Verdict
           \/ Verdict = "ALLOW" /\ Verdict' = "BLOCK"
    PROVE  ScanOk'
<1>1. ScanOn' <=> ScanOn
  BY DEF ScanOn
<1>2. /\ Verdict = "CIRCUIT_BREAK" <=> run.checks.loop = "loop"
      /\ Verdict # "ERROR"
      /\ run.checks.firewall = "injection"
            <=> ScanOn /\ \E t \in ScannedTexts(run.req) : Flagged(t)
      /\ run.checks.deep
            <=> \/ ScanOn /\ ScanTruncated(run.req)
                \/ /\ ~settings.injection /\ settings.pii /\ DeepText(run.req)
                   /\ run.checks.loop # "loop"
      /\ run.checks.firewall = "injection" \/ run.checks.deep => Verdict = "BLOCK"
  BY DEF PipelineInv, ScanOk
<1>3. ScannedTexts(run.req)' = ScannedTexts(run.req) /\ (ScanTruncated(run.req)' <=> ScanTruncated(run.req))
  BY SettingsStay
<1>4. \A t : Flagged(t)' <=> Flagged(t)
  BY SettingsStay
<1>5. Verdict' = "CIRCUIT_BREAK" <=> run.checks.loop = "loop"
  BY <1>2
<1>6. Verdict' # "ERROR" /\ (run.checks.firewall = "injection" \/ run.checks.deep => Verdict' = "BLOCK")
  BY <1>2
<1>7. (\E t \in ScannedTexts(run.req)' : Flagged(t)') <=> \E t \in ScannedTexts(run.req) : Flagged(t)
  BY <1>3, <1>4
<1> QED
  BY <1>1, <1>2, <1>3, <1>5, <1>6, <1>7 DEF ScanOk

LEMMA PiiInv == ASSUME PipelineInv, Pii PROVE PipelineInv'
<1> DEFINE masking == run.action = "ALLOW" /\ settings.pii
           mask == IF Masked(run.req) = {} THEN "clean" ELSE "masked"
<1>1. /\ RunOk /\ LoopOk /\ run.stage = "pii" /\ run \in Run /\ run.req \in Request
      /\ OnlyRun /\ run.would = "none" /\ run.checks \in Checks
      /\ run.checks.egress = "none" /\ run.checks.guards = <<>>
  BY RunFields DEF PipelineInv, NotYet, Pii
<1>2. LoopOk' /\ settings' = settings /\ streak' = streak
  BY <1>1, OnlyRunLoop
<1>3. Masked(run.req) \in SUBSET Text
  BY <1>1, RequestFields DEF Masked
<1>4. /\ run' \in Run /\ run'.stage = "egress" /\ run'.req = run.req /\ run'.would = "none"
      /\ run'.action = run.action
      /\ run'.checks.loop = run.checks.loop /\ run'.checks.firewall = run.checks.firewall
      /\ run'.checks.deep = run.checks.deep /\ run'.checks.egress = "none"
      /\ run'.checks.guards = <<>>
      /\ masking => run'.masked = Masked(run.req)
  <2>1. CASE masking
    <3>1. run' = [run EXCEPT !.stage = "egress", !.masked = Masked(run.req), !.checks.pii = mask]
      BY <2>1 DEF Pii
    <3>2. mask \in {"clean", "masked"}
      OBVIOUS
    <3> HIDE DEF mask
    <3>3. /\ run'.checks = [run.checks EXCEPT !.pii = mask] /\ run'.stage = "egress"
          /\ run'.req = run.req /\ run'.would = "none" /\ run'.action = run.action
          /\ run'.masked = Masked(run.req)
      BY <1>1, <3>1 DEF Run
    <3>4. run'.checks \in Checks
      BY <1>1, <3>2, <3>3 DEF Checks
    <3>5. run' \in Run
      BY <1>1, <1>3, <3>1, <3>3, <3>4 DEF Run, Stage
    <3> QED
      BY <1>1, <3>3, <3>5 DEF Checks
  <2>2. CASE ~masking
    <3>1. run' = [run EXCEPT !.stage = "egress"]
      BY <2>2 DEF Pii, Next1
    <3> QED
      BY <1>1, <2>2, <3>1 DEF Run, Stage
  <2> QED
    BY <2>1, <2>2
<1>5. RunOk'
  BY <1>1, <1>2, <1>4 DEF RunOk
<1>6. LoopJudged'
  BY <1>2, <1>4, LoopJudgedStays DEF PipelineInv
<1>7. Verdict' = Verdict /\ Verdict = run.action
  BY <1>1, <1>4 DEF Verdict
<1>8. Past({"pii", "egress", "guards"})
  BY <1>1 DEF Past, Judged
<1>9. ScanOk'
  BY <1>2, <1>4, <1>7, <1>8, ScanStays
<1>10. MaskOk'
  BY <1>2, <1>4, <1>7 DEF MaskOk
<1>11. CauseOk'
  BY <1>1, <1>2, <1>4, <1>7, <1>8 DEF PipelineInv, CauseOk
<1>12. NotYet' /\ EgressOk' /\ GuardsOk' /\ ResultOk'
  BY <1>4 DEF NotYet, EgressOk, GuardsOk, ResultOk, Past
<1> QED
  BY <1>2, <1>5, <1>6, <1>9, <1>10, <1>11, <1>12 DEF PipelineInv

LEMMA EgressStageInv == ASSUME PipelineInv, EgressStage PROVE PipelineInv'
<1> DEFINE asked == run.action = "ALLOW" /\ run.req.surface \in settings.surfaces
           allowed == Allowed(run.req.params, run.req.readOnly, settings.allow,
                              settings.quarantined, EgressMode)
           outcome == IF ~allowed THEN "refused"
                      ELSE IF Refused(run.req) # "none" THEN "observed" ELSE "allowed"
<1>1. /\ RunOk /\ LoopOk /\ run.stage = "egress" /\ run \in Run /\ run.req \in Request
      /\ OnlyRun /\ run.would = "none" /\ run.checks \in Checks
      /\ run.checks.egress = "none" /\ run.checks.guards = <<>>
  BY RunFields DEF PipelineInv, NotYet, EgressStage
<1>2. LoopOk' /\ settings' = settings /\ streak' = streak
  BY <1>1, OnlyRunLoop
<1>3. allowed <=> Refused(run.req) = "none" \/ EgressMode # "enforce"
  BY DEF Allowed, Refused
<1> HIDE DEF allowed
<1>4. /\ run' \in Run /\ run'.stage = "guards" /\ run'.req = run.req /\ run'.would = "none"
      /\ run'.masked = run.masked
      /\ run'.checks.loop = run.checks.loop /\ run'.checks.firewall = run.checks.firewall
      /\ run'.checks.deep = run.checks.deep /\ run'.checks.guards = <<>>
      /\ asked => /\ run'.checks.egress = outcome
                  /\ run'.action = IF allowed THEN "ALLOW" ELSE "BLOCK"
      /\ ~asked => run'.checks.egress = "none" /\ run'.action = run.action
  <2>1. CASE asked
    <3>1. run' = [run EXCEPT !.stage = "guards", !.checks.egress = outcome,
                      !.action = IF allowed THEN "ALLOW" ELSE "BLOCK"]
      BY <2>1 DEF EgressStage, allowed
    <3>2. outcome \in {"allowed", "observed", "refused"}
      OBVIOUS
    <3> HIDE DEF outcome
    <3>3. /\ run'.checks = [run.checks EXCEPT !.egress = outcome] /\ run'.stage = "guards"
          /\ run'.req = run.req /\ run'.would = "none" /\ run'.masked = run.masked
          /\ run'.action = IF allowed THEN "ALLOW" ELSE "BLOCK"
      BY <1>1, <3>1 DEF Run
    <3>4. run'.checks \in Checks
      BY <1>1, <3>2, <3>3 DEF Checks
    <3>5. run' \in Run
      BY <1>1, <3>1, <3>3, <3>4 DEF Run, Stage
    <3> QED
      BY <1>1, <2>1, <3>3, <3>5 DEF Checks
  <2>2. CASE ~asked
    <3>1. run' = [run EXCEPT !.stage = "guards"]
      BY <2>2 DEF EgressStage, Next1
    <3> QED
      BY <1>1, <2>2, <3>1 DEF Run, Stage
  <2> QED
    BY <2>1, <2>2
<1>5. RunOk'
  BY <1>1, <1>2, <1>4 DEF RunOk
<1>6. LoopJudged'
  BY <1>2, <1>4, LoopJudgedStays DEF PipelineInv
<1>7. Verdict' = run'.action /\ Verdict = run.action
  BY <1>1, <1>4 DEF Verdict
<1>8. \/ Verdict' = Verdict
      \/ Verdict = "ALLOW" /\ Verdict' = "BLOCK" /\ run'.checks.egress = "refused"
  BY <1>4, <1>7
<1>9. Past({"pii", "egress", "guards"}) /\ Past({"egress", "guards"})
  BY <1>1 DEF Past, Judged
<1>10. ScanOk'
  BY <1>2, <1>4, <1>8, <1>9, ScanStays
<1>11. MaskOk'
  <2>1. Masked(run.req)' = Masked(run.req)
    BY <1>4 DEF Masked
  <2> QED
    BY <1>2, <1>4, <1>8, <1>9, <2>1 DEF PipelineInv, MaskOk
<1>12. CauseOk'
  BY <1>1, <1>2, <1>4, <1>8, <1>9 DEF PipelineInv, CauseOk
<1>13. EgressOk'
  <2>1. EgressMode' = EgressMode /\ Refused(run.req)' = Refused(run.req)
    BY <1>2, <1>4, SettingsStay
  <2>2. ASSUME run'.checks.egress = "refused"
        PROVE  /\ Unblocked' /\ Verdict' = "BLOCK" /\ asked
               /\ Refused(run.req) # "none" /\ EgressMode = "enforce"
    <3>1. asked /\ ~allowed
      BY <1>4, <2>2
    <3>2. Verdict' = "BLOCK" /\ Verdict = "ALLOW"
      BY <1>4, <1>7, <3>1
    <3>3. Unblocked
      BY <1>9, <3>2 DEF PipelineInv, ScanOk, Unblocked
    <3> QED
      BY <1>3, <1>4, <3>1, <3>2, <3>3 DEF Unblocked
  <2>3. ASSUME Verdict' = "ALLOW", run.req.surface \in settings.surfaces
        PROVE  Refused(run.req) = "none" \/ EgressMode # "enforce"
    <3>1. asked /\ allowed
      BY <1>4, <1>7, <2>3
    <3> QED
      BY <1>3, <3>1
  <2> QED
    BY <1>2, <1>4, <2>1, <2>2, <2>3 DEF EgressOk
<1>14. NotYet' /\ GuardsOk' /\ ResultOk'
  BY <1>4 DEF NotYet, GuardsOk, ResultOk, Past
<1> QED
  BY <1>2, <1>5, <1>6, <1>10, <1>11, <1>12, <1>13, <1>14 DEF PipelineInv

\* One more guard was asked of a request nothing has refused so far
LEMMA GuardInv ==
    ASSUME PipelineInv, \E verdict \in {"ALLOW", "BLOCK", "ERROR"} : Guard(verdict)
    PROVE  PipelineInv'
<1>1. PICK verdict \in {"ALLOW", "BLOCK", "ERROR"} : Guard(verdict)
  OBVIOUS
<1> DEFINE asked == run.checks.guards
           more == Append(asked, verdict)
           n == GuardsOf(run.req.surface)
<1>2. /\ RunOk /\ LoopOk /\ run.stage = "guards" /\ run \in Run /\ run.req \in Request
      /\ OnlyRun /\ run.would = "none" /\ run.checks \in Checks /\ run.action = "ALLOW"
      /\ asked \in Seq({"ALLOW", "BLOCK", "ERROR"}) /\ Len(asked) < n
  BY <1>1, RunFields DEF PipelineInv, NotYet, Guard, MoreGuards
<1>3. LoopOk' /\ settings' = settings /\ streak' = streak
  BY <1>2, OnlyRunLoop
<1>4. run' = [run EXCEPT !.stage = "guards", !.checks.guards = more,
                  !.action = IF Refuses(verdict) THEN "BLOCK" ELSE "ALLOW"]
  BY <1>1, <1>2 DEF Guard, Run
<1>5. /\ more \in Seq({"ALLOW", "BLOCK", "ERROR"}) /\ Len(more) = Len(asked) + 1
      /\ more # <<>> /\ more[Len(more)] = verdict
      /\ \A i \in 1..Len(asked) : more[i] = asked[i]
  BY <1>2
<1> HIDE DEF more
<1>6. /\ run'.stage = "guards" /\ run'.req = run.req /\ run'.would = "none"
      /\ run'.masked = run.masked
      /\ run'.action = IF Refuses(verdict) THEN "BLOCK" ELSE "ALLOW"
      /\ run'.checks = [run.checks EXCEPT !.guards = more]
  BY <1>2, <1>4 DEF Run
<1>7. /\ run'.checks \in Checks /\ run'.checks.guards = more
      /\ run'.checks.loop = run.checks.loop /\ run'.checks.firewall = run.checks.firewall
      /\ run'.checks.deep = run.checks.deep /\ run'.checks.egress = run.checks.egress
  BY <1>2, <1>5, <1>6 DEF Checks
<1>8. RunOk'
  <2>1. run' \in Run
    BY <1>2, <1>4, <1>6, <1>7 DEF Run, Stage
  <2> QED
    BY <1>2, <1>3, <1>6, <2>1 DEF RunOk
<1>9. LoopJudged'
  BY <1>3, <1>6, <1>7, LoopJudgedStays DEF PipelineInv
<1>10. /\ Verdict = "ALLOW" /\ Verdict' = IF Refuses(verdict) THEN "BLOCK" ELSE "ALLOW"
       /\ \A v : Refuses(v)' <=> Refuses(v)
  BY <1>2, <1>3, <1>6, SettingsStay DEF Verdict
<1>11. Past({"pii", "egress", "guards"}) /\ Past({"egress", "guards"}) /\ Past({"guards"})
  BY <1>2 DEF Past, Judged
<1>12. ScanOk'
  BY <1>3, <1>6, <1>7, <1>10, <1>11, ScanStays
<1>13. MaskOk'
  <2>1. Masked(run.req)' = Masked(run.req)
    BY <1>6 DEF Masked
  <2> QED
    BY <1>3, <1>6, <1>10, <1>11, <2>1 DEF PipelineInv, MaskOk
<1>14. Unblocked /\ Unblocked'
  <2>1. Unblocked
    BY <1>10, <1>11 DEF PipelineInv, ScanOk, Unblocked
  <2> QED
    BY <2>1, <1>7 DEF Unblocked
<1>15. run.checks.egress # "refused"
  BY <1>10, <1>11 DEF PipelineInv, EgressOk
<1>16. EgressOk'
  <2>1. EgressMode' = EgressMode /\ Refused(run.req)' = Refused(run.req)
    BY <1>3, <1>6, SettingsStay
  <2>2. run.req.surface \in settings.surfaces => Refused(run.req) = "none" \/ EgressMode # "enforce"
    BY <1>10, <1>11 DEF PipelineInv, EgressOk
  <2> QED
    BY <1>3, <1>6, <1>7, <1>15, <2>1, <2>2 DEF EgressOk
<1>17. GuardsOk'
  <2>1. Len(more) <= n
    BY <1>2, <1>5, GovernanceAssumption DEF GuardsOf
  <2>2. Verdict' = "ALLOW" => \A i \in 1..Len(more) : ~Refuses(more[i])
    <3> SUFFICES ASSUME Verdict' = "ALLOW", NEW i \in 1..Len(more) PROVE ~Refuses(more[i])
      OBVIOUS
    <3>1. CASE i = Len(more)
      BY <1>5, <1>10, <3>1
    <3>2. CASE i # Len(more)
      <4>1. i \in 1..Len(asked)
        BY <1>2, <1>5, <3>2
      <4>2. ~Refuses(asked[i])
        BY <1>10, <4>1 DEF PipelineInv, GuardsOk
      <4> QED
        BY <1>5, <4>1, <4>2
    <3> QED
      BY <3>1, <3>2
  <2>3. ~Past({})'
    BY <1>6 DEF Past
  <2> QED
    BY <1>6, <1>7, <1>10, <1>14, <1>15, <2>1, <2>2, <2>3 DEF GuardsOk, n
<1>18. CauseOk'
  BY <1>5, <1>7, <1>10 DEF CauseOk
<1>19. NotYet' /\ ResultOk'
  BY <1>6 DEF NotYet, ResultOk
<1> QED
  BY <1>3, <1>8, <1>9, <1>12, <1>13, <1>16, <1>17, <1>18, <1>19 DEF PipelineInv

LEMMA GuardsEndInv == ASSUME PipelineInv, GuardsEnd PROVE PipelineInv'
<1>1. /\ RunOk /\ LoopOk /\ run.stage = "guards" /\ run \in Run /\ run.req \in Request
      /\ OnlyRun /\ run.would = "none" /\ run.checks \in Checks /\ ~MoreGuards
      /\ run.checks.guards \in Seq({"ALLOW", "BLOCK", "ERROR"})
      /\ run' = [run EXCEPT !.stage = "mode"]
  BY RunFields DEF PipelineInv, NotYet, GuardsEnd, Next1
<1>2. LoopOk' /\ settings' = settings /\ streak' = streak
  BY <1>1, OnlyRunLoop
<1>3. /\ run' \in Run /\ run'.stage = "mode" /\ run'.req = run.req /\ run'.would = "none"
      /\ run'.checks = run.checks /\ run'.masked = run.masked /\ run'.action = run.action
  BY <1>1 DEF Run, Stage
<1>4. RunOk'
  BY <1>1, <1>2, <1>3 DEF RunOk
<1>5. LoopJudged'
  BY <1>2, <1>3, LoopJudgedStays DEF PipelineInv
<1>6. Verdict' = Verdict /\ Verdict = run.action
  BY <1>1, <1>3 DEF Verdict
<1>7. Past({"pii", "egress", "guards"}) /\ Past({"egress", "guards"}) /\ Past({"guards"})
  BY <1>1 DEF Past, Judged
<1>8. ScanOk'
  BY <1>2, <1>3, <1>6, <1>7, ScanStays
<1>9. /\ EgressMode' = EgressMode /\ Refused(run.req)' = Refused(run.req)
      /\ Masked(run.req)' = Masked(run.req) /\ (Unblocked' <=> Unblocked)
      /\ \A v : Refuses(v)' <=> Refuses(v)
  BY <1>2, <1>3, SettingsStay DEF Masked, Unblocked
<1>10. MaskOk'
  BY <1>2, <1>3, <1>6, <1>7, <1>9 DEF PipelineInv, MaskOk
<1>11. EgressOk'
  BY <1>2, <1>3, <1>6, <1>7, <1>9 DEF PipelineInv, EgressOk
<1>12. CauseOk'
  BY <1>2, <1>3, <1>6, <1>7, <1>9 DEF PipelineInv, CauseOk
<1>13. GuardsOk'
  <2>1. Verdict = "ALLOW" => Len(run.checks.guards) = GuardsOf(run.req.surface)
    <3>1. Len(run.checks.guards) \in Nat /\ GuardsOf(run.req.surface) \in Nat
      BY <1>1, GovernanceAssumption DEF GuardsOf
    <3>2. run.checks.guards = <<>> => Len(run.checks.guards) = 0
      OBVIOUS
    <3>3. Len(run.checks.guards) <= GuardsOf(run.req.surface)
      BY <3>1, <3>2 DEF PipelineInv, GuardsOk
    <3> QED
      BY <1>1, <1>6, <3>1, <3>3 DEF MoreGuards
  <2> QED
    BY <1>3, <1>6, <1>9, <2>1 DEF PipelineInv, GuardsOk
<1>14. NotYet' /\ ResultOk'
  BY <1>3 DEF NotYet, ResultOk
<1> QED
  BY <1>2, <1>4, <1>5, <1>8, <1>10, <1>11, <1>12, <1>13, <1>14 DEF PipelineInv

\* The mode may lift the verdict, and keeps what it was
LEMMA ModeInv == ASSUME PipelineInv, Mode PROVE PipelineInv'
<1> DEFINE lifted == settings.mode # "enforce" /\ run.action # "ALLOW"
           action == IF lifted THEN "ALLOW" ELSE run.action
           would == IF lifted THEN run.action ELSE "none"
           domain == Domain(action, run.checks)
           reason == IF action = "BLOCK" THEN BlockReason(run.checks) ELSE "none"
<1>1. /\ RunOk /\ LoopOk /\ run.stage = "mode" /\ run \in Run /\ run.req \in Request
      /\ OnlyRun /\ run.checks \in Checks /\ run.would \in {"none", "BLOCK", "CIRCUIT_BREAK"}
      /\ run.action \in {"ALLOW", "BLOCK", "CIRCUIT_BREAK", "ERROR"}
  BY RunFields DEF PipelineInv, Mode
<1>2. LoopOk' /\ settings' = settings /\ streak' = streak
  BY <1>1, OnlyRunLoop
<1>3. /\ Past({"pii", "egress", "guards"}) /\ Past({"egress", "guards"}) /\ Past({"guards"})
      /\ Past({})
  BY <1>1 DEF Past, Judged
<1>4. run' = [run EXCEPT !.stage = "done", !.action = action, !.would = would,
                  !.domain = domain, !.reason = reason]
  BY DEF Mode
<1>5. domain \in {"none", "loop_breaker", "firewall", "guard", "pii"}
  BY DEF Domain
<1>6. reason \in {"none", "injection_detected", "scan_depth_exceeded", "egress_refused",
                  "guard_blocked"}
  BY DEF BlockReason
<1> HIDE DEF domain, reason
<1>7. run'.stage = "done" /\ run'.req = run.req /\ run'.checks = run.checks
      /\ run'.masked = run.masked /\ run'.action = action /\ run'.would = would
      /\ run'.domain = domain /\ run'.reason = reason
  BY <1>1, <1>4 DEF Run
<1>8. Verdict \in {"ALLOW", "BLOCK", "CIRCUIT_BREAK"} /\ Verdict # "ERROR"
  BY <1>1, <1>3 DEF PipelineInv, ScanOk, Verdict
<1>9. Verdict = run.action /\ run.would = "none"
  BY <1>1 DEF PipelineInv, NotYet, Verdict
<1>10. /\ Verdict' = Verdict /\ action # "ERROR"
       /\ would \in {"none", "BLOCK", "CIRCUIT_BREAK"}
       /\ action \in {"ALLOW", "BLOCK", "CIRCUIT_BREAK"}
       /\ would # "none" => action = "ALLOW"
  BY <1>7, <1>8, <1>9 DEF Verdict
<1> HIDE DEF action, would
<1>11. RunOk'
  <2>1. run' \in Run
    BY ZenonT(60), <1>1, <1>4, <1>5, <1>6, <1>10 DEF Run, Stage
  <2> QED
    BY <1>1, <1>2, <1>7, <2>1 DEF RunOk
<1>12. LoopJudged'
  BY <1>2, <1>7, LoopJudgedStays DEF PipelineInv
<1>13. ScanOk'
  BY <1>2, <1>3, <1>7, <1>10, ScanStays
<1>14. /\ EgressMode' = EgressMode /\ Refused(run.req)' = Refused(run.req)
       /\ Masked(run.req)' = Masked(run.req) /\ (Unblocked' <=> Unblocked)
       /\ \A v : Refuses(v)' <=> Refuses(v)
  BY <1>2, <1>7, SettingsStay DEF Masked, Unblocked
<1>15. MaskOk'
  BY <1>2, <1>3, <1>7, <1>10, <1>14 DEF PipelineInv, MaskOk
<1>16. EgressOk'
  BY <1>2, <1>3, <1>7, <1>10, <1>14 DEF PipelineInv, EgressOk
<1>17. CauseOk'
  BY <1>2, <1>3, <1>7, <1>10, <1>14 DEF PipelineInv, CauseOk
<1>18. GuardsOk'
  BY <1>3, <1>7, <1>10, <1>14 DEF PipelineInv, GuardsOk
<1>19. NotYet'
  BY <1>7 DEF NotYet
<1>20. ResultOk'
  BY <1>5, <1>7, <1>10 DEF ResultOk, reason
<1> QED
  BY <1>2, <1>11, <1>12, <1>13, <1>15, <1>16, <1>17, <1>18, <1>19, <1>20 DEF PipelineInv

LEMMA PipelineStep == ASSUME PipelineInv, [Next]_vars PROVE PipelineInv'
<1>1. CASE UNCHANGED vars
  <2>1. OnlyRun /\ run' = run
    BY <1>1 DEF vars, OnlyRun
  <2>2. LoopOk' /\ settings' = settings /\ streak' = streak
    BY <2>1, OnlyRunLoop
  <2>3. \A t : Flagged(t)' <=> Flagged(t)
    BY <2>2, SettingsStay
  <2>4. /\ EgressMode' = EgressMode /\ Refused(run.req)' = Refused(run.req)
        /\ ScannedTexts(run.req)' = ScannedTexts(run.req)
        /\ (ScanTruncated(run.req)' <=> ScanTruncated(run.req))
        /\ Masked(run.req)' = Masked(run.req) /\ (Unblocked' <=> Unblocked)
        /\ \A v : Refuses(v)' <=> Refuses(v)
    BY <2>1, <2>2, SettingsStay DEF Masked, Unblocked
  <2>5. /\ Verdict' = Verdict /\ (Judged' <=> Judged) /\ (ScanOn' <=> ScanOn)
        /\ \A S : Past(S)' <=> Past(S)
    BY <2>1, <2>2 DEF Verdict, Judged, ScanOn, Past
  <2>6. RunOk' /\ LoopJudged' /\ NotYet' /\ ResultOk'
    BY <2>1, <2>2, <2>5 DEF PipelineInv, RunOk, LoopJudged, NotYet, ResultOk
  <2>7. ScanOk'
    BY <2>1, <2>2, <2>3, <2>4, <2>5 DEF PipelineInv, ScanOk
  <2>8. MaskOk' /\ EgressOk'
    BY <2>1, <2>2, <2>4, <2>5 DEF PipelineInv, MaskOk, EgressOk
  <2>9. GuardsOk' /\ CauseOk'
    BY <2>1, <2>2, <2>4, <2>5 DEF PipelineInv, GuardsOk, CauseOk
  <2> QED
    BY <2>2, <2>6, <2>7, <2>8, <2>9 DEF PipelineInv
<1> QED
  BY <1>1, ArrivesInv, LeavesInv, LoopInv, FirewallInv, PiiInv, EgressStageInv, GuardInv,
     GuardsEndInv, ModeInv, RaisesInv DEF Next

(***************************************************************************)
(* What the scope and the egress policy let through.                       *)
(***************************************************************************)
\* A text outside the scope was left out by the operator, or by a policy it accepts
LEMMA OutOfScopeIsLeftOut ==
    ASSUME settings \in Setting, NEW req \in Request, NEW t \in req.texts,
           ~InScope(t, Scope(req.policies, settings.operator))
    PROVE  LeftOut(t, req)
<1> DEFINE op == settings.operator
           values == req.policies
<1>1. op \in Operator /\ values \in Seq(Policy) /\ op.policies \in BOOLEAN
  BY DEF Setting, Operator, Request
<1>2. CASE ScanStatus(values, op) = "accepted"
  <2>1. op.policies /\ values # <<>> /\ ~(Len(values) > 1) /\ ~(Len(values) = 1 /\ ~values[1].ok)
        /\ values[1].ruleset \in op.rulesets
    BY <1>1, <1>2 DEF ScanStatus
  <2>2. Len(values) = 1 /\ values[1] \in Policy
    <3>1. Len(values) \in Nat /\ Len(values) # 0
      BY <1>1, <2>1, EmptySeq
    <3>2. Len(values) = 1
      <4>1. ~(Len(values) > 1)
        BY <2>1, Zenon
      <4>2. \A n \in Nat : n # 0 /\ ~(n > 1) => n = 1
        OBVIOUS
      <4> QED
        BY <3>1, <4>1, <4>2, Zenon
    <3>3. \A i \in 1..Len(values) : values[i] \in Policy
      BY <1>1
    <3> QED
      BY <3>2, <3>3
  <2>3. values[1].ok
    BY <2>1, <2>2 DEF Policy
  <2>4. /\ Scope(values, op).roles = op.roles \cap values[1].roles
        /\ Scope(values, op).tags = op.tags \cap values[1].tags
    BY <1>2 DEF Scope
  <2>5. \/ t.role \in Roles \ (op.roles \cap values[1].roles)
        \/ t.tag \in op.tags \cap values[1].tags /\ t.paired
    BY <2>4 DEF InScope
  <2> QED
    BY <2>1, <2>2, <2>3, <2>5 DEF LeftOut
<1>3. CASE ScanStatus(values, op) # "accepted"
  <2>1. Scope(values, op).roles = op.roles /\ Scope(values, op).tags = {}
    BY <1>3 DEF Scope
  <2> QED
    BY <2>1 DEF InScope, LeftOut
<1> QED
  BY <1>2, <1>3

\* Nothing to refuse: every destination was read and is listed
LEMMA NotRefusedIsListed ==
    ASSUME NEW params \in Arguments, NEW readOnly, NEW allow, NEW quarantined,
           Refusal(params, readOnly, allow, quarantined) = "none", NEW f \in params
    PROVE  /\ f.deep => f.kind = "bare"
           /\ f.kind = "url" \/ f.key = "network" => NamesHost(f) /\ f.host \in allow
<1>1. params \in SUBSET Field
      /\ (f.deep /\ f.key = "network" => \E g \in params : g.deep /\ g.kind = "box")
  BY DEF Arguments
<1>2. Status(params) # "unresolvable"
  BY DEF Refusal
<1>3. ~Truncated(params) /\ Unresolved(params) = {}
  BY <1>2 DEF Status
<1>4. \A g \in params : g.deep => g.kind = "bare"
  BY <1>3 DEF Truncated
<1>5. ASSUME f.kind = "url" \/ f.key = "network" PROVE NamesHost(f) /\ f.host \in allow
  <2>1. ~f.deep
    BY <1>1, <1>4, <1>5
  <2>2. f \in Reached(params)
    BY <2>1 DEF Reached
  <2>3. NamesHost(f)
    BY <1>3, <1>5, <2>2 DEF Unresolved, NamesHost
  <2>4. f.host \in Destinations(params)
    BY <2>2, <2>3 DEF Destinations
  <2>5. Status(params) = "resolved"
    BY <1>3, <2>4 DEF Status
  <2>6. Destinations(params) \subseteq allow
    BY <2>5 DEF Refusal
  <2> QED
    BY <2>3, <2>4, <2>6
<1> QED
  BY <1>4, <1>5

LEMMA PassedClean == PipelineInv => PassedIsClean
<1> SUFFICES ASSUME PipelineInv, Passed PROVE PassedIsClean
  BY DEF PassedIsClean
<1> DEFINE req == run.req
           asked == run.checks.guards
<1>1. /\ settings \in Setting /\ req \in Request /\ run.stage = "done" /\ run.would = "none"
      /\ run.action = "ALLOW" /\ run.checks.loop \in {"none", "clear", "loop"}
      /\ asked \in Seq({"ALLOW", "BLOCK", "ERROR"})
  BY RunFields DEF PipelineInv, Passed
<1>2. Judged
  BY <1>1 DEF PipelineInv, ResultOk, Judged
<1>3. /\ Past({"pii", "egress", "guards"}) /\ Past({"egress", "guards"}) /\ Past({"guards"})
      /\ Past({}) /\ Verdict = "ALLOW"
  BY <1>1, <1>2 DEF Past, Verdict
<1>4. /\ run.checks.firewall # "injection" /\ ~run.checks.deep /\ run.checks.loop # "loop"
      /\ run.checks.firewall = "injection"
            <=> ScanOn /\ \E t \in ScannedTexts(req) : Flagged(t)
      /\ run.checks.deep
            <=> \/ ScanOn /\ ScanTruncated(req)
                \/ /\ ~settings.injection /\ settings.pii /\ DeepText(req)
                   /\ run.checks.loop # "loop"
  BY <1>3 DEF PipelineInv, ScanOk
<1>5. /\ settings.injection => ~ScanTruncated(req) /\ \A t \in ScannedTexts(req) : ~Flagged(t)
      /\ ~settings.injection /\ settings.pii => ~DeepText(req)
  BY <1>4 DEF ScanOn
<1>6. ASSUME settings.injection, NEW t \in req.texts, Flagged(t) \/ t.deep
      PROVE  req.surface = "gateway" /\ LeftOut(t, req)
  <2>1. CASE req.surface # "gateway"
    <3>1. ~t.deep
      BY <1>5, <1>6, <2>1 DEF ScanTruncated, DeepText
    <3>2. t \in ScannedTexts(req)
      BY <2>1, <3>1 DEF ScannedTexts
    <3> QED
      BY <1>5, <1>6, <3>1, <3>2
  <2>2. CASE req.surface = "gateway"
    <3> DEFINE scope == Scope(req.policies, settings.operator)
    <3>1. ~(InScope(t, scope) /\ t.deep)
      BY <1>5, <1>6, <2>2 DEF ScanTruncated, TextsTruncated
    <3>2. ~(InScope(t, scope) /\ ~t.deep)
      BY <1>5, <1>6, <2>2, <3>1 DEF ScannedTexts, RequestTexts
    <3>3. LeftOut(t, req)
      BY <1>1, <3>1, <3>2, OutOfScopeIsLeftOut
    <3> QED
      BY <2>2, <3>3
  <2> QED
    BY <2>1, <2>2
<1>7. ASSUME settings.pii, NEW t \in req.texts, t.pii /\ t.spoken
      PROVE  t \in run.masked
  <2>1. run.masked = Masked(req)
    BY <1>3, <1>7 DEF PipelineInv, MaskOk
  <2>2. req.surface = "gateway" \/ ~t.deep
    <3>1. CASE settings.injection
      BY <1>5, <3>1 DEF ScanTruncated, DeepText
    <3>2. CASE ~settings.injection
      BY <1>5, <1>7, <3>2 DEF DeepText
    <3> QED
      BY <3>1, <3>2
  <2> QED
    BY <1>7, <2>1, <2>2 DEF Masked
<1>8. ASSUME settings.mode = "enforce", settings.egress = "enforce",
             req.surface \in settings.surfaces, NEW f \in req.params
      PROVE  /\ f.deep => f.kind = "bare"
             /\ f.kind = "url" \/ f.key = "network" => NamesHost(f) /\ f.host \in settings.allow
  <2>1. EgressMode = "enforce"
    BY <1>8 DEF EgressMode, ResolveEgressMode
  <2>2. Refused(req) = "none"
    BY <1>3, <1>8, <2>1 DEF PipelineInv, EgressOk
  <2>3. req.params \in Arguments
    BY <1>1, RequestFields
  <2> QED
    BY <2>2, <2>3, NotRefusedIsListed DEF Refused
<1>9. /\ Len(asked) = GuardsOf(req.surface)
      /\ \A i \in 1..Len(asked) : ~Refuses(asked[i])
  BY <1>3 DEF PipelineInv, GuardsOk
<1>10. /\ settings.injection =>
             \A t \in req.texts : Flagged(t) \/ t.deep => req.surface = "gateway" /\ LeftOut(t, req)
       /\ settings.pii => \A t \in req.texts : t.pii /\ t.spoken => t \in run.masked
  BY <1>6, <1>7
<1> QED
  BY <1>8, <1>9, <1>10 DEF PassedIsClean

LEMMA ReasonTrue == PipelineInv => ReasonNamesCause
<1> SUFFICES ASSUME PipelineInv, run.stage = "done", run.action = "BLOCK", run.domain # "pipeline"
             PROVE  ReasonNamesCause
  BY DEF ReasonNamesCause
<1> DEFINE req == run.req
           asked == run.checks.guards
           flagged == settings.injection /\ \E t \in ScannedTexts(req) : Flagged(t)
           tooDeep == (settings.injection \/ settings.pii) /\ ScanTruncated(req)
           unlisted == req.surface \in settings.surfaces /\ Refused(req) # "none"
<1>1. /\ Judged /\ run.would = "none" /\ run.reason = BlockReason(run.checks)
      /\ asked \in Seq({"ALLOW", "BLOCK", "ERROR"})
  BY RunFields DEF PipelineInv, ResultOk, Judged
<1>2. /\ Past({"pii", "egress", "guards"}) /\ Past({"guards"}) /\ Verdict = "BLOCK"
  BY <1>1 DEF Past, Verdict
<1>3. /\ run.checks.loop # "loop"
      /\ run.checks.firewall = "injection"
            <=> ScanOn /\ \E t \in ScannedTexts(req) : Flagged(t)
      /\ run.checks.deep
            <=> \/ ScanOn /\ ScanTruncated(req)
                \/ /\ ~settings.injection /\ settings.pii /\ DeepText(req)
                   /\ run.checks.loop # "loop"
  BY <1>2 DEF PipelineInv, ScanOk
<1>4. run.checks.firewall = "injection" <=> flagged
  BY <1>3 DEF ScanOn
<1>5. run.checks.deep => tooDeep
  BY <1>3 DEF ScanOn, ScanTruncated
<1>6. run.checks.egress = "refused" => unlisted /\ EgressMode = "enforce"
  BY <1>2 DEF PipelineInv, EgressOk
<1>7. \/ run.checks.firewall = "injection" \/ run.checks.deep
      \/ run.checks.egress = "refused"
      \/ asked # <<>> /\ Refuses(asked[Len(asked)])
  BY <1>2 DEF PipelineInv, CauseOk
<1> HIDE DEF flagged, tooDeep, unlisted
<1>8. CASE run.checks.firewall = "injection"
  <2>1. run.reason = "injection_detected" /\ flagged
    BY <1>1, <1>4, <1>8 DEF BlockReason
  <2> QED
    BY <2>1 DEF ReasonNamesCause, flagged
<1>9. CASE run.checks.firewall # "injection" /\ run.checks.deep
  <2>1. run.reason = "scan_depth_exceeded" /\ ~flagged /\ tooDeep
    BY <1>1, <1>4, <1>5, <1>9 DEF BlockReason
  <2> QED
    BY <2>1 DEF ReasonNamesCause, flagged, tooDeep
<1>10. CASE /\ run.checks.firewall # "injection" /\ ~run.checks.deep
            /\ run.checks.egress = "refused"
  <2>1. run.reason = "egress_refused" /\ ~flagged /\ unlisted /\ EgressMode = "enforce"
    BY <1>1, <1>4, <1>6, <1>10 DEF BlockReason
  <2> QED
    BY <2>1 DEF ReasonNamesCause, flagged, unlisted
<1>11. CASE /\ run.checks.firewall # "injection" /\ ~run.checks.deep
            /\ run.checks.egress # "refused"
  <2>1. asked # <<>> /\ Refuses(asked[Len(asked)]) /\ ~flagged
    BY <1>4, <1>7, <1>11
  <2>2. asked[Len(asked)] \in Elements(asked) /\ asked[Len(asked)] \in {"BLOCK", "ERROR"}
    <3>1. Len(asked) \in 1..Len(asked)
      BY <1>1, <2>1
    <3> QED
      BY <2>1, <3>1 DEF Elements, Refuses
  <2>3. run.reason = "guard_blocked"
    BY <1>1, <1>11, <2>2 DEF BlockReason
  <2> QED
    BY <2>1, <2>3 DEF ReasonNamesCause, flagged
<1> QED
  BY <1>8, <1>9, <1>10, <1>11

(***************************************************************************)
(* The theorems.                                                           *)
(***************************************************************************)
\* What every stage of run_governance_pipeline has established about the
\* request, and what the loop breaker keeps of its session.
THEOREM PipelineInvariant == Spec => []PipelineInv
<1>1. Init => PipelineInv
  BY InitPipeline
<1>2. PipelineInv /\ [Next]_vars => PipelineInv'
  BY PipelineStep
<1> QED
  BY <1>1, <1>2, PTL DEF Spec

\* A request that passes holds nothing the firewall would flag but what was
\* left out of the scan, its personal data is masked, its destinations are
\* listed, and every guard let it through: for all settings and requests.
THEOREM PassingIsClean == Spec => []PassedIsClean
<1>1. PipelineInv => PassedIsClean
  BY PassedClean
<1> QED
  BY <1>1, PipelineInvariant, PTL

\* The reason of a refusal (_block_reason) is that of the first thing wrong
\* with the request, and there is one.
THEOREM ReasonsAreTrue == Spec => []ReasonNamesCause
<1>1. PipelineInv => ReasonNamesCause
  BY ReasonTrue
<1> QED
  BY <1>1, PipelineInvariant, PTL

\* The loop breaker breaks a session off only for texts of one template, and
\* never fails to once the same text has come often enough, whatever the
\* window's size and the limit.
THEOREM LoopsAreJudged == Spec => []LoopJudged
<1>1. PipelineInv => LoopJudged
  BY DEF PipelineInv
<1> QED
  BY <1>1, PipelineInvariant, PTL
=============================================================================
