------------------------- MODULE CoordinationProofs -------------------------
(***************************************************************************)
(* coordination.py, for any number of agents, calls, texts and proxies and *)
(* any capacity of the stores: what the detector confirms is an echo, what *)
(* it could find it finds, and the entries of the quarantine hold as long  *)
(* as they promise to, and stay lifted.  The detector and the quarantine   *)
(* share no variable; the proofs of the second are at the end.             *)
(***************************************************************************)
EXTENDS Coordination, Quarantine, FiniteSetTheorems, FunctionTheorems, TLAPS

-----------------------------------------------------------------------------
(***************************************************************************)
(* When two calls match.                                                   *)
(***************************************************************************)
LEMMA UnionWithout ==
  ASSUME NEW F, NEW G
  PROVE  UNION Without(F, G) = (UNION F) \ G
  BY DEF Without

LEMMA Cards ==
  ASSUME NEW A, IsFiniteSet(A), NEW B, B \subseteq A
  PROVE  /\ IsFiniteSet(B) /\ Cardinality(A) \in Nat /\ Cardinality(B) \in Nat
         /\ Cardinality(B) <= Cardinality(A)
         /\ Cardinality(A \ B) = Cardinality(A) - Cardinality(B)
  <1>1. IsFiniteSet(B) /\ Cardinality(B) <= Cardinality(A)
    BY FS_Subset
  <1>2. Cardinality(A \ B) = Cardinality(A) - Cardinality(A \cap B) /\ A \cap B = B
    BY FS_Difference
  <1> QED
    BY <1>1, <1>2, FS_CardinalityType

\* a and b are A and B with a text discounted from A counted again
Discounts(A, B, a, b) ==
  /\ IsFiniteSet(A) /\ IsFiniteSet(B) /\ A \cap B # {}
  /\ b \subseteq B /\ A \cap B \subseteq a \cap b /\ a \subseteq A \cup (a \cap b)

\* What two texts share is that part of the larger one
SharesEnough(A, B, tenths) == 10 * Cardinality(A \cap B) >= tenths * Larger(A, B)

\* A call overlaps a text as well when more of what they share counts, and
\* less of either is discounted than what they share
LEMMA OverlapsMore ==
  ASSUME NEW A, NEW B, NEW a, NEW b, Discounts(A, B, a, b), NEW tenths \in {4, 9}
  PROVE  /\ Overlaps(A, B, tenths) => Overlaps(a, b, tenths)
         /\ SharesEnough(A, B, tenths) => SharesEnough(a, b, tenths)
         /\ Cardinality(A \cap B) <= Cardinality(a \cap b)
         /\ Cardinality(a \cap b) \in Nat /\ Cardinality(A \cap B) \in Nat
  <1> USE DEF Discounts
  <1> DEFINE more == (a \cap b) \ (A \cap B)
  <1>1. IsFiniteSet(a \cap b)
    BY FS_Subset
  <1>2. /\ Cardinality(more) = Cardinality(a \cap b) - Cardinality(A \cap B)
        /\ Cardinality(A \cap B) <= Cardinality(a \cap b)
        /\ Cardinality(a \cap b) \in Nat /\ Cardinality(A \cap B) \in Nat
        /\ IsFiniteSet(more) /\ Cardinality(more) \in Nat
    BY <1>1, Cards
  <1>3. IsFiniteSet(A \cup more) /\ Cardinality(A \cup more) <= Cardinality(A) + Cardinality(more)
    <2>1. /\ IsFiniteSet(A \cup more)
          /\ Cardinality(A \cup more) = Cardinality(A) + Cardinality(more) - Cardinality(A \cap more)
      BY <1>2, FS_Union
    <2>2. Cardinality(A \cap more) \in Nat /\ Cardinality(A) \in Nat
      BY FS_Intersection, FS_CardinalityType
    <2> QED
      BY <1>2, <2>1, <2>2
  <1>4. a \subseteq A \cup more
    OBVIOUS
  <1>5. IsFiniteSet(a) /\ Cardinality(a) \in Nat /\ Cardinality(a) <= Cardinality(A) + Cardinality(more)
    <2>1. Cardinality(a) <= Cardinality(A \cup more) /\ IsFiniteSet(a)
      BY <1>3, <1>4, FS_Subset
    <2> QED
      BY <1>2, <1>3, <2>1, FS_CardinalityType
  <1>6. /\ Cardinality(b) \in Nat /\ Cardinality(b) <= Cardinality(B)
        /\ Cardinality(A) \in Nat /\ Cardinality(B) \in Nat
    BY Cards, FS_CardinalityType
  <1>7. a # {} /\ b # {}
    OBVIOUS
  <1> DEFINE n == Cardinality(A \cap B)
             m == Cardinality(a \cap b)
             cA == Cardinality(A)
             cB == Cardinality(B)
             ca == Cardinality(a)
             cb == Cardinality(b)
  <1>8. /\ n \in Nat /\ m \in Nat /\ cA \in Nat /\ cB \in Nat /\ ca \in Nat /\ cb \in Nat
        /\ n <= m /\ ca <= cA + m - n /\ cb <= cB
    BY <1>2, <1>5, <1>6
  <1> HIDE DEF n, m, cA, cB, ca, cb
  <1>10. /\ tenths * ca <= tenths * cA + tenths * (m - n)
         /\ tenths * cb <= tenths * cB /\ tenths * (m - n) <= 10 * (m - n)
    BY <1>8
  <1>11. 10 * n >= tenths * (IF cA < cB THEN cA ELSE cB)
             => 10 * m >= tenths * (IF ca < cb THEN ca ELSE cb)
    BY <1>8, <1>10
  <1>12. 10 * n >= tenths * (IF cA < cB THEN cB ELSE cA)
             => 10 * m >= tenths * (IF ca < cb THEN cb ELSE ca)
    BY <1>8, <1>10
  <1> QED
    BY <1>2, <1>7, <1>11, <1>12 DEF SharesEnough, Overlaps, Smaller, Larger, n, m, cA, cB, ca, cb

\* Text discounted from the call alone, all of it in the other text, can be
\* counted again, and what is not counted for the call discounted from both.
LEMMA MatchesMore ==
  ASSUME NEW F, NEW S, IsFiniteSet(UNION F), IsFiniteSet(UNION S),
         NEW K, NEW P, NEW R, K \subseteq UNION S, (UNION S) \cap P \subseteq K, R \subseteq P,
         Matches(Without(F, K), S)
  PROVE  Matches(Without(F, P), Without(S, R))
  <1> DEFINE A == (UNION F) \ K
             B == UNION S
             a == (UNION F) \ P
             b == (UNION S) \ R
  <1>1. /\ UNION Without(F, K) = A /\ UNION Without(F, P) = a
        /\ UNION Without(S, R) = b
    BY UnionWithout
  <1>2. Cardinality(A \cap B) >= Floor /\ Overlaps(A, B, Threshold)
    BY <1>1 DEF Matches
  <1>3. A \cap B # {}
    BY <1>2, FS_EmptySet, FloorAssumption
  <1>4. Discounts(A, B, a, b)
    BY <1>3, FS_Difference DEF Discounts
  <1>5. /\ Overlaps(a, b, Threshold)
        /\ Overlaps(A, B, NearDuplicate) => Overlaps(a, b, NearDuplicate)
        /\ SharesEnough(A, B, Threshold) => SharesEnough(a, b, Threshold)
        /\ Cardinality(a \cap b) >= Floor
    <2> HIDE DEF A, B, a, b
    <2>1. Threshold \in {4, 9} /\ NearDuplicate \in {4, 9}
      BY DEF Threshold, NearDuplicate
    <2> QED
      BY <1>2, <1>4, <2>1, OverlapsMore, FloorAssumption
  <1>6. ASSUME NEW f \in Without(F, K), NEW g \in S, Cardinality(f \cap g) >= Floor
        PROVE  \E h \in Without(F, P), j \in Without(S, R) : Cardinality(h \cap j) >= Floor
    <2>1. PICK x \in F : f = x \ K
      BY DEF Without
    <2>2. f \cap g \subseteq (x \ P) \cap (g \ R)
      BY <2>1
    <2>3. IsFiniteSet((x \ P) \cap (g \ R))
      <3>1. (x \ P) \cap (g \ R) \subseteq UNION F
        OBVIOUS
      <3> QED
        BY <3>1, FS_Subset
    <2>4. Cardinality((x \ P) \cap (g \ R)) >= Floor
      <3>1. /\ Cardinality(f \cap g) <= Cardinality((x \ P) \cap (g \ R))
            /\ Cardinality(f \cap g) \in Nat /\ Cardinality((x \ P) \cap (g \ R)) \in Nat
        BY <2>2, <2>3, Cards
      <3> QED
        BY <1>6, <3>1, FloorAssumption
    <2>5. x \ P \in Without(F, P) /\ g \ R \in Without(S, R)
      BY DEF Without
    <2> QED
      BY <2>4, <2>5
  <1> QED
    BY <1>1, <1>5, <1>6 DEF Matches, SharesEnough

LEMMA WithoutTwice ==
  ASSUME NEW F, NEW G, NEW H
  PROVE  Without(Without(F, G), H) = Without(F, G \cup H)
  <1>1. \A f : (f \ G) \ H = f \ (G \cup H)
    OBVIOUS
  <1>2. ASSUME NEW x \in Without(Without(F, G), H) PROVE x \in Without(F, G \cup H)
    <2>1. PICK f \in F : x = (f \ G) \ H
      BY DEF Without
    <2> QED
      BY <1>1, <2>1 DEF Without
  <1>3. ASSUME NEW x \in Without(F, G \cup H) PROVE x \in Without(Without(F, G), H)
    <2>1. PICK f \in F : x = f \ (G \cup H)
      BY DEF Without
    <2>2. f \ G \in Without(F, G) /\ x = (f \ G) \ H
      BY <1>1, <2>1 DEF Without
    <2> QED
      BY <2>2 DEF Without
  <1> QED
    BY <1>2, <1>3

LEMMA WithoutNone ==
  ASSUME NEW F
  PROVE  Without(F, {}) = F
  BY DEF Without

-----------------------------------------------------------------------------
(***************************************************************************)
(* What is finite.                                                         *)
(***************************************************************************)
LEMMA TextFinite ==
  ASSUME NEW fields \in Text
  PROVE  IsFiniteSet(UNION fields)
  <1>1. IsFiniteSet(fields) /\ \A f \in fields : IsFiniteSet(f)
    BY CoordinationAssumption DEF Text
  <1> QED
    BY <1>1, FS_UNION

LEMMA EvidenceText ==
  ASSUME NEW fields \in Contents
  PROVE  Evidence(fields) \in Text
  <1>1. Evidence(fields) \subseteq fields
    BY DEF Evidence
  <1>2. IsFiniteSet(Evidence(fields))
    BY <1>1, CoordinationAssumption, FS_Subset
  <1> QED
    BY <1>1, <1>2 DEF Text

LEMMA SendersFinite ==
  ASSUME NEW texts, IsFiniteSet(texts), NEW v
  PROVE  IsFiniteSet(Senders(texts, v))
  <1> DEFINE carry == {x \in texts : v \in UNION x.fields}
             f == [s \in carry |-> s.agent]
  <1>1. IsFiniteSet(carry)
    BY FS_Subset
  <1>2. f \in Surjection(carry, Senders(texts, v))
    BY DEF Surjection, Senders
  <1> HIDE DEF f
  <1> QED
    BY <1>1, <1>2, FS_Surjection

LEMMA SendersMore ==
  ASSUME NEW few, NEW many, IsFiniteSet(many), NEW v, Senders(few, v) \subseteq Senders(many, v)
  PROVE  Cardinality(Senders(few, v)) >= CommonFloor => Cardinality(Senders(many, v)) >= CommonFloor
  <1>1. IsFiniteSet(Senders(many, v))
    BY SendersFinite
  <1>2. /\ Cardinality(Senders(few, v)) <= Cardinality(Senders(many, v))
        /\ Cardinality(Senders(few, v)) \in Nat /\ Cardinality(Senders(many, v)) \in Nat
    BY <1>1, Cards
  <1>3. CommonFloor \in Int
    BY CoordinationAssumption DEF CommonFloor
  <1> QED
    BY <1>2, <1>3

LEMMA WindowsAreNumbers ==
  ASSUME NEW t \in Nat
  PROVE  FanInAt(t) \in Nat /\ EchoAt(t) \in Nat /\ Recent(EchoAt(t)) \subseteq Nat
  <1>1. FanInWindow \in Nat \ {0} /\ EchoWindow \in Nat \ {0}
    BY CoordinationAssumption
  <1>2. FanInAt(t) \in Nat /\ EchoAt(t) \in Nat
    BY <1>1 DEF FanInAt, EchoAt
  <1> QED
    BY <1>2 DEF Recent

LEMMA AgentsSeenCount ==
  ASSUME IsFiniteSet(fanin), NEW w
  PROVE  Clamped(Cardinality(AgentsSeen(w))) \in Nat
  <1> DEFINE recent == {x \in fanin : x[2] \in Recent(w)}
             f == [e \in recent |-> e[1]]
  <1>1. IsFiniteSet(recent)
    BY FS_Subset
  <1>2. f \in Surjection(recent, AgentsSeen(w))
    BY DEF Surjection, AgentsSeen
  <1> HIDE DEF f
  <1>3. Cardinality(AgentsSeen(w)) \in Nat
    BY <1>1, <1>2, FS_Surjection, FS_CardinalityType
  <1> QED
    BY <1>3, CoordinationAssumption DEF Clamped

-----------------------------------------------------------------------------
(***************************************************************************)
(* What stays true of an observation while the history grows.              *)
(***************************************************************************)
SameText(c) ==
    /\ obs'[c].agent = obs[c].agent /\ obs'[c].fields = obs[c].fields
    /\ obs'[c].now = obs[c].now /\ obs'[c].own = obs[c].own

LEMMA RepeatsStays ==
  ASSUME NEW c, SameText(c), obs'[c].peer = obs[c].peer, sent \subseteq sent', IsFiniteSet(sent'),
         Repeats(c)
  PROVE  Repeats(c)'
  <1>1. Sent(c) \subseteq Sent(c)' /\ IsFiniteSet(Sent(c)')
    <2>1. Sent(c)' \subseteq sent'
      BY DEF Sent
    <2> QED
      BY <2>1, FS_Subset DEF Sent, SameText
  <1>2. PICK s \in Sent(c), ambient \in SUBSET UNION obs[c].fields :
           /\ s.agent = obs[c].peer
           /\ \A v \in ambient : Cardinality(Senders(Sent(c), v)) >= CommonFloor
           /\ Matches(Without(obs[c].fields, obs[c].own \cup ambient), Without(s.fields, ambient))
    BY DEF Repeats
  <1>3. ASSUME NEW v \in ambient PROVE Cardinality(Senders(Sent(c)', v)) >= CommonFloor
    <2>1. Senders(Sent(c), v) \subseteq Senders(Sent(c)', v)
      BY <1>1 DEF Senders
    <2> QED
      BY <1>1, <1>2, <2>1, SendersMore
  <1> QED
    BY <1>1, <1>2, <1>3 DEF Repeats, SameText

Others(c) == {x \in sent : x.agent # obs[c].agent}

LEMMA MissedStays ==
  ASSUME NEW c, SameText(c), obs[c].fields \in Text, obs'[c].stored \subseteq obs[c].stored,
         obs[c].stored \subseteq Sketch, sent \subseteq sent', IsFiniteSet(sent'), Missed(c)'
  PROVE  Missed(c)
  <1>1. PICK s \in obs'[c].stored :
           s.at <= obs'[c].now /\ Matches(Without(obs'[c].fields, Known(c, s)'), s.fields)
    BY DEF Missed
  <1> DEFINE K == Known(c, s)'
             P == Known(c, s)
  <1>2. P \subseteq K
    <2>1. IsFiniteSet(Others(c)')
      <3>1. Others(c)' \subseteq sent'
        BY DEF Others
      <3> QED
        BY <3>1, FS_Subset
    <2>2. ASSUME NEW v PROVE Senders(Others(c), v) \subseteq Senders(Others(c)', v)
      BY DEF Senders, Others, SameText
    <2>3. ASSUME NEW v, Cardinality(Senders(Others(c), v)) >= CommonFloor
          PROVE  Cardinality(Senders(Others(c)', v)) >= CommonFloor
      BY <2>1, <2>2, <2>3, SendersMore
    <2> QED
      BY <2>3 DEF Known, Others, SameText
  <1>3. K \subseteq UNION s.fields
    BY DEF Known
  <1>4. s.fields \in Text
    BY DEF Sketch
  <1>5. Matches(Without(obs[c].fields, K), s.fields)
    BY <1>1 DEF SameText
  <1> HIDE DEF K, P
  <1>6. IsFiniteSet(UNION obs[c].fields) /\ IsFiniteSet(UNION s.fields)
    BY <1>4, TextFinite
  <1>7. Matches(Without(obs[c].fields, P), Without(s.fields, {}))
    BY <1>2, <1>3, <1>5, <1>6, MatchesMore
  <1>8. Matches(Without(obs[c].fields, P), s.fields)
    BY <1>7, WithoutNone
  <1> QED
    BY <1>1, <1>8 DEF Missed, SameText, P

-----------------------------------------------------------------------------
(***************************************************************************)
(* The match.                                                              *)
(***************************************************************************)
\* The call of a sketch, as the history has it
Origin(s) == [agent |-> s.agent, at |-> s.at, fields |-> s.fields]

LEMMA SeenIsSent ==
  ASSUME EchoInv, NEW c, obs[c].peers \subseteq {e \in Agents \X Recent(EchoAt(obs[c].now)) : e[1] # obs[c].agent},
         NEW s \in Seen(c)
  PROVE  Origin(s) \in Sent(c) /\ Origin(s) \in Others(c)
  <1>1. /\ Origin(s) \in sent /\ s.window = EchoAt(s.at)
        /\ <<s.agent, s.window>> \in obs[c].peers /\ s.at <= obs[c].now
    BY DEF Seen, EchoInv, Origin
  <1>2. s.agent # obs[c].agent /\ s.window \in Recent(EchoAt(obs[c].now))
    BY <1>1
  <1> QED
    BY <1>1, <1>2 DEF Sent, Others, Origin

LEMMA SendersSeen ==
  ASSUME EchoInv, NEW c, obs[c].peers \subseteq {e \in Agents \X Recent(EchoAt(obs[c].now)) : e[1] # obs[c].agent},
         NEW v, Cardinality(Senders(Seen(c), v)) >= CommonFloor
  PROVE  /\ Cardinality(Senders(Sent(c), v)) >= CommonFloor
         /\ Cardinality(Senders(Others(c), v)) >= CommonFloor
  <1>1. ASSUME NEW s \in Seen(c), v \in UNION s.fields
        PROVE  s.agent \in Senders(Sent(c), v) /\ s.agent \in Senders(Others(c), v)
    <2>1. Origin(s) \in Sent(c) /\ Origin(s) \in Others(c)
      BY SeenIsSent
    <2>2. Origin(s).agent = s.agent /\ Origin(s).fields = s.fields
      BY DEF Origin
    <2> QED
      BY <1>1, <2>1, <2>2 DEF Senders
  <1>2. Senders(Seen(c), v) \subseteq Senders(Sent(c), v) /\ Senders(Seen(c), v) \subseteq Senders(Others(c), v)
    BY <1>1 DEF Senders
  <1>3. IsFiniteSet(Sent(c)) /\ IsFiniteSet(Others(c))
    <2>1. Sent(c) \subseteq sent /\ Others(c) \subseteq sent
      BY DEF Sent, Others
    <2> QED
      BY <2>1, FS_Subset DEF EchoInv
  <1> QED
    BY <1>2, <1>3, SendersMore

\* What the call and a sketch are compared by
LEMMA EchoedDef ==
  ASSUME NEW c, NEW p
  PROVE  p \in Echoed(c, Seen(c)) <=>
           \E x \in Seen(c) :
              /\ p = x.agent
              /\ Matches(Without(obs[c].fields, obs[c].own \cup Common(c, Seen(c))),
                         Without(x.fields, Common(c, Seen(c))))
  BY WithoutTwice DEF Echoed, Probe

LEMMA FoundRepeats ==
  ASSUME EchoInv, NEW c, obs[c].peers \subseteq {e \in Agents \X Recent(EchoAt(obs[c].now)) : e[1] # obs[c].agent},
         NEW p \in Echoed(c, Seen(c))
  PROVE  \E s \in Sent(c), ambient \in SUBSET UNION obs[c].fields :
            /\ s.agent = p
            /\ \A v \in ambient : Cardinality(Senders(Sent(c), v)) >= CommonFloor
            /\ Matches(Without(obs[c].fields, obs[c].own \cup ambient), Without(s.fields, ambient))
  <1> DEFINE common == Common(c, Seen(c))
  <1>1. PICK x \in Seen(c) :
           /\ p = x.agent
           /\ Matches(Without(obs[c].fields, obs[c].own \cup common), Without(x.fields, common))
    BY EchoedDef
  <1>2. Origin(x) \in Sent(c) /\ Origin(x).agent = x.agent /\ Origin(x).fields = x.fields
    BY SeenIsSent DEF Origin
  <1>3. common \in SUBSET UNION obs[c].fields
    <2>1. common \subseteq UNION Probe(c)
      BY DEF Common
    <2>2. UNION Probe(c) = (UNION obs[c].fields) \ obs[c].own
      BY UnionWithout DEF Probe
    <2> QED
      BY <2>1, <2>2
  <1>4. \A v \in common : Cardinality(Senders(Sent(c), v)) >= CommonFloor
    BY SendersSeen DEF Common
  <1> HIDE DEF common
  <1> QED
    BY <1>1, <1>2, <1>3, <1>4

LEMMA NotFoundMissesNone ==
  ASSUME EchoInv, NEW c, obs[c].peers \subseteq {e \in Agents \X Recent(EchoAt(obs[c].now)) : e[1] # obs[c].agent},
         obs[c].fields \in Text, obs[c].stored \subseteq Sketch,
         \A s \in obs[c].stored : s \in echo /\ <<s.agent, s.window>> \in obs[c].peers,
         Echoed(c, Seen(c)) = {}
  PROVE  ~Missed(c)
  <1> SUFFICES ASSUME NEW s \in obs[c].stored, s.at <= obs[c].now,
                      Matches(Without(obs[c].fields, Known(c, s)), s.fields)
               PROVE  FALSE
    BY DEF Missed
  <1> DEFINE common == Common(c, Seen(c))
             K == Known(c, s)
             P == obs[c].own \cup common
  <1>1. s \in Seen(c)
    BY DEF Seen
  <1>2. K \subseteq UNION s.fields
    BY DEF Known
  <1>3. (UNION s.fields) \cap P \subseteq K
    BY SendersSeen DEF Known, Others, Common
  <1>4. IsFiniteSet(UNION obs[c].fields) /\ IsFiniteSet(UNION s.fields)
    BY TextFinite DEF Sketch
  <1>5. common \subseteq P
    OBVIOUS
  <1>6. Matches(Without(obs[c].fields, P), Without(s.fields, common))
    <2> HIDE DEF K, P, common
    <2>1. Matches(Without(obs[c].fields, K), s.fields)
      BY DEF K
    <2> QED
      BY <1>2, <1>3, <1>4, <1>5, <2>1, MatchesMore
  <1>7. s.agent \in Echoed(c, Seen(c))
    BY <1>1, <1>6, EchoedDef
  <1> QED
    BY <1>7

-----------------------------------------------------------------------------
(***************************************************************************)
(* The invariant.                                                          *)
(***************************************************************************)
LEMMA VerdictIs ==
  ASSUME NEW r \in Observation, NEW conclusive \in BOOLEAN
  PROVE  /\ Verdict(r, conclusive) \in Status
         /\ Verdict(r, conclusive) = "confirmed" => r.peer # "none" /\ r.count >= MinAgents
         /\ Verdict(r, conclusive) \in {"suspected", "degraded"} => r.peer = "none"
  <1>1. r.count \in Nat /\ MinAgents \in Nat
    BY CoordinationAssumption DEF Observation
  <1> QED
    BY <1>1 DEF Verdict, Status

\* What an observation whose own text and peer do not change keeps, as long as
\* what it counts on is only taken from it when it leaves the store
Keeps(c) ==
    /\ SameText(c) /\ obs'[c].peer = obs[c].peer /\ obs'[c].stored \subseteq obs[c].stored
    /\ sent \subseteq sent' /\ IsFiniteSet(sent')

LEMMA KeepsFindings ==
  ASSUME DetectorTypeOK, NEW c \in Observations, Keeps(c), ObservationOk(c)
  PROVE  /\ obs'[c].peer # "none" => Repeats(c)'
         /\ obs[c].phase # "matching" /\ obs'[c].peer = "none" => ~Missed(c)'
  <1>1. obs[c].fields \in Text /\ obs[c].stored \subseteq Sketch
    BY DEF DetectorTypeOK, Observation
  <1> QED
    BY <1>1, RepeatsStays, MissedStays DEF Keeps, ObservationOk

\* An observation that stays where it is
LEMMA StaysOk ==
  ASSUME DetectorTypeOK, NEW c \in Observations, Keeps(c), ObservationOk(c),
         obs'[c].phase = obs[c].phase, obs'[c].peers = obs[c].peers,
         obs'[c].count = obs[c].count, obs'[c].status = obs[c].status,
         \A s \in obs'[c].stored : s \in echo => s \in echo'
  PROVE  ObservationOk(c)'
  <1>1. /\ obs'[c].peer # "none" => Repeats(c)'
        /\ obs[c].phase # "matching" /\ obs'[c].peer = "none" => ~Missed(c)'
    BY KeepsFindings
  <1>2. obs[c].phase = "matching" =>
          /\ obs'[c].peers \subseteq {e \in Agents \X Recent(EchoAt(obs'[c].now)) : e[1] # obs'[c].agent}
          /\ \A s \in obs'[c].stored : s \in echo' /\ <<s.agent, s.window>> \in obs'[c].peers
    BY DEF ObservationOk, Keeps, SameText
  <1>3. obs[c].phase \in Asked => obs'[c].stored = {}
    BY DEF ObservationOk, Keeps
  <1> QED
    BY <1>1, <1>2, <1>3 DEF ObservationOk, Keeps, SameText

\* One that goes on past its match, with a verdict or without
LEMMA GoesOnOk ==
  ASSUME DetectorTypeOK, NEW c \in Observations, Keeps(c), ObservationOk(c),
         obs[c].phase \notin Asked \cup {"matching", "done"},
         obs'[c].phase \notin Asked \cup {"matching"}, obs'[c].count = obs[c].count,
         \/ obs'[c].status = "none"
         \/ obs'[c].phase = "done" /\ \E b \in BOOLEAN : obs'[c].status = Verdict(obs[c], b)
  PROVE  ObservationOk(c)'
  <1>1. /\ obs'[c].peer # "none" => Repeats(c)'
        /\ obs[c].phase # "matching" /\ obs'[c].peer = "none" => ~Missed(c)'
    BY KeepsFindings
  <1>2. /\ obs'[c].status = "confirmed" => obs'[c].peer # "none" /\ obs'[c].count >= MinAgents
        /\ obs'[c].status \in {"suspected", "degraded"} => obs'[c].phase = "done" /\ obs'[c].peer = "none"
    <2>1. obs[c] \in Observation
      BY DEF DetectorTypeOK
    <2> QED
      BY <2>1, VerdictIs DEF Keeps
  <1>3. obs'[c].phase \notin {"new", "done"} => obs'[c].status = "none"
    BY DEF Asked
  <1>4. obs'[c].agent \in Agents
    BY DEF ObservationOk, Keeps, SameText, Asked
  <1> QED
    BY <1>1, <1>2, <1>3, <1>4 DEF ObservationOk, Keeps, Asked

\* One that has not compared anything yet, or never does
LEMMA AsksOk ==
  ASSUME NEW c \in Observations, obs'[c].stored = {}, obs'[c].peer = "none",
         obs'[c].phase # "matching", obs'[c].phase # "new" => obs'[c].agent \in Agents,
         \/ obs'[c].status = "none"
         \/ obs'[c].phase = "done" /\ obs'[c].status = "degraded"
  PROVE  ObservationOk(c)'
  <1>1. ~Missed(c)'
    BY DEF Missed
  <1> QED
    BY <1>1 DEF ObservationOk, Asked

\* The observations an action is not of
LEMMA OthersOk ==
  ASSUME DetectorInv, sent \subseteq sent', IsFiniteSet(sent'), NEW d \in Observations,
         NEW gone, echo \ gone \subseteq echo',
         \/ obs'[d] = obs[d] /\ gone = {}
         \/ obs'[d] = [obs[d] EXCEPT !.stored = @ \ gone]
  PROVE  ObservationOk(d)'
  <1>1. obs[d] \in Observation
    BY DEF DetectorInv, DetectorTypeOK
  <1>2. /\ obs'[d].phase = obs[d].phase /\ obs'[d].peers = obs[d].peers
        /\ obs'[d].count = obs[d].count /\ obs'[d].status = obs[d].status
        /\ obs'[d].peer = obs[d].peer /\ SameText(d)
        /\ obs'[d].stored = obs[d].stored \ gone
    BY <1>1 DEF Observation, SameText
  <1>3. Keeps(d) /\ \A s \in obs'[d].stored : s \in echo => s \in echo'
    BY <1>2 DEF Keeps
  <1> QED
    BY <1>2, <1>3, StaysOk DEF DetectorInv

LEMMA SetType ==
  ASSUME DetectorTypeOK, NEW c \in Observations, NEW r \in Observation, Set(c, r)
  PROVE  /\ obs' \in [Observations -> Observation] /\ obs'[c] = r
         /\ \A d \in Observations \ {c} : obs'[d] = obs[d]
  BY DEF Set, DetectorTypeOK

\* The same of the observations when some sketches go
LEMMA ForgetType ==
  ASSUME DetectorTypeOK, NEW c \in Observations, NEW gone, NEW r \in Observation,
         Forget(gone, [c |-> c, now |-> r])
  PROVE  /\ obs' \in [Observations -> Observation]
         /\ obs'[c] = [r EXCEPT !.stored = @ \ gone]
         /\ \A d \in Observations \ {c} : obs'[d] = [obs[d] EXCEPT !.stored = @ \ gone]
  <1>1. obs' = [d \in Observations |-> IF d = c THEN [r EXCEPT !.stored = @ \ gone]
                                       ELSE [obs[d] EXCEPT !.stored = @ \ gone]]
    BY DEF Forget
  <1>2. \A q \in Observation : [q EXCEPT !.stored = @ \ gone] \in Observation
    BY DEF Observation
  <1> QED
    BY <1>1, <1>2 DEF DetectorTypeOK

LEMMA NewObservationType ==
  /\ NewObservation \in Observation
  /\ NewObservation.phase = "new" /\ NewObservation.stored = {} /\ NewObservation.peer = "none"
  /\ NewObservation.status = "none"
  <1>1. {} \in Text
    BY FS_EmptySet DEF Text
  <1> QED
    BY <1>1 DEF NewObservation, Observation, Phase, Status

LEMMA InitDetectorInv == DetectorInit => DetectorInv
  <1> SUFFICES ASSUME DetectorInit PROVE DetectorInv
    OBVIOUS
  <1>1. DetectorTypeOK
    BY NewObservationType, CoordinationAssumption DEF DetectorInit, DetectorTypeOK
  <1>2. EchoInv
    BY FS_EmptySet DEF DetectorInit, EchoInv
  <1>3. ASSUME NEW c \in Observations PROVE ObservationOk(c)
    <2>1. obs[c] = NewObservation /\ obs[c].phase = "new"
      BY NewObservationType DEF DetectorInit
    <2>2. ~Missed(c)
      BY <2>1, NewObservationType DEF Missed
    <2> QED
      BY <2>1, <2>2, NewObservationType DEF ObservationOk, Asked
  <1> QED
    BY <1>1, <1>2, <1>3 DEF DetectorInv

\* A step of one observation that takes nothing from the store
LEMMA OneStep ==
  ASSUME DetectorInv, DetectorTypeOK', EchoInv', sent \subseteq sent', echo \subseteq echo',
         NEW c \in Observations, \A d \in Observations \ {c} : obs'[d] = obs[d],
         ObservationOk(c)'
  PROVE  DetectorInv'
  <1>1. ASSUME NEW d \in Observations \ {c} PROVE ObservationOk(d)'
    <2>1. IsFiniteSet(sent')
      BY DEF EchoInv
    <2>2. echo \ {} \subseteq echo'
      OBVIOUS
    <2> QED
      BY <2>1, <2>2, OthersOk
  <1> QED
    BY <1>1 DEF DetectorInv

LEMMA ObserveOk ==
  ASSUME DetectorInv, NEW c \in Observations, NEW a \in Agents, NEW fields \in Contents,
         Observe(c, a, fields)
  PROVE  DetectorInv'
  <1> DEFINE r == [NewObservation EXCEPT !.phase = "counting", !.agent = a,
                                         !.fields = Evidence(fields), !.now = time]
  <1>1. r \in Observation
    <2>1. time \in Nat
      BY CoordinationAssumption DEF DetectorInv, DetectorTypeOK
    <2> QED
      BY <2>1, NewObservationType, EvidenceText DEF Observation, Phase
  <1>2. /\ r.phase = "counting" /\ r.stored = {} /\ r.peer = "none" /\ r.status = "none"
        /\ r.agent \in Agents
    BY NewObservationType DEF Observation
  <1>3. Set(c, r) /\ OnlyCall
    BY DEF Observe
  <1> HIDE DEF r
  <1>4. /\ obs' \in [Observations -> Observation] /\ obs'[c] = r
        /\ \A d \in Observations \ {c} : obs'[d] = obs[d]
    BY <1>1, <1>3, SetType DEF DetectorInv
  <1>5. DetectorTypeOK'
    BY <1>3, <1>4 DEF DetectorInv, DetectorTypeOK, OnlyCall
  <1>6. EchoInv' /\ sent \subseteq sent' /\ echo \subseteq echo'
    BY <1>3 DEF DetectorInv, EchoInv, OnlyCall
  <1>7. ObservationOk(c)'
    BY <1>2, <1>4, AsksOk
  <1> QED
    BY <1>4, <1>5, <1>6, <1>7, OneStep

LEMMA CountAgentOk ==
  ASSUME DetectorInv, NEW c \in Observations, CountAgent(c)
  PROVE  DetectorInv'
  <1> DEFINE r == [obs[c] EXCEPT !.phase = "reading"]
  <1>1. obs[c] \in Observation /\ ObservationOk(c) /\ obs[c].phase = "counting"
    BY DEF DetectorInv, DetectorTypeOK, CountAgent
  <1>2. r \in Observation
    BY <1>1 DEF Observation, Phase
  <1>3. /\ r.phase = "reading" /\ r.stored = {} /\ r.peer = "none" /\ r.status = "none"
        /\ r.agent \in Agents
    BY <1>1 DEF Observation, ObservationOk, Asked
  <1>4. Set(c, r) /\ UNCHANGED <<time, index, echo, sent, evicted, faults>>
    BY DEF CountAgent
  <1> HIDE DEF r
  <1>5. /\ obs' \in [Observations -> Observation] /\ obs'[c] = r
        /\ \A d \in Observations \ {c} : obs'[d] = obs[d]
    BY <1>2, <1>4, SetType DEF DetectorInv
  <1>6. fanin' \subseteq Agents \X Nat /\ IsFiniteSet(fanin')
    <2> DEFINE w == FanInAt(obs[c].now)
    <2>1. fanin' = fanin \/ fanin' = fanin \cup {<<obs[c].agent, w>>}
      BY DEF CountAgent
    <2>2. w \in Nat /\ obs[c].agent \in Agents
      BY <1>1, WindowsAreNumbers DEF Observation, ObservationOk
    <2>3. fanin \subseteq Agents \X Nat /\ IsFiniteSet(fanin)
      BY DEF DetectorInv, DetectorTypeOK, EchoInv
    <2>4. IsFiniteSet(fanin \cup {<<obs[c].agent, w>>})
      BY <2>3, FS_AddElement
    <2> HIDE DEF w
    <2>5. <<obs[c].agent, w>> \in Agents \X Nat
      BY <2>2
    <2> QED
      BY <2>1, <2>3, <2>4, <2>5
  <1>7. DetectorTypeOK'
    BY <1>4, <1>5, <1>6 DEF DetectorInv, DetectorTypeOK
  <1>8. EchoInv' /\ sent \subseteq sent' /\ echo \subseteq echo'
    BY <1>4, <1>6 DEF DetectorInv, EchoInv
  <1>9. ObservationOk(c)'
    BY <1>3, <1>5, AsksOk
  <1> QED
    BY <1>5, <1>7, <1>8, <1>9, OneStep

\* A step that only moves an observation on
LEMMA OnlyCallStep ==
  ASSUME DetectorInv, NEW c \in Observations, NEW r \in Observation, Set(c, r), OnlyCall,
         (obs'[c] = r) => ObservationOk(c)'
  PROVE  DetectorInv'
  <1>1. /\ obs' \in [Observations -> Observation] /\ obs'[c] = r
        /\ \A d \in Observations \ {c} : obs'[d] = obs[d]
    BY SetType DEF DetectorInv
  <1>2. DetectorTypeOK'
    BY <1>1 DEF DetectorInv, DetectorTypeOK, OnlyCall
  <1>3. EchoInv' /\ sent \subseteq sent' /\ echo \subseteq echo'
    BY DEF DetectorInv, EchoInv, OnlyCall
  <1> QED
    BY <1>1, <1>2, <1>3, OneStep

LEMMA ReadAgentsOk ==
  ASSUME DetectorInv, NEW c \in Observations, ReadAgents(c)
  PROVE  DetectorInv'
  <1> DEFINE n == Clamped(Cardinality(AgentsSeen(FanInAt(obs[c].now))))
             sees == n >= MinAgents /\ obs[c].fields # {}
             to == IF sees THEN "indexing" ELSE "registering"
             r == [obs[c] EXCEPT !.count = n, !.phase = to]
  <1>1. obs[c] \in Observation /\ ObservationOk(c) /\ obs[c].phase = "reading"
    BY DEF DetectorInv, DetectorTypeOK, ReadAgents
  <1>2. n \in Nat
    BY AgentsSeenCount DEF DetectorInv, EchoInv
  <1>3. to \in {"indexing", "registering"}
    OBVIOUS
  <1>4. Set(c, r) /\ OnlyCall
    BY DEF ReadAgents
  <1> HIDE DEF n, sees, to
  <1>5. r \in Observation
    BY <1>1, <1>2, <1>3 DEF Observation, Phase
  <1>6. /\ r.phase \in {"indexing", "registering"} /\ r.stored = {} /\ r.peer = "none"
        /\ r.status = "none" /\ r.agent \in Agents
    BY <1>1, <1>3 DEF Observation, ObservationOk, Asked
  <1> HIDE DEF r
  <1>7. (obs'[c] = r) => ObservationOk(c)'
    BY <1>6, AsksOk
  <1> QED
    BY <1>4, <1>5, <1>7, OnlyCallStep

LEMMA ReadIndexOk ==
  ASSUME DetectorInv, NEW c \in Observations, ReadIndex(c)
  PROVE  DetectorInv'
  <1> DEFINE w == EchoAt(obs[c].now)
             a == obs[c].agent
             peers == {e \in index : e[2] \in Recent(w) /\ e[1] # a}
             own == Shingles(Of(a, w))
             stored == {s \in echo : s.agent # a /\ <<s.agent, s.window>> \in index
                                       /\ s.window \in Recent(w)}
             blind == evicted \cap Recent(w) # {}
             r == [obs[c] EXCEPT !.phase = "matching", !.peers = peers, !.own = own,
                                 !.stored = stored, !.blind = blind]
  <1>1. obs[c] \in Observation /\ ObservationOk(c) /\ obs[c].phase = "indexing"
    BY DEF DetectorInv, DetectorTypeOK, ReadIndex
  <1>2. peers \subseteq Agents \X Nat /\ stored \subseteq Sketch /\ blind \in BOOLEAN
    BY DEF DetectorInv, DetectorTypeOK
  <1>3. own \subseteq Shingle
    <2>1. ASSUME NEW s \in echo PROVE UNION s.fields \subseteq Shingle
      <3>1. s.fields \subseteq UNION Contents
        BY DEF DetectorInv, DetectorTypeOK, Sketch, Text
      <3> QED
        BY <3>1 DEF Shingle
    <2> QED
      BY <2>1 DEF Shingles, Of
  <1>4. Set(c, r) /\ OnlyCall
    BY DEF ReadIndex
  <1>5. peers \subseteq {e \in Agents \X Recent(w) : e[1] # a}
    BY DEF DetectorInv, DetectorTypeOK
  <1>6. \A s \in stored : s \in echo /\ <<s.agent, s.window>> \in peers
    OBVIOUS
  <1> HIDE DEF peers, own, stored, blind
  <1>7. r \in Observation
    BY <1>1, <1>2, <1>3 DEF Observation, Phase
  <1>8. /\ r.phase = "matching" /\ r.stored = stored /\ r.peer = "none" /\ r.peers = peers
        /\ r.status = "none" /\ r.agent = a /\ a \in Agents /\ r.now = obs[c].now
    BY <1>1 DEF Observation, ObservationOk, Asked
  <1> HIDE DEF r
  <1>9. (obs'[c] = r) => ObservationOk(c)'
    <2> SUFFICES ASSUME obs'[c] = r PROVE ObservationOk(c)'
      OBVIOUS
    <2>1. echo' = echo
      BY <1>4 DEF OnlyCall
    <2> QED
      BY <1>5, <1>6, <1>8, <2>1 DEF ObservationOk, Asked
  <1> QED
    BY <1>4, <1>7, <1>9, OnlyCallStep

LEMMA MatchOk ==
  ASSUME DetectorInv, NEW c \in Observations, Match(c)
  PROVE  DetectorInv'
  <1>1. obs[c] \in Observation /\ ObservationOk(c) /\ obs[c].phase = "matching" /\ OnlyCall
    BY DEF DetectorInv, DetectorTypeOK, Match
  <1>2. /\ obs[c].peers \subseteq {e \in Agents \X Recent(EchoAt(obs[c].now)) : e[1] # obs[c].agent}
        /\ \A s \in obs[c].stored : s \in echo /\ <<s.agent, s.window>> \in obs[c].peers
        /\ obs[c].peer = "none" /\ obs[c].status = "none" /\ obs[c].agent \in Agents
    BY <1>1 DEF ObservationOk
  <1>3. CASE Echoed(c, Seen(c)) = {} /\ Set(c, [obs[c] EXCEPT !.phase = "registering"])
    <2> DEFINE r == [obs[c] EXCEPT !.phase = "registering"]
    <2>1. r \in Observation
      BY <1>1 DEF Observation, Phase
    <2>2. /\ r.phase = "registering" /\ r.peer = "none" /\ r.status = "none"
          /\ r.agent = obs[c].agent /\ r.fields = obs[c].fields /\ r.now = obs[c].now
          /\ r.own = obs[c].own /\ r.stored = obs[c].stored
      BY <1>1, <1>2 DEF Observation
    <2>3. ~Missed(c)
      <3>1. obs[c].fields \in Text /\ obs[c].stored \subseteq Sketch
        BY <1>1 DEF Observation
      <3> QED
        BY <1>2, <1>3, <3>1, NotFoundMissesNone DEF DetectorInv
    <2> HIDE DEF r
    <2>4. (obs'[c] = r) => ObservationOk(c)'
      <3> SUFFICES ASSUME obs'[c] = r PROVE ObservationOk(c)'
        OBVIOUS
      <3>1. SameText(c) /\ obs'[c].stored = obs[c].stored /\ sent' = sent /\ IsFiniteSet(sent')
        BY <1>1, <2>2 DEF SameText, OnlyCall, DetectorInv, EchoInv
      <3>2. obs[c].fields \in Text /\ obs[c].stored \subseteq Sketch
        BY <1>1 DEF Observation
      <3>3. ~Missed(c)'
        BY <2>3, <3>1, <3>2, MissedStays
      <3> QED
        BY <1>2, <2>2, <3>3 DEF ObservationOk, Asked
    <2> QED
      BY <1>1, <1>3, <2>1, <2>4, OnlyCallStep DEF r
  <1>4. ASSUME NEW p \in Echoed(c, Seen(c)),
               Set(c, [obs[c] EXCEPT !.phase = "registering", !.peer = p])
        PROVE  DetectorInv'
    <2> DEFINE r == [obs[c] EXCEPT !.phase = "registering", !.peer = p]
    <2>1. p \in Agents
      <3>1. PICK x \in Seen(c) : p = x.agent
        BY <1>4, EchoedDef
      <3>2. x \in Sketch
        BY DEF Seen, DetectorInv, DetectorTypeOK
      <3> QED
        BY <3>1, <3>2 DEF Sketch
    <2>2. r \in Observation
      BY <1>1, <2>1 DEF Observation, Phase
    <2>3. /\ r.phase = "registering" /\ r.peer = p /\ r.status = "none"
          /\ r.agent = obs[c].agent /\ r.fields = obs[c].fields /\ r.now = obs[c].now
          /\ r.own = obs[c].own
      BY <1>1, <1>2 DEF Observation
    <2>4. p # "none"
      BY <2>1, CoordinationAssumption
    <2>5. \E s \in Sent(c), ambient \in SUBSET UNION obs[c].fields :
            /\ s.agent = p
            /\ \A v \in ambient : Cardinality(Senders(Sent(c), v)) >= CommonFloor
            /\ Matches(Without(obs[c].fields, obs[c].own \cup ambient), Without(s.fields, ambient))
      BY <1>2, <1>4, FoundRepeats DEF DetectorInv
    <2> HIDE DEF r
    <2>6. (obs'[c] = r) => ObservationOk(c)'
      <3> SUFFICES ASSUME obs'[c] = r PROVE ObservationOk(c)'
        OBVIOUS
      <3>1. Sent(c)' = Sent(c)
        BY <1>1, <2>3 DEF Sent, OnlyCall
      <3>2. Repeats(c)'
        BY <2>3, <2>5, <3>1 DEF Repeats
      <3> QED
        BY <1>2, <2>3, <2>4, <3>2 DEF ObservationOk, Asked
    <2> QED
      BY <1>1, <1>4, <2>2, <2>6, OnlyCallStep DEF r
  <1> QED
    BY <1>3, <1>4 DEF Match

Recording == {"registering", "evicting", "deleting", "joining", "storing"}

\* What a step past the match makes of an observation
MovesTo(c, r) ==
  \E phase \in Recording, b \in BOOLEAN, v \in Agents :
     \/ r = [obs[c] EXCEPT !.phase = phase]
     \/ r = [obs[c] EXCEPT !.saturated = b, !.phase = phase]
     \/ r = [obs[c] EXCEPT !.phase = phase, !.victim = v]
     \/ r = Concludes(c, b)

Moved(c, r) ==
  /\ r.phase \notin Asked \cup {"matching"} /\ r.count = obs[c].count
  /\ r.agent = obs[c].agent /\ r.fields = obs[c].fields /\ r.now = obs[c].now
  /\ r.own = obs[c].own /\ r.peer = obs[c].peer /\ r.stored \subseteq obs[c].stored
  /\ \/ r.status = "none"
     \/ r.phase = "done" /\ \E b \in BOOLEAN : r.status = Verdict(obs[c], b)

LEMMA MovesOn ==
  ASSUME DetectorInv, NEW c \in Observations, obs[c].phase \in Recording, NEW r, MovesTo(c, r)
  PROVE  r \in Observation /\ Moved(c, r)
  <1> USE DEF Moved, Asked, Recording
  <1>1. obs[c] \in Observation /\ obs[c].status = "none"
    BY DEF DetectorInv, DetectorTypeOK, ObservationOk
  <1>2. PICK phase \in Recording, b \in BOOLEAN, v \in Agents :
           \/ r = [obs[c] EXCEPT !.phase = phase]
           \/ r = [obs[c] EXCEPT !.saturated = b, !.phase = phase]
           \/ r = [obs[c] EXCEPT !.phase = phase, !.victim = v]
           \/ r = Concludes(c, b)
    BY DEF MovesTo
  <1>3. CASE r = [obs[c] EXCEPT !.phase = phase]
    BY <1>1, <1>3 DEF Observation, Phase
  <1>4. CASE r = [obs[c] EXCEPT !.saturated = b, !.phase = phase]
    BY <1>1, <1>4 DEF Observation, Phase
  <1>5. CASE r = [obs[c] EXCEPT !.phase = phase, !.victim = v]
    BY <1>1, <1>5 DEF Observation, Phase
  <1>6. CASE r = Concludes(c, b)
    <2>1. r = [obs[c] EXCEPT !.phase = "done", !.status = Verdict(obs[c], b)]
      BY <1>6 DEF Concludes
    <2>2. Verdict(obs[c], b) \in Status
      BY <1>1, VerdictIs
    <2> QED
      BY <1>1, <2>1, <2>2 DEF Observation, Phase
  <1> QED
    BY <1>2, <1>3, <1>4, <1>5, <1>6

LEMMA MovedOk ==
  ASSUME DetectorInv, NEW c \in Observations, obs[c].phase \in Recording, Moved(c, obs'[c]),
         sent \subseteq sent', IsFiniteSet(sent')
  PROVE  ObservationOk(c)'
  <1>1. obs[c].phase \notin Asked \cup {"matching", "done"}
    BY DEF Asked, Recording
  <1>2. Keeps(c)
    BY DEF Keeps, Moved, SameText
  <1> QED
    BY <1>1, <1>2, GoesOnOk DEF DetectorInv, Moved

\* A step of recording that moves one observation on and takes nothing from
\* the store
LEMMA RecordingStep ==
  ASSUME DetectorInv, NEW c \in Observations, obs[c].phase \in Recording, NEW r, MovesTo(c, r),
         Set(c, r), UNCHANGED <<time, fanin, echo, sent>>,
         faults' \in 0..MaxFaults, index' \subseteq Agents \X Nat
  PROVE  DetectorInv'
  <1>1. r \in Observation /\ Moved(c, r)
    BY MovesOn
  <1>2. /\ obs' \in [Observations -> Observation] /\ obs'[c] = r
        /\ \A d \in Observations \ {c} : obs'[d] = obs[d]
    BY <1>1, SetType DEF DetectorInv
  <1>3. DetectorTypeOK'
    BY <1>2 DEF DetectorInv, DetectorTypeOK
  <1>4. EchoInv' /\ sent \subseteq sent' /\ echo \subseteq echo' /\ IsFiniteSet(sent')
    BY DEF DetectorInv, EchoInv
  <1>5. ObservationOk(c)'
    BY <1>1, <1>2, <1>4, MovedOk
  <1> QED
    BY <1>2, <1>3, <1>4, <1>5, OneStep

LEMMA RegisterOk ==
  ASSUME DetectorInv, NEW c \in Observations, Register(c)
  PROVE  DetectorInv'
  <1> DEFINE full == Cardinality({e \in index : e[2] = Window(c)}) >= AgentCap
             known == <<obs[c].agent, Window(c)>> \in index
             to == IF full /\ ~known THEN "evicting" ELSE "joining"
  <1>1. obs[c].phase = "registering" /\ OnlyCall /\ obs[c].agent \in Agents
    BY DEF Register, DetectorInv, ObservationOk
  <1>2. full \in BOOLEAN /\ to \in Recording
    BY DEF Recording
  <1>3. \/ Set(c, Concludes(c, TRUE))
        \/ Set(c, Concludes(c, FALSE))
        \/ Set(c, [obs[c] EXCEPT !.saturated = full, !.phase = to])
    BY DEF Register
  <1> HIDE DEF full, known, to
  <1>4. PICK r : Set(c, r) /\ MovesTo(c, r)
    BY <1>1, <1>2, <1>3 DEF MovesTo
  <1>5. /\ obs[c].phase \in Recording /\ UNCHANGED <<time, fanin, echo, sent>>
        /\ faults' \in 0..MaxFaults /\ index' \subseteq Agents \X Nat
    BY <1>1 DEF OnlyCall, Recording, DetectorInv, DetectorTypeOK
  <1> QED
    BY <1>4, <1>5, RecordingStep

LEMMA EvictOk ==
  ASSUME DetectorInv, NEW c \in Observations, Evict(c)
  PROVE  DetectorInv'
  <1>1. /\ obs[c].phase \in Recording /\ UNCHANGED <<time, fanin, echo, sent>>
        /\ faults' \in 0..MaxFaults /\ index \subseteq Agents \X Nat /\ obs[c].agent \in Agents
    BY DEF Evict, Recording, DetectorInv, DetectorTypeOK, ObservationOk
  <1>2. CASE Set(c, [obs[c] EXCEPT !.phase = "joining"]) /\ UNCHANGED <<index, evicted>>
    <2>1. MovesTo(c, [obs[c] EXCEPT !.phase = "joining"])
      BY <1>1 DEF MovesTo, Recording
    <2> QED
      BY <1>1, <1>2, <2>1, RecordingStep
  <1>3. ASSUME NEW e \in index, index' = index \ {e},
               Set(c, [obs[c] EXCEPT !.phase = "deleting", !.victim = e[1]])
        PROVE  DetectorInv'
    <2>1. MovesTo(c, [obs[c] EXCEPT !.phase = "deleting", !.victim = e[1]])
      BY <1>1 DEF MovesTo, Recording
    <2>2. index' \subseteq Agents \X Nat
      BY <1>1, <1>3
    <2> QED
      BY <1>1, <1>3, <2>1, <2>2, RecordingStep
  <1> QED
    BY <1>2, <1>3 DEF Evict

LEMMA FailsOk ==
  ASSUME DetectorInv, NEW c \in Observations, Fails(c)
  PROVE  DetectorInv'
  <1>1. /\ UNCHANGED <<time, fanin, index, echo, sent, evicted>>
        /\ faults' \in 0..MaxFaults /\ index' \subseteq Agents \X Nat
        /\ obs[c] \in Observation /\ ObservationOk(c)
    BY CoordinationAssumption DEF Fails, DetectorInv, DetectorTypeOK
  <1>2. ASSUME NEW r \in Observation, Set(c, r), r.stored = {}, r.peer = "none",
               r.phase # "matching", r.agent \in Agents,
               r.status = "none" \/ (r.phase = "done" /\ r.status = "degraded")
        PROVE  DetectorInv'
    <2>1. /\ obs' \in [Observations -> Observation] /\ obs'[c] = r
          /\ \A d \in Observations \ {c} : obs'[d] = obs[d]
      BY <1>2, SetType DEF DetectorInv
    <2>2. DetectorTypeOK' /\ EchoInv' /\ sent \subseteq sent' /\ echo \subseteq echo'
      BY <1>1, <2>1 DEF DetectorInv, DetectorTypeOK, EchoInv
    <2>3. ObservationOk(c)'
      BY <1>2, <2>1, AsksOk
    <2> QED
      BY <2>1, <2>2, <2>3, OneStep
  <1>3. CASE /\ obs[c].phase \in {"counting", "reading"}
             /\ Set(c, [obs[c] EXCEPT !.phase = "done", !.status = "degraded"])
    <2> DEFINE r == [obs[c] EXCEPT !.phase = "done", !.status = "degraded"]
    <2>1. /\ r \in Observation /\ r.stored = {} /\ r.peer = "none" /\ r.agent \in Agents
          /\ r.phase = "done" /\ r.status = "degraded"
      BY <1>1, <1>3 DEF Observation, ObservationOk, Phase, Status, Asked
    <2>2. Set(c, r)
      BY <1>3
    <2> HIDE DEF r
    <2> QED
      BY <1>2, <2>1, <2>2
  <1>4. CASE /\ obs[c].phase \in {"indexing", "matching"}
             /\ Set(c, [obs[c] EXCEPT !.phase = "registering", !.stored = {}, !.blind = TRUE])
    <2> DEFINE r == [obs[c] EXCEPT !.phase = "registering", !.stored = {}, !.blind = TRUE]
    <2>1. /\ r \in Observation /\ r.stored = {} /\ r.peer = "none" /\ r.agent \in Agents
          /\ r.phase = "registering" /\ r.status = "none"
      BY <1>1, <1>4 DEF Observation, ObservationOk, Phase, Asked
    <2>2. Set(c, r)
      BY <1>4
    <2> HIDE DEF r
    <2> QED
      BY <1>2, <2>1, <2>2
  <1>5. CASE obs[c].phase \in Recording /\ Set(c, Concludes(c, FALSE))
    <2>1. obs[c].agent \in Agents
      BY <1>1, <1>5 DEF ObservationOk, Recording
    <2>2. MovesTo(c, Concludes(c, FALSE))
      BY <2>1 DEF MovesTo, Recording
    <2> QED
      BY <1>1, <1>5, <2>2, RecordingStep
  <1> QED
    BY <1>3, <1>4, <1>5 DEF Fails, Recording

\* A step of recording that takes some sketches from the store
LEMMA ForgettingStep ==
  ASSUME DetectorInv, NEW c \in Observations, obs[c].phase \in Recording,
         NEW r, MovesTo(c, r), NEW gone, Forget(gone, [c |-> c, now |-> r]),
         echo' = echo \ gone, UNCHANGED <<time, fanin, sent, faults>>,
         index' \subseteq Agents \X Nat
  PROVE  DetectorInv'
  <1>1. r \in Observation /\ Moved(c, r)
    BY MovesOn
  <1>2. /\ obs' \in [Observations -> Observation]
        /\ obs'[c] = [r EXCEPT !.stored = @ \ gone]
        /\ \A d \in Observations \ {c} : obs'[d] = [obs[d] EXCEPT !.stored = @ \ gone]
    BY <1>1, ForgetType DEF DetectorInv
  <1>3. DetectorTypeOK'
    BY <1>2 DEF DetectorInv, DetectorTypeOK
  <1>4. EchoInv' /\ IsFiniteSet(sent') /\ sent \subseteq sent' /\ echo \ gone \subseteq echo'
    BY DEF DetectorInv, EchoInv
  <1>5. Moved(c, obs'[c])
    <2>1. /\ obs'[c].phase = r.phase /\ obs'[c].count = r.count /\ obs'[c].agent = r.agent
          /\ obs'[c].fields = r.fields /\ obs'[c].now = r.now /\ obs'[c].own = r.own
          /\ obs'[c].peer = r.peer /\ obs'[c].status = r.status /\ obs'[c].stored \subseteq r.stored
      BY <1>1, <1>2 DEF Observation
    <2> QED
      BY <1>1, <2>1 DEF Moved
  <1>6. ObservationOk(c)'
    BY <1>4, <1>5, MovedOk
  <1>7. ASSUME NEW d \in Observations \ {c} PROVE ObservationOk(d)'
    BY <1>2, <1>4, OthersOk
  <1> QED
    BY <1>3, <1>4, <1>6, <1>7 DEF DetectorInv

LEMMA DeleteVictimOk ==
  ASSUME DetectorInv, NEW c \in Observations, DeleteVictim(c)
  PROVE  DetectorInv'
  <1> DEFINE gone == {s \in echo : s.agent = obs[c].victim /\ s.window = Window(c)}
             r == [obs[c] EXCEPT !.phase = "joining"]
  <1>1. /\ obs[c].phase \in Recording /\ obs[c].agent \in Agents
        /\ UNCHANGED <<time, fanin, sent, faults>> /\ index' \subseteq Agents \X Nat
        /\ echo' = echo \ gone /\ Forget(gone, [c |-> c, now |-> r])
    BY DEF DeleteVictim, Recording, DetectorInv, DetectorTypeOK, ObservationOk
  <1>2. MovesTo(c, r)
    BY <1>1 DEF MovesTo, Recording
  <1> HIDE DEF gone, r
  <1> QED
    BY <1>1, <1>2, ForgettingStep

LEMMA JoinOk ==
  ASSUME DetectorInv, NEW c \in Observations, Join(c)
  PROVE  DetectorInv'
  <1> DEFINE r == [obs[c] EXCEPT !.phase = "storing"]
  <1>1. /\ obs[c].phase \in Recording /\ obs[c].agent \in Agents /\ obs[c].now \in Nat
        /\ UNCHANGED <<time, fanin, sent, faults>>
    BY DEF Join, Recording, DetectorInv, DetectorTypeOK, Observation, ObservationOk
  <1>2. PICK gone : echo' = echo \ gone /\ Forget(gone, [c |-> c, now |-> r])
    BY DEF Join
  <1>3. index' \subseteq Agents \X Nat
    <2>1. Window(c) \in Nat
      BY <1>1, WindowsAreNumbers DEF Window
    <2>2. index \subseteq Agents \X Nat /\ index' = index \cup {<<obs[c].agent, Window(c)>>}
      BY DEF Join, DetectorInv, DetectorTypeOK
    <2> QED
      BY <1>1, <2>1, <2>2
  <1>4. MovesTo(c, r)
    BY <1>1 DEF MovesTo, Recording
  <1> HIDE DEF r
  <1> QED
    BY <1>1, <1>2, <1>3, <1>4, ForgettingStep

LEMMA StoresOk ==
  ASSUME DetectorInv, NEW c \in Observations, NEW conclusive \in BOOLEAN, Stores(c, conclusive),
         faults' \in 0..MaxFaults
  PROVE  DetectorInv'
  <1> DEFINE sketch == [agent |-> obs[c].agent, window |-> Window(c), at |-> obs[c].now,
                        fields |-> obs[c].fields]
             r == Concludes(c, conclusive)
  <1>1. /\ obs[c].phase \in Recording /\ obs[c].agent \in Agents /\ obs[c].now \in Nat
        /\ obs[c].fields \in Text /\ Set(c, r) /\ UNCHANGED <<time, fanin, index, evicted>>
        /\ echo' = echo \cup {sketch} /\ sent' = sent \cup {Origin(sketch)}
    BY DEF Stores, Recording, DetectorInv, DetectorTypeOK, Observation, ObservationOk, Origin
  <1>2. sketch \in Sketch /\ sketch.window = EchoAt(sketch.at)
    BY <1>1, WindowsAreNumbers DEF Sketch, Window
  <1>3. Origin(sketch) \in [agent : Agents, at : Nat, fields : Text]
    BY <1>1 DEF Origin
  <1>4. MovesTo(c, r)
    BY <1>1 DEF MovesTo, Recording
  <1> HIDE DEF sketch, r
  <1>5. r \in Observation /\ Moved(c, r)
    BY <1>1, <1>4, MovesOn
  <1>6. /\ obs' \in [Observations -> Observation] /\ obs'[c] = r
        /\ \A d \in Observations \ {c} : obs'[d] = obs[d]
    BY <1>1, <1>5, SetType DEF DetectorInv
  <1>7. DetectorTypeOK'
    BY <1>1, <1>2, <1>3, <1>6 DEF DetectorInv, DetectorTypeOK
  <1>8. EchoInv' /\ IsFiniteSet(sent')
    <2>1. IsFiniteSet(sent') /\ IsFiniteSet(fanin')
      BY <1>1, FS_AddElement DEF DetectorInv, EchoInv
    <2>2. ASSUME NEW s \in echo' PROVE Origin(s) \in sent' /\ s.window = EchoAt(s.at)
      BY <1>1, <1>2, <2>2 DEF DetectorInv, EchoInv, Origin
    <2> QED
      BY <2>1, <2>2 DEF EchoInv, Origin
  <1>9. sent \subseteq sent' /\ echo \subseteq echo'
    BY <1>1
  <1>10. ObservationOk(c)'
    BY <1>1, <1>5, <1>6, <1>8, <1>9, MovedOk
  <1> QED
    BY <1>6, <1>7, <1>8, <1>9, <1>10, OneStep

LEMMA ElapseOk ==
  ASSUME DetectorInv, Elapse
  PROVE  DetectorInv'
  <1> DEFINE gone == {s \in echo : s.window + 2 <= EchoAt(time')}
  <1>1. /\ time' = time + 1 /\ time < MaxTime /\ UNCHANGED <<sent, evicted, faults>>
        /\ echo' = echo \ gone /\ index' \subseteq index /\ fanin' \subseteq fanin
        /\ obs' = [d \in Observations |-> [obs[d] EXCEPT !.stored = @ \ gone]]
    BY DEF Elapse
  <1> HIDE DEF gone
  <1>2. obs' \in [Observations -> Observation]
    <2>1. \A q \in Observation : [q EXCEPT !.stored = @ \ gone] \in Observation
      BY DEF Observation
    <2> QED
      BY <1>1, <2>1 DEF DetectorInv, DetectorTypeOK
  <1>3. DetectorTypeOK'
    BY <1>1, <1>2, CoordinationAssumption DEF DetectorInv, DetectorTypeOK
  <1>4. EchoInv' /\ IsFiniteSet(sent') /\ sent \subseteq sent' /\ echo \ gone \subseteq echo'
    <2>1. IsFiniteSet(fanin')
      BY <1>1, FS_Subset DEF DetectorInv, EchoInv
    <2> QED
      BY <1>1, <2>1 DEF DetectorInv, EchoInv
  <1>5. ASSUME NEW d \in Observations PROVE ObservationOk(d)'
    <2>1. obs'[d] = [obs[d] EXCEPT !.stored = @ \ gone]
      BY <1>1
    <2> QED
      BY <1>4, <2>1, OthersOk
  <1> QED
    BY <1>3, <1>4, <1>5 DEF DetectorInv

LEMMA StepDetectorInv == DetectorInv /\ [DetectorNext]_detectorVars => DetectorInv'
  <1> SUFFICES ASSUME DetectorInv, [DetectorNext]_detectorVars PROVE DetectorInv'
    OBVIOUS
  <1>1. ASSUME NEW c \in Observations, Store(c) PROVE DetectorInv'
    <2>1. obs[c].saturated \in BOOLEAN /\ faults' \in 0..MaxFaults
      BY <1>1 DEF Store, DetectorInv, DetectorTypeOK, Observation
    <2>2. PICK b \in BOOLEAN : Stores(c, b)
      BY <1>1, <2>1 DEF Store
    <2> QED
      BY <2>1, <2>2, StoresOk
  <1>2. ASSUME NEW c \in Observations, StoreFails(c) PROVE DetectorInv'
    <2>1. faults' \in 0..MaxFaults
      BY <1>2, CoordinationAssumption DEF StoreFails, DetectorInv, DetectorTypeOK
    <2> QED
      BY <1>2, <2>1, StoresOk DEF StoreFails
  <1>3. CASE UNCHANGED detectorVars
    <2>1. DetectorTypeOK' /\ EchoInv'
      BY <1>3 DEF detectorVars, DetectorInv, DetectorTypeOK, EchoInv
    <2>2. ASSUME NEW d \in Observations PROVE ObservationOk(d)'
      <3>1. echo \ {} \subseteq echo' /\ obs'[d] = obs[d] /\ sent \subseteq sent' /\ IsFiniteSet(sent')
        BY <1>3 DEF detectorVars, DetectorInv, EchoInv
      <3> QED
        BY <3>1, OthersOk
    <2> QED
      BY <2>1, <2>2 DEF DetectorInv
  <1> QED
    BY <1>1, <1>2, <1>3, ObserveOk, CountAgentOk, ReadAgentsOk, ReadIndexOk, MatchOk, RegisterOk,
       EvictOk, DeleteVictimOk, JoinOk, FailsOk, ElapseOk DEF DetectorNext

\* The invariant the two below are parts of.
THEOREM DetectorInvariant == DetectorSpec => []DetectorInv
  BY InitDetectorInv, StepDetectorInv, PTL DEF DetectorSpec

\* A destination is only quarantined on evidence: enough agents wrote to it
\* lately, and the call repeats what another one of them had sent.
THEOREM ConfirmationsAreEchoes == DetectorSpec => []ConfirmedIsEcho
  <1>1. DetectorInv => ConfirmedIsEcho
    BY DEF DetectorInv, ObservationOk, ConfirmedIsEcho
  <1> QED
    BY <1>1, DetectorInvariant, PTL

\* What the store held from when the index was read, and still holds, is
\* found, whatever was evicted, expired, dropped or stored meanwhile.
THEOREM StoredTextIsFound == DetectorSpec => []StoredIsFound
  <1>1. DetectorInv => StoredIsFound
    BY DEF DetectorInv, ObservationOk, StoredIsFound
  <1> QED
    BY <1>1, DetectorInvariant, PTL

-----------------------------------------------------------------------------
(***************************************************************************)
(* The quarantine.                                                         *)
(***************************************************************************)
LEMMA NewCallType ==
    /\ NewCall \in Call /\ NewCall.phase = "none"
    /\ [NewCall EXCEPT !.phase = "done"] \in Call
  BY DestinationsAssumption DEF NewCall, Call

LEMMA NewRefreshType == NewRefresh \in Refresh
  BY DEF NewRefresh, Refresh

LEMMA InitQInv == Init => QInv
  <1> SUFFICES ASSUME Init PROVE QInv
    OBVIOUS
  <1>1. TypeOK
    <2>1. refresh \in [Replicas -> Refresh] /\ call \in [Calls -> Call]
      BY NewCallType, NewRefreshType DEF Init
    <2>2. \A r \in Replicas : refresh[r].now <= clock /\ refresh[r].live \cap refresh[r].purge = {}
      <3> SUFFICES ASSUME NEW r \in Replicas
                   PROVE  refresh[r].now <= clock /\ refresh[r].live \cap refresh[r].purge = {}
        OBVIOUS
      <3>1. refresh[r] = NewRefresh /\ clock = 1
        BY DEF Init
      <3> QED
        BY <3>1 DEF NewRefresh
    <2> QED
      BY <2>1, <2>2 DEF Init, TypeOK
  <1>2. InFlightInv
    BY DEF Init, InFlightInv, NewRefresh, NewCall
  <1>3. QuarantineHolds /\ LiftHolds
    BY DEF Init, QuarantineHolds, LiftHolds
  <1> QED
    BY <1>1, <1>2, <1>3 DEF QInv

LEMMA StepQInv == QInv /\ [Next]_vars => QInv'
  <1> SUFFICES ASSUME QInv, [Next]_vars PROVE QInv'
    OBVIOUS
  <1> USE TTLAssumption
  <1> USE DEF QInv
  <1>1. ASSUME NEW c \in Calls, NEW r \in Replicas, NEW d \in Destinations,
               NEW write \in BOOLEAN, NEW allowed \in BOOLEAN,
               Observed(c, r, d, write, allowed)
        PROVE  QInv'
    <2>1. TypeOK'
      BY <1>1 DEF Observed, TypeOK, Call, Refresh
    <2>2. InFlightInv'
      BY <1>1 DEF Observed, TypeOK, InFlightInv
    <2>3. QuarantineHolds' /\ LiftHolds'
      BY <1>1 DEF Observed, QuarantineHolds, LiftHolds
    <2> QED
      BY <2>1, <2>2, <2>3
  <1>2. ASSUME NEW c \in Calls, RenewReads(c) PROVE QInv'
    <2>1. TypeOK'
      BY <1>2 DEF RenewReads, TypeOK, Call, Refresh
    <2>2. InFlightInv'
      BY <1>2 DEF RenewReads, Live, TypeOK, InFlightInv, LiftHolds
    <2>3. QuarantineHolds' /\ LiftHolds'
      BY <1>2 DEF RenewReads, QuarantineHolds, LiftHolds
    <2> QED
      BY <2>1, <2>2, <2>3
  <1>3. ASSUME NEW c \in Calls, RenewFails(c) \/ NotConfirmed(c) PROVE QInv'
    <2>1. call' \in [Calls -> Call]
      <3>1. CASE RenewFails(c)
        BY <3>1 DEF RenewFails, TypeOK, Call
      <3>2. CASE NotConfirmed(c)
        BY <3>2, NewCallType DEF NotConfirmed, TypeOK
      <3> QED
        BY <1>3, <3>1, <3>2
    <2>2. TypeOK'
      BY <1>3, <2>1 DEF RenewFails, NotConfirmed, TypeOK
    <2>4. InFlightInv'
      <3>1. CASE RenewFails(c)
        BY <3>1 DEF RenewFails, TypeOK, InFlightInv
      <3>2. CASE NotConfirmed(c)
        BY <3>2 DEF NotConfirmed, TypeOK, InFlightInv
      <3> QED
        BY <1>3, <3>1, <3>2
    <2>3. QuarantineHolds' /\ LiftHolds'
      BY <1>3 DEF RenewFails, NotConfirmed, QuarantineHolds, LiftHolds
    <2> QED
      BY <2>2, <2>3, <2>4
  <1>4. ASSUME NEW c \in Calls, RenewWrites(c) \/ Confirmed(c) PROVE QInv'
    \* What a write does to the entry and the promise of its destination d
    <2> DEFINE d == call[c].dest
    <2>1. /\ call[c].phase \in {"extending", "checking"}
          /\ d \in Destinations /\ call[c].start \in 1..clock
          /\ UNCHANGED <<clock, policy, refresh, enforce, restarts>>
      BY <1>4 DEF RenewWrites, Confirmed, TypeOK, Call, Refresh, InFlightInv
    <2>2. PICK first \in {call[e].start : e \in InFlight(d)} :
             /\ \A e \in InFlight(d) : first <= call[e].start
             /\ promise' = [promise EXCEPT ![d] = IF AboutToPurge(d) THEN 0 ELSE first]
      BY <1>4 DEF RenewWrites, Confirmed, Write, Promised
    <2>3. expiry' = [expiry EXCEPT ![d] = call[c].start + TTL]
      BY <1>4 DEF RenewWrites, Confirmed, Write
    <2>4. first \in 1..clock /\ first <= call[c].start
      BY <2>1, <2>2 DEF InFlight, TypeOK, InFlightInv
    <2>5. /\ promise' \in [Destinations -> Nat] /\ expiry' \in [Destinations -> Nat]
          /\ promise'[d] \in {0, first}
          /\ \A e \in Destinations \ {d} : promise'[e] = promise[e] /\ expiry'[e] = expiry[e]
          /\ expiry'[d] = call[c].start + TTL
      BY <2>1, <2>2, <2>3, <2>4 DEF TypeOK
    <2>6. \A e \in Calls : /\ call'[e].dest \in Destinations /\ call'[e].start \in Nat
                           /\ e # c => call'[e] = call[e]
      BY <1>4, NewCallType DEF RenewWrites, Confirmed, TypeOK, Call
    <2>7. \/ call'[c].phase = "done"
          \/ call'[c].phase = "checking" /\ call'[c].start = call[c].start /\ call'[c].dest = d
      BY <1>4 DEF RenewWrites, Confirmed, NewCall, TypeOK, Call, Refresh
    <2>8. /\ lifted' \in [Destinations -> {"no", "clean", "overlapped"}]
          /\ \A e \in Destinations : lifted'[e] = "clean" => lifted[e] = "clean" /\ e # d
      BY <1>4, <2>1 DEF RenewWrites, Confirmed, TypeOK, InFlightInv
    <2>9. TypeOK'
      <3>1. call' \in [Calls -> Call]
        <4>1. CASE RenewWrites(c)
          BY <4>1 DEF RenewWrites, TypeOK, Call
        <4>2. CASE Confirmed(c)
          BY <4>2, NewCallType DEF Confirmed, TypeOK
        <4> QED
          BY <1>4, <4>1, <4>2
      <3> QED
        BY <2>1, <2>5, <2>8, <3>1 DEF TypeOK
    <2>10. InFlightInv'
      <3>1. ASSUME NEW e \in Calls,
                   call'[e].phase \in {"renewing", "extending", "checking"}
            PROVE  call'[e].start \in 1..clock /\ call'[e].start >= promise'[call'[e].dest]
        <4>1. /\ call'[e].start = call[e].start /\ call'[e].dest = call[e].dest
              /\ call[e].phase \in {"renewing", "extending", "checking"}
              /\ call[e].dest \in Destinations
          BY <2>1, <2>6, <2>7, <3>1 DEF TypeOK
        <4>2. call[e].start \in 1..clock /\ call[e].start >= promise[call[e].dest]
          BY <4>1 DEF InFlightInv
        <4>3. CASE call[e].dest = d
          <5>1. first <= call[e].start
            BY <2>2, <4>1, <4>3 DEF InFlight
          <5> QED
            BY <2>4, <2>5, <4>1, <4>2, <4>3, <5>1
        <4>4. CASE call[e].dest # d
          BY <2>5, <4>1, <4>2, <4>4
        <4> QED
          BY <4>3, <4>4
      <3>2. ASSUME NEW e \in Destinations PROVE promise'[e] <= clock
        BY <2>4, <2>5 DEF InFlightInv, TypeOK
      <3>3. ASSUME NEW e \in Destinations, NEW r \in Replicas, e \in refresh[r].purge
            PROVE  promise'[e] = 0 \/ promise'[e] + TTL <= clock
        <4>1. CASE e = d
          BY <2>1, <2>2, <3>3, <4>1 DEF AboutToPurge, TypeOK
        <4>2. CASE e # d
          BY <2>5, <3>3, <4>2 DEF InFlightInv
        <4> QED
          BY <4>1, <4>2
      <3>4. ASSUME NEW e \in Destinations, lifted'[e] = "clean", NEW f \in Calls
            PROVE  ~(call'[f].dest = e /\ call'[f].phase = "extending")
        BY <2>6, <2>7, <2>8, <3>4 DEF InFlightInv
      <3> QED
        BY <2>1, <3>1, <3>2, <3>3, <3>4 DEF InFlightInv
    <2>11. QuarantineHolds'
      <3>1. ASSUME NEW e \in Destinations, promise'[e] # 0, clock < promise'[e] + TTL
            PROVE  expiry'[e] >= promise'[e] + TTL
        <4>1. CASE e = d
          BY <2>1, <2>4, <2>5, <3>1, <4>1
        <4>2. CASE e # d
          BY <2>5, <3>1, <4>2 DEF QuarantineHolds
        <4> QED
          BY <4>1, <4>2
      <3> QED
        BY <2>1, <3>1 DEF QuarantineHolds
    <2>12. LiftHolds'
      BY <2>5, <2>8 DEF LiftHolds
    <2> QED
      BY <2>9, <2>10, <2>11, <2>12
  <1>5. ASSUME NEW r \in Replicas, RefreshStarts(r) \/ RefreshEnds(r) \/ RefreshFails(r) \/ Restart(r)
        PROVE  QInv'
    <2>1. TypeOK'
      <3>1. refresh' \in [Replicas -> Refresh] /\ policy' \in [Replicas -> SUBSET Destinations]
        <4>1. CASE RefreshStarts(r)
          BY <4>1 DEF RefreshStarts, Refresh, TypeOK
        <4>2. CASE RefreshEnds(r)
          BY <4>2, NewRefreshType DEF RefreshEnds, Refresh, TypeOK
        <4>3. CASE RefreshFails(r) \/ Restart(r)
          BY <4>3, NewRefreshType DEF RefreshFails, Restart, TypeOK
        <4> QED
          BY <1>5, <4>1, <4>2, <4>3
      <3>2. \A e \in Replicas : refresh'[e].now <= clock /\ refresh'[e].live \cap refresh'[e].purge = {}
        BY <1>5 DEF RefreshStarts, RefreshEnds, RefreshFails, Restart, NewRefresh, TypeOK
      <3> QED
        BY <1>5, <3>1, <3>2 DEF RefreshStarts, RefreshEnds, RefreshFails, Restart, TypeOK
    <2>2. InFlightInv'
      BY <1>5 DEF RefreshStarts, RefreshEnds, RefreshFails, Restart, NewRefresh, TypeOK, InFlightInv
    <2>3. QuarantineHolds' /\ LiftHolds'
      BY <1>5 DEF RefreshStarts, RefreshEnds, RefreshFails, Restart, QuarantineHolds, LiftHolds
    <2> QED
      BY <2>1, <2>2, <2>3
  <1>6. ASSUME NEW r \in Replicas, RefreshReads(r) PROVE QInv'
    <2>1. TypeOK'
      <3>1. refresh' \in [Replicas -> Refresh]
        BY <1>6 DEF RefreshReads, Refresh, TypeOK
      <3>2. \A e \in Replicas : refresh'[e].now <= clock /\ refresh'[e].live \cap refresh'[e].purge = {}
        BY <1>6 DEF RefreshReads, TypeOK, Call, Refresh
      <3> QED
        BY <1>6, <3>1, <3>2 DEF RefreshReads, TypeOK
    <2>2. InFlightInv'
      \* What is read as expired has run out: its promise, if any, has
      <3>1. ASSUME NEW d \in Destinations, d \in refresh'[r].purge
            PROVE  promise[d] = 0 \/ promise[d] + TTL <= clock
        <4>1. ~ (expiry[d] > refresh[r].now) /\ refresh[r].now <= clock
          BY <1>6, <3>1 DEF RefreshReads, Live, TypeOK, Call, Refresh
        <4> QED
          BY <4>1 DEF QuarantineHolds, TypeOK, Call, Refresh
      <3> QED
        BY <1>6, <3>1 DEF RefreshReads, TypeOK, InFlightInv
    <2>3. QuarantineHolds' /\ LiftHolds'
      BY <1>6 DEF RefreshReads, QuarantineHolds, LiftHolds
    <2> QED
      BY <2>1, <2>2, <2>3
  <1>7. ASSUME NEW r \in Replicas, NEW d \in Destinations, NEW ok \in BOOLEAN,
               RefreshPurges(r, d, ok)
        PROVE  QInv'
    <2>1. TypeOK'
      BY <1>7 DEF RefreshPurges, TypeOK, Call, Refresh
    <2>2. InFlightInv'
      BY <1>7 DEF RefreshPurges, TypeOK, InFlightInv
    <2>3. QuarantineHolds'
      BY <1>7 DEF RefreshPurges, TypeOK, InFlightInv, QuarantineHolds
    <2>4. LiftHolds'
      BY <1>7 DEF RefreshPurges, TypeOK, LiftHolds
    <2> QED
      BY <2>1, <2>2, <2>3, <2>4
  <1>8. ASSUME NEW d \in Destinations, Lift(d) PROVE QInv'
    <2>1. TypeOK'
      BY <1>8 DEF Lift, TypeOK
    <2>2. InFlightInv'
      BY <1>8 DEF Lift, TypeOK, InFlightInv
    <2>3. QuarantineHolds' /\ LiftHolds'
      BY <1>8 DEF Lift, TypeOK, QuarantineHolds, LiftHolds
    <2> QED
      BY <2>1, <2>2, <2>3
  <1>9. CASE Tick
    <2>1. TypeOK'
      BY <1>9 DEF Tick, TypeOK, Call, Refresh
    <2>2. InFlightInv'
      BY <1>9 DEF Tick, TypeOK, InFlightInv
    <2>3. QuarantineHolds' /\ LiftHolds'
      BY <1>9 DEF Tick, TypeOK, QuarantineHolds, LiftHolds
    <2> QED
      BY <2>1, <2>2, <2>3
  <1>10. CASE UNCHANGED vars
    BY <1>10 DEF vars, TypeOK, InFlightInv, QuarantineHolds, LiftHolds
  <1> QED
    <2>1. ASSUME NEW c \in Calls, CallStep(c) PROVE QInv'
      BY <1>1, <1>2, <1>3, <1>4, <2>1 DEF CallStep, RenewFails, NotConfirmed
    <2>2. ASSUME NEW r \in Replicas, RefreshStep(r) \/ Restart(r) PROVE QInv'
      BY <1>5, <1>6, <1>7, <2>2 DEF RefreshStep
    <2> QED
      BY <1>8, <1>9, <1>10, <2>1, <2>2 DEF Next

\* The invariant the two below are parts of.
THEOREM QuarantineInvariant == Spec => []QInv
  BY InitQInv, StepQInv, PTL DEF Spec

\* An entry written outside a purge and not lifted holds for TTL from the
\* earliest call in flight at the time, whatever other calls and replicas do.
THEOREM EntriesHold == Spec => []QuarantineHolds
  <1>1. QInv => QuarantineHolds
    BY DEF QInv
  <1> QED
    BY <1>1, QuarantineInvariant, PTL

\* What an operator lifts stays lifted until it is confirmed again, unless a
\* renewal had read the entry before.
THEOREM LiftedStaysLifted == Spec => []LiftHolds
  <1>1. QInv => LiftHolds
    BY DEF QInv
  <1> QED
    BY <1>1, QuarantineInvariant, PTL
=============================================================================
