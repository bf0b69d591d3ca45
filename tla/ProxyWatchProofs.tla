-------------------------- MODULE ProxyWatchProofs --------------------------
(***************************************************************************)
(* The write check and the live feed, for any number of callers, sockets,  *)
(* events and checks: what /health reports is true of the store it was     *)
(* asked of, and a feed ends with the session it was opened with.          *)
(***************************************************************************)
EXTENDS ProxyWatch, SequenceTheorems, TLAPS

Check == [store : {1, 2}, began : Nat, stage : {"running", "ended", "done"},
          value : Value, ended : Int, woken : Int]
Request == [pc : {"idle", "waiting", "answered"}, store : {1, 2}, check : Nat,
            until : Nat, value : Value, at : Int]
Probe == [store : 0..2, checked : Int, result : Value, running : Nat, started : Nat]
Feed == [pc : {"away", "admitted", "open", "gone", "closed"},
         exp : Int, deadline : Int, last : Int]
Cast == [pc : {"new", "sending", "done"}, left : SUBSET Feeds, dead : SUBSET Feeds]

\* Check i bears out the answer of the call c
Supports(i, c) ==
    /\ checks[i].store = c.store
    /\ \/ checks[i].value = c.value /\ checks[i].ended # Never
          /\ c.at - checks[i].ended < Interval
       \/ c.value = "no" /\ checks[i].began + Timeout <= c.at
          /\ (checks[i].woken = Never \/ checks[i].woken >= c.at)
Truth(c) == c.pc = "answered" => \E i \in 1..Len(checks) : Supports(i, c)
OneRunning ==
    \A i, j \in 1..Len(checks) :
       (checks[i].stage = "running" /\ checks[j].stage = "running"
          /\ checks[i].store = checks[j].store) => i = j

ProbeType == /\ clock \in Nat /\ store \in {1, 2} /\ probe \in Probe
             /\ checks \in Seq(Check) /\ caller \in [Callers -> Request]
FeedType == /\ clock \in Nat /\ cookie \in Int /\ feed \in [Feeds -> Feed]
            /\ clients \in SUBSET Feeds /\ cast \in [Events -> Cast]

\* The two halves of the invariant: they share only the clock
ProbeInv == /\ ProbeType /\ ProbeOk /\ OneRunning
            /\ \A i \in 1..Len(checks) : CheckOk(i)
            /\ \A b \in Callers : CallerOk(caller[b]) /\ Truth(caller[b])
FeedInv == /\ FeedType /\ FeedEndsWithSession
           /\ \A f \in Feeds : FeedOk(f)

LEMMA Halves == WatchInv <=> ProbeInv /\ FeedInv
  <1>1. WatchType <=> ProbeType /\ FeedType
    BY DEF WatchType, ProbeType, FeedType, Check, Request, Probe, Feed, Cast
  <1>2. ProbeIsTrue <=> OneRunning /\ \A b \in Callers : Truth(caller[b])
    BY DEF ProbeIsTrue, OneRunning, Truth, Supports
  <1> QED
    BY <1>1, <1>2 DEF WatchInv, ProbeInv, FeedInv

-----------------------------------------------------------------------------
(***************************************************************************)
(* The write check.                                                        *)
(***************************************************************************)
LEMMA CheckFacts ==
    ASSUME ProbeType, NEW i \in 1..Len(checks)
    PROVE  /\ checks[i] \in Check /\ checks[i].store \in {1, 2} /\ checks[i].began \in Nat
           /\ checks[i].stage \in {"running", "ended", "done"} /\ checks[i].value \in Value
           /\ checks[i].ended \in Int /\ checks[i].woken \in Int
  <1>1. checks[i] \in Check
    BY ElementOfSeq DEF ProbeType
  <1> QED
    BY <1>1 DEF Check

LEMMA ProbeFacts ==
    ASSUME ProbeType
    PROVE  /\ probe.store \in 0..2 /\ probe.checked \in Int /\ probe.result \in Value
           /\ probe.running \in Nat /\ probe.started \in Nat
  BY DEF ProbeType, Probe

LEMMA CallerFacts ==
    ASSUME ProbeType, NEW b \in Callers
    PROVE  /\ caller[b] \in Request /\ caller[b].store \in {1, 2} /\ caller[b].check \in Nat
           /\ caller[b].until \in Nat /\ caller[b].value \in Value /\ caller[b].at \in Int
  <1>1. caller[b] \in Request
    BY DEF ProbeType
  <1> QED
    BY <1>1 DEF Request

\* A step of one caller, that starts no check
LEMMA CallerMoves ==
    ASSUME ProbeInv, UNCHANGED <<clock, store, checks>>, probe' \in Probe, ProbeOk',
           NEW b \in Callers, NEW r \in Request, CallerOk(r), Truth(r),
           caller' = [caller EXCEPT ![b] = r]
    PROVE  ProbeInv'
  <1>1. caller' \in [Callers -> Request] /\ \A d \in Callers : caller'[d] = IF d = b THEN r ELSE caller[d]
    BY DEF ProbeInv, ProbeType
  <1>2. ProbeType' /\ OneRunning' /\ \A i \in 1..Len(checks') : CheckOk(i)'
    BY <1>1 DEF ProbeInv, ProbeType, OneRunning, CheckOk
  <1>3. ASSUME NEW d \in Callers PROVE CallerOk(caller[d])' /\ Truth(caller[d])'
    <2>1. CallerOk(caller'[d]) /\ Truth(caller'[d])
      BY <1>1 DEF ProbeInv
    <2> QED
      BY <2>1 DEF CallerOk, Truth, Supports
  <1> QED
    BY <1>2, <1>3 DEF ProbeInv

\* What a caller finds: the probe of the store, or one that knows nothing
LEMMA KnownIs ==
    ASSUME ProbeInv
    PROVE  \/ probe.store = store /\ Known = probe
           \/ /\ probe.store < store /\ Known = NoResult(store)
              /\ Known.running = 0 /\ ~Fresh(Known)
  BY ProbeFacts DEF ProbeInv, ProbeOk, ProbeType, Known, NoResult, Fresh

LEMMA AsksFresh ==
    ASSUME ProbeInv, NEW b \in Callers, Asks(b), Fresh(Known)
    PROVE  ProbeInv'
  <1>1. probe.store = store /\ Known = probe
    BY KnownIs
  <1>2. /\ UNCHANGED <<clock, store, checks>> /\ probe' = probe
        /\ caller' = [caller EXCEPT ![b] = Call("answered", 0, 0, probe.result, clock)]
    BY <1>1 DEF Asks
  <1>3. PICK r : r = Call("answered", 0, 0, probe.result, clock)
    OBVIOUS
  <1>4. /\ r \in Request /\ r.pc = "answered" /\ r.at = clock
        /\ r.store = store /\ r.value = probe.result
    BY <1>3, ProbeFacts DEF Call, Request, ProbeInv, ProbeType
  <1>5. PICK i \in 1..Len(checks) : /\ checks[i].store = probe.store
                                    /\ checks[i].value = probe.result
                                    /\ checks[i].ended = probe.checked
    BY <1>1 DEF Fresh, ProbeInv, ProbeOk
  <1>6. Supports(i, r)
    BY <1>1, <1>4, <1>5 DEF Supports, Fresh
  <1>7. CallerOk(r) /\ Truth(r)
    BY <1>4, <1>6 DEF CallerOk, Truth, ProbeInv, ProbeType
  <1>8. probe' \in Probe /\ ProbeOk'
    BY <1>2 DEF ProbeInv, ProbeType, ProbeOk
  <1> QED
    BY <1>2, <1>3, <1>4, <1>7, <1>8, CallerMoves

LEMMA AsksJoins ==
    ASSUME ProbeInv, NEW b \in Callers, Asks(b), ~Fresh(Known), Known.running # 0
    PROVE  ProbeInv'
  <1>1. probe.store = store /\ Known = probe
    BY KnownIs
  <1> DEFINE until == probe.started + Timeout
             reply == IF until <= clock THEN Call("answered", 0, 0, "no", clock)
                      ELSE Call("waiting", probe.running, until, "none", Never)
  <1>2. /\ UNCHANGED <<clock, store, checks>> /\ probe' = probe
        /\ caller' = [caller EXCEPT ![b] = reply]
    BY <1>1 DEF Asks
  <1>3. PICK r : r = reply
    OBVIOUS
  <1>4. PICK i : i = probe.running
    OBVIOUS
  <1>5. /\ i \in 1..Len(checks) /\ checks[i].stage = "running"
        /\ checks[i].store = store /\ checks[i].began = probe.started /\ checks[i].woken = Never
    BY <1>1, <1>4 DEF ProbeInv, ProbeOk, CheckOk
  <1>6. probe' \in Probe /\ ProbeOk'
    BY <1>2 DEF ProbeInv, ProbeType, ProbeOk
  <1>7. clock \in Nat /\ store \in {1, 2} /\ until \in Nat /\ i \in Nat
    BY <1>4, ProbeFacts, WatchAssumption DEF ProbeInv, ProbeType
  <1>8. CASE until <= clock
    <2>1. /\ r \in Request /\ r.pc = "answered" /\ r.at = clock
          /\ r.store = store /\ r.value = "no"
      BY <1>3, <1>7, <1>8 DEF Call, Request, Value
    <2>2. Supports(i, r)
      BY <2>1, <1>5, <1>8 DEF Supports
    <2>3. CallerOk(r) /\ Truth(r)
      BY <2>1, <2>2, <1>5, <1>7 DEF CallerOk, Truth
    <2> QED
      BY <2>1, <2>3, <1>2, <1>3, <1>6, CallerMoves
  <1>9. CASE ~(until <= clock)
    <2>1. /\ r \in Request /\ r.pc = "waiting" /\ r.check = i /\ r.until = until
          /\ r.store = store
      BY <1>3, <1>4, <1>7, <1>9 DEF Call, Request, Value, Never
    <2>2. CallerOk(r) /\ Truth(r)
      BY <2>1, <1>5, <1>7, <1>9 DEF CallerOk, Truth
    <2> QED
      BY <2>1, <2>2, <1>2, <1>3, <1>6, CallerMoves
  <1> QED
    BY <1>8, <1>9

LEMMA AsksStarts ==
    ASSUME ProbeInv, NEW b \in Callers, Asks(b), ~Fresh(Known), Known.running = 0
    PROVE  ProbeInv'
  <1> DEFINE n == Len(checks)
  <1>1. PICK r : r = Call("waiting", n + 1, clock + Timeout, "none", Never)
    OBVIOUS
  <1>2. PICK k : k = NewCheck
    OBVIOUS
  <1>3. n \in Nat /\ clock \in Nat /\ store \in {1, 2} /\ checks \in Seq(Check)
    BY LenProperties DEF ProbeInv, ProbeType
  <1>4. /\ k \in Check /\ k.store = store /\ k.began = clock /\ k.stage = "running"
        /\ k.ended = Never /\ k.woken = Never
    BY <1>2, <1>3 DEF NewCheck, Check, Value, Never
  <1>5. /\ r \in Request /\ r.pc = "waiting" /\ r.check = n + 1
        /\ r.until = clock + Timeout /\ r.store = store
    BY <1>1, <1>3, WatchAssumption DEF Call, Request, Value, Never
  <1>6. /\ Known \in Probe /\ Known.store = store
        /\ Known.checked # Never => Known = probe /\ probe.store = store
    BY KnownIs, <1>3 DEF NoResult, Probe, Value, Never, ProbeInv, ProbeType
  <1>7. UNCHANGED <<clock, store>> /\ probe' = Started(Known) /\ checks' = Append(checks, k)
    BY <1>2 DEF Asks
  <1>8. caller' = [caller EXCEPT ![b] = r]
    <2>1. Started(Known).started = clock /\ Started(Known).running = n + 1
      BY <1>6 DEF Started, Probe
    <2>2. ~(clock + Timeout <= clock)
      BY <1>3, WatchAssumption
    <2> QED
      BY <2>1, <2>2, <1>1 DEF Asks
  <1>9. /\ probe' \in Probe /\ probe'.store = store /\ probe'.running = n + 1
        /\ probe'.started = clock /\ probe'.checked = Known.checked /\ probe'.result = Known.result
    <2>1. PICK p : p = Known
      OBVIOUS
    <2>2. p \in Probe /\ p.store = store
      BY <2>1, <1>6
    <2>3. probe' = [p EXCEPT !.running = n + 1, !.started = clock]
      BY <2>1, <1>7 DEF Started
    <2>4. n + 1 \in Nat
      BY <1>3
    <2>5. /\ probe' \in Probe /\ probe'.store = p.store /\ probe'.running = n + 1
          /\ probe'.started = clock /\ probe'.checked = p.checked /\ probe'.result = p.result
      BY <2>2, <2>3, <2>4, <1>3 DEF Probe
    <2> QED
      BY <2>1, <2>2, <2>5
  <1>10. /\ checks' \in Seq(Check) /\ Len(checks') = n + 1 /\ checks'[n + 1] = k
         /\ \A i \in 1..n : checks'[i] = checks[i]
    BY <1>3, <1>4, <1>7, AppendProperties
  <1>11. \A i \in 1..n : ~(checks[i].stage = "running" /\ checks[i].store = store)
    <2>1. CASE probe.store = store /\ Known = probe
      BY <2>1 DEF ProbeInv, ProbeOk
    <2>2. CASE probe.store < store
      <3>1. \A i \in 1..n : checks[i].store <= probe.store /\ checks[i].store \in {1, 2}
        BY CheckFacts DEF ProbeInv, ProbeOk
      <3> QED
        BY <2>2, <3>1, <1>3, ProbeFacts DEF ProbeInv
    <2> QED
      BY <2>1, <2>2, KnownIs
  <1>12. \A i \in 1..(n + 1) : i \in 1..n \/ i = n + 1
    BY <1>3
  <1>13. caller' \in [Callers -> Request] /\ \A d \in Callers : caller'[d] = IF d = b THEN r ELSE caller[d]
    BY <1>5, <1>8 DEF ProbeInv, ProbeType
  <1>14. ProbeType'
    BY <1>3, <1>7, <1>9, <1>10, <1>13 DEF ProbeType
  <1>15. ProbeOk'
    <2>1. \A i \in 1..(n + 1) : checks'[i].store <= store
      <3>1. \A i \in 1..n : checks[i].store <= probe.store /\ checks[i].store \in {1, 2}
        BY CheckFacts DEF ProbeInv, ProbeOk
      <3>2. probe.store <= store
        BY DEF ProbeInv, ProbeOk
      <3> QED
        BY SMTT(40), <3>1, <3>2, <1>3, <1>4, <1>10, <1>12, ProbeFacts DEF ProbeInv
    <2>2. \A i \in 1..(n + 1) : checks'[i].stage = "running" /\ checks'[i].store = store => i = n + 1
      BY <1>10, <1>11, <1>12
    <2>3. Known.checked # Never =>
             \E i \in 1..(n + 1) : /\ checks'[i].store = store /\ checks'[i].value = Known.result
                                   /\ checks'[i].ended = Known.checked
      <3>1. SUFFICES ASSUME Known.checked # Never
                     PROVE  \E i \in 1..n : /\ checks[i].store = store /\ checks[i].value = Known.result
                                            /\ checks[i].ended = Known.checked
        BY <1>3, <1>10
      <3> QED
        BY <3>1, <1>6 DEF ProbeInv, ProbeOk
    <2>4. store <= store
      BY <1>3
    <2> QED
      BY <2>1, <2>2, <2>3, <2>4, <1>3, <1>4, <1>7, <1>9, <1>10 DEF ProbeOk
  <1>16. OneRunning'
    BY <1>4, <1>10, <1>11, <1>12 DEF OneRunning, ProbeInv
  <1>17. ASSUME NEW i \in 1..Len(checks') PROVE CheckOk(i)'
    <2>1. CASE i \in 1..n
      BY <2>1, <1>7, <1>10 DEF CheckOk, ProbeInv
    <2>2. CASE i = n + 1
      BY <2>2, <1>3, <1>4, <1>7, <1>10 DEF CheckOk, Never
    <2> QED
      BY <2>1, <2>2, <1>10, <1>12
  <1>18. ASSUME NEW d \in Callers PROVE CallerOk(caller[d])' /\ Truth(caller[d])'
    <2>1. CASE d = b
      BY <2>1, <1>3, <1>4, <1>5, <1>7, <1>10, <1>13, WatchAssumption DEF CallerOk, Truth
    <2>2. CASE d # b
      <3>1. caller'[d] = caller[d] /\ CallerOk(caller[d]) /\ Truth(caller[d])
        BY <2>2, <1>13 DEF ProbeInv
      <3>2. 1..n \subseteq 1..(n + 1)
        BY <1>3
      <3>3. CallerOk(caller[d])'
        BY <3>1, <3>2, <1>7, <1>10 DEF CallerOk
      <3>4. Truth(caller[d])'
        BY <3>1, <3>2, <1>10 DEF Truth, Supports
      <3> QED
        BY <3>3, <3>4
    <2> QED
      BY <2>1, <2>2
  <1> QED
    BY <1>14, <1>15, <1>16, <1>17, <1>18 DEF ProbeInv

\* A check that has ended, one that has woken its callers, and the probe after it
EndedCheck(k, v, t) == [k EXCEPT !.stage = "ended", !.value = v, !.ended = t]
WokenCheck(k, t) == [k EXCEPT !.stage = "done", !.woken = t]
CheckedProbe(p, v, t) == [p EXCEPT !.result = v, !.checked = t, !.running = 0]

LEMMA CheckEnded ==
    ASSUME NEW k \in Check, NEW v \in Value, NEW t \in Int
    PROVE  LET r == EndedCheck(k, v, t)
           IN /\ r \in Check /\ r.stage = "ended" /\ r.value = v /\ r.ended = t
              /\ r.store = k.store /\ r.began = k.began /\ r.woken = k.woken
  BY DEF Check, EndedCheck

LEMMA CheckWoken ==
    ASSUME NEW k \in Check, NEW t \in Int
    PROVE  LET r == WokenCheck(k, t)
           IN /\ r \in Check /\ r.stage = "done" /\ r.woken = t /\ r.store = k.store
              /\ r.began = k.began /\ r.value = k.value /\ r.ended = k.ended
  BY DEF Check, WokenCheck

LEMMA ProbeChecked ==
    ASSUME NEW p \in Probe, NEW v \in Value, NEW t \in Int
    PROVE  LET q == CheckedProbe(p, v, t)
           IN /\ q \in Probe /\ q.store = p.store /\ q.running = 0
              /\ q.checked = t /\ q.result = v
  BY DEF Probe, CheckedProbe

\* The step of the thread of one check
LEMMA CheckMoves ==
    ASSUME ProbeInv, UNCHANGED <<clock, store, caller>>, probe' \in Probe, ProbeOk',
           NEW k \in 1..Len(checks), NEW r \in Check, checks' = [checks EXCEPT ![k] = r],
           CheckOk(k)', r.store = checks[k].store,
           r.stage = "running" => checks[k].stage = "running",
           \A b \in Callers : Supports(k, caller[b]) /\ CallerOk(caller[b])
              /\ caller[b].pc = "answered" => Supports(k, caller[b])',
           r.began = checks[k].began, r.stage = "done" => r.woken = clock
    PROVE  ProbeInv'
  <1>1. /\ checks' \in Seq(Check) /\ Len(checks') = Len(checks)
        /\ \A i \in 1..Len(checks) : checks'[i] = IF i = k THEN r ELSE checks[i]
    BY ExceptSeq DEF ProbeInv, ProbeType
  <1>2. ProbeType'
    BY <1>1 DEF ProbeInv, ProbeType
  <1>3. OneRunning'
    BY <1>1 DEF ProbeInv, OneRunning
  <1>4. ASSUME NEW i \in 1..Len(checks') PROVE CheckOk(i)'
    <2>1. CASE i = k
      BY <2>1
    <2>2. CASE i # k
      BY <2>2, <1>1 DEF ProbeInv, CheckOk
    <2> QED
      BY <2>1, <2>2
  <1>5. ASSUME NEW b \in Callers PROVE CallerOk(caller[b])' /\ Truth(caller[b])'
    <2>1. CallerOk(caller[b]) /\ Truth(caller[b])
      BY DEF ProbeInv
    <2>2. CallerOk(caller[b])'
      BY <2>1, <1>1 DEF CallerOk
    <2>3. ASSUME caller[b].pc = "answered", NEW i \in 1..Len(checks), Supports(i, caller[b])
          PROVE  Supports(i, caller[b])'
      <3>1. CASE i = k
        BY <2>1, <2>3, <3>1
      <3>2. CASE i # k
        BY <2>3, <3>2, <1>1 DEF Supports
      <3> QED
        BY <3>1, <3>2
    <2>4. Truth(caller[b])'
      BY <2>1, <2>3, <1>1 DEF Truth
    <2> QED
      BY <2>2, <2>4
  <1> QED
    BY <1>2, <1>3, <1>4, <1>5 DEF ProbeInv

LEMMA StepCheckEnds ==
    ASSUME ProbeInv, NEW k \in 1..Len(checks), CheckEnds(k)
    PROVE  ProbeInv'
  <1>1. PICK value \in Value :
          /\ checks' = [checks EXCEPT ![k].stage = "ended", ![k].value = value, ![k].ended = clock]
          /\ probe' = IF IsRunning(k)
                      THEN [probe EXCEPT !.result = value, !.checked = clock, !.running = 0]
                      ELSE probe
    BY DEF CheckEnds
  <1>2. /\ checks[k].stage = "running" /\ UNCHANGED <<clock, store, caller>>
        /\ clock \in Nat /\ checks \in Seq(Check) /\ probe \in Probe
        /\ checks[k] \in Check /\ CheckOk(k)
    BY CheckFacts DEF CheckEnds, ProbeInv, ProbeType
  <1>3. PICK r : r = EndedCheck(checks[k], value, clock)
    OBVIOUS
  <1>4. /\ r \in Check /\ r.stage = "ended" /\ r.value = value /\ r.ended = clock
        /\ r.store = checks[k].store /\ r.began = checks[k].began /\ r.woken = checks[k].woken
    <2>1. clock \in Int
      BY <1>2
    <2> QED
      BY <2>1, <1>2, <1>3, CheckEnded
  <1>5. checks' = [checks EXCEPT ![k] = r]
    BY <1>1, <1>3 DEF EndedCheck
  <1>6. /\ Len(checks') = Len(checks)
        /\ \A i \in 1..Len(checks) : checks'[i] = IF i = k THEN r ELSE checks[i]
    BY <1>2, <1>4, <1>5, ExceptSeq
  <1>7. checks[k].ended = Never /\ checks[k].woken = Never /\ checks[k].began <= clock
    BY <1>2 DEF CheckOk
  <1>8. CheckOk(k)'
    BY <1>2, <1>4, <1>6, <1>7 DEF CheckOk, Never
  <1>9. probe' \in Probe /\ ProbeOk'
    <2>1. CASE IsRunning(k)
      <3>1. /\ probe' \in Probe /\ probe'.store = probe.store /\ probe'.running = 0
            /\ probe'.checked = clock /\ probe'.result = value
        <4>1. probe' = CheckedProbe(probe, value, clock)
          BY <2>1, <1>1 DEF CheckedProbe
        <4>2. clock \in Int
          BY <1>2
        <4> QED
          BY <4>1, <4>2, <1>2, ProbeChecked
      <3>2. /\ checks[k].store = probe.store /\ probe.store <= store
            /\ \A i \in 1..Len(checks) : checks[i].store <= probe.store
            /\ \A i \in 1..Len(checks) :
                  checks[i].stage = "running" /\ checks[i].store = probe.store => i = k
        BY <2>1, <1>2, ProbeFacts DEF IsRunning, ProbeInv, ProbeOk
      <3> QED
        BY <3>1, <3>2, <1>2, <1>4, <1>6 DEF ProbeOk
    <2>2. CASE ~IsRunning(k)
      <3>1. probe' = probe
        BY <2>2, <1>1
      <3>2. ASSUME NEW i \in 1..Len(checks), i # k PROVE checks'[i] = checks[i]
        BY <3>2, <1>6
      <3>3. checks[k].store # probe.store
        BY <2>2, <1>2 DEF IsRunning, ProbeInv, ProbeOk
      <3>4. \A i \in 1..Len(checks) : checks'[i].store = checks[i].store
        BY <1>4, <1>6
      <3>5. probe.running # 0 => probe.running # k /\ probe.running \in 1..Len(checks)
        BY <2>2 DEF IsRunning, ProbeInv, ProbeOk
      <3>6. /\ ProbeOk /\ probe \in Probe /\ UNCHANGED <<store, probe>>
            /\ Len(checks') = Len(checks) /\ checks'[k].stage # "running"
        BY <3>1, <1>2, <1>4, <1>6 DEF ProbeInv
      <3>7. \A i \in 1..Len(checks) : checks'[i].stage = "running" /\ checks'[i].store = probe.store
                                         => probe.running = i
        BY <3>2, <3>6 DEF ProbeOk
      <3>8. probe.checked # Never =>
              \E i \in 1..Len(checks) : /\ checks'[i].store = probe.store
                                        /\ checks'[i].value = probe.result
                                        /\ checks'[i].ended = probe.checked
        BY <3>2, <3>3, <3>6 DEF ProbeOk
      <3>9. probe.running # 0 => /\ checks'[probe.running].stage = "running"
                                 /\ checks'[probe.running].store = probe.store
                                 /\ checks'[probe.running].began = probe.started
        BY <3>2, <3>5, <3>6 DEF ProbeOk
      <3> QED
        BY <3>4, <3>5, <3>6, <3>7, <3>8, <3>9 DEF ProbeOk
    <2> QED
      BY <2>1, <2>2
  <1>10. ASSUME NEW b \in Callers, Supports(k, caller[b]) PROVE Supports(k, caller[b])'
    BY <1>10, <1>2, <1>4, <1>6, <1>7 DEF Supports
  <1> QED
    BY <1>2, <1>4, <1>5, <1>8, <1>9, <1>10, CheckMoves

LEMMA StepCheckWakes ==
    ASSUME ProbeInv, NEW k \in 1..Len(checks), CheckWakes(k)
    PROVE  ProbeInv'
  <1>1. /\ checks' = [checks EXCEPT ![k].stage = "done", ![k].woken = clock] /\ probe' = probe
        /\ checks[k].stage = "ended" /\ UNCHANGED <<clock, store, caller>>
        /\ clock \in Nat /\ checks \in Seq(Check) /\ probe \in Probe
        /\ checks[k] \in Check /\ CheckOk(k)
    BY CheckFacts DEF CheckWakes, ProbeInv, ProbeType
  <1>2. PICK r : r = WokenCheck(checks[k], clock)
    OBVIOUS
  <1>3. /\ r \in Check /\ r.stage = "done" /\ r.woken = clock
        /\ r.store = checks[k].store /\ r.began = checks[k].began
        /\ r.value = checks[k].value /\ r.ended = checks[k].ended
    <2>1. clock \in Int
      BY <1>1
    <2> QED
      BY <2>1, <1>1, <1>2, CheckWoken
  <1>4. checks' = [checks EXCEPT ![k] = r]
    BY <1>1, <1>2 DEF WokenCheck
  <1>5. /\ Len(checks') = Len(checks)
        /\ \A i \in 1..Len(checks) : checks'[i] = IF i = k THEN r ELSE checks[i]
    BY SMTT(40), <1>1, <1>3, <1>4, ExceptSeq
  <1>6. CheckOk(k)'
    BY <1>1, <1>3, <1>5 DEF CheckOk, Never
  <1>7. probe' \in Probe /\ ProbeOk'
    <2>1. probe.running # k
      BY <1>1 DEF ProbeInv, ProbeOk
    <2>2. \A i \in 1..Len(checks) : /\ checks'[i].store = checks[i].store
                                    /\ checks'[i].value = checks[i].value
                                    /\ checks'[i].ended = checks[i].ended
                                    /\ checks'[i].began = checks[i].began
      BY <1>3, <1>5
    <2>3. \A i \in 1..Len(checks) : checks'[i].stage = "running" <=> checks[i].stage = "running"
      BY <1>1, <1>3, <1>5
    <2>4. /\ UNCHANGED <<store, probe>> /\ Len(checks') = Len(checks)
          /\ probe \in Probe /\ ProbeOk
      BY <1>1, <1>5 DEF ProbeInv
    <2> QED
      BY <2>1, <2>2, <2>3, <2>4 DEF ProbeOk
  <1>8. ASSUME NEW b \in Callers, Supports(k, caller[b]), CallerOk(caller[b]),
               caller[b].pc = "answered"
        PROVE  Supports(k, caller[b])'
    <2>1. caller[b].at \in Nat /\ caller[b].at <= clock
      BY <1>8 DEF CallerOk
    <2>2. checks'[k] = r
      BY <1>5
    <2> QED
      BY <1>8, <2>1, <2>2, <1>1, <1>3 DEF Supports
  <1> QED
    BY <1>1, <1>3, <1>4, <1>6, <1>7, <1>8, CheckMoves

LEMMA StepAnswered ==
    ASSUME ProbeInv, NEW b \in Callers, Answered(b)
    PROVE  ProbeInv'
  <1>1. PICK i : i = caller[b].check
    OBVIOUS
  <1>2. /\ UNCHANGED <<clock, store, probe, checks>> /\ caller[b].pc = "waiting"
        /\ checks[i].stage = "done"
        /\ caller' = [caller EXCEPT ![b] = [pc |-> "answered", store |-> caller[b].store, check |-> 0,
                                           until |-> 0, value |-> checks[i].value, at |-> clock]]
    BY <1>1 DEF Answered, Answer, ProbeInv, ProbeType
  <1>3. PICK r : r = [pc |-> "answered", store |-> caller[b].store, check |-> 0,
                      until |-> 0, value |-> checks[i].value, at |-> clock]
    OBVIOUS
  <1>4. /\ i \in 1..Len(checks) /\ checks[i].store = caller[b].store
        /\ clock <= checks[i].began + Timeout
    BY <1>1, <1>2 DEF ProbeInv, CallerOk
  <1>5. /\ checks[i].value \in Value /\ caller[b].store \in {1, 2} /\ clock \in Nat
        /\ checks[i].began \in Nat /\ checks[i].ended \in Int
    BY <1>4, CheckFacts, CallerFacts DEF ProbeInv, ProbeType
  <1>6. /\ r \in Request /\ r.pc = "answered" /\ r.at = clock
        /\ r.store = caller[b].store /\ r.value = checks[i].value
    BY <1>3, <1>5 DEF Request
  <1>7. checks[i].ended # Never /\ checks[i].began <= checks[i].ended
    BY <1>2, <1>4 DEF ProbeInv, CheckOk
  <1>8. Supports(i, r)
    BY <1>4, <1>5, <1>6, <1>7, WatchAssumption DEF Supports
  <1>9. CallerOk(r) /\ Truth(r)
    BY <1>4, <1>5, <1>6, <1>8 DEF CallerOk, Truth
  <1>10. probe' \in Probe /\ ProbeOk'
    BY <1>2 DEF ProbeInv, ProbeType, ProbeOk
  <1> QED
    BY <1>2, <1>3, <1>6, <1>9, <1>10, CallerMoves

LEMMA StepTimesOut ==
    ASSUME ProbeInv, NEW b \in Callers, TimesOut(b)
    PROVE  ProbeInv'
  <1>1. PICK i : i = caller[b].check
    OBVIOUS
  <1>2. /\ UNCHANGED <<clock, store, probe, checks>> /\ caller[b].pc = "waiting"
        /\ caller[b].until <= clock
        /\ caller' = [caller EXCEPT ![b] = [pc |-> "answered", store |-> caller[b].store, check |-> 0,
                                           until |-> 0, value |-> "no", at |-> clock]]
    BY DEF TimesOut, Answer, ProbeInv, ProbeType
  <1>3. PICK r : r = [pc |-> "answered", store |-> caller[b].store, check |-> 0,
                      until |-> 0, value |-> "no", at |-> clock]
    OBVIOUS
  <1>4. /\ i \in 1..Len(checks) /\ checks[i].store = caller[b].store
        /\ checks[i].began + Timeout <= clock
        /\ checks[i].stage = "done" => checks[i].woken = clock
    BY <1>1, <1>2 DEF ProbeInv, CallerOk
  <1>5. caller[b].store \in {1, 2} /\ clock \in Nat
    BY CallerFacts DEF ProbeInv, ProbeType
  <1>6. /\ r \in Request /\ r.pc = "answered" /\ r.at = clock
        /\ r.store = caller[b].store /\ r.value = "no"
    BY <1>3, <1>5 DEF Request, Value
  <1>7. checks[i].woken = Never \/ checks[i].woken = clock
    BY <1>4 DEF ProbeInv, CheckOk
  <1>8. Supports(i, r)
    BY <1>4, <1>5, <1>6, <1>7 DEF Supports
  <1>9. CallerOk(r) /\ Truth(r)
    BY <1>4, <1>5, <1>6, <1>8 DEF CallerOk, Truth
  <1>10. probe' \in Probe /\ ProbeOk'
    BY <1>2 DEF ProbeInv, ProbeType, ProbeOk
  <1> QED
    BY <1>2, <1>3, <1>6, <1>9, <1>10, CallerMoves

LEMMA StepReplaced == ASSUME ProbeInv, Replaced PROVE ProbeInv'
  <1>1. UNCHANGED <<clock, probe, checks, caller>> /\ store = 1 /\ store' = 2
    BY DEF Replaced
  <1>2. ProbeOk'
    BY <1>1, ProbeFacts DEF ProbeInv, ProbeOk
  <1> QED
    BY <1>1, <1>2 DEF ProbeInv, ProbeType, OneRunning, CheckOk, CallerOk, Truth, Supports

LEMMA ProbeTick == ASSUME ProbeInv, Tick PROVE ProbeInv'
  <1>1. /\ clock' = clock + 1 /\ UNCHANGED <<store, probe, checks, caller>> /\ clock \in Nat
        /\ \A b \in Callers : caller[b].pc = "waiting" =>
              clock < caller[b].until /\ checks[caller[b].check].stage # "done"
    BY DEF Tick, probing, ProbeInv, ProbeType
  <1>2. ProbeType' /\ ProbeOk' /\ OneRunning'
    BY <1>1 DEF ProbeInv, ProbeType, ProbeOk, OneRunning
  <1>3. ASSUME NEW i \in 1..Len(checks') PROVE CheckOk(i)'
    <2>1. CheckOk(i) /\ checks[i].began \in Nat /\ checks[i].woken \in Int
      BY <1>1, CheckFacts DEF ProbeInv
    <2> QED
      BY <2>1, <1>1 DEF CheckOk
  <1>4. ASSUME NEW b \in Callers PROVE CallerOk(caller[b])' /\ Truth(caller[b])'
    <2>1. CallerOk(caller[b]) /\ Truth(caller[b]) /\ caller[b].until \in Nat
      BY CallerFacts DEF ProbeInv
    <2>2. CallerOk(caller[b])'
      BY <2>1, <1>1 DEF CallerOk
    <2>3. Truth(caller[b])'
      BY <2>1, <1>1 DEF Truth, Supports
    <2> QED
      BY <2>2, <2>3
  <1> QED
    BY <1>2, <1>3, <1>4 DEF ProbeInv

LEMMA ProbeSame == ASSUME ProbeInv, UNCHANGED <<clock, probing>> PROVE ProbeInv'
  BY DEF ProbeInv, probing, ProbeType, ProbeOk, OneRunning, CheckOk, CallerOk, Truth, Supports

LEMMA ProbeSteps == ASSUME ProbeInv, ProbeStep PROVE ProbeInv'
  <1>1. ASSUME NEW b \in Callers, Asks(b) PROVE ProbeInv'
    BY <1>1, AsksFresh, AsksJoins, AsksStarts
  <1> QED
    BY <1>1, StepAnswered, StepTimesOut, StepCheckEnds, StepCheckWakes, StepReplaced DEF ProbeStep

-----------------------------------------------------------------------------
(***************************************************************************)
(* The live feed.                                                          *)
(***************************************************************************)
LEMMA FeedFacts ==
    ASSUME FeedType, NEW f \in Feeds
    PROVE  /\ feed[f] \in Feed /\ feed[f].pc \in {"away", "admitted", "open", "gone", "closed"}
           /\ feed[f].exp \in Int /\ feed[f].deadline \in Int /\ feed[f].last \in Int
  <1>1. feed[f] \in Feed
    BY DEF FeedType
  <1> QED
    BY <1>1 DEF Feed

LEMMA CastFacts ==
    ASSUME FeedType, NEW e \in Events
    PROVE  cast[e] \in Cast /\ cast[e].left \subseteq Feeds /\ cast[e].dead \subseteq Feeds
  <1>1. cast[e] \in Cast
    BY DEF FeedType
  <1> QED
    BY <1>1 DEF Cast

\* FeedOk and FeedEndsWithSession of one socket
Sound(f) == FeedOk(f) /\ (feed[f].deadline # Never => feed[f].last <= feed[f].deadline)

LEMMA FeedParts == FeedInv <=> FeedType /\ \A f \in Feeds : Sound(f)
  BY DEF FeedInv, FeedEndsWithSession, Sound

\* What the step of one socket leaves alone of the others
LEMMA OneFeedMoves ==
    ASSUME FeedInv, UNCHANGED <<clock, cookie, cast>>, NEW f \in Feeds, NEW r \in Feed,
           feed' = [feed EXCEPT ![f] = r], clients' \in SUBSET Feeds,
           \A g \in Feeds \ {f} : g \in clients' <=> g \in clients, Sound(f)'
    PROVE  FeedInv'
  <1>1. /\ feed' \in [Feeds -> Feed] /\ feed'[f] = r
        /\ \A g \in Feeds \ {f} : feed'[g] = feed[g]
    BY DEF FeedInv, FeedType
  <1>2. FeedType'
    BY <1>1 DEF FeedInv, FeedType
  <1>3. ASSUME NEW g \in Feeds PROVE Sound(g)'
    <2>1. CASE g = f
      BY <2>1
    <2>2. CASE g # f
      <3>1. feed'[g] = feed[g] /\ (g \in clients' <=> g \in clients) /\ Sound(g)
        BY <2>2, <1>1, FeedParts
      <3> QED
        BY <3>1 DEF Sound, FeedOk
    <2> QED
      BY <2>1, <2>2
  <1> QED
    BY <1>2, <1>3, FeedParts DEF FeedInv, FeedEndsWithSession, Sound

LEMMA StepConnects == ASSUME FeedInv, NEW f \in Feeds, Connects(f) PROVE FeedInv'
  <1>1. PICK exp : exp \in {Never, cookie}
                   /\ feed' = [feed EXCEPT ![f].pc = "admitted", ![f].exp = exp]
    BY DEF Connects
  <1>2. UNCHANGED <<clock, cookie, clients, cast>> /\ feed[f].pc = "away"
    BY DEF Connects
  <1>3. feed[f] \in Feed /\ exp \in Int /\ feed \in [Feeds -> Feed] /\ clients \in SUBSET Feeds
    BY <1>1, FeedFacts DEF FeedInv, FeedType, Never
  <1>4. PICK r : r = [feed[f] EXCEPT !.pc = "admitted", !.exp = exp]
    OBVIOUS
  <1>5. /\ r \in Feed /\ r.pc = "admitted" /\ r.deadline = feed[f].deadline
        /\ r.last = feed[f].last
    BY <1>3, <1>4 DEF Feed
  <1>6. feed' = [feed EXCEPT ![f] = r] /\ feed'[f] = r
    BY <1>1, <1>3, <1>4
  <1>7. Sound(f)
    BY FeedParts
  <1>8. Sound(f)'
    BY <1>2, <1>5, <1>6, <1>7 DEF Sound, FeedOk
  <1> QED
    BY <1>2, <1>3, <1>5, <1>6, <1>8, OneFeedMoves

LEMMA StepAccepted == ASSUME FeedInv, NEW f \in Feeds, Accepted(f) PROVE FeedInv'
  <1> DEFINE due == IF Valid(feed[f].exp) THEN feed[f].exp ELSE Never
  <1>1. /\ feed' = [feed EXCEPT ![f].pc = "open", ![f].deadline = due]
        /\ UNCHANGED <<clock, cookie, cast>> /\ clients' = clients \cup {f}
        /\ feed[f].pc = "admitted"
    BY DEF Accepted
  <1>2. PICK deadline : deadline = due
    OBVIOUS
  <1>3. /\ feed[f] \in Feed /\ deadline \in Int /\ feed \in [Feeds -> Feed]
        /\ clock \in Nat /\ clients \in SUBSET Feeds
    BY <1>2, FeedFacts DEF FeedInv, FeedType, Never
  <1>4. deadline # Never => clock < deadline
    BY <1>2 DEF Valid
  <1>5. PICK r : r = [feed[f] EXCEPT !.pc = "open", !.deadline = deadline]
    OBVIOUS
  <1>6. r \in Feed /\ r.pc = "open" /\ r.deadline = deadline /\ r.last = feed[f].last
    BY <1>3, <1>5 DEF Feed
  <1>7. feed' = [feed EXCEPT ![f] = r] /\ feed'[f] = r
    BY <1>1, <1>2, <1>3, <1>5
  <1>8. Sound(f)
    BY FeedParts
  <1>9. Sound(f)'
    <2>1. /\ feed[f].last = Never /\ f \notin clients
          /\ \A e \in Events : f \in cast[e].dead => FALSE
      BY <1>1, <1>8 DEF Sound, FeedOk
    <2>2. deadline # Never => Never <= deadline
      BY <1>3, <1>4 DEF Never
    <2>3. f \in clients' /\ UNCHANGED <<clock, cast>>
      BY <1>1
    <2>4. FeedOk(f)'
      BY <2>1, <2>3, <1>3, <1>4, <1>6, <1>7 DEF FeedOk
    <2> QED
      BY <2>1, <2>2, <2>4, <1>6, <1>7 DEF Sound
  <1>10. clients' \in SUBSET Feeds /\ \A g \in Feeds \ {f} : g \in clients' <=> g \in clients
    BY <1>1, <1>3
  <1> QED
    BY <1>1, <1>3, <1>6, <1>7, <1>9, <1>10, OneFeedMoves

\* The handler leaves a socket that is due, or gone
LEMMA StepLeft ==
    ASSUME FeedInv, NEW f \in Feeds, Left(f, "closed"), UNCHANGED clock, feed[f].pc \in {"open", "gone"}
    PROVE  FeedInv'
  <1>1. /\ feed' = [feed EXCEPT ![f].pc = "closed"] /\ clients' = clients \ {f}
        /\ UNCHANGED <<clock, cookie, cast>>
    BY DEF Left
  <1>2. feed[f] \in Feed /\ feed \in [Feeds -> Feed] /\ clients \in SUBSET Feeds
    BY FeedFacts DEF FeedInv, FeedType
  <1>3. PICK r : r = [feed[f] EXCEPT !.pc = "closed"]
    OBVIOUS
  <1>4. /\ r \in Feed /\ r.pc = "closed" /\ r.deadline = feed[f].deadline
        /\ r.last = feed[f].last
    BY <1>2, <1>3 DEF Feed
  <1>5. feed' = [feed EXCEPT ![f] = r] /\ feed'[f] = r
    BY <1>1, <1>2, <1>3
  <1>6. Sound(f)
    BY FeedParts
  <1>7. Sound(f)'
    BY <1>1, <1>4, <1>5, <1>6 DEF Sound, FeedOk
  <1>8. clients' \in SUBSET Feeds /\ \A g \in Feeds \ {f} : g \in clients' <=> g \in clients
    BY <1>1, <1>2
  <1> QED
    BY <1>1, <1>4, <1>5, <1>7, <1>8, OneFeedMoves

LEMMA StepGoes == ASSUME FeedInv, NEW f \in Feeds, Goes(f) PROVE FeedInv'
  <1>1. /\ feed' = [feed EXCEPT ![f].pc = "gone"] /\ feed[f].pc = "open"
        /\ UNCHANGED <<clock, cookie, clients, cast>>
    BY DEF Goes
  <1>2. feed[f] \in Feed /\ feed \in [Feeds -> Feed] /\ clients \in SUBSET Feeds
    BY FeedFacts DEF FeedInv, FeedType
  <1>3. PICK r : r = [feed[f] EXCEPT !.pc = "gone"]
    OBVIOUS
  <1>4. r \in Feed /\ r.pc = "gone" /\ r.deadline = feed[f].deadline /\ r.last = feed[f].last
    BY <1>2, <1>3 DEF Feed
  <1>5. feed' = [feed EXCEPT ![f] = r] /\ feed'[f] = r
    BY <1>1, <1>2, <1>3
  <1>6. Sound(f)
    BY FeedParts
  <1>7. Sound(f)'
    BY <1>1, <1>4, <1>5, <1>6 DEF Sound, FeedOk
  <1> QED
    BY <1>1, <1>2, <1>4, <1>5, <1>7, OneFeedMoves

LEMMA StepSigns == ASSUME FeedInv, SignsIn \/ SignsOut PROVE FeedInv'
  <1>1. UNCHANGED <<clock, feed, clients, cast>> /\ cookie' \in Int
    BY WatchAssumption DEF SignsIn, SignsOut, FeedInv, FeedType, Never
  <1> QED
    BY <1>1 DEF FeedInv, FeedType, FeedEndsWithSession, FeedOk

-----------------------------------------------------------------------------
(* The broadcasts *)

\* The step of one broadcast that reaches no socket
LEMMA OneCastMoves ==
    ASSUME FeedInv, UNCHANGED <<clock, cookie, feed>>, NEW e \in Events, NEW r \in Cast,
           cast' = [cast EXCEPT ![e] = r], clients' \subseteq clients,
           \A f \in clients \ clients' : feed[f].pc # "open",
           \A f \in r.left : feed[f].pc \notin {"away", "admitted"},
           \A f \in r.dead : feed[f].pc \in {"gone", "closed"}
    PROVE  FeedInv'
  <1>1. cast' \in [Events -> Cast] /\ \A d \in Events : cast'[d] = IF d = e THEN r ELSE cast[d]
    BY DEF FeedInv, FeedType
  <1>2. FeedType'
    BY <1>1 DEF FeedInv, FeedType
  <1>3. ASSUME NEW f \in Feeds PROVE Sound(f)'
    <2>1. Sound(f)
      BY FeedParts
    <2>2. ASSUME NEW d \in Events
          PROVE  /\ f \in cast'[d].left => feed[f].pc \notin {"away", "admitted"}
                 /\ f \in cast'[d].dead => feed[f].pc \in {"gone", "closed"}
      BY <2>1, <1>1 DEF Sound, FeedOk
    <2>3. feed[f].pc = "open" => f \in clients'
      BY <2>1 DEF Sound, FeedOk
    <2> QED
      BY <2>1, <2>2, <2>3 DEF Sound, FeedOk
  <1> QED
    BY <1>2, <1>3 DEF FeedInv, FeedEndsWithSession, Sound

\* A broadcast at work, and the sockets it has to reach or found dead
LEMMA CastSockets ==
    ASSUME FeedInv, NEW e \in Events
    PROVE  /\ \A f \in cast[e].left : feed[f].pc \notin {"away", "admitted"}
           /\ \A f \in cast[e].dead : feed[f].pc \in {"gone", "closed"}
  BY CastFacts DEF FeedInv, FeedOk

LEMMA StepEmitted == ASSUME FeedInv, NEW e \in Events, Emitted(e) PROVE FeedInv'
  <1>1. PICK r : r = [pc |-> "sending", left |-> clients, dead |-> {}]
    OBVIOUS
  <1>2. clients \in SUBSET Feeds /\ \A f \in clients : feed[f].pc \notin {"away", "admitted"}
    BY DEF FeedInv, FeedType, FeedOk
  <1>3. r \in Cast /\ r.left = clients /\ r.dead = {}
    BY <1>1, <1>2 DEF Cast
  <1>4. cast' = [cast EXCEPT ![e] = r] /\ UNCHANGED <<clock, cookie, feed, clients>>
    BY <1>1 DEF Emitted
  <1> QED
    BY <1>2, <1>3, <1>4, OneCastMoves

LEMMA StepSendFails ==
    ASSUME FeedInv, NEW e \in Events, NEW f \in Feeds, SendFails(e, f)
    PROVE  FeedInv'
  <1>1. PICK r : r = [cast[e] EXCEPT !.left = @ \ {f}, !.dead = @ \cup {f}]
    OBVIOUS
  <1>2. /\ cast' = [cast EXCEPT ![e].left = @ \ {f}, ![e].dead = @ \cup {f}]
        /\ UNCHANGED <<clock, cookie, feed, clients>>
        /\ f \in cast[e].left /\ feed[f].pc # "open"
    BY DEF SendFails
  <1>3. cast' = [cast EXCEPT ![e] = r]
    BY <1>1, <1>2
  <1>4. r \in Cast /\ r.left = cast[e].left \ {f} /\ r.dead = cast[e].dead \cup {f}
    BY <1>1, CastFacts DEF Cast, FeedInv
  <1>5. feed[f].pc \in {"gone", "closed"}
    BY <1>2, CastSockets, FeedFacts DEF FeedInv
  <1> QED
    BY <1>2, <1>3, <1>4, <1>5, CastSockets, OneCastMoves

LEMMA StepSendRaises ==
    ASSUME FeedInv, NEW e \in Events, NEW f \in Feeds, SendRaises(e, f)
    PROVE  FeedInv'
  <1>1. PICK r : r = [pc |-> "done", left |-> {}, dead |-> {}]
    OBVIOUS
  <1>2. r \in Cast /\ r.left = {} /\ r.dead = {}
    BY <1>1 DEF Cast
  <1>3. cast' = [cast EXCEPT ![e] = r] /\ UNCHANGED <<clock, cookie, feed, clients>>
    BY <1>1 DEF SendRaises
  <1> QED
    BY <1>2, <1>3, OneCastMoves

LEMMA StepCastEnds == ASSUME FeedInv, NEW e \in Events, CastEnds(e) PROVE FeedInv'
  <1>1. PICK r : r = [cast[e] EXCEPT !.pc = "done", !.dead = {}]
    OBVIOUS
  <1>2. /\ cast' = [cast EXCEPT ![e].pc = "done", ![e].dead = {}]
        /\ clients' = clients \ cast[e].dead /\ UNCHANGED <<clock, cookie, feed>>
    BY DEF CastEnds
  <1>3. cast' = [cast EXCEPT ![e] = r]
    BY <1>1, <1>2
  <1>4. r \in Cast /\ r.left = cast[e].left /\ r.dead = {}
    BY <1>1, CastFacts DEF Cast, FeedInv
  <1>5. \A f \in clients \ clients' : feed[f].pc # "open"
    BY <1>2, CastSockets
  <1> QED
    BY <1>2, <1>3, <1>4, <1>5, CastSockets, OneCastMoves

\* An event reaches a socket: not after its deadline, that the clock has not passed
LEMMA StepSends ==
    ASSUME FeedInv, NEW e \in Events, NEW f \in Feeds, Sends(e, f)
    PROVE  FeedInv'
  <1>1. /\ feed' = [feed EXCEPT ![f].last = clock]
        /\ cast' = [cast EXCEPT ![e].left = @ \ {f}]
        /\ UNCHANGED <<clock, cookie, clients>> /\ feed[f].pc = "open"
    BY DEF Sends
  <1>2. feed[f] \in Feed /\ feed \in [Feeds -> Feed] /\ clock \in Int /\ cast \in [Events -> Cast]
    BY FeedFacts DEF FeedInv, FeedType
  <1>3. PICK r : r = [feed[f] EXCEPT !.last = clock]
    OBVIOUS
  <1>4. r \in Feed /\ r.pc = feed[f].pc /\ r.deadline = feed[f].deadline /\ r.last = clock
    BY <1>2, <1>3 DEF Feed
  <1>5. PICK q : q = [cast[e] EXCEPT !.left = @ \ {f}]
    OBVIOUS
  <1>6. q \in Cast /\ q.left \subseteq cast[e].left /\ q.dead = cast[e].dead
    BY <1>5, CastFacts DEF Cast, FeedInv
  <1>7. /\ feed' \in [Feeds -> Feed] /\ feed'[f] = r
        /\ \A g \in Feeds \ {f} : feed'[g] = feed[g]
    BY <1>1, <1>2, <1>3, <1>4
  <1>8. cast' \in [Events -> Cast] /\ \A d \in Events : cast'[d] = IF d = e THEN q ELSE cast[d]
    BY <1>1, <1>2, <1>5, <1>6
  <1>9. FeedType'
    BY <1>1, <1>7, <1>8 DEF FeedInv, FeedType
  <1>10. ASSUME NEW g \in Feeds PROVE Sound(g)'
    <2>1. Sound(g)
      BY FeedParts
    <2>2. /\ feed'[g].pc = feed[g].pc /\ feed'[g].deadline = feed[g].deadline
          /\ feed'[g].last = IF g = f THEN clock ELSE feed[g].last
      BY <1>4, <1>7
    <2>3. \A d \in Events : /\ g \in cast'[d].left => g \in cast[d].left
                            /\ g \in cast'[d].dead => g \in cast[d].dead
      BY <1>6, <1>8
    <2>4. FeedOk(g)'
      BY <2>1, <2>2, <2>3, <1>1 DEF Sound, FeedOk
    <2>5. feed'[g].deadline # Never => feed'[g].last <= feed'[g].deadline
      BY <2>1, <2>2, <1>1 DEF Sound, FeedOk
    <2> QED
      BY <2>4, <2>5 DEF Sound
  <1> QED
    BY <1>9, <1>10 DEF FeedInv, FeedEndsWithSession, Sound

LEMMA FeedTick == ASSUME FeedInv, Tick PROVE FeedInv'
  <1>1. /\ clock' = clock + 1 /\ clock \in Nat /\ UNCHANGED <<cookie, feed, clients, cast>>
        /\ \A f \in Feeds : ~Due(f)
    BY DEF Tick, feeding, FeedInv, FeedType
  <1>2. ASSUME NEW f \in Feeds PROVE Sound(f)'
    <2>1. Sound(f) /\ feed[f].deadline \in Int
      BY FeedParts, FeedFacts
    <2>2. feed[f].pc = "open" /\ feed[f].deadline # Never => clock + 1 <= feed[f].deadline
      BY <2>1, <1>1 DEF Due, Sound, FeedOk
    <2> QED
      BY <2>1, <2>2, <1>1 DEF Sound, FeedOk
  <1> QED
    BY <1>1, <1>2 DEF FeedInv, FeedType, FeedEndsWithSession, Sound

LEMMA FeedSame == ASSUME FeedInv, UNCHANGED <<clock, feeding>> PROVE FeedInv'
  BY DEF FeedInv, feeding, FeedType, FeedEndsWithSession, FeedOk

LEMMA FeedSteps == ASSUME FeedInv, FeedStep PROVE FeedInv'
  <1>1. ASSUME NEW f \in Feeds, Expires(f) PROVE FeedInv'
    BY <1>1, StepLeft DEF Expires, Left
  <1>2. ASSUME NEW f \in Feeds, Disconnects(f) PROVE FeedInv'
    BY <1>2, StepLeft DEF Disconnects, Left
  <1> QED
    BY <1>1, <1>2, StepSigns, StepConnects, StepAccepted, StepGoes, StepEmitted, StepCastEnds,
       StepSends, StepSendFails, StepSendRaises DEF FeedStep

-----------------------------------------------------------------------------
LEMMA WatchInit == ASSUME Init PROVE WatchInv
  <1>1. checks = <<>> /\ Len(checks) = 0 /\ checks \in Seq(Check)
    BY EmptySeq DEF Init
  <1>2. \A i \in 1..Len(checks) : FALSE
    BY <1>1
  <1>3. probe \in Probe /\ probe.store = 0 /\ probe.running = 0 /\ probe.checked = Never
    BY DEF Init, NoResult, Probe, Value, Never
  <1>4. caller \in [Callers -> Request] /\ \A b \in Callers : caller[b].pc = "idle"
    BY DEF Init, Call, Request, Value, Never
  <1>5. ProbeInv
    BY <1>1, <1>2, <1>3, <1>4
       DEF Init, ProbeInv, ProbeType, ProbeOk, OneRunning, CallerOk, Truth
  <1>6. feed \in [Feeds -> Feed] /\ cast \in [Events -> Cast]
    BY DEF Init, Feed, Cast, Never
  <1>7. FeedInv
    BY <1>6 DEF Init, FeedInv, FeedType, FeedEndsWithSession, FeedOk, Never
  <1> QED
    BY <1>5, <1>7, Halves

LEMMA WatchNext == ASSUME WatchInv, [Next]_vars PROVE WatchInv'
  <1> SUFFICES ProbeInv' /\ FeedInv'
    BY Halves, PTL
  <1>1. ProbeInv /\ FeedInv
    BY Halves
  <1>2. CASE ProbeStep
    <2>1. UNCHANGED <<clock, feeding>>
      BY <1>2 DEF ProbeStep, Asks, Answered, TimesOut, CheckEnds, CheckWakes, Replaced
    <2> QED
      BY <1>1, <1>2, <2>1, ProbeSteps, FeedSame
  <1>3. CASE FeedStep
    <2>1. UNCHANGED <<clock, probing>>
      BY <1>3 DEF FeedStep, SignsIn, SignsOut, Connects, Accepted, Expires, Left, Goes,
                  Disconnects, Emitted, CastEnds, Sends, SendFails, SendRaises
    <2> QED
      BY <1>1, <1>3, <2>1, FeedSteps, ProbeSame
  <1>4. CASE Tick
    BY <1>1, <1>4, ProbeTick, FeedTick
  <1>5. CASE UNCHANGED vars
    BY <1>1, <1>5, ProbeSame, FeedSame DEF vars
  <1> QED
    BY <1>2, <1>3, <1>4, <1>5 DEF Next

\* The inductive invariant holds.
THEOREM WatchInvariant == Spec => []WatchInv
  BY WatchInit, WatchNext, PTL DEF Spec

\* GET /health: what is said of the forensic store is the result of a check of
\* that store no older than the interval, or that one has run for the timeout.
THEOREM ProbesAreTrue == Spec => []ProbeIsTrue
  <1>1. WatchInv => ProbeIsTrue
    BY DEF WatchInv
  <1> QED
    BY <1>1, WatchInvariant, PTL

\* A feed of the dashboard gets nothing after the deadline it was given when it
\* was accepted, even of a broadcast that began before it.
THEOREM FeedsEndInTime == Spec => []FeedEndsWithSession
  <1>1. WatchInv => FeedEndsWithSession
    BY DEF WatchInv
  <1> QED
    BY <1>1, WatchInvariant, PTL
=============================================================================
