--------------------------- MODULE McpCallsProofs ---------------------------
(***************************************************************************)
(* The /mcp requests, for any number of calls and sessions, any limits and *)
(* any number of failures and deaths: what acts is on the record, what is  *)
(* answered is what is counted, and a limit holds while nothing fails.     *)
(***************************************************************************)
EXTENDS McpCalls, TLAPS

LEMMA NewCallType ==
    /\ NewCall \in Call /\ NewCall.phase = "new" /\ NewCall.decision = "none"
    /\ [NewCall EXCEPT !.phase = "gone"] \in Call
    /\ [NewCall EXCEPT !.phase = "gone"].phase = "gone"
  BY McpAssumption DEF NewCall, Call, Phase, Action

\* The state of a call that is answered
LEMMA EndedFacts ==
    ASSUME NEW c, NEW decision \in Action, NEW status \in Nat
    PROVE  /\ Ended(c, decision, status) \in Call
           /\ Ended(c, decision, status).phase = "done"
           /\ Ended(c, decision, status).status = status
           /\ Ended(c, decision, status).counted = Counted(decision, status \in {413, 429})
  BY ZenonT(60), McpAssumption DEF Ended, NewCall, Call, Phase, Action, Counted

LEMMA LimitType ==
    /\ Limit * IpMultiplier \in Nat \ {0} /\ Limit * IpMultiplier >= Limit
    /\ \A k \in Keys : LimitOf(k) \in Nat \ {0}
  BY McpAssumption DEF LimitOf

LEMMA KeysFacts == "ip" \in Keys /\ Sessions \subseteq Keys
  BY DEF Keys

-----------------------------------------------------------------------------
(***************************************************************************)
(* What a step that moves one call has to show.                            *)
(***************************************************************************)
\* AnswerIsCounted, of one call
Truthful(c) == LET a == call[c] IN
    a.phase = "done" =>
        /\ a.status = 200 => a.counted = "ALLOW"
        /\ a.status = 403 => a.counted = "BLOCK"
        /\ a.status = 429 => a.counted \in {"BLOCK", "CIRCUIT_BREAK"}
        /\ a.counted = "none" => a.status \in {400, 500} /\ Untouched(c)
        /\ (settings.closed /\ a.status = 200 /\ c \in executed) => Written(c, "sandbox") # {}

\* What a step of c has to leave of the histories
Grows(c) ==
    /\ settings' = settings /\ log \subseteq log' /\ \A q \in log' \ log : q.call = c
    /\ observing' \ {c} \subseteq observing
    /\ executed' \ {c} \subseteq executed /\ forwarded' \ {c} \subseteq forwarded
    /\ settings.closed /\ c \in executed' \cup forwarded' => Allows(c) \in log'

LEMMA OneCallMoves ==
    ASSUME MInv, NEW c \in Calls, NEW r \in Call, call' = [call EXCEPT ![c] = r],
           Grows(c), executed' \subseteq Calls, forwarded' \subseteq Calls,
           CallOk(c)', Truthful(c)'
    PROVE  CallInv' /\ ActsOnlyRecorded' /\ AnswerIsCounted'
  <1> USE DEF MInv, TypeOK, Grows
  <1>1. ASSUME NEW d \in Calls, d # c PROVE CallOk(d)' /\ Truthful(d)'
    <2>1. call'[d] = call[d] /\ (d \in executed' => d \in executed)
      BY <1>1
    <2>2. /\ \A kind : Written(d, kind) \subseteq Written(d, kind)'
          /\ Untouched(d) => Untouched(d)'
      BY <1>1 DEF Written, Untouched
    <2>3. CallOk(d) /\ Truthful(d)
      BY <1>1 DEF CallInv, AnswerIsCounted, Truthful
    <2> QED
      BY <2>1, <2>2, <2>3 DEF CallOk, Truthful, Allows
  <1>2. CallInv' /\ AnswerIsCounted'
    BY <1>1 DEF CallInv, AnswerIsCounted, Truthful
  <1>3. ActsOnlyRecorded'
    BY DEF ActsOnlyRecorded, Allows
  <1> QED
    BY <1>2, <1>3

\* The counters, when a step leaves them alone
LEMMA CountersKept ==
    ASSUME MInv, NEW c \in Calls, NEW r \in Call, call' = [call EXCEPT ![c] = r],
           r.phase \notin {"sessionTtl", "ipTtl"}, UNCHANGED <<redis, passed>>,
           faults' = 0 => faults = 0
    PROVE  CounterInv'
  <1>1. \A d \in Calls, k \in Keys : Opens(d, k)' => Opens(d, k)
    BY DEF MInv, TypeOK, Opens
  <1> QED
    BY <1>1 DEF MInv, CounterInv

-----------------------------------------------------------------------------
LEMMA InitMInv == Init => MInv
  <1> SUFFICES ASSUME Init PROVE MInv
    OBVIOUS
  <1>1. TypeOK
    BY NewCallType, McpAssumption DEF Init, TypeOK, ForensicRecord
  <1>2. CallInv
    BY NewCallType, McpAssumption DEF Init, CallInv, CallOk, Untouched
  <1>3. CounterInv
    BY NewCallType, LimitType, McpAssumption DEF Init, CounterInv, Opens
  <1>4. ActsOnlyRecorded /\ AnswerIsCounted
    BY NewCallType, McpAssumption DEF Init, ActsOnlyRecorded, AnswerIsCounted
  <1> QED
    BY <1>1, <1>2, <1>3, <1>4 DEF MInv

-----------------------------------------------------------------------------
(***************************************************************************)
(* The steps after the rate limits move one call and leave the counters.   *)
(***************************************************************************)
LEMMA FaultType ==
    ASSUME MInv, Fault \/ NoFault
    PROVE  faults' \in 0..MaxFaults /\ (faults' = 0 => faults = 0)
  BY McpAssumption DEF MInv, TypeOK, Fault, NoFault

LEMMA RecordType ==
    ASSUME MInv, NEW c \in Calls, NEW kind \in {"request", "sandbox", "response", "coordination"},
           NEW action \in Action, Record(c, kind, action)
    PROVE  /\ log' \in SUBSET ForensicRecord /\ log \subseteq log'
           /\ [call |-> c, kind |-> kind, action |-> action] \in log'
           /\ \A q \in log' \ log : q.call = c
  BY DEF MInv, TypeOK, Record, ForensicRecord

\* What such a step does to everything but the call
Around(c) ==
    /\ UNCHANGED <<settings, redis, passed>> /\ (Fault \/ NoFault)
    /\ log \subseteq log' /\ log' \in SUBSET ForensicRecord /\ \A q \in log' \ log : q.call = c
    /\ observing' \in SUBSET (observing \cup {c})
    /\ executed' \in SUBSET (executed \cup {c}) /\ forwarded' \in SUBSET (forwarded \cup {c})
    /\ settings.closed /\ c \in executed' \cup forwarded' => Allows(c) \in log'

LEMMA MovesOn ==
    ASSUME MInv, NEW c \in Calls, NEW r \in Call, call' = [call EXCEPT ![c] = r],
           r.phase \notin {"sessionTtl", "ipTtl"}, Around(c), CallOk(c)', Truthful(c)'
    PROVE  MInv'
  <1>1. Grows(c) /\ executed' \subseteq Calls /\ forwarded' \subseteq Calls
    BY DEF Grows, Around, MInv, TypeOK
  <1>2. CallInv' /\ ActsOnlyRecorded' /\ AnswerIsCounted'
    BY <1>1, OneCallMoves
  <1>3. faults' \in 0..MaxFaults /\ (faults' = 0 => faults = 0)
    BY FaultType DEF Around
  <1>4. CounterInv'
    BY <1>3, CountersKept DEF Around
  <1>5. TypeOK'
    BY <1>1, <1>3 DEF MInv, TypeOK, Around
  <1> QED
    BY <1>2, <1>4, <1>5 DEF MInv

LEMMA CallType ==
    ASSUME MInv, NEW c \in Calls
    PROVE  call[c] \in Call /\ call[c].decision \in Action /\ call[c].phase \in Phase /\ CallOk(c)
  BY DEF MInv, TypeOK, Call, CallInv

\* A step that answers, with the status its decision calls for
LEMMA Answers ==
    ASSUME MInv, NEW c \in Calls, NEW decision \in Action, NEW status \in Nat,
           AnswerAs(c, decision, status), Around(c), executed' = executed,
           call[c].phase \notin {"new", "session", "sessionTtl", "ip", "ipTtl"},
           c \in executed => call[c].phase \in {"runRecording", "guarding", "guardRecording"},
           status = 200 => decision = "ALLOW" /\ call[c].phase = "guarding",
           status = 403 => decision = "BLOCK",
           status = 429 => decision \in {"none", "BLOCK", "CIRCUIT_BREAK"},
           decision = "none" => \/ status \in {413, 429}
                                \/ /\ status \in {400, 500} /\ call[c].phase = "governing"
                                   /\ UNCHANGED <<log, observing, forwarded>>
    PROVE  MInv'
  <1> DEFINE r == Ended(c, decision, status)
  <1>1. /\ r \in Call /\ r.phase = "done" /\ r.status = status
        /\ r.counted = Counted(decision, status \in {413, 429})
    BY EndedFacts
  <1>2. call' = [call EXCEPT ![c] = r] /\ call'[c] = r
    BY DEF AnswerAs, MInv, TypeOK
  <1>3. CallOk(c)'
    BY <1>1, <1>2 DEF CallOk
  <1>4. Written(c, "sandbox") \subseteq Written(c, "sandbox")'
    BY DEF Written, Around
  <1>5. settings'.closed /\ status = 200 /\ c \in executed' => Written(c, "sandbox")' # {}
    BY <1>4 DEF MInv, CallInv, CallOk, Around
  <1>6. Counted(decision, status \in {413, 429}) = "none" => status \in {400, 500} /\ Untouched(c)'
    <2>1. CASE decision = "none" /\ status \notin {413, 429}
      BY <2>1, CallType DEF CallOk, Untouched
    <2> QED
      BY <2>1 DEF Counted
  <1>7. Truthful(c)'
    BY <1>1, <1>2, <1>5, <1>6 DEF Truthful, Counted, Action
  <1> HIDE DEF r
  <1> QED
    BY ZenonT(60), <1>1, <1>2, <1>3, <1>7, MovesOn

\* A step that goes to another phase, its decision and its run as they are
LEMMA GoesOn ==
    ASSUME MInv, NEW c \in Calls, NEW r \in Call, call' = [call EXCEPT ![c] = r], Around(c),
           r.phase \in Phase \ {"sessionTtl", "ipTtl", "done"}, CallOk(c)'
    PROVE  MInv'
  <1>1. call'[c] = r
    BY DEF MInv, TypeOK
  <1>2. Truthful(c)'
    BY <1>1 DEF Truthful
  <1> QED
    BY <1>2, MovesOn

\* The verdict is acted on once its record is written, or dropped in open mode
LEMMA DecidedMoves ==
    ASSUME MInv, NEW c \in Calls, call[c].phase = "recording", Decided(c), Around(c),
           UNCHANGED <<executed, forwarded>>,
           settings.closed /\ call[c].decision = "ALLOW" => Allows(c) \in log'
    PROVE  MInv'
  <1>1. c \notin executed /\ call[c].decision \in {"ALLOW", "BLOCK", "CIRCUIT_BREAK"}
    BY CallType DEF CallOk
  <1>2. CASE call[c].decision = "BLOCK"
    <2>1. AnswerAs(c, "BLOCK", 403)
      BY <1>2 DEF Decided, Answer, AnswerAs
    <2> QED
      BY <1>1, <2>1, Answers, CallType, <1>2
  <1>3. CASE call[c].decision = "CIRCUIT_BREAK"
    <2>1. AnswerAs(c, "CIRCUIT_BREAK", 429)
      BY <1>3 DEF Decided, Answer, AnswerAs
    <2> QED
      BY <1>1, <2>1, Answers, CallType, <1>3
  <1>4. CASE call[c].decision = "ALLOW"
    <2> DEFINE r == [call[c] EXCEPT !.phase = Acts(c)]
    <2>1. /\ r \in Call /\ r.phase \in {"running", "forwarding"}
          /\ r.decision = "ALLOW" /\ call' = [call EXCEPT ![c] = r] /\ call'[c] = r
      BY <1>4, CallType DEF Decided, Goes, Acts, Call, Phase, MInv, TypeOK
    <2>2. CallOk(c)'
      BY <1>1, <1>4, <2>1 DEF CallOk, Around, Allows
    <2> HIDE DEF r
    <2> QED
      BY <2>1, <2>2, GoesOn DEF Phase
  <1> QED
    BY <1>1, <1>2, <1>3, <1>4

LEMMA RejectedMInv == ASSUME MInv, NEW c \in Calls, Rejected(c) PROVE MInv'
  <1>1. Around(c) /\ UNCHANGED <<executed, forwarded, log, observing>>
    BY DEF Rejected, Around, OnlyCall, NotRecorded, MInv, TypeOK, ActsOnlyRecorded, Allows
  <1>2. call[c].phase = "governing" /\ call[c].decision = "none" /\ c \notin executed
    BY CallType DEF Rejected, CallOk
  <1>3. CASE Answer(c, 400) \/ Answer(c, 500)
    <2>1. AnswerAs(c, "none", 400) \/ AnswerAs(c, "none", 500)
      BY <1>2, <1>3 DEF Answer, AnswerAs
    <2> QED
      BY <1>1, <1>2, <2>1, Answers DEF Action
  <1>4. CASE Answer(c, 413)
    <2>1. AnswerAs(c, "none", 413)
      BY <1>2, <1>4 DEF Answer, AnswerAs
    <2> QED
      BY <1>1, <1>2, <2>1, Answers DEF Action
  <1>5. CASE AnswerAs(c, "ERROR", 500)
    BY <1>1, <1>2, <1>5, Answers DEF Action
  <1> QED
    BY <1>3, <1>4, <1>5 DEF Rejected

LEMMA GovernedMInv ==
    ASSUME MInv, NEW c \in Calls, NEW action \in {"ALLOW", "BLOCK", "CIRCUIT_BREAK"},
           Governed(c, action)
    PROVE  MInv'
  <1> DEFINE r == [call[c] EXCEPT !.phase = "recording", !.decision = action]
  <1>1. Around(c) /\ UNCHANGED <<executed, log>> /\ c \notin executed
    BY CallType DEF Governed, Around, OnlyCall, NotRecorded, MInv, TypeOK, ActsOnlyRecorded,
                    Allows, CallOk
  <1>2. /\ r \in Call /\ r.phase = "recording" /\ r.decision = action
        /\ call' = [call EXCEPT ![c] = r] /\ call'[c] = r
    BY ZenonT(60), CallType DEF Governed, Call, Phase, Action, MInv, TypeOK
  <1>3. CallOk(c)'
    BY <1>1, <1>2 DEF CallOk
  <1> HIDE DEF r
  <1> QED
    BY <1>1, <1>2, <1>3, GoesOn DEF Phase

LEMMA RequestRecordedMInv == ASSUME MInv, NEW c \in Calls, RequestRecorded(c) PROVE MInv'
  <1>1. /\ log' \in SUBSET ForensicRecord /\ log \subseteq log'
        /\ \A q \in log' \ log : q.call = c
        /\ [call |-> c, kind |-> "request", action |-> call[c].decision] \in log'
    BY CallType, RecordType DEF RequestRecorded
  <1>2. Around(c)
    BY <1>1 DEF RequestRecorded, Around, OnlyCall, MInv, TypeOK, ActsOnlyRecorded, Allows, Decided
  <1> QED
    BY <1>1, <1>2, DecidedMoves DEF RequestRecorded, Allows

LEMMA RequestNotRecordedMInv ==
    ASSUME MInv, NEW c \in Calls, RequestNotRecorded(c) PROVE MInv'
  <1>1. Around(c) /\ UNCHANGED executed
    BY DEF RequestNotRecorded, Around, OnlyCall, MInv, TypeOK, ActsOnlyRecorded, Allows, Decided
  <1>2. CASE settings.closed
    <2>1. call[c].decision # "none" /\ c \notin executed
      BY CallType DEF RequestNotRecorded, CallOk
    <2> QED
      BY <1>1, <1>2, <2>1, CallType, Answers DEF RequestNotRecorded, Answer, AnswerAs
  <1>3. CASE ~settings.closed
    BY <1>1, <1>3, DecidedMoves DEF RequestNotRecorded
  <1> QED
    BY <1>2, <1>3

LEMMA ObservedMInv ==
    ASSUME MInv, NEW c \in Calls, NEW recorded \in BOOLEAN, Observed(c, recorded)
    PROVE  MInv'
  <1> DEFINE r == call[c]
  <1>1. log' \in SUBSET ForensicRecord /\ log \subseteq log' /\ \A q \in log' \ log : q.call = c
    BY RecordType DEF Observed, MInv, TypeOK, Action
  <1>2. r \in Call /\ call' = [call EXCEPT ![c] = r] /\ call' = call
    BY CallType DEF Observed, MInv, TypeOK
  <1>3. /\ UNCHANGED <<settings, redis, passed, executed, forwarded, faults, call>>
        /\ c \in observing /\ observing' = observing \ {c}
    BY DEF Observed, OnlyCall, NoFault, MInv, TypeOK
  <1>4. \A d \in Calls : Untouched(d) => Untouched(d)'
    BY <1>1, <1>3 DEF Untouched
  <1>5. \A d \in Calls : CallOk(d) => CallOk(d)'
    BY <1>1, <1>2, <1>3, <1>4 DEF CallOk, Allows, Written
  <1>6. CallInv' /\ ActsOnlyRecorded' /\ AnswerIsCounted'
    BY <1>1, <1>2, <1>3, <1>4, <1>5 DEF MInv, CallInv, ActsOnlyRecorded, AnswerIsCounted, Written
  <1>7. CounterInv'
    BY <1>3 DEF MInv, CounterInv, Opens
  <1>8. TypeOK'
    BY <1>1, <1>3 DEF MInv, TypeOK
  <1> QED
    BY <1>6, <1>7, <1>8 DEF MInv

LEMMA RanMInv ==
    ASSUME MInv, NEW c \in Calls, NEW run \in {"ok", "invalid", "unavailable", "raises"},
           NEW started \in BOOLEAN, Ran(c, run, started)
    PROVE  MInv'
  <1>1. /\ call[c].decision = "ALLOW" /\ (settings.closed => Allows(c) \in log)
        /\ call[c].phase = "running"
    BY CallType DEF Ran, CallOk
  <1>2. Around(c) /\ UNCHANGED <<log, settings>>
    BY <1>1 DEF Ran, Around, OnlyCall, MInv, TypeOK
  <1>3. CASE run = "raises"
    <2> DEFINE r == Ended(c, "ALLOW", 500)
    <2>1. /\ r \in Call /\ r.phase = "done" /\ r.status = 500 /\ r.counted = "ALLOW"
      BY EndedFacts DEF Action, Counted
    <2>2. call' = [call EXCEPT ![c] = r]
      BY ZenonT(60), <1>1, <1>3 DEF Ran, Answer
    <2> HIDE DEF r
    <2>3. call'[c] = r
      BY <2>2 DEF MInv, TypeOK
    <2>4. CallOk(c)' /\ Truthful(c)'
      BY <2>1, <2>3 DEF CallOk, Truthful
    <2> QED
      BY <1>2, <2>1, <2>2, <2>4, MovesOn
  <1>4. CASE run # "raises"
    <2> DEFINE r == [call[c] EXCEPT !.phase = "runRecording", !.run = run]
    <2>1. /\ r \in Call /\ r.phase = "runRecording" /\ r.decision = "ALLOW" /\ r.run = run
          /\ call' = [call EXCEPT ![c] = r] /\ call'[c] = r
      BY <1>1, <1>4, CallType DEF Ran, Call, Phase, MInv, TypeOK
    <2>2. CallOk(c)'
      BY <1>1, <1>2, <1>4, <2>1 DEF CallOk, Allows
    <2> HIDE DEF r
    <2> QED
      BY <1>2, <2>1, <2>2, GoesOn DEF Phase
  <1> QED
    BY <1>3, <1>4

\* What the sandbox returned is answered, or goes to the guards, on the record
LEMMA RunAnsweredMoves ==
    ASSUME MInv, NEW c \in Calls, call[c].phase = "runRecording", RunAnswered(c), Around(c),
           UNCHANGED <<executed, forwarded>>,
           settings.closed => Written(c, "sandbox")' # {}
    PROVE  MInv'
  <1>1. /\ call[c].decision = "ALLOW" /\ call[c].run \in {"ok", "invalid", "unavailable"}
        /\ settings.closed => Allows(c) \in log
    BY CallType DEF CallOk, Call
  <1>2. CASE call[c].run = "ok"
    <2> DEFINE r == [call[c] EXCEPT !.phase = "guarding"]
    <2>1. /\ r \in Call /\ r.phase = "guarding" /\ r.decision = "ALLOW"
          /\ call' = [call EXCEPT ![c] = r] /\ call'[c] = r
      BY <1>1, <1>2, CallType DEF RunAnswered, Goes, Call, Phase, MInv, TypeOK
    <2>2. CallOk(c)'
      BY <1>1, <2>1 DEF CallOk, Around, Allows
    <2> HIDE DEF r
    <2> QED
      BY <2>1, <2>2, GoesOn DEF Phase
  <1>3. CASE call[c].run = "invalid"
    <2>1. AnswerAs(c, "BLOCK", 400)
      BY <1>3 DEF RunAnswered
    <2> QED
      BY <1>1, <2>1, Answers DEF Action
  <1>4. CASE call[c].run = "unavailable"
    <2>1. AnswerAs(c, "ERROR", 503)
      BY <1>4 DEF RunAnswered
    <2> QED
      BY <1>1, <2>1, Answers DEF Action
  <1> QED
    BY <1>1, <1>2, <1>3, <1>4

LEMMA RunRecordedMInv == ASSUME MInv, NEW c \in Calls, RunRecorded(c) PROVE MInv'
  <1> DEFINE action == IF call[c].run = "ok" THEN "ALLOW" ELSE "ERROR"
  <1>1. action \in Action /\ Record(c, "sandbox", action)
    BY DEF RunRecorded, Action
  <1> HIDE DEF action
  <1>2. /\ log' \in SUBSET ForensicRecord /\ log \subseteq log'
        /\ \A q \in log' \ log : q.call = c
        /\ [call |-> c, kind |-> "sandbox", action |-> action] \in log'
    BY <1>1, RecordType
  <1>3. Written(c, "sandbox")' # {}
    BY <1>2 DEF Written
  <1>4. Around(c)
    BY <1>2, CallType DEF RunRecorded, Around, OnlyCall, MInv, TypeOK, CallOk
  <1> QED
    BY <1>3, <1>4, RunAnsweredMoves DEF RunRecorded

LEMMA RunNotRecordedMInv == ASSUME MInv, NEW c \in Calls, RunNotRecorded(c) PROVE MInv'
  <1>1. Around(c) /\ UNCHANGED <<executed, forwarded>>
    BY CallType DEF RunNotRecorded, Around, OnlyCall, NotRecorded, MInv, TypeOK, CallOk
  <1>2. CASE settings.closed
    <2>1. call[c].decision = "ALLOW"
      BY CallType DEF RunNotRecorded, CallOk
    <2>2. AnswerAs(c, "ALLOW", 503)
      BY <1>2, <2>1 DEF RunNotRecorded, Answer, AnswerAs
    <2> QED
      BY <1>1, <2>2, Answers DEF Action, RunNotRecorded
  <1>3. CASE ~settings.closed
    BY <1>1, <1>3, RunAnsweredMoves DEF RunNotRecorded
  <1> QED
    BY <1>2, <1>3

LEMMA ForwardedMInv ==
    ASSUME MInv, NEW c \in Calls, NEW how \in {"answers", "unreachable", "fails"},
           Forwarded(c, how)
    PROVE  MInv'
  <1>1. /\ call[c].decision = "ALLOW" /\ c \notin executed
        /\ settings.closed => Allows(c) \in log
    BY CallType DEF Forwarded, CallOk
  <1>2. Around(c) /\ UNCHANGED <<executed, log, settings>>
    BY <1>1 DEF Forwarded, Around, OnlyCall, MInv, TypeOK
  <1>3. CASE Goes(c, "guarding")
    <2> DEFINE r == [call[c] EXCEPT !.phase = "guarding"]
    <2>1. /\ r \in Call /\ r.phase = "guarding" /\ r.decision = "ALLOW"
          /\ call' = [call EXCEPT ![c] = r] /\ call'[c] = r
      BY <1>1, <1>3, CallType DEF Goes, Call, Phase, MInv, TypeOK
    <2>2. CallOk(c)'
      BY <1>1, <1>2, <2>1 DEF CallOk, Allows
    <2> HIDE DEF r
    <2> QED
      BY <1>2, <2>1, <2>2, GoesOn DEF Phase
  <1>4. CASE Answer(c, 502) \/ Answer(c, 500)
    <2>1. AnswerAs(c, "ALLOW", 502) \/ AnswerAs(c, "ALLOW", 500)
      BY <1>1, <1>4 DEF Answer, AnswerAs
    <2>2. call[c].phase = "forwarding"
      BY DEF Forwarded
    <2> QED
      BY <1>1, <1>2, <2>1, <2>2, Answers DEF Action
  <1> QED
    BY <1>3, <1>4 DEF Forwarded

LEMMA GuardedMInv ==
    ASSUME MInv, NEW c \in Calls, NEW verdict \in {"pass", "block", "error", "raises", "unreachable"},
           Guarded(c, verdict)
    PROVE  MInv'
  <1>1. /\ call[c].decision = "ALLOW" /\ call[c].phase = "guarding"
        /\ settings.closed => Allows(c) \in log
    BY CallType DEF Guarded, CallOk
  <1>2. Around(c) /\ UNCHANGED <<executed, log, settings>>
    BY <1>1 DEF Guarded, Around, OnlyCall, NotRecorded, MInv, TypeOK
  <1>3. CASE Answer(c, 200) \/ Answer(c, 500) \/ Answer(c, 502) \/ AnswerAs(c, "BLOCK", 403)
    <2>1. \/ AnswerAs(c, "ALLOW", 200) \/ AnswerAs(c, "ALLOW", 500)
          \/ AnswerAs(c, "ALLOW", 502) \/ AnswerAs(c, "BLOCK", 403)
      BY <1>1, <1>3 DEF Answer, AnswerAs
    <2> QED
      BY <1>1, <1>2, <2>1, Answers DEF Action
  <1>4. CASE call' = [call EXCEPT ![c].phase = "guardRecording", ![c].decision = "BLOCK"]
    <2> DEFINE r == [call[c] EXCEPT !.phase = "guardRecording", !.decision = "BLOCK"]
    <2>1. /\ r \in Call /\ r.phase = "guardRecording" /\ r.decision = "BLOCK"
          /\ call' = [call EXCEPT ![c] = r] /\ call'[c] = r
      BY ZenonT(60), <1>4, CallType DEF Call, Phase, Action, MInv, TypeOK
    <2>2. CallOk(c)'
      BY <1>1, <1>2, <2>1, CallType DEF CallOk, Allows, Written
    <2> HIDE DEF r
    <2> QED
      BY <1>2, <2>1, <2>2, GoesOn DEF Phase
  <1> QED
    BY ZenonT(60), <1>3, <1>4 DEF Guarded

LEMMA GuardErrorRecordedMInv ==
    ASSUME MInv, NEW c \in Calls, GuardErrorRecorded(c) PROVE MInv'
  <1>1. log' \in SUBSET ForensicRecord /\ log \subseteq log' /\ \A q \in log' \ log : q.call = c
    BY RecordType DEF GuardErrorRecorded, Action
  <1>2. call[c].decision = "BLOCK" /\ call[c].phase = "guardRecording"
    BY CallType DEF GuardErrorRecorded, CallOk
  <1>3. Around(c) /\ UNCHANGED executed
    BY <1>1, CallType DEF GuardErrorRecorded, Around, OnlyCall, MInv, TypeOK, CallOk
  <1>4. AnswerAs(c, "BLOCK", 403)
    BY <1>2 DEF GuardErrorRecorded, Answer, AnswerAs
  <1> QED
    BY <1>2, <1>3, <1>4, Answers DEF Action

LEMMA GuardErrorNotRecordedMInv ==
    ASSUME MInv, NEW c \in Calls, GuardErrorNotRecorded(c) PROVE MInv'
  <1>1. call[c].decision = "BLOCK" /\ call[c].phase = "guardRecording"
    BY CallType DEF GuardErrorNotRecorded, CallOk
  <1>2. Around(c) /\ UNCHANGED executed
    BY CallType DEF GuardErrorNotRecorded, Around, OnlyCall, NotRecorded, MInv, TypeOK, CallOk
  <1>3. CASE settings.closed
    <2>1. AnswerAs(c, "BLOCK", 503)
      BY <1>1, <1>3 DEF GuardErrorNotRecorded, Answer, AnswerAs
    <2> QED
      BY <1>1, <1>2, <2>1, Answers DEF Action
  <1>4. CASE ~settings.closed
    <2>1. AnswerAs(c, "BLOCK", 403)
      BY <1>1, <1>4 DEF GuardErrorNotRecorded, Answer, AnswerAs
    <2> QED
      BY <1>1, <1>2, <2>1, Answers DEF Action
  <1> QED
    BY <1>3, <1>4

-----------------------------------------------------------------------------
(***************************************************************************)
(* The rate limits.                                                        *)
(***************************************************************************)
LEMMA ArriveMInv ==
    ASSUME MInv, NEW c \in Calls, NEW s \in Sessions, NEW kind \in {"call", "tool", "list"},
           Arrive(c, s, kind)
    PROVE  MInv'
  <1> DEFINE r == [call[c] EXCEPT !.phase = "session", !.session = s, !.kind = kind]
  <1>1. call[c].decision = "none" /\ c \notin executed /\ Untouched(c)
    BY CallType DEF Arrive, CallOk
  <1>2. /\ r \in Call /\ r.phase = "session" /\ r.decision = "none"
        /\ call' = [call EXCEPT ![c] = r] /\ call'[c] = r
    BY ZenonT(60), <1>1, CallType DEF Arrive, Call, Phase, MInv, TypeOK
  <1>3. Around(c) /\ UNCHANGED <<executed, forwarded, log, observing>>
    BY DEF Arrive, Around, OnlyRates, MInv, TypeOK, ActsOnlyRecorded, Allows
  <1>4. CallOk(c)'
    BY <1>1, <1>2, <1>3 DEF CallOk, Untouched
  <1> HIDE DEF r
  <1> QED
    BY <1>2, <1>3, <1>4, GoesOn DEF Phase

RatePhase == {"session", "ip", "sessionTtl", "ipTtl"}

LEMMA RateFacts ==
    ASSUME MInv, NEW c \in Calls, call[c].phase \in RatePhase
    PROVE  /\ KeyOf(c) \in Keys /\ Next1(c) \in {"ip", "governing"}
           /\ call[c].decision = "none" /\ c \notin executed /\ call[c].session \in Sessions
           /\ Untouched(c)
           /\ AtAddress(c) <=> call[c].phase \in {"ip", "ipTtl"}
           /\ KeyOf(c) = IF AtAddress(c) THEN "ip" ELSE call[c].session
           /\ TtlPhase(c) = IF AtAddress(c) THEN "ipTtl" ELSE "sessionTtl"
           /\ LimitAt(c) \in Nat \ {0} /\ LimitAt(c) <= LimitOf(KeyOf(c))
  <1>1. Limit \in Nat \ {0} /\ Limit * IpMultiplier \in Nat \ {0} /\ Limit * IpMultiplier >= Limit
    BY LimitType, McpAssumption
  <1>2. LimitAt(c) \in Nat \ {0} /\ LimitAt(c) <= LimitOf(KeyOf(c))
    BY <1>1 DEF LimitAt, LimitOf, KeyOf
  <1> QED
    BY <1>2, CallType, McpAssumption DEF RatePhase, CallOk, KeyOf, Keys, Next1, Call, AtAddress,
       TtlPhase

\* A call under the limits goes to its next phase
LEMMA RateGoes ==
    ASSUME MInv, NEW c \in Calls, call[c].phase \in RatePhase, OnlyRates,
           NEW phase \in {"sessionTtl", "ip", "ipTtl", "governing"}, Goes(c, phase)
    PROVE  /\ CallInv' /\ ActsOnlyRecorded' /\ AnswerIsCounted' /\ call' \in [Calls -> Call]
           /\ \A d \in Calls \ {c} : call'[d] = call[d]
           /\ call'[c].phase = phase /\ call'[c].session = call[c].session
  <1> DEFINE r == [call[c] EXCEPT !.phase = phase]
  <1>1. /\ r \in Call /\ r.phase = phase /\ r.decision = "none" /\ r.session = call[c].session
        /\ call' = [call EXCEPT ![c] = r] /\ call'[c] = r
    BY RateFacts, CallType DEF Goes, Call, Phase, MInv, TypeOK
  <1> HIDE DEF r
  <1>2. Grows(c) /\ UNCHANGED <<executed, forwarded, settings, log, observing>>
    BY DEF Grows, OnlyRates, MInv, ActsOnlyRecorded, Allows
  <1>3. executed' \subseteq Calls /\ forwarded' \subseteq Calls
    BY <1>2 DEF MInv, TypeOK
  <1>4. CallOk(c)' /\ Truthful(c)'
    BY <1>1, <1>2, RateFacts DEF CallOk, Truthful, Untouched
  <1>5. CallInv' /\ ActsOnlyRecorded' /\ AnswerIsCounted'
    BY <1>1, <1>2, <1>3, <1>4, OneCallMoves
  <1> QED
    BY <1>1, <1>5 DEF MInv, TypeOK

\* Or it is over its limit
LEMMA RateAnswers ==
    ASSUME MInv, NEW c \in Calls, call[c].phase \in RatePhase, OnlyRates, Answer(c, 429)
    PROVE  /\ CallInv' /\ ActsOnlyRecorded' /\ AnswerIsCounted' /\ call' \in [Calls -> Call]
           /\ \A d \in Calls \ {c} : call'[d] = call[d]
           /\ call'[c].phase = "done"
  <1> DEFINE r == Ended(c, "none", 429)
  <1>1. /\ r \in Call /\ r.phase = "done" /\ r.status = 429 /\ r.counted = "BLOCK"
    BY EndedFacts DEF Action, Counted
  <1>2. call' = [call EXCEPT ![c] = r]
    BY ZenonT(60), RateFacts DEF Answer
  <1> HIDE DEF r
  <1>3. /\ call'[c] = r /\ call' \in [Calls -> Call] /\ \A d \in Calls \ {c} : call'[d] = call[d]
    BY <1>1, <1>2 DEF MInv, TypeOK
  <1>4. Grows(c) /\ UNCHANGED <<executed, forwarded, settings, log>>
    BY DEF Grows, OnlyRates, MInv, ActsOnlyRecorded, Allows
  <1>5. executed' \subseteq Calls /\ forwarded' \subseteq Calls
    BY <1>4 DEF MInv, TypeOK
  <1>6. CallOk(c)' /\ Truthful(c)'
    BY <1>1, <1>3, <1>4, RateFacts DEF CallOk, Truthful
  <1>7. CallInv' /\ ActsOnlyRecorded' /\ AnswerIsCounted'
    BY <1>1, <1>2, <1>4, <1>5, <1>6, OneCallMoves
  <1> QED
    BY <1>1, <1>3, <1>7

\* TypeOK after a step of the limits
LEMMA RateType ==
    ASSUME MInv, OnlyRates, Fault \/ NoFault, call' \in [Calls -> Call],
           redis' \in [Keys -> [n: Nat, ttl: BOOLEAN]], passed' \in [Keys -> Nat]
    PROVE  TypeOK'
  BY FaultType DEF MInv, TypeOK, OnlyRates

\* EXPIRE changes the expiry of one counter
LEMMA TtlSet ==
    ASSUME NEW f \in [Keys -> [n: Nat, ttl: BOOLEAN]], NEW k \in Keys
    PROVE  LET g == [f EXCEPT ![k].ttl = TRUE] IN
           /\ g \in [Keys -> [n: Nat, ttl: BOOLEAN]] /\ g[k].n = f[k].n
           /\ \A j \in Keys \ {k} : g[j] = f[j]
  <1> DEFINE g == [f EXCEPT ![k].ttl = TRUE]  r == f[k]  s == [r EXCEPT !.ttl = TRUE]
  <1>1. s \in [n: Nat, ttl: BOOLEAN]
    BY Zenon
  <1>2. s.n = r.n
    BY <1>1, Zenon
  <1>3. g = [f EXCEPT ![k] = s]
    BY Zenon
  <1> HIDE DEF s
  <1>4. g[k] = s /\ g \in [Keys -> [n: Nat, ttl: BOOLEAN]] /\ \A j \in Keys \ {k} : g[j] = f[j]
    BY <1>1, <1>3
  <1> QED
    BY <1>2, <1>4, Zenon

\* The calls that open a window after c has moved
LEMMA OpensAfter ==
    ASSUME MInv, NEW c \in Calls, call[c].phase \in RatePhase,
           \A d \in Calls \ {c} : call'[d] = call[d],
           call'[c].phase \in {"sessionTtl", "ipTtl"} =>
               /\ call'[c].session = call[c].session
               /\ call'[c].phase = TtlPhase(c),
           NEW j \in Keys, NEW d \in Calls, Opens(d, j)'
    PROVE  \/ d # c /\ Opens(d, j)
           \/ d = c /\ j = KeyOf(c) /\ call'[c].phase \in {"sessionTtl", "ipTtl"}
  <1>1. CASE d # c
    BY <1>1 DEF Opens
  <1>2. CASE d = c
    <2> QED
      BY <1>2, RateFacts DEF Opens, RatePhase
  <1> QED
    BY <1>1, <1>2

LEMMA CountsMInv == ASSUME MInv, NEW c \in Calls, Counts(c) PROVE MInv'
  <1> DEFINE k == KeyOf(c)  n == redis[k].n + 1
  <1>1. /\ k \in Keys /\ call[c].phase \in RatePhase /\ OnlyRates /\ NoFault
        /\ redis' = [redis EXCEPT ![k].n = n] /\ redis[k].n \in Nat
        /\ LimitOf(k) \in Nat \ {0} /\ passed[k] \in Nat
        /\ LimitAt(c) \in Nat \ {0} /\ LimitAt(c) <= LimitOf(k)
    BY RateFacts, LimitType DEF Counts, RatePhase, MInv, TypeOK
  <1>2. /\ redis' \in [Keys -> [n: Nat, ttl: BOOLEAN]] /\ redis'[k].n = n /\ redis'[k].ttl = redis[k].ttl
        /\ \A j \in Keys \ {k} : redis'[j] = redis[j]
    BY <1>1 DEF MInv, TypeOK
  <1> HIDE DEF k
  <1>3. CASE n = 1
    <2> DEFINE phase == TtlPhase(c)
    <2>1. Goes(c, phase) /\ UNCHANGED passed
      BY <1>3 DEF Counts, k
    <2>2. phase \in {"sessionTtl", "ip", "ipTtl", "governing"}
      BY DEF TtlPhase
    <2>3. /\ CallInv' /\ ActsOnlyRecorded' /\ AnswerIsCounted' /\ call' \in [Calls -> Call]
          /\ \A d \in Calls \ {c} : call'[d] = call[d]
          /\ call'[c].phase = phase /\ call'[c].session = call[c].session
      BY <1>1, <2>1, <2>2, RateGoes
    <2>4. TypeOK'
      BY <1>1, <1>2, <2>1, <2>3, RateType DEF MInv, TypeOK
    <2>5. CounterInv'
      <3> SUFFICES ASSUME faults' = 0, NEW j \in Keys
                   PROVE  /\ passed'[j] <= redis'[j].n /\ passed'[j] <= LimitOf(j)
                          /\ redis'[j].ttl => redis'[j].n > 0
                          /\ \A d \in Calls : Opens(d, j)' =>
                                /\ ~redis'[j].ttl
                                /\ passed'[j] < redis'[j].n /\ passed'[j] < LimitOf(j)
                                /\ \A e \in Calls : Opens(e, j)' => e = d
        BY DEF CounterInv
      <3>1. \A d \in Calls : Opens(d, j)' => (d # c /\ Opens(d, j)) \/ (d = c /\ j = k)
        BY <1>1, <2>3, OpensAfter DEF k
      <3>2. CounterInv /\ faults = 0
        BY <1>1 DEF NoFault, MInv
      <3>3. CASE j = k
        <4>1. redis[k].n = 0 /\ passed[k] = 0 /\ ~redis[k].ttl /\ \A d \in Calls : ~Opens(d, k)
          BY <1>1, <1>3, <3>2 DEF CounterInv, MInv, TypeOK
        <4> QED
          BY <1>1, <1>2, <1>3, <2>1, <3>1, <3>3, <4>1
      <3>4. CASE j # k
        BY <1>2, <2>1, <3>1, <3>2, <3>4 DEF CounterInv
      <3> QED
        BY <3>3, <3>4
    <2> QED
      BY <2>3, <2>4, <2>5 DEF MInv
  <1>4. CASE n # 1 /\ n > LimitAt(c)
    <2>1. Answer(c, 429) /\ UNCHANGED passed
      BY <1>4 DEF Counts, k
    <2>2. /\ CallInv' /\ ActsOnlyRecorded' /\ AnswerIsCounted' /\ call' \in [Calls -> Call]
          /\ \A d \in Calls \ {c} : call'[d] = call[d]
          /\ call'[c].phase = "done"
      BY <1>1, <2>1, RateAnswers
    <2>3. TypeOK'
      BY <1>1, <1>2, <2>1, <2>2, RateType DEF MInv, TypeOK
    <2>4. \A d \in Calls, j \in Keys : Opens(d, j)' => Opens(d, j)
      BY <1>1, <2>2, OpensAfter
    <2>5. CounterInv'
      <3>1. \A j \in Keys : redis'[j].n \in Nat /\ redis[j].n \in Nat /\ passed[j] \in Nat
                             /\ redis'[j].n >= redis[j].n /\ redis'[j].ttl = redis[j].ttl
        BY <1>1, <1>2 DEF MInv, TypeOK
      <3> QED
        BY <1>1, <2>1, <2>4, <3>1, LimitType DEF CounterInv, MInv, NoFault
    <2> QED
      BY <2>2, <2>3, <2>5 DEF MInv
  <1>5. CASE n # 1 /\ ~(n > LimitAt(c))
    <2>1. Goes(c, Next1(c)) /\ passed' = [passed EXCEPT ![k] = @ + 1]
      BY <1>5 DEF Counts, Passes, k
    <2>2. Next1(c) \in {"ip", "governing"}
      BY <1>1, RateFacts
    <2>3. /\ CallInv' /\ ActsOnlyRecorded' /\ AnswerIsCounted' /\ call' \in [Calls -> Call]
          /\ \A d \in Calls \ {c} : call'[d] = call[d]
          /\ call'[c].phase \in {"ip", "governing"}
      BY <1>1, <2>1, <2>2, RateGoes
    <2>4. /\ passed' \in [Keys -> Nat] /\ passed'[k] = passed[k] + 1
          /\ \A j \in Keys \ {k} : passed'[j] = passed[j]
      BY <1>1, <2>1 DEF MInv, TypeOK
    <2>5. TypeOK'
      BY <1>1, <1>2, <2>3, <2>4, RateType
    <2>6. \A d \in Calls, j \in Keys : Opens(d, j)' => Opens(d, j)
      BY <1>1, <2>3, OpensAfter
    <2>7. CounterInv'
      <3> SUFFICES ASSUME faults' = 0, NEW j \in Keys
                   PROVE  /\ passed'[j] <= redis'[j].n /\ passed'[j] <= LimitOf(j)
                          /\ redis'[j].ttl => redis'[j].n > 0
                          /\ \A d \in Calls : Opens(d, j)' =>
                                /\ ~redis'[j].ttl
                                /\ passed'[j] < redis'[j].n /\ passed'[j] < LimitOf(j)
                                /\ \A e \in Calls : Opens(e, j)' => e = d
        BY DEF CounterInv
      <3>1. CounterInv /\ faults = 0
        BY <1>1 DEF NoFault, MInv
      <3>2. CASE j = k
        BY <1>1, <1>2, <1>5, <2>4, <2>6, <3>1, <3>2 DEF CounterInv
      <3>3. CASE j # k
        BY <1>2, <2>4, <2>6, <3>1, <3>3 DEF CounterInv
      <3> QED
        BY <3>2, <3>3
    <2> QED
      BY <2>3, <2>5, <2>7 DEF MInv
  <1> QED
    BY <1>3, <1>4, <1>5

LEMMA SetsExpiryMInv == ASSUME MInv, NEW c \in Calls, SetsExpiry(c) PROVE MInv'
  <1> DEFINE k == KeyOf(c)
  <1>1. /\ k \in Keys /\ call[c].phase \in RatePhase /\ OnlyRates /\ NoFault /\ Opens(c, k)
        /\ LimitOf(k) \in Nat \ {0} /\ passed[k] \in Nat /\ redis[k].n \in Nat
        /\ Next1(c) \in {"ip", "governing"}
    BY RateFacts, LimitType DEF SetsExpiry, RatePhase, MInv, TypeOK, Opens
  <1>2. /\ redis' = [redis EXCEPT ![k].ttl = TRUE] /\ passed' = [passed EXCEPT ![k] = @ + 1]
        /\ Goes(c, Next1(c))
    BY DEF SetsExpiry, Passes
  <1> HIDE DEF k
  <1>3. /\ redis' \in [Keys -> [n: Nat, ttl: BOOLEAN]] /\ redis'[k].n = redis[k].n
        /\ passed' \in [Keys -> Nat] /\ passed'[k] = passed[k] + 1
        /\ \A j \in Keys \ {k} : redis'[j] = redis[j] /\ passed'[j] = passed[j]
    <2>1. redis \in [Keys -> [n: Nat, ttl: BOOLEAN]] /\ passed \in [Keys -> Nat]
      BY DEF MInv, TypeOK
    <2>2. /\ redis' \in [Keys -> [n: Nat, ttl: BOOLEAN]] /\ redis'[k].n = redis[k].n
          /\ \A j \in Keys \ {k} : redis'[j] = redis[j]
      BY <1>1, <1>2, <2>1, TtlSet, Zenon
    <2>3. /\ passed' \in [Keys -> Nat] /\ passed'[k] = passed[k] + 1
          /\ \A j \in Keys \ {k} : passed'[j] = passed[j]
      BY <1>1, <1>2, <2>1
    <2> QED
      BY <2>2, <2>3, Zenon
  <1>4. /\ CallInv' /\ ActsOnlyRecorded' /\ AnswerIsCounted' /\ call' \in [Calls -> Call]
        /\ \A d \in Calls \ {c} : call'[d] = call[d]
        /\ call'[c].phase \in {"ip", "governing"}
    BY <1>1, <1>2, RateGoes
  <1>5. TypeOK'
    BY <1>1, <1>3, <1>4, RateType
  <1>6. \A d \in Calls, j \in Keys : Opens(d, j)' => d # c /\ Opens(d, j)
    BY <1>1, <1>4, OpensAfter
  <1>7. CounterInv'
    <2> SUFFICES ASSUME faults' = 0, NEW j \in Keys
                 PROVE  /\ passed'[j] <= redis'[j].n /\ passed'[j] <= LimitOf(j)
                        /\ redis'[j].ttl => redis'[j].n > 0
                        /\ \A d \in Calls : Opens(d, j)' =>
                              /\ ~redis'[j].ttl
                              /\ passed'[j] < redis'[j].n /\ passed'[j] < LimitOf(j)
                              /\ \A e \in Calls : Opens(e, j)' => e = d
      BY DEF CounterInv
    <2>1. CounterInv /\ faults = 0
      BY <1>1 DEF NoFault, MInv
    <2>2. CASE j = k
      <3>1. passed[k] < redis[k].n /\ passed[k] < LimitOf(k) /\ \A d \in Calls : Opens(d, k) => d = c
        BY <1>1, <2>1 DEF CounterInv
      <3> QED
        BY <1>1, <1>3, <1>6, <2>2, <3>1
    <2>3. CASE j # k
      BY <1>3, <1>6, <2>1, <2>3 DEF CounterInv
    <2> QED
      BY <2>2, <2>3
  <1> QED
    BY <1>4, <1>5, <1>7 DEF MInv

LEMMA RedisFailsMInv ==
    ASSUME MInv, NEW c \in Calls, NEW effect \in BOOLEAN, RedisFails(c, effect)
    PROVE  MInv'
  <1>1. /\ KeyOf(c) \in Keys /\ call[c].phase \in RatePhase /\ OnlyRates /\ Fault
        /\ Next1(c) \in {"ip", "governing"} /\ Goes(c, Next1(c)) /\ UNCHANGED passed
    BY RateFacts DEF RedisFails, RatePhase
  <1>2. redis' \in [Keys -> [n: Nat, ttl: BOOLEAN]]
    <2> DEFINE k == KeyOf(c)
    <2>1. \/ redis' = redis \/ redis' = [redis EXCEPT ![k].n = @ + 1]
          \/ redis' = [redis EXCEPT ![k].ttl = TRUE]
      BY DEF RedisFails
    <2>2. k \in Keys /\ redis \in [Keys -> [n: Nat, ttl: BOOLEAN]]
      BY <1>1 DEF MInv, TypeOK
    <2> HIDE DEF k
    <2>3. CASE redis' = redis \/ redis' = [redis EXCEPT ![k].n = @ + 1]
      BY <2>2, <2>3
    <2>4. CASE redis' = [redis EXCEPT ![k].ttl = TRUE]
      BY <2>2, <2>4, TtlSet, Zenon
    <2> QED
      BY <2>1, <2>3, <2>4
  <1>3. /\ CallInv' /\ ActsOnlyRecorded' /\ AnswerIsCounted' /\ call' \in [Calls -> Call]
    BY <1>1, RateGoes
  <1>4. TypeOK'
    BY <1>1, <1>2, <1>3, RateType DEF MInv, TypeOK
  <1>5. CounterInv'
    BY <1>1 DEF CounterInv, Fault, MInv, TypeOK
  <1> QED
    BY <1>3, <1>4, <1>5 DEF MInv

LEMMA ExpiresMInv == ASSUME MInv, NEW k \in Keys, Expires(k) PROVE MInv'
  <1>1. /\ UNCHANGED <<settings, call, log, observing, executed, forwarded, faults>>
    BY DEF Expires, OnlyRates, NoFault
  <1>2. CallInv' /\ ActsOnlyRecorded' /\ AnswerIsCounted'
    BY <1>1 DEF MInv, CallInv, CallOk, Allows, Written, ActsOnlyRecorded, AnswerIsCounted,
                Untouched
  <1>3. /\ redis' \in [Keys -> [n: Nat, ttl: BOOLEAN]] /\ redis'[k].n = 0 /\ ~redis'[k].ttl
        /\ passed' \in [Keys -> Nat] /\ passed'[k] = 0
        /\ \A j \in Keys \ {k} : redis'[j] = redis[j] /\ passed'[j] = passed[j]
    BY DEF Expires, MInv, TypeOK
  <1>4. TypeOK'
    BY <1>1, <1>3 DEF MInv, TypeOK
  <1>5. CounterInv'
    <2> SUFFICES ASSUME faults = 0 PROVE CounterInv'
      BY <1>1 DEF CounterInv
    <2>1. \A d \in Calls : ~Opens(d, k)
      BY DEF Expires, MInv, CounterInv
    <2>2. \A d \in Calls, j \in Keys : Opens(d, j)' <=> Opens(d, j)
      BY <1>1 DEF Opens
    <2> QED
      BY <1>1, <1>3, <2>1, <2>2, LimitType DEF MInv, CounterInv
  <1> QED
    BY <1>2, <1>4, <1>5 DEF MInv

\* A death: what was under way is gone, what is written stays
LEMMA DiesMInv == ASSUME MInv, Dies PROVE MInv'
  <1> DEFINE gone == [NewCall EXCEPT !.phase = "gone"]
  <1>1. /\ gone \in Call /\ gone.phase = "gone"
    BY NewCallType
  <1>2. /\ UNCHANGED <<settings, redis, log, forwarded, passed>> /\ observing' = {} /\ Fault
        /\ call' = [c \in Calls |-> IF call[c].phase \in {"new", "done"} THEN call[c] ELSE gone]
    BY DEF Dies
  <1> HIDE DEF gone
  <1>3. PICK started \in SUBSET {c \in Calls : call[c].phase = "running"} :
             executed' = executed \cup started
    BY DEF Dies
  <1>4. faults' \in 0..MaxFaults /\ faults' # 0
    BY <1>2, McpAssumption DEF Fault, MInv, TypeOK
  <1>5. TypeOK'
    BY <1>1, <1>2, <1>3, <1>4 DEF MInv, TypeOK
  <1>6. CounterInv'
    BY <1>4 DEF CounterInv
  <1>7. ActsOnlyRecorded'
    <2>1. \A c \in started : settings.closed => Allows(c) \in log
      BY DEF MInv, CallInv, CallOk
    <2> QED
      BY <1>2, <1>3, <2>1 DEF MInv, ActsOnlyRecorded, Allows
  <1>8. ASSUME NEW c \in Calls PROVE CallOk(c)' /\ Truthful(c)'
    <2>1. CASE call[c].phase \in {"new", "done"}
      <3>1. call'[c] = call[c] /\ (c \in executed' => c \in executed)
        BY <1>2, <1>3, <2>1
      <3> QED
        BY <1>2, <1>3, <2>1, <3>1 DEF MInv, CallInv, CallOk, AnswerIsCounted, Truthful, Written,
           Allows, Untouched
    <2>2. CASE call[c].phase \notin {"new", "done"}
      BY <1>1, <1>2, <2>2 DEF CallOk, Truthful
    <2> QED
      BY <2>1, <2>2
  <1>9. CallInv' /\ AnswerIsCounted'
    BY <1>8 DEF CallInv, AnswerIsCounted, Truthful
  <1> QED
    BY <1>5, <1>6, <1>7, <1>9 DEF MInv

-----------------------------------------------------------------------------
LEMMA StepMInv == MInv /\ [Next]_vars => MInv'
  <1> SUFFICES ASSUME MInv, [Next]_vars PROVE MInv'
    OBVIOUS
  <1>1. ASSUME NEW c \in Calls, NEW s \in Sessions, NEW kind \in {"call", "tool", "list"},
               Arrive(c, s, kind)
        PROVE  MInv'
    BY <1>1, ArriveMInv
  <1>2. ASSUME NEW c \in Calls, CallStep(c) PROVE MInv'
    BY <1>2, CountsMInv, SetsExpiryMInv, RedisFailsMInv, RejectedMInv, GovernedMInv,
       RequestRecordedMInv, RequestNotRecordedMInv, RanMInv, RunRecordedMInv,
       RunNotRecordedMInv, ForwardedMInv, GuardedMInv, GuardErrorRecordedMInv,
       GuardErrorNotRecordedMInv DEF CallStep
  <1>3. ASSUME NEW c \in Calls, NEW recorded \in BOOLEAN, Observed(c, recorded) PROVE MInv'
    BY <1>3, ObservedMInv
  <1>4. ASSUME NEW k \in Keys, Expires(k) PROVE MInv'
    BY <1>4, ExpiresMInv
  <1>5. CASE Dies
    BY <1>5, DiesMInv
  <1>6. CASE UNCHANGED vars
    BY <1>6 DEF vars, MInv, TypeOK, CallInv, CallOk, CounterInv, Opens, ActsOnlyRecorded,
                AnswerIsCounted, Written, Allows, Untouched
  <1> QED
    BY <1>1, <1>2, <1>3, <1>4, <1>5, <1>6 DEF Next

\* The strengthening holds in every reachable state: what each phase of a call
\* has on the record, and the counters while nothing has failed.
THEOREM McpInvariant == Spec => []MInv
  <1> QED
    BY InitMInv, StepMInv, PTL DEF Spec

\* With ADMINA_FORENSIC_FAIL_MODE=closed, nothing is executed or forwarded for a
\* request whose ALLOW is not on the record, whatever fails and whenever the
\* process dies.
THEOREM ActsAreRecorded == Spec => []ActsOnlyRecorded
  <1>1. MInv => ActsOnlyRecorded
    BY DEF MInv
  <1> QED
    BY <1>1, McpInvariant, PTL

\* The answer a client gets and what is counted of its request agree.
THEOREM AnswersAreCounted == Spec => []AnswerIsCounted
  <1>1. MInv => AnswerIsCounted
    BY DEF MInv
  <1> QED
    BY <1>1, McpInvariant, PTL

\* While Redis answers and no process dies, no window of any counter lets more
\* requests through than its limit, whatever number of requests race.
THEOREM LimitsHold == Spec => []LimitHolds
  <1>1. MInv => LimitHolds
    BY DEF MInv, CounterInv, LimitHolds
  <1> QED
    BY <1>1, McpInvariant, PTL
=============================================================================
