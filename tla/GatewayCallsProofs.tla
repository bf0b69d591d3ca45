------------------------- MODULE GatewayCallsProofs -------------------------
(***************************************************************************)
(* The chat completions, for any number of calls, worker threads, pieces,  *)
(* failed records and shutdowns: what is forwarded is on the record, a     *)
(* verdict that came late is not used, the records of a call are in order, *)
(* a client gets governed text only, completion records are true, and a    *)
(* call that ended holds no upstream response.                             *)
(***************************************************************************)
EXTENDS GatewayCalls, FiniteSetTheorems, TLAPS

LEMMA NewCallType == NewCall \in Call
  BY DEF NewCall, Call, Phase, Text

LEMMA PhaseFacts ==
    /\ Undecided \subseteq Before /\ Before \subseteq Phase /\ Relay \subseteq Phase
    /\ Before \cap Relay = {}
    /\ {"scanning", "scanrecord", "redacting", "sending", "closing", "ending", "done", "gone"}
          \subseteq Phase \ (Before \cup Relay)
  BY DEF Undecided, Before, Relay, Phase

LEMMA CallFacts ==
    ASSUME GInv, NEW c \in Calls
    PROVE  /\ call[c] \in Call /\ call[c].phase \in Phase /\ call[c].action \in {"ALLOW", "BLOCK"}
           /\ call[c].verdict \in {"ALLOW", "BLOCK"} /\ call[c].out \in Text
           /\ call[c].offered \in Nat /\ call[c].counted \in Nat
           /\ client[c] \in Client /\ client[c].got \in Nat /\ client[c].texts \subseteq Text
           /\ upstream[c] \in {"none", "open", "closed"}
           /\ PlaceOk(c)
  BY DEF GInv, TypeOK, Call, Client

LEMMA BooleanFields ==
    ASSUME GInv, NEW c \in Calls
    PROVE  /\ call[c].stream \in BOOLEAN /\ call[c].error \in BOOLEAN /\ call[c].upok \in BOOLEAN
           /\ call[c].last \in BOOLEAN /\ call[c].whole \in BOOLEAN /\ call[c].sent \in BOOLEAN
           /\ client[c].here \in BOOLEAN
  BY DEF GInv, TypeOK, Call, Client

LEMMA LogsType == ASSUME log \in Seq(ForensicRecord) PROVE Logs \subseteq ForensicRecord
  BY DEF Logs

-----------------------------------------------------------------------------
(***************************************************************************)
(* What a step of one call has to show, and what holds of the others.      *)
(***************************************************************************)
\* ForwardedOnlyRecorded and CompletionIsTrue, of one call
ForwardedOk(c) ==
    LET w == EventRecord(c, "request", "ALLOW")
    IN  c \in forwarded => w \in Logs \/ (~settings.closed /\ w \in unwritten)

CompletionOk(c) ==
    \A w \in writes \cup Logs :
        w.call = c /\ w.kind = "response"
            => /\ w.counted <= client[c].got
               /\ ~w.cancelled /\ ~w.error => w.counted = call[c].offered

LEMMA PerCall ==
    /\ ForwardedOnlyRecorded <=> \A c \in forwarded : ForwardedOk(c)
    /\ CompletionIsTrue <=> \A c \in Calls : CompletionOk(c)
  BY DEF ForwardedOnlyRecorded, ForwardedOk, Logged, Logs, CompletionIsTrue, CompletionOk

\* A step of c leaves the other calls and their records alone
Frame(c) ==
    /\ settings' = settings /\ waiting' \subseteq Job /\ running' \subseteq running
    /\ upstream' \in [Calls -> {"none", "open", "closed"}] /\ client' \in [Calls -> Client]
    /\ \A d \in Calls \ {c} : upstream'[d] = upstream[d] /\ client'[d] = client[d]
    /\ cancelled \subseteq cancelled' /\ cancelled' \subseteq Calls
    /\ forwarded' \subseteq forwarded \cup {c} /\ late' \subseteq late \cup {c}
    /\ unwritten \subseteq unwritten' /\ unwritten' \subseteq ForensicRecord /\ faults' \in Nat
    /\ writes' \subseteq ForensicRecord /\ log' \in Seq(ForensicRecord) /\ Logs \subseteq Logs'
    /\ \A w \in ForensicRecord :
          w.call # c => (w \in writes' <=> w \in writes) /\ (w \in Logs' <=> w \in Logs)

LEMMA OthersKeep ==
    ASSUME GInv, NEW c \in Calls, NEW r \in Call, call' = [call EXCEPT ![c] = r], Frame(c),
           NEW d \in Calls, d # c
    PROVE  PlaceOk(d)' /\ CompletionOk(d)' /\ ForwardedOk(d)'
  <1>1. /\ call'[d] = call[d] /\ client'[d] = client[d] /\ upstream'[d] = upstream[d]
        /\ (d \in late' => d \in late) /\ (d \in forwarded' => d \in forwarded)
        /\ (d \in cancelled => d \in cancelled') /\ settings' = settings
    BY DEF GInv, TypeOK, Frame
  <1>2. PlaceOk(d) /\ CompletionOk(d) /\ (d \in forwarded => ForwardedOk(d))
    BY PerCall DEF GInv
  <1>3. /\ writes \subseteq ForensicRecord /\ Logs \subseteq ForensicRecord
        /\ writes' \subseteq ForensicRecord /\ Logs' \subseteq ForensicRecord
    BY LogsType DEF GInv, TypeOK, Frame, Logs
  <1>4. Pending(d)' = Pending(d) /\ Written(d)' = Written(d)
    BY <1>3 DEF Frame, Pending, Written
  <1>5. DecidedOk(d)' /\ RecordsOk(d)'
    BY <1>1, <1>2, <1>4 DEF PlaceOk, DecidedOk, RecordsOk
  <1>6. TextsOk(d)' /\ CountsOk(d)' /\ UpstreamOk(d)'
    BY <1>1, <1>2 DEF PlaceOk, TextsOk, CountsOk, UpstreamOk
  <1>7. CompletionOk(d)'
    BY <1>1, <1>2, <1>3 DEF CompletionOk, Frame
  <1>8. ForwardedOk(d)'
    BY <1>1, <1>2 DEF ForwardedOk, Frame
  <1> QED
    BY <1>5, <1>6, <1>7, <1>8 DEF PlaceOk

LEMMA FrameStep ==
    ASSUME GInv, NEW c \in Calls, NEW r \in Call, call' = [call EXCEPT ![c] = r], Frame(c),
           RecordsInOrder', WritesInOrder', PlaceOk(c)', CompletionOk(c)', ForwardedOk(c)'
    PROVE  GInv'
  <1>1. \A d \in Calls : PlaceOk(d)' /\ CompletionOk(d)' /\ ForwardedOk(d)'
    BY OthersKeep
  <1>2. ForwardedOnlyRecorded' /\ CompletionIsTrue'
    <2>1. forwarded' \subseteq Calls
      BY DEF GInv, TypeOK, Frame
    <2> QED
      BY <1>1, <2>1 DEF ForwardedOnlyRecorded, ForwardedOk, Logged, Logs, CompletionIsTrue,
                        CompletionOk
  <1>3. IsFiniteSet(running') /\ Cardinality(running') <= Workers
    BY FS_Subset, WorkersAssumption, FS_CardinalityType DEF GInv, TypeOK, Frame
  <1>4. TypeOK'
    BY <1>3 DEF GInv, TypeOK, Frame
  <1> QED
    BY <1>1, <1>2, <1>3, <1>4 DEF GInv

\* A step that writes no record and hands none over
Quiet(c) ==
    /\ UNCHANGED <<settings, writes, log, faults, forwarded, late, unwritten>>
    /\ waiting' \subseteq Job /\ running' \subseteq running
    /\ upstream' \in [Calls -> {"none", "open", "closed"}] /\ client' \in [Calls -> Client]
    /\ \A d \in Calls \ {c} : upstream'[d] = upstream[d] /\ client'[d] = client[d]
    /\ client'[c].got >= client[c].got
    /\ cancelled \subseteq cancelled' /\ cancelled' \subseteq Calls

LEMMA QuietRecords ==
    ASSUME UNCHANGED <<writes, log>>, NEW c
    PROVE  Logs' = Logs /\ Pending(c)' = Pending(c) /\ Written(c)' = Written(c)
  BY DEF Logs, Pending, Written

LEMMA QuietStep ==
    ASSUME GInv, NEW c \in Calls, NEW r \in Call, call' = [call EXCEPT ![c] = r], Quiet(c),
           PlaceOk(c)',
           r.offered = call[c].offered \/ "response" \notin Pending(c) \cup Written(c)
    PROVE  GInv'
  <1>1. Frame(c)
    BY QuietRecords DEF Quiet, Frame, GInv, TypeOK
  <1>2. RecordsInOrder' /\ WritesInOrder'
    BY QuietRecords DEF GInv, RecordsInOrder, WritesInOrder, Quiet
  <1>3. ForwardedOk(c)'
    BY QuietRecords, PerCall DEF ForwardedOk, Quiet, GInv
  <1>4. CompletionOk(c)'
    <2>1. CompletionOk(c) /\ call'[c] = r
      BY PerCall DEF GInv, TypeOK
    <2>2. /\ client[c].got \in Nat /\ client'[c].got \in Nat
          /\ writes \cup Logs \subseteq ForensicRecord
      BY LogsType DEF GInv, TypeOK, Client, Quiet
    <2>3. CASE r.offered = call[c].offered
      BY <2>1, <2>2, <2>3, QuietRecords DEF CompletionOk, Quiet, ForensicRecord
    <2>4. CASE "response" \notin Pending(c) \cup Written(c)
      BY <2>4, QuietRecords DEF CompletionOk, Quiet, Pending, Written
    <2> QED
      BY <2>3, <2>4
  <1> QED
    BY <1>1, <1>2, <1>3, <1>4, FrameStep

-----------------------------------------------------------------------------
(***************************************************************************)
(* The steps that write no record.                                         *)
(***************************************************************************)
\* What a step leaves of a call
SameChecks(k, r) == r.stream = k.stream /\ r.action = k.action /\ r.upok = k.upok
                    /\ r.verdict = k.verdict
SameCounts(k, r) == r.whole = k.whole /\ r.offered = k.offered /\ r.counted = k.counted

\* A step of the handler that does not touch its client
Inside(c) ==
    /\ UNCHANGED <<settings, writes, log, faults, forwarded, late, unwritten, client>>
    /\ cancelled \subseteq cancelled' /\ cancelled' \subseteq cancelled \cup {c}
    /\ waiting' \subseteq Job /\ running' \subseteq running

LEMMA JobType == \A c \in Calls, kind \in {"govern", "scan", "redact"} : <<c, kind>> \in Job
  BY DEF Job

LEMMA InsideFacts ==
    ASSUME GInv, NEW c \in Calls, Inside(c), NEW u \in {"none", "open", "closed"},
           upstream' = [upstream EXCEPT ![c] = u]
    PROVE  /\ Quiet(c) /\ client'[c] = client[c] /\ upstream'[c] = u
           /\ UNCHANGED <<settings, forwarded, late>> /\ cancelled \subseteq cancelled'
           /\ Pending(c)' = Pending(c) /\ Written(c)' = Written(c)
  <1>1. Pending(c)' = Pending(c) /\ Written(c)' = Written(c)
    BY QuietRecords DEF Inside
  <1>2. Quiet(c)
    BY CallFacts DEF GInv, TypeOK, Quiet, Inside
  <1> QED
    BY <1>1, <1>2 DEF GInv, TypeOK, Inside

LEMMA ArriveGInv == ASSUME GInv, NEW c \in Calls, NEW stream \in BOOLEAN, Arrive(c, stream) PROVE GInv'
  <1> DEFINE k == call[c]
  <1>1. k.phase = "none"
    BY DEF Arrive
  <1>2. Inside(c)
    BY JobType DEF Arrive, Inside, GInv, TypeOK
  <1> DEFINE r == [k EXCEPT !.phase = "governing", !.stream = stream]
             u == upstream[c]
  <1>3. r \in Call
    <2>1. "governing" \in Phase
      BY CallFacts DEF Phase, Text
    <2> QED
      BY <2>1, CallFacts, ZenonT(60) DEF Call
  <1>4. /\ call' = [call EXCEPT ![c] = r] /\ call'[c] = r
        /\ u \in {"none", "open", "closed"} /\ upstream' = [upstream EXCEPT ![c] = u]
    BY CallFacts DEF Arrive, GInv, TypeOK
  <1>5. r.phase = "governing" /\ r.action = k.action /\ r.upok = k.upok /\ r.verdict = k.verdict /\ SameCounts(k, r)
    BY <1>1, CallFacts DEF Call, SameChecks, SameCounts
  <1> HIDE DEF r
  <1>6. /\ Quiet(c) /\ client'[c] = client[c] /\ upstream'[c] = u
        /\ UNCHANGED <<settings, forwarded, late>> /\ cancelled \subseteq cancelled'
        /\ Pending(c)' = Pending(c) /\ Written(c)' = Written(c)
    BY <1>2, <1>4, InsideFacts
  <1>7. PlaceOk(c)'
    BY <1>1, <1>4, <1>5, <1>6, CallFacts
       DEF PlaceOk, DecidedOk, RecordsOk, TextsOk, CountsOk, UpstreamOk, Before, Relay,
                 InRelay, Undecided, SameChecks, SameCounts
  <1> QED
    BY <1>1, <1>3, <1>4, <1>5, <1>6, <1>7, QuietStep, CallFacts
       DEF PlaceOk, RecordsOk, Relay, InRelay, SameCounts

LEMMA StreamOpensGInv == ASSUME GInv, NEW c \in Calls, NEW ok \in BOOLEAN, StreamOpens(c, ok) PROVE GInv'
  <1> DEFINE k == call[c]
  <1>1. k.phase = "forwarding" /\ k.stream
    BY DEF StreamOpens
  <1>2. Inside(c)
    BY JobType DEF StreamOpens, Inside, GInv, TypeOK
  <1>3. CASE ok
    <2> DEFINE r == [k EXCEPT !.phase = "starting", !.upok = ok]
               u == "open"
    <2>1. r \in Call
      <3>1. "starting" \in Phase
        BY CallFacts DEF Phase, Text
      <3> QED
        BY <3>1, CallFacts, ZenonT(60) DEF Call
    <2>2. /\ call' = [call EXCEPT ![c] = r] /\ call'[c] = r
          /\ u \in {"none", "open", "closed"} /\ upstream' = [upstream EXCEPT ![c] = u]
      BY <1>3, CallFacts DEF StreamOpens, GInv, TypeOK
    <2>3. r.phase = "starting" /\ r.stream /\ r.action = k.action /\ r.verdict = k.verdict /\ SameCounts(k, r)
      BY <1>1, <1>3, CallFacts DEF Call, SameChecks, SameCounts
    <2> HIDE DEF r
    <2>4. /\ Quiet(c) /\ client'[c] = client[c] /\ upstream'[c] = u
          /\ UNCHANGED <<settings, forwarded, late>> /\ cancelled \subseteq cancelled'
          /\ Pending(c)' = Pending(c) /\ Written(c)' = Written(c)
      BY <1>2, <2>2, InsideFacts
    <2>5. PlaceOk(c)'
      BY <1>1, <1>3, <2>2, <2>3, <2>4, CallFacts
         DEF PlaceOk, DecidedOk, RecordsOk, TextsOk, CountsOk, UpstreamOk, Before, Relay,
                   InRelay, Undecided, SameChecks, SameCounts
    <2> QED
      BY <1>1, <2>1, <2>2, <2>3, <2>4, <2>5, QuietStep, CallFacts
         DEF PlaceOk, RecordsOk, Relay, InRelay, SameCounts
  <1>4. CASE ~ok
    <2> DEFINE r == [k EXCEPT !.phase = "errorbody", !.upok = ok]
               u == "open"
    <2>1. r \in Call
      <3>1. "errorbody" \in Phase
        BY CallFacts DEF Phase, Text
      <3> QED
        BY <3>1, CallFacts, ZenonT(60) DEF Call
    <2>2. /\ call' = [call EXCEPT ![c] = r] /\ call'[c] = r
          /\ u \in {"none", "open", "closed"} /\ upstream' = [upstream EXCEPT ![c] = u]
      BY <1>4, CallFacts DEF StreamOpens, GInv, TypeOK
    <2>3. r.phase = "errorbody" /\ ~r.upok /\ r.stream /\ r.action = k.action /\ r.verdict = k.verdict /\ SameCounts(k, r)
      BY <1>1, <1>4, CallFacts DEF Call, SameChecks, SameCounts
    <2> HIDE DEF r
    <2>4. /\ Quiet(c) /\ client'[c] = client[c] /\ upstream'[c] = u
          /\ UNCHANGED <<settings, forwarded, late>> /\ cancelled \subseteq cancelled'
          /\ Pending(c)' = Pending(c) /\ Written(c)' = Written(c)
      BY <1>2, <2>2, InsideFacts
    <2>5. PlaceOk(c)'
      BY <1>1, <1>4, <2>2, <2>3, <2>4, CallFacts
         DEF PlaceOk, DecidedOk, RecordsOk, TextsOk, CountsOk, UpstreamOk, Before, Relay,
                   InRelay, Undecided, SameChecks, SameCounts
    <2> QED
      BY <1>1, <2>1, <2>2, <2>3, <2>4, <2>5, QuietStep, CallFacts
         DEF PlaceOk, RecordsOk, Relay, InRelay, SameCounts
  <1> QED
    BY <1>3, <1>4 DEF StreamOpens

LEMMA UpstreamFailsGInv == ASSUME GInv, NEW c \in Calls, UpstreamFails(c) PROVE GInv'
  <1> DEFINE k == call[c]
  <1>1. k.phase \in {"forwarding", "errorbody"}
    BY DEF UpstreamFails
  <1>2. Inside(c)
    BY JobType DEF UpstreamFails, Inside, GInv, TypeOK
  <1> DEFINE r == [k EXCEPT !.phase = "sending", !.out = "error", !.error = TRUE]
             u == IF upstream[c] = "open" THEN "closed" ELSE upstream[c]
  <1>3. r \in Call
    <2>1. "sending" \in Phase /\ "error" \in Text
      BY CallFacts DEF Phase, Text
    <2> QED
      BY <2>1, CallFacts, ZenonT(60) DEF Call
  <1>4. /\ call' = [call EXCEPT ![c] = r] /\ call'[c] = r
        /\ u \in {"none", "open", "closed"} /\ upstream' = [upstream EXCEPT ![c] = u]
    BY CallFacts DEF UpstreamFails, GInv, TypeOK
  <1>5. r.phase = "sending" /\ r.out = "error" /\ SameChecks(k, r) /\ SameCounts(k, r)
    BY <1>1, CallFacts DEF Call, SameChecks, SameCounts
  <1> HIDE DEF r
  <1>6. /\ Quiet(c) /\ client'[c] = client[c] /\ upstream'[c] = u
        /\ UNCHANGED <<settings, forwarded, late>> /\ cancelled \subseteq cancelled'
        /\ Pending(c)' = Pending(c) /\ Written(c)' = Written(c)
    BY <1>2, <1>4, InsideFacts
  <1>7. PlaceOk(c)'
    BY <1>1, <1>4, <1>5, <1>6, CallFacts
       DEF PlaceOk, DecidedOk, RecordsOk, TextsOk, CountsOk, UpstreamOk, Before, Relay,
                 InRelay, Undecided, SameChecks, SameCounts
  <1> QED
    BY <1>1, <1>3, <1>4, <1>5, <1>6, <1>7, QuietStep, CallFacts
       DEF PlaceOk, RecordsOk, Relay, InRelay, SameCounts

LEMMA ErrorBodyReadGInv == ASSUME GInv, NEW c \in Calls, ErrorBodyRead(c) PROVE GInv'
  <1> DEFINE k == call[c]
  <1>1. k.phase = "errorbody"
    BY DEF ErrorBodyRead
  <1>2. Inside(c)
    BY JobType DEF ErrorBodyRead, Inside, GInv, TypeOK
  <1> DEFINE r == [k EXCEPT !.phase = "sending", !.out = "raw"]
             u == "closed"
  <1>3. r \in Call
    <2>1. "sending" \in Phase /\ "raw" \in Text
      BY CallFacts DEF Phase, Text
    <2> QED
      BY <2>1, CallFacts, ZenonT(60) DEF Call
  <1>4. /\ call' = [call EXCEPT ![c] = r] /\ call'[c] = r
        /\ u \in {"none", "open", "closed"} /\ upstream' = [upstream EXCEPT ![c] = u]
    BY CallFacts DEF ErrorBodyRead, GInv, TypeOK, Respond
  <1>5. r.phase = "sending" /\ r.out = "raw" /\ SameChecks(k, r) /\ SameCounts(k, r)
    BY <1>1, CallFacts DEF Call, SameChecks, SameCounts
  <1> HIDE DEF r
  <1>6. /\ Quiet(c) /\ client'[c] = client[c] /\ upstream'[c] = u
        /\ UNCHANGED <<settings, forwarded, late>> /\ cancelled \subseteq cancelled'
        /\ Pending(c)' = Pending(c) /\ Written(c)' = Written(c)
    BY <1>2, <1>4, InsideFacts
  <1>7. PlaceOk(c)'
    BY <1>1, <1>4, <1>5, <1>6, CallFacts
       DEF PlaceOk, DecidedOk, RecordsOk, TextsOk, CountsOk, UpstreamOk, Before, Relay,
                 InRelay, Undecided, SameChecks, SameCounts
  <1> QED
    BY <1>1, <1>3, <1>4, <1>5, <1>6, <1>7, QuietStep, CallFacts
       DEF PlaceOk, RecordsOk, Relay, InRelay, SameCounts

LEMMA RelayStartsGInv == ASSUME GInv, NEW c \in Calls, RelayStarts(c) PROVE GInv'
  <1> DEFINE k == call[c]
  <1>1. k.phase = "starting"
    BY DEF RelayStarts
  <1>2. Inside(c)
    BY JobType DEF RelayStarts, Inside, GInv, TypeOK
  <1> DEFINE r == [k EXCEPT !.phase = "streaming"]
             u == upstream[c]
  <1>3. r \in Call
    <2>1. "streaming" \in Phase
      BY CallFacts DEF Phase, Text
    <2> QED
      BY <2>1, CallFacts, Zenon DEF Call
  <1>4. /\ call' = [call EXCEPT ![c] = r] /\ call'[c] = r
        /\ u \in {"none", "open", "closed"} /\ upstream' = [upstream EXCEPT ![c] = u]
    BY CallFacts DEF RelayStarts, GInv, TypeOK
  <1>5. r.phase = "streaming" /\ SameChecks(k, r) /\ SameCounts(k, r)
    BY <1>1, CallFacts DEF Call, SameChecks, SameCounts
  <1> HIDE DEF r
  <1>6. /\ Quiet(c) /\ client'[c] = client[c] /\ upstream'[c] = u
        /\ UNCHANGED <<settings, forwarded, late>> /\ cancelled \subseteq cancelled'
        /\ Pending(c)' = Pending(c) /\ Written(c)' = Written(c)
    BY <1>2, <1>4, InsideFacts
  <1>7. PlaceOk(c)'
    BY <1>1, <1>4, <1>5, <1>6, CallFacts
       DEF PlaceOk, DecidedOk, RecordsOk, TextsOk, CountsOk, UpstreamOk, Before, Relay,
                 InRelay, Undecided, SameChecks, SameCounts
  <1> QED
    BY <1>1, <1>3, <1>4, <1>5, <1>6, <1>7, QuietStep, CallFacts
       DEF PlaceOk, RecordsOk, Relay, InRelay, SameCounts

LEMMA UpstreamSendsGInv == ASSUME GInv, NEW c \in Calls, UpstreamSends(c) PROVE GInv'
  <1> DEFINE k == call[c]
  <1>1. k.phase = "streaming"
    BY DEF UpstreamSends
  <1>2. Inside(c)
    <2>1. waiting' = waiting \/ waiting' = waiting \cup {<<c, "redact">>}
      BY DEF UpstreamSends, Submit
    <2>2. /\ UNCHANGED <<settings, running, writes, log, faults, client, forwarded, late, unwritten>>
          /\ cancelled \subseteq cancelled' /\ cancelled' \subseteq cancelled \cup {c}
      BY DEF UpstreamSends, Submit
    <2> QED
      BY <2>1, <2>2, JobType DEF Inside, GInv, TypeOK
  <1>3. CASE settings.pii
    <2> DEFINE r == [k EXCEPT !.phase = "redacting"]
               u == upstream[c]
    <2>1. r \in Call
      <3>1. "redacting" \in Phase
        BY CallFacts DEF Phase, Text
      <3> QED
        BY <3>1, CallFacts, ZenonT(60) DEF Call
    <2>2. /\ call' = [call EXCEPT ![c] = r] /\ call'[c] = r
          /\ u \in {"none", "open", "closed"} /\ upstream' = [upstream EXCEPT ![c] = u]
      BY <1>3, CallFacts DEF UpstreamSends, GInv, TypeOK, Yield
    <2>3. r.phase = "redacting" /\ SameChecks(k, r) /\ SameCounts(k, r)
      BY <1>1, <1>3, CallFacts DEF Call, SameChecks, SameCounts
    <2> HIDE DEF r
    <2>4. /\ Quiet(c) /\ client'[c] = client[c] /\ upstream'[c] = u
          /\ UNCHANGED <<settings, forwarded, late>> /\ cancelled \subseteq cancelled'
          /\ Pending(c)' = Pending(c) /\ Written(c)' = Written(c)
      BY <1>2, <2>2, InsideFacts
    <2>5. PlaceOk(c)'
      BY <1>1, <1>3, <2>2, <2>3, <2>4, CallFacts
         DEF PlaceOk, DecidedOk, RecordsOk, TextsOk, CountsOk, UpstreamOk, Before, Relay,
                   InRelay, Undecided, SameChecks, SameCounts
    <2> QED
      BY <1>1, <2>1, <2>2, <2>3, <2>4, <2>5, QuietStep, CallFacts
         DEF PlaceOk, RecordsOk, Relay, InRelay, SameCounts
  <1>4. CASE ~settings.pii
    <2> DEFINE r == [k EXCEPT !.phase = "yielding", !.out = "raw", !.last = FALSE, !.offered = @ + 1]
               u == upstream[c]
    <2>1. r \in Call
      <3>1. "yielding" \in Phase /\ "raw" \in Text /\ k.offered + 1 \in Nat
        BY CallFacts DEF Phase, Text
      <3> QED
        BY <3>1, CallFacts, ZenonT(60) DEF Call
    <2>2. /\ call' = [call EXCEPT ![c] = r] /\ call'[c] = r
          /\ u \in {"none", "open", "closed"} /\ upstream' = [upstream EXCEPT ![c] = u]
      BY <1>4, CallFacts DEF UpstreamSends, GInv, TypeOK, Yield
    <2>3. r.phase = "yielding" /\ r.out = "raw" /\ SameChecks(k, r) /\ r.whole = k.whole /\ r.offered = k.offered + 1 /\ r.counted = k.counted
      BY <1>1, <1>4, CallFacts DEF Call, SameChecks, SameCounts
    <2> HIDE DEF r
    <2>4. /\ Quiet(c) /\ client'[c] = client[c] /\ upstream'[c] = u
          /\ UNCHANGED <<settings, forwarded, late>> /\ cancelled \subseteq cancelled'
          /\ Pending(c)' = Pending(c) /\ Written(c)' = Written(c)
      BY <1>2, <2>2, InsideFacts
    <2>5. PlaceOk(c)'
      BY <1>1, <1>4, <2>2, <2>3, <2>4, CallFacts
         DEF PlaceOk, DecidedOk, RecordsOk, TextsOk, CountsOk, UpstreamOk, Before, Relay,
                   InRelay, Undecided, SameChecks, SameCounts
    <2> QED
      BY ZenonT(60), <1>1, <2>1, <2>2, <2>3, <2>4, <2>5, QuietStep, CallFacts
         DEF PlaceOk, RecordsOk, Relay, InRelay, SameCounts
  <1> QED
    BY <1>3, <1>4 DEF UpstreamSends

LEMMA UpstreamEndsGInv == ASSUME GInv, NEW c \in Calls, UpstreamEnds(c) PROVE GInv'
  <1> DEFINE k == call[c]
  <1>1. k.phase = "streaming"
    BY DEF UpstreamEnds
  <1>2. Inside(c)
    <2>1. waiting' \subseteq waiting \cup {<<c, "redact">>, <<c, "scan">>}
      BY DEF UpstreamEnds, Submit, BodyJobs
    <2>2. /\ UNCHANGED <<settings, running, writes, log, faults, client, forwarded, late, unwritten>>
          /\ cancelled \subseteq cancelled' /\ cancelled' \subseteq cancelled \cup {c}
      BY DEF UpstreamEnds, Submit, BodyJobs
    <2> QED
      BY <2>1, <2>2, JobType DEF Inside, GInv, TypeOK
  <1>3. CASE settings.pii
    <2> DEFINE r == [k EXCEPT !.phase = "redacting", !.last = TRUE]
               u == upstream[c]
    <2>1. r \in Call
      <3>1. "redacting" \in Phase
        BY CallFacts DEF Phase, Text
      <3> QED
        BY <3>1, CallFacts, ZenonT(60) DEF Call
    <2>2. /\ call' = [call EXCEPT ![c] = r] /\ call'[c] = r
          /\ u \in {"none", "open", "closed"} /\ upstream' = [upstream EXCEPT ![c] = u]
      BY <1>3, CallFacts DEF UpstreamEnds, GInv, TypeOK, AfterBody
    <2>3. r.phase = "redacting" /\ SameChecks(k, r) /\ SameCounts(k, r)
      BY <1>1, <1>3, CallFacts DEF Call, SameChecks, SameCounts
    <2> HIDE DEF r
    <2>4. /\ Quiet(c) /\ client'[c] = client[c] /\ upstream'[c] = u
          /\ UNCHANGED <<settings, forwarded, late>> /\ cancelled \subseteq cancelled'
          /\ Pending(c)' = Pending(c) /\ Written(c)' = Written(c)
      BY <1>2, <2>2, InsideFacts
    <2>5. PlaceOk(c)'
      BY <1>1, <1>3, <2>2, <2>3, <2>4, CallFacts
         DEF PlaceOk, DecidedOk, RecordsOk, TextsOk, CountsOk, UpstreamOk, Before, Relay,
                   InRelay, Undecided, SameChecks, SameCounts
    <2> QED
      BY <1>1, <2>1, <2>2, <2>3, <2>4, <2>5, QuietStep, CallFacts
         DEF PlaceOk, RecordsOk, Relay, InRelay, SameCounts
  <1>4. CASE ~settings.pii
    <2> DEFINE r == [k EXCEPT !.phase = AfterBody, !.whole = TRUE]
               u == "closed"
    <2>1. r \in Call
      <3>1. AfterBody \in Phase
        BY CallFacts DEF Phase, Text, AfterBody
      <3> QED
        BY <3>1, CallFacts, ZenonT(60) DEF Call
    <2>2. /\ call' = [call EXCEPT ![c] = r] /\ call'[c] = r
          /\ u \in {"none", "open", "closed"} /\ upstream' = [upstream EXCEPT ![c] = u]
      BY <1>4, CallFacts DEF UpstreamEnds, GInv, TypeOK, AfterBody
    <2>3. r.phase \in {"scanning", "closing"} /\ SameChecks(k, r) /\ r.offered = k.offered /\ r.counted = k.counted
      BY <1>1, <1>4, CallFacts DEF Call, SameChecks, SameCounts, AfterBody
    <2> HIDE DEF r
    <2>4. /\ Quiet(c) /\ client'[c] = client[c] /\ upstream'[c] = u
          /\ UNCHANGED <<settings, forwarded, late>> /\ cancelled \subseteq cancelled'
          /\ Pending(c)' = Pending(c) /\ Written(c)' = Written(c)
      BY <1>2, <2>2, InsideFacts
    <2>5. PlaceOk(c)'
      BY <1>1, <1>4, <2>2, <2>3, <2>4, CallFacts
         DEF PlaceOk, DecidedOk, RecordsOk, TextsOk, CountsOk, UpstreamOk, Before, Relay,
                   InRelay, Undecided, SameChecks, SameCounts
    <2> QED
      BY <1>1, <2>1, <2>2, <2>3, <2>4, <2>5, QuietStep, CallFacts
         DEF PlaceOk, RecordsOk, Relay, InRelay, SameCounts
  <1> QED
    BY <1>3, <1>4 DEF UpstreamEnds

LEMMA UpstreamBreaksGInv == ASSUME GInv, NEW c \in Calls, UpstreamBreaks(c) PROVE GInv'
  <1> DEFINE k == call[c]
  <1>1. k.phase \in {"streaming", "redacting"} /\ k.stream
    BY CallFacts DEF UpstreamBreaks, PlaceOk, TextsOk, Relay
  <1>2. Inside(c)
    BY JobType DEF UpstreamBreaks, Inside, GInv, TypeOK
  <1> DEFINE r == [k EXCEPT !.phase = "yielding", !.out = "error", !.last = TRUE, !.error = TRUE, !.offered = @ + 1]
             u == upstream[c]
  <1>3. r \in Call
    <2>1. "yielding" \in Phase /\ "error" \in Text /\ k.offered + 1 \in Nat
      BY CallFacts DEF Phase, Text
    <2> QED
      BY <2>1, CallFacts, ZenonT(60) DEF Call
  <1>4. /\ call' = [call EXCEPT ![c] = r] /\ call'[c] = r
        /\ u \in {"none", "open", "closed"} /\ upstream' = [upstream EXCEPT ![c] = u]
    BY CallFacts DEF UpstreamBreaks, GInv, TypeOK
  <1>5. r.phase = "yielding" /\ r.out = "error" /\ r.stream /\ SameChecks(k, r) /\ r.whole = k.whole /\ r.offered = k.offered + 1 /\ r.counted = k.counted
    BY ZenonT(60), <1>1, CallFacts DEF Call, SameChecks, SameCounts
  <1> HIDE DEF r
  <1>6. /\ Quiet(c) /\ client'[c] = client[c] /\ upstream'[c] = u
        /\ UNCHANGED <<settings, forwarded, late>> /\ cancelled \subseteq cancelled'
        /\ Pending(c)' = Pending(c) /\ Written(c)' = Written(c)
    BY <1>2, <1>4, InsideFacts
  <1>7. PlaceOk(c)'
    BY <1>1, <1>4, <1>5, <1>6, CallFacts
       DEF PlaceOk, DecidedOk, RecordsOk, TextsOk, CountsOk, UpstreamOk, Before, Relay,
                 InRelay, Undecided, SameChecks, SameCounts
  <1> QED
    BY ZenonT(60), <1>1, <1>3, <1>4, <1>5, <1>6, <1>7, QuietStep, CallFacts
       DEF PlaceOk, RecordsOk, Relay, InRelay, SameCounts

LEMMA RelayResumesGInv == ASSUME GInv, NEW c \in Calls, RelayResumes(c) PROVE GInv'
  <1> DEFINE k == call[c]
  <1>1. k.phase = "taken"
    BY DEF RelayResumes
  <1>2. Inside(c)
    <2>1. waiting' \subseteq waiting \cup {<<c, "scan">>}
      BY DEF RelayResumes, BodyJobs
    <2>2. /\ UNCHANGED <<settings, running, writes, log, faults, client, forwarded, late, unwritten>>
          /\ cancelled \subseteq cancelled' /\ cancelled' \subseteq cancelled \cup {c}
      BY DEF RelayResumes, BodyJobs
    <2> QED
      BY <2>1, <2>2, JobType DEF Inside, GInv, TypeOK
  <1>3. CASE k.last
    <2> DEFINE r == [k EXCEPT !.counted = @ + 1, !.whole = TRUE, !.phase = AfterBody]
               u == "closed"
    <2>1. r \in Call
      <3>1. AfterBody \in Phase /\ k.counted + 1 \in Nat
        BY CallFacts DEF Phase, Text, AfterBody
      <3> QED
        BY <3>1, CallFacts, ZenonT(60) DEF Call
    <2>2. /\ call' = [call EXCEPT ![c] = r] /\ call'[c] = r
          /\ u \in {"none", "open", "closed"} /\ upstream' = [upstream EXCEPT ![c] = u]
      BY <1>3, CallFacts DEF RelayResumes, GInv, TypeOK, AfterBody
    <2>3. r.phase \in {"scanning", "closing"} /\ SameChecks(k, r) /\ r.offered = k.offered /\ r.counted = k.counted + 1
      BY <1>1, <1>3, CallFacts DEF Call, SameChecks, SameCounts, AfterBody
    <2> HIDE DEF r
    <2>4. /\ Quiet(c) /\ client'[c] = client[c] /\ upstream'[c] = u
          /\ UNCHANGED <<settings, forwarded, late>> /\ cancelled \subseteq cancelled'
          /\ Pending(c)' = Pending(c) /\ Written(c)' = Written(c)
      BY <1>2, <2>2, InsideFacts
    <2>5. PlaceOk(c)'
      BY <1>1, <1>3, <2>2, <2>3, <2>4, CallFacts
         DEF PlaceOk, DecidedOk, RecordsOk, TextsOk, CountsOk, UpstreamOk, Before, Relay,
                   InRelay, Undecided, SameChecks, SameCounts
    <2> QED
      BY <1>1, <2>1, <2>2, <2>3, <2>4, <2>5, QuietStep, CallFacts
         DEF PlaceOk, RecordsOk, Relay, InRelay, SameCounts
  <1>4. CASE ~k.last
    <2> DEFINE r == [k EXCEPT !.counted = @ + 1, !.phase = "streaming"]
               u == upstream[c]
    <2>1. r \in Call
      <3>1. "streaming" \in Phase /\ k.counted + 1 \in Nat
        BY CallFacts DEF Phase, Text
      <3> QED
        BY <3>1, CallFacts, ZenonT(60) DEF Call
    <2>2. /\ call' = [call EXCEPT ![c] = r] /\ call'[c] = r
          /\ u \in {"none", "open", "closed"} /\ upstream' = [upstream EXCEPT ![c] = u]
      BY <1>4, CallFacts DEF RelayResumes, GInv, TypeOK, AfterBody
    <2>3. r.phase = "streaming" /\ SameChecks(k, r) /\ r.whole = k.whole /\ r.offered = k.offered /\ r.counted = k.counted + 1
      BY <1>1, <1>4, CallFacts DEF Call, SameChecks, SameCounts
    <2> HIDE DEF r
    <2>4. /\ Quiet(c) /\ client'[c] = client[c] /\ upstream'[c] = u
          /\ UNCHANGED <<settings, forwarded, late>> /\ cancelled \subseteq cancelled'
          /\ Pending(c)' = Pending(c) /\ Written(c)' = Written(c)
      BY <1>2, <2>2, InsideFacts
    <2>5. PlaceOk(c)'
      BY <1>1, <1>4, <2>2, <2>3, <2>4, CallFacts
         DEF PlaceOk, DecidedOk, RecordsOk, TextsOk, CountsOk, UpstreamOk, Before, Relay,
                   InRelay, Undecided, SameChecks, SameCounts
    <2> QED
      BY <1>1, <2>1, <2>2, <2>3, <2>4, <2>5, QuietStep, CallFacts
         DEF PlaceOk, RecordsOk, Relay, InRelay, SameCounts
  <1> QED
    BY <1>3, <1>4 DEF RelayResumes

LEMMA AnswerReceivedGInv == ASSUME GInv, NEW c \in Calls, NEW kind \in {"json", "other", "error"}, AnswerReceived(c, kind) PROVE GInv'
  <1> DEFINE k == call[c]
  <1>1. k.phase = "forwarding" /\ ~k.stream
    BY DEF AnswerReceived
  <1>2. Inside(c)
    <2>1. waiting' \subseteq waiting \cup {<<c, "redact">>, <<c, "scan">>}
      BY DEF AnswerReceived, Submit
    <2>2. /\ UNCHANGED <<settings, running, writes, log, faults, client, forwarded, late, unwritten>>
          /\ cancelled \subseteq cancelled' /\ cancelled' \subseteq cancelled \cup {c}
      BY DEF AnswerReceived, Submit
    <2> QED
      BY <2>1, <2>2, JobType DEF Inside, GInv, TypeOK
  <1>3. CASE kind = "json" /\ settings.scan
    <2> DEFINE r == [k EXCEPT !.phase = "scanning", !.upok = TRUE]
               u == "closed"
    <2>1. r \in Call
      <3>1. "scanning" \in Phase
        BY CallFacts DEF Phase, Text
      <3> QED
        BY <3>1, CallFacts, ZenonT(60) DEF Call
    <2>2. /\ call' = [call EXCEPT ![c] = r] /\ call'[c] = r
          /\ u \in {"none", "open", "closed"} /\ upstream' = [upstream EXCEPT ![c] = u]
      BY <1>3, CallFacts DEF AnswerReceived, GInv, TypeOK
    <2>3. r.phase = "scanning" /\ ~r.stream /\ r.action = k.action /\ r.verdict = k.verdict /\ SameCounts(k, r)
      BY <1>1, <1>3, CallFacts DEF Call, SameChecks, SameCounts
    <2> HIDE DEF r
    <2>4. /\ Quiet(c) /\ client'[c] = client[c] /\ upstream'[c] = u
          /\ UNCHANGED <<settings, forwarded, late>> /\ cancelled \subseteq cancelled'
          /\ Pending(c)' = Pending(c) /\ Written(c)' = Written(c)
      BY <1>2, <2>2, InsideFacts
    <2>5. PlaceOk(c)'
      BY <1>1, <1>3, <2>2, <2>3, <2>4, CallFacts
         DEF PlaceOk, DecidedOk, RecordsOk, TextsOk, CountsOk, UpstreamOk, Before, Relay,
                   InRelay, Undecided, SameChecks, SameCounts
    <2> QED
      BY <1>1, <2>1, <2>2, <2>3, <2>4, <2>5, QuietStep, CallFacts
         DEF PlaceOk, RecordsOk, Relay, InRelay, SameCounts
  <1>4. CASE kind = "json" /\ ~settings.scan /\ settings.pii
    <2> DEFINE r == [k EXCEPT !.phase = "redacting", !.upok = TRUE]
               u == "closed"
    <2>1. r \in Call
      <3>1. "redacting" \in Phase
        BY CallFacts DEF Phase, Text
      <3> QED
        BY <3>1, CallFacts, ZenonT(60) DEF Call
    <2>2. /\ call' = [call EXCEPT ![c] = r] /\ call'[c] = r
          /\ u \in {"none", "open", "closed"} /\ upstream' = [upstream EXCEPT ![c] = u]
      BY <1>4, CallFacts DEF AnswerReceived, GInv, TypeOK
    <2>3. r.phase = "redacting" /\ ~r.stream /\ r.action = k.action /\ r.verdict = k.verdict /\ SameCounts(k, r)
      BY <1>1, <1>4, CallFacts DEF Call, SameChecks, SameCounts
    <2> HIDE DEF r
    <2>4. /\ Quiet(c) /\ client'[c] = client[c] /\ upstream'[c] = u
          /\ UNCHANGED <<settings, forwarded, late>> /\ cancelled \subseteq cancelled'
          /\ Pending(c)' = Pending(c) /\ Written(c)' = Written(c)
      BY <1>2, <2>2, InsideFacts
    <2>5. PlaceOk(c)'
      BY <1>1, <1>4, <2>2, <2>3, <2>4, CallFacts
         DEF PlaceOk, DecidedOk, RecordsOk, TextsOk, CountsOk, UpstreamOk, Before, Relay,
                   InRelay, Undecided, SameChecks, SameCounts
    <2> QED
      BY <1>1, <2>1, <2>2, <2>3, <2>4, <2>5, QuietStep, CallFacts
         DEF PlaceOk, RecordsOk, Relay, InRelay, SameCounts
  <1>5. CASE kind = "error" \/ (~settings.pii /\ (kind = "other" \/ ~settings.scan))
    <2> DEFINE r == [k EXCEPT !.phase = "sending", !.out = "raw", !.upok = (kind # "error")]
               u == "closed"
    <2>1. r \in Call
      <3>1. "sending" \in Phase /\ "raw" \in Text /\ (kind # "error") \in BOOLEAN
        BY CallFacts DEF Phase, Text
      <3> QED
        BY <3>1, CallFacts, ZenonT(60) DEF Call
    <2>2. /\ call' = [call EXCEPT ![c] = r] /\ call'[c] = r
          /\ u \in {"none", "open", "closed"} /\ upstream' = [upstream EXCEPT ![c] = u]
      BY <1>5, CallFacts DEF AnswerReceived, GInv, TypeOK
    <2>3. r.phase = "sending" /\ r.out = "raw" /\ (settings.pii => ~r.upok) /\ ~r.stream /\ r.action = k.action /\ r.verdict = k.verdict /\ SameCounts(k, r)
      BY <1>1, <1>5, CallFacts DEF Call, SameChecks, SameCounts
    <2> HIDE DEF r
    <2>4. /\ Quiet(c) /\ client'[c] = client[c] /\ upstream'[c] = u
          /\ UNCHANGED <<settings, forwarded, late>> /\ cancelled \subseteq cancelled'
          /\ Pending(c)' = Pending(c) /\ Written(c)' = Written(c)
      BY <1>2, <2>2, InsideFacts
    <2>5. PlaceOk(c)'
      BY <1>1, <1>5, <2>2, <2>3, <2>4, CallFacts
         DEF PlaceOk, DecidedOk, RecordsOk, TextsOk, CountsOk, UpstreamOk, Before, Relay,
                   InRelay, Undecided, SameChecks, SameCounts
    <2> QED
      BY <1>1, <2>1, <2>2, <2>3, <2>4, <2>5, QuietStep, CallFacts
         DEF PlaceOk, RecordsOk, Relay, InRelay, SameCounts
  <1>6. CASE kind = "other" /\ settings.pii
    <2> DEFINE r == [k EXCEPT !.phase = "sending", !.out = "error", !.upok = TRUE]
               u == "closed"
    <2>1. r \in Call
      <3>1. "sending" \in Phase /\ "error" \in Text
        BY CallFacts DEF Phase, Text
      <3> QED
        BY <3>1, CallFacts, ZenonT(60) DEF Call
    <2>2. /\ call' = [call EXCEPT ![c] = r] /\ call'[c] = r
          /\ u \in {"none", "open", "closed"} /\ upstream' = [upstream EXCEPT ![c] = u]
      BY <1>6, CallFacts DEF AnswerReceived, GInv, TypeOK
    <2>3. r.phase = "sending" /\ r.out = "error" /\ ~r.stream /\ r.action = k.action /\ r.verdict = k.verdict /\ SameCounts(k, r)
      BY <1>1, <1>6, CallFacts DEF Call, SameChecks, SameCounts
    <2> HIDE DEF r
    <2>4. /\ Quiet(c) /\ client'[c] = client[c] /\ upstream'[c] = u
          /\ UNCHANGED <<settings, forwarded, late>> /\ cancelled \subseteq cancelled'
          /\ Pending(c)' = Pending(c) /\ Written(c)' = Written(c)
      BY <1>2, <2>2, InsideFacts
    <2>5. PlaceOk(c)'
      BY <1>1, <1>6, <2>2, <2>3, <2>4, CallFacts
         DEF PlaceOk, DecidedOk, RecordsOk, TextsOk, CountsOk, UpstreamOk, Before, Relay,
                   InRelay, Undecided, SameChecks, SameCounts
    <2> QED
      BY <1>1, <2>1, <2>2, <2>3, <2>4, <2>5, QuietStep, CallFacts
         DEF PlaceOk, RecordsOk, Relay, InRelay, SameCounts
  <1> QED
    BY <1>3, <1>4, <1>5, <1>6 DEF AnswerReceived

LEMMA StreamLeftGInv == ASSUME GInv, NEW c \in Calls, StreamLeft(c) PROVE GInv'
  <1> DEFINE k == call[c]
  <1>1. (k.phase \in {"starting", "streaming", "yielding"} \/ k.phase = "redacting") /\ k.stream /\ ~client[c].here
        /\ Pending(c) = {} /\ Written(c) \subseteq {"request"}
    BY CallFacts DEF StreamLeft, Relaying, PlaceOk, TextsOk, RecordsOk, Relay, InRelay
  <1>2. Inside(c)
    <2>1. waiting' \subseteq waiting \cup {<<c, "scan">>}
      BY DEF StreamLeft, BodyJobs
    <2>2. /\ UNCHANGED <<settings, running, writes, log, faults, client, forwarded, late, unwritten>>
          /\ cancelled \subseteq cancelled' /\ cancelled' \subseteq cancelled \cup {c}
      BY DEF StreamLeft, BodyJobs
    <2> QED
      BY <2>1, <2>2, JobType DEF Inside, GInv, TypeOK
  <1>3. CASE call' = [call EXCEPT ![c].phase = AfterBody]
    <2> DEFINE r == [k EXCEPT !.phase = AfterBody]
               u == IF k.phase \in {"starting", "yielding"} THEN upstream[c] ELSE "closed"
    <2>1. r \in Call
      <3>1. AfterBody \in Phase
        BY CallFacts DEF Phase, Text, AfterBody
      <3> QED
        BY <3>1, CallFacts, ZenonT(60) DEF Call
    <2>2. /\ call' = [call EXCEPT ![c] = r] /\ call'[c] = r
          /\ u \in {"none", "open", "closed"} /\ upstream' = [upstream EXCEPT ![c] = u]
      BY <1>3, CallFacts DEF StreamLeft, GInv, TypeOK, RelayLeft
    <2>3. r.phase \in {"scanning", "closing"} /\ r.stream /\ SameChecks(k, r) /\ SameCounts(k, r)
      BY ZenonT(60), <1>1, <1>3, CallFacts DEF Call, SameChecks, SameCounts, AfterBody
    <2> HIDE DEF r
    <2>4. /\ Quiet(c) /\ client'[c] = client[c] /\ upstream'[c] = u
          /\ UNCHANGED <<settings, forwarded, late>> /\ cancelled \subseteq cancelled'
          /\ Pending(c)' = Pending(c) /\ Written(c)' = Written(c)
      BY <1>2, <2>2, InsideFacts
    <2>5. PlaceOk(c)'
      <3>1. DecidedOk(c)'
        BY <1>1, <1>3, <2>2, <2>3, <2>4, CallFacts
           DEF PlaceOk, DecidedOk, Undecided, SameChecks
      <3>2. RecordsOk(c)'
        BY <1>1, <1>3, <2>2, <2>3, <2>4
           DEF RecordsOk, Undecided, Relay, InRelay, SameChecks
      <3>3. TextsOk(c)'
        BY <1>1, <1>3, <2>2, <2>3, <2>4, CallFacts
           DEF PlaceOk, TextsOk, Before, Undecided, Relay, SameChecks
      <3>4. CountsOk(c)'
        BY <1>1, <1>3, <2>2, <2>3, <2>4, CallFacts
           DEF PlaceOk, CountsOk, Before, Undecided, Relay, SameCounts, SameChecks
      <3>5. UpstreamOk(c)'
        BY <1>1, <1>3, <2>2, <2>3, <2>4, CallFacts
           DEF PlaceOk, UpstreamOk, Relay, InRelay, SameChecks
      <3> QED
        BY <3>1, <3>2, <3>3, <3>4, <3>5 DEF PlaceOk
    <2> QED
      BY <1>1, <2>1, <2>2, <2>3, <2>4, <2>5, QuietStep, CallFacts
         DEF PlaceOk, RecordsOk, Relay, InRelay, SameCounts
  <1>4. CASE call' = [call EXCEPT ![c].phase = "closing", ![c].sent = FALSE]
    <2> DEFINE r == [k EXCEPT !.phase = "closing", !.sent = FALSE]
               u == IF k.phase \in {"starting", "yielding"} THEN upstream[c] ELSE "closed"
    <2>1. r \in Call
      <3>1. "closing" \in Phase
        BY CallFacts DEF Phase, Text
      <3> QED
        BY <3>1, CallFacts, ZenonT(60) DEF Call
    <2>2. /\ call' = [call EXCEPT ![c] = r] /\ call'[c] = r
          /\ u \in {"none", "open", "closed"} /\ upstream' = [upstream EXCEPT ![c] = u]
      BY <1>4, CallFacts DEF StreamLeft, GInv, TypeOK, RelayLeft
    <2>3. r.phase = "closing" /\ r.stream /\ SameChecks(k, r) /\ SameCounts(k, r)
      BY ZenonT(60), <1>1, <1>4, CallFacts DEF Call, SameChecks, SameCounts
    <2> HIDE DEF r
    <2>4. /\ Quiet(c) /\ client'[c] = client[c] /\ upstream'[c] = u
          /\ UNCHANGED <<settings, forwarded, late>> /\ cancelled \subseteq cancelled'
          /\ Pending(c)' = Pending(c) /\ Written(c)' = Written(c)
      BY <1>2, <2>2, InsideFacts
    <2>5. PlaceOk(c)'
      <3>1. DecidedOk(c)'
        BY <1>1, <1>4, <2>2, <2>3, <2>4, CallFacts
           DEF PlaceOk, DecidedOk, Undecided, SameChecks
      <3>2. RecordsOk(c)'
        BY <1>1, <1>4, <2>2, <2>3, <2>4
           DEF RecordsOk, Undecided, Relay, InRelay, SameChecks
      <3>3. TextsOk(c)'
        BY <1>1, <1>4, <2>2, <2>3, <2>4, CallFacts
           DEF PlaceOk, TextsOk, Before, Undecided, Relay, SameChecks
      <3>4. CountsOk(c)'
        BY <1>1, <1>4, <2>2, <2>3, <2>4, CallFacts
           DEF PlaceOk, CountsOk, Before, Undecided, Relay, SameCounts, SameChecks
      <3>5. UpstreamOk(c)'
        BY <1>1, <1>4, <2>2, <2>3, <2>4, CallFacts
           DEF PlaceOk, UpstreamOk, Relay, InRelay, SameChecks
      <3> QED
        BY <3>1, <3>2, <3>3, <3>4, <3>5 DEF PlaceOk
    <2> QED
      BY <1>1, <2>1, <2>2, <2>3, <2>4, <2>5, QuietStep, CallFacts
         DEF PlaceOk, RecordsOk, Relay, InRelay, SameCounts
  <1> QED
    BY <1>3, <1>4 DEF StreamLeft

\* A step that writes no record and may drop some of its call's
Drops(c) ==
    /\ UNCHANGED <<settings, log, faults, forwarded, late, client>>
    /\ waiting' \subseteq Job /\ running' \subseteq running
    /\ upstream' \in [Calls -> {"none", "open", "closed"}]
    /\ \A d \in Calls \ {c} : upstream'[d] = upstream[d]
    /\ cancelled \subseteq cancelled' /\ cancelled' \subseteq Calls
    /\ writes' \subseteq writes /\ unwritten \subseteq unwritten'
    /\ unwritten' \subseteq ForensicRecord
    /\ \A w \in writes : w.call # c => w \in writes'

LEMMA DropsStep ==
    ASSUME GInv, NEW c \in Calls, NEW r \in Call, call' = [call EXCEPT ![c] = r], Drops(c),
           PlaceOk(c)', r.offered = call[c].offered
    PROVE  GInv'
  <1>1. Frame(c) /\ Logs' = Logs
    BY DEF Drops, Frame, GInv, TypeOK, Logs
  <1>2. RecordsInOrder'
    BY DEF GInv, RecordsInOrder, Drops
  <1>3. WritesInOrder'
    BY <1>1 DEF GInv, WritesInOrder, Drops
  <1>4. ForwardedOk(c)'
    BY <1>1, PerCall DEF ForwardedOk, Drops, GInv
  <1>5. CompletionOk(c)'
    <2>1. CompletionOk(c) /\ call'[c] = r
      BY PerCall DEF GInv, TypeOK
    <2> QED
      BY <1>1, <2>1 DEF CompletionOk, Drops
  <1> QED
    BY <1>1, <1>2, <1>3, <1>4, <1>5, FrameStep

LEMMA CancelledGInv == ASSUME GInv, NEW c \in Calls, Cancelled(c) PROVE GInv'
  <1> DEFINE k == call[c]
  <1>1. k.phase \in Phase \ {"none", "taken", "closing", "done", "gone"} /\ c \in cancelled'
    BY CallFacts, BooleanFields DEF Cancelled, Phase
  <1>2. /\ UNCHANGED <<settings, running, log, faults, client, forwarded, late>>
        /\ cancelled \subseteq cancelled' /\ cancelled' \subseteq Calls
        /\ waiting' \subseteq Job
    BY DEF Cancelled, GInv, TypeOK
  <1>5. /\ writes' \subseteq writes /\ unwritten \subseteq unwritten'
        /\ unwritten' \subseteq ForensicRecord
        /\ \A w \in writes : w.call # c => w \in writes'
    BY DEF Cancelled, Awaited, GInv, TypeOK
  <1>3. CASE Responding(c)
    <2> DEFINE r == [k EXCEPT !.phase = "closing", !.sent = FALSE]
               u == IF (Relaying(c) /\ k.phase \notin {"starting", "yielding"}) \/ k.phase = "errorbody" THEN "closed" ELSE upstream[c]
    <2>1. r \in Call
      <3>1. "closing" \in Phase
        BY CallFacts DEF Phase, Text
      <3> QED
        BY <3>1, CallFacts, ZenonT(60) DEF Call
    <2>2. /\ call' = [call EXCEPT ![c] = r] /\ call'[c] = r
          /\ u \in {"none", "open", "closed"} /\ upstream' = [upstream EXCEPT ![c] = u]
      BY <1>3, CallFacts DEF Cancelled, GInv, TypeOK, RelayLeft, Relaying
    <2>3. r.phase = "closing" /\ SameChecks(k, r) /\ SameCounts(k, r)
      BY <1>1, <1>3, CallFacts DEF Call, SameChecks, SameCounts
    <2> HIDE DEF r
    <2>4. /\ Drops(c) /\ client'[c] = client[c] /\ upstream'[c] = u
          /\ UNCHANGED <<settings, forwarded, late>> /\ cancelled \subseteq cancelled'
          /\ Pending(c)' \subseteq Pending(c) /\ Written(c)' = Written(c)
      BY <1>2, <1>5, <2>2, CallFacts DEF Drops, GInv, TypeOK, Pending, Written, Logs
    <2>5. PlaceOk(c)'
      <3>1. DecidedOk(c)'
        BY <1>1, <1>3, <2>2, <2>3, <2>4, CallFacts
           DEF PlaceOk, DecidedOk, Undecided, SameChecks, Responding, Relaying
      <3>2. RecordsOk(c)'
        BY <1>1, <1>3, <2>2, <2>3, <2>4, CallFacts
           DEF PlaceOk, RecordsOk, Undecided, Relay, InRelay, SameChecks, Responding, Relaying
      <3>3. TextsOk(c)'
        BY <1>1, <1>3, <2>2, <2>3, <2>4, CallFacts
           DEF PlaceOk, TextsOk, Before, Undecided, Relay, SameChecks, Responding, Relaying
      <3>4. CountsOk(c)'
        BY <1>1, <1>3, <2>2, <2>3, <2>4, CallFacts
           DEF PlaceOk, CountsOk, Before, Undecided, Relay, SameCounts, SameChecks, Responding, Relaying
      <3>5. UpstreamOk(c)'
        BY <1>1, <1>3, <2>2, <2>3, <2>4, CallFacts
           DEF PlaceOk, UpstreamOk, Relay, InRelay, SameChecks, Responding, Relaying
      <3> QED
        BY <3>1, <3>2, <3>3, <3>4, <3>5 DEF PlaceOk
    <2> QED
      BY <1>1, <2>1, <2>2, <2>3, <2>4, <2>5, DropsStep, CallFacts
         DEF PlaceOk, RecordsOk, Relay, InRelay, SameCounts
  <1>4. CASE ~Responding(c)
    <2> DEFINE r == [k EXCEPT !.phase = "gone"]
               u == IF (Relaying(c) /\ k.phase \notin {"starting", "yielding"}) \/ k.phase = "errorbody" THEN "closed" ELSE upstream[c]
    <2>1. r \in Call
      <3>1. "gone" \in Phase
        BY CallFacts DEF Phase, Text
      <3> QED
        BY <3>1, CallFacts, ZenonT(60) DEF Call
    <2>2. /\ call' = [call EXCEPT ![c] = r] /\ call'[c] = r
          /\ u \in {"none", "open", "closed"} /\ upstream' = [upstream EXCEPT ![c] = u]
      BY <1>4, CallFacts DEF Cancelled, GInv, TypeOK, RelayLeft, Relaying
    <2>3. r.phase = "gone" /\ SameChecks(k, r) /\ SameCounts(k, r)
      BY <1>1, <1>4, CallFacts DEF Call, SameChecks, SameCounts
    <2> HIDE DEF r
    <2>4. /\ Drops(c) /\ client'[c] = client[c] /\ upstream'[c] = u
          /\ UNCHANGED <<settings, forwarded, late>> /\ cancelled \subseteq cancelled'
          /\ Pending(c)' \subseteq Pending(c) /\ Written(c)' = Written(c)
      BY <1>2, <1>5, <2>2, CallFacts DEF Drops, GInv, TypeOK, Pending, Written, Logs
    <2>5. PlaceOk(c)'
      <3>1. DecidedOk(c)'
        BY <1>1, <1>4, <2>2, <2>3, <2>4, CallFacts
           DEF PlaceOk, DecidedOk, Undecided, SameChecks, Responding, Relaying
      <3>2. RecordsOk(c)'
        BY <1>1, <1>4, <2>2, <2>3, <2>4, CallFacts
           DEF PlaceOk, RecordsOk, Undecided, Relay, InRelay, SameChecks, Responding, Relaying
      <3>3. TextsOk(c)'
        BY <1>1, <1>4, <2>2, <2>3, <2>4, CallFacts
           DEF PlaceOk, TextsOk, Before, Undecided, Relay, SameChecks, Responding, Relaying
      <3>4. CountsOk(c)'
        BY <1>1, <1>4, <2>2, <2>3, <2>4, CallFacts
           DEF PlaceOk, CountsOk, Before, Undecided, Relay, SameCounts, SameChecks, Responding, Relaying
      <3>5. UpstreamOk(c)'
        BY <1>1, <1>4, <2>2, <2>3, <2>4, CallFacts
           DEF PlaceOk, UpstreamOk, Relay, InRelay, SameChecks, Responding, Relaying
      <3> QED
        BY <3>1, <3>2, <3>3, <3>4, <3>5 DEF PlaceOk
    <2> QED
      BY <1>1, <2>1, <2>2, <2>3, <2>4, <2>5, DropsStep, CallFacts
         DEF PlaceOk, RecordsOk, Relay, InRelay, SameCounts
  <1> QED
    BY <1>3, <1>4 DEF Cancelled

LEMMA RedactedGInv ==
    ASSUME GInv, NEW c \in Calls, NEW ok \in BOOLEAN, call[c].phase = "redacting",
           Redacted(c, ok), Inside(c), UNCHANGED upstream
    PROVE  GInv'
  <1> DEFINE k == call[c]
  <1>1. k.phase = "redacting"
    OBVIOUS
  <1>2. Inside(c)
    OBVIOUS
  <1>3. CASE k.stream /\ ok
    <2> DEFINE r == [k EXCEPT !.phase = "yielding", !.out = "redacted", !.last = k.last, !.offered = @ + 1]
               u == upstream[c]
    <2>1. r \in Call
      <3>1. "yielding" \in Phase /\ "redacted" \in Text /\ k.offered + 1 \in Nat
        BY CallFacts DEF Phase, Text
      <3> QED
        BY <3>1, CallFacts, ZenonT(60) DEF Call
    <2>2. /\ call' = [call EXCEPT ![c] = r] /\ call'[c] = r
          /\ u \in {"none", "open", "closed"} /\ upstream' = [upstream EXCEPT ![c] = u]
      BY <1>3, CallFacts DEF Redacted, GInv, TypeOK, Yield, Respond, RespondBlocked
    <2>3. r.phase = "yielding" /\ r.out = "redacted" /\ r.stream /\ SameChecks(k, r) /\ r.whole = k.whole /\ r.offered = k.offered + 1 /\ r.counted = k.counted
      BY ZenonT(60), <1>1, <1>3, CallFacts DEF Call, SameChecks, SameCounts
    <2> HIDE DEF r
    <2>4. /\ Quiet(c) /\ client'[c] = client[c] /\ upstream'[c] = u
          /\ UNCHANGED <<settings, forwarded, late>> /\ cancelled \subseteq cancelled'
          /\ Pending(c)' = Pending(c) /\ Written(c)' = Written(c)
      BY <1>2, <2>2, InsideFacts
    <2>5. PlaceOk(c)'
      BY <1>1, <1>3, <2>2, <2>3, <2>4, CallFacts
         DEF PlaceOk, DecidedOk, RecordsOk, TextsOk, CountsOk, UpstreamOk, Before, Relay,
                   InRelay, Undecided, SameChecks, SameCounts
    <2> QED
      BY ZenonT(60), <1>1, <2>1, <2>2, <2>3, <2>4, <2>5, QuietStep, CallFacts
         DEF PlaceOk, RecordsOk, Relay, InRelay, SameCounts
  <1>4. CASE k.stream /\ ~ok
    <2> DEFINE r == [k EXCEPT !.phase = "yielding", !.out = "error", !.last = TRUE, !.offered = @ + 1]
               u == upstream[c]
    <2>1. r \in Call
      <3>1. "yielding" \in Phase /\ "error" \in Text /\ k.offered + 1 \in Nat
        BY CallFacts DEF Phase, Text
      <3> QED
        BY <3>1, CallFacts, ZenonT(60) DEF Call
    <2>2. /\ call' = [call EXCEPT ![c] = r] /\ call'[c] = r
          /\ u \in {"none", "open", "closed"} /\ upstream' = [upstream EXCEPT ![c] = u]
      BY <1>4, CallFacts DEF Redacted, GInv, TypeOK, Yield, Respond, RespondBlocked
    <2>3. r.phase = "yielding" /\ r.out = "error" /\ r.stream /\ SameChecks(k, r) /\ r.whole = k.whole /\ r.offered = k.offered + 1 /\ r.counted = k.counted
      BY ZenonT(60), <1>1, <1>4, CallFacts DEF Call, SameChecks, SameCounts
    <2> HIDE DEF r
    <2>4. /\ Quiet(c) /\ client'[c] = client[c] /\ upstream'[c] = u
          /\ UNCHANGED <<settings, forwarded, late>> /\ cancelled \subseteq cancelled'
          /\ Pending(c)' = Pending(c) /\ Written(c)' = Written(c)
      BY <1>2, <2>2, InsideFacts
    <2>5. PlaceOk(c)'
      BY <1>1, <1>4, <2>2, <2>3, <2>4, CallFacts
         DEF PlaceOk, DecidedOk, RecordsOk, TextsOk, CountsOk, UpstreamOk, Before, Relay,
                   InRelay, Undecided, SameChecks, SameCounts
    <2> QED
      BY ZenonT(60), <1>1, <2>1, <2>2, <2>3, <2>4, <2>5, QuietStep, CallFacts
         DEF PlaceOk, RecordsOk, Relay, InRelay, SameCounts
  <1>5. CASE ~k.stream /\ ok
    <2> DEFINE r == [k EXCEPT !.phase = "sending", !.out = "redacted"]
               u == upstream[c]
    <2>1. r \in Call
      <3>1. "sending" \in Phase /\ "redacted" \in Text
        BY CallFacts DEF Phase, Text
      <3> QED
        BY <3>1, CallFacts, ZenonT(60) DEF Call
    <2>2. /\ call' = [call EXCEPT ![c] = r] /\ call'[c] = r
          /\ u \in {"none", "open", "closed"} /\ upstream' = [upstream EXCEPT ![c] = u]
      BY <1>5, CallFacts DEF Redacted, GInv, TypeOK, Yield, Respond, RespondBlocked
    <2>3. r.phase = "sending" /\ r.out = "redacted" /\ SameChecks(k, r) /\ SameCounts(k, r)
      BY <1>1, <1>5, CallFacts DEF Call, SameChecks, SameCounts
    <2> HIDE DEF r
    <2>4. /\ Quiet(c) /\ client'[c] = client[c] /\ upstream'[c] = u
          /\ UNCHANGED <<settings, forwarded, late>> /\ cancelled \subseteq cancelled'
          /\ Pending(c)' = Pending(c) /\ Written(c)' = Written(c)
      BY <1>2, <2>2, InsideFacts
    <2>5. PlaceOk(c)'
      BY <1>1, <1>5, <2>2, <2>3, <2>4, CallFacts
         DEF PlaceOk, DecidedOk, RecordsOk, TextsOk, CountsOk, UpstreamOk, Before, Relay,
                   InRelay, Undecided, SameChecks, SameCounts
    <2> QED
      BY <1>1, <2>1, <2>2, <2>3, <2>4, <2>5, QuietStep, CallFacts
         DEF PlaceOk, RecordsOk, Relay, InRelay, SameCounts
  <1>6. CASE ~k.stream /\ ~ok
    <2> DEFINE r == [k EXCEPT !.phase = "sending", !.out = "block", !.action = "BLOCK"]
               u == upstream[c]
    <2>1. r \in Call
      <3>1. "sending" \in Phase /\ "block" \in Text
        BY CallFacts DEF Phase, Text
      <3> QED
        BY <3>1, CallFacts, ZenonT(60) DEF Call
    <2>2. /\ call' = [call EXCEPT ![c] = r] /\ call'[c] = r
          /\ u \in {"none", "open", "closed"} /\ upstream' = [upstream EXCEPT ![c] = u]
      BY <1>6, CallFacts DEF Redacted, GInv, TypeOK, Yield, Respond, RespondBlocked
    <2>3. r.phase = "sending" /\ r.out = "block" /\ r.action = "BLOCK" /\ r.stream = k.stream /\ r.upok = k.upok /\ r.verdict = k.verdict /\ SameCounts(k, r)
      BY <1>1, <1>6, CallFacts DEF Call, SameChecks, SameCounts
    <2> HIDE DEF r
    <2>4. /\ Quiet(c) /\ client'[c] = client[c] /\ upstream'[c] = u
          /\ UNCHANGED <<settings, forwarded, late>> /\ cancelled \subseteq cancelled'
          /\ Pending(c)' = Pending(c) /\ Written(c)' = Written(c)
      BY <1>2, <2>2, InsideFacts
    <2>5. PlaceOk(c)'
      BY <1>1, <1>6, <2>2, <2>3, <2>4, CallFacts
         DEF PlaceOk, DecidedOk, RecordsOk, TextsOk, CountsOk, UpstreamOk, Before, Relay,
                   InRelay, Undecided, SameChecks, SameCounts
    <2> QED
      BY <1>1, <2>1, <2>2, <2>3, <2>4, <2>5, QuietStep, CallFacts
         DEF PlaceOk, RecordsOk, Relay, InRelay, SameCounts
  <1> QED
    BY <1>3, <1>4, <1>5, <1>6 DEF Redacted

LEMMA RedactionReturnsGInv ==
    ASSUME GInv, NEW c \in Calls, NEW ok \in BOOLEAN, RedactionReturns(c, ok) PROVE GInv'
  <1>1. Inside(c) /\ UNCHANGED upstream
    BY DEF RedactionReturns, Inside, GInv, TypeOK
  <1> QED
    BY <1>1, RedactedGInv DEF RedactionReturns

LEMMA RedactionTimesOutGInv ==
    ASSUME GInv, NEW c \in Calls, RedactionTimesOut(c) PROVE GInv'
  <1>1. Inside(c) /\ UNCHANGED upstream
    BY DEF RedactionTimesOut, Inside, GInv, TypeOK
  <1> QED
    BY <1>1, RedactedGInv DEF RedactionTimesOut

(***************************************************************************)
(* The steps of which the client sees something.                           *)
(***************************************************************************)
LEMMA ClientMoves ==
    ASSUME GInv, NEW c \in Calls, NEW x \in Client, client' = [client EXCEPT ![c] = x],
           x.got >= client[c].got,
           UNCHANGED <<settings, waiting, running, writes, log, faults, upstream, cancelled,
                       forwarded, late, unwritten>>
    PROVE  Quiet(c) /\ client'[c] = x /\ Pending(c)' = Pending(c) /\ Written(c)' = Written(c)
  <1>1. /\ client' \in [Calls -> Client] /\ client'[c] = x
        /\ \A d \in Calls \ {c} : client'[d] = client[d]
    BY DEF GInv, TypeOK
  <1>2. Quiet(c)
    BY <1>1 DEF Quiet, GInv, TypeOK
  <1> QED
    BY <1>1, <1>2, QuietRecords

LEMMA ResponseSentGInv ==
    ASSUME GInv, NEW c \in Calls, NEW sent \in BOOLEAN, ResponseSent(c, sent) PROVE GInv'
  <1> DEFINE k == call[c]
             r == [k EXCEPT !.phase = "closing", !.whole = TRUE, !.sent = sent]
             x == IF client[c].here THEN [client[c] EXCEPT !.texts = @ \cup {k.out}] ELSE client[c]
  <1>1. k.phase = "sending" /\ UNCHANGED <<settings, forwarded, late, cancelled, upstream>>
    BY DEF ResponseSent
  <1>2. r \in Call
    <2>1. "closing" \in Phase
      BY DEF Phase
    <2> QED
      BY <2>1, CallFacts, ZenonT(60) DEF Call
  <1>3. call' = [call EXCEPT ![c] = r] /\ call'[c] = r
    BY CallFacts DEF ResponseSent, GInv, TypeOK
  <1>4. r.phase = "closing" /\ SameChecks(k, r) /\ r.offered = k.offered /\ r.counted = k.counted
    BY CallFacts DEF Call, SameChecks
  <1> HIDE DEF r
  <1>5. x \in Client /\ x.got = client[c].got /\ x.texts \subseteq client[c].texts \cup {k.out}
    <2>1. client[c].texts \cup {k.out} \in SUBSET Text
      BY CallFacts
    <2> QED
      BY <2>1, CallFacts DEF Client
  <1>6. client' = [client EXCEPT ![c] = x]
    BY CallFacts DEF ResponseSent, GInv, TypeOK
  <1> HIDE DEF x
  <1>7. x.got \in Nat /\ x.got >= client[c].got
    BY <1>5, CallFacts
  <1>8. Quiet(c) /\ client'[c] = x /\ Pending(c)' = Pending(c) /\ Written(c)' = Written(c)
    BY <1>5, <1>6, <1>7, ClientMoves DEF ResponseSent
  <1>9. PlaceOk(c)'
    <2>1. DecidedOk(c)' /\ RecordsOk(c)'
      BY <1>1, <1>3, <1>4, <1>8, CallFacts
         DEF PlaceOk, DecidedOk, RecordsOk, Undecided, Relay, InRelay, SameChecks
    <2>2. TextsOk(c)'
      BY <1>1, <1>3, <1>4, <1>5, <1>7, <1>8, CallFacts
         DEF PlaceOk, TextsOk, Before, Undecided, Relay, SameChecks
    <2>3. CountsOk(c)'
      BY <1>1, <1>3, <1>4, <1>5, <1>7, <1>8, CallFacts
         DEF PlaceOk, CountsOk, Before, Undecided, Relay, SameChecks
    <2>4. UpstreamOk(c)'
      BY <1>1, CallFacts DEF PlaceOk, UpstreamOk, Relay, InRelay, ResponseSent
    <2> QED
      BY <2>1, <2>2, <2>3, <2>4 DEF PlaceOk
  <1> QED
    BY <1>2, <1>3, <1>4, <1>8, <1>9, QuietStep

LEMMA PieceTakenGInv == ASSUME GInv, NEW c \in Calls, PieceTaken(c) PROVE GInv'
  <1> DEFINE k == call[c]
             r == [k EXCEPT !.phase = "taken"]
             x == [client[c] EXCEPT !.got = @ + 1, !.texts = @ \cup {k.out}]
  <1>1. k.phase = "yielding" /\ UNCHANGED <<settings, forwarded, late, cancelled, upstream>>
    BY DEF PieceTaken
  <1>2. r \in Call
    <2>1. "taken" \in Phase
      BY DEF Phase
    <2> QED
      BY <2>1, CallFacts, ZenonT(60) DEF Call
  <1>3. call' = [call EXCEPT ![c] = r] /\ call'[c] = r
    BY CallFacts DEF PieceTaken, GInv, TypeOK
  <1>4. r.phase = "taken" /\ SameChecks(k, r) /\ SameCounts(k, r)
    BY CallFacts DEF Call, SameChecks, SameCounts
  <1> HIDE DEF r
  <1>5. /\ x \in Client /\ x.got = client[c].got + 1 /\ x.texts = client[c].texts \cup {k.out}
        /\ x.here = client[c].here
    <2>1. client[c].texts \cup {k.out} \in SUBSET Text /\ client[c].got + 1 \in Nat
      BY CallFacts
    <2>2. x \in Client
      BY <2>1, CallFacts, Zenon DEF Client
    <2> QED
      BY <2>1, <2>2, CallFacts DEF Client
  <1>6. client' = [client EXCEPT ![c] = x]
    BY CallFacts DEF PieceTaken, GInv, TypeOK
  <1> HIDE DEF x
  <1>7. x.got \in Nat /\ x.got >= client[c].got
    BY <1>5, CallFacts
  <1>8. Quiet(c) /\ client'[c] = x /\ Pending(c)' = Pending(c) /\ Written(c)' = Written(c)
    BY <1>5, <1>6, <1>7, ClientMoves DEF PieceTaken
  <1>9. PlaceOk(c)'
    <2>1. DecidedOk(c)' /\ RecordsOk(c)'
      BY <1>1, <1>3, <1>4, <1>8, CallFacts
         DEF PlaceOk, DecidedOk, RecordsOk, Undecided, Relay, InRelay, SameChecks
    <2>2. TextsOk(c)'
      BY <1>1, <1>3, <1>4, <1>5, <1>7, <1>8, CallFacts
         DEF PlaceOk, TextsOk, Before, Undecided, Relay, SameChecks
    <2>3. CountsOk(c)'
      BY <1>1, <1>3, <1>4, <1>5, <1>7, <1>8, CallFacts
         DEF PlaceOk, CountsOk, Before, Undecided, Relay, SameCounts
    <2>4. UpstreamOk(c)'
      BY <1>3, <1>4 DEF UpstreamOk, Relay, InRelay
    <2> QED
      BY <2>1, <2>2, <2>3, <2>4 DEF PlaceOk
  <1> QED
    BY <1>2, <1>3, <1>4, <1>8, <1>9, QuietStep DEF SameCounts

LEMMA ClientLeavesGInv == ASSUME GInv, NEW c \in Calls, ClientLeaves(c) PROVE GInv'
  <1> DEFINE r == call[c]
             x == [client[c] EXCEPT !.here = FALSE]
  <1>1. UNCHANGED <<settings, call, forwarded, late, cancelled, upstream>>
    BY DEF ClientLeaves
  <1>2. r \in Call /\ call' = [call EXCEPT ![c] = r] /\ call'[c] = r
    BY <1>1, CallFacts DEF GInv, TypeOK
  <1>3. x.got = client[c].got /\ x.texts = client[c].texts /\ ~x.here
    BY CallFacts DEF Client
  <1>4. x \in Client
    BY CallFacts, Zenon DEF Client
  <1>5. client' = [client EXCEPT ![c] = x]
    BY CallFacts DEF ClientLeaves, GInv, TypeOK
  <1> HIDE DEF x
  <1>6. x.got \in Nat /\ x.got >= client[c].got
    BY <1>3, CallFacts
  <1>7. Quiet(c) /\ client'[c] = x /\ Pending(c)' = Pending(c) /\ Written(c)' = Written(c)
    BY <1>4, <1>5, <1>6, ClientMoves DEF ClientLeaves
  <1>8. PlaceOk(c)'
    BY <1>1, <1>2, <1>3, <1>7, CallFacts
       DEF PlaceOk, DecidedOk, RecordsOk, TextsOk, CountsOk, UpstreamOk
  <1> QED
    BY <1>2, <1>7, <1>8, QuietStep

(***************************************************************************)
(* The worker threads.                                                     *)
(***************************************************************************)
LEMMA OnlyJobs ==
    ASSUME GInv,
           UNCHANGED <<settings, call, writes, log, faults, upstream, client, cancelled,
                       forwarded, late, unwritten>>,
           waiting' \subseteq Job, running' \subseteq Job,
           IsFiniteSet(running'), Cardinality(running') <= Workers
    PROVE  GInv'
  <1>1. TypeOK'
    BY DEF GInv, TypeOK
  <1>2. \A c \in Calls : PlaceOk(c)'
    BY QuietRecords DEF GInv, PlaceOk, DecidedOk, RecordsOk, TextsOk, CountsOk, UpstreamOk
  <1>3. ForwardedOnlyRecorded' /\ RecordsInOrder' /\ WritesInOrder' /\ CompletionIsTrue'
    BY SMTT(40) DEF GInv, ForwardedOnlyRecorded, RecordsInOrder, WritesInOrder, CompletionIsTrue,
           Logged, Logs
  <1> QED
    BY <1>1, <1>2, <1>3 DEF GInv

LEMMA JobStartsGInv == ASSUME GInv, NEW j, JobStarts(j) PROVE GInv'
  <1>1. /\ j \in Job /\ Cardinality(running) < Workers /\ running' = running \cup {j}
        /\ waiting' \subseteq Job /\ running' \subseteq Job
    BY DEF JobStarts, GInv, TypeOK
  <1>2. IsFiniteSet(running') /\ Cardinality(running') <= Cardinality(running) + 1
    <2>1. IsFiniteSet(running) /\ Cardinality(running) \in Nat
      BY FS_CardinalityType DEF GInv
    <2>2. /\ IsFiniteSet(running \cup {j})
          /\ Cardinality(running \cup {j}) = IF j \in running THEN Cardinality(running)
                                            ELSE Cardinality(running) + 1
      BY <2>1, FS_AddElement
    <2> QED
      BY <1>1, <2>1, <2>2
  <1>3. Cardinality(running') <= Workers
    BY <1>1, <1>2, FS_CardinalityType, WorkersAssumption DEF GInv
  <1> QED
    BY <1>1, <1>2, <1>3, OnlyJobs DEF JobStarts

LEMMA JobReturnsLateGInv ==
    ASSUME GInv, NEW c, NEW kind, NEW phase, JobReturnsLate(c, kind, phase) PROVE GInv'
  <1>1. running' \subseteq running /\ waiting' \subseteq Job /\ running' \subseteq Job
    BY DEF JobReturnsLate, GInv, TypeOK
  <1>2. IsFiniteSet(running') /\ Cardinality(running') <= Workers
    BY <1>1, FS_Subset, FS_CardinalityType, WorkersAssumption DEF GInv, TypeOK
  <1> QED
    BY <1>1, <1>2, OnlyJobs DEF JobReturnsLate

-----------------------------------------------------------------------------
(***************************************************************************)
(* Records handed to a thread, and written or not.                         *)
(***************************************************************************)
LEMMA RankFacts ==
    ASSUME NEW w \in ForensicRecord
    PROVE  /\ Rank(w) \in 1..3 /\ w.kind \in {"request", "scan", "response"} /\ w.call \in Calls
           /\ w.kind = "request" <=> Rank(w) = 1
           /\ w.kind = "scan" <=> Rank(w) = 2
           /\ w.kind = "response" <=> Rank(w) = 3
  BY DEF Rank, ForensicRecord

LEMMA EventType ==
    ASSUME NEW c \in Calls, NEW kind \in {"request", "scan"}, NEW action \in {"ALLOW", "BLOCK"}
    PROVE  /\ EventRecord(c, kind, action) \in ForensicRecord
           /\ EventRecord(c, kind, action).call = c /\ EventRecord(c, kind, action).kind = kind
  BY DEF EventRecord, ForensicRecord

\* What is in the log after a write
LEMMA LogAfter ==
    ASSUME GInv, NEW w, NEW ok \in BOOLEAN, Write(w, ok)
    PROVE  /\ w \in writes /\ w \in ForensicRecord
           /\ log' \in Seq(ForensicRecord) /\ faults' \in Nat
           /\ unwritten \subseteq unwritten' /\ unwritten' \subseteq ForensicRecord
           /\ IF ok THEN log' = Append(log, w) /\ Logs' = Logs \cup {w}
                    ELSE log' = log /\ Logs' = Logs /\ w \in unwritten'
  <1>1. w \in writes /\ w \in ForensicRecord
    BY DEF Write, GInv, TypeOK
  <1>2. CASE ok
    <2>1. log' = Append(log, w) /\ UNCHANGED <<faults, unwritten>>
      BY <1>2 DEF Write
    <2>2. log' \in Seq(ForensicRecord) /\ Len(log') = Len(log) + 1 /\ Len(log) \in Nat
          /\ log'[Len(log) + 1] = w /\ \A i \in 1..Len(log) : log'[i] = log[i]
      BY <1>1, <2>1 DEF GInv, TypeOK
    <2>3. Logs' = Logs \cup {w}
      BY <2>2 DEF Logs
    <2> QED
      BY <1>1, <1>2, <2>1, <2>2, <2>3 DEF GInv, TypeOK
  <1>3. CASE ~ok
    <2>1. log' = log /\ faults' = faults + 1 /\ unwritten' = unwritten \cup {w}
      BY <1>3 DEF Write
    <2> QED
      BY <1>1, <1>3, <2>1 DEF GInv, TypeOK, Logs
  <1> QED
    BY <1>2, <1>3

LEMMA OrderAfterWrite ==
    ASSUME GInv, NEW w, NEW ok \in BOOLEAN, Write(w, ok), writes' = writes \ {w},
           cancelled' = cancelled
    PROVE  RecordsInOrder' /\ WritesInOrder'
  <1>1. /\ w \in writes /\ w \in ForensicRecord /\ writes \subseteq ForensicRecord
        /\ Logs \subseteq ForensicRecord /\ log \in Seq(ForensicRecord)
    BY LogAfter, LogsType DEF GInv, TypeOK
  <1>2. CASE ok
    <2>1. log' = Append(log, w) /\ Logs' = Logs \cup {w}
      BY <1>2, LogAfter
    <2>2. /\ Len(log) \in Nat /\ Len(log') = Len(log) + 1 /\ log'[Len(log) + 1] = w
          /\ \A i \in 1..Len(log) : log'[i] = log[i] /\ log[i] \in Logs
      BY <1>1, <2>1 DEF Logs
    <2>3. \A v \in Logs : v.call = w.call
             => Rank(v) < Rank(w) \/ (w.call \in cancelled /\ v.kind = "response" /\ w.kind = "scan")
      BY <1>1 DEF GInv, WritesInOrder
    <2>4. RecordsInOrder'
      <3> SUFFICES ASSUME NEW i \in 1..(Len(log) + 1), NEW j \in 1..(Len(log) + 1),
                          i < j, log'[i].call = log'[j].call
                   PROVE  \/ Rank(log'[i]) < Rank(log'[j])
                          \/ log'[i].call \in cancelled' /\ log'[i].kind = "response"
                             /\ log'[j].kind = "scan"
        BY <2>2 DEF RecordsInOrder, Rank
      <3>1. CASE j = Len(log) + 1
        <4>1. i \in 1..Len(log)
          BY <3>1, <2>2
        <4> QED
          BY <2>2, <2>3, <3>1, <4>1
      <3>2. CASE j # Len(log) + 1
        <4>1. i \in 1..Len(log) /\ j \in 1..Len(log)
          BY <3>2, <2>2
        <4> QED
          BY <2>2, <4>1 DEF GInv, RecordsInOrder, Rank
      <3> QED
        BY <3>1, <3>2
    <2>5. WritesInOrder'
      <3>1. \A v \in writes' : v.call = w.call
               => Rank(w) < Rank(v) \/ (v.call \in cancelled /\ w.kind = "response" /\ v.kind = "scan")
        <4> SUFFICES ASSUME NEW v \in writes', v.call = w.call
                     PROVE  \/ Rank(w) < Rank(v)
                            \/ v.call \in cancelled /\ w.kind = "response" /\ v.kind = "scan"
          OBVIOUS
        <4>1. w.call \in cancelled /\ {v.kind, w.kind} = {"scan", "response"}
          BY <1>1 DEF GInv, WritesInOrder
        <4>2. (v.kind = "scan" /\ w.kind = "response") \/ (v.kind = "response" /\ w.kind = "scan")
          BY <4>1
        <4> QED
          BY <1>1, <4>1, <4>2, RankFacts
      <3>2. ASSUME NEW v \in Logs', NEW x \in writes', v.call = x.call
            PROVE  \/ Rank(v) < Rank(x)
                   \/ x.call \in cancelled /\ v.kind = "response" /\ x.kind = "scan"
        <4>1. v = w \/ v \in Logs
          BY <2>1
        <4> QED
          BY <3>1, <3>2, <4>1 DEF GInv, WritesInOrder
      <3>3. \A v, x \in writes' : v.call = x.call /\ v # x
               => x.call \in cancelled /\ {v.kind, x.kind} = {"scan", "response"}
        BY DEF GInv, WritesInOrder
      <3> QED
        BY <3>2, <3>3 DEF WritesInOrder, Rank
    <2> QED
      BY <2>4, <2>5
  <1>3. CASE ~ok
    <2>1. log' = log /\ Logs' = Logs
      BY <1>3, LogAfter
    <2>2. RecordsInOrder'
      BY <2>1 DEF GInv, RecordsInOrder, Rank
    <2>3. ASSUME NEW v \in Logs, NEW x \in writes', v.call = x.call
          PROVE  \/ Rank(v) < Rank(x)
                 \/ x.call \in cancelled /\ v.kind = "response" /\ x.kind = "scan"
      BY <2>3 DEF GInv, WritesInOrder
    <2>4. \A v, x \in writes' : v.call = x.call /\ v # x
             => x.call \in cancelled /\ {v.kind, x.kind} = {"scan", "response"}
      BY DEF GInv, WritesInOrder
    <2>5. WritesInOrder'
      BY <2>1, <2>3, <2>4 DEF WritesInOrder, Rank
    <2> QED
      BY <2>2, <2>5
  <1> QED
    BY <1>2, <1>3

LEMMA WriteStep ==
    ASSUME GInv, NEW c \in Calls, NEW w, NEW ok \in BOOLEAN, Write(w, ok), w.call = c,
           writes' = writes \ {w}, waiting' \subseteq Job, forwarded' \subseteq forwarded \cup {c},
           UNCHANGED <<settings, running, upstream, client, cancelled, late>>
    PROVE  /\ Frame(c) /\ RecordsInOrder' /\ WritesInOrder'
           /\ Pending(c)' \subseteq Pending(c) /\ Written(c)' \subseteq Written(c) \cup {w.kind}
           /\ w.kind \in Pending(c)
           /\ w.kind = "request" \/ Pending(c) \subseteq {"scan"} => Pending(c)' = {}
           /\ w \in IF ok THEN Logs' ELSE unwritten'
  <1>1. RecordsInOrder' /\ WritesInOrder'
    BY OrderAfterWrite
  <1>2. Frame(c)
    BY LogAfter DEF Frame, GInv, TypeOK
  <1>3. w \in writes /\ Logs' \subseteq Logs \cup {w}
    BY LogAfter
  <1>4. Pending(c)' \subseteq Pending(c) /\ Written(c)' \subseteq Written(c) \cup {w.kind}
        /\ w.kind \in Pending(c)
    BY <1>3 DEF Pending, Written
  <1>5. ASSUME w.kind = "request" \/ Pending(c) \subseteq {"scan"} PROVE Pending(c)' = {}
    <2> SUFFICES ASSUME NEW v \in writes, v # w, v.call = c PROVE FALSE
      BY DEF Pending
    <2>1. {v.kind, w.kind} = {"scan", "response"}
      BY <1>3 DEF GInv, WritesInOrder
    <2>2. v.kind \in Pending(c)
      BY DEF Pending
    <2> QED
      BY <1>4, <1>5, <2>1, <2>2
  <1> QED
    BY <1>1, <1>2, <1>4, <1>5, LogAfter

\* A record is handed to a thread after those of its call
LEMMA HandStep ==
    ASSUME GInv, NEW c \in Calls, NEW w \in ForensicRecord, w.call = c,
           writes' = writes \cup {w}, waiting' \subseteq Job, running' \subseteq running,
           late' \subseteq late \cup {c},
           UNCHANGED <<settings, log, faults, upstream, client, cancelled, forwarded, unwritten>>,
           \/ Pending(c) = {}
           \/ Pending(c) \subseteq {"scan"} /\ w.kind = "response" /\ c \in cancelled,
           w.kind = "request" => Written(c) = {},
           w.kind = "scan" => Written(c) \subseteq {"request"},
           w.kind = "response" => Written(c) \subseteq {"request", "scan"}
    PROVE  /\ Frame(c) /\ RecordsInOrder' /\ WritesInOrder' /\ Logs' = Logs
           /\ Pending(c)' = Pending(c) \cup {w.kind} /\ Written(c)' = Written(c)
  <1>1. Logs' = Logs
    BY DEF Logs
  <1>2. Frame(c)
    BY <1>1 DEF Frame, GInv, TypeOK
  <1>3. Pending(c)' = Pending(c) \cup {w.kind} /\ Written(c)' = Written(c)
    BY <1>1 DEF Pending, Written
  <1>4. RecordsInOrder'
    BY DEF GInv, RecordsInOrder, Rank
  <1>5. \A v \in writes : v.call = c => v.kind = "scan" /\ w.kind = "response" /\ c \in cancelled
    BY DEF Pending
  <1>6. \A v \in Logs : v.call = c => Rank(v) < Rank(w)
    <2> SUFFICES ASSUME NEW v \in Logs, v.call = c PROVE Rank(v) < Rank(w)
      OBVIOUS
    <2>1. v.kind \in Written(c) /\ v \in ForensicRecord
      BY LogsType DEF Written, GInv, TypeOK
    <2> QED
      BY <2>1, RankFacts
  <1>7. WritesInOrder'
    BY <1>1, <1>5, <1>6 DEF GInv, WritesInOrder, Rank
  <1> QED
    BY <1>1, <1>2, <1>3, <1>4, <1>7

\* No completion record, or those there were
LEMMA NoCompletion ==
    ASSUME NEW c, "response" \notin Pending(c)', "response" \notin Written(c)' PROVE CompletionOk(c)'
  BY DEF CompletionOk, Pending, Written

LEMMA KeptCompletions ==
    ASSUME GInv, NEW c \in Calls, writes' \cup Logs' \subseteq writes \cup Logs, client' = client,
           call'[c].offered = call[c].offered
    PROVE  CompletionOk(c)'
  <1>1. CompletionOk(c)
    BY PerCall DEF GInv
  <1> QED
    BY <1>1 DEF CompletionOk

-----------------------------------------------------------------------------
(***************************************************************************)
(* The steps that hand a record to a thread.                               *)
(***************************************************************************)
LEMMA DecidedStep ==
    ASSUME GInv, NEW c \in Calls, NEW action \in {"ALLOW", "BLOCK"}, call[c].phase = "governing",
           Decided(c, action), waiting' \subseteq Job, running' \subseteq running,
           late' \subseteq late \cup {c}, c \in late' => action = "BLOCK",
           UNCHANGED <<settings, log, faults, upstream, client, cancelled, forwarded, unwritten>>
    PROVE  GInv'
  <1> DEFINE k == call[c]
             r == [k EXCEPT !.phase = "recording", !.action = action]
             w == EventRecord(c, "request", action)
  <1>1. r \in Call
    <2>1. "recording" \in Phase
      BY DEF Phase
    <2> QED
      BY <2>1, CallFacts, ZenonT(60) DEF Call
  <1>2. call' = [call EXCEPT ![c] = r] /\ call'[c] = r /\ writes' = writes \cup {w}
    BY CallFacts DEF Decided, GInv, TypeOK
  <1>3. /\ r.phase = "recording" /\ r.action = action /\ r.stream = k.stream /\ r.upok = k.upok
        /\ r.verdict = k.verdict /\ SameCounts(k, r)
    BY CallFacts DEF Call, SameCounts
  <1> HIDE DEF r
  <1>4. w \in ForensicRecord /\ w.call = c /\ w.kind = "request"
    BY EventType
  <1> HIDE DEF w
  <1>5. Pending(c) = {} /\ Written(c) = {}
    BY CallFacts DEF PlaceOk, RecordsOk, Undecided
  <1>6. /\ Frame(c) /\ RecordsInOrder' /\ WritesInOrder' /\ Logs' = Logs
        /\ Pending(c)' = {"request"} /\ Written(c)' = {}
    BY <1>2, <1>4, <1>5, HandStep
  <1>7. c \notin forwarded'
    BY CallFacts DEF PlaceOk, DecidedOk, Undecided
  <1>8. DecidedOk(c)' /\ RecordsOk(c)'
    BY <1>2, <1>3, <1>6, <1>7 DEF DecidedOk, RecordsOk, Undecided, Relay, InRelay
  <1>9. TextsOk(c)' /\ CountsOk(c)' /\ UpstreamOk(c)'
    BY <1>2, <1>3, CallFacts
       DEF PlaceOk, TextsOk, CountsOk, UpstreamOk, Before, Relay, InRelay, Undecided, SameCounts
  <1>10. CompletionOk(c)' /\ ForwardedOk(c)'
    BY <1>6, <1>7, NoCompletion DEF ForwardedOk
  <1>11. PlaceOk(c)'
    BY <1>8, <1>9 DEF PlaceOk
  <1> QED
    BY <1>1, <1>2, <1>6, <1>10, <1>11, FrameStep

LEMMA PipelineReturnsGInv ==
    ASSUME GInv, NEW c \in Calls, NEW action \in {"ALLOW", "BLOCK"}, PipelineReturns(c, action)
    PROVE  GInv'
  <1>1. c \notin late
    BY CallFacts DEF PipelineReturns, PlaceOk, DecidedOk, Undecided
  <1>2. /\ call[c].phase = "governing" /\ Decided(c, action)
        /\ waiting' \subseteq Job /\ running' \subseteq running
        /\ UNCHANGED <<settings, log, faults, upstream, client, cancelled, forwarded, late, unwritten>>
    BY DEF PipelineReturns, GInv, TypeOK
  <1> QED
    BY <1>1, <1>2, DecidedStep

LEMMA PipelineTimesOutGInv == ASSUME GInv, NEW c \in Calls, PipelineTimesOut(c) PROVE GInv'
  <1>1. /\ call[c].phase = "governing" /\ Decided(c, "BLOCK") /\ late' = late \cup {c}
        /\ waiting' \subseteq Job /\ running' \subseteq running
        /\ UNCHANGED <<settings, log, faults, upstream, client, cancelled, forwarded, unwritten>>
    BY DEF PipelineTimesOut, GInv, TypeOK
  <1> QED
    BY <1>1, DecidedStep

LEMMA ScannedStep ==
    ASSUME GInv, NEW c \in Calls, NEW verdict \in {"ALLOW", "BLOCK"}, call[c].phase = "scanning",
           Scanned(c, verdict), waiting' \subseteq Job, running' \subseteq running,
           UNCHANGED <<settings, log, faults, upstream, client, cancelled, forwarded, late, unwritten>>
    PROVE  GInv'
  <1> DEFINE k == call[c]
             r == [k EXCEPT !.phase = "scanrecord", !.verdict = verdict]
             w == EventRecord(c, "scan", verdict)
  <1>1. r \in Call
    <2>1. "scanrecord" \in Phase
      BY DEF Phase
    <2> QED
      BY <2>1, CallFacts, ZenonT(60) DEF Call
  <1>2. call' = [call EXCEPT ![c] = r] /\ call'[c] = r /\ writes' = writes \cup {w}
    BY CallFacts DEF Scanned, GInv, TypeOK
  <1>3. /\ r.phase = "scanrecord" /\ r.verdict = verdict /\ r.stream = k.stream /\ r.upok = k.upok
        /\ r.action = k.action /\ SameCounts(k, r)
    BY CallFacts DEF Call, SameCounts
  <1> HIDE DEF r
  <1>4. w \in ForensicRecord /\ w.call = c /\ w.kind = "scan"
    BY EventType
  <1> HIDE DEF w
  <1>5. Pending(c) = {} /\ Written(c) \subseteq {"request"}
    BY CallFacts DEF PlaceOk, RecordsOk
  <1>6. /\ Frame(c) /\ RecordsInOrder' /\ WritesInOrder' /\ Logs' = Logs
        /\ Pending(c)' = {"scan"} /\ Written(c)' = Written(c)
    BY <1>2, <1>4, <1>5, HandStep
  <1>7. DecidedOk(c)' /\ RecordsOk(c)'
    BY <1>2, <1>3, <1>5, <1>6, CallFacts
       DEF PlaceOk, DecidedOk, RecordsOk, Undecided, Relay, InRelay
  <1>8. TextsOk(c)' /\ CountsOk(c)' /\ UpstreamOk(c)'
    BY <1>2, <1>3, CallFacts
       DEF PlaceOk, TextsOk, CountsOk, UpstreamOk, Before, Relay, InRelay, Undecided, SameCounts
  <1>9. CompletionOk(c)'
    BY <1>5, <1>6, NoCompletion
  <1>10. ForwardedOk(c)'
    BY <1>6, PerCall DEF GInv, ForwardedOk
  <1>11. PlaceOk(c)'
    BY <1>7, <1>8 DEF PlaceOk
  <1> QED
    BY <1>1, <1>2, <1>6, <1>9, <1>10, <1>11, FrameStep

LEMMA ScanReturnsGInv ==
    ASSUME GInv, NEW c \in Calls, NEW verdict \in {"ALLOW", "BLOCK"}, ScanReturns(c, verdict)
    PROVE  GInv'
  <1>1. /\ call[c].phase = "scanning" /\ Scanned(c, verdict)
        /\ waiting' \subseteq Job /\ running' \subseteq running
        /\ UNCHANGED <<settings, log, faults, upstream, client, cancelled, forwarded, late, unwritten>>
    BY DEF ScanReturns, GInv, TypeOK
  <1> QED
    BY <1>1, ScannedStep

LEMMA ScanTimesOutGInv == ASSUME GInv, NEW c \in Calls, ScanTimesOut(c) PROVE GInv'
  <1>1. /\ call[c].phase = "scanning" /\ Scanned(c, "BLOCK")
        /\ waiting' \subseteq Job /\ running' \subseteq running
        /\ UNCHANGED <<settings, log, faults, upstream, client, cancelled, forwarded, late, unwritten>>
    BY DEF ScanTimesOut, GInv, TypeOK
  <1> QED
    BY <1>1, ScannedStep

LEMMA CallEndsGInv == ASSUME GInv, NEW c \in Calls, CallEnds(c) PROVE GInv'
  <1> DEFINE k == call[c]
             r == [k EXCEPT !.phase = "ending"]
             w == CompletionRecord(c)
  <1>1. r \in Call
    <2>1. "ending" \in Phase
      BY DEF Phase
    <2> QED
      BY <2>1, CallFacts, ZenonT(60) DEF Call
  <1>2. call' = [call EXCEPT ![c] = r] /\ call'[c] = r /\ writes' = writes \cup {w}
    BY CallFacts DEF CallEnds, GInv, TypeOK
  <1>3. r.phase = "ending" /\ SameChecks(k, r) /\ SameCounts(k, r)
    BY CallFacts DEF Call, SameChecks, SameCounts
  <1> HIDE DEF r
  <1>4. /\ w \in ForensicRecord /\ w.call = c /\ w.kind = "response" /\ w.counted = k.counted
        /\ w.error = k.error /\ w.cancelled = (~(k.whole /\ k.sent) /\ ~k.error)
    <2>1. (~(k.whole /\ k.sent) /\ ~k.error) \in BOOLEAN
      OBVIOUS
    <2>2. w \in ForensicRecord
      BY <2>1, CallFacts, BooleanFields, Zenon DEF CompletionRecord, ForensicRecord
    <2> QED
      BY <2>2 DEF CompletionRecord
  <1> HIDE DEF w
  <1>5. /\ Pending(c) \subseteq {"scan"} /\ (Pending(c) # {} => c \in cancelled)
        /\ Written(c) \subseteq {"request", "scan"} /\ k.phase = "closing"
    BY CallFacts DEF PlaceOk, RecordsOk, CallEnds
  <1>6. /\ Frame(c) /\ RecordsInOrder' /\ WritesInOrder' /\ Logs' = Logs
        /\ Pending(c)' = Pending(c) \cup {"response"} /\ Written(c)' = Written(c)
    <2>1. /\ waiting' \subseteq Job /\ running' \subseteq running /\ late' \subseteq late \cup {c}
          /\ UNCHANGED <<settings, log, faults, upstream, client, cancelled, forwarded, unwritten>>
      BY DEF CallEnds, GInv, TypeOK
    <2>2. Pending(c) = {} \/ (Pending(c) \subseteq {"scan"} /\ w.kind = "response" /\ c \in cancelled)
      BY <1>4, <1>5
    <2> QED
      BY <1>2, <1>4, <1>5, <2>1, <2>2, HandStep
  <1>7. UNCHANGED <<settings, upstream, client, cancelled, forwarded, late, unwritten>>
    BY DEF CallEnds
  <1>8. DecidedOk(c)' /\ RecordsOk(c)'
    BY <1>2, <1>3, <1>6, <1>7, CallFacts
       DEF PlaceOk, DecidedOk, RecordsOk, Undecided, Relay, InRelay, SameChecks
  <1>9. TextsOk(c)' /\ CountsOk(c)'
    BY <1>2, <1>3, <1>5, <1>7, CallFacts
       DEF PlaceOk, TextsOk, CountsOk, Before, Relay, Undecided, SameChecks, SameCounts
  <1>10. UpstreamOk(c)'
    BY <1>2, <1>3, <1>5, <1>7, CallFacts DEF PlaceOk, UpstreamOk, Relay, InRelay
  <1>11. CompletionOk(c)'
    <2> SUFFICES ASSUME NEW v \in writes' \cup Logs', v.call = c, v.kind = "response"
                 PROVE  /\ v.counted <= client[c].got
                        /\ ~v.cancelled /\ ~v.error => v.counted = r.offered
      BY <1>2, <1>7 DEF CompletionOk
    <2>1. v = w
      BY <1>2, <1>5, <1>6 DEF Pending, Written
    <2> QED
      BY <1>3, <1>4, <2>1, CallFacts DEF PlaceOk, CountsOk, SameCounts
  <1>12. ForwardedOk(c)'
    BY <1>6, <1>7, PerCall DEF GInv, ForwardedOk
  <1>13. PlaceOk(c)'
    BY <1>8, <1>9, <1>10 DEF PlaceOk
  <1> QED
    BY <1>1, <1>2, <1>6, <1>11, <1>12, <1>13, FrameStep

-----------------------------------------------------------------------------
(***************************************************************************)
(* The steps that write a record, or fail to.                              *)
(***************************************************************************)
LEMMA WriteGInv ==
    ASSUME GInv, NEW c \in Calls, NEW r \in Call, call' = [call EXCEPT ![c] = r],
           r.offered = call[c].offered,
           NEW w, NEW ok \in BOOLEAN, Write(w, ok), w.call = c,
           writes' = writes \ {w}, waiting' \subseteq Job, forwarded' \subseteq forwarded \cup {c},
           UNCHANGED <<settings, running, upstream, client, cancelled, late>>,
           c \in forwarded' => c \in forwarded \/ ForwardedOk(c)',
           PlaceOk(c)'
    PROVE  GInv'
  <1>1. Frame(c) /\ RecordsInOrder' /\ WritesInOrder'
    BY WriteStep
  <1>2. writes' \cup Logs' \subseteq writes \cup Logs
    BY LogAfter
  <1>3. CompletionOk(c)'
    <2>1. call'[c].offered = call[c].offered
      BY DEF GInv, TypeOK
    <2> QED
      BY <1>2, <2>1, KeptCompletions
  <1>4. ForwardedOk(c)'
    BY <1>1, PerCall DEF GInv, ForwardedOk, Frame
  <1> QED
    BY <1>1, <1>3, <1>4, FrameStep

\* The call does not wait for the record
LEMMA UnwaitedWrite ==
    ASSUME GInv, NEW c \in Calls, NEW w, NEW ok \in BOOLEAN, Write(w, ok), w.call = c,
           writes' = writes \ {w}, call[c].phase \notin {"recording", "scanrecord"},
           UNCHANGED <<settings, call, waiting, running, upstream, client, cancelled, forwarded, late>>
    PROVE  GInv'
  <1> DEFINE r == call[c]
  <1>1. r \in Call /\ call' = [call EXCEPT ![c] = r] /\ r.offered = call[c].offered
    BY CallFacts DEF GInv, TypeOK
  <1>2. waiting' \subseteq Job /\ forwarded' \subseteq forwarded \cup {c}
    BY DEF GInv, TypeOK
  <1>3. /\ Pending(c)' \subseteq Pending(c) /\ Written(c)' \subseteq Written(c) \cup {w.kind}
        /\ w.kind \in Pending(c)
    BY <1>2, WriteStep
  <1>4. PlaceOk(c)
    BY CallFacts
  <1>5. RecordsOk(c)'
    BY <1>3, <1>4, CallFacts DEF PlaceOk, RecordsOk, InRelay, Relay, Undecided, Phase
  <1>6. DecidedOk(c)' /\ TextsOk(c)' /\ CountsOk(c)' /\ UpstreamOk(c)'
    BY <1>4 DEF PlaceOk, DecidedOk, TextsOk, CountsOk, UpstreamOk
  <1>7. PlaceOk(c)'
    BY <1>5, <1>6 DEF PlaceOk
  <1> HIDE DEF r
  <1> QED
    BY <1>1, <1>2, <1>7, WriteGInv

LEMMA CompletionRecordedGInv ==
    ASSUME GInv, NEW c \in Calls, NEW w, NEW ok \in BOOLEAN, CompletionRecorded(c, w, ok)
    PROVE  GInv'
  <1> DEFINE k == call[c]
  <1>1. /\ w.call = c /\ w.kind = "response" /\ Write(w, ok) /\ writes' = writes \ {w}
        /\ UNCHANGED <<settings, waiting, running, upstream, client, cancelled, forwarded, late>>
        /\ waiting' \subseteq Job /\ forwarded' \subseteq forwarded \cup {c}
    BY DEF CompletionRecorded, GInv, TypeOK
  <1>2. "response" \in Pending(c)
    BY <1>1, LogAfter DEF Pending
  <1>3. k.phase \notin {"recording", "scanrecord"}
    BY <1>2, CallFacts DEF PlaceOk, RecordsOk
  <1>4. CASE k.phase # "ending"
    BY <1>1, <1>3, <1>4, UnwaitedWrite DEF CompletionRecorded
  <1>5. CASE k.phase = "ending"
    <2> DEFINE r == [k EXCEPT !.phase = "done"]
    <2>1. r \in Call
      <3>1. "done" \in Phase
        BY DEF Phase
      <3> QED
        BY <3>1, CallFacts, ZenonT(60) DEF Call
    <2>2. call' = [call EXCEPT ![c] = r] /\ call'[c] = r
      BY <1>5, CallFacts DEF CompletionRecorded, GInv, TypeOK
    <2>3. r.phase = "done" /\ SameChecks(k, r) /\ SameCounts(k, r)
      BY CallFacts DEF Call, SameChecks, SameCounts
    <2> HIDE DEF r
    <2>4. DecidedOk(c)' /\ RecordsOk(c)'
      BY <1>1, <2>2, <2>3, CallFacts
         DEF PlaceOk, DecidedOk, RecordsOk, Undecided, Relay, InRelay, SameChecks
    <2>5. TextsOk(c)' /\ CountsOk(c)'
      BY <1>1, <2>2, <2>3, CallFacts
         DEF PlaceOk, TextsOk, CountsOk, Before, Relay, Undecided, SameChecks, SameCounts
    <2>6. UpstreamOk(c)'
      BY <1>1, <1>5, <2>2, <2>3, CallFacts DEF PlaceOk, UpstreamOk, Relay, InRelay
    <2>7. PlaceOk(c)'
      BY <2>4, <2>5, <2>6 DEF PlaceOk
    <2> QED
      BY <1>1, <2>1, <2>2, <2>3, <2>7, WriteGInv DEF SameCounts
  <1> QED
    BY <1>4, <1>5

\* A write the call waited for; what it waited for, and what is left
LEMMA WaitedWrite ==
    ASSUME GInv, NEW c \in Calls, NEW w, NEW ok \in BOOLEAN, Write(w, ok), w.call = c,
           writes' = writes \ {w}, waiting' \subseteq Job, forwarded' \subseteq forwarded \cup {c},
           call[c].phase \in {"recording", "scanrecord"},
           UNCHANGED <<settings, running, upstream, client, cancelled, late>>
    PROVE  /\ Pending(c)' = {} /\ Written(c)' \subseteq Written(c) \cup {w.kind}
           /\ w.kind = IF call[c].phase = "recording" THEN "request" ELSE "scan"
           /\ Written(c) \subseteq IF call[c].phase = "recording" THEN {} ELSE {"request"}
  <1>1. /\ w.kind \in Pending(c) /\ Written(c)' \subseteq Written(c) \cup {w.kind}
        /\ w.kind = "request" \/ Pending(c) \subseteq {"scan"} => Pending(c)' = {}
    BY WriteStep
  <1> QED
    BY <1>1, CallFacts DEF PlaceOk, RecordsOk

LEMMA RequestRecordedGInv ==
    ASSUME GInv, NEW c \in Calls, NEW ok \in BOOLEAN, RequestRecorded(c, ok) PROVE GInv'
  <1> DEFINE k == call[c]
             w == EventRecord(c, "request", k.action)
             forward == k.phase = "recording" /\ ~Raises(ok) /\ k.action = "ALLOW"
  <1>1. /\ Write(w, ok) /\ writes' = writes \ {w}
        /\ forwarded' = IF forward THEN forwarded \cup {c} ELSE forwarded
        /\ UNCHANGED <<settings, waiting, running, upstream, client, cancelled, late>>
    BY DEF RequestRecorded
  <1>2. /\ w.call = c /\ w.kind = "request"
        /\ waiting' \subseteq Job /\ forwarded' \subseteq forwarded \cup {c}
    BY <1>1, CallFacts, EventType DEF GInv, TypeOK
  <1>3. k.phase # "recording" => UNCHANGED call
    BY DEF RequestRecorded
  <1>4. k.phase = "recording"
           => IF Raises(ok) THEN RespondUnavailable(c)
              ELSE IF forward THEN call' = [call EXCEPT ![c].phase = "forwarding"]
              ELSE Respond(c, "block")
    BY DEF RequestRecorded
  <1>5. k.action = "ALLOW" => w = EventRecord(c, "request", "ALLOW")
    OBVIOUS
  <1> HIDE DEF w
  <1>6. "request" \in Pending(c)
    BY <1>1, <1>2, LogAfter DEF Pending
  <1>7. CASE k.phase # "recording"
    <2>1. k.phase # "scanrecord" /\ UNCHANGED <<call, forwarded>>
      BY <1>1, <1>3, <1>6, <1>7, CallFacts DEF PlaceOk, RecordsOk
    <2> QED
      BY <1>1, <1>2, <1>7, <2>1, UnwaitedWrite
  <1>8. CASE k.phase = "recording"
    <2>1. Pending(c)' = {} /\ Written(c)' \subseteq {"request"}
      <3>1. Pending(c)' = {} /\ Written(c)' \subseteq Written(c) \cup {w.kind} /\ Written(c) \subseteq {}
        BY <1>1, <1>2, <1>8, WaitedWrite
      <3> QED
        BY <1>2, <3>1
    <2>2. c \notin forwarded
      BY <1>8, CallFacts DEF PlaceOk, DecidedOk, Undecided
    <2>3. CASE Raises(ok)
      <3> DEFINE r == [k EXCEPT !.phase = "sending", !.out = "unavailable", !.error = TRUE]
      <3>1. r \in Call
        <4>1. "sending" \in Phase /\ "unavailable" \in Text
          BY DEF Phase, Text
        <4> QED
          BY <4>1, CallFacts, ZenonT(60) DEF Call
      <3>2. call' = [call EXCEPT ![c] = r] /\ call'[c] = r /\ c \notin forwarded'
        BY <1>1, <1>4, <1>8, <2>2, <2>3, CallFacts DEF RespondUnavailable, GInv, TypeOK
      <3>3. r.phase = "sending" /\ r.out = "unavailable" /\ SameChecks(k, r) /\ SameCounts(k, r)
        BY CallFacts DEF Call, SameChecks, SameCounts
      <3> HIDE DEF r
      <3>4. PlaceOk(c)'
        BY <1>1, <1>8, <2>1, <3>2, <3>3, CallFacts
           DEF PlaceOk, DecidedOk, RecordsOk, TextsOk, CountsOk, UpstreamOk, Before, Relay,
                     InRelay, Undecided, SameChecks, SameCounts
      <3> QED
        BY <1>1, <1>2, <3>1, <3>2, <3>3, <3>4, WriteGInv DEF SameCounts
    <2>4. CASE forward
      <3> DEFINE r == [k EXCEPT !.phase = "forwarding"]
      <3>1. r \in Call
        <4>1. "forwarding" \in Phase
          BY DEF Phase
        <4> QED
          BY <4>1, CallFacts, ZenonT(60) DEF Call
      <3>2. call' = [call EXCEPT ![c] = r] /\ call'[c] = r
        BY <1>4, <1>8, <2>4, CallFacts DEF GInv, TypeOK
      <3>3. r.phase = "forwarding" /\ SameChecks(k, r) /\ SameCounts(k, r)
        BY CallFacts DEF Call, SameChecks, SameCounts
      <3> HIDE DEF r
      <3>4. ForwardedOk(c)'
        <4>1. w \in IF ok THEN Logs' ELSE unwritten'
          BY <1>1, <1>2, WriteStep
        <4>2. ok \/ ~settings.closed
          BY <2>4 DEF Raises
        <4> QED
          BY <1>1, <1>5, <2>4, <4>1, <4>2 DEF ForwardedOk, EventRecord
      <3>5. k.action = "ALLOW" /\ c \notin late'
        BY <1>1, <2>4, CallFacts DEF PlaceOk, DecidedOk
      <3>6. PlaceOk(c)'
        BY <1>1, <1>8, <2>1, <3>2, <3>3, <3>5, CallFacts
           DEF PlaceOk, DecidedOk, RecordsOk, TextsOk, CountsOk, UpstreamOk, Before, Relay,
                     InRelay, Undecided, SameChecks, SameCounts
      <3> QED
        BY <1>1, <1>2, <3>1, <3>2, <3>3, <3>4, <3>6, WriteGInv DEF SameCounts
    <2>5. CASE ~Raises(ok) /\ ~forward
      <3> DEFINE r == [k EXCEPT !.phase = "sending", !.out = "block"]
      <3>1. r \in Call
        <4>1. "sending" \in Phase /\ "block" \in Text
          BY DEF Phase, Text
        <4> QED
          BY <4>1, CallFacts, ZenonT(60) DEF Call
      <3>2. call' = [call EXCEPT ![c] = r] /\ call'[c] = r /\ c \notin forwarded'
        BY <1>1, <1>4, <1>8, <2>2, <2>5, CallFacts DEF Respond, GInv, TypeOK
      <3>3. r.phase = "sending" /\ r.out = "block" /\ SameChecks(k, r) /\ SameCounts(k, r)
        BY CallFacts DEF Call, SameChecks, SameCounts
      <3> HIDE DEF r
      <3>4. PlaceOk(c)'
        BY <1>1, <1>8, <2>1, <3>2, <3>3, CallFacts
           DEF PlaceOk, DecidedOk, RecordsOk, TextsOk, CountsOk, UpstreamOk, Before, Relay,
                     InRelay, Undecided, SameChecks, SameCounts
      <3> QED
        BY <1>1, <1>2, <3>1, <3>2, <3>3, <3>4, WriteGInv DEF SameCounts
    <2> QED
      BY <2>3, <2>4, <2>5
  <1> QED
    BY <1>7, <1>8

\* What a step that wrote a record may make of a call
LEMMA CallUpdates ==
    ASSUME NEW k \in Call, NEW phase \in Phase, NEW text \in Text, NEW b \in BOOLEAN
    PROVE  /\ [k EXCEPT !.phase = phase] \in Call
           /\ [k EXCEPT !.phase = phase, !.out = text] \in Call
           /\ [k EXCEPT !.phase = phase, !.out = text, !.error = TRUE] \in Call
           /\ [k EXCEPT !.phase = phase, !.out = text, !.action = "BLOCK"] \in Call
           /\ [k EXCEPT !.phase = phase, !.sent = b] \in Call
  <1>1. "BLOCK" \in {"ALLOW", "BLOCK"} /\ TRUE \in BOOLEAN
    OBVIOUS
  <1>2. [k EXCEPT !.phase = phase] \in Call /\ [k EXCEPT !.phase = phase, !.out = text] \in Call
    BY Zenon DEF Call
  <1>3. [k EXCEPT !.phase = phase, !.out = text, !.error = TRUE] \in Call
    BY <1>1, Zenon DEF Call
  <1>4. [k EXCEPT !.phase = phase, !.out = text, !.action = "BLOCK"] \in Call
    BY <1>1, Zenon DEF Call
  <1>5. [k EXCEPT !.phase = phase, !.sent = b] \in Call
    BY Zenon DEF Call
  <1> QED
    BY <1>2, <1>3, <1>4, <1>5

\* The record of the scan of a whole answer
LEMMA AnswerScannedGInv ==
    ASSUME GInv, NEW c \in Calls, NEW w, NEW ok \in BOOLEAN, Write(w, ok), w.call = c,
           writes' = writes \ {w}, call[c].phase = "scanrecord", ~call[c].stream,
           AnswerScanned(c, ok),
           UNCHANGED <<settings, running, upstream, client, cancelled, forwarded, late>>
    PROVE  GInv'
  <1> DEFINE k == call[c]
  <1>1. waiting' \subseteq Job /\ forwarded' \subseteq forwarded \cup {c}
    BY JobType DEF AnswerScanned, Submit, GInv, TypeOK
  <1>2. Pending(c)' = {} /\ Written(c)' \subseteq {"request", "scan"}
    <2>1. /\ Pending(c)' = {} /\ Written(c)' \subseteq Written(c) \cup {w.kind}
          /\ w.kind = "scan" /\ Written(c) \subseteq {"request"}
      BY <1>1, WaitedWrite
    <2> QED
      BY <2>1
  <1>3. CASE Raises(ok)
    <2> DEFINE r == [k EXCEPT !.phase = "sending", !.out = "unavailable", !.error = TRUE]
    <2>1. r \in Call
      <3>1. "sending" \in Phase /\ "unavailable" \in Text
        BY DEF Phase, Text
      <3> QED
        BY <3>1, CallFacts, CallUpdates
    <2>2. call' = [call EXCEPT ![c] = r] /\ call'[c] = r
      BY <1>3, CallFacts DEF AnswerScanned, RespondUnavailable, GInv, TypeOK
    <2>3. r.phase = "sending" /\ r.out = "unavailable" /\ SameChecks(k, r) /\ SameCounts(k, r)
      BY CallFacts DEF Call, SameChecks, SameCounts
    <2> HIDE DEF r
    <2>4. PlaceOk(c)'
      BY <1>2, <2>2, <2>3, CallFacts
         DEF PlaceOk, DecidedOk, RecordsOk, TextsOk, CountsOk, UpstreamOk, Before, Relay,
                   InRelay, Undecided, SameChecks, SameCounts
    <2> QED
      BY <1>1, <2>1, <2>2, <2>3, <2>4, WriteGInv DEF SameCounts
  <1>4. CASE ~Raises(ok) /\ k.verdict = "BLOCK"
    <2> DEFINE r == [k EXCEPT !.phase = "sending", !.out = "block", !.action = "BLOCK"]
    <2>1. r \in Call
      <3>1. "sending" \in Phase /\ "block" \in Text
        BY DEF Phase, Text
      <3> QED
        BY <3>1, CallFacts, CallUpdates
    <2>2. call' = [call EXCEPT ![c] = r] /\ call'[c] = r
      BY <1>4, CallFacts DEF AnswerScanned, RespondBlocked, GInv, TypeOK
    <2>3. /\ r.phase = "sending" /\ r.out = "block" /\ r.stream = k.stream /\ r.upok = k.upok
          /\ r.verdict = k.verdict /\ r.action = "BLOCK" /\ SameCounts(k, r)
      BY CallFacts DEF Call, SameCounts
    <2> HIDE DEF r
    <2>4. PlaceOk(c)'
      BY <1>2, <2>2, <2>3, CallFacts
         DEF PlaceOk, DecidedOk, RecordsOk, TextsOk, CountsOk, UpstreamOk, Before, Relay,
                   InRelay, Undecided, SameCounts
    <2> QED
      BY <1>1, <2>1, <2>2, <2>3, <2>4, WriteGInv DEF SameCounts
  <1>5. CASE ~Raises(ok) /\ k.verdict = "ALLOW" /\ settings.pii
    <2> DEFINE r == [k EXCEPT !.phase = "redacting"]
    <2>1. r \in Call
      <3>1. "redacting" \in Phase /\ "raw" \in Text
        BY DEF Phase, Text
      <3> QED
        BY <3>1, CallFacts, CallUpdates
    <2>2. call' = [call EXCEPT ![c] = r] /\ call'[c] = r
      BY <1>5, CallFacts DEF AnswerScanned, GInv, TypeOK
    <2>3. r.phase = "redacting" /\ SameChecks(k, r) /\ SameCounts(k, r)
      BY CallFacts DEF Call, SameChecks, SameCounts
    <2> HIDE DEF r
    <2>4. PlaceOk(c)'
      BY <1>2, <1>5, <2>2, <2>3, CallFacts
         DEF PlaceOk, DecidedOk, RecordsOk, TextsOk, CountsOk, UpstreamOk, Before, Relay,
                   InRelay, Undecided, SameChecks, SameCounts
    <2> QED
      BY <1>1, <2>1, <2>2, <2>3, <2>4, WriteGInv DEF SameCounts
  <1>6. CASE ~Raises(ok) /\ k.verdict = "ALLOW" /\ ~settings.pii
    <2> DEFINE r == [k EXCEPT !.phase = "sending", !.out = "raw"]
    <2>1. r \in Call
      <3>1. "sending" \in Phase /\ "raw" \in Text
        BY DEF Phase, Text
      <3> QED
        BY <3>1, CallFacts, CallUpdates
    <2>2. call' = [call EXCEPT ![c] = r] /\ call'[c] = r
      BY <1>6, CallFacts DEF AnswerScanned, Respond, GInv, TypeOK
    <2>3. r.phase = "sending" /\ r.out = "raw" /\ SameChecks(k, r) /\ SameCounts(k, r)
      BY CallFacts DEF Call, SameChecks, SameCounts
    <2> HIDE DEF r
    <2>4. PlaceOk(c)'
      BY <1>2, <1>6, <2>2, <2>3, CallFacts
         DEF PlaceOk, DecidedOk, RecordsOk, TextsOk, CountsOk, UpstreamOk, Before, Relay,
                   InRelay, Undecided, SameChecks, SameCounts
    <2> QED
      BY <1>1, <2>1, <2>2, <2>3, <2>4, WriteGInv DEF SameCounts
  <1> QED
    BY <1>3, <1>4, <1>5, <1>6, CallFacts

LEMMA ScanRecordedGInv ==
    ASSUME GInv, NEW c \in Calls, NEW ok \in BOOLEAN, ScanRecorded(c, ok) PROVE GInv'
  <1> DEFINE k == call[c]
             w == EventRecord(c, "scan", k.verdict)
  <1>1. /\ Write(w, ok) /\ writes' = writes \ {w}
        /\ UNCHANGED <<settings, running, upstream, client, cancelled, forwarded, late>>
    BY DEF ScanRecorded
  <1>2. \/ k.phase # "scanrecord" /\ UNCHANGED <<call, waiting>>
        \/ k.phase = "scanrecord" /\ ~k.stream /\ AnswerScanned(c, ok)
        \/ /\ k.phase = "scanrecord" /\ k.stream /\ UNCHANGED waiting
           /\ call' = [call EXCEPT ![c].phase = "closing", ![c].sent = ~Raises(ok)]
    BY DEF ScanRecorded
  <1>3. w.call = c /\ w.kind = "scan"
    BY CallFacts, EventType
  <1> HIDE DEF w
  <1>4. "scan" \in Pending(c)
    BY <1>1, <1>3, LogAfter DEF Pending
  <1>5. CASE k.phase # "scanrecord"
    <2>1. k.phase # "recording" /\ UNCHANGED <<call, waiting>>
      BY <1>2, <1>4, <1>5, CallFacts DEF PlaceOk, RecordsOk
    <2> QED
      BY <1>1, <1>3, <1>5, <2>1, UnwaitedWrite
  <1>6. CASE k.phase = "scanrecord" /\ ~k.stream
    BY <1>1, <1>2, <1>3, <1>6, AnswerScannedGInv
  <1>7. CASE k.phase = "scanrecord" /\ k.stream
    <2> DEFINE r == [k EXCEPT !.phase = "closing", !.sent = ~Raises(ok)]
    <2>1. r \in Call
      <3>1. "closing" \in Phase /\ "raw" \in Text /\ (~Raises(ok)) \in BOOLEAN
        BY DEF Phase, Text, Raises
      <3> QED
        BY <3>1, CallFacts, CallUpdates
    <2>2. call' = [call EXCEPT ![c] = r] /\ call'[c] = r
      BY <1>2, <1>7, CallFacts DEF GInv, TypeOK
    <2>3. r.phase = "closing" /\ SameChecks(k, r) /\ SameCounts(k, r)
      BY CallFacts DEF Call, SameChecks, SameCounts
    <2> HIDE DEF r
    <2>4. waiting' \subseteq Job /\ forwarded' \subseteq forwarded \cup {c}
      BY <1>1, <1>2, <1>7 DEF GInv, TypeOK
    <2>5. Pending(c)' = {} /\ Written(c)' \subseteq {"request", "scan"}
      <3>1. /\ Pending(c)' = {} /\ Written(c)' \subseteq Written(c) \cup {w.kind}
            /\ w.kind = "scan" /\ Written(c) \subseteq {"request"}
        BY <1>1, <1>3, <1>7, <2>4, WaitedWrite
      <3> QED
        BY <3>1
    <2>6. PlaceOk(c)'
      <3>1. UNCHANGED <<settings, upstream, client, cancelled, forwarded, late>>
        BY <1>1
      <3>2. DecidedOk(c)' /\ RecordsOk(c)'
        BY <2>2, <2>3, <2>5, <3>1, CallFacts
           DEF PlaceOk, DecidedOk, RecordsOk, Undecided, Relay, InRelay, SameChecks
      <3>3. TextsOk(c)'
        <4>1. TextsOk(c) /\ r.stream
          BY <1>7, <2>3, CallFacts DEF PlaceOk, SameChecks
        <4> QED
          BY <2>2, <2>3, <3>1, <4>1 DEF TextsOk, Before, Relay, Undecided, SameChecks
      <3>4. CountsOk(c)'
        BY <1>7, <2>2, <2>3, <3>1, CallFacts
           DEF PlaceOk, CountsOk, Before, Relay, Undecided, SameChecks, SameCounts
      <3>5. UpstreamOk(c)'
        BY <1>7, <2>2, <2>3, <3>1, CallFacts DEF PlaceOk, UpstreamOk, Relay, InRelay
      <3> QED
        BY <3>2, <3>3, <3>4, <3>5 DEF PlaceOk
    <2> QED
      BY <1>1, <1>3, <2>1, <2>2, <2>3, <2>4, <2>6, WriteGInv DEF SameCounts
  <1> QED
    BY <1>5, <1>6, <1>7

-----------------------------------------------------------------------------
(***************************************************************************)
(* Init, every step, and the theorems.                                     *)
(***************************************************************************)
LEMMA InitGInv == Init => GInv
  <1> SUFFICES ASSUME Init PROVE GInv
    OBVIOUS
  <1>1. TypeOK /\ IsFiniteSet(running)
    <2>1. IsFiniteSet(running) /\ Cardinality(running) <= Workers
      BY FS_EmptySet, WorkersAssumption DEF Init
    <2>2. /\ settings \in Setting /\ waiting \subseteq Job /\ running \subseteq Job
          /\ writes \subseteq ForensicRecord /\ log \in Seq(ForensicRecord) /\ faults \in Nat
          /\ upstream \in [Calls -> {"none", "open", "closed"}] /\ unwritten \subseteq ForensicRecord
          /\ cancelled \subseteq Calls /\ forwarded \subseteq Calls /\ late \subseteq Calls
      BY SettingsAssumption DEF Init
    <2>3. call \in [Calls -> Call]
      BY NewCallType DEF Init
    <2>4. client \in [Calls -> Client]
      BY DEF Init, Client
    <2> QED
      BY <2>1, <2>2, <2>3, <2>4 DEF TypeOK
  <1>2. Logs = {} /\ Len(log) = 0
    BY DEF Init, Logs
  <1>3. ForwardedOnlyRecorded /\ RecordsInOrder /\ WritesInOrder /\ CompletionIsTrue
    BY <1>2 DEF Init, ForwardedOnlyRecorded, RecordsInOrder, WritesInOrder, CompletionIsTrue
  <1>4. ASSUME NEW c \in Calls PROVE PlaceOk(c)
    <2>1. /\ call[c] = NewCall /\ client[c].got = 0 /\ client[c].texts = {}
          /\ upstream[c] = "none" /\ late = {} /\ forwarded = {}
      BY DEF Init
    <2>2. Pending(c) = {} /\ Written(c) = {}
      BY <1>2 DEF Init, Pending, Written
    <2> QED
      BY <2>1, <2>2 DEF PlaceOk, DecidedOk, RecordsOk, TextsOk, CountsOk, UpstreamOk, Before,
                        Relay, InRelay, Undecided, NewCall
  <1> QED
    BY <1>1, <1>3, <1>4 DEF GInv

LEMMA CallStepGInv == ASSUME GInv, NEW c \in Calls, CallStep(c) PROVE GInv'
  BY PipelineTimesOutGInv, ScanTimesOutGInv, RedactionTimesOutGInv, RequestRecordedGInv,
     ScanRecordedGInv, StreamOpensGInv, ResponseSentGInv, CompletionRecordedGInv,
     UpstreamFailsGInv, ErrorBodyReadGInv, AnswerReceivedGInv, RelayStartsGInv,
     UpstreamSendsGInv, UpstreamEndsGInv, UpstreamBreaksGInv, PieceTakenGInv,
     RelayResumesGInv, StreamLeftGInv, CallEndsGInv
     DEF CallStep

LEMMA JobStepGInv == ASSUME GInv, NEW c \in Calls, JobStep(c) PROVE GInv'
  BY JobStartsGInv, PipelineReturnsGInv, ScanReturnsGInv, RedactionReturnsGInv,
     JobReturnsLateGInv
     DEF JobStep

LEMMA StepGInv == GInv /\ [Next]_vars => GInv'
  <1> SUFFICES ASSUME GInv, [Next]_vars PROVE GInv'
    OBVIOUS
  <1>1. CASE UNCHANGED vars
    BY <1>1, OnlyJobs DEF vars, GInv, TypeOK
  <1>2. ASSUME NEW c \in Calls, CallStep(c) \/ JobStep(c) \/ OutsideStep(c) PROVE GInv'
    <2>1. CASE OutsideStep(c)
      BY <2>1, ArriveGInv, ClientLeavesGInv, CancelledGInv DEF OutsideStep
    <2> QED
      BY <1>2, <2>1, CallStepGInv, JobStepGInv
  <1> QED
    BY <1>1, <1>2 DEF Next

\* The inductive invariant: at every place of the handler, which records of
\* the call can be waiting or written, what its client has, what was counted,
\* and who holds the upstream response.
THEOREM GatewayInvariant == Spec => []GInv
  BY InitGInv, StepGInv, PTL DEF Spec

\* No request reaches its upstream before its ALLOW record is in the store, or
\* in open mode failed to be written (_record before forward in gateway.py).
THEOREM ForwardingIsRecorded == Spec => []ForwardedOnlyRecorded
  <1>1. GInv => ForwardedOnlyRecorded
    BY DEF GInv
  <1> QED
    BY <1>1, GatewayInvariant, PTL

\* A request whose governance ran over its budget is blocked and never
\* forwarded, whatever its worker thread returns later.
THEOREM LateVerdictsAreUnused == Spec => []LateVerdictUnused
  <1>1. GInv => LateVerdictUnused
    BY DEF GInv, TypeOK, LateVerdictUnused, PlaceOk, DecidedOk
  <1> QED
    BY <1>1, GatewayInvariant, PTL

\* The records of a call are in the store once each and in order, but for the
\* scan of a call a shutdown cancelled.
THEOREM RecordsAreOrdered == Spec => []RecordsInOrder
  <1>1. GInv => RecordsInOrder
    BY DEF GInv
  <1> QED
    BY <1>1, GatewayInvariant, PTL

\* With redaction on a client has no raw text of a successful answer, and of
\* a whole answer its scan blocked it has none at all.
THEOREM TextIsGoverned == Spec => []OnlyGovernedText
  <1>1. GInv => OnlyGovernedText
    BY DEF GInv, OnlyGovernedText, PlaceOk, TextsOk
  <1> QED
    BY <1>1, GatewayInvariant, PTL

\* A completion record counts no piece the client did not get, and all that
\* were offered when it reports neither a cancellation nor an error.
THEOREM CompletionsAreTrue == Spec => []CompletionIsTrue
  <1>1. GInv => CompletionIsTrue
    BY DEF GInv
  <1> QED
    BY <1>1, GatewayInvariant, PTL

\* A call that ended has closed its upstream response, unless its client left
\* or a shutdown cancelled it.
THEOREM UpstreamIsReleased == Spec => []UpstreamReleased
  <1>1. GInv => UpstreamReleased
    BY DEF GInv, UpstreamReleased, PlaceOk, UpstreamOk, InRelay, Relay
  <1> QED
    BY <1>1, GatewayInvariant, PTL
=============================================================================
