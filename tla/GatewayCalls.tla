---------------------------- MODULE GatewayCalls ----------------------------
(***************************************************************************)
(* The chat completions of proxy/api/gateway.py, from the moment a request *)
(* has its event id to its completion record, with the worker threads of   *)
(* proxy/pipeline_executor.py they share, the upstream exchange, the       *)
(* client, and the forensic records written on the way.                    *)
(*                                                                         *)
(* Each request is a task of the event loop: its steps are the stretches   *)
(* between two awaits.  Scans and redactions run in worker threads, each   *)
(* record is written by a thread of its own, and a task that stops waiting *)
(* for either leaves it running.  Requests answered before they have an    *)
(* event id (400, 413) touch nothing and are left out.                     *)
(***************************************************************************)
EXTENDS Naturals, Sequences, FiniteSets

CONSTANTS
    Calls,       \* chat completions
    Workers,     \* ADMINA_GATEWAY_PIPELINE_WORKERS: threads
    Settings,    \* settings a proxy may run with: subset of Setting
    MaxPieces,   \* bound: pieces of a streamed upstream response
    MaxFaults,   \* bound: records that are not written
    MaxCancels   \* bound: requests the server cancels when it shuts down

Setting == [pii: BOOLEAN,      \* PII_REDACTION_ENABLED
            scan: BOOLEAN,     \* ADMINA_GATEWAY_SCAN_RESPONSE
            closed: BOOLEAN]   \* ADMINA_FORENSIC_FAIL_MODE is "closed"

ASSUME WorkersAssumption == Workers \in Nat \ {0}
ASSUME SettingsAssumption == Settings \subseteq Setting
ASSUME GatewayBounds == MaxPieces \in Nat /\ MaxFaults \in Nat /\ MaxCancels \in Nat

VARIABLES
    settings,
    call,      \* each call's GatewayCall, Delivery and place in the handler
    waiting,   \* jobs that wait for a worker thread
    running,   \* jobs the worker threads run, one thread each
    writes,    \* records handed to a thread and not written yet
    log,       \* the forensic records, in the order written
    faults,    \* records not written so far
    upstream,  \* each call's upstream response
    client,    \* each call's client: still there, pieces and texts it has
    cancelled, \* calls a shutdown cancelled
    forwarded, \* history: calls sent to their upstream
    late,      \* history: calls whose pipeline ran over the budget
    unwritten  \* history: the records that were not written, or dropped

vars == <<settings, call, waiting, running, writes, log, faults, upstream, client,
          cancelled, forwarded, late, unwritten>>

Job == Calls \X {"govern", "scan", "redact"}

Phase == {"none",
          "governing", "recording",               \* up to the request record
          "forwarding", "errorbody",              \* the upstream exchange
          "scanning", "scanrecord", "redacting",  \* of the response
          "starting", "streaming", "yielding", "taken",   \* the relay of a stream
          "sending",                              \* a whole response
          "closing", "ending", "done", "gone"}

Text == {"block", "error", "unavailable", "raw", "redacted"}

Call == [phase: Phase, stream: BOOLEAN,
         action: {"ALLOW", "BLOCK"},
         error: BOOLEAN,        \* call.failed
         upok: BOOLEAN,         \* the upstream answered 2xx
         verdict: {"ALLOW", "BLOCK"},   \* of the response scan
         out: Text,             \* what is being sent
         last: BOOLEAN,         \* the relay has nothing after it
         whole: BOOLEAN,        \* Delivery.completed
         sent: BOOLEAN,         \* sending the response did not raise
         offered: Nat,          \* pieces the relay yielded
         counted: Nat]          \* pieces in response_sha256

NewCall == [phase |-> "none", stream |-> FALSE, action |-> "ALLOW", error |-> FALSE,
            upok |-> FALSE, verdict |-> "ALLOW", out |-> "error", last |-> FALSE,
            whole |-> FALSE, sent |-> TRUE, offered |-> 0, counted |-> 0]

ForensicRecord == [call: Calls, kind: {"request", "scan", "response"},
                   action: {"ALLOW", "BLOCK"}, cancelled: BOOLEAN, error: BOOLEAN,
                   counted: Nat]

EventRecord(c, kind, action) == [call |-> c, kind |-> kind, action |-> action,
                                 cancelled |-> FALSE, error |-> FALSE, counted |-> 0]

Client == [here: BOOLEAN, got: Nat, texts: SUBSET Text]

Init ==
    /\ settings \in Settings
    /\ call = [c \in Calls |-> NewCall]
    /\ waiting = {} /\ running = {}
    /\ writes = {} /\ log = <<>> /\ faults = 0
    /\ upstream = [c \in Calls |-> "none"]
    /\ client = [c \in Calls |-> [here |-> TRUE, got |-> 0, texts |-> {}]]
    /\ cancelled = {} /\ forwarded = {} /\ late = {} /\ unwritten = {}

-----------------------------------------------------------------------------
(***************************************************************************)
(* Worker threads.  A job whose caller stops waiting is dropped when it    *)
(* has not started; once it has, it keeps its thread until it returns.     *)
(***************************************************************************)
JobStarts(j) ==
    /\ j \in waiting /\ Cardinality(running) < Workers
    /\ waiting' = waiting \ {j} /\ running' = running \cup {j}
    /\ UNCHANGED <<settings, call, writes, log, faults, upstream, client, cancelled,
                   forwarded, late, unwritten>>

\* A job returns to a caller that no longer waits for it
JobReturnsLate(c, kind, phase) ==
    /\ <<c, kind>> \in running /\ call[c].phase # phase
    /\ running' = running \ {<<c, kind>>}
    /\ UNCHANGED <<settings, call, waiting, writes, log, faults, upstream, client,
                   cancelled, forwarded, late, unwritten>>

(***************************************************************************)
(* The request.                                                            *)
(***************************************************************************)
Arrive(c, stream) ==
    /\ call[c].phase = "none"
    /\ call' = [call EXCEPT ![c].phase = "governing", ![c].stream = stream]
    /\ waiting' = waiting \cup {<<c, "govern">>}
    /\ UNCHANGED <<settings, running, writes, log, faults, upstream, client, cancelled,
                   forwarded, late, unwritten>>

\* Mutant: the block message does not wait for the record
DecidedUnwaited(c, action) ==
    /\ call' = [call EXCEPT ![c].phase = IF action = "BLOCK" THEN "sending" ELSE "recording",
                            ![c].out = "block", ![c].action = action]
    /\ writes' = writes \cup {EventRecord(c, "request", action)}

\* The decision is taken; its record is handed to a thread
Decided(c, action) ==
    /\ call' = [call EXCEPT ![c].phase = "recording", ![c].action = action]
    /\ writes' = writes \cup {EventRecord(c, "request", action)}

\* Mutant: a result that comes late is used after all
PipelineReturnsLate(c, action) ==
    /\ call[c].phase \in {"governing", "recording"} /\ <<c, "govern">> \in running
    /\ running' = running \ {<<c, "govern">>}
    /\ Decided(c, action)
    /\ UNCHANGED <<settings, waiting, log, faults, upstream, client, cancelled, forwarded,
                   late, unwritten>>

\* The pipeline returned its action or, having raised or masked a message
\* list it did not return, BLOCK
PipelineReturns(c, action) ==
    /\ call[c].phase = "governing" /\ <<c, "govern">> \in running
    /\ running' = running \ {<<c, "govern">>}
    /\ Decided(c, action)
    /\ UNCHANGED <<settings, waiting, log, faults, upstream, client, cancelled, forwarded,
                   late, unwritten>>

\* Mutant: the budget counts from the start of the job
PipelineTimesOutRunning(c) ==
    /\ call[c].phase = "governing" /\ <<c, "govern">> \in running
    /\ late' = late \cup {c}
    /\ Decided(c, "BLOCK")
    /\ UNCHANGED <<settings, waiting, running, log, faults, upstream, client, cancelled,
                   forwarded, unwritten>>

\* The budget counts from the call, the wait for a thread included
PipelineTimesOut(c) ==
    /\ call[c].phase = "governing"
    /\ waiting' = waiting \ {<<c, "govern">>}
    /\ late' = late \cup {c}
    /\ Decided(c, "BLOCK")
    /\ UNCHANGED <<settings, running, log, faults, upstream, client, cancelled, forwarded,
                   unwritten>>

(***************************************************************************)
(* The forensic store: one write at a time, done or not, in whatever order *)
(* the threads get its lock.                                               *)
(***************************************************************************)
Write(w, ok) ==
    /\ w \in writes
    /\ IF ok THEN log' = Append(log, w) /\ UNCHANGED <<faults, unwritten>>
             ELSE /\ faults < MaxFaults /\ faults' = faults + 1
                  /\ unwritten' = unwritten \cup {w} /\ UNCHANGED log

\* Mutant: the fail mode is read the other way round
RaisesWhenOpen(ok) == ~ok /\ ~settings.closed

\* In closed mode record() raises
Raises(ok) == ~ok /\ settings.closed

\* A whole response, sent by the server
Respond(c, text) == call' = [call EXCEPT ![c].phase = "sending", ![c].out = text]

\* _unexpected_failure of a ForensicWriteError: 503
RespondUnavailable(c) ==
    call' = [call EXCEPT ![c].phase = "sending", ![c].out = "unavailable", ![c].error = TRUE]

\* The block message in place of an answer the upstream gave
RespondBlocked(c) ==
    call' = [call EXCEPT ![c].phase = "sending", ![c].out = "block", ![c].action = "BLOCK"]

\* The request record is written, or not; then the request is forwarded
\* unless it is blocked
RequestRecorded(c, ok) ==
    LET w == EventRecord(c, "request", call[c].action)
        forward == call[c].phase = "recording" /\ ~Raises(ok) /\ call[c].action = "ALLOW"
    IN  /\ Write(w, ok)
        /\ writes' = writes \ {w}
        /\ forwarded' = IF forward THEN forwarded \cup {c} ELSE forwarded
        /\ CASE call[c].phase # "recording" -> UNCHANGED call
             [] call[c].phase = "recording" /\ Raises(ok) -> RespondUnavailable(c)
             [] forward -> call' = [call EXCEPT ![c].phase = "forwarding"]
             [] OTHER -> Respond(c, "block")
        /\ UNCHANGED <<settings, waiting, running, upstream, client, cancelled, late>>

(***************************************************************************)
(* The upstream exchange.                                                  *)
(***************************************************************************)
\* 504, 502, or 400 for a body that cannot be encoded
UpstreamFails(c) ==
    /\ call[c].phase \in {"forwarding", "errorbody"}
    /\ call' = [call EXCEPT ![c].phase = "sending", ![c].out = "error", ![c].error = TRUE]
    /\ upstream' = [upstream EXCEPT ![c] = IF @ = "open" THEN "closed" ELSE @]
    /\ UNCHANGED <<settings, waiting, running, writes, log, faults, client, cancelled,
                   forwarded, late, unwritten>>

\* A stream is answered: the relay starts when the response does
StreamOpens(c, ok) ==
    /\ call[c].phase = "forwarding" /\ call[c].stream
    /\ call' = [call EXCEPT ![c].phase = IF ok THEN "starting" ELSE "errorbody", ![c].upok = ok]
    /\ upstream' = [upstream EXCEPT ![c] = "open"]
    /\ UNCHANGED <<settings, waiting, running, writes, log, faults, client, cancelled,
                   forwarded, late, unwritten>>

\* Mutant: the upstream response is not closed once it is read
ErrorBodyReadOpen(c) ==
    /\ call[c].phase = "errorbody"
    /\ Respond(c, "raw")
    /\ UNCHANGED <<settings, waiting, running, writes, log, faults, upstream, client,
                   cancelled, forwarded, late, unwritten>>

\* The body of an upstream error is read whole, and sent as received
ErrorBodyRead(c) ==
    /\ call[c].phase = "errorbody"
    /\ Respond(c, "raw")
    /\ upstream' = [upstream EXCEPT ![c] = "closed"]
    /\ UNCHANGED <<settings, waiting, running, writes, log, faults, client, cancelled,
                   forwarded, late, unwritten>>

\* A response or a line of one is handed to the worker threads
Submit(c, kind) == waiting' = waiting \cup {<<c, kind>>}

\* A whole answer: an error, a JSON object or something else.  A JSON object
\* is scanned, then redacted, as the settings say.
AnswerReceived(c, kind) ==
    /\ call[c].phase = "forwarding" /\ ~call[c].stream
    /\ upstream' = [upstream EXCEPT ![c] = "closed"]
    /\ \/ /\ kind = "json" /\ settings.scan /\ Submit(c, "scan")
          /\ call' = [call EXCEPT ![c].phase = "scanning", ![c].upok = TRUE]
       \/ /\ kind = "json" /\ ~settings.scan /\ settings.pii /\ Submit(c, "redact")
          /\ call' = [call EXCEPT ![c].phase = "redacting", ![c].upok = TRUE]
       \/ /\ kind = "error" \/ (~settings.pii /\ (kind = "other" \/ ~settings.scan))
          /\ call' = [call EXCEPT ![c].phase = "sending", ![c].out = "raw",
                                  ![c].upok = (kind # "error")]
          /\ UNCHANGED waiting
       \/ \* 502: it cannot be redacted
          /\ kind = "other" /\ settings.pii
          /\ call' = [call EXCEPT ![c].phase = "sending", ![c].out = "error", ![c].upok = TRUE]
          /\ UNCHANGED waiting
    /\ UNCHANGED <<settings, running, writes, log, faults, client, cancelled, forwarded,
                   late, unwritten>>

(***************************************************************************)
(* The end of a call: its completion record is handed to a thread before   *)
(* anything is awaited.                                                    *)
(***************************************************************************)
\* completion_record
CompletionRecord(c) ==
    LET k == call[c]
    IN  [call |-> c, kind |-> "response", action |-> k.action,
         cancelled |-> ~(k.whole /\ k.sent) /\ ~k.error, error |-> k.error,
         counted |-> k.counted]

\* Mutant: a response that was not sent has no completion record
CallEndsIfSent(c) ==
    /\ call[c].phase = "closing"
    /\ call' = [call EXCEPT ![c].phase = IF call[c].sent THEN "ending" ELSE "gone"]
    /\ writes' = IF call[c].sent THEN writes \cup {CompletionRecord(c)} ELSE writes
    /\ UNCHANGED <<settings, waiting, running, log, faults, upstream, client, cancelled,
                   forwarded, late, unwritten>>

CallEnds(c) ==
    /\ call[c].phase = "closing"
    /\ call' = [call EXCEPT ![c].phase = "ending"]
    /\ writes' = writes \cup {CompletionRecord(c)}
    /\ UNCHANGED <<settings, waiting, running, log, faults, upstream, client, cancelled,
                   forwarded, late, unwritten>>

\* A failure to write it is logged
CompletionRecorded(c, w, ok) ==
    /\ w.call = c /\ w.kind = "response"
    /\ Write(w, ok)
    /\ writes' = writes \ {w}
    /\ call' = IF call[c].phase = "ending" THEN [call EXCEPT ![c].phase = "done"] ELSE call
    /\ UNCHANGED <<settings, waiting, running, upstream, client, cancelled, forwarded, late>>

\* A whole response is sent; a client that left does not get it, and the
\* server may or may not say so
ResponseSent(c, sent) ==
    /\ call[c].phase = "sending"
    /\ sent \/ ~client[c].here
    /\ client' = IF client[c].here THEN [client EXCEPT ![c].texts = @ \cup {call[c].out}]
                                   ELSE client
    /\ call' = [call EXCEPT ![c].phase = "closing", ![c].whole = TRUE, ![c].sent = sent]
    /\ UNCHANGED <<settings, waiting, running, writes, log, faults, upstream, cancelled, forwarded,
                   late, unwritten>>

(***************************************************************************)
(* The checks of a response.                                               *)
(***************************************************************************)
\* The scan returned, raised (BLOCK) or ran over the budget (BLOCK, in every
\* mode); its outcome is recorded
Scanned(c, verdict) ==
    /\ call' = [call EXCEPT ![c].phase = "scanrecord", ![c].verdict = verdict]
    /\ writes' = writes \cup {EventRecord(c, "scan", verdict)}

ScanReturns(c, verdict) ==
    /\ call[c].phase = "scanning" /\ <<c, "scan">> \in running
    /\ running' = running \ {<<c, "scan">>}
    /\ Scanned(c, verdict)
    /\ UNCHANGED <<settings, waiting, log, faults, upstream, client, cancelled, forwarded,
                   late, unwritten>>

ScanTimesOut(c) ==
    /\ call[c].phase = "scanning"
    /\ waiting' = waiting \ {<<c, "scan">>}
    /\ Scanned(c, "BLOCK")
    /\ UNCHANGED <<settings, running, log, faults, upstream, client, cancelled, forwarded,
                   late, unwritten>>

\* A whole answer goes on to its redaction or is sent, unless it is blocked
AnswerScanned(c, ok) ==
    \/ /\ Raises(ok) /\ RespondUnavailable(c) /\ UNCHANGED waiting
    \/ /\ ~Raises(ok) /\ call[c].verdict = "BLOCK" /\ RespondBlocked(c) /\ UNCHANGED waiting
    \/ /\ ~Raises(ok) /\ call[c].verdict = "ALLOW" /\ settings.pii /\ Submit(c, "redact")
       /\ call' = [call EXCEPT ![c].phase = "redacting"]
    \/ /\ ~Raises(ok) /\ call[c].verdict = "ALLOW" /\ ~settings.pii /\ Respond(c, "raw")
       /\ UNCHANGED waiting

\* The scan of a stream is a background task of its response: when its record
\* raises, so does sending the response
ScanRecorded(c, ok) ==
    LET w == EventRecord(c, "scan", call[c].verdict)
    IN  /\ Write(w, ok)
        /\ writes' = writes \ {w}
        /\ \/ call[c].phase # "scanrecord" /\ UNCHANGED <<call, waiting>>
           \/ call[c].phase = "scanrecord" /\ ~call[c].stream /\ AnswerScanned(c, ok)
           \/ /\ call[c].phase = "scanrecord" /\ call[c].stream
              /\ call' = [call EXCEPT ![c].phase = "closing", ![c].sent = ~Raises(ok)]
              /\ UNCHANGED waiting
        /\ UNCHANGED <<settings, running, upstream, client, cancelled, forwarded, late>>

\* The relay yields a piece; after the last one it has ended
Yield(c, text, last) ==
    call' = [call EXCEPT ![c].phase = "yielding", ![c].out = text, ![c].last = last,
                         ![c].offered = @ + 1]

\* Mutant: what could not be redacted is sent as it is
RedactedOrRaw(c, ok) ==
    LET text == IF ok THEN "redacted" ELSE "raw"
    IN  IF call[c].stream THEN Yield(c, text, call[c].last) ELSE Respond(c, text)

\* Redacted text is sent, text that was not is not: the block message in its
\* place, or the event that ends a stream
Redacted(c, ok) ==
    IF call[c].stream
    THEN IF ok THEN Yield(c, "redacted", call[c].last) ELSE Yield(c, "error", TRUE)
    ELSE IF ok THEN Respond(c, "redacted") ELSE RespondBlocked(c)

RedactionReturns(c, ok) ==
    /\ call[c].phase = "redacting" /\ <<c, "redact">> \in running
    /\ running' = running \ {<<c, "redact">>}
    /\ Redacted(c, ok)
    /\ UNCHANGED <<settings, waiting, writes, log, faults, upstream, client, cancelled,
                   forwarded, late, unwritten>>

RedactionTimesOut(c) ==
    /\ call[c].phase = "redacting"
    /\ waiting' = waiting \ {<<c, "redact">>}
    /\ Redacted(c, FALSE)
    /\ UNCHANGED <<settings, running, writes, log, faults, upstream, client, cancelled,
                   forwarded, late, unwritten>>

(***************************************************************************)
(* The relay of a stream.                                                  *)
(***************************************************************************)
\* The server asks the relay for its first piece
RelayStarts(c) ==
    /\ call[c].phase = "starting"
    /\ call' = [call EXCEPT ![c].phase = "streaming"]
    /\ UNCHANGED <<settings, waiting, running, writes, log, faults, upstream, client,
                   cancelled, forwarded, late, unwritten>>

\* What follows the body of a stream: its scan or the end of the call
AfterBody == IF settings.scan THEN "scanning" ELSE "closing"

\* The jobs of a stream whose body is over
BodyJobs(c) == (waiting \ {<<c, "redact">>})
                   \cup (IF settings.scan THEN {<<c, "scan">>} ELSE {})

\* The upstream sends something more, or ends.  Redaction works on each line
\* and, at the end, on the text it still holds back.
UpstreamSends(c) ==
    /\ call[c].phase = "streaming" /\ call[c].offered < MaxPieces
    /\ IF settings.pii
       THEN call' = [call EXCEPT ![c].phase = "redacting"] /\ Submit(c, "redact")
       ELSE Yield(c, "raw", FALSE) /\ UNCHANGED waiting
    /\ UNCHANGED <<settings, running, writes, log, faults, upstream, client, cancelled,
                   forwarded, late, unwritten>>

UpstreamEnds(c) ==
    /\ call[c].phase = "streaming"
    /\ IF settings.pii
       THEN /\ call' = [call EXCEPT ![c].phase = "redacting", ![c].last = TRUE]
            /\ Submit(c, "redact") /\ UNCHANGED upstream
       ELSE /\ call' = [call EXCEPT ![c].phase = AfterBody, ![c].whole = TRUE]
            /\ waiting' = BodyJobs(c) /\ upstream' = [upstream EXCEPT ![c] = "closed"]
    /\ UNCHANGED <<settings, running, writes, log, faults, client, cancelled, forwarded,
                   late, unwritten>>

\* The upstream fails, or the total deadline passes while a piece is waited
\* for, its redaction included: an error event ends the stream
UpstreamBreaks(c) ==
    /\ call[c].phase = "streaming" \/ (call[c].phase = "redacting" /\ call[c].stream)
    /\ call' = [call EXCEPT ![c].phase = "yielding", ![c].out = "error", ![c].last = TRUE,
                            ![c].error = TRUE, ![c].offered = @ + 1]
    /\ waiting' = waiting \ {<<c, "redact">>}
    /\ UNCHANGED <<settings, running, writes, log, faults, upstream, client, cancelled,
                   forwarded, late, unwritten>>

\* The client gets the piece being sent
PieceTaken(c) ==
    /\ call[c].phase = "yielding" /\ client[c].here
    /\ call' = [call EXCEPT ![c].phase = "taken"]
    /\ client' = [client EXCEPT ![c].got = @ + 1, ![c].texts = @ \cup {call[c].out}]
    /\ UNCHANGED <<settings, waiting, running, writes, log, faults, upstream, cancelled,
                   forwarded, late, unwritten>>

\* Mutant: a piece is counted when the next one arrives, so the last one is not
RelayResumesUncounted(c) ==
    /\ call[c].phase = "taken"
    /\ IF call[c].last
       THEN /\ call' = [call EXCEPT ![c].whole = TRUE, ![c].phase = AfterBody]
            /\ waiting' = BodyJobs(c) /\ upstream' = [upstream EXCEPT ![c] = "closed"]
       ELSE /\ call' = [call EXCEPT ![c].counted = @ + 1, ![c].phase = "streaming"]
            /\ UNCHANGED <<waiting, upstream>>
    /\ UNCHANGED <<settings, running, writes, log, faults, client, cancelled, forwarded,
                   late, unwritten>>

\* Asked for the next piece, the relay counts the last one and goes on
RelayResumes(c) ==
    /\ call[c].phase = "taken"
    /\ IF call[c].last
       THEN /\ call' = [call EXCEPT ![c].counted = @ + 1, ![c].whole = TRUE,
                                    ![c].phase = AfterBody]
            /\ waiting' = BodyJobs(c) /\ upstream' = [upstream EXCEPT ![c] = "closed"]
       ELSE /\ call' = [call EXCEPT ![c].counted = @ + 1, ![c].phase = "streaming"]
            /\ UNCHANGED <<waiting, upstream>>
    /\ UNCHANGED <<settings, running, writes, log, faults, client, cancelled, forwarded,
                   late, unwritten>>

(***************************************************************************)
(* Clients that leave, and requests a shutdown cancels.                    *)
(***************************************************************************)
ClientLeaves(c) ==
    /\ call[c].phase \notin {"none", "done", "gone"} /\ client[c].here
    /\ client' = [client EXCEPT ![c].here = FALSE]
    /\ UNCHANGED <<settings, call, waiting, running, writes, log, faults, upstream,
                   cancelled, forwarded, late, unwritten>>

\* The handler is in the relay of a stream
Relaying(c) == \/ call[c].phase \in {"starting", "streaming", "yielding"}
               \/ call[c].phase = "redacting" /\ call[c].stream

\* The relay closes the upstream response when it is waiting for something
\* itself; not started, or waiting for a piece to be taken, it is left as it
\* is until it is collected
RelayLeft(c) ==
    upstream' = IF call[c].phase \in {"starting", "yielding"} THEN upstream
                ELSE [upstream EXCEPT ![c] = "closed"]

\* The client of a stream left: the server stops the relay and, as the
\* server does, runs the scan all the same or raises
StreamLeft(c) ==
    /\ Relaying(c) /\ ~client[c].here
    /\ RelayLeft(c)
    /\ \/ call' = [call EXCEPT ![c].phase = AfterBody] /\ waiting' = BodyJobs(c)
       \/ /\ call' = [call EXCEPT ![c].phase = "closing", ![c].sent = FALSE]
          /\ waiting' = waiting \ {<<c, "redact">>}
    /\ UNCHANGED <<settings, running, writes, log, faults, client, cancelled, forwarded,
                   late, unwritten>>

\* The response has begun: what happens now, the call still ends
Responding(c) == \/ Relaying(c)
                 \/ call[c].phase = "sending"
                 \/ call[c].phase \in {"scanning", "scanrecord"} /\ call[c].stream

\* The record the handler waits for
Awaited(c) == {w \in writes : /\ w.call = c
                              /\ <<call[c].phase, w.kind>> \in
                                    {<<"recording", "request">>, <<"scanrecord", "scan">>,
                                     <<"ending", "response">>}}

\* The server cancels the task at an await.  Threads go on: a job that runs, a
\* record being written.  What no thread has taken yet is dropped when the
\* handler waits for it.
Cancelled(c) ==
    /\ Cardinality(cancelled) < MaxCancels
    /\ cancelled' = cancelled \cup {c}
    /\ call[c].phase \notin {"none", "taken", "closing", "done", "gone"}
    /\ waiting' = waiting \ ({c} \X {"govern", "scan", "redact"})
    /\ call' = IF Responding(c) THEN [call EXCEPT ![c].phase = "closing", ![c].sent = FALSE]
                                ELSE [call EXCEPT ![c].phase = "gone"]
    /\ IF Relaying(c) \/ call[c].phase = "errorbody" THEN RelayLeft(c) ELSE UNCHANGED upstream
    /\ \E dropped \in SUBSET Awaited(c) :
          writes' = writes \ dropped /\ unwritten' = unwritten \cup dropped
    /\ UNCHANGED <<settings, running, log, faults, client, forwarded, late>>

-----------------------------------------------------------------------------
\* What the event loop, the store's threads, the upstream and its timeouts,
\* and the timers do for a call
CallStep(c) ==
    \/ PipelineTimesOut(c) \/ ScanTimesOut(c) \/ RedactionTimesOut(c)
    \/ \E ok \in BOOLEAN :
          \/ RequestRecorded(c, ok) \/ ScanRecorded(c, ok) \/ StreamOpens(c, ok)
          \/ ResponseSent(c, ok)
          \/ \E w \in writes : CompletionRecorded(c, w, ok)
    \/ UpstreamFails(c) \/ ErrorBodyRead(c)
    \/ \E kind \in {"json", "other", "error"} : AnswerReceived(c, kind)
    \/ RelayStarts(c) \/ UpstreamSends(c) \/ UpstreamEnds(c) \/ UpstreamBreaks(c)
    \/ PieceTaken(c) \/ RelayResumes(c) \/ StreamLeft(c)
    \/ CallEnds(c)

\* What a worker thread does for a call, if its job ever returns
JobStep(c) ==
    \/ \E kind \in {"govern", "scan", "redact"} : JobStarts(<<c, kind>>)
    \/ \E action \in {"ALLOW", "BLOCK"} : PipelineReturns(c, action) \/ ScanReturns(c, action)
    \/ \E ok \in BOOLEAN : RedactionReturns(c, ok)
    \/ JobReturnsLate(c, "govern", "governing") \/ JobReturnsLate(c, "scan", "scanning")
    \/ JobReturnsLate(c, "redact", "redacting")

\* What comes from outside
OutsideStep(c) == (\E stream \in BOOLEAN : Arrive(c, stream)) \/ ClientLeaves(c) \/ Cancelled(c)

Next == \E c \in Calls : CallStep(c) \/ JobStep(c) \/ OutsideStep(c)

Spec == Init /\ [][Next]_vars

\* A call's own steps are taken; a worker's job may never return
LiveSpec == Spec /\ \A c \in Calls : WF_vars(CallStep(c))

-----------------------------------------------------------------------------
(***************************************************************************)
(* Properties.                                                             *)
(***************************************************************************)
\* The types; the pool runs no more jobs than it has threads.
TypeOK ==
    /\ settings \in Setting
    /\ call \in [Calls -> Call]
    /\ waiting \subseteq Job /\ running \subseteq Job /\ Cardinality(running) <= Workers
    /\ writes \subseteq ForensicRecord /\ log \in Seq(ForensicRecord) /\ faults \in Nat
    /\ upstream \in [Calls -> {"none", "open", "closed"}]
    /\ client \in [Calls -> Client]
    /\ cancelled \subseteq Calls /\ forwarded \subseteq Calls /\ late \subseteq Calls
    /\ unwritten \subseteq ForensicRecord

Logged(w) == \E i \in 1..Len(log) : log[i] = w

\* A request reaches its upstream only after its record, with the action
\* ALLOW, is in the store; in open mode, or after a write that failed.
ForwardedOnlyRecorded ==
    \A c \in forwarded :
        LET w == EventRecord(c, "request", "ALLOW")
        IN  Logged(w) \/ (~settings.closed /\ w \in unwritten)

\* A request whose decision ran over the budget is never forwarded, whatever
\* its pipeline returns afterwards (README: "blocked, in every governance
\* mode, and never forwarded").
LateVerdictUnused == \A c \in late : c \notin forwarded /\ call[c].action = "BLOCK"

\* The records of a call are written once each and in order: the request,
\* the scan of the response, the completion; when a shutdown cancels the call
\* while a thread writes the scan, the last two come in either order.
Rank(w) == CASE w.kind = "request" -> 1 [] w.kind = "scan" -> 2 [] OTHER -> 3

RecordsInOrder ==
    \A i, j \in 1..Len(log) :
        i < j /\ log[i].call = log[j].call
            => \/ Rank(log[i]) < Rank(log[j])
               \/ log[i].call \in cancelled /\ log[i].kind = "response" /\ log[j].kind = "scan"

\* With PII redaction on, a client never gets text of a successful answer
\* that was not redacted; and none of a whole answer its scan blocked.
OnlyGovernedText ==
    \A c \in Calls :
        /\ settings.pii /\ "raw" \in client[c].texts => ~call[c].upok
        /\ ~call[c].stream /\ call[c].verdict = "BLOCK"
              => client[c].texts \subseteq {"block", "unavailable"}

\* The completion record of a stream counts no piece the client did not get,
\* and one that says neither cancelled nor error counts them all.
CompletionIsTrue ==
    \A c \in Calls : \A w \in writes \cup {log[i] : i \in 1..Len(log)} :
        w.call = c /\ w.kind = "response"
            => /\ w.counted <= client[c].got
               /\ ~w.cancelled /\ ~w.error => w.counted = call[c].offered

\* A call that ended holds no upstream response, but for the relay of a
\* client that left.
UpstreamReleased ==
    \A c \in Calls : call[c].phase \in {"ending", "done", "gone"} /\ upstream[c] = "open"
                        => ~client[c].here \/ c \in cancelled

\* Every call is answered and ends, with all worker threads busy for ever.
EveryCallEnds ==
    \A c \in Calls : call[c].phase = "governing" ~> call[c].phase \in {"done", "gone"}

\* Once its response has begun a call gets its completion record, even when
\* its client leaves or a shutdown cancels it: the record is written, fails, or
\* is dropped by a shutdown while it waits for a thread.
EveryResponseRecorded ==
    \A c \in Calls :
        Responding(c) ~> \E w \in unwritten \cup {log[i] : i \in 1..Len(log)} :
                            w.call = c /\ w.kind = "response"

\* _record_completion: "it is done even when the request is cancelled meanwhile"
CompletionDone == faults = 0 => \A w \in unwritten : w.kind # "response"

\* README: "503 and not forwarded".
UnavailableNotForwarded == \A c \in Calls : call[c].out = "unavailable" => c \notin forwarded

\* README: "cancelled: the client went away before the end of the response".
CancelledMeansLeft ==
    \A i \in 1..Len(log) :
        log[i].cancelled => ~client[log[i].call].here \/ log[i].call \in cancelled

-----------------------------------------------------------------------------
(***************************************************************************)
(* The strengthening that is inductive: for each call, what holds at each  *)
(* place of the handler.                                                   *)
(***************************************************************************)
Logs == {log[i] : i \in 1..Len(log)}

\* The kinds of a call's records that wait to be written, and that are
Pending(c) == {w.kind : w \in {v \in writes : v.call = c}}
Written(c) == {w.kind : w \in {v \in Logs : v.call = c}}

Undecided == {"none", "governing"}
Before == Undecided \cup {"recording", "forwarding", "errorbody"}
Relay == {"starting", "streaming", "yielding", "taken"}
InRelay(k) == k.phase \in Relay \/ (k.phase = "redacting" /\ k.stream)

\* A call is decided once, and forwarded after that
DecidedOk(c) == LET k == call[c] IN
    /\ k.phase \in Undecided => c \notin late
    /\ k.phase \in Undecided \cup {"recording"} => c \notin forwarded
    /\ c \in late => c \notin forwarded /\ k.action = "BLOCK"

\* Which records of a call there can be
RecordsOk(c) == LET k == call[c] IN
    /\ k.phase \in Undecided => Pending(c) = {} /\ Written(c) = {}
    /\ k.phase = "recording" => Pending(c) \subseteq {"request"} /\ Written(c) = {}
    /\ k.phase \in {"forwarding", "errorbody", "scanning"} \/ InRelay(k)
          => Pending(c) = {} /\ Written(c) \subseteq {"request"}
    /\ k.phase = "scanrecord" => Pending(c) \subseteq {"scan"} /\ Written(c) \subseteq {"request"}
    /\ k.phase \in {"redacting", "sending"}
          => Pending(c) = {} /\ Written(c) \subseteq {"request", "scan"}
    /\ k.phase = "closing"
          => /\ Pending(c) \subseteq {"scan"} /\ Written(c) \subseteq {"request", "scan"}
             /\ Pending(c) # {} => c \in cancelled

\* Two records of one call wait only when a shutdown cancelled it, and a record
\* that waits comes after those written
WritesInOrder ==
    /\ \A v, w \in writes : v.call = w.call /\ v # w
          => w.call \in cancelled /\ {v.kind, w.kind} = {"scan", "response"}
    /\ \A v \in Logs, w \in writes : v.call = w.call
          => \/ Rank(v) < Rank(w)
             \/ w.call \in cancelled /\ v.kind = "response" /\ w.kind = "scan"

\* What is sent, and what the client has
TextsOk(c) == LET k == call[c]  Governed(t) == settings.pii /\ t = "raw" => ~k.upok IN
    /\ k.phase \in Relay \cup {"errorbody"} => k.stream
    /\ k.phase = "errorbody" => ~k.upok
    /\ k.phase \in Before \cup {"sending"} => client[c].texts = {}
    /\ ~k.stream /\ k.phase \in {"scanning", "scanrecord", "redacting"} => client[c].texts = {}
    /\ k.phase \in Before => k.verdict = "ALLOW"
    /\ ~k.stream /\ k.phase \in {"scanning", "redacting"} => k.verdict = "ALLOW"
    /\ k.phase \in {"sending", "yielding"} => Governed(k.out)
    /\ \A t \in client[c].texts : Governed(t)
    /\ ~k.stream /\ k.verdict = "BLOCK"
          => /\ client[c].texts \subseteq {"block", "unavailable"}
             /\ k.phase = "sending" => k.out \in {"block", "unavailable"}

\* The pieces offered, counted and taken
CountsOk(c) == LET k == call[c]  n == k.counted IN
    /\ n <= client[c].got /\ (k.phase = "taken" => n < client[c].got)
    /\ k.whole => k.offered = n
    /\ (k.phase \in Before \cup Relay \cup {"redacting", "sending"}
             \/ (~k.stream /\ k.phase \in {"scanning", "scanrecord"}))
          => ~k.whole /\ k.offered = IF k.phase \in {"yielding", "taken"} THEN n + 1 ELSE n

\* Who still holds an upstream response
UpstreamOk(c) ==
    upstream[c] = "open" => \/ call[c].phase = "errorbody" \/ InRelay(call[c])
                            \/ ~client[c].here \/ c \in cancelled

PlaceOk(c) == DecidedOk(c) /\ RecordsOk(c) /\ TextsOk(c) /\ CountsOk(c) /\ UpstreamOk(c)

GInv ==
    /\ TypeOK /\ IsFiniteSet(running)
    /\ ForwardedOnlyRecorded /\ RecordsInOrder /\ WritesInOrder /\ CompletionIsTrue
    /\ \A c \in Calls : PlaceOk(c)
=============================================================================
