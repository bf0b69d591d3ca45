------------------------------ MODULE SdkCalls ------------------------------
(***************************************************************************)
(* The governed calls of the SDK in one process: GovernedModel.ask and     *)
(* .stream, GovernedAgent.call, GovernedData.ingest and .query, with the   *)
(* events they emit on the bus, the attempts of run_with_retry, and the    *)
(* stream redactor of Redaction.  A subscriber of the bus may raise, an    *)
(* upstream may fail or answer too late, a caller may be cancelled or stop *)
(* reading a stream.  The verdict on a request is an input.                *)
(***************************************************************************)
EXTENDS Redaction

CONSTANTS
    Calls,
    Kinds,        \* the operations called, among those of Kind
    Settings,     \* how the primitives are made, among Setting
    Answers,      \* the texts an upstream may answer in one piece
    MaxText,      \* bound: the characters streamed
    MaxPiece,     \* bound: the characters of one delta
    MaxFaults     \* bound: what goes wrong

Kind == {"ask", "stream", "agent", "ingest", "query"}
Governed == {"ask", "stream", "agent"}   \* the kinds with a request and a response event

\* max_attempts is 0 without a retry policy, and timeout_s needs one
Setting == {s \in [audit : BOOLEAN, pii : BOOLEAN, sentences : BOOLEAN,
                   max_attempts : 0..2, timeout_s : BOOLEAN] :
               s.timeout_s => s.max_attempts > 0}

ASSUME CallAssumption == /\ Kinds \subseteq Kind
                         /\ Settings \subseteq Setting
                         /\ MaxPiece \in Nat \ {0}
                         /\ MaxFaults \in Nat
                         /\ \A a \in Answers : a \in Seq(Char)

VARIABLES
    setting,   \* how the primitives were made
    calls,     \* a record per call
    last,      \* last_stream_result: the call it is about
    faults
vars == <<setting, calls, last, faults>>

At(c, pc) == calls[c].pc = pc
Put(c, k) == calls' = [calls EXCEPT ![c] = k]
NewCall(kind) == [kind |-> kind, pc |-> "new", events |-> <<>>, action |-> "none",
                  masked |-> FALSE, tries |-> 0, fed |-> <<>>, sent |-> <<>>,
                  redactor |-> NewRedactor(setting.pii /\ setting.sentences)]

Faulty == faults < MaxFaults /\ faults' = faults + 1
Raises(c, k) == Put(c, [k EXCEPT !.pc = "raised"]) /\ UNCHANGED <<setting, last>>

\* emit: every subscriber is called in turn; one that raises ends the call,
\* before or after the subscriber that keeps the events
Emits(c, k, event, next) ==
    LET kept == [k EXCEPT !.events = Append(@, event)]
    IN IF ~setting.audit THEN Put(c, [k EXCEPT !.pc = next]) /\ UNCHANGED faults
       ELSE \/ Put(c, [kept EXCEPT !.pc = next]) /\ UNCHANGED faults
            \/ \E j \in {k, kept} : Put(c, [j EXCEPT !.pc = "raised"]) /\ Faulty
-----------------------------------------------------------------------------
(* The request *)

\* MODEL_CALL and AGENT_REQUEST come before everything else
Opens(c) ==
    /\ At(c, "new") /\ calls[c].kind \in Governed
    /\ Emits(c, calls[c], "call", "judging")
    /\ UNCHANGED <<setting, last>>

\* The pipeline lets the prompt through, masked or as it is
Allowed(c) ==
    /\ At(c, "judging")
    /\ \E masked \in BOOLEAN :
          /\ masked => setting.pii
          /\ Put(c, [calls[c] EXCEPT !.pc = "calling", !.masked = masked])
    /\ UNCHANGED <<setting, last, faults>>

\* The pipeline stops it: no upstream is called
Refused(c) ==
    /\ At(c, "judging")
    /\ Put(c, [calls[c] EXCEPT !.pc = "closing", !.action = "BLOCK"])
    /\ last' = IF calls[c].kind = "stream" THEN c ELSE last
    /\ UNCHANGED <<setting, faults>>

\* _check_residency: the zone is not allowed, and the call raises after its event
OutsideZone(c) ==
    /\ At(c, "new") /\ calls[c].kind \notin Governed
    /\ Emits(c, [calls[c] EXCEPT !.action = "BLOCK"], "BLOCK", "raised")
    /\ UNCHANGED <<setting, last>>

\* ingest: what it is given is classified
Classifies(c) ==
    /\ At(c, "new") /\ calls[c].kind = "ingest"
    /\ Emits(c, calls[c], "classify", "accessing")
    /\ UNCHANGED <<setting, last>>

Accesses(c) ==
    /\ \/ At(c, "new") /\ calls[c].kind = "query"
       \/ At(c, "accessing")
    /\ Emits(c, [calls[c] EXCEPT !.action = "ALLOW"], "ALLOW", "calling")
    /\ UNCHANGED <<setting, last>>
-----------------------------------------------------------------------------
(* The upstream *)

Tried(c) == [calls[c] EXCEPT !.tries = @ + 1]

\* The action of a call from what was masked in its two directions
Action(k, count) == IF k.masked \/ count > 0 THEN "REDACT" ELSE "ALLOW"

\* One attempt answers in one piece; the answer is masked before anyone sees it
Answered(c) ==
    /\ At(c, "calling") /\ calls[c].kind \in {"ask", "agent", "query"}
    /\ \E raw \in Answers :
         LET k == [Tried(c) EXCEPT !.fed = raw]
                sent == IF setting.pii THEN Redact(raw, setting.sentences) ELSE raw
                count == IF setting.pii THEN Count(raw) ELSE 0
            IN Put(c, [k EXCEPT !.pc = "closing", !.sent = sent, !.action = Action(k, count)])
    /\ UNCHANGED <<setting, last, faults>>

Ingested(c) ==
    /\ At(c, "calling") /\ calls[c].kind = "ingest"
    /\ Put(c, [Tried(c) EXCEPT !.pc = "returned"])
    /\ UNCHANGED <<setting, last, faults>>

\* run_with_retry: a transient failure, or an attempt out of time, is tried again
Retries(k) == k.tries < setting.max_attempts

\* send_stream is not retried; the other calls are, within the policy
FailsTransiently(c) ==
    /\ At(c, "calling") /\ calls[c].kind # "stream" /\ Faulty
    /\ IF Retries(Tried(c)) THEN Put(c, Tried(c)) /\ UNCHANGED <<setting, last>>
       ELSE Raises(c, Tried(c))

TimesOut(c) == setting.timeout_s /\ FailsTransiently(c)

FailsForGood(c) ==
    /\ At(c, "calling") /\ Faulty
    /\ Raises(c, Tried(c))

\* A caller that is cancelled at an await, or stops reading a stream; a stream
\* that breaks: none of them is tried again
Cancelled(c) ==
    /\ calls[c].pc \in {"judging", "accessing", "calling", "streaming", "closing"}
    /\ Faulty /\ Raises(c, calls[c])
-----------------------------------------------------------------------------
(* A stream *)

StreamOpens(c) ==
    /\ At(c, "calling") /\ calls[c].kind = "stream"
    /\ Put(c, [Tried(c) EXCEPT !.pc = "streaming"])
    /\ UNCHANGED <<setting, last, faults>>

Piece == UNION {[1..n -> Char] : n \in 1..MaxPiece}

Delta(c) ==
    /\ At(c, "streaming")
    /\ \E piece \in Piece :
         LET k == calls[c]
         IN /\ Len(piece) <= MaxText - Len(k.fed)
            /\ Put(c, IF setting.pii
                      THEN [k EXCEPT !.fed = @ \o piece, !.redactor = Fed(@, piece),
                                     !.sent = @ \o Emitted(k.redactor, piece)]
                      ELSE [k EXCEPT !.fed = @ \o piece, !.sent = @ \o piece])
    /\ UNCHANGED <<setting, last, faults>>

\* The adapter has no more: what is held is let out, and the result is kept
StreamEnds(c) ==
    /\ At(c, "streaming")
    /\ LET k == calls[c]
           count == IF setting.pii THEN Total(k.redactor) ELSE 0
       IN Put(c, [k EXCEPT !.pc = "closing", !.action = Action(k, count),
                           !.sent = @ \o Rest(k.redactor),
                           !.redactor.buf = <<>>, !.redactor.count = count])
    /\ last' = c
    /\ UNCHANGED <<setting, faults>>
-----------------------------------------------------------------------------
\* MODEL_RESPONSE and AGENT_RESPONSE with the action; DATA_REDACT of a masked document
Closes(c) ==
    /\ At(c, "closing")
    /\ IF calls[c].kind = "query" /\ calls[c].action # "REDACT"
       THEN Put(c, [calls[c] EXCEPT !.pc = "returned"]) /\ UNCHANGED faults
       ELSE Emits(c, calls[c], calls[c].action, "returned")
    /\ UNCHANGED <<setting, last>>

Init ==
    /\ setting \in Settings
    /\ \E kind \in [Calls -> Kinds] : calls = [c \in Calls |-> NewCall(kind[c])]
    /\ last = "none"
    /\ faults = 0

Next == \E c \in Calls :
    \/ Opens(c) \/ Allowed(c) \/ Refused(c) \/ OutsideZone(c) \/ Classifies(c) \/ Accesses(c)
    \/ Answered(c) \/ Ingested(c) \/ FailsTransiently(c) \/ TimesOut(c) \/ FailsForGood(c)
    \/ Cancelled(c) \/ StreamOpens(c) \/ Delta(c) \/ StreamEnds(c) \/ Closes(c)

Spec == Init /\ [][Next]_vars
-----------------------------------------------------------------------------
TypeOK ==
    /\ setting \in Settings /\ last \in Calls \cup {"none"} /\ faults \in 0..MaxFaults
    /\ \A c \in Calls :
         /\ calls[c].kind \in Kinds
         /\ calls[c].pc \in {"new", "judging", "accessing", "calling", "streaming", "closing",
                             "returned", "raised"}
         /\ calls[c].action \in {"none", "ALLOW", "REDACT", "BLOCK"}
         /\ calls[c].redactor.buf \in Seq(Char)

(* StreamRedactor: wherever the text of a stream is cut into deltas, the    *)
(* counts of the parts add up to that of the whole text; and what was let    *)
(* out followed by what is held, redacted, is the whole text redacted, so    *)
(* that nothing masked is let out raw, as long as no more was held than the  *)
(* redactor may hold.                                                        *)
StreamIsWhole ==
    \A c \in Calls :
        LET k == calls[c]
        IN (setting.pii /\ k.kind = "stream") =>
              /\ Total(k.redactor) = Count(k.fed)
              /\ ~k.redactor.overrun =>
                    k.sent \o Rest(k.redactor) = Redact(k.fed, k.redactor.sentences)

(* The action a call returns, and gives to the subscribers of the bus, is    *)
(* what happened: BLOCK when no upstream was called, ALLOW when nothing was  *)
(* changed on the way there or back, REDACT when something was, whatever     *)
(* failed and was tried again before.                                        *)
ActionIsTrue ==
    \A c \in Calls :
        LET k == calls[c]
        IN /\ (k.action = "BLOCK") => k.tries = 0
           /\ (At(c, "returned") /\ k.kind \in Governed) =>
                 /\ k.tries = 0 => k.action = "BLOCK"
                 /\ k.tries > 0 => (k.action = "ALLOW" <=> (~k.masked /\ k.sent = k.fed))
                 /\ setting.audit => k.events = <<"call", k.action>>

(* last_stream_result, once a stream is exhausted, is that stream's          *)
LastIsOwn ==
    [][\A c \in Calls :
          calls[c].kind = "stream" /\ calls[c].pc = "closing" /\ calls'[c].pc = "returned"
          => last' = c]_vars
=============================================================================
