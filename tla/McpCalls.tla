------------------------------ MODULE McpCalls ------------------------------
(***************************************************************************)
(* The /mcp requests of proxy/main.py, from their rate limits in Redis to  *)
(* the answer and the count of their decision: the governance pipeline's   *)
(* verdict, the forensic records, the tools the proxy runs in its sandbox, *)
(* the upstream MCP server, and the guards on the response.                *)
(*                                                                         *)
(* Each request is a task of the event loop; its steps are the stretches   *)
(* between two awaits.  Redis and the forensic store may fail at any call, *)
(* and the process may die between any two steps; what is in Redis and in  *)
(* the store stays.                                                        *)
(***************************************************************************)
EXTENDS Naturals

CONSTANTS
    Calls, Sessions,
    Limit,        \* RATE_LIMIT_MAX_REQUESTS, on
    IpMultiplier, \* RATE_LIMIT_IP_MULTIPLIER
    Settings,     \* settings a proxy may run with: subset of Setting
    MaxFaults     \* bound: Redis and store failures, and deaths

Setting == [closed: BOOLEAN,        \* ADMINA_FORENSIC_FAIL_MODE is "closed"
            guardsClosed: BOOLEAN]  \* GUARD_FAIL_MODE is "closed"

ASSUME McpAssumption ==
    /\ Limit \in Nat \ {0} /\ IpMultiplier \in Nat \ {0} /\ MaxFaults \in Nat
    /\ Settings \subseteq Setting /\ Sessions # {}

VARIABLES
    settings,
    redis,      \* the counters of the rate limits, and whether they expire
    call,       \* each call: where it is, its decision, its answer
    log,        \* the forensic records written
    observing,  \* calls whose coordination check is in the background
    executed,   \* history: calls whose command was started in the sandbox
    forwarded,  \* history: calls sent to the upstream
    passed,     \* history: calls a counter let through in its present window
    faults      \* failures so far

vars == <<settings, redis, call, log, observing, executed, forwarded, passed, faults>>

\* The keys of the counters: the sessions, and one client address.  A session
\* named "ip:<address>" has the key of that address
Keys == Sessions \cup {"ip"}
LimitOf(k) == IF k = "ip" THEN Limit * IpMultiplier ELSE Limit

Phase == {"new", "session", "sessionTtl", "ip", "ipTtl", "governing", "recording",
          "forwarding", "running", "runRecording", "guarding", "guardRecording",
          "done", "gone"}
Action == {"none", "ALLOW", "BLOCK", "CIRCUIT_BREAK", "ERROR"}

Call == [phase: Phase, session: Sessions,
         kind: {"call", "tool", "list"},   \* tool: a tool of the sandbox
         decision: Action,                 \* _McpOutcome.decision
         run: {"none", "ok", "invalid", "unavailable"},
         status: Nat, counted: Action]

NewCall == [phase |-> "new", session |-> CHOOSE s \in Sessions : TRUE, kind |-> "call",
            decision |-> "none", run |-> "none", status |-> 0, counted |-> "none"]

ForensicRecord == [call: Calls, kind: {"request", "sandbox", "response", "coordination"},
                   action: Action]

Init ==
    /\ settings \in Settings
    /\ redis = [k \in Keys |-> [n |-> 0, ttl |-> FALSE]]
    /\ call = [c \in Calls |-> NewCall]
    /\ log = {} /\ observing = {} /\ executed = {} /\ forwarded = {}
    /\ passed = [k \in Keys |-> 0] /\ faults = 0

Fault == faults < MaxFaults /\ faults' = faults + 1
NoFault == UNCHANGED faults

-----------------------------------------------------------------------------
(***************************************************************************)
(* The end of a request: mcp_proxy records its outcome when it returns.    *)
(***************************************************************************)
\* What is counted: the decision, or BLOCK for a request that was refused
Counted(decision, refused) ==
    IF decision = "none" /\ refused THEN "BLOCK" ELSE decision

Ended(c, decision, status) ==
    [NewCall EXCEPT !.phase = "done", !.status = status,
                    !.counted = Counted(decision, status \in {413, 429})]

Answer(c, status) == call' = [call EXCEPT ![c] = Ended(c, call[c].decision, status)]
AnswerAs(c, decision, status) == call' = [call EXCEPT ![c] = Ended(c, decision, status)]

Goes(c, phase) == call' = [call EXCEPT ![c].phase = phase]

-----------------------------------------------------------------------------
(***************************************************************************)
(* The rate limits: INCR, then EXPIRE by the request that finds the counter *)
(* at 1.  A Redis error lets the request through that limit.               *)
(***************************************************************************)
OnlyRates == UNCHANGED <<settings, log, observing, executed, forwarded>>

Arrive(c, s, kind) ==
    /\ call[c].phase = "new"
    /\ call' = [call EXCEPT ![c].phase = "session", ![c].session = s, ![c].kind = kind]
    /\ UNCHANGED <<redis, passed>> /\ NoFault /\ OnlyRates

\* The counter of the limit a call is at, the limit, and where it goes next
AtAddress(c) == call[c].phase \in {"ip", "ipTtl"}
KeyOf(c) == IF AtAddress(c) THEN "ip" ELSE call[c].session
LimitAt(c) == IF AtAddress(c) THEN Limit * IpMultiplier ELSE Limit
Next1(c) == IF AtAddress(c) THEN "governing" ELSE "ip"
TtlPhase(c) == IF AtAddress(c) THEN "ipTtl" ELSE "sessionTtl"
Passes(c) == Goes(c, Next1(c)) /\ passed' = [passed EXCEPT ![KeyOf(c)] = @ + 1]

\* Mutant: the request that reaches the limit plus one is let through
CountsLoosely(c) ==
    /\ call[c].phase \in {"session", "ip"}
    /\ LET k == KeyOf(c) n == redis[k].n + 1 IN
       /\ redis' = [redis EXCEPT ![k].n = n]
       /\ IF n = 1 THEN Goes(c, TtlPhase(c)) /\ UNCHANGED passed
          ELSE IF n > LimitAt(c) + 1 THEN Answer(c, 429) /\ UNCHANGED passed
          ELSE Passes(c)
    /\ NoFault /\ OnlyRates

Counts(c) ==
    /\ call[c].phase \in {"session", "ip"}
    /\ LET k == KeyOf(c) n == redis[k].n + 1 IN
       /\ redis' = [redis EXCEPT ![k].n = n]
       /\ IF n = 1 THEN Goes(c, TtlPhase(c)) /\ UNCHANGED passed
          ELSE IF n > LimitAt(c) THEN Answer(c, 429) /\ UNCHANGED passed
          ELSE Passes(c)
    /\ NoFault /\ OnlyRates

SetsExpiry(c) ==
    /\ call[c].phase \in {"sessionTtl", "ipTtl"}
    /\ redis' = [redis EXCEPT ![KeyOf(c)].ttl = TRUE]
    /\ Passes(c) /\ NoFault /\ OnlyRates

\* A Redis call raises, the counter incremented or not, its expiry set or not
RedisFails(c, effect) ==
    /\ call[c].phase \in {"session", "ip", "sessionTtl", "ipTtl"} /\ Fault
    /\ LET k == KeyOf(c) IN
       redis' = IF ~effect THEN redis
                ELSE IF call[c].phase \in {"session", "ip"} THEN [redis EXCEPT ![k].n = @ + 1]
                ELSE [redis EXCEPT ![k].ttl = TRUE]
    /\ Goes(c, Next1(c)) /\ UNCHANGED passed /\ OnlyRates

\* The window of a counter is over
Expires(k) ==
    /\ redis[k].ttl /\ redis' = [redis EXCEPT ![k] = [n |-> 0, ttl |-> FALSE]]
    /\ passed' = [passed EXCEPT ![k] = 0]
    /\ UNCHANGED call /\ NoFault /\ OnlyRates

-----------------------------------------------------------------------------
(***************************************************************************)
(* Governance of the request, and its record.                              *)
(***************************************************************************)
OnlyCall == UNCHANGED <<settings, redis, passed>>
NotRecorded == UNCHANGED <<log, observing, executed, forwarded>>

\* A body that is not JSON; one that is JSON and no object, which parse_request
\* raises on outside any try; one over MAX_REQUEST_TOKENS; a pipeline that raises
Rejected(c) ==
    /\ call[c].phase = "governing"
    /\ \/ Answer(c, 400) \/ Answer(c, 500) \/ Answer(c, 413)
       \/ AnswerAs(c, "ERROR", 500)
    /\ OnlyCall /\ NotRecorded /\ NoFault

Governed(c, action) ==
    /\ call[c].phase = "governing"
    /\ call' = [call EXCEPT ![c].phase = "recording", ![c].decision = action]
    /\ OnlyCall /\ NotRecorded /\ NoFault

Record(c, kind, action) ==
    log' = log \cup {[call |-> c, kind |-> kind, action |-> action]}

\* Where an allowed request goes
Acts(c) == IF call[c].kind = "tool" THEN "running" ELSE "forwarding"

\* The verdict's answer, or the sandbox, or the upstream; a call to a
\* destination is handed to the coordination detector in the background
Decided(c) ==
    /\ CASE call[c].decision = "BLOCK" -> Answer(c, 403)
         [] call[c].decision = "CIRCUIT_BREAK" -> Answer(c, 429)
         [] OTHER -> Goes(c, Acts(c))
    /\ observing' \in {observing, observing \cup {c}}

RequestRecorded(c) ==
    /\ call[c].phase = "recording"
    /\ Record(c, "request", call[c].decision)
    /\ Decided(c)
    /\ UNCHANGED <<executed, forwarded>> /\ OnlyCall /\ NoFault

\* Mutant: a record that is not written stops nothing
IgnoredInEveryMode(c) ==
    /\ call[c].phase = "recording" /\ Fault
    /\ Decided(c)
    /\ UNCHANGED <<log, executed, forwarded>> /\ OnlyCall

\* In the open mode the store drops the record without raising
RequestNotRecorded(c) ==
    /\ call[c].phase = "recording" /\ Fault
    /\ IF settings.closed THEN Answer(c, 503) /\ UNCHANGED observing ELSE Decided(c)
    /\ UNCHANGED <<log, executed, forwarded>> /\ OnlyCall

\* The coordination check returns: with a verdict, or nothing to record
Observed(c, recorded) ==
    /\ c \in observing /\ observing' = observing \ {c}
    /\ IF recorded THEN Record(c, "coordination", "BLOCK") ELSE UNCHANGED log
    /\ UNCHANGED <<call, executed, forwarded>> /\ OnlyCall /\ NoFault

-----------------------------------------------------------------------------
(***************************************************************************)
(* A tool of the sandbox.                                                  *)
(***************************************************************************)
\* SandboxExecutor.run returns: its command ran, or the call was refused or
\* failed, maybe after the command had started; or it raises
Ran(c, run, started) ==
    /\ call[c].phase = "running"
    /\ started = (run = "ok") \/ (run \in {"unavailable", "raises"} /\ started)
    /\ IF run = "raises" THEN Answer(c, 500)
       ELSE call' = [call EXCEPT ![c].phase = "runRecording", ![c].run = run]
    /\ executed' = IF started THEN executed \cup {c} ELSE executed
    /\ UNCHANGED <<log, observing, forwarded>> /\ OnlyCall /\ NoFault

\* _McpOutcome.sandbox_refused and the error's status
RunAnswered(c) ==
    CASE call[c].run = "ok" -> Goes(c, "guarding")
      [] call[c].run = "invalid" -> AnswerAs(c, "BLOCK", 400)
      [] call[c].run = "unavailable" -> AnswerAs(c, "ERROR", 503)

RunRecorded(c) ==
    /\ call[c].phase = "runRecording"
    /\ Record(c, "sandbox", IF call[c].run = "ok" THEN "ALLOW" ELSE "ERROR")
    /\ RunAnswered(c)
    /\ UNCHANGED <<observing, executed, forwarded>> /\ OnlyCall /\ NoFault

RunNotRecorded(c) ==
    /\ call[c].phase = "runRecording" /\ Fault
    /\ IF settings.closed THEN Answer(c, 503) ELSE RunAnswered(c)
    /\ NotRecorded /\ OnlyCall

-----------------------------------------------------------------------------
(***************************************************************************)
(* The upstream, and the response's path.                                  *)
(***************************************************************************)
\* The upstream answers; cannot be reached (tools/list is then answered with
\* the sandbox's tools); or fails in another way
Forwarded(c, how) ==
    /\ call[c].phase = "forwarding"
    /\ CASE how = "answers" -> Goes(c, "guarding")
         [] how = "unreachable" ->
               IF call[c].kind = "list" THEN Goes(c, "guarding") ELSE Answer(c, 502)
         [] how = "fails" -> Answer(c, 500)
    /\ forwarded' = IF how = "unreachable" THEN forwarded ELSE forwarded \cup {c}
    /\ UNCHANGED <<log, observing, executed>> /\ OnlyCall /\ NoFault

\* Mutant: the response is blocked, its decision stays
GuardedUncounted(c, verdict) ==
    /\ call[c].phase = "guarding"
    /\ CASE verdict = "pass" -> Answer(c, 200)
         [] verdict = "block" -> Answer(c, 403)
         [] verdict = "error" ->
               IF settings.guardsClosed
               THEN call' = [call EXCEPT ![c].phase = "guardRecording", ![c].decision = "BLOCK"]
               ELSE Answer(c, 200)
         [] verdict = "raises" -> Answer(c, 500)
         [] verdict = "unreachable" -> Answer(c, IF call[c].kind = "tool" THEN 500 ELSE 502)
    /\ NotRecorded /\ OnlyCall /\ NoFault

\* PII redaction and the guards: passed, blocked, a guard that broke its
\* contract, an exception of another kind, or a guard's own httpx.ConnectError,
\* which is taken for the upstream's
Guarded(c, verdict) ==
    /\ call[c].phase = "guarding"
    /\ CASE verdict = "pass" -> Answer(c, 200)
         [] verdict = "block" -> AnswerAs(c, "BLOCK", 403)
         [] verdict = "error" ->
               IF settings.guardsClosed
               THEN call' = [call EXCEPT ![c].phase = "guardRecording", ![c].decision = "BLOCK"]
               ELSE Answer(c, 200)
         [] verdict = "raises" -> Answer(c, 500)
         [] verdict = "unreachable" -> Answer(c, IF call[c].kind = "tool" THEN 500 ELSE 502)
    /\ NotRecorded /\ OnlyCall /\ NoFault

GuardErrorRecorded(c) ==
    /\ call[c].phase = "guardRecording"
    /\ Record(c, "response", "BLOCK") /\ Answer(c, 403)
    /\ UNCHANGED <<observing, executed, forwarded>> /\ OnlyCall /\ NoFault

GuardErrorNotRecorded(c) ==
    /\ call[c].phase = "guardRecording" /\ Fault
    /\ Answer(c, IF settings.closed THEN 503 ELSE 403)
    /\ NotRecorded /\ OnlyCall

-----------------------------------------------------------------------------
\* The process dies, and another one serves the calls that come; Redis and the
\* store keep what they have.  A command the sandbox was asked for may have run.
Dies ==
    /\ Fault /\ observing' = {}
    /\ \E started \in SUBSET {c \in Calls : call[c].phase = "running"} :
          executed' = executed \cup started
    /\ call' = [c \in Calls |->
          IF call[c].phase \in {"new", "done"} THEN call[c]
          ELSE [NewCall EXCEPT !.phase = "gone"]]
    /\ UNCHANGED <<settings, redis, log, forwarded, passed>>

CallStep(c) ==
    \/ Counts(c) \/ SetsExpiry(c) \/ \E effect \in BOOLEAN : RedisFails(c, effect)
    \/ Rejected(c) \/ \E action \in {"ALLOW", "BLOCK", "CIRCUIT_BREAK"} : Governed(c, action)
    \/ RequestRecorded(c) \/ RequestNotRecorded(c)
    \/ \E run \in {"ok", "invalid", "unavailable", "raises"}, started \in BOOLEAN : Ran(c, run, started)
    \/ RunRecorded(c) \/ RunNotRecorded(c)
    \/ \E how \in {"answers", "unreachable", "fails"} : Forwarded(c, how)
    \/ \E verdict \in {"pass", "block", "error", "raises", "unreachable"} : Guarded(c, verdict)
    \/ GuardErrorRecorded(c) \/ GuardErrorNotRecorded(c)

Next ==
    \/ \E c \in Calls :
          \/ \E s \in Sessions, kind \in {"call", "tool", "list"} : Arrive(c, s, kind)
          \/ CallStep(c) \/ \E recorded \in BOOLEAN : Observed(c, recorded)
    \/ \E k \in Keys : Expires(k)
    \/ Dies

Spec == Init /\ [][Next]_vars

\* Every await of a request ends, and a window too
LiveSpec ==
    /\ Spec
    /\ \A c \in Calls : WF_vars(CallStep(c))
    /\ \A k \in Keys : WF_vars(Expires(k))

-----------------------------------------------------------------------------
Written(c, kind) == {r \in log : r.call = c /\ r.kind = kind}

\* Nothing was done for a call, is on the record of it, or is still to come
Untouched(c) ==
    c \notin executed \cup forwarded \cup observing /\ \A r \in log : r.call # c

\* The types
TypeOK ==
    /\ settings \in Settings
    /\ redis \in [Keys -> [n: Nat, ttl: BOOLEAN]] /\ passed \in [Keys -> Nat]
    /\ call \in [Calls -> Call] /\ log \in SUBSET ForensicRecord
    /\ observing \in SUBSET Calls /\ executed \in SUBSET Calls /\ forwarded \in SUBSET Calls
    /\ faults \in 0..MaxFaults

\* With ADMINA_FORENSIC_FAIL_MODE=closed, nothing is executed or forwarded for a
\* request whose ALLOW is not on the record, whatever fails.
ActsOnlyRecorded ==
    settings.closed => \A c \in executed \cup forwarded :
        [call |-> c, kind |-> "request", action |-> "ALLOW"] \in log

\* The answer and what is counted agree: a result is given out exactly under an
\* ALLOW that nothing later revoked, a governance block is counted as one, a
\* request that is not counted did nothing and has no record, and what ran in the
\* sandbox is on the record when its result is given out.
AnswerIsCounted ==
    \A c \in Calls : LET a == call[c] IN
        a.phase = "done" =>
            /\ a.status = 200 => a.counted = "ALLOW"
            /\ a.status = 403 => a.counted = "BLOCK"
            /\ a.status = 429 => a.counted \in {"BLOCK", "CIRCUIT_BREAK"}
            /\ a.counted = "none" => a.status \in {400, 500} /\ Untouched(c)
            /\ (settings.closed /\ a.status = 200 /\ c \in executed) => Written(c, "sandbox") # {}

\* A limit holds in each of its windows, for the requests of every session and
\* address at once, as long as Redis answers and no process dies.
LimitHolds == \A k \in Keys : faults = 0 => passed[k] <= LimitOf(k)

-----------------------------------------------------------------------------
(***************************************************************************)
(* The strengthening that is inductive: what is known of a call in each    *)
(* phase, and of a counter while nothing has failed.                       *)
(***************************************************************************)
Allows(c) == [call |-> c, kind |-> "request", action |-> "ALLOW"]

\* A call acts under an ALLOW that, in closed mode, is on the record; a command
\* that ran is recorded before its result goes to the guards
CallOk(c) == LET a == call[c] IN
    /\ a.phase \in {"new", "session", "sessionTtl", "ip", "ipTtl", "governing"}
          => a.decision = "none" /\ Untouched(c)
    /\ a.phase = "recording" => a.decision \in {"ALLOW", "BLOCK", "CIRCUIT_BREAK"}
    /\ a.phase \in {"forwarding", "running", "runRecording", "guarding"}
          => a.decision = "ALLOW"
    /\ a.phase = "guardRecording" => a.decision = "BLOCK"
    /\ a.phase = "runRecording" => a.run # "none"
    /\ settings.closed
          /\ a.phase \in {"forwarding", "running", "runRecording", "guarding", "guardRecording"}
          => Allows(c) \in log
    /\ c \in executed
          => a.phase \in {"runRecording", "guarding", "guardRecording", "done", "gone"}
    /\ settings.closed /\ a.phase \in {"guarding", "guardRecording"} /\ c \in executed
          => Written(c, "sandbox") # {}

CallInv == \A c \in Calls : CallOk(c)

\* The call that found the counter at 1 has still to set its expiry
Opens(c, k) == \/ call[c].phase = "sessionTtl" /\ call[c].session = k
               \/ call[c].phase = "ipTtl" /\ k = "ip"

\* As many requests pass as are counted, up to the limit, one less while the
\* first of the window is still to pass; there is one such
CounterInv ==
    faults = 0 => \A k \in Keys :
        /\ passed[k] <= redis[k].n /\ passed[k] <= LimitOf(k)
        /\ redis[k].ttl => redis[k].n > 0
        /\ \A c \in Calls : Opens(c, k) =>
              /\ ~redis[k].ttl
              /\ passed[k] < redis[k].n /\ passed[k] < LimitOf(k)
              /\ \A d \in Calls : Opens(d, k) => d = c

MInv == TypeOK /\ CallInv /\ CounterInv /\ ActsOnlyRecorded /\ AnswerIsCounted

\* RATE_LIMIT_WINDOW_SECONDS is the "window in seconds" of the limit: a session
\* at its limit is let through again.
WindowEnds == \A k \in Keys : []<>(redis[k].n < LimitOf(k))
=============================================================================
