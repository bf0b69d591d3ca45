----------------------------- MODULE ProxyWatch -----------------------------
(***************************************************************************)
(* How the proxy is watched: the write check behind GET /health            *)
(* (proxy/forensic_probe.py), shared by its callers and reused for a time, *)
(* and the live feed of the dashboard (proxy/api/dashboard.py), whose web  *)
(* sockets get the events of the bus until the browser session they were   *)
(* opened with expires (proxy/main.py, proxy/dashboard_session.py).        *)
(***************************************************************************)
EXTENDS FiniteSets, Integers, Sequences, TLC

CONSTANTS
    Callers,    \* requests to /health
    Feeds,      \* web sockets
    Events,     \* events of the bus
    Interval,   \* PROBE_INTERVAL_S
    Timeout,    \* PROBE_TIMEOUT_S
    TTL,        \* ADMINA_DASHBOARD_SESSION_TTL
    MaxChecks,  \* bound: the checks started
    MaxClock    \* bound: the clock

ASSUME WatchAssumption == /\ Interval \in Nat /\ Timeout \in 1..(Interval - 1)
                          /\ TTL \in Nat \ {0} /\ MaxChecks \in Nat /\ MaxClock \in Nat

Never == -1
Value == {"yes", "no", "none"}   \* True, False and None of writable()

VARIABLES
    clock,
    store,      \* state.forensic_box, replaced once
    probe,      \* the ForensicWriteProbe
    checks,     \* the checks started, each on a thread of its own
    caller,     \* the calls of check()
    cookie,     \* the expiry of the browser's session, Never without one
    feed,       \* a record per web socket
    clients,    \* _ws_clients
    cast        \* _broadcast_event, per event
probing == <<store, probe, checks, caller>>
feeding == <<cookie, feed, clients, cast>>
vars == <<clock, probing, feeding>>
-----------------------------------------------------------------------------
(* The write check *)

NoResult(of) == [store |-> of, checked |-> Never, result |-> "none", running |-> 0, started |-> 0]

\* The probe as a caller finds it: what it knows of another store is dropped
Known == IF probe.store = store THEN probe ELSE NoResult(store)
Fresh(p) == p.checked # Never /\ clock - p.checked < Interval

\* _start: a check on a new thread
Started(p) == [p EXCEPT !.running = Len(checks) + 1, !.started = clock]
NewCheck == [store |-> store, began |-> clock, stage |-> "running", value |-> "none",
             ended |-> Never, woken |-> Never]

Answer(b, value) ==
    caller' = [caller EXCEPT ![b] = [pc |-> "answered", store |-> @.store, check |-> 0,
                                     until |-> 0, value |-> value, at |-> clock]]
Call(pc, check, until, value, at) ==
    [pc |-> pc, store |-> store, check |-> check, until |-> until, value |-> value, at |-> at]

\* check(), as far as its lock is held: reuse a result, start a check or join one
Asks(b) ==
    /\ caller[b].pc # "waiting"
    /\ LET p == Known
           joined == IF p.running = 0 THEN Started(p) ELSE p
           until == joined.started + Timeout
       IN IF Fresh(p)
          THEN /\ probe' = p
               /\ caller' = [caller EXCEPT ![b] = Call("answered", 0, 0, p.result, clock)]
               /\ UNCHANGED checks
          ELSE /\ p.running = 0 => Len(checks) < MaxChecks
               /\ probe' = joined
               /\ checks' = IF p.running = 0 THEN Append(checks, NewCheck) ELSE checks
               /\ caller' = [caller EXCEPT ![b] =
                     IF until <= clock THEN Call("answered", 0, 0, "no", clock)
                     ELSE Call("waiting", joined.running, until, "none", Never)]
    /\ UNCHANGED <<clock, store, feeding>>

\* Whether the result of a check is still the one the probe runs
AnyResult(k) == checks[k].stage = "running"
IsRunning(k) == probe.running = k

\* The thread of a check has its result, or what writable() raised, and keeps it
CheckEnds(k) ==
    /\ checks[k].stage = "running"
    /\ \E value \in Value :
          /\ checks' = [checks EXCEPT ![k].stage = "ended", ![k].value = value, ![k].ended = clock]
          /\ probe' = IF IsRunning(k)
                      THEN [probe EXCEPT !.result = value, !.checked = clock, !.running = 0]
                      ELSE probe
    /\ UNCHANGED <<clock, store, caller, feeding>>

\* Then it wakes the callers that wait for it
CheckWakes(k) ==
    /\ checks[k].stage = "ended"
    /\ checks' = [checks EXCEPT ![k].stage = "done", ![k].woken = clock]
    /\ UNCHANGED <<clock, store, probe, caller, feeding>>

Answered(b) ==
    /\ caller[b].pc = "waiting" /\ checks[caller[b].check].stage = "done"
    /\ Answer(b, checks[caller[b].check].value)
    /\ UNCHANGED <<clock, store, probe, checks, feeding>>

\* _wait: False after the timeout, counted from the start of the check
TimesOut(b) ==
    /\ caller[b].pc = "waiting" /\ caller[b].until <= clock
    /\ Answer(b, "no")
    /\ UNCHANGED <<clock, store, probe, checks, feeding>>

\* A probe is given another store
Replaced ==
    /\ store = 1 /\ store' = 2
    /\ UNCHANGED <<clock, probe, checks, caller, feeding>>
-----------------------------------------------------------------------------
(* The browser session and the live feed *)

\* token_expiry of a session that ends at `exp`
Valid(exp) == exp # Never /\ clock < exp

SignsIn ==
    /\ cookie' = clock + TTL
    /\ UNCHANGED <<clock, probing, feed, clients, cast>>

\* The cookie is cleared; a feed opened with it goes on until its deadline
SignsOut ==
    /\ cookie # Never /\ cookie' = Never
    /\ UNCHANGED <<clock, probing, feed, clients, cast>>

\* dashboard_live: verify_credential finds the API key or a valid session
Connects(f) ==
    /\ feed[f].pc = "away"
    /\ \E key \in BOOLEAN :
          /\ key \/ Valid(cookie)
          /\ feed' = [feed EXCEPT ![f].pc = "admitted", ![f].exp = IF key THEN Never ELSE cookie]
    /\ UNCHANGED <<clock, probing, cookie, clients, cast>>

\* session_expiry reads the clock again: the deadline, or none for a session that
\* has expired since; then the socket is accepted
Accepted(f) ==
    /\ feed[f].pc = "admitted"
    /\ feed' = [feed EXCEPT ![f].pc = "open",
                            ![f].deadline = IF Valid(feed[f].exp) THEN feed[f].exp ELSE Never]
    /\ clients' = clients \cup {f}
    /\ UNCHANGED <<clock, probing, cookie, cast>>

Left(f, pc) == /\ feed' = [feed EXCEPT ![f].pc = pc]
               /\ clients' = clients \ {f}
               /\ UNCHANGED <<clock, probing, cookie, cast>>

\* At its deadline the handler leaves the set and closes the socket
Due(f) == f \in clients /\ feed[f].deadline # Never /\ feed[f].deadline <= clock
ExpiresUnclosed(f) == feed[f].pc = "open" /\ Due(f) /\ Left(f, "open")
Expires(f) == feed[f].pc = "open" /\ Due(f) /\ Left(f, "closed")

\* The browser goes away, and the handler finds out
Goes(f) ==
    /\ feed[f].pc = "open"
    /\ feed' = [feed EXCEPT ![f].pc = "gone"]
    /\ UNCHANGED <<clock, probing, cookie, clients, cast>>
Disconnects(f) == feed[f].pc = "gone" /\ Left(f, "closed")
-----------------------------------------------------------------------------
(* _broadcast_event, of an event emitted on the bus *)

Emitted(e) ==
    /\ cast[e].pc = "new"
    /\ cast' = [cast EXCEPT ![e] = [pc |-> "sending", left |-> clients, dead |-> {}]]
    /\ UNCHANGED <<clock, probing, cookie, feed, clients>>

\* One socket at a time, in the order of the set
Sends(e, f) ==
    /\ cast[e].pc = "sending" /\ f \in cast[e].left
    /\ feed[f].pc = "open"
    /\ feed' = [feed EXCEPT ![f].last = clock]
    /\ cast' = [cast EXCEPT ![e].left = @ \ {f}]
    /\ UNCHANGED <<clock, probing, cookie, clients>>

\* A socket that is closed or gone is dead, unless its error is one that ends the broadcast
SendFails(e, f) ==
    /\ cast[e].pc = "sending" /\ f \in cast[e].left
    /\ feed[f].pc # "open"
    /\ cast' = [cast EXCEPT ![e].left = @ \ {f}, ![e].dead = @ \cup {f}]
    /\ UNCHANGED <<clock, probing, cookie, feed, clients>>
SendRaises(e, f) ==
    /\ cast[e].pc = "sending" /\ f \in cast[e].left
    /\ feed[f].pc # "open"
    /\ cast' = [cast EXCEPT ![e] = [pc |-> "done", left |-> {}, dead |-> {}]]
    /\ UNCHANGED <<clock, probing, cookie, feed, clients>>

CastEnds(e) ==
    /\ cast[e].pc = "sending" /\ cast[e].left = {}
    /\ clients' = clients \ cast[e].dead
    /\ cast' = [cast EXCEPT ![e].pc = "done", ![e].dead = {}]
    /\ UNCHANGED <<clock, probing, cookie, feed>>
-----------------------------------------------------------------------------
\* A timer that is due fires, and a caller that was woken goes on, before the clock does
Tick ==
    /\ clock < MaxClock
    /\ \A b \in Callers : caller[b].pc = "waiting" =>
          clock < caller[b].until /\ checks[caller[b].check].stage # "done"
    /\ \A f \in Feeds : ~Due(f)
    /\ clock' = clock + 1
    /\ UNCHANGED <<probing, feeding>>

Init ==
    /\ clock = 0 /\ store = 1 /\ checks = <<>>
    /\ probe = NoResult(0)
    /\ caller = [b \in Callers |-> Call("idle", 0, 0, "none", Never)]
    /\ cookie = Never /\ clients = {}
    /\ feed = [f \in Feeds |-> [pc |-> "away", exp |-> Never, deadline |-> Never, last |-> Never]]
    /\ cast = [e \in Events |-> [pc |-> "new", left |-> {}, dead |-> {}]]

ProbeStep == \/ \E b \in Callers : Asks(b) \/ Answered(b) \/ TimesOut(b)
             \/ \E k \in 1..Len(checks) : CheckEnds(k) \/ CheckWakes(k)
             \/ Replaced
FeedStep == \/ SignsIn \/ SignsOut
            \/ \E f \in Feeds : \/ Connects(f) \/ Accepted(f) \/ Expires(f)
                               \/ Goes(f) \/ Disconnects(f)
            \/ \E e \in Events : \/ Emitted(e) \/ CastEnds(e)
                                 \/ \E f \in Feeds : \/ Sends(e, f) \/ SendFails(e, f)
                                                    \/ SendRaises(e, f)

Next == ProbeStep \/ FeedStep \/ Tick

Spec == Init /\ [][Next]_vars
-----------------------------------------------------------------------------
TypeOK ==
    /\ clock \in 0..MaxClock /\ store \in {1, 2} /\ clients \subseteq Feeds
    /\ cookie \in Never..(MaxClock + TTL) /\ probe.running \in 0..Len(checks)
    /\ \A b \in Callers : caller[b].pc \in {"idle", "waiting", "answered"}
    /\ \A f \in Feeds : feed[f].pc \in {"away", "admitted", "open", "gone", "closed"}

(* ForensicWriteProbe: what /health says of the store is the result of a    *)
(* check of that store, no older than the interval, or that a check of it   *)
(* has been running for the timeout; whatever other callers, a stalled      *)
(* check or another store did meanwhile.  A store has one check at a time.  *)
ProbeIsTrue ==
    /\ \A b \in Callers : caller[b].pc = "answered" =>
         LET c == caller[b]
         IN \E i \in 1..Len(checks) :
               /\ checks[i].store = c.store
               /\ \/ checks[i].value = c.value /\ checks[i].ended # Never
                     /\ c.at - checks[i].ended < Interval
                  \/ c.value = "no" /\ checks[i].began + Timeout <= c.at
                     /\ (checks[i].woken = Never \/ checks[i].woken >= c.at)
    /\ \A i, j \in 1..Len(checks) :
         (checks[i].stage = "running" /\ checks[j].stage = "running"
            /\ checks[i].store = checks[j].store) => i = j

(* dashboard_live: a feed opened with a browser session gets no event after  *)
(* the session has expired, even of a broadcast that began before; unless    *)
(* the session expired between the two times the code reads its expiry.      *)
FeedEndsWithSession ==
    \A f \in Feeds : feed[f].deadline # Never => feed[f].last <= feed[f].deadline

(* dashboard.py:369: "A connection opened with a session is closed when the  *)
(* session expires."                                                         *)
SessionBoundsFeed ==
    \A f \in Feeds : (feed[f].exp # Never /\ feed[f].pc = "open") => feed[f].last <= feed[f].exp

(***************************************************************************)
(* The inductive invariant: what the probe, the checks and the callers know *)
(* of each other, and which sockets the live feed may still reach.          *)
(***************************************************************************)
WatchType ==
    /\ clock \in Nat /\ store \in {1, 2} /\ cookie \in Int
    /\ probe \in [store : 0..2, checked : Int, result : Value, running : Nat, started : Nat]
    /\ checks \in Seq([store : {1, 2}, began : Nat, stage : {"running", "ended", "done"},
                       value : Value, ended : Int, woken : Int])
    /\ caller \in [Callers -> [pc : {"idle", "waiting", "answered"}, store : {1, 2}, check : Nat,
                               until : Nat, value : Value, at : Int]]
    /\ feed \in [Feeds -> [pc : {"away", "admitted", "open", "gone", "closed"},
                           exp : Int, deadline : Int, last : Int]]
    /\ clients \in SUBSET Feeds
    /\ cast \in [Events -> [pc : {"new", "sending", "done"},
                            left : SUBSET Feeds, dead : SUBSET Feeds]]

\* A check has its times in order
CheckOk(i) ==
    LET k == checks[i]
    IN /\ k.began <= clock
       /\ k.ended = Never <=> k.stage = "running"
       /\ k.stage # "running" => k.began <= k.ended
       /\ k.woken = Never <=> k.stage # "done"
       /\ k.woken <= clock

\* What the probe knows is of its store, and the check it runs is the only one
ProbeOk ==
    /\ probe.store <= store
    /\ \A i \in 1..Len(checks) : checks[i].store <= probe.store
    /\ probe.running # 0 =>
          /\ probe.running \in 1..Len(checks)
          /\ checks[probe.running].stage = "running"
          /\ checks[probe.running].store = probe.store
          /\ checks[probe.running].began = probe.started
    /\ \A i \in 1..Len(checks) :
          checks[i].stage = "running" /\ checks[i].store = probe.store => probe.running = i
    /\ probe.checked # Never =>
          \E i \in 1..Len(checks) : /\ checks[i].store = probe.store
                                    /\ checks[i].value = probe.result
                                    /\ checks[i].ended = probe.checked

\* A caller waits for a check of its store, for no longer than the timeout,
\* and is awake at the instant the check wakes it
CallerOk(c) ==
    /\ c.pc = "answered" => c.at \in Nat /\ c.at <= clock
    /\ c.pc = "waiting" =>
          /\ c.check \in 1..Len(checks) /\ checks[c.check].store = c.store
          /\ c.until = checks[c.check].began + Timeout /\ clock <= c.until
          /\ checks[c.check].stage = "done" => checks[c.check].woken = clock

\* A socket that is open is in the set, until its deadline; a socket a
\* broadcast has yet to reach was accepted, and a dead one is not open
FeedOk(f) ==
    /\ feed[f].pc = "open" =>
          f \in clients /\ (feed[f].deadline # Never => clock <= feed[f].deadline)
    /\ f \in clients => feed[f].pc \notin {"away", "admitted"}
    /\ feed[f].pc \in {"away", "admitted"} => feed[f].last = Never /\ feed[f].deadline = Never
    /\ \A e \in Events : /\ f \in cast[e].left => feed[f].pc \notin {"away", "admitted"}
                         /\ f \in cast[e].dead => feed[f].pc \in {"gone", "closed"}

WatchInv ==
    /\ WatchType /\ ProbeOk /\ ProbeIsTrue /\ FeedEndsWithSession
    /\ \A i \in 1..Len(checks) : CheckOk(i)
    /\ \A b \in Callers : CallerOk(caller[b])
    /\ \A f \in Feeds : FeedOk(f)
=============================================================================
