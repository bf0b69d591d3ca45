----------------------------- MODULE Quarantine -----------------------------
(***************************************************************************)
(* The quarantine of destinations: QuarantineStore of                      *)
(* domains/agent_security/coordination.py over one Redis hash, the         *)
(* coordination detector's use of it for every governed call, the refresh  *)
(* loop of each proxy and the set its EgressPolicy decides with, and the   *)
(* operator's lift.                                                        *)
(*                                                                         *)
(* Redis executes one command at a time; everything between two commands   *)
(* is an await of an asyncio task, so the steps here are the commands.  A  *)
(* time is read once, before the first command of a task, and used for all *)
(* of them: a task may be any time late, which covers proxies whose clocks *)
(* are behind.                                                             *)
(***************************************************************************)
EXTENDS Naturals

CONSTANTS
    Replicas,      \* proxies on the same Redis
    Destinations,
    Calls,         \* governed calls; one that names several destinations is several
    TTL,           \* quarantine_ttl_seconds
    MaxClock,      \* bound: the last instant
    MaxRestarts    \* bound: proxies that restart

ASSUME DestinationsAssumption == Destinations # {}
ASSUME TTLAssumption == TTL \in Nat \ {0}
ASSUME QuarantineBounds == MaxClock \in Nat /\ MaxRestarts \in Nat

VARIABLES
    clock,
    expiry,     \* the hash: each destination's expiry; 0 when it has no field
    policy,     \* each replica's EgressPolicy._quarantine
    refresh,    \* each replica's refresh
    call,       \* each call's evaluation and observation
    enforce,    \* ADMINA_EGRESS_MODE is "enforce"
    restarts,   \* restarts so far
    lifted,     \* history: destinations lifted and not confirmed since, and
                \* whether a renewal had read the entry that was lifted
    promise     \* history: the earliest time of the calls in flight at the last
                \* write of an entry; 0 when it was lifted, or written while a
                \* refresh was about to purge it

vars == <<clock, expiry, policy, refresh, call, enforce, restarts, lifted, promise>>

Refresh == [phase : {"idle", "reading", "purging"}, now : Nat,
            live : SUBSET Destinations,     \* read and in force
            purge : SUBSET Destinations]    \* read and to be deleted

NewRefresh == [phase |-> "idle", now |-> 0, live |-> {}, purge |-> {}]

Call == [phase : {"none", "renewing", "extending", "checking", "done"},
         dest : Destinations,
         start : Nat,        \* the time of observe()
         counts : BOOLEAN]   \* a write that was allowed

NewCall == [phase |-> "none", dest |-> CHOOSE d \in Destinations : TRUE, start |-> 0,
            counts |-> FALSE]

Init ==
    /\ clock = 1 /\ expiry = [d \in Destinations |-> 0]
    /\ policy = [r \in Replicas |-> {}] /\ refresh = [r \in Replicas |-> NewRefresh]
    /\ call = [c \in Calls |-> NewCall]
    /\ enforce \in BOOLEAN /\ restarts = 0
    /\ lifted = [d \in Destinations |-> "no"] /\ promise = [d \in Destinations |-> 0]

\* _live_expiry
Live(d, now) == expiry[d] > now

-----------------------------------------------------------------------------
(***************************************************************************)
(* A governed call: evaluated by its replica, then observed by a task that *)
(* nobody waits for.                                                       *)
(***************************************************************************)
\* EgressPolicy.evaluate: quarantined for writes
Refused(r, d, write) == enforce /\ d \in policy[r] /\ write

\* The call is evaluated and then observed, by a task that reads the time first.
\* Only a write that was allowed, by the quarantine and by everything else,
\* counts as evidence.  What may happen between evaluation and observation can
\* happen in observe mode without it: there `allowed' is not restricted.
Observed(c, r, d, write, allowed) ==
    /\ call[c].phase = "none"
    /\ Refused(r, d, write) => ~allowed
    /\ call' = [call EXCEPT ![c] = [phase |-> "renewing", dest |-> d, start |-> clock,
                                    counts |-> write /\ allowed]]
    /\ UNCHANGED <<clock, expiry, policy, refresh, enforce, restarts, lifted, promise>>

\* Mutant: the expiry read is not looked at
RenewReadsAny(c) ==
    /\ call[c].phase = "renewing"
    /\ call' = [call EXCEPT ![c].phase = "extending"]
    /\ UNCHANGED <<clock, expiry, policy, refresh, enforce, restarts, lifted, promise>>

\* renew(): hget; an entry in force at the call's time is extended
RenewReads(c) ==
    /\ call[c].phase = "renewing"
    /\ call' = [call EXCEPT ![c].phase = IF Live(call[c].dest, call[c].start)
                                         THEN "extending" ELSE "checking"]
    /\ UNCHANGED <<clock, expiry, policy, refresh, enforce, restarts, lifted, promise>>

\* Calls whose task has read the time and may still write
InFlight(d) ==
    {c \in Calls : call[c].dest = d /\ call[c].phase \in {"renewing", "extending", "checking"}}

AboutToPurge(d) == \E r \in Replicas : d \in refresh[r].purge

\* The earliest time of the calls in flight, unless a refresh will purge what
\* is written now
Promised(d) ==
    \E first \in {call[c].start : c \in InFlight(d)} :
        /\ \A c \in InFlight(d) : first <= call[c].start
        /\ promise' = [promise EXCEPT ![d] = IF AboutToPurge(d) THEN 0 ELSE first]

\* Mutant: a destination that has an entry keeps it as it is
WriteIfAbsent(c) ==
    LET d == call[c].dest
    IN  /\ expiry' = [expiry EXCEPT ![d] = IF @ = 0 THEN call[c].start + TTL ELSE @]
        /\ Promised(d)

\* hset: the entry of the call's destination, in force for TTL from its time
Write(c) ==
    LET d == call[c].dest
    IN  expiry' = [expiry EXCEPT ![d] = call[c].start + TTL] /\ Promised(d)

\* renew(): hset
RenewWrites(c) ==
    /\ call[c].phase = "extending"
    /\ Write(c)
    /\ call' = [call EXCEPT ![c].phase = "checking"]
    /\ UNCHANGED <<clock, policy, refresh, enforce, restarts, lifted>>

\* The detector confirms: add().  Its hget only decides what is logged.
Confirmed(c) ==
    /\ call[c].phase = "checking" /\ call[c].counts
    /\ Write(c)
    /\ lifted' = [lifted EXCEPT ![call[c].dest] = "no"]
    /\ call' = [call EXCEPT ![c] = [NewCall EXCEPT !.phase = "done"]]
    /\ UNCHANGED <<clock, policy, refresh, enforce, restarts>>

\* Every other verdict, and add() when Redis fails
NotConfirmed(c) ==
    /\ call[c].phase = "checking"
    /\ call' = [call EXCEPT ![c] = [NewCall EXCEPT !.phase = "done"]]
    /\ UNCHANGED <<clock, expiry, policy, refresh, enforce, restarts, lifted, promise>>

\* renew() when Redis fails
RenewFails(c) ==
    /\ call[c].phase \in {"renewing", "extending"}
    /\ call' = [call EXCEPT ![c].phase = "checking"]
    /\ UNCHANGED <<clock, expiry, policy, refresh, enforce, restarts, lifted, promise>>

(***************************************************************************)
(* The refresh loop.                                                       *)
(***************************************************************************)
RefreshStarts(r) ==
    /\ refresh[r].phase = "idle"
    /\ refresh' = [refresh EXCEPT ![r] = [phase |-> "reading", now |-> clock,
                                          live |-> {}, purge |-> {}]]
    /\ UNCHANGED <<clock, expiry, policy, call, enforce, restarts, lifted, promise>>

\* _read_live: hgetall, and what of it has expired
RefreshReads(r) ==
    LET live == {d \in Destinations : Live(d, refresh[r].now)}
    IN  /\ refresh[r].phase = "reading"
        /\ refresh' = [refresh EXCEPT ![r] =
               [phase |-> "purging", now |-> refresh[r].now, live |-> live,
                purge |-> {d \in Destinations \ live : expiry[d] # 0}]]
        /\ UNCHANGED <<clock, expiry, policy, call, enforce, restarts, lifted, promise>>

\* hdel of an entry read as expired, whatever it is by now; a failure is passed over
RefreshPurges(r, d, ok) ==
    /\ d \in refresh[r].purge
    /\ refresh' = [refresh EXCEPT ![r].purge = @ \ {d}]
    /\ expiry' = IF ok THEN [expiry EXCEPT ![d] = 0] ELSE expiry
    /\ UNCHANGED <<clock, policy, call, enforce, restarts, lifted, promise>>

\* set_quarantine
RefreshEnds(r) ==
    /\ refresh[r].phase = "purging" /\ refresh[r].purge = {}
    /\ policy' = [policy EXCEPT ![r] = refresh[r].live]
    /\ refresh' = [refresh EXCEPT ![r] = NewRefresh]
    /\ UNCHANGED <<clock, expiry, call, enforce, restarts, lifted, promise>>

\* Mutant: unavailable is taken for empty
RefreshFailsOpen(r) ==
    /\ refresh[r].phase = "reading"
    /\ refresh' = [refresh EXCEPT ![r] = NewRefresh]
    /\ policy' = [policy EXCEPT ![r] = {}]
    /\ UNCHANGED <<clock, expiry, call, enforce, restarts, lifted, promise>>

\* The hash cannot be read: the replica keeps the set it has
RefreshFails(r) ==
    /\ refresh[r].phase = "reading"
    /\ refresh' = [refresh EXCEPT ![r] = NewRefresh]
    /\ UNCHANGED <<clock, expiry, policy, call, enforce, restarts, lifted, promise>>

(***************************************************************************)
(* Operators, time, restarts.                                              *)
(***************************************************************************)
\* admina egress quarantine lift
Lift(d) ==
    /\ expiry[d] # 0
    /\ expiry' = [expiry EXCEPT ![d] = 0]
    /\ lifted' = [lifted EXCEPT ![d] =
                     IF \E c \in Calls : call[c].dest = d /\ call[c].phase = "extending"
                     THEN "overlapped" ELSE "clean"]
    /\ promise' = [promise EXCEPT ![d] = 0]
    /\ UNCHANGED <<clock, policy, refresh, call, enforce, restarts>>

Tick ==
    /\ clock < MaxClock /\ clock' = clock + 1
    /\ UNCHANGED <<expiry, policy, refresh, call, enforce, restarts, lifted, promise>>

\* A proxy starts with an empty set
Restart(r) ==
    /\ restarts < MaxRestarts /\ restarts' = restarts + 1
    /\ policy' = [policy EXCEPT ![r] = {}] /\ refresh' = [refresh EXCEPT ![r] = NewRefresh]
    /\ UNCHANGED <<clock, expiry, call, enforce, lifted, promise>>

-----------------------------------------------------------------------------
CallStep(c) ==
    \/ \E r \in Replicas, d \in Destinations, write, allowed \in BOOLEAN :
          Observed(c, r, d, write, allowed)
    \/ RenewReads(c) \/ RenewWrites(c) \/ RenewFails(c)
    \/ Confirmed(c) \/ NotConfirmed(c)

RefreshStep(r) ==
    \/ RefreshStarts(r) \/ RefreshReads(r) \/ RefreshEnds(r) \/ RefreshFails(r)
    \/ \E d \in Destinations, ok \in BOOLEAN : RefreshPurges(r, d, ok)

Next ==
    \/ \E c \in Calls : CallStep(c)
    \/ \E r \in Replicas : RefreshStep(r) \/ Restart(r)
    \/ \E d \in Destinations : Lift(d)
    \/ Tick

Spec == Init /\ [][Next]_vars

\* The loop of a replica goes on, and Redis answers its reads again and again
LiveSpec == Spec /\ \A r \in Replicas : WF_vars(RefreshStep(r)) /\ SF_vars(RefreshReads(r))

-----------------------------------------------------------------------------
\* The types; a refresh never purges what it is about to refuse.
TypeOK ==
    /\ clock \in Nat \ {0} /\ expiry \in [Destinations -> Nat]
    /\ policy \in [Replicas -> SUBSET Destinations]
    /\ refresh \in [Replicas -> Refresh] /\ call \in [Calls -> Call]
    /\ \A r \in Replicas : refresh[r].now <= clock /\ refresh[r].live \cap refresh[r].purge = {}
    /\ enforce \in BOOLEAN /\ restarts \in Nat
    /\ lifted \in [Destinations -> {"no", "clean", "overlapped"}]
    /\ promise \in [Destinations -> Nat]

\* An entry holds for TTL from the earliest call in flight when it was written,
\* whichever calls write it again and whichever replicas purge, unless it is
\* lifted or was written under a purge: a call that is late cannot shorten it
\* further (current(), coordination.py: what purges and renewals do to each other).
QuarantineHolds ==
    \A d \in Destinations :
        promise[d] # 0 /\ clock < promise[d] + TTL => expiry[d] >= promise[d] + TTL

\* What an operator lifts stays lifted until it is confirmed again, however
\* many calls try it, unless a renewal had read the entry before (renew()).
LiftHolds == \A d \in Destinations : lifted[d] = "clean" => expiry[d] = 0

\* renew(): "Never creates one".
RenewNeverCreates == \A d \in Destinations : lifted[d] # "no" => expiry[d] = 0

\* However often a refresh fails, every replica ends up refusing exactly what
\* is in force, once calls, lifts and time have come to rest: a failure is not
\* taken for an empty set, and nothing stays refused that has lapsed.
Converges ==
    \A r \in Replicas, d \in Destinations : <>[](d \in policy[r] <=> Live(d, clock))

(***************************************************************************)
(* Why entries hold: the inductive invariant.                              *)
(***************************************************************************)
\* No call in flight is older than the promise, no time is in the future, and
\* what a refresh is about to purge has run out
InFlightInv ==
    /\ \A c \in Calls : call[c].phase \in {"renewing", "extending", "checking"}
                         => call[c].start \in 1..clock /\ call[c].start >= promise[call[c].dest]
    /\ \A d \in Destinations :
          /\ promise[d] <= clock
          /\ \A r \in Replicas : d \in refresh[r].purge => promise[d] = 0 \/ promise[d] + TTL <= clock
          /\ lifted[d] = "clean"
                => \A c \in Calls : ~(call[c].dest = d /\ call[c].phase = "extending")

QInv == TypeOK /\ InFlightInv /\ QuarantineHolds /\ LiftHolds
=============================================================================
