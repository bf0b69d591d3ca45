------------------------- MODULE SandboxContainers -------------------------
(***************************************************************************)
(* The execution sandbox: SandboxExecutor and its slots                    *)
(* (domains/agent_security/sandbox.py), the containers DockerSandbox       *)
(* creates and removes (plugins/builtin/sandboxes/docker.py), and the      *)
(* start, maintenance loop and shutdown of the proxies that use one engine *)
(* (proxy/main.py).                                                        *)
(*                                                                         *)
(* The engine is another process, reached by one CLI command at a time: a  *)
(* command may fail with its effect or without it, and docker run may take *)
(* effect after the proxy has stopped waiting.  A call creates at most one *)
(* container, which has a fresh name: containers are named by their call.  *)
(***************************************************************************)
EXTENDS Naturals, FiniteSets

CONSTANTS
    Proxies,        \* processes that share the engine
    Calls,          \* sandboxed tool calls
    MaxConcurrent,  \* max_concurrent
    LongCommands,   \* a command may run longer than orphan_age_seconds
    MaxStops        \* bound: proxies that stop or die

ASSUME SandboxAssumption ==
    /\ Proxies # {} /\ MaxConcurrent \in Nat \ {0}
    /\ LongCommands \in BOOLEAN /\ MaxStops \in Nat

VARIABLES
    proxy,      \* each process: down, starting, serving or closing
    used,       \* _Slots._used
    live,       \* DockerSandbox._live
    closing,    \* what aclose() has still to remove
    sweep,      \* where the reaper is, and what it has read
    call,       \* where each call is
    container,  \* the engine's: none, ordered, idle or running (a command)
    old,        \* the containers older than orphan_age_seconds
    stops       \* processes that stopped, so far

vars == <<proxy, used, live, closing, sweep, call, container, old, stops>>

Exists(c) == container[c] \in {"idle", "running"}

Phases == {"new", "queued", "creating", "feeding", "executing", "removing",
           "over", "dead"}
Over == {"over", "dead"}
HoldsSlot == {"creating", "feeding", "executing", "removing"}

Call == [phase : Phases, at : Proxies]
NewCall == [phase |-> "new", at |-> CHOOSE p \in Proxies : TRUE]

Sweep == [on : BOOLEAN, seen : SUBSET Calls]
NoSweep == [on |-> FALSE, seen |-> {}]

Init ==
    /\ proxy = [p \in Proxies |-> "starting"] /\ used = [p \in Proxies |-> 0]
    /\ live = [p \in Proxies |-> {}] /\ closing = [p \in Proxies |-> {}]
    /\ sweep = [p \in Proxies |-> NoSweep]
    /\ call = [c \in Calls |-> NewCall]
    /\ container = [c \in Calls |-> "none"] /\ old = {} /\ stops = 0

At(c) == call[c].at
Alive(p) == proxy[p] # "down"

\* A step of one call, and what it leaves alone
Goes(c, phase) == call' = [call EXCEPT ![c].phase = phase]
OnlyCall == UNCHANGED <<proxy, live, closing, sweep, container, old, stops>>

Release(p) == used' = [used EXCEPT ![p] = IF @ = 0 THEN 0 ELSE @ - 1]

-----------------------------------------------------------------------------
(***************************************************************************)
(* SandboxExecutor.run and DockerSandbox.run, between two awaits.          *)
(***************************************************************************)
\* Arguments that do not fit the tool are refused before a slot is asked for
Arrives(c, p, valid) ==
    /\ call[c].phase = "new" /\ proxy[p] = "serving"
    /\ call' = [call EXCEPT ![c] = [phase |-> IF valid THEN "queued" ELSE "over", at |-> p]]
    /\ UNCHANGED used /\ OnlyCall

\* Mutant: the slot is looked at and taken under two locks
TakesSlotUnlocked(c) ==
    /\ call[c].phase = "queued"
    /\ used' = [used EXCEPT ![At(c)] = @ + 1]
    /\ Goes(c, "creating") /\ container' = [container EXCEPT ![c] = "ordered"]
    /\ UNCHANGED <<proxy, live, closing, sweep, old, stops>>

\* A slot is taken, the image is there, and docker run is started
TakesSlot(c) ==
    /\ call[c].phase = "queued" /\ used[At(c)] < MaxConcurrent
    /\ used' = [used EXCEPT ![At(c)] = @ + 1]
    /\ Goes(c, "creating") /\ container' = [container EXCEPT ![c] = "ordered"]
    /\ UNCHANGED <<proxy, live, closing, sweep, old, stops>>

\* No slot within queue_timeout_s, no image (the slot is given back), or
\* cancelled while waiting for either
NotStarted(c) ==
    /\ call[c].phase = "queued"
    /\ Goes(c, "over") /\ UNCHANGED used /\ OnlyCall

\* The CLI does not answer docker run in time, or the call is cancelled: the
\* name is not in the live set, and the engine may create the container yet
NotCreated(c) ==
    /\ call[c].phase = "creating"
    /\ Goes(c, "over") /\ Release(At(c)) /\ OnlyCall

\* The engine executes a docker run, for a caller that waits for it or not
EngineCreates(c) ==
    /\ container[c] = "ordered"
    /\ container' = [container EXCEPT ![c] = "idle"]
    /\ UNCHANGED <<proxy, used, live, closing, sweep, call, old, stops>>

\* docker run has answered.  An answer that is an error is noted as well: the
\* container may exist, and is removed; or the engine may create it later.
Created(c, ok) ==
    /\ call[c].phase = "creating"
    /\ IF ok THEN Exists(c) /\ UNCHANGED container
             ELSE container' \in {container,
                     [container EXCEPT ![c] = IF @ = "ordered" THEN "none" ELSE @]}
    /\ live' = [live EXCEPT ![At(c)] = @ \cup {c}]
    /\ Goes(c, IF ok THEN "feeding" ELSE "removing")
    /\ UNCHANGED <<proxy, used, closing, sweep, old, stops>>

\* The input files are in place, and the command is started
Fed(c) ==
    /\ call[c].phase = "feeding" /\ Exists(c)
    /\ Goes(c, "executing") /\ container' = [container EXCEPT ![c] = "running"]
    /\ UNCHANGED <<proxy, used, live, closing, sweep, old, stops>>

\* The command ends in its container
CommandEnds(c) ==
    /\ container[c] = "running"
    /\ container' = [container EXCEPT ![c] = "idle"]
    /\ UNCHANGED <<proxy, used, live, closing, sweep, call, old, stops>>

\* _execute returns what the command did, its container being there or not
Executed(c) ==
    /\ call[c].phase = "executing" /\ container[c] # "running"
    /\ Goes(c, "removing") /\ UNCHANGED used /\ OnlyCall

\* The time limit: docker kill, whose exit code is not looked at
TimesOut(c, killed) ==
    /\ call[c].phase = "executing"
    /\ Goes(c, "removing")
    /\ container' = [container EXCEPT ![c] = IF killed /\ @ = "running" THEN "idle" ELSE @]
    /\ UNCHANGED <<proxy, used, live, closing, sweep, old, stops>>

\* A CLI call of the execution fails or the call is cancelled; the container
\* is removed
Interrupted(c) ==
    /\ call[c].phase \in {"feeding", "executing"}
    /\ Goes(c, "removing") /\ UNCHANGED used /\ OnlyCall

\* docker rm of some containers
Engine(rm) ==
    /\ container' = [c \in Calls |-> IF c \in rm /\ Exists(c) THEN "none" ELSE container[c]]
    /\ old' = old \ rm

\* How a docker rm ends: done, failed, or failed with its effect
Rm(c, how) == Engine(IF how = "failed" THEN {} ELSE {c})

\* Mutant: the name is dropped, whatever the engine answered
ForgottenAnyway(p, c, how) == live' = [live EXCEPT ![p] = @ \ {c}]

\* _remove: the name is kept unless the engine confirmed
Forgotten(p, c, how) == live' = [live EXCEPT ![p] = IF how = "done" THEN @ \ {c} ELSE @]

\* _remove, then the slot, then the answer; a call cancelled here ends in the
\* same way as one whose removal fails
Removed(c, how) ==
    /\ call[c].phase = "removing"
    /\ Rm(c, how) /\ Forgotten(At(c), c, how) /\ Release(At(c))
    /\ Goes(c, "over") /\ UNCHANGED <<proxy, closing, sweep, stops>>

-----------------------------------------------------------------------------
(***************************************************************************)
(* The reaper.                                                             *)
(***************************************************************************)
\* What a proxy goes on with when a sweep is over: at its start, to serve
Serving(p) == proxy' = [proxy EXCEPT ![p] = IF @ = "starting" THEN "serving" ELSE @]

\* Mutant: the maintenance loop does not sweep
SweepListsAtStart(p) ==
    /\ proxy[p] = "starting" /\ ~sweep[p].on
    /\ sweep' = [sweep EXCEPT ![p] = [on |-> TRUE, seen |-> {c \in Calls : Exists(c)}]]
    /\ UNCHANGED <<proxy, used, live, closing, call, container, old, stops>>

\* A sweep starts, and docker ps answers
SweepLists(p) ==
    /\ proxy[p] \in {"starting", "serving"} /\ ~sweep[p].on
    /\ sweep' = [sweep EXCEPT ![p] = [on |-> TRUE, seen |-> {c \in Calls : Exists(c)}]]
    /\ UNCHANGED <<proxy, used, live, closing, call, container, old, stops>>

\* Mutant: the containers of this process are not left out
OrphansAll(p) == {c \in sweep[p].seen : c \in old}

\* What is old and not this process's own
Orphans(p) == {c \in sweep[p].seen \ live[p] : c \in old}

\* docker inspect, which fails when one of the containers is there no more,
\* the choice of the orphans, and docker rm of all of them
SweepRemoves(p) ==
    /\ sweep[p].on /\ \A c \in sweep[p].seen : Exists(c)
    /\ Engine(Orphans(p))
    /\ sweep' = [sweep EXCEPT ![p] = NoSweep] /\ Serving(p)
    /\ UNCHANGED <<used, live, closing, call, stops>>

\* A command fails or the time budget of the sweep is over; some of the orphans
\* may have been removed
SweepFails(p) ==
    /\ proxy[p] = "starting" \/ sweep[p].on
    /\ \E some \in SUBSET Orphans(p) : Engine(some)
    /\ sweep' = [sweep EXCEPT ![p] = NoSweep] /\ Serving(p)
    /\ UNCHANGED <<used, live, closing, call, stops>>

\* A container gets older than orphan_age_seconds.  The CLI's own time budgets
\* are below it; a command's time limit is only when LongCommands does not hold.
Ages(c) ==
    /\ Exists(c) /\ c \notin old
    /\ call[c].phase \in Over \/ (LongCommands /\ call[c].phase \in {"executing", "removing"})
    /\ old' = old \cup {c}
    /\ UNCHANGED <<proxy, used, live, closing, sweep, call, container, stops>>

-----------------------------------------------------------------------------
(***************************************************************************)
(* The life of a proxy.                                                    *)
(***************************************************************************)
\* A proxy sweeps once before it serves
Starts(p) ==
    /\ proxy[p] = "down"
    /\ proxy' = [proxy EXCEPT ![p] = "starting"]
    /\ UNCHANGED <<used, live, closing, sweep, call, container, old, stops>>

\* Shutdown: the reaper is cancelled, and aclose() reads the live set.
\* Cancelled while it removes: SweepFails, then this.
Closes(p) ==
    /\ proxy[p] = "serving" /\ stops < MaxStops
    /\ proxy' = [proxy EXCEPT ![p] = "closing"]
    /\ sweep' = [sweep EXCEPT ![p] = NoSweep]
    /\ closing' = [closing EXCEPT ![p] = live[p]] /\ stops' = stops + 1
    /\ UNCHANGED <<used, live, call, container, old>>

CloseRemoves(p, c, how) ==
    /\ c \in closing[p]
    /\ Rm(c, how) /\ Forgotten(p, c, how)
    /\ closing' = [closing EXCEPT ![p] = @ \ {c}]
    /\ UNCHANGED <<proxy, used, sweep, call, stops>>

\* What a process that ends loses
Ends(p) ==
    /\ proxy' = [proxy EXCEPT ![p] = "down"] /\ used' = [used EXCEPT ![p] = 0]
    /\ live' = [live EXCEPT ![p] = {}] /\ closing' = [closing EXCEPT ![p] = {}]
    /\ sweep' = [sweep EXCEPT ![p] = NoSweep]
    /\ call' = [c \in Calls |->
          IF At(c) = p /\ call[c].phase # "new" THEN [call[c] EXCEPT !.phase = "dead"] ELSE call[c]]
    /\ UNCHANGED <<container, old>>

Closed(p) == proxy[p] = "closing" /\ closing[p] = {} /\ Ends(p) /\ UNCHANGED stops

Dies(p) == Alive(p) /\ stops < MaxStops /\ stops' = stops + 1 /\ Ends(p)

-----------------------------------------------------------------------------
Outcomes == {"done", "failed", "late"}

CallStep(c) ==
    \/ TakesSlot(c) \/ NotStarted(c) \/ NotCreated(c)
    \/ \E ok \in BOOLEAN : Created(c, ok)
    \/ Fed(c) \/ Executed(c) \/ Interrupted(c)
    \/ \E killed \in BOOLEAN : TimesOut(c, killed)
    \/ \E how \in Outcomes : Removed(c, how)

CloseStep(p) == Closed(p) \/ \E c \in Calls, how \in Outcomes : CloseRemoves(p, c, how)

Next ==
    \/ \E c \in Calls :
          \/ \E p \in Proxies, valid \in BOOLEAN : Arrives(c, p, valid)
          \/ CallStep(c) \/ EngineCreates(c) \/ CommandEnds(c) \/ Ages(c)
    \/ \E p \in Proxies :
          \/ SweepLists(p) \/ SweepRemoves(p) \/ SweepFails(p)
          \/ Starts(p) \/ Closes(p) \/ CloseStep(p) \/ Dies(p)

Spec == Init /\ [][Next]_vars

\* Every CLI call has a time budget, a container gets old, the maintenance loop
\* goes round, and the engine does not fail every sweep of a proxy that goes on
LiveSpec ==
    /\ Spec
    /\ \A c \in Calls : WF_vars(CallStep(c)) /\ WF_vars(Ages(c))
    /\ \A p \in Proxies :
          /\ WF_vars(SweepLists(p) \/ SweepFails(p)) /\ SF_vars(SweepRemoves(p))

-----------------------------------------------------------------------------
\* The types
TypeOK ==
    /\ proxy \in [Proxies -> {"down", "starting", "serving", "closing"}]
    /\ used \in [Proxies -> Nat]
    /\ live \in [Proxies -> SUBSET Calls] /\ closing \in [Proxies -> SUBSET Calls]
    /\ sweep \in [Proxies -> Sweep] /\ call \in [Calls -> Call]
    /\ container \in [Calls -> {"none", "ordered", "idle", "running"}]
    /\ old \in SUBSET Calls /\ stops \in Nat

\* On every path of a call, a cancelled or failing one included, its slot is
\* given back exactly once: the slots in use are those of the calls that still
\* hold one, never more than max_concurrent.
SlotsExact ==
    \A p \in Proxies :
        /\ used[p] = Cardinality({c \in Calls : At(c) = p /\ call[c].phase \in HoldsSlot})
        /\ used[p] <= MaxConcurrent

\* A command that still runs is in a container its process knows of, and will
\* remove at shutdown, unless that process died: an answer never leaves a
\* command behind unnoticed.
CommandKnown ==
    \A c \in Calls : container[c] = "running" /\ call[c].phase # "dead" => c \in live[At(c)]

\* A sweep never removes a container in use: those of its own process by their
\* names, those of others by their age, unless a command may be older.
InUse(c) == call[c].phase \in {"feeding", "executing"}
SweepSpares ==
    [][\A p \in Proxies, c \in Calls :
          InUse(c) /\ Exists(c) /\ container'[c] = "none" /\ sweep[p].on /\ ~sweep'[p].on
          => At(c) # p /\ LongCommands]_vars

\* What processes that died or calls that were cancelled left behind goes, if
\* some proxy goes on: only containers a living process still lists remain.
OrphansGo ==
    \A c \in Calls :
        (\E p \in Proxies : <>[](proxy[p] = "serving"))
            => <>[](Exists(c) => \E p \in Proxies : c \in live[p])

-----------------------------------------------------------------------------
(***************************************************************************)
(* The strengthening that is inductive.                                    *)
(***************************************************************************)
\* The calls that hold a slot of p
Holders(p) == {c \in Calls : At(c) = p /\ call[c].phase \in HoldsSlot}

\* Of each call: a container only once it asked for one, created before it is
\* used, on the list while it is used, and old only with its command
CallOk(c) == LET phase == call[c].phase IN
    /\ phase = "new" => container[c] = "none"
    /\ phase \in {"feeding", "executing"} => container[c] # "ordered"
    /\ InUse(c) /\ Exists(c) => c \in live[At(c)]
    /\ c \in old => phase \in Over \/ (LongCommands /\ phase \in {"executing", "removing"})

SInv ==
    /\ TypeOK /\ SlotsExact /\ CommandKnown
    /\ \A p \in Proxies : IsFiniteSet(Holders(p))
    /\ \A c \in Calls : CallOk(c)
=============================================================================
