----------------------------- MODULE Coordination -----------------------------
(***************************************************************************)
(* The coordination detector of domains/agent_security/coordination.py for *)
(* one destination that is not declared: the fan-in counter, the echo      *)
(* store with its index of agents, and the verdict on each governed call.  *)
(*                                                                         *)
(* Redis executes one command at a time, and everything between two        *)
(* commands is an await of the call's background task, so the steps are    *)
(* the commands that write, each with the reads just before it that it     *)
(* depends on; adjacent reads, and EXPIRE, make no step of their own, and  *)
(* a call enters the index and makes room in one.  A call reads the time   *)
(* once, so a late one works on windows gone by.                           *)
(***************************************************************************)
EXTENDS Fingerprint

CONSTANTS
    Agents,
    Observations,  \* the calls observed
    Contents,      \* the fields a call may carry: sets of sets of shingles
    MinAgents,     \* fanin.min_agents
    FanInCap,      \* agents counted in a window
    AgentCap,      \* agents indexed in a window
    Cap,           \* shingles kept of an agent in a window
    FanInWindow, EchoWindow,
    MaxActive,     \* bound: calls observed at once
    MaxTime,       \* bound: the last instant
    MaxFaults      \* bound: Redis commands that fail

ASSUME CoordinationAssumption ==
    /\ MinAgents \in Nat /\ MinAgents >= 2
    /\ {FanInCap, AgentCap, Cap, FanInWindow, EchoWindow} \subseteq Nat \ {0}
    /\ MaxTime \in Nat /\ MaxActive \in Nat /\ MaxFaults \in Nat
    /\ "none" \notin Agents
    /\ \A text \in Contents : IsFiniteSet(text) /\ \A f \in text : IsFiniteSet(f)

VARIABLES
    time,
    fanin,     \* the fan-in sets: <<agent, window>>
    index,     \* the index of agents: <<agent, window>>
    echo,      \* the sketches: [agent, window, at, fields]
    obs,       \* each call's observation
    sent,      \* history: the calls recorded whole, [agent, at, fields]
    evicted,   \* history: the windows from whose index an agent was evicted
    faults

detectorVars == <<time, fanin, index, echo, obs, sent, evicted, faults>>

Phase == {"new", "counting", "reading", "indexing", "matching", "registering", "evicting",
          "deleting", "joining", "storing", "done"}
Status == {"none", "degraded", "suspected", "confirmed"}

NewObservation == [phase |-> "new", agent |-> "none", fields |-> {}, now |-> 0,
            count |-> 0, peers |-> {}, own |-> {}, peer |-> "none", victim |-> "none",
            saturated |-> FALSE, status |-> "none",
            stored |-> {},    \* history: what the store held, and still holds
            blind |-> FALSE]  \* history: the echo phase could not see something

DetectorInit ==
    /\ time = 0 /\ fanin = {} /\ index = {} /\ echo = {}
    /\ obs = [c \in Observations |-> NewObservation]
    /\ sent = {} /\ evicted = {} /\ faults = 0

FanInAt(t) == t \div FanInWindow
EchoAt(t) == t \div EchoWindow

\* A window and the one before it
Recent(w) == {w} \cup (IF w > 0 THEN {w - 1} ELSE {})

\* common_sender_floor
CommonFloor == IF MinAgents > 3 THEN MinAgents - 1 ELSE 2

Set(c, r) == obs' = [obs EXCEPT ![c] = r]
OnlyCall == UNCHANGED <<time, fanin, index, echo, sent, evicted, faults>>

-----------------------------------------------------------------------------
(***************************************************************************)
(* observe(): how many agents wrote to the destination lately.             *)
(***************************************************************************)
\* A write that the policy let through, to a destination that is not declared
Observe(c, a, fields) ==
    /\ obs[c].phase = "new"
    /\ Cardinality({d \in Observations : obs[d].phase \notin {"new", "done"}}) < MaxActive
    /\ Set(c, [NewObservation EXCEPT !.phase = "counting", !.agent = a, !.fields = Evidence(fields),
                              !.now = time])
    /\ OnlyCall

\* SCARD and SADD
CountAgent(c) ==
    /\ obs[c].phase = "counting"
    /\ LET w == FanInAt(obs[c].now)
           full == Cardinality({e \in fanin : e[2] = w}) >= FanInCap
       IN fanin' = IF full THEN fanin ELSE fanin \cup {<<obs[c].agent, w>>}
    /\ Set(c, [obs[c] EXCEPT !.phase = "reading"])
    /\ UNCHANGED <<time, index, echo, sent, evicted, faults>>

AgentsSeen(w) == {e[1] : e \in {x \in fanin : x[2] \in Recent(w)}}
Clamped(n) == IF n < FanInCap THEN n ELSE FanInCap

ReadAgents(c) ==
    /\ obs[c].phase = "reading"
    /\ LET n == Clamped(Cardinality(AgentsSeen(FanInAt(obs[c].now))))
           sees == n >= MinAgents /\ obs[c].fields # {}
       IN Set(c, [obs[c] EXCEPT !.count = n, !.phase = IF sees THEN "indexing" ELSE "registering"])
    /\ OnlyCall

-----------------------------------------------------------------------------
(***************************************************************************)
(* EchoStore.confirm: does the call carry what another agent wrote here?   *)
(***************************************************************************)
Shingles(sketches) == UNION {UNION s.fields : s \in sketches}
Of(a, w) == {s \in echo : s.agent = a /\ s.window \in Recent(w)}

\* Mutant: only the index of the present window is read
ReadIndexNow(c) ==
    /\ obs[c].phase = "indexing"
    /\ LET w == EchoAt(obs[c].now) a == obs[c].agent IN
       Set(c, [obs[c] EXCEPT
          !.phase = "matching",
          !.peers = {e \in index : e[2] = w /\ e[1] # a},
          !.own = Shingles(Of(a, w)),
          !.stored = {s \in echo : s.agent # a /\ <<s.agent, s.window>> \in index
                                    /\ s.window \in Recent(w)},
          !.blind = evicted \cap Recent(w) # {}])
    /\ OnlyCall

\* The index of both windows, and what the agent itself has sent
ReadIndex(c) ==
    /\ obs[c].phase = "indexing"
    /\ LET w == EchoAt(obs[c].now) a == obs[c].agent IN
       Set(c, [obs[c] EXCEPT
          !.phase = "matching",
          !.peers = {e \in index : e[2] \in Recent(w) /\ e[1] # a},
          !.own = Shingles(Of(a, w)),
          !.stored = {s \in echo : s.agent # a /\ <<s.agent, s.window>> \in index
                                    /\ s.window \in Recent(w)},
          !.blind = evicted \cap Recent(w) # {}])
    /\ OnlyCall

\* What is left of fields without the shingles in gone
Without(fields, gone) == {f \ gone : f \in fields}

\* Who sent the shingle, of those whose texts these are
Senders(texts, v) == {s.agent : s \in {x \in texts : v \in UNION x.fields}}

\* Mutant: what the agent itself has sent counts as well
EchoedOwn(c, sketches) ==
    LET common == {v \in UNION obs[c].fields : Cardinality(Senders(sketches, v)) >= CommonFloor}
        live == Without(obs[c].fields, common)
    IN {s.agent : s \in {x \in sketches : Matches(live, Without(x.fields, common))}}

\* The other agents whose output the call echoes.  Shingles of enough senders
\* are the destination's ambient content and count for nothing.
Probe(c) == Without(obs[c].fields, obs[c].own)
Common(c, sketches) ==
    {v \in UNION Probe(c) : Cardinality(Senders(sketches, v)) >= CommonFloor}
Echoed(c, sketches) ==
    LET common == Common(c, sketches)
        live == Without(Probe(c), common)
    IN {s.agent : s \in {x \in sketches : Matches(live, Without(x.fields, common))}}

\* The sketches of the peers that were indexed, as one command reads them
Seen(c) == {s \in echo : <<s.agent, s.window>> \in obs[c].peers /\ s.at <= obs[c].now}

Match(c) ==
    /\ obs[c].phase = "matching"
    /\ \/ /\ Echoed(c, Seen(c)) = {}
          /\ Set(c, [obs[c] EXCEPT !.phase = "registering"])
       \/ \E p \in Echoed(c, Seen(c)) :
             Set(c, [obs[c] EXCEPT !.phase = "registering", !.peer = p])
    /\ OnlyCall

-----------------------------------------------------------------------------
(***************************************************************************)
(* EchoStore.record_outbound: the call's own sketches, all or none.        *)
(***************************************************************************)
Window(c) == EchoAt(obs[c].now)
\* The verdict on a call once it is recorded, or not: a negative result counts
\* only when the echo phase could see what it needed
Verdict(r, conclusive) ==
    CASE r.count < MinAgents -> "none"
      [] r.count >= MinAgents /\ r.peer # "none" -> "confirmed"
      [] OTHER -> IF conclusive THEN "suspected" ELSE "degraded"

\* A confirmed call quarantines the destination next (Quarantine.tla)
Concludes(c, conclusive) ==
    [obs[c] EXCEPT !.phase = "done", !.status = Verdict(obs[c], conclusive)]

\* No text is no degradation; text over the whole budget is not recorded.
\* Otherwise SCARD and SISMEMBER of the index
Register(c) ==
    /\ obs[c].phase = "registering"
    /\ LET w == Window(c)
           full == Cardinality({e \in index : e[2] = w}) >= AgentCap
           known == <<obs[c].agent, w>> \in index
       IN CASE obs[c].fields = {} -> Set(c, Concludes(c, TRUE))
            [] Size(obs[c].fields) > Cap -> Set(c, Concludes(c, FALSE))
            [] OTHER -> Set(c, [obs[c] EXCEPT
                          !.saturated = full,
                          !.phase = IF full /\ ~known THEN "evicting" ELSE "joining"])
    /\ OnlyCall

\* SPOP takes any agent of a full index, and its sketches are deleted next
Evict(c) ==
    /\ obs[c].phase = "evicting"
    /\ LET w == Window(c) there == {e \in index : e[2] = w} IN
       \/ /\ there = {}
          /\ Set(c, [obs[c] EXCEPT !.phase = "joining"]) /\ UNCHANGED <<index, evicted>>
       \/ \E e \in there :
             /\ index' = index \ {e} /\ evicted' = evicted \cup {w}
             /\ Set(c, [obs[c] EXCEPT !.phase = "deleting", !.victim = e[1]])
    /\ UNCHANGED <<time, fanin, echo, sent, faults>>

\* The calls that counted on sketches that are gone no longer do
Forget(gone, r) ==
    obs' = [d \in Observations |-> IF d = r.c THEN [r.now EXCEPT !.stored = @ \ gone]
                                  ELSE [obs[d] EXCEPT !.stored = @ \ gone]]

DeleteVictim(c) ==
    /\ obs[c].phase = "deleting"
    /\ LET gone == {s \in echo : s.agent = obs[c].victim /\ s.window = Window(c)} IN
       /\ echo' = echo \ gone
       /\ Forget(gone, [c |-> c, now |-> [obs[c] EXCEPT !.phase = "joining"]])
    /\ UNCHANGED <<time, fanin, index, sent, evicted, faults>>

\* SADD of the index; then SCARD, and DEL when the agent's budget cannot hold
\* the call
Join(c) ==
    /\ obs[c].phase = "joining"
    /\ LET mine == {s \in echo : s.agent = obs[c].agent /\ s.window = Window(c)}
           held == MapThenSumSet(LAMBDA s : Size(s.fields), mine)
           gone == IF Cap < held + Size(obs[c].fields) THEN mine ELSE {}
       IN /\ echo' = echo \ gone
          /\ Forget(gone, [c |-> c, now |-> [obs[c] EXCEPT !.phase = "storing"]])
    /\ index' = index \cup {<<obs[c].agent, Window(c)>>}
    /\ UNCHANGED <<time, fanin, sent, evicted, faults>>

Stores(c, conclusive) ==
    /\ obs[c].phase = "storing"
    /\ echo' = echo \cup {[agent |-> obs[c].agent, window |-> Window(c), at |-> obs[c].now,
                           fields |-> obs[c].fields]}
    /\ sent' = sent \cup {[agent |-> obs[c].agent, at |-> obs[c].now,
                           fields |-> obs[c].fields]}
    /\ Set(c, Concludes(c, conclusive))
    /\ UNCHANGED <<time, fanin, index, evicted>>

Store(c) == Stores(c, ~obs[c].saturated) /\ UNCHANGED faults

-----------------------------------------------------------------------------
(***************************************************************************)
(* What is out of the detector's hands.                                    *)
(***************************************************************************)
\* A command fails, and with it the count, the confirmation or the recording.
\* One that failed after its effect is the failure of the next command, or for
\* the last one StoreFails.
Fails(c) ==
    /\ faults < MaxFaults /\ faults' = faults + 1
    /\ \/ /\ obs[c].phase \in {"counting", "reading"}
          /\ Set(c, [obs[c] EXCEPT !.phase = "done", !.status = "degraded"])
       \/ /\ obs[c].phase \in {"indexing", "matching"}
          /\ Set(c, [obs[c] EXCEPT !.phase = "registering", !.stored = {}, !.blind = TRUE])
       \/ /\ obs[c].phase \in {"registering", "evicting", "deleting", "joining", "storing"}
          /\ obs[c].fields # {} /\ Size(obs[c].fields) <= Cap
          /\ Set(c, Concludes(c, FALSE))
    /\ UNCHANGED <<time, fanin, index, echo, sent, evicted>>

StoreFails(c) == Stores(c, FALSE) /\ faults < MaxFaults /\ faults' = faults + 1

\* Time goes by; a key expires two windows after its window began
Elapse ==
    /\ time < MaxTime /\ time' = time + 1
    /\ LET old(w) == w + 2 <= EchoAt(time')
           gone == {s \in echo : old(s.window)}
       IN /\ echo' = echo \ gone /\ index' = {e \in index : ~old(e[2])}
          /\ fanin' = {e \in fanin : e[2] + 2 > FanInAt(time')}
          /\ obs' = [d \in Observations |-> [obs[d] EXCEPT !.stored = @ \ gone]]
    /\ UNCHANGED <<sent, evicted, faults>>

DetectorNext ==
    \/ \E c \in Observations :
          \/ \E a \in Agents, fields \in Contents : Observe(c, a, fields)
          \/ CountAgent(c) \/ ReadAgents(c) \/ ReadIndex(c) \/ Match(c)
          \/ Register(c) \/ Evict(c) \/ DeleteVictim(c) \/ Join(c) \/ Store(c)
          \/ Fails(c) \/ StoreFails(c)
    \/ Elapse

DetectorSpec == DetectorInit /\ [][DetectorNext]_detectorVars

-----------------------------------------------------------------------------
Shingle == UNION UNION Contents
Text == {fields \in SUBSET UNION Contents : IsFiniteSet(fields)}
Sketch == [agent : Agents, window : Nat, at : Nat, fields : Text]

Observation ==
    [phase : Phase, agent : Agents \cup {"none"}, fields : Text, now : Nat, count : Nat,
     peers : SUBSET (Agents \X Nat), own : SUBSET Shingle, peer : Agents \cup {"none"},
     victim : Agents \cup {"none"}, saturated : BOOLEAN, status : Status,
     stored : SUBSET Sketch, blind : BOOLEAN]

DetectorTypeOK ==
    /\ time \in 0..MaxTime /\ faults \in 0..MaxFaults
    /\ index \subseteq Agents \X Nat /\ fanin \subseteq Agents \X Nat
    /\ echo \subseteq Sketch /\ sent \subseteq [agent : Agents, at : Nat, fields : Text]
    /\ obs \in [Observations -> Observation]

\* What the other agents had sent in the windows a call looks at
Sent(c) == {s \in sent : s.agent # obs[c].agent /\ s.at <= obs[c].now
                          /\ EchoAt(s.at) \in Recent(EchoAt(obs[c].now))}

\* Another agent had sent text that the call repeats, which its own agent had
\* not: without what was `ambient`, enough agents having sent it, the two match.
Repeats(c) ==
    \E s \in Sent(c), ambient \in SUBSET UNION obs[c].fields :
        /\ s.agent = obs[c].peer
        /\ \A v \in ambient : Cardinality(Senders(Sent(c), v)) >= CommonFloor
        /\ Matches(Without(obs[c].fields, obs[c].own \cup ambient), Without(s.fields, ambient))

\* A destination is only quarantined on evidence: enough agents wrote to it
\* lately, and the call repeats what another one of them had sent.
ConfirmedIsEcho ==
    \A c \in Observations :
        obs[c].status = "confirmed" => obs[c].count >= MinAgents /\ Repeats(c)

\* The text of s that the agent of the call had sent itself, or that enough
\* other agents sent
Known(c, s) ==
    {v \in UNION s.fields :
        \/ v \in obs[c].own
        \/ Cardinality(Senders({x \in sent : x.agent # obs[c].agent}, v)) >= CommonFloor}

Missed(c) == \E s \in obs[c].stored :
                /\ s.at <= obs[c].now
                /\ Matches(Without(obs[c].fields, Known(c, s)), s.fields)

\* What is stored and stays stored is found: a call that is not confirmed does
\* not match a call of another agent that the store held from when the index
\* was read, but for text the agent has sent before or several others.
StoredIsFound ==
    \A c \in Observations : obs[c].status \in {"suspected", "degraded"} => ~Missed(c)

\* What observe() says of "suspected": the content was looked at.
SuspectedWasSeen == \A c \in Observations : obs[c].status = "suspected" => ~obs[c].blind

-----------------------------------------------------------------------------
(***************************************************************************)
(* Why the two hold.  A sketch is of a call that is in the history; while  *)
(* a call is matching, what it counts on is in the store and in its index; *)
(* after that it has found an echo or there was none to find.              *)
(***************************************************************************)
Asked == {"new", "counting", "reading", "indexing"}

EchoInv ==
    /\ IsFiniteSet(sent) /\ IsFiniteSet(fanin)
    /\ \A s \in echo : /\ [agent |-> s.agent, at |-> s.at, fields |-> s.fields] \in sent
                       /\ s.window = EchoAt(s.at)

ObservationOk(c) ==
    /\ obs[c].phase # "new" => obs[c].agent \in Agents
    /\ obs[c].phase \in Asked => obs[c].stored = {}
    /\ obs[c].phase \in Asked \cup {"matching"} => obs[c].peer = "none"
    /\ obs[c].phase \notin {"new", "done"} => obs[c].status = "none"
    /\ obs[c].phase = "matching" =>
          /\ obs[c].peers \subseteq {e \in Agents \X Recent(EchoAt(obs[c].now)) : e[1] # obs[c].agent}
          /\ \A s \in obs[c].stored : s \in echo /\ <<s.agent, s.window>> \in obs[c].peers
    /\ obs[c].peer # "none" => Repeats(c)
    /\ obs[c].phase # "matching" /\ obs[c].peer = "none" => ~Missed(c)
    /\ obs[c].status = "confirmed" => obs[c].peer # "none" /\ obs[c].count >= MinAgents
    /\ obs[c].status \in {"suspected", "degraded"} => obs[c].phase = "done" /\ obs[c].peer = "none"

DetectorInv ==
    DetectorTypeOK /\ EchoInv /\ \A c \in Observations : ObservationOk(c)
=============================================================================
