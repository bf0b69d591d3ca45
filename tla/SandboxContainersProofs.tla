------------------------ MODULE SandboxContainersProofs ------------------------
(***************************************************************************)
(* The execution sandbox, for any number of proxies, calls, slots and      *)
(* stops: the slots are exact, the container of a running command is known *)
(* to the process that will remove it, and a sweep spares what is in use.  *)
(***************************************************************************)
EXTENDS SandboxContainers, FiniteSetTheorems, TLAPS

Containers == {"none", "ordered", "idle", "running"}
ProxyStates == {"down", "starting", "serving", "closing"}

LEMMA Facts ==
    ASSUME TypeOK, NEW c \in Calls
    PROVE  /\ call[c] \in Call /\ call[c].phase \in Phases /\ At(c) \in Proxies
           /\ container[c] \in Containers /\ live[At(c)] \subseteq Calls
  BY DEF TypeOK, Call, At, Containers

LEMMA CallType ==
    ASSUME NEW k \in Call, NEW phase \in Phases, NEW p \in Proxies
    PROVE  /\ [k EXCEPT !.phase = phase] \in Call /\ [k EXCEPT !.phase = phase].phase = phase
           /\ [k EXCEPT !.phase = phase].at = k.at
           /\ [phase |-> phase, at |-> p] \in Call
  BY DEF Call

\* CommandKnown, of one call
Known(c) == container[c] = "running" /\ call[c].phase # "dead" => c \in live[At(c)]

LEMMA KnownCalls == CommandKnown <=> \A c \in Calls : Known(c)
  BY DEF CommandKnown, Known

-----------------------------------------------------------------------------
(***************************************************************************)
(* The slots: what a step of one call does to those that hold one.         *)
(***************************************************************************)
SlotsOk == SlotsExact /\ \A p \in Proxies : IsFiniteSet(Holders(p))

\* A step of c that moves it in or out of no slot
LEMMA SlotsStay ==
    ASSUME SInv, NEW c \in Calls, NEW r \in Call, call' = [call EXCEPT ![c] = r], used' = used,
           r.phase \in HoldsSlot \/ call[c].phase \in HoldsSlot
              => r.phase \in HoldsSlot /\ call[c].phase \in HoldsSlot /\ r.at = At(c)
    PROVE  SlotsOk'
  <1>1. \A d \in Calls : call'[d] = IF d = c THEN r ELSE call[d]
    BY DEF SInv, TypeOK
  <1>2. \A p \in Proxies : Holders(p)' = Holders(p)
    BY <1>1 DEF Holders, At
  <1> QED
    BY <1>2 DEF SInv, SlotsOk, SlotsExact, Holders

LEMMA SlotsSame == ASSUME SInv, UNCHANGED <<call, used>> PROVE SlotsOk'
  BY DEF SInv, SlotsOk, SlotsExact, Holders, At

LEMMA SlotTaken ==
    ASSUME SInv, NEW c \in Calls, NEW r \in Call, call' = [call EXCEPT ![c] = r],
           r.at = At(c), r.phase \in HoldsSlot, call[c].phase \notin HoldsSlot,
           used[At(c)] < MaxConcurrent, used' = [used EXCEPT ![At(c)] = @ + 1]
    PROVE  SlotsOk' /\ used' \in [Proxies -> Nat]
  <1>1. \A d \in Calls : call'[d] = IF d = c THEN r ELSE call[d]
    BY DEF SInv, TypeOK
  <1>2. At(c) \in Proxies /\ used \in [Proxies -> Nat]
    BY Facts DEF SInv, TypeOK
  <1>3. ASSUME NEW p \in Proxies
        PROVE  /\ IsFiniteSet(Holders(p)') /\ used'[p] = Cardinality(Holders(p)')
               /\ used'[p] <= MaxConcurrent
    <2>1. IsFiniteSet(Holders(p)) /\ used[p] = Cardinality(Holders(p)) /\ used[p] <= MaxConcurrent
      BY DEF SInv, SlotsExact, Holders
    <2>2. CASE p = At(c)
      <3>1. Holders(p)' = Holders(p) \cup {c} /\ c \notin Holders(p)
        BY <1>1, <2>2 DEF Holders, At
      <3>2. IsFiniteSet(Holders(p)') /\ Cardinality(Holders(p)') = Cardinality(Holders(p)) + 1
        BY <2>1, <3>1, FS_AddElement
      <3> QED
        BY <1>2, <2>1, <2>2, <3>2, SandboxAssumption
    <2>3. CASE p # At(c)
      <3>1. Holders(p)' = Holders(p) /\ used'[p] = used[p]
        BY <1>1, <1>2, <2>3 DEF Holders, At
      <3> QED
        BY <2>1, <3>1
    <2> QED
      BY <2>2, <2>3
  <1>4. used' \in [Proxies -> Nat]
    BY <1>2
  <1> QED
    BY <1>3, <1>4 DEF SlotsOk, SlotsExact, Holders

LEMMA SlotReleased ==
    ASSUME SInv, NEW c \in Calls, NEW r \in Call, call' = [call EXCEPT ![c] = r],
           r.at = At(c), r.phase \notin HoldsSlot, call[c].phase \in HoldsSlot, Release(At(c))
    PROVE  SlotsOk' /\ used' \in [Proxies -> Nat]
  <1>1. \A d \in Calls : call'[d] = IF d = c THEN r ELSE call[d]
    BY DEF SInv, TypeOK
  <1>2. At(c) \in Proxies /\ used \in [Proxies -> Nat]
    BY Facts DEF SInv, TypeOK
  <1>3. /\ used' \in [Proxies -> Nat] /\ \A p \in Proxies \ {At(c)} : used'[p] = used[p]
        /\ used'[At(c)] = IF used[At(c)] = 0 THEN 0 ELSE used[At(c)] - 1
    BY <1>2 DEF Release
  <1>4. ASSUME NEW p \in Proxies
        PROVE  /\ IsFiniteSet(Holders(p)') /\ used'[p] = Cardinality(Holders(p)')
               /\ used'[p] <= MaxConcurrent
    <2>1. IsFiniteSet(Holders(p)) /\ used[p] = Cardinality(Holders(p)) /\ used[p] <= MaxConcurrent
      BY DEF SInv, SlotsExact, Holders
    <2>2. CASE p = At(c)
      <3>1. Holders(p)' = Holders(p) \ {c} /\ c \in Holders(p)
        BY <1>1, <2>2 DEF Holders, At
      <3>2. IsFiniteSet(Holders(p)') /\ Cardinality(Holders(p)') = Cardinality(Holders(p)) - 1
        BY <2>1, <3>1, FS_RemoveElement
      <3>3. Cardinality(Holders(p)') \in Nat
        BY <3>2, FS_CardinalityType
      <3> QED
        BY <1>2, <1>3, <2>1, <2>2, <3>2, <3>3, SandboxAssumption
    <2>3. CASE p # At(c)
      <3>1. Holders(p)' = Holders(p) /\ used'[p] = used[p]
        BY <1>1, <1>3, <2>3 DEF Holders, At
      <3> QED
        BY <2>1, <3>1
    <2> QED
      BY <2>2, <2>3
  <1> QED
    BY <1>3, <1>4 DEF SlotsOk, SlotsExact, Holders

-----------------------------------------------------------------------------
(***************************************************************************)
(* What a step leaves of the calls that are not its own.                   *)
(***************************************************************************)
Kept(d) ==
    /\ call'[d] = call[d] /\ (d \in old' => d \in old)
    /\ container'[d] = "none" \/ (container'[d] = container[d]
                                     /\ \A p \in Proxies : d \in live[p] => d \in live'[p])

LEMMA KeptOk == ASSUME SInv, NEW d \in Calls, Kept(d) PROVE CallOk(d)' /\ Known(d)'
  <1>1. CallOk(d) /\ Known(d) /\ At(d) \in Proxies
    BY Facts, KnownCalls DEF SInv
  <1> QED
    BY <1>1 DEF Kept, CallOk, Known, InUse, Exists, At

LEMMA StepOf ==
    ASSUME SInv, TypeOK', SlotsOk', NEW c, CallOk(c)', Known(c)', \A d \in Calls \ {c} : Kept(d)
    PROVE  SInv'
  <1>1. \A d \in Calls : CallOk(d)' /\ Known(d)'
    BY KeptOk
  <1> QED
    BY <1>1 DEF SInv, SlotsOk, CommandKnown, Known

LEMMA StepOfNone == ASSUME SInv, TypeOK', SlotsOk', \A d \in Calls : Kept(d) PROVE SInv'
  <1>1. \A d \in Calls : CallOk(d)' /\ Known(d)'
    BY KeptOk
  <1> QED
    BY <1>1 DEF SInv, SlotsOk, CommandKnown, Known

\* docker rm of some containers
LEMMA EngineFacts ==
    ASSUME TypeOK, NEW rm, Engine(rm)
    PROVE  /\ container' \in [Calls -> Containers] /\ old' \in SUBSET Calls
           /\ \A d \in Calls : /\ container'[d] \in {"none", container[d]} /\ (d \in old' => d \in old)
                               /\ d \in rm => ~Exists(d)'
                               /\ d \notin rm => container'[d] = container[d]
  BY DEF TypeOK, Engine, Exists, Containers

-----------------------------------------------------------------------------
(***************************************************************************)
(* The steps of a call.                                                    *)
(***************************************************************************)
LEMMA ArrivesSInv ==
    ASSUME SInv, NEW c \in Calls, NEW p \in Proxies, NEW valid \in BOOLEAN, Arrives(c, p, valid)
    PROVE  SInv'
  <1> DEFINE r == [phase |-> IF valid THEN "queued" ELSE "over", at |-> p]
  <1>1. /\ r \in Call /\ call' = [call EXCEPT ![c] = r] /\ r.phase \notin HoldsSlot
        /\ call[c].phase = "new" /\ r.phase \in {"queued", "over"}
    BY DEF Arrives, Call, Phases, HoldsSlot
  <1> HIDE DEF r
  <1>2. UNCHANGED <<proxy, used, live, closing, sweep, container, old, stops>>
    BY DEF Arrives, OnlyCall
  <1>3. TypeOK' /\ call'[c] = r /\ \A d \in Calls \ {c} : Kept(d)
    BY <1>1, <1>2 DEF SInv, TypeOK, Kept
  <1>4. SlotsOk'
    BY <1>1, <1>2, SlotsStay DEF HoldsSlot
  <1>5. CallOk(c)' /\ Known(c)'
    BY <1>1, <1>2, <1>3 DEF SInv, CallOk, Known, InUse, Exists, Over
  <1> QED
    BY <1>3, <1>4, <1>5, StepOf

LEMMA TakesSlotSInv ==
    ASSUME SInv, NEW c \in Calls, TakesSlot(c) PROVE SInv'
  <1> DEFINE r == [call[c] EXCEPT !.phase = "creating"]
  <1>1. call[c].phase = "queued"
    BY DEF TakesSlot
  <1>2. /\ r \in Call /\ call' = [call EXCEPT ![c] = r] /\ call'[c] = r
        /\ r.phase = "creating" /\ r.at = At(c)
    <2>1. "creating" \in Phases
      BY DEF Phases
    <2>2. r \in Call /\ r.phase = "creating" /\ r.at = At(c)
      BY <2>1, Facts, CallType DEF SInv, At
    <2> QED
      BY <2>2, Facts DEF SInv, TypeOK, TakesSlot, Goes
  <1> HIDE DEF r
  <1>3. /\ UNCHANGED <<proxy, live, closing, sweep, old, stops>>
        /\ container' \in [Calls -> Containers]
        /\ \A d \in Calls \ {c} : container'[d] = container[d]
        /\ container'[c] = "ordered"
    BY Facts DEF SInv, TypeOK, TakesSlot, OnlyCall, Containers
  <1>4. SlotsOk' /\ used' \in [Proxies -> Nat]
    BY <1>1, <1>2, SlotTaken DEF TakesSlot, HoldsSlot
  <1>5. TypeOK' /\ \A d \in Calls \ {c} : Kept(d)
    BY <1>2, <1>3, <1>4 DEF SInv, TypeOK, Kept, Containers
  <1>6. CallOk(c)' /\ Known(c)'
    BY <1>1, <1>2, <1>3, Facts, KnownCalls
       DEF SInv, CallOk, Known, InUse, Exists, Over, At, Containers
  <1> QED
    BY <1>4, <1>5, <1>6, StepOf

LEMMA NotStartedSInv ==
    ASSUME SInv, NEW c \in Calls, NotStarted(c) PROVE SInv'
  <1> DEFINE r == [call[c] EXCEPT !.phase = "over"]
  <1>1. call[c].phase = "queued"
    BY DEF NotStarted
  <1>2. /\ r \in Call /\ call' = [call EXCEPT ![c] = r] /\ call'[c] = r
        /\ r.phase = "over" /\ r.at = At(c)
    <2>1. "over" \in Phases
      BY DEF Phases
    <2>2. r \in Call /\ r.phase = "over" /\ r.at = At(c)
      BY <2>1, Facts, CallType DEF SInv, At
    <2> QED
      BY <2>2, Facts DEF SInv, TypeOK, NotStarted, Goes
  <1> HIDE DEF r
  <1>3. /\ UNCHANGED <<proxy, live, closing, sweep, old, stops>>
        /\ container' \in [Calls -> Containers]
        /\ \A d \in Calls \ {c} : container'[d] = container[d]
        /\ container'[c] = container[c]
    BY Facts DEF SInv, TypeOK, NotStarted, OnlyCall, Containers
  <1>4. SlotsOk' /\ used' \in [Proxies -> Nat]
    <2>1. used' = used
      BY DEF NotStarted
    <2>2. SlotsOk'
      BY <1>1, <1>2, <2>1, SlotsStay DEF HoldsSlot
    <2> QED
      BY <2>1, <2>2 DEF SInv, TypeOK
  <1>5. TypeOK' /\ \A d \in Calls \ {c} : Kept(d)
    BY <1>2, <1>3, <1>4 DEF SInv, TypeOK, Kept, Containers
  <1>6. CallOk(c)' /\ Known(c)'
    BY <1>1, <1>2, <1>3, Facts, KnownCalls
       DEF SInv, CallOk, Known, InUse, Exists, Over, At, Containers
  <1> QED
    BY <1>4, <1>5, <1>6, StepOf

LEMMA NotCreatedSInv ==
    ASSUME SInv, NEW c \in Calls, NotCreated(c) PROVE SInv'
  <1> DEFINE r == [call[c] EXCEPT !.phase = "over"]
  <1>1. call[c].phase = "creating"
    BY DEF NotCreated
  <1>2. /\ r \in Call /\ call' = [call EXCEPT ![c] = r] /\ call'[c] = r
        /\ r.phase = "over" /\ r.at = At(c)
    <2>1. "over" \in Phases
      BY DEF Phases
    <2>2. r \in Call /\ r.phase = "over" /\ r.at = At(c)
      BY <2>1, Facts, CallType DEF SInv, At
    <2> QED
      BY <2>2, Facts DEF SInv, TypeOK, NotCreated, Goes
  <1> HIDE DEF r
  <1>3. /\ UNCHANGED <<proxy, live, closing, sweep, old, stops>>
        /\ container' \in [Calls -> Containers]
        /\ \A d \in Calls \ {c} : container'[d] = container[d]
        /\ container'[c] = container[c]
    BY Facts DEF SInv, TypeOK, NotCreated, OnlyCall, Containers
  <1>4. SlotsOk' /\ used' \in [Proxies -> Nat]
    BY <1>1, <1>2, SlotReleased DEF NotCreated, HoldsSlot
  <1>5. TypeOK' /\ \A d \in Calls \ {c} : Kept(d)
    BY <1>2, <1>3, <1>4 DEF SInv, TypeOK, Kept, Containers
  <1>6. CallOk(c)' /\ Known(c)'
    BY <1>1, <1>2, <1>3, Facts, KnownCalls
       DEF SInv, CallOk, Known, InUse, Exists, Over, At, Containers
  <1> QED
    BY <1>4, <1>5, <1>6, StepOf

LEMMA CreatedSInv ==
    ASSUME SInv, NEW c \in Calls, NEW ok \in BOOLEAN, Created(c, ok) PROVE SInv'
  <1> DEFINE r == [call[c] EXCEPT !.phase = (IF ok THEN "feeding" ELSE "removing")]
  <1>1. call[c].phase = "creating"
    BY DEF Created
  <1>2. /\ r \in Call /\ call' = [call EXCEPT ![c] = r] /\ call'[c] = r
        /\ r.phase = (IF ok THEN "feeding" ELSE "removing") /\ r.at = At(c)
    <2>1. (IF ok THEN "feeding" ELSE "removing") \in Phases
      BY DEF Phases
    <2>2. r \in Call /\ r.phase = (IF ok THEN "feeding" ELSE "removing") /\ r.at = At(c)
      BY <2>1, Facts, CallType DEF SInv, At
    <2> QED
      BY <2>2, Facts DEF SInv, TypeOK, Created, Goes
  <1> HIDE DEF r
  <1>3. /\ UNCHANGED <<proxy, closing, sweep, old, stops>>
        /\ container' \in [Calls -> Containers]
        /\ \A d \in Calls \ {c} : container'[d] = container[d]
        /\ ok => container'[c] # "ordered" /\ container'[c] = container[c]
        /\ container'[c] = "running" => container[c] = "running"
    BY Facts DEF SInv, TypeOK, Created, Exists, Containers
  <1>4. SlotsOk' /\ used' \in [Proxies -> Nat]
    <2>1. used' = used
      BY DEF Created
    <2>2. SlotsOk'
      BY <1>1, <1>2, <2>1, SlotsStay DEF HoldsSlot
    <2> QED
      BY <2>1, <2>2 DEF SInv, TypeOK
  <1>5. /\ live' \in [Proxies -> SUBSET Calls] /\ c \in live'[At(c)]
        /\ \A d \in Calls, q \in Proxies : d \in live[q] => d \in live'[q]
    BY Facts DEF SInv, TypeOK, Created
  <1>6. TypeOK' /\ \A d \in Calls \ {c} : Kept(d)
    BY <1>2, <1>3, <1>4, <1>5 DEF SInv, TypeOK, Kept, Containers
  <1>7. CallOk(c)' /\ Known(c)'
    BY <1>1, <1>2, <1>3, <1>5, Facts, KnownCalls
       DEF SInv, CallOk, Known, InUse, Exists, Over, At, Containers
  <1> QED
    BY <1>4, <1>6, <1>7, StepOf

LEMMA FedSInv ==
    ASSUME SInv, NEW c \in Calls, Fed(c) PROVE SInv'
  <1> DEFINE r == [call[c] EXCEPT !.phase = "executing"]
  <1>1. call[c].phase = "feeding" /\ Exists(c)
    BY DEF Fed
  <1>2. /\ r \in Call /\ call' = [call EXCEPT ![c] = r] /\ call'[c] = r
        /\ r.phase = "executing" /\ r.at = At(c)
    <2>1. "executing" \in Phases
      BY DEF Phases
    <2>2. r \in Call /\ r.phase = "executing" /\ r.at = At(c)
      BY <2>1, Facts, CallType DEF SInv, At
    <2> QED
      BY <2>2, Facts DEF SInv, TypeOK, Fed, Goes
  <1> HIDE DEF r
  <1>3. /\ UNCHANGED <<proxy, live, closing, sweep, old, stops>>
        /\ container' \in [Calls -> Containers]
        /\ \A d \in Calls \ {c} : container'[d] = container[d]
        /\ container'[c] = "running"
    BY Facts DEF SInv, TypeOK, Fed, OnlyCall, Containers
  <1>4. SlotsOk' /\ used' \in [Proxies -> Nat]
    <2>1. used' = used
      BY DEF Fed
    <2>2. SlotsOk'
      BY <1>1, <1>2, <2>1, SlotsStay DEF HoldsSlot
    <2> QED
      BY <2>1, <2>2 DEF SInv, TypeOK
  <1>5. TypeOK' /\ \A d \in Calls \ {c} : Kept(d)
    BY <1>2, <1>3, <1>4 DEF SInv, TypeOK, Kept, Containers
  <1>6. CallOk(c)' /\ Known(c)'
    BY <1>1, <1>2, <1>3, Facts, KnownCalls
       DEF SInv, CallOk, Known, InUse, Exists, Over, At, Containers
  <1> QED
    BY <1>4, <1>5, <1>6, StepOf

LEMMA ExecutedSInv ==
    ASSUME SInv, NEW c \in Calls, Executed(c) PROVE SInv'
  <1> DEFINE r == [call[c] EXCEPT !.phase = "removing"]
  <1>1. call[c].phase = "executing"
    BY DEF Executed
  <1>2. /\ r \in Call /\ call' = [call EXCEPT ![c] = r] /\ call'[c] = r
        /\ r.phase = "removing" /\ r.at = At(c)
    <2>1. "removing" \in Phases
      BY DEF Phases
    <2>2. r \in Call /\ r.phase = "removing" /\ r.at = At(c)
      BY <2>1, Facts, CallType DEF SInv, At
    <2> QED
      BY <2>2, Facts DEF SInv, TypeOK, Executed, Goes
  <1> HIDE DEF r
  <1>3. /\ UNCHANGED <<proxy, live, closing, sweep, old, stops>>
        /\ container' \in [Calls -> Containers]
        /\ \A d \in Calls \ {c} : container'[d] = container[d]
        /\ container'[c] = container[c]
    BY Facts DEF SInv, TypeOK, Executed, OnlyCall, Containers
  <1>4. SlotsOk' /\ used' \in [Proxies -> Nat]
    <2>1. used' = used
      BY DEF Executed
    <2>2. SlotsOk'
      BY <1>1, <1>2, <2>1, SlotsStay DEF HoldsSlot
    <2> QED
      BY <2>1, <2>2 DEF SInv, TypeOK
  <1>5. TypeOK' /\ \A d \in Calls \ {c} : Kept(d)
    BY <1>2, <1>3, <1>4 DEF SInv, TypeOK, Kept, Containers
  <1>6. CallOk(c)' /\ Known(c)'
    BY <1>1, <1>2, <1>3, Facts, KnownCalls
       DEF SInv, CallOk, Known, InUse, Exists, Over, At, Containers
  <1> QED
    BY <1>4, <1>5, <1>6, StepOf

LEMMA TimesOutSInv ==
    ASSUME SInv, NEW c \in Calls, NEW killed \in BOOLEAN, TimesOut(c, killed) PROVE SInv'
  <1> DEFINE r == [call[c] EXCEPT !.phase = "removing"]
  <1>1. call[c].phase = "executing"
    BY DEF TimesOut
  <1>2. /\ r \in Call /\ call' = [call EXCEPT ![c] = r] /\ call'[c] = r
        /\ r.phase = "removing" /\ r.at = At(c)
    <2>1. "removing" \in Phases
      BY DEF Phases
    <2>2. r \in Call /\ r.phase = "removing" /\ r.at = At(c)
      BY <2>1, Facts, CallType DEF SInv, At
    <2> QED
      BY <2>2, Facts DEF SInv, TypeOK, TimesOut, Goes
  <1> HIDE DEF r
  <1>3. /\ UNCHANGED <<proxy, live, closing, sweep, old, stops>>
        /\ container' \in [Calls -> Containers]
        /\ \A d \in Calls \ {c} : container'[d] = container[d]
        /\ container'[c] \in {container[c], "idle"}
    BY Facts DEF SInv, TypeOK, TimesOut, OnlyCall, Containers
  <1>4. SlotsOk' /\ used' \in [Proxies -> Nat]
    <2>1. used' = used
      BY DEF TimesOut
    <2>2. SlotsOk'
      BY <1>1, <1>2, <2>1, SlotsStay DEF HoldsSlot
    <2> QED
      BY <2>1, <2>2 DEF SInv, TypeOK
  <1>5. TypeOK' /\ \A d \in Calls \ {c} : Kept(d)
    BY <1>2, <1>3, <1>4 DEF SInv, TypeOK, Kept, Containers
  <1>6. CallOk(c)' /\ Known(c)'
    BY <1>1, <1>2, <1>3, Facts, KnownCalls
       DEF SInv, CallOk, Known, InUse, Exists, Over, At, Containers
  <1> QED
    BY <1>4, <1>5, <1>6, StepOf

LEMMA InterruptedSInv ==
    ASSUME SInv, NEW c \in Calls, Interrupted(c) PROVE SInv'
  <1> DEFINE r == [call[c] EXCEPT !.phase = "removing"]
  <1>1. call[c].phase \in {"feeding", "executing"}
    BY DEF Interrupted
  <1>2. /\ r \in Call /\ call' = [call EXCEPT ![c] = r] /\ call'[c] = r
        /\ r.phase = "removing" /\ r.at = At(c)
    <2>1. "removing" \in Phases
      BY DEF Phases
    <2>2. r \in Call /\ r.phase = "removing" /\ r.at = At(c)
      BY <2>1, Facts, CallType DEF SInv, At
    <2> QED
      BY <2>2, Facts DEF SInv, TypeOK, Interrupted, Goes
  <1> HIDE DEF r
  <1>3. /\ UNCHANGED <<proxy, live, closing, sweep, old, stops>>
        /\ container' \in [Calls -> Containers]
        /\ \A d \in Calls \ {c} : container'[d] = container[d]
        /\ container'[c] = container[c]
    BY Facts DEF SInv, TypeOK, Interrupted, OnlyCall, Containers
  <1>4. SlotsOk' /\ used' \in [Proxies -> Nat]
    <2>1. used' = used
      BY DEF Interrupted
    <2>2. SlotsOk'
      BY <1>1, <1>2, <2>1, SlotsStay DEF HoldsSlot
    <2> QED
      BY <2>1, <2>2 DEF SInv, TypeOK
  <1>5. TypeOK' /\ \A d \in Calls \ {c} : Kept(d)
    BY <1>2, <1>3, <1>4 DEF SInv, TypeOK, Kept, Containers
  <1>6. CallOk(c)' /\ Known(c)'
    BY <1>1, <1>2, <1>3, Facts, KnownCalls
       DEF SInv, CallOk, Known, InUse, Exists, Over, At, Containers
  <1> QED
    BY <1>4, <1>5, <1>6, StepOf


LEMMA ForgottenFacts ==
    ASSUME TypeOK, NEW p \in Proxies, NEW c \in Calls, NEW how \in Outcomes, Rm(c, how), Forgotten(p, c, how)
    PROVE  /\ container' \in [Calls -> Containers] /\ old' \in SUBSET Calls
           /\ live' \in [Proxies -> SUBSET Calls]
           /\ \A d \in Calls : container'[d] \in {"none", container[d]} /\ (d \in old' => d \in old)
           /\ \A d \in Calls \ {c} : /\ container'[d] = container[d]
                                     /\ \A q \in Proxies : d \in live[q] => d \in live'[q]
           /\ \/ ~Exists(c)'
              \/ container'[c] = container[c] /\ \A q \in Proxies : c \in live[q] => c \in live'[q]
  <1>1. /\ container' \in [Calls -> Containers] /\ old' \in SUBSET Calls
        /\ \A d \in Calls : container'[d] \in {"none", container[d]} /\ (d \in old' => d \in old)
        /\ \A d \in Calls \ {c} : container'[d] = container[d]
        /\ how # "failed" => ~Exists(c)'
        /\ how = "failed" => container'[c] = container[c]
    BY EngineFacts DEF Rm
  <1>2. /\ live' \in [Proxies -> SUBSET Calls]
        /\ \A d \in Calls \ {c}, q \in Proxies : d \in live[q] => d \in live'[q]
        /\ how # "done" => live' = live
    BY DEF Forgotten, TypeOK
  <1> QED
    BY <1>1, <1>2

LEMMA RemovedSInv == ASSUME SInv, NEW c \in Calls, NEW how \in Outcomes, Removed(c, how) PROVE SInv'
  <1> DEFINE r == [call[c] EXCEPT !.phase = "over"]
  <1>1. call[c].phase = "removing" /\ UNCHANGED <<proxy, closing, sweep, stops>>
    BY DEF Removed
  <1>2. /\ r \in Call /\ call' = [call EXCEPT ![c] = r] /\ call'[c] = r
        /\ r.phase = "over" /\ r.at = At(c)
    <2>1. r \in Call /\ r.phase = "over" /\ r.at = At(c)
      BY Facts, CallType DEF SInv, At, Phases
    <2> QED
      BY <2>1, Facts DEF SInv, TypeOK, Removed, Goes
  <1> HIDE DEF r
  <1>3. /\ container' \in [Calls -> Containers] /\ old' \in SUBSET Calls
        /\ live' \in [Proxies -> SUBSET Calls]
        /\ \A d \in Calls : container'[d] \in {"none", container[d]} /\ (d \in old' => d \in old)
        /\ \A d \in Calls \ {c} : /\ container'[d] = container[d]
                                  /\ \A q \in Proxies : d \in live[q] => d \in live'[q]
        /\ \/ ~Exists(c)'
           \/ container'[c] = container[c] /\ \A q \in Proxies : c \in live[q] => c \in live'[q]
    BY Facts, ForgottenFacts DEF SInv, Removed
  <1>4. SlotsOk' /\ used' \in [Proxies -> Nat]
    BY <1>1, <1>2, SlotReleased DEF Removed, HoldsSlot
  <1>5. TypeOK' /\ \A d \in Calls \ {c} : Kept(d)
    BY <1>1, <1>2, <1>3, <1>4 DEF SInv, TypeOK, Kept, Containers
  <1>6. CallOk(c)' /\ Known(c)'
    BY <1>1, <1>2, <1>3, Facts, KnownCalls
       DEF SInv, CallOk, Known, InUse, Exists, Over, At, Containers
  <1> QED
    BY <1>4, <1>5, <1>6, StepOf

-----------------------------------------------------------------------------
(***************************************************************************)
(* The steps of the engine, the reaper and the processes.                  *)
(***************************************************************************)
LEMMA EngineCreatesSInv == ASSUME SInv, NEW c \in Calls, EngineCreates(c) PROVE SInv'
  <1>1. /\ container[c] = "ordered" /\ container'[c] = "idle"
        /\ \A d \in Calls \ {c} : container'[d] = container[d]
        /\ UNCHANGED <<proxy, used, live, closing, sweep, call, old, stops>>
    BY DEF EngineCreates, SInv, TypeOK
  <1>2. TypeOK' /\ \A d \in Calls \ {c} : Kept(d)
    BY <1>1 DEF SInv, TypeOK, Kept, EngineCreates
  <1>3. SlotsOk'
    BY <1>1, SlotsSame
  <1>4. CallOk(c)' /\ Known(c)'
    BY <1>1 DEF SInv, CallOk, Known, InUse, Exists
  <1> QED
    BY <1>2, <1>3, <1>4, StepOf

LEMMA CommandEndsSInv == ASSUME SInv, NEW c \in Calls, CommandEnds(c) PROVE SInv'
  <1>1. /\ container[c] = "running" /\ container'[c] = "idle"
        /\ \A d \in Calls \ {c} : container'[d] = container[d]
        /\ UNCHANGED <<proxy, used, live, closing, sweep, call, old, stops>>
    BY DEF CommandEnds, SInv, TypeOK
  <1>2. TypeOK' /\ \A d \in Calls \ {c} : Kept(d)
    BY <1>1 DEF SInv, TypeOK, Kept, CommandEnds
  <1>3. SlotsOk'
    BY <1>1, SlotsSame
  <1>4. CallOk(c)' /\ Known(c)'
    BY <1>1 DEF SInv, CallOk, Known, InUse, Exists, At
  <1> QED
    BY <1>2, <1>3, <1>4, StepOf

LEMMA AgesSInv == ASSUME SInv, NEW c \in Calls, Ages(c) PROVE SInv'
  <1>1. /\ old' = old \cup {c} /\ UNCHANGED <<proxy, used, live, closing, sweep, call, container, stops>>
        /\ \/ call[c].phase \in Over
           \/ LongCommands /\ call[c].phase \in {"executing", "removing"}
    BY DEF Ages
  <1>2. TypeOK' /\ \A d \in Calls \ {c} : Kept(d)
    BY <1>1 DEF SInv, TypeOK, Kept
  <1>3. SlotsOk'
    BY <1>1, SlotsSame
  <1>4. CallOk(c)' /\ Known(c)'
    BY <1>1, KnownCalls DEF SInv, CallOk, Known, InUse, Exists, At
  <1> QED
    BY <1>2, <1>3, <1>4, StepOf

LEMMA ServingType == ASSUME TypeOK, NEW p \in Proxies, Serving(p) PROVE proxy' \in [Proxies -> ProxyStates]
  BY DEF TypeOK, Serving, ProxyStates

LEMMA SweepEnds ==
    ASSUME SInv, NEW p \in Proxies, NEW rm, Engine(rm),
           sweep' = [sweep EXCEPT ![p] = NoSweep], Serving(p),
           UNCHANGED <<used, live, closing, call, stops>>
    PROVE  SInv'
  <1>1. TypeOK /\ NoSweep \in Sweep
    BY DEF SInv, NoSweep, Sweep
  <1>2. \A d \in Calls : Kept(d)
    BY <1>1, EngineFacts DEF Kept
  <1>3. TypeOK'
    BY <1>1, EngineFacts, ServingType DEF TypeOK, Containers, ProxyStates
  <1> QED
    BY <1>2, <1>3, SlotsSame, StepOfNone

LEMMA SweepRemovesSInv == ASSUME SInv, NEW p \in Proxies, SweepRemoves(p) PROVE SInv'
  BY SweepEnds DEF SweepRemoves

LEMMA SweepFailsSInv == ASSUME SInv, NEW p \in Proxies, SweepFails(p) PROVE SInv'
  <1>1. PICK some \in SUBSET Orphans(p) : Engine(some)
    BY DEF SweepFails
  <1> QED
    BY <1>1, SweepEnds DEF SweepFails

\* A step that touches neither a call nor a container
LEMMA ProxyOnly ==
    ASSUME SInv, UNCHANGED <<used, live, call, container, old>>, TypeOK' PROVE SInv'
  <1>1. \A d \in Calls : Kept(d)
    BY DEF Kept
  <1> QED
    BY <1>1, SlotsSame, StepOfNone

LEMMA SweepListsSInv == ASSUME SInv, NEW p \in Proxies, SweepLists(p) PROVE SInv'
  <1>1. [on |-> TRUE, seen |-> {c \in Calls : Exists(c)}] \in Sweep
    BY DEF Sweep
  <1> QED
    BY <1>1, ProxyOnly DEF SweepLists, SInv, TypeOK

LEMMA StartsSInv == ASSUME SInv, NEW p \in Proxies, Starts(p) PROVE SInv'
  BY ProxyOnly DEF Starts, SInv, TypeOK

LEMMA ClosesSInv == ASSUME SInv, NEW p \in Proxies, Closes(p) PROVE SInv'
  <1>1. NoSweep \in Sweep
    BY DEF NoSweep, Sweep
  <1> QED
    BY <1>1, ProxyOnly DEF Closes, SInv, TypeOK

LEMMA CloseRemovesSInv ==
    ASSUME SInv, NEW p \in Proxies, NEW c \in Calls, NEW how \in Outcomes, CloseRemoves(p, c, how)
    PROVE  SInv'
  <1>1. /\ UNCHANGED <<proxy, used, sweep, call, stops>> /\ closing' = [closing EXCEPT ![p] = @ \ {c}]
    BY DEF CloseRemoves
  <1>2. /\ container' \in [Calls -> Containers] /\ old' \in SUBSET Calls
        /\ live' \in [Proxies -> SUBSET Calls]
        /\ \A d \in Calls : container'[d] \in {"none", container[d]} /\ (d \in old' => d \in old)
        /\ \A d \in Calls \ {c} : /\ container'[d] = container[d]
                                  /\ \A q \in Proxies : d \in live[q] => d \in live'[q]
        /\ \/ ~Exists(c)'
           \/ container'[c] = container[c] /\ \A q \in Proxies : c \in live[q] => c \in live'[q]
    BY ForgottenFacts DEF SInv, CloseRemoves
  <1>3. TypeOK' /\ \A d \in Calls \ {c} : Kept(d)
    BY <1>1, <1>2 DEF SInv, TypeOK, Kept, Containers
  <1>4. CallOk(c)' /\ Known(c)'
    BY <1>1, <1>2, Facts, KnownCalls DEF SInv, CallOk, Known, InUse, Exists, At, Containers
  <1> QED
    BY <1>1, <1>3, <1>4, SlotsSame, StepOf

LEMMA EndsSInv ==
    ASSUME SInv, NEW p \in Proxies, Ends(p), stops' \in Nat PROVE SInv'
  <1>1. \A c \in Calls :
           call'[c] = IF At(c) = p /\ call[c].phase # "new" THEN [call[c] EXCEPT !.phase = "dead"] ELSE call[c]
    BY DEF Ends
  <1>2. "dead" \in Phases /\ NoSweep \in Sweep
    BY DEF Phases, NoSweep, Sweep
  <1>3. \A c \in Calls :
           /\ call'[c] \in Call /\ At(c)' = At(c)
           /\ call'[c].phase = IF At(c) = p /\ call[c].phase # "new" THEN "dead" ELSE call[c].phase
    <2> SUFFICES ASSUME NEW c \in Calls
                 PROVE  /\ call'[c] \in Call /\ At(c)' = At(c)
                        /\ call'[c].phase = IF At(c) = p /\ call[c].phase # "new" THEN "dead"
                                            ELSE call[c].phase
      OBVIOUS
    <2>1. call[c] \in Call
      BY DEF SInv, TypeOK
    <2>2. /\ [call[c] EXCEPT !.phase = "dead"] \in Call
          /\ [call[c] EXCEPT !.phase = "dead"].phase = "dead"
          /\ [call[c] EXCEPT !.phase = "dead"].at = call[c].at
      BY <1>2, <2>1, CallType
    <2>3. CASE At(c) = p /\ call[c].phase # "new"
      <3>1. call'[c] = [call[c] EXCEPT !.phase = "dead"]
        BY <1>1, <2>3
      <3> QED
        BY <2>2, <2>3, <3>1 DEF At
    <2>4. CASE ~(At(c) = p /\ call[c].phase # "new")
      <3>1. call'[c] = call[c]
        BY <1>1, <2>4
      <3> QED
        BY <2>1, <2>4, <3>1 DEF At
    <2> QED
      BY <2>3, <2>4
  <1>4. /\ UNCHANGED <<container, old>> /\ live' = [live EXCEPT ![p] = {}]
        /\ used' = [used EXCEPT ![p] = 0] /\ \A q \in Proxies \ {p} : live'[q] = live[q]
    BY DEF Ends, SInv, TypeOK
  <1>5. TypeOK'
    <2>1. call' \in [Calls -> Call]
      BY <1>3 DEF Ends
    <2> QED
      BY <1>2, <1>4, <2>1 DEF Ends, SInv, TypeOK
  <1>6. SlotsOk'
    <2> SUFFICES ASSUME NEW q \in Proxies
                 PROVE  /\ IsFiniteSet(Holders(q)') /\ used'[q] = Cardinality(Holders(q)')
                        /\ used'[q] <= MaxConcurrent
      BY DEF SlotsOk, SlotsExact, Holders
    <2>1. CASE q = p
      <3>1. Holders(q)' = {} /\ used'[q] = 0
        BY <1>3, <1>4, <2>1 DEF Holders, HoldsSlot, SInv, TypeOK
      <3> QED
        BY <3>1, FS_EmptySet, SandboxAssumption
    <2>2. CASE q # p
      <3>1. Holders(q)' = Holders(q) /\ used'[q] = used[q]
        BY <1>3, <1>4, <2>2 DEF Holders, HoldsSlot, SInv, TypeOK
      <3> QED
        BY <3>1 DEF SInv, SlotsExact, Holders
    <2> QED
      BY <2>1, <2>2
  <1>7. ASSUME NEW c \in Calls PROVE CallOk(c)' /\ Known(c)'
    <2>1. CallOk(c) /\ Known(c) /\ At(c) \in Proxies
      BY Facts, KnownCalls DEF SInv
    <2>2. CASE At(c) = p /\ call[c].phase # "new"
      BY <1>3, <1>4, <2>1, <2>2 DEF CallOk, Known, InUse, Over
    <2>3. CASE call[c].phase = "new"
      BY <1>3, <1>4, <2>1, <2>3 DEF CallOk, Known, InUse, Over
    <2>4. CASE At(c) # p
      BY <1>3, <1>4, <2>1, <2>4 DEF CallOk, Known, InUse, Exists
    <2> QED
      BY <2>2, <2>3, <2>4
  <1> QED
    BY <1>5, <1>6, <1>7 DEF SInv, SlotsOk, CommandKnown, Known

-----------------------------------------------------------------------------
(***************************************************************************)
(* Init, every step, and the theorems.                                     *)
(***************************************************************************)
LEMMA InitSInv == Init => SInv
  <1> SUFFICES ASSUME Init PROVE SInv
    OBVIOUS
  <1>1. NewCall \in Call /\ NoSweep \in Sweep
    BY SandboxAssumption DEF NewCall, NoSweep, Call, Phases, Sweep
  <1>2. TypeOK
    BY <1>1 DEF Init, TypeOK
  <1>3. ASSUME NEW p \in Proxies PROVE Holders(p) = {} /\ IsFiniteSet(Holders(p)) /\ Cardinality(Holders(p)) = 0
    <2>1. Holders(p) = {}
      BY DEF Init, Holders, NewCall, HoldsSlot
    <2> QED
      BY <2>1, FS_EmptySet
  <1>4. SlotsExact
    <2>1. ASSUME NEW p \in Proxies PROVE used[p] = 0 /\ 0 <= MaxConcurrent
      BY SandboxAssumption DEF Init
    <2> QED
      BY <1>3, <2>1 DEF SlotsExact, Holders
  <1>5. CommandKnown /\ \A c \in Calls : CallOk(c)
    BY DEF Init, CommandKnown, CallOk, InUse, Exists, NewCall
  <1> QED
    BY <1>2, <1>3, <1>4, <1>5 DEF SInv

LEMMA StepSInv == SInv /\ [Next]_vars => SInv'
  <1> SUFFICES ASSUME SInv, [Next]_vars PROVE SInv'
    OBVIOUS
  <1>1. CASE UNCHANGED vars
    BY <1>1, ProxyOnly DEF vars, SInv, TypeOK
  <1>2. ASSUME NEW c \in Calls, CallStep(c) PROVE SInv'
    BY <1>2, TakesSlotSInv, NotStartedSInv, NotCreatedSInv, CreatedSInv, FedSInv, ExecutedSInv,
       InterruptedSInv, TimesOutSInv, RemovedSInv
       DEF CallStep
  <1>3. ASSUME NEW p \in Proxies, Closed(p) \/ Dies(p) PROVE SInv'
    <2>1. Ends(p) /\ stops' \in Nat
      BY <1>3 DEF Closed, Dies, SInv, TypeOK
    <2> QED
      BY <2>1, EndsSInv
  <1>4. ASSUME NEW p \in Proxies, CloseStep(p) PROVE SInv'
    BY <1>3, <1>4, CloseRemovesSInv DEF CloseStep
  <1> QED
    BY <1>1, <1>2, <1>3, <1>4, ArrivesSInv, EngineCreatesSInv, CommandEndsSInv, AgesSInv,
       SweepListsSInv, SweepRemovesSInv, SweepFailsSInv, StartsSInv, ClosesSInv
       DEF Next

\* The inductive invariant: the slots are those of the calls that hold one, and
\* of each call, what its place says of its container and of the live set.
THEOREM SandboxInvariant == Spec => []SInv
  BY InitSInv, StepSInv, PTL DEF Spec

\* The executor's counter of slots is the number of calls that hold one, and
\* never more than max_concurrent, on every path a call can end.
THEOREM SlotsAreExact == Spec => []SlotsExact
  <1>1. SInv => SlotsExact
    BY DEF SInv
  <1> QED
    BY <1>1, SandboxInvariant, PTL

\* A container whose command still runs is on the live set of its process,
\* which removes it at shutdown, unless that process died.
THEOREM CommandsAreKnown == Spec => []CommandKnown
  <1>1. SInv => CommandKnown
    BY DEF SInv
  <1> QED
    BY <1>1, SandboxInvariant, PTL

\* A step that ends a sweep is the removal, the failure, or the end of the
\* process, which removes nothing.
LEMMA SweepEndsBy ==
    ASSUME SInv, [Next]_vars, NEW p \in Proxies, sweep[p].on, ~sweep'[p].on,
           NEW c \in Calls, Exists(c), container'[c] = "none"
    PROVE  c \in Orphans(p)
  <1>1. ASSUME NEW q \in Proxies, SweepRemoves(q) \/ SweepFails(q) PROVE c \in Orphans(p)
    <2>1. \E rm \in SUBSET Orphans(q) : Engine(rm)
      BY <1>1 DEF SweepRemoves, SweepFails
    <2>2. sweep' = [sweep EXCEPT ![q] = NoSweep]
      BY <1>1 DEF SweepRemoves, SweepFails
    <2>3. q = p
      BY <2>2 DEF SInv, TypeOK
    <2> QED
      BY <2>1, <2>3, EngineFacts DEF SInv, Exists
  <1>2. ASSUME NEW q \in Proxies, Closes(q) \/ Closed(q) \/ Dies(q) PROVE FALSE
    <2>1. container' = container
      BY <1>2 DEF Closes, Closed, Dies, Ends
    <2> QED
      BY <2>1 DEF Exists
  <1>3. ASSUME NEW q \in Proxies, SweepLists(q) PROVE FALSE
    <2>1. container' = container
      BY <1>3 DEF SweepLists
    <2> QED
      BY <2>1 DEF Exists
  <1>4. ASSUME sweep' = sweep PROVE FALSE
    BY <1>4
  <1>5. CASE UNCHANGED vars
    BY <1>4, <1>5 DEF vars
  <1>6. ASSUME NEW d \in Calls, CallStep(d) \/ EngineCreates(d) \/ CommandEnds(d) \/ Ages(d)
        PROVE  FALSE
    <2>1. sweep' = sweep
      BY <1>6 DEF CallStep, EngineCreates, CommandEnds, Ages, TakesSlot, NotStarted, NotCreated,
                  Created, Fed, Executed, Interrupted, TimesOut, Removed, OnlyCall
    <2> QED
      BY <1>4, <2>1
  <1>7. ASSUME NEW d \in Calls, NEW q \in Proxies, NEW valid \in BOOLEAN, Arrives(d, q, valid)
        PROVE  FALSE
    BY <1>4, <1>7 DEF Arrives, OnlyCall
  <1>8. ASSUME NEW q \in Proxies, NEW d \in Calls, NEW how \in Outcomes, CloseRemoves(q, d, how)
        PROVE  FALSE
    BY <1>4, <1>8 DEF CloseRemoves
  <1>9. ASSUME NEW q \in Proxies, Starts(q) PROVE FALSE
    BY <1>4, <1>9 DEF Starts
  <1> QED
    BY <1>1, <1>2, <1>3, <1>5, <1>6, <1>7, <1>8, <1>9 DEF Next, CloseStep

\* No sweep removes a container in use: its own process knows its name, and to
\* another it is old only when a command may run longer than the orphan age.
THEOREM SweepsSpare == Spec => SweepSpares
  <1> DEFINE Spares == \A p \in Proxies, c \in Calls :
                          InUse(c) /\ Exists(c) /\ container'[c] = "none"
                             /\ sweep[p].on /\ ~sweep'[p].on
                          => At(c) # p /\ LongCommands
  <1>1. ASSUME SInv, [Next]_vars PROVE Spares
    <2> SUFFICES ASSUME NEW p \in Proxies, NEW c \in Calls, InUse(c), Exists(c),
                        container'[c] = "none", sweep[p].on, ~sweep'[p].on
                 PROVE  At(c) # p /\ LongCommands
      OBVIOUS
    <2>1. c \in Orphans(p)
      BY <1>1, SweepEndsBy
    <2>2. CallOk(c)
      BY <1>1 DEF SInv
    <2>3. c \in live[At(c)]
      BY <2>2 DEF CallOk
    <2> QED
      BY <2>1, <2>2, <2>3 DEF Orphans, CallOk, InUse, Over
  <1> HIDE DEF Spares
  <1>2. SInv /\ [Next]_vars => [Spares]_vars
    BY <1>1
  <1>3. Spec => [][Spares]_vars
    BY <1>2, SandboxInvariant, PTL DEF Spec
  <1> QED
    BY <1>3 DEF SweepSpares, Spares
=============================================================================
