--------------------------- MODULE ForensicChain ---------------------------
(***************************************************************************)
(* The durable forensic store of domains/compliance/forensic.py            *)
(* (ForensicBlackBox over a directory or a bucket): a hash chain of        *)
(* records, the chain state saved after every record, the HMAC saved after *)
(* the state, and the restart that has to make one chain out of whatever   *)
(* an interrupted process left behind.                                     *)
(*                                                                         *)
(* One process at a time has the store open.  Its write lock serialises    *)
(* record(), so the steps between two lock releases are the three object   *)
(* writes (record, state, HMAC); each may succeed, fail with nothing       *)
(* written, or fail after the object is in place (the directory fsync      *)
(* after os.replace, a put_object whose answer is lost), and the process   *)
(* may die between any two of them.                                        *)
(***************************************************************************)
EXTENDS Naturals, FiniteSets

CONSTANTS
    Hours,       \* hour directories YYYY/MM/DD/HH, ordered as their names are
    KeyModes,    \* whether a start may have the state key: subset of BOOLEAN
    FailModes,   \* fail modes a start may have: subset of {"open", "closed"}
    FaultKinds,  \* I/O faults that may happen: subset of FaultKind
    MaxRecords,  \* bound: records ever attempted
    MaxFaults,   \* bound: I/O faults
    MaxStops     \* bound: times the process stops or is killed

FaultKind == {"write",   \* an object write fails, nothing written
              "late",    \* an object write fails after the object is in place
              "read"}    \* the chain state cannot be read at startup

ASSUME HoursAssumption == Hours \subseteq Nat \ {0}
ASSUME ModesAssumption == /\ KeyModes \subseteq BOOLEAN
                          /\ FailModes \subseteq {"open", "closed"}
                          /\ FaultKinds \subseteq FaultKind
ASSUME BoundsAssumption == MaxRecords \in Nat /\ MaxFaults \in Nat /\ MaxStops \in Nat

VARIABLES
    disk,        \* the record objects stored
    stateFile,   \* _chain_state.json
    sigFile,     \* _chain_state.json.sig: the state whose HMAC it holds
    pc,          \* where the process is: between calls, or at an object write
    op,          \* what the write in progress belongs to
    pending,     \* the record being written
    keyed,       \* the process has the state key
    failMode,    \* the process's fail_mode
    status,      \* chain_status
    pos,         \* record_count, chain_head and the directory of _head_key
    signedFrom,  \* _signed_from (0: None)
    rebuilt,     \* _rebuilt is set: a rebuild not yet acknowledged
    lastWriteOk, \* _last_write_ok
    made,        \* records attempted so far; numbers their hashes
    faults,      \* faults so far
    stops,       \* stops so far
    acked,       \* history: records record() returned with stored: True
    refused,     \* history: hashes of the records reported as not written
    unacked      \* history: a rebuild not acknowledged since ("no", "rebuilt",
                 \* or "saved" once the saved state names it)

durable == <<disk, stateFile, sigFile>>
memory  == <<pc, op, pending, keyed, failMode, status, pos, signedFrom,
             rebuilt, lastWriteOk>>
history == <<acked, refused, unacked>>
vars    == <<durable, memory, made, faults, stops, history>>

(***************************************************************************)
(* Data.  A record's hash is an identity of its own (SHA-256 taken as      *)
(* collision-free); 0 is GENESIS.  A signature is there or not: one key.   *)
(***************************************************************************)
Genesis == 0
Record  == [dir : Hours, seq : Nat \ {0}, prev : Nat, hash : Nat \ {0}, sig : BOOLEAN]
NoRecord == [dir |-> 0, seq |-> 0, prev |-> 0, hash |-> 0, sig |-> FALSE]

Position == [count : Nat, head : Nat, dir : Hours \cup {0}]
Origin   == [count |-> 0, head |-> Genesis, dir |-> 0]

SavedState == [pos : Position, signedFrom : Nat, rebuilt : BOOLEAN]
NoFile     == [pos |-> Origin, signedFrom |-> 0, rebuilt |-> FALSE]  \* never written

At(r) == [count |-> r.seq, head |-> r.hash, dir |-> r.dir]

\* os.replace: the object at the record's key (directory and number) is replaced
Put(d, r) == {s \in d : s.dir # r.dir \/ s.seq # r.seq} \cup {r}

\* Mutant: without the floor
RecordDirNoFloor(hour, floor) == hour

\* record_key: never an hour before the one of the record before
RecordDir(hour, floor) == IF floor > hour THEN floor ELSE hour

NextRecord(at, hour, withKey) ==
    [dir  |-> RecordDir(hour, at.dir), seq |-> at.count + 1, prev |-> at.head,
     hash |-> made + 1, sig |-> withKey]

(***************************************************************************)
(* Verification.  The records S, listed by directory and then by number,   *)
(* pass verify_entries after position (n, h): their numbers follow one     *)
(* another from n + 1 in the order listed, each links to the one before,   *)
(* and with the key those from `from' on are signed.  ChainVerify compares *)
(* this with the loop of verify_entries.                                   *)
(***************************************************************************)
SignatureOk(r, withKey, from) == (withKey /\ from > 0 /\ r.seq >= from) => r.sig

Verifies(S, n, h, withKey, from) ==
    \A r \in S :
        /\ r.seq > n
        /\ \A q \in S : /\ q.seq = r.seq => q = r
                        /\ q.seq < r.seq => q.dir <= r.dir
        /\ \/ r.seq = n + 1 /\ r.prev = h
           \/ \E q \in S : q.seq + 1 = r.seq /\ q.hash = r.prev
        /\ SignatureOk(r, withKey, from)

\* Mutant: the last directory's records in any order
IsLastDir(r, S) == r \in S /\ \A q \in S : q.dir <= r.dir

\* r is the last of S
IsLast(r, S) == r \in S /\ \A q \in S : q.seq <= r.seq

\* verify(): the whole chain against the position in memory
StoreVerifies ==
    /\ Verifies(disk, 0, Genesis, keyed, signedFrom)
    /\ pos.count > 0 => \E r \in disk : r.seq = pos.count /\ r.hash = pos.head

-----------------------------------------------------------------------------
Init ==
    /\ disk = {} /\ stateFile = NoFile /\ sigFile = NoFile
    /\ pc = "down" /\ op = "none" /\ pending = NoRecord
    /\ keyed = FALSE /\ failMode = "open" /\ status = "ok"
    /\ pos = Origin /\ signedFrom = 0 /\ rebuilt = FALSE /\ lastWriteOk = "none"
    /\ made = 0 /\ faults = 0 /\ stops = 0
    /\ acked = {} /\ refused = {} /\ unacked = "no"

\* The process is gone and its memory with it.
Gone ==
    /\ pc' = "down" /\ op' = "none" /\ pending' = NoRecord
    /\ keyed' = FALSE /\ failMode' = "open" /\ status' = "ok"
    /\ pos' = Origin /\ signedFrom' = 0 /\ rebuilt' = FALSE /\ lastWriteOk' = "none"

Fault(kind) == kind \in FaultKinds /\ faults < MaxFaults /\ faults' = faults + 1

\* Mutant: the rebuild is left out of the saved state
SnapshotNoRebuilt == [pos |-> pos, signedFrom |-> signedFrom, rebuilt |-> FALSE]

\* The state _persist_chain_state writes
Snapshot == [pos |-> pos, signedFrom |-> signedFrom, rebuilt |-> rebuilt]

\* accepting_records
Accepting == status # "invalid" /\ lastWriteOk # "failed"

(***************************************************************************)
(* Opening the store: _restore_chain_state.                                *)
(***************************************************************************)
\* The part of every opening that only sets up the process
Start(k, f) ==
    /\ pc = "down"
    /\ keyed' = k /\ failMode' = f /\ lastWriteOk' = "none"
    /\ UNCHANGED <<durable, stops, acked, refused>>

\* The call returns with nothing left to write
Opened == pc' = "idle" /\ op' = "none" /\ pending' = NoRecord /\ UNCHANGED <<made, unacked>>

\* _alarm: the chain is invalid, no record is written
Alarm == status' = "invalid" /\ Opened

\* _was_keyed
WasKeyed == stateFile.signedFrom > 0 \/ sigFile # NoFile

\* A process without the key, on a store written with one, in closed mode
\* raises ForensicKeyError: nothing is opened and nothing changes.
KeyRefused(k, f) == ~k /\ WasKeyed /\ f = "closed"

\* Only the HMAC beside the state tells that there was a key, and it cannot
\* be read: _was_keyed answers no
KeyUnseen == stateFile.signedFrom = 0 /\ Fault("read")

\* No state and no record: a new chain
OpenNew(k, f) ==
    /\ Start(k, f)
    /\ stateFile = NoFile /\ disk = {}
    /\ pos' = Origin /\ signedFrom' = (IF k THEN 1 ELSE 0) /\ rebuilt' = FALSE
    /\ status' = "ok" /\ Opened /\ UNCHANGED faults

\* _check_tail: the head record of the saved state is where the state says,
\* and is signed when it has to be
HeadOk(k, from) ==
    LET at == stateFile.pos
    IN  at.count > 0 => \E r \in disk : At(r) = at /\ SignatureOk(r, k, from)

\* Mutants: only later hour directories are listed, and the head is listed too
TailLater    == {r \in disk : r.dir > stateFile.pos.dir /\ r.seq > stateFile.pos.count}
TailWithHead == {r \in disk : r.dir >= stateFile.pos.dir /\ r.seq >= stateFile.pos.count}

\* Records stored after the saved state, in its hour directory or later
StoredTail == {r \in disk : r.dir >= stateFile.pos.dir /\ r.seq > stateFile.pos.count}

\* _apply_state: the first record that must be signed
RestoredSignedFrom(k) ==
    IF ~k THEN 0
    ELSE IF stateFile.signedFrom > 0 THEN stateFile.signedFrom
    ELSE stateFile.pos.count + 1

\* The state is used as it is: with the key its HMAC verifies
OpenSaved(k, f) ==
    /\ Start(k, f)
    /\ stateFile # NoFile
    /\ IF KeyRefused(k, f) THEN KeyUnseen ELSE UNCHANGED faults
    /\ k => sigFile = stateFile
    /\ signedFrom' = RestoredSignedFrom(k) /\ rebuilt' = stateFile.rebuilt
    /\ LET at   == stateFile.pos
           from == RestoredSignedFrom(k)
           sound == HeadOk(k, from) /\ Verifies(StoredTail, at.count, at.head, k, from)
       IN  \/ ~sound /\ pos' = at /\ Alarm
           \/ /\ sound /\ StoredTail = {} /\ pos' = at
              /\ status' = IF stateFile.rebuilt THEN "rebuilt" ELSE "ok"
              /\ Opened
           \/ \* records written after the state was are counted, and the
              \* state is saved again
              /\ sound /\ \E last \in StoredTail : IsLast(last, StoredTail) /\ pos' = At(last)
              /\ status' = IF stateFile.rebuilt THEN "rebuilt" ELSE "ok"
              /\ pc' = "state" /\ op' = "tail" /\ pending' = NoRecord
              /\ UNCHANGED <<made, unacked>>

\* _rebuild: from records that all verify with the key, else the alarm; the
\* rebuild is itself recorded, in the hour it happens
Rebuild(k, hour) ==
    \/ /\ ~(k /\ disk # {} /\ Verifies(disk, 0, Genesis, TRUE, 1))
       /\ pos' = Origin /\ signedFrom' = (IF k THEN 1 ELSE 0) /\ rebuilt' = FALSE
       /\ Alarm
    \/ /\ k /\ Verifies(disk, 0, Genesis, TRUE, 1)
       /\ made < MaxRecords
       /\ \E last \in disk :
            /\ IsLast(last, disk)
            /\ pos' = At(last)
            /\ pending' = NextRecord(At(last), hour, TRUE)
       /\ signedFrom' = 1 /\ rebuilt' = TRUE
       /\ unacked' = IF unacked = "saved" THEN "saved" ELSE "rebuilt"
       /\ status' = "rebuilt"
       /\ made' = made + 1
       /\ pc' = "write" /\ op' = "rebuild"

\* No state though there are records, or a state whose HMAC does not verify
OpenRebuild(k, f, hour) ==
    /\ Start(k, f)
    /\ \/ stateFile = NoFile /\ disk # {}
       \/ stateFile # NoFile /\ k /\ sigFile # stateFile
    /\ Rebuild(k, hour)
    /\ UNCHANGED faults

\* The state, or with the key its HMAC, cannot be read (after the retries)
OpenUnread(k, f, hour) ==
    /\ Fault("read")
    /\ Start(k, f)
    /\ Rebuild(k, hour)

Open(k, f, hour) == OpenNew(k, f) \/ OpenSaved(k, f) \/ OpenRebuild(k, f, hour)
                    \/ OpenUnread(k, f, hour)

(***************************************************************************)
(* record(): the write lock is held from the call to the return.           *)
(***************************************************************************)
\* Mutant: the status is not looked at
RecordCallUnchecked(hour) ==
    /\ pc = "idle" /\ made < MaxRecords
    /\ made' = made + 1
    /\ pending' = NextRecord(pos, hour, keyed)
    /\ pc' = "write" /\ op' = "record"
    /\ UNCHANGED <<durable, keyed, failMode, status, pos, signedFrom, rebuilt,
                   lastWriteOk, faults, stops, history>>

RecordCall(hour) ==
    /\ pc = "idle" /\ status # "invalid"
    /\ made < MaxRecords
    /\ made' = made + 1
    /\ pending' = NextRecord(pos, hour, keyed)
    /\ pc' = "write" /\ op' = "record"
    /\ UNCHANGED <<durable, keyed, failMode, status, pos, signedFrom, rebuilt,
                   lastWriteOk, faults, stops, history>>

\* An invalid chain takes no record
RecordRefused ==
    /\ pc = "idle" /\ status = "invalid"
    /\ lastWriteOk' = "failed"
    /\ UNCHANGED <<durable, pc, op, pending, keyed, failMode, status, pos, signedFrom,
                   rebuilt, made, faults, stops, history>>

\* The record object is in place: the chain moves to it
RecordStored ==
    /\ pc = "write"
    /\ disk' = Put(disk, pending)
    /\ pos' = At(pending)
    /\ lastWriteOk' = "ok"
    /\ pc' = "state"
    /\ UNCHANGED <<stateFile, sigFile, op, pending, keyed, failMode, status,
                   signedFrom, rebuilt, made, faults, stops, history>>

\* Exceptions leave the constructor in closed mode: the process does not start
Abandoned == failMode = "closed" /\ op \in {"tail", "rebuild"}

\* Mutant: the chain moves on before the record is known to be written
IdleAdvanced ==
    /\ pc' = "idle" /\ op' = "none" /\ pending' = NoRecord
    /\ pos' = IF pc = "write" THEN At(pending) ELSE pos
    /\ UNCHANGED <<keyed, failMode, status, signedFrom, rebuilt>>

\* The call returns or raises; the process goes on unless it was starting
Idle ==
    /\ pc' = "idle" /\ op' = "none" /\ pending' = NoRecord
    /\ UNCHANGED <<keyed, failMode, status, pos, signedFrom, rebuilt>>

\* _not_written: the chain in memory stays where it was, wherever the
\* failure left the object
RecordNotWritten(kind) ==
    /\ pc = "write" /\ kind \in {"write", "late"} /\ Fault(kind)
    /\ disk' = IF kind = "late" THEN Put(disk, pending) ELSE disk
    /\ refused' = refused \cup {pending.hash}
    /\ IF Abandoned THEN Gone ELSE Idle /\ lastWriteOk' = "failed"
    /\ UNCHANGED <<stateFile, sigFile, made, stops, acked, unacked>>

\* record() returns with stored: True
Acknowledge ==
    acked' = IF op \in {"record", "rebuild"} THEN acked \cup {pending} ELSE acked

\* _chain_state.json holds the state in memory
SaveState == stateFile' = Snapshot /\ unacked' = IF rebuilt THEN "saved" ELSE unacked

\* Mutant: the HMAC is left for later
StateSavedUnsigned ==
    /\ pc = "state"
    /\ SaveState /\ Idle /\ Acknowledge
    /\ UNCHANGED <<disk, sigFile, lastWriteOk, made, faults, stops, refused>>

StateSaved ==
    /\ pc = "state"
    /\ SaveState
    /\ IF keyed
       THEN /\ pc' = "sig"
            /\ UNCHANGED <<op, pending, keyed, failMode, status, pos, signedFrom, rebuilt, acked>>
       ELSE Idle /\ Acknowledge
    /\ UNCHANGED <<disk, sigFile, lastWriteOk, made, faults, stops, refused>>

SignatureSaved ==
    /\ pc = "sig"
    /\ sigFile' = Snapshot
    /\ Idle /\ Acknowledge
    /\ UNCHANGED <<disk, stateFile, lastWriteOk, made, faults, stops, refused, unacked>>

\* The state or its HMAC is not written: logged in open mode, where record()
\* still returns stored: True; raised in closed mode
StateNotSaved(kind) ==
    /\ pc \in {"state", "sig"} /\ kind \in {"write", "late"} /\ Fault(kind)
    /\ IF pc = "state" /\ kind = "late" THEN SaveState ELSE UNCHANGED <<stateFile, unacked>>
    /\ sigFile' = IF pc = "sig" /\ kind = "late" THEN Snapshot ELSE sigFile
    /\ IF Abandoned THEN Gone ELSE Idle /\ lastWriteOk' = "failed"
    /\ IF failMode = "closed" THEN UNCHANGED acked ELSE Acknowledge
    /\ UNCHANGED <<disk, made, stops, refused>>

\* acknowledge_rebuild, once the whole chain verifies
AcknowledgeRebuild ==
    /\ pc = "idle" /\ status = "rebuilt"
    /\ StoreVerifies
    /\ rebuilt' = FALSE /\ status' = "ok" /\ unacked' = "no"
    /\ pc' = "state" /\ op' = "ack"
    /\ UNCHANGED <<durable, pending, keyed, failMode, pos, signedFrom, lastWriteOk,
                   made, faults, stops, acked, refused>>

\* The process stops between calls or dies in the middle of one; an object
\* put in place just before is the same as one written (see RecordStored)
Stop ==
    /\ pc # "down" /\ stops < MaxStops
    /\ stops' = stops + 1
    /\ Gone
    /\ UNCHANGED <<durable, made, faults, history>>

Next ==
    \/ \E k \in KeyModes, f \in FailModes, hour \in Hours : Open(k, f, hour)
    \/ \E hour \in Hours : RecordCall(hour)
    \/ RecordRefused
    \/ RecordStored
    \/ \E kind \in FaultKind : RecordNotWritten(kind)
    \/ StateSaved
    \/ SignatureSaved
    \/ \E kind \in FaultKind : StateNotSaved(kind)
    \/ AcknowledgeRebuild
    \/ Stop

Spec == Init /\ [][Next]_vars

-----------------------------------------------------------------------------
(***************************************************************************)
(* Properties.                                                             *)
(***************************************************************************)
TypeOK ==
    /\ disk \subseteq Record
    /\ stateFile \in SavedState /\ sigFile \in SavedState
    /\ pc \in {"down", "idle", "write", "state", "sig"}
    /\ op \in {"none", "record", "tail", "rebuild", "ack"}
    /\ pending \in Record \cup {NoRecord}
    /\ keyed \in BOOLEAN /\ failMode \in {"open", "closed"}
    /\ status \in {"ok", "rebuilt", "invalid"}
    /\ pos \in Position /\ signedFrom \in Nat /\ rebuilt \in BOOLEAN
    /\ lastWriteOk \in {"none", "ok", "failed"}
    /\ made \in Nat /\ faults \in Nat /\ stops \in Nat
    /\ acked \subseteq Record /\ refused \subseteq Nat /\ unacked \in {"no", "rebuilt", "saved"}

\* Once record() has returned with stored: True the record stays where it was
\* put, whatever is interrupted, restarted or rebuilt afterwards: no later
\* record takes its number and replaces its object, which a restart that
\* counts too few records would make happen.
AckedKept == acked \subseteq disk

\* A position is that of a stored record of d, or the start of the chain
Backed(at, d) == at = Origin \/ \E r \in d : At(r) = at

\* Every record of d has the record it links to
Linked(d) == \A r \in d : \/ r.seq = 1 /\ r.prev = Genesis
                         \/ \E q \in d : q.seq + 1 = r.seq /\ q.hash = r.prev

\* Every record in the store still has the record it links to, and the head
\* in memory is that of a stored record: what a verification walks is there,
\* back to GENESIS.
LinksKept == Linked(disk) /\ (pc # "down" => Backed(pos, disk))

\* While no write failed after its object was in place, an untouched store
\* verifies whenever it is open and not invalid, through every interruption,
\* restart and change of key (verify, forensic.py).
OpenStoreVerifies == pc = "idle" /\ status # "invalid" => StoreVerifies

\* A store the process reports as accepting records after a write is one a
\* restart takes up as it is: state and HMAC are those of the chain in memory.
AcceptingIsSaved ==
    pc = "idle" /\ Accepting /\ lastWriteOk = "ok"
        => stateFile = Snapshot /\ (keyed => sigFile = stateFile)

\* While reads and finished writes are reliable, an interruption makes a chain
\* invalid in two cases only: there is no key and the first state was never
\* saved, or there is one and a stored record is not signed with it.
InvalidNeedsCause ==
    status = "invalid" => IF keyed THEN \E r \in disk : ~r.sig ELSE stateFile = NoFile

\* A rebuild that a saved state names stays visible until it is acknowledged:
\* whatever process has the store open, with or without the key and whatever
\* was interrupted since, its chain_status is not "ok".
RebuildRemembered == pc # "down" /\ unacked = "saved" => status # "ok"

\* The same for every rebuild (README: reported "after every restart until an
\* operator" acknowledges it).
RebuildVisibleUntilAcknowledged == pc # "down" /\ unacked # "no" => status # "ok"

\* A record reported as not written is never part of the chain: no process
\* counts it (module docstring and README: "never counted").
NotWrittenNeverCounted == pos.head \notin refused

\* In closed mode record() returns only when a restart needs no recovery:
\* the record, the state that counts it and the state's HMAC are stored.
ClosedModeAcksSaved ==
    [][acked' # acked /\ failMode = "closed"
         => stateFile' = Snapshot /\ (keyed => sigFile' = stateFile')]_vars

\* A chain found invalid is left as it was until the process stops: not one
\* object of the store changes, so the evidence stays.
InvalidWritesNothing == [][status = "invalid" => UNCHANGED durable]_vars

(***************************************************************************)
(* Why acknowledged records are kept: the inductive invariant.             *)
(***************************************************************************)
\* The process has the store open and found nothing wrong with it
Serving == pc # "down" /\ status # "invalid"

\* Records beyond a position are in its hour directory or a later one: a
\* restart that lists from there misses none
NoneBelow(at, d) == \A r \in d : r.seq > at.count => r.dir >= at.dir

\* Both positions a restart can start from are good ones
SavedPosition == Backed(stateFile.pos, disk) /\ NoneBelow(stateFile.pos, disk)

\* Beyond the head there are only records whose write was reported as failed,
\* all with the next number; nothing acknowledged is beyond the head, and the
\* saved state is not ahead of it
HeadPosition ==
    Serving => /\ NoneBelow(pos, disk)
               /\ \A r \in disk : r.seq <= pos.count + 1
               /\ \A r \in acked : r.seq <= pos.count
               /\ stateFile.pos.count <= pos.count
               /\ stateFile.pos.dir <= pos.dir

\* The record being written continues the head; once it is in place it is the
\* head, and new to the callers
InFlight ==
    /\ pc = "write" =>
          /\ status # "invalid"
          /\ pending \in Record
          /\ pending.seq = pos.count + 1 /\ pending.prev = pos.head
          /\ pending.dir >= pos.dir
    /\ pc \in {"state", "sig"} =>
          /\ status # "invalid"
          /\ op \in {"record", "rebuild"} =>
                /\ pending \in disk /\ At(pending) = pos
                /\ \A r \in acked : r.seq < pending.seq
    /\ pc = "sig" => stateFile = Snapshot

\* The inductive strengthening of AckedKept and LinksKept
IInv == TypeOK /\ AckedKept /\ LinksKept /\ SavedPosition /\ HeadPosition /\ InFlight

\* Why a saved rebuild stays visible: the saved state names it, and so does the
\* memory of every process that goes on from that state
RebuildInState ==
    /\ unacked = "saved" => stateFile.rebuilt
    /\ Serving => (rebuilt <=> status = "rebuilt")

\* Why an open store verifies while no write fails after its object is in
\* place: one record a number, in the order of their directories, none beyond
\* the head, and signed from where memory and the saved state say
Chained ==
    /\ \A q, r \in disk : (q.seq = r.seq => q = r) /\ (q.seq < r.seq => q.dir <= r.dir)
    /\ Serving => \A r \in disk : r.seq <= pos.count
    /\ Serving /\ signedFrom > 0 => keyed /\ \A r \in disk : r.seq >= signedFrom => r.sig
    /\ pc = "write" => pending.sig = keyed
    /\ stateFile.signedFrom > 0
          => \A r \in disk : stateFile.signedFrom <= r.seq /\ r.seq <= stateFile.pos.count => r.sig
    /\ stateFile # NoFile \/ pc \in {"state", "sig"} \/ status = "rebuilt" => disk # {}

(***************************************************************************)
(* What the store promises, whatever happens inside it: an append-only log *)
(* of the records it acknowledged, served by one process at a time.        *)
(***************************************************************************)
Mode == IF pc = "down" THEN "down" ELSE IF status = "invalid" THEN "halted" ELSE "serving"

Audit == INSTANCE AuditLog WITH log <- acked, mode <- Mode

\* Every step of the store, an interruption or a restart included, is one of
\* the log's or leaves it alone.
ImplementsAuditLog == Audit!Spec

=============================================================================
