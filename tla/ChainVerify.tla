---------------------------- MODULE ChainVerify ----------------------------
(***************************************************************************)
(* verify_entries of domains/compliance/forensic_integrity.py, one record  *)
(* per step, with the two callers that add to its verdict: verify() of a   *)
(* chain found invalid at startup, and verify_stored_chain() of a store    *)
(* whose state is missing or does not verify.                              *)
(*                                                                         *)
(* What is stored may be anything: records removed, repeated, altered,     *)
(* unsigned, out of order.  What the loop computes is compared with Sound, *)
(* the statement of what a verified chain is.                              *)
(***************************************************************************)
EXTENDS Integers, Sequences

CONSTANTS
    Numbers,   \* sequence numbers
    Hashes     \* record hashes

\* No hash, and the hash the first record links to
None    == 0
GenesisLink == 1

ASSUME NumbersAssumption == Numbers \subseteq Nat \ {0}
ASSUME HashesAssumption  == Hashes \subseteq Nat \ {None, GenesisLink}

(***************************************************************************)
(* A stored record: the number of its file, what reading it gives, and its *)
(* fields.                                                                 *)
(***************************************************************************)
Entry == [seq  : Numbers,            \* of the file name
          load : {"gone",            \* removed since it was listed
                  "garbled",         \* not a JSON object
                  "altered",         \* record_hash is not that of the content
                  "intact"},
          num  : Numbers,            \* sequence_number
          prev : Hashes \cup {GenesisLink},
          hash : Hashes,
          sig  : {"none", "malformed", "forged", "good"}]

NoCheckpoint == [seq |-> 0, hash |-> None]
NoState      == [count |-> 0, head |-> None]

Checkpoint == [seq : Numbers, hash : Hashes] \cup {NoCheckpoint}
ChainState == [count : Numbers, head : Hashes] \cup {NoState}

\* The arguments, and the problem a caller found with the state beforehand
Call == [fromSeq : Numbers, checkpoint : Checkpoint, state : ChainState,
         key : BOOLEAN, signedFrom : Numbers \cup {0},
         problem : {"none", "state_missing", "state_invalid"}]

VARIABLES
    entries,   \* the records listed, in the order listed
    call,      \* the arguments
    stage,     \* "begin", "walk" or "done"
    next,      \* index in entries of the next record to read
    expected,  \* expected
    previous,  \* previous
    atCount,   \* at_count
    report     \* the ChainReport

verifyVars == <<entries, call, stage, next, expected, previous, atCount, report>>

\* Reason codes
Reasons == {"none", "missing_record", "sequence_gap", "hash_mismatch", "link_broken", "unsigned",
            "signature_invalid", "checkpoint_mismatch", "state_mismatch", "state_missing",
            "state_invalid"}

EmptyReport == [valid |-> TRUE, reason |-> "none", seq |-> 0, records |-> 0,
                signed |-> 0, unsigned |-> 0, checkpoint |-> NoCheckpoint]

(***************************************************************************)
(* _signature_error                                                        *)
(***************************************************************************)
SignatureError(e, c) ==
    IF e.sig = "none"
    THEN IF c.key /\ c.signedFrom > 0 /\ e.seq >= c.signedFrom THEN "unsigned" ELSE "none"
    ELSE IF e.sig = "malformed" \/ (c.key /\ e.sig = "forged") THEN "signature_invalid" ELSE "none"

HasCheckpoint(c) == c.checkpoint # NoCheckpoint

\* lower: the first number of the range, the checkpoint's own included
Lower(c) == IF HasCheckpoint(c) THEN c.checkpoint.seq ELSE c.fromSeq

\* What the listing gives: record numbers from the range on, each read later
Listed(es, c) == \A j \in 1..Len(es) : es[j].seq >= Lower(c)

(***************************************************************************)
(* The verification.                                                       *)
(***************************************************************************)
VerifyInit ==
    /\ entries \in Seq(Entry) /\ call \in Call /\ Listed(entries, call)
    /\ stage = "begin" /\ next = 1 /\ expected = 0 /\ previous = None /\ atCount = None
    /\ report = EmptyReport

Fail(reason, seq) ==
    /\ report' = [report EXCEPT !.valid = FALSE, !.reason = reason, !.seq = seq,
                                !.checkpoint = NoCheckpoint]
    /\ stage' = "done"
    /\ UNCHANGED <<entries, call, next, expected, previous, atCount>>

\* From a number on; record 1 links to GENESIS, a later one to nothing known
BeginAtNumber ==
    /\ stage = "begin" /\ ~HasCheckpoint(call)
    /\ expected' = call.fromSeq
    /\ previous' = IF call.fromSeq = 1 THEN GenesisLink ELSE None
    /\ stage' = "walk"
    /\ UNCHANGED <<entries, call, next, atCount, report>>

\* What is wrong with the checkpoint's own record; its content is not hashed
CheckpointError ==
    IF entries = <<>> \/ Head(entries).seq # call.checkpoint.seq \/ Head(entries).load = "gone"
    THEN "missing_record"
    ELSE IF Head(entries).load = "garbled" \/ Head(entries).hash # call.checkpoint.hash
    THEN "checkpoint_mismatch"
    ELSE "none"

\* Mutant: the record after the checkpoint is not linked to it
BeginAtCheckpointUnlinked ==
    /\ stage = "begin" /\ HasCheckpoint(call) /\ CheckpointError = "none"
    /\ next' = 2 /\ expected' = call.checkpoint.seq + 1 /\ previous' = None
    /\ atCount' = IF call.checkpoint.seq = call.state.count THEN call.checkpoint.hash ELSE None
    /\ report' = [report EXCEPT !.checkpoint = call.checkpoint]
    /\ stage' = "walk" /\ UNCHANGED <<entries, call>>

\* From the record after a checkpoint on, linked to the checkpoint's hash
BeginAtCheckpoint ==
    /\ stage = "begin" /\ HasCheckpoint(call) /\ CheckpointError = "none"
    /\ next' = 2
    /\ expected' = call.checkpoint.seq + 1
    /\ previous' = call.checkpoint.hash
    /\ atCount' = IF call.checkpoint.seq = call.state.count THEN call.checkpoint.hash ELSE None
    /\ report' = [report EXCEPT !.checkpoint = call.checkpoint]
    /\ stage' = "walk"
    /\ UNCHANGED <<entries, call>>

CheckpointFails ==
    /\ stage = "begin" /\ HasCheckpoint(call) /\ CheckpointError # "none"
    /\ Fail(CheckpointError, call.checkpoint.seq)

\* Mutant: the first record of a range is linked like any other
RecordErrorAlwaysLinked(e) ==
    IF e.seq > expected THEN "missing_record"
    ELSE IF e.seq < expected THEN "sequence_gap"
    ELSE IF e.load = "gone" THEN "missing_record"
    ELSE IF e.load # "intact" THEN "hash_mismatch"
    ELSE IF e.num # e.seq THEN "sequence_gap"
    ELSE IF e.prev # previous THEN "link_broken"
    ELSE SignatureError(e, call)

\* The first thing wrong with the next record, in the order of the checks
RecordError(e) ==
    IF e.seq > expected THEN "missing_record"
    ELSE IF e.seq < expected THEN "sequence_gap"
    ELSE IF e.load = "gone" THEN "missing_record"
    ELSE IF e.load # "intact" THEN "hash_mismatch"
    ELSE IF e.num # e.seq THEN "sequence_gap"
    ELSE IF previous # None /\ e.prev # previous THEN "link_broken"
    ELSE SignatureError(e, call)

RecordFails ==
    /\ stage = "walk" /\ next <= Len(entries)
    /\ LET e == entries[next]
       IN  /\ RecordError(e) # "none"
           /\ Fail(RecordError(e), IF e.seq > expected THEN expected ELSE e.seq)

\* Mutant: the checkpoint stays where the verification began
CountedNoCheckpoint(e) ==
    [report EXCEPT !.records = @ + 1,
                   !.signed = IF e.sig = "none" THEN @ ELSE @ + 1,
                   !.unsigned = IF e.sig = "none" THEN @ + 1 ELSE @]

\* The report with one more record checked
Counted(e) ==
    [valid |-> report.valid, reason |-> report.reason, seq |-> report.seq,
     records |-> report.records + 1,
     signed |-> IF e.sig = "none" THEN report.signed ELSE report.signed + 1,
     unsigned |-> IF e.sig = "none" THEN report.unsigned + 1 ELSE report.unsigned,
     checkpoint |-> [seq |-> e.seq, hash |-> e.hash]]

RecordChecked ==
    /\ stage = "walk" /\ next <= Len(entries)
    /\ LET e == entries[next]
       IN  /\ RecordError(e) = "none"
           /\ previous' = e.hash
           /\ atCount' = IF e.seq = call.state.count THEN e.hash ELSE atCount
           /\ report' = Counted(e)
    /\ next' = next + 1
    /\ expected' = expected + 1
    /\ UNCHANGED <<entries, call, stage>>

\* Mutant: the head of the chain state is not compared
EndErrorNoHead ==
    IF call.state.count >= Lower(call) /\ expected <= call.state.count THEN "missing_record"
    ELSE call.problem

\* What is wrong once every record is read: the chain state, when its record
\* is in the range, and then what the caller knew before
EndError ==
    IF call.state.count >= Lower(call) /\ expected <= call.state.count THEN "missing_record"
    ELSE IF call.state.count >= Lower(call) /\ atCount # call.state.head THEN "state_mismatch"
    ELSE call.problem

EndFails ==
    /\ stage = "walk" /\ next > Len(entries) /\ EndError # "none"
    /\ Fail(EndError, CASE EndError = "missing_record" -> expected
                        [] EndError = "state_mismatch" -> call.state.count
                        [] OTHER -> 0)

EndValid ==
    /\ stage = "walk" /\ next > Len(entries) /\ EndError = "none"
    /\ stage' = "done"
    /\ UNCHANGED <<entries, call, next, expected, previous, atCount, report>>

VerifyNext == \/ BeginAtNumber \/ BeginAtCheckpoint \/ CheckpointFails
        \/ RecordFails \/ RecordChecked \/ EndFails \/ EndValid

VerifySpec == VerifyInit /\ [][VerifyNext]_verifyVars

-----------------------------------------------------------------------------
(***************************************************************************)
(* What a verified chain is, without the loop.                             *)
(***************************************************************************)
\* Index of the first record checked
Base(c)  == IF HasCheckpoint(c) THEN 2 ELSE 1

\* The hash record j must link to; None when nothing says
Before(es, c, j) ==
    IF j > Base(c) THEN es[j - 1].hash
    ELSE IF HasCheckpoint(c) THEN c.checkpoint.hash
    ELSE IF c.fromSeq = 1 THEN GenesisLink ELSE None

Fine(es, c, j) ==
    LET e == es[j]
    IN  /\ e.load = "intact"
        /\ e.seq = Lower(c) + j - 1 /\ e.num = e.seq
        /\ Before(es, c, j) \in {None, e.prev}
        /\ SignatureError(e, c) = "none"

CheckpointFine(es, c) ==
    HasCheckpoint(c) => /\ Len(es) > 0
                        /\ es[1].load \in {"altered", "intact"}
                        /\ es[1].seq = c.checkpoint.seq /\ es[1].hash = c.checkpoint.hash

StateFine(es, c) ==
    c.state.count >= Lower(c) =>
        \E j \in 1..Len(es) : es[j].seq = c.state.count /\ es[j].hash = c.state.head

Sound(es, c) ==
    /\ CheckpointFine(es, c)
    /\ \A j \in Base(c)..Len(es) : Fine(es, c, j)
    /\ StateFine(es, c)
    /\ c.problem = "none"

(***************************************************************************)
(* Properties.                                                             *)
(***************************************************************************)
VerifyTypeOK ==
    /\ entries \in Seq(Entry) /\ call \in Call /\ Listed(entries, call)
    /\ stage \in {"begin", "walk", "done"}
    /\ next \in 1..(Len(entries) + 1) /\ expected \in Nat
    /\ previous \in Hashes \cup {None, GenesisLink} /\ atCount \in Hashes \cup {None}
    /\ report \in [valid : BOOLEAN, reason : Reasons, seq : Nat, records : Nat,
                  signed : Nat, unsigned : Nat, checkpoint : Checkpoint]

\* A verification is valid exactly when the records listed are a chain: all
\* there, in order, unaltered, linked, signed as they must be, and reaching
\* the head of the chain state (ChainReport.valid of verify_entries).
VerdictIsSound == stage = "done" => (report.valid <=> Sound(entries, call))

\* A failure is the first one, and the number reported is not beyond it: every
\* record read before it is fine, so an operator may trust the chain up to
\* there; when it is a record's, that record is at fault.
FirstFailure ==
    stage = "done" /\ ~report.valid =>
        /\ \A j \in Base(call)..(next - 1) : Fine(entries, call, j)
        /\ next \in Base(call)..Len(entries) => ~Fine(entries, call, next)
        /\ report.seq < Lower(call) + next

\* A valid verification can be resumed: its checkpoint is the last record
\* checked (or the one given when there is none after it), and every record
\* of the range is counted once, signed or unsigned.
ReportCovers ==
    stage = "done" /\ report.valid =>
        /\ report.records = Len(entries) - (Base(call) - 1)
        /\ report.signed + report.unsigned = report.records
        /\ report.checkpoint =
              IF Len(entries) > 0
              THEN [seq |-> entries[Len(entries)].seq, hash |-> entries[Len(entries)].hash]
              ELSE NoCheckpoint

\* Resuming at a checkpoint says what verifying from its record on would:
\* nothing is lost at the seam (the checkpoint of an earlier verification,
\* passed back as --checkpoint SEQ:HASH).
ResumeAgrees ==
    LET from == [call EXCEPT !.checkpoint = NoCheckpoint, !.fromSeq = call.checkpoint.seq]
    IN  stage = "done" /\ HasCheckpoint(call) /\ Len(entries) > 0
          /\ Sound(<<entries[1]>>, [from EXCEPT !.state = NoState, !.problem = "none"])
          /\ entries[1].hash = call.checkpoint.hash
          => (report.valid <=> Sound(entries, from))

(***************************************************************************)
(* The loop invariant: why the verdict is right.                           *)
(***************************************************************************)
\* The hash found at the chain state's count, once it is read
AtCount ==
    LET j == call.state.count - Lower(call) + 1
    IN  IF j \in 1..(next - 1) THEN entries[j].hash ELSE None

\* The accumulators say what the records read so far say
Walked ==
    /\ CheckpointFine(entries, call) /\ next >= Base(call)
    /\ \A j \in Base(call)..(next - 1) : Fine(entries, call, j)
    /\ expected = Lower(call) + next - 1
    /\ previous = Before(entries, call, next)
    /\ atCount = AtCount
    /\ report.valid /\ report.records = next - Base(call)
    /\ report.signed + report.unsigned = report.records
    /\ report.checkpoint =
          IF next > 1 THEN [seq |-> entries[next - 1].seq, hash |-> entries[next - 1].hash]
          ELSE NoCheckpoint

LoopInv ==
    /\ VerifyTypeOK
    /\ stage = "begin" => report = EmptyReport /\ next = 1 /\ atCount = None
    /\ stage = "walk" => Walked
    /\ VerdictIsSound /\ FirstFailure /\ ReportCovers
=============================================================================
