--------------------------- MODULE ForensicProofs ---------------------------
(***************************************************************************)
(* Proofs about the forensic store.  About ForensicChain, for every set of *)
(* hours, key and fail modes, every mix of I/O faults and every value of   *)
(* the bounds; and about ChainVerify, that the verdict of the loop is      *)
(* Sound, for every sequence of stored records and every call.             *)
(***************************************************************************)
EXTENDS ForensicChain, ChainVerify, TLAPS

(***************************************************************************)
(* What storing a record does to the store.                                *)
(***************************************************************************)
LEMMA PutKeeps ==
    ASSUME NEW d, NEW r, NEW s \in d, s.seq # r.seq
    PROVE  s \in Put(d, r)
BY DEF Put

LEMMA PutAdds == ASSUME NEW d, NEW r PROVE r \in Put(d, r) /\ \A s \in Put(d, r) : s \in d \/ s = r
BY DEF Put

LEMMA DirType == \A h \in Hours : h \in Nat /\ h > 0
BY HoursAssumption

LEMMA RecordType ==
    ASSUME NEW r \in Record
    PROVE  /\ r.dir \in Nat /\ r.seq \in Nat /\ r.seq > 0
           /\ At(r) \in Position
           /\ At(r).count = r.seq /\ At(r).head = r.hash /\ At(r).dir = r.dir
<1>1. r.dir \in Hours /\ r.seq \in Nat \ {0} /\ r.hash \in Nat \ {0}
  BY DEF Record
<1>2. r.dir \in Nat /\ r.seq > 0
  BY <1>1, DirType
<1> QED
  BY <1>1, <1>2 DEF Position, At

LEMMA PositionType ==
    ASSUME NEW at \in Position PROVE at.count \in Nat /\ at.head \in Nat /\ at.dir \in Nat
<1>1. at.count \in Nat /\ at.head \in Nat /\ at.dir \in Hours \cup {0}
  BY DEF Position
<1> QED
  BY <1>1, DirType

LEMMA NextRecordType ==
    ASSUME NEW at \in Position, NEW hour \in Hours, NEW k \in BOOLEAN, made \in Nat
    PROVE  /\ NextRecord(at, hour, k) \in Record
           /\ NextRecord(at, hour, k).seq = at.count + 1
           /\ NextRecord(at, hour, k).prev = at.head
           /\ NextRecord(at, hour, k).dir >= at.dir
<1>1. hour \in Nat /\ hour \in Hours /\ at.dir \in Nat /\ at.dir \in Hours \cup {0}
  BY DirType, PositionType DEF Position
<1>2. RecordDir(hour, at.dir) \in Hours /\ RecordDir(hour, at.dir) >= at.dir
  BY <1>1, DirType DEF RecordDir
<1>3. at.count \in Nat /\ at.head \in Nat
  BY PositionType
<1> QED
  BY <1>2, <1>3 DEF NextRecord, Record

\* The record in flight can be put in place: it replaces nothing that is
\* acknowledged, linked to, or a head.
LEMMA PutPending ==
    ASSUME IInv, pc = "write", NEW d, d = Put(disk, pending)
    PROVE  /\ d \subseteq Record /\ pending \in d /\ pending \in Record
           /\ acked \subseteq d /\ Linked(d)
           /\ Backed(pos, d) /\ NoneBelow(pos, d)
           /\ Backed(stateFile.pos, d) /\ NoneBelow(stateFile.pos, d)
           /\ \A r \in d : r.seq <= pending.seq
           /\ NoneBelow(At(pending), d)
           /\ \A r \in acked : r.seq < pending.seq
           /\ stateFile.pos.count < pending.seq /\ stateFile.pos.dir <= pending.dir
<1>1. /\ disk \subseteq Record /\ acked \subseteq disk
      /\ pos \in Position /\ stateFile.pos \in Position
  BY DEF IInv, TypeOK, AckedKept, SavedState
<1>2. /\ pending \in Record /\ pending.seq = pos.count + 1
      /\ pending.prev = pos.head /\ pending.dir >= pos.dir
  BY DEF IInv, InFlight
<1>3. /\ NoneBelow(pos, disk) /\ \A r \in disk : r.seq <= pos.count + 1
      /\ \A r \in acked : r.seq <= pos.count
      /\ stateFile.pos.count <= pos.count /\ stateFile.pos.dir <= pos.dir
  BY DEF IInv, InFlight, HeadPosition, Serving
<1>4. /\ Linked(disk) /\ Backed(pos, disk)
      /\ Backed(stateFile.pos, disk) /\ NoneBelow(stateFile.pos, disk)
  BY DEF IInv, LinksKept, SavedPosition
<1>5. /\ pos.count \in Nat /\ pos.dir \in Nat
      /\ stateFile.pos.count \in Nat /\ stateFile.pos.dir \in Nat
      /\ pending.dir \in Nat /\ \A r \in disk : r.seq \in Nat /\ r.dir \in Nat
  BY <1>1, <1>2, PositionType, RecordType
<1>6. pending \in d /\ (\A s \in d : s \in disk \/ s = pending)
      /\ \A s \in disk : s.seq # pending.seq => s \in d
  BY PutAdds, PutKeeps
<1>7. d \subseteq Record
  BY <1>1, <1>2, <1>6
<1>8. acked \subseteq d /\ \A r \in acked : r.seq < pending.seq
  BY <1>1, <1>2, <1>3, <1>5, <1>6
<1>9. \A at \in Position : Backed(at, disk) /\ at.count <= pos.count => Backed(at, d)
  <2> SUFFICES ASSUME NEW at \in Position, at # Origin, at.count <= pos.count,
                      NEW q \in disk, At(q) = at
               PROVE  q \in d
    BY DEF Backed
  <2>1. q.seq = at.count
    BY DEF At
  <2> QED
    BY <2>1, <1>2, <1>5, <1>6
<1>10. Backed(pos, d) /\ Backed(stateFile.pos, d)
  BY <1>1, <1>3, <1>4, <1>5, <1>9
<1>11. NoneBelow(pos, d) /\ NoneBelow(stateFile.pos, d)
  BY <1>2, <1>3, <1>4, <1>5, <1>6 DEF NoneBelow
<1>12. \A r \in d : r.seq <= pending.seq
  BY <1>2, <1>3, <1>5, <1>6
<1>13. NoneBelow(At(pending), d)
  BY <1>2, <1>7, <1>12, RecordType DEF NoneBelow
<1>14. Linked(d)
  <2> SUFFICES ASSUME NEW r \in d
               PROVE  \/ r.seq = 1 /\ r.prev = Genesis
                      \/ \E q \in d : q.seq + 1 = r.seq /\ q.hash = r.prev
    BY DEF Linked
  <2>1. CASE r = pending
    <3>1. CASE pos = Origin
      BY <2>1, <3>1, <1>2 DEF Origin
    <3>2. CASE pos # Origin
      <4>1. PICK q \in disk : At(q) = pos
        BY <1>4, <3>2 DEF Backed
      <4>2. q.seq = pos.count /\ q.hash = pos.head
        BY <4>1 DEF At
      <4> QED
        BY <4>2, <2>1, <1>2, <1>5, <1>6
    <3> QED
      BY <3>1, <3>2
  <2>2. CASE r \in disk
    <3>1. CASE r.seq = 1 /\ r.prev = Genesis
      BY <3>1
    <3>2. CASE \E q \in disk : q.seq + 1 = r.seq /\ q.hash = r.prev
      <4>1. PICK q \in disk : q.seq + 1 = r.seq /\ q.hash = r.prev
        BY <3>2
      <4>2. q.seq # pending.seq
        BY <4>1, <2>2, <1>2, <1>3, <1>5
      <4> QED
        BY <4>1, <4>2, <1>6
    <3> QED
      BY <2>2, <3>1, <3>2, <1>4 DEF Linked
  <2> QED
    BY <2>1, <2>2, <1>6
<1> QED
  BY <1>2, <1>3, <1>5, <1>6, <1>7, <1>8, <1>10, <1>11, <1>12, <1>13, <1>14

(***************************************************************************)
(* Initially.                                                              *)
(***************************************************************************)
LEMMA InitInv == Init => IInv
<1> SUFFICES ASSUME Init PROVE IInv
  OBVIOUS
<1>1. TypeOK
  BY DEF Init, TypeOK, SavedState, NoFile, Position, Origin, Genesis, NoRecord
<1>2. AckedKept /\ LinksKept
  BY DEF Init, AckedKept, LinksKept, Linked
<1>3. SavedPosition /\ HeadPosition /\ InFlight
  BY DEF Init, SavedPosition, HeadPosition, InFlight, Serving, Backed, NoneBelow, NoFile
<1> QED
  BY <1>1, <1>2, <1>3 DEF IInv


(***************************************************************************)
(* Opening the store.                                                      *)
(***************************************************************************)
\* What every opening needs of the invariant
LEMMA Durable ==
    ASSUME IInv
    PROVE  /\ disk \subseteq Record /\ acked \subseteq disk /\ Linked(disk)
           /\ stateFile \in SavedState /\ sigFile \in SavedState
           /\ stateFile.pos \in Position
           /\ Backed(stateFile.pos, disk) /\ NoneBelow(stateFile.pos, disk)
           /\ made \in Nat /\ faults \in Nat /\ stops \in Nat /\ refused \subseteq Nat
           /\ unacked \in {"no", "rebuilt", "saved"}
BY DEF IInv, TypeOK, AckedKept, LinksKept, SavedPosition, SavedState

\* Start leaves the store and the callers' view as they are
LEMMA StartKeeps ==
    ASSUME IInv, NEW k \in KeyModes, NEW f \in FailModes, Start(k, f), faults' \in Nat
    PROVE  /\ disk' = disk /\ stateFile' = stateFile /\ sigFile' = sigFile
           /\ acked' = acked
           /\ stops' \in Nat /\ refused' \subseteq Nat /\ faults' \in Nat
           /\ keyed' \in BOOLEAN /\ failMode' \in {"open", "closed"}
           /\ lastWriteOk' = "none"
BY Durable, ModesAssumption DEF Start, durable

\* Opened with nothing left to write: what is left to show is where the head is
LEMMA OpenedInv ==
    ASSUME IInv, NEW k \in KeyModes, NEW f \in FailModes, Start(k, f), faults' \in Nat,
           Opened, signedFrom' \in Nat, rebuilt' \in BOOLEAN,
           status' \in {"ok", "rebuilt", "invalid"},
           pos' \in Position, Backed(pos', disk),
           status' # "invalid" => pos' = stateFile.pos /\ \A r \in disk : r.seq <= pos'.count
    PROVE  IInv'
<1>1. TypeOK'
  BY Durable, StartKeeps DEF Opened, TypeOK
<1>2. AckedKept' /\ LinksKept' /\ SavedPosition'
  BY Durable, StartKeeps DEF AckedKept, LinksKept, SavedPosition
<1>3. HeadPosition'
  <2> SUFFICES ASSUME status' # "invalid"
               PROVE  /\ NoneBelow(pos', disk)
                      /\ \A r \in disk : r.seq <= pos'.count + 1
                      /\ \A r \in acked : r.seq <= pos'.count
                      /\ stateFile.pos.count <= pos'.count
                      /\ stateFile.pos.dir <= pos'.dir
    BY StartKeeps DEF HeadPosition, Serving
  <2> QED
    BY Durable, PositionType, RecordType
<1>4. InFlight'
  BY DEF InFlight, Opened
<1> QED
  BY <1>1, <1>2, <1>3, <1>4 DEF IInv

LEMMA OriginType == ASSUME NEW d PROVE Origin \in Position /\ Backed(Origin, d)
BY DEF Origin, Position, Genesis, Backed

LEMMA OpenNewInv ==
    ASSUME IInv, NEW k \in KeyModes, NEW f \in FailModes, OpenNew(k, f)
    PROVE  IInv'
<1>1. /\ Start(k, f) /\ Opened /\ faults' \in Nat
      /\ signedFrom' \in Nat /\ rebuilt' \in BOOLEAN /\ status' = "ok"
      /\ disk = {} /\ pos' = Origin /\ stateFile.pos = Origin
  BY Durable DEF OpenNew, NoFile
<1> QED
  BY <1>1, OriginType, OpenedInv

LEMMA OpenSavedInv ==
    ASSUME IInv, NEW k \in KeyModes, NEW f \in FailModes, OpenSaved(k, f)
    PROVE  IInv'
<1> DEFINE at == stateFile.pos
           sound == /\ HeadOk(k, RestoredSignedFrom(k))
                    /\ Verifies(StoredTail, at.count, at.head, k, RestoredSignedFrom(k))
<1>1. /\ Start(k, f) /\ faults' \in Nat
      /\ signedFrom' = RestoredSignedFrom(k) /\ rebuilt' = stateFile.rebuilt
  BY Durable DEF OpenSaved, KeyUnseen, Fault
<1>2. /\ at \in Position /\ at.count \in Nat /\ at.dir \in Nat
      /\ stateFile.signedFrom \in Nat /\ stateFile.rebuilt \in BOOLEAN
  BY Durable, PositionType DEF SavedState
<1>3. signedFrom' \in Nat /\ rebuilt' \in BOOLEAN
  BY <1>1, <1>2 DEF RestoredSignedFrom
<1>4. \A r \in disk : r.seq > at.count => r \in StoredTail
  BY Durable DEF NoneBelow, StoredTail
<1>5. \A r \in disk : r \in Record /\ r.seq \in Nat /\ r.dir \in Nat
  BY Durable, RecordType
<1>6. CASE pos' = at /\ Alarm
  BY <1>1, <1>2, <1>3, <1>6, Durable, OpenedInv DEF Alarm
<1>7. CASE /\ StoredTail = {} /\ pos' = at /\ Opened
           /\ status' = IF stateFile.rebuilt THEN "rebuilt" ELSE "ok"
  <2>1. \A r \in disk : r.seq <= at.count
    BY <1>2, <1>4, <1>5, <1>7
  <2>2. status' \in {"ok", "rebuilt"}
    BY <1>7
  <2> QED
    BY <1>1, <1>2, <1>3, <1>7, <2>1, <2>2, Durable, OpenedInv
<1>8. CASE /\ \E last \in StoredTail : IsLast(last, StoredTail) /\ pos' = At(last)
           /\ status' = IF stateFile.rebuilt THEN "rebuilt" ELSE "ok"
           /\ pc' = "state" /\ op' = "tail" /\ pending' = NoRecord
           /\ UNCHANGED <<made, unacked>>
  <2>1. PICK last \in StoredTail : IsLast(last, StoredTail) /\ pos' = At(last)
    BY <1>8
  <2>2. last \in disk /\ last.dir >= at.dir /\ last.seq > at.count
    BY DEF StoredTail
  <2>3. /\ last \in Record /\ last.seq \in Nat /\ last.dir \in Nat
        /\ pos' \in Position /\ pos'.count = last.seq /\ pos'.dir = last.dir
    BY <2>1, <2>2, <1>5, RecordType
  <2>4. \A r \in disk : r.seq <= pos'.count
    BY <2>1, <2>2, <2>3, <1>2, <1>4, <1>5 DEF IsLast
  <2>5. Backed(pos', disk)
    BY <2>1, <2>2 DEF Backed
  <2>6. NoneBelow(pos', disk)
    BY <2>3, <2>4, <1>5 DEF NoneBelow
  <2>7. TypeOK'
    BY <1>1, <1>3, <1>8, <2>3, Durable, StartKeeps DEF TypeOK
  <2>8. AckedKept' /\ LinksKept' /\ SavedPosition'
    BY <1>1, <2>5, Durable, StartKeeps DEF AckedKept, LinksKept, SavedPosition
  <2>9. HeadPosition'
    BY <1>1, <1>2, <1>5, <2>2, <2>3, <2>4, <2>6, Durable, StartKeeps DEF HeadPosition
  <2>10. InFlight'
    BY <1>8 DEF InFlight
  <2> QED
    BY <2>7, <2>8, <2>9, <2>10 DEF IInv
<1> QED
  BY <1>6, <1>7, <1>8 DEF OpenSaved

LEMMA RebuildInv ==
    ASSUME IInv, NEW k \in KeyModes, NEW f \in FailModes, NEW hour \in Hours,
           Start(k, f), faults' \in Nat, Rebuild(k, hour)
    PROVE  IInv'
<1>1. CASE /\ pos' = Origin /\ signedFrom' = (IF k THEN 1 ELSE 0)
           /\ rebuilt' = FALSE /\ Alarm
  BY <1>1, OriginType, OpenedInv DEF Alarm
<1>2. CASE /\ k /\ Verifies(disk, 0, Genesis, TRUE, 1) /\ made < MaxRecords
           /\ \E last \in disk : /\ IsLast(last, disk) /\ pos' = At(last)
                                 /\ pending' = NextRecord(At(last), hour, TRUE)
           /\ signedFrom' = 1 /\ rebuilt' = TRUE
           /\ unacked' = IF unacked = "saved" THEN "saved" ELSE "rebuilt"
           /\ status' = "rebuilt" /\ made' = made + 1
           /\ pc' = "write" /\ op' = "rebuild"
  <2>1. PICK last \in disk : /\ IsLast(last, disk) /\ pos' = At(last)
                             /\ pending' = NextRecord(At(last), hour, TRUE)
    BY <1>2
  <2>2. \A r \in disk : r \in Record /\ r.seq \in Nat /\ r.dir \in Nat
    BY Durable, RecordType
  <2>3. /\ last \in Record /\ pos' \in Position
        /\ pos'.count = last.seq /\ pos'.head = last.hash /\ pos'.dir = last.dir
    BY <2>1, <2>2, RecordType
  <2>4. /\ pending' \in Record /\ pending'.seq = pos'.count + 1
        /\ pending'.prev = pos'.head /\ pending'.dir >= pos'.dir
    BY <2>1, <2>3, Durable, NextRecordType
  <2>5. \A r \in disk : r.seq <= pos'.count
    BY <2>1, <2>3 DEF IsLast
  <2>6. Backed(pos', disk)
    BY <2>1 DEF Backed
  <2>7. NoneBelow(pos', disk)
    BY <2>2, <2>3, <2>5 DEF NoneBelow
  <2>8. stateFile.pos.count <= pos'.count /\ stateFile.pos.dir <= pos'.dir
    <3>1. CASE stateFile.pos = Origin
      BY <3>1, <2>3, <2>2 DEF Origin
    <3>2. CASE stateFile.pos # Origin
      <4>1. PICK q \in disk : At(q) = stateFile.pos
        BY <3>2, Durable DEF Backed
      <4>2. q.seq = stateFile.pos.count /\ q.dir = stateFile.pos.dir
        BY <4>1 DEF At
      <4>3. q.seq = last.seq => q = last
        BY <1>2, <2>1 DEF Verifies
      <4>4. q.seq < last.seq => q.dir <= last.dir
        BY <1>2, <2>1 DEF Verifies
      <4> QED
        BY <4>2, <4>3, <4>4, <2>2, <2>3, <2>5
    <3> QED
      BY <3>1, <3>2
  <2>9. TypeOK'
    <3>1. /\ unacked' \in {"no", "rebuilt", "saved"} /\ made' \in Nat
          /\ signedFrom' \in Nat /\ rebuilt' \in BOOLEAN
          /\ status' \in {"ok", "rebuilt", "invalid"}
          /\ pc' \in {"down", "idle", "write", "state", "sig"}
          /\ op' \in {"none", "record", "tail", "rebuild", "ack"}
      BY <1>2, Durable
    <3>2. /\ disk' \subseteq Record /\ stateFile' \in SavedState /\ sigFile' \in SavedState
          /\ acked' \subseteq Record
      BY Durable, StartKeeps
    <3> QED
      BY <3>1, <3>2, <2>3, <2>4, StartKeeps DEF TypeOK
  <2>10. AckedKept' /\ LinksKept' /\ SavedPosition'
    BY <2>6, Durable, StartKeeps DEF AckedKept, LinksKept, SavedPosition
  <2>11. HeadPosition'
    BY <2>2, <2>3, <2>5, <2>7, <2>8, Durable, StartKeeps DEF HeadPosition
  <2>12. InFlight'
    BY <1>2, <2>4 DEF InFlight
  <2> QED
    BY <2>9, <2>10, <2>11, <2>12 DEF IInv
<1> QED
  BY <1>1, <1>2 DEF Rebuild

LEMMA OpenInv ==
    ASSUME IInv, NEW k \in KeyModes, NEW f \in FailModes, NEW hour \in Hours,
           Open(k, f, hour)
    PROVE  IInv'
<1>1. CASE OpenNew(k, f)
  BY <1>1, OpenNewInv
<1>2. CASE OpenSaved(k, f)
  BY <1>2, OpenSavedInv
<1>3. CASE OpenRebuild(k, f, hour)
  BY <1>3, Durable, RebuildInv DEF OpenRebuild
<1>4. CASE OpenUnread(k, f, hour)
  BY <1>4, Durable, RebuildInv DEF OpenUnread, Fault
<1> QED
  BY <1>1, <1>2, <1>3, <1>4 DEF Open

(***************************************************************************)
(* record(), the writes of the chain state, and stopping.                  *)
(***************************************************************************)
\* The rest of the type invariant, for the actions of an open store
LEMMA MemoryType ==
    ASSUME IInv
    PROVE  /\ keyed \in BOOLEAN /\ failMode \in {"open", "closed"}
           /\ status \in {"ok", "rebuilt", "invalid"}
           /\ op \in {"none", "record", "tail", "rebuild", "ack"}
           /\ pos \in Position /\ signedFrom \in Nat /\ rebuilt \in BOOLEAN
           /\ lastWriteOk \in {"none", "ok", "failed"}
           /\ pending \in Record \cup {NoRecord}
           /\ (pc # "down" => Backed(pos, disk))
BY DEF IInv, TypeOK, LinksKept

\* The process is gone: only the store is left to speak of
LEMMA GoneInv ==
    ASSUME IInv, Gone, disk' \subseteq Record, acked' \subseteq disk', Linked(disk'),
           stateFile' \in SavedState, sigFile' \in SavedState,
           Backed(stateFile'.pos, disk'), NoneBelow(stateFile'.pos, disk'),
           made' \in Nat, faults' \in Nat, stops' \in Nat, refused' \subseteq Nat,
           unacked' \in {"no", "rebuilt", "saved"}
    PROVE  IInv'
<1>1. TypeOK'
  BY OriginType DEF Gone, TypeOK
<1>2. AckedKept' /\ LinksKept' /\ SavedPosition' /\ HeadPosition' /\ InFlight'
  BY DEF Gone, AckedKept, LinksKept, SavedPosition, HeadPosition, Serving, InFlight
<1> QED
  BY <1>1, <1>2 DEF IInv

\* The call is over: what is left to show is that the head still fits
LEMMA IdleInv ==
    ASSUME IInv, pc # "down", Idle, disk' \subseteq Record, acked' \subseteq disk', Linked(disk'),
           stateFile' \in SavedState, sigFile' \in SavedState,
           Backed(stateFile'.pos, disk'), NoneBelow(stateFile'.pos, disk'),
           made' \in Nat, faults' \in Nat, stops' \in Nat, refused' \subseteq Nat,
           unacked' \in {"no", "rebuilt", "saved"}, lastWriteOk' \in {"none", "ok", "failed"},
           Backed(pos, disk'),
           Serving => /\ NoneBelow(pos, disk') /\ \A r \in disk' : r.seq <= pos.count + 1
                      /\ \A r \in acked' : r.seq <= pos.count
                      /\ stateFile'.pos.count <= pos.count
                      /\ stateFile'.pos.dir <= pos.dir
    PROVE  IInv'
<1>1. TypeOK'
  BY MemoryType DEF Idle, TypeOK
<1>2. AckedKept' /\ LinksKept' /\ SavedPosition' /\ HeadPosition' /\ InFlight'
  BY DEF Idle, AckedKept, LinksKept, SavedPosition, HeadPosition, Serving, InFlight
<1> QED
  BY <1>1, <1>2 DEF IInv

LEMMA StopInv == ASSUME IInv, Stop PROVE IInv'
BY Durable, GoneInv DEF Stop, durable, history

LEMMA RecordCallInv ==
    ASSUME IInv, NEW hour \in Hours, RecordCall(hour)
    PROVE  IInv'
<1>1. /\ pending' \in Record /\ pending'.seq = pos.count + 1
      /\ pending'.prev = pos.head /\ pending'.dir >= pos.dir
  BY Durable, MemoryType, NextRecordType DEF RecordCall
<1>2. TypeOK'
  BY <1>1, Durable, MemoryType DEF RecordCall, TypeOK, durable, history
<1>3. AckedKept' /\ LinksKept' /\ SavedPosition' /\ HeadPosition'
  BY DEF IInv, RecordCall, durable, history, AckedKept, LinksKept, SavedPosition,
         HeadPosition, Serving
<1>4. InFlight'
  BY <1>1 DEF RecordCall, InFlight
<1> QED
  BY <1>2, <1>3, <1>4 DEF IInv

LEMMA RecordRefusedInv == ASSUME IInv, RecordRefused PROVE IInv'
<1>1. TypeOK'
  BY DEF IInv, RecordRefused, TypeOK, durable, history
<1>2. AckedKept' /\ LinksKept' /\ SavedPosition' /\ HeadPosition' /\ InFlight'
  BY DEF IInv, RecordRefused, durable, history, AckedKept, LinksKept, SavedPosition,
         HeadPosition, Serving, InFlight
<1> QED
  BY <1>1, <1>2 DEF IInv

LEMMA RecordStoredInv == ASSUME IInv, RecordStored PROVE IInv'
<1>1. pc = "write" /\ disk' = Put(disk, pending) /\ pos' = At(pending)
  BY DEF RecordStored
<1>2. /\ disk' \subseteq Record /\ pending \in disk' /\ pending \in Record
      /\ acked \subseteq disk' /\ Linked(disk')
      /\ Backed(stateFile.pos, disk') /\ NoneBelow(stateFile.pos, disk')
      /\ \A r \in disk' : r.seq <= pending.seq
      /\ NoneBelow(At(pending), disk')
      /\ \A r \in acked : r.seq < pending.seq
      /\ stateFile.pos.count < pending.seq /\ stateFile.pos.dir <= pending.dir
  BY <1>1, PutPending
<1>3. /\ pos' \in Position /\ pos'.count = pending.seq /\ pos'.dir = pending.dir
      /\ pending.seq \in Nat /\ stateFile.pos.count \in Nat
      /\ Backed(pos', disk')
  BY <1>1, <1>2, RecordType, Durable, PositionType DEF Backed
<1>4. \A r \in disk' : r.seq \in Nat
  BY <1>2, RecordType
<1>5. TypeOK'
  BY <1>2, <1>3, Durable, MemoryType DEF RecordStored, TypeOK, history
<1>6. AckedKept' /\ LinksKept' /\ SavedPosition'
  BY <1>2, <1>3 DEF RecordStored, history, AckedKept, LinksKept, SavedPosition
<1>7. HeadPosition'
  <2>1. \A r \in disk' : r.seq <= pos'.count + 1
    BY <1>2, <1>3, <1>4
  <2>2. \A r \in acked' : r.seq <= pos'.count
    BY <1>2, <1>3, <1>4 DEF RecordStored, history
  <2>3. stateFile'.pos.count <= pos'.count /\ stateFile'.pos.dir <= pos'.dir
    BY <1>2, <1>3 DEF RecordStored
  <2> QED
    BY <1>1, <1>2, <2>1, <2>2, <2>3 DEF HeadPosition
<1>8. InFlight'
  <2>1. pc' = "state" /\ pending' = pending /\ acked' = acked /\ status' = status
    BY DEF RecordStored, history
  <2>2. status # "invalid"
    BY <1>1 DEF IInv, InFlight
  <2> QED
    BY <1>1, <1>2, <2>1, <2>2 DEF InFlight
<1> QED
  BY <1>5, <1>6, <1>7, <1>8 DEF IInv

LEMMA RecordNotWrittenInv ==
    ASSUME IInv, NEW kind \in FaultKind, RecordNotWritten(kind)
    PROVE  IInv'
<1>1. /\ pc = "write" /\ stateFile' = stateFile /\ sigFile' = sigFile
      /\ acked' = acked /\ made' \in Nat /\ stops' \in Nat /\ faults' \in Nat
      /\ unacked' \in {"no", "rebuilt", "saved"}
  BY Durable DEF RecordNotWritten, Fault
<1>2. pending \in Record /\ pending.seq = pos.count + 1 /\ status # "invalid"
  BY <1>1 DEF IInv, InFlight
<1>3. refused' \subseteq Nat
  <2>1. pending.hash \in Nat
    BY <1>2, RecordType, PositionType
  <2> QED
    BY <2>1, Durable DEF RecordNotWritten
<1>4. /\ disk' \subseteq Record /\ acked' \subseteq disk' /\ Linked(disk')
      /\ Backed(stateFile'.pos, disk') /\ NoneBelow(stateFile'.pos, disk')
      /\ Backed(pos, disk') /\ NoneBelow(pos, disk')
      /\ \A r \in disk' : r.seq <= pos.count + 1
  <2>1. CASE disk' = Put(disk, pending)
    BY <2>1, <1>1, <1>2, PutPending
  <2>2. CASE disk' = disk
    BY <2>2, <1>1, <1>2, Durable, MemoryType DEF IInv, HeadPosition, Serving
  <2> QED
    BY <2>1, <2>2 DEF RecordNotWritten
<1>5. /\ \A r \in acked' : r.seq <= pos.count
      /\ stateFile'.pos.count <= pos.count /\ stateFile'.pos.dir <= pos.dir
  BY <1>1, <1>2 DEF IInv, HeadPosition, Serving
<1>6. CASE Gone
  BY <1>1, <1>3, <1>4, <1>6, Durable, GoneInv
<1>7. CASE Idle /\ lastWriteOk' = "failed"
  BY <1>1, <1>3, <1>4, <1>5, <1>7, Durable, IdleInv
<1> QED
  BY <1>6, <1>7 DEF RecordNotWritten

\* The state to save is a good position to restart from, as the old one is
LEMMA SavedStateGood ==
    ASSUME IInv, pc \in {"state", "sig"}, NEW st \in {stateFile, Snapshot}
    PROVE  /\ st \in SavedState /\ Backed(st.pos, disk) /\ NoneBelow(st.pos, disk)
           /\ st.pos.count <= pos.count /\ st.pos.dir <= pos.dir
<1>1. /\ pos \in Position /\ pos.count \in Nat /\ pos.dir \in Nat
      /\ Backed(pos, disk) /\ signedFrom \in Nat /\ rebuilt \in BOOLEAN
  BY MemoryType, PositionType
<1>2. /\ NoneBelow(pos, disk)
      /\ stateFile.pos.count <= pos.count /\ stateFile.pos.dir <= pos.dir
  BY DEF IInv, InFlight, HeadPosition, Serving
<1>3. CASE st = stateFile
  BY <1>2, <1>3, Durable
<1>4. CASE st = Snapshot
  BY <1>1, <1>2, <1>4 DEF Snapshot, SavedState
<1> QED
  BY <1>3, <1>4

\* What record() acknowledges is the head
LEMMA AcknowledgedGood ==
    ASSUME IInv, pc \in {"state", "sig"}, acked' = acked \/ Acknowledge
    PROVE  /\ acked' \subseteq disk /\ \A r \in acked' : r.seq <= pos.count
           /\ NoneBelow(pos, disk) /\ \A r \in disk : r.seq <= pos.count + 1
<1>1. acked \subseteq disk /\ (\A r \in acked : r.seq <= pos.count) /\ pos.count \in Nat
      /\ NoneBelow(pos, disk) /\ \A r \in disk : r.seq <= pos.count + 1
  BY Durable, MemoryType, PositionType DEF IInv, InFlight, HeadPosition, Serving
<1>2. op \in {"record", "rebuild"} => pending \in disk /\ pending.seq = pos.count
  BY DEF IInv, InFlight, At
<1> QED
  BY <1>1, <1>2 DEF Acknowledge

LEMMA StateSavedInv == ASSUME IInv, StateSaved PROVE IInv'
<1>1. /\ pc = "state" /\ stateFile' = Snapshot /\ unacked' \in {"no", "rebuilt", "saved"}
      /\ disk' = disk /\ sigFile' = sigFile /\ lastWriteOk' = lastWriteOk
      /\ made' \in Nat /\ faults' \in Nat /\ stops' \in Nat /\ refused' \subseteq Nat
  BY Durable DEF StateSaved, SaveState
<1>2. /\ stateFile' \in SavedState
      /\ Backed(stateFile'.pos, disk) /\ NoneBelow(stateFile'.pos, disk)
      /\ stateFile'.pos.count <= pos.count /\ stateFile'.pos.dir <= pos.dir
  BY <1>1, SavedStateGood
<1>3. CASE Idle /\ Acknowledge
  <2>1. /\ acked' \subseteq disk /\ \A r \in acked' : r.seq <= pos.count
        /\ NoneBelow(pos, disk) /\ \A r \in disk : r.seq <= pos.count + 1
    BY <1>1, <1>3, AcknowledgedGood
  <2> QED
    BY <1>1, <1>2, <1>3, <2>1, Durable, MemoryType, IdleInv
<1>4. CASE /\ pc' = "sig"
           /\ UNCHANGED <<op, pending, keyed, failMode, status, pos, signedFrom, rebuilt, acked>>
  <2>1. TypeOK'
    BY <1>1, <1>2, <1>4, Durable, MemoryType DEF TypeOK
  <2>2. AckedKept' /\ LinksKept' /\ SavedPosition'
    BY <1>1, <1>2, <1>4, Durable, MemoryType DEF AckedKept, LinksKept, SavedPosition
  <2>3. HeadPosition'
    BY <1>1, <1>2, <1>4 DEF IInv, HeadPosition, Serving
  <2>4. InFlight'
    BY <1>1, <1>4 DEF IInv, InFlight, Snapshot
  <2> QED
    BY <2>1, <2>2, <2>3, <2>4 DEF IInv
<1> QED
  BY <1>3, <1>4 DEF StateSaved

LEMMA SignatureSavedInv == ASSUME IInv, SignatureSaved PROVE IInv'
<1>1. /\ pc = "sig" /\ sigFile' = Snapshot /\ Idle /\ Acknowledge
      /\ disk' = disk /\ stateFile' = stateFile /\ lastWriteOk' = lastWriteOk
      /\ made' \in Nat /\ faults' \in Nat /\ stops' \in Nat /\ refused' \subseteq Nat
      /\ unacked' \in {"no", "rebuilt", "saved"}
  BY Durable DEF SignatureSaved
<1>2. sigFile' \in SavedState
  BY <1>1, SavedStateGood
<1>3. /\ acked' \subseteq disk /\ \A r \in acked' : r.seq <= pos.count
      /\ NoneBelow(pos, disk) /\ \A r \in disk : r.seq <= pos.count + 1
  BY <1>1, AcknowledgedGood
<1>4. stateFile.pos.count <= pos.count /\ stateFile.pos.dir <= pos.dir
  BY <1>1, SavedStateGood
<1> QED
  BY <1>1, <1>2, <1>3, <1>4, Durable, MemoryType, IdleInv

LEMMA StateNotSavedInv ==
    ASSUME IInv, NEW kind \in FaultKind, StateNotSaved(kind)
    PROVE  IInv'
<1>1. /\ pc \in {"state", "sig"} /\ stateFile' \in {stateFile, Snapshot}
      /\ sigFile' \in {sigFile, Snapshot} /\ disk' = disk
      /\ made' \in Nat /\ faults' \in Nat /\ stops' \in Nat /\ refused' \subseteq Nat
  BY Durable DEF StateNotSaved, Fault, SaveState
<1>2. unacked' \in {"no", "rebuilt", "saved"}
  BY Durable DEF StateNotSaved, SaveState
<1>3. /\ stateFile' \in SavedState
      /\ Backed(stateFile'.pos, disk) /\ NoneBelow(stateFile'.pos, disk)
      /\ stateFile'.pos.count <= pos.count /\ stateFile'.pos.dir <= pos.dir
  BY <1>1, SavedStateGood
<1>4. sigFile' \in SavedState
  BY <1>1, SavedStateGood, Durable
<1>5. /\ acked' \subseteq disk /\ \A r \in acked' : r.seq <= pos.count
      /\ NoneBelow(pos, disk) /\ \A r \in disk : r.seq <= pos.count + 1
  <2>1. acked' = acked \/ Acknowledge
    BY DEF StateNotSaved
  <2> QED
    BY <1>1, <2>1, AcknowledgedGood
<1>6. CASE Gone
  BY <1>1, <1>2, <1>3, <1>4, <1>5, <1>6, Durable, GoneInv
<1>7. CASE Idle /\ lastWriteOk' = "failed"
  BY <1>1, <1>2, <1>3, <1>4, <1>5, <1>7, Durable, MemoryType, IdleInv
<1> QED
  BY <1>6, <1>7 DEF StateNotSaved

LEMMA AcknowledgeRebuildInv == ASSUME IInv, AcknowledgeRebuild PROVE IInv'
<1>1. TypeOK'
  BY Durable, MemoryType DEF AcknowledgeRebuild, TypeOK, durable
<1>2. AckedKept' /\ LinksKept' /\ SavedPosition' /\ HeadPosition' /\ InFlight'
  BY DEF IInv, AcknowledgeRebuild, durable, AckedKept, LinksKept, SavedPosition,
         HeadPosition, Serving, InFlight
<1> QED
  BY <1>1, <1>2 DEF IInv

\* One step keeps the invariant
LEMMA StepInv == ASSUME IInv, [Next]_vars PROVE IInv'
<1>1. CASE \E k \in KeyModes, f \in FailModes, hour \in Hours : Open(k, f, hour)
  BY <1>1, OpenInv
<1>2. CASE \E hour \in Hours : RecordCall(hour)
  BY <1>2, RecordCallInv
<1>3. CASE RecordRefused
  BY <1>3, RecordRefusedInv
<1>4. CASE RecordStored
  BY <1>4, RecordStoredInv
<1>5. CASE \E kind \in FaultKind : RecordNotWritten(kind)
  BY <1>5, RecordNotWrittenInv
<1>6. CASE StateSaved
  BY <1>6, StateSavedInv
<1>7. CASE SignatureSaved
  BY <1>7, SignatureSavedInv
<1>8. CASE \E kind \in FaultKind : StateNotSaved(kind)
  BY <1>8, StateNotSavedInv
<1>9. CASE AcknowledgeRebuild
  BY <1>9, AcknowledgeRebuildInv
<1>10. CASE Stop
  BY <1>10, StopInv
<1>11. CASE UNCHANGED vars
  <2>1. TypeOK'
    BY <1>11 DEF IInv, TypeOK, vars, durable, memory, history
  <2>2. AckedKept' /\ LinksKept' /\ SavedPosition' /\ HeadPosition' /\ InFlight'
    BY <1>11 DEF IInv, AckedKept, LinksKept, SavedPosition, HeadPosition, Serving, InFlight,
                 Snapshot, vars, durable, memory, history
  <2> QED
    BY <2>1, <2>2 DEF IInv
<1> QED
  BY <1>1, <1>2, <1>3, <1>4, <1>5, <1>6, <1>7, <1>8, <1>9, <1>10, <1>11 DEF Next

(***************************************************************************)
(* The theorems.                                                           *)
(***************************************************************************)
\* IInv is an inductive invariant: it holds when nothing was ever stored and
\* every operation of the store, fault, crash or restart keeps it.
THEOREM Inductive == Spec => []IInv
<1>1. Init => IInv
  BY InitInv
<1>2. IInv /\ [Next]_vars => IInv'
  BY StepInv
<1> QED
  BY <1>1, <1>2, PTL DEF Spec

\* Every variable keeps to its type.
THEOREM TypeCorrect == Spec => []TypeOK
<1>1. IInv => TypeOK
  BY DEF IInv
<1> QED
  BY <1>1, Inductive, PTL

\* No record for which record() answered stored: True is ever replaced or
\* lost, however often the process is killed, restarted or rebuilt the chain.
THEOREM AcknowledgedRecordsKept == Spec => []AckedKept
<1>1. IInv => AckedKept
  BY DEF IInv
<1> QED
  BY <1>1, Inductive, PTL

\* Every stored record, acknowledged or left over, keeps the record it links
\* to, and the head in memory is that of a stored record.
THEOREM LinksAlwaysKept == Spec => []LinksKept
<1>1. IInv => LinksKept
  BY DEF IInv
<1> QED
  BY <1>1, Inductive, PTL

\* An invalid chain writes nothing: every object write is in a call that began
\* on a valid chain, and no call ends with another status than it began with.
THEOREM InvalidChainUntouched == Spec => InvalidWritesNothing
<1>1. IInv /\ [Next]_vars => [status = "invalid" => UNCHANGED durable]_vars
  <2> SUFFICES ASSUME IInv, Next, status = "invalid" PROVE UNCHANGED durable
    BY DEF durable
  <2>1. pc \notin {"write", "state", "sig"}
    BY DEF IInv, InFlight
  <2>2. CASE \E k \in KeyModes, f \in FailModes, hour \in Hours : Open(k, f, hour)
    BY <2>2 DEF Open, OpenNew, OpenSaved, OpenRebuild, OpenUnread, Start
  <2>3. CASE \E hour \in Hours : RecordCall(hour)
    BY <2>3 DEF RecordCall
  <2>4. CASE RecordRefused \/ AcknowledgeRebuild \/ Stop
    BY <2>4 DEF RecordRefused, AcknowledgeRebuild, Stop
  <2> QED
    BY <2>1, <2>2, <2>3, <2>4
       DEF Next, RecordStored, RecordNotWritten, StateSaved, SignatureSaved, StateNotSaved
<1> QED
  BY <1>1, Inductive, PTL DEF Spec, InvalidWritesNothing

\* Which steps can change what is acknowledged, and how
LEMMA AckedSteps ==
    ASSUME IInv, Next
    PROVE  \/ acked' = acked
           \/ /\ Acknowledge /\ pc \in {"state", "sig"} /\ Idle
              /\ \/ StateSaved /\ ~keyed
                 \/ SignatureSaved
                 \/ failMode # "closed"
<1>1. CASE \E k \in KeyModes, f \in FailModes, hour \in Hours : Open(k, f, hour)
  BY <1>1 DEF Open, OpenNew, OpenSaved, OpenRebuild, OpenUnread, Start
<1>2. CASE \E hour \in Hours : RecordCall(hour)
  BY <1>2 DEF RecordCall, history
<1>3. CASE RecordRefused \/ RecordStored \/ AcknowledgeRebuild \/ Stop
  BY <1>3 DEF RecordRefused, RecordStored, AcknowledgeRebuild, Stop, history
<1>4. CASE \E kind \in FaultKind : RecordNotWritten(kind)
  BY <1>4 DEF RecordNotWritten
<1>5. CASE StateSaved
  BY <1>5 DEF StateSaved
<1>6. CASE SignatureSaved
  BY <1>6 DEF SignatureSaved
<1>7. CASE \E kind \in FaultKind : StateNotSaved(kind)
  BY <1>7 DEF StateNotSaved, Abandoned
<1> QED
  BY <1>1, <1>2, <1>3, <1>4, <1>5, <1>6, <1>7 DEF Next

\* In closed mode an answer stored: True means that a restart finds the record
\* counted by a saved state, and with the key that state signed.
THEOREM ClosedAcksAreSaved == Spec => ClosedModeAcksSaved
<1>1. IInv /\ [Next]_vars =>
        [acked' # acked /\ failMode = "closed"
           => stateFile' = Snapshot /\ (keyed => sigFile' = stateFile')]_vars
  <2> SUFFICES ASSUME IInv, Next, acked' # acked, failMode = "closed"
               PROVE  stateFile' = Snapshot /\ (keyed => sigFile' = stateFile')
    BY DEF vars, history
  <2>1. (StateSaved /\ ~keyed) \/ SignatureSaved
    BY AckedSteps
  <2>2. CASE StateSaved /\ ~keyed
    BY <2>2 DEF StateSaved, SaveState
  <2>3. CASE SignatureSaved
    BY <2>3 DEF SignatureSaved, IInv, InFlight
  <2> QED
    BY <2>1, <2>2, <2>3
<1> QED
  BY <1>1, Inductive, PTL DEF Spec, ClosedModeAcksSaved

\* The store is an append-only log of what it acknowledged: faults, crashes
\* and restarts in between change nothing a caller was told.
THEOREM StoreImplementsAuditLog == Spec => ImplementsAuditLog
<1>1. Init => Audit!Init
  BY DEF Init, Audit!Init, Mode
<1>2. IInv /\ [Next]_vars => [Audit!Next]_(Audit!vars)
  <2> SUFFICES ASSUME IInv, [Next]_vars
               PROVE  Audit!Next \/ (acked' = acked /\ Mode' = Mode)
    BY DEF Audit!vars
  <2>1. CASE \E k \in KeyModes, f \in FailModes, hour \in Hours : Open(k, f, hour)
    <3>1. pc = "down" /\ acked' = acked
      BY <2>1 DEF Open, OpenNew, OpenSaved, OpenRebuild, OpenUnread, Start
    <3>2. pc' \in {"idle", "state", "write"}
      BY ZenonT(60), <2>1 DEF Open, OpenNew, OpenSaved, OpenRebuild, OpenUnread, Rebuild, Alarm, Opened
    <3> QED
      BY <3>1, <3>2 DEF Mode, Audit!Next, Audit!Open
  <2>2. CASE Stop
    BY <2>2 DEF Stop, Gone, history, Mode, Audit!Next, Audit!Stop
  <2>3. CASE Next /\ acked' # acked
    <3>1. Acknowledge /\ pc \in {"state", "sig"} /\ Idle
      BY <2>3, AckedSteps
    <3>2. Mode = "serving" /\ Mode' = Mode
      BY <3>1 DEF Idle, Mode, IInv, InFlight
    <3>3. acked' = acked \cup {pending} /\ \A r \in acked : r.seq < pending.seq
      BY <3>1, <2>3 DEF Acknowledge, IInv, InFlight
    <3>4. pending \in acked' \ acked
      BY <3>3, <2>3
    <3> QED
      BY <3>2, <3>3, <3>4 DEF Audit!Next, Audit!Append
  <2>4. CASE UNCHANGED vars
    BY <2>4 DEF vars, memory, history, Mode
  <2>5. CASE (\E hour \in Hours : RecordCall(hour)) \/ RecordRefused \/ AcknowledgeRebuild
    BY <2>5 DEF RecordCall, RecordRefused, AcknowledgeRebuild, history, Mode
  <2>6. CASE RecordStored \/ StateSaved \/ SignatureSaved
    <3>1. (acked' = acked => Mode' = Mode) \/ Audit!Next
      BY <2>6 DEF RecordStored, StateSaved, SignatureSaved, Idle, history, Mode
    <3> QED
      BY <2>3, <2>6, <3>1 DEF Next
  <2>7. CASE (\E kind \in FaultKind : RecordNotWritten(kind) \/ StateNotSaved(kind))
    <3>1. CASE acked' # acked
      BY <3>1, <2>3, <2>7 DEF Next
    <3>2. CASE acked' = acked /\ Gone
      BY <3>2, <2>7 DEF RecordNotWritten, StateNotSaved, Gone, Mode, Audit!Next, Audit!Stop
    <3>3. CASE acked' = acked /\ Idle
      BY <3>3, <2>7 DEF RecordNotWritten, StateNotSaved, Idle, Mode
    <3> QED
      BY <3>1, <3>2, <3>3, <2>7 DEF RecordNotWritten, StateNotSaved
  <2> QED
    BY <2>1, <2>2, <2>4, <2>5, <2>6, <2>7 DEF Next
<1> QED
  BY <1>1, <1>2, Inductive, PTL DEF Spec, ImplementsAuditLog, Audit!Spec

(***************************************************************************)
(* What a restart finds: the store a process reports as accepting records  *)
(* is saved, and a saved rebuild stays visible.                            *)
(***************************************************************************)
LEMMA AcceptingStep == ASSUME IInv, AcceptingIsSaved, [Next]_vars PROVE AcceptingIsSaved'
<1>1. CASE \E k \in KeyModes, f \in FailModes, hour \in Hours : Open(k, f, hour)
  BY <1>1 DEF Open, OpenNew, OpenSaved, OpenRebuild, OpenUnread, Start, AcceptingIsSaved
<1>2. CASE (\E hour \in Hours : RecordCall(hour)) \/ RecordStored \/ AcknowledgeRebuild \/ Stop
  BY <1>2 DEF RecordCall, RecordStored, AcknowledgeRebuild, Stop, Gone, AcceptingIsSaved
<1>3. CASE RecordRefused
  BY <1>3 DEF RecordRefused, AcceptingIsSaved
<1>4. CASE \E kind \in FaultKind : RecordNotWritten(kind) \/ StateNotSaved(kind)
  BY <1>4 DEF RecordNotWritten, StateNotSaved, Gone, AcceptingIsSaved
<1>5. CASE StateSaved
  BY <1>5 DEF StateSaved, SaveState, Idle, AcceptingIsSaved, Snapshot
<1>6. CASE SignatureSaved
  <2>1. stateFile = Snapshot /\ stateFile' = stateFile /\ sigFile' = Snapshot /\ Snapshot' = Snapshot
    BY <1>6 DEF SignatureSaved, IInv, InFlight, Idle, Snapshot
  <2> QED
    BY <2>1 DEF AcceptingIsSaved
<1>7. CASE UNCHANGED vars
  BY <1>7 DEF vars, durable, memory, AcceptingIsSaved, Accepting, Snapshot
<1> QED
  BY <1>1, <1>2, <1>3, <1>4, <1>5, <1>6, <1>7 DEF Next

\* When a process whose last write went well reports that it accepts records,
\* state and HMAC in the store are those of its memory.
THEOREM AcceptingStoreIsSaved == Spec => []AcceptingIsSaved
<1>1. Init => AcceptingIsSaved
  BY DEF Init, AcceptingIsSaved
<1>2. IInv /\ AcceptingIsSaved /\ [Next]_vars => AcceptingIsSaved'
  BY AcceptingStep
<1> QED
  BY <1>1, <1>2, Inductive, PTL DEF Spec

RebuildKept == RebuildRemembered /\ RebuildInState

LEMMA SnapshotFields ==
    Snapshot.pos = pos /\ Snapshot.signedFrom = signedFrom /\ Snapshot.rebuilt = rebuilt
BY DEF Snapshot

LEMMA RebuildOpen ==
    ASSUME IInv, RebuildKept, NEW k \in KeyModes, NEW f \in FailModes, NEW hour \in Hours,
           Open(k, f, hour)
    PROVE  RebuildKept'
<1>1. /\ stateFile' = stateFile /\ stateFile.rebuilt \in BOOLEAN /\ unacked \in {"no", "rebuilt", "saved"}
      /\ unacked = "saved" => stateFile.rebuilt
  BY Durable DEF Open, OpenNew, OpenSaved, OpenRebuild, OpenUnread, Start, durable, RebuildKept,
                 RebuildInState, SavedState
<1>2. CASE OpenNew(k, f)
  <2>1. ~stateFile.rebuilt /\ unacked' = unacked /\ status' = "ok" /\ rebuilt' = FALSE
    BY <1>2 DEF OpenNew, NoFile, Opened
  <2> QED
    BY <1>1, <2>1 DEF RebuildKept, RebuildRemembered, RebuildInState
<1>3. CASE OpenSaved(k, f)
  <2>1. /\ unacked' = unacked /\ rebuilt' = stateFile.rebuilt
        /\ status' = "invalid" \/ status' = IF stateFile.rebuilt THEN "rebuilt" ELSE "ok"
    BY <1>3 DEF OpenSaved, Alarm, Opened
  <2> QED
    BY <1>1, <2>1 DEF RebuildKept, RebuildRemembered, RebuildInState, Serving
<1>4. CASE OpenRebuild(k, f, hour) \/ OpenUnread(k, f, hour)
  <2>1. \/ unacked' = unacked /\ status' = "invalid"
        \/ /\ unacked' = IF unacked = "saved" THEN "saved" ELSE "rebuilt"
           /\ rebuilt' = TRUE /\ status' = "rebuilt"
    BY <1>4 DEF OpenRebuild, OpenUnread, Rebuild, Alarm, Opened
  <2> QED
    BY <1>1, <2>1 DEF RebuildKept, RebuildRemembered, RebuildInState, Serving
<1> QED
  BY <1>2, <1>3, <1>4 DEF Open

\* The state in memory is saved: it names a rebuild when one is remembered
LEMMA RebuildSaved ==
    ASSUME IInv, RebuildKept, pc \in {"state", "sig"}, SaveState
    PROVE  (unacked' = "saved" => stateFile'.rebuilt /\ rebuilt) /\ (rebuilt <=> status = "rebuilt")
<1>1. Serving /\ rebuilt \in BOOLEAN
  BY MemoryType DEF IInv, InFlight, Serving
<1> QED
  BY <1>1, SnapshotFields, MemoryType
     DEF RebuildKept, RebuildRemembered, RebuildInState, SaveState, Serving

LEMMA RebuildStep == ASSUME IInv, RebuildKept, [Next]_vars PROVE RebuildKept'
<1>1. CASE \E k \in KeyModes, f \in FailModes, hour \in Hours : Open(k, f, hour)
  BY <1>1, RebuildOpen
<1>2. CASE \E hour \in Hours : RecordCall(hour)
  BY <1>2 DEF RecordCall, durable, history, RebuildKept, RebuildRemembered, RebuildInState, Serving
<1>3. CASE RecordRefused
  BY <1>3 DEF RecordRefused, durable, history, RebuildKept, RebuildRemembered, RebuildInState, Serving
<1>4. CASE RecordStored
  BY <1>4 DEF RecordStored, history, RebuildKept, RebuildRemembered, RebuildInState, Serving
<1>5. CASE \E kind \in FaultKind : RecordNotWritten(kind)
  BY <1>5 DEF RecordNotWritten, Gone, Idle, RebuildKept, RebuildRemembered, RebuildInState, Serving
<1>6. CASE StateSaved
  <2>1. /\ unacked' = "saved" => stateFile'.rebuilt /\ rebuilt
        /\ rebuilt <=> status = "rebuilt"
    BY <1>6, RebuildSaved DEF StateSaved
  <2>2. UNCHANGED <<status, rebuilt>>
    BY <1>6 DEF StateSaved, Idle
  <2> QED
    BY <2>1, <2>2 DEF RebuildKept, RebuildRemembered, RebuildInState
<1>7. CASE SignatureSaved
  <2>1. UNCHANGED <<stateFile, unacked, status, rebuilt>> /\ pc = "sig"
    BY <1>7 DEF SignatureSaved, Idle
  <2> QED
    BY <2>1 DEF RebuildKept, RebuildRemembered, RebuildInState, Serving
<1>8. CASE \E kind \in FaultKind : StateNotSaved(kind)
  <2>1. PICK kind \in FaultKind : StateNotSaved(kind)
    BY <1>8
  <2>2. pc \in {"state", "sig"} /\ (Gone \/ (Idle /\ UNCHANGED <<status, rebuilt>>))
    BY <2>1 DEF StateNotSaved, Idle
  <2>3. CASE SaveState
    BY <2>2, <2>3, RebuildSaved DEF Gone, Idle, RebuildKept, RebuildRemembered, RebuildInState, Serving
  <2>4. CASE UNCHANGED <<stateFile, unacked>>
    BY <2>2, <2>4 DEF Gone, Idle, RebuildKept, RebuildRemembered, RebuildInState, Serving
  <2> QED
    BY <2>1, <2>3, <2>4 DEF StateNotSaved
<1>9. CASE AcknowledgeRebuild
  BY <1>9 DEF AcknowledgeRebuild, RebuildKept, RebuildRemembered, RebuildInState, Serving
<1>10. CASE Stop
  BY <1>10 DEF Stop, Gone, durable, history, RebuildKept, RebuildRemembered, RebuildInState, Serving
<1>11. CASE UNCHANGED vars
  BY <1>11 DEF vars, durable, memory, history, RebuildKept, RebuildRemembered, RebuildInState, Serving
<1> QED
  BY <1>1, <1>2, <1>3, <1>4, <1>5, <1>6, <1>7, <1>8, <1>9, <1>10, <1>11 DEF Next

\* A rebuild that reached the saved state is reported by every process that
\* has the store open, until it is acknowledged (_apply_state, _rebuild).
THEOREM SavedRebuildsRemembered == Spec => []RebuildRemembered
<1>1. Init => RebuildKept
  BY DEF Init, RebuildKept, RebuildRemembered, RebuildInState, Serving
<1>2. IInv /\ RebuildKept /\ [Next]_vars => RebuildKept'
  BY RebuildStep
<1>3. RebuildKept => RebuildRemembered
  BY DEF RebuildKept
<1> QED
  BY <1>1, <1>2, <1>3, Inductive, PTL DEF Spec

(***************************************************************************)
(* The chain verifies while no write fails after its object is in place.   *)
(***************************************************************************)
\* What Chained says, field by field, of records, memory and the saved state
LEMMA ChainFacts ==
    ASSUME IInv, Chained
    PROVE  /\ \A r \in disk : r \in Record /\ r.seq \in Nat /\ r.seq > 0 /\ r.dir \in Nat
           /\ \A q, r \in disk : (q.seq = r.seq => q = r) /\ (q.seq < r.seq => q.dir <= r.dir)
           /\ Linked(disk) /\ pos.count \in Nat /\ pos.dir \in Nat /\ signedFrom \in Nat
           /\ stateFile.signedFrom \in Nat /\ stateFile.pos.count \in Nat /\ stateFile.pos.dir \in Nat
           /\ stateFile.signedFrom > 0
                => \A r \in disk : stateFile.signedFrom <= r.seq /\ r.seq <= stateFile.pos.count => r.sig
BY Durable, MemoryType, RecordType, PositionType DEF Chained, SavedState

\* The head is the last record, in the last directory
LEMMA HeadIsLast ==
    ASSUME IInv, Chained, Serving
    PROVE  \A r \in disk : r.seq <= pos.count /\ r.dir <= pos.dir
<1> SUFFICES ASSUME NEW r \in disk PROVE r.seq <= pos.count /\ r.dir <= pos.dir
  OBVIOUS
<1>1. r.seq <= pos.count /\ r.seq > 0
  BY ChainFacts DEF Chained
<1>2. pos # Origin
  BY <1>1, ChainFacts DEF Origin
<1>3. PICK h \in disk : At(h) = pos
  BY <1>2, MemoryType DEF Serving, Backed
<1>4. h.seq = pos.count /\ h.dir = pos.dir
  BY <1>3 DEF At
<1> QED
  BY <1>1, <1>4, ChainFacts

LEMMA ChainedOpen ==
    ASSUME IInv, Chained, NEW k \in KeyModes, NEW f \in FailModes, NEW hour \in Hours,
           Open(k, f, hour)
    PROVE  Chained'
<1>1. /\ disk' = disk /\ stateFile' = stateFile /\ keyed' = k /\ k \in BOOLEAN
  BY ModesAssumption DEF Open, OpenNew, OpenSaved, OpenRebuild, OpenUnread, Start, durable
<1>2. /\ \A q, r \in disk : (q.seq = r.seq => q = r) /\ (q.seq < r.seq => q.dir <= r.dir)
      /\ stateFile.signedFrom > 0
           => \A r \in disk : stateFile.signedFrom <= r.seq /\ r.seq <= stateFile.pos.count => r.sig
      /\ stateFile # NoFile => disk # {}
  BY DEF Chained
<1>3. CASE OpenNew(k, f)
  <2>1. /\ disk = {} /\ signedFrom' = (IF k THEN 1 ELSE 0) /\ stateFile = NoFile
        /\ pc' = "idle" /\ status' = "ok"
    BY <1>3 DEF OpenNew, Opened
  <2> QED
    BY <1>1, <2>1 DEF Chained, NoFile
<1>4. CASE status' = "invalid" /\ pc' = "idle"
  BY <1>1, <1>2, <1>4 DEF Chained, Serving
<1>5. CASE OpenSaved(k, f) /\ status' # "invalid"
  <2> DEFINE at == stateFile.pos
             from == RestoredSignedFrom(k)
  <2>1. /\ stateFile # NoFile /\ signedFrom' = from
        /\ HeadOk(k, from) /\ Verifies(StoredTail, at.count, at.head, k, from)
        /\ pc' \in {"idle", "state"}
        /\ \/ StoredTail = {} /\ pos' = at
           \/ \E last \in StoredTail : IsLast(last, StoredTail) /\ pos' = At(last)
    BY <1>5 DEF OpenSaved, Alarm, Opened
  <2>2. \A r \in disk : r.seq > at.count => r \in StoredTail
    BY Durable DEF NoneBelow, StoredTail
  <2>3. \A r \in disk : r.seq <= pos'.count
    <3>1. CASE StoredTail = {} /\ pos' = at
      BY <2>2, <3>1, ChainFacts
    <3>2. CASE \E last \in StoredTail : IsLast(last, StoredTail) /\ pos' = At(last)
      <4>1. PICK last \in StoredTail : IsLast(last, StoredTail) /\ pos' = At(last)
        BY <3>2
      <4>2. last \in disk /\ last.seq > at.count /\ pos'.count = last.seq
        BY <4>1 DEF StoredTail, At
      <4> QED
        BY <2>2, <4>1, <4>2, ChainFacts DEF IsLast
    <3> QED
      BY <2>1, <3>1, <3>2
  <2>4. from > 0 => k /\ \A r \in disk : r.seq >= from => r.sig
    <3> SUFFICES ASSUME from > 0 PROVE k /\ \A r \in disk : r.seq >= from => r.sig
      OBVIOUS
    <3>1. k /\ from = IF stateFile.signedFrom > 0 THEN stateFile.signedFrom ELSE at.count + 1
      BY DEF RestoredSignedFrom
    <3>2. ASSUME NEW r \in disk, r.seq >= from PROVE r.sig
      <4>1. CASE r \in StoredTail
        BY <2>1, <3>1, <3>2, <4>1 DEF Verifies, SignatureOk
      <4>2. CASE r.seq <= at.count
        <5>1. r.seq \in Nat /\ at.count \in Nat /\ stateFile.signedFrom \in Nat
          BY ChainFacts
        <5>2. stateFile.signedFrom > 0 /\ from = stateFile.signedFrom
          <6>1. CASE stateFile.signedFrom > 0
            BY <3>1, <6>1
          <6>2. CASE ~(stateFile.signedFrom > 0)
            <7>1. r.seq >= at.count + 1
              BY <3>1, <3>2, <6>2
            <7> QED
              BY <4>2, <5>1, <7>1
          <6> QED
            BY <6>1, <6>2
        <5>3. stateFile.signedFrom <= r.seq
          BY <3>2, <5>1, <5>2
        <5> QED
          BY <4>2, <5>2, <5>3, ChainFacts
      <4> QED
        BY <2>2, <4>1, <4>2, ChainFacts
    <3> QED
      BY <3>1, <3>2
  <2> HIDE DEF from
  <2> QED
    BY <1>1, <1>2, <2>1, <2>3, <2>4 DEF Chained
<1>6. CASE Rebuild(k, hour) /\ status' # "invalid"
  <2>1. /\ k /\ Verifies(disk, 0, Genesis, TRUE, 1)
        /\ signedFrom' = 1 /\ pc' = "write" /\ status' = "rebuilt"
        /\ \E last \in disk : /\ IsLast(last, disk) /\ pos' = At(last)
                              /\ pending' = NextRecord(At(last), hour, TRUE)
    BY <1>6 DEF Rebuild, Alarm
  <2>2. PICK last \in disk : /\ IsLast(last, disk) /\ pos' = At(last)
                             /\ pending' = NextRecord(At(last), hour, TRUE)
    BY <2>1
  <2>3. pos'.count = last.seq /\ pending'.sig = TRUE
    BY <2>2 DEF At, NextRecord
  <2>4. \A r \in disk : r.seq <= pos'.count /\ (r.seq >= 1 => r.sig)
    BY <2>1, <2>2, <2>3 DEF IsLast, Verifies, SignatureOk
  <2> QED
    BY <1>1, <1>2, <2>1, <2>2, <2>3, <2>4 DEF Chained
<1>7. OpenNew(k, f) \/ OpenSaved(k, f) \/ Rebuild(k, hour)
  BY DEF Open, OpenRebuild, OpenUnread
<1>8. status' = "invalid" => pc' = "idle"
  BY DEF Open, OpenNew, OpenSaved, OpenRebuild, OpenUnread, Rebuild, Alarm, Opened
<1> QED
  BY <1>3, <1>4, <1>5, <1>6, <1>7, <1>8

LEMMA ChainedStored == ASSUME IInv, Chained, RecordStored PROVE Chained'
<1>1. /\ pc = "write" /\ status # "invalid" /\ Serving /\ pending \in Record
      /\ pending.seq = pos.count + 1 /\ pending.dir >= pos.dir
      /\ stateFile.pos.count <= pos.count
  BY DEF RecordStored, IInv, InFlight, Serving, HeadPosition
<1>2. /\ pending.seq \in Nat /\ pending.dir \in Nat /\ At(pending).count = pending.seq
      /\ pending.sig = keyed
  BY <1>1, RecordType DEF Chained
<1>3. \A r \in disk : r.seq <= pos.count /\ r.dir <= pos.dir
  BY <1>1, HeadIsLast
<1>4. disk' = disk \cup {pending}
  BY <1>1, <1>2, <1>3, ChainFacts DEF RecordStored, Put
<1>5. /\ pos'.count = pending.seq /\ pc' = "state"
      /\ UNCHANGED <<stateFile, keyed, status, signedFrom>>
  BY <1>2 DEF RecordStored
<1>6. \A q, r \in disk' : (q.seq = r.seq => q = r) /\ (q.seq < r.seq => q.dir <= r.dir)
  BY <1>1, <1>2, <1>3, <1>4, ChainFacts
<1>7. \A r \in disk' : r.seq <= pos'.count
  BY <1>1, <1>2, <1>3, <1>4, <1>5, ChainFacts
<1>8. signedFrom > 0 => keyed /\ \A r \in disk' : r.seq >= signedFrom => r.sig
  BY <1>1, <1>2, <1>4 DEF Chained
<1>9. stateFile.signedFrom > 0
        => \A r \in disk' : stateFile.signedFrom <= r.seq /\ r.seq <= stateFile.pos.count => r.sig
  BY <1>1, <1>2, <1>4, ChainFacts
<1> QED
  BY <1>4, <1>5, <1>6, <1>7, <1>8, <1>9 DEF Chained

\* The process goes on, or is gone, and no object changed
LEMMA ChainedQuiet ==
    ASSUME IInv, Chained, UNCHANGED <<disk, stateFile>>,
           \/ Gone
           \/ pc # "down" /\ pc' = "idle" /\ UNCHANGED <<keyed, status, pos, signedFrom>>
    PROVE  Chained'
<1>1. CASE Gone
  BY <1>1 DEF Gone, Chained, Serving
<1>2. CASE pc # "down" /\ pc' = "idle" /\ UNCHANGED <<keyed, status, pos, signedFrom>>
  BY <1>2 DEF Chained, Serving
<1> QED
  BY <1>1, <1>2

LEMMA ChainedSaved ==
    ASSUME IInv, Chained, pc \in {"state", "sig"}, stateFile' = Snapshot, disk' = disk,
           \/ Gone
           \/ pc' \in {"idle", "sig"} /\ UNCHANGED <<keyed, status, pos, signedFrom>>
    PROVE  Chained'
<1>1. Serving /\ disk # {}
  BY DEF IInv, InFlight, Serving, Chained
<1>2. /\ \A q, r \in disk : (q.seq = r.seq => q = r) /\ (q.seq < r.seq => q.dir <= r.dir)
      /\ \A r \in disk : r.seq <= pos.count
      /\ signedFrom > 0 => keyed /\ \A r \in disk : r.seq >= signedFrom => r.sig
  BY <1>1 DEF Chained
<1>3. stateFile'.signedFrom > 0
        => \A r \in disk : stateFile'.signedFrom <= r.seq /\ r.seq <= stateFile'.pos.count => r.sig
  BY <1>2, SnapshotFields
<1>4. CASE Gone
  BY <1>1, <1>2, <1>3, <1>4 DEF Gone, Chained, Serving
<1>5. CASE pc' \in {"idle", "sig"} /\ UNCHANGED <<keyed, status, pos, signedFrom>>
  BY <1>1, <1>2, <1>3, <1>5 DEF Chained, Serving
<1> QED
  BY <1>4, <1>5

LEMMA ChainedStep == ASSUME "late" \notin FaultKinds, IInv, Chained, [Next]_vars PROVE Chained'
<1>1. CASE \E k \in KeyModes, f \in FailModes, hour \in Hours : Open(k, f, hour)
  BY <1>1, ChainedOpen
<1>2. CASE \E hour \in Hours : RecordCall(hour)
  <2>1. /\ pc = "idle" /\ status # "invalid" /\ pc' = "write" /\ pending'.sig = keyed
        /\ UNCHANGED <<disk, stateFile, keyed, status, pos, signedFrom>>
    BY <1>2 DEF RecordCall, NextRecord, durable
  <2> QED
    BY <2>1 DEF Chained, Serving
<1>3. CASE RecordRefused
  <2>1. /\ pc = "idle" /\ pc' = "idle"
        /\ UNCHANGED <<disk, stateFile, keyed, status, pos, signedFrom>>
    BY <1>3 DEF RecordRefused, durable
  <2> QED
    BY <2>1, ChainedQuiet
<1>4. CASE RecordStored
  BY <1>4, ChainedStored
<1>5. CASE \E kind \in FaultKind : RecordNotWritten(kind)
  BY <1>5, ChainedQuiet DEF RecordNotWritten, Fault, Idle
<1>6. CASE StateSaved
  <2>1. /\ pc = "state" /\ stateFile' = Snapshot /\ disk' = disk
        /\ pc' \in {"idle", "sig"} /\ UNCHANGED <<keyed, status, pos, signedFrom>>
    BY <1>6 DEF StateSaved, SaveState, Idle
  <2> QED
    BY <2>1, ChainedSaved
<1>7. CASE SignatureSaved
  BY <1>7, ChainedQuiet DEF SignatureSaved, Idle
<1>8. CASE \E kind \in FaultKind : StateNotSaved(kind)
  BY <1>8, ChainedQuiet DEF StateNotSaved, Fault, Idle
<1>9. CASE AcknowledgeRebuild
  <2>1. /\ pc = "idle" /\ status = "rebuilt" /\ pc' = "state" /\ status' = "ok"
        /\ UNCHANGED <<disk, stateFile, keyed, pos, signedFrom>>
    BY <1>9 DEF AcknowledgeRebuild, durable
  <2> QED
    BY <2>1 DEF Chained, Serving
<1>10. CASE Stop
  BY <1>10, ChainedQuiet DEF Stop, durable
<1>11. CASE UNCHANGED vars
  BY <1>11 DEF vars, durable, memory, Chained, Serving
<1> QED
  BY <1>1, <1>2, <1>3, <1>4, <1>5, <1>6, <1>7, <1>8, <1>9, <1>10, <1>11 DEF Next

LEMMA InitChained == Init => Chained
BY DEF Init, Chained, Serving, NoFile

LEMMA ChainedAlways == "late" \notin FaultKinds => (Spec => []Chained)
<1> SUFFICES ASSUME "late" \notin FaultKinds PROVE Spec => []Chained
  OBVIOUS
<1>1. IInv /\ Chained /\ [Next]_vars => Chained'
  BY ChainedStep
<1> QED
  BY <1>1, InitChained, Inductive, PTL DEF Spec

\* While every failed write leaves nothing behind, an untouched store verifies
\* whenever it is open and not invalid: verify() finds one chain, signed where
\* it has to be, up to the head in memory.
THEOREM OpenStoresVerify == "late" \notin FaultKinds => (Spec => []OpenStoreVerifies)
<1>1. IInv /\ Chained => OpenStoreVerifies
  <2> SUFFICES ASSUME IInv, Chained, pc = "idle", status # "invalid" PROVE StoreVerifies
    BY DEF OpenStoreVerifies
  <2>1. Serving
    BY DEF Serving
  <2>2. Verifies(disk, 0, Genesis, keyed, signedFrom)
    <3> SUFFICES ASSUME NEW r \in disk
                 PROVE  /\ r.seq > 0
                        /\ \A q \in disk : (q.seq = r.seq => q = r) /\ (q.seq < r.seq => q.dir <= r.dir)
                        /\ \/ r.seq = 0 + 1 /\ r.prev = Genesis
                           \/ \E q \in disk : q.seq + 1 = r.seq /\ q.hash = r.prev
                        /\ SignatureOk(r, keyed, signedFrom)
      BY DEF Verifies
    <3>1. SignatureOk(r, keyed, signedFrom)
      BY <2>1 DEF Chained, SignatureOk
    <3> QED
      BY <3>1, ChainFacts DEF Linked
  <2>3. pos.count > 0 => \E r \in disk : r.seq = pos.count /\ r.hash = pos.head
    BY MemoryType DEF Backed, Origin, At
  <2> QED
    BY <2>2, <2>3 DEF StoreVerifies
<1> SUFFICES ASSUME "late" \notin FaultKinds PROVE Spec => []OpenStoreVerifies
  OBVIOUS
<1>2. Spec => []Chained
  BY ChainedAlways
<1> QED
  BY <1>1, <1>2, Inductive, PTL

\* Without an unsigned record, or without the key, what a start reads is sound
LEMMA SoundUnlessUnsigned ==
    ASSUME IInv, Chained, NEW k \in BOOLEAN, k => \A r \in disk : r.sig
    PROVE  /\ \A from \in Nat : /\ HeadOk(k, from)
                                /\ Verifies(StoredTail, stateFile.pos.count, stateFile.pos.head, k, from)
           /\ Verifies(disk, 0, Genesis, k, 1)
<1> DEFINE at == stateFile.pos
<1>1. \A r \in disk, from \in Nat : SignatureOk(r, k, from)
  BY DEF SignatureOk
<1>2. at \in Position /\ Backed(at, disk) /\ NoneBelow(at, disk)
  BY Durable
<1>3. \A from \in Nat : HeadOk(k, from)
  BY <1>1, <1>2 DEF HeadOk, Backed, Origin
<1>4. ASSUME NEW from \in Nat PROVE Verifies(StoredTail, at.count, at.head, k, from)
  <2> SUFFICES ASSUME NEW r \in StoredTail
               PROVE  /\ r.seq > at.count
                      /\ \A q \in StoredTail : (q.seq = r.seq => q = r) /\ (q.seq < r.seq => q.dir <= r.dir)
                      /\ \/ r.seq = at.count + 1 /\ r.prev = at.head
                         \/ \E q \in StoredTail : q.seq + 1 = r.seq /\ q.hash = r.prev
                      /\ SignatureOk(r, k, from)
    BY DEF Verifies
  <2>1. r \in disk /\ r.seq > at.count /\ StoredTail \subseteq disk
    BY DEF StoredTail
  <2>2. \/ r.seq = at.count + 1 /\ r.prev = at.head
        \/ \E q \in StoredTail : q.seq + 1 = r.seq /\ q.hash = r.prev
    <3>1. CASE r.seq = 1 /\ r.prev = Genesis
      <4>1. at.count = 0
        BY <2>1, <3>1, ChainFacts
      <4>2. at = Origin
        <5> SUFFICES ASSUME at # Origin PROVE FALSE
          OBVIOUS
        <5>1. PICK h \in disk : At(h) = at
          BY <1>2 DEF Backed
        <5>2. h.seq = 0
          BY <4>1, <5>1 DEF At
        <5> QED
          BY <5>2, ChainFacts
      <4> QED
        BY <3>1, <4>1, <4>2 DEF Origin
    <3>2. CASE \E q \in disk : q.seq + 1 = r.seq /\ q.hash = r.prev
      <4>1. PICK q \in disk : q.seq + 1 = r.seq /\ q.hash = r.prev
        BY <3>2
      <4>2. CASE q.seq > at.count
        BY <1>2, <4>1, <4>2 DEF NoneBelow, StoredTail
      <4>3. CASE q.seq = at.count
        <5>1. at # Origin
          BY <4>3, ChainFacts DEF Origin
        <5>2. PICK h \in disk : At(h) = at
          BY <1>2, <5>1 DEF Backed
        <5>3. h.seq = at.count /\ h.hash = at.head
          BY <5>2 DEF At
        <5>4. h = q
          BY <4>3, <5>3, ChainFacts
        <5> QED
          BY <4>1, <4>3, <5>3, <5>4
      <4> QED
        BY <2>1, <4>1, <4>2, <4>3, ChainFacts
    <3> QED
      BY <2>1, <3>1, <3>2, ChainFacts DEF Linked
  <2> QED
    BY <1>1, <2>1, <2>2, ChainFacts
<1>5. Verifies(disk, 0, Genesis, k, 1)
  <2> SUFFICES ASSUME NEW r \in disk
               PROVE  /\ r.seq > 0
                      /\ \A q \in disk : (q.seq = r.seq => q = r) /\ (q.seq < r.seq => q.dir <= r.dir)
                      /\ \/ r.seq = 0 + 1 /\ r.prev = Genesis
                         \/ \E q \in disk : q.seq + 1 = r.seq /\ q.hash = r.prev
                      /\ SignatureOk(r, k, 1)
    BY DEF Verifies
  <2> QED
    BY <1>1, ChainFacts DEF Linked
<1> QED
  BY <1>3, <1>4, <1>5

LEMMA CauseOpen ==
    ASSUME "read" \notin FaultKinds, IInv, Chained, NEW k \in KeyModes, NEW f \in FailModes,
           NEW hour \in Hours, Open(k, f, hour), status' = "invalid"
    PROVE  IF k THEN \E r \in disk : ~r.sig ELSE stateFile = NoFile
<1>1. k \in BOOLEAN
  BY ModesAssumption
<1>2. CASE OpenNew(k, f)
  BY <1>2 DEF OpenNew
<1>3. CASE OpenSaved(k, f)
  <2> DEFINE from == RestoredSignedFrom(k)
  <2>1. ~(HeadOk(k, from) /\ Verifies(StoredTail, stateFile.pos.count, stateFile.pos.head, k, from))
    BY <1>3 DEF OpenSaved
  <2>2. from \in Nat
    BY ChainFacts DEF RestoredSignedFrom
  <2> HIDE DEF from
  <2>3. ~(k => \A r \in disk : r.sig)
    BY <1>1, <2>1, <2>2, SoundUnlessUnsigned
  <2> QED
    BY <2>3
<1>4. CASE OpenRebuild(k, f, hour)
  <2>1. /\ ~(k /\ disk # {} /\ Verifies(disk, 0, Genesis, TRUE, 1))
        /\ (stateFile = NoFile /\ disk # {}) \/ (stateFile # NoFile /\ k)
    BY <1>4 DEF OpenRebuild, Rebuild
  <2>2. disk # {}
    BY <2>1 DEF Chained
  <2>3. k => ~(\A r \in disk : r.sig)
    BY <1>1, <2>1, <2>2, SoundUnlessUnsigned
  <2> QED
    BY <2>1, <2>3
<1>5. CASE OpenUnread(k, f, hour)
  BY <1>5 DEF OpenUnread, Fault
<1> QED
  BY <1>2, <1>3, <1>4, <1>5 DEF Open

LEMMA CauseStep ==
    ASSUME "read" \notin FaultKinds, IInv, Chained, InvalidNeedsCause, [Next]_vars
    PROVE  InvalidNeedsCause'
<1>1. CASE \E k \in KeyModes, f \in FailModes, hour \in Hours : Open(k, f, hour)
  <2>1. PICK k \in KeyModes, f \in FailModes, hour \in Hours : Open(k, f, hour)
    BY <1>1
  <2>2. keyed' = k /\ disk' = disk /\ stateFile' = stateFile
    BY <2>1 DEF Open, OpenNew, OpenSaved, OpenRebuild, OpenUnread, Start, durable
  <2>3. status' = "invalid" => IF k THEN \E r \in disk : ~r.sig ELSE stateFile = NoFile
    BY <2>1, CauseOpen
  <2> QED
    BY <2>2, <2>3 DEF InvalidNeedsCause
<1>2. CASE (\E hour \in Hours : RecordCall(hour)) \/ AcknowledgeRebuild \/ Stop
  BY <1>2 DEF RecordCall, AcknowledgeRebuild, Stop, Gone, InvalidNeedsCause
<1>3. CASE RecordRefused
  BY <1>3 DEF RecordRefused, durable, InvalidNeedsCause
<1>4. CASE \/ RecordStored \/ StateSaved \/ SignatureSaved
           \/ \E kind \in FaultKind : RecordNotWritten(kind) \/ StateNotSaved(kind)
  <2>1. status # "invalid"
    BY <1>4 DEF IInv, InFlight, RecordStored, StateSaved, SignatureSaved, RecordNotWritten, StateNotSaved
  <2>2. status' # "invalid"
    BY <1>4, <2>1 DEF RecordStored, StateSaved, SignatureSaved, RecordNotWritten, StateNotSaved,
                      Idle, Gone
  <2> QED
    BY <2>2 DEF InvalidNeedsCause
<1>5. CASE UNCHANGED vars
  BY <1>5 DEF vars, durable, memory, InvalidNeedsCause
<1> QED
  BY <1>1, <1>2, <1>3, <1>4, <1>5 DEF Next

\* With reliable reads and no half-done writes an interruption makes a chain
\* invalid for two reasons only: without the key, a first state that was never
\* saved; with it, a stored record that is not signed.
THEOREM InvalidHasCause ==
    "late" \notin FaultKinds /\ "read" \notin FaultKinds => (Spec => []InvalidNeedsCause)
<1> SUFFICES ASSUME "late" \notin FaultKinds, "read" \notin FaultKinds
             PROVE  Spec => []InvalidNeedsCause
  OBVIOUS
<1>1. Init => InvalidNeedsCause
  BY DEF Init, InvalidNeedsCause
<1>2. IInv /\ Chained /\ InvalidNeedsCause /\ [Next]_vars => InvalidNeedsCause'
  BY CauseStep
<1>3. Spec => []Chained
  BY ChainedAlways
<1> QED
  BY <1>1, <1>2, <1>3, Inductive, PTL DEF Spec

-----------------------------------------------------------------------------
(***************************************************************************)
(* The verification loop: its invariant, its verdict, and what a           *)
(* verification resumed at a checkpoint answers.                           *)
(***************************************************************************)

\* Types of what a call names
LEMMA CallType ==
    ASSUME NEW c \in Call
    PROVE  /\ Lower(c) \in Nat /\ Lower(c) > 0 /\ Base(c) \in {1, 2}
           /\ c.state.count \in Nat
           /\ c.state.count > 0 => c.state.head \in Hashes
           /\ c.checkpoint \in Checkpoint
           /\ HasCheckpoint(c) => c.checkpoint.seq \in Nat /\ c.checkpoint.hash \in Hashes
           /\ c.fromSeq \in Nat
<1>1. /\ c.fromSeq \in Numbers /\ c.checkpoint \in Checkpoint /\ c.state \in ChainState
  BY DEF Call
<1>2. \A n \in Numbers : n \in Nat /\ n > 0
  BY NumbersAssumption
<1>3. HasCheckpoint(c) => c.checkpoint.seq \in Numbers /\ c.checkpoint.hash \in Hashes
  BY <1>1 DEF HasCheckpoint, Checkpoint
<1>4. c.state.count \in Numbers \cup {0} /\ (c.state.count > 0 => c.state.head \in Hashes)
  BY <1>1 DEF ChainState, NoState
<1> QED
  BY <1>1, <1>2, <1>3, <1>4 DEF Lower, Base

LEMMA EntryType ==
    ASSUME NEW es \in Seq(Entry), NEW j \in 1..Len(es)
    PROVE  /\ es[j] \in Entry /\ es[j].seq \in Numbers /\ es[j].seq \in Nat /\ es[j].seq > 0
           /\ es[j].hash \in Hashes /\ es[j].hash # None
           /\ es[j].prev \in Hashes \cup {GenesisLink} /\ es[j].prev # None
<1>1. es[j] \in Entry
  OBVIOUS
<1>2. es[j].seq \in Numbers /\ es[j].hash \in Hashes /\ es[j].prev \in Hashes \cup {GenesisLink}
  BY <1>1 DEF Entry
<1>3. \A n \in Numbers : n \in Nat /\ n > 0
  BY NumbersAssumption
<1>4. \A h \in Hashes : h # None
  BY HashesAssumption
<1> QED
  BY <1>1, <1>2, <1>3, <1>4 DEF None, GenesisLink

\* A record in its place passes the checks of the loop exactly when it is fine
LEMMA RecordErrorIsFine ==
    ASSUME LoopInv, stage = "walk", next \in 1..Len(entries)
    PROVE  RecordError(entries[next]) = "none" <=> Fine(entries, call, next)
<1>1. /\ entries \in Seq(Entry) /\ call \in Call /\ Lower(call) \in Nat
      /\ expected = Lower(call) + next - 1 /\ previous = Before(entries, call, next)
      /\ next >= Base(call)
  BY CallType DEF LoopInv, VerifyTypeOK, Walked
<1>2. entries[next].seq \in Nat /\ expected \in Nat /\ entries[next].prev # None
  BY <1>1, EntryType DEF LoopInv, VerifyTypeOK
<1>3. SignatureError(entries[next], call) \in {"none", "unsigned", "signature_invalid"}
  BY DEF SignatureError
<1> QED
  BY <1>1, <1>2, <1>3 DEF RecordError, Fine

\* All fine up to the end: what the state asks for is what the loop looks at
LEMMA EndErrorIsState ==
    ASSUME LoopInv, stage = "walk", next > Len(entries)
    PROVE  EndError = "none" <=> StateFine(entries, call) /\ call.problem = "none"
<1> DEFINE n == call.state.count
           low == Lower(call)
<1>1. /\ entries \in Seq(Entry) /\ call \in Call /\ Walked /\ next \in 1..(Len(entries) + 1)
  BY DEF LoopInv, VerifyTypeOK
<1>2. /\ low \in Nat /\ low > 0 /\ n \in Nat
      /\ n > 0 => call.state.head \in Hashes
      /\ Base(call) \in {1, 2}
      /\ HasCheckpoint(call) => call.checkpoint.seq \in Nat
  BY <1>1, CallType
<1>3. Len(entries) \in Nat /\ next = Len(entries) + 1 /\ expected = low + Len(entries)
  BY SMTT(40), <1>1, <1>2 DEF Walked
<1>4. \A j \in 1..Len(entries) : entries[j].seq = low + j - 1
  <2> SUFFICES ASSUME NEW j \in 1..Len(entries) PROVE entries[j].seq = low + j - 1
    OBVIOUS
  <2>1. CASE j >= Base(call)
    BY <2>1, <1>1, <1>2, <1>3 DEF Walked, Fine
  <2>2. CASE j < Base(call)
    BY <2>2, <1>1, <1>2, <1>3 DEF Walked, CheckpointFine, Base, Lower
  <2> QED
    BY <2>1, <2>2, <1>2
<1>5. CASE n < low
  BY <1>5, <1>1, <1>2, <1>3 DEF EndError, StateFine
<1>6. CASE n >= low
  <2> DEFINE at == n - low + 1
  <2>1. n > 0 /\ at \in Nat /\ at > 0
    BY <1>2, <1>6
  <2>2. CASE expected <= n
    <3>1. \A j \in 1..Len(entries) : entries[j].seq # n
      BY <1>2, <1>3, <1>4, <2>2
    <3> QED
      BY <3>1, <1>6, <2>2 DEF EndError, StateFine
  <2>3. CASE ~(expected <= n)
    <3>1. at \in 1..Len(entries)
      BY <1>2, <1>3, <2>1, <2>3
    <3>2. atCount = entries[at].hash
      BY <1>1, <1>3, <3>1 DEF Walked, AtCount
    <3>3. entries[at].seq = n
      <4>1. entries[at].seq = low + at - 1
        BY <1>4, <3>1
      <4> QED
        BY <1>2, <4>1
    <3>4. \A j \in 1..Len(entries) : entries[j].seq = n => j = at
      BY <1>2, <1>3, <1>4
    <3> QED
      BY <3>1, <3>2, <3>3, <3>4, <1>6, <2>3 DEF EndError, StateFine
  <2> QED
    BY <2>2, <2>3
<1> QED
  BY <1>2, <1>5, <1>6

(***************************************************************************)
(* The loop invariant, one lemma per action.                               *)
(***************************************************************************)
LEMMA VerifyInitInv == VerifyInit => LoopInv
<1> SUFFICES ASSUME VerifyInit PROVE LoopInv
  OBVIOUS
<1>1. Len(entries) \in Nat
  BY DEF VerifyInit
<1>2. EmptyReport \in [valid : BOOLEAN, reason : Reasons, seq : Nat, records : Nat,
                      signed : Nat, unsigned : Nat, checkpoint : Checkpoint]
  BY DEF EmptyReport, Checkpoint, Reasons
<1>3. VerifyTypeOK
  BY <1>1, <1>2 DEF VerifyInit, VerifyTypeOK
<1> QED
  BY <1>3 DEF VerifyInit, LoopInv, VerdictIsSound, FirstFailure, ReportCovers

\* The walk starts where the call says
LEMMA BeginInv ==
    ASSUME LoopInv, BeginAtNumber \/ BeginAtCheckpoint
    PROVE  LoopInv'
<1>1. /\ entries \in Seq(Entry) /\ call \in Call /\ Len(entries) \in Nat
      /\ report = EmptyReport /\ next = 1 /\ atCount = None
      /\ report \in [valid : BOOLEAN, reason : Reasons, seq : Nat, records : Nat,
                     signed : Nat, unsigned : Nat, checkpoint : Checkpoint]
      /\ Listed(entries, call)
  BY DEF LoopInv, VerifyTypeOK, BeginAtNumber, BeginAtCheckpoint
<1>2. /\ Lower(call) \in Nat /\ Lower(call) > 0 /\ call.fromSeq \in Nat
      /\ call.state.count \in Nat /\ call.checkpoint \in Checkpoint
      /\ HasCheckpoint(call) => call.checkpoint.seq \in Nat /\ call.checkpoint.hash \in Hashes
  BY <1>1, CallType
<1>3. CASE BeginAtNumber
  <2>1. VerifyTypeOK'
    BY <1>1, <1>2, <1>3 DEF BeginAtNumber, VerifyTypeOK, Listed
  <2>2. Walked'
    BY <1>1, <1>2, <1>3 DEF BeginAtNumber, Walked, CheckpointFine, Base, Lower, Before,
       AtCount, EmptyReport
  <2> QED
    BY <2>1, <2>2, <1>3 DEF BeginAtNumber, LoopInv, VerdictIsSound, FirstFailure, ReportCovers
<1>4. CASE BeginAtCheckpoint
  <2> DEFINE cp == call.checkpoint
  <2>1. /\ entries # <<>> /\ Len(entries) >= 1 /\ entries[1] \in Entry
        /\ entries[1].seq = cp.seq /\ entries[1].hash = cp.hash
        /\ entries[1].load \in {"altered", "intact"}
    <3>1. entries # <<>> /\ Head(entries).seq = cp.seq /\ Head(entries).load # "gone"
          /\ Head(entries).load # "garbled" /\ Head(entries).hash = cp.hash
      BY <1>4 DEF BeginAtCheckpoint, CheckpointError
    <3>2. Len(entries) >= 1 /\ Head(entries) = entries[1]
      BY <3>1, <1>1
    <3>3. entries[1] \in Entry
      BY <3>2, <1>1, EntryType
    <3> QED
      BY <3>1, <3>2, <3>3 DEF Entry
  <2>2. HasCheckpoint(call) /\ cp \in Checkpoint /\ cp # NoCheckpoint /\ cp = [seq |-> cp.seq, hash |-> cp.hash]
    BY <1>2, <1>4 DEF BeginAtCheckpoint, HasCheckpoint, Checkpoint
  <2>3. report' = [report EXCEPT !.checkpoint = cp]
    BY <1>4 DEF BeginAtCheckpoint
  <2>4. VerifyTypeOK'
    <3>1. report' \in [valid : BOOLEAN, reason : Reasons, seq : Nat, records : Nat,
                      signed : Nat, unsigned : Nat, checkpoint : Checkpoint]
      BY <1>1, <2>2, <2>3
    <3>2. /\ next' \in 1..(Len(entries) + 1) /\ expected' \in Nat /\ previous' \in Hashes
          /\ atCount' \in Hashes \cup {None}
      BY <1>1, <1>2, <1>4, <2>1, <2>2 DEF BeginAtCheckpoint
    <3> QED
      BY <1>1, <3>1, <3>2, <1>4 DEF BeginAtCheckpoint, VerifyTypeOK, Listed
  <2>5. /\ report'.valid /\ report'.records = 0 /\ report'.signed = 0 /\ report'.unsigned = 0
        /\ report'.checkpoint = cp
    BY <1>1, <2>3 DEF EmptyReport
  <2>6. AtCount' = IF call.state.count = cp.seq THEN entries[1].hash ELSE None
    BY SMTT(40), <1>1, <1>2, <1>4, <2>2 DEF BeginAtCheckpoint, AtCount, Lower
  <2>7. Walked'
    BY <1>1, <1>2, <1>4, <2>1, <2>2, <2>5, <2>6
       DEF BeginAtCheckpoint, Walked, CheckpointFine, Base, Lower, Before
  <2> QED
    BY <2>4, <2>7, <1>4 DEF BeginAtCheckpoint, LoopInv, VerdictIsSound, FirstFailure, ReportCovers
<1> QED
  BY <1>3, <1>4

\* Every failure ends with an invalid report
LEMMA FailType ==
    ASSUME LoopInv, NEW reason \in Reasons, NEW seq \in Nat, Fail(reason, seq)
    PROVE  /\ VerifyTypeOK' /\ stage' = "done" /\ ~report'.valid /\ report'.seq = seq
           /\ UNCHANGED <<entries, call, next>>
<1>1. NoCheckpoint \in Checkpoint
  BY DEF Checkpoint
<1>2. report' \in [valid : BOOLEAN, reason : Reasons, seq : Nat, records : Nat,
                  signed : Nat, unsigned : Nat, checkpoint : Checkpoint]
  BY <1>1 DEF LoopInv, VerifyTypeOK, Fail
<1>3. ~report'.valid /\ report'.seq = seq
  BY DEF LoopInv, VerifyTypeOK, Fail
<1> QED
  BY <1>2, <1>3 DEF LoopInv, VerifyTypeOK, Fail, Listed

LEMMA CheckpointFailsInv == ASSUME LoopInv, CheckpointFails PROVE LoopInv'
<1>1. /\ stage = "begin" /\ next = 1 /\ HasCheckpoint(call) /\ CheckpointError # "none"
      /\ entries \in Seq(Entry) /\ call \in Call /\ Len(entries) \in Nat
  BY DEF LoopInv, VerifyTypeOK, CheckpointFails
<1>2. CheckpointError \in Reasons /\ call.checkpoint.seq \in Nat /\ Base(call) = 2
      /\ Lower(call) = call.checkpoint.seq
  BY <1>1, CallType DEF CheckpointError, Base, Lower, Reasons
<1>3. /\ VerifyTypeOK' /\ stage' = "done" /\ ~report'.valid /\ report'.seq = call.checkpoint.seq
      /\ UNCHANGED <<entries, call, next>>
  BY <1>1, <1>2, FailType DEF CheckpointFails
<1>4. ~CheckpointFine(entries, call)
  <2>1. CASE entries = <<>>
    BY <2>1, <1>1 DEF CheckpointFine
  <2>2. CASE entries # <<>>
    <3>1. Head(entries) = entries[1] /\ Len(entries) > 0
      BY <2>2, <1>1
    <3> QED
      BY <3>1, <2>2, <1>1 DEF CheckpointError, CheckpointFine
  <2> QED
    BY <2>1, <2>2
<1> QED
  BY <1>1, <1>2, <1>3, <1>4 DEF LoopInv, VerdictIsSound, FirstFailure, ReportCovers, Sound

LEMMA RecordFailsInv == ASSUME LoopInv, RecordFails PROVE LoopInv'
<1> DEFINE e == entries[next]
           seq == IF e.seq > expected THEN expected ELSE e.seq
<1>1. /\ stage = "walk" /\ Walked /\ next \in 1..Len(entries) /\ RecordError(e) # "none"
      /\ entries \in Seq(Entry) /\ call \in Call /\ Len(entries) \in Nat
      /\ Fail(RecordError(e), seq) /\ expected \in Nat
  BY DEF LoopInv, VerifyTypeOK, RecordFails
<1>2. RecordError(e) \in Reasons
  BY DEF RecordError, SignatureError, Reasons
<1>3. e.seq \in Nat /\ seq \in Nat /\ seq <= expected
  BY <1>1, EntryType
<1>4. /\ VerifyTypeOK' /\ stage' = "done" /\ ~report'.valid /\ report'.seq = seq
      /\ UNCHANGED <<entries, call, next>>
  BY <1>1, <1>2, <1>3, FailType
<1>5. ~Fine(entries, call, next)
  BY <1>1, RecordErrorIsFine
<1>6. /\ Base(call) \in {1, 2} /\ next >= Base(call) /\ Lower(call) \in Nat
      /\ expected = Lower(call) + next - 1
      /\ \A j \in Base(call)..(next - 1) : Fine(entries, call, j)
  BY <1>1, CallType DEF Walked
<1>7. ~Sound(entries, call)
  BY <1>1, <1>5, <1>6 DEF Sound
<1> QED
  BY <1>1, <1>3, <1>4, <1>5, <1>6, <1>7 DEF LoopInv, VerdictIsSound, FirstFailure, ReportCovers

LEMMA RecordCheckedInv == ASSUME LoopInv, RecordChecked PROVE LoopInv'
<1> DEFINE e == entries[next]
<1>1. /\ stage = "walk" /\ stage' = "walk" /\ Walked /\ next \in 1..Len(entries)
      /\ RecordError(e) = "none"
      /\ entries \in Seq(Entry) /\ call \in Call /\ Len(entries) \in Nat
      /\ Listed(entries, call) /\ expected \in Nat
      /\ report \in [valid : BOOLEAN, reason : Reasons, seq : Nat, records : Nat,
                     signed : Nat, unsigned : Nat, checkpoint : Checkpoint]
      /\ atCount \in Hashes \cup {None}
  BY DEF LoopInv, VerifyTypeOK, RecordChecked
<1>2. /\ entries' = entries /\ call' = call /\ next' = next + 1 /\ expected' = expected + 1
      /\ previous' = e.hash
      /\ atCount' = IF e.seq = call.state.count THEN e.hash ELSE atCount
      /\ report' = Counted(e)
  BY DEF RecordChecked
<1>3. e.seq \in Numbers /\ e.seq \in Nat /\ e.hash \in Hashes
  BY <1>1, EntryType
<1>4. Fine(entries, call, next)
  BY <1>1, RecordErrorIsFine
<1>5. /\ report' \in [valid : BOOLEAN, reason : Reasons, seq : Nat, records : Nat,
                      signed : Nat, unsigned : Nat, checkpoint : Checkpoint]
      /\ report'.valid = report.valid /\ report'.records = report.records + 1
      /\ report'.signed + report'.unsigned = report.signed + report.unsigned + 1
      /\ report'.checkpoint = [seq |-> e.seq, hash |-> e.hash]
  <2>1. [seq |-> e.seq, hash |-> e.hash] \in Checkpoint
    BY <1>3 DEF Checkpoint
  <2>2. /\ report.records \in Nat /\ report.signed \in Nat /\ report.unsigned \in Nat
    BY <1>1
  <2>3. report.valid \in BOOLEAN /\ report.reason \in Reasons /\ report.seq \in Nat
    BY <1>1
  <2> QED
    BY <2>1, <2>2, <2>3, <1>2 DEF Counted
<1>6. VerifyTypeOK'
  BY SMTT(40), <1>1, <1>2, <1>3, <1>5 DEF VerifyTypeOK, Listed
<1>7. /\ Base(call) \in {1, 2} /\ Lower(call) \in Nat /\ call.state.count \in Nat
      /\ next >= Base(call) /\ expected = Lower(call) + next - 1
      /\ e.seq = Lower(call) + next - 1
  BY <1>1, <1>4, CallType DEF Walked, Fine
<1>8. Walked'
  <2>1. \A j \in Base(call)..next : Fine(entries, call, j)
    BY <1>1, <1>4, <1>7 DEF Walked
  <2>2. CheckpointFine(entries, call)'
    BY <1>1, <1>2 DEF Walked, CheckpointFine, HasCheckpoint
  <2>3. previous' = Before(entries, call, next + 1)
    <3>1. next + 1 > Base(call) /\ (next + 1) - 1 = next
      BY <1>1, <1>7
    <3> QED
      BY <3>1, <1>2 DEF Before
  <2>4. atCount' = AtCount'
    <3> DEFINE j == call.state.count - Lower(call) + 1
    <3>1. AtCount' = IF j \in 1..next THEN entries[j].hash ELSE None
      BY <1>1, <1>2 DEF AtCount, Lower, HasCheckpoint
    <3>2. atCount = IF j \in 1..(next - 1) THEN entries[j].hash ELSE None
      BY <1>1 DEF Walked, AtCount
    <3>3. e.seq = call.state.count <=> j = next
      BY SMTT(40), <1>1, <1>7
    <3>4. CASE j = next
      BY <3>1, <3>3, <3>4, <1>1, <1>2
    <3>5. CASE j # next
      <4>0. j \in Int /\ next \in Int
        <5>1. next \in Int
          BY <1>1
        <5>2. j \in Int
          BY <1>7
        <5> QED
          BY <5>1, <5>2
      <4>1. (j \in 1..next => j \in 1..(next - 1)) /\ (j \in 1..(next - 1) => j \in 1..next)
        BY <3>5, <4>0
      <4> QED
        BY <4>1, <3>1, <3>2, <3>3, <3>5, <1>2
    <3> QED
      BY <3>4, <3>5
  <2>5. /\ report'.records = next + 1 - Base(call)
        /\ report'.signed + report'.unsigned = report'.records
    <3>1. report.records = next - Base(call) /\ report.signed + report.unsigned = report.records
      BY <1>1 DEF Walked
    <3>2. next \in Int /\ Base(call) \in Int /\ report.records \in Int
      BY <1>1, <1>7
    <3> QED
      BY <3>1, <3>2, <1>5
  <2>6. next' > 1 /\ next' - 1 = next
    BY <1>1, <1>2
  <2>7. Base(call') = Base(call) /\ Lower(call') = Lower(call) /\ next' >= Base(call)
    BY SMTT(40), <1>1, <1>2, <1>7
  <2>8. expected' = Lower(call) + next' - 1
    BY <1>1, <1>2, <1>7
  <2>9. report'.valid
    BY <1>1, <1>5 DEF Walked
  <2>10. \A j \in Base(call')..(next' - 1) : Fine(entries, call, j)'
    BY <1>2, <2>1, <2>6, <2>7
  <2>11. report'.checkpoint = [seq |-> entries[next].seq, hash |-> entries[next].hash]
    BY <1>5
  <2>12. previous' = Before(entries, call, next)'
    BY <1>2, <2>3
  <2>13. expected' = (Lower(call) + next - 1)'
    BY <2>7, <2>8
  <2>14. (report.records = next - Base(call) /\ report.signed + report.unsigned = report.records)'
    <3>1. report'.records = next' - Base(call')
      <4>1. next \in Int /\ next' = next + 1
        BY <1>1, <1>2
      <4>2. Base(call) \in Int /\ Base(call') = Base(call)
        BY <1>7, <2>7
      <4> QED
        BY <4>1, <4>2, <2>5
    <3> QED
      BY <3>1, <2>5
  <2>15. (report.checkpoint = IF next > 1 THEN [seq |-> entries[next - 1].seq, hash |-> entries[next - 1].hash]
                             ELSE NoCheckpoint)'
    BY <1>2, <2>6, <2>11
  <2>16. (next >= Base(call))'
    BY <2>7
  <2> QED
    BY <2>2, <2>4, <2>9, <2>10, <2>12, <2>13, <2>14, <2>15, <2>16 DEF Walked
<1> QED
  BY <1>1, <1>6, <1>8 DEF LoopInv, VerdictIsSound, FirstFailure, ReportCovers

\* The walk is over
LEMMA EndInv == ASSUME LoopInv, EndFails \/ EndValid PROVE LoopInv'
<1>1. /\ stage = "walk" /\ Walked /\ next > Len(entries) /\ next \in 1..(Len(entries) + 1)
      /\ entries \in Seq(Entry) /\ call \in Call /\ Len(entries) \in Nat /\ expected \in Nat
  BY DEF LoopInv, VerifyTypeOK, EndFails, EndValid
<1>2. next = Len(entries) + 1 /\ next - 1 = Len(entries)
  BY <1>1
<1>3. /\ Base(call) \in {1, 2} /\ Lower(call) \in Nat /\ call.state.count \in Nat
      /\ next >= Base(call) /\ expected = Lower(call) + next - 1
      /\ CheckpointFine(entries, call)
      /\ \A j \in Base(call)..Len(entries) : Fine(entries, call, j)
  BY <1>1, <1>2, CallType DEF Walked
<1>4. Sound(entries, call) <=> EndError = "none"
  BY <1>1, <1>3, EndErrorIsState DEF Sound
<1>5. CASE EndFails
  <2> DEFINE seq == CASE EndError = "missing_record" -> expected
                      [] EndError = "state_mismatch" -> call.state.count
                      [] OTHER -> 0
  <2>1. EndError # "none" /\ Fail(EndError, seq)
    BY <1>5 DEF EndFails
  <2>2. EndError \in Reasons
    BY <1>1 DEF EndError, Call, Reasons
  <2>3. EndError = "state_mismatch" => call.state.count < expected
    BY <1>1, <1>3 DEF EndError, Call
  <2>4. seq \in Nat /\ seq <= expected
    BY <1>1, <1>3, <2>3
  <2>5. /\ VerifyTypeOK' /\ stage' = "done" /\ ~report'.valid /\ report'.seq = seq
        /\ UNCHANGED <<entries, call, next>>
    BY <2>1, <2>2, <2>4, FailType
  <2> QED
    BY <1>1, <1>2, <1>3, <1>4, <2>1, <2>4, <2>5
       DEF LoopInv, VerdictIsSound, FirstFailure, ReportCovers
<1>6. CASE EndValid
  <2>1. /\ stage' = "done" /\ EndError = "none" /\ report' = report
        /\ UNCHANGED <<entries, call, next, expected, previous, atCount>>
    BY <1>6 DEF EndValid
  <2>2. VerifyTypeOK'
    BY <2>1 DEF LoopInv, VerifyTypeOK, Listed
  <2>3. Len(entries) > 0 <=> next > 1
    BY <1>1, <1>2
  <2> QED
    BY <1>1, <1>2, <1>3, <1>4, <2>1, <2>2, <2>3
       DEF LoopInv, Walked, VerdictIsSound, FirstFailure, ReportCovers
<1> QED
  BY <1>5, <1>6

LEMMA VerifyStepInv == ASSUME LoopInv, [VerifyNext]_verifyVars PROVE LoopInv'
<1>1. CASE UNCHANGED verifyVars
  <2>1. VerifyTypeOK'
    BY <1>1 DEF LoopInv, VerifyTypeOK, Listed, verifyVars
  <2>2. Walked' <=> Walked
    BY <1>1 DEF Walked, AtCount, CheckpointFine, verifyVars
  <2> QED
    BY <1>1, <2>1, <2>2 DEF LoopInv, VerdictIsSound, FirstFailure, ReportCovers, Sound, verifyVars
<1> QED
  BY <1>1, BeginInv, CheckpointFailsInv, RecordFailsInv, RecordCheckedInv, EndInv DEF VerifyNext

(***************************************************************************)
(* The theorems.                                                           *)
(***************************************************************************)
\* The accumulators of the loop say at every step what the records read say.
THEOREM LoopCorrect == VerifySpec => []LoopInv
<1>1. VerifyInit => LoopInv
  BY VerifyInitInv
<1>2. LoopInv /\ [VerifyNext]_verifyVars => LoopInv'
  BY VerifyStepInv
<1> QED
  BY <1>1, <1>2, PTL DEF VerifySpec

\* verify_entries answers valid exactly when the records are a chain.
THEOREM VerdictCorrect == VerifySpec => []VerdictIsSound
<1>1. LoopInv => VerdictIsSound
  BY DEF LoopInv
<1> QED
  BY <1>1, LoopCorrect, PTL

\* What it reports is the first failure.
THEOREM FailureIsFirst == VerifySpec => []FirstFailure
<1>1. LoopInv => FirstFailure
  BY DEF LoopInv
<1> QED
  BY <1>1, LoopCorrect, PTL

\* A valid report covers every record of the range and can be resumed from.
THEOREM ReportCorrect == VerifySpec => []ReportCovers
<1>1. LoopInv => ReportCovers
  BY DEF LoopInv
<1> QED
  BY <1>1, LoopCorrect, PTL

(***************************************************************************)
(* The seam between two verifications.                                     *)
(***************************************************************************)
\* The call that starts at the checkpoint's own record instead of after it
FromItsRecord(c) == [c EXCEPT !.checkpoint = NoCheckpoint, !.fromSeq = c.checkpoint.seq]

\* With the checkpoint's record a fine one of the checkpoint's hash, the
\* records after it are linked to the same hash either way
LEMMA SeamIsFine ==
    ASSUME NEW es \in Seq(Entry), NEW c \in Call, HasCheckpoint(c), Len(es) > 0,
           Fine(es, FromItsRecord(c), 1), es[1].hash = c.checkpoint.hash
    PROVE  Sound(es, c) <=> Sound(es, FromItsRecord(c))
<1> DEFINE from == FromItsRecord(c)
           low == c.checkpoint.seq
<1>1. /\ from.checkpoint = NoCheckpoint /\ from.fromSeq = low
      /\ from.state = c.state /\ from.problem = c.problem
      /\ from.key = c.key /\ from.signedFrom = c.signedFrom
  BY DEF FromItsRecord, Call
<1>2. /\ ~HasCheckpoint(from) /\ Lower(from) = low /\ Lower(c) = low
      /\ Base(from) = 1 /\ Base(c) = 2
      /\ low \in Nat /\ low > 0 /\ Len(es) \in Nat
  BY <1>1, CallType DEF HasCheckpoint, Lower, Base
<1>3. \A e : SignatureError(e, from) = SignatureError(e, c)
  BY <1>1 DEF SignatureError
<1>4. es[1].load = "intact" /\ es[1].seq = low
  BY <1>2 DEF Fine
<1>5. CheckpointFine(es, c) /\ CheckpointFine(es, from)
  BY <1>2, <1>4 DEF CheckpointFine
<1>6. \A j \in 2..Len(es) : Before(es, c, j) = Before(es, from, j)
  <2> SUFFICES ASSUME NEW j \in 2..Len(es) PROVE Before(es, c, j) = Before(es, from, j)
    OBVIOUS
  <2>1. Before(es, from, j) = es[j - 1].hash
    BY <1>2 DEF Before
  <2>2. CASE j = 2
    BY <1>2, <2>1, <2>2 DEF Before
  <2>3. CASE j > 2
    BY <1>2, <2>1, <2>3 DEF Before
  <2> QED
    BY <2>2, <2>3
<1>7. \A j \in 2..Len(es) : Fine(es, c, j) <=> Fine(es, from, j)
  BY <1>2, <1>3, <1>6 DEF Fine
<1>8. (\A j \in 2..Len(es) : Fine(es, c, j)) <=> (\A j \in 1..Len(es) : Fine(es, from, j))
  <2>1. \A j \in 1..Len(es) : j = 1 \/ j \in 2..Len(es)
    BY <1>2
  <2>2. \A j \in 2..Len(es) : j \in 1..Len(es)
    BY <1>2
  <2> QED
    BY <1>7, <2>1, <2>2
<1>9. StateFine(es, c) <=> StateFine(es, from)
  BY <1>1, <1>2 DEF StateFine
<1> SUFFICES Sound(es, c) <=> Sound(es, from)
  OBVIOUS
<1> HIDE DEF from
<1>10. Sound(es, c) <=> /\ \A j \in 2..Len(es) : Fine(es, c, j)
                        /\ StateFine(es, c) /\ c.problem = "none"
  BY <1>2, <1>5 DEF Sound
<1>11. Sound(es, from) <=> /\ \A j \in 1..Len(es) : Fine(es, from, j)
                           /\ StateFine(es, from) /\ from.problem = "none"
  BY <1>2, <1>5 DEF Sound
<1> QED
  BY <1>1, <1>8, <1>9, <1>10, <1>11

\* Resuming at a checkpoint says what verifying from its record on would.
THEOREM ResumeCorrect == VerifySpec => []ResumeAgrees
<1>1. ASSUME LoopInv PROVE ResumeAgrees
  <2> DEFINE from == FromItsRecord(call)
             alone == [from EXCEPT !.state = NoState, !.problem = "none"]
             first == <<entries[1]>>
  <2> SUFFICES ASSUME stage = "done", HasCheckpoint(call), Len(entries) > 0,
                      Sound(first, alone), entries[1].hash = call.checkpoint.hash
               PROVE  report.valid <=> Sound(entries, from)
    BY DEF ResumeAgrees, FromItsRecord
  <2>1. entries \in Seq(Entry) /\ call \in Call /\ (report.valid <=> Sound(entries, call))
    BY <1>1 DEF LoopInv, VerifyTypeOK, VerdictIsSound
  <2>2. /\ from.checkpoint = NoCheckpoint /\ alone.checkpoint = NoCheckpoint
        /\ alone.fromSeq = from.fromSeq /\ alone.key = from.key
        /\ alone.signedFrom = from.signedFrom
    BY <2>1 DEF FromItsRecord, Call
  <2>3. /\ Base(from) = 1 /\ Base(alone) = 1 /\ Lower(alone) = Lower(from)
        /\ ~HasCheckpoint(from) /\ ~HasCheckpoint(alone)
    BY <2>2 DEF Base, HasCheckpoint, Lower
  <2>4. Fine(first, alone, 1)
    <3>1. Len(first) = 1
      OBVIOUS
    <3> HIDE DEF alone, first
    <3> QED
      BY <2>3, <3>1 DEF Sound
  <2>5. first[1] = entries[1]
    OBVIOUS
  <2>6. Before(first, alone, 1) = Before(entries, from, 1)
    BY <2>2, <2>3 DEF Before
  <2>7. SignatureError(entries[1], alone) = SignatureError(entries[1], from)
    BY <2>2 DEF SignatureError
  <2> HIDE DEF from, alone, first
  <2>8. Fine(entries, from, 1)
    BY <2>3, <2>4, <2>5, <2>6, <2>7 DEF Fine
  <2> QED
    BY <2>1, <2>8, SeamIsFine DEF from
<1> QED
  BY <1>1, LoopCorrect, PTL
=============================================================================
