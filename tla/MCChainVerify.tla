--------------------------- MODULE MCChainVerify ---------------------------
(* Stores of up to MaxLen records, each a good record of a three-record     *)
(* chain or one with a defect, in any order, and the calls on them.         *)
EXTENDS ChainVerify

CONSTANT MaxLen   \* bound: records listed

\* Record n of the chain: hash n + 1, linked to the record before
Good(n) == [seq |-> n, load |-> "intact", num |-> n, prev |-> n, hash |-> n + 1, sig |-> "good"]

Choices ==
    {Good(n) : n \in 1..3}
    \cup {[Good(1) EXCEPT !.sig = "none"]}
    \cup {[Good(2) EXCEPT !.load = l] : l \in {"gone", "garbled", "altered"}}
    \cup {[Good(2) EXCEPT !.sig = s] : s \in {"none", "malformed", "forged"}}
    \cup {[Good(2) EXCEPT !.num = 3], [Good(2) EXCEPT !.hash = 5], [Good(3) EXCEPT !.prev = 5]}

Stores == UNION {[1..n -> Choices] : n \in 0..MaxLen}

Calls ==
    [fromSeq : {1, 2}, checkpoint : {NoCheckpoint} \cup {[seq |-> n, hash |-> n + 1] : n \in {1, 2}},
     state : {NoState} \cup {[count |-> n, head |-> h] : n \in 1..3, h \in {3, 4}},
     key : BOOLEAN, signedFrom : {0, 2}, problem : {"none"}]
    \cup
    [fromSeq : {1, 2}, checkpoint : {NoCheckpoint, [seq |-> 2, hash |-> 3]}, state : {NoState},
     key : {TRUE}, signedFrom : {1}, problem : {"state_missing", "state_invalid"}]

MCInit ==
    /\ entries \in Stores
    /\ call \in {c \in Calls : HasCheckpoint(c) => c.fromSeq = 1}
    /\ Listed(entries, call)
    /\ stage = "begin" /\ next = 1 /\ expected = 0 /\ previous = None /\ atCount = None
    /\ report = EmptyReport

MCSpec == MCInit /\ [][VerifyNext]_verifyVars
=============================================================================
