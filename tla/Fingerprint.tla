----------------------------- MODULE Fingerprint -----------------------------
(***************************************************************************)
(* What a call carries, as domains/agent_security/fingerprint.py compares  *)
(* it: the sketch of each field, a set of shingles, and when two calls     *)
(* carry the same text.  Shingles are values: that they are keyed hashes,  *)
(* and that a sketch keeps the least SKETCH_SIZE of them, is left out.     *)
(***************************************************************************)
EXTENDS FiniteSetsExt, Naturals

CONSTANT Floor   \* MIN_SHARED_SHINGLES

ASSUME FloorAssumption == Floor \in Nat \ {0}

\* The threshold of EchoStore, 0.4, and NEAR_DUPLICATE, 0.9, in tenths
Threshold == 4
NearDuplicate == 9

Smaller(a, b) == IF Cardinality(a) < Cardinality(b) THEN Cardinality(a) ELSE Cardinality(b)
Larger(a, b) == IF Cardinality(a) < Cardinality(b) THEN Cardinality(b) ELSE Cardinality(a)

\* overlap(a, b) is at least tenths / 10
Overlaps(a, b, tenths) ==
    a # {} /\ b # {} /\ 10 * Cardinality(a \cap b) >= tenths * Smaller(a, b)

\* matches: enough is shared, in one run of text or as copies of each other
Matches(aFields, bFields) ==
    LET a == UNION aFields
        b == UNION bFields
        shared == a \cap b
    IN /\ Cardinality(shared) >= Floor
       /\ Overlaps(a, b, Threshold)
       /\ \/ \E f \in aFields, g \in bFields : Cardinality(f \cap g) >= Floor
          \/ /\ Overlaps(a, b, NearDuplicate)
             /\ 10 * Cardinality(shared) >= Threshold * Larger(a, b)

\* The shingles of a call's fields; fields with the same ones are one field here
Size(fields) == MapThenSumSet(Cardinality, fields)

\* CoordinationDetector._fingerprint: the fields that can be evidence
Evidence(fields) ==
    LET whole == {f \in fields : Cardinality(f) >= Floor}
    IN IF whole # {} THEN whole
       ELSE IF Size(fields) >= Floor THEN fields \ {{}} ELSE {}
=============================================================================
