--------------------------- MODULE MCGatewayCalls ---------------------------
(* Instances of GatewayCalls for TLC. *)
EXTENDS GatewayCalls, TLC

AllSettings == Setting

\* Closed mode, with one of the two checks of a response
ClosedChecked == {s \in Setting : s.closed /\ s.pii # s.scan}
ClosedScan    == {s \in Setting : s.closed /\ s.scan /\ ~s.pii}

CallSymmetry == Permutations(Calls)
=============================================================================
