--------------------------- MODULE MCCoordination ---------------------------
(* Instances of Coordination for TLC: the contents of the calls.            *)
EXTENDS Coordination, TLC

\* A text in two short fields, and a longer one with that text in it, which
\* takes an agent's whole budget
MCContents == {{{1}, {2}}, {{1, 2, 3, 4}}}

CallSymmetry == Permutations(Observations) \cup Permutations(Agents)
=============================================================================
