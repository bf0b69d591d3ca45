---------------------------- MODULE MCProxyWatch ----------------------------
(* Instances of ProxyWatch for TLC.                                        *)
EXTENDS ProxyWatch

WatchSymmetry == Permutations(Callers) \cup Permutations(Feeds) \cup Permutations(Events)

\* The two parts share nothing but the clock, and each property is about one of
\* them: their states need not be combined
ProbeIdle == store = 1 /\ \A b \in Callers : caller[b].pc = "idle"
FeedIdle == /\ cookie = Never /\ \A f \in Feeds : feed[f].pc = "away"
            /\ \A e \in Events : cast[e].pc = "new"
OneAtATime == ProbeIdle \/ FeedIdle
=============================================================================
