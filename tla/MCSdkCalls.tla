---------------------------- MODULE MCSdkCalls ----------------------------
(* Instances of SdkCalls for TLC. *)
EXTENDS SdkCalls

MCAnswers == {<<Plain>>, <<Plain, Term>>, <<Digit, Digit>>}
MCKinds == Kind

\* Every way to redact, with events and up to two attempts of limited time;
\* without events, and without a policy
Retrying(s) == s.max_attempts = 2 /\ s.timeout_s
MCSettings == {s \in Setting : \/ Retrying(s) /\ s.audit /\ (s.sentences => s.pii)
                               \/ ~s.pii /\ ~s.sentences}
StreamSettings == {s \in Setting : s.audit /\ ~s.pii /\ ~s.sentences /\ s.max_attempts = 0}
===========================================================================
