------------------------------ MODULE AuditLog ------------------------------
(***************************************************************************)
(* What a durable forensic store promises its callers: the records it has  *)
(* acknowledged form a log that only grows, at its end, while a process    *)
(* that found nothing wrong serves it.  How records get there, and what is *)
(* left half-written, is not visible here.                                 *)
(***************************************************************************)
EXTENDS Naturals

VARIABLES log,   \* records acknowledged, each with its number seq
          mode   \* no process, one that serves the log, or one that refuses to

vars == <<log, mode>>

Init == log = {} /\ mode = "down"

\* One more record, numbered after all the others
Append ==
    /\ mode = "serving" /\ UNCHANGED mode
    /\ \E e \in log' \ log : /\ log' = log \cup {e}
                            /\ \A o \in log : o.seq < e.seq

\* A process opens the log, or finds that it cannot be trusted
Open == mode = "down" /\ mode' \in {"serving", "halted"} /\ UNCHANGED log

\* The process stops; what it refused to serve it does not start to serve
Stop == mode # "down" /\ mode' = "down" /\ UNCHANGED log

Next == Append \/ Open \/ Stop

Spec == Init /\ [][Next]_vars
=============================================================================
