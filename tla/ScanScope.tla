------------------------------ MODULE ScanScope ------------------------------
(***************************************************************************)
(* Which texts of a chat request the firewall scans: every text, unless    *)
(* the operator leaves roles out or accepts the scan policy of the request *)
(* (X-Admina-Scan-Policy), which may only narrow what the operator scans.  *)
(*                                                                         *)
(* A text of a request is a record: the role of its message ("none" for a  *)
(* text outside the messages or of a role that is not one of Roles), the   *)
(* tag of the block it is in, whether that message's tags are well paired, *)
(* and whether it lies below the scan depth.                               *)
(***************************************************************************)
EXTENDS Sequences, Naturals

CONSTANTS Roles, Tags, Rulesets, Categories

Text == [role: Roles \cup {"none"}, tag: Tags \cup {"none"}, paired: BOOLEAN,
         deep: BOOLEAN,
         raw: SUBSET Categories,          \* categories whose patterns match it
         normalized: SUBSET Categories,   \* those that match its normalised form
         score: Nat,                      \* the score of the deep path
         pii: BOOLEAN, spoken: BOOLEAN]   \* personal data; a field redaction reaches

\* A value of the header: malformed, or a policy
Policy == [ok: BOOLEAN, roles: SUBSET Roles, tags: SUBSET Tags, ruleset: Rulesets]

\* What the operator sets: the roles and tags, the rulesets a policy may
\* declare, and whether policies count at all
Operator == [roles: SUBSET Roles, tags: SUBSET Tags, rulesets: SUBSET Rulesets,
             policies: BOOLEAN]

\* resolve_scan_scope, for the values of the header
ScanStatus(values, op) ==
    CASE values = <<>> -> "none"
      [] values # <<>> /\ ~op.policies -> "ignored"
      [] op.policies /\ (Len(values) > 1 \/ (Len(values) = 1 /\ ~values[1].ok)) -> "malformed"
      [] OTHER -> IF values[1].ruleset \in op.rulesets THEN "accepted" ELSE "ruleset_mismatch"

Scope(values, op) ==
    IF ScanStatus(values, op) = "accepted"
    THEN [roles |-> op.roles \cap values[1].roles, tags |-> op.tags \cap values[1].tags]
    ELSE [roles |-> op.roles, tags |-> {}]

\* A message of a role left out, or a well paired block of a tag left out
InScope(t, scope) ==
    ~(t.role \in Roles \ scope.roles) /\ ~(t.tag \in scope.tags /\ t.paired)

\* request_texts: the texts to scan, and whether some lie too deep to be read
RequestTexts(texts, scope) == {t \in texts : InScope(t, scope) /\ ~t.deep}
TextsTruncated(texts, scope) == \E t \in texts : InScope(t, scope) /\ t.deep
=============================================================================
