-------------------------------- MODULE Egress --------------------------------
(***************************************************************************)
(* What a tool call is trying to reach and whether it carries data         *)
(* (egress.analyze), and the egress policy's verdict on it                 *)
(* (EgressPolicy.evaluate).                                                *)
(*                                                                         *)
(* The arguments of a call are the set of their fields.  Of a field counts *)
(* its key (one that declares a destination, one that carries a payload by *)
(* convention, another), what its value looks like, and whether it lies    *)
(* below the scan depth, where no walk goes.                               *)
(***************************************************************************)
CONSTANT Hosts

Keys == {"network", "payload", "other"}
\* url: an address with "://", or an IP; name: a dotted host name; label: a
\* single label; text: another string; box: a dict or list; bare: a number or
\* true.  An empty value is no field.
Kinds == {"url", "name", "label", "text", "box", "bare"}

Field == [key: Keys, kind: Kinds, host: Hosts,
          long: BOOLEAN,   \* at least _PAYLOAD_MIN_CHARS (of a url: its query)
          deep: BOOLEAN]

\* The arguments of a call: a field of a name is read with the dict it is in,
\* so one that declares a destination is only out of reach in a dict that is
Arguments == {params \in SUBSET Field :
                 \A f \in params : f.deep /\ f.key = "network" =>
                     \E g \in params : g.deep /\ g.kind = "box"}

Reached(params) == {f \in params : ~f.deep}

\* The value names a host: an address anywhere, a name only where the key
\* declares a destination
NamesHost(f) == f.kind = "url" \/ (f.key = "network" /\ f.kind \in {"name", "label"})

Destinations(params) == {f.host : f \in {g \in Reached(params) : NamesHost(g)}}

Unresolved(params) == {f \in Reached(params) : f.key = "network" /\ ~NamesHost(f)}

\* Only a string, a dict or a list below the depth can have hidden something
Truncated(params) == \E f \in params : f.deep /\ f.kind # "bare"

\* Mutant: a destination found above the depth outranks what was not read
LenientStatus(params) ==
    IF Destinations(params) # {} THEN "resolved"
    ELSE IF Truncated(params) \/ Unresolved(params) # {} THEN "unresolvable"
    ELSE "no_egress"

Status(params) ==
    IF Truncated(params) \/ Unresolved(params) # {} THEN "unresolvable"
    ELSE IF Destinations(params) # {} THEN "resolved"
    ELSE "no_egress"

\* A value under a payload key, a long query, or a long string that is no host
CarriesData(f) ==
    \/ f.key = "payload"
    \/ f.long /\ f.kind \in {"url", "label", "text"}

\* readOnly: the tool is one the operator declared as not writing
WriteShaped(params, readOnly) ==
    /\ Status(params) # "no_egress" /\ ~readOnly
    /\ \E f \in Reached(params) : CarriesData(f)

\* EgressPolicy.evaluate: the reason to refuse the call, if there is one
Refusal(params, readOnly, allow, quarantined) ==
    CASE Status(params) = "no_egress" -> "none"
      [] Status(params) = "unresolvable" -> "unresolvable"
      [] OTHER ->
           IF WriteShaped(params, readOnly) /\ Destinations(params) \cap quarantined # {}
           THEN "quarantined"
           ELSE IF Destinations(params) \subseteq allow THEN "none" ELSE "unlisted"

\* The call is allowed: nothing to refuse, or the policy only observes
Allowed(params, readOnly, allow, quarantined, mode) ==
    mode # "enforce" \/ Refusal(params, readOnly, allow, quarantined) = "none"

\* resolve_egress_mode: the global mode is a ceiling
ResolveEgressMode(mode, egressMode) ==
    IF mode # "enforce" THEN "observe" ELSE egressMode

\* The payload fields the coordination detector fingerprints: the strings that
\* carry data and are no destination (at most the two longest, in a set here)
PayloadFields(params) ==
    {f \in Reached(params) :
        \/ f.key = "payload" /\ f.kind \in {"url", "name", "label", "text"}
        \/ f.key = "other" /\ f.kind \in {"label", "text"} /\ f.long}
=============================================================================
