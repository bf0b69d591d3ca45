---------------------------- MODULE MCGovernance ----------------------------
(* Instances of Governance for TLC: settings that differ from a base in a  *)
(* thing or two, and requests that differ from a harmless one in a few.    *)
EXTENDS Governance

CONSTANTS listed, other, user, tool, tag, r1, r2, session, session2, known, quiet

MCSessions == {session, session2}

BaseOperator == [roles |-> {user, tool}, tags |-> {tag}, rulesets |-> {r1}, policies |-> TRUE]
Base == [mode |-> "enforce", injection |-> TRUE, pii |-> TRUE, guardsClosed |-> FALSE,
         disabled |-> {quiet}, deepPath |-> TRUE, threshold |-> 1,
         operator |-> BaseOperator, egress |-> "enforce", surfaces |-> {"mcp", "gateway"},
         allow |-> {listed}, quarantined |-> {}]

LoopSetting == [Base EXCEPT !.threshold = 2]

MCSettings ==
    {Base, LoopSetting,
     [Base EXCEPT !.mode = "observe"],
     [Base EXCEPT !.injection = FALSE],
     [Base EXCEPT !.pii = FALSE, !.guardsClosed = TRUE, !.egress = "observe"],
     [Base EXCEPT !.quarantined = {listed}, !.surfaces = {"mcp"},
                  !.operator.policies = FALSE, !.deepPath = FALSE],
     [Base EXCEPT !.operator.roles = {user}, !.operator.tags = {}]}

A == [template |-> 1, vars |-> 0]
B == [template |-> 1, vars |-> 1]
C == [template |-> 1, vars |-> 2]
D == [template |-> 2, vars |-> 0]
E == [template |-> Wordless, vars |-> 0]

Plain == [role |-> user, tag |-> "none", paired |-> TRUE, deep |-> FALSE, raw |-> {},
          normalized |-> {}, score |-> 0,
          pii |-> TRUE, spoken |-> TRUE]
Attack == [Plain EXCEPT !.raw = {quiet}, !.normalized = {known}]
Odd == [Plain EXCEPT !.raw = {quiet}, !.score = 1]
Tagged == [Attack EXCEPT !.tag = tag]
Deep == [Plain EXCEPT !.deep = TRUE]

MCPolicy == [ok |-> TRUE, roles |-> {user, tool}, tags |-> {tag}, ruleset |-> r1]
MCPolicies ==
    {<<>>, <<MCPolicy>>, <<MCPolicy, MCPolicy>>} \cup
    {<<p>> : p \in {[MCPolicy EXCEPT !.ok = FALSE], [MCPolicy EXCEPT !.ruleset = r2],
                    [MCPolicy EXCEPT !.roles = {user}, !.tags = {}]}}

Destination == [key |-> "network", kind |-> "name", host |-> listed, long |-> FALSE, deep |-> FALSE]
MCParams ==
    {{}} \cup {{f} : f \in {[Destination EXCEPT !.key = "other", !.kind = "url", !.host = other],
                            [Destination EXCEPT !.host = other],
                            [Destination EXCEPT !.kind = "text"]}}
         \cup {{Destination, f} : f \in
                {[Destination EXCEPT !.key = "payload", !.kind = "text"],
                 [Destination EXCEPT !.key = "other", !.kind = "text", !.long = TRUE],
                 [Destination EXCEPT !.key = "other", !.kind = "label"],
                 [Destination EXCEPT !.key = "other", !.kind = "box", !.deep = TRUE],
                 [Destination EXCEPT !.key = "other", !.kind = "bare", !.deep = TRUE]}}
         \cup {{Destination, [Destination EXCEPT !.key = "other", !.kind = "box", !.deep = TRUE],
                [Destination EXCEPT !.kind = "bare", !.deep = TRUE]}}

Harmless == [surface |-> "mcp", session |-> session, content |-> B, texts |-> {Plain},
             policies |-> <<>>, params |-> {}, readOnly |-> FALSE]

OnGateway(texts, policies) ==
    [Harmless EXCEPT !.surface = "gateway", !.texts = texts, !.policies = policies]

\* Texts for the loop breaker, through /api/v1/validate, which asks no guard
Validated == [Harmless EXCEPT !.surface = "integration"]
LoopRequests ==
    {[Validated EXCEPT !.content = c] : c \in {A, B, C, D, E}}
    \cup {[Validated EXCEPT !.session = session2, !.content = A]}

\* Requests for the stages, of one content
StageRequests ==
    {Harmless}
    \cup {[Harmless EXCEPT !.texts = ts] : ts \in {{Deep}, {Attack, Deep}, {Odd}}}
    \cup {OnGateway({Plain, Tagged}, p) : p \in MCPolicies}
    \cup {OnGateway({t}, p) : p \in {<<MCPolicy>>, <<[MCPolicy EXCEPT !.roles = {user}]>>},
              t \in {[Attack EXCEPT !.role = tool], [Attack EXCEPT !.role = "none"],
                     [Tagged EXCEPT !.paired = FALSE], Deep, [Deep EXCEPT !.role = tool]}}
    \cup {[OnGateway({}, <<>>) EXCEPT !.params = p] : p \in MCParams}
    \cup {[Harmless EXCEPT !.params = {Destination, [Destination EXCEPT !.key = "payload"]},
                           !.readOnly = r] : r \in BOOLEAN}
    \cup {[Harmless EXCEPT !.surface = s] : s \in {"integration", "sdk"}}

MCRequests == LoopRequests \cup StageRequests

\* Where the scores must be higher the loop breaker has its texts, elsewhere the
\* stages have theirs: every window with every request would be too many
Apart ==
    run.stage # "idle" =>
        run.req \in IF settings = LoopSetting THEN LoopRequests ELSE StageRequests
=============================================================================
