------------------------------ MODULE Governance ------------------------------
(***************************************************************************)
(* The governance pipeline of domains/governance.py and what decides in    *)
(* its stages: the loop breaker's window of each session, the firewall     *)
(* over the texts in scope, the redaction of personal data, the egress     *)
(* policy, the guards one after the other, and the governance mode.        *)
(*                                                                         *)
(* A stage runs only while the request is allowed.  The pipeline keeps     *)
(* nothing between requests but the loop breaker's sessions; a guard may   *)
(* suspend it, and any engine may raise.  The surfaces that call it differ *)
(* in what they scan, redact, and answer when it does not finish.          *)
(***************************************************************************)
EXTENDS Egress, ScanScope, Sequences, Naturals

CONSTANTS
    Sessions,
    Window, LastTexts, \* texts a session keeps, and those that are compared
    MaxConsecutive,    \* similar windows in a row that make a loop
    Guards,            \* number of guards
    Requests,          \* requests that may come: subset of Request
    Settings           \* settings the pipeline may run with: subset of Setting

Surfaces == {"mcp", "gateway", "integration", "sdk"}
Modes == {"enforce", "observe", "dry-run"}

\* The text the loop breaker compares: its template, and what varies in it
\* (numbers, hashes, addresses), 0 when nothing does
Content == [template: Nat, vars: Nat]

\* The texts without a word TF-IDF counts: stop words, single characters, signs
Wordless == 0

Request == [surface: Surfaces, session: Sessions, content: Content,
            texts: SUBSET Text, policies: Seq(Policy),   \* the scan policies sent
            params: Arguments, readOnly: BOOLEAN]

Setting == [mode: Modes, injection: BOOLEAN, pii: BOOLEAN, guardsClosed: BOOLEAN,
            disabled: SUBSET Categories, deepPath: BOOLEAN, threshold: Nat,
            operator: Operator, egress: {"observe", "enforce"},
            surfaces: SUBSET Surfaces,   \* those the egress policy runs on
            allow: SUBSET Hosts, quarantined: SUBSET Hosts]

ASSUME GovernanceAssumption ==
    /\ Window \in Nat \ {0}
    /\ LastTexts \in Nat /\ LastTexts >= 3   \* 5 in the code
    /\ MaxConsecutive \in Nat \ {0} /\ Guards \in Nat
    /\ Requests \subseteq Request /\ Settings \subseteq Setting

VARIABLES
    settings,
    windows,   \* LoopBreaker.windows
    similar,   \* LoopBreaker.consecutive_similar, up to MaxConsecutive
    run,       \* the request in the pipeline: its stage and its result
    streak     \* history: how many of a session's last texts are alike, or equal

vars == <<settings, windows, similar, run, streak>>

Stage == {"idle", "loop", "firewall", "pii", "egress", "guards", "mode", "done"}

NoChecks == [loop |-> "none", firewall |-> "none", deep |-> FALSE, pii |-> "none",
             egress |-> "none", guards |-> <<>>]
NoRequest == CHOOSE r \in Requests : TRUE
Idle == [stage |-> "idle", req |-> NoRequest, action |-> "ALLOW", would |-> "none",
         checks |-> NoChecks, masked |-> {}, domain |-> "none", reason |-> "none"]

Init ==
    /\ settings \in Settings
    /\ windows = [s \in Sessions |-> <<>>]
    /\ similar = [s \in Sessions |-> 0]
    /\ streak = [s \in Sessions |-> [alike |-> 0, equal |-> 0]]
    /\ run = Idle

-----------------------------------------------------------------------------
(***************************************************************************)
(* The loop breaker.                                                       *)
(***************************************************************************)
Elements(q) == {q[i] : i \in 1..Len(q)}
Last(q, n) == SubSeq(q, IF Len(q) > n THEN Len(q) - n + 1 ELSE 1, Len(q))

\* The mean similarity reaches the threshold when the texts are of one
\* template, and is damped below it when what varies in them does.  A wordless
\* text is like none, not even itself: the vocabulary is empty (ValueError,
\* answered 0) or its vector is zero
Similar(texts) ==
    /\ \A a \in Elements(texts) : a.template # Wordless
    /\ \A a, b \in Elements(texts) : a.template = b.template
    /\ \A a, b \in Elements(texts) : a.vars = b.vars \/ 0 \in {a.vars, b.vars}

Least(a, b) == IF a < b THEN a ELSE b

\* Mutant: a window that is not similar does not reset the count
NeverReset(s, w) ==
    IF Len(w) >= 3 /\ Similar(Last(w, LastTexts))
    THEN Least(similar[s] + 1, MaxConsecutive) ELSE similar[s]

\* The consecutive similar windows of a session once its window is w
Consecutive(s, w) ==
    IF Len(w) < 3 THEN similar[s]
    ELSE IF Similar(Last(w, LastTexts)) THEN Least(similar[s] + 1, MaxConsecutive)
    ELSE 0

\* history: the streak of a session whose window was w, with one more content
Longer(s, w, content) ==
    LET cap == LastTexts + MaxConsecutive
        last == w[Len(w)]
        more(n, same) == IF w # <<>> /\ same THEN Least(n + 1, cap) ELSE 1
    IN [alike |-> IF w = <<>> THEN 1 ELSE more(streak[s].alike, last.template = content.template),
        equal |-> IF w = <<>> THEN 1 ELSE more(streak[s].equal, last = content)]

\* reset_session, of the Python API, is called by no surface
LoopOn(surface) == surface \in {"mcp", "integration", "sdk"}

Next1(stage, r) == [r EXCEPT !.stage = stage]

\* /api/v1/validate scans and redacts whatever the proxy's settings are, so it
\* is called here where they say the same
Arrives(req) ==
    /\ run.stage = "idle"
    /\ req.surface = "integration" => settings.injection /\ settings.pii
    /\ run' = [Idle EXCEPT !.stage = "loop", !.req = req]
    /\ UNCHANGED <<settings, windows, similar, streak>>

\* The surface has its answer
Leaves ==
    /\ run.stage = "done" /\ run' = Idle
    /\ UNCHANGED <<settings, windows, similar, streak>>

Loop ==
    /\ run.stage = "loop"
    /\ LET s == run.req.session
           w == Last(Append(windows[s], run.req.content), Window)
           n == Consecutive(s, w)
           isLoop == Len(w) >= 3 /\ n >= MaxConsecutive
       IN IF LoopOn(run.req.surface)
          THEN /\ windows' = [windows EXCEPT ![s] = w]
               /\ similar' = [similar EXCEPT ![s] = n]
               /\ streak' = [streak EXCEPT ![s] = Longer(s, windows[s], run.req.content)]
               /\ run' = [run EXCEPT !.stage = "firewall",
                              !.checks.loop = IF isLoop THEN "loop" ELSE "clear",
                              !.action = IF isLoop THEN "CIRCUIT_BREAK" ELSE "ALLOW"]
          ELSE run' = Next1("firewall", run) /\ UNCHANGED <<windows, similar, streak>>
    /\ UNCHANGED settings

-----------------------------------------------------------------------------
(***************************************************************************)
(* The firewall, the redaction and the egress policy.                      *)
(***************************************************************************)
OnlyRun == UNCHANGED <<settings, windows, similar, streak>>

\* InjectionFirewall.check: a pattern of a category that is not disabled, in the
\* text or its normalised form, or a score of the heuristics that is too high
Flagged(t) ==
    \/ (t.raw \cup t.normalized) \ settings.disabled # {}
    \/ settings.deepPath /\ t.score >= settings.threshold

\* The gateway chooses the texts; the pipeline scans every text of the others
ScannedTexts(req) ==
    IF req.surface = "gateway"
    THEN RequestTexts(req.texts, Scope(req.policies, settings.operator))
    ELSE {t \in req.texts : ~t.deep}

\* Text that was left out because it lies too deep
DeepText(req) == req.surface # "gateway" /\ \E t \in req.texts : t.deep
ScanTruncated(req) ==
    \/ DeepText(req)
    \/ req.surface = "gateway" /\ TextsTruncated(req.texts, Scope(req.policies, settings.operator))

Firewall ==
    /\ run.stage = "firewall"
    /\ LET req == run.req
           on == settings.injection /\ run.action # "CIRCUIT_BREAK"
           injected == on /\ \E t \in ScannedTexts(req) : Flagged(t)
           deep == \/ on /\ ScanTruncated(req)
                   \/ /\ ~settings.injection /\ settings.pii /\ DeepText(req)
                      /\ run.action = "ALLOW"
       IN run' = [run EXCEPT
             !.stage = "pii",
             !.checks.firewall = IF injected THEN "injection"
                                 ELSE IF on /\ ScannedTexts(req) # {} THEN "clean" ELSE "none",
             !.checks.deep = deep,
             !.action = IF injected \/ deep THEN "BLOCK" ELSE @]
    /\ OnlyRun

\* What the redaction reaches and masks
Masked(req) ==
    {t \in req.texts : t.pii /\ t.spoken /\ (req.surface = "gateway" \/ ~t.deep)}

Pii ==
    /\ run.stage = "pii"
    /\ IF run.action = "ALLOW" /\ settings.pii
       THEN run' = [run EXCEPT !.stage = "egress", !.masked = Masked(run.req),
                        !.checks.pii = IF Masked(run.req) = {} THEN "clean" ELSE "masked"]
       ELSE run' = Next1("egress", run)
    /\ OnlyRun

EgressMode == ResolveEgressMode(settings.mode, settings.egress)
Refused(req) == Refusal(req.params, req.readOnly, settings.allow, settings.quarantined)

EgressStage ==
    /\ run.stage = "egress"
    /\ IF run.action = "ALLOW" /\ run.req.surface \in settings.surfaces
       THEN LET allowed == Allowed(run.req.params, run.req.readOnly, settings.allow,
                                   settings.quarantined, EgressMode)
            IN run' = [run EXCEPT
                  !.stage = "guards",
                  !.checks.egress = IF ~allowed THEN "refused"
                                    ELSE IF Refused(run.req) # "none" THEN "observed"
                                    ELSE "allowed",
                  !.action = IF allowed THEN "ALLOW" ELSE "BLOCK"]
       ELSE run' = Next1("guards", run)
    /\ OnlyRun

-----------------------------------------------------------------------------
(***************************************************************************)
(* The guards, the mode, and the result.                                   *)
(***************************************************************************)
GuardsOf(surface) == IF surface = "integration" THEN 0 ELSE Guards

MoreGuards == run.action = "ALLOW" /\ Len(run.checks.guards) < GuardsOf(run.req.surface)

\* A guard that breaks its contract (ERROR) refuses where guards fail closed
Refuses(verdict) == verdict = "BLOCK" \/ (verdict = "ERROR" /\ settings.guardsClosed)

Guard(verdict) ==
    /\ run.stage = "guards" /\ MoreGuards
    /\ run' = [run EXCEPT
          !.checks.guards = Append(@, verdict),
          !.action = IF Refuses(verdict) THEN "BLOCK" ELSE "ALLOW"]
    /\ OnlyRun

GuardsEnd ==
    /\ run.stage = "guards" /\ ~MoreGuards
    /\ run' = Next1("mode", run) /\ OnlyRun

\* Mutant: an unfinished scan is reported before what the firewall found
DepthFirst(checks) ==
    IF checks.deep THEN "scan_depth_exceeded"
    ELSE IF checks.firewall = "injection" THEN "injection_detected"
    ELSE IF checks.egress = "refused" THEN "egress_refused" ELSE "guard_blocked"

\* _block_reason: the first stage of the checks that refused
BlockReason(checks) ==
    CASE checks.firewall = "injection" -> "injection_detected"
      [] checks.firewall # "injection" /\ checks.deep -> "scan_depth_exceeded"
      [] checks.firewall # "injection" /\ ~checks.deep /\ checks.egress = "refused" ->
           "egress_refused"
      [] OTHER -> IF Elements(checks.guards) \cap {"BLOCK", "ERROR"} # {}
                  THEN "guard_blocked" ELSE "injection_detected"

\* _build_gov_response: the part of the pipeline named as deciding
Domain(action, checks) ==
    CASE action = "CIRCUIT_BREAK" -> "loop_breaker"
      [] action = "BLOCK" -> IF "BLOCK" \in Elements(checks.guards) THEN "guard" ELSE "firewall"
      [] OTHER -> IF checks.pii = "masked" THEN "pii" ELSE "none"

\* Observing and dry runs let the request through and keep the decision
Mode ==
    /\ run.stage = "mode"
    /\ LET lifted == settings.mode # "enforce" /\ run.action # "ALLOW"
           action == IF lifted THEN "ALLOW" ELSE run.action
       IN run' = [run EXCEPT
             !.stage = "done", !.action = action,
             !.would = IF lifted THEN run.action ELSE "none",
             !.domain = Domain(action, run.checks),
             !.reason = IF action = "BLOCK" THEN BlockReason(run.checks) ELSE "none"]
    /\ OnlyRun

\* An engine raises what no stage handles: the gateway blocks in every mode, as
\* it asks for the unfinished result of "enforce" whatever its mode is; the
\* others answer an error and do not go on
Raises ==
    /\ run.stage \in {"firewall", "pii", "egress", "guards"}
    /\ run' = [Idle EXCEPT !.stage = "done", !.req = run.req,
                   !.action = IF run.req.surface = "gateway" THEN "BLOCK" ELSE "ERROR",
                   !.domain = IF run.req.surface = "gateway" THEN "pipeline" ELSE "none"]
    /\ OnlyRun

Next ==
    \/ \E req \in Requests : Arrives(req)
    \/ Leaves \/ Loop \/ Firewall \/ Pii \/ EgressStage
    \/ \E verdict \in {"ALLOW", "BLOCK", "ERROR"} : Guard(verdict)
    \/ GuardsEnd \/ Mode \/ Raises

Spec == Init /\ [][Next]_vars

-----------------------------------------------------------------------------
Streaks == LastTexts + MaxConsecutive
TypeOK ==
    /\ settings \in Settings
    /\ \A s \in Sessions : Len(windows[s]) <= Window /\ similar[s] \in 0..MaxConsecutive
    /\ streak \in [Sessions -> [alike: 0..Streaks, equal: 0..Streaks]]
    /\ run.stage \in Stage /\ run.req \in Requests /\ run.masked \subseteq run.req.texts
    /\ run.action \in {"ALLOW", "BLOCK", "CIRCUIT_BREAK", "ERROR"}

\* The request goes on as if nothing were wrong with it
Passed == run.stage = "done" /\ run.action = "ALLOW" /\ run.would = "none"

\* The scan policy a text is left out for: the only one sent, well formed, for
\* a ruleset the operator accepts
LeftOut(t, req) ==
    LET op == settings.operator IN
    \/ t.role \in Roles \ op.roles
    \/ /\ Len(req.policies) = 1 /\ op.policies
       /\ LET p == req.policies[1] IN
          /\ p.ok /\ p.ruleset \in op.rulesets
          /\ t.role \in Roles \ p.roles \/ (t.tag \in op.tags \cap p.tags /\ t.paired)

\* A request that passes holds no text the firewall would flag, at any depth,
\* but those the operator's scope or an accepted scan policy leaves out; its
\* personal data is masked wherever the redaction reaches; and with the egress
\* policy enforcing, every destination it could reach was read and is listed.
\* Every guard was asked, and none refused.
PassedIsClean ==
    Passed =>
        LET req == run.req IN
        /\ settings.injection =>
              \A t \in req.texts :
                  Flagged(t) \/ t.deep => req.surface = "gateway" /\ LeftOut(t, req)
        /\ settings.pii =>
              \A t \in req.texts :
                  t.pii /\ t.spoken => t \in run.masked
        /\ settings.mode = "enforce" /\ settings.egress = "enforce"
              /\ req.surface \in settings.surfaces =>
              \A f \in req.params :
                  /\ f.deep => f.kind = "bare"
                  /\ f.kind = "url" \/ f.key = "network" =>
                        NamesHost(f) /\ f.host \in settings.allow
        /\ Len(run.checks.guards) = GuardsOf(req.surface)
        /\ \A i \in 1..Len(run.checks.guards) : ~Refuses(run.checks.guards[i])

\* A refusal names the cause: the reason is that of the first thing wrong with
\* the request in the order of the stages, and there is one.
ReasonNamesCause ==
    run.stage = "done" /\ run.action = "BLOCK" /\ run.domain # "pipeline" =>
        LET req == run.req
            flagged == /\ settings.injection
                       /\ \E t \in ScannedTexts(req) : Flagged(t)
            tooDeep == (settings.injection \/ settings.pii) /\ ScanTruncated(req)
            unlisted == run.req.surface \in settings.surfaces /\ Refused(req) # "none"
        IN CASE run.reason = "injection_detected" -> flagged
             [] run.reason = "scan_depth_exceeded" -> ~flagged /\ tooDeep
             [] run.reason = "egress_refused" ->
                   ~flagged /\ unlisted /\ EgressMode = "enforce"
             [] run.reason = "guard_blocked" ->
                   /\ ~flagged /\ run.checks.guards # <<>>
                   /\ Refuses(run.checks.guards[Len(run.checks.guards)])
             [] OTHER -> FALSE

\* A session is broken off only when its last texts are of one template with
\* words in it, at least as many as the consecutive windows need; and it is, once
\* the same such text has come often enough, where the window holds the three
\* texts a comparison needs.  A text without words is repeated freely.
LoopJudged ==
    run.checks.loop # "none" =>
        LET seen == streak[run.req.session]
            words == run.req.content.template # Wordless
        IN /\ run.checks.loop = "loop" => words /\ seen.alike >= MaxConsecutive + 2
           /\ Window >= 3 /\ words /\ seen.equal >= LastTexts + MaxConsecutive - 1
                 => run.checks.loop = "loop"

\* What decisions.py says of would_action: where the mode lets a request
\* through without one, enforcing would have let it through as well.
WouldIsEnforced ==
    run.stage = "done" /\ settings.mode # "enforce" /\ Passed
        => ~(/\ run.req.surface \in settings.surfaces
             /\ ~Allowed(run.req.params, run.req.readOnly, settings.allow,
                         settings.quarantined, settings.egress))

(***************************************************************************)
(* The inductive invariant: what the stages have established so far.       *)
(***************************************************************************)
Checks == [loop: {"none", "clear", "loop"}, firewall: {"none", "clean", "injection"},
           deep: BOOLEAN, pii: {"none", "clean", "masked"},
           egress: {"none", "allowed", "observed", "refused"},
           guards: Seq({"ALLOW", "BLOCK", "ERROR"})]
Run == [stage: Stage, req: Requests \cup {NoRequest},
        action: {"ALLOW", "BLOCK", "CIRCUIT_BREAK", "ERROR"},
        would: {"none", "BLOCK", "CIRCUIT_BREAK"}, checks: Checks, masked: SUBSET Text,
        domain: {"none", "loop_breaker", "firewall", "guard", "pii", "pipeline"},
        reason: {"none", "injection_detected", "scan_depth_exceeded", "egress_refused",
                 "guard_blocked"}]
RunOk ==
    /\ settings \in Setting /\ run \in Run
    /\ run.stage # "idle" => run.req \in Request

\* What a session's window and its count say of the texts it got
StreakOk(s) ==
    LET w == windows[s]
        cap == LastTexts + MaxConsecutive
        n == streak[s]
        words == w # <<>> /\ w[Len(w)].template # Wordless
    IN /\ w = <<>> <=> n.alike = 0
       /\ n.alike \in 0..cap /\ n.equal \in 0..cap /\ similar[s] \in 0..MaxConsecutive
       /\ \A i \in 1..Len(w) : i > Len(w) - n.equal => w[i] = w[Len(w)]
       /\ \A m \in 1..Len(w) :
             (\A i \in 1..Len(w) : i > Len(w) - m => w[i].template = w[Len(w)].template)
                => n.alike >= Least(m, cap)
       /\ Len(w) <= Window /\ (Len(w) < 3 => similar[s] = 0)
       /\ similar[s] > 0 => words /\ n.alike >= similar[s] + 2
       /\ Window >= 3 => /\ Len(w) < 3 => n.equal <= Len(w)
                         /\ words => \/ similar[s] = MaxConsecutive
                                     \/ n.equal < LastTexts + similar[s]

LoopOk ==
    /\ windows \in [Sessions -> Seq(Content)] /\ similar \in [Sessions -> Nat]
    /\ streak \in [Sessions -> [alike: Nat, equal: Nat]]
    /\ \A s \in Sessions : StreakOk(s)

\* The request the checks are of was not given up
Judged == ~(run.stage = "done" /\ (run.domain = "pipeline" \/ run.action = "ERROR"))
Past(stages) == run.stage \in stages \cup {"mode", "done"} /\ Judged

\* The verdict of the stages, whatever the mode makes of it
Verdict == IF run.would = "none" THEN run.action ELSE run.would

NotYet ==
    /\ run.stage # "done" => run.would = "none"
    /\ run.stage \in {"idle", "loop", "firewall"} =>
          run.checks.firewall = "none" /\ ~run.checks.deep
    /\ run.stage \in {"idle", "loop", "firewall", "pii", "egress"} =>
          run.checks.egress = "none" /\ run.checks.guards = <<>>
    /\ run.stage \in {"idle", "loop", "firewall"} =>
          run.action = IF run.checks.loop = "loop" THEN "CIRCUIT_BREAK" ELSE "ALLOW"
    /\ run.stage \in {"idle", "loop"} => run.checks.loop = "none"

ScanOn == settings.injection /\ run.checks.loop # "loop"

ScanOk ==
    Past({"pii", "egress", "guards"}) =>
        /\ Verdict = "CIRCUIT_BREAK" <=> run.checks.loop = "loop"
        /\ Verdict # "ERROR"
        /\ run.checks.firewall = "injection"
              <=> ScanOn /\ \E t \in ScannedTexts(run.req) : Flagged(t)
        /\ run.checks.deep
              <=> \/ ScanOn /\ ScanTruncated(run.req)
                  \/ /\ ~settings.injection /\ settings.pii /\ DeepText(run.req)
                     /\ run.checks.loop # "loop"
        /\ run.checks.firewall = "injection" \/ run.checks.deep => Verdict = "BLOCK"

MaskOk ==
    Past({"egress", "guards"}) /\ Verdict = "ALLOW" /\ settings.pii =>
        run.masked = Masked(run.req)

Unblocked ==
    run.checks.firewall # "injection" /\ ~run.checks.deep /\ run.checks.loop # "loop"

EgressOk ==
    Past({"guards"}) =>
        /\ run.checks.egress = "refused" =>
              /\ Unblocked /\ Verdict = "BLOCK"
              /\ run.req.surface \in settings.surfaces
              /\ Refused(run.req) # "none" /\ EgressMode = "enforce"
        /\ Verdict = "ALLOW" /\ run.req.surface \in settings.surfaces =>
              Refused(run.req) = "none" \/ EgressMode # "enforce"

GuardsOk ==
    LET asked == run.checks.guards
    IN /\ asked # <<>> => Unblocked /\ run.checks.egress # "refused"
       /\ Len(asked) <= GuardsOf(run.req.surface) \/ asked = <<>>
       /\ Verdict = "ALLOW" => \A i \in 1..Len(asked) : ~Refuses(asked[i])
       /\ Past({}) /\ Verdict = "ALLOW" => Len(asked) = GuardsOf(run.req.surface)

\* A request that is blocked has a cause among the checks
CauseOk ==
    Past({"pii", "egress", "guards"}) /\ Verdict = "BLOCK" =>
        \/ run.checks.firewall = "injection" \/ run.checks.deep
        \/ run.checks.egress = "refused"
        \/ run.checks.guards # <<>> /\ Refuses(run.checks.guards[Len(run.checks.guards)])

ResultOk ==
    run.stage = "done" =>
        /\ run.domain = "pipeline" => run.action = "BLOCK"
        /\ Judged /\ run.would # "none" => run.action = "ALLOW"
        /\ Judged /\ run.action = "BLOCK" => run.reason = BlockReason(run.checks)

PipelineInv ==
    /\ RunOk /\ LoopOk /\ LoopJudged
    /\ NotYet /\ ScanOk /\ MaskOk /\ EgressOk /\ GuardsOk /\ CauseOk /\ ResultOk
=============================================================================
