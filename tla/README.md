# A TLA+ model of Admina

Admina is a governance proxy for AI agents: it sits between an application and
its language models, tool servers and agents, decides about each request,
redacts what must not leave, and keeps a tamper-evident record of what it
decided. This directory models the parts of it where the hard behaviour is: a
store that survives crashes as one hash chain, the verification of that chain,
the governance pipeline, the life of a gateway and of an MCP request among
threads, upstreams, a client, Redis and the store, the detector and quarantine
that several proxies share, the containers of the sandbox, the SDK and its
stream redactor, and the proxy's write check and live feed. Line numbers are
those of the commit the model was written from.

- [The system](#the-system)
- [What is modelled](#what-is-modelled)
- [The runs](#the-runs)
- [The proofs](#the-proofs)
- [Divergences](#divergences)
- [What is not modelled](#what-is-not-modelled)
- [How the project was ordered](#how-the-project-was-ordered)

## The system

The package is `admina`, and the paths of its modules below are inside it. One
process runs the proxy: a FastAPI application on one event loop, some worker
threads, and optionally Redis, an object store, a container engine and the
upstreams. Several processes (replicas) may run side by side; they share Redis,
perhaps a container engine, and nothing else.

### Components

| Component | State it keeps | Operations |
|---|---|---|
| Forensic store (`domains/compliance/forensic.py`, `forensic_files.py`) | record objects by hour, `_chain_state.json`, its `.sig`; in memory: count, head, head's key, status, first signed record, last write | open (restore, check the tail, rebuild), `record`, `verify`, `acknowledge_rebuild`, `accepting_records`, `writable` |
| Chain verification (`forensic_integrity.py`) | none between calls; the accumulators of one pass | `verify_entries`, `verify_stored_chain` |
| Forensic write probe (`proxy/forensic_probe.py`) | the running check, the last result, the store it is for | `check` |
| Gateway chat completions (`proxy/api/gateway.py`, `gateway_outcome.py`, `gateway_response_scan.py`) | per request: the decision, the delivery so far, the digest, the upstream response | POST `/v1/chat/completions`: govern, record, forward, scan, redact, relay, end |
| Pipeline executor (`proxy/pipeline_executor.py`) | threads, the queue | `run` with a time budget, `shutdown` |
| Governance pipeline (`domains/governance.py`) | none of its own (the loop breaker's sessions) | the stages loop, firewall, PII, egress, guards; observe and dry-run modes |
| MCP proxy (`proxy/main.py`, `multi_upstream.py`, `sandbox_bridge.py`) | rate-limit counters in Redis, upstream routes | `/mcp`: limit, govern, record, sandbox or forward, scan the answer |
| Coordination detector and quarantine (`coordination.py`, `egress.py`) | sketches and indexes of agents in Redis; the quarantine hash; each replica's copy | `observe`, `add`, `renew`, `lift`, refresh every five seconds |
| Execution sandbox (`sandbox.py`, `plugins/builtin/sandboxes/docker.py`) | slots, the set of live containers | acquire, run, remove, sweep, close |
| Loop breaker (`loop_breaker.py`) | a window and a counter per session | `check` |
| Firewall, scan policy, PII, masking, residency, classification | compiled patterns | pure functions of text |
| Stream redactor (`sdk/streaming.py`) | the text held back | `feed`, `finish` |
| SDK (`sdk/`) | `last_stream_result` | `ask`, `stream`, `call`, `ingest`, `query`, with retries and bus events |
| Integrations, CLI, red team | none shared | wrappers of the SDK, one-shot commands |
| Event bus (`core/event_bus.py`) | subscriptions | `emit`, `subscribe` |
| Dashboard and integration APIs | sessions as signed cookies; the live feed's clients; counters | `/live`, its broadcast, sign-in and out, queries, `/api/v1/validate`, `/health` |
| Plugins (`plugins/`) | a second, simpler forensic store (`builtin/forensic/filesystem.py`) and adapters | see below |
| Start-up and settings, compliance reports, AI infrastructure, core, Rust engines | configuration, catalogues | read once or pure |

### How they interact

- A gateway request is one task of the event loop. Its pipeline, response scan
  and redactions are *jobs* it hands to the executor's threads and awaits under
  a time budget; each forensic record is written by a thread of its own
  (`asyncio.to_thread`) that takes the store's write lock. A task that stops
  waiting leaves its thread running.
- The store is written by every surface: gateway, MCP, validation API, SDK. A
  failed write is an exception in *closed* fail mode and a log line in *open*
  mode.
- The relay of a stream is an async generator driven by the server that sends
  to the client. What ends a call (`_end_call`) runs in the `finally` of the
  response, after the background scan of the text.
- `/health` and `/api/v1/validate` read `accepting_records()`, the result of
  the last write, without a lock.
- `admina forensic verify` and `acknowledge-rebuild` open the same directory
  from another process; the CLI says the proxy has to be stopped for the
  second.
- Replicas share the quarantine through one Redis hash; each decides on the copy
  it last read.

### What is hard, and what makes each part correct

| Component | Hard behaviour | What must hold |
|---|---|---|
| Forensic store | the record, the state and the state's HMAC are three writes; each may fail before or after its object is in place; the process may die between any two; the next start may have the key or not | an acknowledged record is never replaced; every record keeps the one it links to; a store nobody touched verifies; an invalid chain is not written to; a rebuild stays visible; closed mode answers only when nothing needs recovery |
| Chain verification | ranges, checkpoints, a chain state inside or outside the range, records that vanish between listing and reading | valid exactly when the records are a chain; the failure reported is the first; resuming from a checkpoint loses nothing |
| Gateway calls | timers against late results, busy threads, a client that leaves at any await, a shutdown that cancels, an upstream that breaks, a record that is not written | nothing forwarded unrecorded or after its budget; nothing unredacted or blocked is sent; the completion record tells the truth and is always written; every call ends; upstream responses are closed |
| Pipeline executor | jobs that never return | no more jobs than threads; a waiting caller is answered by its budget |
| Quarantine | read-then-write across replicas, a purge racing a renewal | a confirmed destination is not released before its time but by an operator |
| Coordination | reads of an index and of sketches that others evict, expire and store meanwhile | a confirmation repeats what another agent sent; what is stored and stays is found |
| Sandbox | a time limit, a failure or a shutdown between the container and the note of its name; sweeps of several processes | slots are exact; a running command is known; no sweep takes a container in use; every orphan goes |
| MCP proxy | the call may have run when its record fails; counters shared in Redis | nothing acts unrecorded; answer and count agree; a limit holds |
| Pipeline, loop breaker | stages that depend on earlier ones, modes, sequences of texts | what passes is clean; a block names its cause; a loop is judged on the last texts |
| SDK, redactor | text in any split; attempts that fail or come late; subscribers that raise | the stream is the whole text redacted; the events tell the action |
| Write probe, live feed | a check that outlives its store; a broadcast over a list of clients that changes | an answer is that of the store asked about; a feed ends with its deadline |

`PROJECT.json` lists each hazard at its line, with the properties that cover it
or, when none does, why.

## What is modelled

| Module | What it is |
|---|---|
| `ForensicChain` | the durable store: openings, `record`, rebuild, acknowledgement, faults, crashes |
| `AuditLog` | what that store promises: an append-only log of acknowledged records |
| `ChainVerify` | `verify_entries`, one record per step, against the definition of a verified chain |
| `ForensicProofs` | proofs of both: the store's invariants, action properties and refinement; the loop invariant, the correctness of the verdict and of a resumed verification |
| `GatewayCalls` | chat completions over the executor's threads, the store, upstreams and clients |
| `GatewayCallsProofs` | its safety properties, proved |
| `Quarantine` | the quarantine of destinations: calls, refreshes and lifts of several proxies over one Redis hash |
| `Coordination` | what `observe` does before: fan-in, index, sketches, echoes and the verdict, over one Redis |
| `Fingerprint` | when two calls' sketches match (`fingerprint.py`) |
| `CoordinationProofs` | the safety properties of the detector and of the quarantine, proved |
| `Egress` | the analysis of a call's arguments and the decision of the egress policy |
| `ScanScope` | which texts of a gateway request are scanned: scan policies and the operator's scope |
| `Governance` | the pipeline over `Egress` and `ScanScope`, with the loop breaker's sessions |
| `GovernanceProofs` | what passes and what is refused, proved |
| `McpCalls` | `/mcp` requests over Redis, the store, the sandbox and the upstream |
| `McpCallsProofs` | its safety properties, proved |
| `SandboxContainers` | slots, containers, sweeps and shutdown of several proxies on one engine |
| `SandboxContainersProofs` | its safety properties, proved |
| `Redaction` | masking of a text, and the stream redactor |
| `SdkCalls` | the SDK's calls over `Redaction`, an upstream, retries and the event bus |
| `SdkCallsProofs` | what the redactor writes of any text in any split, and the safety properties of a call, proved |
| `ProxyWatch` | the write probe of `/health`, and the dashboard's live feed |
| `ProxyWatchProofs` | its safety properties, proved |
| `MC...` | instances for TLC |

How they compose: `ForensicChain` is what is inside the store of `GatewayCalls`
and `McpCalls`, which see a record written or not. `Governance` is what is
inside the verdict these two and `SdkCalls` take as an input; it includes
`Egress` and `ScanScope`. `Coordination` is what is inside the verdict of
`Quarantine`; the quarantine a replica has read is `quarantined` of
`Egress!Refusal`. `SandboxContainers` is what is inside `Ran` of `McpCalls`.

### ForensicChain

| Model | Code (`forensic.py`) |
|---|---|
| `disk`, `stateFile`, `sigFile` | the record objects; `_chain_state.json`; `_chain_state.json.sig` |
| `pos` | `record_count`, `chain_head` and the directory of `_head_key` |
| `signedFrom`, `rebuilt`, `status`, `lastWriteOk`, `keyed`, `failMode` | `_signed_from`, `_rebuilt`, `chain_status`, `_last_write_ok`, `_state_signing_key`, `fail_mode` |
| `pc`, `op`, `pending` | between which two writes the process is, what for, and the record being written |
| `OpenNew`, `OpenSaved`, `OpenRebuild`, `OpenUnread` | the paths through `_restore_chain_state`, `_apply_state`, `_check_tail`, `_rebuild`, `_alarm` |
| `RecordCall`, `RecordRefused`, `RecordStored`, `RecordNotWritten` | `record()` up to the record's object |
| `StateSaved`, `SignatureSaved`, `StateNotSaved` | `_persist_chain_state` |
| `AcknowledgeRebuild` | `acknowledge_rebuild` |
| `Stop` | the process stops, or dies anywhere |

Decisions:

- **One process.** The store is for one process at a time (the CLI asks for the
  proxy to be stopped). Its lock makes a call atomic for other callers, so the
  steps are the object writes, between which the process may die.
- **An opening is one step.** It writes nothing until the tail has been checked;
  its writes are steps of their own.
- **Three outcomes of a write**: done, failed with nothing written, failed with
  the object in place (`"late"`: the directory `fsync` after `os.replace`, or a
  `put_object` whose answer is lost). A crash right after the rename is a crash
  at the next `pc`. A power loss adds no state: the temporary file is synced
  before it is renamed.
- **Hashes are identities** (SHA-256 without collisions); a signature of the
  state is the state it signs; there is one key.
- **Refused openings change nothing** and are stutters: `ForensicKeyError`
  (without the key, on a store written with one, in closed mode), and a record
  that cannot be read at startup.
- **A signature that cannot be read** is a failed one for a start with the key
  (`OpenUnread`). For a start without it, `_was_keyed` then answers no unless the
  state itself names a first signed record, so even closed mode opens the store
  (`KeyUnseen`).
- **Nobody edits the store** here. What verification says of an edited one is
  `ChainVerify`.
- The in-memory store, `recent_records` and `writable` are left out: nothing of
  them survives or is read back.

`AuditLog` keeps what a caller can see: the set of acknowledged records and
whether a process serves them, refuses to, or is not there. `Append` adds one
record numbered after all others. `ImplementsAuditLog` maps `acked` and `Mode`
to it.

### ChainVerify

State: the listed `entries`, the arguments `call`, and the loop's own variables
(`expected`, `previous`, `at_count`, the report). Each iteration is
`RecordChecked` or `RecordFails`; the checkpoint and the chain state come before
and after. `RecordError` keeps the order of the checks, which decides what an
operator is told. An entry carries what reading it gives (`gone`, `garbled`,
`altered`, `intact`) next to its fields. `problem` is what a caller found
earlier and adds at the end: `verify()` on a chain invalid at startup and
`verify_stored_chain` on a state that is missing or not signed by the key.

`Sound` says without a loop what a verified chain is; the properties compare
the two. Errors of reading other than a removed file are left out: they end the
call with an exception. A checkpoint's own record is not hashed again, in the
model as in the code. `ForensicChain!Verifies` is the same definition on a set
of genuine records, used there as the result of a check.

### GatewayCalls

| Model | Code |
|---|---|
| `call[c].phase` | the await at which the handler of `c` is |
| `action`, `error` | `call.action`, `call.failed` (`gateway_outcome.py`) |
| `whole`, `offered`, `counted`, `sent` | `Delivery.completed`, pieces yielded, pieces in the digest, `sent` of `_Finished` |
| `waiting`, `running` | the executor's queue and threads (`pipeline_executor.py`) |
| `writes`, `log`, `unwritten` | records in a thread; written; not written |
| `upstream`, `client` | the `httpx` response; the ASGI connection |

| Actions | Code |
|---|---|
| `Arrive`, `PipelineReturns`, `PipelineTimesOut`, `Decided`, `RequestRecorded` | `_governed_call` up to the forward, `_govern`, `_record_forensic` |
| `JobStarts`, `JobReturnsLate` | the executor's threads |
| `UpstreamFails`, `StreamOpens`, `ErrorBodyRead`, `AnswerReceived` | `_governed_call` from the forward on, `_failure`, `_unexpected_failure` |
| `ScanReturns`, `ScanTimesOut`, `ScanRecorded`, `RedactionReturns`, `RedactionTimesOut` | `_scan_response`, `_blocked_after_upstream`, `_redacted`, `_governed_sse_stream` |
| `RelayStarts`, `UpstreamSends`, `UpstreamEnds`, `UpstreamBreaks`, `PieceTaken`, `RelayResumes` | `_relay`, `_collected` and `Delivery.relay` |
| `ResponseSent`, `CallEnds`, `CompletionRecorded` | the response, `_Finished`, `_end_call`, `_record_completion` |
| `ClientLeaves`, `StreamLeft`, `Cancelled` | the server, when a client goes or the process stops |

Decisions:

- A handler's code between two awaits is one step. A record is handed to the
  executor before the await. When the task is cancelled there, a write that a
  thread has begun goes on; one that still waits for a thread is dropped
  (`Awaited`) and counts as unwritten, see the divergences.
- The store is external here: one write at a time, done or not, at most
  `MaxFaults` not. `ForensicChain` is what is inside.
- The pipeline returns ALLOW or BLOCK, whatever it computed: governance modes
  act inside it (in observe mode it returns ALLOW), `CIRCUIT_BREAK` is answered
  as a block, and a pipeline that raises, or masks messages and does not return
  them, is a block. Requests answered before they have an event id (400, 413)
  touch nothing. Errors before the forward that give 400 or 500 are
  `UpstreamFails`, which leaves the same state.
- Text is what a property tells apart: a block message, an error, the 503, the
  upstream's own text or redacted text.
- The queue's order is left out: any waiting job may start, which includes the
  code's order. The budget is positive (the setting's default and range).
- Two kinds of servers exist for a client that leaves a stream: one cancels the
  relay and still runs the background scan (ASGI spec 2.3), the other makes
  `send` raise (2.4 and later). `StreamLeft` has both.
- Spans, metrics, `on_decision`, lines of a stream with nothing to send, and a
  gateway without a store are left out.

### Quarantine

| Model | Code |
|---|---|
| `expiry` | the hash `admina:egress:quarantine`; 0 is a destination without a field |
| `policy` | each proxy's `EgressPolicy._quarantine` |
| `refresh` | where each proxy's `refresh_quarantine_once` is, and what it read |
| `call` | where each call's `observe()` is, the time it was given, whether it is a write that was allowed |
| `Observed` | `_observe` of `proxy/main.py`, after `EgressPolicy.evaluate` |
| `RenewReads`, `RenewWrites`, `RenewFails` | `renew` |
| `Confirmed`, `NotConfirmed` | `add`; every other verdict of `observe` |
| `RefreshStarts`, `RefreshReads`, `RefreshPurges`, `RefreshEnds`, `RefreshFails` | `_refresh_loop`, `_read_live`, `set_quarantine` |
| `Lift`, `Restart` | `admina egress quarantine lift`; a proxy starts with an empty set |

Decisions:

- The steps are the Redis commands, since everything between two of them is an
  `await`. A task reads the time once, before the first, and uses it for all; it
  may be any time late, which covers proxies whose clocks are behind.
- Whether a call is confirmed is an input: what fan-in and echoes conclude, and
  which destinations are declared, is `Coordination`. Only a write that
  was allowed can be confirmed.
- Evaluation and observation are one step. In observe mode `allowed` is free,
  which covers what may change in between.
- A call that names several destinations is several calls. A call of a proxy
  that restarts may finish or stop.
- `admina egress quarantine list` purges as a refresh of a proxy that serves
  nothing does. A command that fails after it was executed is one that succeeds.
- `lifted` and `promise` are history variables.

### Coordination and Fingerprint

| Model | Code (`coordination.py`) |
|---|---|
| `fanin`, `index`, `echo` | the Redis sets of `FanInCounter` and `EchoStore`, with their windows |
| `obs` | where each `observe()` is, and what it has read |
| `Observe`, `CountAgent`, `ReadAgents` | `observe` up to the fan-in, `FanInCounter.record` |
| `ReadIndex`, `Match` | `EchoStore.confirm`: the index and the agent's own shingles, then the peers' sketches |
| `Probe`, `Seen`, `Common`, `Echoed` | in `confirm`: the call without its agent's own shingles, the sketches read, the shingles of enough senders, the peers it matches |
| `Register`, `Evict`, `DeleteVictim`, `Join`, `Store` | `record_outbound` and `_register` |
| `Fails`, `StoreFails`, `Elapse` | a command that raises; time, and what expires with it |

Decisions: one destination that is not declared, since keys of destinations
never meet, and the severity of several verdicts is not modelled. At most 16
peers' keys, which is one `SUNION`. Reads that follow each other, and entering
an index that is not full with the reads before it, are one step: the call
itself writes nothing between them. Another call could, at each of these awaits,
and those interleavings are abstracted away; those between the index and the
sketches compared, and between the commands that write, are there. Fields are a
set, so two equal ones count once. A shingle is a number; `Fingerprint` has the arithmetic of
`overlap` and `matches` on sets of them, not the hashing and the choice of
shingles. Two calls of one agent at once may each drop the other's sketches
(`Join`), as in the code. What a confirmation writes is `Quarantine`.

### Governance, Egress and ScanScope

| Model | Code |
|---|---|
| `windows`, `similar` | `LoopBreaker.windows`, `consecutive_similar` |
| `run` | the request in `run_pipeline`: its stage, `GovernanceResult`, `would_action` |
| `Loop`, `Firewall`, `Pii`, `EgressStage`, `Guard`, `GuardsEnd`, `Mode` | the stages of `run_pipeline` |
| `BlockReason`, `Domain` | `_block_reason`, `_build_gov_response` |
| `Raises` | `unfinished_pipeline_result`, and the errors of the other surfaces |
| `Egress!Status`, `WriteShaped`, `Refusal`, `Allowed`, `ResolveEgressMode` | `analyze`, `_classify_write_shaped`, `EgressPolicy.evaluate`, `resolve_egress_mode` |
| `ScanScope!Scope`, `RequestTexts` | `resolve_scan_scope`, `request_texts`, `strip_prescanned` |

Decisions:

- A text is the categories its patterns belong to, as written and normalised,
  the score of the heuristics, its role, its tag and whether it lies below the
  scan depth; a field of the arguments is its kind of key, what its value looks
  like and the host it names. What recognises them is not modelled.
- The mean similarity of the loop breaker is at the threshold or not. A text is
  a template and what varies in it; numbers and hashes that vary damp the
  similarity, as `_variable_tokens` does. Texts of two templates bring the mean
  below the threshold, and so does the damping, which is so for a threshold
  above 0.7 and below 1 (the default is 0.85).
- A text without a vocabulary (punctuation, single characters, stop words) has
  the template `Wordless`. When all the texts compared are such, TF-IDF raises
  and the similarity is 0; beside other texts it is similar to none. Such texts
  repeat without being a loop, and `LoopJudged` asks for words where it says a
  loop is found.
- The defaults (window 10, last 5, 3 in a row) are constants; `governance` has
  6, 5 and 3. The window is a setting without a minimum: below three texts the
  loop breaker compares nothing, so the part of `LoopJudged` that says a loop is
  found is about windows of three and more.
- `Egress!Arguments` are the arguments that can be: a field below the scan depth
  is in a dictionary below it, which the walk reports before it looks for keys.
- The surfaces differ in the code and in the model: the gateway runs no loop
  breaker, chooses the texts by the scan scope, and blocks in every mode when
  the pipeline does not finish (`unfinished_pipeline_result` could downgrade,
  but gateway.py:289 and 1268 pass it `mode="enforce"`); the others scan every
  text and answer an error; `/api/v1/validate` has no guards, and looks for
  injections and personal data whatever the settings say.
- A text without a role, or with one that is not configured, is always scanned.
  Observe mode lets a flagged request out as it came: later stages, the
  redaction among them, did not run.

### McpCalls

| Model | Code (`proxy/main.py`) |
|---|---|
| `call[c].phase`, `decision` | where the request is in `_mcp_exchange`; `_McpOutcome.decision` |
| `redis` | the counters of sessions and of the address, with their expiry |
| `Counts`, `SetsExpiry`, `RedisFails`, `Expires` | `INCR`, `EXPIRE`, an error of either, the end of a window |
| `Rejected`, `Governed` | no JSON, no object, too large, a pipeline that raises; its decision |
| `RequestRecorded`, `RequestNotRecorded`, `Observed` | the request record; the coordination check in the background |
| `Ran`, `RunRecorded`, `RunNotRecorded` | `_mcp_sandbox_call` |
| `Forwarded`, `Guarded`, `GuardErrorRecorded`, `GuardErrorNotRecorded` | the upstream; `_govern_mcp_response` |
| `Counted`, `Ended` | `_McpOutcome.record` when `mcp_proxy` returns |
| `Dies` | the process is killed, and another one takes the calls that come |

Decisions: a session may have any name, that of an address's counter included
(`X-Session-Id: ip:...` makes the same Redis key). A body that is JSON and no
object makes `parse_request` raise outside any handler: 500, and nothing is
counted, although the docstring of `_McpOutcome` (main.py:1908) names only a body
that is not JSON. `AnswerIsCounted` says of a call counted nowhere that it was
answered 400 or 500 and acted on nothing. A sandbox that raises is a 500; a guard
that raises `httpx.ConnectError` is taken for an upstream that cannot be reached.
A death may leave a command of the sandbox executed or not. In closed
mode a sandbox record that fails leaves the decision ALLOW although the answer
is 503, and a guard's `BLOCK` of a response writes no forensic record (a guard
that *raises* does): both are the code's. `passed` counts what a counter let
through since its last expiry.

### SandboxContainers

| Model | Code |
|---|---|
| `used`, `live` | `_Slots._used`, `DockerSandbox._live` |
| `container`, `old` | the engine's containers; those older than `orphan_age_seconds` |
| `TakesSlot`, `NotStarted` | `_Slots.acquire`, `SandboxExecutor.run` |
| `Created`, `NotCreated`, `Fed`, `Executed`, `TimesOut`, `Interrupted`, `Removed` | `DockerSandbox.run`, `_execute`, `_remove` |
| `SweepLists`, `SweepRemoves`, `SweepFails` | `reap` and its callers in `proxy/main.py` |
| `Closes`, `CloseRemoves`, `Closed`, `Dies`, `Starts` | shutdown, `aclose`, a crash, start-up |
| `EngineCreates`, `CommandEnds`, `Ages` | the engine and time |

Decisions: a CLI command fails with its effect or without; `docker run` may take
effect after the proxy stopped waiting or was answered an error (`ordered`); a
removal that is confirmed
has happened. `docker inspect`, the choice and `docker rm` of a sweep are one
step (`inspect` fails when a listed container is gone, so a sweep of those waits
for the next one). Reads of the engine (image, collect, out of memory) are left
out. A call is only cancelled by a shutdown, which the model allows at any time.
The budgets of CLI commands are below `orphan_age_seconds` (their defaults); a
command's time limit need not be (`LongCommands`). A container whose removal
failed stays in `_live`, and the process's own sweeps spare it until it stops.

### Redaction and SdkCalls

| Model | Code |
|---|---|
| `Sentences`, `Spans`, `Marks`, `Written`, `Redact` | `sentence_spans`, `mask_omissis`: what is masked, what each character leaves, the text written |
| `Matches`, `Count`, `SentenceStart` | `PIIEngineBridge` |
| `Holding`, `Cut`, `SplitsClean`, `Fed`, `Emitted`, `Rest`, `Total` | `StreamRedactor.feed` and `finish` |
| `Opens`, `Allowed`, `Refused`, `OutsideZone`, `Classifies`, `Accesses` | the calls up to their upstream |
| `Answered`, `Ingested`, `FailsTransiently`, `TimesOut`, `FailsForGood`, `Cancelled` | attempts of `run_with_retry` |
| `StreamOpens`, `Delta`, `StreamEnds`, `Closes` | `GovernedModel.stream`; the last event |
| `Emits` | `EventBus.emit` |

Decisions: a text is a sequence of four kinds of characters; an entity is a
maximal run of digits of a length between `MinLen` and `MaxLen`, and a term
masks its sentence. That the window exceeds the longest entity is the
redactor's documented duty of its caller (streaming.py:51 "Must exceed the
longest expected entity"). Beyond `max_hold` the window alone
decides where the text is cut, which may cut a sentence that a later term would
have masked: `overrun` excludes that case, which the code accepts. BLOCK stands
for CIRCUIT_BREAK too; a query has one document. A subscriber that raises ends
the call, as in the code. An attempt that timed out or was cancelled may have
been served. `run_with_retry` catches `BaseException`, so a `retry_on` of the user's
that accepts `CancelledError` would try a cancelled call again; the model has the
defaults, which do not. Calls share `last_stream_result` and nothing else.

### ProxyWatch

| Model | Code |
|---|---|
| `probe`, `checks`, `caller` | `ForensicWriteProbe`, its threads, the calls of `check` |
| `Asks`, `CheckEnds`, `CheckWakes`, `Answered`, `TimesOut`, `Replaced` | `check`, `run`, `wake`, `_wait`; another store in the state |
| `cookie`, `SignsIn`, `SignsOut` | the browser's session |
| `feed`, `Connects`, `Accepted`, `Expires`, `Goes`, `Disconnects` | `dashboard_live` |
| `clients`, `cast`, `Emitted`, `Sends`, `SendFails`, `SendRaises`, `CastEnds` | `_ws_clients`, `_broadcast_event` |

Decisions: the two parts share the clock and nothing else. A timer that is due
fires before the clock moves on: the lag of the event loop is below a tick. A
store is replaced at most once; one without `writable()` answers at once and is
left out. How a send ends is the server's (Starlette raises
`WebSocketDisconnect` on a failed one, which ends the broadcast: `SendRaises`).

## The runs

`CHECK_DEADLOCK FALSE` is said where an instance comes to a legitimate stop:
all records attempted, all calls ended, a verification done, time at its bound.
`governance` alone goes on for ever, and its run checks that it never stops.

| Run | Question | Instance | Distinct states |
|---|---|---|---|
| `forensic_store` | Does the store keep what it acknowledged, whatever goes wrong? | 2 hours, with and without key, both fail modes, all faults, 4 records, 2 faults, 2 stops | 414,517 |
| `forensic_verifies` | Does an untouched store verify when writes either happen or fail cleanly? | the same with clean failures only, 3 stops | 424,314 |
| `verify_loop` | Is the verdict of `verify_entries` right? | all sequences of up to 3 of 13 records, good or defective; 118 calls | 633,337 |
| `gateway_calls` | Do two calls over one thread keep the rules of forwarding and answering? | 2 symmetric calls, 1 worker, closed mode with redaction or scan, 1 failed record | 721,182 |
| `gateway_ends` | Does a call end, and tell the truth at its end? | 1 call, all 8 settings, 2 pieces, 2 failed records, 1 shutdown; fairness | 37,941 |
| `quarantine` | Do entries hold, lifts hold, and replicas agree in the end? | 2 replicas, 2 calls, 1 destination, TTL 2, 3 instants, 1 restart, both modes; fairness | 400,892 |
| `coordination` | Is a confirmation an echo, and is what is stored found? | 3 agents, 3 calls, 2 at a time, 2 contents, an index of 2, windows of 1, 3 instants, 1 fault; symmetry | 2,415,257 |
| `governance` | Is what passes clean, what is blocked explained, and a loop judged on the session's own last texts? | 6 settings, all surfaces, 2 guards; and a seventh with 2 sessions, 5 contents, one of them without words; window 6, last 5, 3 in a row | 3,919,800 |
| `mcp_calls` | Do answer, record and action agree? | 2 calls, 3 sessions of one address, one with the name of its counter, limit 1, both fail modes, 1 fault or death | 4,113,772 |
| `sandbox` | Are slots exact, and does every orphan go? | 2 proxies, 2 calls, 1 slot each, commands of any length, 1 stop; fairness | 195,572 |
| `sdk` | Does a stream come out whole, and does a call tell its action? | 1 call of each kind, 8 ways to be set up, 6 characters in pieces of up to 3, 2 faults | 448,656 |
| `proxy_watch` | Is the probe's answer true, and does a feed end in time? | 2 callers and 3 checks of 2 stores; 2 feeds and 1 event; 5 instants; symmetry | 2,899,471 |

Why the bounds are enough:

- *Records, hours.* An interruption leaves at most one object beyond the head
  in each place; four records are a chain of two, one lost, one written again.
  Two hours give both orders of a record and the hour (the clock may go back).
  A third hour changes no comparison that two do not.
- *Faults, stops.* Two faults make a failure inside the recovery of another.
  Two stops make a start on what an interrupted start left; the run of
  verification uses three, for key, no key, key again.
- *Verification.* A range of three has a first, a middle and a last record; a
  defect in each, two of them, and every order. The theorems below remove the
  bound.
- *Gateway.* With one worker and two calls, one job holds the thread and the
  other waits. Streams of two pieces have a first and a last; one call is
  enough there since calls meet only in the threads and the store, and a job
  that never returns stands for the others.
- *Quarantine.* Two calls race each other and two refreshes; entries of
  different destinations never meet. With a TTL of two and three instants there
  are entries that lapse and entries that outlive the run, and calls one instant
  late and two. The theorems remove the bounds.
- *Coordination.* An index of two is full when the third agent comes, and a
  content of four shingles fills an agent's budget. Windows of one instant and
  three instants make a window that is current, previous and gone. Two calls at
  once interleave every command of one with every command of the other.
- *Governance.* The pipeline keeps nothing but the loop breaker's sessions, so a
  request that differs from a harmless one in one or two things, after too few
  texts of its session for a loop or enough, is what can matter; settings
  differ from a base in the same way.
- *Loop breaker.* The constraint `Apart` gives the loop breaker's texts a setting
  of their own, where they meet no other request, as its verdict depends on
  nothing but the texts. A window of six slides when the seventh text comes, past the
  five that are compared, and three in a row are reached with the fifth. Two
  templates, three variants of one and a text without words are all that
  `Similar` tells apart; the other session has one text, since sessions meet in
  nothing.
- *MCP.* Two calls meet in the counters: of one session, or of two with one
  address. The limit of one is reached by the first. Everything else of a call
  is its own.
- *Sandbox.* One slot and two calls make a wait; two proxies make another's
  container on the engine.
- *SDK.* Six characters are an entity of two in the middle, or two sentences with
  a term; with a window of three they arrive before, across and after the cut,
  and with a hold of four a sentence can be longer than what may be held. A call
  meets another only in `last_stream_result`. The theorems remove the bounds.
- *Watch.* Two callers join a check or come after it; three checks are one that
  stalls, one of the other store and one more. `OneAtATime` in the MC module
  keeps one of the two independent parts in its initial state.

### Properties

`forensic_store`: `AckedKept` (an acknowledged record is never replaced);
`LinksKept`; `AcceptingIsSaved` (a store reported as accepting is one a restart
takes up as it is); `RebuildRemembered`; the action properties
`ClosedModeAcksSaved` and `InvalidWritesNothing`; the refinement
`ImplementsAuditLog`.

`forensic_verifies`: `OpenStoreVerifies`; `InvalidNeedsCause` (without tampering
the alarm has one of two causes). Late faults are excluded because they do break
the first (see the divergences), and read faults because an unreadable state is
a cause of its own.

`verify_loop`: `VerdictIsSound`, `FirstFailure`, `ReportCovers`, `ResumeAgrees`.

`gateway_calls`: `ForwardedOnlyRecorded`, `LateVerdictUnused`,
`RecordsInOrder`, `OnlyGovernedText`.

`gateway_ends`: `CompletionIsTrue`, `UpstreamReleased`, and the liveness
properties `EveryCallEnds` and `EveryResponseRecorded`.

`quarantine`: `QuarantineHolds` (an entry holds for its time against renewals
and purges); `LiftHolds`; and the liveness property `Converges`: when calls,
lifts and time have come to rest, each replica refuses exactly what is in force.

`coordination`: `ConfirmedIsEcho` (a destination is quarantined only when enough
agents wrote to it lately and the call repeats what another agent had sent and
its own had not, leaving out text of enough senders); `StoredIsFound` (a call
that is not confirmed matches nothing the store held all along, but for text its
agent had sent before or enough others had).

`governance`: `PassedIsClean` (what goes on unflagged was read where the
settings say so, masked, and goes only to listed hosts); `ReasonNamesCause`;
`LoopJudged` (by the session's last texts, from a history the loop breaker does
not have: a loop only when enough texts in a row were alike, and, of texts with
words, whenever they were the same).

`mcp_calls`: `ActsOnlyRecorded`, `AnswerIsCounted`, `LimitHolds`.

`sandbox`: `SlotsExact`, `CommandKnown`, the action property `SweepSpares`, and
the liveness property `OrphansGo`.

`sdk`: `StreamIsWhole` (what was let out, followed by what is held, is the whole
text redacted, as long as no more is held than `max_hold_chars`; the counts of
the parts always add up to that of the text); `ActionIsTrue`.

`proxy_watch`: `ProbeIsTrue`, `FeedEndsWithSession`.

Each property has a mutant in `PROJECT.json`: a plausible mistake in one
definition that makes TLC find the property violated. The type invariants
`TypeOK` and the strengthenings named under *The proofs* hold in the runs as
well (TLC was given each as an invariant of its run before it was proved).

### Fairness

`GatewayCalls!LiveSpec` assumes weak fairness of `CallStep(c)` for each call:
the event loop runs ready tasks; a thread of the store returns; an upstream
answers or its timeout fires (`TIMEOUT_READ` and the total deadline); the timers
of the executor fire; a client reads or leaves. It assumes nothing of
`JobStep`: a worker's job may never start and never return, which is why the
budget is there. It assumes nothing of clients and shutdowns.

`Quarantine!LiveSpec` assumes weak fairness of `RefreshStep(r)`: the loop of a
proxy runs every five seconds and nothing ends it; and strong fairness of
`RefreshReads(r)`: a Redis that fails now and then answers again and again.
Nothing is assumed of calls and operators; a purge that fails is passed over.

`SandboxContainers!LiveSpec` assumes weak fairness of `CallStep(c)` (every CLI
command has a time budget), of `Ages(c)` (time passes), and of a sweep being
begun or given up; and strong fairness of `SweepRemoves(p)`: a sweep of a proxy
that goes on is not disturbed for ever, neither by the engine nor by a container
that vanishes under `docker inspect`. Nothing is assumed of proxies: `OrphansGo`
says what holds if one of them serves for good.

The other modules have safety properties only.

`RecordsInOrder` allows one exception, a shutdown that cancels the await of a
scan's record while its thread is writing: the completion record may come first.
`UpstreamReleased` excludes clients that left while a piece was being sent and
cancelled calls: the `finally` of the relay then runs when the generator is
collected, not when the call ends.

`QuarantineHolds` counts from the earliest call in flight when the entry was
written, because a call that is late writes its own, earlier time, and it leaves
out entries written while a refresh was about to purge the one before. The
docstring of `current()` accepts that race for renewals; a new confirmation that
finds the lapsed entry still in the hash is exposed to it in the same way.

`LimitHolds` is about runs without faults: a Redis error lets a request through
by design.

## The proofs

TLAPS checks these for all values of the constants, so for every number of
records, calls, threads, sessions, proxies, destinations, sockets, faults and
restarts. The bounds of the runs are naturals without an upper limit. What is
assumed of the constants is only what the module that declares them says by
name:

| Assumption | Says |
|---|---|
| `HoursAssumption`, `ModesAssumption`, `BoundsAssumption` | hours are positive; modes and faults are subsets of theirs; bounds are naturals |
| `NumbersAssumption`, `HashesAssumption` | positive; hashes leave out `None` and `GenesisLink` |
| `DestinationsAssumption`, `TTLAssumption` | there is a destination; the TTL is positive |
| `FloorAssumption`, `CoordinationAssumption` | at least one shingle is to be shared; at least two agents; capacities and windows are positive; texts are finite |
| `WorkersAssumption` | at least one thread |
| `WindowHoldsAnEntity` | an entity has at least one character, the window is longer than the longest, and no longer than what may be held |
| `CallAssumption` | kinds and settings are subsets of theirs; a piece has a character; an answer is a text |
| `McpAssumption` | positive limits; there is a session |
| `SandboxAssumption` | there is a proxy; at least one slot |
| `GovernanceAssumption` | a window of at least one text, at least three compared (five in the code), at least one similar in a row |
| `WatchAssumption` | the probe's timeout is below its interval (`PROBE_TIMEOUT_S` 1.0, `PROBE_INTERVAL_S` 10.0); sessions last |

| Theorem | Says |
|---|---|
| `ForensicProofs!Inductive` | `Spec => []IInv` |
| `TypeCorrect`, `AcknowledgedRecordsKept`, `LinksAlwaysKept` | the parts of `IInv` a reader cares about |
| `InvalidChainUntouched`, `ClosedAcksAreSaved` | the action properties |
| `AcceptingStoreIsSaved`, `SavedRebuildsRemembered` | what a restart takes up, and that a rebuild stays in it |
| `OpenStoresVerify` | an open store verifies, if no write is in place and reported as failed (`"late" \notin FaultKinds`) |
| `InvalidHasCause` | an invalid chain has one of the two causes, if moreover no read fails (`"read"`) |
| `StoreImplementsAuditLog` | `Spec => ImplementsAuditLog` |
| `ForensicProofs!LoopCorrect` | the loop invariant of `verify_entries` |
| `VerdictCorrect`, `FailureIsFirst`, `ReportCorrect` | the verdict, the failure and the report |
| `ResumeCorrect` | a verification from a checkpoint agrees with the one that starts at its record |
| `GatewayCallsProofs!GatewayInvariant` | `Spec => []GInv` |
| `ForwardingIsRecorded`, `LateVerdictsAreUnused`, `RecordsAreOrdered`, `TextIsGoverned`, `CompletionsAreTrue`, `UpstreamIsReleased` | the six safety properties of a chat completion |
| `McpCallsProofs!McpInvariant` | `Spec => []MInv` |
| `ActsAreRecorded`, `AnswersAreCounted`, `LimitsHold` | the three of an `/mcp` call |
| `GovernanceProofs!PipelineInvariant` | `Spec => []PipelineInv` |
| `PassingIsClean`, `ReasonsAreTrue`, `LoopsAreJudged` | the three of the pipeline |
| `CoordinationProofs!QuarantineInvariant` | `Spec => []QInv` |
| `EntriesHold`, `LiftedStaysLifted` | what the quarantine promises of an entry and of a lift |
| `CoordinationProofs!DetectorInvariant` | `DetectorSpec => []DetectorInv` |
| `ConfirmationsAreEchoes`, `StoredTextIsFound` | why a destination is quarantined, and what is not missed |
| `SandboxContainersProofs!SandboxInvariant` | `Spec => []SInv` |
| `SlotsAreExact`, `CommandsAreKnown`, `SweepsSpare` | the two invariants of the sandbox and its action property |
| `ProxyWatchProofs!WatchInvariant` | `Spec => []WatchInv` |
| `ProbesAreTrue`, `FeedsEndInTime` | the probe's answers and the end of a feed |
| `SdkCallsProofs!SdkInvariant` | `Spec => [](TypeOK /\ SdkInv)` |
| `StreamsAreWhole`, `ActionsAreTrue` | a stream in any split, and the action of a call |

In each module there is a lemma per action, under it a step per part of the
invariant the action can disturb, and the theorems follow from the invariant.
What a strengthening has to add says where the difficulty is:

**Why acknowledged records are kept.** A restart goes on from the position in
the saved state, or from the last stored record. It loses an acknowledged record
only if it counts too few: then the next record takes a number again, and in the
same hour directory the same key. `AckedKept` alone says nothing of positions,
so `IInv` adds:

- `SavedPosition`: the saved position is that of a stored record and no record
  with a higher number lies in an earlier hour directory, so the listing from
  there misses none. This is what the floor of `record_key` is for: without it
  (`RecordDirNoFloor`) a clock that goes back puts a record where the restart
  does not look;
- `HeadPosition`: the same of the position in memory while the process serves;
  beyond it are only records whose write was reported as failed, all with the
  next number, and no acknowledged one; the saved state is never ahead;
- `InFlight`: what the three writes of a call know of the record between them.

`Put` can then replace only a record numbered beyond the head, which is not
acknowledged. There is one step per action and, below it, one per conjunct it
can disturb. The two `StoredTail` cases of an opening rest on lemmas about
`Verifies`: a set that verifies after a position is linked, and its last record
bounds it.

**Why an open store verifies.** `Chained` says what `IInv` leaves out: with no
write reported wrongly there is one record a number, directories follow numbers,
nothing lies beyond the head, and records are signed from `signedFrom` on, in
memory and in the saved state. Then the tail of a start is what a verification
reads. `RebuildInState` says the same of a rebuild: the saved state names it,
and so does the memory of every process that took that state up.

**Why the verdict is right.** `Walked` relates the accumulators to the records
read: all fine so far, `expected` and `previous` as `Sound` would have them,
`atCount` the hash at the state's count once it is read. At the end of the list
`Walked` and no `EndError` is `Sound`; at an error the record read violates it.

**Why quarantines and lifts hold.** `QuarantineHolds` relates an entry to a past
write; a later write keeps it only if its call is no older, and a purge only if
the entry has run out. `InFlightInv` says both: no call in flight on a
destination started before `promise`, and what a refresh is about to purge was
written under no promise that still runs. For lifts it says that no call is
between the two commands of a renewal of a destination lifted cleanly, so only
a confirmation can write it again. The theorems hold for any number of proxies,
calls and destinations, and any TTL and clock.

**Why a verification can be resumed.** The calls agree on every record but the
first: the one that resumes has no record before it and takes the checkpoint's
hash, the other the hash of the record it just read. `SeamIsFine` shows the two
definitions of a sound list to be the same once that record is fine and has the
checkpoint's hash; `LoopCorrect` carries it over to the two runs of the loop.

**Why the gateway keeps its rules.** `GInv` says for each place of the handler
which records of the call may be waiting and written, which texts the client may
have, what was counted and offered, and who holds an upstream response.
Two records of one call wait at once only if a shutdown cancelled it, which
is the one exception of `RecordsInOrder`. A late verdict can decide nothing since
a job that ran out of time belongs to a call that is past its decision. The
threads come in only by the number of running jobs.

**Why an MCP call is recorded and counted.** `CallOk` says which decision each
place has and, in closed mode, that the record of an ALLOW is there before
anything acts. For the limits, `CounterInv` says that as many requests passed as
the counter holds, one less while the call that found it at one has still to set
its expiry, and that there is only one such call.

**Why what passes is clean.** Each stage leaves on the checks what it found, and
later stages look at the action alone. `ScanOk`, `MaskOk`, `EgressOk`,
`GuardsOk` and `CauseOk` say what the checks mean once their stage is past,
whatever the mode makes of the verdict at the end. `StreakOk` relates the
loop breaker's window and counter to a history it does not have: the texts of
one template, with words, that came last are at least two more than the counter
says.

**Why slots are exact.** `used` counts `Holders(p)`, a finite set, and every step
of a call either leaves that set alone, adds the call under the limit or takes
it out. `CallOk` has a container on its process's list from before it can run
until it is gone or its call is over; that is also why a sweep, which spares the
list, takes none in use but those of other processes, by age.

**Why the probe's answer is true.** `ProbeOk` says that the check the probe runs
is the only one running of its store, that no check is of a later store, and
that a remembered result is that of a check of the store. `CallerOk` has a
caller wait for a check of its own store until `began + Timeout`, awake at the
instant the check wakes it; since the timeout is below the interval, an answer
that waited is still fresh. For the feed, `FeedOk` says an open socket is in the
set and its deadline has not passed, so nothing is sent later.

**Why a confirmation is an echo, and what is stored is found.** A call compares
sketches it reads in a later command than its index, and both change in between.
`EchoInv` says that a sketch, however old, is of a call that was recorded whole
(`sent`), in the window of its time. Then what `Match` reads is part of what the
others had sent, so a shingle that is common among the sketches read is common
in that history too, and the match is one of `Repeats`. For the other direction
`ObservationOk` says that while a call is matching, what it counts on is in the
store and belongs to a peer it has indexed: `Forget` and `Elapse` take out of
`stored` what they take out of `echo`. So `Match` finds it, or no match is there
once the text its agent knew or enough others sent is set aside. From then on
`~Missed` is kept, since `stored` only shrinks and `sent` only grows.
What `confirm` sets aside depends on what it has read, what the properties set
aside only on the history. `overlap` divides by the smaller set, so a match need
not survive when more of a text is counted; `MatchesMore` says when it does: what
is counted again is in both texts.

**Why a stream is whole.** `Follows(r, fed, sent, z)` says of a redactor, in any
state, that for a continuation `z` of the stream, `sent` followed by the
redaction of the buffer and `z` is the redaction of everything. `Streamed` has
it for *every* `z`; `z` empty is the property. That `feed` preserves it is a
fact about masking, and the lemmas before it are about that: the marks of a text
joined from two parts are those of the parts, unless an entity or a masked
sentence goes across. Nothing goes across where the redactor cuts. In whole
sentences the cut is at the end of one. Otherwise what is held is longer than
any entity: either a run of digits across the cut is too long to be one, or it
ends inside the buffer, so that no continuation changes it, and then
`SplitsClean` has seen whether the parts redact apart. The count of entities
obeys the same argument even past `max_hold_chars`. There the text does not: a
term still to come may mask a sentence whose beginning was let out. What is kept
in that case (`CutHides`) is that what came out is the raw text exactly when the
text had nothing to mask, which is what `ActionIsTrue` needs. Induction over
texts is done on sets: `ByAppending` proves that a set of sequences closed under
`Append` holds every sequence, from the well-foundedness of `<`, so no theorem
with an operator parameter is instantiated.

**Why an action is true.** `Controlled` says for each place of a call which
events it has emitted, how many attempts it made and what its action may be,
whatever failed before; an attempt that fails is counted and changes nothing else.
`Redacts` says that the redactor of a stream, and the text of an answer, are
`Streamed` or redacted, so that `sent = fed` exactly when nothing was masked.

Four of the strengthenings found something. `ConfirmedIsEcho` and
`StoredIsFound` had been stated more strongly, and TLC agreed on its instance;
both failed on larger contents or four agents, where text that is common to
several senders is left out of the comparison as the code means it, and they
are now about the text that is left. With a window of exactly the longest
entity, `ActionIsTrue` fails past `max_hold_chars`: the assumption is now the
strict one the code states. `PassedIsClean` did not hold of every
set of argument fields, because the model allowed a field below the scan depth
without its dictionary; `Arguments` now says what can be. And `LoopJudged` did
not hold of a window, or of a comparison, of fewer than three texts: the first is
now in the property, the second in the assumption, as the code compares five.

**Only model-checked.** `Converges`, `OrphansGo`, `EveryCallEnds` and
`EveryResponseRecorded`: liveness under fairness is outside the prover's reach.
Every other property a run checks is a theorem.

No module declares a `RECURSIVE` operator.

## Divergences

Where TLC finds the code to do something else than a document, a docstring or a
comment says. No run of the project checks these, since each is violated; the
configuration named shows it (`tlc -config X.cfg M`), on the smallest instance.

| Configuration (module) | What is said | What happens |
|---|---|---|
| `late_counted` (`MCForensicChain`) | README.md:889 "A record that is not written is never counted" | When the directory's `fsync` fails after the rename, the caller is told the record was not written; the next start finds it linked to the head and counts it. |
| `late_duplicate` (`MCForensicChain`) | the same line; tests/test_forensic_fail_mode.py:109 | After that fault at the end of an hour, number *n* is in two directories and `verify()` answers `sequence_gap` on a store nobody touched. |
| `rebuild_forgotten` (`MCForensicChain`) | README.md:964 "after every restart until an operator ... runs `admina forensic acknowledge-rebuild`" | If the state could not be *read* (and is in fact sound), and the process dies before the rebuilt state is saved, the next start takes the old state, counts the rebuild's record as a tail and reports `ok`. |
| `unavailable_forwarded` (`MCGatewayCalls`) | README.md:885 "503 and not forwarded" | In closed mode a response-scan record that is not written gives the same 503, after the request was forwarded and answered. |
| `cancelled_not_left` (`MCGatewayCalls`) | README.md:1682 "`cancelled`: the client went away before the end of the response" | In closed mode a scan record of a stream that is not written makes the completion record of a response sent whole say `cancelled: true`. |
| `completion_dropped` (`MCGatewayCalls`) | gateway.py:848 "so it is done even when the request is cancelled meanwhile" | Cancelling the await of `run_in_executor` cancels a write no thread has taken yet: a shutdown while the executor is busy drops the completion record. |
| `lift_undone` (`MCQuarantine`) | coordination.py:558 "Extend an existing quarantine. Never creates one." | A lift between the two commands of a renewal is undone for the whole TTL, without new evidence. |
| `blind_suspected` (`MCCoordination`) | coordination.py:780-783: `degraded` is not the same as "reporting `suspected`, which claims the content was looked at" | `confirm()` answers `None` when Redis fails, as when nothing matched: the verdict is `suspected` although nothing was compared. |
| `limit_lasting` (`MCMcpCalls`) | config.py:190 `# window in seconds` | An error between `INCR` and `EXPIRE` (main.py:1972) leaves a counter that never expires: the session is refused for good. |
| `would_enforced` (`MCGovernance`) | decisions.py:46-47 on `would_action` | Outside *enforce* mode the egress policy itself observes (`resolve_egress_mode`), so a call it would refuse passes with no `would_action`. |
| `stream_result` (`MCSdkCalls`) | governed_model.py:360-361 on `last_stream_result` | With two streams of one model at once, the result read after one is that of the other. |
| `feed_outlives` (`MCProxyWatch`) | dashboard.py:397 "so the feed never outlives the session" | The credential and the session's expiry are read at two moments; a session that ends in between leaves a feed without a deadline. |

## What is not modelled

- **What recognises text**: firewall patterns and normalisation, PII engines,
  names, residency lists, classification, hashing of shingles. The models take
  their outcomes as data or nondeterministically; they are pure functions of
  text, without state that interleaves, and their tests are tables of texts.
- **The in-memory forensic store**, `recent_records`, `writable()`'s own check,
  a verification beside a writer, and a second process beside the store's.
- **The forensic store plugin** (`plugins/builtin/forensic/filesystem.py`), a
  simpler second store outside the proxy's own path, and the other plugins,
  which are adapters of external services.
- **Several destinations of one call, and more peers than one batch**, in the
  coordination detector.
- **The dashboard's queries, spans, metrics and counters**; the routing of MCP
  requests between several upstreams; `/v1/models`.
- **Start-up, settings and the CLI's one-shot commands**: configuration that is
  read once. Compliance reports and red team: catalogues and scoring. AI
  infrastructure: clients of external services. The Rust engines compute what
  their Python counterparts do.

## How the project was ordered

What decides whether the record can be trusted came first (`ForensicChain`,
`ChainVerify`), then what depends on it (`GatewayCalls`), then what several
processes share (`Quarantine`, `Coordination`, `SandboxContainers`, `McpCalls`),
then what decides on a request (`Governance`), and what is used in one process
(`SdkCalls`, `ProxyWatch`).

Worth doing next: the range of a verification beside a writer, for which
`ForensicChain` needs a reader; and several destinations of one call in
`Coordination`.
