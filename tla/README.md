# Whittle, in TLA+

Whittle sits between a coding agent and its model provider. A *hook daemon*
shortens the outputs of tools before the model sees them and keeps the
originals for retrieval; a *routing proxy* rewrites the model of each request
according to a policy. This directory holds TLA+ models of the parts whose
correctness is hard to test, the TLC runs that check them, and proofs.

Everything is translated from the Go (and Python) source of the repository.
`PROJECT.json` maps each definition to the lines it stands for.

    tlc -workers 2 -config MCRouterProxy.cfg MCRouterProxy
    tlapm SessionStoreProofs.tla

## 1. The system

```
 agent --POST /v1/messages--> routing proxy --> upstream API
             (router/)          |  |   |
                 policy pointer-+  |   +- entitlement blocklist
                 (SIGHUP)          +- session store      ML sidecar (model/)
                                                             ^
 agent --PostToolUse hook--> hook daemon --> pipeline -------+
             (server/)          |            (compress/)
                                +- retrieval store <--- /whittle/get, MCP tool
                                +- event log       <--- watch, stats (cmd/)
 setup / heal loop / cleanup  --> ~/.claude/settings.json
```

| Component | State it keeps | Operations | What is hard | Modelled in |
|---|---|---|---|---|
| Session store (`router/session.go`) | map session -> tier, last use; one mutex | `Current`, `Set`, eviction | idle TTL against use; eviction at the cap | `SessionStore` |
| Routing proxy (`router/proxy.go`) | policy pointer, blocklist, usage counters | `serve`, `forward`, retry of a rejected rewrite, passthrough | overlapping handlers between accesses to shared state; lost and rejected attempts; one answer each | `RouterProxy` |
| Routing decision (`router/engine.go` `Decide`) | none of its own | pin, route, keep, requested, default with stickiness | reads and writes the session in two critical sections | `RouterProxy` |
| Policy and reload (`config.go`, `policy.go`, `server.go`) | the policy file | load, SIGHUP reload | reload between two steps of a handler; bad edits | `RouterProxy` |
| Validation (`validate.go`) | none | `Validate` | an accepted policy must never send the engine astray | conditions in `RuleEval`; rest planned |
| Rule evaluation (`rule.go`, `signals.go`, `engine.go` `eval*`) | per-request memo of classifier answers | `eval`, `evalGroup`, `evalLeaf` | negation over a failed classifier; lazy signals | `RuleEval` |
| Reconciliation (`reconcile.go`, `caps.go`, `request.go`, `adapter.go`) | the request body | one detect/strip pair per capability, alternation repair | features that depend on each other; history against configuration | `Reconcile` |
| ML client (`router/ml`) | none | one call, 2 s timeout | fail open | answers and failures in `RuleEval` |
| Retrieval store (`server/store.go`) | counter, alias table, content files, `index.json` | `OpenStore`, `Put`, `Get`, `evict`, `persist` | crash between file operations; ignored errors; reads outside the lock | `OriginalStore` |
| Hook daemon (`server/hook.go`, `toolresponse.go`, `cmd/whittle/hook.go`) | event log | hook, get, replacement and hint | hint budget, shape of the reply | `HookDaemon`; alias issue and retrieval in `OriginalArchive` |
| Pipeline and gate (`compress/pipeline.go`, `gate.go`, `llmlingua.go`, `chains.go`) | none | gate, chain, exchange with the model, guardrails | failing or growing layers; a model that answers anything | `Pipeline` |
| Content detection (`compress/router.go`, `mdblocks.go`) | none | sniffing, segmentation | overlapping detectors; code that looks like prose | `MarkdownMask`, `Pipeline` |
| Log compressor (`logcompress.go`) | none | select, neighbours, caps, markers | caps that fight each other; off by one | `LogSelect` |
| JSON and tables (`jsoncrusher.go`, `tabular.go`) | none | columnar reshape, two renderings | lossless for absent, null, dotted, constant and odd values | `JsonColumns` |
| Text filters (`ansi.go`, `linenumstrip.go`, `mdstructured.go`) | none | strip, mask, restore | sentinels lost, doubled or glued | `ToolText`, `MarkdownMask` |
| Installation (`cmd/whittle/setup.go`) | `settings.json`, service files | setup, heal, stop, cleanup | read-modify-write races with other writers | `HookSettings` |
| Watch follower (`cmd/whittle/watch.go`) | an offset and an unfinished line per log | prime, read new, backlog | rotation, truncation, partial lines | `Follower` |
| ML sidecar (`model/app.py`) | lazily loaded models, inference semaphore | load, compress, route, health | double-checked locking, shedding | `Sidecar` |
| CLI, MCP, statistics, npm wrapper, library facade, benchmarks | - | I/O | - | not modelled |

What makes each of the modelled components correct is stated with its module
below; the hazards in `PROJECT.json` name what can go wrong and where.

## 2. The modules

| Module | What it is |
|---|---|
| `SessionMemory` | abstract: what the router may assume of a session store |
| `SessionStore` | `MemSessionStore`, detailed; implements `SessionMemory` |
| `SessionStoreProofs` | every safety property of it, and the refinement |
| `ProxyContract` | abstract: what one client request can experience |
| `RouterProxy` | the proxy, its decision and the reload; implements `ProxyContract` |
| `RuleEval` | which route of a policy matches: condition trees, lazy signals, failures |
| `Reconcile` | what a rewritten request loses for a model that lacks features |
| `RouterProofs` | every safety property of the three above, and the proxy's refinement |
| `OriginalArchive` | abstract: an alias means one content for good |
| `OriginalStore` | `server/store.go` step by step; implements `OriginalArchive` |
| `OriginalStoreProofs` | type, aliases never reissued, refinement, the cap, what is retained |
| `HookSettings` | setup, heal loop and cleanup on one `settings.json` |
| `HookSettingsProofs` | every safety property of it |
| `Sidecar` | the ML sidecar's threads, locks and permits |
| `SidecarProofs` | every safety property of it |
| `Follower` | `whittle watch`: two logs, and a follower that knows a byte offset |
| `FollowerProofs` | the laws of splitting bytes into lines; a follower stays in step, and the backlog is the latest events |
| `ToolText` | a text as a sequence of items; its lines, sizes and simple filters |
| `LogSelect` | which lines of a log are kept, and the markers |
| `MarkdownMask` | which lines of a document are code; masking and restoring them |
| `JsonColumns` | an array of objects as a table, its renderings and its decoder |
| `Pipeline` | gate, chain, exchange with the model, guardrails; composes the four above |
| `HookDaemon` | a tool's output from the event to the reply; composes `Pipeline` with the hook |
| `HookDaemonProofs` | nothing grows, the reply is honest, what the log compressor keeps, drops and tells, a table is read back, and code stays away from the model and comes back |
| `Filters` | what a loop keeps of a sequence, as the fold the loop is, and a set in an order, by counting |
| `FoldTheorems` | laws of sums over sets, of folds, filters and concatenations of sequences, of sets in an order, and of functions on finite trees, for the proofs |
| `MC*` | the instances TLC checks |

`RouterProxy` does not instantiate `SessionStore`. It is written against the
lossy memory of `SessionMemory` (a lookup answers what was last set, or a miss),
its `mem` being that module's and its `Forget` a step of it; that
`SessionStore` implements the memory is checked separately. The composition
stays small enough for two overlapping requests that way. In the same manner
`RouterProxy` lets any route match and rewrites the body in one step, and
`RuleEval` and `Reconcile` say which route it is and what the rewrite does: both
work on data of one request that no other handler sees. `HookDaemon` likewise takes
the store for the archive of `OriginalArchive`: what it stores is what a retrieval
yields.

### 2.1 Session store

`m` is the map, `clock` the injected clock. `Current` splits into the three
outcomes of the code (hit and refresh, expired and deleted, miss). `Set`
evicts only when the session is new and the map is full; `Survivors` are the
maps the eviction may leave: everything not expired, and of those, if none was
expired, all but an oldest one. Ties in the last use are broken by Go's map
order, so any oldest may go. `latest` and `used` are history: the tier last set
and the time of last use of each session.

*Correct* means: a session used within the TTL while at most `MaxEntries`
sessions were used since is still there (`WorkingSetHeld`), which is what the
comment "a session actively in use must never be evicted mid-conversation" can
mean at the cap; an unexpired entry leaves only when every expired one has
(`FreshLeavesLast`); and what the store answers is a lossy memory
(`ImplementsMemory`). That there are at most `MaxEntries` entries (`SizeBounded`)
and that each is the session's latest tier and last use (`EntriesAreLatest`) is
proved, as what `WorkingSetHeld` rests on, and not checked in a run of its own.

### 2.2 Routing proxy

Each request is a handler goroutine with a program counter (`h[r].at`); a step
is the code between two accesses to shared state or to the network:

| Step | Action | Code |
|---|---|---|
| idle | `Accept` | `ServeHTTP`, the buffered body |
| accepted | `PassUnrouted`, `LoadPolicy` | sibling paths, `p.policy.Load()` |
| deciding | `DecidePin`, `DecideRoute`, `DecideKeep`, `DecideRequested`, `DecideDefault` | `Decide` |
| recording | `RecordDefault` | the second critical section of `decide` |
| guarding | `GuardBlocked`, `GuardContext`, `Rewrite` | the guards of `serve`, `reconcile` |
| routing, passing, retrying | `SendRouted`, `SendOriginal`, `SendRetry` | `forward`, `passthrough`, `modeBRetry` |
| awaiting | `Relay`, `RejectionHeaders`, `TransportError`, `RetryLost` | the upstream's outcome |
| buffering | `Rejected` | the end of a rejection's body |
| classifying | `Classify` | the 403 body, the blocklist |

Which route matches is any route of the policy: rule evaluation depends on the
text of the request. A pin is a tier name, a body is one of five kinds, a model
id is canonical. `since` (when the guard was passed) is history.

*Correct* means: a blocked tier is not routed to by any request that came to
the guard after the denial (`BlockHonoured`); a rewrite goes to
a tier and model of the one policy the handler loaded (`RoutesWithinPolicy`),
across reloads and tiers remembered under an older policy; a session's tier is written by its own
requests only (`SessionOwned`); each client gets one answer, as
`ProxyContract` says (`ImplementsContract`), and gets it unless the upstream keeps
its handler waiting for ever (`Answered`). Proved only:
a block is set by a denial and never shortened (`BlocksEarned`), and a bad edit
never drops a running policy (`PolicyKept`).

### 2.3 Retrieval store

A `Put` holds the mutex but is four kinds of steps: truncate and write the
content, take the alias and choose what to evict, remove files one at a time,
save the index. The daemon may die between any two (`Restart`). Writes may fail
or be cut short where `Faults` says so, and the code ignores that. `Get` looks
the alias up under the mutex and reads the file without it. `IndexLost`
restarts on an unreadable `index.json`, upon which the code moves the counter to
Unix time. `issued` and `wrote` are history.

A hash stands for its content (no collisions). A torn file is a prefix of the
content; the model distinguishes whole from not whole.

*Correct* means: an alias never stands for two contents (`NeverReissued`) and
a retrieval never yields another content than the alias was issued for
(`ImplementsArchive`); what the table names fits the cap after every `Put`
(`IndexedBounded`); and an original younger than the TTL is retrievable in full
as long as everything written since fits the cap (`Retained`), whatever dies
in the middle of an eviction.

### 2.4 Reconciliation

A behaviour rewrites one request: the features of `reconcileFeatures` in the
order of the table, each detected on what the earlier ones left and stripped
from body, history and header together, then one repair of the turns. A
message is a role, a kind (bare string, list of blocks, something else) and its
blocks; a block is a model value of which only "thinking or not" matters. The
capability table is the constant `Supports`: an unknown target supports all.
`Owners` gives the features whose name test a beta token passes.

*Correct* means: the strips leave no empty turn, list or object and no two turns
of one role that were not there (`WellFormed`); no other block is lost or moved,
and a tool call keeps its result in the turn after it (`NothingElseLost`); and the
order of the table is irrelevant, as its comment says (`OrderIrrelevant`).

### 2.5 Rule evaluation

A policy is the sequence of its routes' conditions, a condition a tree of
records with optional fields, as the JSON gives it. What is decoded from a file is
a finite tree, which the model says with a height for each node (`RuleTrees`). `Load` is the validation of
their shape, `TryRoute` one turn of the waterfall: `Eval` threads the memo of
classifier answers and the failure flags (`evalState`) through the tree,
heuristic children first. A request says for each leaf what it would answer and
which signals fail; a heuristic leaf is a Boolean, not a text.

*Correct* means: an accepted policy means its plain reading, first match wins,
in whatever order the leaves were asked (`FirstMatchWins`); a failed classifier
fires no route that its answer could have prevented, loses no route that needs
no classifier and is reported (`FiresDefinitely`), and is asked once
(`AskedSparingly`).

### 2.6 The hook's installation

Two writers, the command line and the daemon's heal loop, read the file, merge
and write it: load, open (which truncates), write, rename, each a step. Both
use the same temporary file, so the model keeps which file a descriptor is open
on: after another writer's rename it is `settings.json` itself. `StopDaemon`,
`InstallAgent` and `Unregister` are the launchd side of the commands: a bootout
kills a heal at whatever step it is. `ForeignEdit` is Claude Code or the user.
The user's hooks are model values, of which some look like Whittle's
(`LookAlike`, matched by the removal) or pass for it (`Shadows`, matched by
`hookInstalled`). `stale`, `collided` and `removed` are history.

*Correct* means: never a half-written file unless two writers collided
(`NeverHalfWritten`); one entry, however many setups and heals overlap
(`OneEntry`); a save keeps what its writer saw (`SaveMerges`); after a cleanup the
hook stays away (`TeardownSticks`); while the daemon runs it comes back (`Healed`).
The file may be lost to a concurrent edit or torn by two writers: the code takes
no lock, and the properties exclude these cases by name.

### 2.7 The ML sidecar

FastAPI runs each endpoint on a thread of a pool, so `at` is the program counter
of a request's thread. `/v1/compress` takes a permit of the semaphore (`Acquire`)
or is shed (`Shed`), whatever happens then gives it back (`Release`, the `finally`)
and turns an exception into a skip. A routing endpoint first gets its scorer or
classifier (`GetObject` to `MakeObject`, under `_route_lock`), then both ways lead
through a model loaded under a lock of its own (`CheckModel` to `LoadModel`): the
compressor's, the embedder's or the classifier's. Who holds a lock is read off the
program counters. The embedding and the complexity endpoint share a scorer and
are one kind. Whether a text is compressed, skipped or fails is a choice.
`/health` and `/v1/info` only read.

*Correct* means: no permit is lost or invented on any path (`PermitsConserved`); a
process loads each model once (`LoadedOnce`); every request that arrived ends
(`Finishes`).

### 2.8 The watch follower

`cmdWatch` is one goroutine (`turn`): it reads both logs to their ends for the
backlog (`PrimeRouter`, `PrimeStats`), and from then on, per tick, looks at each in
two steps, a stat (`Stat`) and a read of at most 4 MiB from the offset (`Read`).
Between any two steps the logs may change: a line is appended, its newline
visible later or never (`BeginWrite`, `EndWrite`, `TearWrite`), or the file is
truncated, removed or replaced (`Rotate`). A line is two bytes, its number and a
newline, so a read of three bytes ends within one. `told`, `base` and `clean` are
history: the lines handed over, the file they are of, and whether the follower
started between two lines.

*Correct* means: it hands over the complete lines of what it has read, each once
and in order, and holds back the rest (`InStep`); the backlog is the latest events
of both files in order (`BacklogIsLatest`); and every complete line is shown in
the end, and a file that has become shorter is noticed (`Follows`).

### 2.9 A tool's output

`HookDaemon` is one event on its way, over HTTP or through the command: the text
is found (`Receive`), goes through `Pipeline`, is decided upon with its hint
(`Finalize`, or `Fetch` for the command), recorded and put back (`Record`, `Reply`).
The record may fail, which the code passes over; a line of the log cut short counts
as none.
The daemon may die or Claude Code give up at any step (`Die`). A call is one
goroutine and the store and the log are only appended to, so one call is enough.

`Pipeline` has a step per layer and per exchange with the model. Every return of
`Compress` is there, with its reason; `Panic` is the recovered panic. What cannot be
computed from the model's texts is part of the call: which detector claims the
text first (`nature`), the verdict of `classify` (`klass`) and the value a JSON text
stands for (`table`).

A text (`ToolText`) is a sequence of items. A word stands for everything visible of
one original line; it carries the line's number, so that it can be recognised
later, and its kind, whose class says what each regular expression makes of such
a line and how many characters and tokens it has. Newlines, indentation, escapes,
line numbers, sentinels, markers, the hint and the table envelopes are items of
their own, with the lengths they have in the code, so that the comparisons of
sizes are real ones.

`LogSelect` is `logcompress.go` as functions from the lines' classes to sets of line
numbers. `MarkdownMask` tags the lines of a document one by one, carrying the open
fence, and splices the blocks back into the model's answer. `JsonColumns` is the
table of `jsoncrusher.go` as it is built, flattened and factored, its two renderings,
and a decoder written after the contract in the comments (jsoncrusher.go:128-142),
as there is none in the code outside the tests.

The model behind `llmlingua.go` may drop two items or all, turn any item into a
sentinel and lose another, return the text or double it.

*Correct* means:

- `NeverLonger`: what is called compressed, with or without the hint, is smaller
  in characters and tokens, and what is skipped is the original;
- `LossIsMarked`: reading a reduced log from the top accounts for every line;
- `FailuresKept`: the first and last error and failure survive, and all of them
  within their cap, whatever competes for the total cap;
- `ContextOnly`: a kept line is a signal or next to one, within the total cap (a
  limit of zero turns a kind of signal, or the cap, off);
- `CodeStaysAway`: no line of a document that the gate took for code or structure
  reaches the model, though the lines are judged a second time, after blank runs
  were collapsed; nor does a text that was told to be code, as prose. A document in
  which that collapse took a line's indentation is excepted, in the formula
  (`LinesKept`): there the code does let such a line through (see the observations);
- `BlocksComeBack`: verbatim blocks return whole, on their own lines and in order
  (but for spaces at the document's end, which may stay behind the last of them,
  and with the same exception), and in place, or the document stays as it was;
- `TableComesBack`: the decoder rebuilds the array from either rendering;
- `ReplyHonest`: the reply has the response's shape, differs in the one field the
  text came from, shows what left the pipeline, with a hint only for what can be
  retrieved, and the event log has one event at most, with its numbers.

## 3. The runs

| Run | Expect | Instance | Bounds and why they are enough |
|---|---|---|---|
| `session_store` | pass | 3 sessions, 2 tiers, cap 2, TTL 1, clock 0..3 | three sessions on two places evict; the clock passes the TTL twice, so an entry can expire, be set again and expire again |
| `router_proxy` | pass | 2 requests, 1 session, 2 policies that disagree on tiers, defaults, pins and stickiness, 2 models, statuses 200, 400, 403-denied, 404, block of 2 units, clock 0..2 | two handlers give every overlap of two critical sections; the session is shared; a tier can be denied twice at different times; a reload to a policy without the remembered tier happens |
| `original_store` | pass | 3 contents of sizes 1, 1, 2, cap 2, TTL 1, 3 aliases, clock 0..2, 1 getter, torn content writes | any two contents can overflow the cap; one eviction may drop one or two files, with a crash between; three aliases let one content be evicted and come back |
| `alias_reissued` | violation | as `original_store`, failing index writes | see findings |
| `rule_eval` | pass | 1 heuristic leaf, 4 model leaves on 2 signals, one of them undefined; conditions of two levels and every group over two of them, pairs of routes, 11 malformed nodes | two leaves share a signal, so the memo is used; a group inside a group has cheap and costly children on both sides; with two routes a failure of the first meets the second; every subset of signals fails, with and without a sidecar |
| `reconcile` | pass | a target with everything and one with nothing (the compiled-in table has these two), histories of up to 4 turns, all uses of each feature | four turns hold a tool call, a system message in between, the result and a thinking-only turn; every subset of features occurs |
| `hook_settings` | pass | 3 hooks of the user (one unrelated, one under a directory `hooks`, one of an older Whittle), launchd, 2 commands, 3 faults or edits, failing writes | two commands give a setup against a cleanup, each against any number of heals; three edits break the file, repair it and drop an entry in mid-save |
| `hook_clobbered` | violation | as `hook_settings` | see findings |
| `sidecar` | pass | 2 compressions, 2 classifications, 1 permit, 1 crash | two threads for every lock; the one permit is contended, so one of two is shed or waits for a failing load; one crash puts the two halves of a pair in different processes |
| `follower` | pass | 2 logs, 3 lines between them, backlog 2, reads of 3 bytes, 1 rotation, 1 torn write | a read of a line and a half cuts every second line; three lines over two files are more than the backlog shows and can be glued; one rotation meets a follower that is ahead, behind, between stat and read, or holds a rest |
| `hook_daemon` | pass | 2897 logs of 4 to 8 lines, 17 documents, the other types, 2259 tables of up to 3 rows, every shape of response; 2 errors, 1 warning, 1 trace of 2 lines, 4 lines in all; the gate's and the hook's limits as in the code, aliases of 1 or 10 digits | every cap is exceeded alone and together with the others; traces with and without indentation, blank runs and ties at the cap occur; the documents nest, leave open and mistype fences, three have blank runs that are collapsed, one of them before an indented line; tables hold absent, null, dotted, constant, uniform and twice-keyed cells, and strings that look like something else |
| `json_strings` | violation | as `hook_daemon`, with half a surrogate pair among the strings | see findings |

`MaxTime`, `MaxAliases`, `MaxEdits`, `MaxCommands`, `MaxCrashes`, `MaxLines`,
`MaxRotations` and `MaxTears` are bounds of the models
alone; `Epoch` is the Unix
time at clock 0 in the same scale as the aliases (6, past any alias of the
instance). The two contents of one unit are symmetric. A request identifier is
used once: a client's later request is another member of `Requests`.

Deadlock is checked for the stores and the proxy. `Reload`, `Forget` and
`Restart` may always take a step, so this says little there, and liveness is
stated by `Answered` instead. The other models stop where the program
does and say so (`CHECK_DEADLOCK FALSE`): a decision is made, a request is
rewritten, the sidecar's requests are answered, a watch is stopped, a hook's call is
over, and `settings.json` is at rest
once the bounded commands and edits are over and the hook is in place.

**Fairness.** `FairSpec` assumes weak fairness of each accepted request's
`Serve`, the handler's own steps: a goroutine that can go on is scheduled. Nothing
is assumed of the upstream (`Outcome`). The transport bounds only the wait for
response headers (120 s); dialling, the TLS handshake, the sending of the body and
the read of a rejection's body have no deadline of their own (proxy.go:79-83, 263).
So `Answered` has the premise that the handler does not wait for ever
(`[]<>~Waiting(r)`); without it, it fails. What it says is that nothing else
holds an answer up: no reload, no other handler, no outcome of an attempt, the
rejected and the lost ones included. Nothing is assumed of clients, of the
operator's reloads or of the clock.

`Sidecar` assumes that threads are scheduled and that a load or an inference
ends, with a result or an exception; nothing of how a contended lock is given.

`Follower` assumes that the ticker fires and the loop goes on. Nobody has to write,
to finish a write or to stop the watch.

`HookSettings` assumes that a save, once begun, goes on, that the heal ticker
ticks, that a supervisor starts what is loaded, and that the launchd steps of a
command follow. Nothing is assumed of commands, edits, logins or faults; that
these are bounded matters to `Healed` only in that a file rewritten without end
would never settle, and the property's own premise asks for a daemon that stays up.

### Findings

- `alias_reissued`: `persist` ignores errors. If `index.json` was not written
  and the daemon restarts, an alias a transcript already carries is handed out
  for another content; GUARANTEES.md says this never happens.
- `hook_clobbered`: any PostToolUse entry whose text contains `/hook` is taken
  for an older Whittle's and deleted, a script under `~/.claude/hooks/` for one,
  although the comment says "merges (never clobbers)".

- `json_strings`: the CSV rendering of a column of strings decodes each with
  `json.Unmarshal`, which turns the escape of half a surrogate pair (a truncated
  emoji) into U+FFFD. Strings with a carriage return are held back as JSON, these
  are not, so the value cannot be rebuilt; GUARANTEES.md says it always can. The
  repository's tests compare after decoding both sides, which hides it.

Some observations have no run of their own.

In the router:

- The sticky read and the write-back of `decide` are separate critical sections
  (engine.go:150, 162). A request of the same session that raises the tier in
  between is overwritten by a downgrade that `min_band_jump` should have held
  (docs/POLICY.md:450-453).
- Only the direct children of a group are ordered cheap first (engine.go:276).
  `any: [domain, any: [keywords, domain]]` asks the classifier before it looks at
  the keyword that decides; docs/ROUTER.md:78-80 says "a keyword match never pays
  for a classifier call".
- A beta token whose name passes two of the features' tests (they are substrings,
  so `effort-thinking-…` would) makes the order matter: stripping one feature takes
  the token the other is detected by. No token known today is of this kind, and
  `OrderIrrelevant` is proved under the hypothesis that none is (`OneOwner`, which the
  run's instance satisfies), while reconcile.go:16-17 calls the order irrelevant
  without reserve.
- Thinking blocks are removed from the history only if the request itself carries
  thinking (reconcile.go:47, 174). Switched off in mid-session, they stay for a
  model that, by docs/ROUTER.md:243-247, refuses them.
- Only 400 and 403 are retried: a rewrite answered 404, which an unknown model id
  gets, reaches the client (proxy.go:242), where README.md:32 says without reserve
  that "a rejected rewrite retries your original request".

In the hook and the compressors:

- README.md:29 says that "logs keep every error". The caps (20 errors, 200 lines)
  drop errors in the middle; `FailuresKept` is what holds.
- Without its exception `CodeStaysAway` fails. ansi.go:15 swallows the
  indentation of a line that follows a run of blank lines, so that an indented
  line without a number, code to the gate, is segmented as prose and sent to the
  model. The comment at router.go:471-474, that the gate and the compressor judge
  identical inputs, does not hold there, as the gate judges the text before that
  collapse. The numbered lines of a read are safe: the number comes first.
- The alias is probed with eight digits (hook.go:146). One of ten digits, after an
  index was lost, may not fit: the alias is then spent and told to nobody.
- A log the compressor gives back unchanged, of which only escapes were stripped,
  counts as lossy and gets a hint; the blank lines `ansi_strip` took before it are
  in no marker.
- A legacy event's reply is a bare string whatever the tool's shape is.
- The rows of a table and the siblings of the replaced field are `RawMessage`s, of
  which `json.Marshal` escapes `<`, `>` and `&`: equal values, but other bytes than
  the "byte-exact" of the comments.

In the command line and the stores:

- A watch that starts while the last line of a log lacks its newline counts the
  newline all the same (watch.go:200), so its offset is past the end: if the line
  never gets one, the next look takes the file for a truncated one and shows it
  from its start. This is why `InStep` asks for a clean start.
- A log that is replaced by one that is not shorter than the offset is read on
  from the middle, against the comment at watch.go:94-97. `Follows` leaves it out.
- With `Launchd = FALSE` `TeardownSticks` fails: `cleanup` then only prints advice,
  the daemon goes on and its next heal restores the hook (setup.go:173-175 assumes
  that cleanup stops the daemon).
- Files of a `Put` that died before `persist` belong to no entry of the retrieval
  store, so `evict` never removes them.
- The comment at app.py:50 speaks of bounding concurrent inference, but the
  inferences of the routing endpoints pass no semaphore.

## 4. The proofs

`SessionStoreProofs` proves for any sets of sessions and tiers, any TTL, cap and
clock bound:

- `TypeCorrect`, the type invariant;
- `SizeBoundHolds`, `NoRollback`, `ActiveSessionsHeld`, by one inductive
  invariant: the three properties together with the type invariant, and two
  facts that the counting needs, namely that the map and the set of sessions
  ever used are finite and that no session was used in the future. None of
  them is inductive alone: that an eviction spares the working set follows
  from the map being full (`SizeBounded`) of entries whose last use is the
  session's own (`EntriesAreLatest`), so that more than `MaxEntries` sessions,
  the newcomer included, were used no earlier than an evicted one;
- `EvictionOrder` (`FreshLeavesLast`): the sweep of the expired entries comes before
  the choice of a victim, so that a store with room among its fresh entries
  keeps them all;
- `StoreImplementsMemory` (`ImplementsMemory`): each operation is a step of
  `SessionMemory` on what the store shows (`Visible`, the fresh entries); the clock
  and an eviction only make it forget.

`OriginalStoreProofs` proves for any contents, sizes, aliases, getters and
bounds:

- `StoreTypeCorrect`, the type invariant, with no further assumption;
- `AliasesNeverReissued` and `StoreImplementsArchive`, assuming that index
  writes do not fail (`"index" \notin Faults`; `alias_reissued` shows that the
  assumption is needed). The inductive invariant says that every alias in the
  registry is below the counter (`Below`) and that the table agrees with the
  registry (`Agrees`), and, because a crash replaces both by what the index
  file holds, that the counter and the table a restart would come up with do
  so too (`RestartSafe`). `PutSafe` says that the alias of the Put in progress
  is new and `GetSafe` that a pending read belongs to an alias of the registry;
- `TableWithinCap` and `OriginalsRetained` under the same assumption. Neither is
  inductive: an eviction may be cut off after any file, and the next process
  starts from the table that was saved. The invariant (`RInv`) therefore says of
  the table in memory and of the saved one alike that it fits the cap
  (`Bounded`), that its files carry the time their contents were last written
  (`Stamped`) and that it names every young content that fits together with all
  written since (`Keeps`); `SavedTable` and `PutKeeps` say where the two may
  differ while a Put is under way. That evicting the oldest first never reaches
  such a content is an argument about sums: what is newer fits, so the eviction
  stops before. `FoldTheorems` supplies the laws (a sum does not depend on
  the order, a smaller set has a smaller sum).

`RouterProofs` proves for any requests, sessions, tiers, policies, statuses
and block duration all safety properties of the proxy and that it implements its
contract: `ProxyTypeCorrect`, `BlocksHold`, `RewritesFollowPolicy`, `SessionsAreOwned`,
`BlocksAreEarned`, `PoliciesAreKept`, `ProxyImplementsContract`. The inductive
invariant has, for each handler, `WireOK` (what its program counter says about
the attempts sent and heard), `ReplyOK` (done if and only if answered), `DecisionOK`
(the tier and model it goes on with are those of the policy it loaded) and `GuardOK`
(a guard passed before a denial still in force was passed before the block
began), and `BlocksOK` (no block reaches further than one set now would). The last
two carry `BlocksHold`: a later denial extends a block, so it has to be known that
no block is ever longer than a new one. Refinement needs `WireOK` and `ReplyOK`
alone. No assumption is made about the session memory beyond `SessionMemory`.

It proves of reconciliation, for any features, targets and histories,

- `WellFormedHolds` and `NothingElseLostHolds`. At each point the request is the
  original without the features dealt with so far (`Parted`, in `ReconcileInv`),
  whichever they are, so that what is left to say is about functions: stripping
  and repairing leave no empty turn (`FullTurns`), repairing leaves no two turns of
  one role in a row (`Alternates`), and what is said by whom passes through each
  loop as through a concatenation (`SaidIs`). A tool call and its result stay
  neighbours by an invariant of the repair's loop (`HistoryWaits`): as long as the
  result has not come, either the call is in the turn written last, or it never
  had one;
- `OrderIrrelevantHolds`, if no beta token belongs to two features (`OneOwner`): a run
  in any order removes just what the target lacks and the client used (`RunAll`).
  The one dependency, a system turn that goes with the thinking, is harmless,
  because then there is nothing to convert (`StillDetected`).

And of rule evaluation, for any policies, conditions, leaves and requests,
`FirstMatchWinsHolds`, `FiresDefinitelyHolds` and `AskedSparinglyHolds`. `Good` says what
one evaluation of a condition does to the memo: it asks only what it names, tells
of a failure if it met one, gives the condition's meaning if it met none, and a
positive answer whatever the failed signals would have said. It holds for every
node because it holds for a leaf and, if for its children, for a group, whose loop
stops at the first child that decides (`GroupGood`). The invariant of the waterfall
(`RuleInv`) then adds up what each route that was tried told (`Passed`, `Grounded`).

`HookSettingsProofs` proves for any hooks, faults and bounds `SettingsTypeCorrect`,
`OneEntryHolds` and `NeverTorn`; `SavesMerge` where reads do not fail; and
`TeardownIsFinal` where, besides, launchd runs the daemon. Both assumptions are
needed: with a read that fails, the settings are replaced by an empty file, and
without launchd nothing stops the daemon. The inductive invariant bounds the
entries of everything that may become the file; it says who uses the temporary
file and what is in it until two writers collide (`Alone`), that a copy that is not
stale is the file with the entry merged in (`CopyOK`), and that from the bootout
of a cleanup on the job is not loaded, so that no heal can begin (`TornDown`).

`SidecarProofs` proves for any requests, permits and number of crashes
`SidecarTypeCorrect`, `PermitsAreConserved` and `ModelsLoadedOnce`. The inductive
invariant says that each lock has one holder and that what the holder saw unset
under the lock is still unset (`LocksOK`), that the published object is the only
one made and the one every thread uses (`ObjectsOK`; without it two embedders
would load behind two different locks), and that nothing runs in a process that
does not serve (`PhaseOK`), so that the warm-up races with nobody.

`FollowerProofs` proves `FollowersInStep` for logs of any length and number of
lines, reads of any size, any number of torn writes and rotations. The invariant
(`FInv`) ties what a follower holds to the file its offset was counted in: while
that file is there and the follower began at a line's start, splitting the bytes
up to the offset gives the texts it handed over and the rest it keeps (`Caught`);
once the file was replaced nothing is claimed until the follower starts over,
and then the rest is empty. That reads may cut the file anywhere is the law that
splitting `a \o b` is splitting `a` and going on with its rest (`SplitConcat`); that
the offset of the backlog is the end of the file is that the lines with their
newlines, and the rest, are all the bytes (`SplitSize`).

`LatestShown` (`BacklogIsLatest`) is about the start of `watch`, where each log is cut
to its last lines, at two moments, before their events are merged and cut again. An
event cut from a log has as many later ones of that log behind it as are shown, so
that it cannot be later than one of these (`LatestOf`; that a stable sort followed by
a cut keeps the latest is `MergedIs`). That cutting lines is cutting events needs every
line to be one (`EventsAre`), as the property's hypothesis says. The invariant
(`BacklogInv`) supplies what this takes from the logs: their texts begin with lines
written one after the other (`Rising`), also where a torn line is glued to the next,
and no line is in both (`Apart`); and what was taken from the router's log stays apart
from the other one while that is written or replaced (`StartOK`).

`HookDaemonProofs` proves for any texts, kinds of lines, limits, model answers,
aliases and calls

- `NothingGrows` (`NeverLonger`) and `RepliesInPlace`. What the layers compute does
  not matter here: the pipeline's guard and the one on the hint compare with the
  input, and the inductive invariant says that what they compared stays in
  place (`InputOK`, `FreshOK`, `LogOK`) until the reply is built;
- `RepliesHonest` (`ReplyHonest`), from that invariant and `ToldOK`: from the guard on
  the hint to the reply the text that is told is what left the pipeline, or that
  and the hint, with the original stored under the alias;
- `FailuresComeThrough`, `OnlyContextComes` and `LossIsTold` (`FailuresKept`,
  `ContextOnly`, `LossIsMarked`). `LayersOK` says which layers ran and what the text is
  then; after the log compressor it is `LogCompress` of the stripped input, so that
  the rest is about functions. The compressor's loops are folds, which
  `FoldTheorems` turns into sequences of accumulators. On these it is shown by
  counting up that stripping and splitting never make two lines of one word
  (`WordsDiffer`, `Apart`), that the output has the selected lines and counts and
  nothing else (`EmittedHolds`), that joined lines split into the same lines
  (`JoinedSplits`), and that at each point the lines written and the gap not
  written yet add up to the lines seen (`EmittedReads`). Of the selection, the ends
  of a level are among the first and last picks (`EndsAreKept`), the loudest lines
  outrank all others in `enforceCap` while they fit (`LoudStay`), and a context line
  has a signal next to it because context is added once (`SelectionIs`);
- `TablesReadBack` (`TableComesBack`), for any keys, any number of rows and any limit
  of flattening. `TablesOK` says that after `json_crusher` the text can only hold the
  table of the call's array; the rest is about functions again. The schema has each
  key once, which is that an order by frequency exists (`InOrderIs`), and with its
  absences tells each object (`BuildFits`). Flattening spreads an object over its
  inner keys, and as a parent is a key of one part, no two of the names are the same
  (`NamesDiffer`, `FlattenSpreads`). Factoring changes nothing of what a row tells, the
  numbers of the absent columns being counted anew (`FactorTells`). Backwards, each
  rendering gives each present cell back (`CellsComeBack`), and the decoder, which
  gathers exactly the inner keys recorded for a parent, tells what was spread from
  what was there by its name alone (`GatheredIs`).

- `CodeKeptAway` (`CodeStaysAway`), for any document, with nothing supposed of what
  is code. `MaskOK` carries through the chain that what is masked is the text that
  was segmented, after both filters and nothing else (`ReadText`), that a document's
  type is that of the call, and that a text told to be code was refused at the gate
  (`CodeRefused`). Most of the work is that the two segmentations agree: the lines
  of the collapsed text are lines of the document, in order, of which only void
  ones are missing, and a void line moves neither the open fence nor the tag of
  another line, so that each keeps its tag. The masked text is its lines that are
  not verbatim, joined, with sentinels between (`MaskedAre`), so that each of its
  words is one of prose (`WordsMasked`, `AwayOK`).
- `BlocksReturn` (`BlocksComeBack`), for any document and any answer. An answer is taken
  only with as many sentinels as there are blocks, and its k-th is block k, wherever
  it stands; splicing sets each run of lines between two newlines, whatever is
  around it, and the runs are the verbatim lines in order. A sentinel of the answer
  can bring no other verbatim word, as none was sent. If the answer is a
  subsequence of what was sent, all its sentinels are there, so that each of its
  words is between the same two runs as before.

The texts of the calls are assumed to be what tools write: raw items, of
which no two words are the same, and one word to a line at most, as a word stands
for all that is visible of it (`IsGiven` and `OneWord` in `HookAssumption`; the run
evaluates them). Their tables are values as the parser gives them, of which a CSV reader keeps what
has no carriage return (`IsArray`). `TablesReadBack` has one hypothesis besides,
`StringsUnaltered`: the strings hold no half of a surrogate pair, which
`json.Unmarshal` replaces. It is what `json_strings` violates, and all that it needs to:
the strings with carriage returns, the numbers that look alike and the dotted keys
are covered.

Induction over data is not available as a rule, as the induction theorems take a
predicate for a parameter. `FoldTheorems` does without it: a set of naturals that
is not empty has a smallest element (`SmallestNat`, from the well-foundedness of
`<`), so that a property closed under one step more holds up to any number
(`UpTo`); the recursive function behind the community modules' folds is shown to
exist (`RecursionExists`), and a fold to be the last of a loop's accumulators (`FoldIsLoop`). The functions on conditions recurse on
trees: what holds of a node if of those lower than it holds of all
(`HeightInduction`), and a function defined on a node by its values on the children
exists and is unique (`TreeRecursion`).

Assumed in the models themselves: distinct contents have distinct hashes, a
message has blocks only where its content is a list (`Message`), a condition is a
finite tree (`RuleTrees`), and
after one jump to Unix time aliases are handed out no faster than one a second
until the next (`IndexLost`'s guard).

`SizeBounded`, `EntriesAreLatest`, `BlocksEarned`, `PolicyKept` and `ReplyInPlace`, as well
as the type invariant of the session store, are proved but in no run: the first
five hold for every instance, and the budget of the runs goes to what only TLC
can check.

**Only model-checked.** `Answered`, `Healed`, `Finishes` and `Follows`: liveness under fairness is beyond the
proof system. Every safety property of a passing run is proved.

## 5. Plan

Done: the two stores, the proxy, the hook's installation and the sidecar with
their proofs, reconciliation, rule evaluation, the follower, and the way of a
tool's output through detection, compressors and hook, with proofs about the
follower, the log compressor and the hook's reply. What could follow, the most
useful first:

1. The rest of the policy's validation (tiers, default, bands, references), with
   the promise that an accepted policy never makes `Decide` fail.
2. The sidecar's supervision in `setup.go` and the opt-in router's agent.

## 6. Not modelled

- An `index.json` that is there but cannot be read, which store.go:35 takes for a
  new store: the model's lost index is the one that cannot be parsed.
- The wrapper `quietClassifier` (router/server.go:24-29), which keeps one kind of
  classifier failure from the log, and keys of a table with half a surrogate pair.
- Regular expressions and character classes: which detector claims a text, what a
  line matches, `classify` and `isProseLine` are part of a model's input. The
  order of the detectors and what is done with their verdicts is modelled.
- The collapse of carriage-return overwrites (`croverwrite.go`, part of `ansi.go`):
  character positions within a line.
- `tabular.go`, which no chain uses, and the sampling of `jsoncrusher.go`, which is
  disabled; the bound on the matrix and the competition of the renderings by
  estimated tokens are a choice.
- Line numbers of more than one digit and the width of counts in a marker. The
  model's answers beyond two dropped items.
- The override of the content type and of the token floor, which the callers here
  do not use; the nine-second deadlines, which are the model's failures and `Die`.
- A daemon without a store or without a model sidecar is left to the constants
  `HasStore` and `WithModel`; the run has both.
- The numeric side of the classifiers; texts and words matched by rules; header
  hygiene, usage counting and the streamed body of the proxy.
- Command-line handling, the MCP loop, statistics, the npm wrapper, the library
  facade, logging and the benchmarks: pure I/O around the other components.
