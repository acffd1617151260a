# mcp-armor: a TLA+ model of the guard, its middleware and its audit log

mcp-armor puts a chain of twelve *engines* (T1 ... T12, one per threat category)
around a Model Context Protocol server. An adapter receives each JSON-RPC
message, finds or makes the session's context, runs the request chain, calls the
wrapped server, runs the response chain and sends what is left. Most engines
decide on one message by itself. This project models the parts that *remember*:
where several requests, threads, process lives or clock readings meet in one
piece of state; and the path of a message, where what one reader checks has to be
what the next one reads.

Paths below are relative to `src/mcp_armor/`.

## Inventory

| Component | State it keeps | Operations | Interacts with |
|---|---|---|---|
| Guard (`guard.py`) | the engines in order; schema stores of T3 and the envelope | `open_session`, `run_request`, `run_response`, `close_session`, `startup`, `shutdown`, schema commit after an accepted `tools/list` | called by the adapters; calls every engine in the order T12, T1, T7, T8, T11, T2, envelope, T3, T4, T10, T6, T5, T9 (and back on responses) |
| ASGI middleware (`adapters/fastapi.py`) | `_active_sessions`: session id to context | one coroutine per HTTP request, the lifespan handler, the reaper's eviction callback | guard, wrapped app, T10 (`on_evict`) |
| Audit engine T12 (`engines/audit.py`) | chain head in memory; the log, the `.hwm` sidecar and the `.hmac_enabled` marker on disk | `on_startup` verification, `_append` for each event | every guarded request awaits it |
| Resource engine T10 (`engines/resources.py`) | last-seen table, LRU budget ledger | the hooks of a session's life, the reaper task | the middleware's session table |
| Session engine T7 (`engines/session.py`, `_session_token.py`) | none but the signing key; the phase travels in the context | token checks, the handshake gate | middleware (which phase an unknown session gets) |
| Integrity engine T6 (`engines/integrity.py`) | the baseline manifest hash, in the context | baseline, drift check | middleware (whether the context is written back) |
| Explicit state (`explicit_state.py`) | handle records with two levels of counters; replay cache of sealed states | mint, resolve, revoke (three ways), list; seal, open | the server's own threads, `on_revoke` callbacks |
| Authentication T1 (`engines/auth.py`) | two caches of seen `jti` values | `on_request` | clock |
| Authorization T2 (`engines/authz.py`) | pending confirmation tokens | `on_request`: policy decision, then issue or consume; `filter_tools_list` | clock, request context |
| Envelope engine (`engines/envelope.py`, `request_envelope.py`, `mcp_protocol.py`, `meta_identity.py`) | a bounded registry of tool schemas | `register_tools`; `on_request`: `reconcile_meta`, `validate_request_metadata` | guard (schema commit), T1's identity, intermediaries that route on headers |
| Supply chain T11, network T8, validation T3, boundary T4, protection T5, trust T9 | none, but for T3's schemas | decisions on one message | guard |
| Lifespan handler (`_handle_lifespan` in `adapters/fastapi.py`) | two queues to the wrapped app, the app's task, what the ASGI server has been told | start and stop of app and guard, drain of the tracked sessions | ASGI server, wrapped app, guard, T10's reaper |
| FastMCP adapter (`adapters/fastmcp.py`), `@guard.protect` (`guard.py`) | the ContextVar `_active_ctx`, shared with the middleware | a session for each hooked call; a wrapper under the call around it | guard, tasks a tool spawns |
| Dispatcher adapter | none between calls | one context per call | guard |
| Sidecar (`sidecar.py`) | its HTTP client, open between start and stop | `ForwardingApp`: one hop to the upstream for each request | runs behind the middleware as the wrapped app |
| Configuration, trace context, OCSF, exceptions, types | none, or constants | set-up, parsing, formatting | - |

What is hard here, and what makes each part correct:

* **Audit log.** Writers interleave around two awaited threads; an append or a
  mark may fail, or stop half-way; a call may be cancelled while its thread runs on; the
  process may die at any point and the disk may forget what was not synced, log, mark and
  marker alike; the next boot has to tell an accident from an erased tail, under keys that
  change. *Correct:* the file is one chain, what is lost behind the mark is noticed before
  the service is up, a crash stops the next boot only by a line cut short, signing never
  silently stops.
* **Middleware.** Every request works on a copy of its session's context, loaded
  before the first await and written back after later ones, while the reaper may
  evict the session in between. *Correct:* budgets cannot be regained, the
  handshake gate cannot be stepped around, a manifest that changes is noticed,
  nothing is left that nobody will remove.
* **Resource ledger.** Callers bring counts of any age, and the ledger itself
  forgets under its LRU bound. *Correct:* a session is admitted no more often
  than its limit unless the bound threw its entry away.
* **Handle registry.** The clock is read before the lock and callbacks run after
  it. *Correct:* counters match records, caps count live handles only, a handle
  goes only when it expires or is revoked, and each revocation is reported once.
* **Replay caches** (T1, sealed state). A message is compared with one
  reading of the clock and remembered under another; caches are bounded. *Correct:*
  what is good once is accepted at most once while it is fresh, because what a cache
  forgets has run out.
* **Guard chain.** What an accepted `tools/list` teaches T3 and the envelope engine
  depends on a per-task note of the method in flight, set before the first await and
  consumed after the last, while other tasks and nested calls do the same. *Correct:*
  only a `tools/list` that every engine accepted is learned, it always is, and what
  was learned first stays.
* **Confirmation store** (T2). Tokens are reissued, expire and are stored by
  threads in any order; quotas on three levels share one store. *Correct:* a
  confirmation is good for the latest plan it was issued for, once, within its ttl,
  and only live confirmations turn others away.
* **A server's life.** The wrapped app and the guard start and stop one after the other
  over two queues, either may fail, the app may end without a word, and the reaper evicts
  while the drain closes. *Correct:* no request is served by engines that have not all
  started, the server is answered, and a clean stop leaves nothing.
* **Calls on one event loop.** HTTP requests, hooks and wrappers nest, spawn tasks, fail
  and are cancelled at any await, over one ContextVar and T10's table. *Correct:* a wrapper
  runs as the call around it; what a call opened, it or the drain closes.
* **One exchange on its path.** The guard decides on one reading of the JSON, the bytes
  go on; answers are buffered under a cap, filtered, and framed anew. *Correct:* nobody on
  the way reads another document than the guard did, and a client gets one whole answer.
* **One request at the gates** (T2, envelope). Headers that intermediaries route on,
  the body the server runs, JSON hidden in arguments, schemas with several spellings of
  a name, and what `_meta` says about its sender have to agree, through four layers of
  early returns and a fallback for older clients. *Correct:* what is routed on is what
  runs, no claim passes that the access token does not make, and a client that follows
  the rules is served.

## Modules

| Module | Models |
|---|---|
| `AuditTrail` | what the audit log promises: a trail that grows at its end, and never opens without its acknowledged records |
| `AuditLog` | `engines/audit.py`, detailed; shown to implement `AuditTrail` |
| `AuditLog_proofs` | its theorems |
| `ResourceLimits` | the limits `engines/resources.py` is configured with |
| `ResourceLedger` | `engines/resources.py` |
| `ArmorMiddleware` | `adapters/fastapi.py` composed with `ResourceLedger`, the T7 gate, the T6 baseline and T12's awaits |
| `ArmorMiddleware_proofs` | its theorems, and those of `ResourceLedger` |
| `HandleRegistry` | `explicit_state.py`, `HandleRegistry` |
| `HandleRegistry_proofs` | its theorems |
| `SealedState` | `explicit_state.py`, `RequestStateSealer` with its replay cache |
| `SealedState_proofs` | its theorems |
| `GuardChain` | `guard.py`: request and response chain as `adapters/dispatcher.py` drives them, dry run, and the schema stores of T3 and the envelope engine |
| `GuardChain_proofs` | its theorems |
| `ReplayCaches` | `engines/auth.py`: `on_request` around its two `jti` caches |
| `ReplayCaches_proofs` | its theorems |
| `ToolPolicy` | `engines/authz.py`: the policy decision, the binding of a confirmation, the filter of tool lists (operators, no state) |
| `ConfirmGate` | `engines/authz.py`: the confirmation of destructive calls, over `ToolPolicy` |
| `RequestScenes` | what the gates are given: requests, contexts and learned schemas, with what is assumed of them |
| `RequestGates` | one request through `engines/authz.py` (over `ToolPolicy`), then `engines/envelope.py` with `request_envelope.py` and `mcp_protocol.py` |
| `Gates_proofs` | theorems of `ConfirmGate` and `RequestGates` |
| `GuardLife` | `guard.py` `startup`/`shutdown`, `adapters/fastapi.py` `_handle_lifespan`, the reaper task, `sidecar.py`'s lifespan |
| `ToolCalls` | over `GuardLife`: `adapters/fastmcp.py` `hook`, `guard.py` `protect`, and `_handle_http` as they share `_active_ctx` and T10 |
| `HttpExchange` | the path of one message through `_handle_http` and `sidecar.py` |
| `ArmorServer` | composition: the life of a server, with the calls of `ToolCalls` or one `HttpExchange` in it |
| `ArmorServer_proofs` | its theorems |
| `MC...` | model values and small sets for the runs |

Every proof module EXTENDS the module it proves about and TLAPS (the ledger's theorems
are about the instance `Ledger` of the middleware). Operators named
after another with a suffix (`ReleaseUnlessFailed` before `Release`) are faulty
variants, kept beside the original: each property is known to fail when the
variant replaces it.

### AuditLog

Variables on disk (`log`, `logExists`, `unended`, `hwm`, `marker`) survive `Crash`;
those of the process (`conf`, `seq`, `prevHash`, `holder`, `pc`, `pending`,
`orphans`) do not. `_append` is `Call` (the coroutine asks for the lock),
`Acquire` (lock taken and `_write` run, which moves the in-memory head),
`AppendDone`/`AppendFails` (first thread), `HwmDone`/`HwmFails` (second thread,
lock released). `on_startup` is `BootChecks`, then `BootVerify` and
`BootReanchor`, or `BootSeed` when there is nothing to verify or verification is
off. Cancellation of an awaiting coroutine leaves its thread's job in `orphans`.
`StartBare` is a process that serves and never calls `on_startup`: `_append` then locks a
lock of its own (`audit.py:594`), so `Acquire` waits for nobody, and the chain starts from
nothing.

What the files may look like. A line is a record or `NoRecord`, one that cannot be read.
`unended` says that the last line has no newline, so that whatever is written next is
glued to it (`Glued`). A write that fails, or that the process does not survive, leaves
nothing, part of a line, or the line without its newline (`WriteStops`). The sidecar is
replaced whole, but no file is synced: `PowerFails` brings back a log cut anywhere or
gone, any sidecar there has been since the last such failure (`marks`) or a `Garbled` one,
and the marker or none. `lost` notes what changed.

Abstractions. A record's hash is its `entry_id`, drawn fresh: hashing is taken
as collision free. A MAC is the key that made it. Nobody tampers with the
files: the model is about what the program does to itself. A thread's I/O is one
step. A power failure takes an end of the log, never a line in its middle. Why a boot is
refused is not distinguished. `_write_sync` and `_verify_chain`, the
synchronous variants kept for tests, are left out.

The properties name what the code does not promise. `ChainContiguous`, `RestartAccepted`
and `SigningSticky` say nothing of a process that skipped `on_startup`; the first holds
again once a verifying boot has come up. When a power failure brings back an old mark,
what neither that mark nor the log knows is forgotten without a sign, and
`AckedSurvive` no longer asks for it (`acked'` in `PowerFails`).

### ResourceLedger

`lastSeen` is `_session_last_seen` with time reduced to *none*, *fresh* and
*silent* (silent: longer than the heartbeat interval). `order` and `used` are the
OrderedDict `_session_budgets`: its key order and its counts. The hooks run
without an await, so each is one step. `calls`, the count in the caller's
context, is any number up to the limit. Wall-clock, loop-depth and
argument-depth limits are the action `Refuse`, which may come at any content
request. `admitted` and `dropped` are history: content requests let through since
the session was last closed, and sessions whose entry the LRU bound discarded.

### ArmorMiddleware

One record in `req` per HTTP request in flight. The code between two awaits is
one step: arrival (session resolved, context copied), `Open` (T12's append done,
T10 told, `initialize` tracked), `Admit` (request append done, T7, T10, context
written back), the wrapped app's `Answer`/`AnswerTools`/`RejectResponse`,
`Respond` (response append done, context written back, answer sent), `Close` (a
stateless context's `finally`). The engines that keep nothing per session are
rejections that may come before T10 (`RejectEarly`), after it (`RejectLate`) or
on the response (`RejectResponse`); with every engine that may reject, all
positions in the chain that differ in effect are covered. `tools/call` stands
for all content-bearing methods, `ping` for the other methods the gate allows.

A restart of the process, or a request that reaches another worker, is a session
id that this worker has issued and no longer holds: after `Reap` (context gone)
with the ledger entry dropped by the LRU bound, the model is in the same state.
Tokens are unforgeable and ids are never minted twice.

### HandleRegistry

Each operation is split where the code enters or leaves the lock: `BeginMint` and
`BeginOn` read the clock, `MintAdmitted`/`MintRefused`, `Resolve`,
`RevokeResolved`, `AdminRevoke`, `RevokePrincipal` and `List` are the lock's
sections, `Notify` is one `on_revoke` callback. `revoke` is `Resolve` followed by
`RevokeResolved`, as in the code, with anything in between. The n-th handle minted
is the number n (random tokens do not repeat). The clock is in whole seconds and
is not set back. Arguments that `mint` rejects with `ValueError`, and the `kind`
filter of `resolve`, change no state and are left out; a callback is
configured. `_decrement` stops at zero, as in the code.

### ReplayCaches

One record in `req` per request in T1: `PresentToken` is `_verify_access_token` up
to its clock comparison, `CheckToken` the call of `check_and_add` with what follows
it in `on_request`, `PresentProof` and `CheckProof` the same for `_verify_dpop`. The
engine's reading of the clock and the cache's are two steps. A cache maps each `jti`
to the instant until which it is remembered, 0 for a `jti` it does not hold. Whatever
else can refuse a request does so without touching state (before the cache: the
request is not presented) or after its `jti` is remembered (the request is `Done`
although it passed). `tokenUses`, `proofUses`, `firstSeen` are history. The clock is
in whole seconds, starts at 1 and is not set back. `nbf` and the limit on a token's
age are further refusals; an injected shared store is not modelled.

Two seams of the code show up as the conditions of the properties. A token is still
accepted at `now == exp` (`auth.py:341`) when its `jti` is already purged
(`auth.py:68`): `PassesOnce` counts uses before `exp`. A proof is remembered until
`now + dpop_max_age_secs` (`auth.py:475`) and fresh until `iat + dpop_max_age_secs`:
`PassesOnce` is about proofs not used before their `iat`.

### ToolPolicy and ConfirmGate

`ToolPolicy` has no state. A caller is the request's context (stateless or not, session,
user, tenant, scopes), a call the method, name, uri, `tenant_id` and other arguments.
`Authorized` is `on_request` up to the confirmation, `Binding` what `_confirm_binding`
hashes, `Owner` and `Account` the two accounts `on_request` passes to `issue`.

`pending` is `_TokenStore._entries`, keyed by the set of requests that have the same
binding (`Key`), since the strings that `_confirm_binding` and `_make_key` put together
are equal exactly then. `BeginIssue` is `issue` up to the lock, where token and expiry
are drawn, `IssueStored` and `IssueRefused` its locked section, `Confirm` and
`ConfirmExpired` are `consume`; a token that matches nothing changes nothing. Only a
request that is authorized, destructive and bindable gets so far (`Confirmable`). The
n-th token is the number n. The owner is part of the binding, the principal of a session
is not. The method of the call is no part of the binding: a tool and a prompt of one name
have one policy, and one confirmation serves either. `drawn`, `latest` and `confirmed`
are history.

### RequestGates

A `scene` (`RequestScenes`) is a request (transport, headers, body), the context it is
authenticated in, and the schema registry of the envelope engine; `verdict` goes from *pending* through
*authorized* to what becomes of it. `Authorize` and `Deny` are T2's `on_request` (both
are possible for a destructive call, which may lack its confirmation), `RejectClaims`
is `reconcile_meta` raising, `PassUnrouted` the early return for transports without
headers, `Validate` the call of `validate_request_metadata`. A verdict of *legacy* is
its `missing_meta` outcome, the one `on_request` lets through; *mismatch*,
*unsupported* and *invalid* are -32020, -32022 and -32602.

Abstractions. A text is a model value that is plain, needs base64 or cannot be encoded;
`Wrapped(t)` is the base64 form of `t`, itself a text when a body holds it; numbers and
booleans are their rendering, and `Unrenderable` is a value without one. An argument
object is a record of its members, and a JSON text is one that `Decodes` maps to an
object. No object stands further down among the arguments than `ArgumentDepth` names: the
code's own walks over keys have no such bound, since the body they walk has been parsed
and its size is capped. Walks are functions defined by recursion on a path's length. A
schema is its `x-mcp-header` annotations in the order of the walk, and the
name sets of its `properties` mappings. `_meta` is a set of paths, each the steps on the
way down: keys, by their kind, and items of lists, by their place: `candidate_names` and `has_identity_word` decide the kind from the
spelling and are not modelled, and neither are the members of `baggage`. A header is the
sequence of its copies; an *alias* is a name such as `Mcp_Method`. Batches and bodies
that are no request cannot come from the engine, which makes its body of a parsed
request; WSGI environments do not either.

The walk of `reconcile_meta` along a path stops at a key it rejects, where it is as deep
as `_MAX_META_DEPTH` or `_MAX_SELF_REPORTED_DEPTH` allows, and at the items of a list after
the 256th (`MaxItems`): `Reached` says how far it comes and `CutOff` where it is
stopped by a limit. `NoClaimSurvives` knows no limits, and compares with the access token
itself (`Restates`): what the walk never came to must have been refused.

`RoutedAsRun` compares with a reader that is as liberal as the servers the code
mentions: it decodes JSON texts and folds case. `filter_tools_list` promises in its
docstring that "A caller must not discover tool names they cannot call", but it looks at
scopes only: a tool that is user-only or isolated by tenant is shown to callers without a
user or a tenant. `ListsWhatIsServed` is the other direction, which holds.

### SealedState

`Seal` is `seal`; `BeginOpen` is `open` up to the lock, where the clock is read and
everything that does not touch the cache has been checked; `Opened`, `Replayed` and
`CacheFull` are its locked section, each with the purge. The n-th state sealed is the
number n. `_spent` and `_spent_heap` hold the same `jti`s, so one set stands for both;
the counters are kept as in the code, with `_decrement` stopping at zero. A shared
`spent_store`, `single_use=False` and several sealing keys are left out. `openedFresh`
is history.

The purge works with the caller's reading of the clock. A thread that compared the
state's expiry with an older reading, and gets the lock after another thread's purge
with a newer one, can therefore open an expired state a second time, although the
docstring (`explicit_state.py:255`) rejects "any second presentation".
`OpenedOnceWhileFresh` counts the openings before the expiry.

### GuardChain

A task's `stack` holds its calls under way, innermost last: a dispatcher that is
wrapped may itself call another wrapped one. `Call` is `protected` up to the first
await (T12's append), `Admit` and `RejectRequest` the rest of the request chain,
`UpstreamFails` the wrapped dispatcher raising, `Answer` the response chain up to T12's
append, `RejectResponse` an engine or that append refusing, `Return` the end, with
`_commit_tool_schemas`, and `CommitBreaksOff` that end when T3 raises. `inflight` is the ContextVar `_inflight_method`. T3 decides by
what it has learned; the other engines may reject anything, in a dry run (`dryRun`)
only T1 and T2 do, and what the others would have rejected is `violated`. A `manifest`
is what a result's `tools` lists, in its order, less the entries whose name came before,
which both stores pass over. A name may be a string, the empty string, another key (a
number) or no key at all (a non-empty array or object), and each store has its own
filter: `ByEnvelope` takes strings only (`envelope.py:73`), the first ones its cap leaves
room for; `ByT3` takes what is true in Python (`validation.py:219`), up to a name that
cannot be looked up, at which it raises. The envelope engine stands before T3 in the
chain and has taken all it takes by then. Pinning schemas at start
(`register_tool_schemas`, `guard.py:320`) is the same commit before the first call, from
the operator's own list, and is not an action of its own. `made` is a bound, `ended` and
`brokenOff` are history.

`LearnsWhatIsListed` is about every step and both stores: whatever changes one is the end
of a call whose answer the response chain has accepted. `TypeOK` lets the stores disagree
about a tool only once a commit has broken off.

Nested calls share one note of the method in flight. An inner `tools/list` that is
rejected on its request leaves `tools/list` behind, so the outer call's result is read
as a manifest although its own request was another method; an inner call that returns
clears the note, so an outer `tools/list` is not learned. The docstring of
`_commit_tool_schemas` promises learning "only when the request in flight on this task
was tools/list"; the two properties about it speak of calls that made no nested one.

### GuardLife

`server` is what the ASGI server has been told (it begins as *off*, or as *serving* when
it sends no lifespan events, `lifespans` FALSE), `handler` where `_handle_lifespan` waits,
`toApp` and `fromApp` its two queues, `app` the wrapped app's task. `SendStartup`,
`AppAnswered` and `StartGuard` or `RefuseToStart` are the start: the app first, then
`guard.startup`. `SendShutdown`, `DrainOne` for each tracked session, `StopGuard`,
`AppStopped` and `JoinApp` are the stop. `Reap` is one pass of the reaper with its
eviction callback; `CloseSession` is `guard.close_session`, whose engines all run
whether or not T12's append succeeds. `ForwardingApp` opens and closes `client` with its
lifespan. `ends` and `reaped` are history. No shipped `on_shutdown` raises, and only
engines before T10 refuse to start, so a start is all or nothing for what has to be
stopped.

Seams of the code that no property hides. A wrapped app that ends without a word leaves
the handler, and so the server, waiting for ever (`fastapi.py:192` and `:214`):
`LifespanAnswered` names that case (`Silent`). After a refusal by an engine the wrapped
app, which has started, is not told to stop. The app's answer to a shutdown is ignored.
Servers without lifespan events, and drivers of single calls (`hook`, the dispatcher,
`protect`), never call `guard.startup`: no reaper runs, and T12 starts its chain without
verification; `docs/workplan.md:246` has this planned for FastMCP. A session the reaper
evicts gets no `session_end` record.

### ToolCalls

`stack` holds each task's calls under way, a `Frame` each: its kind (*initialize*,
*stateless* and *resume* are HTTP requests), its session, the token `_active_ctx.set`
returned, the await it is at, and whether its `finally` clause will close the session.
`Opened`, `Admit`, `Returned`, `Responded` follow T12's appends and the function; `Fail`
is any exception or cancellation before the `finally`, which `Closed` or `CloseCancelled`
ends. `Spawn` gives a task a copy of the context. What the engines decide is left open.
A protect wrapper may have T10 left out (`threats=` of the code is `SeenByT10`'s second
disjunct).

`CancelledError` is no `Exception`: a call cancelled in `close_session`'s append
(`guard.py:359`) leaves its session on T10's books for the reaper (`abandoned`), and an
HTTP request skips `_active_ctx.reset` (`fastapi.py:620-628`; `unrestored`). The two
properties name these cases. Tasks a tool spawns keep the request's context after the
request is over. T1 rejects every call of a hook or wrapper that brings no token.

### HttpExchange

`in` is a whole exchange: the request's head and chunks, what its body says, and what the
wrapped app or the upstream will do. A document is what readers can differ on: the
members of one of its objects, in order, each a protocol field or another name, in its
own spelling or in one equal only under case folding, with a value or a NaN; the level of
the object decides which checks of `_strict_json_loads`, the envelope and the answer's
reading apply (`Strict`, which is given the side, *request* or *response*, since the two
checks look at different levels). `Screen`, `Receive`, `Resolve` and their refusals come before
the guard, `Forward` goes to the wrapped app or over `ForwardingApp`'s hop,
`AppSendsStart`/`AppSendsBody` are `buffering_send`, `Collect` and `Answer` what is
sent, `BreakOff` a filter that raises. Sizes are numbers against `MaxBody` and `MaxResponse`, a length header is *right*,
*wrong* or absent.

`OneReading` asks for what the checks are there for: readers that keep the first or the
last of two like-named members, or fold case, agree on every document that passes. Where
they may still differ: T1 reads the last copy of a repeated header (`fastapi.py:230`),
the sidecar forwards the first; and an answer that no scanner looks at goes through
unread. An app that returns without a start has its body sent without one
(`fastapi.py:612`), which `WellFormedAnswer` allows. An error in answer to `initialize`
carries no session id although the session stays tracked until it is reaped.
A tool whose name is a JSON array or object cannot be hashed: the filter raises on it
(`fastapi.py:588-589`, `authz.py:436`) outside every `try`, and `_handle_http` ends without
having sent anything. That is `BreakOff`, and the one exception `WellFormedAnswer` makes:
such a list is never shown, whole or in part, but the client may get no answer of armor's
at all. (A response engine may still refuse the list first, with an error: T6 does, and
T3's commit does for names that are not empty.) Cancelling an exchange before `close` is
not modelled: its answer would be cut off with the connection.

### ArmorServer

`LifeNext`, `CallNext` and the exchange interleave. A workload is a choice of deployment
(*app*, *sidecar*, *local*), of whether lifespan events come, of an exchange or none, and
of ids already minted. An exchange runs as the one call of `ExchangeTask`: `Resolving`,
`Opening`, `Forwarding` and the rest join a step of `HttpExchange` with the step of
`ToolCalls` it is, so that the `finally` clause, the tracked session and the drain are
those of a call. The server stops only when no request is in flight.

## Runs

| Run | Question | Instance |
|---|---|---|
| `audit_safety` | chain, acknowledged records, restart, sticky signing | 2 writers, 3 records, 1 failed I/O, 1 cancellation, 4 key configurations (unsigned, one key, both during a rotation, new key only), unsigned processes without `on_startup`, any power failures |
| `audit_trail` | refinement of `AuditTrail`, and every `_append` ends | 2 writers, 3 records, 1 failed I/O, any power failures |
| `armor_session` | one session in depth: manifest, handshake, eviction | 1 session, 2 requests in flight, 2 manifests, gate and drift check on |
| `armor_budget` | budgets and leftovers across sessions | 2 sessions (also stateless), 1 ledger entry, limit 2 |
| `armor_overlap` | a statement the code does not keep | as `armor_session` |
| `handle_registry` | counters, caps, refusals, no early loss, each revocation reported, once | 2 threads, 2 principals of one tenant, 3 handles, 2 instants |
| `replay_caches` | one use of tokens and proofs, caches within their size | 2 requests, 3 tokens (one without `jti`), 2 proofs, caches of 1, 5 instants |
| `confirm_gate` | one use, latest plan, ttl, quotas, justified refusals | 2 threads, 9 requests, in 3 sessions or stateless, of 4 users or none, with 2 arguments (3 of them may not be confirmed), 4 tokens, 3 instants |
| `sealed_state` | counters, one opening while fresh, justified refusals, ceilings | 2 threads, 4 principals of one tenant, 5 states, caps of 2, a floor of 1, 2 instants |
| `guard_chain` | what the schema stores learn, and when | 2 tasks, 4 calls, nested up to 2, 2 tools, 5 manifests (one empty, ones that contradict each other, one that starts with an empty and a numeric name, one with an object for a name between two tools), an envelope registry of 1 |
| `request_gates` | headers against body, claims in `_meta`, service for those who conform, tool lists | every scene of four families: callers and policies; routing headers and bodies; arguments and parameter headers under 8 schemas; paths of up to 4 steps through `_meta`, within and beyond the limits of the walk |
| `armor_server` | start, stop and drain; nesting, spawning, failing and cancelled calls; one reading of what passes, whole answers (or none, where the tool list cannot be filtered) | 2 tasks, 3 sessions of which another worker minted one, calls nested up to 2, caps of 2; every deployment without an exchange, and eight families of exchanges (`Heads`, `Framings`, `Requests`, `Answers`, `ToolLists`, `AppFramings`, `Hops`, `Routes`) |

Why these bounds are enough for the cases that matter: two writers are the least
that contend for the lock, and three records let one be lost or glued, one be in flight
and one stand on the other side of a key change; one failure and one cancellation suffice
because each leaves a state (a gap, an orphan) from which the others run on
unrestricted. Two sessions and stateless requests on one ledger entry force evictions in every
order. Two requests in flight give each ordering of two loads and two
write-backs, and two manifests are what a drift is. Three handles exceed a soft
cap of one, its ceiling of two and the registry's soft cap of two. Five instants
see a proof with a window of two seconds age and expire from either side of its
`iat`, and a cache of one entry is full with every use. The six requests
that can be confirmed are what it takes for each of the three quotas to be the one that
is reached (1 per owner, 2 per principal, 3 in all). Four principals below the floor are what brings a tenant of cap 2
to its ceiling of 4, and a fifth state meets it. Four calls on two tasks let two
answers with contradicting manifests be in flight while another method's answer, or a
nested call, passes in between. In `request_gates` each family leaves free what one part
of the code looks at and keeps the rest as it should be; the eight schemas have a name
declared once, twice together, twice apart and inside an object, an invalid and a repeated
annotation, and one too large to walk; the depth limits are 2 and 3 for 4 and 8, of a
list one item is looked at for 256, and paths go two steps beyond the lower limit.
In `armor_server` two tasks are a spawner and its child, or two requests, and two nested
calls are a caller and its callee; with lifespan events and tools together, two of the
three ids are minted beforehand, which leaves one session to be opened (without lifespan
events, two). Two members are the least that two readers can disagree about, two chunks
of up to 2 against caps of 2 reach, meet and pass a cap, and each family of exchanges varies one side
and keeps the others plain. The theorems below have none of these bounds.

Constants that are bounds and not parameters of the code: `MaxRecords`,
`MaxIOErrors`, `MaxCancels`; `Sessions` (as a pool of fresh ids) and
`ClientMethods`; `MaxHandles`, `MaxIssued`, `MaxTime`; `MaxDepth` (also in `ToolCalls`), `MaxCalls` in `GuardChain` (in the ledger
and the middleware `MaxCalls` is the code's call limit). `MaxSeals` is the code's
`_MAX_SEALS_PER_KEY`, made small. `CHECK_DEADLOCK FALSE` is due
to them: in the middleware's runs nothing is left to do once the session ids are
used up and evicted, in `replay_caches`, `confirm_gate` and `sealed_state` once the last instant
has come and what was handed out is used up or run out, in `guard_chain` once the last
call has ended, in `request_gates` once the request is decided. In `armor_server` the server
really stops, or refuses to start. The other models never stop.

### What the code does not keep

* `armor_overlap`: a request that overlaps the first `tools/list` writes its older copy
  of the context back over the one with the manifest baseline, and the next request finds
  none, although it is written "so the tools/list manifest hash snapshot survives into the
  next request" (`fastapi.py:564`).

Without a violation run, for the maintainer: `_write` advances the sequence number
before the line is written (`audit.py:571`), so that one failed append leaves a gap and
the next boot refuses the log, although `docs/THREAT_MAPPING.md:266` calls the two
"atomic"; `AuditLog` has that failure, and its properties say what holds nevertheless.
No file of T12 is synced:
a power failure may take acknowledged records together with the mark that counted them,
and nobody notices. A line left without its newline, by a crash or a failed write, is
accepted by the next boot, and the next record is glued to it, so that the boot after that
refuses the log (`audit.py:98`). A process that never calls `on_startup` has no lock
between its `_append` calls and starts from the genesis hash (`audit.py:594`): its lines
fork the chain, which the docstring of `_append` ("no two coroutines can interleave")
does not allow for. The first keyed boot leaves the marker
before any record exists (`audit.py:436`), and a stop before the first record is then
refused as an erased history (`audit.py:417`). A verified boot re-signs the sidecar
only, never the records (`audit.py:216`): once the previous key is unset the old records
are refused, so step 4 of the rotation in `docs/SECURITY.md` ("Once all old records are
re-verified (or the log is rotated)", line 142) works only after the log itself has been
rotated. A tool name that is a
non-empty array or object ends T3's commit of a manifest with a `TypeError`
(`validation.py:219`) after the envelope engine has taken its share: the answer is lost,
and a tool named after that entry may later be learned by T3 with another schema than the
envelope engine holds. Without T6, a name that is an array or an object, an empty one too,
makes the tool-list filter raise where nothing catches it (`fastapi.py:588`): the request
ends without the opaque error every other failure there is turned into (`BreakOff`).
The two seams under ReplayCaches, the late second opening under SealedState,
the nested calls under GuardChain and the tool list under RequestGates are described
there. Limitation 3 of `docs/SECURITY.md` and the note at line 116 of `docs/COVERAGE.md`
still say that the HTTP adapter does not restore a session's context between requests,
which it now does; and the comment at `types.py:71` has an unknown session ACTIVE, where
`adapters/fastapi.py:355` makes it PENDING with the gate on.

### Fairness

* `AuditLog!Spec`: worker threads finish and `on_startup` runs on (weak fairness),
  and `Acquire` is strongly fair because `asyncio.Lock` wakes its waiters in order.
  Nothing is assumed about crashes or boots.
* `ArmorMiddleware!Spec`: an engine chain proceeds once its append has ended, time
  passes, and the reaper task keeps running. The wrapped app and the client may
  stop at any time.
* `ArmorServer!Spec`: the event loop runs `_handle_lifespan` on, and a wrapped app does in
  the end what a lifespan message asks of it, unless it has ended. That the server ever
  shuts down, that a request proceeds and that the reaper finds anything is not assumed.
* `HandleRegistry!Spec`: a thread at the lock runs on (no section waits for
  anything inside it), and a callback comes back, by return or exception.

## Proofs

All theorems are of the form `Spec => []P` (or a refinement), `Spec` being the module's
specification or its safety part, for every value of the constants that meets the
modules' named assumptions.

**AuditLog_proofs.** The assumptions are the module's own: the lock's free value
is no writer, the unset key is no key. First what a step does to the file: it gains a line
at its end (`Extends`), or its last line is spoilt (`Spoils`), or it is cut (`CutTo`).
`LockInv` (in a process that ran `on_startup` whoever is persisting a record
holds the lock, and a dead process persists nothing) is inductive after typing.
On it stand independent strengthenings. `ChainInv`: while every line can be read, the
in-memory head is the end of the file, or one record past it while an append is in
progress; the chain alone is not inductive, since it does not say what the next record
will be built on. `SigningInv`: a signed record implies the marker, and the marker implies
a key in every process that may write. `KeptInv` and `AckInv`: the sidecar's count covers
every acknowledged record, or the record is in the log; it never passes what was handed
out, and a record's number identifies it; this is what makes verification against the
sidecar find a lost record. `RestartInv`: the sidecar is never ahead of a readable file,
and names its head when level with it.
`EngineImplementsTrail` maps each step to a step or a stutter of `AuditTrail`,
under startup verification, without cancellations and without processes that skip
`on_startup`.

**ArmorMiddleware_proofs.** First the ledger. `LedgerInv` adds to typing that a session
that was admitted and not dropped still has its entry, with a count no lower than what
was admitted. The cap alone is not inductive: it does not bound what the next
`Restored` returns. `LedgerInvStep` is stated for the ledger's steps by themselves, so
that the middleware can cite it.

`Inv` joins the ledger's invariant, typing, and where a coroutine's session may come
from: being initialized by it, borrowed from the issued ones, or minted for its one
stateless request (`Provenance`), with tracked sessions minted, not stateless and within
the reaper's reach. Every middleware step is a ledger hook or leaves the ledger alone:
that is `MiddlewareImplementsLedger`, and `CallBudget` and `NoRefunds` are inherited.
`HandshakeGate` needs `GateInv` over the *copies* of contexts: an ACTIVE context in
a borrowed request's hands belongs to a session whose handshake this worker has
completed, or whose stored context is gone, in which case its write-back does
nothing.

`StatelessLeavesNothing` needs `AllLeftNothing`, that a stateless session is in no table
between requests because the one request that has it open is the only one that could put
it there: `Provenance` says no other request can come by its id. `HookFrame` says which
entry of the ledger a hook may touch. `SerialClientSeesOneManifest` needs `DriftInv`, per
session that never overlapped and was not reaped: at most one request has it open
(`Alone`), so a manifest is stored before the next one is compared (`StoredOnceOpen`),
what has been shown is what the stored or the open request's context remembers
(`Remembered`), and a request on its way back has compared its manifest with that
(`Compared`). Without the two conditions it is not an invariant: `armor_overlap`
shows how an overlapping request takes the stored manifest away.

**ArmorServer_proofs.** The assumptions are the modules' own: the default context is
no session, other workers' ids are ids, caps and depth are numbers. `StepsOfServer` and
the lemmas after it reduce every step to what it does to one task's stack: a frame is
pushed, evolves, or goes (`FrameOrigin`). On them stand, in turn:
`LifeInv`, the phases of handler, queues and app, with requests in flight only while the
server serves (`ServesOnlyStarted`); `ClosersKept`, a frame that will close a session
stays until it has (`CallsLeaveNothing`); `Disciplined`, the chain in which each frame's
token restores what the frame below it set, which is what makes `RunsAsItsCaller`
inductive; `Parts` and `HeldBack`, what has been sent against what is buffered
(`WellFormedAnswer`); `Checked`, what passed the checks is still what is buffered; and
`OwnInv` with `EndsInv`, a session a call has opened is no other call's, is in no table
but by that call, and is not ended before it leaves both, which with `StopInv` gives
`CleanStop` and the `0..1` of `TypeOK`.
`StrictMeansOne` is about the checks by themselves: whatever the members of an object,
and however many, if they pass, all readers agree. `WhatPassesReadsOne` carries it to the
four parts of `OneReading`. Two of them are about what a loop has kept, of any number of
tools or headers: `LoopExists` shows that the loop's recursion has a value at every
length, and `FilteredTools` and `NamesOnce` follow it round by round, with what is kept so
far as the induction hypothesis. It is assumed that an exchange is made of members, tools
and headers (`WorkloadAssumption`); TLC evaluates that on the run.

**HandleRegistry_proofs and SealedState_proofs.** The assumptions are the modules' own
(caps are numbers, somebody calls, lifetimes are numbers). The two caches share one
argument. `Counted` says the counters are the cardinalities of the owners' and tenants'
shares of the cache, and `Capped` bounds those shares; the caps alone are not inductive,
since what admits an entry is the counters. `CountsAfterDrop` (`CountsAfterPurge`) shows
that `_decrement` per dropped entry keeps them equal, whatever part of the cache goes, and
adding one entry raises one owner's and one tenant's by one. A handle is reported once
because of `Reported`: the threads' lists of what they have still to report are disjoint,
inside `revoked`, outside the records, and about handles not reported yet. `NoEarlyDrop`
needs that no reading of the clock is ahead of it, `RefusalJustified` and
`FullOfLiveOnly` that what is left after the purge is what is live at the caller's
reading. `OpenedOnceWhileFresh` rests on `Remembers`: what was opened while it was fresh
is in the cache until it has expired.

**ReplayCaches_proofs.** Assumptions: times are numbers, a jti names one credential.
`TokensKept` and `ProofsKept` say that a used credential is remembered to the end of its
life, for a proof only if it was not first seen before its iat; `AskedCache` is what one
`check_and_add` does to a cache: what passes had been forgotten, and nothing still good is.

**Gates_proofs.** *ConfirmGate.* Assumptions: quotas are positive, a caller is stateless
or not. `Filed` relates a pending entry to what was drawn (its request, its expiry,
nothing confirmed) and to the last token stored for its binding; `Drawn` says a token a
thread has yet to store is nobody else's, which is what makes a stored token a new one.
`WithinGrows` shows the quotas survive a replacement, since one binding means one owner.
The theorem holds for calls of every method, where the run uses `tools/call` only.

*RequestGates.* Assumptions (`RequestScenes`): the base64 form of a text is no plain text,
a JSON text decodes to an object, no version is both supported and legacy, depths are
numbers, and a scene is made of the parts listed in `IsScene`. `GateInv` says what each
verdict has been through, in the order of the gates; the scene never changes
(`SameScene`). The four theorems then are about the gates' operators. For `RoutedAsRun`,
`RunIsMirrored` shows that what the liberal reader finds on the path of an annotation is
what the header was compared with: were there a JSON text or a variant spelling on the
way, the walk over the names would have found it (`CleanOnTheWay`, `CleanBelow`), and the
encoding of a header can be undone (`DecodeEncode`). For `ConformingServed`, a client that
follows the rules has no such text or spelling (`ObjectsKept`, `KeysKept`), so no check
finds one. For `NoClaimSurvives`, `WalkedToTheEnd` shows that a walk along a path that is
not rejected has come to every step of it, by induction on the steps. Walks over paths of
any length are handled by induction, as below.

*Induction.* The library's induction rule takes an operator, so the two modules that need
induction derive it for sets: `Least`, that a non-empty set of numbers has a least one,
from the library's fact that `<` is well founded, and from it `Inductive`, that a set with
0 and every successor is all of `Nat`. The value of a recursive function comes from
`WalkExists`, `ReadExists` and `LoopExists`, which show by induction that a function
satisfying the recursion exists.

**GuardChain_proofs.** Assumptions: a manifest is a finite list in which no name comes
twice, and one may be empty; the kinds of names are apart from each other; a dispatcher
may be nested at least once. `Inv` says of the two registries that, until a commit has
broken off, the envelope's agrees with T3's on every non-empty string it knows, and
either knows all of T3's or is full
(`Stores`). Agreement alone is not inductive: a tool that only T3 knows could be learned
by the envelope from a later manifest with another schema; a full registry learns nothing.
`OwnMethod` says the note in `_inflight_method` is that of the innermost call, as
long as that call has made no other; with `OuterNested`, that every call below another is
marked as having made one, it is inductive across returns. `LearnedAtTheEnd` shows that
nothing but the end of a call touches a store, `AnsweredByReturn` that nothing but a
call's own end answers it.

Only model-checked: `CallsEnd`, `QuietSessionsEvicted`, `RevocationsNotified` and
`LifespanAnswered`, since liveness is out of the prover's reach. The violation in
`armor_overlap` is a behaviour TLC finds; there is nothing to prove about it.

## Not modelled

T3, T4, T5, T8, T9 and T11 decide on
one message by regular expressions, Unicode tables, DNS or signatures; apart
from the schemas in `GuardChain` they have no state a step could break, and appear as
possible rejections. Configuration and the sidecar's command line and assembly,
trace context, OCSF and exceptions are set-up and formatting.

## Plan

In order:

1. *(done)* audit log; resource ledger; middleware with handshake and manifest;
   handle registry; replay caches of T1; T2 with its confirmations; sealed state; guard
   chain with its schema stores; T2 and the envelope engine on one request.
2. *(done)* The guard's life with its lifespan handler; hooks, wrappers and requests on
   one event loop; one exchange from its bytes to its answer, with the sidecar's hop; their
   composition, with its theorems.
3. A confirmation at its place in the chain: what a later engine's rejection leaves of it.
4. *(done)* Proofs: counters, caps and single notification of `HandleRegistry`; counters
   and single opening of `SealedState`; at-most-once acceptance of `ReplayCaches`; single
   use and quotas of `ConfirmGate`.
5. *(done)* Proofs: the learning of `GuardChain`; `StatelessLeavesNothing`, the serial
   client's manifest and the refinement of the ledger by the middleware.
6. *(done)* Proofs: the gates of `RequestGates`; what passes reads one way, for lists of
   tools and headers of any length.
