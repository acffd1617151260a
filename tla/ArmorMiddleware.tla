---------------------------- MODULE ArmorMiddleware ----------------------------
(***************************************************************************)
(* adapters/fastapi.py, ArmorMiddleware._handle_http, with the engines of  *)
(* the guard chain that keep per-session state: T7 session (the handshake  *)
(* gate), T10 resources (ResourceLedger) and T6 integrity (the manifest    *)
(* baseline), and the T12 audit engine, whose appends are the awaits.      *)
(*                                                                         *)
(* Each HTTP request is a coroutine that works on its own copy of the      *)
(* session's CoSAIContext, loaded before the first await and written back  *)
(* after later ones.  Between two awaits a coroutine runs alone: one step. *)
(* Forged tokens never get past T7 (SessionSigner.verify), so the sessions *)
(* here are minted ones.  The other engines keep no per-session state:     *)
(* they are the rejections that may come at any request or response.       *)
(***************************************************************************)
EXTENDS ResourceLimits, Sequences, FiniteSets

CONSTANTS
    Sessions,      \* the session ids mint_session_id will return, in any order
    Requests,      \* HTTP requests in flight at a time
    Manifests,     \* the tools/list manifests an upstream may serve
    NoManifest,    \* tool_manifest_hash is empty
    NoCtx,         \* no context is stored for the session
    NoSession,     \* a coroutine slot no request occupies
    ClientMethods, \* bound: the methods clients send after `initialize`
    HandshakeEnforced,  \* T7.require_initialized_handshake
    FailOnDrift         \* T6.fail_on_drift

Methods == {"initialize", "notifications/initialized", "ping", "tools/list", "tools/call"}
HANDSHAKE_ALLOWED_METHODS == {"initialize", "notifications/initialized", "ping"}
CONTENT_BEARING_METHODS == {"tools/call"}
Context == [phase : {"active", "pending"},
            manifest : Manifests \cup {NoManifest},
            calls : 0..MaxCalls]
FreshContext == [phase |-> "active", manifest |-> NoManifest, calls |-> 0]

ASSUME NoneAssumption ==
    NoManifest \notin Manifests /\ NoCtx \notin Context /\ NoSession \notin Sessions
ASSUME MethodsAssumption == ClientMethods \subseteq Methods
ASSUME SwitchAssumption == HandshakeEnforced \in BOOLEAN /\ FailOnDrift \in BOOLEAN

VARIABLES
    active,     \* _active_sessions
    minted,     \* session ids mint_session_id has returned
    req,        \* the coroutines' local state
    (* ResourceEngine and its history, see ResourceLedger *)
    lastSeen, order, used, admitted, dropped,
    (* history *)
    issued,     \* session ids a client has been sent
    stateless,  \* session ids minted for one stateless request
    shown,      \* the manifests each session's client has been sent
    shaken,     \* tracked sessions whose notifications/initialized was admitted
    overlapped, \* sessions that had two requests in flight at once
    reaped      \* sessions the reaper evicted from _active_sessions

ledgerVars == <<lastSeen, order, used, admitted, dropped>>
history == <<issued, stateless, shown, shaken, overlapped, reaped>>
vars == <<active, minted, req, ledgerVars, history>>

Ledger == INSTANCE ResourceLedger

(* A request awaits the session_start append ("open"), the request append   *)
(* ("request"), the wrapped app ("upstream"), the response append           *)
(* ("respond"), or the session_end append ("close").                        *)
Request == [pc : {"idle", "open", "request", "upstream", "respond", "close"},
            session : Sessions \cup {NoSession}, method : Methods, ctx : Context,
            manifest : Manifests \cup {NoManifest}]
Idle == [pc |-> "idle", session |-> NoSession, method |-> "ping",
         ctx |-> FreshContext, manifest |-> NoManifest]

InFlight(r) == req[r].pc # "idle"
Tracked(s) == active[s] # NoCtx

Init ==
    /\ active = [s \in Sessions |-> NoCtx]
    /\ minted = {}
    /\ req = [r \in Requests |-> Idle]
    /\ Ledger!Init
    /\ issued = {} /\ stateless = {} /\ shaken = {} /\ overlapped = {} /\ reaped = {}
    /\ shown = [s \in Sessions |-> {}]
-----------------------------------------------------------------------------
(* Arrival: the session is resolved and its context loaded.                 *)
Accept(r, s, method, ctx, pc) ==
    /\ req' = [req EXCEPT ![r] = [pc |-> pc, session |-> s, method |-> method,
                                  ctx |-> ctx, manifest |-> NoManifest]]
    /\ overlapped' = IF \E q \in Requests : req[q].session = s
                     THEN overlapped \cup {s} ELSE overlapped
    /\ UNCHANGED <<active, ledgerVars, issued, shown, shaken, reaped>>

ArriveInitialize(r, s) ==
    /\ ~InFlight(r) /\ s \notin minted
    /\ Accept(r, s, "initialize", FreshContext, "open")
    /\ minted' = minted \cup {s}
    /\ UNCHANGED stateless

ArriveStateless(r, s, method) ==
    /\ ~InFlight(r) /\ s \notin minted
    /\ method # "initialize"
    /\ Accept(r, s, method, FreshContext, "open")
    /\ minted' = minted \cup {s}
    /\ stateless' = stateless \cup {s}

(* The context of a session this worker does not hold: PENDING when the     *)
(* handshake gate is on.  The mutant admits it as ACTIVE.                   *)
UnknownAsActive == FreshContext
UnknownContext ==
    [FreshContext EXCEPT !.phase = IF HandshakeEnforced THEN "pending" ELSE "active"]

(* A known session resumes its stored context.                              *)
LoadedContext(s) == IF Tracked(s) THEN active[s] ELSE UnknownContext

ArriveOnSession(r, s, method) ==
    /\ ~InFlight(r) /\ s \in issued /\ method # "initialize"
    /\ Accept(r, s, method, LoadedContext(s), "request")
    /\ UNCHANGED <<minted, stateless>>

(* The coroutine goes on to its next await.                                 *)
Await(r, pc, ctx, manifest) ==
    req' = [req EXCEPT ![r] = [pc |-> pc, session |-> @.session, method |-> @.method,
                               ctx |-> ctx, manifest |-> manifest]]

AwaitClose(r) == [Idle EXCEPT !.pc = "close", !.session = req[r].session]

(* Every return runs the finally clause, which closes a stateless context.  *)
(* The mutant closes it only once the answer has been sent.                 *)
ReturnClosingOnSuccess(r) ==
    req' = [req EXCEPT ![r] = IF req[r].session \in stateless /\ @.pc = "respond"
                              THEN AwaitClose(r) ELSE Idle]
Return(r) ==
    req' = [req EXCEPT ![r] = IF req[r].session \in stateless
                              THEN AwaitClose(r) ELSE Idle]
-----------------------------------------------------------------------------
(* open_session: T12's append first, then T10; `initialize` is tracked.     *)
Open(r) ==
    LET s == req[r].session
        ctx == [req[r].ctx EXCEPT !.calls = Ledger!Restored(s, @)]
    IN  /\ req[r].pc = "open"
        /\ Ledger!SessionStart(s, req[r].ctx.calls)
        /\ Await(r, "request", ctx, NoManifest)
        /\ active' = IF s \in stateless THEN active ELSE [active EXCEPT ![s] = ctx]
        /\ UNCHANGED <<minted, history>>

(* An exception that reaches the handler before T10 has been asked: the     *)
(* append failed, or an engine between T12 and T10 refused the request.     *)
RejectEarly(r) ==
    /\ req[r].pc \in {"open", "request"}
    /\ Return(r)
    /\ UNCHANGED <<active, minted, ledgerVars, history>>

(* T7: the phase after SessionEngine.on_request, and whether it raises.     *)
Handshake(ctx, method) ==
    IF ~HandshakeEnforced THEN ctx
    ELSE CASE method = "initialize" -> [ctx EXCEPT !.phase = "pending"]
           [] method = "notifications/initialized" -> [ctx EXCEPT !.phase = "active"]
           [] OTHER -> ctx

GatePasses(ctx, method) ==
    HandshakeEnforced =>
        ctx.phase = "active" \/ method \in HANDSHAKE_ALLOWED_METHODS

Shaken(r) ==
    shaken' = IF req[r].method = "notifications/initialized" /\ Tracked(req[r].session)
              THEN shaken \cup {req[r].session} ELSE shaken

(* T10 within the limits: what the hook does and the context it returns.    *)
Account(r) ==
    IF req[r].method \in CONTENT_BEARING_METHODS
    THEN Ledger!Charge(req[r].session, req[r].ctx.calls)
    ELSE Ledger!Seen(req[r].session)

Accounted(r) ==
    IF req[r].method \in CONTENT_BEARING_METHODS
    THEN Ledger!Restored(req[r].session, req[r].ctx.calls) + 1
    ELSE req[r].ctx.calls

(* The write-back of a context: only for a session still tracked.  The      *)
(* mutants never write it, and write it whatever happened meanwhile.        *)
PersistNever(s, ctx) == active' = active
PersistAlways(s, ctx) ==
    active' = IF s \in stateless THEN active ELSE [active EXCEPT ![s] = ctx]
Persist(s, ctx) ==
    active' = IF Tracked(s) THEN [active EXCEPT ![s] = ctx] ELSE active

(* The rest of _run_request after the append: T7, then T10, then on to the  *)
(* wrapped app with the context written back.                               *)
Admit(r) ==
    LET ctx == [Handshake(req[r].ctx, req[r].method) EXCEPT !.calls = Accounted(r)]
    IN  /\ req[r].pc = "request"
        /\ GatePasses(req[r].ctx, req[r].method)
        /\ Account(r)
        /\ Persist(req[r].session, ctx)
        /\ Await(r, "upstream", ctx, NoManifest)
        /\ Shaken(r)
        /\ UNCHANGED <<minted, issued, stateless, shown, overlapped, reaped>>

(* T10 refuses a content request.                                           *)
RejectOverLimit(r) ==
    /\ req[r].pc = "request"
    /\ GatePasses(req[r].ctx, req[r].method)
    /\ req[r].method \in CONTENT_BEARING_METHODS
    /\ Ledger!Refuse(req[r].session)
    /\ Return(r)
    /\ UNCHANGED <<active, minted, history>>

(* An engine after T10 refuses: the call is charged, the context dropped.   *)
RejectLate(r) ==
    /\ req[r].pc = "request"
    /\ GatePasses(req[r].ctx, req[r].method)
    /\ Account(r)
    /\ Return(r)
    /\ UNCHANGED <<active, minted, history>>
-----------------------------------------------------------------------------
(* The wrapped app fails, or its body is too large or not inspectable; or a *)
(* response engine, or the response append, raises: nothing is written back.*)
RejectResponse(r) ==
    /\ req[r].pc \in {"upstream", "respond"}
    /\ Return(r)
    /\ UNCHANGED <<active, minted, ledgerVars, history>>

(* T6 on a result with a "tools" member, whatever the request's method: the *)
(* first manifest becomes the baseline, a later one is compared with it.    *)
Baseline(ctx, m) ==
    IF ctx.manifest = NoManifest THEN [ctx EXCEPT !.manifest = m] ELSE ctx

Drifts(ctx, m) == FailOnDrift /\ ctx.manifest # NoManifest /\ ctx.manifest # m

(* The wrapped app has answered with a manifest m, which is a tool list to  *)
(* the client if it asked for one: the response chain runs up to T12's      *)
(* append.                                                                  *)
AnswerTools(r, m) ==
    /\ req[r].pc = "upstream"
    /\ ~Drifts(req[r].ctx, m)
    /\ Await(r, "respond", Baseline(req[r].ctx, m),
             IF req[r].method = "tools/list" THEN m ELSE NoManifest)
    /\ UNCHANGED <<active, minted, ledgerVars, history>>

(* Any other result, or an error.                                           *)
Answer(r) ==
    /\ req[r].pc = "upstream"
    /\ Await(r, "respond", req[r].ctx, NoManifest)
    /\ UNCHANGED <<active, minted, ledgerVars, history>>

(* The append is done: the context is written back and the answer sent; the *)
(* answer to initialize carries the session id.                             *)
Respond(r) ==
    LET s == req[r].session
    IN  /\ req[r].pc = "respond"
        /\ Persist(s, req[r].ctx)
        /\ Return(r)
        /\ issued' = IF req[r].method = "initialize" THEN issued \cup {s} ELSE issued
        /\ shown' = [shown EXCEPT ![s] = @ \cup ({req[r].manifest} \ {NoManifest})]
        /\ UNCHANGED <<minted, ledgerVars, stateless, shaken, overlapped, reaped>>

(* close_session of a stateless context, after T12's append has succeeded   *)
(* or failed: T10 forgets it either way.                                    *)
Close(r) ==
    /\ req[r].pc = "close"
    /\ Ledger!SessionEnd(req[r].session)
    /\ req' = [req EXCEPT ![r] = Idle]
    /\ UNCHANGED <<active, minted, history>>

(* The zombie reaper, with the eviction callback the middleware installs.   *)
Reap ==
    /\ Ledger!Reap
    /\ active' = [s \in Sessions |-> IF s \in Ledger!Zombies THEN NoCtx ELSE active[s]]
    /\ reaped' = reaped \cup {s \in Ledger!Zombies : Tracked(s)}
    /\ UNCHANGED <<minted, req, issued, stateless, shown, shaken, overlapped>>

FallSilent(s) ==
    /\ Ledger!FallSilent(s)
    /\ UNCHANGED <<active, minted, req, history>>

Arrive(r) ==
    \E s \in Sessions :
        \/ ArriveInitialize(r, s)
        \/ \E method \in ClientMethods : ArriveStateless(r, s, method)
        \/ \E method \in ClientMethods : ArriveOnSession(r, s, method)

(* What the event loop runs without the wrapped app's help.                 *)
Proceed(r) ==
    \/ Open(r)
    \/ Admit(r)
    \/ RejectEarly(r)
    \/ RejectOverLimit(r)
    \/ RejectLate(r)
    \/ Respond(r)
    \/ Close(r)

Upstream(r) ==
    \/ RejectResponse(r)
    \/ Answer(r)
    \/ \E m \in Manifests : AnswerTools(r, m)

Next ==
    \/ \E r \in Requests : Arrive(r) \/ Proceed(r) \/ Upstream(r)
    \/ \E s \in Sessions : FallSilent(s)
    \/ Reap

SafetySpec == Init /\ [][Next]_vars

(* Appends end and their coroutines are resumed, time passes, and the reaper*)
(* task keeps running.  Nothing is assumed of the wrapped app or the client.*)
Fairness ==
    /\ \A r \in Requests : WF_vars(Proceed(r))
    /\ \A s \in Sessions : WF_vars(FallSilent(s))
    /\ WF_vars(Reap)

Spec == SafetySpec /\ Fairness
-----------------------------------------------------------------------------
TypeOK ==
    /\ active \in [Sessions -> Context \cup {NoCtx}]
    /\ req \in [Requests -> Request]
    /\ Ledger!TypeOK
    /\ issued \subseteq minted /\ stateless \subseteq minted \ issued
    /\ minted \subseteq Sessions
    /\ shown \in [Sessions -> SUBSET Manifests]
    /\ shaken \subseteq issued /\ overlapped \subseteq minted /\ reaped \subseteq minted

(* T6-001: a client whose requests do not overlap, and whose session the    *)
(* reaper has not evicted, is never sent two different manifests.           *)
SerialClientSeesOneManifest ==
    FailOnDrift =>
        \A s \in Sessions \ (overlapped \cup reaped) : Cardinality(shown[s]) <= 1

(* MCP 3.2: with the handshake gate on, no content is accounted and no tool *)
(* list sent on a session whose notifications/initialized this worker has   *)
(* not admitted, whatever the evictions and overlaps since `initialize`.    *)
HandshakeGate ==
    HandshakeEnforced =>
        \A s \in Sessions :
            admitted[s] > 0 \/ shown[s] # {} => s \in shaken \cup stateless

(* The denial-of-wallet limit holds for the whole middleware: overlapping   *)
(* requests, evictions and rebuilt contexts included.                       *)
CallBudget == Ledger!BudgetCap

(* Every tracked context is within the reaper's reach: a write-back after   *)
(* an eviction must not bring back a context nothing will ever remove.      *)
TrackedIsReapable == \A s \in Sessions : Tracked(s) => lastSeen[s] # "none"

(* A stateless request leaves nothing behind once its handler has returned. *)
StatelessLeavesNothing ==
    \A s \in stateless :
        (\A r \in Requests : req[r].session # s) =>
            ~Tracked(s) /\ lastSeen[s] = "none" /\ ~Ledger!HasEntry(s)

(* A session that goes quiet, even with a request stuck in the wrapped app, *)
(* is in the end evicted: _active_sessions does not leak.                   *)
Quiet(s) ==
    \A r \in Requests : req[r].session = s => req[r].pc \notin {"open", "request"}
QuietSessionsEvicted ==
    \A s \in Sessions : <>[]Quiet(s) => <>[](~Tracked(s))

(* What the write-back is there for: "persist the post-response context so  *)
(* the tools/list manifest hash snapshot survives into the next request".   *)
(* A session that is still held and has been sent a tool list has a         *)
(* baseline for the next request to load.                                   *)
SnapshotSurvives ==
    FailOnDrift =>
        \A s \in Sessions :
            Tracked(s) /\ shown[s] # {} => active[s].manifest # NoManifest
=============================================================================
