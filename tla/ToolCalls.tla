------------------------------ MODULE ToolCalls ------------------------------
(***************************************************************************)
(* Guarded calls on the tasks of one event loop, and what they share: the  *)
(* ContextVar _active_ctx, which tells a @guard.protect wrapper on whose   *)
(* behalf it runs, and T10's last-seen table.  A call is an HTTP request   *)
(* (ArmorMiddleware._handle_http), a tool behind FastMCPAdapter.hook, or a *)
(* @guard.protect wrapper; calls nest, and a tool may spawn a task.        *)
(*                                                                         *)
(* Each call awaits T12's appends ("open", "request", "respond", "close")  *)
(* and its function ("run").  T12 comes before T10 in the chain: an append *)
(* that fails or is cancelled keeps the call from reaching T10.            *)
(***************************************************************************)
EXTENDS GuardLife, SequencesExt

CONSTANTS
    Tasks,     \* asyncio tasks
    NoCtx,     \* the ContextVar's default, None
    Elsewhere, \* session ids of another worker with the same key, held by clients
    MaxDepth   \* bound: calls nested on one task

ASSUME NoCtxAssumption == NoCtx \notin Sessions
ASSUME ElsewhereAssumption == Elsewhere \subseteq Sessions
ASSUME DepthAssumption == MaxDepth \in Nat \ {0}

VARIABLES
    stack,     \* the calls in progress on each task, outermost first
    activeCtx, \* _active_ctx in each task's copy of the context
    inherited, \* what it was when the task was spawned
    minted,    \* session ids mint_session_id has returned
    issued,    \* session ids clients hold
    (* history *)
    abandoned, \* sessions T10 has seen on behalf of no call that will close them
    unrestored \* tasks cancelled where the ContextVar was still to be restored

callVars == <<stack, activeCtx, inherited, minted, issued, abandoned, unrestored>>
lifeStill == <<setting, exchangeOfEvents, started, reaper, draining, reaped>>
lifeRest == <<lifeStill, client>>

HttpKinds == {"initialize", "stateless", "resume"}
Frame == [kind : HttpKinds \cup {"hook", "protect"},
          session : Sessions,
          restore : Sessions \cup {NoCtx},  \* the token of _active_ctx.set
          pc : {"open", "request", "run", "respond", "close"},
          closes : BOOLEAN]                 \* stateless_opened, session_opened

Busy(t) == stack[t] # <<>>
Top(t) == Last(stack[t])
At(t, pc) == Busy(t) /\ Top(t).pc = pc
(* Tools run in a wrapped app's requests and in the tasks these spawn, or,  *)
(* without HTTP, on their own; a sidecar has none.                          *)
MayCall(t) ==
    /\ Len(stack[t]) < MaxDepth
    /\ Busy(t) => Top(t).pc = "run"
    /\ deployment = "local" \/ (deployment = "app" /\ activeCtx[t] # NoCtx)
Becomes(t, f) == stack' = [stack EXCEPT ![t] = Append(Front(@), f)]

(* A call will close the session, or _active_sessions keeps it for the drain*)
Owned(s) ==
    \/ s \in tracked /\ handler # "drain"
    \/ \E t \in Tasks : \E i \in DOMAIN stack[t] :
          stack[t][i].session = s /\ stack[t][i].closes

CallInit ==
    /\ stack = [t \in Tasks |-> <<>>]
    /\ activeCtx = [t \in Tasks |-> NoCtx]
    /\ inherited = [t \in Tasks |-> NoCtx]
    /\ minted \in SUBSET Sessions /\ Elsewhere \subseteq minted
    /\ issued = Elsewhere
    /\ abandoned = {} /\ unrestored = {}
-----------------------------------------------------------------------------
Enter(t, kind, s, pc) ==
    /\ stack' = [stack EXCEPT ![t] =
           Append(@, [kind |-> kind, session |-> s, restore |-> activeCtx[t],
                      pc |-> pc, closes |-> kind = "stateless"])]
    /\ activeCtx' = IF kind = "protect" THEN activeCtx ELSE [activeCtx EXCEPT ![t] = s]
    /\ UNCHANGED <<lifeVars, inherited, abandoned, unrestored>>

Mint(s) == s \notin minted /\ minted' = minted \cup {s}

(* An HTTP request begins on a task of its own: initialize and a stateless  *)
(* request open a session, any other resumes the one its header names.      *)
EnterHttp(t, kind, s) ==
    /\ Serving /\ deployment # "local"
    /\ ~Busy(t) /\ activeCtx[t] = NoCtx
    /\ \/ kind \in {"initialize", "stateless"} /\ Mint(s) /\ Enter(t, kind, s, "open")
       \/ kind = "resume" /\ s \in issued /\ Enter(t, kind, s, "request") /\ UNCHANGED minted
    /\ UNCHANGED issued

(* FastMCPAdapter.hook opens a session for each call.                       *)
EnterHook(t, s) ==
    /\ MayCall(t) /\ Mint(s)
    /\ Enter(t, "hook", s, "open")
    /\ UNCHANGED issued

(* @guard.protect runs under the active context; without one, on a session  *)
(* it mints and neither opens nor closes.                                   *)
EnterProtect(t, s) ==
    /\ MayCall(t)
    /\ \/ activeCtx[t] = s /\ UNCHANGED minted
       \/ activeCtx[t] = NoCtx /\ Mint(s)
    /\ Enter(t, "protect", s, "request")
    /\ UNCHANGED issued

(* A tool creates a task, which gets a copy of the context.                 *)
Spawn(t, u) ==
    /\ At(t, "run")
    /\ ~Busy(u) /\ activeCtx[u] = NoCtx
    /\ activeCtx' = [activeCtx EXCEPT ![u] = activeCtx[t]]
    /\ inherited' = [inherited EXCEPT ![u] = activeCtx[t]]
    /\ UNCHANGED <<lifeVars, stack, minted, issued, abandoned, unrestored>>

(* A task is over; the next one in its place starts with an empty context.  *)
TaskEnds(t) ==
    /\ ~Busy(t) /\ activeCtx[t] # NoCtx
    /\ activeCtx' = [activeCtx EXCEPT ![t] = NoCtx]
    /\ inherited' = [inherited EXCEPT ![t] = NoCtx]
    /\ unrestored' = unrestored \ {t}
    /\ UNCHANGED <<lifeVars, stack, minted, issued, abandoned>>
-----------------------------------------------------------------------------
(* open_session has returned: T12 has written, T10 has seen the session.    *)
(* A hook closes it from now on, initialize has it tracked.                 *)
Opened(t) ==
    LET f == Top(t)
    IN  /\ At(t, "open")
        /\ Becomes(t, [f EXCEPT !.pc = "request", !.closes = f.kind # "initialize"])
        /\ seen' = seen \cup {f.session}
        /\ tracked' = IF f.kind = "initialize" THEN tracked \cup {f.session} ELSE tracked
        /\ UNCHANGED <<lifeRest, ends, activeCtx, inherited, minted, issued, abandoned,
                       unrestored>>

(* T10's on_request refreshes the last-seen time.                           *)
Touch(s) ==
    /\ seen' = seen \cup {s}
    /\ abandoned' = IF Owned(s) THEN abandoned ELSE abandoned \cup {s}

(* threats= may leave T10 out of what a protect wrapper runs.               *)
SeenByT10(t) ==
    \/ Touch(Top(t).session)
    \/ Top(t).kind = "protect" /\ UNCHANGED <<seen, abandoned>>

(* The request chain has passed: the function runs.                         *)
Admit(t) ==
    /\ At(t, "request")
    /\ SeenByT10(t)
    /\ Becomes(t, [Top(t) EXCEPT !.pc = "run"])
    /\ UNCHANGED <<lifeStill, ends, tracked, activeCtx, inherited, minted, issued, unrestored>>

Admitted(t) == Admit(t) /\ UNCHANGED client

(* The function has returned, and its result goes to the response engines.  *)
Returned(t) ==
    /\ At(t, "run")
    /\ Becomes(t, [Top(t) EXCEPT !.pc = "respond"])
    /\ UNCHANGED <<lifeVars, activeCtx, inherited, minted, issued, abandoned, unrestored>>

(* _active_ctx.reset(token).  The mutant clears the variable.               *)
RestoreNone(t) == activeCtx' = [activeCtx EXCEPT ![t] = NoCtx]
Restore(t) == activeCtx' = [activeCtx EXCEPT ![t] = Top(t).restore]

(* The finally clauses: the hook restores the context and then closes, the  *)
(* middleware closes and then restores.  The mutant forgets to close.       *)
LeaveUnclosed(t) ==
    /\ stack' = [stack EXCEPT ![t] = Front(@)]
    /\ IF Top(t).kind = "protect" THEN UNCHANGED activeCtx ELSE Restore(t)
Leave(t) ==
    /\ IF Top(t).closes
       THEN Becomes(t, [Top(t) EXCEPT !.pc = "close"])
       ELSE stack' = [stack EXCEPT ![t] = Front(@)]
    /\ IF Top(t).kind = "protect" \/ (Top(t).closes /\ Top(t).kind # "hook")
       THEN UNCHANGED activeCtx ELSE Restore(t)

(* The result is returned, or the answer sent, initialize's with its id.    *)
Responded(t) ==
    /\ At(t, "respond")
    /\ Leave(t)
    /\ issued' = IF Top(t).kind = "initialize" THEN issued \cup {Top(t).session} ELSE issued
    /\ UNCHANGED <<lifeVars, inherited, minted, abandoned, unrestored>>

(* Leaving by an exception: an engine refuses, before or after T10, an      *)
(* append fails, the function raises, or the task is cancelled.  The caller *)
(* may handle it or fail in its turn.  The mutant closes only on success.   *)
FailUnclosed(t) ==
    /\ Busy(t) /\ Top(t).pc # "close"
    /\ LeaveUnclosed(t)
    /\ UNCHANGED <<lifeVars, inherited, minted, issued, abandoned, unrestored>>
Fail(t) ==
    /\ Busy(t) /\ Top(t).pc # "close"
    /\ \/ At(t, "request") /\ Touch(Top(t).session)
       \/ UNCHANGED <<seen, abandoned>>
    /\ Leave(t)
    /\ UNCHANGED <<lifeRest, ends, tracked, inherited, minted, issued, unrestored>>

(* close_session returns, whether or not T12's append has succeeded.        *)
Closed(t, audited) ==
    /\ At(t, "close")
    /\ CloseSession(Top(t).session, audited)
    /\ stack' = [stack EXCEPT ![t] = Front(@)]
    /\ IF Top(t).kind = "hook" THEN UNCHANGED activeCtx ELSE Restore(t)
    /\ UNCHANGED <<lifeRest, tracked, inherited, minted, issued, abandoned, unrestored>>

(* CancelledError is no Exception: cancelled in T12's append, close_session *)
(* never gets to T10, and the middleware not to restoring the context.      *)
CloseCancelled(t) ==
    /\ At(t, "close")
    /\ stack' = [stack EXCEPT ![t] = Front(@)]
    /\ abandoned' = abandoned \cup {Top(t).session}
    /\ unrestored' = IF Top(t).kind = "hook" THEN unrestored ELSE unrestored \cup {t}
    /\ UNCHANGED <<lifeVars, activeCtx, inherited, minted, issued>>

Begin(t) ==
    \E s \in Sessions :
        \/ \E kind \in HttpKinds : EnterHttp(t, kind, s)
        \/ EnterHook(t, s)
        \/ EnterProtect(t, s)

Continue(t) ==
    \/ Opened(t)
    \/ Admitted(t)
    \/ Returned(t)
    \/ Responded(t)
    \/ Fail(t)
    \/ \E audited \in BOOLEAN : Closed(t, audited)
    \/ CloseCancelled(t)

CallNext ==
    \/ \E t \in Tasks : Begin(t) \/ Continue(t) \/ TaskEnds(t)
    \/ \E t, u \in Tasks : Spawn(t, u)
=============================================================================
