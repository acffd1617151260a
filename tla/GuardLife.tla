------------------------------ MODULE GuardLife ------------------------------
(***************************************************************************)
(* The life of a guarded server: ArmorMiddleware._handle_lifespan between  *)
(* the ASGI server and the wrapped app, which it talks to through two      *)
(* queues; guard.startup and shutdown, which start and stop the engines    *)
(* and, with T10, the reaper task; the drain of the tracked sessions; and  *)
(* the wrapped app's own lifespan, ForwardingApp's for a sidecar.          *)
(*                                                                         *)
(* Only the engines before T10 in the chain can refuse to start (T12, T1,  *)
(* T8, T11, T3, on a misconfiguration) and no shipped on_shutdown fails,   *)
(* so that a start is all or nothing but for the engines that need no      *)
(* stopping.  A server driven without lifespan events starts nothing.      *)
(***************************************************************************)
EXTENDS Naturals, Sequences, FiniteSets

CONSTANT Sessions  \* session ids

VARIABLES
    deployment, \* "app" (any ASGI app is wrapped), "sidecar", or "local" (no HTTP)
    lifespans,  \* the server sends lifespan events
    refusing,   \* the configuration is one an engine refuses to start with
    server,     \* what the ASGI server knows of the application
    handler,    \* where _handle_lifespan is
    toApp,      \* app_receive_q
    fromApp,    \* app_send_q
    app,        \* the wrapped app's lifespan task: "waiting", "up", "failed" or "ended"
    started,    \* guard.startup has returned
    reaper,     \* the reaper task runs
    client,     \* ForwardingApp._client: "none" or "open"
    tracked,    \* the keys of _active_sessions
    seen,       \* the keys of T10's _session_last_seen
    draining,   \* sessions the drain has still to close
    (* history *)
    ends,       \* how often each session has been closed by close_session
    reaped      \* sessions the reaper evicted

setting == <<deployment, lifespans, refusing>>
exchangeOfEvents == <<server, handler, toApp, fromApp, app>>
sessionState == <<tracked, seen, draining, ends, reaped>>
lifeVars == <<setting, exchangeOfEvents, started, reaper, client, sessionState>>

Serving == server = "serving"

LifeInit ==
    /\ deployment \in {"app", "sidecar", "local"}
    /\ lifespans \in IF deployment = "local" THEN {FALSE} ELSE BOOLEAN
    /\ refusing \in IF lifespans THEN BOOLEAN ELSE {FALSE}
    /\ server = IF lifespans THEN "off" ELSE "serving"
    /\ handler = "receive" /\ toApp = <<>> /\ fromApp = <<>> /\ app = "waiting"
    /\ started = FALSE /\ reaper = FALSE /\ client = "none"
    /\ tracked = {} /\ seen = {} /\ draining = {} /\ reaped = {}
    /\ ends = [s \in Sessions |-> 0]
-----------------------------------------------------------------------------
(* lifespan.startup arrives and is passed on: the wrapped app starts first. *)
SendStartup ==
    /\ lifespans /\ server = "off"
    /\ server' = "starting"
    /\ handler' = "appStart"
    /\ toApp' = Append(toApp, "startup")
    /\ UNCHANGED <<setting, fromApp, app, started, reaper, client, sessionState>>

(* The wrapped app's side.  ForwardingApp opens its client and answers; any *)
(* other app may also fail to start, or end, at any time, without a word.   *)
AppStarts ==
    /\ app = "waiting" /\ toApp # <<>>
    /\ toApp' = Tail(toApp)
    /\ fromApp' = Append(fromApp, "complete")
    /\ app' = "up"
    /\ client' = IF deployment = "sidecar" THEN "open" ELSE client
    /\ UNCHANGED <<setting, server, handler, started, reaper, sessionState>>

AppFails ==
    /\ deployment = "app" /\ app = "waiting" /\ toApp # <<>>
    /\ toApp' = Tail(toApp)
    /\ fromApp' = Append(fromApp, "failed")
    /\ app' = "failed"
    /\ UNCHANGED <<setting, server, handler, started, reaper, client, sessionState>>

AppEndsSilently ==
    /\ lifespans /\ deployment = "app" /\ app \in {"waiting", "up"}
    /\ app' = "ended"
    /\ UNCHANGED <<setting, server, handler, toApp, fromApp, started, reaper, client,
                   sessionState>>

AppStops ==
    /\ app = "up" /\ toApp # <<>>
    /\ toApp' = Tail(toApp)
    /\ fromApp' = Append(fromApp, "complete")
    /\ app' = "ended"
    /\ client' = "none"
    /\ UNCHANGED <<setting, server, handler, started, reaper, sessionState>>

(* The app's answer: a failure is passed on, anything else lets the guard   *)
(* start.  The mutant takes any answer for a success.                       *)
AcceptedAnyAnswer == TRUE
Accepted == Head(fromApp) # "failed"

AppAnswered ==
    /\ handler = "appStart" /\ fromApp # <<>>
    /\ fromApp' = Tail(fromApp)
    /\ \/ Accepted /\ handler' = "engines" /\ UNCHANGED server
       \/ ~Accepted /\ handler' = "done" /\ server' = "failed"
    /\ UNCHANGED <<setting, toApp, app, started, reaper, client, sessionState>>

StartGuard ==
    /\ handler = "engines" /\ ~refusing
    /\ started' = TRUE /\ reaper' = TRUE
    /\ server' = "serving"
    /\ handler' = "receive"
    /\ UNCHANGED <<setting, toApp, fromApp, app, client, sessionState>>

(* The server is told; the wrapped app, which has started, is left running. *)
(* The mutants return without an answer, and serve all the same.            *)
RefuseToStartUnanswered ==
    /\ handler = "engines" /\ refusing
    /\ handler' = "done"
    /\ UNCHANGED <<setting, server, toApp, fromApp, app, started, reaper, client,
                   sessionState>>
RefuseToStartButServe ==
    /\ handler = "engines" /\ refusing
    /\ server' = "serving"
    /\ handler' = "receive"
    /\ UNCHANGED <<setting, toApp, fromApp, app, started, reaper, client, sessionState>>
RefuseToStart ==
    /\ handler = "engines" /\ refusing
    /\ server' = "failed"
    /\ handler' = "done"
    /\ UNCHANGED <<setting, toApp, fromApp, app, started, reaper, client, sessionState>>
-----------------------------------------------------------------------------
(* One pass of the reaper over the sessions zs that have been silent: they  *)
(* leave T10's table and, by the eviction callback, _active_sessions.       *)
Reap(zs) ==
    /\ reaper /\ zs # {} /\ zs \subseteq seen
    /\ seen' = seen \ zs
    /\ tracked' = tracked \ zs
    /\ reaped' = reaped \cup zs
    /\ UNCHANGED <<setting, exchangeOfEvents, started, reaper, client, draining, ends>>

(* close_session: every engine's on_session_end, T12's append first.  If    *)
(* the append fails (audited is FALSE) the others run all the same.  The    *)
(* mutant stops at the failure.                                             *)
CloseUnlessFailed(s, audited) ==
    /\ seen' = IF audited THEN seen \ {s} ELSE seen
    /\ ends' = IF audited THEN [ends EXCEPT ![s] = @ + 1] ELSE ends
CloseSession(s, audited) ==
    /\ seen' = seen \ {s}
    /\ ends' = [ends EXCEPT ![s] = @ + 1]

(* The server stops once no request is in flight (idle).                    *)
SendShutdown(idle) ==
    /\ lifespans /\ Serving /\ handler = "receive" /\ idle
    /\ server' = "stopping"
    /\ handler' = "drain"
    /\ draining' = tracked
    /\ UNCHANGED <<setting, toApp, fromApp, app, started, reaper, client, tracked, seen,
                   ends, reaped>>

(* A failure to close one session does not keep the others from it.  The    *)
(* mutant leaves the loop.                                                  *)
LeftAfterFailure(s, audited) == IF audited THEN draining \ {s} ELSE {}
LeftToDrain(s, audited) == draining \ {s}

DrainOne(s, audited) ==
    /\ handler = "drain" /\ s \in draining
    /\ CloseSession(s, audited)
    /\ draining' = LeftToDrain(s, audited)
    /\ UNCHANGED <<setting, exchangeOfEvents, started, reaper, client, tracked, reaped>>

(* The table is cleared, the engines are stopped and the app is told.  The  *)
(* mutant leaves out guard.shutdown.                                        *)
StopAppOnly ==
    /\ handler = "drain" /\ draining = {}
    /\ tracked' = {}
    /\ toApp' = Append(toApp, "shutdown")
    /\ handler' = "appStop"
    /\ UNCHANGED <<setting, server, fromApp, app, started, reaper, client, seen, draining,
                   ends, reaped>>
StopGuard ==
    /\ handler = "drain" /\ draining = {}
    /\ tracked' = {} /\ started' = FALSE /\ reaper' = FALSE
    /\ toApp' = Append(toApp, "shutdown")
    /\ handler' = "appStop"
    /\ UNCHANGED <<setting, server, fromApp, app, client, seen, draining, ends, reaped>>

(* Whatever the app has answered, the server is told of a clean stop.       *)
AppStopped ==
    /\ handler = "appStop" /\ fromApp # <<>>
    /\ fromApp' = Tail(fromApp)
    /\ server' = "stopped"
    /\ handler' = "join"
    /\ UNCHANGED <<setting, toApp, app, started, reaper, client, sessionState>>

JoinApp ==
    /\ handler = "join" /\ app = "ended"
    /\ handler' = "done"
    /\ UNCHANGED <<setting, server, toApp, fromApp, app, started, reaper, client,
                   sessionState>>

WrappedApp == AppStarts \/ AppFails \/ AppEndsSilently \/ AppStops

Handler ==
    \/ AppAnswered
    \/ StartGuard
    \/ RefuseToStart
    \/ \E s \in Sessions, audited \in BOOLEAN : DrainOne(s, audited)
    \/ StopGuard
    \/ AppStopped
    \/ JoinApp

LifeNext(idle) ==
    \/ SendStartup
    \/ WrappedApp
    \/ Handler
    \/ SendShutdown(idle)
    \/ \E zs \in SUBSET seen : Reap(zs)
=============================================================================
