------------------------------ MODULE ArmorServer ------------------------------
(***************************************************************************)
(* A guarded server from its start to its stop: GuardLife, with the calls  *)
(* of ToolCalls on its event loop, or with one HttpExchange, whose verdicts*)
(* and finally clause are those of a call on its task.                     *)
(***************************************************************************)
EXTENDS ToolCalls, HttpExchange

CONSTANTS
    ExchangeTask, \* the task the exchange runs on
    NoExchange,   \* the calls of ToolCalls instead
    Workloads     \* bound: deployments, their exchanges and the ids minted before

ASSUME ExchangeAssumption == ExchangeTask \in Tasks
ASSUME WorkloadAssumption ==
    \A w \in Workloads : \A x \in w.exchanges \ {NoExchange} : IsExchange(x)

vars == <<lifeVars, callVars, exchangeVars>>

HttpInFlight ==
    \/ \E t \in Tasks : \E i \in DOMAIN stack[t] : stack[t][i].kind \in HttpKinds
    \/ in # NoExchange /\ xpc \notin {"waiting", "done"}

Init ==
    /\ LifeInit /\ CallInit /\ ExchangeInit
    /\ \E w \in Workloads :
          /\ deployment \in w.deployments
          /\ lifespans \in w.lifespans
          /\ in \in w.exchanges
          /\ minted = w.minted

Life == LifeNext(~HttpInFlight) /\ UNCHANGED <<callVars, exchangeVars>>

Calls == in = NoExchange /\ CallNext /\ UNCHANGED exchangeVars

(* Before the guard: the client's bytes.                                    *)
Reading ==
    /\ Serving \/ xpc # "waiting"
    /\ Screen \/ ScreenedOut \/ Receive \/ ReceiveTooMuch \/ Unreadable
    /\ UNCHANGED <<lifeVars, callVars>>

Resolving == Resolve /\ \E s \in Sessions : EnterHttp(ExchangeTask, SessionMode, s)

Opening ==
    /\ xpc = "guard"
    /\ Opened(ExchangeTask)
    /\ UNCHANGED exchangeVars

(* The guard admits the request; a sidecar opens its client if need be.     *)
Forwarding ==
    /\ Forward(deployment = "sidecar")
    /\ Admit(ExchangeTask)
    /\ client' = IF deployment = "sidecar" /\ in.route \in {"ok", "query"} THEN "open" ELSE client

Refusing ==
    /\ xpc \in {"guard", "respond"}
    /\ Refuse
    /\ Fail(ExchangeTask)

Buffering == (AppSendsStart \/ AppSendsBody) /\ UNCHANGED <<lifeVars, callVars>>
Collecting == Collect /\ Returned(ExchangeTask)
NotCollecting == Uncollectable /\ Fail(ExchangeTask)
Answering == Answer /\ Responded(ExchangeTask)
Breaking == BreakOff /\ Fail(ExchangeTask)

Leaving ==
    /\ xpc = "done" /\ in # NoExchange
    /\ \/ \E audited \in BOOLEAN : Closed(ExchangeTask, audited)
       \/ CloseCancelled(ExchangeTask)
    /\ UNCHANGED exchangeVars

Exchange ==
    /\ in # NoExchange
    /\ \/ Reading
       \/ Resolving
       \/ Opening
       \/ Forwarding
       \/ Refusing
       \/ Buffering
       \/ Collecting
       \/ NotCollecting
       \/ Answering
       \/ Breaking
       \/ Leaving

Next == Life \/ Calls \/ Exchange

AppReacts == (AppStarts \/ AppFails \/ AppStops) /\ UNCHANGED <<callVars, exchangeVars>>
HandlerRuns == Handler /\ UNCHANGED <<callVars, exchangeVars>>

(* The event loop runs _handle_lifespan, and a wrapped app does in the end  *)
(* what a lifespan message asks of it, unless it has ended.                 *)
Spec == Init /\ [][Next]_vars /\ WF_vars(HandlerRuns) /\ WF_vars(AppReacts)
-----------------------------------------------------------------------------
(* Every table holds ids that were minted, no session is closed twice, and  *)
(* what is buffered of a request or passed on of an answer is within its cap*)
TypeOK ==
    /\ stack \in [Tasks -> Seq(Frame)] /\ \A t \in Tasks : Len(stack[t]) <= MaxDepth
    /\ activeCtx \in [Tasks -> minted \cup {NoCtx}]
    /\ inherited \in [Tasks -> minted \cup {NoCtx}]
    /\ tracked \cup seen \cup issued \cup draining \cup abandoned \cup reaped \subseteq minted
    /\ minted \subseteq Sessions
    /\ ends \in [Sessions -> 0..1]
    /\ in # NoExchange =>
          /\ accumulated <= MaxBody
          /\ \A i \in DOMAIN out :
                out[i].type = "body" /\ out[i].shows # "error" => size <= MaxResponse

(* No request is served, and no session is drained, but by engines that     *)
(* have all started, with the reaper running and the sidecar's client open, *)
(* before a wrapped app that has not said it failed to start.               *)
ServesOnlyStarted ==
    lifespans /\ (Serving \/ HttpInFlight \/ handler = "drain") =>
        /\ started /\ reaper /\ ~refusing /\ app # "failed"
        /\ deployment = "sidecar" => client = "open"

(* A server that has been told of a clean stop has nothing left: no engine, *)
(* reaper or client runs, and every session a client of this worker holds   *)
(* has had its session_end, or was evicted.                                 *)
CleanStop ==
    server = "stopped" =>
        /\ ~started /\ ~reaper /\ client = "none"
        /\ tracked = {} /\ draining = {}
        /\ \A s \in issued \ (Elsewhere \cup reaped) : ends[s] = 1

(* The server is answered, whatever fails, unless the wrapped app ends      *)
(* without a word (fastapi.py:192 and 211 wait for it for ever).            *)
Silent == app = "ended" /\ fromApp = <<>> /\ handler \in {"appStart", "appStop"}
LifespanAnswered ==
    server \in {"starting", "stopping"} ~> (server \notin {"starting", "stopping"} \/ Silent)

(* Whatever fails or is cancelled, and however calls nest, T10 has on its   *)
(* books only sessions that the drain or a call in progress will close, and *)
(* those it has seen on behalf of no such call (abandoned).                 *)
CallsLeaveNothing ==
    \A s \in seen : Owned(s) \/ s \in draining \/ s \in abandoned

(* @guard.protect runs as the call it is nested in, or as the call that     *)
(* spawned its task, or on a session of its own; and a task whose calls are *)
(* over has the context it began with.                                      *)
Encloses(q, j, i) ==
    /\ j < i /\ q[j].kind # "protect"
    /\ \A k \in (j + 1)..(i - 1) : q[k].kind = "protect"
NotEnclosed(q, i) == \A j \in 1..(i - 1) : q[j].kind = "protect"
RunsAsItsCaller ==
    \A t \in Tasks \ unrestored :
        LET q == stack[t]
        IN  /\ Busy(t) \/ activeCtx[t] = inherited[t]
            /\ \A i \in DOMAIN q : q[i].kind = "protect" =>
                  /\ \A j \in DOMAIN q : Encloses(q, j, i) => q[i].session = q[j].session
                  /\ NotEnclosed(q, i) => inherited[t] \in {NoCtx, q[i].session}

(* What is forwarded, and what an inspected answer shows, means the same to *)
(* a reader that keeps the first of two like-named members as to one that   *)
(* keeps the last, and where protocol fields stand also to one that folds   *)
(* case.  No reader finds a tool in a list that the guard has hidden; and a *)
(* header the upstream gets is the only one of its name.                    *)
MeansOne(doc, side) ==
    /\ ~NonFinite(doc.members)
    /\ \A name \in {"field", "free"} :
          /\ FirstRead(doc.members, name, FALSE) = LastRead(doc.members, name, FALSE)
          /\ doc.level \in FoldChecked[side] =>
                FirstRead(doc.members, name, TRUE) = LastRead(doc.members, name, TRUE)
    /\ doc.level \in FieldChecked[side] =>
          FirstRead(doc.members, "field", TRUE) = LastRead(doc.members, "field", FALSE)

ReadAsVisible(tool) ==
    \A fold \in BOOLEAN :
        /\ FirstRead(tool.members, "field", fold) = "visible"
        /\ LastRead(tool.members, "field", fold) = "visible"

RequestReadsOne ==
    xpc \in {"app", "respond"} /\ RawBody = "object" => MeansOne(in.body, "request")

Shows(i) == out[i].type = "body" /\ out[i].shows # "error"
AnswerReadsOne ==
    \A i \in DOMAIN out :
        Shows(i) /\ Inspected /\ RawAnswer # "empty" => MeansOne(reply.body, "response")
ToolsReadVisible ==
    \A i \in DOMAIN out : Shows(i) /\ Inspected =>
        \A j \in DOMAIN out[i].tools : ReadAsVisible(out[i].tools[j])

HeadersOnce == \A i, j \in DOMAIN hop : hop[i].name = hop[j].name => i = j

OneReading ==
    in # NoExchange =>
        RequestReadsOne /\ AnswerReadsOne /\ ToolsReadVisible /\ HeadersOnce

(* An exchange that is over has had one answer, the app's or an error and   *)
(* never parts of both: a start, unless the app sent none, and a body.  The *)
(* one exception the code makes is a tool list with a name that cannot be   *)
(* hashed (fastapi.py:588), which has an error or nothing, and none of its  *)
(* tools.  A client gets a session id from armor alone, and only for        *)
(* initialize; and a length that was right when the app sent it is right    *)
(* when it arrives.                                                         *)
OverAnswered ==
    /\ out = <<>> => Breaks
    /\ out # <<>> => Len(out) \in 1..2 /\ Last(out).type = "body"
    /\ Breaks => \A i \in DOMAIN out : ~Shows(i)

WellFormedAnswer ==
    in # NoExchange =>
        /\ IF xpc = "done" THEN OverAnswered ELSE out = <<>>
        /\ Len(out) = 1 => ~start.present
        /\ Len(out) = 2 =>
              /\ out[1].type = "start"
              /\ out[1].session = "armor's" => Method = "initialize"
              /\ out[1].session # "app's"
              /\ out[1].length = "wrong" => start.length = "wrong" /\ out[2].shows = "answer"
===============================================================================
