--------------------------- MODULE ArmorServer_proofs ---------------------------
(***************************************************************************)
(* Theorems about ArmorServer, for any tasks, sessions, depth of nesting   *)
(* and exchanges: it serves only what has started and stops clean, its     *)
(* calls leave nothing behind in T10, tools run as their callers, what     *)
(* passes the checks has one reading, and answers are well formed.         *)
(***************************************************************************)
EXTENDS ArmorServer, SequenceTheorems, WellFoundedInduction, TLAPS

Contexts == Sessions \cup {NoCtx}

(* What the stacks and the ContextVar of each task range over.              *)
StackTypes ==
    /\ stack \in [Tasks -> Seq(Frame)]
    /\ activeCtx \in [Tasks -> Contexts]
    /\ inherited \in [Tasks -> Contexts]

(* The steps of a task.                                                     *)
Entering(t) ==
    \E s \in Sessions :
        \/ \E kind \in HttpKinds : EnterHttp(t, kind, s)
        \/ EnterHook(t, s)
        \/ EnterProtect(t, s)
Closing(t) == (\E audited \in BOOLEAN : Closed(t, audited)) \/ CloseCancelled(t)
TaskStep(t) ==
    \/ Entering(t)
    \/ Opened(t) \/ Admit(t) \/ Returned(t)
    \/ Responded(t) \/ Fail(t) \/ Closing(t)
    \/ TaskEnds(t) \/ \E u \in Tasks : Spawn(t, u)

(* What they do to its stack.                                               *)
Pushes(t, f) == stack' = [stack EXCEPT ![t] = Append(@, f)]
Pops(t) == stack' = [stack EXCEPT ![t] = Front(@)]
-----------------------------------------------------------------------------
LEMMA SessionModes == SessionMode \in HttpKinds \cup {"none"}
  BY DEF SessionMode, HttpKinds

(* A step of the server is one of its life, one of a task, or one of an     *)
(* exchange that the tasks do not see.                                      *)
LEMMA StepsOfServer ==
    ASSUME Next
    PROVE  \/ Life
           \/ \E t \in Tasks : TaskStep(t)
           \/ UNCHANGED <<lifeVars, callVars>>
  <1>1. ASSUME Calls PROVE \E t \in Tasks : TaskStep(t)
    BY <1>1 DEF Calls, CallNext, Begin, Continue, Admitted, TaskStep, Entering, Closing
  <1>2. ASSUME Exchange
        PROVE  TaskStep(ExchangeTask) \/ UNCHANGED <<lifeVars, callVars>>
    <2>1. ASSUME Resolving PROVE TaskStep(ExchangeTask)
      BY <2>1, SessionModes DEF Resolving, Resolve, TaskStep, Entering
    <2>. QED
      BY <1>2, <2>1 DEF Exchange, Reading, Opening, Forwarding, Refusing, Buffering, Collecting,
         NotCollecting, Answering, Breaking, Leaving, TaskStep, Closing
  <1>. QED
    BY <1>1, <1>2, ExchangeAssumption DEF Next

(* The sequence operations the stacks are changed by.                       *)
LEMMA PushedStack ==
    ASSUME NEW q \in Seq(Frame), NEW f \in Frame
    PROVE  /\ Append(q, f) \in Seq(Frame)
           /\ Len(Append(q, f)) = Len(q) + 1
           /\ \A i \in 1..Len(q) : Append(q, f)[i] = q[i]
           /\ Append(q, f)[Len(q) + 1] = f
           /\ DOMAIN Append(q, f) = 1..(Len(q) + 1)
  BY AppendProperties, LenProperties

LEMMA PushedAt ==
    ASSUME NEW q \in Seq(Frame), NEW f \in Frame, NEW i
    PROVE  /\ i \in DOMAIN q => i \in DOMAIN Append(q, f) /\ Append(q, f)[i] = q[i]
           /\ i \in DOMAIN Append(q, f) /\ i \notin DOMAIN q =>
                 i = Len(q) + 1 /\ Append(q, f)[i] = f
  <1>1. Len(q) \in Nat /\ DOMAIN q = 1..Len(q)
    BY LenProperties
  <1>2. i \in DOMAIN q => i \in 1..(Len(q) + 1)
    BY <1>1
  <1>3. i \in 1..(Len(q) + 1) /\ i \notin DOMAIN q => i = Len(q) + 1
    BY <1>1
  <1>. QED
    BY <1>1, <1>2, <1>3, PushedStack

LEMMA TopOfStack ==
    ASSUME NEW q \in Seq(Frame), q # <<>>
    PROVE  /\ Len(q) \in Nat \ {0} /\ DOMAIN q = 1..Len(q)
           /\ \A i \in 1..Len(q) : q[i] \in Frame
           /\ Last(q) = q[Len(q)] /\ Last(q) \in Frame
  <1>1. Len(q) \in Nat /\ DOMAIN q = 1..Len(q) /\ \A i \in 1..Len(q) : q[i] \in Frame
    BY LenProperties, ElementOfSeq
  <1>2. Len(q) # 0
    BY EmptySeq
  <1>. QED
    BY <1>1, <1>2 DEF Last

LEMMA PoppedStack ==
    ASSUME NEW q \in Seq(Frame), q # <<>>
    PROVE  /\ Front(q) \in Seq(Frame)
           /\ Len(Front(q)) = Len(q) - 1
           /\ DOMAIN Front(q) = 1..(Len(q) - 1)
           /\ \A i \in 1..(Len(q) - 1) : Front(q)[i] = q[i]
  <1>1. Len(q) \in Nat \ {0} /\ \A i \in 1..Len(q) : q[i] \in Frame
    BY TopOfStack
  <1>. DEFINE n == Len(q) - 1
  <1>2. n \in Nat /\ \A i \in 1..n : q[i] \in Frame
    BY <1>1
  <1>3. Front(q) = SubSeq(q, 1, n)
    BY DEF Front
  <1>. HIDE DEF n
  <1>4. /\ SubSeq(q, 1, n) \in Seq(Frame)
        /\ Len(SubSeq(q, 1, n)) = IF 1 <= n THEN n - 1 + 1 ELSE 0
        /\ \A i \in 1..(n - 1 + 1) : SubSeq(q, 1, n)[i] = q[1 + i - 1]
    BY <1>2, SubSeqProperties
  <1>5. n - 1 + 1 = n /\ (IF 1 <= n THEN n - 1 + 1 ELSE 0) = n
    BY <1>2
  <1>6. \A i \in 1..n : 1 + i - 1 = i
    OBVIOUS
  <1>7. Front(q) \in Seq(Frame) /\ Len(Front(q)) = n /\ \A i \in 1..n : Front(q)[i] = q[i]
    BY <1>3, <1>4, <1>5, <1>6, Zenon
  <1>8. DOMAIN Front(q) = 1..n
    BY <1>7, LenProperties
  <1>. QED
    BY <1>7, <1>8, Zenon DEF n

LEMMA ReplacedTop ==
    ASSUME NEW q \in Seq(Frame), q # <<>>, NEW f \in Frame
    PROVE  /\ Append(Front(q), f) \in Seq(Frame)
           /\ Len(Append(Front(q), f)) = Len(q)
           /\ DOMAIN Append(Front(q), f) = 1..Len(q)
           /\ \A i \in 1..(Len(q) - 1) : Append(Front(q), f)[i] = q[i]
           /\ Append(Front(q), f)[Len(q)] = f
  <1>. DEFINE p == Front(q)
  <1>1. /\ p \in Seq(Frame) /\ Len(p) = Len(q) - 1
        /\ \A i \in 1..(Len(q) - 1) : p[i] = q[i]
    BY PoppedStack
  <1>2. Len(q) \in Nat \ {0}
    BY TopOfStack
  <1>. HIDE DEF p
  <1>3. /\ Append(p, f) \in Seq(Frame) /\ Len(Append(p, f)) = Len(p) + 1
        /\ \A i \in 1..Len(p) : Append(p, f)[i] = p[i]
        /\ Append(p, f)[Len(p) + 1] = f
        /\ DOMAIN Append(p, f) = 1..(Len(p) + 1)
    BY <1>1, PushedStack
  <1>4. Len(p) + 1 = Len(q)
    BY <1>1, <1>2
  <1>. QED
    BY <1>1, <1>3, <1>4 DEF p
-----------------------------------------------------------------------------
(* The steps of a task, by what they do to its stack: a call is entered,    *)
(* goes on, or is left, at once or once its session is closed.              *)
SameCall(f, g) == f.kind = g.kind /\ f.session = g.session /\ f.restore = g.restore

LEMMA ReplacedAt ==
    ASSUME NEW q \in Seq(Frame), q # <<>>, NEW f \in Frame, NEW i
    PROVE  /\ i \in DOMAIN Append(Front(q), f) <=> i \in DOMAIN q
           /\ i \in DOMAIN q /\ i # Len(q) => Append(Front(q), f)[i] = q[i]
           /\ i = Len(q) => Append(Front(q), f)[i] = f
  <1>1. Len(q) \in Nat \ {0} /\ DOMAIN q = 1..Len(q)
    BY TopOfStack
  <1>2. i \in DOMAIN q /\ i # Len(q) => i \in 1..(Len(q) - 1)
    BY <1>1
  <1>. QED
    BY <1>1, <1>2, ReplacedTop

(* The kinds of calls that mint a session of their own and open it.         *)
Owners == {"initialize", "stateless", "hook"}
Fresh(t, f) ==
    /\ minted' \in {minted, minted \cup {f.session}}
    /\ f.session \in minted' \cup issued \cup {activeCtx[t]}
    /\ f.kind \in Owners => f.session \notin minted /\ f.session \in minted'
    /\ f.closes => f.kind = "stateless"
    /\ f.pc = "open" <=> f.kind \in Owners
    /\ Busy(t) => Len(stack[t]) < MaxDepth
    /\ issued' = issued

LEMMA Entered ==
    ASSUME StackTypes, NEW t \in Tasks, Entering(t)
    PROVE  \E f \in Frame :
              /\ Pushes(t, f)
              /\ f.restore = activeCtx[t] /\ f.pc \in {"open", "request"}
              /\ f.kind \in HttpKinds => Serving /\ ~Busy(t)
              /\ f.kind \notin HttpKinds /\ Busy(t) => Top(t).pc = "run"
              /\ f.kind = "protect" => activeCtx[t] \in {NoCtx, f.session}
              /\ activeCtx' = IF f.kind = "protect" THEN activeCtx
                              ELSE [activeCtx EXCEPT ![t] = f.session]
              /\ UNCHANGED <<lifeVars, inherited, abandoned, unrestored>>
              /\ Fresh(t, f)
  <1>1. ASSUME NEW kind \in HttpKinds \cup {"hook", "protect"}, NEW s \in Sessions,
               NEW pc \in {"open", "request"}, Enter(t, kind, s, pc),
               kind \in HttpKinds => Serving /\ ~Busy(t),
               kind \notin HttpKinds /\ Busy(t) => Top(t).pc = "run",
               kind = "protect" => activeCtx[t] \in {NoCtx, s},
               minted' \in {minted, minted \cup {s}},
               s \in minted' \cup issued \cup {activeCtx[t]},
               kind \in Owners => s \notin minted /\ s \in minted',
               pc = "open" <=> kind \in Owners,
               Busy(t) => Len(stack[t]) < MaxDepth,
               issued' = issued
        PROVE  \E f \in Frame :
              /\ Pushes(t, f)
              /\ f.restore = activeCtx[t] /\ f.pc \in {"open", "request"}
              /\ f.kind \in HttpKinds => Serving /\ ~Busy(t)
              /\ f.kind \notin HttpKinds /\ Busy(t) => Top(t).pc = "run"
              /\ f.kind = "protect" => activeCtx[t] \in {NoCtx, f.session}
              /\ activeCtx' = IF f.kind = "protect" THEN activeCtx
                              ELSE [activeCtx EXCEPT ![t] = f.session]
              /\ UNCHANGED <<lifeVars, inherited, abandoned, unrestored>>
              /\ Fresh(t, f)
    <2>. DEFINE f == [kind |-> kind, session |-> s, restore |-> activeCtx[t],
                      pc |-> pc, closes |-> kind = "stateless"]
    <2>1. f \in Frame
      BY DEF Frame, StackTypes, Contexts
    <2>2. Pushes(t, f)
      BY <1>1 DEF Enter, Pushes
    <2>3. /\ f.kind = kind /\ f.session = s /\ f.restore = activeCtx[t] /\ f.pc = pc
          /\ activeCtx' = IF kind = "protect" THEN activeCtx
                          ELSE [activeCtx EXCEPT ![t] = s]
          /\ UNCHANGED <<lifeVars, inherited, abandoned, unrestored>>
      BY <1>1 DEF Enter
    <2>4. f.closes = (f.kind = "stateless")
      OBVIOUS
    <2>. HIDE DEF f
    <2>5. Fresh(t, f)
      BY <1>1, <2>3, <2>4 DEF Fresh
    <2>. QED
      BY <1>1, <2>1, <2>2, <2>3, <2>5
  <1>2. ASSUME NEW s \in Sessions, NEW kind \in HttpKinds, EnterHttp(t, kind, s)
        PROVE  \E pc \in {"open", "request"} :
                  /\ Enter(t, kind, s, pc) /\ Serving /\ ~Busy(t)
                  /\ minted' \in {minted, minted \cup {s}}
                  /\ s \in minted' \cup issued
                  /\ kind \in Owners => s \notin minted /\ s \in minted'
                  /\ pc = "open" <=> kind \in Owners
                  /\ issued' = issued
    BY <1>2 DEF EnterHttp, Mint, Owners
  <1>3. ASSUME NEW s \in Sessions, EnterHook(t, s)
        PROVE  /\ Enter(t, "hook", s, "open") /\ (Busy(t) => Top(t).pc = "run")
               /\ s \notin minted /\ minted' = minted \cup {s} /\ issued' = issued
               /\ Len(stack[t]) < MaxDepth
    BY <1>3 DEF EnterHook, MayCall, Mint
  <1>4. ASSUME NEW s \in Sessions, EnterProtect(t, s)
        PROVE  /\ Enter(t, "protect", s, "request") /\ (Busy(t) => Top(t).pc = "run")
               /\ activeCtx[t] \in {NoCtx, s}
               /\ minted' \in {minted, minted \cup {s}} /\ s \in minted' \cup {activeCtx[t]}
               /\ issued' = issued /\ Len(stack[t]) < MaxDepth
    BY <1>4 DEF EnterProtect, MayCall, Mint
  <1>5. /\ "hook" \notin HttpKinds /\ "protect" \notin HttpKinds
        /\ "hook" \in Owners /\ "protect" \notin Owners
    BY DEF HttpKinds, Owners
  <1>. QED
    BY <1>1, <1>2, <1>3, <1>4, <1>5 DEF Entering

LEMMA WentOn ==
    ASSUME StackTypes, NEW t \in Tasks, Opened(t) \/ Admit(t) \/ Returned(t)
    PROVE  /\ Busy(t) /\ Top(t) \in Frame /\ Top(t).pc # "close"
           /\ \E f \in Frame : /\ Becomes(t, f) /\ SameCall(f, Top(t))
                               /\ f.pc \notin {"open", "close"}
                               /\ f.closes = IF Opened(t) THEN f.kind # "initialize"
                                             ELSE Top(t).closes
           /\ UNCHANGED <<activeCtx, inherited, unrestored>>
           /\ Top(t).pc = "open" => Opened(t)
  <1>1. /\ Busy(t) /\ Top(t) \in Frame /\ Top(t).pc \in {"open", "request", "run"}
        /\ Top(t).pc = "open" => Opened(t)
    BY TopOfStack DEF StackTypes, Busy, Top, Opened, Admit, Returned, At
  <1>2. UNCHANGED <<activeCtx, inherited, unrestored>>
    BY DEF Opened, Admit, Returned
  <1>3. CASE Opened(t)
    <2>. DEFINE f == [Top(t) EXCEPT !.pc = "request", !.closes = Top(t).kind # "initialize"]
    <2>1. f \in Frame /\ SameCall(f, Top(t)) /\ f.pc = "request"
          /\ f.closes = (f.kind # "initialize")
      BY <1>1 DEF Frame, SameCall
    <2>2. Becomes(t, f)
      BY <1>3 DEF Opened
    <2>. QED
      BY <1>1, <1>2, <1>3, <2>1, <2>2
  <1>4. ASSUME NEW pc \in {"run", "respond"}, Becomes(t, [Top(t) EXCEPT !.pc = pc]),
               ~Opened(t)
        PROVE  \E f \in Frame : /\ Becomes(t, f) /\ SameCall(f, Top(t))
                                /\ f.pc \notin {"open", "close"}
                                /\ f.closes = IF Opened(t) THEN f.kind # "initialize"
                                              ELSE Top(t).closes
    BY <1>1, <1>4 DEF Frame, SameCall
  <1>5. CASE ~Opened(t)
    BY <1>1, <1>2, <1>4, <1>5 DEF Admit, Returned
  <1>. QED
    BY <1>3, <1>5

LEMMA Left ==
    ASSUME StackTypes, NEW t \in Tasks, Responded(t) \/ Fail(t)
    PROVE  /\ Busy(t) /\ Top(t) \in Frame /\ Top(t).pc # "close"
           /\ \/ ~Top(t).closes /\ Pops(t)
              \/ /\ Top(t).closes
                 /\ \E f \in Frame : Becomes(t, f) /\ SameCall(f, Top(t)) /\ f.pc = "close" /\ f.closes
           /\ activeCtx' = IF Top(t).kind = "protect" \/ (Top(t).closes /\ Top(t).kind # "hook")
                           THEN activeCtx
                           ELSE [activeCtx EXCEPT ![t] = Top(t).restore]
           /\ UNCHANGED <<inherited, unrestored>>
  <1>1. Busy(t) /\ Top(t) \in Frame /\ Top(t).pc # "close" /\ Leave(t)
    BY TopOfStack DEF StackTypes, Busy, Top, Responded, Fail, At
  <1>2. UNCHANGED <<inherited, unrestored>>
    BY DEF Responded, Fail
  <1>3. ASSUME Top(t).closes
        PROVE  \E f \in Frame : Becomes(t, f) /\ SameCall(f, Top(t)) /\ f.pc = "close" /\ f.closes
    <2>. DEFINE f == [Top(t) EXCEPT !.pc = "close"]
    <2>1. f \in Frame /\ SameCall(f, Top(t)) /\ f.pc = "close" /\ f.closes
      BY <1>1, <1>3 DEF Frame, SameCall
    <2>. QED
      BY <1>1, <1>3, <2>1 DEF Leave
  <1>4. ASSUME ~Top(t).closes PROVE Pops(t)
    BY <1>1, <1>4 DEF Leave, Pops
  <1>5. activeCtx' = IF Top(t).kind = "protect" \/ (Top(t).closes /\ Top(t).kind # "hook")
                     THEN activeCtx
                     ELSE [activeCtx EXCEPT ![t] = Top(t).restore]
    BY <1>1, Zenon DEF Leave, Restore
  <1>. QED
    BY <1>1, <1>2, <1>3, <1>4, <1>5

LEMMA ClosedDown ==
    ASSUME StackTypes, NEW t \in Tasks, Closing(t)
    PROVE  /\ Busy(t) /\ Top(t) \in Frame /\ Top(t).pc = "close"
           /\ Pops(t)
           /\ inherited' = inherited
           /\ \/ unrestored' = unrestored /\ activeCtx' = IF Top(t).kind = "hook" THEN activeCtx
                                ELSE [activeCtx EXCEPT ![t] = Top(t).restore]
              \/ unrestored' = unrestored \cup {t} /\ activeCtx' = activeCtx
  <1>1. Busy(t) /\ Top(t) \in Frame /\ Top(t).pc = "close" /\ Pops(t) /\ inherited' = inherited
    BY TopOfStack DEF StackTypes, Busy, Top, Closing, Closed, CloseCancelled, At, Pops
  <1>2. ASSUME NEW audited \in BOOLEAN, Closed(t, audited)
        PROVE  unrestored' = unrestored /\ activeCtx' = IF Top(t).kind = "hook" THEN activeCtx
                                ELSE [activeCtx EXCEPT ![t] = Top(t).restore]
    BY <1>2, Zenon DEF Closed, Restore
  <1>3. ASSUME CloseCancelled(t)
        PROVE  activeCtx' = activeCtx
               /\ unrestored' = IF Top(t).kind = "hook" THEN unrestored ELSE unrestored \cup {t}
    BY <1>3 DEF CloseCancelled
  <1>. QED
    BY <1>1, <1>2, <1>3 DEF Closing

(* No other stack is touched.                                               *)
LEMMA OneStack ==
    ASSUME StackTypes, NEW t \in Tasks, TaskStep(t)
    PROVE  /\ \A u \in Tasks \ {t} : stack'[u] = stack[u]
           /\ UNCHANGED lifeStill
  <1>1. CASE Entering(t)
    BY <1>1, Entered DEF Pushes, StackTypes, lifeVars, lifeStill, sessionState
  <1>2. CASE Opened(t) \/ Admit(t) \/ Returned(t)
    BY <1>2, WentOn DEF Becomes, StackTypes, Opened, Admit, Returned, lifeVars, lifeRest,
       lifeStill, sessionState
  <1>3. CASE Responded(t) \/ Fail(t)
    BY <1>3, Left DEF Becomes, Pops, StackTypes, Responded, Fail, lifeVars, lifeRest, lifeStill,
       sessionState
  <1>4. CASE Closing(t)
    BY <1>4, ClosedDown DEF Pops, StackTypes, Closing, Closed, CloseCancelled, CloseSession,
       lifeVars, lifeRest, lifeStill, sessionState
  <1>5. CASE TaskEnds(t) \/ \E u \in Tasks : Spawn(t, u)
    BY <1>5 DEF TaskEnds, Spawn, lifeVars, lifeStill, sessionState
  <1>. QED
    BY <1>1, <1>2, <1>3, <1>4, <1>5 DEF TaskStep

LEMMA StackPushed ==
    ASSUME StackTypes, NEW t \in Tasks, NEW f \in Frame, Pushes(t, f)
    PROVE  stack' \in [Tasks -> Seq(Frame)] /\ stack'[t] = Append(stack[t], f)
  <1>1. stack[t] \in Seq(Frame) /\ Append(stack[t], f) \in Seq(Frame)
    BY PushedStack DEF StackTypes
  <1>. QED
    BY <1>1, Zenon DEF StackTypes, Pushes

LEMMA StackReplaced ==
    ASSUME StackTypes, NEW t \in Tasks, NEW f \in Frame, Busy(t), Becomes(t, f)
    PROVE  stack' \in [Tasks -> Seq(Frame)] /\ stack'[t] = Append(Front(stack[t]), f)
  <1>1. stack[t] \in Seq(Frame) /\ Append(Front(stack[t]), f) \in Seq(Frame)
    BY ReplacedTop DEF StackTypes, Busy
  <1>. QED
    BY <1>1, Zenon DEF StackTypes, Becomes

LEMMA StackPopped ==
    ASSUME StackTypes, NEW t \in Tasks, Busy(t), Pops(t)
    PROVE  stack' \in [Tasks -> Seq(Frame)] /\ stack'[t] = Front(stack[t])
  <1>1. stack[t] \in Seq(Frame) /\ Front(stack[t]) \in Seq(Frame)
    BY PoppedStack DEF StackTypes, Busy
  <1>. QED
    BY <1>1, Zenon DEF StackTypes, Pops

(* Where a frame comes from: it was there, it was the top and has gone on,  *)
(* or it is the call that is entered.                                       *)
Evolves(t, g, f) ==
    /\ SameCall(f, g) /\ f.pc # "open"
    /\ f.closes => g.closes \/ (Opened(t) /\ f.kind # "initialize")
    /\ f.pc = "close" => g.closes
    /\ g.pc = "open" => Opened(t) \/ g.closes
EnteredAs(t, f) ==
    /\ Entering(t) /\ f \in Frame
    /\ f.restore = activeCtx[t] /\ f.pc # "close"
    /\ f.kind \in HttpKinds => Serving /\ ~Busy(t)
    /\ Fresh(t, f)

LEMMA FrameOrigin ==
    ASSUME StackTypes, NEW t \in Tasks, TaskStep(t), NEW u \in Tasks, NEW i \in DOMAIN stack'[u]
    PROVE  \/ i \in DOMAIN stack[u] /\ stack'[u][i] = stack[u][i]
           \/ /\ u = t /\ Busy(t) /\ i \in DOMAIN stack[t] /\ i = Len(stack[t])
              /\ stack[t][i] = Top(t) /\ Evolves(t, Top(t), stack'[t][i])
           \/ u = t /\ i = Len(stack[t]) + 1 /\ EnteredAs(t, stack'[t][i])
  <1>1. CASE u # t
    BY <1>1, OneStack
  <1>2. CASE u = t
    <2>. DEFINE q == stack[t]
    <2>1. q \in Seq(Frame) /\ Len(q) \in Nat /\ DOMAIN q = 1..Len(q) /\ (Busy(t) <=> q # <<>>)
      BY LenProperties DEF StackTypes, Busy
    <2>2. CASE Entering(t)
      <3>1. PICK f \in Frame : /\ Pushes(t, f) /\ f.restore = activeCtx[t] /\ f.pc # "close"
                               /\ f.kind \in HttpKinds => Serving /\ ~Busy(t)
                               /\ Fresh(t, f)
        BY <2>2, Entered
      <3>2. stack'[t] = Append(q, f)
        BY <3>1, StackPushed
      <3>3. \/ i \in DOMAIN q /\ stack'[t][i] = q[i]
            \/ i = Len(q) + 1 /\ stack'[t][i] = f
        BY <1>2, <2>1, <3>2, PushedAt
      <3>4. EnteredAs(t, f)
        BY <2>2, <3>1 DEF EnteredAs
      <3>. QED
        BY <1>2, <3>3, <3>4
    <2>3. ASSUME NEW f \in Frame, Busy(t), Becomes(t, f), Evolves(t, Top(t), f)
          PROVE  \/ i \in DOMAIN q /\ stack'[t][i] = q[i]
                 \/ /\ i \in DOMAIN q /\ i = Len(q)
                    /\ q[i] = Top(t) /\ Evolves(t, Top(t), stack'[t][i])
      <3>1. stack'[t] = Append(Front(q), f) /\ q # <<>>
        BY <2>3, StackReplaced DEF Busy
      <3>2. Len(q) \in Nat \ {0} /\ Top(t) = q[Len(q)]
        BY <2>1, <3>1, TopOfStack DEF Top
      <3>3. i \in DOMAIN q /\ (i # Len(q) => stack'[t][i] = q[i]) /\ (i = Len(q) => stack'[t][i] = f)
        BY <1>2, <2>1, <3>1, ReplacedAt
      <3>. QED
        BY <2>1, <2>3, <3>2, <3>3
    <2>4. ASSUME Busy(t), Pops(t) PROVE i \in DOMAIN q /\ stack'[t][i] = q[i]
      <3>1. stack'[t] = Front(q) /\ q # <<>>
        BY <2>4, StackPopped DEF Busy
      <3>2. i \in 1..(Len(q) - 1) /\ stack'[t][i] = q[i]
        BY <1>2, <2>1, <3>1, PoppedStack
      <3>. QED
        BY <2>1, <3>2
    <2>5. CASE Opened(t) \/ Admit(t) \/ Returned(t)
      <3>1. PICK f \in Frame : /\ Becomes(t, f) /\ SameCall(f, Top(t))
                               /\ f.pc \notin {"open", "close"}
                               /\ f.closes = IF Opened(t) THEN f.kind # "initialize"
                                             ELSE Top(t).closes
        BY <2>5, WentOn
      <3>2. Busy(t) /\ (Top(t).pc = "open" => Opened(t))
        BY <2>5, WentOn
      <3>3. Evolves(t, Top(t), f)
        BY <3>1, <3>2 DEF Evolves
      <3>. QED
        BY <1>2, <2>3, <3>1, <3>2, <3>3
    <2>6. CASE Responded(t) \/ Fail(t)
      <3>1. CASE ~Top(t).closes /\ Pops(t)
        BY <1>2, <2>4, <2>6, <3>1, Left
      <3>2. ASSUME NEW f \in Frame, Top(t).closes, Becomes(t, f), SameCall(f, Top(t)), f.pc = "close"
            PROVE  \/ i \in DOMAIN q /\ stack'[t][i] = q[i]
                   \/ /\ i \in DOMAIN q /\ i = Len(q)
                      /\ q[i] = Top(t) /\ Evolves(t, Top(t), stack'[t][i])
        <4>1. Evolves(t, Top(t), f)
          BY <3>2 DEF Evolves
        <4>. QED
          BY <2>3, <2>6, <3>2, <4>1, Left
      <3>. QED
        BY <1>2, <2>6, <3>1, <3>2, Left
    <2>7. CASE Closing(t)
      BY <1>2, <2>4, <2>7, ClosedDown
    <2>8. CASE TaskEnds(t) \/ \E v \in Tasks : Spawn(t, v)
      <3>1. stack' = stack
        BY <2>8 DEF TaskEnds, Spawn
      <3>. QED
        BY <3>1
    <2>. QED
      BY <2>2, <2>5, <2>6, <2>7, <2>8 DEF TaskStep
  <1>. QED
    BY <1>1, <1>2

LEMMA TypesKept ==
    ASSUME StackTypes, [Next]_vars
    PROVE  StackTypes'
  <1>1. ASSUME NEW t \in Tasks, TaskStep(t) PROVE StackTypes'
    <2>1. CASE Entering(t)
      <3>1. stack' \in [Tasks -> Seq(Frame)]
        BY <2>1, Entered, StackPushed
      <3>2. activeCtx' \in [Tasks -> Contexts] /\ inherited' = inherited
        BY <2>1, Entered DEF StackTypes, Contexts, Frame
      <3>. QED
        BY <3>1, <3>2 DEF StackTypes
    <2>2. CASE Opened(t) \/ Admit(t) \/ Returned(t)
      <3>1. stack' \in [Tasks -> Seq(Frame)]
        BY <2>2, WentOn, StackReplaced
      <3>. QED
        BY <2>2, <3>1, WentOn DEF StackTypes
    <2>3. CASE Responded(t) \/ Fail(t)
      <3>1. stack' \in [Tasks -> Seq(Frame)]
        BY <2>3, Left, StackReplaced, StackPopped
      <3>2. activeCtx' \in [Tasks -> Contexts] /\ inherited' = inherited
        BY <2>3, Left DEF StackTypes, Contexts, Frame
      <3>. QED
        BY <3>1, <3>2 DEF StackTypes
    <2>4. CASE Closing(t)
      <3>1. stack' \in [Tasks -> Seq(Frame)]
        BY <2>4, ClosedDown, StackPopped
      <3>2. activeCtx' \in [Tasks -> Contexts] /\ inherited' = inherited
        BY <2>4, ClosedDown DEF StackTypes, Contexts, Frame
      <3>. QED
        BY <3>1, <3>2 DEF StackTypes
    <2>5. CASE TaskEnds(t) \/ \E u \in Tasks : Spawn(t, u)
      BY <2>5 DEF TaskEnds, Spawn, StackTypes, Contexts
    <2>. QED
      BY <1>1, <2>1, <2>2, <2>3, <2>4, <2>5 DEF TaskStep
  <1>2. CASE UNCHANGED callVars
    BY <1>2 DEF StackTypes, callVars
  <1>. QED
    BY <1>1, <1>2, StepsOfServer DEF vars, Life

(* Every call in progress is a well-formed frame, and every task's copy of  *)
(* _active_ctx names a session or none (_active_ctx.set and reset).         *)
THEOREM TypesHold == Spec => []StackTypes
  <1>1. Init => StackTypes
    <2>. SUFFICES ASSUME Init PROVE StackTypes
      OBVIOUS
    <2>1. <<>> \in Seq(Frame)
      BY EmptySeq
    <2>. QED
      BY <2>1 DEF Init, CallInit, StackTypes, Contexts
  <1>. QED
    BY <1>1, TypesKept, PTL DEF Spec
-----------------------------------------------------------------------------
(* Where the server, the handler, the queues and the wrapped app are with   *)
(* one another, when the server sends lifespan events.                      *)
QueuesEmpty == toApp = <<>> /\ fromApp = <<>>
AppReady == app \in {"up", "ended"} /\ (deployment = "sidecar" => client = "open")
Phases ==
    \/ /\ server = "off" /\ handler = "receive"
       /\ QueuesEmpty /\ app \in {"waiting", "ended"}
    \/ /\ server = "starting" /\ handler = "appStart"
       /\ \/ toApp = <<"startup">> /\ fromApp = <<>> /\ app \in {"waiting", "ended"}
          \/ toApp = <<>> /\ fromApp = <<"complete">> /\ AppReady
          \/ toApp = <<>> /\ fromApp = <<"failed">> /\ app = "failed"
    \/ /\ server = "starting" /\ handler = "engines"
       /\ QueuesEmpty /\ AppReady
    \/ /\ \/ server = "serving" /\ handler = "receive"
          \/ server = "stopping" /\ handler = "drain"
       /\ QueuesEmpty /\ AppReady
       /\ started /\ reaper /\ ~refusing
    \/ /\ server \in {"stopping", "stopped", "failed"}
       /\ handler \in {"appStop", "join", "done"}

LifeInv ==
    /\ IF lifespans THEN Phases ELSE Serving /\ handler = "receive" /\ QueuesEmpty
    /\ HttpInFlight => Serving
    /\ handler # "drain" => draining = {}

LEMMA LifeInit1 == Init => LifeInv
  <1>. SUFFICES ASSUME Init PROVE LifeInv
    OBVIOUS
  <1>1. ~HttpInFlight
    BY DEF Init, CallInit, ExchangeInit, HttpInFlight
  <1>. QED
    BY <1>1 DEF Init, LifeInit, LifeInv, Phases, Serving, QueuesEmpty

(* A step of a task or of the exchange changes nothing of the server's life *)
(* but may open the sidecar's client, and serves only while it is serving.  *)
LEMMA LifeUntouched ==
    ASSUME StackTypes, Next, ~Life
    PROVE  /\ UNCHANGED <<setting, exchangeOfEvents, started, reaper, draining>>
           /\ client' = client \/ (HttpInFlight /\ deployment = "sidecar" /\ client' = "open")
  <1>1. UNCHANGED <<setting, exchangeOfEvents, started, reaper, draining>>
    BY StepsOfServer, OneStack DEF lifeVars, lifeStill, sessionState
  <1>2. CASE Calls
    <2>1. ASSUME NEW t \in Tasks, Begin(t) \/ Continue(t) \/ TaskEnds(t) PROVE client' = client
      <3>1. CASE Begin(t)
        BY <3>1 DEF Begin, EnterHttp, EnterHook, EnterProtect, Enter, lifeVars
      <3>2. CASE Continue(t)
        BY <3>2 DEF Continue, Opened, Admitted, Returned, Responded, Fail, Closed,
           CloseCancelled, lifeRest, lifeVars
      <3>. QED
        BY <2>1, <3>1, <3>2 DEF TaskEnds, lifeVars
    <2>2. ASSUME NEW t \in Tasks, NEW u \in Tasks, Spawn(t, u) PROVE client' = client
      BY <2>2 DEF Spawn, lifeVars
    <2>. QED
      BY <1>1, <1>2, <2>1, <2>2 DEF Calls, CallNext
  <1>3. CASE Exchange
    <2>1. ASSUME Resolving PROVE client' = client
      BY <2>1 DEF Resolving, EnterHttp, Enter, lifeVars
    <2>2. ASSUME Leaving PROVE client' = client
      BY <2>2 DEF Leaving, Closed, CloseCancelled, lifeRest, lifeVars
    <2>3. ASSUME Reading \/ Buffering PROVE client' = client
      BY <2>3 DEF Reading, Buffering, lifeVars
    <2>4. ASSUME Forwarding
          PROVE  client' = client \/ (HttpInFlight /\ deployment = "sidecar" /\ client' = "open")
      BY <1>3, <2>4 DEF Forwarding, Forward, Exchange, HttpInFlight
    <2>5. ASSUME Opening \/ Collecting \/ Answering PROVE client' = client
      BY <2>5 DEF Opening, Collecting, Answering, Opened, Returned, Responded, lifeRest, lifeVars
    <2>6. ASSUME Refusing \/ NotCollecting \/ Breaking PROVE client' = client
      BY <2>6 DEF Refusing, NotCollecting, Breaking, Fail, lifeRest, lifeVars
    <2>. QED
      BY <1>1, <1>3, <2>1, <2>2, <2>3, <2>4, <2>5, <2>6 DEF Exchange
  <1>. QED
    BY <1>2, <1>3 DEF Next

HttpFrame == \E t \in Tasks : \E i \in DOMAIN stack[t] : stack[t][i].kind \in HttpKinds

LEMMA HttpFrameBegins ==
    ASSUME StackTypes, NEW t \in Tasks, TaskStep(t), HttpFrame'
    PROVE  HttpFrame \/ Serving
  <1>. SUFFICES ASSUME NEW u \in Tasks, NEW i \in DOMAIN stack'[u],
                       stack'[u][i].kind \in HttpKinds, ~Serving
                PROVE  HttpFrame
    BY DEF HttpFrame
  <1>1. i \in DOMAIN stack[u] /\ stack[u][i].kind = stack'[u][i].kind
    BY FrameOrigin DEF EnteredAs, Evolves, SameCall
  <1>. QED
    BY <1>1 DEF HttpFrame

LEMMA InFlightBegins ==
    ASSUME StackTypes, Next, ~Life, HttpInFlight'
    PROVE  HttpInFlight \/ Serving
  <1>1. HttpInFlight <=> HttpFrame \/ (in # NoExchange /\ xpc \notin {"waiting", "done"})
    BY DEF HttpInFlight, HttpFrame
  <1>2. HttpInFlight' <=> HttpFrame' \/ (in' # NoExchange /\ xpc' \notin {"waiting", "done"})
    BY DEF HttpInFlight, HttpFrame
  <1>3. HttpFrame' => HttpFrame \/ Serving
    <2>1. UNCHANGED <<lifeVars, callVars>> => (HttpFrame' <=> HttpFrame)
      BY DEF callVars, HttpFrame
    <2>. QED
      BY <2>1, StepsOfServer, HttpFrameBegins
  <1>4. /\ in' = in
        /\ xpc' \notin {"waiting", "done"} => xpc \notin {"waiting", "done"} \/ Serving
    <2>1. CASE Calls
      BY <2>1 DEF Calls, exchangeVars
    <2>2. CASE Reading
      BY <2>2 DEF Reading, Screen, ScreenedOut, Receive, ReceiveTooMuch, Unreadable, Refuse,
         Complete
    <2>3. CASE Resolving
      BY <2>3 DEF Resolving, Resolve, Complete
    <2>4. CASE Opening \/ Leaving
      BY <2>4 DEF Opening, Leaving, exchangeVars
    <2>5. CASE Forwarding \/ Refusing
      BY <2>5 DEF Forwarding, Forward, Refusing, Refuse
    <2>6. CASE Buffering
      BY <2>6 DEF Buffering, AppSendsStart, AppSendsBody
    <2>7. CASE Collecting \/ NotCollecting \/ Answering \/ Breaking
      BY <2>7 DEF Collecting, Collect, NotCollecting, Uncollectable, Answering, Answer, Breaking,
         BreakOff, AppDone, Refuse
    <2>. QED
      BY <2>1, <2>2, <2>3, <2>4, <2>5, <2>6, <2>7 DEF Next, Exchange
  <1>. QED
    BY <1>1, <1>2, <1>3, <1>4

LEMMA LifeStepKeepsPhases ==
    ASSUME LifeInv, Life
    PROVE  LifeInv'
  <1>. USE DEF LifeInv, Phases, QueuesEmpty, AppReady, Serving, setting, sessionState
  <1>1. UNCHANGED <<stack, in, xpc>>
    BY DEF Life, callVars, exchangeVars
  <1>2. HttpInFlight' <=> HttpInFlight
    BY <1>1 DEF HttpInFlight
  <1>3. CASE SendStartup
    BY <1>2, <1>3 DEF SendStartup
  <1>4. CASE AppStarts
    <2>1. Tail(<<"startup">>) = <<>> /\ Append(<<>>, "complete") = <<"complete">>
      OBVIOUS
    <2>2. lifespans /\ server = "starting" /\ handler = "appStart"
             => toApp' = <<>> /\ fromApp' = <<"complete">>
      BY <2>1, <1>4 DEF AppStarts
    <2>3. /\ UNCHANGED <<setting, server, handler, draining>> /\ toApp # <<>> /\ app = "waiting"
          /\ app' = "up"
      BY <1>4 DEF AppStarts
    <2>4. deployment = "sidecar" => client' = "open"
      BY <1>4 DEF AppStarts
    <2>. QED
      BY <1>2, <2>2, <2>3, <2>4
  <1>5. CASE AppFails
    <2>1. Tail(<<"startup">>) = <<>> /\ Append(<<>>, "failed") = <<"failed">>
      OBVIOUS
    <2>2. lifespans /\ server = "starting" /\ handler = "appStart"
             => toApp' = <<>> /\ fromApp' = <<"failed">>
      BY <2>1, <1>5 DEF AppFails
    <2>3. /\ UNCHANGED <<setting, server, handler, draining>> /\ toApp # <<>> /\ app = "waiting"
          /\ app' = "failed"
      BY <1>5 DEF AppFails
    <2>. QED
      BY <1>2, <2>2, <2>3
  <1>6. CASE AppEndsSilently
    BY <1>2, <1>6 DEF AppEndsSilently
  <1>7. CASE AppStops
    BY <1>2, <1>7 DEF AppStops
  <1>8. CASE AppAnswered
    BY <1>2, <1>8 DEF AppAnswered, Accepted
  <1>9. CASE StartGuard
    BY <1>2, <1>9 DEF StartGuard
  <1>10. CASE RefuseToStart
    BY <1>2, <1>10 DEF RefuseToStart
  <1>11. CASE SendShutdown(~HttpInFlight)
    BY <1>2, <1>11 DEF SendShutdown
  <1>12. ASSUME NEW s \in Sessions, NEW audited \in BOOLEAN, DrainOne(s, audited)
         PROVE  LifeInv'
    BY <1>2, <1>12 DEF DrainOne, exchangeOfEvents
  <1>13. CASE StopGuard
    BY <1>2, <1>13 DEF StopGuard
  <1>14. CASE AppStopped
    BY <1>2, <1>14 DEF AppStopped
  <1>15. CASE JoinApp
    BY <1>2, <1>15 DEF JoinApp
  <1>16. ASSUME NEW zs \in SUBSET seen, Reap(zs) PROVE LifeInv'
    BY <1>2, <1>16 DEF Reap, exchangeOfEvents
  <1>. QED
    BY <1>3, <1>4, <1>5, <1>6, <1>7, <1>8, <1>9, <1>10, <1>11, <1>12, <1>13, <1>14, <1>15, <1>16
    DEF Life, LifeNext, WrappedApp, Handler

LEMMA LifeKept ==
    ASSUME StackTypes, LifeInv, [Next]_vars
    PROVE  LifeInv'
  <1>1. ASSUME Next, ~Life PROVE LifeInv'
    <2>1. UNCHANGED <<setting, exchangeOfEvents, started, reaper, draining>> /\ client' \in {client, "open"}
      BY <1>1, LifeUntouched
    <2>2. HttpInFlight' => Serving'
      BY <1>1, <2>1, InFlightBegins DEF LifeInv, Serving, exchangeOfEvents
    <2>. QED
      BY <2>1, <2>2 DEF LifeInv, Phases, QueuesEmpty, AppReady, Serving, setting, exchangeOfEvents
  <1>2. CASE UNCHANGED vars
    <2>1. HttpInFlight' <=> HttpInFlight
      BY <1>2 DEF vars, callVars, exchangeVars, HttpInFlight
    <2>. QED
      BY <1>2, <2>1 DEF LifeInv, Phases, QueuesEmpty, AppReady, Serving, vars, lifeVars, setting,
         exchangeOfEvents, sessionState
  <1>. QED
    BY <1>1, <1>2, LifeStepKeepsPhases

(* _handle_lifespan, ForwardingApp's lifespan: a server that sends lifespan *)
(* events serves and drains only by engines that have all started, whatever *)
(* the wrapped app does, and never after a refusal.                         *)
THEOREM OnlyStartedServes == Spec => []ServesOnlyStarted
  <1>1. StackTypes /\ LifeInv /\ [Next]_vars => LifeInv'
    BY LifeKept
  <1>2. LifeInv => ServesOnlyStarted
    BY DEF LifeInv, ServesOnlyStarted, Phases, AppReady, Serving
  <1>. QED
    BY <1>1, <1>2, LifeInit1, TypesHold, PTL DEF Spec
-----------------------------------------------------------------------------
(* A call in progress will close the session.                               *)
HasCloser(s) ==
    \E t \in Tasks : \E i \in DOMAIN stack[t] : stack[t][i].session = s /\ stack[t][i].closes

(* It is on the stack until close_session returns, or until the session of  *)
(* an initialize is tracked.                                                *)
LEMMA ClosersKept ==
    ASSUME StackTypes, NEW t \in Tasks, TaskStep(t), NEW s, HasCloser(s)
    PROVE  \/ HasCloser(s)'
           \/ /\ Busy(t) /\ Top(t).session = s
              /\ Closing(t) \/ (Opened(t) /\ Top(t).kind = "initialize")
  <1>1. PICK u \in Tasks : \E i \in DOMAIN stack[u] : stack[u][i].session = s /\ stack[u][i].closes
    BY DEF HasCloser
  <1>2. CASE u # t
    BY <1>1, <1>2, OneStack DEF HasCloser
  <1>3. CASE u = t
    <2>. DEFINE q == stack[t]
    <2>1. PICK i \in DOMAIN q : q[i].session = s /\ q[i].closes
      BY <1>1, <1>3
    <2>2. q \in Seq(Frame) /\ Len(q) \in Nat /\ DOMAIN q = 1..Len(q)
      BY LenProperties DEF StackTypes
    <2>3. Busy(t) /\ Top(t) = q[Len(q)] /\ Len(q) \in Nat \ {0}
      <3>1. q # <<>>
        BY <2>1, EmptySeq
      <3>. QED
        BY <2>2, <3>1, TopOfStack DEF Busy, Top
    <2>4. CASE Entering(t)
      <3>1. PICK f \in Frame : Pushes(t, f)
        BY <2>4, Entered
      <3>2. i \in DOMAIN stack'[t] /\ stack'[t][i] = q[i]
        BY <2>1, <2>2, <3>1, StackPushed, PushedAt
      <3>. QED
        BY <2>1, <3>2 DEF HasCloser
    <2>5. ASSUME NEW f \in Frame, Becomes(t, f), SameCall(f, Top(t)), Top(t).closes => f.closes
          PROVE  HasCloser(s)'
      <3>1. stack'[t] = Append(Front(q), f) /\ q # <<>>
        BY <2>3, <2>5, StackReplaced DEF Busy
      <3>2. /\ i \in DOMAIN stack'[t]
            /\ i # Len(q) => stack'[t][i] = q[i]
            /\ i = Len(q) => stack'[t][i] = f
        BY <2>1, <2>2, <3>1, ReplacedAt
      <3>3. stack'[t][i].session = s /\ stack'[t][i].closes
        BY <2>1, <2>3, <2>5, <3>2 DEF SameCall
      <3>. QED
        BY <3>2, <3>3 DEF HasCloser
    <2>6. ASSUME Pops(t), i # Len(q) PROVE HasCloser(s)'
      <3>1. stack'[t] = Front(q) /\ q # <<>>
        BY <2>3, <2>6, StackPopped DEF Busy
      <3>2. i \in DOMAIN stack'[t] /\ stack'[t][i] = q[i]
        BY <2>1, <2>2, <2>3, <2>6, <3>1, PoppedStack
      <3>. QED
        BY <2>1, <3>2 DEF HasCloser
    <2>7. CASE Opened(t) \/ Admit(t) \/ Returned(t)
      <3>1. PICK f \in Frame : /\ Becomes(t, f) /\ SameCall(f, Top(t))
                               /\ f.closes = IF Opened(t) THEN f.kind # "initialize"
                                             ELSE Top(t).closes
        BY <2>7, WentOn
      <3>2. CASE Opened(t) /\ Top(t).kind = "initialize"
        <4>1. CASE i = Len(q)
          BY <2>1, <2>3, <3>2, <4>1
        <4>2. CASE i # Len(q)
          <5>1. stack'[t] = Append(Front(q), f) /\ q # <<>>
            BY <2>3, <3>1, StackReplaced DEF Busy
          <5>2. i \in DOMAIN stack'[t] /\ stack'[t][i] = q[i]
            BY <2>1, <2>2, <4>2, <5>1, ReplacedAt
          <5>. QED
            BY <2>1, <5>2 DEF HasCloser
        <4>. QED
          BY <4>1, <4>2
      <3>3. CASE ~(Opened(t) /\ Top(t).kind = "initialize")
        BY <2>5, <3>1, <3>3 DEF SameCall
      <3>. QED
        BY <3>2, <3>3
    <2>8. CASE Responded(t) \/ Fail(t)
      BY <2>1, <2>3, <2>5, <2>6, <2>8, Left
    <2>9. CASE Closing(t)
      BY <2>1, <2>3, <2>6, <2>9, ClosedDown
    <2>10. CASE TaskEnds(t) \/ \E v \in Tasks : Spawn(t, v)
      <3>1. stack' = stack
        BY <2>10 DEF TaskEnds, Spawn
      <3>. QED
        BY <2>1, <3>1 DEF HasCloser
    <2>. QED
      BY <2>4, <2>7, <2>8, <2>9, <2>10 DEF TaskStep
  <1>. QED
    BY <1>2, <1>3

LEMMA OwnedIs == \A s : Owned(s) <=> (s \in tracked /\ handler # "drain") \/ HasCloser(s)
  BY DEF Owned, HasCloser

LEMMA TaskLeavesNothing ==
    ASSUME StackTypes, LifeInv, CallsLeaveNothing, NEW t \in Tasks, TaskStep(t)
    PROVE  CallsLeaveNothing'
  <1>1. UNCHANGED <<handler, draining>>
    BY OneStack DEF lifeStill, exchangeOfEvents
  <1>2. tracked \subseteq tracked' /\ abandoned \subseteq abandoned'
    <2>1. CASE Entering(t)
      BY <2>1, Entered DEF lifeVars, sessionState
    <2>2. CASE Closing(t)
      BY <2>2 DEF Closing, Closed, CloseCancelled, lifeVars, sessionState
    <2>3. CASE Responded(t) \/ Fail(t)
      BY <2>3 DEF Responded, Fail, Touch, lifeVars, sessionState
    <2>4. CASE Opened(t) \/ Admit(t) \/ Returned(t) \/ TaskEnds(t) \/ \E u \in Tasks : Spawn(t, u)
      BY <2>4 DEF Opened, Admit, SeenByT10, Touch, Returned, TaskEnds, Spawn, lifeVars, sessionState
    <2>. QED
      BY <2>1, <2>2, <2>3, <2>4 DEF TaskStep
  <1>3. \A s : HasCloser(s)' \/ (s \in tracked' /\ handler # "drain") => Owned(s)'
    BY <1>1 DEF Owned, HasCloser
  <1>4. ASSUME Opened(t)
        PROVE  /\ seen' = seen \cup {Top(t).session}
               /\ \A s : s = Top(t).session => Owned(s)'
    <2>1. PICK f \in Frame : Becomes(t, f) /\ SameCall(f, Top(t)) /\ f.closes = (f.kind # "initialize")
      BY <1>4, WentOn
    <2>2. Busy(t) /\ Top(t).kind = f.kind /\ Top(t).session = f.session
      BY <1>4, <2>1, WentOn DEF SameCall
    <2>3. ASSUME f.kind # "initialize" PROVE HasCloser(f.session)'
      <3>1. Len(stack[t]) \in Nat \ {0}
        BY <2>2, TopOfStack DEF StackTypes, Busy
      <3>2. stack'[t] = Append(Front(stack[t]), f) /\ stack[t] # <<>> /\ stack[t] \in Seq(Frame)
        BY <2>1, <2>2, StackReplaced DEF StackTypes, Busy
      <3>3. Len(stack[t]) \in DOMAIN stack'[t] /\ stack'[t][Len(stack[t])] = f
        BY <3>1, <3>2, ReplacedTop
      <3>. QED
        BY <2>1, <2>3, <3>3 DEF HasCloser
    <2>4. ASSUME f.kind = "initialize" PROVE f.session \in tracked' /\ handler # "drain"
      <3>1. HttpInFlight
        <4>1. Len(stack[t]) \in DOMAIN stack[t] /\ stack[t][Len(stack[t])] = Top(t)
          BY <2>2, TopOfStack DEF StackTypes, Busy, Top
        <4>. QED
          BY <2>2, <2>4, <4>1 DEF HttpInFlight, HttpKinds
      <3>2. handler # "drain"
        BY <3>1 DEF LifeInv, Phases, Serving
      <3>3. tracked' = tracked \cup {Top(t).session}
        BY <1>4, <2>2, <2>4 DEF Opened
      <3>. QED
        BY <2>2, <3>2, <3>3
    <2>. QED
      BY <1>3, <1>4, <2>2, <2>3, <2>4 DEF Opened
  <1>5. ASSUME NEW s \in seen
        PROVE  Owned(s)' \/ s \in draining' \/ s \in abandoned' \/ s \notin seen'
    <2>1. CASE s \in draining \/ s \in abandoned
      BY <1>1, <1>2, <2>1
    <2>2. CASE s \in tracked /\ handler # "drain"
      BY <1>2, <1>3, <2>2
    <2>3. CASE HasCloser(s)
      <3>1. CASE HasCloser(s)'
        BY <1>3, <3>1
      <3>2. CASE Opened(t) /\ Top(t).session = s
        BY <1>4, <3>2
      <3>3. CASE Closing(t) /\ Top(t).session = s
        BY <3>3 DEF Closing, Closed, CloseSession, CloseCancelled
      <3>. QED
        BY <2>3, <3>1, <3>2, <3>3, ClosersKept
    <2>. QED
      BY <2>1, <2>2, <2>3, OwnedIs DEF CallsLeaveNothing
  <1>6. ASSUME NEW s \in seen' \ seen PROVE Owned(s)' \/ s \in abandoned'
    <2>1. CASE Opened(t)
      BY <1>4, <1>6, <2>1
    <2>2. ASSUME Admit(t) \/ Fail(t), Touch(Top(t).session) PROVE Owned(s)' \/ s \in abandoned'
      <3>1. s = Top(t).session
        BY <1>6, <2>2 DEF Touch
      <3>2. CASE Owned(s)
        <4>1. CASE s \in tracked /\ handler # "drain"
          BY <1>2, <1>3, <4>1
        <4>2. CASE HasCloser(s)
          <5>1. Top(t).pc # "close" /\ ~Opened(t)
            BY <2>2 DEF Admit, Fail, Opened, At, Touch
          <5>2. ~Closing(t)
            BY <5>1 DEF Closing, Closed, CloseCancelled, At
          <5>. QED
            BY <1>3, <4>2, <5>1, <5>2, ClosersKept
        <4>. QED
          BY <3>2, <4>1, <4>2, OwnedIs
      <3>3. CASE ~Owned(s)
        BY <2>2, <3>1, <3>3 DEF Touch
      <3>. QED
        BY <3>2, <3>3
    <2>3. CASE Entering(t) \/ Returned(t) \/ Responded(t) \/ TaskEnds(t) \/ \E u \in Tasks : Spawn(t, u)
      <3>1. seen' = seen
        BY <2>3, Entered DEF Returned, Responded, TaskEnds, Spawn, lifeVars, sessionState
      <3>. QED
        BY <1>6, <3>1
    <2>4. CASE Closing(t)
      BY <1>6, <2>4 DEF Closing, Closed, CloseSession, CloseCancelled, lifeVars, sessionState
    <2>5. CASE (Admit(t) \/ Fail(t)) /\ ~Touch(Top(t).session)
      BY <1>6, <2>5 DEF Admit, SeenByT10, Fail
    <2>. QED
      BY <2>1, <2>2, <2>3, <2>4, <2>5 DEF TaskStep
  <1>. QED
    BY <1>5, <1>6 DEF CallsLeaveNothing

LEMMA LifeLeavesNothing ==
    ASSUME LifeInv, CallsLeaveNothing, Life
    PROVE  CallsLeaveNothing'
  <1>1. abandoned' = abandoned /\ \A s : HasCloser(s)' <=> HasCloser(s)
    BY DEF Life, callVars, HasCloser
  <1>. SUFFICES ASSUME NEW s \in seen'
                PROVE  (s \in tracked' /\ handler' # "drain") \/ HasCloser(s)
                       \/ s \in draining' \/ s \in abandoned
    BY <1>1 DEF CallsLeaveNothing, Owned, HasCloser
  <1>2. s \in seen => \/ s \in tracked /\ handler # "drain"
                      \/ HasCloser(s) \/ s \in draining \/ s \in abandoned
    BY DEF CallsLeaveNothing, Owned, HasCloser
  <1>3. CASE SendStartup \/ WrappedApp \/ AppAnswered \/ StartGuard \/ RefuseToStart \/ AppStopped
             \/ JoinApp
    <2>1. UNCHANGED sessionState /\ (handler' = "drain" => handler = "drain")
      BY <1>3 DEF SendStartup, WrappedApp, AppStarts, AppFails, AppEndsSilently, AppStops,
         AppAnswered, StartGuard, RefuseToStart, AppStopped, JoinApp
    <2>. QED
      BY <1>2, <2>1 DEF sessionState
  <1>4. ASSUME NEW z \in Sessions, NEW audited \in BOOLEAN, DrainOne(z, audited)
        PROVE  (s \in tracked' /\ handler' # "drain") \/ HasCloser(s)
               \/ s \in draining' \/ s \in abandoned
    BY <1>2, <1>4 DEF DrainOne, CloseSession, LeftToDrain, exchangeOfEvents
  <1>5. CASE StopGuard
    BY <1>2, <1>5 DEF StopGuard
  <1>6. CASE SendShutdown(~HttpInFlight)
    BY <1>2, <1>6 DEF SendShutdown, LifeInv
  <1>7. ASSUME NEW zs \in SUBSET seen, Reap(zs)
        PROVE  (s \in tracked' /\ handler' # "drain") \/ HasCloser(s)
               \/ s \in draining' \/ s \in abandoned
    BY <1>2, <1>7 DEF Reap, exchangeOfEvents
  <1>. QED
    BY <1>3, <1>4, <1>5, <1>6, <1>7 DEF Life, LifeNext, Handler

(* close_session in the finally clauses, _active_sessions and the drain:    *)
(* whatever fails or is cancelled, no session T10 has on its books is lost  *)
(* to all three, but for those of calls that cannot close them.             *)
THEOREM CallsClose == Spec => []CallsLeaveNothing
  <1>1. Init => CallsLeaveNothing
    BY DEF Init, LifeInit, CallsLeaveNothing
  <1>2. StackTypes /\ LifeInv /\ CallsLeaveNothing /\ [Next]_vars => CallsLeaveNothing'
    <2>1. ASSUME CallsLeaveNothing, UNCHANGED <<lifeVars, callVars>> PROVE CallsLeaveNothing'
      BY <2>1 DEF CallsLeaveNothing, Owned, lifeVars, sessionState, exchangeOfEvents, callVars
    <2>. QED
      BY <2>1, StepsOfServer, TaskLeavesNothing, LifeLeavesNothing DEF vars
  <1>3. StackTypes /\ LifeInv /\ [Next]_vars => LifeInv'
    BY LifeKept
  <1>. QED
    BY <1>1, <1>2, <1>3, LifeInit1, TypesHold, PTL DEF Spec
-----------------------------------------------------------------------------
(* What the ContextVar holds while a call's function runs.                  *)
Sets(f) == IF f.kind = "protect" THEN f.restore ELSE f.session

(* Each call restores what the call below it has set, and the variable holds*)
(* what the top one sets, unless that one is a hook that has restored it.   *)
Chained(q, inh) ==
    /\ \A i \in DOMAIN q : i > 1 => q[i].restore = Sets(q[i - 1])
    /\ \A i \in DOMAIN q : q[i].kind = "protect" => q[i].restore \in {NoCtx, q[i].session}
    /\ \A i, j \in DOMAIN q : Encloses(q, j, i) => q[i].restore = q[j].session
    /\ \A i \in DOMAIN q : NotEnclosed(q, i) => q[i].restore = inh
    /\ \A i \in DOMAIN q : i < Len(q) => q[i].pc # "close"
Holds(f) == IF f.kind = "hook" /\ f.pc = "close" THEN f.restore ELSE Sets(f)
Disciplined(q, ctx, inh) ==
    /\ Chained(q, inh)
    /\ ctx = IF q = <<>> THEN inh ELSE Holds(q[Len(q)])

LEMMA PushDisciplined ==
    ASSUME NEW q \in Seq(Frame), NEW f \in Frame, NEW ctx, NEW inh,
           Disciplined(q, ctx, inh), q # <<>> => Last(q).pc = "run",
           f.restore = ctx, f.pc # "close",
           f.kind = "protect" => ctx \in {NoCtx, f.session}
    PROVE  Disciplined(Append(q, f), Sets(f), inh)
  <1>. DEFINE n == Len(q)
              p == Append(q, f)
  <1>1. n \in Nat /\ DOMAIN q = 1..n /\ (n = 0 <=> q = <<>>)
    BY LenProperties, EmptySeq
  <1>2. /\ p \in Seq(Frame) /\ Len(p) = n + 1 /\ DOMAIN p = 1..(n + 1)
        /\ \A i \in 1..n : p[i] = q[i]
        /\ p[n + 1] = f
    BY PushedStack
  <1>3. n > 0 => q[n].pc = "run" /\ ctx = Sets(q[n])
    BY <1>1 DEF Last, Disciplined, Holds
  <1>4. n = 0 => ctx = inh
    BY <1>1 DEF Disciplined
  <1>. HIDE DEF p, n
  <1>5. Chained(q, inh) /\ DOMAIN q = 1..n /\ n = Len(q)
    BY <1>1 DEF Disciplined, n
  <1>6. \A i \in DOMAIN p : i > 1 => p[i].restore = Sets(p[i - 1])
    <2>. SUFFICES ASSUME NEW i \in 1..(n + 1), i > 1 PROVE p[i].restore = Sets(p[i - 1])
      BY <1>2
    <2>1. CASE i = n + 1
      BY <1>1, <1>2, <1>3, <2>1
    <2>2. CASE i # n + 1
      <3>1. i \in 1..n /\ i - 1 \in 1..n
        BY <1>1, <2>2
      <3>. QED
        BY <1>2, <1>5, <3>1 DEF Chained
    <2>. QED
      BY <2>1, <2>2
  <1>7. \A i \in DOMAIN p : p[i].kind = "protect" => p[i].restore \in {NoCtx, p[i].session}
    BY <1>1, <1>2, <1>5 DEF Chained
  <1>8. \A i, j \in DOMAIN p : Encloses(p, j, i) => p[i].restore = p[j].session
    <2>. SUFFICES ASSUME NEW i \in 1..(n + 1), NEW j \in 1..(n + 1), Encloses(p, j, i)
                  PROVE  p[i].restore = p[j].session
      BY <1>2
    <2>1. j \in 1..n /\ j < i /\ p[j] = q[j] /\ q[j].kind # "protect"
      BY <1>1, <1>2 DEF Encloses
    <2>2. \A k \in (j + 1)..(i - 1) : k \in 1..n /\ q[k].kind = "protect"
      BY <1>1, <1>2, <2>1 DEF Encloses
    <2>3. CASE i # n + 1
      <3>1. i \in DOMAIN q /\ j \in DOMAIN q /\ p[i] = q[i]
        BY <1>1, <1>2, <2>1, <2>3
      <3>2. Encloses(q, j, i)
        BY <2>1, <2>2 DEF Encloses
      <3>3. q[i].restore = q[j].session
        BY <1>5, <3>1, <3>2 DEF Chained
      <3>. QED
        BY <2>1, <3>1, <3>3
    <2>4. CASE i = n + 1 /\ j = n
      BY <1>1, <1>2, <1>3, <2>1, <2>4 DEF Sets
    <2>5. CASE i = n + 1 /\ j # n
      <3>1. n \in (j + 1)..(i - 1) /\ q[n].kind = "protect"
        BY <1>1, <2>1, <2>2, <2>5
      <3>2. Encloses(q, j, n)
        BY <1>1, <2>1, <2>2, <2>5, <3>1 DEF Encloses
      <3>3. q[n].restore = q[j].session
        BY <1>1, <1>5, <2>1, <3>1, <3>2 DEF Chained
      <3>. QED
        BY <1>1, <1>2, <1>3, <2>1, <2>5, <3>1, <3>3 DEF Sets
    <2>. QED
      BY <2>3, <2>4, <2>5
  <1>9. \A i \in DOMAIN p : NotEnclosed(p, i) => p[i].restore = inh
    <2>. SUFFICES ASSUME NEW i \in 1..(n + 1), NotEnclosed(p, i) PROVE p[i].restore = inh
      BY <1>2
    <2>1. \A j \in 1..(i - 1) : j \in 1..n /\ q[j].kind = "protect"
      BY <1>1, <1>2 DEF NotEnclosed
    <2>2. CASE i # n + 1
      BY <1>1, <1>2, <1>5, <2>1, <2>2 DEF Chained, NotEnclosed
    <2>3. CASE i = n + 1 /\ n = 0
      BY <1>2, <1>4, <2>3
    <2>4. CASE i = n + 1 /\ n > 0
      <3>1. n \in 1..(i - 1) /\ q[n].kind = "protect" /\ NotEnclosed(q, n)
        BY <1>1, <2>1, <2>4 DEF NotEnclosed
      <3>2. q[n].restore = inh
        BY <1>1, <1>5, <2>4, <3>1 DEF Chained
      <3>. QED
        BY <1>2, <1>3, <2>4, <3>1, <3>2 DEF Sets
    <2>. QED
      BY <1>1, <2>2, <2>3, <2>4
  <1>10. \A i \in DOMAIN p : i < Len(p) => p[i].pc # "close"
    <2>. SUFFICES ASSUME NEW i \in 1..n PROVE p[i].pc # "close"
      BY <1>1, <1>2
    <2>1. CASE i = n
      BY <1>1, <1>2, <1>3, <2>1
    <2>2. CASE i # n
      <3>1. \A k \in DOMAIN q : k < n => q[k].pc # "close"
        BY <1>5 DEF Chained
      <3>2. p[i] = q[i] /\ i \in DOMAIN q
        BY <1>1, <1>2
      <3>3. i < n
        BY <1>1, <2>2
      <3>. QED
        BY <3>1, <3>2, <3>3
    <2>. QED
      BY <2>1, <2>2
  <1>11. p # <<>> /\ Holds(p[Len(p)]) = Sets(f)
    BY <1>1, <1>2, EmptySeq DEF Holds
  <1>12. Chained(p, inh)
    BY <1>6, <1>7, <1>8, <1>9, <1>10 DEF Chained
  <1>. QED
    BY <1>11, <1>12 DEF Disciplined, p

(* What Chained says of a stack depends on nothing but the calls below the  *)
(* top and whose the top is.                                                *)
LEMMA SameChain ==
    ASSUME NEW q \in Seq(Frame), NEW p \in Seq(Frame), NEW inh, Chained(q, inh),
           Len(p) <= Len(q),
           \A i \in 1..Len(p) : SameCall(p[i], q[i]),
           \A i \in 1..Len(p) : i < Len(p) => p[i].pc = q[i].pc
    PROVE  Chained(p, inh)
  <1>1. /\ Len(p) \in Nat /\ DOMAIN p = 1..Len(p)
        /\ Len(q) \in Nat /\ DOMAIN q = 1..Len(q)
    BY LenProperties
  <1>2. \A i \in DOMAIN p : i \in DOMAIN q /\ SameCall(p[i], q[i])
    BY <1>1
  <1>3. \A i \in DOMAIN p : i > 1 => p[i].restore = Sets(p[i - 1])
    <2>. SUFFICES ASSUME NEW i \in DOMAIN p, i > 1 PROVE p[i].restore = Sets(p[i - 1])
      OBVIOUS
    <2>1. i - 1 \in DOMAIN p
      BY <1>1
    <2>2. q[i].restore = Sets(q[i - 1])
      BY <1>2 DEF Chained
    <2>. QED
      BY <1>2, <2>1, <2>2 DEF SameCall, Sets
  <1>4. \A i \in DOMAIN p : p[i].kind = "protect" => p[i].restore \in {NoCtx, p[i].session}
    BY <1>2 DEF Chained, SameCall
  <1>5. \A i, j \in DOMAIN p : Encloses(p, j, i) => p[i].restore = p[j].session
    <2>. SUFFICES ASSUME NEW i \in DOMAIN p, NEW j \in DOMAIN p, Encloses(p, j, i)
                  PROVE  p[i].restore = p[j].session
      OBVIOUS
    <2>1. \A k \in (j + 1)..(i - 1) : k \in DOMAIN p
      BY <1>1
    <2>2. Encloses(q, j, i)
      BY <1>2, <2>1 DEF Encloses, SameCall
    <2>. QED
      BY <1>2, <2>2 DEF Chained, SameCall
  <1>6. \A i \in DOMAIN p : NotEnclosed(p, i) => p[i].restore = inh
    <2>. SUFFICES ASSUME NEW i \in DOMAIN p, NotEnclosed(p, i) PROVE p[i].restore = inh
      OBVIOUS
    <2>1. \A j \in 1..(i - 1) : j \in DOMAIN p
      BY <1>1
    <2>2. NotEnclosed(q, i)
      BY <1>2, <2>1 DEF NotEnclosed, SameCall
    <2>. QED
      BY <1>2, <2>2 DEF Chained, SameCall
  <1>7. \A i \in DOMAIN p : i < Len(p) => p[i].pc # "close"
    <2>1. \A i \in DOMAIN q : i < Len(q) => q[i].pc # "close"
      BY DEF Chained
    <2>. QED
      BY <1>1, <2>1
  <1>. QED
    BY <1>3, <1>4, <1>5, <1>6, <1>7 DEF Chained

LEMMA ReplaceDisciplined ==
    ASSUME NEW q \in Seq(Frame), q # <<>>, NEW f \in Frame, NEW ctx, NEW inh,
           Disciplined(q, ctx, inh), SameCall(f, Last(q))
    PROVE  Disciplined(Append(Front(q), f), Holds(f), inh)
  <1>. DEFINE p == Append(Front(q), f)
  <1>1. /\ p \in Seq(Frame) /\ Len(p) = Len(q)
        /\ \A i \in 1..(Len(q) - 1) : p[i] = q[i]
        /\ p[Len(q)] = f
    BY ReplacedTop
  <1>2. Len(q) \in Nat \ {0} /\ Last(q) = q[Len(q)]
    BY TopOfStack
  <1>. HIDE DEF p
  <1>3. \A i \in 1..Len(p) : SameCall(p[i], q[i])
    <2>. SUFFICES ASSUME NEW i \in 1..Len(q) PROVE SameCall(p[i], q[i])
      BY <1>1
    <2>. QED
      BY <1>1, <1>2 DEF SameCall
  <1>4. \A i \in 1..Len(p) : i < Len(p) => p[i].pc = q[i].pc
    BY <1>1, <1>2
  <1>5. Chained(q, inh)
    BY DEF Disciplined
  <1>6. Len(p) <= Len(q)
    BY <1>1, <1>2
  <1>7. Chained(p, inh)
    BY <1>1, <1>3, <1>4, <1>5, <1>6, SameChain
  <1>8. p # <<>> /\ p[Len(p)] = f
    BY <1>1, <1>2, EmptySeq
  <1>. QED
    BY <1>7, <1>8 DEF Disciplined, p

LEMMA PopDisciplined ==
    ASSUME NEW q \in Seq(Frame), q # <<>>, NEW ctx, NEW inh, Disciplined(q, ctx, inh)
    PROVE  Disciplined(Front(q), Last(q).restore, inh)
  <1>. DEFINE p == Front(q)
              n == Len(q)
  <1>1. p \in Seq(Frame) /\ Len(p) = n - 1 /\ \A i \in 1..(n - 1) : p[i] = q[i]
    BY PoppedStack
  <1>2. n \in Nat \ {0} /\ Last(q) = q[n] /\ DOMAIN q = 1..n
    BY TopOfStack
  <1>3. Chained(q, inh) /\ n = Len(q)
    BY DEF Disciplined
  <1>. HIDE DEF p, n
  <1>4. Chained(p, inh)
    <2>1. Len(p) <= Len(q) /\ \A i \in 1..Len(p) : SameCall(p[i], q[i]) /\ p[i].pc = q[i].pc
      BY <1>1, <1>2, <1>3 DEF SameCall
    <2>. QED
      BY <1>1, <1>3, <2>1, SameChain
  <1>5. CASE n = 1
    <2>1. p = <<>>
      BY <1>1, <1>5, EmptySeq
    <2>2. NotEnclosed(q, 1) /\ 1 \in DOMAIN q
      BY <1>2, <1>5 DEF NotEnclosed
    <2>3. q[1].restore = inh
      BY <1>3, <2>2 DEF Chained
    <2>. QED
      BY <1>2, <1>4, <1>5, <2>1, <2>3 DEF Disciplined, p
  <1>6. CASE n > 1
    <2>1. p # <<>> /\ n - 1 \in 1..(n - 1) /\ n \in DOMAIN q /\ n - 1 \in DOMAIN q
      BY <1>1, <1>2, <1>6, EmptySeq
    <2>2. p[Len(p)] = q[n - 1]
      BY <1>1, <2>1
    <2>3. q[n].restore = Sets(q[n - 1])
      BY <1>3, <1>6, <2>1 DEF Chained
    <2>4. q[n - 1].pc # "close"
      <3>1. \A i \in DOMAIN q : i < Len(q) => q[i].pc # "close"
        BY <1>3 DEF Chained
      <3>. QED
        BY <1>2, <1>3, <2>1, <3>1
    <2>. QED
      BY <1>2, <1>4, <2>1, <2>2, <2>3, <2>4 DEF Disciplined, Holds, p
  <1>. QED
    BY <1>2, <1>5, <1>6

CallersInv ==
    \A t \in Tasks \ unrestored : Disciplined(stack[t], activeCtx[t], inherited[t])

LEMMA TaskKeepsCallers ==
    ASSUME StackTypes, CallersInv, NEW t \in Tasks, TaskStep(t)
    PROVE  CallersInv'
  <1>. DEFINE q == stack[t]
  <1>1. q \in Seq(Frame) /\ (Busy(t) <=> q # <<>>) /\ Top(t) = Last(q)
    BY DEF StackTypes, Busy, Top
  <1>2. Busy(t) /\ t \notin unrestored /\ Top(t).pc # "close" => activeCtx[t] = Sets(Top(t))
    BY <1>1, TopOfStack DEF CallersInv, Disciplined, Holds
  <1>3. Busy(t) /\ t \notin unrestored /\ Top(t).pc = "close" /\ Top(t).kind = "hook"
           => activeCtx[t] = Top(t).restore
    BY <1>1, TopOfStack DEF CallersInv, Disciplined, Holds
  <1>4. ASSUME NEW u \in Tasks \ {t}, u \notin unrestored,
               UNCHANGED <<activeCtx[u], inherited[u]>>
        PROVE  Disciplined(stack'[u], activeCtx'[u], inherited'[u])
    <2>1. stack'[u] = stack[u] /\ Disciplined(stack[u], activeCtx[u], inherited[u])
      BY <1>4, OneStack DEF CallersInv
    <2>. QED
      BY <1>4, <2>1
  <1>5. ASSUME t \notin unrestored => Disciplined(stack'[t], activeCtx'[t], inherited'[t]),
               \A u \in Tasks \ {t} : UNCHANGED <<activeCtx[u], inherited[u]>>,
               unrestored \subseteq unrestored'
        PROVE  CallersInv'
    BY <1>4, <1>5 DEF CallersInv
  <1>6. CASE Entering(t)
    <2>1. PICK f \in Frame :
              /\ Pushes(t, f)
              /\ f.restore = activeCtx[t] /\ f.pc \in {"open", "request"}
              /\ Busy(t) => Top(t).pc = "run"
              /\ f.kind = "protect" => activeCtx[t] \in {NoCtx, f.session}
              /\ activeCtx' = IF f.kind = "protect" THEN activeCtx
                              ELSE [activeCtx EXCEPT ![t] = f.session]
              /\ UNCHANGED <<inherited, unrestored>>
      BY <1>6, Entered
    <2>2. stack'[t] = Append(q, f)
      BY <2>1, StackPushed
    <2>3. /\ activeCtx'[t] = Sets(f)
          /\ \A u \in Tasks \ {t} : UNCHANGED <<activeCtx[u], inherited[u]>>
      BY <2>1 DEF Sets, StackTypes
    <2>4. ASSUME t \notin unrestored PROVE Disciplined(Append(q, f), Sets(f), inherited[t])
      <3>1. Disciplined(q, activeCtx[t], inherited[t])
        BY <2>4 DEF CallersInv
      <3>. QED
        BY <1>1, <2>1, <3>1, PushDisciplined
    <2>. QED
      BY <1>5, <2>1, <2>2, <2>3, <2>4
  <1>7. ASSUME NEW f \in Frame, Busy(t), Becomes(t, f), SameCall(f, Top(t)),
               t \notin unrestored => activeCtx'[t] = Holds(f)
        PROVE  t \notin unrestored => Disciplined(stack'[t], activeCtx'[t], inherited[t])
    <2>. SUFFICES ASSUME t \notin unrestored
                  PROVE  Disciplined(stack'[t], Holds(f), inherited[t])
      BY <1>7
    <2>1. stack'[t] = Append(Front(q), f)
      BY <1>7, StackReplaced
    <2>2. Disciplined(q, activeCtx[t], inherited[t])
      BY DEF CallersInv
    <2>. QED
      BY <1>1, <1>7, <2>1, <2>2, ReplaceDisciplined
  <1>8. ASSUME Busy(t), Pops(t), t \notin unrestored => activeCtx'[t] = Top(t).restore
        PROVE  t \notin unrestored => Disciplined(stack'[t], activeCtx'[t], inherited[t])
    <2>. SUFFICES ASSUME t \notin unrestored
                  PROVE  Disciplined(stack'[t], Top(t).restore, inherited[t])
      BY <1>8
    <2>1. stack'[t] = Front(q)
      BY <1>8, StackPopped
    <2>2. Disciplined(q, activeCtx[t], inherited[t])
      BY DEF CallersInv
    <2>. QED
      BY <1>1, <1>8, <2>1, <2>2, PopDisciplined
  <1>9. CASE Opened(t) \/ Admit(t) \/ Returned(t)
    <2>1. /\ Busy(t) /\ Top(t).pc # "close"
          /\ UNCHANGED <<activeCtx, inherited, unrestored>>
      BY <1>9, WentOn
    <2>2. PICK f \in Frame : Becomes(t, f) /\ SameCall(f, Top(t)) /\ f.pc # "close"
      BY <1>9, WentOn
    <2>3. t \notin unrestored => activeCtx'[t] = Holds(f)
      BY <1>2, <2>1, <2>2 DEF SameCall, Sets, Holds
    <2>4. t \notin unrestored => Disciplined(stack'[t], activeCtx'[t], inherited[t])
      BY <1>7, <2>1, <2>2, <2>3
    <2>. QED
      BY <1>5, <2>1, <2>4
  <1>10. CASE Responded(t) \/ Fail(t)
    <2>1. /\ Busy(t) /\ Top(t).pc # "close" /\ UNCHANGED <<inherited, unrestored>>
          /\ activeCtx' = IF Top(t).kind = "protect" \/ (Top(t).closes /\ Top(t).kind # "hook")
                          THEN activeCtx
                          ELSE [activeCtx EXCEPT ![t] = Top(t).restore]
      BY <1>10, Left
    <2>2. \A u \in Tasks \ {t} : UNCHANGED <<activeCtx[u], inherited[u]>>
      BY <2>1 DEF StackTypes
    <2>3. activeCtx'[t] = IF Top(t).kind = "protect" \/ (Top(t).closes /\ Top(t).kind # "hook")
                          THEN activeCtx[t] ELSE Top(t).restore
      BY <2>1 DEF StackTypes
    <2>4. CASE ~Top(t).closes /\ Pops(t)
      <3>1. t \notin unrestored => activeCtx'[t] = Top(t).restore
        BY <1>2, <2>1, <2>3, <2>4 DEF Sets
      <3>. QED
        BY <1>5, <1>8, <2>1, <2>2, <2>4, <3>1
    <2>5. ASSUME NEW f \in Frame, Top(t).closes, Becomes(t, f), SameCall(f, Top(t)),
                 f.pc = "close"
          PROVE  CallersInv'
      <3>1. t \notin unrestored => activeCtx'[t] = Holds(f)
        BY <1>2, <2>1, <2>3, <2>5 DEF SameCall, Sets, Holds
      <3>2. t \notin unrestored => Disciplined(stack'[t], activeCtx'[t], inherited[t])
        BY <1>7, <2>1, <2>5, <3>1
      <3>. QED
        BY <1>5, <2>1, <2>2, <3>2
    <2>. QED
      BY <1>10, <2>4, <2>5, Left
  <1>11. CASE Closing(t)
    <2>1. Busy(t) /\ Top(t).pc = "close" /\ Pops(t) /\ inherited' = inherited
      BY <1>11, ClosedDown
    <2>2. ASSUME unrestored' = unrestored,
                 activeCtx' = IF Top(t).kind = "hook" THEN activeCtx
                              ELSE [activeCtx EXCEPT ![t] = Top(t).restore]
          PROVE  CallersInv'
      <3>1. /\ t \notin unrestored => activeCtx'[t] = Top(t).restore
            /\ \A u \in Tasks \ {t} : UNCHANGED <<activeCtx[u], inherited[u]>>
        BY <1>3, <2>1, <2>2 DEF StackTypes
      <3>. QED
        BY <1>5, <1>8, <2>1, <2>2, <3>1
    <2>3. ASSUME unrestored' = unrestored \cup {t}, activeCtx' = activeCtx
          PROVE  CallersInv'
      BY <1>4, <2>1, <2>3 DEF CallersInv
    <2>. QED
      BY <1>11, <2>2, <2>3, ClosedDown
  <1>12. ASSUME NEW u \in Tasks, ~Busy(u), activeCtx'[u] = inherited'[u], stack' = stack,
                \A v \in Tasks \ {u} : UNCHANGED <<activeCtx[v], inherited[v]>>,
                unrestored \ {u} \subseteq unrestored'
         PROVE  CallersInv'
    <2>1. Disciplined(stack'[u], activeCtx'[u], inherited'[u])
      <3>1. stack'[u] = <<>> /\ Len(<<>>) = 0 /\ DOMAIN <<>> = {}
        BY <1>12 DEF Busy
      <3>. QED
        BY <1>12, <3>1 DEF Disciplined, Chained
    <2>2. ASSUME NEW v \in Tasks \ {u}, v \notin unrestored'
          PROVE  Disciplined(stack'[v], activeCtx'[v], inherited'[v])
      <3>1. Disciplined(stack[v], activeCtx[v], inherited[v])
        BY <1>12, <2>2 DEF CallersInv
      <3>. QED
        BY <1>12, <2>2, <3>1
    <2>. QED
      BY <2>1, <2>2 DEF CallersInv
  <1>13. CASE TaskEnds(t)
    <2>1. /\ ~Busy(t) /\ activeCtx'[t] = inherited'[t] /\ stack' = stack
          /\ \A v \in Tasks \ {t} : UNCHANGED <<activeCtx[v], inherited[v]>>
          /\ unrestored \ {t} \subseteq unrestored'
      BY <1>13 DEF TaskEnds, StackTypes
    <2>. QED
      BY <1>12, <2>1
  <1>14. ASSUME NEW u \in Tasks, Spawn(t, u) PROVE CallersInv'
    <2>1. /\ ~Busy(u) /\ activeCtx'[u] = inherited'[u] /\ stack' = stack
          /\ \A v \in Tasks \ {u} : UNCHANGED <<activeCtx[v], inherited[v]>>
          /\ unrestored \ {u} \subseteq unrestored'
      BY <1>14 DEF Spawn, StackTypes
    <2>. QED
      BY <1>12, <2>1
  <1>. QED
    BY <1>6, <1>9, <1>10, <1>11, <1>13, <1>14 DEF TaskStep

(* _active_ctx.set and reset in _handle_http and hook, and the read of it in*)
(* @guard.protect: however calls nest, spawn and fail, a wrapper runs as    *)
(* the call around it.                                                      *)
THEOREM RunsAsCaller == Spec => []RunsAsItsCaller
  <1>1. Init => CallersInv
    <2>. SUFFICES ASSUME Init, NEW t \in Tasks
                  PROVE  Disciplined(stack[t], activeCtx[t], inherited[t])
      BY DEF CallersInv
    <2>1. stack[t] = <<>> /\ activeCtx[t] = inherited[t] /\ Len(<<>>) = 0 /\ DOMAIN <<>> = {}
      BY DEF Init, CallInit
    <2>. QED
      BY <2>1 DEF Disciplined, Chained
  <1>2. StackTypes /\ CallersInv /\ [Next]_vars => CallersInv'
    <2>1. UNCHANGED callVars /\ CallersInv => CallersInv'
      BY DEF callVars, CallersInv
    <2>. QED
      BY <2>1, StepsOfServer, TaskKeepsCallers DEF Life, vars
  <1>3. StackTypes /\ CallersInv => RunsAsItsCaller
    <2>. SUFFICES ASSUME StackTypes, CallersInv, NEW t \in Tasks \ unrestored
                  PROVE  LET q == stack[t]
                         IN  /\ Busy(t) \/ activeCtx[t] = inherited[t]
                             /\ \A i \in DOMAIN q : q[i].kind = "protect" =>
                                   /\ \A j \in DOMAIN q : Encloses(q, j, i) => q[i].session = q[j].session
                                   /\ NotEnclosed(q, i) => inherited[t] \in {NoCtx, q[i].session}
      BY DEF RunsAsItsCaller
    <2>. DEFINE q == stack[t]
    <2>1. Disciplined(q, activeCtx[t], inherited[t]) /\ q \in Seq(Frame)
      BY DEF CallersInv, StackTypes
    <2>2. \A i \in DOMAIN q : q[i].session \in Sessions
      <3>1. \A i \in DOMAIN q : q[i] \in Frame
        BY <2>1, ElementOfSeq, LenProperties
      <3>. QED
        BY <3>1 DEF Frame
    <2>3. Busy(t) \/ activeCtx[t] = inherited[t]
      BY <2>1 DEF Disciplined, Busy
    <2>4. ASSUME NEW i \in DOMAIN q, q[i].kind = "protect"
          PROVE  /\ \A j \in DOMAIN q : Encloses(q, j, i) => q[i].session = q[j].session
                 /\ NotEnclosed(q, i) => inherited[t] \in {NoCtx, q[i].session}
      <3>1. q[i].restore \in {NoCtx, q[i].session}
        BY <2>1, <2>4 DEF Disciplined, Chained
      <3>2. \A j \in DOMAIN q : Encloses(q, j, i) => q[i].restore = q[j].session
        BY <2>1 DEF Disciplined, Chained
      <3>3. NotEnclosed(q, i) => q[i].restore = inherited[t]
        BY <2>1 DEF Disciplined, Chained
      <3>. QED
        BY <2>2, <3>1, <3>2, <3>3, NoCtxAssumption
    <2>. QED
      BY <2>3, <2>4
  <1>. QED
    BY <1>1, <1>2, <1>3, TypesHold, PTL DEF Spec
-----------------------------------------------------------------------------
(* An object that passes the checks has at most one member of a name that a *)
(* reader could take for it, so that the first such member is the last.     *)

LEMMA OneHitOneReading ==
    ASSUME NEW ms, NEW name, NEW fold,
           \A i, j \in Hits(ms, name, fold) : i = j,
           Hits(ms, name, fold) \subseteq Int
    PROVE  FirstRead(ms, name, fold) = LastRead(ms, name, fold)
  <1>. DEFINE hits == Hits(ms, name, fold)
  <1>1. CASE hits = {}
    BY <1>1 DEF FirstRead, LastRead
  <1>2. CASE hits # {}
    <2>1. PICK h \in hits : TRUE
      BY <1>2
    <2>2. hits = {h} /\ h \in Int
      BY <2>1
    <2>. HIDE DEF hits
    <2>3. Min(hits) = h /\ Max(hits) = h
      BY <2>2 DEF Min, Max
    <2>. QED
      BY <1>2, <2>3 DEF FirstRead, LastRead, hits
  <1>. QED
    BY <1>1, <1>2

(* _strict_json_loads and the envelope checks: whatever the members of an   *)
(* object, and however many, those that pass mean one thing to every reader.*)
THEOREM StrictMeansOne ==
    ASSUME NEW doc, doc.members \in Seq(Member), NEW side, Strict(doc, side)
    PROVE  MeansOne(doc, side)
  <1>. DEFINE ms == doc.members
  <1>1. DOMAIN ms \subseteq Int /\ \A i \in DOMAIN ms : ms[i] \in Member
    BY LenProperties, ElementOfSeq
  <1>2. /\ DOMAIN ms \subseteq Int
        /\ \A i \in DOMAIN ms : ms[i].spelling \in {"exact", "variant"}
    BY <1>1 DEF Member
  <1>. HIDE DEF ms
  <1>3. ASSUME NEW name \in {"field", "free"}
        PROVE  FirstRead(ms, name, FALSE) = LastRead(ms, name, FALSE)
    <2>1. \A i, j \in Hits(ms, name, FALSE) : i = j
      BY DEF Hits, Strict, Duplicates, Same, ms
    <2>. QED
      BY <1>2, <2>1, OneHitOneReading DEF Hits
  <1>4. ASSUME NEW name \in {"field", "free"}, doc.level \in FoldChecked[side]
        PROVE  FirstRead(ms, name, TRUE) = LastRead(ms, name, TRUE)
    <2>1. \A i, j \in Hits(ms, name, TRUE) : i = j
      BY <1>4 DEF Hits, Strict, Collides, ms
    <2>. QED
      BY <1>2, <2>1, OneHitOneReading DEF Hits
  <1>5. ASSUME doc.level \in FieldChecked[side]
        PROVE  FirstRead(ms, "field", TRUE) = LastRead(ms, "field", FALSE)
    <2>1. \A i \in DOMAIN ms : ms[i].name = "field" => ms[i].spelling = "exact"
      BY <1>2, <1>5 DEF Strict, Variant, ms
    <2>2. Hits(ms, "field", TRUE) = Hits(ms, "field", FALSE)
      BY <2>1 DEF Hits
    <2>. QED
      BY <1>3, <2>2 DEF FirstRead
  <1>. QED
    BY <1>3, <1>4, <1>5 DEF MeansOne, Strict, ms
-----------------------------------------------------------------------------
(* Nothing is sent before the exchange is over, and the start that is held  *)
(* back carries armor's session id, if any, for initialize alone.           *)
Over ==
    /\ out = <<>> => Breaks
    /\ out # <<>> => Len(out) \in 1..2 /\ out[Len(out)].type = "body"
    /\ Breaks => \A i \in DOMAIN out : ~Shows(i)
Parts ==
    /\ IF xpc = "done" THEN Over ELSE out = <<>>
    /\ Len(out) = 1 => ~start.present
    /\ Len(out) = 2 =>
          /\ out[1].type = "start"
          /\ out[1].session = "armor's" => Method = "initialize"
          /\ out[1].session # "app's"
          /\ out[1].length = "wrong" => start.length = "wrong" /\ out[2].shows = "answer"
HeldBack ==
    /\ xpc \in {"waiting", "buffer", "guard"} => start = NoStart
    /\ start.session \in {"none", "armor's"}
    /\ start.session = "armor's" => Method = "initialize"
AnswerInv == in # NoExchange => Parts /\ HeldBack

LEMMA ErrorsShowNothing ==
    ASSUME out = <<>>, SendError
    PROVE  \A i \in DOMAIN out' : ~Shows(i)'
  <1>. DEFINE first == [type |-> "start", session |-> "none", length |-> "right"]
              second == [type |-> "body", shows |-> "error", tools |-> <<>>]
  <1>1. out' = <<first, second>>
    BY DEF SendError
  <1>2. DOMAIN out' = {1, 2} /\ out'[1].type = "start" /\ out'[2].shows = "error"
    BY <1>1
  <1>. QED
    BY <1>2 DEF Shows

LEMMA ErrorAnswers ==
    ASSUME out = <<>>, SendError, xpc' = "done", HeldBack, UNCHANGED <<in, accumulated, start>>
    PROVE  Parts' /\ HeldBack'
  <1>1. out' = <<[type |-> "start", session |-> "none", length |-> "right"],
                 [type |-> "body", shows |-> "error", tools |-> <<>>]>>
    BY DEF SendError
  <1>2. Len(out') = 2 /\ out'[1].type = "start" /\ out'[1].session = "none"
        /\ out'[1].length = "right" /\ out'[2].type = "body"
    BY <1>1
  <1>3. Method' = Method
    BY DEF Method, RawBody
  <1>4. Over'
    BY <1>1, <1>2, ErrorsShowNothing DEF Over
  <1>. QED
    BY <1>2, <1>3, <1>4 DEF Parts, HeldBack

LEMMA TwoMessages ==
    ASSUME NEW a, NEW b
    PROVE  Len(<<a>> \o <<b>>) = 2 /\ (<<a>> \o <<b>>)[1] = a /\ (<<a>> \o <<b>>)[2] = b
  <1>1. <<a>> \in Seq({a, b}) /\ <<b>> \in Seq({a, b})
    OBVIOUS
  <1>. QED
    BY <1>1, ConcatProperties

LEMMA AnswerEnds ==
    ASSUME out = <<>>, Answer, HeldBack
    PROVE  Parts' /\ HeldBack'
  <1>1. /\ out' = Answered /\ xpc' = "done" /\ ~Breaks
        /\ UNCHANGED <<in, accumulated, start, reply, size>>
    <2>1. <<>> \o Answered = Answered
      BY DEF Answered
    <2>. QED
      BY <2>1 DEF Answer
  <1>2. Method' = Method /\ ~Breaks'
    BY <1>1 DEF Method, RawBody, Breaks, Lists, RawAnswer
  <1>. DEFINE body == [type |-> "body", shows |-> IF Shrinks THEN "filtered" ELSE "answer",
                       tools |-> IF Lists THEN Filtered(reply.body.tools) ELSE <<>>]
              head == [type |-> "start", session |-> start.session, length |-> Length(start.length)]
  <1>3. body.type = "body" /\ (~Shrinks => body.shows = "answer")
    OBVIOUS
  <1>4. /\ head.type = "start" /\ head.session = start.session
        /\ head.length = "wrong" => start.length = "wrong" /\ ~Shrinks
    BY DEF Length
  <1>5. Answered = (IF start.present THEN <<head>> ELSE <<>>) \o <<body>>
    BY Zenon DEF Answered
  <1>. HIDE DEF body, head
  <1>6. CASE start.present
    <2>1. out' = <<head>> \o <<body>>
      BY <1>1, <1>5, <1>6, Zenon
    <2>2. Len(<<head>> \o <<body>>) = 2 /\ (<<head>> \o <<body>>)[1] = head
          /\ (<<head>> \o <<body>>)[2] = body
      BY TwoMessages
    <2>3. Len(out') = 2 /\ out'[1] = head /\ out'[2] = body
      BY <2>1, <2>2, Zenon
    <2>4. Over'
      BY <1>2, <1>3, <2>3 DEF Over
    <2>. QED
      BY <1>1, <1>2, <1>3, <1>4, <2>3, <2>4 DEF Parts, HeldBack
  <1>7. CASE ~start.present
    <2>1. out' = <<body>>
      BY <1>1, <1>5, <1>7
    <2>2. Len(out') = 1 /\ out'[1] = body
      BY <2>1
    <2>3. Over'
      BY <1>2, <1>3, <2>2 DEF Over
    <2>. QED
      BY <1>1, <1>2, <1>3, <1>7, <2>2, <2>3 DEF Parts, HeldBack
  <1>. QED
    BY <1>6, <1>7

LEMMA AnswerKept ==
    ASSUME AnswerInv, [Next]_vars
    PROVE  AnswerInv'
  <1>1. CASE UNCHANGED exchangeVars
    BY <1>1 DEF AnswerInv, Parts, Over, HeldBack, Method, RawBody, Breaks, Lists, RawAnswer, Shows,
       exchangeVars
  <1>2. ASSUME Exchange, in # NoExchange, Parts, HeldBack PROVE Parts' /\ HeldBack'
    <2>1. ASSUME Refuse, xpc # "done" PROVE Parts' /\ HeldBack'
      BY <1>2, <2>1, ErrorAnswers DEF Refuse, Parts
    <2>2. ASSUME Screen \/ Receive \/ Resolve PROVE Parts' /\ HeldBack'
      <3>1. /\ xpc \in {"waiting", "buffer"} /\ xpc' \in {"buffer", "guard"}
            /\ UNCHANGED <<start, out>>
        BY <2>2 DEF Screen, Receive, Resolve, Complete
      <3>2. start = NoStart /\ out = <<>>
        BY <1>2, <3>1 DEF Parts, HeldBack
      <3>. QED
        BY <3>1, <3>2 DEF Parts, HeldBack, NoStart
    <2>3. ASSUME \/ Forward(deployment = "sidecar") \/ AppSendsBody \/ Collect
          PROVE  Parts' /\ HeldBack'
      <3>1. /\ xpc \in {"guard", "app"} /\ xpc' \in {"app", "respond"}
            /\ UNCHANGED <<in, accumulated, start, out>>
        BY <2>3 DEF Forward, AppSendsBody, Collect, AppDone
      <3>2. Method' = Method
        BY <3>1 DEF Method, RawBody
      <3>. QED
        BY <1>2, <3>1, <3>2 DEF Parts, HeldBack
    <2>4. ASSUME AppSendsStart PROVE Parts' /\ HeldBack'
      <3>1. /\ xpc = "app" /\ xpc' = "app" /\ UNCHANGED <<in, accumulated, out>>
            /\ start'.session = Stamp(Head(pending))
        BY <2>4 DEF AppSendsStart
      <3>2. Method' = Method
        BY <3>1 DEF Method, RawBody
      <3>. QED
        BY <1>2, <3>1, <3>2 DEF Parts, HeldBack, Stamp
    <2>5. ASSUME Answer PROVE Parts' /\ HeldBack'
      BY <1>2, <2>5, AnswerEnds DEF Answer, Parts
    <2>6. CASE Opening \/ Leaving
      <3>1. UNCHANGED exchangeVars /\ in' = in
        BY <2>6 DEF Opening, Leaving, exchangeVars
      <3>. QED
        BY <1>1, <1>2, <3>1 DEF AnswerInv
    <2>7. ASSUME BreakOff PROVE Parts' /\ HeldBack'
      <3>1. /\ Breaks /\ xpc' = "done" /\ out = <<>> /\ out' = <<>>
            /\ UNCHANGED <<in, accumulated, reply, size, start>>
        BY <1>2, <2>7 DEF BreakOff, Parts
      <3>2. Method' = Method /\ Breaks' = Breaks
        BY <3>1 DEF Method, RawBody, Breaks, Lists, RawAnswer
      <3>3. Over'
        BY <3>1, <3>2 DEF Over
      <3>. QED
        BY <1>2, <3>1, <3>2, <3>3 DEF Parts, HeldBack
    <2>. QED
      BY <1>2, <2>1, <2>2, <2>3, <2>4, <2>5, <2>6, <2>7 DEF Exchange, Reading, Resolving,
         Forwarding, Refusing, Buffering, Collecting, NotCollecting, Answering, Breaking,
         ScreenedOut, ReceiveTooMuch, Unreadable, Uncollectable, AppDone, Complete
  <1>3. Exchange => in' = in
    BY DEF Exchange, Reading, Screen, ScreenedOut, Receive, ReceiveTooMuch, Unreadable, Resolving,
       Resolve, Opening, Forwarding, Forward, Refusing, Refuse, Buffering, AppSendsStart,
       AppSendsBody, Collecting, Collect, NotCollecting, Uncollectable, Answering, Answer,
       Breaking, BreakOff, Leaving, exchangeVars
  <1>. QED
    BY <1>1, <1>2, <1>3 DEF Next, Life, Calls, Exchange, vars, AnswerInv

(* buffering_send and what _handle_http sends: an exchange that is over has *)
(* had one whole answer, or is of a tool list that cannot be filtered and   *)
(* shows nothing of it; and session ids come from armor, for initialize.    *)
THEOREM AnswersWellFormed == Spec => []WellFormedAnswer
  <1>1. Init => AnswerInv
    <2>. SUFFICES ASSUME Init PROVE Parts /\ HeldBack
      BY DEF AnswerInv
    <2>. QED
      BY DEF Init, ExchangeInit, Parts, HeldBack, NoStart
  <1>2. AnswerInv => WellFormedAnswer
    BY DEF AnswerInv, Parts, Over, WellFormedAnswer, OverAnswered, Last
  <1>. QED
    BY <1>1, <1>2, AnswerKept, PTL DEF Spec
-----------------------------------------------------------------------------
LEMMA Least ==
    ASSUME NEW T \in SUBSET Nat, T # {}
    PROVE  \E m \in T : \A n \in T : m <= n
  <1>. DEFINE R == OpToRel(<, Nat)
  <1>1. IsWellFoundedOn(R, Nat)
    BY NatLessThanWellFounded
  <1>2. \A m, n \in Nat : <<n, m>> \in R <=> n < m
    BY DEF R, OpToRel
  <1>. HIDE DEF R
  <1>3. PICK m \in T : \A n \in T : <<n, m>> \notin R
    BY <1>1, WFMin
  <1>4. ASSUME NEW n \in T PROVE m <= n
    <2>1. m \in Nat /\ n \in Nat
      OBVIOUS
    <2>2. ~ (n < m)
      BY <2>1, <1>2, <1>3
    <2>. QED
      BY <2>1, <2>2
  <1>. QED
    BY <1>4

(* So what holds of 0, and of n + 1 when it holds of n, holds of all.       *)
LEMMA Inductive ==
    ASSUME NEW S \in SUBSET Nat, 0 \in S, \A n \in S : n + 1 \in S
    PROVE  S = Nat
  <1>. SUFFICES ASSUME Nat \ S # {} PROVE FALSE
    OBVIOUS
  <1>1. PICK m \in Nat \ S : \A n \in Nat \ S : m <= n
    BY Least
  <1>2. m # 0 /\ m - 1 \in Nat /\ m - 1 < m
    OBVIOUS
  <1>3. m - 1 \in S
    BY <1>1, <1>2
  <1>4. (m - 1) + 1 = m
    OBVIOUS
  <1>. QED
    BY <1>3, <1>4

(* What a loop has kept after each of the first n elements of s.            *)
Runs(at, s, step, X, n) ==
    /\ at \in [0..n -> Seq(X)] /\ at[0] = <<>>
    /\ \A i \in 1..n : at[i] = step[<<at[i - 1], s[i]>>]

LEMMA LoopExists ==
    ASSUME NEW X, NEW s \in Seq(X), NEW step \in [Seq(X) \X X -> Seq(X)]
    PROVE  \E at : Runs(at, s, step, X, Len(s))
  <1>. DEFINE S == {n \in Nat : n <= Len(s) => \E at : Runs(at, s, step, X, n)}
  <1>0. Len(s) \in Nat /\ \A i \in 1..Len(s) : s[i] \in X
    BY LenProperties, ElementOfSeq
  <1>1. 0 \in S
    <2>. DEFINE at == [i \in 0..0 |-> <<>>]
    <2>1. at \in [0..0 -> Seq(X)] /\ at[0] = <<>>
      OBVIOUS
    <2>2. \A i \in 1..0 : at[i] = step[<<at[i - 1], s[i]>>]
      OBVIOUS
    <2>3. Runs(at, s, step, X, 0)
      BY <2>1, <2>2 DEF Runs
    <2>. HIDE DEF at
    <2>. QED
      BY <2>3
  <1>2. ASSUME NEW n \in S PROVE n + 1 \in S
    <2>1. n \in Nat /\ n + 1 \in Nat
      OBVIOUS
    <2>. SUFFICES ASSUME n + 1 <= Len(s) PROVE \E at : Runs(at, s, step, X, n + 1)
      BY <2>1
    <2>0. n <= Len(s)
      BY <1>0, <2>1
    <2>2. PICK at : Runs(at, s, step, X, n)
      BY <2>0
    <2>. DEFINE new == step[<<at[n], s[n + 1]>>]
                next == [i \in 0..(n + 1) |-> IF i = n + 1 THEN new ELSE at[i]]
    <2>3. new \in Seq(X)
      <3>1. at[n] \in Seq(X) /\ s[n + 1] \in X
        BY <1>0, <2>1, <2>2 DEF Runs
      <3>. QED
        BY <3>1
    <2>4. next \in [0..(n + 1) -> Seq(X)] /\ next[0] = <<>>
      <3>1. \A i \in 0..n : at[i] \in Seq(X)
        BY <2>2 DEF Runs
      <3>2. \A i \in 0..(n + 1) : i = n + 1 \/ i \in 0..n
        BY <2>1
      <3>3. 0 \in 0..(n + 1) /\ 0 # n + 1
        BY <2>1
      <3>. HIDE DEF new
      <3>4. \A i \in 0..(n + 1) : next[i] \in Seq(X)
        BY <2>3, <3>1, <3>2
      <3>5. next[0] = <<>>
        BY <2>2, <3>3 DEF Runs
      <3>. QED
        BY <3>4, <3>5
    <2>5. ASSUME NEW i \in 1..(n + 1) PROVE next[i] = step[<<next[i - 1], s[i]>>]
      <3>1. CASE i = n + 1
        <4>1. i - 1 = n /\ n # n + 1 /\ n \in 0..(n + 1)
          BY <2>1, <3>1
        <4>2. next[i] = new /\ next[i - 1] = at[n]
          <5>. HIDE DEF new
          <5>. QED
            BY <3>1, <4>1
        <4>. HIDE DEF next
        <4>. QED
          BY <3>1, <4>2
      <3>2. CASE i # n + 1
        <4>1. i \in 1..n /\ i - 1 \in 0..(n + 1) /\ i - 1 # n + 1
          BY <2>1, <3>2
        <4>2. next[i] = at[i] /\ next[i - 1] = at[i - 1]
          <5>. HIDE DEF new
          <5>. QED
            BY <3>2, <4>1
        <4>. HIDE DEF next
        <4>. QED
          BY <2>2, <4>1, <4>2 DEF Runs
      <3>. QED
        BY <3>1, <3>2
    <2>. HIDE DEF next
    <2>6. Runs(next, s, step, X, n + 1)
      BY <2>4, <2>5 DEF Runs
    <2>. QED
      BY <2>6
  <1>. HIDE DEF S
  <1>3. S = Nat
    <2>1. S \subseteq Nat
      BY DEF S
    <2>. QED
      BY <1>1, <1>2, <2>1, Inductive
  <1>4. Len(s) \in S /\ Len(s) <= Len(s)
    BY <1>0, <1>3
  <1>. QED
    BY <1>4 DEF S

(* The loop of the filter.                                                  *)
ShownLoop(at, tools) ==
    at = [i \in 0..Len(tools) |->
            IF i = 0 THEN <<>>
            ELSE IF Shown(tools[i]) THEN Append(at[i - 1], tools[i]) ELSE at[i - 1]]

LEMMA FilterLoops ==
    ASSUME NEW X, NEW tools \in Seq(X)
    PROVE  \E at : ShownLoop(at, tools) /\ Filtered(tools) = at[Len(tools)]
  <1>. DEFINE step == [p \in Seq(X) \X X |->
                         IF Shown(p[2]) THEN Append(p[1], p[2]) ELSE p[1]]
  <1>1. step \in [Seq(X) \X X -> Seq(X)]
    BY AppendProperties
  <1>2. Len(tools) \in Nat /\ \A i \in 1..Len(tools) : tools[i] \in X
    BY LenProperties, ElementOfSeq
  <1>3. \A q \in Seq(X), x \in X :
           step[<<q, x>>] = IF Shown(x) THEN Append(q, x) ELSE q
    OBVIOUS
  <1>. HIDE DEF step
  <1>4. PICK at : Runs(at, tools, step, X, Len(tools))
    BY <1>1, LoopExists
  <1>. DEFINE same == [i \in 0..Len(tools) |->
                         IF i = 0 THEN <<>>
                         ELSE IF Shown(tools[i]) THEN Append(at[i - 1], tools[i]) ELSE at[i - 1]]
  <1>5. \A i \in 0..Len(tools) : at[i] = same[i]
    <2>. SUFFICES ASSUME NEW i \in 0..Len(tools), i # 0 PROVE at[i] = same[i]
      BY <1>4 DEF Runs
    <2>1. i \in 1..Len(tools) /\ i - 1 \in 0..Len(tools)
      BY <1>2
    <2>2. at[i] = step[<<at[i - 1], tools[i]>>] /\ at[i - 1] \in Seq(X) /\ tools[i] \in X
      BY <1>2, <1>4, <2>1 DEF Runs
    <2>. QED
      BY <1>3, <2>2
  <1>6. at = same
    BY <1>4, <1>5 DEF Runs
  <1>7. \E kept : ShownLoop(kept, tools)
    BY <1>6 DEF ShownLoop
  <1>. HIDE DEF same
  <1>. QED
    BY <1>7 DEF ShownLoop, Filtered, Loop

(* The loop over the headers.                                               *)
MayFollow(kept, h) == MayPass(h) /\ NotYetIn(kept, h)
HeaderLoop(at, headers) ==
    at = [i \in 0..Len(headers) |->
            IF i = 0 THEN <<>>
            ELSE IF MayFollow(at[i - 1], headers[i]) THEN Append(at[i - 1], headers[i])
            ELSE at[i - 1]]

LEMMA ForwardLoops ==
    ASSUME NEW X, NEW headers \in Seq(X)
    PROVE  \E at : HeaderLoop(at, headers) /\ Forwarded(headers) = at[Len(headers)] \o ByArmor
  <1>. DEFINE step == [p \in Seq(X) \X X |->
                         IF MayFollow(p[1], p[2]) THEN Append(p[1], p[2]) ELSE p[1]]
  <1>1. step \in [Seq(X) \X X -> Seq(X)]
    BY AppendProperties
  <1>2. Len(headers) \in Nat /\ \A i \in 1..Len(headers) : headers[i] \in X
    BY LenProperties, ElementOfSeq
  <1>3. \A q \in Seq(X), x \in X :
           step[<<q, x>>] = IF MayFollow(q, x) THEN Append(q, x) ELSE q
    OBVIOUS
  <1>. HIDE DEF step
  <1>4. PICK at : Runs(at, headers, step, X, Len(headers))
    BY <1>1, LoopExists
  <1>. DEFINE same == [i \in 0..Len(headers) |->
                         IF i = 0 THEN <<>>
                         ELSE IF MayFollow(at[i - 1], headers[i])
                              THEN Append(at[i - 1], headers[i]) ELSE at[i - 1]]
  <1>5. \A i \in 0..Len(headers) : at[i] = same[i]
    <2>. SUFFICES ASSUME NEW i \in 0..Len(headers), i # 0 PROVE at[i] = same[i]
      BY <1>4 DEF Runs
    <2>1. i \in 1..Len(headers) /\ i - 1 \in 0..Len(headers)
      BY <1>2
    <2>2. /\ at[i] = step[<<at[i - 1], headers[i]>>]
          /\ at[i - 1] \in Seq(X) /\ headers[i] \in X
      BY <1>2, <1>4, <2>1 DEF Runs
    <2>. QED
      BY <1>3, <2>2
  <1>6. at = same
    BY <1>4, <1>5 DEF Runs
  <1>7. \E kept : HeaderLoop(kept, headers)
    BY <1>6 DEF HeaderLoop
  <1>. HIDE DEF same
  <1>. QED
    BY <1>7 DEF HeaderLoop, MayFollow, Forwarded, Loop

(* What holds of nothing, and of a kept sequence whatever the loop appends  *)
(* to it, holds of the result.                                              *)
LEMMA FilteredTools ==
    ASSUME NEW X, NEW tools \in Seq(X)
    PROVE  /\ Filtered(tools) \in Seq(X)
           /\ \A j \in DOMAIN Filtered(tools) :
                 Shown(Filtered(tools)[j]) /\ \E k \in DOMAIN tools : Filtered(tools)[j] = tools[k]
  <1>1. PICK at : ShownLoop(at, tools) /\ Filtered(tools) = at[Len(tools)]
    BY FilterLoops
  <1>2. Len(tools) \in Nat /\ DOMAIN tools = 1..Len(tools)
        /\ \A i \in 1..Len(tools) : tools[i] \in X
    BY LenProperties, ElementOfSeq
  <1>. DEFINE Good(kept) ==
                 /\ kept \in Seq(X)
                 /\ \A j \in 1..Len(kept) :
                       Shown(kept[j]) /\ \E k \in DOMAIN tools : kept[j] = tools[k]
              S == {n \in Nat : n <= Len(tools) => Good(at[n])}
  <1>3. 0 \in S
    <2>1. at[0] = <<>>
      BY <1>1, <1>2 DEF ShownLoop
    <2>2. Good(<<>>)
      OBVIOUS
    <2>. HIDE DEF Good
    <2>. QED
      BY <2>1, <2>2
  <1>4. ASSUME NEW n \in S PROVE n + 1 \in S
    <2>1. n \in Nat /\ n + 1 \in Nat
      OBVIOUS
    <2>. SUFFICES ASSUME n + 1 <= Len(tools) PROVE Good(at[n + 1])
      BY <2>1
    <2>2. Good(at[n])
      <3>. HIDE DEF Good
      <3>. QED
        BY <1>2, <2>1
    <2>. DEFINE t == tools[n + 1]
    <2>3. at[n + 1] = IF Shown(t) THEN Append(at[n], t) ELSE at[n]
      <3>1. n + 1 \in 0..Len(tools) /\ n + 1 # 0 /\ (n + 1) - 1 = n
        BY <1>2, <2>1
      <3>. QED
        BY <1>1, <3>1 DEF ShownLoop
    <2>4. t \in X /\ n + 1 \in DOMAIN tools
      BY <1>2, <2>1
    <2>5. ASSUME NEW kept, Good(kept), Shown(t) PROVE Good(Append(kept, t))
      <3>1. /\ Append(kept, t) \in Seq(X) /\ Len(kept) \in Nat
            /\ Len(Append(kept, t)) = Len(kept) + 1
            /\ Append(kept, t)[Len(kept) + 1] = t
            /\ \A j \in 1..Len(kept) : Append(kept, t)[j] = kept[j]
        BY <2>4, <2>5, AppendProperties, LenProperties
      <3>2. \A j \in 1..(Len(kept) + 1) : j = Len(kept) + 1 \/ j \in 1..Len(kept)
        BY <3>1
      <3>. HIDE DEF t
      <3>. QED
        BY <2>4, <2>5, <3>1, <3>2 DEF t
    <2>. HIDE DEF Good, t
    <2>. QED
      BY <2>2, <2>3, <2>5
  <1>. HIDE DEF S
  <1>5. S = Nat
    <2>1. S \subseteq Nat
      BY DEF S
    <2>. QED
      BY <1>3, <1>4, <2>1, Inductive
  <1>6. Good(at[Len(tools)])
    <2>. HIDE DEF Good
    <2>. QED
      BY <1>2, <1>5 DEF S
  <1>. QED
    BY <1>1, <1>6, LenProperties

LEMMA NamesOnce ==
    ASSUME NEW headers \in Seq(Header)
    PROVE  \A i, j \in DOMAIN Forwarded(headers) :
              Forwarded(headers)[i].name = Forwarded(headers)[j].name => i = j
  <1>1. PICK at : /\ HeaderLoop(at, headers)
                  /\ Forwarded(headers) = at[Len(headers)] \o ByArmor
    BY ForwardLoops
  <1>2. Len(headers) \in Nat /\ \A i \in 1..Len(headers) : headers[i] \in Header
    BY LenProperties, ElementOfSeq
  <1>. DEFINE Good(kept) ==
                 /\ kept \in Seq(Header)
                 /\ \A j \in 1..Len(kept) : MayPass(kept[j])
                 /\ \A i, j \in 1..Len(kept) : kept[i].name = kept[j].name => i = j
              S == {n \in Nat : n <= Len(headers) => Good(at[n])}
  <1>3. 0 \in S
    <2>1. at[0] = <<>>
      BY <1>1, <1>2 DEF HeaderLoop
    <2>2. Good(<<>>)
      OBVIOUS
    <2>. HIDE DEF Good
    <2>. QED
      BY <2>1, <2>2
  <1>4. ASSUME NEW n \in S PROVE n + 1 \in S
    <2>1. n \in Nat /\ n + 1 \in Nat
      OBVIOUS
    <2>. SUFFICES ASSUME n + 1 <= Len(headers) PROVE Good(at[n + 1])
      BY <2>1
    <2>2. Good(at[n])
      <3>. HIDE DEF Good
      <3>. QED
        BY <1>2, <2>1
    <2>. DEFINE h == headers[n + 1]
    <2>3. at[n + 1] = IF MayFollow(at[n], h) THEN Append(at[n], h) ELSE at[n]
      <3>1. n + 1 \in 0..Len(headers) /\ n + 1 # 0 /\ (n + 1) - 1 = n
        BY <1>2, <2>1
      <3>. QED
        BY <1>1, <3>1 DEF HeaderLoop
    <2>4. h \in Header
      BY <1>2, <2>1
    <2>5. ASSUME NEW kept, Good(kept), MayFollow(kept, h) PROVE Good(Append(kept, h))
      <3>. DEFINE longer == Append(kept, h)
                  n1 == Len(kept) + 1
      <3>1. /\ longer \in Seq(Header) /\ Len(kept) \in Nat /\ Len(longer) = n1
            /\ longer[n1] = h
            /\ \A j \in 1..Len(kept) : longer[j] = kept[j]
        BY <2>4, <2>5, AppendProperties, LenProperties
      <3>2. \A j \in 1..n1 : j = n1 \/ j \in 1..Len(kept)
        BY <3>1
      <3>3. MayPass(h) /\ \A j \in 1..Len(kept) : kept[j].name # h.name
        BY <2>5, LenProperties DEF MayFollow, NotYetIn
      <3>. HIDE DEF h, longer, n1
      <3>4. \A j \in 1..n1 : MayPass(longer[j])
        BY <2>5, <3>1, <3>2, <3>3
      <3>5. \A i, j \in 1..n1 : longer[i].name = longer[j].name => i = j
        BY <2>5, <3>1, <3>2, <3>3
      <3>. QED
        BY <3>1, <3>4, <3>5 DEF longer
    <2>. HIDE DEF Good, h
    <2>. QED
      BY <2>2, <2>3, <2>5
  <1>. HIDE DEF S
  <1>5. S = Nat
    <2>1. S \subseteq Nat
      BY DEF S
    <2>. QED
      BY <1>3, <1>4, <2>1, Inductive
  <1>. DEFINE kept == at[Len(headers)]
              sent == kept \o ByArmor
  <1>6. Good(kept)
    <2>. HIDE DEF Good
    <2>. QED
      BY <1>2, <1>5 DEF S
  <1>. HIDE DEF kept
  <1>. DEFINE by(name, value) == [name |-> name, crlf |-> FALSE, value |-> value]
              X == Header \cup {by("x-forwarded-for", "peer"), by("x-real-ip", "peer"),
                                by("content-type", "json")}
  <1>7. /\ ByArmor \in Seq(X) /\ Len(ByArmor) = 3
        /\ \A i \in 1..3 : ByArmor[i].name \in OwnedByArmor \cup {"content-type"}
        /\ \A i, j \in 1..3 : ByArmor[i].name = ByArmor[j].name => i = j
    <2>1. Len(ByArmor) = 3 /\ ByArmor[1].name = "x-forwarded-for"
          /\ ByArmor[2].name = "x-real-ip" /\ ByArmor[3].name = "content-type"
      BY DEF ByArmor
    <2>2. ByArmor \in Seq(X)
      <3>1. ByArmor = <<by("x-forwarded-for", "peer"), by("x-real-ip", "peer"),
                        by("content-type", "json")>>
        BY DEF ByArmor
      <3>. HIDE DEF by
      <3>. QED
        BY <3>1
    <2>3. 1..3 = {1, 2, 3}
      OBVIOUS
    <2>. QED
      BY <2>1, <2>2, <2>3 DEF OwnedByArmor
  <1>. HIDE DEF X
  <1>8. /\ Len(kept) \in Nat /\ sent \in Seq(X) /\ Len(sent) = Len(kept) + 3
        /\ \A i \in 1..(Len(kept) + 3) :
              sent[i] = IF i <= Len(kept) THEN kept[i] ELSE ByArmor[i - Len(kept)]
    <2>1. kept \in Seq(X) /\ Len(kept) \in Nat
      <3>1. Header \subseteq X
        BY DEF X
      <3>. QED
        BY <1>6, <3>1, LenProperties, SeqMonotonic
    <2>2. /\ sent \in Seq(X) /\ Len(sent) = Len(kept) + Len(ByArmor)
          /\ \A i \in 1..(Len(kept) + Len(ByArmor)) :
                sent[i] = IF i <= Len(kept) THEN kept[i] ELSE ByArmor[i - Len(kept)]
      <3>1. ByArmor \in Seq(X)
        BY <1>7
      <3>. QED
        BY <2>1, <3>1, ConcatProperties
    <2>. HIDE DEF sent
    <2>. QED
      BY <1>7, <2>1, <2>2
  <1>. HIDE DEF sent
  <1>9. \A i \in 1..Len(kept) : kept[i].name \notin OwnedByArmor \cup {"content-type"}
    BY <1>6 DEF MayPass, OwnedByArmor
  <1>10. ASSUME NEW i \in DOMAIN sent, NEW j \in DOMAIN sent, sent[i].name = sent[j].name
         PROVE  i = j
    <2>1. i \in 1..(Len(kept) + 3) /\ j \in 1..(Len(kept) + 3)
      BY <1>8, LenProperties
    <2>2. CASE i <= Len(kept) /\ j <= Len(kept)
      <3>1. sent[i] = kept[i] /\ sent[j] = kept[j] /\ i \in 1..Len(kept) /\ j \in 1..Len(kept)
        BY <1>8, <2>1, <2>2
      <3>. QED
        BY <1>6, <1>10, <3>1
    <2>3. CASE i > Len(kept) /\ j > Len(kept)
      <3>1. /\ sent[i] = ByArmor[i - Len(kept)] /\ sent[j] = ByArmor[j - Len(kept)]
            /\ i - Len(kept) \in 1..3 /\ j - Len(kept) \in 1..3
        BY <1>8, <2>1, <2>3
      <3>2. i - Len(kept) = j - Len(kept)
        BY <1>7, <1>10, <3>1
      <3>. QED
        BY <1>8, <2>1, <3>2
    <2>4. ASSUME NEW k \in 1..(Len(kept) + 3), NEW m \in 1..(Len(kept) + 3),
                 k <= Len(kept), m > Len(kept)
          PROVE  sent[k].name # sent[m].name
      <3>1. /\ sent[k] = kept[k] /\ sent[m] = ByArmor[m - Len(kept)]
            /\ k \in 1..Len(kept) /\ m - Len(kept) \in 1..3
        <4>1. ~ (m <= Len(kept))
          BY <1>8, <2>4
        <4>. QED
          BY <1>8, <2>4, <4>1
      <3>. QED
        BY <1>7, <1>9, <3>1
    <2>5. i <= Len(kept) \/ i > Len(kept)
      BY <1>8, <2>1
    <2>6. j <= Len(kept) \/ j > Len(kept)
      BY <1>8, <2>1
    <2>. QED
      BY <1>10, <2>1, <2>2, <2>3, <2>4, <2>5, <2>6
  <1>. QED
    BY <1>1, <1>10 DEF sent, kept

(* A tool the guard reads as visible is so to every reader, if its object   *)
(* passes the checks.                                                       *)
LEMMA VisibleToAll ==
    ASSUME NEW tool, tool.members \in Seq(Member), Shown(tool),
           Strict(Object("element", tool.members, <<>>), "response")
    PROVE  ReadAsVisible(tool)
  <1>. DEFINE ms == tool.members
              doc == Object("element", ms, <<>>)
  <1>1. doc.members = ms /\ doc.level = "element"
    BY DEF Object
  <1>2. MeansOne(doc, "response")
    BY <1>1, StrictMeansOne
  <1>3. \A i \in DOMAIN ms : ms[i].spelling \in {"exact", "variant"}
    <2>1. \A i \in DOMAIN ms : ms[i] \in Member
      BY LenProperties, ElementOfSeq
    <2>. QED
      BY <2>1 DEF Member
  <1>4. \A i \in DOMAIN ms : ms[i].name = "field" => ms[i].spelling = "exact"
    BY <1>1, <1>3 DEF Strict, FieldChecked, Variant
  <1>5. Hits(ms, "field", TRUE) = Hits(ms, "field", FALSE)
    BY <1>4 DEF Hits
  <1>6. LastRead(ms, "field", FALSE) = "visible" /\ LastRead(ms, "field", TRUE) = "visible"
    BY <1>5 DEF Shown, LastRead
  <1>7. FirstRead(ms, "field", FALSE) = "visible" /\ FirstRead(ms, "field", TRUE) = "visible"
    BY <1>1, <1>2, <1>5, <1>6 DEF MeansOne, FirstRead
  <1>. QED
    BY <1>6, <1>7 DEF ReadAsVisible
-----------------------------------------------------------------------------
(* The checks an exchange has passed, by how far it has come, and the tools *)
(* its answer lists.                                                        *)
Passable == Inspectable /\ size <= MaxResponse
Listed == IF Lists THEN Filtered(reply.body.tools) ELSE <<>>
Checked ==
    /\ accumulated <= MaxBody
    /\ xpc \in {"guard", "app", "respond"} => Readable
    /\ xpc = "respond" => Passable
    /\ xpc # "done" => out = <<>>
    /\ \A i \in DOMAIN out : Shows(i) => Passable /\ out[i].tools = Listed
CheckedInv == in # NoExchange => Checked

LEMMA AnswerShows ==
    ASSUME out = <<>>, Answer
    PROVE  \A i \in DOMAIN out' : Shows(i)' => out'[i].tools = Listed
  <1>1. out' = Answered
    <2>1. <<>> \o Answered = Answered
      BY DEF Answered
    <2>. QED
      BY <2>1 DEF Answer
  <1>. DEFINE body == [type |-> "body", shows |-> IF Shrinks THEN "filtered" ELSE "answer",
                       tools |-> Listed]
              head == [type |-> "start", session |-> start.session, length |-> Length(start.length)]
  <1>2. body.tools = Listed /\ head.type = "start"
    OBVIOUS
  <1>3. Answered = (IF start.present THEN <<head>> ELSE <<>>) \o <<body>>
    BY Zenon DEF Answered, Listed
  <1>. HIDE DEF body, head
  <1>4. CASE start.present
    <2>1. out' = <<head>> \o <<body>>
      BY <1>1, <1>3, <1>4, Zenon
    <2>2. Len(out') = 2 /\ out'[1] = head /\ out'[2] = body
      BY <2>1, TwoMessages, Zenon
    <2>3. DOMAIN out' = 1..2
      <3>1. <<head>> \in Seq({head, body}) /\ <<body>> \in Seq({head, body})
        OBVIOUS
      <3>2. out' \in Seq({head, body})
        BY <2>1, <3>1, ConcatProperties
      <3>. QED
        BY <2>2, <3>2, LenProperties
    <2>4. \A i \in 1..2 : i = 1 \/ i = 2
      OBVIOUS
    <2>. QED
      BY <1>2, <2>2, <2>3, <2>4 DEF Shows
  <1>5. CASE ~start.present
    <2>1. out' = <<body>>
      BY <1>1, <1>3, <1>5
    <2>2. DOMAIN out' = {1} /\ out'[1] = body
      BY <2>1
    <2>. QED
      BY <1>2, <2>2
  <1>. QED
    BY <1>4, <1>5

LEMMA CheckedKept ==
    ASSUME CheckedInv, [Next]_vars
    PROVE  CheckedInv'
  <1>1. CASE UNCHANGED exchangeVars
    BY <1>1 DEF CheckedInv, Checked, Passable, Readable, Inspectable, Inspected, RawAnswer,
       Method, RawBody, Shows, Listed, Lists, exchangeVars
  <1>2. UNCHANGED <<in, accumulated>> => UNCHANGED <<Readable, Method, Inspected>>
    BY DEF Readable, Method, Inspected, RawBody
  <1>3. UNCHANGED <<in, accumulated, reply, size>> => UNCHANGED <<Passable, Listed>>
    BY <1>2 DEF Passable, Inspectable, RawAnswer, Listed, Lists
  <1>4. ASSUME Exchange, in # NoExchange, Checked PROVE Checked'
    <2>1. ASSUME Refuse, xpc # "done" PROVE Checked'
      BY <1>4, <2>1, ErrorsShowNothing DEF Refuse, Checked
    <2>2. ASSUME Screen \/ Receive \/ Resolve PROVE Checked'
      <3>1. /\ out' = out /\ out = <<>> /\ xpc' \in {"buffer", "guard"}
            /\ xpc' = "guard" => Readable /\ UNCHANGED <<in, accumulated>>
            /\ accumulated' <= MaxBody
        BY <1>4, <2>2 DEF Screen, Receive, Resolve, Complete, Fits, Checked
      <3>. QED
        BY <1>2, <3>1 DEF Checked
    <2>3. ASSUME Forward(deployment = "sidecar") \/ AppSendsStart \/ AppSendsBody
          PROVE  Checked'
      <3>1. /\ out' = out /\ out = <<>> /\ xpc \in {"guard", "app"} /\ xpc' = "app"
            /\ UNCHANGED <<in, accumulated>>
        BY <1>4, <2>3 DEF Forward, AppSendsStart, AppSendsBody, Checked
      <3>. QED
        BY <1>2, <1>4, <3>1 DEF Checked
    <2>4. ASSUME Collect PROVE Checked'
      <3>1. /\ out' = out /\ out = <<>> /\ xpc = "app" /\ xpc' = "respond" /\ Passable
            /\ UNCHANGED <<in, accumulated, reply, size>>
        BY <1>4, <2>4 DEF Collect, AppDone, Collectable, Passable, Checked
      <3>. QED
        BY <1>2, <1>3, <1>4, <3>1 DEF Checked
    <2>5. ASSUME Answer PROVE Checked'
      <3>1. /\ xpc' = "done" /\ Passable /\ UNCHANGED <<in, accumulated, reply, size>>
        BY <1>4, <2>5 DEF Answer, Checked
      <3>2. \A i \in DOMAIN out' : Shows(i)' => out'[i].tools = Listed
        BY <1>4, <2>5, AnswerShows DEF Answer, Checked
      <3>. QED
        BY <1>3, <1>4, <3>1, <3>2 DEF Checked
    <2>6. CASE Opening \/ Leaving \/ Breaking
      <3>1. UNCHANGED <<in, accumulated, reply, size, out>>
            /\ (xpc' = xpc \/ (xpc = "respond" /\ xpc' = "done"))
        BY <2>6 DEF Opening, Leaving, Breaking, BreakOff, exchangeVars
      <3>. QED
        BY <1>2, <1>3, <1>4, <3>1 DEF Checked, Shows
    <2>. QED
      BY <1>4, <2>1, <2>2, <2>3, <2>4, <2>5, <2>6 DEF Exchange, Reading, Resolving, Forwarding,
         Refusing, Buffering, Collecting, NotCollecting, Answering, Breaking, ScreenedOut,
         ReceiveTooMuch, Unreadable, Uncollectable, AppDone, Complete
  <1>5. Exchange => in' = in
    BY DEF Exchange, Reading, Screen, ScreenedOut, Receive, ReceiveTooMuch, Unreadable, Resolving,
       Resolve, Opening, Forwarding, Forward, Refusing, Refuse, Buffering, AppSendsStart,
       AppSendsBody, Collecting, Collect, NotCollecting, Uncollectable, Answering, Answer,
       Breaking, BreakOff, Leaving, exchangeVars
  <1>. QED
    BY <1>1, <1>4, <1>5 DEF Next, Life, Calls, Exchange, vars, CheckedInv

(* What a deployment is sent is made of members, tools and headers, and so  *)
(* is what it answers; and the headers sent upstream are the loop's.        *)
GivenInv == in # NoExchange => IsExchange(in) /\ IsDocument(reply.body)
HopInv == hop = <<>> \/ hop = Forwarded(in.headers)

LEMMA GivenAtFirst ==
    ASSUME Init
    PROVE  GivenInv /\ HopInv
  <1>1. PICK w \in Workloads : in \in w.exchanges
    BY DEF Init
  <1>2. in # NoExchange => IsExchange(in)
    BY <1>1, WorkloadAssumption
  <1>3. IsDocument(NoReply.body)
    <2>1. IsDocument(Object("nested", <<>>, <<>>))
      BY DEF Object, IsDocument
    <2>2. NoReply.body = Object("nested", <<>>, <<>>)
      BY DEF NoReply
    <2>. QED
      BY <2>1, <2>2
  <1>. QED
    BY <1>2, <1>3 DEF Init, ExchangeInit, GivenInv, HopInv

LEMMA GivenKept ==
    ASSUME GivenInv, HopInv, [Next]_vars
    PROVE  GivenInv' /\ HopInv'
  <1>1. CASE UNCHANGED <<in, reply, hop>>
    BY <1>1 DEF GivenInv, HopInv, IsExchange, IsDocument
  <1>2. ASSUME Forward(deployment = "sidecar"), in # NoExchange PROVE GivenInv' /\ HopInv'
    <2>1. IsDocument(in.answer.body) /\ IsDocument(Object("error", <<>>, <<>>))
      BY <1>2 DEF GivenInv, IsExchange, IsDocument, Object
    <2>2. in' = in
      BY <1>2 DEF Forward
    <2>3. reply'.body \in {in.answer.body, Object("error", <<>>, <<>>)}
      BY <1>2 DEF Forward, ToSidecar, ToApp
    <2>4. hop' = hop \/ hop' = <<>> \/ hop' = Forwarded(in.headers)
      BY <1>2 DEF Forward, ToSidecar, ToApp
    <2>5. IsDocument(reply'.body)
      BY <2>1, <2>3
    <2>6. GivenInv'
      BY <2>2, <2>5 DEF GivenInv, IsExchange, IsDocument
    <2>7. HopInv'
      BY <2>2, <2>4 DEF HopInv
    <2>. QED
      BY <2>6, <2>7
  <1>3. Exchange => \/ UNCHANGED <<in, reply, hop>>
                    \/ Forward(deployment = "sidecar") /\ in # NoExchange
    BY DEF Exchange, Reading, Screen, ScreenedOut, Receive, ReceiveTooMuch, Unreadable, Resolving,
       Resolve, Opening, Forwarding, Refusing, Refuse, Buffering, AppSendsStart,
       AppSendsBody, Collecting, Collect, NotCollecting, Uncollectable, Answering, Answer,
       Breaking, BreakOff, Leaving, exchangeVars
  <1>. QED
    BY <1>1, <1>2, <1>3 DEF Next, Life, Calls, exchangeVars, vars

LEMMA ToolsAgree ==
    ASSUME Checked, GivenInv, in # NoExchange
    PROVE  ToolsReadVisible
  <1>. SUFFICES ASSUME NEW i \in DOMAIN out, Shows(i), Inspected, NEW j \in DOMAIN out[i].tools
                PROVE  ReadAsVisible(out[i].tools[j])
    BY DEF ToolsReadVisible
  <1>1. Passable /\ out[i].tools = Listed
    BY DEF Checked
  <1>2. Lists
    BY <1>1 DEF Listed
  <1>3. ReadAlike(reply.body, "response") /\ out[i].tools = Filtered(reply.body.tools)
    BY <1>1, <1>2 DEF Passable, Inspectable, Lists, Listed
  <1>. DEFINE tools == reply.body.tools
  <1>4. tools \in Seq(Tool)
    BY DEF GivenInv, IsDocument
  <1>5. PICK k \in DOMAIN tools : Filtered(tools)[j] = tools[k]
    BY <1>3, <1>4, FilteredTools
  <1>6. Shown(tools[k])
    BY <1>3, <1>4, <1>5, FilteredTools
  <1>7. tools[k] \in Tool /\ tools[k] \in ToSet(tools)
    BY <1>4, LenProperties, ElementOfSeq DEF ToSet
  <1>8. Strict(Object("element", tools[k].members, <<>>), "response")
    BY <1>3, <1>7 DEF ReadAlike, Elements
  <1>9. tools[k].members \in Seq(Member)
    BY <1>7 DEF Tool
  <1>10. ReadAsVisible(tools[k])
    BY <1>6, <1>8, <1>9, VisibleToAll
  <1>. QED
    BY <1>3, <1>5, <1>10

(* Whatever is forwarded, and whatever an inspected answer shows, has been  *)
(* through the checks, and so means one thing to every reader; what a tool  *)
(* list still holds every reader finds visible; and no two headers that go  *)
(* upstream have one name.                                                  *)
THEOREM WhatPassesReadsOne == Spec => []OneReading
  <1>1. Init => CheckedInv
    <2>. SUFFICES ASSUME Init PROVE Checked
      BY DEF CheckedInv
    <2>. QED
      BY CapsAssumption DEF Init, ExchangeInit, Checked
  <1>2. CheckedInv /\ GivenInv /\ HopInv => OneReading
    <2>. SUFFICES ASSUME Checked, in # NoExchange, GivenInv, HopInv
                  PROVE  RequestReadsOne /\ AnswerReadsOne /\ ToolsReadVisible /\ HeadersOnce
      BY DEF CheckedInv, OneReading
    <2>1. /\ in.body.members \in Seq(Member) /\ reply.body.members \in Seq(Member)
          /\ in.headers \in Seq(Header)
      BY DEF GivenInv, IsExchange, IsDocument
    <2>2. RequestReadsOne
      BY <2>1, StrictMeansOne DEF Checked, RequestReadsOne, Readable, ReadAlike
    <2>3. AnswerReadsOne
      BY <2>1, StrictMeansOne DEF Checked, Passable, AnswerReadsOne, Inspectable, ReadAlike
    <2>4. HeadersOnce
      <3>1. CASE hop = <<>>
        BY <3>1 DEF HeadersOnce
      <3>2. CASE hop = Forwarded(in.headers)
        BY <2>1, <3>2, NamesOnce DEF HeadersOnce
      <3>. QED
        BY <3>1, <3>2 DEF HopInv
    <2>. QED
      BY <2>2, <2>3, <2>4, ToolsAgree
  <1>3. CheckedInv /\ GivenInv /\ HopInv /\ [Next]_vars => (CheckedInv /\ GivenInv /\ HopInv)'
    BY CheckedKept, GivenKept
  <1>4. Init => CheckedInv /\ GivenInv /\ HopInv
    BY <1>1, GivenAtFirst
  <1>. QED
    BY <1>2, <1>3, <1>4, PTL DEF Spec
-----------------------------------------------------------------------------
(* Sessions are minted before they are used, only calls that open a session *)
(* close one, and calls nest no deeper than they may.                       *)
FrameInv ==
    \A t \in Tasks : \A i \in DOMAIN stack[t] :
        LET f == stack[t][i]
        IN  /\ f.session \in minted /\ f.restore \in minted \cup {NoCtx}
            /\ f.closes \/ f.pc = "close" => f.kind \in {"stateless", "hook"}
            /\ f.pc = "open" => f.kind \in Owners
MintInv ==
    /\ Elsewhere \subseteq minted /\ minted \subseteq Sessions
    /\ issued \subseteq minted
    /\ tracked \subseteq minted /\ seen \subseteq minted /\ draining \subseteq minted
    /\ abandoned \subseteq minted /\ reaped \subseteq minted
    /\ activeCtx \in [Tasks -> minted \cup {NoCtx}]
    /\ inherited \in [Tasks -> minted \cup {NoCtx}]
DepthInv == \A t \in Tasks : Len(stack[t]) <= MaxDepth

LEMMA TopFrame ==
    ASSUME StackTypes, NEW t \in Tasks, Busy(t)
    PROVE  /\ Len(stack[t]) \in DOMAIN stack[t] /\ stack[t][Len(stack[t])] = Top(t)
           /\ Top(t) \in Frame
  BY TopOfStack DEF StackTypes, Busy, Top

(* The tables take in no session but that of the call that is on top.       *)
LEMMA TablesGrow ==
    ASSUME StackTypes, NEW t \in Tasks, TaskStep(t)
    PROVE  /\ \A s : s \in tracked' => s \in tracked \/ (Busy(t) /\ s = Top(t).session
                                           /\ Opened(t) /\ Top(t).kind = "initialize")
           /\ \A s : s \in seen' => s \in seen \/ (Busy(t) /\ s = Top(t).session)
           /\ \A s : s \in abandoned' => s \in abandoned \/ (Busy(t) /\ s = Top(t).session)
           /\ \A s : s \in issued' => s \in issued \/ (Busy(t) /\ s = Top(t).session
                                         /\ Responded(t) /\ Top(t).kind = "initialize")
           /\ tracked \subseteq tracked' /\ issued \subseteq issued'
           /\ minted \subseteq minted' /\ UNCHANGED <<draining, reaped>>
  <1>1. CASE Entering(t)
    BY <1>1, Entered DEF Fresh, lifeVars, sessionState
  <1>2. CASE Opened(t)
    BY <1>2, WentOn DEF Opened, lifeRest, lifeStill
  <1>3. CASE Admit(t)
    BY <1>3, WentOn DEF Admit, SeenByT10, Touch, lifeStill
  <1>4. CASE Returned(t) \/ TaskEnds(t) \/ \E u \in Tasks : Spawn(t, u)
    BY <1>4 DEF Returned, TaskEnds, Spawn, lifeVars, sessionState
  <1>5. CASE Responded(t)
    BY <1>5, Left DEF Responded, lifeVars, sessionState
  <1>6. CASE Fail(t)
    BY <1>6, Left DEF Fail, Touch, lifeRest, lifeStill
  <1>7. CASE Closing(t)
    BY <1>7, ClosedDown DEF Closing, Closed, CloseSession, CloseCancelled, lifeVars, lifeRest,
       lifeStill, sessionState
  <1>. QED
    BY <1>1, <1>2, <1>3, <1>4, <1>5, <1>6, <1>7 DEF TaskStep

LEMMA TaskKeepsMinted ==
    ASSUME StackTypes, FrameInv, MintInv, DepthInv, NEW t \in Tasks, TaskStep(t)
    PROVE  FrameInv' /\ MintInv' /\ DepthInv'
  <1>1. Busy(t) => Top(t).session \in minted /\ Top(t).restore \in minted \cup {NoCtx}
    BY TopFrame DEF FrameInv
  <1>2. minted \subseteq minted' /\ minted' \subseteq Sessions
    <2>1. CASE Entering(t)
      BY <2>1, Entered DEF Fresh, Frame, MintInv
    <2>2. CASE ~Entering(t)
      BY <2>2 DEF TaskStep, Opened, Admit, Returned, Responded, Fail, Closing, Closed,
         CloseCancelled, TaskEnds, Spawn, MintInv
    <2>. QED
      BY <2>1, <2>2
  <1>3. ASSUME NEW u \in Tasks, NEW i \in DOMAIN stack'[u]
        PROVE  LET f == stack'[u][i]
               IN  /\ f.session \in minted' /\ f.restore \in minted' \cup {NoCtx}
                   /\ f.closes \/ f.pc = "close" => f.kind \in {"stateless", "hook"}
                   /\ f.pc = "open" => f.kind \in Owners
    <2>. DEFINE f == stack'[u][i]
    <2>1. CASE i \in DOMAIN stack[u] /\ f = stack[u][i]
      BY <1>2, <2>1 DEF FrameInv
    <2>2. CASE /\ u = t /\ Busy(t) /\ i \in DOMAIN stack[t]
               /\ stack[t][i] = Top(t) /\ Evolves(t, Top(t), f)
      <3>1. /\ Top(t).session \in minted /\ Top(t).restore \in minted \cup {NoCtx}
            /\ Top(t).closes => Top(t).kind \in {"stateless", "hook"}
            /\ Top(t).pc = "open" => Top(t).kind \in Owners
        BY <2>2 DEF FrameInv
      <3>2. Opened(t) => Top(t).pc = "open"
        BY DEF Opened, At
      <3>. QED
        BY <1>2, <2>2, <3>1, <3>2 DEF Evolves, SameCall, Owners
    <2>3. CASE EnteredAs(t, f)
      <3>1. f.session # NoCtx
        BY <2>3, NoCtxAssumption DEF EnteredAs, Frame
      <3>2. f.session \in minted' /\ f.restore \in minted' \cup {NoCtx}
        BY <1>2, <2>3, <3>1 DEF EnteredAs, Fresh, MintInv
      <3>. QED
        BY <2>3, <3>2 DEF EnteredAs, Fresh
    <2>. QED
      BY <2>1, <2>2, <2>3, FrameOrigin
  <1>4. /\ activeCtx' \in [Tasks -> minted' \cup {NoCtx}]
        /\ inherited' \in [Tasks -> minted' \cup {NoCtx}]
    <2>1. CASE Entering(t)
      <3>1. PICK f \in Frame : /\ activeCtx' = IF f.kind = "protect" THEN activeCtx
                                               ELSE [activeCtx EXCEPT ![t] = f.session]
                               /\ f.restore = activeCtx[t]
                               /\ f.kind = "protect" => activeCtx[t] \in {NoCtx, f.session}
                               /\ inherited' = inherited /\ Fresh(t, f)
        BY <2>1, Entered
      <3>2. f.kind # "protect" => f.session \in minted' \cup {NoCtx}
        BY <1>2, <3>1 DEF Fresh, MintInv
      <3>. QED
        BY <1>2, <3>1, <3>2 DEF MintInv
    <2>2. CASE Opened(t) \/ Admit(t) \/ Returned(t)
      BY <1>2, <2>2, WentOn DEF MintInv
    <2>3. CASE Responded(t) \/ Fail(t)
      BY <1>1, <1>2, <2>3, Left DEF MintInv
    <2>4. CASE Closing(t)
      BY <1>1, <1>2, <2>4, ClosedDown DEF MintInv
    <2>5. CASE TaskEnds(t) \/ \E u \in Tasks : Spawn(t, u)
      BY <1>2, <2>5 DEF TaskEnds, Spawn, MintInv
    <2>. QED
      BY <2>1, <2>2, <2>3, <2>4, <2>5 DEF TaskStep
  <1>5. DepthInv'
    <2>1. \A u \in Tasks \ {t} : stack'[u] = stack[u]
      BY OneStack
    <2>2. Len(stack'[t]) <= MaxDepth
      <3>. DEFINE q == stack[t]
      <3>1. q \in Seq(Frame) /\ Len(q) \in Nat /\ Len(q) <= MaxDepth /\ MaxDepth \in Nat \ {0}
        BY LenProperties, DepthAssumption DEF StackTypes, DepthInv
      <3>2. CASE Entering(t)
        <4>1. PICK f \in Frame : Pushes(t, f) /\ (Busy(t) => Len(q) < MaxDepth)
          BY <3>2, Entered DEF Fresh
        <4>2. Len(stack'[t]) = Len(q) + 1
          BY <3>1, <4>1, StackPushed, PushedStack
        <4>3. ~Busy(t) => Len(q) = 0
          BY EmptySeq DEF Busy
        <4>. QED
          BY <3>1, <4>1, <4>2, <4>3
      <3>3. ASSUME NEW f \in Frame, Busy(t), Becomes(t, f) PROVE Len(stack'[t]) = Len(q)
        BY <3>1, <3>3, StackReplaced, ReplacedTop DEF Busy
      <3>4. ASSUME Busy(t), Pops(t) PROVE Len(stack'[t]) = Len(q) - 1
        BY <3>1, <3>4, StackPopped, PoppedStack DEF Busy
      <3>5. CASE TaskEnds(t) \/ \E u \in Tasks : Spawn(t, u)
        BY <3>1, <3>5 DEF TaskEnds, Spawn
      <3>6. CASE Opened(t) \/ Admit(t) \/ Returned(t)
        BY <3>1, <3>3, <3>6, WentOn
      <3>7. CASE Responded(t) \/ Fail(t)
        BY <3>1, <3>3, <3>4, <3>7, Left
      <3>8. CASE Closing(t)
        BY <3>1, <3>4, <3>8, ClosedDown
      <3>. QED
        BY <3>2, <3>5, <3>6, <3>7, <3>8 DEF TaskStep
    <2>. QED
      BY <2>1, <2>2 DEF DepthInv
  <1>6. MintInv'
    BY <1>1, <1>2, <1>4, TablesGrow DEF MintInv
  <1>. QED
    BY <1>3, <1>5, <1>6 DEF FrameInv

LEMMA LifeKeepsMinted ==
    ASSUME MintInv, Life
    PROVE  MintInv'
  <1>. USE DEF MintInv
  <1>1. UNCHANGED <<minted, issued, abandoned, activeCtx, inherited>>
    BY DEF Life, callVars
  <1>2. CASE SendStartup \/ WrappedApp \/ AppAnswered \/ StartGuard \/ RefuseToStart \/ AppStopped
             \/ JoinApp
    BY <1>1, <1>2 DEF SendStartup, WrappedApp, AppStarts, AppFails, AppEndsSilently, AppStops,
       AppAnswered, StartGuard, RefuseToStart, AppStopped, JoinApp, sessionState
  <1>3. ASSUME NEW z \in Sessions, NEW audited \in BOOLEAN, DrainOne(z, audited) PROVE MintInv'
    BY <1>1, <1>3 DEF DrainOne, CloseSession, LeftToDrain
  <1>4. CASE StopGuard \/ SendShutdown(~HttpInFlight)
    BY <1>1, <1>4 DEF StopGuard, SendShutdown
  <1>5. ASSUME NEW zs \in SUBSET seen, Reap(zs) PROVE MintInv'
    BY <1>1, <1>5 DEF Reap
  <1>. QED
    BY <1>2, <1>3, <1>4, <1>5 DEF Life, LifeNext, Handler

MintedInv == StackTypes /\ FrameInv /\ MintInv /\ DepthInv

(* mint_session_id comes first: no table, no copy of the active context and *)
(* no client has a session id that was not minted, and only calls that open *)
(* a session close one.                                                     *)
THEOREM MintedHolds == Spec => []MintedInv
  <1>1. Init => MintedInv
    <2>. SUFFICES ASSUME Init PROVE MintedInv
      OBVIOUS
    <2>1. <<>> \in Seq(Frame) /\ Len(<<>>) = 0 /\ DOMAIN <<>> = {}
      BY EmptySeq
    <2>. QED
      BY <2>1, ElsewhereAssumption, DepthAssumption
      DEF Init, CallInit, LifeInit, MintedInv, StackTypes, Contexts, FrameInv, MintInv, DepthInv
  <1>2. MintedInv /\ [Next]_vars => MintedInv'
    <2>1. ASSUME MintedInv, UNCHANGED callVars, MintInv' PROVE MintedInv'
      BY <2>1 DEF callVars, MintedInv, StackTypes, FrameInv, DepthInv
    <2>2. ASSUME MintedInv, UNCHANGED <<lifeVars, callVars>> PROVE MintInv'
      BY <2>2 DEF lifeVars, sessionState, callVars, MintedInv, MintInv
    <2>. QED
      BY <2>1, <2>2, StepsOfServer, TypesKept, TaskKeepsMinted, LifeKeepsMinted
      DEF Life, vars, MintedInv
  <1>. QED
    BY <1>1, <1>2, PTL DEF Spec
-----------------------------------------------------------------------------
(* Each call that opens a session has it to itself, and closes it once; a   *)
(* client that is told of a session is told of one the worker tracks until  *)
(* it is closed, drained or reaped.                                         *)
Alone ==
    \A t, u \in Tasks : \A i \in DOMAIN stack[t], j \in DOMAIN stack[u] :
        /\ stack[t][i].kind \in Owners /\ stack[u][j].kind \in Owners
        /\ stack[t][i].session = stack[u][j].session
        => t = u /\ i = j
OwnsIt(f) ==
    /\ f.session \notin issued \cup Elsewhere /\ ends[f.session] = 0
    /\ f.kind # "initialize" => f.session \notin tracked \cup draining
    /\ f.kind = "initialize" /\ f.pc # "open" => f.session \in tracked \cup reaped
OwnInv ==
    /\ Alone
    /\ \A t \in Tasks : \A i \in DOMAIN stack[t] :
          stack[t][i].kind \in Owners => OwnsIt(stack[t][i])
EndsInv ==
    /\ ends \in [Sessions -> 0..1]
    /\ \A s \in Sessions \ minted : ends[s] = 0
    /\ handler # "drain" => \A s \in tracked : ends[s] = 0
    /\ \A s \in draining : ends[s] = 0
    /\ \A s \in issued \ (Elsewhere \cup reaped) :
          ends[s] = 1 \/ s \in (IF handler = "drain" THEN draining ELSE tracked)

LEMMA PoppedGone ==
    ASSUME StackTypes, NEW t \in Tasks, Busy(t), Pops(t)
    PROVE  DOMAIN stack'[t] = 1..(Len(stack[t]) - 1) /\ Len(stack[t]) \in Nat
  <1>1. stack[t] \in Seq(Frame) /\ stack[t] # <<>> /\ Len(stack[t]) \in Nat
    BY LenProperties DEF StackTypes, Busy
  <1>. QED
    BY <1>1, StackPopped, PoppedStack

LEMMA TaskKeepsAlone ==
    ASSUME MintedInv, Alone, NEW t \in Tasks, TaskStep(t)
    PROVE  Alone'
  <1>. USE DEF MintedInv
  <1>. SUFFICES ASSUME NEW u \in Tasks, NEW v \in Tasks,
                       NEW i \in DOMAIN stack'[u], NEW j \in DOMAIN stack'[v],
                       stack'[u][i].kind \in Owners, stack'[v][j].kind \in Owners,
                       stack'[u][i].session = stack'[v][j].session
                PROVE  u = v /\ i = j
    BY DEF Alone
  <1>. DEFINE Old(w, k) == /\ k \in DOMAIN stack[w]
                           /\ stack[w][k].kind = stack'[w][k].kind
                           /\ stack[w][k].session = stack'[w][k].session
              New(w, k) == w = t /\ k = Len(stack[t]) + 1 /\ stack'[w][k].session \notin minted
  <1>1. ASSUME NEW w \in Tasks, NEW k \in DOMAIN stack'[w], stack'[w][k].kind \in Owners
        PROVE  Old(w, k) \/ New(w, k)
    BY <1>1, FrameOrigin DEF Evolves, SameCall, EnteredAs, Fresh
  <1>2. ASSUME NEW w \in Tasks, NEW k \in DOMAIN stack'[w], Old(w, k)
        PROVE  stack'[w][k].session \in minted
    BY <1>2 DEF FrameInv
  <1>3. CASE Old(u, i) /\ Old(v, j)
    BY <1>3 DEF Alone
  <1>4. CASE New(u, i) /\ New(v, j)
    BY <1>4
  <1>. QED
    BY <1>1, <1>2, <1>3, <1>4

LEMMA TaskKeepsOwned ==
    ASSUME MintedInv, OwnInv, EndsInv, NEW t \in Tasks, TaskStep(t)
    PROVE  OwnInv'
  <1>. USE DEF MintedInv
  <1>. SUFFICES ASSUME NEW u \in Tasks, NEW i \in DOMAIN stack'[u],
                       NEW f, f = stack'[u][i], f.kind \in Owners
                PROVE  OwnsIt(f)'
    BY TaskKeepsAlone DEF OwnInv, OwnsIt
  <1>1. CASE EnteredAs(t, f)
    <2>1. f.session \in Sessions \ minted /\ f.pc = "open"
      BY <1>1 DEF EnteredAs, Fresh, Frame
    <2>2. UNCHANGED <<issued, ends, tracked, draining>>
      BY <1>1, Entered DEF EnteredAs, Fresh, lifeVars, sessionState
    <2>3. /\ f.session \notin issued /\ f.session \notin Elsewhere /\ f.session \notin tracked
          /\ f.session \notin draining /\ ends[f.session] = 0
      BY <2>1 DEF MintInv, EndsInv
    <2>. QED
      BY <2>1, <2>2, <2>3 DEF OwnsIt
  <1>2. ASSUME i \in DOMAIN stack[u], SameCall(f, stack[u][i]),
               f.pc # "open" => \/ stack[u][i].pc # "open"
                                \/ Opened(t) /\ u = t /\ i = Len(stack[t])
                                \/ f.kind # "initialize"
        PROVE  OwnsIt(f)'
    <2>. DEFINE g == stack[u][i]
                s == f.session
    <2>1. g.session = s /\ g.kind = f.kind /\ g.kind \in Owners /\ OwnsIt(g)
      BY <1>2 DEF OwnInv, SameCall
    <2>2. ASSUME Busy(t), Top(t).session = s, Top(t).kind \in Owners
          PROVE  u = t /\ i = Len(stack[t]) /\ Top(t).kind = f.kind /\ Top(t).pc = g.pc
      <3>1. Len(stack[t]) \in DOMAIN stack[t] /\ stack[t][Len(stack[t])] = Top(t)
        BY <2>2, TopFrame
      <3>. QED
        BY <1>2, <2>1, <2>2, <3>1 DEF OwnInv, Alone
    <2>3. ASSUME Busy(t), Pops(t), Top(t).kind \in Owners PROVE Top(t).session # s
      BY <2>2, <2>3, PoppedGone
    <2>4. s \notin issued'
      <3>1. ASSUME Responded(t), Busy(t), Top(t).kind = "initialize" PROVE Top(t).session # s
        <4>1. ~Top(t).closes
          BY <3>1, TopFrame DEF FrameInv
        <4>. QED
          BY <2>3, <3>1, <4>1, Left DEF Owners
      <3>. QED
        BY <2>1, <3>1, TablesGrow DEF OwnsIt
    <2>5. ends'[s] = 0
      <3>1. ASSUME NEW audited \in BOOLEAN, Closed(t, audited) PROVE ends'[s] = ends[s]
        <4>1. Busy(t) /\ Pops(t) /\ Top(t).kind \in Owners
          BY <3>1, ClosedDown, TopFrame DEF Closing, FrameInv, Owners
        <4>2. Top(t).session # s
          BY <2>3, <4>1
        <4>. QED
          BY <3>1, <4>2 DEF Closed, CloseSession, EndsInv
      <3>2. (\A audited \in BOOLEAN : ~Closed(t, audited)) => ends' = ends
        BY Entered DEF TaskStep, Opened, Admit, Returned, Responded, Fail, Closing, CloseCancelled,
           TaskEnds, Spawn, lifeVars, sessionState
      <3>. QED
        BY <2>1, <3>1, <3>2 DEF OwnsIt
    <2>6. f.kind # "initialize" => s \notin tracked' \cup draining'
      BY <2>1, <2>2, TablesGrow DEF OwnsIt, Owners
    <2>7. f.kind = "initialize" /\ f.pc # "open" => s \in tracked' \cup reaped'
      <3>. SUFFICES ASSUME f.kind = "initialize", f.pc # "open" PROVE s \in tracked' \cup reaped'
        OBVIOUS
      <3>1. CASE g.pc # "open"
        BY <2>1, <3>1, TablesGrow DEF OwnsIt
      <3>2. CASE Opened(t) /\ u = t /\ i = Len(stack[t])
        <4>1. Top(t) = g /\ Busy(t)
          BY <3>2, WentOn, TopFrame
        <4>. QED
          BY <2>1, <3>2, <4>1 DEF Opened
      <3>. QED
        BY <1>2, <3>1, <3>2
    <2>8. s \notin Elsewhere
      BY <2>1 DEF OwnsIt
    <2>. QED
      BY <2>4, <2>5, <2>6, <2>7, <2>8 DEF OwnsIt
  <1>3. CASE i \in DOMAIN stack[u] /\ f = stack[u][i]
    BY <1>2, <1>3 DEF SameCall
  <1>4. CASE /\ u = t /\ Busy(t) /\ i \in DOMAIN stack[t] /\ i = Len(stack[t])
             /\ stack[t][i] = Top(t) /\ Evolves(t, Top(t), f)
    <2>1. Top(t).closes => f.kind # "initialize"
      BY <1>4 DEF FrameInv, Evolves, SameCall
    <2>. QED
      BY <1>2, <1>4, <2>1 DEF Evolves
  <1>. QED
    BY <1>1, <1>3, <1>4, FrameOrigin
(* Of the tasks' steps only close_session counts an end.                    *)
LEMMA EndsBy ==
    ASSUME StackTypes, NEW t \in Tasks, TaskStep(t)
    PROVE  ends' = ends \/ \E audited \in BOOLEAN : Closed(t, audited)
  BY Entered DEF TaskStep, Opened, Admit, Returned, Responded, Fail, Closing, CloseCancelled,
     TaskEnds, Spawn, lifeVars, sessionState

LEMMA InitializesInFlight ==
    ASSUME LifeInv, NEW t \in Tasks, NEW i \in DOMAIN stack[t], stack[t][i].kind = "initialize"
    PROVE  Serving /\ handler = "receive" /\ draining = {}
  <1>1. HttpInFlight
    BY DEF HttpInFlight, HttpKinds
  <1>. QED
    BY <1>1 DEF LifeInv, Phases, Serving

LEMMA TaskKeepsEnds ==
    ASSUME MintedInv, LifeInv, OwnInv, EndsInv, NEW t \in Tasks, TaskStep(t)
    PROVE  EndsInv'
  <1>. USE DEF MintedInv
  <1>. DEFINE s == Top(t).session
  <1>1. UNCHANGED <<handler, draining, reaped>> /\ minted \subseteq minted' /\ issued \subseteq issued'
    BY OneStack, TablesGrow DEF lifeStill, exchangeOfEvents
  <1>2. Busy(t) /\ Top(t).kind \in Owners =>
            /\ OwnsIt(Top(t)) /\ s \in minted /\ s \in Sessions
            /\ Top(t).kind = "initialize" => handler # "drain"
    <2>. SUFFICES ASSUME Busy(t), Top(t).kind \in Owners
                  PROVE  /\ OwnsIt(Top(t)) /\ s \in minted /\ s \in Sessions
                         /\ Top(t).kind = "initialize" => handler # "drain"
      OBVIOUS
    <2>1. Len(stack[t]) \in DOMAIN stack[t] /\ stack[t][Len(stack[t])] = Top(t)
      BY TopFrame
    <2>2. OwnsIt(Top(t)) /\ s \in minted
      BY <2>1 DEF OwnInv, FrameInv
    <2>3. Top(t).kind = "initialize" => handler # "drain"
      BY <2>1, InitializesInFlight
    <2>. QED
      BY <2>2, <2>3 DEF MintInv
  <1>3. ASSUME NEW audited \in BOOLEAN, Closed(t, audited) PROVE EndsInv'
    <2>1. Busy(t) /\ Top(t).pc = "close"
      BY <1>3, ClosedDown DEF Closing
    <2>2. Top(t).kind \in {"stateless", "hook"}
      BY <2>1, TopFrame DEF FrameInv
    <2>3. /\ s \in minted /\ s \in Sessions /\ ends[s] = 0
          /\ s \notin tracked /\ s \notin draining /\ s \notin issued
      BY <1>2, <2>1, <2>2 DEF OwnsIt, Owners
    <2>4. UNCHANGED <<tracked, issued, minted>> /\ ends' = [ends EXCEPT ![s] = @ + 1]
      BY <1>3 DEF Closed, CloseSession
    <2>5. ends' = [ends EXCEPT ![s] = 1]
      BY <2>3, <2>4 DEF EndsInv
    <2>. QED
      BY <1>1, <2>3, <2>4, <2>5 DEF EndsInv
  <1>4. CASE ends' = ends
    <2>1. \A z \in tracked' : handler # "drain" => ends[z] = 0
      BY <1>2, TablesGrow DEF EndsInv, OwnsIt, Owners
    <2>2. ASSUME NEW z \in issued', z \notin Elsewhere, z \notin reaped
          PROVE  ends[z] = 1 \/ z \in (IF handler = "drain" THEN draining ELSE tracked')
      <3>1. CASE z \in issued
        BY <2>2, <3>1, TablesGrow DEF EndsInv
      <3>2. CASE Busy(t) /\ z = s /\ Responded(t) /\ Top(t).kind = "initialize"
        <4>1. Top(t).pc # "open"
          BY <3>2 DEF Responded, At
        <4>. QED
          BY <1>2, <2>2, <3>2, <4>1, TablesGrow DEF OwnsIt, Owners
      <3>. QED
        BY <2>2, <3>1, <3>2, TablesGrow
    <2>. QED
      BY <1>1, <1>4, <2>1, <2>2 DEF EndsInv
  <1>. QED
    BY <1>3, <1>4, EndsBy

(* The drain ends each session it is to drain once: no call in progress has *)
(* any of them, for no request is in flight.                                *)
LEMMA LifeKeepsOwned ==
    ASSUME MintedInv, LifeInv, OwnInv, EndsInv, Life
    PROVE  OwnInv' /\ EndsInv'
  <1>. USE DEF MintedInv
  <1>1. UNCHANGED <<stack, issued, minted>>
    BY DEF Life, callVars
  <1>2. Alone'
    BY <1>1 DEF OwnInv, Alone
  <1>3. ASSUME UNCHANGED <<ends, tracked, draining, reaped>>, handler' = "drain" <=> handler = "drain"
        PROVE  OwnInv' /\ EndsInv'
    BY <1>1, <1>2, <1>3 DEF OwnInv, OwnsIt, EndsInv
  <1>4. CASE \/ SendStartup \/ WrappedApp \/ AppAnswered \/ StartGuard \/ RefuseToStart
             \/ AppStopped \/ JoinApp
    <2>1. UNCHANGED <<ends, tracked, draining, reaped>>
      BY <1>4 DEF SendStartup, WrappedApp, AppStarts, AppFails, AppEndsSilently, AppStops,
         AppAnswered, StartGuard, RefuseToStart, AppStopped, JoinApp, sessionState
    <2>2. handler' = "drain" <=> handler = "drain"
      BY <1>4 DEF SendStartup, WrappedApp, AppStarts, AppFails, AppEndsSilently, AppStops,
         AppAnswered, StartGuard, RefuseToStart, AppStopped, JoinApp, LifeInv, Phases
    <2>. QED
      BY <1>3, <2>1, <2>2
  <1>5. ASSUME NEW z \in Sessions, NEW audited \in BOOLEAN, DrainOne(z, audited)
        PROVE  OwnInv' /\ EndsInv'
    <2>1. /\ handler = "drain" /\ z \in draining /\ draining' = draining \ {z}
          /\ ends' = [ends EXCEPT ![z] = @ + 1] /\ UNCHANGED <<handler, tracked, reaped>>
      BY <1>5 DEF DrainOne, CloseSession, LeftToDrain, exchangeOfEvents
    <2>2. ends' = [ends EXCEPT ![z] = 1] /\ z \in minted
      <3>1. ends[z] = 0 /\ z \in minted
        BY <2>1 DEF EndsInv, MintInv
      <3>. QED
        BY <2>1, <3>1
    <2>3. ASSUME NEW t \in Tasks, NEW i \in DOMAIN stack[t], stack[t][i].kind \in Owners
          PROVE  stack[t][i].session # z
      <3>1. stack[t][i].kind # "initialize"
        BY <2>1, <2>3, InitializesInFlight
      <3>2. OwnsIt(stack[t][i])
        BY <2>3 DEF OwnInv
      <3>. QED
        BY <2>1, <3>1, <3>2 DEF OwnsIt
    <2>4. OwnInv'
      <3>1. \A t \in Tasks : \A i \in DOMAIN stack[t] :
                stack[t][i].kind \in Owners => ends'[stack[t][i].session] = ends[stack[t][i].session]
        BY <2>2, <2>3 DEF EndsInv
      <3>. QED
        BY <1>1, <1>2, <2>1, <3>1 DEF OwnInv, OwnsIt
    <2>. QED
      BY <1>1, <2>1, <2>2, <2>4 DEF EndsInv
  <1>6. CASE StopGuard
    <2>1. /\ handler = "drain" /\ draining = {} /\ handler' = "appStop" /\ tracked' = {}
          /\ UNCHANGED <<draining, ends, reaped>>
      BY <1>6 DEF StopGuard
    <2>2. OwnInv'
      BY <1>1, <1>2, <2>1, InitializesInFlight DEF OwnInv, OwnsIt
    <2>. QED
      BY <1>1, <2>1, <2>2 DEF EndsInv
  <1>7. CASE SendShutdown(~HttpInFlight)
    <2>1. /\ handler = "receive" /\ handler' = "drain" /\ draining' = tracked
          /\ UNCHANGED <<tracked, ends, reaped>>
      BY <1>7 DEF SendShutdown
    <2>2. OwnInv'
      BY <1>1, <1>2, <2>1 DEF OwnInv, OwnsIt
    <2>. QED
      BY <1>1, <2>1, <2>2 DEF EndsInv
  <1>8. ASSUME NEW zs \in SUBSET seen, Reap(zs) PROVE OwnInv' /\ EndsInv'
    <2>1. /\ tracked' = tracked \ zs /\ reaped' = reaped \cup zs
          /\ UNCHANGED <<handler, draining, ends>>
      BY <1>8 DEF Reap, exchangeOfEvents
    <2>. QED
      BY <1>1, <1>2, <2>1 DEF OwnInv, OwnsIt, EndsInv
  <1>. QED
    BY <1>4, <1>5, <1>6, <1>7, <1>8 DEF Life, LifeNext, Handler

(* What runs, and where the wrapped app is, once the handler has stopped    *)
(* the guard.                                                               *)
StopInv ==
    /\ client = "open" => deployment = "sidecar"
    /\ client \in {"none", "open"}
    /\ lifespans /\ deployment = "sidecar" /\ app = "ended" =>
          client = "none" /\ handler \in {"appStop", "join", "done"}
    /\ lifespans /\ handler = "appStop" =>
          /\ server = "stopping" /\ ~started /\ ~reaper /\ tracked = {}
          /\ app \in {"up", "ended"}
          /\ fromApp # <<>> => app = "ended"
    /\ lifespans /\ server = "stopped" =>
          /\ ~started /\ ~reaper /\ tracked = {}
          /\ app = "ended" /\ handler \in {"join", "done"}

LEMMA LifeKeepsStop ==
    ASSUME LifeInv, StopInv, Life
    PROVE  StopInv'
  <1>. USE DEF StopInv, LifeInv, Phases, AppReady, QueuesEmpty, Serving, setting
  <1>1. CASE SendStartup
    BY <1>1 DEF SendStartup, sessionState
  <1>2. CASE AppStarts
    BY <1>2 DEF AppStarts, sessionState
  <1>3. CASE AppFails
    BY <1>3 DEF AppFails, sessionState
  <1>4. CASE AppEndsSilently
    BY <1>4 DEF AppEndsSilently, sessionState
  <1>5. CASE AppStops
    <2>1. lifespans => handler \in {"appStop", "join", "done"}
      BY <1>5 DEF AppStops
    <2>. QED
      BY <1>5, <2>1 DEF AppStops, sessionState
  <1>6. CASE AppAnswered
    BY <1>6 DEF AppAnswered, Accepted, sessionState
  <1>7. CASE StartGuard
    BY <1>7 DEF StartGuard, sessionState
  <1>8. CASE RefuseToStart
    BY <1>8 DEF RefuseToStart, sessionState
  <1>9. ASSUME NEW z \in Sessions, NEW audited \in BOOLEAN, DrainOne(z, audited) PROVE StopInv'
    BY <1>9 DEF DrainOne, exchangeOfEvents
  <1>10. CASE StopGuard
    BY <1>10 DEF StopGuard
  <1>11. CASE AppStopped
    BY <1>11 DEF AppStopped, sessionState
  <1>12. CASE JoinApp
    BY <1>12 DEF JoinApp, sessionState
  <1>13. CASE SendShutdown(~HttpInFlight)
    BY <1>13 DEF SendShutdown
  <1>14. ASSUME NEW zs \in SUBSET seen, Reap(zs) PROVE StopInv'
    BY <1>14 DEF Reap, exchangeOfEvents
  <1>. QED
    BY <1>1, <1>2, <1>3, <1>4, <1>5, <1>6, <1>7, <1>8, <1>9, <1>10, <1>11, <1>12, <1>13, <1>14
    DEF Life, LifeNext, WrappedApp, Handler

LEMMA CallsKeepStop ==
    ASSUME StackTypes, LifeInv, StopInv, Next, ~Life
    PROVE  StopInv'
  <1>1. /\ UNCHANGED <<setting, exchangeOfEvents, started, reaper, draining>>
        /\ client' = client \/ (HttpInFlight /\ deployment = "sidecar" /\ client' = "open")
    BY LifeUntouched
  <1>2. ASSUME ~Serving PROVE tracked' = tracked
    <2>1. ASSUME NEW t \in Tasks, TaskStep(t) PROVE tracked' = tracked
      <3>1. ASSUME Busy(t), Top(t).kind = "initialize" PROVE FALSE
        <4>1. Len(stack[t]) \in DOMAIN stack[t] /\ stack[t][Len(stack[t])] = Top(t)
          BY <3>1, TopFrame
        <4>. QED
          BY <1>2, <3>1, <4>1, InitializesInFlight
      <3>. QED
        BY <2>1, <3>1, TablesGrow
    <2>. QED
      BY <2>1, StepsOfServer DEF lifeVars, sessionState
  <1>3. HttpInFlight => Serving /\ (lifespans => handler = "receive")
    BY DEF LifeInv, Phases, Serving
  <1>4. lifespans /\ (handler = "appStop" \/ server = "stopped") => ~Serving
    BY DEF LifeInv, Phases, Serving
  <1>. QED
    BY <1>1, <1>2, <1>3, <1>4 DEF StopInv, setting, exchangeOfEvents
EndsHoldInv == MintedInv /\ LifeInv /\ OwnInv /\ EndsInv /\ StopInv

(* Any number of sessions, tasks and nested calls: no call's session is     *)
(* another's, and close_session, run by the middleware's finally clause, by *)
(* the hook and by the drain, ends none twice.                              *)
THEOREM EndsHold == Spec => []EndsHoldInv
  <1>1. Init /\ MintedInv /\ LifeInv => EndsHoldInv
    <2>. SUFFICES ASSUME Init, MintedInv, LifeInv PROVE EndsHoldInv
      OBVIOUS
    <2>1. \A t \in Tasks : DOMAIN stack[t] = {}
      BY EmptySeq DEF Init, CallInit
    <2>2. OwnInv
      BY <2>1 DEF OwnInv, Alone
    <2>3. EndsInv
      BY DEF Init, CallInit, LifeInit, EndsInv
    <2>4. StopInv
      BY DEF Init, LifeInit, StopInv
    <2>. QED
      BY <2>2, <2>3, <2>4 DEF EndsHoldInv
  <1>2. EndsHoldInv /\ MintedInv' /\ LifeInv' /\ [Next]_vars => EndsHoldInv'
    <2>. SUFFICES ASSUME EndsHoldInv, MintedInv', LifeInv', [Next]_vars
                  PROVE  OwnInv' /\ EndsInv' /\ StopInv'
      BY DEF EndsHoldInv
    <2>1. CASE Life
      BY <2>1, LifeKeepsOwned, LifeKeepsStop DEF EndsHoldInv
    <2>2. ASSUME UNCHANGED <<lifeVars, callVars>> PROVE OwnInv' /\ EndsInv'
      <3>1. UNCHANGED <<handler, tracked, draining, ends, reaped, stack, issued, minted>>
        BY <2>2 DEF lifeVars, exchangeOfEvents, sessionState, callVars
      <3>. QED
        BY <3>1 DEF EndsHoldInv, OwnInv, Alone, OwnsIt, EndsInv
    <2>3. CASE Next /\ ~Life
      <3>1. StopInv'
        BY <2>3, CallsKeepStop DEF EndsHoldInv, MintedInv
      <3>2. OwnInv' /\ EndsInv'
        BY <2>2, <2>3, StepsOfServer, TaskKeepsOwned, TaskKeepsEnds DEF EndsHoldInv
      <3>. QED
        BY <3>1, <3>2
    <2>4. CASE UNCHANGED vars
      <3>1. UNCHANGED <<lifeVars, callVars>>
        BY <2>4 DEF vars
      <3>2. StopInv'
        BY <3>1 DEF lifeVars, setting, exchangeOfEvents, sessionState, EndsHoldInv, StopInv
      <3>. QED
        BY <2>2, <3>1, <3>2
    <2>. QED
      BY <2>1, <2>3, <2>4
  <1>3. StackTypes /\ LifeInv /\ [Next]_vars => LifeInv'
    BY LifeKept
  <1>. QED
    BY <1>1, <1>2, <1>3, LifeInit1, TypesHold, MintedHolds, PTL DEF Spec

(* _handle_lifespan: when the server is told of a clean stop, the engines,  *)
(* the reaper and the sidecar's client have stopped, nothing is tracked, and*)
(* every session a client of this worker holds has been ended or evicted.   *)
THEOREM StopsClean == Spec => []CleanStop
  <1>1. EndsHoldInv => CleanStop
    <2>. SUFFICES ASSUME EndsHoldInv, server = "stopped" PROVE CleanStop
      BY DEF CleanStop
    <2>1. lifespans
      BY DEF EndsHoldInv, LifeInv, Serving
    <2>2. /\ ~started /\ ~reaper /\ tracked = {} /\ app = "ended"
          /\ handler \in {"join", "done"}
      BY <2>1 DEF EndsHoldInv, StopInv
    <2>3. client = "none"
      BY <2>1, <2>2 DEF EndsHoldInv, StopInv
    <2>4. draining = {}
      BY <2>2 DEF EndsHoldInv, LifeInv
    <2>5. \A s \in issued \ (Elsewhere \cup reaped) : ends[s] = 1
      BY <2>2 DEF EndsHoldInv, EndsInv
    <2>. QED
      BY <2>2, <2>3, <2>4, <2>5 DEF CleanStop
  <1>. QED
    BY <1>1, EndsHold, PTL

(* Types, the nesting of calls, the ids in every table, the ends counted and*)
(* the caps on what is buffered and passed on, at any size.                 *)
THEOREM TypesOfServer == Spec => []TypeOK
  <1>1. EndsHoldInv /\ CheckedInv => TypeOK
    <2>. SUFFICES ASSUME EndsHoldInv, CheckedInv PROVE TypeOK
      OBVIOUS
    <2>1. StackTypes /\ DepthInv /\ MintInv /\ ends \in [Sessions -> 0..1]
      BY DEF EndsHoldInv, MintedInv, EndsInv
    <2>2. in # NoExchange =>
             /\ accumulated <= MaxBody
             /\ \A i \in DOMAIN out : Shows(i) => size <= MaxResponse
      BY DEF CheckedInv, Checked, Passable
    <2>. QED
      BY <2>1, <2>2 DEF TypeOK, StackTypes, DepthInv, MintInv, Shows
  <1>2. Init => CheckedInv
    BY CapsAssumption DEF Init, ExchangeInit, CheckedInv, Checked
  <1>. QED
    BY <1>1, <1>2, EndsHold, CheckedKept, PTL DEF Spec
=============================================================================
