------------------------------ MODULE ConfirmGate ------------------------------
(***************************************************************************)
(* engines/authz.py (T2): the two-stage commit of destructive calls.  An   *)
(* authorized call without confirmation is denied and makes a token        *)
(* pending for its binding (session or principal, tool and arguments); the *)
(* call that brings the token back is let through, once.                   *)
(*                                                                         *)
(* _TokenStore.issue draws the token and its expiry before it takes the    *)
(* thread lock, consume reads the clock inside it.                         *)
(***************************************************************************)
EXTENDS Integers, Sequences, FiniteSets, ToolPolicy

CONSTANTS
    Threads,
    Requests,
    Caller, Call,    \* who makes each request, and what it asks for
    DefaultDeny,
    NoEntry,         \* nothing is pending
    Ttl,             \* destructive_token_ttl_seconds
    MaxEntries, MaxPerOwner, MaxPerPrincipal,
    MaxIssued,       \* bound: tokens ever drawn
    MaxTime          \* bound: seconds that pass

(* The key of a request in the store, as the requests that have the same.   *)
Key ==
    [r \in Requests |->
        {q \in Requests : Binding(Caller[q], Call[q]) = Binding(Caller[r], Call[r])}]
Keys == {Key[r] : r \in Requests}
SameOwner ==
    [r \in Requests |-> {q \in Requests : Owner(Caller[q]) = Owner(Caller[r])}]
SamePrincipal ==
    [r \in Requests |-> {q \in Requests : Account(Caller[q]) = Account(Caller[r])}]

(* An entry's owner and principal are those of the request it was made for. *)
Entry == [token : 1..MaxIssued, expiry : Nat, request : Requests]

ASSUME CapsAssumption ==
    /\ MaxEntries \in Nat \ {0} /\ MaxPerOwner \in Nat \ {0} /\ MaxPerPrincipal \in Nat \ {0}
    /\ Ttl \in Nat
ASSUME BoundsAssumption == MaxIssued \in Nat /\ MaxTime \in Nat
ASSUME CallersAssumption == \A r \in Requests : Caller[r].stateless \in BOOLEAN
ASSUME NoEntryAssumption == NoEntry \notin Entry

VARIABLES
    clock,        \* time.monotonic()
    pending,      \* _entries
    thread,       \* what each thread is about to store in issue()
    (* history *)
    drawn,        \* for which request and when each token was drawn: the n-th
                  \* one is the number n
    latest,       \* the last token made pending for each binding, 0 before
    confirmed     \* the requests let through with each token

vars == <<clock, pending, thread, drawn, latest, confirmed>>

Idle == [pc |-> "idle"]

Init ==
    /\ clock = 0
    /\ pending = [b \in Keys |-> NoEntry]
    /\ thread = [t \in Threads |-> Idle]
    /\ drawn = <<>>
    /\ latest = [b \in Keys |-> 0]
    /\ confirmed = [n \in 1..MaxIssued |-> <<>>]

Tick ==
    /\ clock < MaxTime
    /\ clock' = clock + 1
    /\ UNCHANGED <<pending, thread, drawn, latest, confirmed>>
-------------------------------------------------------------------------------
(* issue.                                                                   *)

Confirmable ==
    {r \in Requests : /\ Authorized(Caller[r], Call[r], DefaultDeny)
                      /\ Destructive(Call[r]) /\ Bindable(Caller[r])}

BeginIssue(t, r) ==
    /\ r \in Confirmable
    /\ thread[t] = Idle /\ Len(drawn) < MaxIssued
    /\ drawn' = Append(drawn, [request |-> r, at |-> clock])
    /\ thread' = [thread EXCEPT ![t] = [pc |-> "issue", request |-> r,
                                         token |-> Len(drawn'), expiry |-> clock + Ttl]]
    /\ UNCHANGED <<clock, pending, latest, confirmed>>

Pending(store) == {b \in Keys : store[b] # NoEntry}

(* The mutant leaves what expires at this instant.                          *)
UnexpiredOrNow == [b \in Keys |-> IF b \in Pending(pending) /\ pending[b].expiry < clock
                                      THEN NoEntry ELSE pending[b]]
Unexpired == [b \in Keys |-> IF b \in Pending(pending) /\ pending[b].expiry <= clock
                                 THEN NoEntry ELSE pending[b]]

OwnedLike(store, r) ==
    {b \in Pending(store) : store[b].request \in SameOwner[r]}
HeldLike(store, r) ==
    {b \in Pending(store) : store[b].request \in SamePrincipal[r]}

(* A binding with something pending is served whatever the quotas.  The     *)
(* mutant does not count the owner's.                                       *)
WithinSharedQuotas(r, store) ==
    \/ Key[r] \in Pending(store)
    \/ /\ Cardinality(HeldLike(store, r)) < MaxPerPrincipal
       /\ Cardinality(Pending(store)) < MaxEntries
WithinQuotas(r, store) ==
    \/ Key[r] \in Pending(store)
    \/ /\ Cardinality(OwnedLike(store, r)) < MaxPerOwner
       /\ Cardinality(HeldLike(store, r)) < MaxPerPrincipal
       /\ Cardinality(Pending(store)) < MaxEntries

(* Either way the call is denied.                                           *)
IssueStored(t) ==
    LET i == thread[t]
        b == Key[i.request]
    IN  /\ i.pc = "issue" /\ WithinQuotas(i.request, Unexpired)
        /\ pending' = [Unexpired EXCEPT ![b] =
                         [token |-> i.token, expiry |-> i.expiry, request |-> i.request]]
        /\ latest' = [latest EXCEPT ![b] = i.token]
        /\ thread' = [thread EXCEPT ![t] = Idle]
        /\ UNCHANGED <<clock, drawn, confirmed>>

IssueRefused(t) ==
    /\ thread[t].pc = "issue" /\ ~ WithinQuotas(thread[t].request, Unexpired)
    /\ pending' = Unexpired
    /\ thread' = [thread EXCEPT ![t] = Idle]
    /\ UNCHANGED <<clock, drawn, latest, confirmed>>
-------------------------------------------------------------------------------
(* consume.                                                                 *)

(* The mutants leave the entry in place, and do not look at the expiry.     *)
AfterUseKept(b) == pending
AfterUse(b) == [pending EXCEPT ![b] = NoEntry]

ExpiredNever(b) == FALSE
Expired(b) == clock > pending[b].expiry

Confirm(r, n) ==
    LET b == Key[r]
    IN  /\ r \in Confirmable
        /\ b \in Pending(pending) /\ ~ Expired(b) /\ pending[b].token = n
        /\ pending' = AfterUse(b)
        /\ confirmed' = [confirmed EXCEPT ![n] = Append(@, r)]
        /\ UNCHANGED <<clock, thread, drawn, latest>>

(* A wrong token leaves the entry alone; any token finds out that it has    *)
(* expired.                                                                 *)
ConfirmExpired(r) ==
    LET b == Key[r]
    IN  /\ r \in Confirmable
        /\ b \in Pending(pending) /\ Expired(b)
        /\ pending' = [pending EXCEPT ![b] = NoEntry]
        /\ UNCHANGED <<clock, thread, drawn, latest, confirmed>>

Next ==
    \/ Tick
    \/ \E t \in Threads :
        \/ \E r \in Requests : BeginIssue(t, r)
        \/ IssueStored(t)
        \/ IssueRefused(t)
    \/ \E r \in Requests :
        \/ \E n \in DOMAIN drawn : Confirm(r, n)
        \/ ConfirmExpired(r)

Spec == Init /\ [][Next]_vars
-------------------------------------------------------------------------------
(* Typing, and the quotas: the store never holds more than max_entries      *)
(* confirmations, no owner more than its share, nor a principal over all    *)
(* its sessions, where each binding is used by one principal (a session     *)
(* whose requests are authenticated as several may replace a pending entry  *)
(* on the account of another).                                              *)
TypeOK ==
    /\ clock \in Nat
    /\ pending \in [Keys -> Entry \cup {NoEntry}]
    /\ thread \in [Threads -> {Idle} \cup [pc : {"issue"}, request : Requests,
                                            token : 1..MaxIssued, expiry : Nat]]
    /\ drawn \in Seq([request : Requests, at : Nat]) /\ Len(drawn) <= MaxIssued
    /\ latest \in [Keys -> 0..Len(drawn)]
    /\ confirmed \in [1..MaxIssued -> Seq(Requests)]
    /\ Cardinality(Pending(pending)) <= MaxEntries
    /\ \A r \in Requests : Cardinality(OwnedLike(pending, r)) <= MaxPerOwner
    /\ (\A r, q \in Requests : Key[r] = Key[q] => Account(Caller[r]) = Account(Caller[q]))
       => \A r \in Requests : Cardinality(HeldLike(pending, r)) <= MaxPerPrincipal

(* T2-004, _confirm_binding: a destructive call is let through when that    *)
(* tool was asked for with those arguments before, in the same session or,  *)
(* without sessions, by the same principal, within the ttl, and only while  *)
(* no later confirmation has been made pending for it; and a confirmation   *)
(* is accepted once, whatever is reissued meanwhile and in whichever order  *)
(* the threads store what they have drawn.  (The method is not compared: a  *)
(* tool and a prompt of one name and policy are one to the gate.)           *)
SamePlan(r, q) ==
    LET c == Caller[r] d == Caller[q]
    IN  /\ Subject(Call[r]) = Subject(Call[q]) /\ Call[r].tenant = Call[q].tenant
        /\ Call[r].arguments = Call[q].arguments
        /\ c.stateless = d.stateless
        /\ ~ c.stateless => c.session = d.session
        /\ c.stateless => c.user = d.user /\ c.user # Absent /\ c.tenant = d.tenant
ConfirmsLatestPlan ==
    [][\A n \in 1..MaxIssued :
        confirmed'[n] # confirmed[n] =>
            LET r == confirmed'[n][Len(confirmed'[n])]
            IN  /\ confirmed[n] = <<>>
                /\ SamePlan(drawn[n].request, r) /\ latest[Key[r]] = n
                /\ clock - drawn[n].at <= Ttl]_vars

(* A call is turned away only by confirmations that can still be given:     *)
(* those that have run out take no room from anybody.                       *)
RefusedByLiveOnly ==
    [][\A t \in Threads :
        thread[t].pc = "issue" /\ thread'[t] = Idle /\ latest' = latest =>
            LET live == {b \in Pending(pending) : pending[b].expiry > clock}
                r == thread[t].request
            IN  \/ Cardinality(live) >= MaxEntries
                \/ Cardinality(live \cap OwnedLike(pending, r)) >= MaxPerOwner
                \/ Cardinality(live \cap HeldLike(pending, r)) >= MaxPerPrincipal]_vars
===============================================================================
