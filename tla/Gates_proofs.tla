------------------------------ MODULE Gates_proofs ------------------------------
(***************************************************************************)
(* Theorems about the gates a request passes.  About ConfirmGate, for any  *)
(* requests, callers, policies, quotas and ttl: the quotas hold, a         *)
(* confirmation is good once, for the plan it was last asked for, and only *)
(* live confirmations turn others away.  About RequestGates, for any       *)
(* schemas, arguments, headers and _meta: the headers of a request that is *)
(* passed on say what the server runs, no claim in _meta is trusted,       *)
(* conforming clients are served, and what is served is listed.            *)
(***************************************************************************)
EXTENDS ConfirmGate, RequestGates, FiniteSetTheorems, SequenceTheorems,
        WellFoundedInduction, TLAPS

Issuing == [pc : {"issue"}, request : Requests, token : 1..MaxIssued, expiry : Nat]
Store == [Keys -> Entry \cup {NoEntry}]
Typed ==
    /\ clock \in Nat
    /\ pending \in Store
    /\ thread \in [Threads -> {Idle} \cup Issuing]
    /\ drawn \in Seq([request : Requests, at : Nat]) /\ Len(drawn) <= MaxIssued
    /\ latest \in [Keys -> 0..Len(drawn)]
    /\ confirmed \in [1..MaxIssued -> Seq(Requests)]

(* Each binding is used by one principal.                                   *)
OnePrincipal == \A r, q \in Requests : Key[r] = Key[q] => Account(Caller[r]) = Account(Caller[q])

Within(store) ==
    /\ IsFiniteSet(Pending(store)) /\ Cardinality(Pending(store)) <= MaxEntries
    /\ \A r \in Requests : Cardinality(OwnedLike(store, r)) <= MaxPerOwner
    /\ OnePrincipal => \A r \in Requests : Cardinality(HeldLike(store, r)) <= MaxPerPrincipal

(* A token that waits to be stored or used was drawn for its request, and   *)
(* has not confirmed anything.                                              *)
Good(n, r, expiry) ==
    /\ n \in 1..Len(drawn) /\ confirmed[n] = <<>>
    /\ drawn[n].request = r /\ expiry = drawn[n].at + Ttl

(* Every entry is filed under its request's binding and is the last made    *)
(* pending there.                                                           *)
Filed ==
    \A b \in Pending(pending) :
        /\ Key[pending[b].request] = b /\ latest[b] = pending[b].token
        /\ Good(pending[b].token, pending[b].request, pending[b].expiry)

(* A token that a thread has drawn and not stored is no one else's.         *)
Drawn ==
    /\ \A t \in Threads : thread[t].pc = "issue" =>
          /\ Good(thread[t].token, thread[t].request, thread[t].expiry)
          /\ \A b \in Keys : latest[b] # thread[t].token
    /\ \A t, u \in Threads :
          thread[t].pc = "issue" /\ thread[u].pc = "issue" /\ t # u => thread[t].token # thread[u].token
    /\ \A n \in 1..MaxIssued : n > Len(drawn) => confirmed[n] = <<>>

Inv == Typed /\ Within(pending) /\ Filed /\ Drawn
-----------------------------------------------------------------------------
(* Requests with one key ask for the same, in the same session or for the   *)
(* same principal.                                                          *)
LEMMA KeyMeans ==
    ASSUME NEW r \in Requests, NEW q \in Requests, Key[r] = Key[q]
    PROVE  Binding(Caller[r], Call[r]) = Binding(Caller[q], Call[q])
  <1>1. r \in Key[r]
    BY DEF Key
  <1>. QED
    BY <1>1 DEF Key

LEMMA KeyOwner ==
    ASSUME NEW r \in Requests, NEW q \in Requests, Key[r] = Key[q]
    PROVE  Owner(Caller[r]) = Owner(Caller[q])
  BY KeyMeans DEF Binding

LEMMA GoodToken ==
    ASSUME Typed, NEW n, NEW r, NEW x, Good(n, r, x)
    PROVE  n \in 1..MaxIssued
  <1>1. Len(drawn) \in Nat /\ Len(drawn) <= MaxIssued /\ MaxIssued \in Nat
    BY BoundsAssumption DEF Typed
  <1>. QED
    BY <1>1 DEF Good

LEMMA KeyIsKey == \A r \in Requests : Key[r] \in Keys
  BY DEF Keys

LEMMA OwnersAgree ==
    ASSUME NEW r \in Requests, NEW q \in Requests, r \in SameOwner[q]
    PROVE  SameOwner[q] = SameOwner[r]
  BY DEF SameOwner

LEMMA PrincipalsAgree ==
    ASSUME NEW r \in Requests, NEW q \in Requests, r \in SamePrincipal[q]
    PROVE  SamePrincipal[q] = SamePrincipal[r]
  BY DEF SamePrincipal

(* Taking entries out of a store keeps it within the quotas.                *)
LEMMA WithinShrinks ==
    ASSUME NEW store \in Store, Within(store), NEW less \in Store,
           \A b \in Keys : less[b] \in {store[b], NoEntry}
    PROVE  Within(less)
  <1>1. /\ Pending(less) \in SUBSET Pending(store)
        /\ \A b \in Pending(less) : less[b] = store[b]
    BY DEF Pending
  <1>2. /\ \A r : OwnedLike(less, r) \in SUBSET OwnedLike(store, r)
        /\ \A r : HeldLike(less, r) \in SUBSET HeldLike(store, r)
        /\ \A r : OwnedLike(store, r) \in SUBSET Pending(store)
        /\ \A r : HeldLike(store, r) \in SUBSET Pending(store)
    BY <1>1 DEF OwnedLike, HeldLike
  <1>3. IsFiniteSet(Pending(store))
    BY DEF Within
  <1>4. /\ \A r : IsFiniteSet(OwnedLike(store, r))
        /\ \A r : IsFiniteSet(HeldLike(store, r))
    BY <1>2, <1>3, FS_Subset
  <1>5. /\ IsFiniteSet(Pending(less))
        /\ Cardinality(Pending(less)) <= Cardinality(Pending(store))
        /\ Cardinality(Pending(less)) \in Nat /\ Cardinality(Pending(store)) \in Nat
    BY <1>1, <1>3, FS_Subset, FS_CardinalityType
  <1>6. ASSUME NEW r PROVE
           /\ Cardinality(OwnedLike(less, r)) <= Cardinality(OwnedLike(store, r))
           /\ Cardinality(HeldLike(less, r)) <= Cardinality(HeldLike(store, r))
           /\ Cardinality(OwnedLike(less, r)) \in Nat /\ Cardinality(OwnedLike(store, r)) \in Nat
           /\ Cardinality(HeldLike(less, r)) \in Nat /\ Cardinality(HeldLike(store, r)) \in Nat
    BY <1>2, <1>4, FS_Subset, FS_CardinalityType
  <1>7. Cardinality(Pending(less)) <= MaxEntries
    BY <1>5, CapsAssumption DEF Within
  <1>8. ASSUME NEW r \in Requests
        PROVE  /\ Cardinality(OwnedLike(less, r)) <= MaxPerOwner
               /\ OnePrincipal => Cardinality(HeldLike(less, r)) <= MaxPerPrincipal
    <2>1. /\ Cardinality(OwnedLike(store, r)) <= MaxPerOwner
          /\ OnePrincipal => Cardinality(HeldLike(store, r)) <= MaxPerPrincipal
      BY DEF Within
    <2>. QED
      BY <1>6, <2>1, CapsAssumption
  <1>. QED
    BY <1>5, <1>7, <1>8 DEF Within

(* issue under the lock: the quotas are looked at for the request that is   *)
(* stored, and what it replaces is on the same accounts.                    *)
LEMMA WithinGrows ==
    ASSUME NEW store \in Store, Within(store),
           \A b \in Pending(store) : Key[store[b].request] = b,
           NEW e \in Entry, WithinQuotas(e.request, store)
    PROVE  Within([store EXCEPT ![Key[e.request]] = e])
  <1>. DEFINE r == e.request
              b == Key[r]
              new == [store EXCEPT ![b] = e]
  <1>1. /\ r \in Requests /\ b \in Keys /\ e # NoEntry
        /\ \A c \in Pending(store) : store[c].request \in Requests
    BY KeyIsKey, NoEntryAssumption DEF Entry, Store, Pending
  <1>2. /\ Pending(new) = Pending(store) \cup {b}
        /\ new[b] = e /\ \A c \in Keys \ {b} : new[c] = store[c]
    BY <1>1 DEF Pending, Store
  <1>3. IsFiniteSet(Pending(store)) /\ Cardinality(Pending(store)) \in Nat
    BY FS_CardinalityType DEF Within
  <1>. HIDE DEF r, b, new
  <1>4. CASE b \in Pending(store)
    <2>1. store[b].request \in Requests /\ Key[store[b].request] = Key[r]
      BY <1>1, <1>4 DEF b
    <2>2. \A q \in Requests : store[b].request \in SameOwner[q] <=> r \in SameOwner[q]
      BY <1>1, <2>1, KeyOwner DEF SameOwner
    <2>3. OnePrincipal =>
            \A q \in Requests : store[b].request \in SamePrincipal[q] <=> r \in SamePrincipal[q]
      BY <1>1, <2>1 DEF OnePrincipal, SamePrincipal
    <2>4. Pending(new) = Pending(store)
      BY <1>2, <1>4
    <2>5. \A q \in Requests : OwnedLike(new, q) = OwnedLike(store, q)
      BY <1>2, <2>2, <2>4 DEF OwnedLike, Pending, r
    <2>6. OnePrincipal => \A q \in Requests : HeldLike(new, q) = HeldLike(store, q)
      BY <1>2, <2>3, <2>4 DEF HeldLike, Pending, r
    <2>. QED
      BY <2>4, <2>5, <2>6 DEF Within, new, b, r
  <1>5. CASE b \notin Pending(store)
    <2>1. /\ Cardinality(OwnedLike(store, r)) < MaxPerOwner
          /\ Cardinality(HeldLike(store, r)) < MaxPerPrincipal
          /\ Cardinality(Pending(store)) < MaxEntries
      BY <1>5 DEF WithinQuotas, b, r
    <2>2. /\ \A q : OwnedLike(store, q) \in SUBSET Pending(store)
          /\ \A q : HeldLike(store, q) \in SUBSET Pending(store)
      BY DEF OwnedLike, HeldLike
    <2>3. /\ \A q : IsFiniteSet(OwnedLike(store, q)) /\ b \notin OwnedLike(store, q)
          /\ \A q : IsFiniteSet(HeldLike(store, q)) /\ b \notin HeldLike(store, q)
      BY <1>3, <1>5, <2>2, FS_Subset
    <2>4. /\ IsFiniteSet(Pending(new)) /\ Cardinality(Pending(new)) = Cardinality(Pending(store)) + 1
      BY <1>2, <1>3, <1>5, FS_AddElement
    <2>5. Cardinality(Pending(new)) <= MaxEntries
      BY <1>3, <2>1, <2>4, CapsAssumption
    <2>6. ASSUME NEW q \in Requests PROVE Cardinality(OwnedLike(new, q)) <= MaxPerOwner
      <3>1. OwnedLike(new, q) = IF r \in SameOwner[q] THEN OwnedLike(store, q) \cup {b}
                                ELSE OwnedLike(store, q)
        BY <1>2, <1>5 DEF OwnedLike, Pending, r
      <3>2. CASE r \in SameOwner[q]
        <4>1. OwnedLike(store, q) = OwnedLike(store, r)
          BY <1>1, <3>2, OwnersAgree DEF OwnedLike
        <4>2. /\ Cardinality(OwnedLike(new, q)) = Cardinality(OwnedLike(store, r)) + 1
              /\ Cardinality(OwnedLike(store, r)) \in Nat
          BY <2>3, <3>1, <3>2, <4>1, FS_AddElement, FS_CardinalityType
        <4>. QED
          BY <2>1, <4>2, CapsAssumption
      <3>3. CASE r \notin SameOwner[q]
        BY <3>1, <3>3 DEF Within
      <3>. QED
        BY <3>2, <3>3
    <2>7. ASSUME NEW q \in Requests, OnePrincipal
          PROVE  Cardinality(HeldLike(new, q)) <= MaxPerPrincipal
      <3>1. HeldLike(new, q) = IF r \in SamePrincipal[q] THEN HeldLike(store, q) \cup {b}
                               ELSE HeldLike(store, q)
        BY <1>2, <1>5 DEF HeldLike, Pending, r
      <3>2. CASE r \in SamePrincipal[q]
        <4>1. HeldLike(store, q) = HeldLike(store, r)
          BY <1>1, <3>2, PrincipalsAgree DEF HeldLike
        <4>2. /\ Cardinality(HeldLike(new, q)) = Cardinality(HeldLike(store, r)) + 1
              /\ Cardinality(HeldLike(store, r)) \in Nat
          BY <2>3, <3>1, <3>2, <4>1, FS_AddElement, FS_CardinalityType
        <4>. QED
          BY <2>1, <4>2, CapsAssumption
      <3>3. CASE r \notin SamePrincipal[q]
        BY <2>7, <3>1, <3>3 DEF Within
      <3>. QED
        BY <3>2, <3>3
    <2>. QED
      BY <2>4, <2>5, <2>6, <2>7 DEF Within, new, b, r
  <1>. QED
    BY <1>4, <1>5

LEMMA UnexpiredStore ==
    ASSUME Typed
    PROVE  /\ Unexpired \in Store
           /\ \A b \in Keys : Unexpired[b] \in {pending[b], NoEntry}
           /\ Pending(Unexpired) = {b \in Pending(pending) : pending[b].expiry > clock}
           /\ \A b \in Pending(Unexpired) : Unexpired[b] = pending[b]
  <1>1. \A b \in Pending(pending) : pending[b].expiry \in Nat
    BY DEF Typed, Store, Pending, Entry
  <1>. QED
    BY <1>1 DEF Typed, Store, Unexpired, Pending
-----------------------------------------------------------------------------
LEMMA ThreadTypes ==
    ASSUME Inv, NEW t \in Threads, thread[t].pc = "issue"
    PROVE  /\ thread[t] \in Issuing /\ thread[t].request \in Requests
           /\ thread[t].token \in 1..MaxIssued /\ thread[t].expiry \in Nat
  BY DEF Inv, Typed, Idle, Issuing

(* Entries are taken out; a token that is used confirms, and none but it.   *)
LEMMA TakenStep ==
    ASSUME Inv, pending' \in Store, \A b \in Keys : pending'[b] \in {pending[b], NoEntry},
           UNCHANGED <<clock, drawn, latest>>,
           thread' \in [Threads -> {Idle} \cup Issuing],
           \A t \in Threads : thread'[t] \in {thread[t], Idle},
           confirmed' \in [1..MaxIssued -> Seq(Requests)],
           \A n \in 1..MaxIssued : confirmed'[n] # confirmed[n] =>
               /\ n <= Len(drawn)
               /\ \A b \in Pending(pending') : pending[b].token # n
               /\ \E b \in Keys : latest[b] = n
    PROVE  Inv'
  <1>1. /\ Pending(pending') \subseteq Pending(pending)
        /\ \A b \in Pending(pending') : pending'[b] = pending[b]
    BY DEF Pending
  <1>2. Typed'
    BY DEF Inv, Typed
  <1>3. Within(pending)'
    <2>1. pending \in Store /\ Within(pending)
      BY DEF Inv, Typed
    <2>2. Within(pending')
      BY <2>1, WithinShrinks
    <2>. QED
      BY <2>2
  <1>4. Filed'
    <2>. SUFFICES ASSUME NEW b \in Pending(pending')
                  PROVE  /\ Key[pending[b].request] = b /\ latest[b] = pending[b].token
                         /\ Good(pending[b].token, pending[b].request, pending[b].expiry)'
      BY <1>1 DEF Filed, Good
    <2>1. /\ Key[pending[b].request] = b /\ latest[b] = pending[b].token
          /\ Good(pending[b].token, pending[b].request, pending[b].expiry)
      BY <1>1 DEF Inv, Filed
    <2>2. pending[b].token \in 1..MaxIssued
      BY <2>1, GoodToken DEF Inv
    <2>. QED
      BY <2>1, <2>2, <1>1 DEF Good
  <1>5. Drawn'
    <2>1. \A t \in Threads : thread'[t].pc = "issue" => thread'[t] = thread[t]
      BY DEF Idle
    <2>2. \A t \in Threads : thread[t].pc = "issue" =>
             thread[t].token \in 1..MaxIssued /\ confirmed'[thread[t].token] = confirmed[thread[t].token]
      BY ThreadTypes DEF Inv, Drawn
    <2>. QED
      BY <2>1, <2>2 DEF Inv, Typed, Drawn, Good
  <1>. QED
    BY <1>2, <1>3, <1>4, <1>5 DEF Inv

LEMMA IssueRefusedStep ==
    ASSUME Inv, NEW t \in Threads, IssueRefused(t)
    PROVE  Inv'
  <1>1. Unexpired \in Store /\ \A b \in Keys : Unexpired[b] \in {pending[b], NoEntry}
    BY UnexpiredStore DEF Inv
  <1>2. /\ thread' = [thread EXCEPT ![t] = Idle] /\ pending' = Unexpired
        /\ UNCHANGED <<clock, drawn, latest, confirmed>>
    BY DEF IssueRefused
  <1>3. /\ thread' \in [Threads -> {Idle} \cup Issuing]
        /\ \A u \in Threads : thread'[u] \in {thread[u], Idle}
    BY <1>2 DEF Inv, Typed
  <1>. QED
    BY <1>1, <1>2, <1>3, TakenStep DEF Inv, Typed

LEMMA ConfirmExpiredStep ==
    ASSUME Inv, NEW r \in Requests, ConfirmExpired(r)
    PROVE  Inv'
  <1>1. /\ pending' \in Store /\ \A b \in Keys : pending'[b] \in {pending[b], NoEntry}
        /\ UNCHANGED <<clock, thread, drawn, latest, confirmed>>
    BY DEF ConfirmExpired, Inv, Typed, Store
  <1>. QED
    BY <1>1, TakenStep DEF Inv, Typed

LEMMA ConfirmStep ==
    ASSUME Inv, NEW r \in Requests, NEW n \in DOMAIN drawn, Confirm(r, n)
    PROVE  Inv'
  <1>1. /\ Key[r] \in Pending(pending) /\ pending[Key[r]].token = n
        /\ pending' = [pending EXCEPT ![Key[r]] = NoEntry]
        /\ confirmed' = [confirmed EXCEPT ![n] = Append(@, r)]
        /\ UNCHANGED <<clock, thread, drawn, latest>>
    BY DEF Confirm, AfterUse
  <1>2. n \in 1..Len(drawn) /\ n \in 1..MaxIssued /\ Key[r] \in Keys
    BY KeyIsKey, BoundsAssumption DEF Inv, Typed
  <1>3. pending' \in Store /\ \A b \in Keys : pending'[b] \in {pending[b], NoEntry}
    BY <1>1 DEF Inv, Typed, Store
  <1>4. confirmed' \in [1..MaxIssued -> Seq(Requests)]
    BY <1>1, <1>2 DEF Inv, Typed
  <1>5. \A m \in 1..MaxIssued : confirmed'[m] # confirmed[m] => m = n
    BY <1>1, <1>2 DEF Inv, Typed
  <1>6. latest[Key[r]] = n
    BY <1>1 DEF Inv, Filed
  <1>7. ASSUME NEW b \in Pending(pending') PROVE pending[b].token # n
    <2>1. b # Key[r] /\ b \in Pending(pending)
      BY <1>1 DEF Pending, Inv, Typed, Store
    <2>2. /\ Key[pending[b].request] = b
          /\ drawn[pending[b].token].request = pending[b].request
          /\ Key[pending[Key[r]].request] = Key[r]
          /\ drawn[n].request = pending[Key[r]].request
      BY <1>1, <2>1 DEF Inv, Filed, Good
    <2>. QED
      BY <2>1, <2>2
  <1>8. thread' \in [Threads -> {Idle} \cup Issuing]
    BY <1>1 DEF Inv, Typed
  <1>9. ASSUME NEW m \in 1..MaxIssued, confirmed'[m] # confirmed[m]
        PROVE  /\ m <= Len(drawn) /\ \A b \in Pending(pending') : pending[b].token # m
               /\ \E b \in Keys : latest[b] = m
    BY <1>2, <1>5, <1>6, <1>7, <1>9 DEF Inv, Typed
  <1>10. \A t \in Threads : thread'[t] \in {thread[t], Idle}
    BY <1>1
  <1>. QED
    BY <1>1, <1>3, <1>4, <1>8, <1>9, <1>10, TakenStep

LEMMA BeginIssueStep ==
    ASSUME Inv, NEW t \in Threads, NEW r \in Requests, BeginIssue(t, r)
    PROVE  Inv'
  <1>. DEFINE n == Len(drawn) + 1
              d == [request |-> r, at |-> clock]
              i == [pc |-> "issue", request |-> r, token |-> n, expiry |-> clock + Ttl]
  <1>1. /\ Len(drawn) \in Nat /\ Len(drawn) < MaxIssued /\ MaxIssued \in Nat /\ clock \in Nat
        /\ Ttl \in Nat /\ n \in 1..MaxIssued
    BY BoundsAssumption, CapsAssumption DEF BeginIssue, Inv, Typed
  <1>2. /\ drawn' = Append(drawn, d)
        /\ UNCHANGED <<clock, pending, latest, confirmed>>
    BY DEF BeginIssue
  <1>3. /\ Len(drawn') = n /\ drawn'[n] = d
        /\ \A m \in 1..Len(drawn) : drawn'[m] = drawn[m]
        /\ drawn' \in Seq([request : Requests, at : Nat])
    <2>1. d \in [request : Requests, at : Nat] /\ drawn \in Seq([request : Requests, at : Nat])
      BY <1>1 DEF Inv, Typed
    <2>. HIDE DEF d
    <2>. QED
      BY <1>1, <1>2, <2>1
  <1>4. thread' = [thread EXCEPT ![t] = i] /\ i \in Issuing
    BY <1>1, <1>3 DEF BeginIssue, Issuing
  <1>5. i.pc = "issue" /\ i.token = n /\ i.request = r /\ i.expiry = clock + Ttl
    OBVIOUS
  <1>6. d.request = r /\ d.at = clock
    OBVIOUS
  <1>. HIDE DEF d, i
  <1>7. \A u \in Threads : thread'[u] = IF u = t THEN i ELSE thread[u]
    BY <1>4 DEF Inv, Typed
  <1>8. Typed'
    <2>1. thread' \in [Threads -> {Idle} \cup Issuing]
      BY <1>4 DEF Inv, Typed
    <2>2. latest' \in [Keys -> 0..Len(drawn')]
      <3>1. \A b \in Keys : latest[b] \in 0..Len(drawn')
        BY <1>1, <1>3 DEF Inv, Typed
      <3>. QED
        BY <1>2, <3>1 DEF Inv, Typed
    <2>. QED
      BY <1>1, <1>2, <1>3, <2>1, <2>2 DEF Inv, Typed
  <1>9. ASSUME NEW m, NEW q, NEW e, Good(m, q, e) PROVE Good(m, q, e)'
    BY <1>1, <1>2, <1>3, <1>9 DEF Good
  <1>10. Within(pending)'
    BY <1>2 DEF Inv, Within, Pending, OwnedLike, HeldLike
  <1>11. Filed'
    <2>1. ASSUME NEW b \in Pending(pending)
          PROVE  /\ Key[pending[b].request] = b /\ latest[b] = pending[b].token
                 /\ Good(pending[b].token, pending[b].request, pending[b].expiry)'
      <3>1. /\ Key[pending[b].request] = b /\ latest[b] = pending[b].token
            /\ Good(pending[b].token, pending[b].request, pending[b].expiry)
        BY DEF Inv, Filed
      <3>. QED
        BY <1>1, <1>2, <1>3, <3>1 DEF Good
    <2>. QED
      BY <1>2, <2>1 DEF Filed, Good, Pending
  <1>12. Drawn'
    <2>1. /\ n \in 1..Len(drawn') /\ confirmed'[n] = <<>>
          /\ drawn'[n].request = r /\ clock + Ttl = drawn'[n].at + Ttl
      BY <1>1, <1>2, <1>3, <1>6 DEF Inv, Drawn
    <2>2. ASSUME NEW u \in Threads, thread'[u].pc = "issue"
          PROVE  /\ Good(thread[u].token, thread[u].request, thread[u].expiry)'
                 /\ \A b \in Keys : latest'[b] # thread'[u].token
      <3>1. CASE u = t
        <4>1. \A b \in Keys : latest[b] # n
          BY <1>1 DEF Inv, Typed
        <4>. QED
          BY <1>2, <1>5, <1>7, <2>1, <3>1, <4>1 DEF Good
      <3>2. CASE u # t
        <4>1. thread'[u] = thread[u]
          BY <1>7, <3>2
        <4>2. Good(thread[u].token, thread[u].request, thread[u].expiry)
          BY <2>2, <4>1 DEF Inv, Drawn
        <4>. QED
          BY <1>2, <1>9, <2>2, <4>1, <4>2 DEF Inv, Drawn, Good
      <3>. QED
        BY <3>1, <3>2
    <2>3. ASSUME NEW u \in Threads, thread[u].pc = "issue" PROVE thread[u].token # n
      <3>1. thread[u].token \in 1..Len(drawn)
        BY <2>3 DEF Inv, Drawn, Good
      <3>. QED
        BY <1>1, <3>1
    <2>4. ASSUME NEW u \in Threads, NEW v \in Threads, thread'[u].pc = "issue",
                 thread'[v].pc = "issue", u # v
          PROVE  thread'[u].token # thread'[v].token
      BY <1>5, <1>7, <2>3, <2>4 DEF Inv, Drawn
    <2>5. \A m \in 1..MaxIssued : m > Len(drawn') => confirmed'[m] = <<>>
      BY <1>1, <1>2, <1>3 DEF Inv, Drawn
    <2>. QED
      BY <2>2, <2>4, <2>5 DEF Drawn
  <1>. QED
    BY <1>8, <1>10, <1>11, <1>12 DEF Inv

LEMMA IssueStoredStep ==
    ASSUME Inv, NEW t \in Threads, IssueStored(t)
    PROVE  Inv'
  <1>. DEFINE i == thread[t]
              b == Key[i.request]
              e == [token |-> i.token, expiry |-> i.expiry, request |-> i.request]
  <1>1. /\ i.pc = "issue" /\ WithinQuotas(i.request, Unexpired)
        /\ pending' = [Unexpired EXCEPT ![b] = e]
        /\ latest' = [latest EXCEPT ![b] = i.token]
        /\ thread' = [thread EXCEPT ![t] = Idle]
        /\ UNCHANGED <<clock, drawn, confirmed>>
    BY DEF IssueStored
  <1>2. /\ i.request \in Requests /\ i.token \in 1..MaxIssued /\ i.expiry \in Nat /\ b \in Keys
        /\ e \in Entry
    BY <1>1, ThreadTypes, KeyIsKey DEF Entry
  <1>3. e.token = i.token /\ e.expiry = i.expiry /\ e.request = i.request
    OBVIOUS
  <1>4. Good(i.token, i.request, i.expiry)
    BY <1>1 DEF Inv, Drawn
  <1>. HIDE DEF i, b, e
  <1>5. /\ Unexpired \in Store
        /\ \A c \in Keys : Unexpired[c] \in {pending[c], NoEntry}
        /\ \A c \in Pending(Unexpired) : Unexpired[c] = pending[c] /\ c \in Pending(pending)
    BY UnexpiredStore DEF Inv
  <1>6. Within(pending)'
    <2>1. Within(Unexpired)
      BY <1>5, WithinShrinks DEF Inv, Typed
    <2>2. \A c \in Pending(Unexpired) : Key[Unexpired[c].request] = c
      BY <1>5 DEF Inv, Filed
    <2>3. Within([Unexpired EXCEPT ![Key[e.request]] = e])
      BY <1>1, <1>2, <1>3, <1>5, <2>1, <2>2, WithinGrows
    <2>4. Within(pending')
      BY <1>1, <1>3, <2>3 DEF b
    <2>. QED
      BY <2>4
  <1>7. /\ \A c \in Keys \ {b} : pending'[c] \in {pending[c], NoEntry} /\ latest'[c] = latest[c]
        /\ pending'[b] = e /\ latest'[b] = i.token
        /\ pending' \in Store
    BY <1>1, <1>2, <1>5 DEF Store, Inv, Typed
  <1>8. \A u \in Threads : thread'[u] = IF u = t THEN Idle ELSE thread[u]
    BY <1>1 DEF Inv, Typed
  <1>9. Typed'
    <2>1. i.token \in 0..Len(drawn)
      BY <1>4 DEF Good, Inv, Typed
    <2>2. latest' \in [Keys -> 0..Len(drawn)]
      BY <1>1, <2>1 DEF Inv, Typed
    <2>3. thread' \in [Threads -> {Idle} \cup Issuing]
      BY <1>1 DEF Inv, Typed
    <2>. QED
      BY <1>1, <1>7, <2>2, <2>3 DEF Inv, Typed
  <1>10. ASSUME NEW m, NEW q, NEW x, Good(m, q, x) PROVE Good(m, q, x)'
    BY <1>1, <1>10 DEF Good
  <1>11. Filed'
    <2>. SUFFICES ASSUME NEW c \in Keys, pending'[c] # NoEntry
                  PROVE  /\ Key[pending'[c].request] = c /\ latest'[c] = pending'[c].token
                         /\ Good(pending'[c].token, pending'[c].request, pending'[c].expiry)
      BY <1>1 DEF Filed, Good, Pending
    <2>1. CASE c = b
      BY <1>3, <1>4, <1>7, <2>1 DEF b
    <2>2. CASE c # b
      <3>1. pending'[c] = pending[c] /\ c \in Pending(pending) /\ latest'[c] = latest[c]
        BY <1>7, <2>2 DEF Pending
      <3>. QED
        BY <3>1 DEF Inv, Filed
    <2>. QED
      BY <2>1, <2>2
  <1>12. Drawn'
    <2>1. ASSUME NEW u \in Threads, thread'[u].pc = "issue"
          PROVE  /\ thread'[u] = thread[u] /\ u # t
                 /\ Good(thread[u].token, thread[u].request, thread[u].expiry)
                 /\ thread[u].token # i.token
                 /\ \A c \in Keys : latest'[c] # thread[u].token
      <3>1. u # t /\ thread'[u] = thread[u]
        BY <1>8, <2>1 DEF Idle
      <3>2. /\ Good(thread[u].token, thread[u].request, thread[u].expiry)
            /\ thread[u].token # i.token
            /\ \A c \in Keys : latest[c] # thread[u].token
        BY <1>1, <2>1, <3>1 DEF Inv, Drawn, i
      <3>. QED
        BY <1>7, <3>1, <3>2
    <2>2. \A u, v \in Threads :
             thread'[u].pc = "issue" /\ thread'[v].pc = "issue" /\ u # v
                => thread'[u].token # thread'[v].token
      BY <2>1 DEF Inv, Drawn
    <2>. QED
      BY <1>1, <2>1, <2>2 DEF Inv, Drawn, Good
  <1>. QED
    BY <1>6, <1>9, <1>11, <1>12 DEF Inv
-----------------------------------------------------------------------------
LEMMA InvStep == Inv /\ [Next]_vars => Inv'
  <1>. SUFFICES ASSUME Inv, [Next]_vars PROVE Inv'
    OBVIOUS
  <1>1. ASSUME UNCHANGED <<pending, thread, drawn, latest, confirmed>>, clock' \in Nat
        PROVE  Inv'
    BY <1>1 DEF Inv, Typed, Within, Filed, Drawn, Good, Pending, OwnedLike, HeldLike
  <1>2. CASE Tick
    BY <1>1, <1>2 DEF Tick, Inv, Typed
  <1>3. CASE UNCHANGED vars
    BY <1>1, <1>3 DEF vars, Inv, Typed
  <1>. QED
    BY <1>2, <1>3, BeginIssueStep, IssueStoredStep, IssueRefusedStep, ConfirmStep,
       ConfirmExpiredStep DEF Next

LEMMA InvInit == Init => Inv
  <1>. SUFFICES ASSUME Init PROVE Inv
    OBVIOUS
  <1>1. Pending(pending) = {}
    BY DEF Init, Pending
  <1>2. /\ \A r : OwnedLike(pending, r) = {}
        /\ \A r : HeldLike(pending, r) = {}
        /\ IsFiniteSet({}) /\ Cardinality({}) = 0
    BY <1>1, FS_EmptySet DEF OwnedLike, HeldLike
  <1>3. Typed
    <2>1. <<>> \in Seq([request : Requests, at : Nat]) /\ Len(<<>>) = 0 /\ <<>> \in Seq(Requests)
      OBVIOUS
    <2>2. MaxIssued \in Nat /\ 0 \in 0..Len(drawn)
      BY <2>1, BoundsAssumption DEF Init
    <2>. QED
      BY <2>1, <2>2 DEF Init, Typed, Store
  <1>4. Within(pending)
    <2>1. Cardinality(Pending(pending)) <= MaxEntries /\ IsFiniteSet(Pending(pending))
      BY <1>1, <1>2, CapsAssumption
    <2>2. \A r : Cardinality(OwnedLike(pending, r)) = 0 /\ Cardinality(HeldLike(pending, r)) = 0
      BY <1>2
    <2>3. 0 <= MaxPerOwner /\ 0 <= MaxPerPrincipal
      BY CapsAssumption
    <2>. QED
      BY <2>1, <2>2, <2>3 DEF Within
  <1>5. Filed
    BY <1>1 DEF Filed
  <1>6. Drawn
    BY DEF Init, Drawn, Idle
  <1>. QED
    BY <1>3, <1>4, <1>5, <1>6 DEF Inv

LEMMA Invariant == Spec => []Inv
  BY InvInit, InvStep, PTL DEF Spec

(* _TokenStore.issue: max_entries, each owner's quota, and each principal's *)
(* where no two share a binding, whatever the threads store and confirm.    *)
THEOREM TypeCorrect == Spec => []TypeOK
  <1>1. Inv => TypeOK
    BY DEF Inv, Typed, Within, Store, OnePrincipal, Issuing, TypeOK
  <1>. QED
    BY <1>1, Invariant, PTL

(* consume: what lets a call through was asked for by the same, in the same *)
(* words, last, and not too long ago; it lets no other through.             *)
THEOREM ConfirmsOnceAsAsked == Spec => ConfirmsLatestPlan
  <1>1. ASSUME Inv, NEW r \in Requests, NEW n \in DOMAIN drawn, Confirm(r, n)
        PROVE  /\ confirmed[n] = <<>> /\ SamePlan(drawn[n].request, r) /\ latest[Key[r]] = n
               /\ clock - drawn[n].at <= Ttl
               /\ confirmed' = [confirmed EXCEPT ![n] = <<r>>]
    <2>. DEFINE b == Key[r]
                q == pending[b].request
    <2>1. /\ b \in Pending(pending) /\ pending[b].token = n /\ ~ (clock > pending[b].expiry)
          /\ confirmed' = [confirmed EXCEPT ![n] = Append(@, r)]
          /\ Bindable(Caller[r])
      BY <1>1 DEF Confirm, Expired, Confirmable
    <2>2. /\ Key[q] = b /\ latest[b] = n /\ confirmed[n] = <<>>
          /\ drawn[n].request = q /\ pending[b].expiry = drawn[n].at + Ttl
      BY <1>1, <2>1 DEF Inv, Filed, Good
    <2>3. q \in Requests /\ drawn[n].at \in Nat /\ clock \in Nat /\ Ttl \in Nat
      <3>1. pending[b] \in Entry
        BY <1>1, <2>1 DEF Inv, Typed, Store, Pending
      <3>2. drawn[n] \in [request : Requests, at : Nat]
        <4>. DEFINE Draws == [request : Requests, at : Nat]
        <4>1. drawn \in Seq(Draws) /\ n \in DOMAIN drawn
          BY <1>1 DEF Inv, Typed
        <4>. HIDE DEF Draws
        <4>2. drawn[n] \in Draws
          BY <4>1
        <4>. QED
          BY <4>2 DEF Draws
      <3>3. q \in Requests
        BY <3>1 DEF Entry
      <3>4. clock \in Nat /\ Ttl \in Nat
        BY <1>1, CapsAssumption DEF Inv, Typed
      <3>. QED
        BY <3>2, <3>3, <3>4
    <2>4. clock - drawn[n].at <= Ttl
      BY <2>1, <2>2, <2>3
    <2>5. /\ Binding(Caller[q], Call[q]) = Binding(Caller[r], Call[r])
          /\ Caller[q].stateless \in BOOLEAN /\ Caller[r].stateless \in BOOLEAN
      BY <2>2, <2>3, KeyMeans, CallersAssumption
    <2>6. /\ Owner(Caller[q]) = Owner(Caller[r]) /\ Subject(Call[q]) = Subject(Call[r])
          /\ Call[q].tenant = Call[r].tenant /\ Call[q].arguments = Call[r].arguments
      BY <2>5 DEF Binding
    <2>7. /\ Caller[q].stateless = Caller[r].stateless
          /\ ~ Caller[q].stateless => Caller[q].session = Caller[r].session
          /\ Caller[q].stateless => Caller[q].user = Caller[r].user /\ Caller[q].tenant = Caller[r].tenant
      BY <2>5, <2>6 DEF Owner
    <2>8. SamePlan(q, r)
      BY <2>1, <2>6, <2>7 DEF SamePlan, Bindable
    <2>9. confirmed' = [confirmed EXCEPT ![n] = <<r>>]
      <3>1. Append(<<>>, r) = <<r>>
        OBVIOUS
      <3>. QED
        BY <2>1, <2>2, <3>1
    <2>. QED
      BY <2>2, <2>4, <2>8, <2>9
  <1>2. Inv /\ [Next]_vars =>
          [\A n \in 1..MaxIssued :
              confirmed'[n] # confirmed[n] =>
                  LET r == confirmed'[n][Len(confirmed'[n])]
                  IN  /\ confirmed[n] = <<>>
                      /\ SamePlan(drawn[n].request, r) /\ latest[Key[r]] = n
                      /\ clock - drawn[n].at <= Ttl]_vars
    <2>. SUFFICES ASSUME Inv, Next, NEW m \in 1..MaxIssued, confirmed'[m] # confirmed[m]
                  PROVE  LET r == confirmed'[m][Len(confirmed'[m])]
                         IN  /\ confirmed[m] = <<>>
                             /\ SamePlan(drawn[m].request, r) /\ latest[Key[r]] = m
                             /\ clock - drawn[m].at <= Ttl
      OBVIOUS
    <2>1. PICK r \in Requests, n \in DOMAIN drawn : Confirm(r, n)
      BY DEF Next, Tick, BeginIssue, IssueStored, IssueRefused, ConfirmExpired
    <2>2. confirmed' = [confirmed EXCEPT ![n] = <<r>>]
      BY <1>1, <2>1
    <2>3. m = n
      BY <2>2 DEF Inv, Typed
    <2>4. confirmed'[m] = <<r>> /\ <<r>>[Len(<<r>>)] = r
      BY <2>2, <2>3 DEF Inv, Typed
    <2>. QED
      BY <1>1, <2>1, <2>3, <2>4
  <1>. QED
    BY <1>2, Invariant, PTL DEF Spec, ConfirmsLatestPlan

(* issue under the lock: what has run out is gone before the quotas are     *)
(* counted.                                                                 *)
THEOREM RefusedForLiveOnly == Spec => RefusedByLiveOnly
  <1>1. ASSUME Inv, Next, NEW t \in Threads, thread[t].pc = "issue", thread'[t] = Idle,
               latest' = latest
        PROVE  IssueRefused(t)
    <2>1. thread[t] # Idle /\ thread \in [Threads -> {Idle} \cup Issuing]
      BY <1>1 DEF Idle, Inv, Typed
    <2>2. PICK u \in Threads :
             (\E r \in Requests : BeginIssue(u, r)) \/ IssueStored(u) \/ IssueRefused(u)
      BY <1>1, <2>1 DEF Next, Tick, Confirm, ConfirmExpired
    <2>3. u = t
      BY <1>1, <2>1, <2>2 DEF BeginIssue, IssueStored, IssueRefused
    <2>4. ~ IssueStored(t)
      <3>. SUFFICES ASSUME IssueStored(t) PROVE FALSE
        OBVIOUS
      <3>1. Key[thread[t].request] \in Keys
        BY <1>1, ThreadTypes, KeyIsKey
      <3>2. latest'[Key[thread[t].request]] = thread[t].token
        BY <1>1, <3>1 DEF IssueStored, Inv, Typed
      <3>. QED
        BY <1>1, <3>1, <3>2 DEF Inv, Drawn
    <2>. QED
      BY <2>1, <2>2, <2>3, <2>4 DEF BeginIssue
  <1>2. ASSUME Inv, NEW t \in Threads, IssueRefused(t)
        PROVE  LET live == {b \in Pending(pending) : pending[b].expiry > clock}
                   r == thread[t].request
               IN  \/ Cardinality(live) >= MaxEntries
                   \/ Cardinality(live \cap OwnedLike(pending, r)) >= MaxPerOwner
                   \/ Cardinality(live \cap HeldLike(pending, r)) >= MaxPerPrincipal
    <2>. DEFINE live == {b \in Pending(pending) : pending[b].expiry > clock}
                r == thread[t].request
                mine == live \cap OwnedLike(pending, r)
                held == live \cap HeldLike(pending, r)
    <2>1. /\ Pending(Unexpired) = live
          /\ \A b \in live : Unexpired[b] = pending[b]
      BY <1>2, UnexpiredStore DEF Inv
    <2>2. OwnedLike(Unexpired, r) = mine /\ HeldLike(Unexpired, r) = held
      BY <2>1 DEF OwnedLike, HeldLike
    <2>3. IsFiniteSet(live)
      BY <1>2, FS_Subset DEF Inv, Within
    <2>4. Cardinality(live) \in Nat /\ Cardinality(mine) \in Nat /\ Cardinality(held) \in Nat
      <3>1. mine \in SUBSET live /\ held \in SUBSET live
        OBVIOUS
      <3>. QED
        BY <2>3, <3>1, FS_Subset, FS_CardinalityType
    <2>5. ~ (/\ Cardinality(mine) < MaxPerOwner
             /\ Cardinality(held) < MaxPerPrincipal
             /\ Cardinality(live) < MaxEntries)
      BY <1>2, <2>1, <2>2 DEF IssueRefused, WithinQuotas
    <2>. HIDE DEF live, mine, held
    <2>6. \/ Cardinality(live) >= MaxEntries \/ Cardinality(mine) >= MaxPerOwner
          \/ Cardinality(held) >= MaxPerPrincipal
      BY <2>4, <2>5, CapsAssumption
    <2>. QED
      BY <2>6 DEF live, mine, held
  <1>3. Inv /\ [Next]_vars =>
          [\A t \in Threads :
              thread[t].pc = "issue" /\ thread'[t] = Idle /\ latest' = latest =>
                  LET live == {b \in Pending(pending) : pending[b].expiry > clock}
                      r == thread[t].request
                  IN  \/ Cardinality(live) >= MaxEntries
                      \/ Cardinality(live \cap OwnedLike(pending, r)) >= MaxPerOwner
                      \/ Cardinality(live \cap HeldLike(pending, r)) >= MaxPerPrincipal]_vars
    BY <1>1, <1>2
  <1>. QED
    BY <1>3, Invariant, PTL DEF Spec, RefusedByLiveOnly
-----------------------------------------------------------------------------
(* Induction over the names of a path.                                      *)

(* A set of numbers has a least one: < is well-founded on Nat.              *)
LEMMA Least ==
    ASSUME NEW T \in SUBSET Nat, T # {}
    PROVE  \E m \in T : \A n \in T : m <= n
  <1>. DEFINE R == OpToRel(<, Nat)
  <1>1. IsWellFoundedOn(R, Nat)
    BY NatLessThanWellFounded
  <1>2. \A m, n \in Nat : <<n, m>> \in R <=> n < m
    BY DEF R, OpToRel
  <1>. HIDE DEF R
  <1>3. PICK m \in T : \A n \in T : <<n, m>> \notin R
    BY <1>1, WFMin
  <1>4. ASSUME NEW n \in T PROVE m <= n
    <2>1. m \in Nat /\ n \in Nat
      OBVIOUS
    <2>2. ~ (n < m)
      BY <2>1, <1>2, <1>3
    <2>. QED
      BY <2>1, <2>2
  <1>. QED
    BY <1>4

(* So what holds of 0, and of n + 1 when it holds of n, holds of all.       *)
LEMMA Inductive ==
    ASSUME NEW S \in SUBSET Nat, 0 \in S, \A n \in S : n + 1 \in S
    PROVE  S = Nat
  <1>. SUFFICES ASSUME Nat \ S # {} PROVE FALSE
    OBVIOUS
  <1>1. PICK m \in Nat \ S : \A n \in Nat \ S : m <= n
    BY Least
  <1>2. m # 0 /\ m - 1 \in Nat /\ m - 1 < m
    OBVIOUS
  <1>3. m - 1 \in S
    BY <1>1, <1>2
  <1>4. (m - 1) + 1 = m
    OBVIOUS
  <1>. QED
    BY <1>3, <1>4

(* _arg_at: from position k on, f follows a path to its n-th name.          *)
Follows(f, path, k, n) == \A i \in (k + 1)..n : f[i] = Member(f[i - 1], path[i])

Walks(at, v, path) ==
    at = [i \in 0..Len(path) |-> IF i = 0 THEN v ELSE Member(at[i - 1], path[i])]

LEMMA WalkExists ==
    ASSUME NEW v, NEW path, Len(path) \in Nat
    PROVE  \E at : Walks(at, v, path)
  <1>. DEFINE step(f, i) == IF i = 0 THEN v ELSE Member(f[i - 1], path[i])
              upTo(n) == \E at : at = [i \in 0..n |-> step(at, i)]
              S == {n \in Nat : upTo(n)}
  <1>1. 0 \in S
    <2>. DEFINE at == [i \in 0..0 |-> v]
    <2>1. at = [i \in 0..0 |-> step(at, i)]
      OBVIOUS
    <2>. QED
      BY <2>1
  <1>2. ASSUME NEW n \in S PROVE n + 1 \in S
    <2>1. n \in Nat /\ n + 1 \in Nat
      OBVIOUS
    <2>2. PICK at : at = [i \in 0..n |-> step(at, i)]
      OBVIOUS
    <2>. DEFINE next == [i \in 0..(n + 1) |-> step(at, i)]
                same == [i \in 0..(n + 1) |-> step(next, i)]
    <2>3. \A i \in 0..n : next[i] = at[i]
      BY <2>1, <2>2
    <2>4. \A i \in 0..(n + 1) : i = 0 \/ i - 1 \in 0..n
      BY <2>1
    <2>5. \A i \in 0..(n + 1) : step(at, i) = step(next, i)
      <3>. HIDE DEF next
      <3>. QED
        BY <2>3, <2>4
    <2>6. \A i \in 0..(n + 1) : next[i] = same[i]
      <3>. HIDE DEF step
      <3>. QED
        BY <2>5
    <2>7. next = same
      <3>. HIDE DEF step
      <3>. QED
        BY <2>6
    <2>8. upTo(n + 1)
      BY <2>7
    <2>. QED
      BY <2>1, <2>8
  <1>. HIDE DEF S
  <1>3. S = Nat
    <2>1. S \subseteq Nat
      BY DEF S
    <2>. QED
      BY <1>1, <1>2, <2>1, Inductive
  <1>4. Len(path) \in S
    BY <1>3
  <1>. QED
    BY <1>4 DEF S, Walks

LEMMA Walk ==
    ASSUME NEW v, NEW path, Len(path) \in Nat
    PROVE  \E at : /\ at[0] = v /\ Follows(at, path, 0, Len(path))
                   /\ ArgAt(v, path) = at[Len(path)]
  <1>1. PICK at : Walks(at, v, path) /\ ArgAt(v, path) = at[Len(path)]
    <2>1. \E at : Walks(at, v, path)
      BY WalkExists
    <2>. QED
      BY <2>1 DEF Walks, ArgAt
  <1>2. at[0] = v /\ \A i \in 1..Len(path) : at[i] = Member(at[i - 1], path[i])
    BY <1>1 DEF Walks
  <1>. QED
    BY <1>1, <1>2 DEF Follows

(* Two walks that agree somewhere agree from there on.                      *)
LEMMA WalksAgree ==
    ASSUME NEW path, NEW f, NEW g, NEW k \in Nat, NEW n \in Nat,
           f[k] = g[k], Follows(f, path, k, n), Follows(g, path, k, n)
    PROVE  \A i \in k..n : f[i] = g[i]
  <1>. DEFINE S == {j \in Nat : k + j <= n => f[k + j] = g[k + j]}
  <1>1. 0 \in S
    OBVIOUS
  <1>2. ASSUME NEW j \in S PROVE j + 1 \in S
    <2>1. j \in Nat /\ j + 1 \in Nat
      OBVIOUS
    <2>2. CASE k + (j + 1) <= n
      <3>1. f[k + j] = g[k + j]
        BY <2>1, <2>2
      <3>2. k + (j + 1) \in (k + 1)..n /\ (k + (j + 1)) - 1 = k + j
        BY <2>1, <2>2
      <3>3. f[k + (j + 1)] = g[k + (j + 1)]
        BY <3>1, <3>2 DEF Follows
      <3>. QED
        BY <2>1, <3>3
    <2>. QED
      BY <2>1, <2>2
  <1>. HIDE DEF S
  <1>3. S = Nat
    <2>1. S \subseteq Nat
      BY DEF S
    <2>. QED
      BY <1>1, <1>2, <2>1, Inductive
  <1>. SUFFICES ASSUME NEW i \in k..n PROVE f[i] = g[i]
    OBVIOUS
  <1>4. i - k \in S
    BY <1>3
  <1>5. k + (i - k) = i /\ i <= n
    OBVIOUS
  <1>. QED
    BY <1>4, <1>5 DEF S

LEMMA AgreeFromFirst ==
    ASSUME NEW path, NEW n \in Nat, NEW f, NEW g, f[1] = g[1],
           Follows(f, path, 0, n), Follows(g, path, 0, n)
    PROVE  \A i \in 1..n : f[i] = g[i]
  <1>1. Follows(f, path, 1, n) /\ Follows(g, path, 1, n)
    BY DEF Follows
  <1>2. 1 \in Nat
    OBVIOUS
  <1>. QED
    BY <1>1, <1>2, WalksAgree

(* What is on the way is what the path so far leads to.                     *)
LEMMA OnTheWay ==
    ASSUME NEW v, NEW path, NEW n \in Nat, NEW at, at[0] = v, Follows(at, path, 0, n),
           NEW q, Len(q) \in Nat, Len(q) <= n, \A i \in 1..Len(q) : q[i] = path[i]
    PROVE  ArgAt(v, q) = at[Len(q)]
  <1>1. PICK f : /\ f[0] = v /\ Follows(f, q, 0, Len(q))
                 /\ ArgAt(v, q) = f[Len(q)]
    BY Walk
  <1>2. Follows(f, path, 0, Len(q)) /\ Follows(at, path, 0, Len(q))
    BY <1>1 DEF Follows
  <1>3. \A i \in 0..Len(q) : f[i] = at[i]
    BY <1>1, <1>2, WalksAgree
  <1>. QED
    BY <1>1, <1>3
-----------------------------------------------------------------------------
(* Arguments without case variants have one reading.                        *)

args == scene.body.arguments

(* No name of the node may be taken for a declared one that it is not.      *)
Clean(schema, node) ==
    IsObject(node) =>
        \A key \in DOMAIN node.members : ~ CaseVariant(schema, key)

LEMMA FoundByName ==
    ASSUME NEW schema, NEW node, NEW name, Clean(schema, node)
    PROVE  Found(schema, node, name) \ {Absent} = {Member(node, name)} \ {Absent}
  <1>1. CASE ~ IsObject(node)
    BY <1>1 DEF Found, Member
  <1>2. CASE IsObject(node)
    <2>1. ASSUME NEW key \in DOMAIN node.members, Binds(schema, key, name) PROVE key = name
      <3>. SUFFICES ASSUME key # name PROVE FALSE
        OBVIOUS
      <3>1. PICK m \in schema.mappings : Fold[key] = Fold[name] /\ name \in m /\ key \notin m
        BY <2>1 DEF Binds
      <3>. DEFINE names == Spellings(schema, key)
      <3>2. name \in names
        BY <3>1 DEF Spellings
      <3>3. key \in names /\ Codeclared(schema, names)
        BY <1>2, <3>2 DEF Clean, CaseVariant
      <3>4. names \subseteq m
        BY <3>1, <3>2, <3>3 DEF Codeclared
      <3>. QED
        BY <3>1, <3>3, <3>4
    <2>2. \A key : key = name => Binds(schema, key, name)
      BY DEF Binds
    <2>3. {k \in DOMAIN node.members : Binds(schema, k, name)}
             = DOMAIN node.members \cap {name}
      BY <2>1, <2>2
    <2>4. Found(schema, node, name)
             = {node.members[k] : k \in DOMAIN node.members \cap {name}}
      BY <1>2, <2>3 DEF Found
    <2>. QED
      BY <1>2, <2>4 DEF Member
  <1>. QED
    BY <1>1, <1>2

(* schema_case_variant_keys looks at every object a declared path leads     *)
(* through.                                                                 *)
LEMMA CleanOnTheWay ==
    ASSUME NEW schema, NEW v, ~ CaseVariantKeys(schema, v),
           NEW path \in Seq(Names), Len(path) <= ArgumentDepth + 1,
           NEW at, at[0] = v, Follows(at, path, 0, Len(path)),
           NEW i \in 0..(Len(path) - 1)
    PROVE  Clean(schema, at[i])
  <1>1. Len(path) \in Nat /\ i \in Nat /\ i <= ArgumentDepth /\ i <= Len(path)
    BY LenProperties, DepthAssumption
  <1>2. CASE schema.tooLarge
    <2>1. v = Absent \/ v = Object(<<>>)
      BY <1>2 DEF CaseVariantKeys
    <2>2. CASE i = 0
      BY <2>1, <2>2 DEF Clean, IsObject, Object
    <2>3. CASE i # 0
      <3>. DEFINE none == [j \in Nat |-> Absent]
      <3>1. 1 \in (0 + 1)..Len(path) /\ 1 - 1 = 0 /\ 1 \in Nat /\ i \in 1..Len(path)
        BY <1>1, <2>3
      <3>2. \A x : Member(Absent, x) = Absent
        BY DEF Member, IsObject
      <3>3. \A x : Member(v, x) = Absent
        BY <2>1, <3>2 DEF Member, Object
      <3>4. at[1] = none[1]
        BY <3>1, <3>3 DEF Follows
      <3>5. Follows(none, path, 1, Len(path))
        BY <1>1, <3>2 DEF Follows
      <3>6. Follows(at, path, 1, Len(path))
        BY <1>1 DEF Follows
      <3>. HIDE DEF none
      <3>7. at[i] = none[i]
        BY <1>1, <3>1, <3>4, <3>5, <3>6, WalksAgree
      <3>. QED
        BY <1>1, <3>7 DEF none, Clean, IsObject
    <2>. QED
      BY <2>2, <2>3
  <1>3. CASE ~ schema.tooLarge
    <2>. DEFINE q == [j \in 1..i |-> path[j]]
    <2>1. q \in [1..i -> Names] /\ q \in Seq(Names)
      BY <1>1, ElementOfSeq, SeqDef
    <2>2. Len(q) = i
      BY <1>1, <2>1, LenProperties
    <2>3. \A j \in 1..i : q[j] = path[j]
      OBVIOUS
    <2>. HIDE DEF q
    <2>4. ArgAt(v, q) = at[i]
      BY <1>1, <2>2, <2>3, OnTheWay
    <2>5. q \in BoundedSeq(Names, ArgumentDepth)
      BY <1>1, <2>1, DepthAssumption DEF BoundedSeq, SeqOf
    <2>6. IsObject(at[i]) => DOMAIN at[i].members \subseteq KeysIn(v)
      BY <2>4, <2>5 DEF KeysIn
    <2>. QED
      BY <1>3, <2>6 DEF Clean, CaseVariantKeys
  <1>. QED
    BY <1>2, <1>3

LEMMA CleanBelow ==
    ASSUME NEW schema, NEW v, ~ CaseVariantKeys(schema, v),
           NEW path \in Seq(Names), NEW n \in Nat, n = Len(path), n <= ArgumentDepth + 1,
           NEW at, at[1] = Member(v, path[1]), Follows(at, path, 0, n)
    PROVE  \A i \in 1..(n - 1) : Clean(schema, at[i])
  <1>. SUFFICES ASSUME NEW i \in 1..(n - 1) PROVE Clean(schema, at[i])
    OBVIOUS
  <1>1. PICK f : f[0] = v /\ Follows(f, path, 0, n)
    BY Walk
  <1>2. f[1] = at[1]
    <2>1. 1 \in (0 + 1)..n /\ 1 - 1 = 0
      OBVIOUS
    <2>. QED
      BY <1>1, <2>1 DEF Follows
  <1>3. \A j \in 1..n : f[j] = at[j]
    BY <1>1, <1>2, AgreeFromFirst
  <1>4. Clean(schema, f[i])
    BY <1>1, CleanOnTheWay
  <1>. QED
    BY <1>3, <1>4

(* The server's reading of a path, name by name (Run).                      *)
Reads(at, schema, path, top) ==
    at = [i \in 1..Len(path) |->
            IF i = 1 THEN top ELSE UNION {Found(schema, x, path[i]) : x \in at[i - 1]}]

LEMMA ReadExists ==
    ASSUME NEW schema, NEW path, NEW top, Len(path) \in Nat
    PROVE  \E at : Reads(at, schema, path, top)
  <1>. DEFINE step(f, i) ==
                 IF i = 1 THEN top ELSE UNION {Found(schema, x, path[i]) : x \in f[i - 1]}
              upTo(n) == \E at : at = [i \in 1..n |-> step(at, i)]
              S == {n \in Nat : upTo(n)}
  <1>1. 0 \in S
    <2>. DEFINE at == [i \in 1..0 |-> top]
    <2>1. at = [i \in 1..0 |-> step(at, i)]
      OBVIOUS
    <2>. QED
      BY <2>1
  <1>2. ASSUME NEW n \in S PROVE n + 1 \in S
    <2>1. n \in Nat /\ n + 1 \in Nat
      OBVIOUS
    <2>2. PICK at : at = [i \in 1..n |-> step(at, i)]
      OBVIOUS
    <2>. DEFINE next == [i \in 1..(n + 1) |-> step(at, i)]
                same == [i \in 1..(n + 1) |-> step(next, i)]
    <2>3. \A i \in 1..n : next[i] = at[i]
      <3>1. \A i \in 1..n : at[i] = step(at, i)
        <4>. HIDE DEF step
        <4>. QED
          BY <2>2
      <3>2. \A i \in 1..n : next[i] = step(at, i)
        <4>. HIDE DEF step
        <4>. QED
          BY <2>1
      <3>. QED
        BY <3>1, <3>2
    <2>4. \A i \in 1..(n + 1) : i = 1 \/ i - 1 \in 1..n
      BY <2>1
    <2>5. \A i \in 1..(n + 1) : step(at, i) = step(next, i)
      <3>. HIDE DEF next
      <3>. QED
        BY <2>3, <2>4
    <2>6. \A i \in 1..(n + 1) : next[i] = same[i]
      <3>. HIDE DEF step
      <3>. QED
        BY <2>5
    <2>7. next = same
      <3>. HIDE DEF step
      <3>. QED
        BY <2>6
    <2>8. upTo(n + 1)
      BY <2>7
    <2>. QED
      BY <2>1, <2>8
  <1>. HIDE DEF S
  <1>3. S = Nat
    <2>1. S \subseteq Nat
      BY DEF S
    <2>. QED
      BY <1>1, <1>2, <2>1, Inductive
  <1>4. Len(path) \in S
    BY <1>3
  <1>. QED
    BY <1>4 DEF S, Reads

(* The arguments a declared path of several names is looked up in, and its  *)
(* first name opened.                                                       *)
Top(schema, path) ==
    LET found == Found(schema, args, path[1])
    IN  IF Len(path) > 1 THEN {Decoded(v) : v \in found} ELSE found

LEMMA RunReads ==
    ASSUME NEW schema, NEW path, Len(path) \in Nat
    PROVE  \E at : /\ Reads(at, schema, path, Top(schema, path))
                   /\ Run(schema, path) = at[Len(path)] \ {Absent}
  <1>1. \E at : Reads(at, schema, path, Top(schema, path))
    BY ReadExists
  <1>. QED
    BY <1>1 DEF Reads, Top, args, Run, body

Openable ==
    IsObject(args) =>
        /\ DOMAIN args.members \subseteq Names
        /\ \A names \in SUBSET Names : IsObject(Opened(args, names))

LEMMA OpenedMember ==
    ASSUME Openable, NEW names \in SUBSET Names, NEW name
    PROVE  Member(Opened(args, names), name)
             = IF name \in names THEN Decoded(Member(args, name))
               ELSE Member(args, name)
  <1>1. Decoded(Absent) = Absent
    BY TextAssumption DEF Decoded
  <1>2. CASE ~ IsObject(args)
    BY <1>1, <1>2 DEF Opened, Member
  <1>3. CASE IsObject(args)
    <2>. DEFINE raw == args.members
                opened == [k \in DOMAIN raw |-> IF k \in names THEN Decoded(raw[k])
                                               ELSE raw[k]]
    <2>1. IsObject(Opened(args, names))
      BY <1>3 DEF Openable, IsObject, Opened, Object, Decoded
    <2>2. Opened(args, names).members = opened
      BY <1>3 DEF Opened, Object
    <2>. QED
      BY <1>1, <1>3, <2>1, <2>2 DEF Member
  <1>. QED
    BY <1>2, <1>3

(* What the server runs for a declared path is what is mirrored for it, if  *)
(* that is a value of a header or nothing.                                  *)
LEMMA RunOfPath ==
    ASSUME Openable, NEW schema, NEW through \in SUBSET Names,
           NEW path \in Seq(Names), NEW n \in Nat, n = Len(path),
           n >= 1, n <= ArgumentDepth + 1, n > 1 => path[1] \in through,
           ~ CaseVariantKeys(schema, args),
           ~ CaseVariantKeys(schema, Opened(args, Names)),
           NEW value, value = ArgAt(Opened(args, through), path),
           value = Absent \/ Renderable(value)
    PROVE  Run(schema, path) = {value} \ {Absent}
  <1>. DEFINE first == path[1]
  <1>2. first \in Names
    BY ElementOfSeq
  <1>3. n = 1 \/ n > 1
    OBVIOUS
  <1>7. Found(schema, args, first) \ {Absent} = {Member(args, first)} \ {Absent}
    <2>1. PICK at : at[0] = args /\ Follows(at, path, 0, n)
      BY <1>2, Walk
    <2>2. 0 \in 0..(n - 1)
      BY <1>2
    <2>3. Clean(schema, args)
      BY <1>2, <2>1, <2>2, CleanOnTheWay
    <2>. QED
      BY <2>3, FoundByName
  <1>8. PICK at : /\ at[0] = Opened(args, through) /\ Follows(at, path, 0, n)
                  /\ value = at[n]
    BY <1>2, Walk
  <1>9. at[1] = Member(Opened(args, through), first)
    <2>1. 1 \in (0 + 1)..n /\ 1 - 1 = 0
      BY <1>2
    <2>. QED
      BY <1>8, <2>1 DEF Follows
  <1>10. at[1] = IF first \in through THEN Decoded(Member(args, first))
                 ELSE Member(args, first)
    BY <1>9, OpenedMember
  <1>11. PICK read : /\ Reads(read, schema, path, Top(schema, path))
                     /\ Run(schema, path) = read[n] \ {Absent}
    BY <1>2, RunReads
  <1>12. /\ read[1] = Top(schema, path)
         /\ \A i \in 2..n : read[i] = UNION {Found(schema, x, path[i]) : x \in read[i - 1]}
    <2>1. read = [i \in 1..n |->
                    IF i = 1 THEN Top(schema, path)
                    ELSE UNION {Found(schema, x, path[i]) : x \in read[i - 1]}]
      BY <1>11 DEF Reads
    <2>2. 1 \in 1..n /\ \A i \in 2..n : i \in 1..n /\ i # 1
      BY <1>2
    <2>. QED
      BY <2>1, <2>2
  <1>13. CASE n = 1
    <2>1. at[1] = Member(args, first)
      <3>1. \A v \in DOMAIN Decodes : ~ (Decoded(v) = Absent \/ Renderable(Decoded(v)))
        BY TextAssumption DEF Decoded, Renderable, IsObject
      <3>2. Member(args, first) \notin DOMAIN Decodes \/ first \notin through
        BY <1>8, <1>10, <1>13, <3>1
      <3>. QED
        BY <1>10, <3>2 DEF Decoded
    <2>. QED
      BY <1>7, <1>8, <1>11, <1>12, <1>13, <2>1 DEF Top
  <1>14. CASE n > 1
    <2>1. read[1] \ {Absent} = {at[1]} \ {Absent}
      <3>. DEFINE found == Found(schema, args, first)
      <3>1. Decoded(Absent) = Absent
        BY TextAssumption DEF Decoded
      <3>2. read[1] = {Decoded(v) : v \in found}
        BY <1>12, <1>14 DEF Top
      <3>. HIDE DEF found
      <3>3. found \ {Absent} = {Member(args, first)} \ {Absent}
        BY <1>7 DEF found
      <3>. QED
        BY <1>10, <1>14, <3>1, <3>2, <3>3
    <2>2. \A i \in 1..(n - 1) : Clean(schema, at[i])
      <3>1. at[1] = Member(Opened(args, Names), first)
        BY <1>2, <1>10, <1>14, OpenedMember
      <3>. QED
        BY <1>8, <3>1, CleanBelow
    <2>. DEFINE S == {j \in Nat : j + 1 <= n => read[j + 1] \ {Absent} = {at[j + 1]} \ {Absent}}
    <2>3. 0 \in S
      BY <2>1
    <2>4. ASSUME NEW j \in S PROVE j + 1 \in S
      <3>1. j \in Nat /\ j + 1 \in Nat
        OBVIOUS
      <3>2. CASE (j + 1) + 1 <= n
        <4>. DEFINE i == j + 1
                    name == path[i + 1]
        <4>1. i \in 1..(n - 1) /\ i + 1 \in 2..n /\ i + 1 \in (0 + 1)..n /\ (i + 1) - 1 = i
          BY <1>2, <3>1, <3>2
        <4>2. read[i] \ {Absent} = {at[i]} \ {Absent}
          BY <1>2, <3>1, <3>2
        <4>3. read[i + 1] = UNION {Found(schema, x, name) : x \in read[i]}
          BY <1>12, <4>1
        <4>4. at[i + 1] = Member(at[i], name)
          BY <1>8, <4>1 DEF Follows
        <4>5. Found(schema, at[i], name) \ {Absent} = {at[i + 1]} \ {Absent}
          BY <2>2, <4>1, <4>4, FoundByName
        <4>6. Found(schema, Absent, name) = {} /\ Member(Absent, name) = Absent
          BY DEF Found, Member, IsObject
        <4>. HIDE DEF i, name
        <4>7. read[i + 1] \ {Absent} = {at[i + 1]} \ {Absent}
          <5>1. CASE at[i] = Absent
            BY <4>2, <4>3, <4>4, <4>6, <5>1
          <5>2. CASE at[i] # Absent
            BY <4>2, <4>3, <4>5, <4>6, <5>2
          <5>. QED
            BY <5>1, <5>2
        <4>. QED
          BY <3>1, <4>7 DEF i
      <3>. QED
        BY <3>1, <3>2
    <2>. HIDE DEF S
    <2>5. S = Nat
      <3>1. S \subseteq Nat
        BY DEF S
      <3>. QED
        BY <2>3, <2>4, <3>1, Inductive
    <2>6. n - 1 \in S /\ (n - 1) + 1 = n
      BY <1>2, <2>5
    <2>7. read[n] \ {Absent} = {at[n]} \ {Absent}
      BY <1>2, <2>6 DEF S
    <2>. QED
      BY <1>8, <1>11, <2>7
  <1>. QED
    BY <1>3, <1>13, <1>14

LEMMA RunIsMirrored ==
    ASSUME Openable,
           NEW schema, schema.annotations \in Seq(Annotation),
           NEW a \in Annotations(schema),
           ~ CaseVariantKeys(schema, args),
           ~ CaseVariantKeys(schema, AllDecoded),
           ArgAt(Effective(schema), a.path) = Absent
             \/ Renderable(ArgAt(Effective(schema), a.path))
    PROVE  Run(schema, a.path) = {ArgAt(Effective(schema), a.path)} \ {Absent}
  <1>. DEFINE through == {b.path[1] : b \in {c \in Annotations(schema) : Len(c.path) > 1}}
  <1>1. \A b \in Annotations(schema) :
           /\ b.path \in Seq(Names) /\ Len(b.path) \in Nat
           /\ Len(b.path) >= 1 /\ Len(b.path) <= ArgumentDepth + 1
           /\ b.path[1] \in Names
    <2>. SUFFICES ASSUME NEW b \in Annotation
                  PROVE  /\ b.path \in Seq(Names) /\ Len(b.path) \in Nat
                         /\ Len(b.path) >= 1 /\ Len(b.path) <= ArgumentDepth + 1
                         /\ b.path[1] \in Names
      BY ElementOfSeq, LenProperties DEF Annotations
    <2>1. b.path \in Seq(Names) /\ Len(b.path) \in 1..(ArgumentDepth + 1)
      BY DEF Annotation
    <2>. QED
      BY <2>1, ElementOfSeq, DepthAssumption
  <1>2. through \in SUBSET Names /\ (Len(a.path) > 1 => a.path[1] \in through)
    BY <1>1
  <1>3. Effective(schema) = Opened(args, through)
    BY DEF Effective, body, args
  <1>4. AllDecoded = Opened(args, Names)
    BY DEF AllDecoded, body, args
  <1>. HIDE DEF through
  <1>. QED
    BY <1>1, <1>2, <1>3, <1>4, RunOfPath
-----------------------------------------------------------------------------
(* The gates in their order.                                                *)

GateInv ==
    /\ IsScene(scene)
    /\ \/ verdict \in {"pending", "denied"}
       \/ Authorized(scene.caller, call, scene.defaultDeny)
    /\ \/ verdict \in {"pending", "denied", "authorized", "untrusted"}
       \/ Reconciled
    /\ \/ verdict \in {"pending", "denied", "authorized", "untrusted", "unrouted"}
       \/ verdict = Envelope

(* A request stays what it is.                                              *)
LEMMA SameScene ==
    ASSUME UNCHANGED scene
    PROVE  /\ call' = call /\ Envelope' = Envelope
           /\ Reconciled' <=> Reconciled
  <1>1. body' = body /\ header' = header
    BY DEF body, header
  <1>2. call' = call
    BY <1>1 DEF call
  <1>3. NoParams' <=> NoParams
    BY <1>1 DEF NoParams
  <1>4. LegacyGate' = LegacyGate
    BY <1>1, <1>3 DEF LegacyGate
  <1>5. MirroredName' = MirroredName /\ AllDecoded' = AllDecoded
    BY <1>1 DEF MirroredName, AllDecoded
  <1>6. \A schema : Effective(schema)' = Effective(schema)
    BY <1>1 DEF Effective
  <1>7. \A a, value : ParamAgrees(a, value)' <=> ParamAgrees(a, value)
    BY <1>1 DEF ParamAgrees
  <1>8. Parameters' = Parameters
    BY <1>1, <1>5, <1>6, <1>7 DEF Parameters
  <1>9. Envelope' = Envelope
    BY <1>1, <1>3, <1>4, <1>5, <1>8 DEF Envelope
  <1>10. \A path : Rejected(path)' <=> Rejected(path)
    BY DEF Rejected, RejectedAtTop, Reached, CutOff, Limit, BadKey, Claims, Conflicts
  <1>11. Reconciled' <=> Reconciled
    BY <1>1, <1>10 DEF Reconciled
  <1>. QED
    BY <1>2, <1>9, <1>11

LEMMA GateInvInit == GateInit => GateInv
  BY SceneAssumption DEF GateInit, GateInv

LEMMA GateInvStep == GateInv /\ [GateNext]_gateVars => GateInv'
  <1>. SUFFICES ASSUME GateInv, [GateNext]_gateVars PROVE GateInv'
    OBVIOUS
  <1>1. UNCHANGED scene
    BY DEF GateNext, Authorize, Deny, RejectClaims, PassUnrouted,
           Validate, gateVars
  <1>2. /\ IsScene(scene)'
        /\ Authorized(scene.caller, call, scene.defaultDeny)'
             <=> Authorized(scene.caller, call, scene.defaultDeny)
        /\ Reconciled' <=> Reconciled
        /\ Envelope' = Envelope
    BY <1>1, SameScene DEF GateInv
  <1>3. CASE Authorize
    BY <1>2, <1>3 DEF GateInv, Authorize
  <1>4. CASE Deny
    BY <1>2, <1>4 DEF GateInv, Deny
  <1>5. CASE RejectClaims
    BY <1>2, <1>5 DEF GateInv, RejectClaims
  <1>6. CASE PassUnrouted
    BY <1>2, <1>6 DEF GateInv, PassUnrouted
  <1>7. CASE Validate
    BY <1>2, <1>7 DEF GateInv, Validate
  <1>8. CASE UNCHANGED gateVars
    BY <1>2, <1>8 DEF GateInv, gateVars
  <1>. QED
    BY <1>3, <1>4, <1>5, <1>6, <1>7, <1>8 DEF GateNext

LEMMA GateInvariant == GateSpec => []GateInv
  BY GateInvInit, GateInvStep, PTL DEF GateSpec

(* The walk of reconcile_meta over a path it does not reject has come to    *)
(* its end: wherever it stops before, it rejects.                           *)
LEMMA WalkedToTheEnd ==
    ASSUME NEW path, DOMAIN path.steps = 1..Len(path.steps), Len(path.steps) \in Nat,
           ~ Rejected(path)
    PROVE  \A i \in 1..Len(path.steps) : ~ BadKey(path, i)
  <1>. DEFINE n == Len(path.steps)
              S == {k \in Nat : \A i \in 1..n : i <= k => Reached(path, i)}
  <1>1. ASSUME NEW i \in 1..n, Reached(path, i)
        PROVE  ~ BadKey(path, i) /\ ~ CutOff(path, i)
    BY <1>1 DEF Rejected
  <1>2. 0 \in S
    OBVIOUS
  <1>3. ASSUME NEW k \in S PROVE k + 1 \in S
    <2>1. k \in Nat /\ k + 1 \in Nat /\ \A i \in 1..n : i <= k => Reached(path, i)
      OBVIOUS
    <2>2. ASSUME k + 1 \in 1..n PROVE Reached(path, k + 1)
      <3>1. \A j \in 1..((k + 1) - 1) : j \in 1..n /\ j <= k
        BY <2>1, <2>2
      <3>. HIDE DEF n
      <3>2. \A j \in 1..((k + 1) - 1) : ~ BadKey(path, j) /\ ~ CutOff(path, j)
        BY <1>1, <2>1, <3>1
      <3>. QED
        BY <3>2 DEF Reached
    <2>3. ASSUME NEW i \in 1..n, i <= k + 1 PROVE Reached(path, i)
      <3>1. i <= k \/ i = k + 1
        BY <2>1, <2>3
      <3>. QED
        BY <2>1, <2>2, <3>1
    <2>. QED
      BY <2>1, <2>3
  <1>. HIDE DEF S
  <1>4. S = Nat
    <2>1. S \subseteq Nat
      BY DEF S
    <2>. QED
      BY <1>2, <1>3, <2>1, Inductive
  <1>5. ASSUME NEW i \in 1..n PROVE Reached(path, i)
    <2>1. i \in S /\ i <= i
      BY <1>4
    <2>. QED
      BY <2>1 DEF S
  <1>. QED
    BY <1>1, <1>5

(* What the engine does not object to is what the access token says.        *)
LEMMA AcceptedRestates ==
    ASSUME NEW kind \in IdentityKinds, NEW value, ~ Conflicts(kind, value)
    PROVE  Restates(kind, value)
  BY DEF IdentityKinds, Conflicts, Restates

(* SD-02, reconcile_meta: whatever _meta holds, as deep and as long as it   *)
(* may be, a request that is let through restates the authenticated         *)
(* identity or is silent, where the walk came to and where it did not.      *)
THEOREM NoClaimIsTrusted == GateSpec => []NoClaimSurvives
  <1>1. GateInv => NoClaimSurvives
    <2>. SUFFICES ASSUME GateInv, verdict \in {"unrouted", "modern", "legacy"},
                         NEW path \in body.meta, NEW i \in DOMAIN path.steps
                  PROVE  /\ path.steps[i].kind \in IdentityKinds =>
                                /\ i = Len(path.steps)
                                /\ Restates(path.steps[i].kind, path.value)
                         /\ path.steps[i].kind = "word" =>
                                i = 1 /\ scene.allowlist = "lists"
      BY DEF NoClaimSurvives
    <2>1. ~ Rejected(path)
      BY DEF GateInv, Reconciled
    <2>2. /\ path.steps \in Seq(Step) /\ path.steps # <<>>
          /\ scene.allowlist \in {"none", "lists", "lists others"}
      BY DEF GateInv, IsScene, body
    <2>3. /\ Len(path.steps) \in Nat /\ DOMAIN path.steps = 1..Len(path.steps)
          /\ i \in Nat /\ i >= 1 /\ i <= Len(path.steps)
      <3>1. Len(path.steps) \in Nat /\ DOMAIN path.steps = 1..Len(path.steps)
        BY <2>2, LenProperties
      <3>2. i \in 1..Len(path.steps)
        BY <3>1
      <3>. QED
        BY <3>1, <3>2
    <2>4. ~ BadKey(path, i)
      BY <2>1, <2>3, WalkedToTheEnd
    <2>5. path.steps[1].kind \notin {"trace", "self"} => scene.allowlist # "lists others"
      BY <2>1 DEF Rejected, RejectedAtTop
    <2>6. ASSUME path.steps[i].kind \in IdentityKinds
          PROVE  i = Len(path.steps) /\ Restates(path.steps[i].kind, path.value)
      <3>1. i = Len(path.steps) /\ ~ Conflicts(path.steps[i].kind, path.value)
        BY <2>3, <2>4, <2>6 DEF BadKey, Claims
      <3>. QED
        BY <2>6, <3>1, AcceptedRestates
    <2>7. ASSUME path.steps[i].kind = "word" PROVE i = 1 /\ scene.allowlist = "lists"
      <3>1. ~ (i > 1) /\ scene.allowlist # "none"
        BY <2>4, <2>7 DEF BadKey
      <3>2. i = 1
        BY <2>3, <3>1
      <3>. QED
        BY <2>2, <2>5, <2>7, <3>1, <3>2
    <2>. QED
      BY <2>6, <2>7
  <1>. QED
    BY <1>1, GateInvariant, PTL

(* T2-004b, filter_tools_list: a caller is shown every tool it is served.   *)
THEOREM ServedIsListed == GateSpec => []ListsWhatIsServed
  <1>1. GateInv => ListsWhatIsServed
    <2>. SUFFICES ASSUME GateInv, verdict \notin {"pending", "denied"},
                         body.method = "tools/call"
                  PROVE  body.name
                           \in Visible(scene.caller, Texts, scene.defaultDeny)
      BY DEF ListsWhatIsServed
    <2>1. Authorized(scene.caller, call, scene.defaultDeny)
      BY DEF GateInv
    <2>2. /\ call.method = "tools/call" /\ Subject(call) = body.name
          /\ "tools/call" \in ContentBearing
      BY DEF call, Subject, ContentBearing
    <2>3. body.name \in Texts
      BY <2>1, <2>2 DEF Authorized, GateInv, IsScene, body
    <2>. QED
      BY <2>1, <2>2, <2>3 DEF Authorized, Meets, Visible
  <1>. QED
    BY <1>1, GateInvariant, PTL
-----------------------------------------------------------------------------
(* Headers and body.                                                        *)

LEMMA DecodeEncode ==
    ASSUME NEW t \in Texts
    PROVE  /\ Decode(Encode(t)) = t
           /\ t \in Plain => Encode(t) = t
  <1>1. \A x \in Texts : Wrapped(x) \notin Plain /\ Wrapped(x).base64 = x
    BY TextAssumption DEF Wrapped
  <1>. QED
    BY <1>1 DEF Encode, Decode

(* What an intermediary reads in a mirrored value is the value.             *)
LEMMA ReadMirrored ==
    ASSUME NEW v
    PROVE  /\ Read(<<>>) = {}
           /\ Read(Mirrored(v)) = IF Renderable(v) THEN {v} ELSE {}
  <1>1. Range(<<>>) = {} /\ \A x : Range(<<x>>) = {x}
    BY DEF Range
  <1>2. Read(<<>>) = {} /\ \A x : Read(<<x>>) = {Decode(x)}
    BY <1>1 DEF Read
  <1>. QED
    BY <1>2, DecodeEncode DEF Mirrored, Renderable

(* A header that is absent or a mirrored value.                             *)
Faithful(copies) == copies = <<>> \/ \E t \in Texts : copies = <<Encode(t)>>

LEMMA MirroredFaithful == \A v : Faithful(Mirrored(v))
  BY DEF Faithful, Mirrored, Renderable

LEMMA FaithfulPlain ==
    ASSUME NEW copies, Faithful(copies), NEW c \in Range(copies), Decode(c) \in Plain
    PROVE  c = Decode(c)
  <1>1. Range(<<>>) = {} /\ \A x : Range(<<x>>) = {x}
    BY DEF Range
  <1>2. PICK t \in Texts : c = Encode(t)
    BY <1>1 DEF Faithful
  <1>. QED
    BY <1>2, DecodeEncode

(* The first annotation of a name is the only one that counts.              *)
LEMMA OneAnnotation ==
    ASSUME NEW schema, schema.annotations \in Seq(Annotation),
           NEW a \in Annotations(schema), NEW b \in Annotations(schema),
           a.header = b.header
    PROVE  a = b
  <1>1. Len(schema.annotations) \in Nat
        /\ DOMAIN schema.annotations = 1..Len(schema.annotations)
    BY LenProperties
  <1>2. PICK i \in 1..Len(schema.annotations) :
           Valid(schema, i) /\ a = schema.annotations[i]
    BY <1>1 DEF Annotations
  <1>3. PICK j \in 1..Len(schema.annotations) :
           Valid(schema, j) /\ b = schema.annotations[j]
    BY <1>1 DEF Annotations
  <1>4. ~ (i < j)
    <2>. SUFFICES ASSUME i < j PROVE FALSE
      OBVIOUS
    <2>1. i \in 1..(j - 1)
      BY <1>1
    <2>. QED
      BY <1>2, <1>3, <2>1 DEF Valid
  <1>5. ~ (j < i)
    <2>. SUFFICES ASSUME j < i PROVE FALSE
      OBVIOUS
    <2>1. j \in 1..(i - 1)
      BY <1>1
    <2>. QED
      BY <1>2, <1>3, <2>1 DEF Valid
  <1>6. i = j
    BY <1>1, <1>4, <1>5
  <1>. QED
    BY <1>2, <1>3, <1>6

(* What validate_request_metadata has found when it passes a request on.    *)
LEMMA ModernMeans ==
    ASSUME Envelope = "modern"
    PROVE  /\ ~ header.alias /\ body.version \in Supported
           /\ header.version = <<body.version>>
           /\ header.method = <<body.method>>
           /\ header.name = IF body.method \in NameBearing
                                 THEN Mirrored(MirroredName) ELSE <<>>
           /\ body.method \in NameBearing => Renderable(MirroredName)
           /\ body.method # "tools/call" => NoParams
           /\ body.method = "tools/call" =>
                 body.name \in DOMAIN scene.registry /\ Parameters = "modern"
  <1>1. LegacyGate # "modern"
    BY DEF LegacyGate
  <1>2. /\ ~ header.alias /\ body.version \in Supported
        /\ header.version = <<body.version>>
        /\ header.method = <<body.method>>
    BY <1>1 DEF Envelope
  <1>3. /\ header.name = IF body.method \in NameBearing
                              THEN Mirrored(MirroredName) ELSE <<>>
        /\ body.method \in NameBearing => Renderable(MirroredName)
    BY <1>1 DEF Envelope
  <1>4. /\ body.method # "tools/call" => NoParams
        /\ body.method = "tools/call" =>
              body.name \in DOMAIN scene.registry /\ Parameters = "modern"
    BY <1>1 DEF Envelope
  <1>. QED
    BY <1>2, <1>3, <1>4

LEMMA ParametersMean ==
    ASSUME Parameters = "modern", NEW schema, schema = scene.registry[body.name]
    PROVE  /\ ~ CaseVariantKeys(schema, args)
           /\ ~ CaseVariantKeys(schema, AllDecoded)
           /\ \A p \in Params : (\A a \in Annotations(schema) : a.header # p)
                                    => header.param[p] = <<>>
           /\ \A a \in Annotations(schema) :
                 ParamAgrees(a, ArgAt(Effective(schema), a.path))
  BY DEF Parameters, body, args

(* One parameter header of a request that is passed on.                     *)
LEMMA ParamRoutedAsRun ==
    ASSUME IsScene(scene), Envelope = "modern", NEW p \in Params
    PROVE  /\ Read(header.param[p]) = RunFor(p)
           /\ Faithful(header.param[p])
  <1>1. CASE body.method # "tools/call"
    BY <1>1, ModernMeans, ReadMirrored DEF NoParams, RunFor, Faithful
  <1>2. CASE body.method = "tools/call"
    <2>. DEFINE schema == scene.registry[body.name]
                mine == {b \in Annotations(schema) : b.header = p}
    <2>1. body.name \in DOMAIN scene.registry /\ Parameters = "modern"
      BY <1>2, ModernMeans
    <2>2. schema.annotations \in Seq(Annotation) /\ Openable
      BY <2>1 DEF IsScene, Openable, args, body
    <2>3. RunFor(p) = UNION {Run(schema, b.path) : b \in mine}
      BY <1>2 DEF RunFor
    <2>. HIDE DEF schema
    <2>4. CASE mine = {}
      <3>1. header.param[p] = <<>>
        BY <2>1, <2>4, ParametersMean DEF schema
      <3>2. RunFor(p) = {}
        BY <2>3, <2>4
      <3>. QED
        BY <3>1, <3>2, ReadMirrored DEF Faithful
    <2>5. ASSUME NEW a \in mine
          PROVE  /\ Read(header.param[p]) = RunFor(p)
                 /\ Faithful(header.param[p])
      <3>. DEFINE value == ArgAt(Effective(schema), a.path)
      <3>1. a \in Annotations(schema) /\ a.header = p
        OBVIOUS
      <3>2. mine = {a}
        BY <2>2, <3>1, OneAnnotation
      <3>3. ParamAgrees(a, value)
        BY <2>1, <3>1, ParametersMean DEF schema
      <3>4. (value = Absent \/ Renderable(value)) /\ header.param[p] = Mirrored(value)
        BY <3>1, <3>3 DEF ParamAgrees
      <3>5. ~ CaseVariantKeys(schema, args) /\ ~ CaseVariantKeys(schema, AllDecoded)
        BY <2>1, ParametersMean DEF schema
      <3>6. Run(schema, a.path) = {value} \ {Absent}
        BY <2>2, <3>1, <3>4, <3>5, RunIsMirrored
      <3>. HIDE DEF value, mine
      <3>7. RunFor(p) = {value} \ {Absent}
        BY <2>3, <3>2, <3>6
      <3>8. Renderable(value) => value # Absent
        BY TextAssumption DEF Renderable
      <3>9. Read(header.param[p]) = {value} \ {Absent}
        BY <3>4, <3>8, ReadMirrored
      <3>. QED
        BY <3>4, <3>7, <3>9, MirroredFaithful
    <2>. QED
      BY <2>4, <2>5
  <1>. QED
    BY <1>1, <1>2

(* TN-04, validate_request_metadata: the headers of a request that is       *)
(* passed on say what the server runs, for any schemas and arguments,       *)
(* however deep, and any case folding.                                      *)
THEOREM HeadersSayWhatRuns == GateSpec => []RoutedAsRun
  <1>1. GateInv => RoutedAsRun
    <2>. SUFFICES ASSUME GateInv PROVE RoutedAsRun
      OBVIOUS
    <2>1. verdict \in {"modern", "legacy"} => verdict = Envelope
      BY DEF GateInv
    <2>2. ASSUME verdict = "modern"
          PROVE  /\ ~ header.alias
                 /\ Range(header.version) = {body.version}
                 /\ Range(header.method) = {body.method}
                 /\ Read(header.name)
                      = IF body.method \in NameBearing
                        THEN {Subject(call)} ELSE {}
                 /\ \A p \in Params : Read(header.param[p]) = RunFor(p)
                 /\ \A c \in AllCopies : Decode(c) \in Plain => c = Decode(c)
      <3>1. Envelope = "modern" /\ IsScene(scene)
        BY <2>1, <2>2 DEF GateInv
      <3>2. /\ ~ header.alias
            /\ Range(header.version) = {body.version}
            /\ Range(header.method) = {body.method}
        <4>1. \A x : Range(<<x>>) = {x}
          BY DEF Range
        <4>. QED
          BY <3>1, <4>1, ModernMeans
      <3>3. MirroredName = Subject(call) \/ body.method \notin NameBearing
        BY DEF MirroredName, Subject, call, NameBearing
      <3>4. Read(header.name) = IF body.method \in NameBearing
                                          THEN {Subject(call)} ELSE {}
        BY <3>1, <3>3, ModernMeans, ReadMirrored
      <3>5. Faithful(header.name)
        BY <3>1, ModernMeans, MirroredFaithful DEF Faithful
      <3>6. \A p \in Params : /\ Read(header.param[p]) = RunFor(p)
                              /\ Faithful(header.param[p])
        BY <3>1, ParamRoutedAsRun
      <3>7. \A c \in AllCopies : Decode(c) \in Plain => c = Decode(c)
        BY <3>5, <3>6, FaithfulPlain DEF AllCopies
      <3>. QED
        BY <3>2, <3>4, <3>6, <3>7
    <2>3. ASSUME verdict = "legacy"
          PROVE  /\ ~ header.alias
                 /\ Range(header.version) \cap Supported = {}
                 /\ header.method = <<>> /\ header.name = <<>> /\ NoParams
      <3>1. Envelope = "legacy"
        BY <2>1, <2>3
      <3>2. Parameters # "legacy"
        BY DEF Parameters
      <3>3. ~ header.alias /\ ~ (Len(header.version) > 1) /\ LegacyGate = "legacy"
        BY <3>1, <3>2 DEF Envelope
      <3>4. /\ header.method = <<>> /\ header.name = <<>> /\ NoParams
            /\ header.version = <<>> \/ header.version[1] \in LegacyVersions
        BY <3>3 DEF LegacyGate
      <3>5. header.version \in Seq(Range(header.version))
        BY DEF GateInv, IsScene, header
      <3>6. Range(header.version) \subseteq LegacyVersions
        <4>. DEFINE version == header.version
        <4>1. Len(version) \in Nat /\ DOMAIN version = 1..Len(version)
          BY <3>5, LenProperties
        <4>2. \A i \in DOMAIN version : i = 1
          BY <3>3, <4>1
        <4>3. version = <<>> => DOMAIN version = {}
          OBVIOUS
        <4>. QED
          BY <3>4, <4>2, <4>3 DEF Range
      <3>. QED
        BY <3>3, <3>4, <3>6, VersionAssumption
    <2>. QED
      BY <2>2, <2>3 DEF RoutedAsRun
  <1>. QED
    BY <1>1, GateInvariant, PTL
-----------------------------------------------------------------------------
(* Clients that conform.                                                    *)

(* What decoding the texts among the arguments leaves alone: an object      *)
(* below them stays where it is.                                            *)
LEMMA ObjectsKept ==
    ASSUME Openable, NEW path \in Seq(Names), NEW n \in Nat, n = Len(path),
           NEW at, at[0] = args, Follows(at, path, 0, n),
           NEW open, open[0] = Opened(args, Names), Follows(open, path, 0, n),
           n > 0, IsObject(at[n])
    PROVE  open[n] = at[n]
  <1>. DEFINE S == {j \in Nat : j + 1 <= n /\ IsObject(at[j + 1]) => open[j + 1] = at[j + 1]}
  <1>1. 0 \in S
    <2>. SUFFICES ASSUME IsObject(at[1]) PROVE open[1] = at[1]
      OBVIOUS
    <2>1. 1 \in (0 + 1)..n /\ 1 - 1 = 0 /\ path[1] \in Names
      BY ElementOfSeq
    <2>2. at[1] = Member(args, path[1])
      BY <2>1 DEF Follows
    <2>3. open[1] = Decoded(Member(args, path[1]))
      <3>1. open[1] = Member(Opened(args, Names), path[1])
        BY <2>1 DEF Follows
      <3>. QED
        BY <2>1, <3>1, OpenedMember
    <2>4. at[1] \notin DOMAIN Decodes
      BY TextAssumption DEF IsObject
    <2>. QED
      BY <2>2, <2>3, <2>4 DEF Decoded
  <1>2. ASSUME NEW j \in S PROVE j + 1 \in S
    <2>. DEFINE i == j + 1
    <2>1. j \in Nat /\ i \in Nat
      OBVIOUS
    <2>2. ASSUME i + 1 <= n, IsObject(at[i + 1]) PROVE open[i + 1] = at[i + 1]
      <3>1. i + 1 \in (0 + 1)..n /\ (i + 1) - 1 = i /\ i <= n
        BY <2>1, <2>2
      <3>2. /\ at[i + 1] = Member(at[i], path[i + 1])
            /\ open[i + 1] = Member(open[i], path[i + 1])
        BY <3>1 DEF Follows
      <3>3. IsObject(at[i])
        BY <2>2, <3>2 DEF Member, IsObject
      <3>4. open[i] = at[i]
        BY <3>1, <3>3
      <3>. QED
        BY <3>2, <3>4
    <2>. QED
      BY <2>1, <2>2
  <1>. HIDE DEF S
  <1>3. S = Nat
    <2>1. S \subseteq Nat
      BY DEF S
    <2>. QED
      BY <1>1, <1>2, <2>1, Inductive
  <1>4. n - 1 \in S /\ (n - 1) + 1 = n
    BY <1>3
  <1>. QED
    BY <1>4 DEF S

LEMMA KeysKept ==
    ASSUME Openable
    PROVE  KeysIn(args) \subseteq KeysIn(Opened(args, Names))
  <1>. SUFFICES ASSUME NEW key \in KeysIn(args)
                PROVE  key \in KeysIn(Opened(args, Names))
    OBVIOUS
  <1>1. PICK q \in BoundedSeq(Names, ArgumentDepth) :
           /\ IsObject(ArgAt(args, q)) /\ key \in DOMAIN ArgAt(args, q).members
    BY DEF KeysIn
  <1>2. q \in Seq(Names) /\ Len(q) \in Nat
    <2>1. PICK m \in 0..ArgumentDepth : q \in [1..m -> Names]
      BY DepthAssumption DEF BoundedSeq, SeqOf
    <2>2. m \in Nat
      BY <2>1, DepthAssumption
    <2>3. q \in Seq(Names)
      BY <2>1, <2>2, SeqDef
    <2>. QED
      BY <2>3, LenProperties
  <1>3. PICK at : /\ at[0] = args /\ Follows(at, q, 0, Len(q))
                  /\ ArgAt(args, q) = at[Len(q)]
    BY <1>2, Walk
  <1>4. PICK open : /\ open[0] = Opened(args, Names) /\ Follows(open, q, 0, Len(q))
                    /\ ArgAt(Opened(args, Names), q) = open[Len(q)]
    BY <1>2, Walk
  <1>5. /\ IsObject(open[Len(q)])
        /\ DOMAIN open[Len(q)].members = DOMAIN at[Len(q)].members
    <2>1. CASE Len(q) = 0
      <3>1. IsObject(args)
        BY <1>1, <1>3, <2>1
      <3>2. IsObject(Opened(args, Names))
        BY <3>1 DEF Openable, IsObject, Opened, Object, Decoded
      <3>3. DOMAIN Opened(args, Names).members = DOMAIN args.members
        BY <3>1 DEF Opened, Object
      <3>. QED
        BY <1>3, <1>4, <2>1, <3>2, <3>3
    <2>2. CASE Len(q) > 0
      <3>1. IsObject(at[Len(q)])
        BY <1>1, <1>3
      <3>2. open[Len(q)] = at[Len(q)]
        BY <1>2, <1>3, <1>4, <2>2, <3>1, ObjectsKept
      <3>. QED
        BY <3>1, <3>2
    <2>. QED
      BY <1>2, <2>1, <2>2
  <1>. QED
    BY <1>1, <1>3, <1>4, <1>5 DEF KeysIn

(* Decoding that finds nothing to decode changes no path.                   *)
LEMMA NothingOpened ==
    ASSUME Openable, NEW through \in SUBSET Names,
           \A name \in through : Member(args, name) \notin DOMAIN Decodes,
           NEW path, NEW n \in Nat, n = Len(path), n >= 1
    PROVE  ArgAt(Opened(args, through), path) = ArgAt(args, path)
  <1>1. PICK at : /\ at[0] = args /\ Follows(at, path, 0, n)
                  /\ ArgAt(args, path) = at[n]
    BY Walk
  <1>2. PICK open : /\ open[0] = Opened(args, through) /\ Follows(open, path, 0, n)
                    /\ ArgAt(Opened(args, through), path) = open[n]
    BY Walk
  <1>3. open[1] = at[1]
    <2>1. 1 \in (0 + 1)..n /\ 1 - 1 = 0
      OBVIOUS
    <2>2. /\ at[1] = Member(args, path[1])
          /\ open[1] = Member(Opened(args, through), path[1])
      BY <1>1, <1>2, <2>1 DEF Follows
    <2>. QED
      BY <2>2, OpenedMember DEF Decoded
  <1>4. \A i \in 1..n : open[i] = at[i]
    BY <1>1, <1>2, <1>3, AgreeFromFirst
  <1>. QED
    BY <1>1, <1>2, <1>4

(* No key is a case variant of another name.                                *)
LEMMA NoVariants ==
    ASSUME NEW schema, ~ schema.tooLarge, NEW v,
           \A key \in KeysIn(v) : \A n \in UNION schema.mappings :
              Fold[key] = Fold[n] => key = n
    PROVE  ~ CaseVariantKeys(schema, v)
  <1>1. ASSUME NEW key \in KeysIn(v), CaseVariant(schema, key) PROVE FALSE
    <2>. DEFINE names == Spellings(schema, key)
    <2>1. names \subseteq {key} /\ names # {} /\ (key \notin names \/ ~ Codeclared(schema, names))
      BY <1>1 DEF Spellings, CaseVariant
    <2>2. names = {key}
      BY <2>1
    <2>. QED
      BY <2>1, <2>2 DEF Codeclared
  <1>. QED
    BY <1>1 DEF CaseVariantKeys

(* x_mcp_param_headers and validate_request_metadata agree.                 *)
LEMMA CanonicalPasses ==
    ASSUME IsScene(scene), body.method = "tools/call", Servable,
           \A p \in Params : header.param[p] = CanonicalParam(p)
    PROVE  Parameters = "modern"
  <1>. DEFINE schema == scene.registry[body.name]
              annotations == Annotations(schema)
              through == {b.path[1] : b \in {c \in annotations : Len(c.path) > 1}}
  <1>1. /\ body.name \in DOMAIN scene.registry
        /\ ~ schema.tooLarge /\ ~ HoldTooDeep(body.arguments)
        /\ \A k \in KeysIn(AllDecoded) : \A n \in UNION schema.mappings :
              Fold[k] = Fold[n] => k = n
    BY DEF Servable
  <1>2. \A a \in annotations :
           LET v == ArgAt(args, a.path)
           IN  /\ v = Absent \/ Renderable(v)
               /\ Len(a.path) > 1 => Member(args, a.path[1]) \notin DOMAIN Decodes
    BY DEF Servable, body, args
  <1>3. schema.annotations \in Seq(Annotation) /\ Openable
    BY <1>1 DEF IsScene, Openable, args, body
  <1>4. \A a \in annotations :
           /\ a \in Annotation /\ Len(a.path) \in Nat /\ Len(a.path) >= 1
           /\ a.path[1] \in Names /\ a.header \in Params
    <2>. SUFFICES ASSUME NEW a \in Annotation
                  PROVE  /\ Len(a.path) \in Nat /\ Len(a.path) >= 1
                         /\ a.path[1] \in Names /\ a.header \in Params
      BY <1>3, ElementOfSeq, LenProperties DEF Annotations
    <2>1. /\ a.path \in Seq(Names) /\ Len(a.path) \in 1..(ArgumentDepth + 1)
          /\ a.header \in Params
      BY DEF Annotation
    <2>. QED
      BY <2>1, ElementOfSeq, DepthAssumption
  <1>5. /\ Effective(schema) = Opened(args, through)
        /\ AllDecoded = Opened(args, Names)
    BY DEF Effective, AllDecoded, body, args
  <1>6. through \in SUBSET Names /\ \A name \in through : Member(args, name) \notin DOMAIN Decodes
    BY <1>2, <1>4
  <1>. HIDE DEF through
  <1>7. \A a \in annotations : ArgAt(Effective(schema), a.path) = ArgAt(args, a.path)
    BY <1>3, <1>4, <1>5, <1>6, NothingOpened
  <1>8. ~ CaseVariantKeys(schema, AllDecoded) /\ ~ CaseVariantKeys(schema, args)
    <2>1. KeysIn(args) \subseteq KeysIn(AllDecoded)
      BY <1>3, <1>5, KeysKept
    <2>. HIDE DEF schema
    <2>. QED
      BY <1>1, <2>1, NoVariants
  <1>9. ASSUME NEW a \in annotations
        PROVE  header.param[a.header] = Mirrored(ArgAt(args, a.path))
    <2>. DEFINE mine == {b \in annotations : b.header = a.header}
    <2>1. mine = {a}
      BY <1>3, OneAnnotation
    <2>2. (CHOOSE b \in mine : TRUE) = a
      BY <2>1
    <2>3. CanonicalParam(a.header)
             = IF mine = {} THEN <<>>
               ELSE Mirrored(ArgAt(body.arguments, (CHOOSE b \in mine : TRUE).path))
      BY <1>1 DEF CanonicalParam
    <2>. HIDE DEF mine
    <2>. QED
      BY <1>4, <2>1, <2>2, <2>3 DEF args, body
  <1>10. \A p \in Params : (\A a \in annotations : a.header # p) => header.param[p] = <<>>
    BY <1>1 DEF CanonicalParam
  <1>11. \A a \in annotations : ParamAgrees(a, ArgAt(Effective(schema), a.path))
    BY <1>2, <1>7, <1>9 DEF ParamAgrees
  <1>12. body.arguments = args
    BY DEF body, args
  <1>. QED
    BY <1>1, <1>8, <1>10, <1>11, <1>12 DEF Parameters

(* A client that derives its headers from the body as this package does is  *)
(* never turned away for them, whatever it calls and with what arguments.   *)
THEOREM ConformingAreServed == GateSpec => []ConformingServed
  <1>1. GateInv => ConformingServed
    <2>. SUFFICES ASSUME GateInv,
                         verdict \notin {"pending", "denied", "authorized", "untrusted", "unrouted"},
                         header = Canonical, body.version # NoVersion, Servable
                  PROVE  verdict = IF body.version \in Supported THEN "modern"
                                   ELSE "unsupported"
      BY DEF ConformingServed
    <2>1. verdict = Envelope /\ IsScene(scene)
      BY DEF GateInv
    <2>2. /\ ~ header.alias /\ header.version = <<body.version>>
          /\ header.method = <<body.method>>
          /\ header.name = IF body.method \in NameBearing
                                THEN Mirrored(MirroredName) ELSE <<>>
          /\ \A p \in Params : header.param[p] = CanonicalParam(p)
      BY DEF Canonical
    <2>3. \A x : ~ (Len(<<x>>) > 1)
      OBVIOUS
    <2>4. ~ (Len(header.version) > 1) /\ ~ (Len(header.name) > 1)
      BY <2>2, <2>3 DEF Mirrored
    <2>5. body.method \in NameBearing => Renderable(MirroredName)
      BY DEF Servable
    <2>6. body.method # "tools/call" => NoParams
      BY <2>2 DEF CanonicalParam, NoParams
    <2>7. body.method = "tools/call" =>
             body.name \in DOMAIN scene.registry /\ Parameters = "modern"
      BY <2>1, <2>2, CanonicalPasses DEF Servable
    <2>. QED
      BY <2>1, <2>2, <2>4, <2>5, <2>6, <2>7 DEF Envelope
  <1>. QED
    BY <1>1, GateInvariant, PTL
===============================================================================
