---------------------------- MODULE HandleRegistry ----------------------------
(***************************************************************************)
(* explicit_state.py, HandleRegistry: server-held references (task ids,    *)
(* cursors) minted for a principal of a tenant, shared by threads.         *)
(*                                                                         *)
(* Every operation reads the clock before it takes the registry's lock and *)
(* runs its on_revoke callbacks after it has left it, so each is split at  *)
(* the lock: the reading may be old when the lock is taken, and a record   *)
(* found may be gone when it is acted on.                                  *)
(*                                                                         *)
(* secrets.token_urlsafe never repeats: the n-th handle minted is n.  The  *)
(* kind of a handle only makes resolve raise, as a wrong owner does.       *)
(***************************************************************************)
EXTENDS Integers, FiniteSets

CONSTANTS
    Threads,
    Owners,          \* the authenticated [principal, tenant] pairs
    NoRecord,        \* _records has no such key
    Max,             \* max_handles
    MaxPerPrincipal, \* max_handles_per_principal
    MaxPerTenant,    \* max_handles_per_tenant
    Floor,           \* _OWNER_FLOOR
    Ttls,            \* the ttl_seconds callers ask for
    MaxHandles,      \* bound: handles ever minted
    MaxTime          \* bound: seconds that pass

Handles == 1..MaxHandles
Record == [owner : Owners, expires : Nat]
Tenants == {o.tenant : o \in Owners}

ASSUME CapsAssumption ==
    Max \in Nat /\ MaxPerPrincipal \in Nat /\ MaxPerTenant \in Nat /\ Floor \in Nat
ASSUME BoundsAssumption == MaxHandles \in Nat /\ MaxTime \in Nat /\ Ttls \subseteq Nat
ASSUME OwnersAssumption == Owners # {}
ASSUME NoRecordAssumption == NoRecord \notin Record

VARIABLES
    clock,         \* the injected clock, whole seconds, never set back
    records,       \* _records
    counts,        \* _counts, 0 for an absent key
    tenantCounts,  \* _tenant_counts, 0 for an absent key
    nextPurge,     \* _next_purge
    call,          \* the threads' calls
    (* history *)
    minted,        \* handles minted so far
    revoked,       \* handles a revocation took out of _records
    notified       \* on_revoke calls made for each handle

registry == <<records, counts, tenantCounts, nextPurge>>
history == <<minted, revoked, notified>>
vars == <<clock, registry, call, history>>

Held == {h \in Handles : records[h] # NoRecord}
Expired(now) == {h \in Held : records[h].expires <= now}
OwnedBy(o, hs) == {h \in hs : records[h].owner = o}
OfTenant(t, hs) == {h \in hs : records[h].owner.tenant = t}

(* A call waits for the lock in mint, resolve, revoke or list, or for the   *)
(* lock of the admin_revoke that ends a revoke, or is in _notify.           *)
Call == [pc : {"idle", "mint", "resolve", "revoke", "list", "drop", "notify"},
         now : Nat, owner : Owners, ttl : Nat, handle : 0..MaxHandles,
         todo : SUBSET Handles]
Idle == [pc |-> "idle", now |-> 0, owner |-> CHOOSE o \in Owners : TRUE, ttl |-> 0,
         handle |-> 0, todo |-> {}]

Init ==
    /\ clock = 0
    /\ records = [h \in Handles |-> NoRecord]
    /\ counts = [o \in Owners |-> 0]
    /\ tenantCounts = [t \in Tenants |-> 0]
    /\ nextPurge = 0
    /\ call = [t \in Threads |-> Idle]
    /\ minted = 0 /\ revoked = {}
    /\ notified = [h \in Handles |-> 0]

Tick ==
    /\ clock < MaxTime
    /\ clock' = clock + 1
    /\ UNCHANGED <<registry, call, history>>
-------------------------------------------------------------------------------
(* _decrement, any number of times.                                         *)
Minus(n, k) == IF n > k THEN n - k ELSE 0

(* The counters once the records of gone are dropped (_drop of each).  The  *)
(* mutant leaves the tenants' counters alone.                               *)
CountsWithout(gone) ==
    [o \in Owners |-> Minus(counts[o], Cardinality(OwnedBy(o, gone)))]
TenantCountsKept(gone) == tenantCounts
TenantCountsWithout(gone) ==
    [t \in Tenants |-> Minus(tenantCounts[t], Cardinality(OfTenant(t, gone)))]
Without(gone) == [h \in Handles |-> IF h \in gone THEN NoRecord ELSE records[h]]

Drop(gone) ==
    /\ records' = Without(gone)
    /\ counts' = CountsWithout(gone)
    /\ tenantCounts' = TenantCountsWithout(gone)

(* The thread leaves the lock with its call over.                           *)
Finish(t) == call' = [call EXCEPT ![t] = Idle]
-------------------------------------------------------------------------------
(* mint.                                                                    *)

(* Whether mint sweeps: the amortised purge is due, or a cap looks reached. *)
(* The mutants sweep when it is due only, and a second early.               *)
SweepsOnlyWhenDue(o, now) == now >= nextPurge
Sweeps(o, now) ==
    \/ now >= nextPurge
    \/ Cardinality(Held) >= Max
    \/ counts[o] >= MaxPerPrincipal
    \/ tenantCounts[o.tenant] >= MaxPerTenant

DueSecondEarly(now) == Expired(now + 1)
Due(now) == Expired(now)

Swept(o, now) == IF Sweeps(o, now) THEN Due(now) ELSE {}

(* The caps, on total, own and tenant counts.  An owner below the floor may *)
(* exceed the registry's and the tenant's cap, up to twice that cap.  The   *)
(* mutant forgets the ceilings.                                             *)
AdmitsWithoutCeiling(total, mine, inTenant) ==
    /\ total < Max \/ mine < Floor
    /\ mine < MaxPerPrincipal
    /\ inTenant < MaxPerTenant \/ mine < Floor
Admits(total, mine, inTenant) ==
    /\ total < Max \/ (mine < Floor /\ total < 2 * Max)
    /\ mine < MaxPerPrincipal
    /\ inTenant < MaxPerTenant \/ (mine < Floor /\ inTenant < 2 * MaxPerTenant)

AdmitsMint(o, gone) ==
    Admits(Cardinality(Held \ gone), CountsWithout(gone)[o],
           TenantCountsWithout(gone)[o.tenant])

BeginMint(t, o, ttl) ==
    /\ call[t].pc = "idle"
    /\ minted + Cardinality({u \in Threads : call[u].pc = "mint"}) < MaxHandles
    /\ call' = [call EXCEPT ![t] = [Idle EXCEPT !.pc = "mint", !.now = clock,
                                                 !.owner = o, !.ttl = ttl]]
    /\ UNCHANGED <<clock, registry, history>>

MintAdmitted(t) ==
    LET c == call[t]
        gone == Swept(c.owner, c.now)
    IN  /\ c.pc = "mint" /\ minted < MaxHandles
        /\ AdmitsMint(c.owner, gone)
        /\ minted' = minted + 1
        /\ records' = [Without(gone) EXCEPT ![minted'] =
                          [owner |-> c.owner, expires |-> c.now + c.ttl]]
        /\ counts' = [CountsWithout(gone) EXCEPT ![c.owner] = @ + 1]
        /\ tenantCounts' = [TenantCountsWithout(gone) EXCEPT ![c.owner.tenant] = @ + 1]
        /\ nextPurge' = IF Sweeps(c.owner, c.now) THEN c.now + 1 ELSE nextPurge
        /\ Finish(t)
        /\ UNCHANGED <<clock, revoked, notified>>

(* RuntimeError: a cap is reached.  What was swept stays swept.             *)
MintRefused(t) ==
    LET c == call[t]
        gone == Swept(c.owner, c.now)
    IN  /\ c.pc = "mint"
        /\ ~AdmitsMint(c.owner, gone)
        /\ Drop(gone)
        /\ nextPurge' = IF Sweeps(c.owner, c.now) THEN c.now + 1 ELSE nextPurge
        /\ Finish(t)
        /\ UNCHANGED <<clock, history>>
-------------------------------------------------------------------------------
(* resolve, revoke, admin_revoke, revoke_principal, list_for_principal.     *)

BeginOn(t, pc, o, h) ==
    /\ call[t].pc = "idle"
    /\ call' = [call EXCEPT ![t] = [Idle EXCEPT !.pc = pc, !.now = clock,
                                                 !.owner = o, !.handle = h]]
    /\ UNCHANGED <<clock, registry, history>>

Authorized(c) ==
    /\ c.handle \in Held
    /\ records[c.handle].expires > c.now
    /\ records[c.handle].owner = c.owner

(* resolve under the lock: an expired record is dropped, whoever asks.  A   *)
(* revoke whose resolve did not raise goes on to admin_revoke.              *)
Resolve(t) ==
    LET c == call[t]
    IN  /\ c.pc \in {"resolve", "revoke"}
        /\ Drop({c.handle} \cap Expired(c.now))
        /\ call' = [call EXCEPT ![t] = IF c.pc = "revoke" /\ Authorized(c)
                                       THEN [Idle EXCEPT !.pc = "drop", !.handle = c.handle]
                                       ELSE Idle]
        /\ UNCHANGED <<clock, nextPurge, history>>

(* What a revocation hands to _notify: what it took out of _records.  The   *)
(* mutant hands over the handle it was called with.                         *)
DoomedByName(h) == {h}
DoomedOne(h) == {h} \cap Held

(* The thread leaves the lock with the doomed records out of _records.      *)
Revoke(t, doomed) ==
    /\ Drop(doomed \cap Held)
    /\ revoked' = revoked \cup doomed
    /\ call' = [call EXCEPT ![t] = IF doomed = {} THEN Idle ELSE [Idle EXCEPT !.pc = "notify", !.todo = doomed]]
    /\ UNCHANGED <<clock, nextPurge, minted, notified>>

(* The lock section of admin_revoke, at the end of a revoke or by itself.   *)
RevokeResolved(t) == call[t].pc = "drop" /\ Revoke(t, DoomedOne(call[t].handle))
AdminRevoke(t, h) == call[t].pc = "idle" /\ Revoke(t, DoomedOne(h))

(* Of one tenant, or, without a tenant, of all.                             *)
RevokePrincipal(t, p, tenants) ==
    /\ call[t].pc = "idle"
    /\ Revoke(t, {h \in Held : /\ records[h].owner.principal = p
                               /\ records[h].owner.tenant \in tenants})

(* One on_revoke call; whether it returns or raises, the loop goes on.  The *)
(* mutant lets an exception end it.                                         *)
LeftAfterStopping(t, h) == {}
Left(t, h) == call[t].todo \ {h}

Notify(t) ==
    \E h \in call[t].todo :
        /\ call[t].pc = "notify"
        /\ notified' = [notified EXCEPT ![h] = @ + 1]
        /\ call' = [call EXCEPT ![t] = IF Left(t, h) = {} THEN Idle
                                       ELSE [@ EXCEPT !.todo = Left(t, h)]]
        /\ UNCHANGED <<clock, registry, minted, revoked>>

List(t) ==
    /\ call[t].pc = "list"
    /\ Drop(Due(call[t].now))
    /\ nextPurge' = call[t].now + 1
    /\ Finish(t)
    /\ UNCHANGED <<clock, history>>

Begin(t) ==
    \E o \in Owners :
        \/ \E ttl \in Ttls : BeginMint(t, o, ttl)
        \/ \E h \in 1..minted : BeginOn(t, "resolve", o, h) \/ BeginOn(t, "revoke", o, h)
        \/ BeginOn(t, "list", o, 0)
        \/ \E tenants \in {{o.tenant}, Tenants} : RevokePrincipal(t, o.principal, tenants)

Proceed(t) ==
    \/ MintAdmitted(t) \/ MintRefused(t)
    \/ Resolve(t) \/ RevokeResolved(t)
    \/ Notify(t)
    \/ List(t)

Next ==
    \/ Tick
    \/ \E t \in Threads : Begin(t) \/ Proceed(t) \/ \E h \in 1..minted : AdminRevoke(t, h)

SafetySpec == Init /\ [][Next]_vars

(* A thread that has the lock or waits for it runs on, and on_revoke        *)
(* callbacks come back, by return or exception.                             *)
Spec == SafetySpec /\ \A t \in Threads : WF_vars(Proceed(t))
-------------------------------------------------------------------------------
(* Typing; however the mints interleave, a principal stays within its cap   *)
(* and the registry and each tenant within twice theirs, and the counters   *)
(* the caps are checked on are those of the records, through every purge,   *)
(* expiry and revocation.                                                   *)
TypeOK ==
    /\ clock \in Nat
    /\ records \in [Handles -> Record \cup {NoRecord}]
    /\ Cardinality(Held) <= 2 * Max
    /\ counts \in [Owners -> 0..MaxPerPrincipal]
    /\ tenantCounts \in [Tenants -> 0..(2 * MaxPerTenant)]
    /\ nextPurge \in Nat
    /\ call \in [Threads -> Call]
    /\ minted \in 0..MaxHandles
    /\ revoked \subseteq Handles
    /\ notified \in [Handles -> Nat]
    /\ \A o \in Owners : counts[o] = Cardinality(OwnedBy(o, Held))
    /\ \A t \in Tenants : tenantCounts[t] = Cardinality(OfTenant(t, Held))

(* on_revoke runs at most once for a handle, however revoke, admin_revoke,  *)
(* revoke_principal and expiry race for it.                                 *)
NotifiedOnce == \A h \in Handles : notified[h] <= 1

(* mint refuses only for handles that are live at its reading of the clock: *)
(* records that have expired never use up anyone's capacity, and an owner   *)
(* below the floor is turned away at the hard ceilings only.                *)
RefusalJustified ==
    [][\A t \in Threads :
          call[t].pc = "mint" /\ call'[t].pc = "idle" /\ minted' = minted =>
              LET c == call[t]
                  live == {h \in Held : records[h].expires > c.now}
              IN  ~Admits(Cardinality(live), Cardinality(OwnedBy(c.owner, live)),
                          Cardinality(OfTenant(c.owner.tenant, live)))]_vars

(* No reading of the clock, however old, and no purge takes a handle away   *)
(* before it expires: until then only a revocation does.                    *)
NoEarlyDrop ==
    [][\A h \in Held : records'[h] = NoRecord =>
          records[h].expires <= clock \/ h \in revoked']_vars

(* Every handle a revocation takes is reported to on_revoke in the end,     *)
(* even when other callbacks of the batch fail.                             *)
RevocationsNotified == \A h \in Handles : h \in revoked ~> notified[h] > 0
===============================================================================
