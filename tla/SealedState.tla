------------------------------ MODULE SealedState ------------------------------
(***************************************************************************)
(* explicit_state.py, RequestStateSealer with single_use and without a     *)
(* shared spent_store: state the client carries, sealed for one caller and *)
(* one request, and the cache of the states that have come back.           *)
(*                                                                         *)
(* open decrypts and reads the clock before it takes the sealer's lock, so *)
(* the reading its purge works with may be older than another thread's.    *)
(*                                                                         *)
(* Sealing is taken as unforgeable: what decrypts was sealed, for the      *)
(* owner and request it names.  The n-th state sealed is the number n,     *)
(* which stands for its jti.                                               *)
(***************************************************************************)
EXTENDS Integers, Sequences, FiniteSets

CONSTANTS
    Threads,
    Owners,        \* the authenticated [principal, tenant] pairs
    MaxSpent,      \* _MAX_SPENT_ENTRIES
    MaxPerOwner,   \* _MAX_SPENT_PER_OWNER
    MaxPerTenant,  \* _MAX_SPENT_PER_TENANT
    Floor,         \* _OWNER_FLOOR
    MaxSeals,      \* _MAX_SEALS_PER_KEY
    Ttls,          \* the ttl_seconds callers ask for
    MaxTime        \* bound: seconds that pass

Tenants == {o.tenant : o \in Owners}

ASSUME CapsAssumption ==
    /\ MaxSpent \in Nat /\ MaxPerOwner \in Nat /\ MaxPerTenant \in Nat
    /\ Floor \in Nat /\ MaxSeals \in Nat
ASSUME TimesAssumption == Ttls \subseteq Nat \ {0} /\ MaxTime \in Nat

VARIABLES
    clock,          \* the injected clock, whole seconds, never set back
    sealed,         \* the states handed out, as [owner, exp]; _seals is its length
    spent,          \* _spent and _spent_heap: the jtis in the cache
    spentPerOwner,  \* _spent_per_owner, 0 for an absent key
    spentPerTenant, \* _spent_per_tenant, 0 for an absent key
    call,           \* the threads' calls of open
    (* history *)
    openedFresh     \* times each state was opened before its expiry

cache == <<spent, spentPerOwner, spentPerTenant>>
vars == <<clock, sealed, cache, call, openedFresh>>

Idle == [pc |-> "idle"]
States == 1..MaxSeals

OwnedBy(o, ns) == {n \in ns : sealed[n].owner = o}
OfTenant(t, ns) == {n \in ns : sealed[n].owner.tenant = t}

Init ==
    /\ clock = 0
    /\ sealed = <<>>
    /\ spent = {}
    /\ spentPerOwner = [o \in Owners |-> 0]
    /\ spentPerTenant = [t \in Tenants |-> 0]
    /\ call = [t \in Threads |-> Idle]
    /\ openedFresh = [n \in States |-> 0]

Tick ==
    /\ clock < MaxTime
    /\ clock' = clock + 1
    /\ UNCHANGED <<sealed, cache, call, openedFresh>>

(* seal: a key seals only so often.                                         *)
Seal(o, ttl) ==
    /\ Len(sealed) < MaxSeals
    /\ sealed' = Append(sealed, [owner |-> o, exp |-> clock + ttl])
    /\ UNCHANGED <<clock, cache, call, openedFresh>>
-------------------------------------------------------------------------------
(* open.                                                                    *)

(* A state that has expired, or comes from another owner or for another     *)
(* request, is refused without touching the cache.                          *)
BeginOpen(t, n) ==
    /\ call[t] = Idle
    /\ sealed[n].exp > clock
    /\ call' = [call EXCEPT ![t] = [pc |-> "open", state |-> n, now |-> clock]]
    /\ UNCHANGED <<clock, sealed, cache, openedFresh>>

(* What the purge pops.  The mutants pop a second early, and nothing.       *)
DueSecondEarly(now) == {n \in spent : sealed[n].exp <= now + 1}
DueNone(now) == {}
Due(now) == {n \in spent : sealed[n].exp <= now}

(* _decrement, any number of times.                                         *)
Minus(n, k) == IF n > k THEN n - k ELSE 0

CountsWithout(gone) ==
    [o \in Owners |-> Minus(spentPerOwner[o], Cardinality(OwnedBy(o, gone)))]
(* The mutant leaves the tenants' counters alone.                           *)
TenantCountsKept(gone) == spentPerTenant
TenantCountsWithout(gone) ==
    [t \in Tenants |-> Minus(spentPerTenant[t], Cardinality(OfTenant(t, gone)))]

(* The caps, on total, own and tenant counts.  An owner below the floor may *)
(* exceed the cache's and the tenant's cap, up to twice that cap.  The      *)
(* mutant forgets the ceilings.                                             *)
AdmitsWithoutCeiling(total, mine, inTenant) ==
    /\ mine < MaxPerOwner
    /\ inTenant < MaxPerTenant \/ mine < Floor
    /\ total < MaxSpent \/ mine < Floor
Admits(total, mine, inTenant) ==
    /\ mine < MaxPerOwner
    /\ inTenant < MaxPerTenant \/ (mine < Floor /\ inTenant < 2 * MaxPerTenant)
    /\ total < MaxSpent \/ (mine < Floor /\ total < 2 * MaxSpent)

HasRoom(o, gone) ==
    Admits(Cardinality(spent \ gone), CountsWithout(gone)[o],
           TenantCountsWithout(gone)[o.tenant])

Opened(t) ==
    LET n == call[t].state
        o == sealed[n].owner
        gone == Due(call[t].now)
    IN  /\ call[t].pc = "open" /\ n \notin spent \ gone /\ HasRoom(o, gone)
        /\ spent' = (spent \ gone) \cup {n}
        /\ spentPerOwner' = [CountsWithout(gone) EXCEPT ![o] = @ + 1]
        /\ spentPerTenant' = [TenantCountsWithout(gone) EXCEPT ![o.tenant] = @ + 1]
        /\ call' = [call EXCEPT ![t] = Idle]
        /\ openedFresh' = IF clock < sealed[n].exp
                          THEN [openedFresh EXCEPT ![n] = @ + 1] ELSE openedFresh
        /\ UNCHANGED <<clock, sealed>>

(* A refusal leaves the purge behind.                                       *)
Refused(t) ==
    LET gone == Due(call[t].now)
    IN  /\ spent' = spent \ gone
        /\ spentPerOwner' = CountsWithout(gone)
        /\ spentPerTenant' = TenantCountsWithout(gone)
        /\ call' = [call EXCEPT ![t] = Idle]
        /\ UNCHANGED <<clock, sealed, openedFresh>>

Replayed(t) ==
    /\ call[t].pc = "open" /\ call[t].state \in spent \ Due(call[t].now)
    /\ Refused(t)

CacheFull(t) ==
    /\ call[t].pc = "open" /\ call[t].state \notin spent \ Due(call[t].now)
    /\ ~ HasRoom(sealed[call[t].state].owner, Due(call[t].now))
    /\ Refused(t)

Next ==
    \/ Tick
    \/ \E o \in Owners, ttl \in Ttls : Seal(o, ttl)
    \/ \E t \in Threads :
        \/ \E n \in DOMAIN sealed : BeginOpen(t, n)
        \/ Opened(t)
        \/ Replayed(t)
        \/ CacheFull(t)

Spec == Init /\ [][Next]_vars
-------------------------------------------------------------------------------
(* Typing; the cache stays within twice its cap, and an owner's and a       *)
(* tenant's share of it, and the counters count what is in the cache,       *)
(* through every purge, however old the reading of the clock it works with. *)
TypeOK ==
    /\ clock \in Nat
    /\ sealed \in Seq([owner : Owners, exp : Nat]) /\ Len(sealed) <= MaxSeals
    /\ spent \subseteq DOMAIN sealed
    /\ spentPerOwner \in [Owners -> 0..MaxPerOwner]
    /\ spentPerTenant \in [Tenants -> 0..(2 * MaxPerTenant)]
    /\ Cardinality(spent) <= 2 * MaxSpent
    /\ call \in [Threads -> {Idle} \cup [pc : {"open"}, state : DOMAIN sealed, now : Nat]]
    /\ openedFresh \in [States -> Nat]
    /\ \A o \in Owners : spentPerOwner[o] = Cardinality(OwnedBy(o, spent))
    /\ \A t \in Tenants : spentPerTenant[t] = Cardinality(OfTenant(t, spent))

(* "With single_use - any second presentation" is rejected: a state is      *)
(* opened at most once before it expires.  (A thread whose reading of the   *)
(* clock is older than the expiry may open it once more after a thread with *)
(* a newer one has purged it.)                                              *)
OpenedOnceWhileFresh == \A n \in States : openedFresh[n] <= 1

(* A fresh state that was never opened is refused only for entries that     *)
(* have not expired by the caller's own reading, and one of an owner below  *)
(* the floor only at a ceiling, or its own quota.                           *)
FullOfLiveOnly ==
    [][\A t \in Threads :
        LET n == call[t].state
            o == sealed[n].owner
            live == {m \in spent : sealed[m].exp > call[t].now}
            mine == Cardinality(OwnedBy(o, live))
        IN  call[t].pc = "open" /\ call'[t] = Idle /\ n \notin spent \cup spent' =>
                \/ mine >= MaxPerOwner
                \/ /\ Cardinality(OfTenant(o.tenant, live)) >= MaxPerTenant
                   /\ mine < Floor
                         => Cardinality(OfTenant(o.tenant, live)) >= 2 * MaxPerTenant
                \/ /\ Cardinality(live) >= MaxSpent
                   /\ mine < Floor => Cardinality(live) >= 2 * MaxSpent]_vars
===============================================================================
