------------------------- MODULE HandleRegistry_proofs -------------------------
(***************************************************************************)
(* Theorems about HandleRegistry, for any threads, owners, caps and        *)
(* lifetimes: the counters the caps are checked on are those of the        *)
(* records, no handle is taken early, no mint is refused for a dead one,   *)
(* and on_revoke runs once for a handle.                                   *)
(***************************************************************************)
EXTENDS HandleRegistry, FiniteSetTheorems, TLAPS

Typed ==
    /\ clock \in Nat
    /\ records \in [Handles -> Record \cup {NoRecord}]
    /\ nextPurge \in Nat
    /\ call \in [Threads -> Call]
    /\ minted \in 0..MaxHandles
    /\ revoked \subseteq Handles
    /\ notified \in [Handles -> Nat]

(* The counters count the records, and the caps hold of those.              *)
Mine(o, hs) == Cardinality(OwnedBy(o, hs))
InTenant(t, hs) == Cardinality(OfTenant(t, hs))
Counted ==
    /\ counts = [o \in Owners |-> Mine(o, Held)]
    /\ tenantCounts = [t \in Tenants |-> InTenant(t, Held)]
Capped ==
    /\ \A o \in Owners : Mine(o, Held) <= MaxPerPrincipal
    /\ \A t \in Tenants : InTenant(t, Held) <= 2 * MaxPerTenant
    /\ Cardinality(Held) <= 2 * Max

(* A handle that has not been minted has no record and was never revoked.   *)
Unminted == \A h \in Handles : h > minted => h \notin Held \cup revoked

(* What a thread has still to report was revoked and is reported by no one  *)
(* else; no reading of the clock is ahead of it.                            *)
Reported ==
    /\ \A t \in Threads : call[t].now <= clock
    /\ \A t \in Threads : call[t].todo \subseteq revoked
    /\ \A t \in Threads : \A h \in call[t].todo : notified[h] = 0
    /\ \A t, u \in Threads : t # u => call[t].todo \cap call[u].todo = {}
    /\ revoked \cap Held = {}
    /\ \A h \in Handles : notified[h] # 0 => notified[h] = 1 /\ h \in revoked

Inv == Typed /\ Counted /\ Capped /\ Unminted /\ Reported
-----------------------------------------------------------------------------
LEMMA Shares ==
    ASSUME NEW hs, IsFiniteSet(hs)
    PROVE  /\ Cardinality(hs) \in Nat
           /\ \A o : IsFiniteSet(OwnedBy(o, hs)) /\ Mine(o, hs) \in Nat
           /\ \A t : IsFiniteSet(OfTenant(t, hs)) /\ InTenant(t, hs) \in Nat
  <1>1. \A o : OwnedBy(o, hs) \in SUBSET hs
    BY DEF OwnedBy
  <1>2. \A t : OfTenant(t, hs) \in SUBSET hs
    BY DEF OfTenant
  <1>. QED
    BY <1>1, <1>2, FS_Subset, FS_CardinalityType DEF Mine, InTenant

LEMMA HeldFinite == IsFiniteSet(Held)
  <1>1. IsFiniteSet(Handles)
    BY BoundsAssumption, FS_Interval DEF Handles
  <1>. QED
    BY <1>1, FS_Subset DEF Held

(* _decrement, once for each record of a part that is dropped.              *)
LEMMA MinusCounts ==
    ASSUME NEW S, IsFiniteSet(S), NEW G \in SUBSET S
    PROVE  Minus(Cardinality(S), Cardinality(G)) = Cardinality(S \ G)
  <1>1. S \cap G = G
    OBVIOUS
  <1>2. Cardinality(S \ G) = Cardinality(S) - Cardinality(G)
    BY <1>1, FS_Difference
  <1>3. /\ Cardinality(S) \in Nat /\ Cardinality(G) \in Nat
        /\ Cardinality(G) <= Cardinality(S)
    BY FS_Subset, FS_CardinalityType
  <1>. QED
    BY <1>2, <1>3 DEF Minus

LEMMA SharesGrow ==
    ASSUME NEW hs, IsFiniteSet(hs), NEW h, h \notin hs
    PROVE  /\ Cardinality(hs \cup {h}) = Cardinality(hs) + 1
           /\ \A p : Cardinality(OwnedBy(p, hs) \cup {h}) = Mine(p, hs) + 1
           /\ \A u : Cardinality(OfTenant(u, hs) \cup {h}) = InTenant(u, hs) + 1
  <1>1. (\A p : h \notin OwnedBy(p, hs)) /\ (\A u : h \notin OfTenant(u, hs))
    BY DEF OwnedBy, OfTenant
  <1>2. (\A p : IsFiniteSet(OwnedBy(p, hs))) /\ (\A u : IsFiniteSet(OfTenant(u, hs)))
    BY Shares
  <1>. QED
    BY <1>1, <1>2, FS_AddElement DEF Mine, InTenant

LEMMA CountsAfterDrop ==
    ASSUME Counted, NEW gone \in SUBSET Held
    PROVE  /\ CountsWithout(gone) = [o \in Owners |-> Mine(o, Held \ gone)]
           /\ TenantCountsWithout(gone) = [t \in Tenants |-> InTenant(t, Held \ gone)]
  <1>1. ASSUME NEW o \in Owners
        PROVE  Minus(Mine(o, Held), Cardinality(OwnedBy(o, gone))) = Mine(o, Held \ gone)
    <2>1. /\ OwnedBy(o, gone) \in SUBSET OwnedBy(o, Held)
          /\ OwnedBy(o, Held) \ OwnedBy(o, gone) = OwnedBy(o, Held \ gone)
      BY DEF OwnedBy
    <2>2. IsFiniteSet(OwnedBy(o, Held))
      BY HeldFinite, Shares
    <2>. QED
      BY <2>1, <2>2, MinusCounts DEF Mine
  <1>2. ASSUME NEW t \in Tenants
        PROVE  Minus(InTenant(t, Held), Cardinality(OfTenant(t, gone))) = InTenant(t, Held \ gone)
    <2>1. /\ OfTenant(t, gone) \in SUBSET OfTenant(t, Held)
          /\ OfTenant(t, Held) \ OfTenant(t, gone) = OfTenant(t, Held \ gone)
      BY DEF OfTenant
    <2>2. IsFiniteSet(OfTenant(t, Held))
      BY HeldFinite, Shares
    <2>. QED
      BY <2>1, <2>2, MinusCounts DEF InTenant
  <1>. QED
    BY <1>1, <1>2 DEF Counted, CountsWithout, TenantCountsWithout

(* What is left after a drop is within the caps.                            *)
LEMMA SharesShrink ==
    ASSUME Capped, NEW gone \in SUBSET Held
    PROVE  /\ IsFiniteSet(Held \ gone)
           /\ Cardinality(Held \ gone) \in Nat /\ Cardinality(Held \ gone) <= 2 * Max
           /\ \A o \in Owners : /\ Mine(o, Held \ gone) \in Nat
                                /\ Mine(o, Held \ gone) <= MaxPerPrincipal
           /\ \A t \in Tenants : /\ InTenant(t, Held \ gone) \in Nat
                                 /\ InTenant(t, Held \ gone) <= 2 * MaxPerTenant
  <1>1. /\ IsFiniteSet(Held) /\ Held \ gone \in SUBSET Held
        /\ IsFiniteSet(Held \ gone)
    BY HeldFinite, FS_Subset
  <1>2. /\ \A o : OwnedBy(o, Held \ gone) \in SUBSET OwnedBy(o, Held)
        /\ \A t : OfTenant(t, Held \ gone) \in SUBSET OfTenant(t, Held)
    BY DEF OwnedBy, OfTenant
  <1>3. /\ Cardinality(Held \ gone) <= Cardinality(Held)
        /\ \A o \in Owners : Mine(o, Held \ gone) <= Mine(o, Held)
        /\ \A t \in Tenants : InTenant(t, Held \ gone) <= InTenant(t, Held)
    BY <1>1, <1>2, Shares, FS_Subset DEF Mine, InTenant
  <1>4. /\ Cardinality(Held) \in Nat /\ Cardinality(Held \ gone) \in Nat
        /\ \A o : Mine(o, Held) \in Nat /\ Mine(o, Held \ gone) \in Nat
        /\ \A t : InTenant(t, Held) \in Nat /\ InTenant(t, Held \ gone) \in Nat
    BY <1>1, Shares
  <1>5. ASSUME NEW o \in Owners PROVE Mine(o, Held \ gone) <= MaxPerPrincipal
    <2>1. Mine(o, Held \ gone) <= Mine(o, Held) /\ Mine(o, Held) <= MaxPerPrincipal
      BY <1>3 DEF Capped
    <2>. QED
      BY <1>4, <2>1, CapsAssumption
  <1>6. ASSUME NEW t \in Tenants PROVE InTenant(t, Held \ gone) <= 2 * MaxPerTenant
    <2>1. InTenant(t, Held \ gone) <= InTenant(t, Held) /\ InTenant(t, Held) <= 2 * MaxPerTenant
      BY <1>3 DEF Capped
    <2>. QED
      BY <1>4, <2>1, CapsAssumption
  <1>7. Cardinality(Held \ gone) <= 2 * Max
    BY <1>3, <1>4, CapsAssumption DEF Capped
  <1>. QED
    BY <1>1, <1>4, <1>5, <1>6, <1>7

LEMMA IdleCall == Idle \in Call /\ Idle.now = 0 /\ Idle.todo = {}
  <1>. DEFINE first == CHOOSE o \in Owners : TRUE
              none == {}
              hs == 0..MaxHandles
              pcs == {"idle", "mint", "resolve", "revoke", "list", "drop", "notify"}
  <1>1. \E o \in Owners : TRUE
    BY OwnersAssumption
  <1>2. first \in Owners
    BY <1>1, Zenon
  <1>3. none \in SUBSET Handles /\ 0 \in hs /\ "idle" \in pcs
    BY BoundsAssumption
  <1>4. Idle = [pc |-> "idle", now |-> 0, owner |-> first, ttl |-> 0, handle |-> 0, todo |-> none]
    BY DEF Idle
  <1>. HIDE DEF first, none, hs, pcs
  <1>5. Idle \in [pc : pcs, now : Nat, owner : Owners, ttl : Nat, handle : hs, todo : SUBSET Handles]
    BY <1>2, <1>3, <1>4
  <1>. QED
    BY <1>4, <1>5 DEF Call, none, hs, pcs

(* The calls the operations leave, from any call.                           *)
Fresh(c, now) == c \in Call /\ c.now = now /\ c.todo = {}
Minting(c, now, o, ttl) == [c EXCEPT !.pc = "mint", !.now = now, !.owner = o, !.ttl = ttl]
On(c, pc, now, o, h) == [c EXCEPT !.pc = pc, !.now = now, !.owner = o, !.handle = h]

LEMMA MintCall ==
    ASSUME NEW c \in Call, c.todo = {}, NEW now \in Nat, NEW o \in Owners, NEW ttl \in Nat
    PROVE  Fresh(Minting(c, now, o, ttl), now)
  BY DEF Call, Fresh, Minting

LEMMA CallOn ==
    ASSUME NEW c \in Call, c.todo = {}, NEW pc \in {"resolve", "revoke", "list"},
           NEW now \in Nat, NEW o \in Owners, NEW h \in 0..MaxHandles
    PROVE  Fresh(On(c, pc, now, o, h), now)
  BY DEF Call, Fresh, On

LEMMA DropCall ==
    ASSUME NEW c \in Call, NEW h \in 0..MaxHandles
    PROVE  /\ [c EXCEPT !.pc = "drop", !.handle = h] \in Call
           /\ [c EXCEPT !.pc = "drop", !.handle = h].now = c.now
           /\ [c EXCEPT !.pc = "drop", !.handle = h].todo = c.todo
  BY DEF Call

LEMMA NotifyCall ==
    ASSUME NEW c \in Call, NEW hs \in SUBSET Handles
    PROVE  /\ [c EXCEPT !.pc = "notify", !.todo = hs] \in Call
           /\ [c EXCEPT !.pc = "notify", !.todo = hs].now = c.now
           /\ [c EXCEPT !.pc = "notify", !.todo = hs].todo = hs
           /\ [c EXCEPT !.todo = hs] \in Call
           /\ [c EXCEPT !.todo = hs].now = c.now
           /\ [c EXCEPT !.todo = hs].todo = hs
  BY DEF Call
-----------------------------------------------------------------------------
(* The records of gone are dropped, and nothing else.                       *)
LEMMA DropStep ==
    ASSUME Inv, NEW gone \in SUBSET Held, Drop(gone)
    PROVE  /\ records' \in [Handles -> Record \cup {NoRecord}]
           /\ Held' = Held \ gone
           /\ \A h \in Handles \ gone : records'[h] = records[h]
           /\ Counted' /\ Capped'
  <1>1. /\ records \in [Handles -> Record \cup {NoRecord}]
        /\ records' = [h \in Handles |-> IF h \in gone THEN NoRecord ELSE records[h]]
    BY DEF Inv, Typed, Drop, Without
  <1>2. Held' = Held \ gone
    BY <1>1 DEF Held
  <1>3. /\ \A o : OwnedBy(o, Held)' = OwnedBy(o, Held \ gone)
        /\ \A t : OfTenant(t, Held)' = OfTenant(t, Held \ gone)
    BY <1>1, <1>2 DEF OwnedBy, OfTenant, Held
  <1>4. /\ counts' = [o \in Owners |-> Mine(o, Held \ gone)]
        /\ tenantCounts' = [t \in Tenants |-> InTenant(t, Held \ gone)]
    BY CountsAfterDrop DEF Inv, Drop
  <1>5. Counted'
    BY <1>3, <1>4 DEF Counted, Mine, InTenant
  <1>6. Capped'
    <2>1. /\ Cardinality(Held \ gone) <= 2 * Max
          /\ \A o \in Owners : Mine(o, Held \ gone) <= MaxPerPrincipal
          /\ \A t \in Tenants : InTenant(t, Held \ gone) <= 2 * MaxPerTenant
      BY SharesShrink DEF Inv
    <2>. QED
      BY <1>2, <1>3, <2>1 DEF Capped, Mine, InTenant
  <1>. QED
    BY <1>1, <1>2, <1>5, <1>6

(* A thread's call is over, or one begins: it has nothing to report.        *)
LEMMA CallStep ==
    ASSUME Inv, NEW t \in Threads, NEW c \in Call, c.now <= clock, c.todo = {},
           call' = [call EXCEPT ![t] = c], UNCHANGED <<clock, revoked, notified>>,
           revoked \cap Held' = {}
    PROVE  call' \in [Threads -> Call] /\ Reported'
  <1>1. call' \in [Threads -> Call]
    BY DEF Inv, Typed
  <1>2. \A u \in Threads : call'[u] = IF u = t THEN c ELSE call[u]
    BY DEF Inv, Typed
  <1>3. /\ \A u \in Threads : call'[u].now <= clock
        /\ \A u \in Threads : call'[u].todo \subseteq call[u].todo
    BY <1>2 DEF Inv, Reported
  <1>4. Reported'
    <2>1. \A u \in Threads : /\ call'[u].todo \subseteq revoked
                             /\ \A h \in call'[u].todo : notified[h] = 0
      BY <1>3 DEF Inv, Reported
    <2>2. \A u, v \in Threads : u # v => call'[u].todo \cap call'[v].todo = {}
      BY <1>3 DEF Inv, Reported
    <2>. QED
      BY <1>3, <2>1, <2>2 DEF Inv, Reported
  <1>. QED
    BY <1>1, <1>4

LEMMA BeginStep ==
    ASSUME Inv, NEW t \in Threads, NEW c \in Call, c.now <= clock, c.todo = {},
           call' = [call EXCEPT ![t] = c], UNCHANGED <<clock, registry, history>>
    PROVE  Inv'
  <1>1. /\ \A o : OwnedBy(o, Held)' = OwnedBy(o, Held)
        /\ \A u : OfTenant(u, Held)' = OfTenant(u, Held)
        /\ Held' = Held
    BY DEF OwnedBy, OfTenant, Held, registry
  <1>2. call' \in [Threads -> Call] /\ Reported'
    <2>1. revoked \cap Held' = {}
      BY <1>1 DEF Inv, Reported
    <2>. QED
      BY <2>1, CallStep DEF history
  <1>3. Typed'
    BY <1>2 DEF Inv, Typed, registry, history
  <1>4. Counted' /\ Capped'
    BY <1>1 DEF Inv, Counted, Capped, Mine, InTenant, registry
  <1>5. Unminted'
    BY <1>1 DEF Inv, Unminted, history
  <1>. QED
    BY <1>2, <1>3, <1>4, <1>5 DEF Inv

(* A call ends, or gives up its place for a drop, after a purge.            *)
LEMMA PurgeStep ==
    ASSUME Inv, NEW t \in Threads, NEW c \in Call, c.now <= clock, c.todo = {},
           call' = [call EXCEPT ![t] = c], NEW gone \in SUBSET Held, Drop(gone),
           nextPurge' \in Nat, UNCHANGED <<clock, history>>
    PROVE  Inv'
  <1>1. /\ records' \in [Handles -> Record \cup {NoRecord}]
        /\ Held' = Held \ gone /\ Counted' /\ Capped'
    BY DropStep
  <1>2. call' \in [Threads -> Call] /\ Reported'
    <2>1. revoked \cap Held' = {}
      BY <1>1 DEF Inv, Reported
    <2>. QED
      BY <2>1, CallStep DEF history
  <1>3. Typed'
    BY <1>1, <1>2 DEF Inv, Typed, history
  <1>4. Unminted'
    BY <1>1 DEF Inv, Unminted, history
  <1>. QED
    BY <1>1, <1>2, <1>3, <1>4 DEF Inv
-----------------------------------------------------------------------------
LEMMA CallTypes ==
    ASSUME Inv, NEW t \in Threads
    PROVE  /\ call[t] \in Call /\ call[t].now \in Nat /\ call[t].now <= clock
           /\ call[t].owner \in Owners /\ call[t].ttl \in Nat
           /\ call[t].owner.tenant \in Tenants /\ call[t].todo \in SUBSET Handles
  BY DEF Inv, Typed, Call, Reported, Tenants

LEMMA SweptHeld == \A o, now : Swept(o, now) \in SUBSET Held
  BY DEF Swept, Due, Expired

LEMMA BeginMintStep ==
    ASSUME Inv, NEW t \in Threads, NEW o \in Owners, NEW ttl \in Ttls, BeginMint(t, o, ttl)
    PROVE  Inv'
  <1>. DEFINE c == [Idle EXCEPT !.pc = "mint", !.now = clock, !.owner = o, !.ttl = ttl]
  <1>1. c \in Call /\ c.now <= clock /\ c.todo = {}
    <2>1. clock \in Nat /\ ttl \in Nat
      BY BoundsAssumption DEF Inv, Typed
    <2>2. Fresh(Minting(Idle, clock, o, ttl), clock)
      BY <2>1, IdleCall, MintCall
    <2>3. c = Minting(Idle, clock, o, ttl)
      BY DEF Minting
    <2>. HIDE DEF c
    <2>. QED
      BY <2>1, <2>2, <2>3 DEF Fresh
  <1>. QED
    BY <1>1, BeginStep DEF BeginMint

LEMMA BeginOnStep ==
    ASSUME Inv, NEW t \in Threads, NEW pc \in {"resolve", "revoke", "list"}, NEW o \in Owners,
           NEW h \in 0..minted, BeginOn(t, pc, o, h)
    PROVE  Inv'
  <1>. DEFINE c == [Idle EXCEPT !.pc = pc, !.now = clock, !.owner = o, !.handle = h]
  <1>1. h \in 0..MaxHandles
    BY BoundsAssumption DEF Inv, Typed
  <1>2. c \in Call /\ c.now <= clock /\ c.todo = {}
    <2>1. clock \in Nat
      BY DEF Inv, Typed
    <2>2. Fresh(On(Idle, pc, clock, o, h), clock)
      BY <1>1, <2>1, IdleCall, CallOn
    <2>3. c = On(Idle, pc, clock, o, h)
      BY DEF On
    <2>. HIDE DEF c
    <2>. QED
      BY <2>1, <2>2, <2>3 DEF Fresh
  <1>. QED
    BY <1>2, BeginStep DEF BeginOn

LEMMA MintRefusedStep ==
    ASSUME Inv, NEW t \in Threads, MintRefused(t)
    PROVE  Inv'
  <1>1. clock \in Nat /\ nextPurge \in Nat
    BY DEF Inv, Typed
  <1>2. nextPurge' \in Nat
    BY <1>1, CallTypes DEF MintRefused
  <1>3. Idle \in Call /\ Idle.now <= clock /\ Idle.todo = {}
    BY <1>1, IdleCall
  <1>. QED
    BY <1>2, <1>3, SweptHeld, PurgeStep DEF MintRefused, Finish

LEMMA ResolveStep ==
    ASSUME Inv, NEW t \in Threads, Resolve(t)
    PROVE  Inv'
  <1>. DEFINE gone == {call[t].handle} \cap Expired(call[t].now)
              resolved == [Idle EXCEPT !.pc = "drop", !.handle = call[t].handle]
  <1>1. clock \in Nat /\ nextPurge \in Nat
    BY DEF Inv, Typed
  <1>2. gone \in SUBSET Held
    BY DEF Expired
  <1>3. PICK c \in {resolved, Idle} : call' = [call EXCEPT ![t] = c]
    BY DEF Resolve
  <1>4. c \in Call /\ c.now <= clock /\ c.todo = {}
    <2>1. Idle \in Call /\ Idle.now = 0 /\ Idle.todo = {}
      BY IdleCall
    <2>2. call[t].handle \in 0..MaxHandles
      BY CallTypes DEF Call
    <2>3. resolved \in Call /\ resolved.now = 0 /\ resolved.todo = {}
      <3>1. resolved \in Call /\ resolved.now = Idle.now /\ resolved.todo = Idle.todo
        BY <2>2, IdleCall, DropCall
      <3>. HIDE DEF resolved
      <3>. QED
        BY <3>1, IdleCall
    <2>. HIDE DEF resolved
    <2>. QED
      BY <1>1, <1>3, <2>1, <2>3
  <1>5. Drop(gone) /\ nextPurge' \in Nat /\ UNCHANGED <<clock, history>>
    BY <1>1 DEF Resolve
  <1>. HIDE DEF gone
  <1>. QED
    BY <1>2, <1>3, <1>4, <1>5, PurgeStep

LEMMA ListStep ==
    ASSUME Inv, NEW t \in Threads, List(t)
    PROVE  Inv'
  <1>1. clock \in Nat /\ call[t].now + 1 \in Nat
    BY CallTypes DEF Inv, Typed
  <1>2. Idle \in Call /\ Idle.now <= clock /\ Idle.todo = {}
    BY <1>1, IdleCall
  <1>3. Due(call[t].now) \in SUBSET Held
    BY DEF Due, Expired
  <1>. QED
    BY <1>1, <1>2, <1>3, PurgeStep DEF List, Finish

LEMMA MintAdmittedStep ==
    ASSUME Inv, NEW t \in Threads, MintAdmitted(t)
    PROVE  Inv'
  <1>. DEFINE o == call[t].owner
              gone == Swept(o, call[t].now)
              rest == Held \ gone
              m == minted + 1
              new == [owner |-> o, expires |-> call[t].now + call[t].ttl]
  <1>1. /\ Admits(Cardinality(rest), CountsWithout(gone)[o], TenantCountsWithout(gone)[o.tenant])
        /\ minted < MaxHandles /\ minted' = m
        /\ records' = [Without(gone) EXCEPT ![m] = new]
        /\ counts' = [CountsWithout(gone) EXCEPT ![o] = @ + 1]
        /\ tenantCounts' = [TenantCountsWithout(gone) EXCEPT ![o.tenant] = @ + 1]
        /\ nextPurge' \in {call[t].now + 1, nextPurge}
        /\ call' = [call EXCEPT ![t] = Idle]
        /\ UNCHANGED <<clock, revoked, notified>>
    BY DEF MintAdmitted, AdmitsMint, Finish
  <1>2. /\ o \in Owners /\ o.tenant \in Tenants /\ call[t].now \in Nat
        /\ new \in Record /\ new # NoRecord
    <2>1. call[t].now + call[t].ttl \in Nat
      BY CallTypes
    <2>. QED
      BY <2>1, CallTypes, NoRecordAssumption DEF Record
  <1>3. /\ minted \in Nat /\ m \in Handles /\ m \notin Held /\ m \notin revoked
        /\ m > minted
    BY <1>1, BoundsAssumption DEF Inv, Typed, Unminted, Handles
  <1>4. gone \in SUBSET Held
    BY SweptHeld
  <1>. HIDE DEF o, gone, m, new
  <1>5. /\ \A h \in Handles : records'[h] = IF h = m THEN new
                                            ELSE IF h \in gone THEN NoRecord ELSE records[h]
        /\ records' \in [Handles -> Record \cup {NoRecord}]
    BY <1>1, <1>2, <1>3 DEF Inv, Typed, Without
  <1>6. Held' = rest \cup {m}
    BY <1>2, <1>3, <1>5 DEF Held
  <1>7. /\ \A p : OwnedBy(p, Held)' = IF o = p THEN OwnedBy(p, rest) \cup {m} ELSE OwnedBy(p, rest)
        /\ \A u : OfTenant(u, Held)'
                     = IF o.tenant = u THEN OfTenant(u, rest) \cup {m} ELSE OfTenant(u, rest)
    <2>1. /\ \A h \in rest : records'[h] = records[h] /\ h \in Handles
          /\ records'[m] = new /\ new.owner = o /\ new.owner.tenant = o.tenant
      BY <1>3, <1>5 DEF Held, new
    <2>. QED
      BY <1>6, <2>1 DEF OwnedBy, OfTenant
  <1>8. /\ IsFiniteSet(rest) /\ Cardinality(rest) \in Nat /\ Cardinality(rest) <= 2 * Max
        /\ \A p \in Owners : Mine(p, rest) \in Nat /\ Mine(p, rest) <= MaxPerPrincipal
        /\ \A u \in Tenants : InTenant(u, rest) \in Nat /\ InTenant(u, rest) <= 2 * MaxPerTenant
    BY <1>4, SharesShrink DEF Inv
  <1>9. /\ CountsWithout(gone) = [p \in Owners |-> Mine(p, rest)]
        /\ TenantCountsWithout(gone) = [u \in Tenants |-> InTenant(u, rest)]
    BY <1>4, CountsAfterDrop DEF Inv
  <1>10. Admits(Cardinality(rest), Mine(o, rest), InTenant(o.tenant, rest))
    BY <1>1, <1>2, <1>9
  <1>11. /\ Cardinality(rest) < 2 * Max
         /\ Mine(o, rest) < MaxPerPrincipal
         /\ InTenant(o.tenant, rest) < 2 * MaxPerTenant
    <2>1. /\ Cardinality(rest) \in Nat /\ Mine(o, rest) \in Nat
          /\ InTenant(o.tenant, rest) \in Nat
      BY <1>2, <1>8
    <2>. QED
      BY <1>10, <2>1, CapsAssumption DEF Admits
  <1>12. /\ Cardinality(Held') = Cardinality(rest) + 1
         /\ \A p : Cardinality(OwnedBy(p, Held)') = IF o = p THEN Mine(p, rest) + 1 ELSE Mine(p, rest)
         /\ \A u : Cardinality(OfTenant(u, Held)')
                      = IF o.tenant = u THEN InTenant(u, rest) + 1 ELSE InTenant(u, rest)
    <2>1. IsFiniteSet(rest) /\ m \notin rest
      BY <1>3, <1>8
    <2>. HIDE DEF rest
    <2>2. /\ Cardinality(rest \cup {m}) = Cardinality(rest) + 1
          /\ \A p : Cardinality(OwnedBy(p, rest) \cup {m}) = Mine(p, rest) + 1
          /\ \A u : Cardinality(OfTenant(u, rest) \cup {m}) = InTenant(u, rest) + 1
      BY <2>1, SharesGrow
    <2>. QED
      BY <1>6, <1>7, <2>2, Zenon DEF Mine, InTenant
  <1>13. Counted'
    <2>1. counts' = [p \in Owners |-> IF o = p THEN Mine(p, rest) + 1 ELSE Mine(p, rest)]
      BY <1>1, <1>2, <1>9
    <2>2. tenantCounts' = [u \in Tenants |->
             IF o.tenant = u THEN InTenant(u, rest) + 1 ELSE InTenant(u, rest)]
      BY <1>1, <1>2, <1>9
    <2>. QED
      BY <1>12, <2>1, <2>2 DEF Counted, Mine, InTenant
  <1>14. Capped'
    <2>1. ASSUME NEW p \in Owners PROVE Cardinality(OwnedBy(p, Held)') <= MaxPerPrincipal
      <3>1. Mine(p, rest) \in Nat /\ Mine(p, rest) <= MaxPerPrincipal /\ MaxPerPrincipal \in Nat
        BY <1>8, CapsAssumption
      <3>2. o = p => Mine(p, rest) < MaxPerPrincipal
        BY <1>11
      <3>. QED
        BY <1>12, <3>1, <3>2
    <2>2. ASSUME NEW u \in Tenants PROVE Cardinality(OfTenant(u, Held)') <= 2 * MaxPerTenant
      <3>1. /\ InTenant(u, rest) \in Nat /\ InTenant(u, rest) <= 2 * MaxPerTenant
            /\ 2 * MaxPerTenant \in Nat
        BY <1>8, CapsAssumption
      <3>. DEFINE cap == 2 * MaxPerTenant
      <3>. HIDE DEF cap
      <3>2. o.tenant = u => InTenant(u, rest) < cap
        BY <1>11 DEF cap
      <3>3. /\ InTenant(u, rest) \in Nat /\ InTenant(u, rest) <= cap /\ cap \in Nat
        BY <3>1 DEF cap
      <3>. QED
        BY <1>12, <3>2, <3>3 DEF cap
    <2>3. Cardinality(Held') <= 2 * Max
      BY <1>8, <1>11, <1>12, CapsAssumption
    <2>. QED
      BY <2>1, <2>2, <2>3 DEF Capped, Mine, InTenant
  <1>15. Unminted'
    <2>. SUFFICES ASSUME NEW h \in Handles, h > minted' PROVE h \notin Held' \cup revoked'
      BY DEF Unminted
    <2>1. h \in Int /\ h > minted /\ h # m
      BY <1>1, <1>3, BoundsAssumption DEF Handles, m
    <2>. QED
      BY <1>1, <1>6, <2>1 DEF Inv, Unminted
  <1>16. call' \in [Threads -> Call] /\ Reported'
    <2>1. revoked \cap Held' = {}
      BY <1>3, <1>6 DEF Inv, Reported
    <2>2. Idle \in Call /\ Idle.now <= clock /\ Idle.todo = {}
      BY IdleCall DEF Inv, Typed
    <2>. QED
      BY <1>1, <2>1, <2>2, CallStep
  <1>17. Typed'
    <2>1. minted' \in 0..MaxHandles
      BY <1>1, <1>3, BoundsAssumption DEF Handles
    <2>2. nextPurge' \in Nat
      BY <1>1, <1>2 DEF Inv, Typed
    <2>. QED
      BY <1>1, <1>5, <1>16, <2>1, <2>2 DEF Inv, Typed
  <1>. QED
    BY <1>13, <1>14, <1>15, <1>16, <1>17 DEF Inv

(* A revocation: what it takes is reported by no one yet.                   *)
LEMMA RevokeStep ==
    ASSUME Inv, NEW t \in Threads, NEW doomed \in SUBSET Held, Revoke(t, doomed)
    PROVE  Inv'
  <1>. DEFINE c == IF doomed = {} THEN Idle ELSE [Idle EXCEPT !.pc = "notify", !.todo = doomed]
  <1>1. /\ Drop(doomed) /\ revoked' = revoked \cup doomed
        /\ call' = [call EXCEPT ![t] = c]
        /\ UNCHANGED <<clock, nextPurge, minted, notified>>
    <2>1. doomed \cap Held = doomed
      OBVIOUS
    <2>. QED
      BY <2>1 DEF Revoke
  <1>2. doomed \in SUBSET Handles
    BY DEF Held
  <1>3. c \in Call /\ c.now = 0 /\ c.todo = doomed
    BY <1>2, IdleCall, NotifyCall
  <1>. HIDE DEF c
  <1>4. /\ records' \in [Handles -> Record \cup {NoRecord}]
        /\ Held' = Held \ doomed /\ Counted' /\ Capped'
    BY <1>1, DropStep
  <1>5. call' \in [Threads -> Call]
    BY <1>1, <1>3 DEF Inv, Typed
  <1>6. \A u \in Threads : call'[u] = IF u = t THEN c ELSE call[u]
    BY <1>1 DEF Inv, Typed
  <1>7. \A h \in doomed : notified[h] = 0 /\ h \notin revoked
    BY <1>2 DEF Inv, Typed, Reported
  <1>8. Reported'
    <2>1. \A u \in Threads : call'[u].now <= clock'
      BY <1>1, <1>3, <1>6 DEF Inv, Typed, Reported
    <2>2. \A u \in Threads : call'[u].todo \subseteq revoked'
      BY <1>1, <1>3, <1>6 DEF Inv, Reported
    <2>3. \A u \in Threads : \A h \in call'[u].todo : notified'[h] = 0
      BY <1>1, <1>3, <1>6, <1>7 DEF Inv, Reported
    <2>4. \A u, v \in Threads : u # v => call'[u].todo \cap call'[v].todo = {}
      BY <1>3, <1>6, <1>7 DEF Inv, Reported
    <2>5. revoked' \cap Held' = {}
      BY <1>1, <1>4 DEF Inv, Reported
    <2>. QED
      BY <1>1, <2>1, <2>2, <2>3, <2>4, <2>5 DEF Inv, Reported
  <1>9. Unminted'
    BY <1>1, <1>4 DEF Inv, Unminted
  <1>10. Typed'
    BY <1>1, <1>2, <1>4, <1>5 DEF Inv, Typed
  <1>. QED
    BY <1>4, <1>8, <1>9, <1>10 DEF Inv

LEMMA NotifyStep ==
    ASSUME Inv, NEW t \in Threads, Notify(t)
    PROVE  Inv'
  <1>1. PICK h \in call[t].todo :
           /\ notified' = [notified EXCEPT ![h] = @ + 1]
           /\ call' = [call EXCEPT ![t] = IF call[t].todo \ {h} = {} THEN Idle
                                          ELSE [@ EXCEPT !.todo = call[t].todo \ {h}]]
           /\ UNCHANGED <<clock, registry, minted, revoked>>
    BY DEF Notify, Left
  <1>. DEFINE left == call[t].todo \ {h}
              c == IF left = {} THEN Idle ELSE [call[t] EXCEPT !.todo = left]
  <1>2. /\ h \in Handles /\ left \in SUBSET Handles /\ h \in revoked
        /\ notified[h] = 0 /\ notified \in [Handles -> Nat] /\ clock \in Nat
    BY CallTypes DEF Inv, Typed, Reported
  <1>3. /\ \A u \in Threads : call'[u] = IF u = t THEN c ELSE call[u]
        /\ call' = [call EXCEPT ![t] = c]
    BY <1>1 DEF Inv, Typed
  <1>4. c \in Call /\ c.now <= clock /\ c.todo = left
    <2>. HIDE DEF left
    <2>1. /\ [call[t] EXCEPT !.todo = left] \in Call
          /\ [call[t] EXCEPT !.todo = left].now = call[t].now
          /\ [call[t] EXCEPT !.todo = left].todo = left
      BY <1>2, CallTypes, NotifyCall
    <2>2. Idle \in Call /\ Idle.now <= clock /\ Idle.todo = {}
      BY <1>2, IdleCall
    <2>. QED
      BY <2>1, <2>2, CallTypes
  <1>. HIDE DEF c
  <1>5. /\ \A o : OwnedBy(o, Held)' = OwnedBy(o, Held)
        /\ \A u : OfTenant(u, Held)' = OfTenant(u, Held)
        /\ Held' = Held
    BY <1>1 DEF OwnedBy, OfTenant, Held, registry
  <1>6. Reported'
    <2>1. \A u \in Threads : call'[u].now <= clock
      BY <1>3, <1>4 DEF Inv, Reported
    <2>2. \A u \in Threads : call'[u].todo \subseteq call[u].todo /\ h \notin call'[u].todo
      BY <1>1, <1>3, <1>4 DEF Inv, Reported
    <2>3. \A u \in Threads : call'[u].todo \subseteq revoked
      BY <2>2 DEF Inv, Reported
    <2>4. \A k \in Handles : notified'[k] = IF k = h THEN 1 ELSE notified[k]
      BY <1>1, <1>2
    <2>5. \A u \in Threads : \A k \in call'[u].todo : notified'[k] = 0
      BY <1>3, <2>2, <2>4, CallTypes DEF Inv, Reported
    <2>6. \A u, v \in Threads : u # v => call'[u].todo \cap call'[v].todo = {}
      BY <2>2 DEF Inv, Reported
    <2>7. \A k \in Handles : notified'[k] # 0 => notified'[k] = 1 /\ k \in revoked
      BY <1>2, <2>4 DEF Inv, Reported
    <2>. QED
      BY <1>1, <1>5, <2>1, <2>3, <2>5, <2>6, <2>7 DEF Inv, Reported
  <1>7. Typed'
    <2>1. call' \in [Threads -> Call]
      <3>1. call \in [Threads -> Call]
        BY DEF Inv, Typed
      <3>. QED
        BY <1>3, <1>4, <3>1
    <2>2. notified' \in [Handles -> Nat]
      BY <1>1, <1>2
    <2>. QED
      BY <1>1, <2>1, <2>2 DEF Inv, Typed, registry
  <1>8. Counted' /\ Capped'
    BY <1>1, <1>5 DEF Inv, Counted, Capped, Mine, InTenant, registry
  <1>9. Unminted'
    BY <1>1, <1>5 DEF Inv, Unminted
  <1>. QED
    BY <1>6, <1>7, <1>8, <1>9 DEF Inv
-----------------------------------------------------------------------------
LEMMA InvStep == Inv /\ [Next]_vars => Inv'
  <1>. SUFFICES ASSUME Inv, [Next]_vars PROVE Inv'
    OBVIOUS
  <1>1. ASSUME UNCHANGED <<registry, history, call>>, clock' \in Nat, clock <= clock'
        PROVE  Inv'
    <2>1. /\ \A o : OwnedBy(o, Held)' = OwnedBy(o, Held)
          /\ \A u : OfTenant(u, Held)' = OfTenant(u, Held)
          /\ Held' = Held
      BY <1>1 DEF OwnedBy, OfTenant, Held, registry
    <2>2. Typed'
      BY <1>1 DEF Inv, Typed, registry, history
    <2>3. Counted' /\ Capped' /\ Unminted'
      BY <1>1, <2>1 DEF Inv, Counted, Capped, Unminted, Mine, InTenant, registry, history
    <2>4. \A t \in Threads : call[t].now \in Nat /\ call[t].now <= clock /\ clock \in Nat
      BY CallTypes DEF Inv, Typed
    <2>5. \A t \in Threads : call'[t].now <= clock'
      BY <1>1, <2>4
    <2>6. Reported'
      BY <1>1, <2>1, <2>5 DEF Inv, Reported, history
    <2>. QED
      BY <2>2, <2>3, <2>6 DEF Inv
  <1>2. CASE Tick
    BY <1>1, <1>2 DEF Tick, Inv, Typed
  <1>3. ASSUME NEW t \in Threads, Begin(t) PROVE Inv'
    <2>1. ASSUME NEW o \in Owners, NEW ttl \in Ttls, BeginMint(t, o, ttl) PROVE Inv'
      BY <2>1, BeginMintStep
    <2>2. ASSUME NEW o \in Owners, NEW h \in 1..minted,
                 BeginOn(t, "resolve", o, h) \/ BeginOn(t, "revoke", o, h)
          PROVE  Inv'
      <3>1. h \in 0..minted
        BY DEF Inv, Typed
      <3>. QED
        BY <2>2, <3>1, BeginOnStep
    <2>3. ASSUME NEW o \in Owners, BeginOn(t, "list", o, 0) PROVE Inv'
      <3>1. 0 \in 0..minted
        BY DEF Inv, Typed
      <3>. QED
        BY <2>3, <3>1, BeginOnStep
    <2>4. ASSUME NEW p, NEW tenants, RevokePrincipal(t, p, tenants) PROVE Inv'
      BY <2>4, RevokeStep DEF RevokePrincipal
    <2>. QED
      BY <1>3, <2>1, <2>2, <2>3, <2>4 DEF Begin
  <1>4. ASSUME NEW t \in Threads, NEW h, Revoke(t, DoomedOne(h)) PROVE Inv'
    <2>1. DoomedOne(h) \in SUBSET Held
      BY DEF DoomedOne
    <2>. QED
      BY <1>4, <2>1, RevokeStep
  <1>5. ASSUME NEW t \in Threads, Proceed(t) PROVE Inv'
    BY <1>4, <1>5, MintAdmittedStep, MintRefusedStep, ResolveStep, NotifyStep, ListStep
       DEF Proceed, RevokeResolved
  <1>6. CASE UNCHANGED vars
    BY <1>1, <1>6 DEF vars, Inv, Typed
  <1>. QED
    BY <1>2, <1>3, <1>4, <1>5, <1>6 DEF Next, AdminRevoke

LEMMA InvInit == Init => Inv
  <1>. SUFFICES ASSUME Init PROVE Inv
    OBVIOUS
  <1>1. Held = {}
    BY DEF Init, Held
  <1>2. /\ \A o : OwnedBy(o, Held) = {}
        /\ \A t : OfTenant(t, Held) = {}
        /\ Cardinality({}) = 0
    BY <1>1, FS_EmptySet DEF OwnedBy, OfTenant
  <1>3. Typed
    BY IdleCall, BoundsAssumption DEF Init, Typed
  <1>4. /\ \A o : Mine(o, Held) = 0
        /\ \A t : InTenant(t, Held) = 0
        /\ Cardinality(Held) = 0
    BY <1>1, <1>2 DEF Mine, InTenant
  <1>5. Counted
    BY <1>4 DEF Init, Counted
  <1>6. Capped
    BY <1>4, CapsAssumption DEF Capped
  <1>7. Unminted
    BY <1>1 DEF Init, Unminted
  <1>8. Reported
    BY <1>1, IdleCall DEF Init, Reported
  <1>. QED
    BY <1>3, <1>5, <1>6, <1>7, <1>8 DEF Inv

LEMMA Invariant == Spec => []Inv
  BY InvInit, InvStep, PTL DEF Spec, SafetySpec

(* _records and its counters: the registry keeps within twice its cap,      *)
(* principals and tenants within theirs, and _decrement never loses count.  *)
THEOREM TypeCorrect == Spec => []TypeOK
  <1>1. Inv => TypeOK
    <2>. SUFFICES ASSUME Inv PROVE TypeOK
      OBVIOUS
    <2>1. /\ \A o : Mine(o, Held) \in Nat
          /\ \A t : InTenant(t, Held) \in Nat
      BY HeldFinite, Shares
    <2>2. counts \in [Owners -> 0..MaxPerPrincipal]
      BY <2>1, CapsAssumption DEF Inv, Counted, Capped
    <2>3. tenantCounts \in [Tenants -> 0..(2 * MaxPerTenant)]
      BY <2>1, CapsAssumption DEF Inv, Counted, Capped
    <2>. QED
      BY <2>2, <2>3 DEF Inv, Typed, Counted, Capped, Mine, InTenant, TypeOK
  <1>. QED
    BY <1>1, Invariant, PTL

(* revoke, admin_revoke and revoke_principal: what one of them takes under  *)
(* the lock, none of the others reports.                                    *)
THEOREM ReportedOnce == Spec => []NotifiedOnce
  <1>1. Inv => NotifiedOnce
    BY DEF Inv, Reported, Typed, NotifiedOnce
  <1>. QED
    BY <1>1, Invariant, PTL

(* _purge and _drop: what goes without a revocation has expired by the      *)
(* clock, by however old a reading it was judged.                           *)
THEOREM KeptUntilExpired == Spec => NoEarlyDrop
  <1>. DEFINE Kept == \A h \in Held : records'[h] = NoRecord =>
                          records[h].expires <= clock \/ h \in revoked'
  <1>1. ASSUME Inv, NEW t \in Threads, NEW h \in Expired(call[t].now)
        PROVE  records[h].expires <= clock
    <2>1. /\ call[t].now \in Nat /\ call[t].now <= clock /\ clock \in Nat
          /\ records[h].expires <= call[t].now
      BY <1>1, CallTypes DEF Inv, Typed, Expired
    <2>2. records[h] \in Record
      BY <1>1 DEF Inv, Typed, Expired, Held
    <2>3. records[h].expires \in Nat
      BY <2>2 DEF Record
    <2>. QED
      BY <2>1, <2>3
  <1>2. ASSUME Inv, NEW t \in Threads, NEW gone \in SUBSET Expired(call[t].now), Drop(gone)
        PROVE  Kept
    <2>1. \A h \in Held \ gone : records'[h] # NoRecord
      <3>1. gone \in SUBSET Held
        BY DEF Expired
      <3>2. /\ Held' = Held \ gone
            /\ \A h \in Handles \ gone : records'[h] = records[h]
        BY <1>2, <3>1, DropStep
      <3>. QED
        BY <3>2 DEF Held
    <2>. QED
      BY <1>1, <1>2, <2>1
  <1>3. ASSUME UNCHANGED records PROVE Kept
    BY <1>3 DEF Held
  <1>4. ASSUME Inv, NEW t \in Threads, MintAdmitted(t) PROVE Kept
    <2>1. /\ Swept(call[t].owner, call[t].now) \in SUBSET Expired(call[t].now)
          /\ minted + 1 \in Handles
          /\ [owner |-> call[t].owner, expires |-> call[t].now + call[t].ttl] # NoRecord
      <3>1. call[t].now + call[t].ttl \in Nat /\ call[t].owner \in Owners
        BY <1>4, CallTypes
      <3>. QED
        BY <1>4, <3>1, NoRecordAssumption, BoundsAssumption
           DEF Swept, Due, MintAdmitted, Inv, Typed, Handles, Record
    <2>2. records' = [Without(Swept(call[t].owner, call[t].now)) EXCEPT ![minted + 1] =
                        [owner |-> call[t].owner, expires |-> call[t].now + call[t].ttl]]
      BY <1>4 DEF MintAdmitted
    <2>3. \A h \in Held \ Swept(call[t].owner, call[t].now) : records'[h] # NoRecord
      BY <2>1, <2>2 DEF Without, Held
    <2>. QED
      BY <1>1, <1>4, <2>1, <2>3
  <1>5. ASSUME Inv, NEW t \in Threads, NEW doomed \in SUBSET Held, Revoke(t, doomed)
        PROVE  Kept
    <2>1. /\ Drop(doomed) /\ revoked' = revoked \cup doomed
      <3>1. doomed \cap Held = doomed
        OBVIOUS
      <3>. QED
        BY <1>5, <3>1 DEF Revoke
    <2>2. \A h \in Held \ doomed : records'[h] # NoRecord
      <3>1. \A h \in Handles \ doomed : records'[h] = records[h]
        BY <1>5, <2>1, DropStep
      <3>. QED
        BY <3>1 DEF Held
    <2>. QED
      BY <2>1, <2>2
  <1>6. ASSUME Inv, NEW t \in Threads, MintRefused(t) \/ Resolve(t) \/ List(t)
        PROVE  Kept
    <2>1. PICK gone \in SUBSET Expired(call[t].now) : Drop(gone)
      BY <1>6 DEF MintRefused, Resolve, List, Swept, Due
    <2>. QED
      BY <1>2, <1>6, <2>1
  <1>7. Inv /\ [Next]_vars => [Kept]_vars
    <2>. SUFFICES ASSUME Inv, Next PROVE Kept
      OBVIOUS
    <2>. HIDE DEF Kept
    <2>1. CASE Tick
      BY <1>3, <2>1 DEF Tick, registry
    <2>2. ASSUME NEW t \in Threads, Begin(t) PROVE Kept
      BY <1>3, <1>5, <2>2 DEF Begin, BeginMint, BeginOn, RevokePrincipal, registry
    <2>3. ASSUME NEW t \in Threads, NEW h, Revoke(t, DoomedOne(h)) PROVE Kept
      BY <1>5, <2>3 DEF DoomedOne
    <2>4. ASSUME NEW t \in Threads, Proceed(t) PROVE Kept
      BY <1>3, <1>4, <1>6, <2>3, <2>4 DEF Proceed, RevokeResolved, Notify, registry
    <2>. QED
      BY <2>1, <2>2, <2>3, <2>4 DEF Next, AdminRevoke
  <1>. QED
    BY <1>7, Invariant, PTL DEF Spec, SafetySpec, NoEarlyDrop

(* mint: a cap looks reached, so it sweeps; what is left to refuse for is   *)
(* live at its reading of the clock.                                        *)
THEOREM RefusedForLiveOnly == Spec => RefusalJustified
  <1>1. ASSUME Inv, Next, NEW t \in Threads, call[t].pc = "mint", call'[t].pc = "idle",
               minted' = minted
        PROVE  MintRefused(t)
    <2>1. call \in [Threads -> Call] /\ minted \in Nat
      BY <1>1, BoundsAssumption DEF Inv, Typed
    <2>2. PICK r \in Threads : Begin(r) \/ Proceed(r) \/ \E h : AdminRevoke(r, h)
      BY <1>1 DEF Next, Tick
    <2>3. r = t
      BY <1>1, <2>1, <2>2
         DEF Begin, Proceed, AdminRevoke, BeginMint, BeginOn, RevokePrincipal, Revoke,
             MintAdmitted, MintRefused, Resolve, RevokeResolved, Notify, List, Finish
    <2>4. ~ Begin(t) /\ ~ (\E h : AdminRevoke(t, h))
      BY <1>1 DEF Begin, AdminRevoke, BeginMint, BeginOn, RevokePrincipal
    <2>5. ~ MintAdmitted(t)
      BY <1>1, <2>1 DEF MintAdmitted
    <2>. QED
      BY <1>1, <2>2, <2>3, <2>4, <2>5 DEF Proceed, Resolve, RevokeResolved, Notify, List
  <1>2. ASSUME Inv, NEW t \in Threads, MintRefused(t)
        PROVE  LET c == call[t]
                   live == {h \in Held : records[h].expires > c.now}
               IN  ~ Admits(Cardinality(live), Cardinality(OwnedBy(c.owner, live)),
                            Cardinality(OfTenant(c.owner.tenant, live)))
    <2>. DEFINE now == call[t].now
                o == call[t].owner
                gone == Swept(o, now)
                live == {h \in Held : records[h].expires > now}
    <2>1. o \in Owners /\ o.tenant \in Tenants /\ now \in Nat
      BY <1>2, CallTypes
    <2>2. /\ CountsWithout(gone) = [p \in Owners |-> Mine(p, Held \ gone)]
          /\ TenantCountsWithout(gone) = [u \in Tenants |-> InTenant(u, Held \ gone)]
      BY <1>2, SweptHeld, CountsAfterDrop DEF Inv
    <2>3. ~ Admits(Cardinality(Held \ gone), Mine(o, Held \ gone), InTenant(o.tenant, Held \ gone))
      BY <1>2, <2>1, <2>2 DEF MintRefused, AdmitsMint
    <2>4. Sweeps(o, now)
      <3>. SUFFICES ASSUME ~ Sweeps(o, now) PROVE FALSE
        OBVIOUS
      <3>1. /\ Cardinality(Held) \in Nat /\ Mine(o, Held) \in Nat
            /\ InTenant(o.tenant, Held) \in Nat
        BY HeldFinite, Shares
      <3>2. counts[o] = Mine(o, Held) /\ tenantCounts[o.tenant] = InTenant(o.tenant, Held)
        BY <1>2, <2>1 DEF Inv, Counted
      <3>3. /\ Cardinality(Held) < Max /\ Mine(o, Held) < MaxPerPrincipal
            /\ InTenant(o.tenant, Held) < MaxPerTenant
        BY <3>1, <3>2, CapsAssumption DEF Sweeps
      <3>4. Held \ gone = Held
        BY DEF Swept
      <3>. QED
        BY <2>3, <3>3, <3>4 DEF Admits
    <2>5. Held \ gone = live
      <3>1. \A h \in Held : records[h].expires \in Nat
        <4>1. \A h \in Held : records[h] \in Record
          BY <1>2 DEF Inv, Typed, Held
        <4>. QED
          BY <4>1 DEF Record
      <3>. QED
        BY <2>1, <2>4, <3>1 DEF Swept, Due, Expired
    <2>. QED
      BY <2>3, <2>5 DEF Mine, InTenant
  <1>3. Inv /\ [Next]_vars =>
          [\A t \in Threads :
              call[t].pc = "mint" /\ call'[t].pc = "idle" /\ minted' = minted =>
                  LET c == call[t]
                      live == {h \in Held : records[h].expires > c.now}
                  IN  ~ Admits(Cardinality(live), Cardinality(OwnedBy(c.owner, live)),
                               Cardinality(OfTenant(c.owner.tenant, live)))]_vars
    BY <1>1, <1>2
  <1>. QED
    BY <1>3, Invariant, PTL DEF Spec, SafetySpec, RefusalJustified
=============================================================================
