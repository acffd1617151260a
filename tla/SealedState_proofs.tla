--------------------------- MODULE SealedState_proofs ---------------------------
(***************************************************************************)
(* Theorems about SealedState, for any threads, owners, caps, lifetimes    *)
(* and number of states: the counters the caps are checked on are those of *)
(* the cache, and a state is opened once while it is fresh.                *)
(***************************************************************************)
EXTENDS SealedState, FiniteSetTheorems, TLAPS

State == [owner : Owners, exp : Nat]
Typed ==
    /\ clock \in Nat
    /\ sealed \in Seq(State) /\ Len(sealed) <= MaxSeals
    /\ spent \subseteq DOMAIN sealed
    /\ call \in [Threads -> {Idle} \cup [pc : {"open"}, state : DOMAIN sealed, now : Nat]]
    /\ openedFresh \in [States -> Nat]

(* The counters count what is in the cache, and the caps hold of that.      *)
Mine(o, ns) == Cardinality(OwnedBy(o, ns))
InTenant(t, ns) == Cardinality(OfTenant(t, ns))
Counted ==
    /\ spentPerOwner = [o \in Owners |-> Mine(o, spent)]
    /\ spentPerTenant = [t \in Tenants |-> InTenant(t, spent)]
Capped ==
    /\ \A o \in Owners : Mine(o, spent) <= MaxPerOwner
    /\ \A t \in Tenants : InTenant(t, spent) <= 2 * MaxPerTenant
    /\ Cardinality(spent) <= 2 * MaxSpent

(* No reading is ahead of the clock, and what was opened while it was fresh *)
(* is in the cache until it has expired.                                    *)
Remembers ==
    /\ \A t \in Threads : call[t].pc = "open" => call[t].now <= clock
    /\ \A n \in States :
          \/ openedFresh[n] = 0
          \/ /\ openedFresh[n] = 1 /\ n \in DOMAIN sealed
             /\ n \in spent \/ sealed[n].exp <= clock

Inv == Typed /\ Counted /\ Capped /\ Remembers
-----------------------------------------------------------------------------
LEMMA Shares ==
    ASSUME NEW ns, IsFiniteSet(ns)
    PROVE  /\ Cardinality(ns) \in Nat
           /\ \A o : IsFiniteSet(OwnedBy(o, ns)) /\ Mine(o, ns) \in Nat
           /\ \A t : IsFiniteSet(OfTenant(t, ns)) /\ InTenant(t, ns) \in Nat
  <1>1. \A o : OwnedBy(o, ns) \in SUBSET ns
    BY DEF OwnedBy
  <1>2. \A t : OfTenant(t, ns) \in SUBSET ns
    BY DEF OfTenant
  <1>. QED
    BY <1>1, <1>2, FS_Subset, FS_CardinalityType DEF Mine, InTenant

LEMMA SpentFinite == Typed => IsFiniteSet(spent)
  <1>. SUFFICES ASSUME Typed PROVE IsFiniteSet(spent)
    OBVIOUS
  <1>1. DOMAIN sealed = 1..Len(sealed) /\ Len(sealed) \in Nat
    BY DEF Typed
  <1>2. IsFiniteSet(1..Len(sealed))
    BY <1>1, FS_Interval
  <1>. QED
    BY <1>1, <1>2, FS_Subset DEF Typed

(* _decrement, once for each entry of a part of a set that is taken out.    *)
LEMMA MinusCounts ==
    ASSUME NEW S, IsFiniteSet(S), NEW G \in SUBSET S
    PROVE  Minus(Cardinality(S), Cardinality(G)) = Cardinality(S \ G)
  <1>1. S \cap G = G
    OBVIOUS
  <1>2. Cardinality(S \ G) = Cardinality(S) - Cardinality(G)
    BY <1>1, FS_Difference
  <1>3. /\ Cardinality(S) \in Nat /\ Cardinality(G) \in Nat
        /\ Cardinality(G) <= Cardinality(S)
    BY FS_Subset, FS_CardinalityType
  <1>. QED
    BY <1>2, <1>3 DEF Minus

LEMMA CountsAfterPurge ==
    ASSUME Typed, Counted, NEW gone \in SUBSET spent
    PROVE  /\ CountsWithout(gone) = [o \in Owners |-> Mine(o, spent \ gone)]
           /\ TenantCountsWithout(gone) = [t \in Tenants |-> InTenant(t, spent \ gone)]
  <1>1. IsFiniteSet(spent)
    BY SpentFinite
  <1>2. ASSUME NEW o \in Owners
        PROVE  Minus(Mine(o, spent), Cardinality(OwnedBy(o, gone))) = Mine(o, spent \ gone)
    <2>1. /\ OwnedBy(o, gone) \in SUBSET OwnedBy(o, spent)
          /\ OwnedBy(o, spent) \ OwnedBy(o, gone) = OwnedBy(o, spent \ gone)
      BY DEF OwnedBy
    <2>2. IsFiniteSet(OwnedBy(o, spent))
      BY <1>1, Shares
    <2>. QED
      BY <2>1, <2>2, MinusCounts DEF Mine
  <1>3. ASSUME NEW t \in Tenants
        PROVE  Minus(InTenant(t, spent), Cardinality(OfTenant(t, gone))) = InTenant(t, spent \ gone)
    <2>1. /\ OfTenant(t, gone) \in SUBSET OfTenant(t, spent)
          /\ OfTenant(t, spent) \ OfTenant(t, gone) = OfTenant(t, spent \ gone)
      BY DEF OfTenant
    <2>2. IsFiniteSet(OfTenant(t, spent))
      BY <1>1, Shares
    <2>. QED
      BY <2>1, <2>2, MinusCounts DEF InTenant
  <1>. QED
    BY <1>2, <1>3 DEF Counted, CountsWithout, TenantCountsWithout

LEMMA SharesShrink ==
    ASSUME Typed, NEW gone \in SUBSET spent
    PROVE  /\ Cardinality(spent \ gone) <= Cardinality(spent)
           /\ \A o \in Owners : Mine(o, spent \ gone) <= Mine(o, spent)
           /\ \A t \in Tenants : InTenant(t, spent \ gone) <= InTenant(t, spent)
  <1>1. IsFiniteSet(spent) /\ spent \ gone \in SUBSET spent
    BY SpentFinite
  <1>2. \A o : OwnedBy(o, spent \ gone) \in SUBSET OwnedBy(o, spent)
    BY DEF OwnedBy
  <1>3. \A t : OfTenant(t, spent \ gone) \in SUBSET OfTenant(t, spent)
    BY DEF OfTenant
  <1>4. /\ \A o : IsFiniteSet(OwnedBy(o, spent))
        /\ \A t : IsFiniteSet(OfTenant(t, spent))
    BY <1>1, Shares
  <1>. QED
    BY <1>1, <1>2, <1>3, <1>4, FS_Subset DEF Mine, InTenant

(* One entry more, of its own owner and tenant.                             *)
LEMMA SharesGrow ==
    ASSUME NEW ns, IsFiniteSet(ns), NEW n, n \notin ns
    PROVE  /\ Cardinality(ns \cup {n}) = Cardinality(ns) + 1
           /\ \A o : Mine(o, ns \cup {n})
                      = IF sealed[n].owner = o THEN Mine(o, ns) + 1 ELSE Mine(o, ns)
           /\ \A t : InTenant(t, ns \cup {n})
                      = IF sealed[n].owner.tenant = t THEN InTenant(t, ns) + 1 ELSE InTenant(t, ns)
  <1>1. \A o : OwnedBy(o, ns \cup {n})
                  = IF sealed[n].owner = o THEN OwnedBy(o, ns) \cup {n} ELSE OwnedBy(o, ns)
    BY DEF OwnedBy
  <1>2. \A t : OfTenant(t, ns \cup {n})
                  = IF sealed[n].owner.tenant = t THEN OfTenant(t, ns) \cup {n} ELSE OfTenant(t, ns)
    BY DEF OfTenant
  <1>3. (\A o : n \notin OwnedBy(o, ns)) /\ (\A t : n \notin OfTenant(t, ns))
    BY DEF OwnedBy, OfTenant
  <1>. QED
    BY <1>1, <1>2, <1>3, Shares, FS_AddElement DEF Mine, InTenant

LEMMA Expiry == Typed => \A n \in DOMAIN sealed : sealed[n] \in State /\ sealed[n].exp \in Nat
  <1>. SUFFICES ASSUME Typed, NEW n \in DOMAIN sealed
                PROVE  sealed[n] \in State /\ sealed[n].exp \in Nat
    OBVIOUS
  <1>1. sealed[n] \in State
    BY DEF Typed
  <1>. QED
    BY <1>1 DEF State

LEMMA DueIsSpent == \A now : Due(now) \in SUBSET spent
  BY DEF Due
-----------------------------------------------------------------------------
LEMMA SealStep ==
    ASSUME Inv, NEW o \in Owners, NEW ttl \in Ttls, Seal(o, ttl)
    PROVE  Inv'
  <1>. DEFINE e == [owner |-> o, exp |-> clock + ttl]
  <1>1. /\ sealed \in Seq(State) /\ Len(sealed) \in Nat /\ Len(sealed) < MaxSeals /\ clock \in Nat
        /\ ttl \in Nat /\ MaxSeals \in Nat /\ e \in State
    BY TimesAssumption, CapsAssumption DEF Inv, Typed, Seal, State
  <1>2. /\ sealed' = Append(sealed, e)
        /\ UNCHANGED <<clock, spent, spentPerOwner, spentPerTenant, call, openedFresh>>
    BY DEF Seal, cache
  <1>. HIDE DEF e
  <1>3. /\ sealed' \in Seq(State) /\ Len(sealed') = Len(sealed) + 1
        /\ DOMAIN sealed \subseteq DOMAIN sealed'
        /\ \A n \in DOMAIN sealed : sealed'[n] = sealed[n]
    BY <1>1, <1>2
  <1>4. spent \subseteq DOMAIN sealed
    BY DEF Inv, Typed
  <1>5. /\ \A p : OwnedBy(p, spent)' = OwnedBy(p, spent)
        /\ \A t : OfTenant(t, spent)' = OfTenant(t, spent)
    BY <1>2, <1>3, <1>4 DEF OwnedBy, OfTenant
  <1>6. Typed'
    BY <1>1, <1>2, <1>3 DEF Inv, Typed
  <1>7. Counted' /\ Capped'
    BY <1>2, <1>5 DEF Inv, Counted, Capped, Mine, InTenant
  <1>8. Remembers'
    BY <1>2, <1>3 DEF Inv, Remembers
  <1>. QED
    BY <1>6, <1>7, <1>8 DEF Inv

LEMMA OpenedStep ==
    ASSUME Inv, NEW t \in Threads, Opened(t)
    PROVE  Inv'
  <1>. DEFINE n == call[t].state
              o == sealed[n].owner
              gone == Due(call[t].now)
              rest == spent \ gone
              all == rest \cup {n}
  <1>1. /\ call[t].pc = "open" /\ n \in DOMAIN sealed /\ call[t].now \in Nat /\ n \in States
        /\ sealed[n] \in State /\ o \in Owners /\ o.tenant \in Tenants
    <2>1. call[t].pc = "open"
      BY DEF Opened
    <2>2. call[t] \in [pc : {"open"}, state : DOMAIN sealed, now : Nat]
      BY <2>1 DEF Inv, Typed, Idle
    <2>3. sealed[n] \in State /\ n \in 1..Len(sealed) /\ Len(sealed) \in Nat /\ MaxSeals \in Nat
      BY <2>2, CapsAssumption DEF Inv, Typed
    <2>4. n \in DOMAIN sealed /\ call[t].now \in Nat
      BY <2>2
    <2>5. n \in States
      BY <2>3 DEF Inv, Typed, States
    <2>6. o \in Owners /\ o.tenant \in Tenants
      BY <2>3 DEF State, Tenants
    <2>. QED
      BY <2>1, <2>3, <2>4, <2>5, <2>6
  <1>2. /\ n \notin rest
        /\ Admits(Cardinality(rest), CountsWithout(gone)[o], TenantCountsWithout(gone)[o.tenant])
        /\ spent' = all
        /\ spentPerOwner' = [CountsWithout(gone) EXCEPT ![o] = @ + 1]
        /\ spentPerTenant' = [TenantCountsWithout(gone) EXCEPT ![o.tenant] = @ + 1]
        /\ call' = [call EXCEPT ![t] = Idle]
        /\ openedFresh' = IF clock < sealed[n].exp
                          THEN [openedFresh EXCEPT ![n] = @ + 1] ELSE openedFresh
        /\ UNCHANGED <<clock, sealed>>
    BY DEF Opened, HasRoom
  <1>3. gone \in SUBSET spent /\ IsFiniteSet(spent) /\ IsFiniteSet(rest)
    <2>1. gone \in SUBSET spent
      BY DueIsSpent
    <2>2. IsFiniteSet(spent)
      BY SpentFinite DEF Inv
    <2>. QED
      BY <2>1, <2>2, FS_Difference
  <1>4. /\ CountsWithout(gone) = [p \in Owners |-> Mine(p, rest)]
        /\ TenantCountsWithout(gone) = [u \in Tenants |-> InTenant(u, rest)]
    BY <1>3, CountsAfterPurge DEF Inv
  <1>5. /\ \A p : OwnedBy(p, spent)' = OwnedBy(p, all)
        /\ \A u : OfTenant(u, spent)' = OfTenant(u, all)
    BY <1>2 DEF OwnedBy, OfTenant
  <1>10. /\ Cardinality(all) = Cardinality(rest) + 1
         /\ \A p : Mine(p, all) = IF o = p THEN Mine(p, rest) + 1 ELSE Mine(p, rest)
         /\ \A u : InTenant(u, all)
                     = IF o.tenant = u THEN InTenant(u, rest) + 1 ELSE InTenant(u, rest)
    <2>. HIDE DEF rest, gone, n
    <2>1. sealed[n].owner = o
      OBVIOUS
    <2>2. IsFiniteSet(rest) /\ n \notin rest
      BY <1>2, <1>3
    <2>. HIDE DEF o
    <2>. QED
      BY <2>1, <2>2, SharesGrow DEF all
  <1>11. \A m \in gone : sealed[m].exp <= clock
    <2>1. ASSUME NEW m \in gone PROVE sealed[m].exp <= call[t].now
      BY <2>1 DEF Due
    <2>2. \A m \in gone : sealed[m].exp \in Nat
      BY <1>3, Expiry DEF Inv, Typed
    <2>3. call[t].now <= clock /\ call[t].now \in Nat /\ clock \in Nat
      BY <1>1 DEF Inv, Remembers, Typed
    <2>. QED
      BY <2>1, <2>2, <2>3
  <1>12. /\ rest \subseteq spent /\ all = rest \cup {n}
         /\ \A m \in spent : m \in rest \/ m \in gone
    OBVIOUS
  <1>. HIDE DEF rest, gone, o, n, all
  <1>6. Typed'
    <2>1. spent' \subseteq DOMAIN sealed
      BY <1>1, <1>2, <1>12 DEF Inv, Typed
    <2>2. call' \in [Threads -> {Idle} \cup [pc : {"open"}, state : DOMAIN sealed, now : Nat]]
      BY <1>2 DEF Inv, Typed
    <2>3. openedFresh' \in [States -> Nat]
      <3>1. openedFresh \in [States -> Nat]
        BY DEF Inv, Typed
      <3>. QED
        BY <1>1, <1>2, <3>1
    <2>. QED
      BY <1>2, <2>1, <2>2, <2>3 DEF Inv, Typed
  <1>7. Counted'
    <2>1. spentPerOwner' = [p \in Owners |-> Mine(p, all)]
      BY <1>1, <1>2, <1>4, <1>10
    <2>2. spentPerTenant' = [u \in Tenants |-> InTenant(u, all)]
      BY <1>1, <1>2, <1>4, <1>10
    <2>. QED
      BY <1>5, <2>1, <2>2 DEF Counted, Mine, InTenant
  <1>8. Capped'
    <2>1. /\ Cardinality(rest) <= Cardinality(spent)
          /\ \A p \in Owners : Mine(p, rest) <= Mine(p, spent)
          /\ \A u \in Tenants : InTenant(u, rest) <= InTenant(u, spent)
      BY <1>3, SharesShrink DEF Inv, rest
    <2>2. /\ Cardinality(rest) \in Nat /\ Cardinality(spent) \in Nat
          /\ \A p : Mine(p, rest) \in Nat /\ Mine(p, spent) \in Nat
          /\ \A u : InTenant(u, rest) \in Nat /\ InTenant(u, spent) \in Nat
      BY <1>3, Shares
    <2>3. Admits(Cardinality(rest), Mine(o, rest), InTenant(o.tenant, rest))
      BY <1>1, <1>2, <1>4
    <2>4. Mine(o, rest) < MaxPerOwner
      BY <2>3 DEF Admits
    <2>5. InTenant(o.tenant, rest) < 2 * MaxPerTenant
      <3>1. InTenant(o.tenant, rest) \in Nat /\ Mine(o, rest) \in Nat
        BY <2>2
      <3>. QED
        BY <2>3, <3>1, CapsAssumption DEF Admits
    <2>6. Cardinality(rest) < 2 * MaxSpent
      BY <2>2, <2>3, CapsAssumption DEF Admits
    <2>7. ASSUME NEW p \in Owners PROVE Mine(p, all) <= MaxPerOwner
      <3>1. Mine(p, rest) <= Mine(p, spent) /\ Mine(p, spent) <= MaxPerOwner
        BY <2>1 DEF Inv, Capped
      <3>2. Mine(p, rest) \in Nat /\ Mine(p, spent) \in Nat /\ MaxPerOwner \in Nat
        BY <2>2, CapsAssumption
      <3>3. CASE o = p
        <4>1. Mine(p, all) = Mine(p, rest) + 1 /\ Mine(p, rest) < MaxPerOwner
          BY <1>10, <2>4, <3>3
        <4>. QED
          BY <3>2, <4>1
      <3>4. CASE o # p
        <4>1. Mine(p, all) = Mine(p, rest)
          BY <1>10, <3>4
        <4>. QED
          BY <3>1, <3>2, <4>1
      <3>. QED
        BY <3>3, <3>4
    <2>8. ASSUME NEW u \in Tenants PROVE InTenant(u, all) <= 2 * MaxPerTenant
      <3>1. InTenant(u, rest) <= InTenant(u, spent) /\ InTenant(u, spent) <= 2 * MaxPerTenant
        BY <2>1 DEF Inv, Capped
      <3>2. InTenant(u, rest) \in Nat /\ InTenant(u, spent) \in Nat /\ MaxPerTenant \in Nat
        BY <2>2, CapsAssumption
      <3>3. CASE o.tenant = u
        <4>1. /\ InTenant(u, all) = InTenant(u, rest) + 1
              /\ InTenant(u, rest) < 2 * MaxPerTenant
          BY <1>10, <2>5, <3>3
        <4>. QED
          BY <3>2, <4>1
      <3>4. CASE o.tenant # u
        <4>1. InTenant(u, all) = InTenant(u, rest)
          BY <1>10, <3>4
        <4>. QED
          BY <3>1, <3>2, <4>1
      <3>. QED
        BY <3>3, <3>4
    <2>9. Cardinality(all) <= 2 * MaxSpent
      BY <1>10, <2>2, <2>6, CapsAssumption
    <2>. QED
      BY <1>2, <1>5, <2>7, <2>8, <2>9 DEF Capped, Mine, InTenant
  <1>9. Remembers'
    <2>1. ASSUME NEW m \in spent PROVE m \in spent' \/ sealed[m].exp <= clock
      BY <1>2, <1>11, <1>12, <2>1
    <2>2. /\ \A m \in States : openedFresh[m] \in Nat
          /\ \A m \in States : openedFresh[m] = 0 \/
                /\ openedFresh[m] = 1 /\ m \in DOMAIN sealed
                /\ m \in spent \/ sealed[m].exp <= clock
      BY DEF Inv, Typed, Remembers
    <2>3. openedFresh[n] = 1 => sealed[n].exp <= clock
      BY <1>1, <1>2, <1>11, <1>12, <2>2
    <2>4. sealed[n].exp \in Nat /\ clock \in Nat
      BY <1>1, Expiry DEF Inv, Typed
    <2>5. n \in spent' /\ openedFresh'[n] \in {openedFresh[n], 1}
      <3>1. openedFresh \in [States -> Nat]
        BY DEF Inv, Typed
      <3>2. ASSUME clock < sealed[n].exp PROVE openedFresh'[n] = 1
        <4>1. openedFresh[n] = 0
          BY <1>1, <2>2, <2>3, <2>4, <3>2
        <4>2. openedFresh'[n] = openedFresh[n] + 1
          BY <1>1, <1>2, <3>1, <3>2
        <4>. QED
          BY <1>2, <4>1, <4>2
      <3>3. ASSUME ~(clock < sealed[n].exp) PROVE openedFresh'[n] = openedFresh[n]
        BY <1>2, <3>3
      <3>. QED
        BY <1>2, <1>12, <3>2, <3>3
    <2>6. \A m \in States \ {n} : openedFresh'[m] = openedFresh[m]
      BY <1>2 DEF Inv, Typed
    <2>7. ASSUME NEW m \in States
          PROVE  \/ openedFresh'[m] = 0
                 \/ /\ openedFresh'[m] = 1 /\ m \in DOMAIN sealed
                    /\ m \in spent' \/ sealed[m].exp <= clock
      <3>1. CASE m = n
        BY <1>1, <2>2, <2>5, <3>1
      <3>2. CASE m # n
        BY <2>1, <2>2, <2>6, <3>2
      <3>. QED
        BY <3>1, <3>2
    <2>8. ASSUME NEW u \in Threads, call'[u].pc = "open" PROVE call'[u].now <= clock'
      <3>1. call'[u] = call[u]
        BY <1>2, <2>8 DEF Inv, Typed, Idle
      <3>. QED
        BY <1>2, <2>8, <3>1 DEF Inv, Remembers
    <2>. QED
      BY <1>2, <2>7, <2>8 DEF Remembers
  <1>. QED
    BY <1>6, <1>7, <1>8, <1>9 DEF Inv

LEMMA RefusedStep ==
    ASSUME Inv, NEW t \in Threads, call[t].pc = "open", Refused(t)
    PROVE  Inv'
  <1>. DEFINE gone == Due(call[t].now)
              rest == spent \ gone
  <1>1. call[t].now \in Nat /\ call[t].now <= clock
    <2>1. call[t] \in [pc : {"open"}, state : DOMAIN sealed, now : Nat]
      BY DEF Inv, Typed, Idle
    <2>. QED
      BY <2>1 DEF Inv, Remembers
  <1>2. /\ spent' = rest
        /\ spentPerOwner' = CountsWithout(gone) /\ spentPerTenant' = TenantCountsWithout(gone)
        /\ call' = [call EXCEPT ![t] = Idle]
        /\ UNCHANGED <<clock, sealed, openedFresh>>
    BY DEF Refused
  <1>3. gone \in SUBSET spent /\ IsFiniteSet(spent) /\ IsFiniteSet(rest)
    BY DueIsSpent, SpentFinite, FS_Difference DEF Inv
  <1>4. /\ \A p : OwnedBy(p, spent)' = OwnedBy(p, rest)
        /\ \A u : OfTenant(u, spent)' = OfTenant(u, rest)
    BY <1>2 DEF OwnedBy, OfTenant
  <1>5. Typed'
    BY <1>2 DEF Inv, Typed
  <1>6. Counted'
    <2>1. /\ spentPerOwner' = [p \in Owners |-> Mine(p, rest)]
          /\ spentPerTenant' = [u \in Tenants |-> InTenant(u, rest)]
      BY <1>2, <1>3, CountsAfterPurge DEF Inv
    <2>. QED
      BY <1>4, <2>1 DEF Counted, Mine, InTenant
  <1>7. Capped'
    <2>1. /\ Cardinality(rest) \in Nat /\ Cardinality(spent) \in Nat
          /\ \A p : Mine(p, rest) \in Nat /\ Mine(p, spent) \in Nat
          /\ \A u : InTenant(u, rest) \in Nat /\ InTenant(u, spent) \in Nat
      BY <1>3, Shares
    <2>2. /\ Cardinality(rest) <= Cardinality(spent)
          /\ \A p \in Owners : Mine(p, rest) <= Mine(p, spent)
          /\ \A u \in Tenants : InTenant(u, rest) <= InTenant(u, spent)
      BY <1>3, SharesShrink DEF Inv
    <2>3. /\ \A p \in Owners : Mine(p, rest) <= MaxPerOwner
          /\ \A u \in Tenants : InTenant(u, rest) <= 2 * MaxPerTenant
          /\ Cardinality(rest) <= 2 * MaxSpent
      <3>. HIDE DEF rest
      <3>. QED
        BY <2>1, <2>2, CapsAssumption DEF Inv, Capped
    <2>. QED
      BY <1>2, <1>4, <2>3 DEF Capped, Mine, InTenant
  <1>8. Remembers'
    <2>1. ASSUME NEW m \in DOMAIN sealed, m \in gone PROVE sealed[m].exp <= clock
      BY <1>1, <2>1, Expiry DEF Due, Inv, Typed
    <2>. QED
      BY <1>2, <2>1 DEF Inv, Remembers, Typed, Idle
  <1>. QED
    BY <1>5, <1>6, <1>7, <1>8 DEF Inv

LEMMA InvStep == Inv /\ [Next]_vars => Inv'
  <1>. SUFFICES ASSUME Inv, [Next]_vars PROVE Inv'
    OBVIOUS
  <1>1. ASSUME UNCHANGED <<sealed, cache, openedFresh>>, clock' \in Nat, clock <= clock',
               \A t \in Threads :
                  \/ call'[t] = call[t]
                  \/ call'[t] \in [pc : {"open"}, state : DOMAIN sealed, now : {clock}],
               call' \in [Threads -> {Idle} \cup [pc : {"open"}, state : DOMAIN sealed, now : Nat]]
        PROVE  Inv'
    <2>1. Typed'
      BY <1>1 DEF Inv, Typed, cache
    <2>2. Counted' /\ Capped'
      <3>1. /\ \A p : OwnedBy(p, spent)' = OwnedBy(p, spent)
            /\ \A t : OfTenant(t, spent)' = OfTenant(t, spent)
        BY <1>1 DEF OwnedBy, OfTenant, cache
      <3>. QED
        BY <1>1, <3>1 DEF Inv, Counted, Capped, Mine, InTenant, cache
    <2>3. \A n \in DOMAIN sealed : sealed[n].exp \in Nat
      BY Expiry DEF Inv
    <2>4. \A t \in Threads : call[t].pc = "open" => call[t].now \in Nat
      BY DEF Inv, Typed, Idle
    <2>5. clock \in Nat
      BY DEF Inv, Typed
    <2>6. Remembers'
      BY <1>1, <2>3, <2>4, <2>5 DEF Inv, Remembers, cache
    <2>. QED
      BY <2>1, <2>2, <2>6 DEF Inv
  <1>2. CASE Tick
    BY <1>1, <1>2 DEF Tick, Inv, Typed
  <1>3. ASSUME NEW t \in Threads, NEW n \in DOMAIN sealed, BeginOpen(t, n) PROVE Inv'
    BY <1>1, <1>3 DEF BeginOpen, Inv, Typed
  <1>4. CASE UNCHANGED vars
    BY <1>1, <1>4 DEF vars, Inv, Typed
  <1>. QED
    BY <1>2, <1>3, <1>4, SealStep, OpenedStep, RefusedStep DEF Next, Replayed, CacheFull

LEMMA InvInit == Init => Inv
  <1>. SUFFICES ASSUME Init PROVE Inv
    OBVIOUS
  <1>1. /\ \A o : OwnedBy(o, spent) = {}
        /\ \A t : OfTenant(t, spent) = {}
        /\ spent = {} /\ Cardinality({}) = 0
    BY FS_EmptySet DEF Init, OwnedBy, OfTenant
  <1>2. Typed
    <2>1. <<>> \in Seq(State) /\ Len(<<>>) = 0 /\ DOMAIN <<>> = {}
      OBVIOUS
    <2>2. /\ sealed = <<>> /\ spent = {} /\ clock = 0 /\ MaxSeals \in Nat
          /\ call = [t \in Threads |-> Idle] /\ openedFresh = [n \in States |-> 0]
      BY CapsAssumption DEF Init
    <2>3. sealed \in Seq(State) /\ Len(sealed) <= MaxSeals /\ spent \subseteq DOMAIN sealed
      BY <2>1, <2>2
    <2>4. call \in [Threads -> {Idle} \cup [pc : {"open"}, state : DOMAIN sealed, now : Nat]]
      BY <2>2
    <2>5. openedFresh \in [States -> Nat]
      BY <2>2
    <2>. QED
      BY <2>2, <2>3, <2>4, <2>5 DEF Typed
  <1>3. Counted /\ Capped
    <2>1. /\ \A o : Mine(o, spent) = 0
          /\ \A t : InTenant(t, spent) = 0
          /\ Cardinality(spent) = 0
      BY <1>1 DEF Mine, InTenant
    <2>2. Counted
      BY <2>1 DEF Init, Counted
    <2>3. Capped
      BY <2>1, CapsAssumption DEF Capped
    <2>. QED
      BY <2>2, <2>3
  <1>4. Remembers
    BY DEF Init, Remembers, Idle
  <1>. QED
    BY <1>2, <1>3, <1>4 DEF Inv

LEMMA Invariant == Spec => []Inv
  BY InvInit, InvStep, PTL DEF Spec

(* _spent, its heap and its counters: the cache keeps within twice its cap, *)
(* owners and tenants within theirs, and _decrement never loses count.      *)
THEOREM TypeCorrect == Spec => []TypeOK
  <1>1. Inv => TypeOK
    <2>. SUFFICES ASSUME Inv PROVE TypeOK
      OBVIOUS
    <2>1. \A o : Mine(o, spent) \in Nat
      BY SpentFinite, Shares DEF Inv
    <2>2. \A t : InTenant(t, spent) \in Nat
      BY SpentFinite, Shares DEF Inv
    <2>3. spentPerOwner \in [Owners -> 0..MaxPerOwner]
      BY <2>1, CapsAssumption DEF Inv, Counted, Capped
    <2>4. spentPerTenant \in [Tenants -> 0..(2 * MaxPerTenant)]
      BY <2>2, CapsAssumption DEF Inv, Counted, Capped
    <2>. QED
      BY <2>3, <2>4 DEF Inv, Typed, Counted, Capped, State, Mine, InTenant, TypeOK
  <1>. QED
    BY <1>1, Invariant, PTL

(* open with single_use: no state is opened twice before it expires, however*)
(* old the readings of the clock are that threads purge the cache with.     *)
THEOREM OpenedOnce == Spec => []OpenedOnceWhileFresh
  <1>1. Inv => OpenedOnceWhileFresh
    BY DEF Inv, Remembers, Typed, OpenedOnceWhileFresh
  <1>. QED
    BY <1>1, Invariant, PTL

(* The cap a refusal names is reached by entries that have not expired: the *)
(* purge and the counters leave no room unused.                             *)
THEOREM RefusedByLive == Spec => FullOfLiveOnly
  <1>1. ASSUME Inv, Next, NEW t \in Threads, call[t].pc = "open", call'[t] = Idle,
               call[t].state \notin spent \cup spent'
        PROVE  CacheFull(t)
    <2>1. call \in [Threads -> {Idle} \cup [pc : {"open"}, state : DOMAIN sealed, now : Nat]]
      BY <1>1 DEF Inv, Typed
    <2>2. call[t] # Idle
      BY <1>1 DEF Idle
    <2>3. PICK r \in Threads :
             \/ \E n \in DOMAIN sealed : BeginOpen(r, n)
             \/ Opened(r) \/ Replayed(r) \/ CacheFull(r)
      BY <1>1, <2>2 DEF Next, Tick, Seal
    <2>4. r = t
      BY <1>1, <2>1, <2>2, <2>3 DEF BeginOpen, Opened, Replayed, CacheFull, Refused
    <2>5. ~ Opened(t) /\ ~ Replayed(t)
      BY <1>1 DEF Opened, Replayed
    <2>. QED
      BY <1>1, <2>2, <2>3, <2>4, <2>5 DEF BeginOpen
  <1>2. ASSUME Inv, NEW t \in Threads, CacheFull(t)
        PROVE  LET o == sealed[call[t].state].owner
                   live == {m \in spent : sealed[m].exp > call[t].now}
                   mine == Cardinality(OwnedBy(o, live))
               IN  \/ mine >= MaxPerOwner
                   \/ /\ Cardinality(OfTenant(o.tenant, live)) >= MaxPerTenant
                      /\ mine < Floor
                            => Cardinality(OfTenant(o.tenant, live)) >= 2 * MaxPerTenant
                   \/ /\ Cardinality(live) >= MaxSpent
                      /\ mine < Floor => Cardinality(live) >= 2 * MaxSpent
    <2>. DEFINE n == call[t].state
                o == sealed[n].owner
                gone == Due(call[t].now)
                live == {m \in spent : sealed[m].exp > call[t].now}
    <2>1. call[t].pc = "open" /\ ~ HasRoom(o, gone)
      BY <1>2 DEF CacheFull
    <2>2. n \in DOMAIN sealed /\ call[t].now \in Nat
      BY <1>2, <2>1 DEF Inv, Typed, Idle
    <2>3. sealed[n] \in State
      BY <1>2, <2>2 DEF Inv, Typed
    <2>4. o \in Owners /\ o.tenant \in Tenants
      BY <2>3 DEF State, Tenants
    <2>5. \A m \in spent : sealed[m].exp \in Nat
      BY <1>2, Expiry DEF Inv, Typed
    <2>6. spent \ gone = live
      BY <2>2, <2>5 DEF Due
    <2>7. /\ CountsWithout(gone) = [p \in Owners |-> Mine(p, spent \ gone)]
          /\ TenantCountsWithout(gone) = [u \in Tenants |-> InTenant(u, spent \ gone)]
      BY <1>2, DueIsSpent, CountsAfterPurge DEF Inv
    <2>8. ~ Admits(Cardinality(live), Mine(o, live), InTenant(o.tenant, live))
      BY <2>1, <2>4, <2>6, <2>7 DEF HasRoom
    <2>9. /\ Cardinality(live) \in Nat
          /\ Mine(o, live) \in Nat /\ InTenant(o.tenant, live) \in Nat
      <3>1. IsFiniteSet(live)
        BY <1>2, SpentFinite, FS_Subset DEF Inv
      <3>. QED
        BY <3>1, Shares
    <2>. HIDE DEF n, gone, live
    <2>10. \/ Mine(o, live) >= MaxPerOwner
           \/ /\ InTenant(o.tenant, live) >= MaxPerTenant
              /\ Mine(o, live) < Floor => InTenant(o.tenant, live) >= 2 * MaxPerTenant
           \/ /\ Cardinality(live) >= MaxSpent
              /\ Mine(o, live) < Floor => Cardinality(live) >= 2 * MaxSpent
      BY <2>8, <2>9, CapsAssumption DEF Admits
    <2>. QED
      BY <2>10 DEF Mine, InTenant, n, live
  <1>3. Inv /\ [Next]_vars =>
          [\A t \in Threads :
            LET n == call[t].state
                o == sealed[n].owner
                live == {m \in spent : sealed[m].exp > call[t].now}
                mine == Cardinality(OwnedBy(o, live))
            IN  call[t].pc = "open" /\ call'[t] = Idle /\ n \notin spent \cup spent' =>
                    \/ mine >= MaxPerOwner
                    \/ /\ Cardinality(OfTenant(o.tenant, live)) >= MaxPerTenant
                       /\ mine < Floor
                             => Cardinality(OfTenant(o.tenant, live)) >= 2 * MaxPerTenant
                    \/ /\ Cardinality(live) >= MaxSpent
                       /\ mine < Floor => Cardinality(live) >= 2 * MaxSpent]_vars
    BY <1>1, <1>2
  <1>. QED
    BY <1>3, Invariant, PTL DEF Spec, FullOfLiveOnly
=============================================================================
