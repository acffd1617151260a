------------------------- MODULE ArmorMiddleware_proofs -------------------------
(***************************************************************************)
(* Theorems about ResourceLedger, and about ArmorMiddleware over it: its   *)
(* types, that every step of it is a step or a stutter of the ledger and   *)
(* so inherits the call budget, that every tracked session is in the       *)
(* reaper's reach, the handshake gate across overlapping requests,         *)
(* evictions and foreign sessions, that stateless requests leave nothing   *)
(* behind, and that a client whose requests do not overlap sees one        *)
(* manifest.                                                               *)
(***************************************************************************)
EXTENDS ArmorMiddleware, FiniteSetTheorems, SequenceTheorems, TLAPS

-----------------------------------------------------------------------------
(* The ledger (ResourceLedger).                                             *)

Occurs(x, q) == \E i \in DOMAIN q : q[i] = x
Distinct(q) == \A i, j \in DOMAIN q : q[i] = q[j] => i = j

(* Dropping one position of a sequence without duplicates removes exactly   *)
(* the element that was there.                                              *)
LEMMA RemovedElement ==
    ASSUME NEW q \in Seq(Sessions), Distinct(q), NEW k \in DOMAIN q
    PROVE  /\ Ledger!RemoveAt(q, k) \in Seq(Sessions)
           /\ Len(Ledger!RemoveAt(q, k)) = Len(q) - 1
           /\ Distinct(Ledger!RemoveAt(q, k))
           /\ \A x : Occurs(x, Ledger!RemoveAt(q, k)) <=> Occurs(x, q) /\ x # q[k]
  <1> DEFINE a == SubSeq(q, 1, k - 1)
             b == SubSeq(q, k + 1, Len(q))
             w == Ledger!RemoveAt(q, k)
  <1>1. Len(q) \in Nat /\ DOMAIN q = 1..Len(q) /\ \A i \in 1..Len(q) : q[i] \in Sessions
    BY LenProperties, ElementOfSeq
  <1>2. a \in Seq(Sessions) /\ Len(a) = k - 1 /\ \A i \in 1..(k - 1) : a[i] = q[i]
    BY <1>1, SubSeqProperties
  <1>3. /\ b \in Seq(Sessions) /\ Len(b) = Len(q) - k
        /\ \A i \in 1..(Len(q) - k) : b[i] = q[k + i]
    <2>1. \A i \in (k + 1)..Len(q) : q[i] \in Sessions
      BY <1>1
    <2>2. /\ b \in Seq(Sessions)
          /\ Len(b) = IF k + 1 <= Len(q) THEN Len(q) - (k + 1) + 1 ELSE 0
          /\ \A i \in 1..(Len(q) - (k + 1) + 1) : b[i] = q[k + 1 + i - 1]
      BY <1>1, <2>1, SubSeqProperties
    <2>. HIDE DEF b
    <2>3. k \in Nat /\ k <= Len(q)
      BY <1>1
    <2>4. Len(b) = Len(q) - k
      BY <1>1, <2>2, <2>3
    <2>5. ASSUME NEW i \in 1..(Len(q) - k)
          PROVE  b[i] = q[k + i]
      <3>1. i \in 1..(Len(q) - (k + 1) + 1) /\ k + 1 + i - 1 = k + i
        BY <1>1, <2>3
      <3>. QED
        BY <2>2, <3>1
    <2>. QED
      BY <2>2, <2>4, <2>5
  <1>4. w = a \o b
    BY DEF Ledger!RemoveAt
  <1>5. /\ w \in Seq(Sessions) /\ Len(w) = Len(q) - 1
        /\ \A i \in 1..(Len(q) - 1) : w[i] = IF i < k THEN q[i] ELSE q[i + 1]
    <2>. HIDE DEF a, b, w
    <2>1. /\ a \o b \in Seq(Sessions)
          /\ Len(a \o b) = Len(a) + Len(b)
          /\ \A i \in 1..(Len(a) + Len(b)) :
                (a \o b)[i] = IF i <= Len(a) THEN a[i] ELSE b[i - Len(a)]
      BY <1>2, <1>3, ConcatProperties
    <2>2. Len(a) + Len(b) = Len(q) - 1 /\ k \in 1..Len(q)
      BY <1>1, <1>2, <1>3
    <2>3. ASSUME NEW i \in 1..(Len(q) - 1)
          PROVE  w[i] = IF i < k THEN q[i] ELSE q[i + 1]
      <3>1. CASE i < k
        BY <1>1, <1>2, <1>4, <2>1, <2>2, <3>1
      <3>2. CASE i >= k
        <4>1. i - (k - 1) \in 1..(Len(q) - k) /\ k + (i - (k - 1)) = i + 1
          BY <1>1, <2>2, <3>2
        <4>2. b[i - (k - 1)] = q[i + 1]
          BY <1>3, <4>1
        <4>. QED
          BY <1>1, <1>2, <1>4, <2>1, <2>2, <3>2, <4>2
      <3>. QED
        BY <1>1, <2>2, <3>1, <3>2
    <2>. QED
      BY <1>4, <2>1, <2>2, <2>3
  <1>6. DOMAIN w = 1..(Len(q) - 1)
    BY <1>5, LenProperties
  <1>. HIDE DEF w, a, b
  <1>7. \A i, j \in 1..Len(q) : q[i] = q[j] => i = j
    BY <1>1 DEF Distinct
  <1>. DEFINE from(i) == IF i < k THEN i ELSE i + 1
  <1>8. /\ \A i \in 1..(Len(q) - 1) : /\ from(i) \in 1..Len(q) /\ from(i) # k
                                      /\ w[i] = q[from(i)]
        /\ \A i, j \in 1..(Len(q) - 1) : from(i) = from(j) => i = j
        /\ \A j \in 1..Len(q) : j # k => \E i \in 1..(Len(q) - 1) : from(i) = j
    <2>1. \A i \in 1..(Len(q) - 1) : from(i) \in 1..Len(q) /\ from(i) # k /\ w[i] = q[from(i)]
      BY <1>1, <1>5
    <2>2. \A i, j \in 1..(Len(q) - 1) : from(i) = from(j) => i = j
      BY <1>1
    <2>3. ASSUME NEW j \in 1..Len(q), j # k
          PROVE  \E i \in 1..(Len(q) - 1) : from(i) = j
      <3>1. CASE j < k
        <4>1. j \in 1..(Len(q) - 1) /\ from(j) = j
          BY <1>1, <3>1
        <4>. QED
          BY <4>1
      <3>2. CASE j > k
        <4>1. j - 1 \in 1..(Len(q) - 1) /\ from(j - 1) = j
          BY <1>1, <3>2
        <4>. QED
          BY <4>1
      <3>. QED
        BY <1>1, <2>3, <3>1, <3>2
    <2>. QED
      BY <2>1, <2>2, <2>3
  <1>. HIDE DEF from
  <1>9. Distinct(w)
    <2>. SUFFICES ASSUME NEW i \in 1..(Len(q) - 1), NEW j \in 1..(Len(q) - 1), w[i] = w[j]
                  PROVE  i = j
      BY <1>6 DEF Distinct
    <2>1. from(i) = from(j)
      BY <1>7, <1>8
    <2>. QED
      BY <1>8, <2>1
  <1>10. \A x : Occurs(x, w) <=> Occurs(x, q) /\ x # q[k]
    <2>1. ASSUME NEW x, NEW i \in 1..(Len(q) - 1), w[i] = x
          PROVE  Occurs(x, q) /\ x # q[k]
      BY <1>1, <1>7, <1>8, <2>1 DEF Occurs
    <2>2. ASSUME NEW x, NEW j \in 1..Len(q), q[j] = x, x # q[k]
          PROVE  Occurs(x, w)
      <3>1. PICK i \in 1..(Len(q) - 1) : from(i) = j
        BY <1>8, <2>2
      <3>. QED
        BY <1>6, <1>8, <2>2, <3>1 DEF Occurs
    <2>. QED
      BY <1>1, <1>6, <2>1, <2>2 DEF Occurs
  <1>. QED
    BY <1>5, <1>9, <1>10 DEF w

(* What the ledger's keys are without a session, and with it moved to the   *)
(* end: no duplicates, and exactly the expected sessions.                   *)
LEMMA WithoutSession ==
    ASSUME Ledger!TypeOK, NEW s \in Sessions
    PROVE  /\ Ledger!Without(s) \in Seq(Sessions) /\ Distinct(Ledger!Without(s))
           /\ Len(Ledger!Without(s)) = IF Ledger!HasEntry(s) THEN Len(order) - 1 ELSE Len(order)
           /\ \A x : Occurs(x, Ledger!Without(s)) <=> Ledger!HasEntry(x) /\ x # s
  <1>1. order \in Seq(Sessions) /\ Distinct(order)
    BY DEF Ledger!TypeOK, Distinct
  <1>2. CASE Ledger!HasEntry(s)
    <2> DEFINE k == CHOOSE i \in DOMAIN order : order[i] = s
    <2>1. k \in DOMAIN order /\ order[k] = s
      BY <1>2 DEF Ledger!HasEntry
    <2>2. Ledger!Without(s) = Ledger!RemoveAt(order, k)
      BY <1>2 DEF Ledger!Without
    <2>. HIDE DEF k
    <2>3. \A x : Occurs(x, order) <=> Ledger!HasEntry(x)
      BY DEF Occurs, Ledger!HasEntry
    <2>. QED
      BY <1>1, <1>2, <2>1, <2>2, <2>3, RemovedElement
  <1>3. CASE ~Ledger!HasEntry(s)
    <2>1. Ledger!Without(s) = order
      BY <1>3 DEF Ledger!Without
    <2>. QED
      BY <1>1, <1>3, <2>1 DEF Ledger!HasEntry, Occurs
  <1>. QED
    BY <1>2, <1>3

LEMMA MovedToEnd ==
    ASSUME Ledger!TypeOK, NEW s \in Sessions
    PROVE  /\ Ledger!MoveToEnd(s) \in Seq(Sessions) /\ Distinct(Ledger!MoveToEnd(s))
           /\ Ledger!MoveToEnd(s) # <<>>
           /\ Len(Ledger!MoveToEnd(s)) = IF Ledger!HasEntry(s) THEN Len(order) ELSE Len(order) + 1
           /\ \A x : Occurs(x, Ledger!MoveToEnd(s)) <=> Ledger!HasEntry(x) \/ x = s
  <1> DEFINE w == Ledger!Without(s)
             m == Ledger!MoveToEnd(s)
  <1>1. /\ w \in Seq(Sessions) /\ Distinct(w)
        /\ Len(w) = IF Ledger!HasEntry(s) THEN Len(order) - 1 ELSE Len(order)
        /\ \A x : Occurs(x, w) <=> Ledger!HasEntry(x) /\ x # s
    BY WithoutSession
  <1>2. m = Append(w, s)
    BY DEF Ledger!MoveToEnd
  <1>3. Len(order) \in Nat /\ Len(w) \in Nat /\ DOMAIN w = 1..Len(w)
    BY <1>1, LenProperties DEF Ledger!TypeOK
  <1>. HIDE DEF w, m
  <1>4. /\ m \in Seq(Sessions) /\ m # <<>> /\ Len(m) = Len(w) + 1
        /\ \A i \in 1..Len(w) : m[i] = w[i]
        /\ m[Len(w) + 1] = s
    BY <1>1, <1>2, AppendProperties
  <1>5. DOMAIN m = 1..(Len(w) + 1)
    BY <1>4, LenProperties
  <1>6. \A x : Occurs(x, m) <=> Occurs(x, w) \/ x = s
    BY <1>3, <1>4, <1>5 DEF Occurs
  <1>7. \A i \in 1..Len(w) : w[i] # s
    BY <1>1, <1>3 DEF Occurs
  <1>8. Distinct(m)
    <2>. SUFFICES ASSUME NEW i \in 1..(Len(w) + 1), NEW j \in 1..(Len(w) + 1), m[i] = m[j]
                  PROVE  i = j
      BY <1>5 DEF Distinct
    <2>1. CASE i <= Len(w) /\ j <= Len(w)
      <3>1. i \in DOMAIN w /\ j \in DOMAIN w /\ w[i] = w[j]
        BY <1>3, <1>4, <2>1
      <3>. QED
        BY <1>1, <3>1 DEF Distinct
    <2>2. CASE i = Len(w) + 1 \/ j = Len(w) + 1
      BY <1>3, <1>4, <1>7, <2>2
    <2>. QED
      BY <1>3, <2>1, <2>2
  <1>. QED
    BY <1>1, <1>3, <1>4, <1>6, <1>8 DEF m

(* What _save_budget leaves: an OrderedDict within the cap that has the     *)
(* saved session, unless that very entry was the one dropped.               *)
LEMMA Saved ==
    ASSUME Ledger!TypeOK, NEW s \in Sessions, NEW n \in 0..MaxCalls, Ledger!Save(s, n)
    PROVE  /\ order' \in Seq(Sessions) /\ Len(order') <= LedgerCap
           /\ \A i, j \in DOMAIN order' : order'[i] = order'[j] => i = j
           /\ used' = [used EXCEPT ![s] = n] /\ used' \in [Sessions -> 0..MaxCalls]
           /\ dropped \subseteq dropped' /\ dropped' \subseteq Sessions
           /\ \A x : Ledger!HasEntry(x)' => Ledger!HasEntry(x) \/ x = s
           /\ \A x : (Ledger!HasEntry(x) \/ x = s) /\ x \notin dropped' => Ledger!HasEntry(x)'
  <1> DEFINE m == Ledger!MoveToEnd(s)
  <1>1. /\ m \in Seq(Sessions) /\ Distinct(m) /\ m # <<>>
        /\ Len(m) = IF Ledger!HasEntry(s) THEN Len(order) ELSE Len(order) + 1
        /\ \A x : Occurs(x, m) <=> Ledger!HasEntry(x) \/ x = s
    BY MovedToEnd
  <1>2. Len(order) \in Nat /\ Len(order) <= LedgerCap /\ LedgerCap \in Nat \ {0}
    BY LimitsAssumption, LenProperties DEF Ledger!TypeOK
  <1>3. used' = [used EXCEPT ![s] = n] /\ used' \in [Sessions -> 0..MaxCalls]
    BY DEF Ledger!Save, Ledger!TypeOK
  <1>4. \A x : Ledger!HasEntry(x)' <=> Occurs(x, order')
    BY DEF Ledger!HasEntry, Occurs
  <1>5. CASE Len(m) <= LedgerCap
    <2>1. order' = m /\ dropped' = dropped
      BY <1>1, <1>2, <1>5 DEF Ledger!Save
    <2>. HIDE DEF m
    <2>. QED
      BY <1>1, <1>3, <1>4, <1>5, <2>1 DEF Distinct, Ledger!TypeOK
  <1>6. CASE Len(m) > LedgerCap
    <2>1. order' = Tail(m) /\ dropped' = dropped \cup {Head(m)}
      BY <1>1, <1>2, <1>6 DEF Ledger!Save
    <2>. HIDE DEF m
    <2>2. /\ Head(m) \in Sessions /\ Tail(m) \in Seq(Sessions)
          /\ Len(Tail(m)) = Len(m) - 1
          /\ \A i \in 1..Len(Tail(m)) : Tail(m)[i] = m[i + 1]
      BY <1>1, HeadTailProperties
    <2>3. Len(m) \in Nat /\ DOMAIN m = 1..Len(m) /\ DOMAIN Tail(m) = 1..(Len(m) - 1)
          /\ Head(m) = m[1]
      BY <1>1, <2>2, LenProperties
    <2>4. \A i, j \in DOMAIN Tail(m) : Tail(m)[i] = Tail(m)[j] => i = j
      <3>. SUFFICES ASSUME NEW i \in 1..(Len(m) - 1), NEW j \in 1..(Len(m) - 1),
                           Tail(m)[i] = Tail(m)[j]
                    PROVE  i = j
        BY <2>3
      <3>1. m[i + 1] = m[j + 1] /\ i + 1 \in DOMAIN m /\ j + 1 \in DOMAIN m
        BY <2>2, <2>3
      <3>2. i + 1 = j + 1
        BY <1>1, <3>1 DEF Distinct
      <3>. QED
        BY <3>2
    <2>5. ASSUME NEW x, Occurs(x, Tail(m)) PROVE Occurs(x, m)
      <3>1. PICK i \in 1..(Len(m) - 1) : Tail(m)[i] = x
        BY <2>3, <2>5 DEF Occurs
      <3>2. i + 1 \in DOMAIN m /\ m[i + 1] = x
        BY <2>2, <2>3, <3>1
      <3>. QED
        BY <3>2 DEF Occurs
    <2>6. ASSUME NEW x, Occurs(x, m), x # Head(m) PROVE Occurs(x, Tail(m))
      <3>1. PICK i \in 1..Len(m) : m[i] = x
        BY <2>3, <2>6 DEF Occurs
      <3>2. i - 1 \in 1..(Len(m) - 1) /\ Tail(m)[i - 1] = x
        BY <2>2, <2>3, <2>6, <3>1
      <3>. QED
        BY <2>3, <3>2 DEF Occurs
    <2>7. dropped' \subseteq Sessions /\ Len(order') <= LedgerCap
      BY <1>1, <1>2, <2>1, <2>2, <2>3 DEF Ledger!TypeOK
    <2>8. /\ \A x : Ledger!HasEntry(x)' => Ledger!HasEntry(x) \/ x = s
          /\ \A x : (Ledger!HasEntry(x) \/ x = s) /\ x \notin dropped' => Ledger!HasEntry(x)'
      BY <1>1, <1>4, <2>1, <2>5, <2>6
    <2>. QED
      BY <1>3, <2>1, <2>2, <2>4, <2>7, <2>8
  <1>. QED
    <2>1. Len(m) \in Nat
      BY <1>1, LenProperties
    <2>. QED
      BY <1>2, <1>5, <1>6, <2>1

(* calls_used as restored is a legal count if the caller's was.             *)
LEMMA RestoredLegal ==
    ASSUME Ledger!TypeOK, NEW s \in Sessions, NEW calls \in 0..MaxCalls
    PROVE  Ledger!Restored(s, calls) \in 0..MaxCalls
  BY DEF Ledger!TypeOK, Ledger!Restored

(* The strengthening of BudgetCap: a live entry has counted every admitted  *)
(* call, and a session without one (and not dropped) has had none.          *)
Counted(s) == admitted[s] <= IF Ledger!HasEntry(s) THEN used[s] ELSE 0
LedgerInv == Ledger!TypeOK /\ \A s \in Sessions \ dropped : Counted(s)

LEMMA LedgerInvStep == LedgerInv /\ [Ledger!Next]_(Ledger!ledgerVars) => LedgerInv'
  <1>. SUFFICES ASSUME LedgerInv, [Ledger!Next]_(Ledger!ledgerVars) PROVE LedgerInv'
    OBVIOUS
  <1>. USE LimitsAssumption
  <1>0. Ledger!TypeOK
    BY DEF LedgerInv
  <1>1. ASSUME NEW s \in Sessions, NEW calls \in 0..MaxCalls, Ledger!SessionStart(s, calls)
        PROVE  LedgerInv'
    <2>1. Ledger!Restored(s, calls) \in 0..MaxCalls
      BY <1>0, RestoredLegal
    <2>2. Ledger!Save(s, Ledger!Restored(s, calls)) /\ admitted' = admitted
      BY <1>1 DEF Ledger!SessionStart
    <2>3. Ledger!TypeOK'
      BY <1>0, <1>1, <2>1, <2>2, Saved DEF Ledger!SessionStart, Ledger!TypeOK
    <2>4. ASSUME NEW x \in Sessions \ dropped' PROVE Counted(x)'
      <3>1. x \in Sessions \ dropped /\ Counted(x)
        BY <1>0, <2>1, <2>2, <2>4, Saved DEF LedgerInv
      <3>2. Ledger!HasEntry(x)' <=> Ledger!HasEntry(x) \/ x = s
        BY <1>0, <2>1, <2>2, <2>4, Saved
      <3>3. used' = [used EXCEPT ![s] = Ledger!Restored(s, calls)]
        BY <1>0, <2>1, <2>2, Saved
      <3>. QED
        BY <1>0, <2>1, <2>2, <3>1, <3>2, <3>3 DEF Counted, Ledger!Restored, Ledger!TypeOK
    <2>. QED
      BY <2>3, <2>4 DEF LedgerInv
  <1>2. ASSUME NEW s \in Sessions, NEW calls \in 0..MaxCalls, Ledger!Charge(s, calls)
        PROVE  LedgerInv'
    <2>1. Ledger!Restored(s, calls) \in 0..MaxCalls /\ Ledger!Restored(s, calls) + 1 \in 0..MaxCalls
      BY <1>0, <1>2, RestoredLegal DEF Ledger!Charge, Ledger!WithinLimit
    <2>2. /\ Ledger!Save(s, Ledger!Restored(s, calls) + 1)
          /\ admitted' = IF s \in dropped THEN admitted ELSE [admitted EXCEPT ![s] = @ + 1]
      BY <1>2 DEF Ledger!Charge
    <2>3. Ledger!TypeOK'
      <3>1. admitted' \in [Sessions -> Nat]
        BY <1>0, <2>2 DEF Ledger!TypeOK
      <3>. QED
        BY <1>0, <1>2, <2>1, <2>2, <3>1, Saved DEF Ledger!Charge, Ledger!TypeOK
    <2>4. ASSUME NEW x \in Sessions \ dropped' PROVE Counted(x)'
      <3>1. x \in Sessions \ dropped /\ Counted(x)
        BY <1>0, <2>1, <2>2, <2>4, Saved DEF LedgerInv
      <3>2. Ledger!HasEntry(x)' <=> Ledger!HasEntry(x) \/ x = s
        BY <1>0, <2>1, <2>2, <2>4, Saved
      <3>3. used' = [used EXCEPT ![s] = Ledger!Restored(s, calls) + 1]
        BY <1>0, <2>1, <2>2, Saved
      <3>. QED
        BY <1>0, <2>1, <2>2, <3>1, <3>2, <3>3 DEF Counted, Ledger!Restored, Ledger!TypeOK
    <2>. QED
      BY <2>3, <2>4 DEF LedgerInv
  <1>3. ASSUME NEW s \in Sessions, Ledger!Refuse(s) PROVE LedgerInv'
    <2>1. CASE Ledger!HasEntry(s)
      <3>1. order' = Ledger!MoveToEnd(s)
        BY <1>3, <2>1 DEF Ledger!Refuse
      <3>2. /\ order' \in Seq(Sessions) /\ Distinct(order') /\ Len(order') = Len(order)
            /\ \A x : Ledger!HasEntry(x)' <=> Ledger!HasEntry(x)
        <4>1. \A x : Ledger!HasEntry(x)' <=> Occurs(x, Ledger!MoveToEnd(s))
          BY <3>1 DEF Ledger!HasEntry, Occurs
        <4>2. \A x : x = s => Ledger!HasEntry(x)
          BY <2>1
        <4>. QED
          BY <1>0, <2>1, <3>1, <4>1, <4>2, MovedToEnd
      <3>3. Ledger!TypeOK'
        BY <1>0, <1>3, <3>2 DEF Ledger!Refuse, Ledger!TypeOK, Distinct
      <3>. QED
        BY <1>3, <3>2, <3>3 DEF Ledger!Refuse, LedgerInv, Counted
    <2>2. CASE ~Ledger!HasEntry(s)
      BY <1>3, <2>2 DEF Ledger!Refuse, LedgerInv, Ledger!TypeOK, Counted, Ledger!HasEntry
    <2>. QED
      BY <2>1, <2>2
  <1>4. ASSUME NEW s \in Sessions, Ledger!SessionEnd(s) PROVE LedgerInv'
    <2>1. /\ order' \in Seq(Sessions) /\ Distinct(order') /\ Len(order') <= Len(order)
          /\ Len(order') <= LedgerCap
          /\ \A x : Ledger!HasEntry(x)' <=> Ledger!HasEntry(x) /\ x # s
      <3>1. Len(order) \in Nat /\ Len(order) <= LedgerCap
        BY <1>0, LenProperties DEF Ledger!TypeOK
      <3>2. order' = Ledger!Without(s)
        BY <1>4 DEF Ledger!SessionEnd
      <3>3. \A x : Ledger!HasEntry(x)' <=> Occurs(x, Ledger!Without(s))
        BY <3>2 DEF Ledger!HasEntry, Occurs
      <3>. QED
        <4>1. /\ order' \in Seq(Sessions) /\ Distinct(order')
              /\ Len(order') = IF Ledger!HasEntry(s) THEN Len(order) - 1 ELSE Len(order)
          BY <1>0, <3>2, WithoutSession
        <4>2. \A x : Ledger!HasEntry(x)' <=> Ledger!HasEntry(x) /\ x # s
          BY <1>0, <3>3, WithoutSession
        <4>. QED
          BY <3>1, <4>1, <4>2, LimitsAssumption
    <2>2. Ledger!TypeOK'
      BY <1>0, <1>4, <2>1 DEF Ledger!SessionEnd, Ledger!TypeOK, Distinct
    <2>3. ASSUME NEW x \in Sessions \ dropped' PROVE Counted(x)'
      BY <1>0, <1>4, <2>1, <2>3 DEF Ledger!SessionEnd, LedgerInv, Counted, Ledger!TypeOK
    <2>. QED
      BY <2>2, <2>3 DEF LedgerInv
  <1>5. ASSUME NEW s \in Sessions, Ledger!Seen(s) \/ Ledger!FallSilent(s) PROVE LedgerInv'
    BY <1>5 DEF Ledger!Seen, Ledger!FallSilent, LedgerInv, Ledger!TypeOK, Counted, Ledger!HasEntry
  <1>6. CASE Ledger!Reap
    BY <1>6 DEF Ledger!Reap, LedgerInv, Ledger!TypeOK, Counted, Ledger!HasEntry
  <1>7. CASE UNCHANGED Ledger!ledgerVars
    BY <1>7 DEF Ledger!ledgerVars, LedgerInv, Ledger!TypeOK, Counted, Ledger!HasEntry
  <1>. QED
    BY <1>1, <1>2, <1>3, <1>4, <1>5, <1>6, <1>7 DEF Ledger!Next, Ledger!Hook

LEMMA LedgerInvInit == Ledger!Init => LedgerInv
  <1>. SUFFICES ASSUME Ledger!Init PROVE LedgerInv
    OBVIOUS
  <1>1. order = <<>> /\ order \in Seq(Sessions) /\ Len(order) = 0 /\ DOMAIN order = {}
    BY EmptySeq DEF Ledger!Init
  <1>. QED
    BY <1>1, LimitsAssumption DEF Ledger!Init, LedgerInv, Ledger!TypeOK, Counted, Ledger!HasEntry

LEMMA LedgerInvariant == Ledger!Spec => []LedgerInv
  BY LedgerInvInit, LedgerInvStep, PTL DEF Ledger!Spec

(* The ledger is an OrderedDict that never outgrows _max_budget_entries     *)
(* (resources.py, _save_budget).                                            *)
THEOREM LedgerTyped == Ledger!Spec => []Ledger!TypeOK
  <1>1. LedgerInv => Ledger!TypeOK
    BY DEF LedgerInv
  <1>. QED
    BY <1>1, LedgerInvariant, PTL

(* max_calls_per_session holds however stale the presented contexts are,    *)
(* and however often the reaper and the adapters forget the session.        *)
THEOREM BudgetCapHolds == Ledger!Spec => []Ledger!BudgetCap
  <1>1. LedgerInv => Ledger!BudgetCap
    <2>. SUFFICES ASSUME LedgerInv, NEW s \in Sessions \ dropped
                  PROVE  admitted[s] <= MaxCalls
      BY DEF Ledger!BudgetCap
    <2>1. used[s] \in 0..MaxCalls /\ admitted[s] \in Nat
      BY DEF LedgerInv, Ledger!TypeOK
    <2>2. Counted(s)
      BY DEF LedgerInv
    <2>. QED
      BY <2>1, <2>2, LimitsAssumption DEF Counted
  <1>. QED
    BY <1>1, LedgerInvariant, PTL

(* No step but a close or an LRU eviction takes charged calls back.         *)
THEOREM NoRefundsEver == Ledger!Spec => Ledger!NoRefunds
  <1> DEFINE Kept == \A s \in Sessions :
                        Ledger!HasEntry(s) /\ Ledger!HasEntry(s)' => used'[s] >= used[s]
  <1>1. Ledger!TypeOK /\ [Ledger!Next]_(Ledger!ledgerVars) => [Kept]_(Ledger!ledgerVars)
    <2>. SUFFICES ASSUME Ledger!TypeOK, Ledger!Next, NEW x \in Sessions,
                         Ledger!HasEntry(x), Ledger!HasEntry(x)'
                  PROVE  used'[x] >= used[x]
      OBVIOUS
    <2>. USE LimitsAssumption
    <2>1. used \in [Sessions -> 0..MaxCalls]
      BY DEF Ledger!TypeOK
    <2>2. ASSUME NEW s \in Sessions, NEW calls \in 0..MaxCalls,
                 Ledger!SessionStart(s, calls) \/ Ledger!Charge(s, calls)
          PROVE  used'[x] >= used[x]
      BY <2>1, <2>2 DEF Ledger!SessionStart, Ledger!Charge, Ledger!Save, Ledger!Restored
    <2>3. ASSUME NEW s \in Sessions, Ledger!SessionEnd(s) PROVE used'[x] >= used[x]
      <3>1. order' = Ledger!Without(s)
        BY <2>3 DEF Ledger!SessionEnd
      <3>2. Occurs(x, Ledger!Without(s))
        BY <3>1 DEF Ledger!HasEntry, Occurs
      <3>3. x # s
        BY <3>2, WithoutSession
      <3>. QED
        BY <2>1, <2>3, <3>3 DEF Ledger!SessionEnd
    <2>4. ASSUME used' = used PROVE used'[x] >= used[x]
      BY <2>1, <2>4
    <2>. QED
      BY <2>2, <2>3, <2>4
         DEF Ledger!Next, Ledger!Hook, Ledger!Reap, Ledger!Seen, Ledger!Refuse, Ledger!FallSilent
  <1>. QED
    BY <1>1, LedgerTyped, PTL DEF Ledger!Spec, Ledger!NoRefunds
-----------------------------------------------------------------------------
(* The middleware.                                                          *)

(* What the variables range over, but for those of the ledger.              *)
Types ==
    /\ active \in [Sessions -> Context \cup {NoCtx}]
    /\ req \in [Requests -> Request]
    /\ minted \subseteq Sessions /\ issued \subseteq minted
    /\ stateless \subseteq minted \ issued /\ shaken \subseteq issued
    /\ overlapped \subseteq minted /\ reaped \subseteq minted
    /\ shown \in [Sessions -> SUBSET Manifests]

(* How a coroutine came by its session: `initialize` minted it and has not  *)
(* been answered, or a stateless request minted it, or a client sent it.    *)
Initializing(r) ==
    InFlight(r) /\ req[r].method = "initialize" /\ req[r].session \notin issued
Borrowed(r) ==
    /\ req[r].pc \in {"request", "upstream", "respond"}
    /\ req[r].method # "initialize" /\ req[r].session \in issued
OneShot(r) ==
    InFlight(r) /\ req[r].method # "initialize" /\ req[r].session \in stateless

Provenance ==
    /\ \A r \in Requests : InFlight(r) => req[r].session \in minted
    /\ \A r \in Requests : InFlight(r) =>
          \/ Initializing(r) /\ req[r].session \notin stateless /\ req[r].pc # "close"
          \/ Borrowed(r)
          \/ OneShot(r)
    /\ \A r, q \in Requests :
          Initializing(r) /\ Initializing(q) /\ req[r].session = req[q].session => r = q

TrackedAreMinted == \A s \in Sessions : Tracked(s) => s \in minted \ stateless

Inv == /\ LedgerInv
       /\ Types /\ Provenance /\ TrackedAreMinted /\ TrackedIsReapable

(* The handshake phase each copy of a context may be in.                    *)
ContentNeedsHandshake ==
    \A s \in Sessions : admitted[s] > 0 \/ shown[s] # {} => s \in shaken \cup stateless
TrackedPhase ==
    \A s \in issued : Tracked(s) /\ active[s].phase = "active" => s \in shaken
CopiedPhase(r) ==
    LET s == req[r].session
        admittedHere == req[r].pc \in {"upstream", "respond"}
    IN  /\ Initializing(r) /\ admittedHere => req[r].ctx.phase = "pending"
        /\ Borrowed(r) /\ req[r].pc = "request" /\ req[r].ctx.phase = "active"
              => s \in shaken
        /\ Borrowed(r) /\ admittedHere /\ req[r].ctx.phase = "active"
              => s \in shaken \/ ~Tracked(s)
        /\ Borrowed(r) /\ admittedHere /\ req[r].method \in {"tools/list", "tools/call"}
              => s \in shaken
        /\ InFlight(r) /\ req[r].manifest # NoManifest
              => req[r].method = "tools/list" /\ req[r].pc = "respond"
GateInv == ContentNeedsHandshake /\ TrackedPhase /\ \A r \in Requests : CopiedPhase(r)

-----------------------------------------------------------------------------
(* A coroutine in flight has a session, and a count T10 may be handed.      *)
LEMMA InFlightLegal ==
    ASSUME Inv, NEW r \in Requests, InFlight(r)
    PROVE  /\ req[r].session \in Sessions
           /\ req[r].ctx \in Context
           /\ req[r].ctx.calls \in 0..MaxCalls
  BY DEF Inv, Types, Provenance, Request, Context

(* Every step of the middleware is a hook of the ledger, or leaves it alone.*)
LEMMA StepsOfLedger ==
    Inv /\ [Next]_vars => [Ledger!Next]_(Ledger!ledgerVars)
  <1>. SUFFICES ASSUME Inv, [Next]_vars
                PROVE  Ledger!Next \/ UNCHANGED Ledger!ledgerVars
    OBVIOUS
  <1>1. ASSUME NEW r \in Requests, Proceed(r)
        PROVE  Ledger!Next \/ UNCHANGED Ledger!ledgerVars
    <2>1. CASE RejectEarly(r) \/ Respond(r)
      BY <2>1 DEF RejectEarly, Respond, ledgerVars, Ledger!ledgerVars
    <2>2. CASE Open(r) \/ Admit(r) \/ RejectOverLimit(r) \/ RejectLate(r) \/ Close(r)
      <3>1. InFlight(r)
        BY <2>2 DEF Open, Admit, RejectOverLimit, RejectLate, Close, InFlight
      <3>. DEFINE s == req[r].session
                  n == req[r].ctx.calls
      <3>2. s \in Sessions /\ n \in 0..MaxCalls
        BY <3>1, InFlightLegal
      <3>3. \/ Ledger!SessionStart(s, n) \/ Ledger!Charge(s, n) \/ Ledger!Seen(s)
            \/ Ledger!Refuse(s) \/ Ledger!SessionEnd(s)
        BY <2>2, Zenon DEF Open, Admit, RejectOverLimit, RejectLate, Close, Account
      <3>. HIDE DEF s, n
      <3>4. Ledger!Hook(s)
        BY <3>2, <3>3, Zenon DEF Ledger!Hook
      <3>. QED
        BY <3>2, <3>4 DEF Ledger!Next
    <2>. QED
      BY <1>1, <2>1, <2>2 DEF Proceed
  <1>2. ASSUME NEW r \in Requests, Arrive(r) \/ Upstream(r)
        PROVE  UNCHANGED Ledger!ledgerVars
    BY <1>2 DEF Arrive, ArriveInitialize, ArriveStateless, ArriveOnSession, Accept,
                Upstream, RejectResponse, Answer, AnswerTools, ledgerVars, Ledger!ledgerVars
  <1>3. ASSUME NEW s \in Sessions, FallSilent(s) PROVE Ledger!Next
    <2>1. 0 \in 0..MaxCalls
      BY LimitsAssumption
    <2>2. Ledger!FallSilent(s)
      BY <1>3, <2>1 DEF FallSilent
    <2>. QED
      BY <2>2 DEF Ledger!Hook, Ledger!Next
  <1>4. CASE Reap
    BY <1>4 DEF Reap, Ledger!Reap, Ledger!Zombies, Ledger!Next
  <1>5. CASE UNCHANGED vars
    BY <1>5 DEF vars, ledgerVars, Ledger!ledgerVars
  <1>. QED
    BY <1>1, <1>2, <1>3, <1>4, <1>5 DEF Next

(* What Handshake, Baseline and the write-back return.                      *)
LEMMA ContextHelpers ==
    ASSUME NEW ctx \in Context, NEW method \in Methods, NEW n \in 0..MaxCalls
    PROVE  /\ [Handshake(ctx, method) EXCEPT !.calls = n] \in Context
           /\ [ctx EXCEPT !.calls = n] \in Context
           /\ \A m \in Manifests : Baseline(ctx, m) \in Context
           /\ FreshContext \in Context /\ UnknownContext \in Context
  BY LimitsAssumption DEF Context, Handshake, Baseline, FreshContext, UnknownContext

(* What a coroutine's end leaves in its slot.                               *)
LEMMA Returned ==
    ASSUME Inv, NEW r \in Requests, InFlight(r), Return(r)
    PROVE  /\ req' \in [Requests -> Request]
           /\ req' = [req EXCEPT ![r] = req'[r]]
           /\ req[r].session \notin stateless => req'[r].pc = "idle"
           /\ req[r].session \in stateless =>
                 /\ req'[r].pc = "close" /\ req'[r].session = req[r].session
                 /\ req'[r].method = "ping"
           /\ req'[r].manifest = NoManifest
  <1>1. req \in [Requests -> Request] /\ req[r].session \in Sessions
    BY InFlightLegal DEF Inv, Types
  <1>2. Idle \in Request
    BY LimitsAssumption DEF Idle, Request, FreshContext, Context, Methods
  <1>3. AwaitClose(r) = [pc |-> "close", session |-> req[r].session, method |-> "ping",
                         ctx |-> FreshContext, manifest |-> NoManifest]
    <2>. DEFINE closing == [Idle EXCEPT !.pc = "close"]
    <2>1. closing = [pc |-> "close", session |-> NoSession, method |-> "ping",
                     ctx |-> FreshContext, manifest |-> NoManifest]
      BY DEF Idle
    <2>2. AwaitClose(r) = [closing EXCEPT !.session = req[r].session]
      BY DEF AwaitClose
    <2>. HIDE DEF closing
    <2>. QED
      BY <2>1, <2>2
  <1>4. AwaitClose(r) \in Request
    BY <1>1, <1>2, <1>3 DEF Idle, Request
  <1>. QED
    BY <1>1, <1>2, <1>3, <1>4 DEF Return, Idle

(* The slot of r after each step that moves its coroutine on.               *)
LEMMA Moved ==
    ASSUME Inv, NEW r \in Requests, NEW pc \in {"request", "upstream", "respond"},
           NEW ctx \in Context, NEW m \in Manifests \cup {NoManifest},
           InFlight(r), Await(r, pc, ctx, m)
    PROVE  /\ req' \in [Requests -> Request]
           /\ \A q \in Requests \ {r} : req'[q] = req[q]
           /\ req'[r].pc = pc /\ req'[r].ctx = ctx /\ req'[r].manifest = m
           /\ req'[r].session = req[r].session /\ req'[r].method = req[r].method
  <1>1. req \in [Requests -> Request]
    BY DEF Inv, Types
  <1>2. req' = [req EXCEPT ![r] = [pc |-> pc, session |-> req[r].session,
                  method |-> req[r].method, ctx |-> ctx, manifest |-> m]]
    BY DEF Await
  <1>. QED
    BY <1>1, <1>2 DEF Request

(* Provenance over the three shapes of a coroutine's step: it arrives, it   *)
(* goes on to its next await, it ends.                                      *)
LEMMA ArrivalKeepsProvenance ==
    ASSUME Inv, NEW r \in Requests, ~InFlight(r), Arrive(r)
    PROVE  Types' /\ Provenance'
  <1>1. PICK s \in Sessions :
           \/ ArriveInitialize(r, s)
           \/ \E method \in ClientMethods : ArriveStateless(r, s, method)
           \/ \E method \in ClientMethods : ArriveOnSession(r, s, method)
    BY DEF Arrive
  <1>2. FreshContext \in Context /\ UnknownContext \in Context /\ LoadedContext(s) \in Context
    BY LimitsAssumption
       DEF FreshContext, UnknownContext, LoadedContext, Context, Inv, Types, Tracked
  <1>3. PICK method \in Methods, ctx \in Context, pc \in {"open", "request"} :
           /\ Accept(r, s, method, ctx, pc)
           /\ minted' = minted \cup {s}
           /\ \/ s \notin minted /\ method = "initialize" /\ stateless' = stateless
              \/ s \notin minted /\ method # "initialize" /\ stateless' = stateless \cup {s}
              \/ /\ s \in issued /\ method # "initialize" /\ stateless' = stateless
                 /\ pc = "request"
    <2>1. "initialize" \in Methods /\ ClientMethods \subseteq Methods
      BY MethodsAssumption DEF Methods
    <2>2. s \in issued => s \in minted
      BY DEF Inv, Types
    <2>3. CASE ArriveInitialize(r, s)
      BY <1>2, <2>1, <2>3 DEF ArriveInitialize
    <2>4. CASE \E method \in ClientMethods : ArriveStateless(r, s, method)
      BY <1>2, <2>1, <2>4 DEF ArriveStateless
    <2>5. CASE \E method \in ClientMethods : ArriveOnSession(r, s, method)
      BY <1>2, <2>1, <2>2, <2>5 DEF ArriveOnSession
    <2>. QED
      BY <1>1, <2>3, <2>4, <2>5
  <1>4. /\ req' = [req EXCEPT ![r] = [pc |-> pc, session |-> s, method |-> method,
                                     ctx |-> ctx, manifest |-> NoManifest]]
        /\ overlapped' \subseteq overlapped \cup {s}
        /\ UNCHANGED <<active, issued, shown, shaken, reaped>>
    BY <1>3 DEF Accept
  <1>5. Types'
    <2>1. req' \in [Requests -> Request]
      BY <1>4 DEF Inv, Types, Request
    <2>. QED
      BY <1>3, <1>4, <2>1 DEF Inv, Types
  <1>6. /\ \A q \in Requests \ {r} : req'[q] = req[q]
        /\ req'[r].pc = pc /\ req'[r].session = s /\ req'[r].method = method
    BY <1>4 DEF Inv, Types
  <1>7. Provenance'
    <2>1. ASSUME NEW q \in Requests, InFlight(q)'
          PROVE  /\ req'[q].session \in minted'
                 /\ \/ Initializing(q)' /\ req'[q].session \notin stateless'
                       /\ req'[q].pc # "close"
                    \/ Borrowed(q)'
                    \/ OneShot(q)'
      <3>1. CASE q = r
        BY <1>3, <1>4, <1>6, <2>1, <3>1
           DEF Inv, Types, InFlight, Initializing, Borrowed, OneShot
      <3>2. CASE q # r
        <4>1. InFlight(q) /\ req'[q] = req[q]
          BY <1>6, <2>1, <3>2 DEF InFlight
        <4>. QED
          BY <1>3, <1>4, <4>1
             DEF Inv, Types, Provenance, InFlight, Initializing, Borrowed, OneShot
      <3>. QED
        BY <3>1, <3>2
    <2>2. ASSUME NEW p \in Requests, NEW q \in Requests, Initializing(p)', Initializing(q)',
                 req'[p].session = req'[q].session
          PROVE  p = q
      BY <1>3, <1>4, <1>6, <2>2 DEF Inv, Types, Provenance, InFlight, Initializing
    <2>. QED
      BY <2>1, <2>2 DEF Provenance
  <1>. QED
    BY <1>5, <1>7

LEMMA AwaitKeepsProvenance ==
    ASSUME Inv, NEW r \in Requests, NEW pc \in {"request", "upstream", "respond"},
           NEW ctx \in Context, NEW m \in Manifests \cup {NoManifest},
           InFlight(r), req[r].pc # "close", Await(r, pc, ctx, m),
           UNCHANGED <<minted, issued, stateless>>
    PROVE  Provenance'
  <1>1. /\ \A q \in Requests \ {r} : req'[q] = req[q]
        /\ req'[r].pc = pc
        /\ req'[r].session = req[r].session /\ req'[r].method = req[r].method
    BY Moved
  <1>2. ASSUME NEW q \in Requests
        PROVE  /\ InFlight(q)' <=> InFlight(q)
               /\ Initializing(q)' <=> Initializing(q)
               /\ Borrowed(q) => Borrowed(q)'
               /\ OneShot(q)' <=> OneShot(q)
               /\ req'[q].session = req[q].session
               /\ (req'[q].pc = "close") <=> (req[q].pc = "close")
    <2>1. CASE q = r
      BY <1>1, <2>1 DEF InFlight, Initializing, Borrowed, OneShot
    <2>2. CASE q # r
      <3>1. req'[q] = req[q]
        BY <1>1, <2>2
      <3>. QED
        BY <3>1 DEF InFlight, Initializing, Borrowed, OneShot
    <2>. QED
      BY <2>1, <2>2
  <1>. QED
    BY <1>2 DEF Inv, Provenance

LEMMA ReturnKeepsProvenance ==
    ASSUME Inv, NEW r \in Requests, InFlight(r), Return(r), UNCHANGED <<minted, stateless>>,
           \/ issued' = issued
           \/ Initializing(r) /\ issued' = issued \cup {req[r].session}
    PROVE  Provenance'
  <1>1. /\ \A q \in Requests \ {r} : req'[q] = req[q]
        /\ req[r].session \notin stateless => req'[r].pc = "idle"
        /\ req[r].session \in stateless =>
              /\ req'[r].pc = "close" /\ req'[r].session = req[r].session
              /\ req'[r].method = "ping"
    BY Returned DEF Inv, Types
  <1>2. ASSUME NEW q \in Requests, q # r, Initializing(q)
        PROVE  Initializing(q)'
    BY <1>1, <1>2 DEF Inv, Provenance, InFlight, Initializing
  <1>3. ASSUME NEW q \in Requests, InFlight(q)'
        PROVE  /\ req'[q].session \in minted'
               /\ \/ Initializing(q)' /\ req'[q].session \notin stateless'
                     /\ req'[q].pc # "close"
                  \/ Borrowed(q)'
                  \/ OneShot(q)'
    <2>1. CASE q = r
      BY <1>1, <1>3, <2>1 DEF Inv, Provenance, InFlight, OneShot
    <2>2. CASE q # r
      <3>1. InFlight(q) /\ req'[q] = req[q]
        BY <1>1, <1>3, <2>2 DEF InFlight
      <3>. QED
        BY <1>2, <2>2, <3>1 DEF Inv, Provenance, InFlight, Borrowed, OneShot
    <2>. QED
      BY <2>1, <2>2
  <1>4. ASSUME NEW p \in Requests, NEW q \in Requests, Initializing(p)', Initializing(q)',
               req'[p].session = req'[q].session
        PROVE  p = q
    <2>1. p # r /\ q # r
      BY <1>1, <1>4 DEF InFlight, Initializing
    <2>2. Initializing(p) /\ Initializing(q) /\ req[p].session = req[q].session
      BY <1>1, <1>4, <2>1 DEF InFlight, Initializing
    <2>. QED
      BY <2>2 DEF Inv, Provenance
  <1>. QED
    BY <1>3, <1>4 DEF Provenance
-----------------------------------------------------------------------------
Core == Types /\ Provenance /\ TrackedAreMinted /\ TrackedIsReapable

LEMMA LastSeenTyped ==
    Inv => lastSeen \in [Sessions -> {"none", "fresh", "silent"}]
  BY DEF Inv, LedgerInv, Ledger!TypeOK

(* calls_used stays a legal count through T10's hooks.                      *)
LEMMA CountsLegal ==
    ASSUME Inv, NEW s \in Sessions, NEW n \in 0..MaxCalls
    PROVE  /\ Ledger!Restored(s, n) \in 0..MaxCalls
           /\ Ledger!WithinLimit(s, n) => Ledger!Restored(s, n) + 1 \in 0..MaxCalls
  <1>1. used \in [Sessions -> 0..MaxCalls]
    BY DEF Inv, LedgerInv, Ledger!TypeOK
  <1>. QED
    BY <1>1, LimitsAssumption DEF Ledger!Restored, Ledger!WithinLimit

LEMMA OpenKeepsCore ==
    ASSUME Inv, NEW r \in Requests, Open(r) PROVE Core'
  <1>. DEFINE s == req[r].session
              ctx == [req[r].ctx EXCEPT !.calls = Ledger!Restored(s, @)]
  <1>1. /\ req[r].pc = "open" /\ Await(r, "request", ctx, NoManifest)
        /\ active' = IF s \in stateless THEN active ELSE [active EXCEPT ![s] = ctx]
        /\ lastSeen' = [lastSeen EXCEPT ![s] = "fresh"]
        /\ UNCHANGED <<minted, history>>
    BY DEF Open, Ledger!SessionStart
  <1>2. InFlight(r) /\ s \in Sessions /\ s \in minted
    BY <1>1, InFlightLegal DEF InFlight, Inv, Provenance
  <1>3. ctx \in Context
    <2>1. req[r].ctx \in Context /\ req[r].ctx.calls \in 0..MaxCalls
      BY <1>2, InFlightLegal
    <2>2. Ledger!Restored(s, req[r].ctx.calls) \in 0..MaxCalls
      BY <1>2, <2>1, CountsLegal
    <2>. QED
      BY <2>1, <2>2 DEF Context
  <1>. HIDE DEF s, ctx
  <1>4. Types'
    BY <1>1, <1>2, <1>3, Moved DEF Inv, Types, history
  <1>5. Provenance'
    BY <1>1, <1>2, <1>3, AwaitKeepsProvenance DEF history
  <1>6. TrackedAreMinted' /\ TrackedIsReapable'
    BY <1>1, <1>2, LastSeenTyped
       DEF Inv, Types, TrackedAreMinted, TrackedIsReapable, Tracked, history
  <1>. QED
    BY <1>4, <1>5, <1>6 DEF Core

(* The hooks a request may run refresh its session's last-seen time, and    *)
(* Persist writes only what is tracked already.                             *)
LEMMA PersistKeepsTracked ==
    ASSUME Inv, NEW s \in Sessions, NEW ctx \in Context,
           Persist(s, ctx) \/ active' = active,
           lastSeen' = lastSeen \/ lastSeen' = [lastSeen EXCEPT ![s] = "fresh"],
           UNCHANGED <<minted, stateless>>
    PROVE  /\ active' \in [Sessions -> Context \cup {NoCtx}]
           /\ \A x \in Sessions : Tracked(x)' <=> Tracked(x)
           /\ TrackedAreMinted' /\ TrackedIsReapable'
  <1>1. active \in [Sessions -> Context \cup {NoCtx}] /\ ctx # NoCtx
    BY NoneAssumption DEF Inv, Types
  <1>2. /\ active' \in [Sessions -> Context \cup {NoCtx}]
        /\ \A x \in Sessions : Tracked(x)' <=> Tracked(x)
    BY <1>1 DEF Persist, Tracked
  <1>3. \A x \in Sessions : lastSeen[x] # "none" => lastSeen'[x] # "none"
    BY LastSeenTyped
  <1>. QED
    BY <1>2, <1>3 DEF Inv, TrackedAreMinted, TrackedIsReapable

LEMMA AccountLegal ==
    ASSUME Inv, NEW r \in Requests, InFlight(r), Account(r)
    PROVE  /\ Accounted(r) \in 0..MaxCalls
           /\ lastSeen' = [lastSeen EXCEPT ![req[r].session] = "fresh"]
  <1>1. req[r].session \in Sessions /\ req[r].ctx.calls \in 0..MaxCalls
    BY InFlightLegal
  <1>2. CASE req[r].method \in CONTENT_BEARING_METHODS
    <2>1. Ledger!Charge(req[r].session, req[r].ctx.calls)
      BY <1>2 DEF Account
    <2>. QED
      BY <1>1, <1>2, <2>1, CountsLegal DEF Accounted, Ledger!Charge
  <1>3. CASE req[r].method \notin CONTENT_BEARING_METHODS
    BY <1>1, <1>3 DEF Account, Accounted, Ledger!Seen
  <1>. QED
    BY <1>2, <1>3

LEMMA AdmitKeepsCore ==
    ASSUME Inv, NEW r \in Requests, Admit(r) PROVE Core'
  <1>. DEFINE s == req[r].session
              ctx == [Handshake(req[r].ctx, req[r].method) EXCEPT !.calls = Accounted(r)]
  <1>1. /\ req[r].pc = "request" /\ Account(r) /\ Persist(s, ctx)
        /\ Await(r, "upstream", ctx, NoManifest) /\ Shaken(r)
        /\ UNCHANGED <<minted, issued, stateless, shown, overlapped, reaped>>
    BY DEF Admit
  <1>2. InFlight(r) /\ s \in Sessions /\ req[r].ctx \in Context /\ req[r].method \in Methods
    BY <1>1, InFlightLegal DEF InFlight, Inv, Types, Request
  <1>3. ctx \in Context
    BY <1>1, <1>2, AccountLegal, ContextHelpers
  <1>4. lastSeen' = [lastSeen EXCEPT ![s] = "fresh"]
    BY <1>1, <1>2, AccountLegal
  <1>5. shaken' \subseteq issued
    <2>1. CASE req[r].method = "notifications/initialized" /\ Tracked(s)
      <3>1. s \in issued
        BY <1>1, <1>2, <2>1 DEF Inv, Provenance, TrackedAreMinted, Initializing, Borrowed, OneShot
      <3>. QED
        BY <1>1, <3>1 DEF Shaken, Inv, Types
    <2>. QED
      BY <1>1, <2>1 DEF Shaken, Inv, Types
  <1>. HIDE DEF s, ctx
  <1>6. active' \in [Sessions -> Context \cup {NoCtx}] /\ TrackedAreMinted' /\ TrackedIsReapable'
    BY <1>1, <1>2, <1>3, <1>4, PersistKeepsTracked
  <1>7. Types'
    BY <1>1, <1>2, <1>3, <1>5, <1>6, Moved DEF Inv, Types
  <1>8. Provenance'
    BY <1>1, <1>2, <1>3, AwaitKeepsProvenance
  <1>. QED
    BY <1>6, <1>7, <1>8 DEF Core

LEMMA AnswerKeepsCore ==
    ASSUME Inv, NEW r \in Requests, Answer(r) \/ \E m \in Manifests : AnswerTools(r, m)
    PROVE  Core'
  <1>1. InFlight(r) /\ req[r].pc = "upstream"
    BY DEF Answer, AnswerTools, InFlight
  <1>2. req[r].ctx \in Context
    BY <1>1, InFlightLegal
  <1>3. PICK ctx \in Context, m \in Manifests \cup {NoManifest} :
           /\ Await(r, "respond", ctx, m)
           /\ UNCHANGED <<active, minted, ledgerVars, history>>
    <2>1. CASE Answer(r)
      BY <1>2, <2>1 DEF Answer
    <2>2. CASE \E m \in Manifests : AnswerTools(r, m)
      <3>1. \A m \in Manifests : Baseline(req[r].ctx, m) \in Context
        BY <1>2 DEF Baseline, Context
      <3>. QED
        BY <2>2, <3>1 DEF AnswerTools
    <2>. QED
      BY <2>1, <2>2
  <1>4. Types'
    BY <1>1, <1>3, Moved DEF Inv, Types, history
  <1>5. Provenance'
    BY <1>1, <1>3, AwaitKeepsProvenance DEF history
  <1>6. TrackedAreMinted' /\ TrackedIsReapable'
    BY <1>3 DEF Inv, TrackedAreMinted, TrackedIsReapable, Tracked, history, ledgerVars
  <1>. QED
    BY <1>4, <1>5, <1>6 DEF Core

(* The rejections: the coroutine ends, and T10 may have seen the session.   *)
LEMMA RejectionKeepsCore ==
    ASSUME Inv, NEW r \in Requests,
           RejectEarly(r) \/ RejectOverLimit(r) \/ RejectLate(r) \/ RejectResponse(r)
    PROVE  Core'
  <1>1. InFlight(r) /\ Return(r) /\ UNCHANGED <<active, minted, history>>
    BY DEF RejectEarly, RejectOverLimit, RejectLate, RejectResponse, InFlight
  <1>2. req[r].session \in Sessions
    BY <1>1, InFlightLegal
  <1>3. lastSeen' = lastSeen \/ lastSeen' = [lastSeen EXCEPT ![req[r].session] = "fresh"]
    <2>1. CASE RejectEarly(r) \/ RejectResponse(r)
      BY <2>1 DEF RejectEarly, RejectResponse, ledgerVars
    <2>2. CASE RejectOverLimit(r)
      BY <2>2 DEF RejectOverLimit, Ledger!Refuse
    <2>3. CASE RejectLate(r)
      BY <1>1, <2>3, AccountLegal DEF RejectLate
    <2>. QED
      BY <2>1, <2>2, <2>3
  <1>4. Types'
    BY <1>1, Returned DEF Inv, Types, history
  <1>5. Provenance'
    BY <1>1, ReturnKeepsProvenance DEF history
  <1>6. TrackedAreMinted' /\ TrackedIsReapable'
    <2>1. req[r].ctx \in Context
      BY <1>1, InFlightLegal
    <2>. QED
      BY <1>1, <1>2, <1>3, <2>1, PersistKeepsTracked DEF history
  <1>. QED
    BY <1>4, <1>5, <1>6 DEF Core

LEMMA RespondKeepsCore ==
    ASSUME Inv, NEW r \in Requests, Respond(r) PROVE Core'
  <1>. DEFINE s == req[r].session
  <1>1. /\ req[r].pc = "respond" /\ Persist(s, req[r].ctx) /\ Return(r)
        /\ issued' = IF req[r].method = "initialize" THEN issued \cup {s} ELSE issued
        /\ shown' = [shown EXCEPT ![s] = @ \cup ({req[r].manifest} \ {NoManifest})]
        /\ UNCHANGED <<minted, ledgerVars, stateless, shaken, overlapped, reaped>>
    BY DEF Respond
  <1>2. /\ InFlight(r) /\ s \in Sessions /\ s \in minted /\ req[r].ctx \in Context
        /\ req[r].manifest \in Manifests \cup {NoManifest}
    BY <1>1, InFlightLegal DEF InFlight, Inv, Types, Provenance, Request
  <1>3. req[r].method = "initialize" => Initializing(r) /\ s \notin stateless
    BY <1>2 DEF Inv, Provenance, Borrowed, OneShot
  <1>4. /\ active' \in [Sessions -> Context \cup {NoCtx}]
        /\ TrackedAreMinted' /\ TrackedIsReapable'
    BY <1>1, <1>2, PersistKeepsTracked DEF ledgerVars
  <1>5. Types'
    <2>1. req' \in [Requests -> Request]
      BY <1>1, <1>2, Returned
    <2>2. shown' \in [Sessions -> SUBSET Manifests]
      BY <1>1, <1>2 DEF Inv, Types
    <2>3. issued \subseteq issued' /\ issued' \subseteq minted' /\ stateless' \subseteq minted' \ issued'
      BY <1>1, <1>2, <1>3 DEF Inv, Types
    <2>. QED
      BY <1>1, <1>4, <2>1, <2>2, <2>3 DEF Inv, Types
  <1>6. Provenance'
    BY <1>1, <1>2, <1>3, ReturnKeepsProvenance
  <1>. QED
    BY <1>4, <1>5, <1>6 DEF Core

LEMMA CloseKeepsCore ==
    ASSUME Inv, NEW r \in Requests, Close(r) PROVE Core'
  <1>. DEFINE s == req[r].session
  <1>1. /\ req[r].pc = "close" /\ req' = [req EXCEPT ![r] = Idle]
        /\ lastSeen' = [lastSeen EXCEPT ![s] = "none"]
        /\ UNCHANGED <<active, minted, history>>
    BY DEF Close, Ledger!SessionEnd
  <1>2. s \in stateless
    BY <1>1 DEF Inv, Provenance, InFlight, Initializing, Borrowed, OneShot
  <1>3. Idle \in Request
    BY LimitsAssumption DEF Idle, Request, FreshContext, Context, Methods
  <1>4. Types'
    BY <1>1, <1>3 DEF Inv, Types, history
  <1>5. /\ \A q \in Requests \ {r} : req'[q] = req[q]
        /\ req'[r].pc = "idle"
    BY <1>1 DEF Inv, Types, Idle
  <1>6. ASSUME NEW q \in Requests, InFlight(q)' PROVE q # r /\ InFlight(q) /\ req'[q] = req[q]
    BY <1>5, <1>6 DEF InFlight
  <1>7. Provenance'
    BY <1>1, <1>6 DEF Inv, Provenance, InFlight, Initializing, Borrowed, OneShot, history
  <1>8. TrackedAreMinted' /\ TrackedIsReapable'
    BY <1>1, <1>2, LastSeenTyped
       DEF Inv, TrackedAreMinted, TrackedIsReapable, Tracked, history
  <1>. QED
    BY <1>4, <1>7, <1>8 DEF Core

LEMMA ReapKeepsCore ==
    ASSUME Inv, Reap \/ (\E s \in Sessions : FallSilent(s)) \/ UNCHANGED vars PROVE Core'
  <1>1. UNCHANGED <<minted, req, issued, stateless, shown, shaken, overlapped>>
    BY DEF Reap, FallSilent, vars, history
  <1>2. /\ active' \in [Sessions -> Context \cup {NoCtx}] /\ reaped' \subseteq minted
        /\ TrackedAreMinted' /\ TrackedIsReapable'
    <2>1. CASE Reap
      <3>1. /\ active' = [s \in Sessions |-> IF s \in Ledger!Zombies THEN NoCtx ELSE active[s]]
            /\ lastSeen' = [s \in Sessions |-> IF s \in Ledger!Zombies THEN "none"
                                                ELSE lastSeen[s]]
            /\ reaped' = reaped \cup {s \in Ledger!Zombies : Tracked(s)}
        BY <2>1 DEF Reap, Ledger!Reap
      <3>2. Ledger!Zombies \subseteq Sessions
        BY DEF Ledger!Zombies
      <3>. HIDE DEF Ledger!Zombies
      <3>3. \A s \in Sessions : Tracked(s)' => Tracked(s) /\ s \notin Ledger!Zombies
        BY <3>1 DEF Tracked
      <3>. QED
        BY <1>1, <3>1, <3>2, <3>3 DEF Inv, Types, TrackedAreMinted, TrackedIsReapable
    <2>2. CASE \E s \in Sessions : FallSilent(s)
      <3>1. PICK s \in Sessions : lastSeen' = [lastSeen EXCEPT ![s] = "silent"]
        BY <2>2 DEF FallSilent, Ledger!FallSilent
      <3>2. active' = active /\ reaped' = reaped
        BY <2>2 DEF FallSilent, history
      <3>. QED
        BY <1>1, <3>1, <3>2, LastSeenTyped
           DEF Inv, Types, TrackedAreMinted, TrackedIsReapable, Tracked
    <2>3. CASE UNCHANGED vars
      BY <2>3 DEF vars, history, ledgerVars, Inv, Types, TrackedAreMinted, TrackedIsReapable, Tracked
    <2>. QED
      BY <2>1, <2>2, <2>3
  <1>3. Types'
    BY <1>1, <1>2 DEF Inv, Types
  <1>4. Provenance'
    BY <1>1 DEF Inv, Provenance, InFlight, Initializing, Borrowed, OneShot
  <1>. QED
    BY <1>2, <1>3, <1>4 DEF Core

LEMMA ArrivalKeepsCore ==
    ASSUME Inv, NEW r \in Requests, Arrive(r) PROVE Core'
  <1>1. /\ ~InFlight(r) /\ UNCHANGED <<active, ledgerVars>>
        /\ minted \subseteq minted'
        /\ \A x \in minted : x \in stateless' => x \in stateless
    BY DEF Arrive, ArriveInitialize, ArriveStateless, ArriveOnSession, Accept
  <1>2. Types' /\ Provenance'
    BY <1>1, ArrivalKeepsProvenance
  <1>3. TrackedAreMinted' /\ TrackedIsReapable'
    BY <1>1 DEF Inv, TrackedAreMinted, TrackedIsReapable, Tracked, ledgerVars
  <1>. QED
    BY <1>2, <1>3 DEF Core

LEMMA InvStep == Inv /\ [Next]_vars => Inv'
  <1>. SUFFICES ASSUME Inv, [Next]_vars PROVE Inv'
    OBVIOUS
  <1>1. LedgerInv'
    <2>1. [Ledger!Next]_(Ledger!ledgerVars) /\ LedgerInv
      BY StepsOfLedger DEF Inv
    <2>. QED
      BY <2>1, LedgerInvStep
  <1>2. Core'
    <2>1. ASSUME NEW r \in Requests, Arrive(r) \/ Proceed(r) \/ Upstream(r) PROVE Core'
      BY <2>1, ArrivalKeepsCore, OpenKeepsCore, AdmitKeepsCore, AnswerKeepsCore,
         RejectionKeepsCore, RespondKeepsCore, CloseKeepsCore DEF Proceed, Upstream
    <2>. QED
      BY <2>1, ReapKeepsCore DEF Next
  <1>. QED
    BY <1>1, <1>2 DEF Inv, Core

LEMMA InvInit == Init => Inv
  <1>. SUFFICES ASSUME Init PROVE Inv
    OBVIOUS
  <1>1. Ledger!Init
    BY DEF Init
  <1>2. LedgerInv
    BY <1>1, LedgerInvInit
  <1>3. Idle \in Request
    BY LimitsAssumption DEF Idle, Request, FreshContext, Context, Methods
  <1>. QED
    BY <1>2, <1>3 DEF Init, Inv, Types, Provenance, TrackedAreMinted, TrackedIsReapable,
       InFlight, Initializing, Borrowed, OneShot, Tracked, Idle

LEMMA Invariant == SafetySpec => []Inv
  BY InvInit, InvStep, PTL DEF SafetySpec

(* The middleware's tables and every coroutine's copy of a context have     *)
(* their types, whatever the interleaving (_handle_http).                   *)
THEOREM TypeCorrect == SafetySpec => []TypeOK
  <1>1. Inv => TypeOK
    <2>1. Inv => Ledger!TypeOK
      BY DEF Inv, LedgerInv, Ledger!TypeOK
    <2>. QED
      BY <2>1 DEF Inv, Types, TypeOK
  <1>. QED
    BY <1>1, Invariant, PTL

(* max_calls_per_session bounds the content requests of a session over any  *)
(* number of overlapping requests, evictions and rebuilt contexts.          *)
THEOREM CallBudgetHolds == SafetySpec => []CallBudget
  <1>1. Inv => CallBudget
    <2>. SUFFICES ASSUME Inv, NEW s \in Sessions \ dropped
                  PROVE  admitted[s] <= MaxCalls
      BY DEF CallBudget, Ledger!BudgetCap
    <2>1. used[s] \in 0..MaxCalls /\ admitted[s] \in Nat
      BY DEF Inv, LedgerInv, Ledger!TypeOK
    <2>2. Counted(s)
      BY DEF Inv, LedgerInv
    <2>. QED
      BY <2>1, <2>2, LimitsAssumption DEF Counted
  <1>. QED
    BY <1>1, Invariant, PTL

(* No write-back leaves a context in _active_sessions that the reaper will  *)
(* never look at.                                                           *)
THEOREM TrackedAreReapable == SafetySpec => []TrackedIsReapable
  <1>1. Inv => TrackedIsReapable
    BY DEF Inv
  <1>. QED
    BY <1>1, Invariant, PTL
-----------------------------------------------------------------------------
(* The handshake gate.                                                      *)

(* A coroutine whose slot, session and handshake a step leaves alone.       *)
LEMMA OthersKeepPhase ==
    ASSUME GateInv, NEW q \in Requests, req'[q] = req[q],
           shaken \subseteq shaken',
           InFlight(q) => (req[q].session \in issued' <=> req[q].session \in issued),
           InFlight(q) /\ Tracked(req[q].session)' /\ req[q].session \in issued
              => Tracked(req[q].session)
    PROVE  CopiedPhase(q)'
  <1>1. CopiedPhase(q)
    BY DEF GateInv
  <1>2. /\ InFlight(q)' <=> InFlight(q)
        /\ Initializing(q)' <=> Initializing(q)
        /\ Borrowed(q)' <=> Borrowed(q)
    BY DEF InFlight, Initializing, Borrowed
  <1>3. Borrowed(q) => InFlight(q) /\ req[q].session \in issued
    BY DEF Borrowed, InFlight
  <1>. QED
    BY <1>1, <1>2, <1>3 DEF CopiedPhase

(* T10 charges only what the gate let through.                              *)
LEMMA ChargesPassTheGate ==
    ASSUME Inv, NEW r \in Requests, InFlight(r), Account(r)
    PROVE  \A s \in Sessions :
              admitted'[s] > 0 =>
                 admitted[s] > 0 \/ (s = req[r].session /\ req[r].method = "tools/call")
  <1>1. admitted \in [Sessions -> Nat] /\ req[r].session \in Sessions
    BY InFlightLegal DEF Inv, LedgerInv, Ledger!TypeOK
  <1>2. CASE req[r].method \in CONTENT_BEARING_METHODS
    <2>1. Ledger!Charge(req[r].session, req[r].ctx.calls)
      BY <1>2 DEF Account
    <2>. QED
      BY <1>1, <1>2, <2>1 DEF Ledger!Charge, CONTENT_BEARING_METHODS
  <1>3. CASE req[r].method \notin CONTENT_BEARING_METHODS
    BY <1>1, <1>3 DEF Account, Ledger!Seen
  <1>. QED
    BY <1>2, <1>3

LEMMA PassingMeansShaken ==
    ASSUME HandshakeEnforced, Inv, GateInv, NEW r \in Requests, req[r].pc = "request",
           GatePasses(req[r].ctx, req[r].method),
           req[r].method \in {"tools/list", "tools/call"}
    PROVE  req[r].session \in shaken \cup stateless
  <1>1. req[r].ctx.phase = "active"
    BY DEF GatePasses, HANDSHAKE_ALLOWED_METHODS
  <1>2. Borrowed(r) \/ OneShot(r)
    BY DEF Inv, Provenance, InFlight, Initializing
  <1>. QED
    BY <1>1, <1>2 DEF GateInv, CopiedPhase, OneShot

LEMMA ArrivalKeepsGate ==
    ASSUME HandshakeEnforced, Inv, GateInv, NEW r \in Requests, Arrive(r)
    PROVE  GateInv'
  <1>1. /\ ~InFlight(r)
        /\ UNCHANGED <<active, ledgerVars, issued, shown, shaken, reaped>>
        /\ stateless \subseteq stateless'
        /\ \A q \in Requests \ {r} : req'[q] = req[q]
    BY DEF Arrive, ArriveInitialize, ArriveStateless, ArriveOnSession, Accept, Inv, Types
  <1>2. ContentNeedsHandshake' /\ TrackedPhase'
    BY <1>1 DEF GateInv, ContentNeedsHandshake, TrackedPhase, Tracked, ledgerVars
  <1>3. ASSUME NEW q \in Requests \ {r} PROVE CopiedPhase(q)'
    BY <1>1, OthersKeepPhase DEF Tracked
  <1>4. CopiedPhase(r)'
    <2>1. PICK s \in Sessions :
             \/ ArriveInitialize(r, s)
             \/ \E method \in ClientMethods : ArriveStateless(r, s, method)
             \/ \E method \in ClientMethods : ArriveOnSession(r, s, method)
      BY DEF Arrive
    <2>2. CASE ArriveInitialize(r, s) \/ \E method \in ClientMethods : ArriveStateless(r, s, method)
      <3>1. req'[r].pc = "open" /\ req'[r].manifest = NoManifest
        BY <2>2 DEF ArriveInitialize, ArriveStateless, Accept, Inv, Types
      <3>. QED
        BY <3>1 DEF CopiedPhase, Borrowed
    <2>3. CASE \E method \in ClientMethods : ArriveOnSession(r, s, method)
      <3>1. /\ req'[r].pc = "request" /\ req'[r].manifest = NoManifest
            /\ req'[r].session = s /\ req'[r].ctx = LoadedContext(s) /\ s \in issued
        BY <2>3 DEF ArriveOnSession, Accept, Inv, Types
      <3>2. LoadedContext(s).phase = "active" => s \in shaken
        BY <3>1 DEF LoadedContext, UnknownContext, FreshContext, GateInv, TrackedPhase
      <3>. QED
        BY <1>1, <3>1, <3>2 DEF CopiedPhase
    <2>. QED
      BY <2>1, <2>2, <2>3
  <1>. QED
    BY <1>2, <1>3, <1>4 DEF GateInv

LEMMA OpenKeepsGate ==
    ASSUME HandshakeEnforced, Inv, GateInv, NEW r \in Requests, Open(r)
    PROVE  GateInv'
  <1>. DEFINE s == req[r].session
              ctx == [req[r].ctx EXCEPT !.calls = Ledger!Restored(s, @)]
  <1>1. /\ req[r].pc = "open" /\ Await(r, "request", ctx, NoManifest)
        /\ active' = IF s \in stateless THEN active ELSE [active EXCEPT ![s] = ctx]
        /\ admitted' = admitted
        /\ UNCHANGED <<minted, history>>
    BY DEF Open, Ledger!SessionStart
  <1>2. InFlight(r) /\ s \in Sessions
    BY <1>1, InFlightLegal DEF InFlight
  <1>3. s \notin issued
    <2>1. Initializing(r) \/ OneShot(r)
      BY <1>1, <1>2 DEF Inv, Provenance, Borrowed
    <2>2. \A x \in stateless : x \notin issued
      BY DEF Inv, Types
    <2>. QED
      BY <2>1, <2>2 DEF Initializing, OneShot
  <1>4. \A x \in issued : active'[x] = active[x]
    BY <1>1, <1>3 DEF Inv, Types
  <1>5. /\ \A q \in Requests \ {r} : req'[q] = req[q]
        /\ req'[r].pc = "request" /\ req'[r].session = s /\ req'[r].manifest = NoManifest
    BY <1>1 DEF Await, Inv, Types
  <1>. HIDE DEF s, ctx
  <1>6. ContentNeedsHandshake' /\ TrackedPhase'
    BY <1>1, <1>4 DEF GateInv, ContentNeedsHandshake, TrackedPhase, Tracked, history
  <1>7. ASSUME NEW q \in Requests \ {r} PROVE CopiedPhase(q)'
    BY <1>1, <1>4, <1>5, OthersKeepPhase DEF Tracked, history
  <1>8. CopiedPhase(r)'
    BY <1>1, <1>3, <1>5 DEF CopiedPhase, Borrowed, history
  <1>. QED
    BY <1>6, <1>7, <1>8 DEF GateInv

LEMMA AdmitKeepsGate ==
    ASSUME HandshakeEnforced, Inv, GateInv, NEW r \in Requests, Admit(r)
    PROVE  GateInv'
  <1>. DEFINE s == req[r].session
              ctx == [Handshake(req[r].ctx, req[r].method) EXCEPT !.calls = Accounted(r)]
  <1>1. /\ req[r].pc = "request" /\ GatePasses(req[r].ctx, req[r].method)
        /\ Account(r) /\ Persist(s, ctx)
        /\ Await(r, "upstream", ctx, NoManifest) /\ Shaken(r)
        /\ UNCHANGED <<minted, issued, stateless, shown, overlapped, reaped>>
    BY DEF Admit
  <1>2. /\ InFlight(r) /\ s \in Sessions /\ req[r].ctx \in Context /\ req[r].method \in Methods
        /\ \A x \in stateless : x \notin issued
    BY <1>1, InFlightLegal DEF InFlight, Inv, Types, Request
  <1>3. ctx.phase = IF req[r].method = "initialize" THEN "pending"
                    ELSE IF req[r].method = "notifications/initialized" THEN "active"
                    ELSE req[r].ctx.phase
    BY <1>2 DEF Handshake, Context
  <1>4. /\ \A q \in Requests \ {r} : req'[q] = req[q]
        /\ req'[r].pc = "upstream" /\ req'[r].ctx = ctx /\ req'[r].manifest = NoManifest
        /\ req'[r].session = s /\ req'[r].method = req[r].method
    BY <1>1 DEF Await, Inv, Types
  <1>5. /\ shaken \subseteq shaken'
        /\ req[r].method = "notifications/initialized" /\ Tracked(s) => s \in shaken'
    BY <1>1 DEF Shaken
  <1>6. /\ \A x \in Sessions : Tracked(x)' => Tracked(x)
        /\ \A x \in Sessions \ {s} : active'[x] = active[x]
        /\ active'[s] = active[s] \/ active'[s] = ctx
    BY <1>1, <1>2 DEF Persist, Tracked, Inv, Types
  <1>. HIDE DEF s, ctx
  <1>7. ContentNeedsHandshake'
    <2>1. \A x \in Sessions : admitted'[x] > 0 =>
             admitted[x] > 0 \/ (x = s /\ req[r].method = "tools/call")
      BY <1>1, <1>2, ChargesPassTheGate DEF s
    <2>2. req[r].method = "tools/call" => s \in shaken \cup stateless
      BY <1>1, PassingMeansShaken DEF s
    <2>. QED
      BY <1>1, <1>5, <2>1, <2>2 DEF GateInv, ContentNeedsHandshake
  <1>8. s \in issued /\ Tracked(s) /\ req[r].method # "initialize" /\ ctx.phase = "active"
           => s \in shaken'
    <2>1. s \in issued /\ req[r].method # "initialize" => Borrowed(r)
      BY <1>1 DEF Borrowed, s
    <2>2. CASE req[r].method # "notifications/initialized"
      BY <1>1, <1>3, <1>5, <2>1, <2>2 DEF GateInv, CopiedPhase, s
    <2>. QED
      BY <1>5, <2>2
  <1>9. TrackedPhase'
    <2>. SUFFICES ASSUME NEW x \in issued, Tracked(x)', active'[x].phase = "active"
                  PROVE  x \in shaken'
      BY <1>1 DEF TrackedPhase
    <2>1. x \in Sessions /\ Tracked(x)
      BY <1>6 DEF Inv, Types
    <2>2. CASE active'[x] = active[x]
      BY <1>5, <2>1, <2>2 DEF GateInv, TrackedPhase
    <2>3. CASE x = s /\ active'[x] = ctx
      <3>1. req[r].method = "initialize" => ctx.phase = "pending"
        BY <1>3
      <3>. QED
        BY <1>8, <2>1, <2>3, <3>1
    <2>. QED
      BY <1>6, <2>1, <2>2, <2>3
  <1>10. ASSUME NEW q \in Requests \ {r} PROVE CopiedPhase(q)'
    <2>1. InFlight(q) => req[q].session \in Sessions
      BY InFlightLegal
    <2>. QED
      BY <1>1, <1>4, <1>5, <1>6, <2>1, OthersKeepPhase
  <1>11. CopiedPhase(r)'
    <2>1. Initializing(r)' => ctx.phase = "pending"
      BY <1>3, <1>4 DEF Initializing
    <2>2. Borrowed(r)' => s \in issued /\ s \notin stateless /\ req[r].method # "initialize"
      BY <1>1, <1>2, <1>4 DEF Borrowed
    <2>3. req[r].method \in {"tools/list", "tools/call"} => s \in shaken \cup stateless
      BY <1>1, PassingMeansShaken DEF s
    <2>4. active'[s] # NoCtx => Tracked(s)
      BY <1>2, <1>6 DEF Tracked
    <2>. QED
      BY <1>4, <1>5, <1>8, <2>1, <2>2, <2>3, <2>4 DEF CopiedPhase, Tracked
  <1>. QED
    BY <1>7, <1>9, <1>10, <1>11 DEF GateInv

LEMMA AnswerKeepsGate ==
    ASSUME HandshakeEnforced, Inv, GateInv, NEW r \in Requests,
           Answer(r) \/ \E m \in Manifests : AnswerTools(r, m)
    PROVE  GateInv'
  <1>1. /\ req[r].pc = "upstream"
        /\ UNCHANGED <<active, minted, ledgerVars, history>>
    BY DEF Answer, AnswerTools
  <1>2. InFlight(r) /\ req[r].ctx \in Context
    BY <1>1, InFlightLegal DEF InFlight
  <1>3. PICK ctx, m :
           /\ Await(r, "respond", ctx, m) /\ ctx.phase = req[r].ctx.phase
           /\ m # NoManifest => req[r].method = "tools/list"
    <2>1. CASE Answer(r)
      BY <2>1 DEF Answer
    <2>2. CASE \E m \in Manifests : AnswerTools(r, m)
      <3>1. \A m \in Manifests : Baseline(req[r].ctx, m).phase = req[r].ctx.phase
        BY <1>2 DEF Baseline, Context
      <3>. QED
        BY <2>2, <3>1 DEF AnswerTools
    <2>. QED
      BY <2>1, <2>2
  <1>4. /\ \A q \in Requests \ {r} : req'[q] = req[q]
        /\ req'[r].pc = "respond" /\ req'[r].ctx = ctx /\ req'[r].manifest = m
        /\ req'[r].session = req[r].session /\ req'[r].method = req[r].method
    BY <1>3 DEF Await, Inv, Types
  <1>5. ContentNeedsHandshake' /\ TrackedPhase'
    BY <1>1 DEF GateInv, ContentNeedsHandshake, TrackedPhase, Tracked, ledgerVars, history
  <1>6. ASSUME NEW q \in Requests \ {r} PROVE CopiedPhase(q)'
    BY <1>1, <1>4, OthersKeepPhase DEF Tracked, history
  <1>7. CopiedPhase(r)'
    <2>1. Initializing(r)' <=> Initializing(r)
      BY <1>1, <1>2, <1>4 DEF Initializing, InFlight, history
    <2>2. Borrowed(r)' <=> Borrowed(r)
      BY <1>1, <1>4 DEF Borrowed, history
    <2>3. Tracked(req[r].session)' <=> Tracked(req[r].session)
      BY <1>1, <1>4 DEF Tracked
    <2>. QED
      BY <1>1, <1>3, <1>4, <2>1, <2>2, <2>3 DEF GateInv, CopiedPhase, history
  <1>. QED
    BY <1>5, <1>6, <1>7 DEF GateInv

(* What an ended coroutine's slot says of the gate: nothing.                *)
LEMMA ReturnedSlot ==
    ASSUME Inv, NEW r \in Requests, InFlight(r), Return(r)
    PROVE  CopiedPhase(r)' /\ \A q \in Requests \ {r} : req'[q] = req[q]
  <1>1. req'[r].pc \in {"idle", "close"} /\ req'[r].manifest = NoManifest
    BY Returned
  <1>. QED
    BY <1>1, Returned DEF CopiedPhase, Borrowed, Inv, Types

LEMMA RejectionKeepsGate ==
    ASSUME HandshakeEnforced, Inv, GateInv, NEW r \in Requests,
           RejectEarly(r) \/ RejectOverLimit(r) \/ RejectLate(r) \/ RejectResponse(r)
    PROVE  GateInv'
  <1>1. InFlight(r) /\ Return(r) /\ UNCHANGED <<active, minted, history>>
    BY DEF RejectEarly, RejectOverLimit, RejectLate, RejectResponse, InFlight
  <1>2. \A s \in Sessions : admitted'[s] > 0 => admitted[s] > 0 \/ s \in shaken \cup stateless
    <2>1. CASE RejectEarly(r) \/ RejectResponse(r)
      BY <2>1 DEF RejectEarly, RejectResponse, ledgerVars
    <2>2. CASE RejectOverLimit(r)
      BY <2>2 DEF RejectOverLimit, Ledger!Refuse
    <2>3. CASE RejectLate(r)
      <3>1. req[r].method = "tools/call" => req[r].session \in shaken \cup stateless
        BY <2>3, PassingMeansShaken DEF RejectLate
      <3>. QED
        BY <1>1, <2>3, <3>1, ChargesPassTheGate DEF RejectLate
    <2>. QED
      BY <2>1, <2>2, <2>3
  <1>3. ContentNeedsHandshake' /\ TrackedPhase'
    BY <1>1, <1>2 DEF GateInv, ContentNeedsHandshake, TrackedPhase, Tracked, history
  <1>4. ASSUME NEW q \in Requests \ {r} PROVE CopiedPhase(q)'
    BY <1>1, ReturnedSlot, OthersKeepPhase DEF Tracked, history
  <1>. QED
    BY <1>1, <1>3, <1>4, ReturnedSlot DEF GateInv

LEMMA RespondKeepsGate ==
    ASSUME HandshakeEnforced, Inv, GateInv, NEW r \in Requests, Respond(r)
    PROVE  GateInv'
  <1>. DEFINE s == req[r].session
  <1>1. /\ req[r].pc = "respond" /\ Persist(s, req[r].ctx) /\ Return(r)
        /\ issued' = IF req[r].method = "initialize" THEN issued \cup {s} ELSE issued
        /\ shown' = [shown EXCEPT ![s] = @ \cup ({req[r].manifest} \ {NoManifest})]
        /\ UNCHANGED <<minted, ledgerVars, stateless, shaken, overlapped, reaped>>
    BY DEF Respond
  <1>2. InFlight(r) /\ s \in Sessions /\ CopiedPhase(r)
    BY <1>1, InFlightLegal DEF InFlight, GateInv
  <1>3. \/ Initializing(r) /\ req[r].method = "initialize" /\ s \notin stateless
        \/ Borrowed(r) /\ req[r].method # "initialize"
        \/ OneShot(r) /\ s \in stateless /\ req[r].method # "initialize"
    BY <1>2 DEF Inv, Provenance, Initializing, Borrowed, OneShot
  <1>4. /\ \A x \in Sessions : active'[x] # NoCtx => Tracked(x)
        /\ \A x \in Sessions \ {s} : active'[x] = active[x]
        /\ active'[s] = active[s] \/ active'[s] = req[r].ctx
        /\ Tracked(s) => active'[s] = req[r].ctx
    BY <1>1, <1>2 DEF Persist, Tracked, Inv, Types
  <1>5. ContentNeedsHandshake'
    <2>1. req[r].manifest # NoManifest => s \in shaken \cup stateless
      BY <1>1, <1>2, <1>3 DEF CopiedPhase, Initializing
    <2>2. \A x \in Sessions : shown'[x] # {} =>
             shown[x] # {} \/ (x = s /\ req[r].manifest # NoManifest)
      BY <1>1, <1>2 DEF Inv, Types
    <2>. HIDE DEF s
    <2>. QED
      BY <1>1, <2>1, <2>2 DEF GateInv, ContentNeedsHandshake, ledgerVars
  <1>6. TrackedPhase'
    <2>. SUFFICES ASSUME NEW x \in issued', active'[x] # NoCtx, active'[x].phase = "active"
                  PROVE  x \in shaken'
      BY DEF TrackedPhase, Tracked
    <2>1. x \in Sessions /\ Tracked(x)
      BY <1>1, <1>2, <1>4 DEF Inv, Types
    <2>2. CASE x # s
      BY <1>1, <1>4, <2>1, <2>2 DEF GateInv, TrackedPhase
    <2>3. CASE x = s
      <3>1. active'[x] = req[r].ctx /\ Tracked(s)
        BY <1>4, <2>1, <2>3
      <3>2. s \notin stateless
        BY <2>1, <2>3 DEF Inv, TrackedAreMinted
      <3>. QED
        BY <1>1, <1>2, <1>3, <2>3, <3>1, <3>2 DEF CopiedPhase
    <2>. QED
      BY <2>2, <2>3
  <1>7. ASSUME NEW q \in Requests \ {r} PROVE CopiedPhase(q)'
    <2>1. InFlight(q) /\ req[q].session \notin issued => req[q].session \notin issued'
      <3>. SUFFICES ASSUME InFlight(q), req[q].session \notin issued, req[r].method = "initialize",
                           req[q].session = s
                    PROVE  FALSE
        BY <1>1
      <3>1. Initializing(r) /\ s \notin stateless
        BY <1>3
      <3>2. Initializing(q)
        BY <3>1 DEF Inv, Provenance, Borrowed, OneShot
      <3>. QED
        BY <3>1, <3>2 DEF Inv, Provenance
    <2>2. InFlight(q) => req[q].session \in Sessions
      BY InFlightLegal
    <2>3. req'[q] = req[q]
      BY <1>1, <1>2, ReturnedSlot
    <2>4. issued \subseteq issued' /\ shaken \subseteq shaken'
      BY <1>1
    <2>5. InFlight(q) /\ Tracked(req[q].session)' => Tracked(req[q].session)
      BY <1>4, <2>2, <2>3 DEF Tracked
    <2>. QED
      BY <2>1, <2>3, <2>4, <2>5, OthersKeepPhase
  <1>. QED
    BY <1>1, <1>2, <1>5, <1>6, <1>7, ReturnedSlot DEF GateInv

LEMMA CloseKeepsGate ==
    ASSUME HandshakeEnforced, Inv, GateInv, NEW r \in Requests, Close(r)
    PROVE  GateInv'
  <1>1. /\ req[r].pc = "close" /\ req' = [req EXCEPT ![r] = Idle]
        /\ admitted' = [admitted EXCEPT ![req[r].session] = 0]
        /\ UNCHANGED <<active, minted, history>>
    BY DEF Close, Ledger!SessionEnd
  <1>2. admitted \in [Sessions -> Nat]
    BY DEF Inv, LedgerInv, Ledger!TypeOK
  <1>3. ContentNeedsHandshake' /\ TrackedPhase'
    BY <1>1, <1>2 DEF GateInv, ContentNeedsHandshake, TrackedPhase, Tracked, history
  <1>4. /\ \A q \in Requests \ {r} : req'[q] = req[q]
        /\ req'[r].pc = "idle" /\ req'[r].manifest = NoManifest
    BY <1>1 DEF Inv, Types, Idle
  <1>5. CopiedPhase(r)'
    BY <1>4 DEF CopiedPhase, Borrowed
  <1>6. ASSUME NEW q \in Requests \ {r} PROVE CopiedPhase(q)'
    BY <1>1, <1>4, OthersKeepPhase DEF Tracked, history
  <1>. QED
    BY <1>3, <1>5, <1>6 DEF GateInv

LEMMA ReapKeepsGate ==
    ASSUME HandshakeEnforced, Inv, GateInv,
           Reap \/ (\E s \in Sessions : FallSilent(s)) \/ UNCHANGED vars
    PROVE  GateInv'
  <1>1. UNCHANGED <<minted, req, issued, stateless, shown, shaken, admitted>>
    BY DEF Reap, Ledger!Reap, FallSilent, Ledger!FallSilent, vars, history, ledgerVars
  <1>2. \A s \in Sessions : active'[s] # NoCtx => active'[s] = active[s]
    BY DEF Reap, FallSilent, vars, Inv, Types
  <1>3. ContentNeedsHandshake'
    BY <1>1 DEF GateInv, ContentNeedsHandshake
  <1>4. TrackedPhase'
    BY <1>1, <1>2 DEF GateInv, TrackedPhase, Tracked, Inv, Types
  <1>5. ASSUME NEW q \in Requests PROVE CopiedPhase(q)'
    <2>1. InFlight(q) => req[q].session \in Sessions
      BY InFlightLegal
    <2>2. InFlight(q) /\ Tracked(req[q].session)' => Tracked(req[q].session)
      BY <1>1, <1>2, <2>1 DEF Tracked
    <2>. QED
      BY <1>1, <2>2, OthersKeepPhase
  <1>. QED
    BY <1>3, <1>4, <1>5 DEF GateInv

LEMMA GateStep ==
    ASSUME HandshakeEnforced, Inv, GateInv, [Next]_vars
    PROVE  GateInv'
  <1>1. ASSUME NEW r \in Requests, Arrive(r) \/ Proceed(r) \/ Upstream(r) PROVE GateInv'
    BY <1>1, ArrivalKeepsGate, OpenKeepsGate, AdmitKeepsGate, AnswerKeepsGate,
       RejectionKeepsGate, RespondKeepsGate, CloseKeepsGate DEF Proceed, Upstream
  <1>. QED
    BY <1>1, ReapKeepsGate DEF Next

(* MCP 3.2, SessionEngine.on_request: with the gate on, no call is charged  *)
(* and no tool list sent on a session that has not completed its handshake  *)
(* with this worker.                                                        *)
THEOREM HandshakeGateHolds == SafetySpec => []HandshakeGate
  <1>. DEFINE Gated == HandshakeEnforced => GateInv
  <1>1. Init => Gated
    <2>. SUFFICES ASSUME Init PROVE GateInv
      OBVIOUS
    <2>. QED
      BY DEF Init, Ledger!Init, GateInv, ContentNeedsHandshake, TrackedPhase, CopiedPhase,
             Initializing, Borrowed, InFlight, Idle
  <1>2. Inv /\ Gated /\ [Next]_vars => Gated'
    BY GateStep
  <1>3. Gated => HandshakeGate
    BY DEF GateInv, ContentNeedsHandshake, HandshakeGate
  <1>. HIDE DEF Gated
  <1>. QED
    BY <1>1, <1>2, <1>3, Invariant, PTL DEF SafetySpec
-----------------------------------------------------------------------------
(* The middleware as a client of the ledger.                                *)

(* Whatever the coroutines interleave, T10's tables behave as the ledger's  *)
(* specification says: the middleware calls its hooks and nothing else      *)
(* writes them (_run_request, open_session, close_session, the reaper).     *)
THEOREM MiddlewareImplementsLedger == SafetySpec => Ledger!Spec
  <1>1. Init => Ledger!Init
    BY DEF Init
  <1>. QED
    BY <1>1, Invariant, StepsOfLedger, PTL DEF SafetySpec, Ledger!Spec

(* So no request of the middleware is refunded a call, a context rebuilt    *)
(* after an eviction included (resources.py, _restore_budget).              *)
THEOREM NoRefundsThroughMiddleware == SafetySpec => Ledger!NoRefunds
  BY MiddlewareImplementsLedger, NoRefundsEver, PTL
-----------------------------------------------------------------------------
(* What a stateless request leaves behind.                                  *)

LeftNothing(s) ==
    (\A r \in Requests : InFlight(r) => req[r].session # s) =>
        lastSeen[s] = "none" /\ ~Ledger!HasEntry(s)
AllLeftNothing == \A s \in stateless : LeftNothing(s)

Hooked(s, n) ==
    \/ Ledger!SessionStart(s, n) \/ Ledger!Charge(s, n) \/ Ledger!Seen(s)
    \/ Ledger!Refuse(s) \/ Ledger!SessionEnd(s)

(* A hook run for one session makes no entry for another.                   *)
LEMMA HookFrame ==
    ASSUME Inv, NEW s \in Sessions, NEW n \in 0..MaxCalls, Hooked(s, n),
           NEW x \in Sessions, x # s
    PROVE  lastSeen'[x] = lastSeen[x] /\ (Ledger!HasEntry(x)' => Ledger!HasEntry(x))
  <1>0. Ledger!TypeOK
    BY DEF Inv, LedgerInv
  <1>1. lastSeen'[x] = lastSeen[x]
    BY LastSeenTyped DEF Hooked, Ledger!SessionStart, Ledger!Charge, Ledger!Seen,
                         Ledger!Refuse, Ledger!SessionEnd
  <1>2. CASE Ledger!SessionStart(s, n) \/ Ledger!Charge(s, n)
    <2>1. PICK k \in 0..MaxCalls : Ledger!Save(s, k)
      BY <1>2, CountsLegal DEF Ledger!SessionStart, Ledger!Charge
    <2>. QED
      BY <1>0, <1>1, <2>1, Saved
  <1>3. CASE order' = order
    BY <1>1, <1>3 DEF Ledger!HasEntry
  <1>4. CASE order' = Ledger!MoveToEnd(s) \/ order' = Ledger!Without(s)
    <2>1. Ledger!HasEntry(x)' <=> Occurs(x, order')
      BY DEF Ledger!HasEntry, Occurs
    <2>2. Occurs(x, order') => Ledger!HasEntry(x)
      BY <1>0, <1>4, MovedToEnd, WithoutSession
    <2>. QED
      BY <1>1, <2>1, <2>2
  <1>. QED
    BY <1>2, <1>3, <1>4 DEF Hooked, Ledger!Seen, Ledger!Refuse, Ledger!SessionEnd

(* A session none of whose coroutines a step starts or ends.                *)
LEMMA StillLeftNothing ==
    ASSUME NEW s \in Sessions, LeftNothing(s), lastSeen[s] = "none" => lastSeen'[s] = "none",
           Ledger!HasEntry(s)' => Ledger!HasEntry(s),
           \A q \in Requests : InFlight(q) /\ req[q].session = s =>
              InFlight(q)' /\ req'[q].session = s
    PROVE  LeftNothing(s)'
  <1>1. CASE \A q \in Requests : InFlight(q) => req[q].session # s
    BY <1>1 DEF LeftNothing
  <1>2. CASE \E q \in Requests : InFlight(q) /\ req[q].session = s
    BY <1>2 DEF LeftNothing
  <1>. QED
    BY <1>1, <1>2

(* The steps of a coroutine in flight, but for its last.                    *)
LEMMA GoingOnLeavesNothing ==
    ASSUME Inv, AllLeftNothing, NEW r \in Requests, InFlight(r), UNCHANGED stateless,
           UNCHANGED ledgerVars \/ \E n \in 0..MaxCalls : Hooked(req[r].session, n),
           \A q \in Requests \ {r} : req'[q] = req[q],
           req[r].session \in stateless => InFlight(r)' /\ req'[r].session = req[r].session
    PROVE  AllLeftNothing'
  <1>. SUFFICES ASSUME NEW s \in stateless PROVE LeftNothing(s)'
    BY DEF AllLeftNothing
  <1>1. s \in Sessions /\ req[r].session \in Sessions /\ LeftNothing(s)
    BY InFlightLegal DEF Inv, Types, AllLeftNothing
  <1>2. CASE s = req[r].session
    BY <1>2 DEF LeftNothing
  <1>3. CASE s # req[r].session
    <2>1. lastSeen'[s] = lastSeen[s] /\ (Ledger!HasEntry(s)' => Ledger!HasEntry(s))
      <3>1. CASE UNCHANGED ledgerVars
        BY <3>1 DEF ledgerVars, Ledger!HasEntry
      <3>2. CASE \E n \in 0..MaxCalls : Hooked(req[r].session, n)
        BY <1>1, <1>3, <3>2, HookFrame
      <3>. QED
        BY <3>1, <3>2
    <2>2. ASSUME NEW q \in Requests, InFlight(q), req[q].session = s
          PROVE  InFlight(q)' /\ req'[q].session = s
      BY <1>3, <2>2 DEF InFlight
    <2>. QED
      BY <1>1, <2>1, <2>2, StillLeftNothing
  <1>. QED
    BY <1>2, <1>3

LEMMA ArrivalLeavesNothing ==
    ASSUME Inv, AllLeftNothing, NEW r \in Requests, Arrive(r) PROVE AllLeftNothing'
  <1>1. PICK s \in Sessions :
           /\ ~InFlight(r) /\ UNCHANGED ledgerVars
           /\ \A q \in Requests \ {r} : req'[q] = req[q]
           /\ InFlight(r)' /\ req'[r].session = s
           /\ stateless' = stateless \/ stateless' = stateless \cup {s}
    BY DEF Arrive, ArriveInitialize, ArriveStateless, ArriveOnSession, Accept, InFlight,
           Inv, Types
  <1>. SUFFICES ASSUME NEW x \in stateless' PROVE LeftNothing(x)'
    BY DEF AllLeftNothing
  <1>2. CASE x = s
    BY <1>1, <1>2 DEF LeftNothing
  <1>3. CASE x # s
    <2>1. x \in Sessions /\ LeftNothing(x)
      BY <1>1, <1>3 DEF Inv, Types, AllLeftNothing
    <2>2. lastSeen' = lastSeen /\ (Ledger!HasEntry(x)' => Ledger!HasEntry(x))
      BY <1>1 DEF ledgerVars, Ledger!HasEntry
    <2>3. ASSUME NEW q \in Requests, InFlight(q) PROVE InFlight(q)' /\ req'[q] = req[q]
      BY <1>1, <2>3 DEF InFlight
    <2>. QED
      BY <2>1, <2>2, <2>3, StillLeftNothing
  <1>. QED
    BY <1>2, <1>3

LEMMA CloseLeavesNothing ==
    ASSUME Inv, AllLeftNothing, NEW r \in Requests, Close(r) PROVE AllLeftNothing'
  <1>1. PICK s \in Sessions :
           /\ InFlight(r) /\ s = req[r].session /\ Ledger!SessionEnd(s)
           /\ \A q \in Requests \ {r} : req'[q] = req[q]
           /\ stateless' = stateless
    BY InFlightLegal DEF Close, InFlight, history, Inv, Types
  <1>2. 0 \in 0..MaxCalls /\ Hooked(s, 0)
    BY <1>1, LimitsAssumption DEF Hooked
  <1>3. lastSeen'[s] = "none" /\ ~Ledger!HasEntry(s)'
    <2>1. lastSeen'[s] = "none" /\ order' = Ledger!Without(s)
      BY <1>1, LastSeenTyped DEF Ledger!SessionEnd
    <2>2. ~Occurs(s, order')
      BY <1>1, <2>1, WithoutSession DEF Inv, LedgerInv
    <2>. QED
      BY <2>1, <2>2 DEF Ledger!HasEntry, Occurs
  <1>. SUFFICES ASSUME NEW x \in stateless PROVE LeftNothing(x)'
    BY <1>1 DEF AllLeftNothing
  <1>4. CASE x = s
    BY <1>3, <1>4 DEF LeftNothing
  <1>5. CASE x # s
    <2>1. x \in Sessions /\ LeftNothing(x)
      BY DEF Inv, Types, AllLeftNothing
    <2>2. lastSeen'[x] = lastSeen[x] /\ (Ledger!HasEntry(x)' => Ledger!HasEntry(x))
      BY <1>1, <1>2, <1>5, <2>1, HookFrame
    <2>3. ASSUME NEW q \in Requests, InFlight(q), req[q].session = x
          PROVE  InFlight(q)' /\ req'[q].session = x
      BY <1>1, <1>5, <2>3 DEF InFlight
    <2>. QED
      BY <2>1, <2>2, <2>3, StillLeftNothing
  <1>. QED
    BY <1>4, <1>5

LEMMA TimeLeavesNothing ==
    ASSUME Inv, AllLeftNothing, Reap \/ (\E s \in Sessions : FallSilent(s)) \/ UNCHANGED vars
    PROVE  AllLeftNothing'
  <1>1. UNCHANGED <<req, stateless, order>>
    BY DEF Reap, Ledger!Reap, FallSilent, Ledger!FallSilent, vars, history, ledgerVars
  <1>2. \A x \in Sessions : lastSeen[x] = "none" => lastSeen'[x] = "none"
    BY LastSeenTyped DEF Reap, Ledger!Reap, FallSilent, Ledger!FallSilent, vars, ledgerVars
  <1>3. ASSUME NEW x \in stateless PROVE LeftNothing(x)'
    <2>1. x \in Sessions /\ LeftNothing(x) /\ (Ledger!HasEntry(x)' => Ledger!HasEntry(x))
      BY <1>1 DEF Inv, Types, AllLeftNothing, Ledger!HasEntry
    <2>. QED
      BY <1>1, <1>2, <2>1, StillLeftNothing DEF InFlight
  <1>. QED
    BY <1>1, <1>3 DEF AllLeftNothing

LEMMA LeftNothingStep == Inv /\ AllLeftNothing /\ [Next]_vars => AllLeftNothing'
  <1>. SUFFICES ASSUME Inv, AllLeftNothing, [Next]_vars PROVE AllLeftNothing'
    OBVIOUS
  <1>1. ASSUME NEW r \in Requests, Proceed(r) \/ Upstream(r), ~Close(r)
        PROVE  AllLeftNothing'
    <2>1. /\ InFlight(r) /\ UNCHANGED stateless
          /\ \/ UNCHANGED ledgerVars
             \/ Hooked(req[r].session, req[r].ctx.calls)
      BY <1>1 DEF Proceed, Upstream, Open, Admit, RejectEarly, RejectOverLimit, RejectLate,
                  Respond, RejectResponse, Answer, AnswerTools, Account, Hooked, InFlight,
                  history
    <2>2. req[r].ctx.calls \in 0..MaxCalls
      BY <2>1, InFlightLegal
    <2>3. \/ Return(r)
          \/ \E ctx, m : \E pc \in {"request", "upstream", "respond"} : Await(r, pc, ctx, m)
      BY <1>1 DEF Proceed, Upstream, Open, Admit, RejectEarly, RejectOverLimit, RejectLate,
                  Respond, RejectResponse, Answer, AnswerTools
    <2>4. /\ \A q \in Requests \ {r} : req'[q] = req[q]
          /\ req[r].session \in stateless => InFlight(r)' /\ req'[r].session = req[r].session
      <3>1. CASE Return(r)
        BY <2>1, <3>1, Returned DEF InFlight, Inv, Types
      <3>2. CASE ~Return(r)
        BY <2>3, <3>2 DEF Await, InFlight, Inv, Types
      <3>. QED
        BY <3>1, <3>2
    <2>. QED
      BY <2>1, <2>2, <2>4, GoingOnLeavesNothing
  <1>. QED
    BY <1>1, ArrivalLeavesNothing, CloseLeavesNothing, TimeLeavesNothing DEF Next

(* The finally clause of _handle_http closes what a stateless request has   *)
(* opened: neither table of T10 nor _active_sessions keeps its session.     *)
THEOREM StatelessRequestsLeaveNothing == SafetySpec => []StatelessLeavesNothing
  <1>1. Init => AllLeftNothing
    BY DEF Init, AllLeftNothing
  <1>2. Inv /\ AllLeftNothing => StatelessLeavesNothing
    <2>. SUFFICES ASSUME Inv, AllLeftNothing, NEW s \in stateless,
                         \A r \in Requests : req[r].session # s
                  PROVE  ~Tracked(s) /\ lastSeen[s] = "none" /\ ~Ledger!HasEntry(s)
      BY DEF StatelessLeavesNothing
    <2>1. ~Tracked(s)
      BY DEF Inv, Types, TrackedAreMinted
    <2>2. LeftNothing(s)
      BY DEF AllLeftNothing
    <2>. QED
      BY <2>1, <2>2 DEF LeftNothing
  <1>. QED
    BY <1>1, <1>2, Invariant, LeftNothingStep, PTL DEF SafetySpec
-----------------------------------------------------------------------------
(* One manifest for a client whose requests do not overlap.                 *)

Serial(s) == s \in Sessions \ (overlapped \cup reaped)
Under(r, s) == req[r].pc \in {"open", "request", "upstream", "respond"} /\ req[r].session = s

(* What the two copies of a session's context know of the manifest its      *)
(* client has been sent: an answer in flight was compared with the copy its *)
(* coroutine holds, and the next request will load the one that is stored.  *)
Alone(s) ==
    \A r, q \in Requests :
        InFlight(r) /\ InFlight(q) /\ req[r].session = s /\ req[q].session = s => r = q
StoredOnceOpen(s) ==
    /\ s \in issued => Tracked(s)
    /\ \A r \in Requests :
          Under(r, s) /\ req[r].pc # "open" /\ req[r].method = "initialize" => Tracked(s)
Remembered(s) ==
    /\ s \notin minted => shown[s] = {}
    /\ \A m, n \in shown[s] : m = n
    /\ \A m \in shown[s] : Tracked(s) => active[s].manifest = m
    /\ \A m \in shown[s], r \in Requests : Under(r, s) => req[r].ctx.manifest = m
SerialInv(s) == Alone(s) /\ StoredOnceOpen(s) /\ Remembered(s)
Compared(r) == req[r].manifest # NoManifest => req[r].ctx.manifest = req[r].manifest
DriftInv == /\ \A s \in Sessions : Serial(s) => SerialInv(s)
            /\ \A r \in Requests : Compared(r)

(* A session whose context a step leaves alone, and whose coroutines it     *)
(* leaves alone or ends.                                                    *)
LEMMA AsideStaysSerial ==
    ASSUME NEW s \in Sessions, SerialInv(s), active'[s] = active[s], shown'[s] = shown[s],
           s \in issued' => s \in issued, minted \subseteq minted',
           \A q \in Requests : InFlight(q)' /\ req'[q].session = s =>
              /\ InFlight(q) /\ req[q].session = s
              /\ req'[q] = req[q] \/ req'[q].pc = "close"
    PROVE  SerialInv(s)'
  <1>1. \A q \in Requests : Under(q, s)' => Under(q, s) /\ req'[q] = req[q]
    BY DEF Under, InFlight
  <1>2. Alone(s)'
    BY DEF SerialInv, Alone
  <1>3. StoredOnceOpen(s)' /\ Remembered(s)'
    BY <1>1 DEF SerialInv, StoredOnceOpen, Remembered, Tracked
  <1>. QED
    BY <1>2, <1>3 DEF SerialInv

(* A step of r that leaves every other session and coroutine aside.         *)
LEMMA OthersStaySerial ==
    ASSUME Inv, DriftInv, NEW r \in Requests, NEW s \in Sessions, NEW x \in Sessions, x # s,
           Serial(x), active'[x] = active[x], shown'[x] = shown[x],
           x \in issued' => x \in issued, minted \subseteq minted',
           \A q \in Requests \ {r} : req'[q] = req[q],
           InFlight(r)' => req'[r].session = s
    PROVE  SerialInv(x)'
  <1>1. SerialInv(x)
    BY DEF DriftInv
  <1>2. ASSUME NEW q \in Requests, InFlight(q)', req'[q].session = x
        PROVE  InFlight(q) /\ req[q].session = x /\ req'[q] = req[q]
    BY <1>2 DEF InFlight
  <1>. QED
    BY <1>1, <1>2, AsideStaysSerial

(* The arrival of a request, whatever brings it.                            *)
LEMMA AcceptKeepsDrift ==
    ASSUME Inv, DriftInv, NEW r \in Requests, ~InFlight(r), NEW s \in Sessions,
           NEW method, NEW ctx, NEW pc, Accept(r, s, method, ctx, pc),
           minted \subseteq minted',
           \/ s \notin minted /\ s \in minted' /\ pc = "open"
           \/ s \in issued /\ pc = "request" /\ ctx = LoadedContext(s) /\ method # "initialize"
    PROVE  DriftInv'
  <1>1. /\ \A q \in Requests \ {r} : req'[q] = req[q]
        /\ req'[r].pc = pc /\ req'[r].session = s /\ req'[r].ctx = ctx
        /\ req'[r].manifest = NoManifest /\ req'[r].method = method
        /\ overlapped' = IF \E q \in Requests : req[q].session = s
                         THEN overlapped \cup {s} ELSE overlapped
        /\ UNCHANGED <<active, issued, shown, reaped>>
    BY DEF Accept, Inv, Types
  <1>2. ASSUME NEW x \in Sessions, Serial(x)', x # s PROVE SerialInv(x)'
    <2>1. Serial(x)
      BY <1>1, <1>2 DEF Serial
    <2>. QED
      BY <1>1, <1>2, <2>1, OthersStaySerial
  <1>3. ASSUME Serial(s)' PROVE SerialInv(s)'
    <2>1. /\ Serial(s) /\ SerialInv(s)
          /\ \A q \in Requests : req[q].session # s
      BY <1>1, <1>3 DEF Serial, DriftInv
    <2>2. \A q \in Requests : InFlight(q)' /\ req'[q].session = s => q = r
      BY <1>1, <2>1
    <2>3. Alone(s)'
      BY <2>2 DEF Alone
    <2>4. \A q \in Requests : Under(q, s)' => q = r
      BY <2>2 DEF Under, InFlight
    <2>5. StoredOnceOpen(s)'
      BY <1>1, <2>1, <2>4 DEF SerialInv, StoredOnceOpen, Tracked
    <2>6. \A m \in shown[s] : ctx.manifest = m
      BY <1>1, <2>1 DEF SerialInv, StoredOnceOpen, Remembered, LoadedContext
    <2>7. Remembered(s)'
      BY <1>1, <2>1, <2>4, <2>6 DEF SerialInv, Remembered, Tracked
    <2>. QED
      BY <2>3, <2>5, <2>7 DEF SerialInv
  <1>4. \A q \in Requests : Compared(q)'
    BY <1>1 DEF DriftInv, Compared
  <1>. QED
    BY <1>2, <1>3, <1>4 DEF DriftInv

LEMMA ArrivalKeepsDrift ==
    ASSUME Inv, DriftInv, NEW r \in Requests, Arrive(r) PROVE DriftInv'
  <1>1. PICK s \in Sessions :
           \/ ArriveInitialize(r, s)
           \/ \E method \in ClientMethods : ArriveStateless(r, s, method)
           \/ \E method \in ClientMethods : ArriveOnSession(r, s, method)
    BY DEF Arrive
  <1>2. CASE ArriveInitialize(r, s)
    BY <1>2, AcceptKeepsDrift DEF ArriveInitialize
  <1>3. CASE \E method \in ClientMethods : ArriveStateless(r, s, method)
    BY <1>3, AcceptKeepsDrift DEF ArriveStateless
  <1>4. CASE \E method \in ClientMethods : ArriveOnSession(r, s, method)
    BY <1>4, AcceptKeepsDrift DEF ArriveOnSession
  <1>. QED
    BY <1>1, <1>2, <1>3, <1>4

(* The steps of a coroutine that ends, or waits for nothing but its close.  *)
LEMMA EndKeepsDrift ==
    ASSUME Inv, DriftInv, NEW r \in Requests,
           UNCHANGED <<active, minted, issued, shown, overlapped, reaped>>,
           \A q \in Requests \ {r} : req'[q] = req[q],
           req'[r].pc \in {"idle", "close"}, req'[r].manifest = NoManifest,
           req'[r].pc = "close" => InFlight(r) /\ req'[r].session = req[r].session
    PROVE  DriftInv'
  <1>1. ASSUME NEW x \in Sessions, Serial(x)' PROVE SerialInv(x)'
    <2>1. SerialInv(x)
      BY <1>1 DEF Serial, DriftInv
    <2>2. ASSUME NEW q \in Requests, InFlight(q)', req'[q].session = x
          PROVE  /\ InFlight(q) /\ req[q].session = x
                 /\ req'[q] = req[q] \/ req'[q].pc = "close"
      BY <2>2 DEF InFlight
    <2>. QED
      BY <2>1, <2>2, AsideStaysSerial
  <1>2. \A q \in Requests : Compared(q)'
    BY DEF DriftInv, Compared
  <1>. QED
    BY <1>1, <1>2 DEF DriftInv

(* A coroutine goes on: it may write its context back, which still knows    *)
(* the manifest the client was sent.                                        *)
LEMMA GoingOnKeepsDrift ==
    ASSUME Inv, DriftInv, NEW r \in Requests, NEW s \in Sessions, Under(r, s),
           NEW pc \in {"request", "upstream", "respond"}, NEW ctx \in Context,
           NEW m \in Manifests \cup {NoManifest}, Await(r, pc, ctx, m),
           UNCHANGED <<minted, issued, shown, overlapped, reaped>>,
           \A x \in Sessions \ {s} : active'[x] = active[x],
           active'[s] \in {active[s], ctx},
           Tracked(s) => active'[s] # NoCtx,
           req[r].pc = "open" /\ req[r].method = "initialize" => active'[s] # NoCtx,
           \/ ctx.manifest = req[r].ctx.manifest
           \/ req[r].ctx.manifest = NoManifest,
           m # NoManifest => ctx.manifest = m
    PROVE  DriftInv'
  <1>1. /\ \A q \in Requests \ {r} : req'[q] = req[q]
        /\ req'[r].pc = pc /\ req'[r].session = s /\ req'[r].ctx = ctx
        /\ req'[r].manifest = m /\ req'[r].method = req[r].method
    BY Moved DEF Under, InFlight
  <1>2. ASSUME NEW x \in Sessions, Serial(x)', x # s PROVE SerialInv(x)'
    <2>1. Serial(x)
      BY <1>2 DEF Serial
    <2>. QED
      BY <1>1, <1>2, <2>1, OthersStaySerial
  <1>3. ASSUME Serial(s)' PROVE SerialInv(s)'
    <2>1. SerialInv(s)
      BY <1>3 DEF Serial, DriftInv
    <2>2. \A q \in Requests : InFlight(q)' /\ req'[q].session = s => q = r
      BY <1>1, <2>1 DEF SerialInv, Alone, Under, InFlight
    <2>3. Alone(s)'
      BY <2>2 DEF Alone
    <2>4. \A q \in Requests : Under(q, s)' => q = r
      BY <2>2 DEF Under, InFlight
    <2>5. StoredOnceOpen(s)'
      BY <1>1, <2>1, <2>4 DEF SerialInv, StoredOnceOpen, Tracked, Under
    <2>6. \A k \in shown[s] : ctx.manifest = k
      <3>. SUFFICES ASSUME NEW k \in shown[s] PROVE ctx.manifest = k
        OBVIOUS
      <3>1. k \in Manifests /\ req[r].ctx.manifest = k
        BY <2>1 DEF SerialInv, Remembered, Inv, Types
      <3>. QED
        BY <3>1, NoneAssumption
    <2>7. \A k \in shown[s] : active'[s] # NoCtx => active'[s].manifest = k
      BY <2>1, <2>6 DEF SerialInv, Remembered, Tracked
    <2>8. Remembered(s)'
      BY <1>1, <2>1, <2>4, <2>6, <2>7 DEF SerialInv, Remembered, Tracked
    <2>. QED
      BY <2>3, <2>5, <2>8 DEF SerialInv
  <1>4. \A q \in Requests : Compared(q)'
    BY <1>1 DEF DriftInv, Compared
  <1>. QED
    BY <1>2, <1>3, <1>4 DEF DriftInv

LEMMA OpenKeepsDrift ==
    ASSUME Inv, DriftInv, NEW r \in Requests, Open(r) PROVE DriftInv'
  <1>1. PICK s \in Sessions, ctx \in Context :
           /\ req[r].pc = "open" /\ req[r].session = s
           /\ ctx.manifest = req[r].ctx.manifest
           /\ Await(r, "request", ctx, NoManifest)
           /\ active' = IF s \in stateless THEN active ELSE [active EXCEPT ![s] = ctx]
           /\ UNCHANGED <<minted, history>>
    <2>. DEFINE s == req[r].session
                ctx == [req[r].ctx EXCEPT !.calls = Ledger!Restored(s, @)]
    <2>1. InFlight(r) /\ s \in Sessions /\ req[r].ctx \in Context
      BY InFlightLegal DEF Open, InFlight
    <2>2. ctx \in Context /\ ctx.manifest = req[r].ctx.manifest
      BY <2>1, CountsLegal DEF Context
    <2>. QED
      BY <2>1, <2>2 DEF Open
  <1>2. Under(r, s) /\ ctx # NoCtx
    BY <1>1, NoneAssumption DEF Under
  <1>3. req[r].method = "initialize" => s \notin stateless
    BY <1>1 DEF Inv, Provenance, InFlight, Initializing, Borrowed, OneShot
  <1>4. /\ \A x \in Sessions \ {s} : active'[x] = active[x]
        /\ active'[s] \in {active[s], ctx}
        /\ Tracked(s) => active'[s] # NoCtx
        /\ s \notin stateless => active'[s] # NoCtx
    BY <1>1, <1>2 DEF Inv, Types, Tracked
  <1>. QED
    BY <1>1, <1>2, <1>3, <1>4, GoingOnKeepsDrift DEF history

LEMMA AdmitKeepsDrift ==
    ASSUME Inv, DriftInv, NEW r \in Requests, Admit(r) PROVE DriftInv'
  <1>1. PICK s \in Sessions, ctx \in Context :
           /\ req[r].pc = "request" /\ req[r].session = s
           /\ ctx.manifest = req[r].ctx.manifest
           /\ Await(r, "upstream", ctx, NoManifest) /\ Persist(s, ctx)
           /\ UNCHANGED <<minted, issued, shown, overlapped, reaped>>
    <2>. DEFINE s == req[r].session
                ctx == [Handshake(req[r].ctx, req[r].method) EXCEPT !.calls = Accounted(r)]
    <2>1. /\ InFlight(r) /\ s \in Sessions /\ req[r].ctx \in Context
          /\ req[r].method \in Methods /\ Account(r)
      BY InFlightLegal DEF Admit, InFlight, Inv, Types, Request
    <2>2. ctx \in Context
      BY <2>1, AccountLegal, ContextHelpers
    <2>3. ctx.manifest = req[r].ctx.manifest
      BY <2>1 DEF Handshake, Context
    <2>. QED
      BY <2>1, <2>2, <2>3 DEF Admit
  <1>2. Under(r, s) /\ ctx # NoCtx
    BY <1>1, NoneAssumption DEF Under
  <1>3. /\ \A x \in Sessions \ {s} : active'[x] = active[x]
        /\ active'[s] \in {active[s], ctx}
        /\ Tracked(s) => active'[s] # NoCtx
    BY <1>1, <1>2 DEF Persist, Inv, Types, Tracked
  <1>. QED
    BY <1>1, <1>2, <1>3, GoingOnKeepsDrift

(* T6: the answer's manifest agrees with the copy the coroutine holds.      *)
LEMMA AnswerKeepsDrift ==
    ASSUME FailOnDrift, Inv, DriftInv, NEW r \in Requests,
           Answer(r) \/ \E m \in Manifests : AnswerTools(r, m)
    PROVE  DriftInv'
  <1>1. PICK s \in Sessions : Under(r, s) /\ InFlight(r) /\ req[r].session = s
    BY InFlightLegal DEF Answer, AnswerTools, Under, InFlight
  <1>2. req[r].ctx \in Context
    BY <1>1, InFlightLegal
  <1>3. PICK ctx \in Context, m \in Manifests \cup {NoManifest} :
           /\ Await(r, "respond", ctx, m)
           /\ ctx.manifest = req[r].ctx.manifest \/ req[r].ctx.manifest = NoManifest
           /\ m # NoManifest => ctx.manifest = m
    <2>1. CASE Answer(r)
      BY <1>2, <2>1 DEF Answer
    <2>2. ASSUME NEW m \in Manifests, AnswerTools(r, m)
          PROVE  \E ctx \in Context, k \in Manifests \cup {NoManifest} :
                    /\ Await(r, "respond", ctx, k)
                    /\ ctx.manifest = req[r].ctx.manifest \/ req[r].ctx.manifest = NoManifest
                    /\ k # NoManifest => ctx.manifest = k
      <3>. DEFINE ctx == Baseline(req[r].ctx, m)
                  k == IF req[r].method = "tools/list" THEN m ELSE NoManifest
      <3>1. /\ ctx \in Context /\ ctx.manifest = m
            /\ ctx.manifest = req[r].ctx.manifest \/ req[r].ctx.manifest = NoManifest
        BY <1>2, <2>2 DEF AnswerTools, Drifts, Baseline, Context
      <3>. QED
        BY <2>2, <3>1 DEF AnswerTools
    <2>. QED
      BY <2>1, <2>2
  <1>4. UNCHANGED <<active, minted, issued, shown, overlapped, reaped>>
    BY DEF Answer, AnswerTools, history
  <1>. QED
    BY <1>1, <1>3, <1>4, GoingOnKeepsDrift DEF Tracked, Under, Answer, AnswerTools

LEMMA RespondKeepsDrift ==
    ASSUME Inv, DriftInv, NEW r \in Requests, Respond(r) PROVE DriftInv'
  <1>1. PICK s \in Sessions, ctx \in Context, k \in Manifests \cup {NoManifest} :
           /\ InFlight(r) /\ Under(r, s) /\ req[r].pc = "respond" /\ req[r].session = s
           /\ req[r].ctx = ctx /\ req[r].manifest = k
           /\ Persist(s, ctx) /\ Return(r)
           /\ issued' = IF req[r].method = "initialize" THEN issued \cup {s} ELSE issued
           /\ shown' = [shown EXCEPT ![s] = @ \cup ({k} \ {NoManifest})]
           /\ UNCHANGED <<minted, overlapped, reaped>>
    <2>1. InFlight(r)
      BY DEF Respond, InFlight
    <2>2. /\ req[r].session \in Sessions /\ req[r].ctx \in Context
          /\ req[r].manifest \in Manifests \cup {NoManifest}
      BY <2>1, InFlightLegal DEF Inv, Types, Request
    <2>. QED
      BY <2>1, <2>2 DEF Respond, Under
  <1>2. /\ \A q \in Requests \ {r} : req'[q] = req[q]
        /\ req'[r].pc \in {"idle", "close"} /\ req'[r].manifest = NoManifest
        /\ req'[r].pc = "close" => req'[r].session = s
    BY <1>1, Returned DEF Inv, Types
  <1>3. /\ \A x \in Sessions \ {s} : active'[x] = active[x] /\ shown'[x] = shown[x]
        /\ shown'[s] = shown[s] \cup ({k} \ {NoManifest})
        /\ active'[s] = IF Tracked(s) THEN ctx ELSE active[s]
    BY <1>1 DEF Persist, Inv, Types
  <1>4. ASSUME NEW x \in Sessions, Serial(x)', x # s PROVE SerialInv(x)'
    <2>1. Serial(x) /\ (x \in issued' => x \in issued)
      BY <1>1, <1>4 DEF Serial
    <2>2. InFlight(r)' => req'[r].session = s
      BY <1>2 DEF InFlight
    <2>. QED
      BY <1>1, <1>2, <1>3, <1>4, <2>1, <2>2, OthersStaySerial
  <1>5. ASSUME Serial(s)' PROVE SerialInv(s)'
    <2>1. SerialInv(s)
      BY <1>1, <1>5 DEF Serial, DriftInv
    <2>2. \A q \in Requests : InFlight(q)' /\ req'[q].session = s => q = r
      BY <1>1, <1>2, <2>1 DEF SerialInv, Alone, InFlight
    <2>3. Alone(s)'
      BY <2>2 DEF Alone
    <2>4. \A q \in Requests : ~Under(q, s)'
      BY <1>2, <2>2 DEF Under, InFlight
    <2>5. Tracked(s)' <=> Tracked(s)
      BY <1>3, NoneAssumption DEF Tracked
    <2>6. StoredOnceOpen(s)'
      BY <1>1, <2>1, <2>4, <2>5 DEF SerialInv, StoredOnceOpen
    <2>7. s \in minted
      BY <1>1 DEF Inv, Provenance
    <2>8. \A m \in shown'[s] : ctx.manifest = m
      <3>1. \A m \in shown[s] : ctx.manifest = m
        BY <1>1, <2>1 DEF SerialInv, Remembered
      <3>2. k # NoManifest => ctx.manifest = k
        BY <1>1 DEF DriftInv, Compared
      <3>. QED
        BY <1>3, <3>1, <3>2
    <2>9. Remembered(s)'
      BY <1>1, <1>3, <2>4, <2>5, <2>7, <2>8 DEF Remembered, Tracked
    <2>. QED
      BY <2>3, <2>6, <2>9 DEF SerialInv
  <1>6. \A q \in Requests : Compared(q)'
    BY <1>2 DEF DriftInv, Compared
  <1>. QED
    BY <1>4, <1>5, <1>6 DEF DriftInv

LEMMA EndingsKeepDrift ==
    ASSUME Inv, DriftInv, NEW r \in Requests,
           \/ RejectEarly(r) \/ RejectOverLimit(r) \/ RejectLate(r) \/ RejectResponse(r)
           \/ Close(r)
    PROVE  DriftInv'
  <1>1. UNCHANGED <<active, minted, issued, shown, overlapped, reaped>> /\ InFlight(r)
    BY DEF RejectEarly, RejectOverLimit, RejectLate, RejectResponse, Close, history, InFlight
  <1>2. CASE Close(r)
    <2>1. /\ \A q \in Requests \ {r} : req'[q] = req[q]
          /\ req'[r].pc = "idle" /\ req'[r].manifest = NoManifest
      BY <1>2 DEF Close, Idle, Inv, Types
    <2>. QED
      BY <1>1, <2>1, EndKeepsDrift
  <1>3. CASE ~Close(r)
    <2>1. Return(r)
      BY <1>3 DEF RejectEarly, RejectOverLimit, RejectLate, RejectResponse
    <2>2. /\ \A q \in Requests \ {r} : req'[q] = req[q]
          /\ req'[r].pc \in {"idle", "close"} /\ req'[r].manifest = NoManifest
          /\ req'[r].pc = "close" => req'[r].session = req[r].session
      BY <1>1, <2>1, Returned DEF Inv, Types
    <2>. QED
      BY <1>1, <2>2, EndKeepsDrift
  <1>. QED
    BY <1>2, <1>3

LEMMA TimeKeepsDrift ==
    ASSUME Inv, DriftInv, Reap \/ (\E s \in Sessions : FallSilent(s)) \/ UNCHANGED vars
    PROVE  DriftInv'
  <1>1. UNCHANGED <<req, minted, issued, shown, overlapped>> /\ reaped \subseteq reaped'
    BY DEF Reap, FallSilent, vars, history
  <1>2. \A s \in Sessions : s \notin reaped' => active'[s] = active[s]
    <2>1. CASE Reap
      BY <2>1 DEF Reap, Tracked, Inv, Types
    <2>2. CASE ~Reap
      BY <2>2 DEF FallSilent, vars
    <2>. QED
      BY <2>1, <2>2
  <1>3. ASSUME NEW s \in Sessions, Serial(s)' PROVE SerialInv(s)'
    <2>1. SerialInv(s) /\ active'[s] = active[s]
      BY <1>1, <1>2, <1>3 DEF Serial, DriftInv
    <2>2. ASSUME NEW q \in Requests, InFlight(q)', req'[q].session = s
          PROVE  InFlight(q) /\ req[q].session = s /\ req'[q] = req[q]
      BY <1>1, <2>2 DEF InFlight
    <2>. QED
      BY <1>1, <2>1, <2>2, AsideStaysSerial
  <1>4. \A q \in Requests : Compared(q)'
    BY <1>1 DEF DriftInv, Compared
  <1>. QED
    BY <1>3, <1>4 DEF DriftInv

LEMMA DriftStep == ASSUME FailOnDrift, Inv, DriftInv, [Next]_vars PROVE DriftInv'
  <1>1. ASSUME NEW r \in Requests, Arrive(r) \/ Proceed(r) \/ Upstream(r) PROVE DriftInv'
    BY <1>1, ArrivalKeepsDrift, OpenKeepsDrift, AdmitKeepsDrift, AnswerKeepsDrift,
       RespondKeepsDrift, EndingsKeepDrift DEF Proceed, Upstream
  <1>. QED
    BY <1>1, TimeKeepsDrift DEF Next

(* T6-001, IntegrityEngine.on_response: a manifest that changed is refused  *)
(* for as long as the session's requests come one at a time and the reaper  *)
(* has not thrown its context away (the run armor_overlap shows how a       *)
(* request that overlaps takes the manifest away).                          *)
THEOREM SerialClientsSeeOneManifest == SafetySpec => []SerialClientSeesOneManifest
  <1>. DEFINE Steady == FailOnDrift => DriftInv
  <1>1. Init => Steady
    <2>. SUFFICES ASSUME Init PROVE DriftInv
      OBVIOUS
    <2>. QED
      BY DEF Init, DriftInv, SerialInv, Alone, StoredOnceOpen, Remembered, Compared, Under,
             InFlight, Idle
  <1>2. Inv /\ Steady /\ [Next]_vars => Steady'
    BY DriftStep
  <1>3. Inv /\ Steady => SerialClientSeesOneManifest
    <2>. SUFFICES ASSUME Inv, DriftInv, NEW s \in Sessions \ (overlapped \cup reaped)
                  PROVE  Cardinality(shown[s]) <= 1
      BY DEF SerialClientSeesOneManifest
    <2>1. \A m, n \in shown[s] : m = n
      BY DEF DriftInv, Serial, SerialInv, Remembered
    <2>2. CASE shown[s] = {}
      BY <2>2, FS_EmptySet
    <2>3. CASE shown[s] # {}
      <3>1. PICK m \in shown[s] : shown[s] = {m}
        BY <2>1, <2>3
      <3>2. Cardinality({m}) = 1
        BY FS_Singleton
      <3>. QED
        BY <3>1, <3>2
    <2>. QED
      BY <2>2, <2>3
  <1>. HIDE DEF Steady
  <1>. QED
    BY <1>1, <1>2, <1>3, Invariant, PTL DEF SafetySpec
=============================================================================
