-------------------------- MODULE ReplayCaches_proofs --------------------------
(***************************************************************************)
(* Theorems about ReplayCaches, for any requests, credentials, cache size  *)
(* and windows: the caches keep within jti_cache_size, and a credential is *)
(* good for one use.                                                       *)
(***************************************************************************)
EXTENDS ReplayCaches, FiniteSetTheorems, TLAPS

(* A request waits for the proof's cache with a reading of the clock that   *)
(* is not ahead of it; only one with a proof gets that far.                 *)
Waiting ==
    /\ req \in [Requests -> Request]
    /\ \A r \in Requests :
          /\ req[r].pc = "proof" => req[r].proof \in Proofs
          /\ req[r].pc = "proofCache" => req[r].now \in 1..clock

Bounded(cache, J) ==
    /\ cache \in [J -> Nat]
    /\ IsFiniteSet(Remembered(cache)) /\ Cardinality(Remembered(cache)) <= CacheSize

Typed ==
    /\ clock \in Nat \ {0}
    /\ Bounded(tokenCache, TokenJtis) /\ Bounded(proofCache, ProofJtis)
    /\ Waiting
    /\ tokenUses \in [TokenJtis -> Nat]
    /\ proofUses \in [ProofJtis -> Nat] /\ firstSeen \in [ProofJtis -> Nat]

(* A used token is remembered until it has expired.                         *)
TokenKept(tok, cache, uses, now) ==
    /\ uses[tok.jti] <= 1
    /\ uses[tok.jti] = 1 => cache[tok.jti] = tok.exp \/ tok.exp <= now
TokensKept ==
    \A tok \in Tokens : tok.jti # NoJti => TokenKept(tok, tokenCache, tokenUses, clock)

(* A used proof is remembered to the end of its window, unless the skew let *)
(* it in before its iat.                                                    *)
ProofKept(p, cache, uses, seen, now) ==
    /\ seen[p.jti] = 0 => uses[p.jti] = 0
    /\ seen[p.jti] # 0 /\ seen[p.jti] >= p.iat =>
          /\ uses[p.jti] <= 1
          /\ cache[p.jti] >= p.iat + DpopMaxAge \/ p.iat + DpopMaxAge <= now
ProofsKept == \A p \in Proofs : ProofKept(p, proofCache, proofUses, firstSeen, clock)

Inv == Typed /\ TokensKept /\ ProofsKept
-----------------------------------------------------------------------------
LEMMA PurgedType ==
    ASSUME NEW J, NEW cache \in [J -> Nat], NEW now \in Nat
    PROVE  /\ Purged(cache, now) \in [J -> Nat]
           /\ \A j \in J : Purged(cache, now)[j] = IF cache[j] <= now THEN 0 ELSE cache[j]
           /\ Remembered(Purged(cache, now)) \in SUBSET Remembered(cache)
  BY DEF Purged, Remembered

(* What a question about j leaves of a cache of jtis J: a jti that passes   *)
(* had been forgotten, and every entry that is still good stays.            *)
Asked(cache, after, passes, j, J, exp, now) ==
    /\ passes => cache[j] <= now /\ after[j] = exp
    /\ \A i \in J : cache[i] > now => after[i] = cache[i]

LEMMA AskedCache ==
    ASSUME NEW J, NEW cache, Bounded(cache, J), NEW j \in J, NEW exp \in Nat, NEW now \in Nat
    PROVE  /\ Bounded(CheckAndAdd(cache, j, exp, now), J)
           /\ Asked(cache, CheckAndAdd(cache, j, exp, now), Passes(cache, j, now), j, J, exp, now)
  <1>. DEFINE purged == Purged(cache, now)
  <1>1. /\ cache \in [J -> Nat] /\ IsFiniteSet(Remembered(cache))
        /\ Cardinality(Remembered(cache)) <= CacheSize /\ CacheSize \in Nat
    BY CacheAssumption DEF Bounded
  <1>2. /\ purged \in [J -> Nat]
        /\ \A i \in J : purged[i] = IF cache[i] <= now THEN 0 ELSE cache[i]
        /\ Remembered(purged) \in SUBSET Remembered(cache)
    BY <1>1, PurgedType
  <1>3. /\ IsFiniteSet(Remembered(purged)) /\ Cardinality(Remembered(purged)) \in Nat
        /\ Cardinality(Remembered(purged)) <= CacheSize
    <2>1. /\ IsFiniteSet(Remembered(purged))
          /\ Cardinality(Remembered(purged)) <= Cardinality(Remembered(cache))
      BY <1>1, <1>2, FS_Subset
    <2>2. Cardinality(Remembered(purged)) \in Nat /\ Cardinality(Remembered(cache)) \in Nat
      BY <1>1, <2>1, FS_CardinalityType
    <2>. QED
      BY <1>1, <2>1, <2>2
  <1>. HIDE DEF purged
  <1>4. CASE Passes(cache, j, now)
    <2>. DEFINE c == [purged EXCEPT ![j] = exp]
    <2>1. /\ CheckAndAdd(cache, j, exp, now) = c
          /\ j \notin Remembered(purged) /\ Cardinality(Remembered(purged)) < CacheSize
      BY <1>4 DEF CheckAndAdd, Passes, HasRoom, purged
    <2>2. cache[j] <= now
      BY <1>1, <1>2, <2>1 DEF Remembered
    <2>3. Remembered(c) \in SUBSET (Remembered(purged) \cup {j})
      BY <1>2 DEF Remembered
    <2>4. /\ IsFiniteSet(Remembered(purged) \cup {j})
          /\ Cardinality(Remembered(purged) \cup {j}) = Cardinality(Remembered(purged)) + 1
      BY <1>3, <2>1, FS_AddElement
    <2>5. IsFiniteSet(Remembered(c)) /\ Cardinality(Remembered(c)) <= CacheSize
      <3>1. /\ IsFiniteSet(Remembered(c))
            /\ Cardinality(Remembered(c)) <= Cardinality(Remembered(purged) \cup {j})
        BY <2>3, <2>4, FS_Subset
      <3>2. Cardinality(Remembered(c)) \in Nat
        BY <3>1, FS_CardinalityType
      <3>. QED
        BY <1>1, <1>3, <2>1, <2>4, <3>1, <3>2
    <2>6. /\ c \in [J -> Nat] /\ c[j] = exp
          /\ \A i \in J \ {j} : c[i] = purged[i]
      BY <1>2
    <2>7. \A i \in J : cache[i] > now => c[i] = cache[i]
      BY <1>1, <1>2, <2>2, <2>6
    <2>. QED
      BY <1>4, <2>1, <2>2, <2>5, <2>6, <2>7 DEF Bounded, Asked
  <1>5. CASE ~ Passes(cache, j, now)
    <2>1. CheckAndAdd(cache, j, exp, now) = purged
      BY <1>5 DEF CheckAndAdd, purged
    <2>2. \A i \in J : cache[i] > now => purged[i] = cache[i]
      BY <1>1, <1>2
    <2>. QED
      BY <1>2, <1>3, <1>5, <2>1, <2>2 DEF Bounded, Asked
  <1>. QED
    BY <1>4, <1>5
-----------------------------------------------------------------------------
(* Any step that leaves the caches and what was counted alone.              *)
LEMMA Unasked ==
    ASSUME Inv, UNCHANGED <<tokenCache, proofCache, history>>,
           clock' \in Nat, clock <= clock', Waiting'
    PROVE  Inv'
  <1>1. clock \in Nat \ {0}
    BY DEF Inv, Typed
  <1>2. Typed'
    BY <1>1 DEF Inv, Typed, Bounded, Remembered, history
  <1>3. TokensKept'
    BY <1>1, TimesAssumption DEF Inv, TokensKept, TokenKept, history
  <1>4. ProofsKept'
    BY <1>1, TimesAssumption DEF Inv, ProofsKept, ProofKept, history
  <1>. QED
    BY <1>2, <1>3, <1>4 DEF Inv

LEMMA DoneWaits ==
    ASSUME Inv, NEW r \in Requests, Done(r), clock' = clock
    PROVE  Waiting'
  BY DEF Inv, Typed, Waiting, Done, Request, Idle

LEMMA PassedWaits ==
    ASSUME Inv, NEW r \in Requests, req[r].pc = "token", TokenPassed(r), clock' = clock
    PROVE  Waiting'
  <1>1. req[r] \in [pc : {"token", "proof"}, tok : Tokens, proof : Proofs \cup {NoProof}]
    BY DEF Inv, Typed, Waiting, Request, Idle
  <1>2. CASE req[r].proof = NoProof
    BY <1>2, DoneWaits DEF TokenPassed
  <1>3. CASE req[r].proof # NoProof
    <2>1. req' = [req EXCEPT ![r].pc = "proof"]
      BY <1>3 DEF TokenPassed
    <2>2. [req[r] EXCEPT !.pc = "proof"]
             \in [pc : {"token", "proof"}, tok : Tokens, proof : Proofs \cup {NoProof}]
      BY <1>1
    <2>3. req' \in [Requests -> Request]
      BY <2>1, <2>2 DEF Inv, Typed, Waiting, Request
    <2>. QED
      BY <1>1, <1>3, <2>1, <2>3 DEF Inv, Typed, Waiting
  <1>. QED
    BY <1>2, <1>3

LEMMA CheckTokenStep ==
    ASSUME Inv, NEW r \in Requests, CheckToken(r)
    PROVE  Inv'
  <1>. DEFINE tok == req[r].tok
              passes == Passes(tokenCache, tok.jti, clock)
  <1>1. /\ req[r].pc = "token" /\ tok.jti # NoJti
        /\ tokenCache' = CheckAndAdd(tokenCache, tok.jti, tok.exp, clock)
        /\ tokenUses' = IF passes /\ clock < tok.exp
                        THEN [tokenUses EXCEPT ![tok.jti] = @ + 1] ELSE tokenUses
        /\ Done(r) \/ TokenPassed(r)
        /\ UNCHANGED <<clock, proofCache, proofUses, firstSeen>>
    BY DEF CheckToken
  <1>2. tok \in Tokens /\ tok.jti \in TokenJtis /\ tok.exp \in Nat
    <2>1. req[r] \in [pc : {"token", "proof"}, tok : Tokens, proof : Proofs \cup {NoProof}]
      BY <1>1 DEF Inv, Typed, Waiting, Request, Idle
    <2>. QED
      BY <1>1, <2>1, TimesAssumption DEF TokenJtis
  <1>3. /\ clock \in Nat \ {0} /\ tokenUses \in [TokenJtis -> Nat]
        /\ tokenCache \in [TokenJtis -> Nat] /\ Bounded(tokenCache, TokenJtis)
    BY DEF Inv, Typed, Bounded
  <1>. HIDE DEF tok, passes
  <1>4. /\ Bounded(tokenCache', TokenJtis)
        /\ passes => tokenCache[tok.jti] <= clock /\ tokenCache'[tok.jti] = tok.exp
        /\ \A i \in TokenJtis : tokenCache[i] > clock => tokenCache'[i] = tokenCache[i]
    <2>. DEFINE j == tok.jti
                exp == tok.exp
    <2>1. j \in TokenJtis /\ exp \in Nat /\ clock \in Nat
      BY <1>2, <1>3
    <2>2. /\ tokenCache' = CheckAndAdd(tokenCache, j, exp, clock)
          /\ passes = Passes(tokenCache, j, clock)
      BY <1>1 DEF passes
    <2>. HIDE DEF j, exp
    <2>3. /\ Bounded(tokenCache', TokenJtis)
          /\ Asked(tokenCache, tokenCache', passes, j, TokenJtis, exp, clock)
      BY <1>3, <2>1, <2>2, AskedCache
    <2>. QED
      BY <2>3 DEF Asked, j, exp
  <1>5. Waiting'
    BY <1>1, DoneWaits, PassedWaits
  <1>6. Typed'
    <2>1. tokenUses' \in [TokenJtis -> Nat]
      BY <1>1, <1>2, <1>3
    <2>. QED
      BY <1>1, <1>4, <1>5, <2>1 DEF Inv, Typed, Bounded, Remembered
  <1>7. TokensKept'
    <2>. SUFFICES ASSUME NEW other \in Tokens, other.jti # NoJti
                  PROVE  TokenKept(other, tokenCache', tokenUses', clock)
      BY <1>1 DEF TokensKept, TokenKept
    <2>1. /\ TokenKept(other, tokenCache, tokenUses, clock)
          /\ other.jti \in TokenJtis /\ other.exp \in Nat
      BY TimesAssumption DEF Inv, TokensKept, TokenJtis
    <2>2. CASE other.jti = tok.jti
      <3>1. other = tok
        BY <1>1, <1>2, <2>2, JtiAssumption
      <3>2. CASE passes /\ clock < tok.exp
        <4>1. tokenUses[tok.jti] = 0
          BY <1>2, <1>3, <1>4, <2>1, <3>1, <3>2 DEF TokenKept
        <4>2. tokenUses'[tok.jti] = 1 /\ tokenCache'[tok.jti] = tok.exp
          BY <1>1, <1>2, <1>3, <1>4, <3>2, <4>1
        <4>. QED
          BY <3>1, <4>2 DEF TokenKept
      <3>3. CASE ~ (passes /\ clock < tok.exp)
        <4>1. tokenUses' = tokenUses
          BY <1>1, <3>3
        <4>2. tok.exp <= clock \/ tokenCache[tok.jti] # tok.exp
                  \/ tokenCache'[tok.jti] = tokenCache[tok.jti]
          BY <1>2, <1>3, <1>4
        <4>. QED
          BY <2>1, <3>1, <4>1, <4>2 DEF TokenKept
      <3>. QED
        BY <3>2, <3>3
    <2>3. CASE other.jti # tok.jti
      <3>1. tokenUses'[other.jti] = tokenUses[other.jti]
        BY <1>1, <1>2, <1>3, <2>1, <2>3
      <3>2. other.exp <= clock \/ tokenCache[other.jti] # other.exp
                \/ tokenCache'[other.jti] = tokenCache[other.jti]
        BY <1>3, <1>4, <2>1
      <3>. QED
        BY <2>1, <3>1, <3>2 DEF TokenKept
    <2>. QED
      BY <2>2, <2>3
  <1>8. ProofsKept'
    BY <1>1 DEF Inv, ProofsKept, ProofKept
  <1>. QED
    BY <1>6, <1>7, <1>8 DEF Inv

LEMMA CheckProofStep ==
    ASSUME Inv, NEW r \in Requests, CheckProof(r)
    PROVE  Inv'
  <1>. DEFINE p == req[r].proof
              now == req[r].now
              passes == Passes(proofCache, p.jti, clock)
              fresh == clock < p.iat + DpopMaxAge
  <1>1. /\ req[r].pc = "proofCache"
        /\ proofCache' = CheckAndAdd(proofCache, p.jti, now + DpopMaxAge, clock)
        /\ proofUses' = IF passes /\ fresh
                        THEN [proofUses EXCEPT ![p.jti] = @ + 1] ELSE proofUses
        /\ firstSeen' = IF passes /\ firstSeen[p.jti] = 0
                        THEN [firstSeen EXCEPT ![p.jti] = now] ELSE firstSeen
        /\ Done(r)
        /\ UNCHANGED <<clock, tokenCache, tokenUses>>
    BY DEF CheckProof, DpopExp
  <1>2. /\ p \in Proofs /\ p.jti \in ProofJtis /\ p.iat \in Nat
        /\ now \in 1..clock /\ DpopMaxAge \in Nat
    <2>1. req[r] \in [pc : {"proofCache"}, proof : Proofs, now : Nat]
      BY <1>1 DEF Inv, Typed, Waiting, Request, Idle
    <2>2. now \in 1..clock
      BY <1>1 DEF Inv, Typed, Waiting
    <2>. QED
      BY <2>1, <2>2, TimesAssumption DEF ProofJtis
  <1>3. /\ clock \in Nat \ {0} /\ proofUses \in [ProofJtis -> Nat]
        /\ firstSeen \in [ProofJtis -> Nat]
        /\ proofCache \in [ProofJtis -> Nat] /\ Bounded(proofCache, ProofJtis)
    BY DEF Inv, Typed, Bounded
  <1>. HIDE DEF p, now, passes, fresh
  <1>4. /\ Bounded(proofCache', ProofJtis)
        /\ passes => proofCache[p.jti] <= clock /\ proofCache'[p.jti] = now + DpopMaxAge
        /\ \A i \in ProofJtis : proofCache[i] > clock => proofCache'[i] = proofCache[i]
    <2>. DEFINE j == p.jti
                exp == now + DpopMaxAge
    <2>1. j \in ProofJtis /\ exp \in Nat /\ clock \in Nat
      BY <1>2, <1>3
    <2>2. /\ proofCache' = CheckAndAdd(proofCache, j, exp, clock)
          /\ passes = Passes(proofCache, j, clock)
      BY <1>1 DEF passes
    <2>. HIDE DEF j, exp
    <2>3. /\ Bounded(proofCache', ProofJtis)
          /\ Asked(proofCache, proofCache', passes, j, ProofJtis, exp, clock)
      BY <1>3, <2>1, <2>2, AskedCache
    <2>. QED
      BY <2>3 DEF Asked, j, exp
  <1>5. Waiting'
    BY <1>1, DoneWaits
  <1>6. Typed'
    <2>1. proofUses' \in [ProofJtis -> Nat] /\ firstSeen' \in [ProofJtis -> Nat]
      BY <1>1, <1>2, <1>3
    <2>. QED
      BY <1>1, <1>4, <1>5, <2>1 DEF Inv, Typed, Bounded, Remembered
  <1>7. TokensKept'
    BY <1>1 DEF Inv, TokensKept, TokenKept
  <1>8. ProofsKept'
    <2>. SUFFICES ASSUME NEW other \in Proofs
                  PROVE  ProofKept(other, proofCache', proofUses', firstSeen', clock)
      BY <1>1 DEF ProofsKept, ProofKept
    <2>1. /\ ProofKept(other, proofCache, proofUses, firstSeen, clock)
          /\ other.jti \in ProofJtis /\ other.iat \in Nat
      BY TimesAssumption DEF Inv, ProofsKept, ProofJtis
    <2>2. CASE other.jti = p.jti
      <3>1. other = p
        BY <1>2, <2>2, JtiAssumption
      <3>2. CASE passes /\ firstSeen[p.jti] = 0
        <4>1. /\ firstSeen'[p.jti] = now /\ proofUses[p.jti] = 0
              /\ proofUses'[p.jti] <= 1
              /\ proofCache'[p.jti] = now + DpopMaxAge
          BY <1>1, <1>2, <1>3, <1>4, <2>1, <3>1, <3>2 DEF ProofKept
        <4>. QED
          BY <1>2, <1>3, <3>1, <4>1 DEF ProofKept
      <3>3. CASE passes /\ firstSeen[p.jti] # 0
        <4>1. firstSeen' = firstSeen
          BY <1>1, <3>3
        <4>2. firstSeen[p.jti] >= p.iat => p.iat + DpopMaxAge <= clock
          BY <1>2, <1>3, <1>4, <2>1, <3>1, <3>3 DEF ProofKept
        <4>3. firstSeen[p.jti] >= p.iat => proofUses' = proofUses
          BY <1>1, <1>2, <1>3, <4>2 DEF fresh
        <4>. QED
          BY <2>1, <3>1, <3>3, <4>1, <4>2, <4>3 DEF ProofKept
      <3>4. CASE ~ passes
        <4>1. firstSeen' = firstSeen /\ proofUses' = proofUses
          BY <1>1, <3>4
        <4>2. \/ p.iat + DpopMaxAge <= clock \/ ~ (proofCache[p.jti] >= p.iat + DpopMaxAge)
              \/ proofCache'[p.jti] = proofCache[p.jti]
          BY <1>2, <1>3, <1>4
        <4>. QED
          BY <2>1, <3>1, <4>1, <4>2 DEF ProofKept
      <3>. QED
        BY <3>2, <3>3, <3>4
    <2>3. CASE other.jti # p.jti
      <3>1. /\ proofUses'[other.jti] = proofUses[other.jti]
            /\ firstSeen'[other.jti] = firstSeen[other.jti]
        BY <1>1, <1>2, <1>3, <2>1, <2>3
      <3>2. \/ other.iat + DpopMaxAge <= clock
            \/ ~ (proofCache[other.jti] >= other.iat + DpopMaxAge)
            \/ proofCache'[other.jti] = proofCache[other.jti]
        BY <1>2, <1>3, <1>4, <2>1
      <3>. QED
        BY <2>1, <3>1, <3>2 DEF ProofKept
    <2>. QED
      BY <2>2, <2>3
  <1>. QED
    BY <1>6, <1>7, <1>8 DEF Inv

LEMMA InvStep == Inv /\ [Next]_vars => Inv'
  <1>. SUFFICES ASSUME Inv, [Next]_vars PROVE Inv'
    OBVIOUS
  <1>1. clock \in Nat \ {0}
    BY DEF Inv, Typed
  <1>2. CASE Tick
    <2>1. clock' = clock + 1 /\ UNCHANGED <<tokenCache, proofCache, req, history>>
      BY <1>2 DEF Tick
    <2>2. Waiting'
      BY <1>1, <2>1 DEF Inv, Typed, Waiting
    <2>. QED
      BY <1>1, <2>1, <2>2, Unasked
  <1>3. ASSUME NEW r \in Requests, NEW tok \in Tokens, NEW proof \in Proofs \cup {NoProof},
               PresentToken(r, tok, proof)
        PROVE  Inv'
    <2>1. Waiting'
      BY <1>3 DEF Inv, Typed, Waiting, PresentToken, Request
    <2>. QED
      BY <1>1, <1>3, <2>1, Unasked DEF PresentToken
  <1>4. ASSUME NEW r \in Requests, PassUntracked(r) PROVE Inv'
    BY <1>1, <1>4, DoneWaits, PassedWaits, Unasked DEF PassUntracked
  <1>5. ASSUME NEW r \in Requests, PresentProof(r) PROVE Inv'
    <2>1. Waiting'
      <3>1. CASE Done(r)
        BY <1>5, <3>1, DoneWaits DEF PresentProof
      <3>2. CASE req' = [req EXCEPT ![r] =
                           [pc |-> "proofCache", proof |-> req[r].proof, now |-> clock]]
        <4>1. req[r].proof \in Proofs /\ clock' = clock
          BY <1>5 DEF Inv, Typed, Waiting, PresentProof
        <4>. QED
          BY <1>1, <3>2, <4>1 DEF Inv, Typed, Waiting, Request
      <3>. QED
        BY <1>5, <3>1, <3>2 DEF PresentProof
    <2>. QED
      BY <1>1, <1>5, <2>1, Unasked DEF PresentProof
  <1>6. CASE UNCHANGED vars
    <2>1. Waiting'
      BY <1>6 DEF Inv, Typed, Waiting, vars
    <2>. QED
      BY <1>1, <1>6, <2>1, Unasked DEF vars
  <1>. QED
    BY <1>2, <1>3, <1>4, <1>5, <1>6, CheckTokenStep, CheckProofStep DEF Next

LEMMA InvInit == Init => Inv
  <1>. SUFFICES ASSUME Init PROVE Inv
    OBVIOUS
  <1>1. ASSUME NEW J PROVE Bounded([j \in J |-> 0], J)
    <2>1. Remembered([j \in J |-> 0]) = {}
      BY DEF Remembered
    <2>2. IsFiniteSet({}) /\ Cardinality({}) = 0
      BY FS_EmptySet
    <2>. QED
      BY <2>1, <2>2, CacheAssumption DEF Bounded
  <1>2. Bounded(tokenCache, TokenJtis) /\ Bounded(proofCache, ProofJtis)
    BY <1>1 DEF Init
  <1>3. Typed
    BY <1>2 DEF Init, Typed, Waiting, Request, Idle
  <1>4. TokensKept
    BY DEF Init, TokensKept, TokenKept, TokenJtis
  <1>5. ProofsKept
    BY DEF Init, ProofsKept, ProofKept, ProofJtis
  <1>. QED
    BY <1>3, <1>4, <1>5 DEF Inv

LEMMA Invariant == Spec => []Inv
  BY InvInit, InvStep, PTL DEF Spec

(* _JTICache: neither cache ever holds more than jti_cache_size entries.    *)
THEOREM TypeCorrect == Spec => []TypeOK
  <1>1. Inv => TypeOK
    BY DEF Inv, Typed, Bounded, Waiting, TypeOK
  <1>. QED
    BY <1>1, Invariant, PTL

(* T1-002, check_and_add under its lock: whatever was purged or refused in  *)
(* between, a credential passes once while it is good.                      *)
THEOREM CredentialsOnce == Spec => []PassesOnce
  <1>1. Inv => PassesOnce
    <2>. SUFFICES ASSUME Inv PROVE PassesOnce
      OBVIOUS
    <2>1. ASSUME NEW j \in TokenJtis PROVE tokenUses[j] <= 1
      <3>1. PICK tok \in Tokens : tok.jti = j /\ tok.jti # NoJti
        BY DEF TokenJtis
      <3>. QED
        BY <3>1 DEF Inv, TokensKept, TokenKept
    <2>2. ASSUME NEW p \in Proofs, firstSeen[p.jti] >= p.iat PROVE proofUses[p.jti] <= 1
      BY <2>2 DEF Inv, ProofsKept, ProofKept
    <2>. QED
      BY <2>1, <2>2 DEF PassesOnce
  <1>. QED
    BY <1>1, Invariant, PTL
===============================================================================
