----------------------------- MODULE ReplayCaches -----------------------------
(***************************************************************************)
(* engines/auth.py (T1): the two replay caches that make an access token   *)
(* and a DPoP proof good for one use, on the way of a request through      *)
(* AuthEngine.on_request.                                                  *)
(*                                                                         *)
(* T1 compares a credential with one reading of the clock and then asks    *)
(* the cache, which makes its own under a thread lock: each is a step, and *)
(* the requests of other threads and time may come in between.             *)
(* Signatures, issuers, audiences and key bindings are data: refusals that *)
(* may come where the code checks them.                                    *)
(***************************************************************************)
EXTENDS Integers, FiniteSets

CONSTANTS
    Requests,        \* requests in T1 at a time
    Tokens,          \* access tokens, as [jti, exp]
    NoJti,           \* the jti of a token without one
    Proofs,          \* DPoP proofs, as [jti, iat]
    NoProof,         \* no DPoP header
    CacheSize,       \* jti_cache_size
    DpopMaxAge, DpopFutureSkew,
    MaxTime          \* bound: seconds that pass

TokenJtis == {tok.jti : tok \in Tokens} \ {NoJti}
ProofJtis == {p.jti : p \in Proofs}

ASSUME TimesAssumption ==
    /\ \A tok \in Tokens : tok.exp \in Nat
    /\ \A p \in Proofs : p.iat \in Nat
    /\ DpopMaxAge \in Nat /\ DpopFutureSkew \in Nat /\ MaxTime \in Nat
ASSUME CacheAssumption == CacheSize \in Nat
(* A jti names one credential.                                              *)
ASSUME JtiAssumption ==
    /\ \A a, b \in Tokens : a.jti = b.jti => a = b \/ a.jti = NoJti
    /\ \A a, b \in Proofs : a.jti = b.jti => a = b
    /\ NoProof \notin Proofs

VARIABLES
    clock,
    tokenCache,   \* _jti_cache: until when each jti is remembered, 0 if it is not
    proofCache,   \* _dpop_jti_cache
    req,          \* the requests' progress
    (* history *)
    tokenUses,    \* times each access token passed its cache before its exp
    proofUses,    \* times each proof passed its cache inside its window
    firstSeen     \* the clock T1 read when a proof first passed, 0 before

history == <<tokenUses, proofUses, firstSeen>>
vars == <<clock, tokenCache, proofCache, req, history>>

Idle == [pc |-> "idle"]
Request == {Idle}
    \cup [pc : {"token", "proof"}, tok : Tokens, proof : Proofs \cup {NoProof}]
    \cup [pc : {"proofCache"}, proof : Proofs, now : Nat]

(* Time starts at 1, so that 0 can stand for "not remembered".              *)
Init ==
    /\ clock = 1
    /\ tokenCache = [j \in TokenJtis |-> 0]
    /\ proofCache = [j \in ProofJtis |-> 0]
    /\ req = [r \in Requests |-> Idle]
    /\ tokenUses = [j \in TokenJtis |-> 0]
    /\ proofUses = [j \in ProofJtis |-> 0]
    /\ firstSeen = [j \in ProofJtis |-> 0]

Tick ==
    /\ clock < MaxTime
    /\ clock' = clock + 1
    /\ UNCHANGED <<tokenCache, proofCache, req, history>>

(* The request is refused, or leaves T1 with its claims.                    *)
Done(r) == req' = [req EXCEPT ![r] = Idle]
-------------------------------------------------------------------------------
(* _JTICache.check_and_add.                                                 *)

(* The mutant forgets an entry a second early.                              *)
PurgedEarly(cache, now) ==
    [j \in DOMAIN cache |-> IF cache[j] <= now + 1 THEN 0 ELSE cache[j]]
Purged(cache, now) ==
    [j \in DOMAIN cache |-> IF cache[j] <= now THEN 0 ELSE cache[j]]
Remembered(cache) == {j \in DOMAIN cache : cache[j] # 0}

(* A full cache admits nothing new.  The mutant admits it all the same.     *)
HasRoomAlways(cache) == TRUE
HasRoom(cache) == Cardinality(Remembered(cache)) < CacheSize

Passes(cache, j, now) ==
    LET purged == Purged(cache, now) IN j \notin Remembered(purged) /\ HasRoom(purged)

(* What is remembered after the question, whatever the answer.              *)
CheckAndAdd(cache, j, exp, now) ==
    IF Passes(cache, j, now) THEN [Purged(cache, now) EXCEPT ![j] = exp]
    ELSE Purged(cache, now)
-------------------------------------------------------------------------------
(* _verify_access_token.                                                    *)

(* The claims against the clock: exp itself is still accepted.  A refusal   *)
(* for the header, the signature or another claim changes nothing.          *)
TokenFresh(tok) == clock <= tok.exp

PresentToken(r, tok, proof) ==
    /\ req[r].pc = "idle"
    /\ TokenFresh(tok)
    /\ req' = [req EXCEPT ![r] = [pc |-> "token", tok |-> tok, proof |-> proof]]
    /\ UNCHANGED <<clock, tokenCache, proofCache, history>>

TokenPassed(r) ==
    IF req[r].proof = NoProof THEN Done(r) ELSE req' = [req EXCEPT ![r].pc = "proof"]

(* The jti is remembered even when the request is refused for its session   *)
(* or its missing key binding right afterwards.                             *)
CheckToken(r) ==
    LET tok == req[r].tok
        passes == Passes(tokenCache, tok.jti, clock)
    IN  /\ req[r].pc = "token" /\ tok.jti # NoJti
        /\ tokenCache' = CheckAndAdd(tokenCache, tok.jti, tok.exp, clock)
        /\ tokenUses' = IF passes /\ clock < tok.exp
                        THEN [tokenUses EXCEPT ![tok.jti] = @ + 1] ELSE tokenUses
        /\ Done(r) \/ (passes /\ TokenPassed(r))
        /\ UNCHANGED <<clock, proofCache, proofUses, firstSeen>>

(* A token without jti is refused, or with require_jti = False not tracked. *)
PassUntracked(r) ==
    /\ req[r].pc = "token" /\ req[r].tok.jti = NoJti
    /\ Done(r) \/ TokenPassed(r)
    /\ UNCHANGED <<clock, tokenCache, proofCache, history>>
-------------------------------------------------------------------------------
(* _verify_dpop.                                                            *)

(* The window of a proof, behind the clock and ahead of it.                 *)
ProofFresh(p) == clock - p.iat <= DpopMaxAge /\ p.iat - clock <= DpopFutureSkew

PresentProof(r) ==
    /\ req[r].pc = "proof"
    /\ \/ Done(r)
       \/ /\ ProofFresh(req[r].proof)
          /\ req' = [req EXCEPT ![r] =
                       [pc |-> "proofCache", proof |-> req[r].proof, now |-> clock]]
    /\ UNCHANGED <<clock, tokenCache, proofCache, history>>

(* Until when a proof is remembered: counted from T1's reading, not from    *)
(* the proof's iat.  The mutant is off by one.                              *)
DpopExpTooSoon(now) == now + DpopMaxAge - 1
DpopExp(now) == now + DpopMaxAge

(* As for the token: ath and cnf.jkt are compared after the jti is          *)
(* remembered.                                                              *)
CheckProof(r) ==
    LET p == req[r].proof
        passes == Passes(proofCache, p.jti, clock)
    IN  /\ req[r].pc = "proofCache"
        /\ proofCache' = CheckAndAdd(proofCache, p.jti, DpopExp(req[r].now), clock)
        /\ proofUses' = IF passes /\ clock < p.iat + DpopMaxAge
                        THEN [proofUses EXCEPT ![p.jti] = @ + 1] ELSE proofUses
        /\ firstSeen' = IF passes /\ firstSeen[p.jti] = 0
                        THEN [firstSeen EXCEPT ![p.jti] = req[r].now] ELSE firstSeen
        /\ Done(r)
        /\ UNCHANGED <<clock, tokenCache, tokenUses>>

Next ==
    \/ Tick
    \/ \E r \in Requests :
        \/ \E tok \in Tokens, proof \in Proofs \cup {NoProof} : PresentToken(r, tok, proof)
        \/ CheckToken(r)
        \/ PassUntracked(r)
        \/ PresentProof(r)
        \/ CheckProof(r)

Spec == Init /\ [][Next]_vars
-------------------------------------------------------------------------------
(* Typing; the caches never hold more than jti_cache_size entries.          *)
TypeOK ==
    /\ clock \in Nat
    /\ tokenCache \in [TokenJtis -> Nat] /\ Cardinality(Remembered(tokenCache)) <= CacheSize
    /\ proofCache \in [ProofJtis -> Nat] /\ Cardinality(Remembered(proofCache)) <= CacheSize
    /\ req \in [Requests -> Request]
    /\ tokenUses \in [TokenJtis -> Nat]
    /\ proofUses \in [ProofJtis -> Nat]
    /\ firstSeen \in [ProofJtis -> Nat]

(* T1-002: an access token passes at most once before it expires, however   *)
(* requests interleave, entries are purged and the cache fills up.  (At exp *)
(* itself the claims check still accepts what the purge already forgot.)    *)
(* And a DPoP proof passes at most once inside its window, if it was not    *)
(* first used before its own iat, which the skew allows: it is remembered   *)
(* for dpop_max_age_secs from its first use, not from its iat.              *)
PassesOnce ==
    /\ \A j \in TokenJtis : tokenUses[j] <= 1
    /\ \A p \in Proofs : firstSeen[p.jti] >= p.iat => proofUses[p.jti] <= 1
===============================================================================
