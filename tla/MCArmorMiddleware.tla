-------------------------- MODULE MCArmorMiddleware --------------------------
(***************************************************************************)
(* Small instances of ArmorMiddleware: two requests in flight, two session *)
(* ids, an upstream that may change its manifest.                          *)
(***************************************************************************)
EXTENDS ArmorMiddleware, TLC

CONSTANTS s1, s2, r1, r2, m1, m2

(* Safety runs only: sessions, coroutines and manifests are interchangeable.*)
Symmetric == Permutations({s1, s2}) \cup Permutations({r1, r2}) \cup Permutations({m1, m2})
=============================================================================
