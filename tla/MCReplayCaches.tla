---------------------------- MODULE MCReplayCaches ----------------------------
(***************************************************************************)
(* Two access tokens with a jti and one without; a proof of the first      *)
(* second and one that may arrive ahead of its iat.                        *)
(***************************************************************************)
EXTENDS ReplayCaches, TLC

CONSTANTS a1, a2, d1, d2, r1, r2

MCTokens == {[jti |-> a1, exp |-> 3], [jti |-> a2, exp |-> 4], [jti |-> NoJti, exp |-> 4]}
MCProofs == {[jti |-> d1, iat |-> 1], [jti |-> d2, iat |-> 3]}

Symmetry == Permutations(Requests)
===============================================================================
