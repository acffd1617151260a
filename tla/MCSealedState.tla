---------------------------- MODULE MCSealedState ----------------------------
(***************************************************************************)
(* Two threads and four principals of one tenant: an owner's quota, the    *)
(* tenant's soft cap and its ceiling can each be the one that is reached.  *)
(***************************************************************************)
EXTENDS SealedState, TLC

CONSTANTS th1, th2, p1, p2, p3, p4, t1

MCOwners == {[principal |-> p1, tenant |-> t1], [principal |-> p2, tenant |-> t1],
             [principal |-> p3, tenant |-> t1], [principal |-> p4, tenant |-> t1]}

Symmetry == Permutations(Threads) \cup Permutations({p1, p2, p3, p4})
===============================================================================
