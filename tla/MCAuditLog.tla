------------------------------ MODULE MCAuditLog ------------------------------
(***************************************************************************)
(* Model values and key configurations for the runs of AuditLog.           *)
(***************************************************************************)
EXTENDS AuditLog, TLC

CONSTANTS w1, w2, k1, k2

(* Unsigned, k1, and a rotation from k1 to k2: while both are deployed,    *)
(* and after the previous key is removed.                                  *)
MCKeyConfigs == {[cur |-> NoKey, prev |-> NoKey], [cur |-> k1, prev |-> NoKey],
                 [cur |-> k2, prev |-> k1], [cur |-> k2, prev |-> NoKey]}

(* A process that skips on_startup, without a key.                         *)
MCUnsigned == {[cur |-> NoKey, prev |-> NoKey]}

(* Writers are interchangeable, and no property of this run is temporal.   *)
MCSymmetry == Permutations(Writers)

(* One key, and boots that lack it.                                        *)
MCOneKey == {[cur |-> NoKey, prev |-> NoKey], [cur |-> k1, prev |-> NoKey]}
===============================================================================
