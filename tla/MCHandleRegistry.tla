-------------------------- MODULE MCHandleRegistry --------------------------
(***************************************************************************)
(* Two threads and two principals that share a tenant; caps small enough   *)
(* that the soft ones and a tenant's ceiling are reached.                  *)
(***************************************************************************)
EXTENDS HandleRegistry

CONSTANTS th1, th2, p1, p2, t1

MCOwners == {[principal |-> p1, tenant |-> t1], [principal |-> p2, tenant |-> t1]}
=============================================================================
