---------------------------- MODULE ResourceLimits ----------------------------
(***************************************************************************)
(* What engines/resources.py, ResourceEngine.__init__, is configured with: *)
(* shared by the ledger and by the middleware that calls it.               *)
(***************************************************************************)
EXTENDS Naturals

CONSTANTS
    MaxCalls,  \* max_calls_per_session
    LedgerCap  \* _max_budget_entries

ASSUME LimitsAssumption == MaxCalls \in Nat /\ LedgerCap \in Nat \ {0}
===============================================================================
