---------------------------- MODULE ResourceLedger ----------------------------
(***************************************************************************)
(* engines/resources.py (T10): the last-seen table the zombie reaper works *)
(* on and the LRU-bounded budget ledger that outlives it.                  *)
(*                                                                         *)
(* A caller hands each hook a CoSAIContext; of its budget only calls_used  *)
(* is kept here, and it may be stale: two requests of a session hold       *)
(* copies of one context, and an adapter rebuilds a zero one after an      *)
(* eviction.  Every hook runs without an await, so each is one step.       *)
(* Time is reduced to whether a session has been silent for more than      *)
(* heartbeat_interval_secs; the wall-clock, loop-depth and argument-depth  *)
(* limits are refusals that may come at any request.                       *)
(***************************************************************************)
EXTENDS ResourceLimits, Sequences, SequencesExt

CONSTANT Sessions  \* session ids (the signed tokens)

VARIABLES
    lastSeen,   \* _session_last_seen: no entry, fresh, or past the heartbeat
    order,      \* _session_budgets: its keys, least recently used first
    used,       \* _session_budgets: calls_used of each entry
    (* history *)
    admitted,   \* content requests admitted on an open session, while not dropped
    dropped     \* sessions whose entry the LRU bound threw away

ledgerVars == <<lastSeen, order, used, admitted, dropped>>

HasEntry(s) == \E i \in DOMAIN order : order[i] = s

(* calls_used after _restore_budget: a persisted entry wins over the        *)
(* context's own count.  The mutant trusts the context.                     *)
RestoredTrustsContext(s, calls) == calls
Restored(s, calls) == IF HasEntry(s) THEN used[s] ELSE calls

(* The mutant is off by one.                                                *)
WithinLimitOrAtIt(s, calls) == Restored(s, calls) <= MaxCalls
WithinLimit(s, calls) == Restored(s, calls) < MaxCalls

Without(s) ==
    IF HasEntry(s)
    THEN RemoveAt(order, CHOOSE i \in DOMAIN order : order[i] = s)
    ELSE order

MoveToEnd(s) == Append(Without(s), s)

(* _save_budget: the entry becomes the most recently used one and the least *)
(* recently used one goes when there are too many.                          *)
Save(s, calls) ==
    /\ used' = [used EXCEPT ![s] = calls]
    /\ \/ /\ Len(MoveToEnd(s)) <= LedgerCap
          /\ order' = MoveToEnd(s)
          /\ dropped' = dropped
       \/ /\ Len(MoveToEnd(s)) > LedgerCap
          /\ order' = Tail(MoveToEnd(s))
          /\ dropped' = dropped \cup {Head(MoveToEnd(s))}

-----------------------------------------------------------------------------
Init ==
    /\ lastSeen = [s \in Sessions |-> "none"]
    /\ order = <<>>
    /\ used = [s \in Sessions |-> 0]
    /\ admitted = [s \in Sessions |-> 0]
    /\ dropped = {}

(* on_session_start: the session is seen and its entry made or resumed.     *)
SessionStart(s, calls) ==
    /\ lastSeen' = [lastSeen EXCEPT ![s] = "fresh"]
    /\ Save(s, Restored(s, calls))
    /\ UNCHANGED admitted

(* on_request, a method that bears no content: only last-seen is refreshed. *)
Seen(s) ==
    /\ lastSeen' = [lastSeen EXCEPT ![s] = "fresh"]
    /\ UNCHANGED <<order, used, admitted, dropped>>

(* on_request, a content-bearing method within the limits.                  *)
Charge(s, calls) ==
    /\ WithinLimit(s, calls)
    /\ lastSeen' = [lastSeen EXCEPT ![s] = "fresh"]
    /\ Save(s, Restored(s, calls) + 1)
    /\ admitted' = IF s \in dropped THEN admitted ELSE [admitted EXCEPT ![s] = @ + 1]

(* on_request, a content-bearing method over a limit: the entry is moved    *)
(* to the end by _restore_budget before ResourceExceededError is raised.    *)
Refuse(s) ==
    /\ lastSeen' = [lastSeen EXCEPT ![s] = "fresh"]
    /\ order' = IF HasEntry(s) THEN MoveToEnd(s) ELSE order
    /\ UNCHANGED <<used, admitted, dropped>>

(* on_session_end: the only place that forgets a session altogether.        *)
SessionEnd(s) ==
    /\ lastSeen' = [lastSeen EXCEPT ![s] = "none"]
    /\ order' = Without(s)
    /\ used' = [used EXCEPT ![s] = 0]
    /\ admitted' = [admitted EXCEPT ![s] = 0]
    /\ dropped' = dropped \ {s}

(* heartbeat_interval_secs pass without a request of the session.           *)
FallSilent(s) ==
    /\ lastSeen[s] = "fresh"
    /\ lastSeen' = [lastSeen EXCEPT ![s] = "silent"]
    /\ UNCHANGED <<order, used, admitted, dropped>>

Zombies == {s \in Sessions : lastSeen[s] = "silent"}

(* _reap_zombie_sessions: all silent sessions leave the last-seen table;    *)
(* the ledger is left alone.                                                *)
ReapForgetsBudget ==
    /\ Zombies # {}
    /\ lastSeen' = [s \in Sessions |-> IF s \in Zombies THEN "none" ELSE lastSeen[s]]
    /\ order' = SelectSeq(order, LAMBDA s : s \notin Zombies)
    /\ UNCHANGED <<used, admitted, dropped>>

Reap ==
    /\ Zombies # {}
    /\ lastSeen' = [s \in Sessions |-> IF s \in Zombies THEN "none" ELSE lastSeen[s]]
    /\ UNCHANGED <<order, used, admitted, dropped>>

Hook(s) ==
    \/ \E calls \in 0..MaxCalls : SessionStart(s, calls) \/ Charge(s, calls)
    \/ Seen(s)
    \/ Refuse(s)
    \/ SessionEnd(s)
    \/ FallSilent(s)

Next == Reap \/ \E s \in Sessions : Hook(s)

Spec == Init /\ [][Next]_ledgerVars
-----------------------------------------------------------------------------
(* The ledger is an OrderedDict (no key twice) that never outgrows its cap. *)
TypeOK ==
    /\ lastSeen \in [Sessions -> {"none", "fresh", "silent"}]
    /\ order \in Seq(Sessions) /\ Len(order) <= LedgerCap
    /\ \A i, j \in DOMAIN order : order[i] = order[j] => i = j
    /\ used \in [Sessions -> 0..MaxCalls]
    /\ admitted \in [Sessions -> Nat]
    /\ dropped \subseteq Sessions

(* However stale the contexts the requests carry, and however often the     *)
(* session is reaped and revived in between, no more content requests pass  *)
(* than max_calls_per_session, unless the LRU bound dropped the entry:      *)
(* "the persisted budget wins over a rebuilt zero one".                     *)
BudgetCap == \A s \in Sessions \ dropped : admitted[s] <= MaxCalls

(* A live entry's count never goes down but when the session is closed:     *)
(* neither a reaper pass nor a rebuilt context refunds a call.              *)
NoRefunds ==
    [][\A s \in Sessions :
          HasEntry(s) /\ HasEntry(s)' => used'[s] >= used[s]]_ledgerVars
=============================================================================
