------------------------------ MODULE AuditTrail ------------------------------
(***************************************************************************)
(* What the audit log promises its readers, without files, locks, threads  *)
(* or hashes: a trail that only grows at its end while it is open, that    *)
(* opens only when it is readable throughout, and then has every           *)
(* acknowledged record it has not been made to forget.                     *)
(* AuditLog is shown to implement it.                                      *)
(***************************************************************************)
EXTENDS Sequences, Naturals

CONSTANT
    Unreadable      \* an entry no reader can make out

VARIABLES
    trail,          \* the entries in the order a reader finds them
    acked,          \* the records whose writer was told "persisted"
    open            \* the trail accepts records

vars == <<trail, acked, open>>

Present(r) == \E i \in 1..Len(trail) : trail[i] = r
Readable == \A i \in 1..Len(trail) : trail[i] # Unreadable

Init ==
    /\ trail = <<>>
    /\ acked = {}
    /\ open = FALSE

(* At most one more entry, at the end; or the last one spoilt.             *)
Grows ==
    \/ UNCHANGED trail
    \/ /\ Len(trail') = Len(trail) + 1
       /\ trail' = Append(trail, trail'[Len(trail')])
    \/ /\ trail # <<>>
       /\ trail' = [trail EXCEPT ![Len(trail)] = Unreadable]

Write ==
    /\ open
    /\ Grows
    /\ UNCHANGED <<acked, open>>

Acknowledge ==
    /\ open
    /\ acked \subseteq acked'
    /\ Readable => \A r \in acked' : Present(r)
    /\ UNCHANGED <<trail, open>>

(* The medium may lose the end of a closed trail, and forget that it ever  *)
(* had a record; it does not forget one it still has.                      *)
Lose(n) ==
    /\ ~open
    /\ n \in 0..Len(trail)
    /\ trail' \in {SubSeq(trail, 1, n), Append(SubSeq(trail, 1, n), Unreadable)}
    /\ acked' \subseteq acked
    /\ \A r \in acked \ acked' : ~Present(r)'
    /\ UNCHANGED open

(* A trail with an unreadable entry, or without a record it knows it has   *)
(* acknowledged, does not open.                                            *)
Open ==
    /\ ~open
    /\ Readable
    /\ \A r \in acked : Present(r)
    /\ open' = TRUE
    /\ UNCHANGED <<trail, acked>>

(* An entry may be under way when the trail closes.                        *)
Close ==
    /\ open
    /\ Grows
    /\ open' = FALSE
    /\ UNCHANGED acked

Next ==
    \/ Write
    \/ Acknowledge
    \/ \E n \in 0..Len(trail) : Lose(n)
    \/ Open
    \/ Close

Spec == Init /\ [][Next]_vars
===============================================================================
