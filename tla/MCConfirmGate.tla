---------------------------- MODULE MCConfirmGate ----------------------------
(***************************************************************************)
(* Two calls of one session, two more sessions of the same user, and two   *)
(* stateless principals, so that every quota can be the one that is        *)
(* reached; and calls that never get as far as a confirmation.             *)
(***************************************************************************)
EXTENDS ConfirmGate, TLC

CONSTANTS r1, r2, r3, r4, r5, r6, r7, r8, r9,
          a1, a2, s1, s2, s3, u1, u2, u3, u4, org, tool, open, t1, t2

MCPolicies ==
    tool :> [required |-> {"write"}, userOnly |-> TRUE, tenantIsolated |-> TRUE,
             destructive |-> TRUE]
    @@ open :> [required |-> {}, userOnly |-> FALSE, tenantIsolated |-> FALSE,
                destructive |-> TRUE]

InSession(s) ==
    [stateless |-> FALSE, session |-> s, user |-> u1, tenant |-> org, scopes |-> {"write"}]
Stateless(u) ==
    [stateless |-> TRUE, session |-> Absent, user |-> u, tenant |-> org, scopes |-> {"write"}]
CallOf(x, a) ==
    [method |-> "tools/call", name |-> x, uri |-> Absent, tenant |-> org, arguments |-> a]

(* The last three lack a scope, name no tenant, have nobody to bind to.     *)
MCCaller ==
    r1 :> InSession(s1) @@ r2 :> InSession(s1) @@ r3 :> InSession(s2) @@ r4 :> InSession(s3)
    @@ r5 :> Stateless(u2) @@ r6 :> Stateless(u3)
    @@ r7 :> [Stateless(u4) EXCEPT !.scopes = {}] @@ r8 :> Stateless(u4)
    @@ r9 :> Stateless(Absent)
MCCall ==
    r2 :> CallOf(tool, a2) @@ r8 :> [CallOf(tool, a1) EXCEPT !.tenant = Absent]
    @@ r9 :> CallOf(open, a1) @@ [r \in {r1, r3, r4, r5, r6, r7} |-> CallOf(tool, a1)]

(* Threads are alike, and so are the calls of the first session, the two    *)
(* other sessions, and the two stateless principals.                        *)
Swap(x, y) == [v \in {x, y} |-> IF v = x THEN y ELSE x]
Symmetry == Permutations(Threads) \cup {Swap(r1, r2), Swap(r3, r4), Swap(r5, r6)}
===============================================================================
