----------------------------- MODULE MCGuardChain -----------------------------
(***************************************************************************)
(* Two tasks; two tools whose schemas differ between the manifests, and    *)
(* entries with names of every other kind before and between them.         *)
(***************************************************************************)
EXTENDS GuardChain, TLC

CONSTANTS x1, x2, number, object, c1, c2, k1, k2

Listed(x, c) == [name |-> x, schema |-> c]

MCManifests ==
    {<<>>,
     <<Listed(x1, c1)>>,
     <<Listed(x1, c2), Listed(x2, c1)>>,
     <<Listed(EmptyName, c1), Listed(number, c1), Listed(x1, c2)>>,
     <<Listed(x2, c2), Listed(object, c1), Listed(x1, c1)>>}

Symmetry == Permutations(Tasks)
===============================================================================
