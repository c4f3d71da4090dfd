---------------------------- MODULE MCDiscovery ----------------------------
(***************************************************************************)
(* Servers of two content roots, one of which contains the working         *)
(* directory of the agents.                                                *)
(***************************************************************************)
EXTENDS Discovery, TLC

CONSTANTS s1, s2, s3, here, there

TwoRoots == s1 :> here @@ s2 :> there @@ s3 :> here
OneEach == s1 :> here @@ s2 :> there
\* Process ids and addresses are interchangeable, and so are the servers of one root.
Symmetry == Permutations(Pids) \union Permutations(Urls) \union Permutations({s1, s3})
=============================================================================
