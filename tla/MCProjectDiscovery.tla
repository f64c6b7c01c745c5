------------------------- MODULE MCProjectDiscovery -------------------------
(***************************************************************************)
(* A repository at the root with a project in it and one below, and a      *)
(* directory below that may hold a repository of its own, into which one   *)
(* repository is cloned.                                                   *)
(***************************************************************************)
EXTENDS ProjectDiscovery, TLC
CONSTANTS p1, p2, c1, sub, root, i1

MCPath == (p1 :> <<sub, root>>) @@ (p2 :> <<sub>>)
MCIdentity == c1 :> i1
MCTarget == c1 :> sub

MCInit == Init /\ marker[root] = "directory" /\ marker[sub] \in {"none", "gitfile", "other"}
MCSpec == MCInit /\ [][Next]_vars
=============================================================================
