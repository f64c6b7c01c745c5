--------------------------- MODULE MCCloneRequests ---------------------------
(***************************************************************************)
(* One directory, which is empty or holds what discovery found after, or   *)
(* without, a clone of the first repository.  The requests that meet: two  *)
(* clones of different repositories and a pull of the first, a clone and   *)
(* its retry, or three pulls with one key, one of them for another card.   *)
(***************************************************************************)
EXTENDS CloneRequestsProps, TLC
CONSTANTS a, b, again, p, q, pAgain, i1, i2, d1, key

MCIdentity == (a :> i1) @@ (b :> i2) @@ (again :> i1)
MCTarget   == [r \in {a, b, again} |-> d1]
MCPullRow  == (p :> i1) @@ (q :> d1) @@ (pAgain :> i1)
MCIdemKey  == (b :> NoIdem) @@ [r \in {a, again, p, q, pAgain} |-> key]

Cloned  == [who |-> i1, at |-> d1, status |-> "active"]
Found   == [who |-> Local, at |-> d1, status |-> "active"]

Meeting == {{a, b, p}, {a, again}, {p, q, pAgain}}

MCInit ==
  /\ Init
  /\ {r \in Requests : at[r] = "new"} \in Meeting
  /\ repo[i1] \in {NoCard, Cloned} /\ repo[i2] = NoCard
  /\ repo[d1] \in {NoCard, Found} /\ (repo[d1] = NoCard => repo[i1] = NoCard)
  /\ rootKnown = (repo[d1] # NoCard)
  /\ disk[d1] = IF repo[d1] = NoCard THEN Empty ELSE Whole(i1)

MCSpec == MCInit /\ [][Next]_vars
=============================================================================
