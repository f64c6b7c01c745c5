------------------------- MODULE MCStorageMigration -------------------------
(* Instances of StorageMigration for TLC. *)
EXTENDS StorageMigration, TLC

CONSTANTS a, b, c, m, card, project

CardAndProject == card :> 2 @@ project :> 3

\* A project belongs to a repository.
Pair == card :> None @@ project :> card

DbsSwap == Permutations({a, b, c})
=============================================================================
