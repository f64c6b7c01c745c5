--------------------------- MODULE MCRuntimeConfig --------------------------
(***************************************************************************)
(* Instances of RuntimeConfig for TLC.  No operation reads or writes two   *)
(* of the tables module_states, root_paths and ignore_rules, so a          *)
(* behaviour of the instance is at work on one of them only.               *)
(***************************************************************************)
EXTENDS RuntimeConfig

CONSTANTS core, web, p1, p2, r1, r2, g1, q1, q2

OnModules ==
  \/ \E m \in Modules : state[m] # "absent"
  \/ \E q \in Procs : at[q] \in {"seed", "get", "mark", "act"}

OnRoots ==
  \/ \E i \in RootIds : root[i] # NoRoot
  \/ \E q \in Procs : at[q] \in {"sync", "disable"} \cup Upserting

OnRules ==
  \/ \E g \in Patterns : rule[g] # "none"
  \/ \E q \in Procs : at[q] \in {"ruleInsert", "ruleUpdate"}

OneTable == ~(OnModules /\ OnRoots) /\ ~(OnModules /\ OnRules) /\ ~(OnRoots /\ OnRules)
=============================================================================
