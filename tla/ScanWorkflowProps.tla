------------------------- MODULE ScanWorkflowProps -------------------------
(***************************************************************************)
(* What a project scan shows of its jobs, stated over ScanWorkflow.        *)
(***************************************************************************)
EXTENDS ScanWorkflow

Places == {"idle", "dead", "refresh", "upsert", "apply", "reread", "save", "claimed", "handler",
           "tools", "emit", "ok", "retryable", "permanent", "cancelled", "giveup"}

TypeOK ==
  /\ status \in [Jobs -> {"absent", "queued", "running"} \cup Terminal]
  /\ attempt \in [Jobs -> 0 .. MaxAttempts]
  /\ owner \in [Jobs -> Slots \cup {NoSlot}]
  /\ wf \in {"absent"} \cup Aggregates
  /\ scan \in {"absent"} \cup Aggregates
  /\ at \in [Actors -> Places]
  /\ next \in [Actors -> Places]
  /\ job \in [Actors -> Jobs \cup {NoJob}]
  /\ val \in [Actors -> {"absent"} \cup Aggregates]
  /\ scan = "absent" <=> status[Parent] = "absent"

Ended == status[Parent] # "absent" /\ \A j \in Jobs : status[j] \in {"absent"} \cup Terminal

(* A scan or a workflow that is shown as finished is finished, and shows   *)
(* how it ended: no refresh, however late, no retry, no crash and no       *)
(* second writer makes it claim an end its jobs have not reached.          *)
FinishedTruthfully ==
  \A s \in {wf, scan} : s \in Finished => Ended /\ s = Aggregate

(* A scan whose jobs have all ended stays so: the only job that adds jobs  *)
(* to a group adds them before it ends itself.                             *)
EndIsFinal == [][Ended => UNCHANGED status]_vars

(* The rows of jobs behave as JobLifecycle describes.                      *)
Lifecycle == INSTANCE JobLifecycle WITH
  Jobs <- Jobs, MaxAttempts <- MaxAttempts, status <- status, attempt <- attempt

ImplementsLifecycle == Lifecycle!Spec

(* A scan that somebody keeps reading ends up with the aggregate of its    *)
(* jobs, in both tables, in spite of stale refreshes, of refreshes and     *)
(* hooks that were lost, and of slots that die.                            *)
ReadsConverge == (scan # "absent") ~> [](Ended /\ wf = Aggregate /\ scan = Aggregate)

-----------------------------------------------------------------------------
(* Statements of the documentation.                                        *)

(* When all jobs of a scan have ended and nobody is at work any more, the  *)
(* row of the scan shows it.                                               *)
Quiet == \A a \in Actors : at[a] \in {"idle", "dead"}

ScanFollowsJobs == Ended /\ Quiet => scan = Aggregate

(* A repeated operation creates no second job for the same scan.           *)
OneChild == Cardinality({c \in Children : status[c] # "absent"}) <= 1
=============================================================================
