---------------------------- MODULE ScanWorkflow ----------------------------
(***************************************************************************)
(* One project scan: its row in project_scans, its parent and child jobs,  *)
(* and the row in workflow_statuses that aggregates them.  Three kinds of  *)
(* actors write these rows: worker slots, the maintenance loop of a worker *)
(* and API requests.  The aggregate is read and written by two statements  *)
(* (RefreshWorkflowStatus), and so is its copy in the scan                 *)
(* (ApplyWorkflowAggregateToProjectScan).                                  *)
(*                                                                         *)
(* Leases are reduced to what JobQueue shows of them: a guarded write of a *)
(* slot goes through only while its claim is the job's latest.             *)
(***************************************************************************)
EXTENDS Naturals, FiniteSets

CONSTANTS
  Parent,       \* the project_scan job
  Children,     \* rows for security_validation_scan jobs
  MaxAttempts,
  Slots,        \* worker slots, one in each process
  Monitor,      \* the maintenance loop
  Readers,      \* API requests, one at a time each
  Late,         \* TRUE: recovery may take a job from a slot that still runs
  Errors,       \* actors whose refreshes, hooks and final writes may fail
  Stable,       \* slots whose process never dies
  NoJob, NoSlot

Jobs   == {Parent} \cup Children
Actors == Slots \cup {Monitor} \cup Readers

ASSUME ScanWorkflowAssumption ==
  /\ Parent \notin Children /\ NoJob \notin Jobs
  /\ IsFiniteSet(Children)
  /\ MaxAttempts \in Nat \ {0}
  /\ Monitor \notin Slots \cup Readers /\ Slots \cap Readers = {}
  /\ NoSlot \notin Slots /\ Stable \subseteq Slots /\ Late \in BOOLEAN /\ Errors \subseteq Actors

VARIABLES
  status, attempt, owner,  \* jobs: owner is the slot of the latest claim
  wf,                      \* workflow_statuses.aggregate_status
  scan,                    \* project_scans.status
  at, next, job, val       \* an actor: its place, where it goes on after a
                           \* refresh, its job, and the status it has read

jobVars   == <<status, attempt, owner>>
actorVars == <<at, next, job, val>>
vars      == <<jobVars, wf, scan, actorVars>>

Terminal   == {"succeeded", "failed", "cancelled"}
Finished   == Terminal \cup {"partial"}
Aggregates == {"queued", "running"} \cup Finished

Init ==
  /\ status = [j \in Jobs |-> "absent"]
  /\ attempt = [j \in Jobs |-> 0]
  /\ owner = [j \in Jobs |-> NoSlot]
  /\ wf = "absent"
  /\ scan = "absent"
  /\ at = [a \in Actors |-> "idle"]
  /\ next = [a \in Actors |-> "idle"]
  /\ job = [a \in Actors |-> NoJob]
  /\ val = [a \in Actors |-> "absent"]

-----------------------------------------------------------------------------
(* Reading the jobs of the group.                                          *)

Some(s) == \E j \in Jobs : status[j] = s
All(s)  == \A j \in Jobs : status[j] \in {"absent", s}

Ending ==
  IF All("succeeded") THEN "succeeded"
  ELSE IF All("cancelled") THEN "cancelled"
  ELSE IF Some("succeeded") THEN "partial" ELSE "failed"

Aggregate_fault == IF Some("running") THEN "running" ELSE Ending

\* aggregateStatus
Aggregate ==
  LET ended == \E s \in Terminal : Some(s)
  IN  IF Some("running") \/ (Some("queued") /\ ended) THEN "running"
      ELSE IF Some("queued") THEN "queued" ELSE Ending

\* Moving an actor; Refresh(a, l) calls RefreshWorkflowStatus and goes on at l.
Goto(a, from, to) ==
  /\ at[a] = from
  /\ at' = [at EXCEPT ![a] = to]

Forget(a) ==
  /\ next' = [next EXCEPT ![a] = "idle"]
  /\ val' = [val EXCEPT ![a] = "absent"]

Refresh(a, from, then) ==
  /\ Goto(a, from, "refresh")
  /\ next' = [next EXCEPT ![a] = then]

-----------------------------------------------------------------------------
(* RefreshWorkflowStatus: counts, then upsert.                             *)

ReadCounts(a) ==
  /\ Goto(a, "refresh", "upsert")
  /\ val' = [val EXCEPT ![a] = Aggregate]
  /\ UNCHANGED <<jobVars, wf, scan, next, job>>

Upsert(a) ==
  /\ Goto(a, "upsert", next[a])
  /\ wf' = val[a]
  /\ Forget(a)
  /\ UNCHANGED <<jobVars, scan, job>>

\* A store drops the error and goes on; a request and a read end with it.
RefreshFails(a) ==
  /\ a \in Errors /\ at[a] \in {"refresh", "upsert"}
  /\ at' = [at EXCEPT ![a] = IF a \in Readers \/ next[a] = "reread" THEN "idle" ELSE next[a]]
  /\ Forget(a)
  /\ UNCHANGED <<jobVars, wf, scan, job>>

-----------------------------------------------------------------------------
(* ApplyWorkflowAggregateToProjectScan.                                    *)

ReadWorkflow_fault(a) ==
  /\ Goto(a, "apply", "save")
  /\ val' = [val EXCEPT ![a] = wf]
  /\ UNCHANGED <<jobVars, wf, scan, next, job>>

\* WorkflowStatus creates a missing row and reads it again.
ReadWorkflow(a) ==
  /\ \/ wf # "absent" /\ Goto(a, "apply", "save") /\ UNCHANGED next
     \/ wf = "absent" /\ Refresh(a, "apply", "reread")
     \/ Goto(a, "reread", "save") /\ UNCHANGED next
  /\ val' = [val EXCEPT ![a] = wf]
  /\ UNCHANGED <<jobVars, wf, scan, job>>

SaveScan_fault(a) ==
  /\ Goto(a, "save", "idle")
  /\ scan' = IF scan = "running" THEN val[a] ELSE scan
  /\ Forget(a)
  /\ UNCHANGED <<jobVars, wf, job>>

SaveScan(a) ==
  /\ Goto(a, "save", "idle")
  /\ scan' = val[a]
  /\ Forget(a)
  /\ UNCHANGED <<jobVars, wf, job>>

ApplyFails(a) ==
  /\ a \in Errors /\ at[a] \in {"apply", "reread", "save"}
  /\ at' = [at EXCEPT ![a] = "idle"]
  /\ Forget(a)
  /\ UNCHANGED <<jobVars, wf, scan, job>>

-----------------------------------------------------------------------------
(* API.                                                                    *)

\* CreateProjectScanWithJob: job and scan in one transaction, then a refresh.
CreateScan(a) ==
  /\ a \in Readers /\ scan = "absent"
  /\ status' = [status EXCEPT ![Parent] = "queued"]
  /\ scan' = "queued"
  /\ Refresh(a, "idle", "idle")
  /\ UNCHANGED <<attempt, owner, wf, job, val>>

\* GetProjectScan reconciles, then applies the aggregate to the scan.
GetScan(a) ==
  /\ a \in Readers /\ scan # "absent"
  /\ Refresh(a, "idle", "apply")
  /\ UNCHANGED <<jobVars, wf, scan, job, val>>

\* The start of a server or a worker, and the list of workflows.
Reconcile(a) ==
  /\ a \in Readers /\ scan # "absent"
  /\ Refresh(a, "idle", "idle")
  /\ UNCHANGED <<jobVars, wf, scan, job, val>>

-----------------------------------------------------------------------------
(* Worker slots.                                                           *)

Owned_fault(a) == status[job[a]] = "running"

\* The guard of Start, Complete and Requeue.
Owned(a) == status[job[a]] = "running" /\ owner[job[a]] = a

Claim(a, j) ==
  /\ a \in Slots
  /\ status[j] = "queued" /\ attempt[j] < MaxAttempts
  /\ status' = [status EXCEPT ![j] = "running"]
  /\ attempt' = [attempt EXCEPT ![j] = @ + 1]
  /\ owner' = [owner EXCEPT ![j] = a]
  /\ job' = [job EXCEPT ![a] = j]
  /\ Refresh(a, "idle", "claimed")
  /\ UNCHANGED <<wf, scan, val>>

Start(a) ==
  /\ at[a] = "claimed"
  /\ \/ Owned(a) /\ Refresh(a, "claimed", "handler")
     \/ ~Owned(a) /\ Goto(a, "claimed", "giveup") /\ UNCHANGED next
  /\ UNCHANGED <<jobVars, wf, scan, job, val>>

\* The lock is taken, or the store reports an error before the handler runs.
NotStarted(a) ==
  /\ \/ Goto(a, "claimed", "giveup")
     \/ Goto(a, "handler", "giveup")
  /\ UNCHANGED <<jobVars, wf, scan, next, job, val>>

\* projectScanHandler: MarkProjectScanRunning.
MarkRunning(a) ==
  /\ job[a] = Parent
  /\ Goto(a, "handler", "tools")
  /\ scan' = "running"
  /\ UNCHANGED <<jobVars, wf, next, job, val>>

\* projectScanHandler: the child job is enqueued, without an idempotency key.
EnqueueChild(a, c) ==
  /\ status[c] = "absent"
  /\ status' = [status EXCEPT ![c] = "queued"]
  /\ Refresh(a, "tools", "emit")
  /\ UNCHANGED <<attempt, owner, wf, scan, job, val>>

\* EmitChildCreated, EmitProgress: an event and a refresh before the return.
Emit(a) ==
  /\ \/ Refresh(a, "emit", "ok")
     \/ Refresh(a, "handler", "ok") /\ job[a] \in Children
  /\ UNCHANGED <<jobVars, wf, scan, job, val>>

\* The handler ends: the parent's before or after its child, or without one.
HandlerEnds(a, outcome) ==
  /\ \/ Goto(a, "tools", outcome)
     \/ Goto(a, "handler", outcome) /\ (job[a] \in Children \/ outcome # "ok")
     \/ Goto(a, "emit", outcome) /\ outcome = "ok"
  /\ UNCHANGED <<jobVars, wf, scan, next, job, val>>

Outcome == {"ok", "retryable", "permanent", "cancelled"}

Settle(a, result) == status' = [status EXCEPT ![job[a]] = result] /\ UNCHANGED <<attempt, owner>>

PutBack_fault(a) ==
  /\ status' = [status EXCEPT ![job[a]] = "queued"]
  /\ owner' = [owner EXCEPT ![job[a]] = NoSlot]
  /\ UNCHANGED attempt

PutBack(a) ==
  /\ attempt[job[a]] < MaxAttempts
  /\ status' = [status EXCEPT ![job[a]] = "queued"]
  /\ owner' = [owner EXCEPT ![job[a]] = NoSlot]
  /\ UNCHANGED attempt

\* The final write, the refresh it ends with and the completion hook.  A
\* requeue calls no hook.
Finish(a) ==
  /\ at[a] \in Outcome /\ Owned(a)
  /\ \/ Settle(a, "succeeded") /\ Refresh(a, "ok", "apply")
     \/ PutBack(a) /\ Refresh(a, "retryable", "idle")
     \/ attempt[job[a]] >= MaxAttempts /\ Settle(a, "failed") /\ Refresh(a, "retryable", "apply")
     \/ Settle(a, "failed") /\ Refresh(a, "permanent", "apply")
     \/ Settle(a, "cancelled") /\ Refresh(a, "cancelled", "apply")
  /\ job' = [job EXCEPT ![a] = NoJob]
  /\ UNCHANGED <<wf, scan, val>>

\* runtimeRequeue: no hook, although the job may have ended here.
RuntimeRequeue(a) ==
  /\ at[a] = "giveup" /\ Owned(a)
  /\ \/ PutBack(a)
     \/ attempt[job[a]] >= MaxAttempts /\ Settle(a, "failed")
  /\ Refresh(a, "giveup", "idle")
  /\ job' = [job EXCEPT ![a] = NoJob]
  /\ UNCHANGED <<wf, scan, val>>

\* The lease is lost, or the write fails.
Abandon(a) ==
  /\ at[a] \in Outcome \cup {"giveup"} /\ (a \in Errors \/ ~Owned(a))
  /\ at' = [at EXCEPT ![a] = "idle"]
  /\ job' = [job EXCEPT ![a] = NoJob]
  /\ UNCHANGED <<jobVars, wf, scan, next, val>>

\* The process dies; a restarted one is another slot.
Crash(a) ==
  /\ a \in Slots \ Stable
  /\ at[a] # "dead"
  /\ at' = [at EXCEPT ![a] = "dead"]
  /\ job' = [job EXCEPT ![a] = NoJob]
  /\ Forget(a)
  /\ UNCHANGED <<jobVars, wf, scan>>

-----------------------------------------------------------------------------
(* Lease recovery: recoverToQueued and forceFail, both without the hook.   *)

\* The slot of the latest claim has stopped working on the job.
Left(j) == job[owner[j]] # j

Recover_fault(j) ==
  /\ status[j] \in {"running"} \cup Terminal
  /\ owner[j] \in Slots /\ (Late \/ Left(j))
  /\ status' = [status EXCEPT ![j] = IF attempt[j] < MaxAttempts THEN "queued" ELSE "failed"]
  /\ owner' = [owner EXCEPT ![j] = IF attempt[j] < MaxAttempts THEN NoSlot ELSE @]
  /\ Refresh(Monitor, "idle", "idle")
  /\ UNCHANGED <<attempt, wf, scan, job, val>>

Recover(j) ==
  /\ status[j] = "running"
  /\ Late \/ Left(j)
  /\ status' = [status EXCEPT ![j] = IF attempt[j] < MaxAttempts THEN "queued" ELSE "failed"]
  /\ owner' = [owner EXCEPT ![j] = IF attempt[j] < MaxAttempts THEN NoSlot ELSE @]
  /\ Refresh(Monitor, "idle", "idle")
  /\ UNCHANGED <<attempt, wf, scan, job, val>>

-----------------------------------------------------------------------------
ActorStep(a) ==
  \/ ReadCounts(a) \/ Upsert(a) \/ ReadWorkflow(a) \/ SaveScan(a)

SlotStep(a) ==
  \/ Start(a) \/ MarkRunning(a) \/ Emit(a)
  \/ \E c \in Children : EnqueueChild(a, c)
  \/ Finish(a) \/ RuntimeRequeue(a) \/ Abandon(a)
  \/ \E o \in Outcome : HandlerEnds(a, o)

Next ==
  \/ \E a \in Actors : ActorStep(a) \/ RefreshFails(a) \/ ApplyFails(a)
  \/ \E a \in Readers : CreateScan(a) \/ GetScan(a) \/ Reconcile(a)
  \/ \E a \in Slots : SlotStep(a) \/ NotStarted(a) \/ Crash(a)
  \/ \E a \in Slots, j \in Jobs : Claim(a, j)
  \/ \E j \in Jobs : Recover(j)

Spec == Init /\ [][Next]_vars

(***************************************************************************)
(* Slots, the maintenance loop and requests go on, a free slot polls, what *)
(* has expired is recovered, and somebody keeps reading the scan.          *)
(***************************************************************************)
Fairness ==
  /\ \A a \in Actors : WF_vars(ActorStep(a) \/ (a \in Slots /\ SlotStep(a)))
  /\ \A a \in Slots : SF_vars(\E j \in Jobs : Claim(a, j))
  /\ SF_vars(\E j \in Jobs : Recover(j))
  /\ \A a \in Readers : SF_vars(GetScan(a))

FairSpec == Spec /\ Fairness
=============================================================================
