---------------------------- MODULE JobQueueProps ----------------------------
(***************************************************************************)
(* What the job queue promises, stated over JobQueue.                      *)
(***************************************************************************)
EXTENDS JobQueue

TypeOK ==
  /\ status \in [Jobs -> Statuses]
  /\ leasedBy \in [Jobs -> Workers \cup {NoWorker}]
  /\ lease \in [Jobs -> 0 .. Lease]
  /\ stamp \in [Jobs -> Stamps]
  /\ attempt \in [Jobs -> 0 .. MaxAttempts]
  /\ wait \in [Jobs -> 0 .. Backoff]
  /\ held \in SUBSET LockRow
  /\ pc \in [Slots -> {"idle", "giveup", "handling"} \cup Before \cup Outcome]
  /\ cur \in [Slots -> Jobs \cup {NoJob}]
  /\ att \in [Slots -> 0 .. MaxAttempts]
  /\ due \in [Slots -> 0 .. Lease]
  /\ beating \in [Slots -> BOOLEAN]
  /\ mode \in [Workers -> {"up", "stopping", "down"}]
  /\ snap \in [Workers -> SUBSET SnapRow]
  /\ \A j \in Jobs : status[j] = "running" => leasedBy[j] \in Workers /\ attempt[j] > 0
  /\ \A s \in Slots :
       /\ pc[s] = "idle" <=> cur[s] = NoJob
       /\ pc[s] = "locking" => KeyOf[cur[s]] \in Keys

SingleSlot == \A s, t \in Slots : WorkerOf[s] = WorkerOf[t] => s = t

Executing(s) == pc[s] \in {"handling"} \cup Outcome

SameKey(i, j) == KeyOf[i] = KeyOf[j] /\ KeyOf[i] # NoKey

-----------------------------------------------------------------------------
(* A job in the queue has an attempt left, otherwise ClaimNext would skip  *)
(* it for ever and nothing would ever fail it: recovery only looks at      *)
(* running jobs.  GiveUp and recoverToQueued decide from copies of the row *)
(* that may be old, so this rests on the guards of their UPDATEs.          *)
QueuedIsClaimable ==
  \A j \in Jobs : status[j] = "queued" => attempt[j] < MaxAttempts

(* A slot whose writes the guard of Complete and Requeue would let through *)
(* is the one that made the latest claim: a worker that lost its lease     *)
(* cannot settle the attempt of another.                                   *)
OwnerHasLatestAttempt ==
  \A s \in Slots : pc[s] # "idle" /\ Owned(s) => att[s] = attempt[cur[s]]

(* A row recovery has read and whose UPDATE would still match describes    *)
(* the job as it is: same attempt, lease still expired.  The guard compares *)
(* only leased_by and lease_expires_at, the attempt it decides from is old. *)
RecoveryReadsHold ==
  \A w \in Workers : \A r \in snap[w] :
    SnapCurrent(r) => r.att = attempt[r.job] /\ lease[r.job] = 0

(* No two held rows of job_locks have the same key, whatever the           *)
(* interleaving of inserts, extensions and releases by different workers.  *)
HeldKeysUnique == \A r, q \in held : r.key = q.key => r = q

(* With workers that are never a whole lease late, no two handlers run at  *)
(* the same time for one job or for one business resource, through         *)
(* crashes, shutdowns, retries and recoveries.                             *)
HandlersExclusive ==
  \A s, t \in Slots :
    s # t /\ Executing(s) /\ Executing(t)
      => cur[s] # cur[t] /\ ~SameKey(cur[s], cur[t])

(* The same promise where workers may be late, asked only of handlers that *)
(* both hold an unexpired lease on their job.                              *)
LeasedHandlersExclusive ==
  \A s, t \in Slots :
    /\ s # t /\ Executing(s) /\ Executing(t)
    /\ Owned(s) /\ Owned(t)
    /\ lease[cur[s]] > 0 /\ lease[cur[t]] > 0
    => ~SameKey(cur[s], cur[t])

-----------------------------------------------------------------------------
(* A job whose lease has not expired leaves "running" only by a write of   *)
(* the slot that holds it: recovery acting on rows it read before a        *)
(* heartbeat takes nothing away.                                           *)
Settled(j) == status[j] = "running" /\ status'[j] # "running"

LiveLeaseKept ==
  [][\A j \in Jobs : Settled(j) /\ lease[j] > 0 =>
       \E s \in Slots : /\ cur[s] = j /\ WorkerOf[s] = leasedBy[j]
                        /\ pc'[s] = "idle"]_vars

(* Seen without leases, locks and time, the queue is a set of JobLifecycle *)
(* rows: no step of any worker, however late, takes a job more often than  *)
(* its attempts allow, puts it back without one or touches a settled job.  *)
Lifecycle == INSTANCE JobLifecycle WITH
  Jobs <- Jobs, MaxAttempts <- MaxAttempts, status <- status, attempt <- attempt

ImplementsLifecycle == Lifecycle!Spec

(* A job that leaves "running" leaves no lock of its last holder behind:   *)
(* the release is part of the transaction that settles the job.            *)
LocksReleasedWithJob ==
  [][\A j \in Jobs : Settled(j) =>
       \A r \in held' : ~(r.job = j /\ r.owner = leasedBy[j])]_vars

-----------------------------------------------------------------------------
(* Every job that is enqueued reaches a terminal status, whatever crashes, *)
(* shutdowns, storage errors and lock contention do, as long as one worker *)
(* process stays.                                                          *)
JobsTerminate ==
  \A j \in Jobs : status[j] = "queued" ~> status[j] \in Terminal
=============================================================================
