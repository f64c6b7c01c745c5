------------------------------ MODULE JobQueue ------------------------------
(***************************************************************************)
(* The persistent job queue of t-helper: the tables jobs and job_locks,    *)
(* the worker slots that run one claimed job each (Runtime.RunOnce), their *)
(* heartbeat goroutines and the maintenance loop that recovers expired     *)
(* leases.  One action is one SQL transaction or one autocommitted         *)
(* statement, so that everything another process can do between two of     *)
(* them happens here too.                                                  *)
(*                                                                         *)
(* Time.  lease_expires_at, expires_at and run_after are compared with the *)
(* clock only as "already reached or not", so each is kept as the number   *)
(* of ticks that remain, 0 meaning reached.  Recovery also compares        *)
(* lease_expires_at with the value it read earlier; a renewal writes       *)
(* now + lease, later than any value that has been read as expired, so     *)
(* stamp[j] names the value a row holds and a renewal takes one that no    *)
(* pending recovery remembers.                                             *)
(***************************************************************************)
EXTENDS Naturals, FiniteSets

CONSTANTS
  Jobs,         \* rows that can be enqueued
  Workers,      \* worker processes, each with its own worker_id
  Slots,        \* goroutines that run jobs, in all processes
  WorkerOf,     \* the process of a slot; its id is what the slot writes
  Keys,         \* business resources
  KeyOf,        \* lock_key of a job, or NoKey
  Handled,      \* jobs whose type has a registered handler
  MaxAttempts,  \* max_attempts
  Lease,        \* lease duration, in ticks
  Backoff,      \* longest retry delay, in ticks
  Punctual,     \* TRUE: no live worker is ever a whole lease late
  Stable,       \* worker processes that are never stopped
  NoKey, NoJob, NoWorker

ASSUME JobQueueAssumption ==
  /\ WorkerOf \in [Slots -> Workers]
  /\ KeyOf \in [Jobs -> Keys \cup {NoKey}]
  /\ NoKey \notin Keys /\ NoJob \notin Jobs /\ NoWorker \notin Workers
  /\ Handled \subseteq Jobs /\ Stable \subseteq Workers
  /\ MaxAttempts \in Nat \ {0} /\ Lease \in Nat \ {0} /\ Backoff \in Nat \ {0}
  /\ Punctual \in BOOLEAN
  /\ IsFiniteSet(Workers)

VARIABLES
  \* table jobs
  status, leasedBy, lease, stamp, attempt, wait,
  \* table job_locks: the rows whose status is 'held'
  held,
  \* a slot: where RunOnce stands, its copy of the job and the expiry it
  \* computed for a lock row it has yet to write
  pc, cur, att, due,
  \* a slot's heartbeat has renewed the job but not yet its locks
  beating,
  \* a process: its run state and the expired rows its recovery has read
  mode, snap

jobVars  == <<status, leasedBy, lease, stamp, attempt, wait>>
slotVars == <<pc, cur, att, due, beating>>
vars     == <<jobVars, held, slotVars, mode, snap>>

Terminal == {"succeeded", "failed", "cancelled"}
Statuses == {"absent", "queued", "running"} \cup Terminal
Stamps   == 0 .. Cardinality(Workers)
LockRow  == [key : Keys, job : Jobs, owner : Workers, left : 0 .. Lease]
SnapRow  == [job : Jobs, by : Workers, stamp : Stamps, att : 1 .. MaxAttempts]

\* RunOnce before the handler runs, and after it returned.
Before  == {"claimed", "locking", "locked", "started"}
Outcome == {"ok", "retryable", "permanent", "cancelled"}

Dec(n) == IF n > 0 THEN n - 1 ELSE 0

Init ==
  /\ status = [j \in Jobs |-> "absent"]
  /\ leasedBy = [j \in Jobs |-> NoWorker]
  /\ lease = [j \in Jobs |-> 0]
  /\ stamp = [j \in Jobs |-> 0]
  /\ attempt = [j \in Jobs |-> 0]
  /\ wait = [j \in Jobs |-> 0]
  /\ held = {}
  /\ pc = [s \in Slots |-> "idle"]
  /\ cur = [s \in Slots |-> NoJob]
  /\ att = [s \in Slots |-> 0]
  /\ due = [s \in Slots |-> 0]
  /\ beating = [s \in Slots |-> FALSE]
  /\ mode = [w \in Workers |-> "up"]
  /\ snap = [w \in Workers |-> {}]

-----------------------------------------------------------------------------
(* Conditions of the SQL statements.  The operators whose name ends in     *)
(* _fault are plausible slips, used only to show that the checks notice.   *)

Up(s) == mode[WorkerOf[s]] = "up"

\* WHERE status = 'queued' AND run_after <= now AND attempt_count < max_attempts
Claimable(j) ==
  /\ status[j] = "queued"
  /\ wait[j] = 0
  /\ attempt[j] < MaxAttempts

Owned_fault(s) == status[cur[s]] = "running"

\* WHERE id = ? AND leased_by = ? AND status = 'running'
Owned(s) == status[cur[s]] = "running" /\ leasedBy[cur[s]] = WorkerOf[s]

\* The row recovery has read is still the row in the table.
SnapCurrent_fault(r) == status[r.job] = "running"

\* AND status = 'running' AND leased_by = ? AND lease_expires_at = ?
SnapCurrent(r) ==
  /\ status[r.job] = "running"
  /\ leasedBy[r.job] = r.by
  /\ stamp[r.job] = r.stamp

KeyFree_fault(k) == TRUE

\* The partial unique index on job_locks(lock_key) WHERE status = 'held'.
KeyFree(k) == \A r \in held : r.key # k

\* Held lock rows of a job that a worker owns.
RowsOf(j, w) == {r \in held : r.job = j /\ r.owner = w}

\* Held lock rows of a job, whoever owns them.
JobRows(j) == {r \in held : r.job = j}

Renew_fault(j) == lease' = [lease EXCEPT ![j] = @ + Lease] /\ UNCHANGED stamp

\* lease_expires_at = now + lease, a value no pending recovery has read.
Renew(j) ==
  LET remembered == {r.stamp : r \in {x \in UNION {snap[w] : w \in Workers} : x.job = j}}
  IN  /\ lease' = [lease EXCEPT ![j] = Lease]
      /\ \E n \in Stamps \ remembered :
           /\ \A m \in Stamps \ remembered : n <= m
           /\ stamp' = [stamp EXCEPT ![j] = n]

\* RunOnce returns; the slot's loop polls again.
Return(s) ==
  /\ pc' = [pc EXCEPT ![s] = "idle"]
  /\ cur' = [cur EXCEPT ![s] = NoJob]
  /\ att' = [att EXCEPT ![s] = 0]
  /\ due' = [due EXCEPT ![s] = 0]
  /\ UNCHANGED beating

Goto(s, from, to) ==
  /\ pc[s] = from
  /\ pc' = [pc EXCEPT ![s] = to]

-----------------------------------------------------------------------------
(* Store.                                                                  *)

\* The job becomes queued again, its lease columns NULL.
BackToQueue(j, d) ==
  /\ status' = [status EXCEPT ![j] = "queued"]
  /\ leasedBy' = [leasedBy EXCEPT ![j] = NoWorker]
  /\ lease' = [lease EXCEPT ![j] = 0]
  /\ wait' = [wait EXCEPT ![j] = d]
  /\ UNCHANGED <<stamp, attempt>>

\* Complete, with its error when the lease is gone.
Complete(s, result) ==
  /\ \/ /\ Owned(s)
        /\ status' = [status EXCEPT ![cur[s]] = result]
        /\ held' = held \ RowsOf(cur[s], WorkerOf[s])
     \/ ~Owned(s) /\ UNCHANGED <<status, held>>
  /\ UNCHANGED <<leasedBy, lease, stamp, attempt, wait>>

\* Requeue, with its error when the lease is gone.
Requeue(s) ==
  \/ /\ Owned(s)
     /\ \E d \in 1 .. Backoff : BackToQueue(cur[s], d)
     /\ held' = held \ RowsOf(cur[s], WorkerOf[s])
  \/ ~Owned(s) /\ UNCHANGED <<jobVars, held>>

Enqueue(j) ==
  /\ status[j] = "absent"
  /\ status' = [status EXCEPT ![j] = "queued"]
  /\ UNCHANGED <<leasedBy, lease, stamp, attempt, wait, held, slotVars, mode, snap>>

-----------------------------------------------------------------------------
(* RunOnce, one step per statement.                                        *)

Claim(s, j) ==
  /\ Goto(s, "idle", "claimed")
  /\ Up(s)
  /\ Claimable(j)
  /\ status' = [status EXCEPT ![j] = "running"]
  /\ leasedBy' = [leasedBy EXCEPT ![j] = WorkerOf[s]]
  /\ Renew(j)
  /\ attempt' = [attempt EXCEPT ![j] = @ + 1]
  /\ cur' = [cur EXCEPT ![s] = j]
  /\ att' = [att EXCEPT ![s] = attempt[j] + 1]
  /\ UNCHANGED <<wait, held, due, beating, mode, snap>>

\* No handler is registered for the type: failed without a retry.
UnknownType(s) ==
  /\ pc[s] = "claimed" /\ cur[s] \notin Handled /\ Up(s)
  /\ Complete(s, "failed")
  /\ Return(s)
  /\ UNCHANGED <<mode, snap>>

\* AcquireLock, first statement: every lapsed row gives up its key.
ExpireLocks(s) ==
  /\ pc[s] = "claimed" /\ cur[s] \in Handled /\ Up(s)
  /\ IF KeyOf[cur[s]] = NoKey
       THEN pc' = [pc EXCEPT ![s] = "locked"] /\ UNCHANGED <<held, due>>
       ELSE /\ pc' = [pc EXCEPT ![s] = "locking"]
            /\ due' = [due EXCEPT ![s] = Lease]
            /\ held' = {r \in held : r.left > 0}
  /\ UNCHANGED <<jobVars, cur, att, beating, mode, snap>>

\* AcquireLock, second statement: the insert the unique index may refuse.
InsertLock(s) ==
  LET key == KeyOf[cur[s]] IN
  /\ pc[s] = "locking" /\ Up(s)
  /\ IF KeyFree(key)
       THEN /\ held' = held \cup {[key |-> key, job |-> cur[s],
                                   owner |-> WorkerOf[s], left |-> due[s]]}
            /\ pc' = [pc EXCEPT ![s] = "locked"]
       ELSE pc' = [pc EXCEPT ![s] = "giveup"] /\ UNCHANGED held
  /\ due' = [due EXCEPT ![s] = 0]
  /\ UNCHANGED <<jobVars, cur, att, beating, mode, snap>>

Start(s) ==
  /\ Up(s)
  /\ Goto(s, "locked", IF Owned(s) THEN "started" ELSE "giveup")
  /\ UNCHANGED <<jobVars, held, cur, att, due, beating, mode, snap>>

\* The progress event, then the handler and its heartbeat goroutine.
Handle(s) ==
  /\ Up(s)
  /\ Goto(s, "started", "handling")
  /\ UNCHANGED <<jobVars, held, cur, att, due, beating, mode, snap>>

\* AcquireLock, Start or AddEvent reports an error.
StoreError(s) ==
  /\ pc[s] \in Before /\ ~(pc[s] = "claimed" /\ cur[s] \notin Handled)
  /\ pc' = [pc EXCEPT ![s] = "giveup"]
  /\ due' = [due EXCEPT ![s] = 0]
  /\ UNCHANGED <<jobVars, held, cur, att, beating, mode, snap>>

GiveUp_fault(s) == Requeue(s)

\* runtimeRequeue: the outcome depends on the slot's own copy of the job.
GiveUp(s) ==
  IF att[s] >= MaxAttempts THEN Complete(s, "failed") ELSE Requeue(s)

RuntimeRequeue(s) ==
  /\ pc[s] = "giveup" /\ Up(s)
  /\ GiveUp(s)
  /\ Return(s)
  /\ UNCHANGED <<mode, snap>>

HandlerReturns(s, outcome) ==
  /\ Goto(s, "handling", outcome)
  /\ UNCHANGED <<jobVars, held, cur, att, due, beating, mode, snap>>

\* The final write, after the heartbeat goroutine has ended.  A handler
\* cancelled by the shutdown of its process leaves the job to recovery.
Finish(s) ==
  /\ ~beating[s]
  /\ \/ pc[s] = "ok" /\ Complete(s, "succeeded")
     \/ pc[s] = "retryable" /\ GiveUp(s)
     \/ pc[s] = "permanent" /\ Complete(s, "failed")
     \/ pc[s] = "cancelled" /\ Up(s) /\ Complete(s, "cancelled")
     \/ pc[s] = "cancelled" /\ ~Up(s) /\ UNCHANGED <<jobVars, held>>
  /\ Return(s)
  /\ UNCHANGED <<mode, snap>>

\* The last write of RunOnce fails: the job stays running under its lease.
Abandon(s) ==
  /\ \/ pc[s] \in {"giveup"} \cup Outcome
     \/ pc[s] = "claimed" /\ cur[s] \notin Handled
  /\ ~beating[s]
  /\ Return(s)
  /\ UNCHANGED <<jobVars, held, mode, snap>>

-----------------------------------------------------------------------------
(* The heartbeat goroutine: two statements, not one transaction.           *)

BeatJob(s) ==
  /\ pc[s] = "handling" /\ ~beating[s] /\ Owned(s)
  /\ Renew(cur[s])
  /\ due' = [due EXCEPT ![s] = Lease]
  /\ beating' = [beating EXCEPT ![s] = TRUE]
  /\ UNCHANGED <<status, leasedBy, attempt, wait, held, pc, cur, att, mode, snap>>

\* ExtendLocks, with the expiry computed before the first statement.
BeatLocks(s) ==
  LET mine == RowsOf(cur[s], WorkerOf[s]) IN
  /\ beating[s]
  /\ held' = (held \ mine) \cup {[r EXCEPT !.left = due[s]] : r \in mine}
  /\ due' = [due EXCEPT ![s] = 0]
  /\ beating' = [beating EXCEPT ![s] = FALSE]
  /\ UNCHANGED <<jobVars, pc, cur, att, mode, snap>>

BeatFails(s) ==
  /\ beating[s]
  /\ due' = [due EXCEPT ![s] = 0]
  /\ beating' = [beating EXCEPT ![s] = FALSE]
  /\ UNCHANGED <<jobVars, held, pc, cur, att, mode, snap>>

-----------------------------------------------------------------------------
(* The maintenance loop: RecoverExpiredLeases.                             *)

ReadExpired(w) ==
  /\ mode[w] = "up" /\ snap[w] = {}
  /\ snap' = [snap EXCEPT ![w] =
       {[job |-> j, by |-> leasedBy[j], stamp |-> stamp[j], att |-> attempt[j]] :
          j \in {x \in Jobs : status[x] = "running" /\ lease[x] = 0}}]
  /\ UNCHANGED <<jobVars, held, slotVars, mode>>

\* recoverToQueued
RecoverToQueued(r) ==
  /\ r.att < MaxAttempts
  /\ \E d \in 0 .. Backoff : BackToQueue(r.job, d)

\* forceFail: the lease columns stay for diagnosis.
ForceFail(r) ==
  /\ r.att >= MaxAttempts
  /\ status' = [status EXCEPT ![r.job] = "failed"]
  /\ UNCHANGED <<leasedBy, lease, stamp, attempt, wait>>

Recover(w) ==
  \E r \in snap[w] :
    /\ mode[w] = "up"
    /\ \/ /\ SnapCurrent(r)
          /\ RecoverToQueued(r) \/ ForceFail(r)
          /\ held' = held \ JobRows(r.job)
       \/ ~SnapCurrent(r) /\ UNCHANGED <<jobVars, held>>
    /\ snap' = [snap EXCEPT ![w] = @ \ {r}]
    /\ UNCHANGED <<slotVars, mode>>

\* A storage error ends the pass; the rest is read again by the next one.
RecoverError(w) ==
  /\ snap[w] # {}
  /\ snap' = [snap EXCEPT ![w] = {}]
  /\ UNCHANGED <<jobVars, held, slotVars, mode>>

-----------------------------------------------------------------------------
(* Processes and time.                                                     *)

\* SIGTERM: the context is cancelled, running handlers may still finish.
Shutdown(w) ==
  /\ w \notin Stable /\ mode[w] = "up"
  /\ mode' = [mode EXCEPT ![w] = "stopping"]
  /\ UNCHANGED <<jobVars, held, slotVars, snap>>

\* The process is killed, or leaves after a shutdown.  It never returns: a
\* restarted process draws a new worker_id and is another member of Workers.
Exit(w) ==
  /\ w \notin Stable /\ mode[w] # "down"
  /\ mode' = [mode EXCEPT ![w] = "down"]
  /\ pc' = [s \in Slots |-> IF WorkerOf[s] = w THEN "idle" ELSE pc[s]]
  /\ cur' = [s \in Slots |-> IF WorkerOf[s] = w THEN NoJob ELSE cur[s]]
  /\ att' = [s \in Slots |-> IF WorkerOf[s] = w THEN 0 ELSE att[s]]
  /\ due' = [s \in Slots |-> IF WorkerOf[s] = w THEN 0 ELSE due[s]]
  /\ beating' = [s \in Slots |-> IF WorkerOf[s] = w THEN FALSE ELSE beating[s]]
  /\ snap' = [snap EXCEPT ![w] = {}]
  /\ UNCHANGED <<jobVars, held>>

\* A busy slot has let its lease, or its lock, come to the last tick.
Late(s) ==
  /\ pc[s] # "idle"
  /\ lease[cur[s]] <= 1 \/ \E r \in RowsOf(cur[s], WorkerOf[s]) : r.left <= 1

Tick ==
  /\ Punctual => \A s \in Slots : ~Late(s)
  /\ lease' = [j \in Jobs |-> Dec(lease[j])]
  /\ wait' = [j \in Jobs |-> Dec(wait[j])]
  /\ held' = {[r EXCEPT !.left = Dec(@)] : r \in held}
  /\ due' = [s \in Slots |-> Dec(due[s])]
  /\ UNCHANGED <<status, leasedBy, stamp, attempt, pc, cur, att, beating, mode, snap>>

-----------------------------------------------------------------------------
SlotStep(s) ==
  \/ UnknownType(s) \/ ExpireLocks(s) \/ InsertLock(s) \/ Start(s) \/ Handle(s)
  \/ RuntimeRequeue(s) \/ Finish(s) \/ Abandon(s)

Beat(s) == BeatJob(s) \/ BeatLocks(s) \/ BeatFails(s)

Next ==
  \/ \E j \in Jobs : Enqueue(j)
  \/ \E s \in Slots :
       \/ \E j \in Jobs : Claim(s, j)
       \/ SlotStep(s) \/ StoreError(s) \/ Beat(s)
       \/ \E o \in Outcome : HandlerReturns(s, o)
  \/ \E w \in Workers :
       ReadExpired(w) \/ Recover(w) \/ RecoverError(w) \/ Shutdown(w) \/ Exit(w)
  \/ Tick

Spec == Init /\ [][Next]_vars

(***************************************************************************)
(* Time passes.  A slot of a running process polls, moves on and its       *)
(* handler returns; the maintenance loop comes back and, errors being      *)
(* transient, a recovery that is tried again and again goes through.       *)
(***************************************************************************)
Fairness ==
  /\ WF_vars(Tick)
  /\ \A s \in Slots :
       /\ WF_vars(\E j \in Jobs : Claim(s, j))
       /\ WF_vars(SlotStep(s) \/ BeatLocks(s) \/ BeatFails(s))
       /\ WF_vars(\E o \in Outcome : HandlerReturns(s, o))
  /\ \A w \in Workers : WF_vars(ReadExpired(w)) /\ SF_vars(Recover(w))

FairSpec == Spec /\ Fairness
=============================================================================
