--------------------------- MODULE JobQueueProofs ---------------------------
(***************************************************************************)
(* Proofs about JobQueue for every set of jobs, workers, slots and keys    *)
(* and every length of lease.                                              *)
(***************************************************************************)
EXTENDS JobQueueProps, FiniteSetTheorems, TLAPS

-----------------------------------------------------------------------------
(* Type correctness, one lemma for each way of writing a row.              *)

\* What the writes to the tables keep well typed.
JobTypeOK ==
  /\ status \in [Jobs -> Statuses]
  /\ leasedBy \in [Jobs -> Workers \cup {NoWorker}]
  /\ lease \in [Jobs -> 0 .. Lease]
  /\ stamp \in [Jobs -> Stamps]
  /\ attempt \in [Jobs -> 0 .. MaxAttempts]
  /\ wait \in [Jobs -> 0 .. Backoff]
  /\ held \in SUBSET LockRow
  /\ \A j \in Jobs : status[j] = "running" => leasedBy[j] \in Workers /\ attempt[j] > 0

LEMMA BackToQueueType ==
  ASSUME JobTypeOK, NEW j \in Jobs, NEW d \in 0 .. Backoff,
         BackToQueue(j, d), held' \subseteq held
  PROVE  JobTypeOK'
BY JobQueueAssumption DEF JobTypeOK, BackToQueue, Statuses

LEMMA CompleteType ==
  ASSUME JobTypeOK, NEW s \in Slots, cur[s] \in Jobs,
         NEW result \in Terminal, Complete(s, result)
  PROVE  JobTypeOK'
BY DEF JobTypeOK, Complete, RowsOf, Statuses, Terminal

LEMMA GiveUpType ==
  ASSUME JobTypeOK, NEW s \in Slots, cur[s] \in Jobs, GiveUp(s)
  PROVE  JobTypeOK'
<1>1. CASE att[s] >= MaxAttempts
  BY <1>1, CompleteType DEF GiveUp, Terminal
<1>2. CASE ~(att[s] >= MaxAttempts) /\ Owned(s)
  <2>1. PICK d \in 1 .. Backoff : BackToQueue(cur[s], d)
    BY <1>2 DEF GiveUp, Requeue
  <2>2. held' \subseteq held
    BY <1>2 DEF GiveUp, Requeue, RowsOf
  <2> QED
    BY <2>1, <2>2, BackToQueueType, JobQueueAssumption
<1>3. CASE ~(att[s] >= MaxAttempts) /\ ~Owned(s)
  BY <1>3 DEF GiveUp, Requeue, jobVars, JobTypeOK
<1> QED
  BY <1>1, <1>2, <1>3

LEMMA RenewType ==
  ASSUME lease \in [Jobs -> 0 .. Lease], stamp \in [Jobs -> Stamps],
         NEW j \in Jobs, Renew(j)
  PROVE  /\ lease' \in [Jobs -> 0 .. Lease]
         /\ stamp' \in [Jobs -> Stamps]
BY JobQueueAssumption DEF Renew

-----------------------------------------------------------------------------

\* The slots' part and the processes' part of the type invariant.
SlotTypeOK ==
  /\ pc \in [Slots -> {"idle", "giveup", "handling"} \cup Before \cup Outcome]
  /\ cur \in [Slots -> Jobs \cup {NoJob}]
  /\ att \in [Slots -> 0 .. MaxAttempts]
  /\ due \in [Slots -> 0 .. Lease]
  /\ beating \in [Slots -> BOOLEAN]
  /\ \A s \in Slots :
       /\ pc[s] = "idle" <=> cur[s] = NoJob
       /\ pc[s] = "locking" => KeyOf[cur[s]] \in Keys

ProcessTypeOK ==
  /\ mode \in [Workers -> {"up", "stopping", "down"}]
  /\ snap \in [Workers -> SUBSET SnapRow]

LEMMA TypeParts ==
  /\ TypeOK <=> JobTypeOK /\ SlotTypeOK /\ ProcessTypeOK
  /\ TypeOK' <=> JobTypeOK' /\ SlotTypeOK' /\ ProcessTypeOK'
BY DEF TypeOK, JobTypeOK, SlotTypeOK, ProcessTypeOK

LEMMA ReturnType ==
  ASSUME SlotTypeOK, NEW s \in Slots, Return(s)
  PROVE  SlotTypeOK'
BY JobQueueAssumption DEF SlotTypeOK, Return

LEMMA BusySlot ==
  ASSUME SlotTypeOK, NEW s \in Slots, pc[s] # "idle"
  PROVE  cur[s] \in Jobs
BY DEF SlotTypeOK

LEMMA TypeInit == Init => TypeOK
BY JobQueueAssumption, FS_CardinalityType DEF Init, TypeOK, Statuses, Stamps

(* The type invariant of the queue, for any number of jobs, workers, slots *)
(* and keys: no timer exceeds a lease, no attempt counter max_attempts.    *)
THEOREM TypeInvariant == Spec => []TypeOK
<1>1. Init => TypeOK
  BY TypeInit
<1>2. TypeOK /\ [Next]_vars => TypeOK'
  <2> SUFFICES ASSUME TypeOK, [Next]_vars PROVE TypeOK'
    OBVIOUS
  <2> USE JobQueueAssumption
  <2>0. JobTypeOK /\ SlotTypeOK /\ ProcessTypeOK
    BY TypeParts
  <2>1. ASSUME NEW j \in Jobs, Enqueue(j) PROVE TypeOK'
    BY <2>1 DEF TypeOK, Enqueue, slotVars, Statuses
  <2>2. ASSUME NEW s \in Slots, NEW j \in Jobs, Claim(s, j) PROVE TypeOK'
    <3>1. JobTypeOK'
      BY <2>0, <2>2, RenewType DEF JobTypeOK, Claim, Claimable, Statuses
    <3>2. SlotTypeOK'
      BY <2>0, <2>2 DEF JobTypeOK, SlotTypeOK, Claim, Claimable, Goto, Before
    <3> QED
      BY <2>0, <2>2, <3>1, <3>2, TypeParts DEF Claim, ProcessTypeOK
  <2>3. ASSUME NEW s \in Slots, UnknownType(s) PROVE TypeOK'
    <3>1. JobTypeOK'
      BY <2>0, <2>3, BusySlot, CompleteType DEF UnknownType, Terminal
    <3> QED
      BY <2>0, <2>3, <3>1, ReturnType, TypeParts DEF UnknownType, ProcessTypeOK
  <2>4. ASSUME NEW s \in Slots, ExpireLocks(s) PROVE TypeOK'
    BY <2>4 DEF TypeOK, ExpireLocks, jobVars, Before
  <2>5. ASSUME NEW s \in Slots, InsertLock(s) PROVE TypeOK'
    <3>1. cur[s] \in Jobs /\ WorkerOf[s] \in Workers
      BY <2>0, <2>5, BusySlot DEF InsertLock
    <3>2. held' \subseteq LockRow
      BY <2>5, <3>1 DEF TypeOK, InsertLock, LockRow
    <3> QED
      BY <2>5, <3>2 DEF TypeOK, InsertLock, jobVars, Before
  <2>6. ASSUME NEW s \in Slots, Start(s) \/ Handle(s) \/ StoreError(s)
        PROVE TypeOK'
    BY <2>6 DEF TypeOK, Start, Handle, StoreError, Goto, jobVars, Before
  <2>7. ASSUME NEW s \in Slots, RuntimeRequeue(s) PROVE TypeOK'
    <3>1. JobTypeOK'
      BY <2>0, <2>7, BusySlot, GiveUpType DEF RuntimeRequeue
    <3> QED
      BY <2>0, <2>7, <3>1, ReturnType, TypeParts DEF RuntimeRequeue, ProcessTypeOK
  <2>8. ASSUME NEW s \in Slots, NEW o \in Outcome, HandlerReturns(s, o)
        PROVE TypeOK'
    BY <2>8 DEF TypeOK, HandlerReturns, Goto, jobVars, Outcome
  <2>9. ASSUME NEW s \in Slots, Finish(s) PROVE TypeOK'
    <3>1. cur[s] \in Jobs
      BY <2>0, <2>9, BusySlot DEF Finish
    <3>2. JobTypeOK'
      <4>1. CASE UNCHANGED <<jobVars, held>>
        BY <2>0, <4>1 DEF JobTypeOK, jobVars
      <4>2. ASSUME NEW result \in Terminal, Complete(s, result) PROVE JobTypeOK'
        BY <2>0, <3>1, <4>2, CompleteType
      <4>3. CASE GiveUp(s)
        BY <2>0, <3>1, <4>3, GiveUpType
      <4> QED
        BY <2>9, <4>1, <4>2, <4>3 DEF Finish, Terminal
    <3> QED
      BY <2>0, <2>9, <3>2, ReturnType, TypeParts DEF Finish, ProcessTypeOK
  <2>10. ASSUME NEW s \in Slots, Abandon(s) PROVE TypeOK'
    <3>1. JobTypeOK' /\ ProcessTypeOK'
      BY <2>0, <2>10 DEF Abandon, JobTypeOK, ProcessTypeOK, jobVars
    <3> QED
      BY <2>0, <2>10, <3>1, ReturnType, TypeParts DEF Abandon
  <2>11. ASSUME NEW s \in Slots, BeatJob(s) PROVE TypeOK'
    <3>1. cur[s] \in Jobs
      BY <2>0, <2>11, BusySlot DEF BeatJob
    <3> QED
      BY <2>11, <3>1, RenewType DEF TypeOK, BeatJob
  <2>12. ASSUME NEW s \in Slots, BeatLocks(s) PROVE TypeOK'
    <3>1. ASSUME NEW r \in LockRow PROVE [r EXCEPT !.left = due[s]] \in LockRow
      BY DEF LockRow, TypeOK
    <3>2. held' \subseteq LockRow
      BY <2>12, <3>1 DEF TypeOK, BeatLocks, RowsOf
    <3> QED
      BY <2>12, <3>2 DEF TypeOK, BeatLocks, jobVars
  <2>13. ASSUME NEW s \in Slots, BeatFails(s) PROVE TypeOK'
    BY <2>13 DEF TypeOK, BeatFails, jobVars
  <2>14. ASSUME NEW w \in Workers, ReadExpired(w) PROVE TypeOK'
    <3>1. snap'[w] \subseteq SnapRow
      BY <2>14 DEF TypeOK, ReadExpired, SnapRow
    <3> QED
      BY <2>14, <3>1 DEF TypeOK, ReadExpired, jobVars, slotVars
  <2>15. ASSUME NEW w \in Workers, Recover(w) PROVE TypeOK'
    <3>1. PICK r \in snap[w] : Recover(w)!(r)
      BY <2>15 DEF Recover
    <3>2. r \in SnapRow /\ r.job \in Jobs
      BY <2>0 DEF ProcessTypeOK, SnapRow
    <3>3. JobTypeOK'
      <4>1. CASE UNCHANGED <<jobVars, held>>
        BY <2>0, <4>1 DEF JobTypeOK, jobVars
      <4>2. CASE RecoverToQueued(r) /\ held' = held \ JobRows(r.job)
        <5>1. PICK d \in 0 .. Backoff : BackToQueue(r.job, d)
          BY <4>2 DEF RecoverToQueued
        <5> QED
          BY <2>0, <3>2, <4>2, <5>1, BackToQueueType
      <4>3. CASE ForceFail(r) /\ held' = held \ JobRows(r.job)
        BY <2>0, <3>2, <4>3 DEF JobTypeOK, ForceFail, Statuses, Terminal
      <4> QED
        BY <3>1, <4>1, <4>2, <4>3
    <3>4. SlotTypeOK' /\ ProcessTypeOK'
      BY <2>0, <3>1 DEF SlotTypeOK, ProcessTypeOK, slotVars
    <3> QED
      BY <3>3, <3>4, TypeParts
  <2>16. ASSUME NEW w \in Workers,
                RecoverError(w) \/ Shutdown(w) PROVE TypeOK'
    BY <2>16 DEF TypeOK, RecoverError, Shutdown, jobVars, slotVars
  <2>17. ASSUME NEW w \in Workers, Exit(w) PROVE TypeOK'
    <3>1. JobTypeOK' /\ ProcessTypeOK'
      BY <2>0, <2>17 DEF Exit, JobTypeOK, ProcessTypeOK, jobVars
    <3>2. att' \in [Slots -> 0 .. MaxAttempts] /\ due' \in [Slots -> 0 .. Lease]
      BY <2>0, <2>17 DEF Exit, SlotTypeOK
    <3>3. beating' \in [Slots -> BOOLEAN]
      BY <2>0, <2>17 DEF Exit, SlotTypeOK
    <3>4. SlotTypeOK'
      BY <2>0, <2>17, <3>2, <3>3 DEF Exit, SlotTypeOK
    <3> QED
      BY <3>1, <3>4, TypeParts
  <2>18. CASE Tick
    <3>1. ASSUME NEW n \in Nat, NEW m \in 0 .. n PROVE Dec(m) \in 0 .. n
      BY DEF Dec
    <3>2. lease' \in [Jobs -> 0 .. Lease] /\ wait' \in [Jobs -> 0 .. Backoff]
      BY <2>18, <3>1 DEF Tick, TypeOK
    <3>3. due' \in [Slots -> 0 .. Lease]
      BY <2>18, <3>1 DEF Tick, TypeOK
    <3>4. held' \subseteq LockRow
      <4>1. ASSUME NEW r \in LockRow
            PROVE [r EXCEPT !.left = Dec(@)] \in LockRow
        BY <3>1 DEF LockRow
      <4> QED
        BY <2>18, <4>1 DEF Tick, TypeOK
    <3> QED
      BY <2>18, <3>2, <3>3, <3>4 DEF TypeOK, Tick
  <2>19. CASE UNCHANGED vars
    BY <2>19 DEF TypeOK, vars, jobVars, slotVars
  <2> QED
    BY <2>1, <2>2, <2>3, <2>4, <2>5, <2>6, <2>7, <2>8, <2>9, <2>10, <2>11,
       <2>12, <2>13, <2>14, <2>15, <2>16, <2>17, <2>18, <2>19
    DEF Next, SlotStep, Beat
<1> QED
  BY <1>1, <1>2, PTL DEF Spec

-----------------------------------------------------------------------------
(* Uniqueness of held locks needs nothing but the typing of the rows: only *)
(* InsertLock adds a key, and the index refuses one that is held.          *)

LEMMA SubsetUnique ==
  ASSUME HeldKeysUnique, held' \subseteq held
  PROVE  HeldKeysUnique'
BY DEF HeldKeysUnique

LEMMA SettleShrinksHeld ==
  ASSUME NEW s \in Slots,
         \/ GiveUp(s)
         \/ \E result \in Terminal : Complete(s, result)
  PROVE  held' \subseteq held
BY DEF GiveUp, Complete, Requeue, RowsOf

(* Two workers never hold the same business key at once, for any number of *)
(* workers, however late their heartbeats and releases are.                *)
THEOREM LockUniqueness == Spec => []HeldKeysUnique
<1>1. Init => HeldKeysUnique
  BY DEF Init, HeldKeysUnique
<1>2. TypeOK /\ HeldKeysUnique /\ [Next]_vars => HeldKeysUnique'
  <2> SUFFICES ASSUME TypeOK, HeldKeysUnique, [Next]_vars
               PROVE  HeldKeysUnique'
    OBVIOUS
  <2>1. CASE held' \subseteq held
    BY <2>1, SubsetUnique
  <2>2. ASSUME NEW s \in Slots, InsertLock(s) PROVE HeldKeysUnique'
    BY <2>2 DEF InsertLock, KeyFree, HeldKeysUnique
  <2>3. ASSUME NEW s \in Slots, BeatLocks(s) PROVE HeldKeysUnique'
    <3> DEFINE mine == RowsOf(cur[s], WorkerOf[s])
    <3>1. ASSUME NEW q \in held'
          PROVE  \/ q \in held \ mine
                 \/ \E r \in mine : q = [r EXCEPT !.left = due[s]]
      BY <2>3 DEF BeatLocks
    <3>2. \A q \in held' : \E r \in held :
            /\ q.key = r.key
            /\ \/ q = r /\ r \notin mine
               \/ q = [r EXCEPT !.left = due[s]] /\ r \in mine
      BY <3>1 DEF RowsOf, TypeOK, LockRow
    <3> QED
      BY <3>2 DEF HeldKeysUnique
  <2>4. CASE Tick
    <3>1. \A q \in held' : \E r \in held :
            q.key = r.key /\ q = [r EXCEPT !.left = Dec(@)]
      BY <2>4 DEF Tick, TypeOK, LockRow
    <3> QED
      BY <3>1 DEF HeldKeysUnique
  <2>5. ASSUME NEW s \in Slots,
               UnknownType(s) \/ RuntimeRequeue(s) \/ Finish(s)
        PROVE  held' \subseteq held
    BY <2>5, SettleShrinksHeld
    DEF UnknownType, RuntimeRequeue, Finish, Terminal
  <2>6. ASSUME NEW w \in Workers, Recover(w) PROVE held' \subseteq held
    BY <2>6 DEF Recover, JobRows
  <2>7. \/ held' \subseteq held
        \/ \E s \in Slots : InsertLock(s) \/ BeatLocks(s)
        \/ Tick
    BY <2>5, <2>6
    DEF Next, SlotStep, Beat, Enqueue, Claim, ExpireLocks, Start, Handle,
        StoreError, HandlerReturns, Abandon, BeatJob, BeatFails, ReadExpired,
        RecoverError, Shutdown, Exit, vars
  <2> QED
    BY <2>1, <2>2, <2>3, <2>4, <2>7
<1> QED
  BY <1>1, <1>2, TypeInvariant, PTL DEF Spec

-----------------------------------------------------------------------------
(* What recovery has read.  Its copy of a row is old, but a guard that     *)
(* still accepts it accepts the truth: a claim and a heartbeat write an    *)
(* expiry that no pending recovery remembers.                              *)

\* A step that hands out no attempt, renews no lease and reads nothing.
ReadsKept ==
  /\ attempt' = attempt
  /\ \A j \in Jobs : status'[j] = "running" =>
       /\ status[j] = "running"
       /\ leasedBy'[j] = leasedBy[j]
       /\ stamp'[j] = stamp[j]
       /\ lease[j] = 0 => lease'[j] = 0
  /\ \A w \in Workers : snap'[w] \subseteq snap[w]

LEMMA ReadsStayTrue ==
  ASSUME TypeOK, RecoveryReadsHold, ReadsKept
  PROVE  RecoveryReadsHold'
<1> SUFFICES ASSUME NEW w \in Workers, NEW r \in snap'[w], SnapCurrent(r)'
             PROVE  r.att = attempt'[r.job] /\ lease'[r.job] = 0
  BY DEF RecoveryReadsHold
<1>1. r \in snap[w] /\ r.job \in Jobs
  BY DEF ReadsKept, TypeOK, SnapRow
<1> QED
  BY <1>1 DEF ReadsKept, RecoveryReadsHold, SnapCurrent

\* Complete, Requeue and recovery's own writes renew nothing.
LEMMA SettleKeepsReads ==
  ASSUME TypeOK, NEW s \in Slots, cur[s] \in Jobs, UNCHANGED snap,
         \/ GiveUp(s)
         \/ \E result \in Terminal : Complete(s, result)
         \/ UNCHANGED jobVars
  PROVE  ReadsKept
BY DEF TypeOK, ReadsKept, GiveUp, Complete, Requeue, BackToQueue, Terminal, jobVars

LEMMA RecoverKeepsReads ==
  ASSUME TypeOK, NEW w \in Workers, Recover(w)
  PROVE  ReadsKept
<1>1. PICK r \in snap[w] : Recover(w)!(r)
  BY DEF Recover
<1>2. r.job \in Jobs
  BY DEF TypeOK, SnapRow
<1>3. snap'[w] \subseteq snap[w] /\ \A v \in Workers : snap'[v] \subseteq snap[v]
  BY <1>1 DEF TypeOK
<1> QED
  BY <1>1, <1>2, <1>3
  DEF ReadsKept, RecoverToQueued, ForceFail, BackToQueue, TypeOK, jobVars

LEMMA RenewEscapesReads ==
  ASSUME TypeOK, RecoveryReadsHold, NEW j \in Jobs, Renew(j), UNCHANGED snap,
         \A i \in Jobs \ {j} : /\ status'[i] = status[i]
                               /\ leasedBy'[i] = leasedBy[i]
                               /\ attempt'[i] = attempt[i]
  PROVE  RecoveryReadsHold'
<1> SUFFICES ASSUME NEW w \in Workers, NEW r \in snap[w], SnapCurrent(r)'
             PROVE  r.att = attempt'[r.job] /\ lease'[r.job] = 0
  BY DEF RecoveryReadsHold
<1>1. r.job \in Jobs
  BY DEF TypeOK, SnapRow
<1>2. r.job # j
  BY DEF Renew, SnapCurrent, TypeOK
<1> QED
  BY <1>1, <1>2 DEF Renew, SnapCurrent, TypeOK, RecoveryReadsHold

LEMMA RecoveryStep ==
  ASSUME TypeOK, RecoveryReadsHold, [Next]_vars
  PROVE  RecoveryReadsHold'
<1>1. ASSUME NEW j \in Jobs, Enqueue(j) PROVE ReadsKept
  BY <1>1 DEF Enqueue, ReadsKept, TypeOK
<1>2. ASSUME NEW s \in Slots, NEW j \in Jobs, Claim(s, j) PROVE RecoveryReadsHold'
  BY <1>2, RenewEscapesReads DEF Claim, TypeOK
<1>3. ASSUME NEW s \in Slots, BeatJob(s) PROVE RecoveryReadsHold'
  <2>1. cur[s] \in Jobs
    BY <1>3 DEF BeatJob, TypeOK
  <2>2. PICK j \in Jobs : j = cur[s]
    BY <2>1
  <2> QED
    BY <1>3, <2>2, RenewEscapesReads DEF BeatJob
<1>4. ASSUME NEW s \in Slots, UnknownType(s) \/ RuntimeRequeue(s) \/ Finish(s)
      PROVE  ReadsKept
  <2>1. cur[s] \in Jobs
    BY <1>4 DEF UnknownType, RuntimeRequeue, Finish, TypeOK
  <2> QED
    BY <1>4, <2>1, SettleKeepsReads DEF UnknownType, RuntimeRequeue, Finish, Terminal
<1>5. ASSUME NEW w \in Workers, ReadExpired(w) PROVE RecoveryReadsHold'
  BY <1>5 DEF ReadExpired, RecoveryReadsHold, SnapCurrent, TypeOK, jobVars
<1>6. ASSUME NEW w \in Workers, RecoverError(w) \/ Exit(w) PROVE ReadsKept
  <2>1. \A v \in Workers : snap'[v] \subseteq snap[v]
    BY <1>6 DEF RecoverError, Exit, TypeOK
  <2> QED
    BY <1>6, <2>1 DEF RecoverError, Exit, ReadsKept, jobVars
<1>7. CASE Tick
  <2>1. \A j \in Jobs : lease[j] = 0 => lease'[j] = 0
    BY <1>7 DEF Tick, Dec, TypeOK
  <2> QED
    BY <1>7, <2>1, ReadsStayTrue DEF Tick, ReadsKept
<1>8. CASE UNCHANGED <<jobVars, snap>>
  BY <1>8, ReadsStayTrue DEF ReadsKept, jobVars
<1>9. \/ UNCHANGED <<jobVars, snap>>
      \/ \E j \in Jobs : Enqueue(j)
      \/ \E s \in Slots :
           \/ \E j \in Jobs : Claim(s, j)
           \/ UnknownType(s) \/ RuntimeRequeue(s) \/ Finish(s) \/ BeatJob(s)
      \/ \E w \in Workers :
           ReadExpired(w) \/ Recover(w) \/ RecoverError(w) \/ Exit(w)
      \/ Tick
  BY DEF Next, SlotStep, Beat, ExpireLocks, InsertLock, Start, Handle, StoreError,
         HandlerReturns, Abandon, BeatLocks, BeatFails, Shutdown, vars
<1> QED
  BY <1>1, <1>2, <1>3, <1>4, <1>5, <1>6, <1>7, <1>8, <1>9, ReadsStayTrue, RecoverKeepsReads

(* Whatever recovery has read is still true where its UPDATE matches, for  *)
(* any number of processes that recover at once, slots that share a        *)
(* worker_id and heartbeats that come late: recoverToQueued and forceFail  *)
(* decide from the attempt and the expiry the job really has.              *)
THEOREM RecoveryActsOnFacts == Spec => []RecoveryReadsHold
<1>1. Init => RecoveryReadsHold
  BY DEF Init, RecoveryReadsHold
<1>2. TypeOK /\ RecoveryReadsHold /\ [Next]_vars => RecoveryReadsHold'
  BY RecoveryStep
<1> QED
  BY <1>1, <1>2, TypeInvariant, PTL DEF Spec

-----------------------------------------------------------------------------
(* Workers that are never a whole lease late.  A busy slot owns its job    *)
(* under a lease that has time left, and from AcquireLock on a lock row    *)
(* for the job's key with time left.  The row outlives the job's lease     *)
(* because its expiry is computed before the heartbeat's first statement,  *)
(* and after the claim: due is never behind lease.                         *)

HasLock(s) == \E r \in RowsOf(cur[s], WorkerOf[s]) : r.left >= 1

InCharge(s) ==
  /\ Owned(s) /\ lease[cur[s]] >= 1
  /\ pc[s] = "locking" \/ beating[s] => due[s] >= lease[cur[s]]
  /\ (pc[s] \in {"locked", "started"} \/ Executing(s)) /\ KeyOf[cur[s]] # NoKey
       => HasLock(s)

OneSlotPerJob ==
  \A s, t \in Slots : pc[s] # "idle" /\ cur[s] = cur[t] => s = t

RowsOfKey == \A r \in held : r.key = KeyOf[r.job]

SlotsInCharge ==
  /\ \A s \in Slots : /\ pc[s] # "idle" => InCharge(s)
                      /\ beating[s] => Executing(s)
  /\ OneSlotPerJob

PunctualInv == TypeOK /\ RecoveryReadsHold /\ SlotsInCharge /\ RowsOfKey

\* What another actor's step leaves a busy slot with.
Undisturbed(s) ==
  /\ pc'[s] = pc[s] /\ cur'[s] = cur[s] /\ due'[s] = due[s] /\ beating'[s] = beating[s]
  /\ status'[cur[s]] = status[cur[s]]
  /\ leasedBy'[cur[s]] = leasedBy[cur[s]]
  /\ lease'[cur[s]] = lease[cur[s]]
  /\ \A r \in held : r.job = cur[s] /\ r.left >= 1 => r \in held'

LEMMA UndisturbedInCharge ==
  ASSUME NEW s \in Slots, InCharge(s), Undisturbed(s)
  PROVE  InCharge(s)'
<1>1. HasLock(s) => HasLock(s)'
  BY DEF HasLock, RowsOf, Undisturbed
<1> QED
  BY <1>1 DEF InCharge, Undisturbed, Owned, Executing

\* A step that leaves all busy slots alone, except those that become idle.
Calm ==
  \A s \in Slots : IF pc'[s] = "idle" THEN ~beating'[s]
                                      ELSE pc[s] # "idle" /\ Undisturbed(s)

LEMMA CalmStep ==
  ASSUME PunctualInv, TypeOK', Calm
  PROVE  SlotsInCharge'
<1>1. ASSUME NEW s \in Slots, pc'[s] # "idle" PROVE InCharge(s)'
  BY <1>1, UndisturbedInCharge DEF PunctualInv, SlotsInCharge, Calm
<1>2. ASSUME NEW s \in Slots, beating'[s] PROVE Executing(s)'
  BY <1>2 DEF PunctualInv, SlotsInCharge, Undisturbed, Executing, Calm
<1>3. ASSUME NEW s \in Slots, NEW t \in Slots, pc'[s] # "idle", cur'[s] = cur'[t]
      PROVE  s = t
  <2>1. pc'[t] # "idle"
    BY <1>3 DEF TypeOK
  <2> QED
    BY <1>3, <2>1 DEF PunctualInv, SlotsInCharge, OneSlotPerJob, Undisturbed, Calm
<1> QED
  BY <1>1, <1>2, <1>3 DEF SlotsInCharge, OneSlotPerJob

\* A step of one busy slot that stays busy with its job.
LEMMA OwnStep ==
  ASSUME PunctualInv, TypeOK', NEW s \in Slots, pc[s] # "idle", pc'[s] # "idle",
         cur' = cur, InCharge(s)', beating'[s] => Executing(s)',
         \A t \in Slots \ {s} : /\ pc'[t] = pc[t] /\ beating'[t] = beating[t]
                                /\ pc[t] # "idle" => Undisturbed(t)
  PROVE  SlotsInCharge'
<1>1. ASSUME NEW t \in Slots, pc'[t] # "idle" PROVE InCharge(t)'
  BY <1>1, UndisturbedInCharge DEF PunctualInv, SlotsInCharge
<1>2. ASSUME NEW t \in Slots, beating'[t] PROVE Executing(t)'
  BY <1>2 DEF PunctualInv, SlotsInCharge, Executing
<1>3. ASSUME NEW r \in Slots, NEW t \in Slots, pc'[r] # "idle", cur'[r] = cur'[t]
      PROVE  r = t
  BY <1>3 DEF PunctualInv, SlotsInCharge, OneSlotPerJob
<1> QED
  BY <1>1, <1>2, <1>3 DEF SlotsInCharge, OneSlotPerJob

\* A slot that settles its job, or abandons it, touches no other slot's job.
LEMMA SettleCalm ==
  ASSUME PunctualInv, NEW s \in Slots, pc[s] # "idle", ~beating[s], Return(s),
         \/ GiveUp(s)
         \/ \E result \in Terminal : Complete(s, result)
         \/ UNCHANGED <<jobVars, held>>
  PROVE  Calm /\ RowsOfKey'
<1>1. ASSUME NEW j \in Jobs, j # cur[s]
      PROVE  /\ status'[j] = status[j] /\ leasedBy'[j] = leasedBy[j]
             /\ lease'[j] = lease[j]
  BY <1>1 DEF GiveUp, Complete, Requeue, BackToQueue, jobVars, PunctualInv, TypeOK
<1>2. /\ held' \subseteq held
      /\ \A r \in held : r.job # cur[s] => r \in held'
  BY DEF GiveUp, Complete, Requeue, RowsOf
<1>3. ASSUME NEW t \in Slots, t # s, pc[t] # "idle" PROVE Undisturbed(t)
  <2>1. cur[t] \in Jobs /\ cur[t] # cur[s]
    BY <1>3 DEF PunctualInv, TypeOK, SlotsInCharge, OneSlotPerJob
  <2> QED
    BY <1>1, <1>2, <1>3, <2>1 DEF Undisturbed, Return, PunctualInv, TypeOK
<1>4. Calm
  BY <1>3 DEF Calm, Return, PunctualInv, TypeOK, SlotsInCharge, Executing, Outcome
<1> QED
  BY <1>2, <1>4 DEF PunctualInv, RowsOfKey

LEMMA ClaimInCharge ==
  ASSUME PunctualInv, TypeOK', NEW s \in Slots, NEW j \in Jobs, Claim(s, j)
  PROVE  SlotsInCharge' /\ RowsOfKey'
<1> USE JobQueueAssumption
<1>1. ASSUME NEW t \in Slots, t # s, pc[t] # "idle" PROVE Undisturbed(t) /\ cur[t] # j
  <2>1. cur[t] \in Jobs /\ cur[t] # j
    BY <1>1 DEF PunctualInv, TypeOK, SlotsInCharge, InCharge, Owned, Claim, Claimable
  <2> QED
    BY <1>1, <2>1 DEF Undisturbed, Claim, Goto, Renew, PunctualInv, TypeOK
<1>2. cur'[s] = j /\ pc'[s] = "claimed" /\ ~beating'[s]
  BY DEF Claim, Goto, PunctualInv, TypeOK, SlotsInCharge, Executing, Outcome
<1>3. status'[j] = "running" /\ leasedBy'[j] = WorkerOf[s] /\ lease'[j] = Lease
  BY DEF Claim, Renew, PunctualInv, TypeOK
<1>4. InCharge(s)'
  BY <1>2, <1>3 DEF InCharge, Owned, Executing, Outcome
<1>5. \A t \in Slots : t # s => pc'[t] = pc[t] /\ cur'[t] = cur[t] /\ beating'[t] = beating[t]
  BY DEF Claim, Goto, PunctualInv, TypeOK
<1>6. ASSUME NEW t \in Slots, pc'[t] # "idle" PROVE InCharge(t)'
  BY <1>1, <1>4, <1>5, <1>6, UndisturbedInCharge DEF PunctualInv, SlotsInCharge
<1>7. ASSUME NEW t \in Slots, beating'[t] PROVE Executing(t)'
  BY <1>2, <1>5, <1>7 DEF PunctualInv, SlotsInCharge, Executing
<1>8. ASSUME NEW r \in Slots, NEW t \in Slots, pc'[r] # "idle", cur'[r] = cur'[t]
      PROVE  r = t
  <2>1. pc'[t] # "idle"
    BY <1>8 DEF TypeOK
  <2> QED
    BY <1>1, <1>2, <1>5, <1>8, <2>1 DEF PunctualInv, SlotsInCharge, OneSlotPerJob
<1>9. RowsOfKey'
  BY DEF Claim, PunctualInv, RowsOfKey
<1> QED
  BY <1>6, <1>7, <1>8, <1>9 DEF SlotsInCharge, OneSlotPerJob

\* AcquireLock: the row that is inserted expires no earlier than the lease.
LEMMA LockInCharge ==
  ASSUME PunctualInv, TypeOK', NEW s \in Slots, ExpireLocks(s) \/ InsertLock(s)
  PROVE  SlotsInCharge' /\ RowsOfKey'
<1> USE JobQueueAssumption
<1>0. pc[s] # "idle" /\ cur[s] \in Jobs /\ InCharge(s) /\ ~beating[s] /\ UNCHANGED jobVars
  BY DEF ExpireLocks, InsertLock, PunctualInv, TypeOK, SlotsInCharge, Executing, Outcome
<1>1. pc'[s] \in {"locking", "locked", "giveup"} /\ ~beating'[s] /\ cur' = cur
  BY <1>0 DEF ExpireLocks, InsertLock, PunctualInv, TypeOK
<1>2. \A r \in held : r.left >= 1 => r \in held'
  BY DEF ExpireLocks, InsertLock, PunctualInv, TypeOK, LockRow
<1>3. \A t \in Slots \ {s} : /\ pc'[t] = pc[t] /\ beating'[t] = beating[t]
                             /\ pc[t] # "idle" => Undisturbed(t)
  BY <1>1, <1>2 DEF ExpireLocks, InsertLock, Undisturbed, jobVars, PunctualInv, TypeOK
<1>4. pc'[s] = "locked" /\ KeyOf[cur[s]] # NoKey => HasLock(s)'
  <2> SUFFICES ASSUME pc'[s] = "locked", KeyOf[cur[s]] # NoKey PROVE HasLock(s)'
    OBVIOUS
  <2>1. pc[s] = "locking" /\ due[s] >= 1
    BY <1>0 DEF ExpireLocks, InsertLock, InCharge, PunctualInv, TypeOK
  <2> DEFINE row == [key |-> KeyOf[cur[s]], job |-> cur[s],
                     owner |-> WorkerOf[s], left |-> due[s]]
  <2>2. row \in held'
    BY <2>1 DEF ExpireLocks, InsertLock, PunctualInv, TypeOK
  <2> QED
    BY <1>1, <2>1, <2>2 DEF HasLock, RowsOf
<1>5. pc'[s] = "locking" => due'[s] >= lease'[cur[s]]
  BY <1>0 DEF ExpireLocks, InsertLock, PunctualInv, TypeOK, jobVars
<1>6. InCharge(s)'
  BY <1>0, <1>1, <1>4, <1>5 DEF InCharge, Owned, Executing, Outcome, jobVars
<1>7. SlotsInCharge'
  BY <1>0, <1>1, <1>3, <1>6, OwnStep
<1>8. RowsOfKey'
  BY DEF ExpireLocks, InsertLock, PunctualInv, RowsOfKey
<1> QED
  BY <1>7, <1>8

\* RunOnce moves on without a write to the tables that takes effect.
LEMMA MoveInCharge ==
  ASSUME PunctualInv, TypeOK', NEW s \in Slots,
         \/ Start(s) \/ Handle(s) \/ StoreError(s)
         \/ \E o \in Outcome : HandlerReturns(s, o)
  PROVE  SlotsInCharge' /\ RowsOfKey'
<1>0. /\ pc[s] # "idle" /\ cur[s] \in Jobs /\ InCharge(s)
      /\ UNCHANGED <<jobVars, held>> /\ cur' = cur /\ beating' = beating
  BY DEF Start, Handle, StoreError, HandlerReturns, Goto, Before,
         PunctualInv, TypeOK, SlotsInCharge
<1>1. \/ pc[s] = "locked" /\ pc'[s] = "started" /\ due' = due
      \/ pc[s] = "started" /\ pc'[s] = "handling" /\ due' = due
      \/ pc[s] = "handling" /\ pc'[s] \in Outcome /\ due' = due
      \/ pc[s] \in Before /\ pc'[s] = "giveup"
  BY <1>0 DEF Start, Handle, StoreError, HandlerReturns, Goto, PunctualInv, TypeOK, InCharge
<1>2. \A t \in Slots \ {s} : /\ pc'[t] = pc[t] /\ beating'[t] = beating[t]
                             /\ pc[t] # "idle" => Undisturbed(t)
  BY <1>0 DEF Start, Handle, StoreError, HandlerReturns, Goto, Undisturbed, jobVars,
              PunctualInv, TypeOK
<1>3. HasLock(s) => HasLock(s)'
  BY <1>0 DEF HasLock, RowsOf
<1>4. beating'[s] => Executing(s)'
  BY <1>0, <1>1 DEF Executing, Before, Outcome, PunctualInv, SlotsInCharge
<1>5. InCharge(s)'
  BY <1>0, <1>1, <1>3
  DEF InCharge, Owned, Executing, Before, Outcome, jobVars, PunctualInv, SlotsInCharge
<1>6. SlotsInCharge'
  BY <1>0, <1>1, <1>2, <1>4, <1>5, OwnStep DEF Before, Outcome
<1> QED
  BY <1>0, <1>6 DEF PunctualInv, RowsOfKey

\* The heartbeat: the job is renewed first, then its rows, to the same expiry.
LEMMA BeatInCharge ==
  ASSUME PunctualInv, TypeOK', NEW s \in Slots, Beat(s)
  PROVE  SlotsInCharge' /\ RowsOfKey'
<1> USE JobQueueAssumption
<1>0. /\ pc[s] # "idle" /\ cur[s] \in Jobs /\ InCharge(s) /\ Executing(s)
      /\ pc' = pc /\ cur' = cur /\ status' = status /\ leasedBy' = leasedBy
  BY DEF Beat, BeatJob, BeatLocks, BeatFails, jobVars, PunctualInv, TypeOK, SlotsInCharge,
         Executing, Outcome
<1>1. CASE BeatJob(s)
  <2>1. lease'[cur[s]] = Lease /\ due'[s] = Lease /\ held' = held
    BY <1>0, <1>1 DEF BeatJob, Renew, PunctualInv, TypeOK
  <2>2. HasLock(s) => HasLock(s)'
    BY <1>0, <2>1 DEF HasLock, RowsOf
  <2>3. InCharge(s)'
    BY <1>0, <2>1, <2>2 DEF InCharge, Owned, Executing, Outcome
  <2>4. \A t \in Slots \ {s} : pc[t] # "idle" => Undisturbed(t)
    BY <1>0, <1>1, <2>1
    DEF BeatJob, Renew, Undisturbed, PunctualInv, TypeOK, SlotsInCharge, OneSlotPerJob
  <2>5. SlotsInCharge'
    BY <1>0, <1>1, <2>3, <2>4, OwnStep DEF BeatJob, Executing, PunctualInv, TypeOK
  <2> QED
    BY <2>1, <2>5 DEF PunctualInv, RowsOfKey
<1>2. CASE BeatLocks(s)
  <2> DEFINE mine == RowsOf(cur[s], WorkerOf[s])
  <2>1. /\ beating[s] /\ ~beating'[s] /\ UNCHANGED jobVars
        /\ due[s] >= 1
    BY <1>0, <1>2 DEF BeatLocks, InCharge, PunctualInv, TypeOK
  <2>2. \A r \in held : r.job # cur[s] => r \in held'
    BY <1>2 DEF BeatLocks, RowsOf
  <2>3. ASSUME NEW r \in mine
        PROVE  \E q \in held' : q.job = cur[s] /\ q.owner = WorkerOf[s] /\ q.left = due[s]
    <3>1. [r EXCEPT !.left = due[s]] \in held'
      BY <1>2 DEF BeatLocks
    <3>2. r \in LockRow /\ r.job = cur[s] /\ r.owner = WorkerOf[s]
      BY DEF RowsOf, PunctualInv, TypeOK
    <3> QED
      BY <3>1, <3>2 DEF LockRow
  <2>4. HasLock(s) => HasLock(s)'
    BY <1>0, <2>1, <2>3 DEF HasLock, RowsOf
  <2>5. InCharge(s)'
    BY <1>0, <2>1, <2>4 DEF InCharge, Owned, Executing, Outcome, jobVars
  <2>6. \A t \in Slots \ {s} : pc[t] # "idle" => Undisturbed(t)
    BY <1>0, <1>2, <2>1, <2>2
    DEF BeatLocks, jobVars, Undisturbed, PunctualInv, TypeOK, SlotsInCharge, OneSlotPerJob
  <2>7. SlotsInCharge'
    BY <1>0, <1>2, <2>1, <2>5, <2>6, OwnStep DEF BeatLocks, PunctualInv, TypeOK
  <2>8. RowsOfKey'
    BY <1>2 DEF BeatLocks, RowsOf, PunctualInv, RowsOfKey, TypeOK, LockRow
  <2> QED
    BY <2>7, <2>8
<1>3. CASE BeatFails(s)
  <2>1. ~beating'[s] /\ UNCHANGED <<jobVars, held>>
    BY <1>3 DEF BeatFails, PunctualInv, TypeOK
  <2>2. HasLock(s) => HasLock(s)'
    BY <1>0, <2>1 DEF HasLock, RowsOf
  <2>3. InCharge(s)'
    BY <1>0, <2>1, <2>2 DEF InCharge, Owned, Executing, Outcome, jobVars
  <2>4. \A t \in Slots \ {s} : pc[t] # "idle" => Undisturbed(t)
    BY <1>0, <1>3, <2>1 DEF BeatFails, jobVars, Undisturbed, PunctualInv, TypeOK
  <2>5. SlotsInCharge'
    BY <1>0, <1>3, <2>1, <2>3, <2>4, OwnStep DEF BeatFails, PunctualInv, TypeOK
  <2> QED
    BY <2>1, <2>5 DEF PunctualInv, RowsOfKey
<1> QED
  BY <1>1, <1>2, <1>3 DEF Beat

\* Recovery takes no job from a busy slot: it acts on expired leases only.
LEMMA RecoverCalm ==
  ASSUME PunctualInv, NEW w \in Workers, Recover(w)
  PROVE  Calm /\ RowsOfKey'
<1>1. PICK r \in snap[w] : Recover(w)!(r)
  BY DEF Recover
<1>2. r.job \in Jobs
  BY DEF PunctualInv, TypeOK, SnapRow
<1>3. held' \subseteq held
  BY <1>1 DEF JobRows
<1>4. ASSUME NEW t \in Slots, pc[t] # "idle" PROVE Undisturbed(t)
  <2>1. cur[t] \in Jobs /\ lease[cur[t]] >= 1
    BY <1>4 DEF PunctualInv, TypeOK, SlotsInCharge, InCharge
  <2>2. CASE SnapCurrent(r)
    <3>1. lease[r.job] = 0
      BY <2>2 DEF PunctualInv, RecoveryReadsHold
    <3> QED
      BY <1>1, <1>2, <1>4, <2>1, <2>2, <3>1
      DEF Undisturbed, RecoverToQueued, BackToQueue, ForceFail, JobRows, slotVars,
          PunctualInv, TypeOK
  <2>3. CASE ~SnapCurrent(r)
    BY <1>1, <2>3 DEF Undisturbed, jobVars, slotVars
  <2> QED
    BY <2>2, <2>3
<1>5. Calm
  BY <1>1, <1>4 DEF Calm, slotVars, PunctualInv, SlotsInCharge, Executing, Outcome
<1> QED
  BY <1>3, <1>5 DEF PunctualInv, RowsOfKey

\* Time: no slot is late, so every timer of a busy slot has two ticks left.
LEMMA TickInCharge ==
  ASSUME Punctual, PunctualInv, TypeOK', Tick
  PROVE  SlotsInCharge' /\ RowsOfKey'
<1>0. /\ UNCHANGED <<status, leasedBy, pc, cur, beating>>
      /\ \A s \in Slots : ~Late(s)
  BY DEF Tick
<1>1. ASSUME NEW s \in Slots, pc[s] # "idle" PROVE InCharge(s)'
  <2>1. cur[s] \in Jobs /\ InCharge(s)
    BY <1>1 DEF PunctualInv, TypeOK, SlotsInCharge
  <2>2. lease'[cur[s]] = Dec(lease[cur[s]]) /\ due'[s] = Dec(due[s])
    BY <2>1 DEF Tick
  <2>3. lease[cur[s]] \in Nat /\ lease[cur[s]] >= 2 /\ due[s] \in Nat
    BY <1>0, <1>1, <2>1 DEF Late, PunctualInv, TypeOK
  <2>4. lease'[cur[s]] >= 1
    BY <2>2, <2>3 DEF Dec
  <2>5. due[s] >= lease[cur[s]] => due'[s] >= lease'[cur[s]]
    BY <2>2, <2>3 DEF Dec
  <2>6. HasLock(s) => HasLock(s)'
    <3> SUFFICES ASSUME NEW r \in RowsOf(cur[s], WorkerOf[s]) PROVE HasLock(s)'
      BY DEF HasLock
    <3> DEFINE q == [r EXCEPT !.left = Dec(@)]
    <3>1. r \in held /\ r \in LockRow /\ r.job = cur[s] /\ r.owner = WorkerOf[s]
      BY DEF RowsOf, PunctualInv, TypeOK
    <3>2. r.left \in Nat /\ r.left >= 2
      BY <1>0, <1>1, <3>1 DEF Late, RowsOf, LockRow
    <3>3. q \in held'
      BY <3>1 DEF Tick
    <3>4. q.job = cur'[s] /\ q.owner = WorkerOf[s] /\ q.left >= 1
      BY <1>0, <3>1, <3>2 DEF LockRow, Dec
    <3> QED
      BY <3>3, <3>4 DEF HasLock, RowsOf
  <2> QED
    BY <1>0, <2>1, <2>4, <2>5, <2>6 DEF InCharge, Owned, Executing
<1>2. SlotsInCharge'
  BY <1>0, <1>1 DEF PunctualInv, SlotsInCharge, OneSlotPerJob, Executing
<1>3. \A q \in held' : \E r \in held : q.key = r.key /\ q.job = r.job
  BY DEF Tick, PunctualInv, TypeOK, LockRow
<1> QED
  BY <1>2, <1>3 DEF PunctualInv, RowsOfKey

LEMMA PunctualStep ==
  ASSUME Punctual, PunctualInv, TypeOK', [Next]_vars
  PROVE  SlotsInCharge' /\ RowsOfKey'
<1> USE JobQueueAssumption
<1>1. ASSUME NEW j \in Jobs, Enqueue(j) PROVE Calm /\ RowsOfKey'
  <2>1. ASSUME NEW s \in Slots, pc[s] # "idle" PROVE Undisturbed(s)
    <3>1. cur[s] \in Jobs /\ cur[s] # j
      BY <1>1, <2>1 DEF Enqueue, PunctualInv, TypeOK, SlotsInCharge, InCharge, Owned
    <3> QED
      BY <1>1, <2>1, <3>1 DEF Enqueue, Undisturbed, slotVars, PunctualInv, TypeOK
  <2> QED
    BY <1>1, <2>1
    DEF Enqueue, Calm, slotVars, PunctualInv, SlotsInCharge, RowsOfKey, Executing, Outcome
<1>2. ASSUME NEW s \in Slots, UnknownType(s) \/ RuntimeRequeue(s) \/ Finish(s) \/ Abandon(s)
      PROVE  Calm /\ RowsOfKey'
  <2>1. /\ pc[s] # "idle" /\ ~beating[s] /\ Return(s)
        /\ \/ GiveUp(s)
           \/ \E result \in Terminal : Complete(s, result)
           \/ UNCHANGED <<jobVars, held>>
    BY <1>2
    DEF UnknownType, RuntimeRequeue, Finish, Abandon, PunctualInv, SlotsInCharge,
        Executing, Outcome, Terminal
  <2> QED
    BY <2>1, SettleCalm
<1>3. ASSUME UNCHANGED <<jobVars, held, slotVars>> PROVE Calm /\ RowsOfKey'
  BY <1>3
  DEF Calm, Undisturbed, jobVars, slotVars, PunctualInv, SlotsInCharge, RowsOfKey,
      Executing, Outcome
<1>4. ASSUME NEW w \in Workers, Exit(w) PROVE Calm /\ RowsOfKey'
  <2>1. ASSUME NEW s \in Slots, pc'[s] # "idle" PROVE pc[s] # "idle" /\ Undisturbed(s)
    BY <1>4, <2>1 DEF Exit, Undisturbed, jobVars, PunctualInv, TypeOK
  <2>2. ASSUME NEW s \in Slots, pc'[s] = "idle" PROVE ~beating'[s]
    BY <1>4, <2>2 DEF Exit, PunctualInv, TypeOK, SlotsInCharge, Executing, Outcome
  <2> QED
    BY <1>4, <2>1, <2>2 DEF Exit, Calm, PunctualInv, RowsOfKey
<1>5. \/ \E j \in Jobs : Enqueue(j)
      \/ \E s \in Slots :
           \/ \E j \in Jobs : Claim(s, j)
           \/ UnknownType(s) \/ RuntimeRequeue(s) \/ Finish(s) \/ Abandon(s)
           \/ ExpireLocks(s) \/ InsertLock(s) \/ Beat(s)
           \/ Start(s) \/ Handle(s) \/ StoreError(s)
           \/ \E o \in Outcome : HandlerReturns(s, o)
      \/ \E w \in Workers : Recover(w) \/ Exit(w)
      \/ Tick
      \/ UNCHANGED <<jobVars, held, slotVars>>
  BY DEF Next, SlotStep, ReadExpired, RecoverError, Shutdown, vars
<1> QED
  BY <1>1, <1>2, <1>3, <1>4, <1>5, CalmStep, ClaimInCharge, LockInCharge, MoveInCharge,
     BeatInCharge, RecoverCalm, TickInCharge

LEMMA PunctualInvariant == ASSUME Punctual PROVE Spec => []PunctualInv
<1>1. Init => SlotsInCharge /\ RowsOfKey
  BY JobQueueAssumption DEF Init, SlotsInCharge, OneSlotPerJob, RowsOfKey
<1>2. TypeOK /\ RecoveryReadsHold /\ SlotsInCharge /\ RowsOfKey /\ TypeOK' /\ [Next]_vars
        => SlotsInCharge' /\ RowsOfKey'
  BY PunctualStep DEF PunctualInv
<1>3. TypeOK /\ RecoveryReadsHold /\ SlotsInCharge /\ RowsOfKey => PunctualInv
  BY DEF PunctualInv
<1> QED
  BY <1>1, <1>2, <1>3, TypeInvariant, RecoveryActsOnFacts, PTL DEF Spec

(* With workers that are never a whole lease late, no two handlers run at  *)
(* the same time for one job or for one business key, through any crashes, *)
(* shutdowns, storage errors, retries and recoveries, for any number of    *)
(* processes and of slots, in one process or in many.                      *)
THEOREM HandlersNeverOverlap == ASSUME Punctual PROVE Spec => []HandlersExclusive
<1>1. PunctualInv /\ HeldKeysUnique => HandlersExclusive
  <2> SUFFICES ASSUME PunctualInv, HeldKeysUnique, NEW s \in Slots, NEW t \in Slots,
                      s # t, Executing(s), Executing(t)
               PROVE  cur[s] # cur[t] /\ ~SameKey(cur[s], cur[t])
    BY DEF HandlersExclusive
  <2>1. cur[s] # cur[t] /\ InCharge(s) /\ InCharge(t)
    BY DEF PunctualInv, SlotsInCharge, OneSlotPerJob, Executing, Outcome
  <2>2. ASSUME SameKey(cur[s], cur[t]) PROVE FALSE
    <3>1. PICK r \in held : r.job = cur[s]
      BY <2>1, <2>2 DEF InCharge, HasLock, RowsOf, SameKey
    <3>2. PICK q \in held : q.job = cur[t]
      BY <2>1, <2>2 DEF InCharge, HasLock, RowsOf, SameKey
    <3>3. r.key = q.key
      BY <2>2, <3>1, <3>2 DEF PunctualInv, RowsOfKey, SameKey
    <3> QED
      BY <2>1, <3>1, <3>2, <3>3 DEF HeldKeysUnique
  <2> QED
    BY <2>1, <2>2
<1> QED
  BY <1>1, PunctualInvariant, LockUniqueness, PTL

-----------------------------------------------------------------------------
(* The fencing invariant.  A slot decides from its copy of a row, and a    *)
(* copy that the guard still accepts agrees with the row.  A second slot   *)
(* of the same process could pass for the first, which the guard tells     *)
(* apart by worker_id only: so either each process runs one slot, or slots *)
(* own their jobs because no worker is a whole lease late.                 *)

NoImpostor == SingleSlot \/ \A s \in Slots : pc[s] # "idle" => Owned(s)

LEMMA ImpostorsExcluded ==
  ASSUME SingleSlot \/ Punctual PROVE Spec => []NoImpostor
<1>1. CASE SingleSlot
  <2>1. NoImpostor
    BY <1>1 DEF NoImpostor
  <2> QED
    BY <2>1, PTL
<1>2. CASE Punctual
  <2>1. PunctualInv => NoImpostor
    BY DEF PunctualInv, SlotsInCharge, InCharge, NoImpostor
  <2>2. Spec => []PunctualInv
    BY <1>2, PunctualInvariant
  <2> QED
    BY <2>1, <2>2, PTL
<1> QED
  BY <1>1, <1>2

FencingInv ==
  /\ TypeOK
  /\ OwnerHasLatestAttempt
  /\ RecoveryReadsHold
  /\ QueuedIsClaimable
  /\ \A j \in Jobs : status[j] = "absent" => attempt[j] = 0

\* A write to jobs that hands out no attempt.
JobFrame ==
  /\ attempt' = attempt
  /\ \A j \in Jobs :
       /\ status'[j] = "running" => status[j] = "running" /\ leasedBy'[j] = leasedBy[j]
       /\ status'[j] = "absent" => status[j] = "absent"
       /\ status'[j] = "queued" => attempt[j] < MaxAttempts

\* Such a write in a step after which no copy is newer than before.
Frame ==
  /\ JobFrame
  /\ \A s \in Slots : pc'[s] # "idle" =>
       pc[s] # "idle" /\ cur'[s] = cur[s] /\ att'[s] = att[s]

LEMMA FrameKeepsInv ==
  ASSUME FencingInv, TypeOK', RecoveryReadsHold', Frame
  PROVE  FencingInv'
<1>1. OwnerHasLatestAttempt'
  <2> SUFFICES ASSUME NEW s \in Slots, pc'[s] # "idle", Owned(s)'
               PROVE  att'[s] = attempt'[cur'[s]]
    BY DEF OwnerHasLatestAttempt
  <2>1. cur[s] \in Jobs /\ pc[s] # "idle" /\ cur'[s] = cur[s]
    BY DEF Frame, JobFrame, FencingInv, TypeOK
  <2> QED
    BY <2>1 DEF Frame, JobFrame, FencingInv, OwnerHasLatestAttempt, Owned
<1>2. QueuedIsClaimable'
  BY DEF Frame, JobFrame, FencingInv, QueuedIsClaimable
<1> QED
  BY <1>1, <1>2 DEF FencingInv, Frame, JobFrame

LEMMA IdleFrame ==
  ASSUME FencingInv, UNCHANGED jobVars
  PROVE  JobFrame
BY DEF FencingInv, QueuedIsClaimable, JobFrame, jobVars

LEMMA CompleteFrame ==
  ASSUME FencingInv, NEW s \in Slots, cur[s] \in Jobs,
         NEW result \in Terminal, Complete(s, result)
  PROVE  JobFrame
BY DEF FencingInv, TypeOK, QueuedIsClaimable, JobFrame, Complete, Terminal

LEMMA BackToQueueFrame ==
  ASSUME FencingInv, NEW j \in Jobs, NEW d \in 0 .. Backoff,
         BackToQueue(j, d), attempt[j] < MaxAttempts
  PROVE  JobFrame
BY DEF FencingInv, TypeOK, QueuedIsClaimable, JobFrame, BackToQueue

LEMMA GiveUpFrame ==
  ASSUME FencingInv, NEW s \in Slots, pc[s] # "idle", GiveUp(s)
  PROVE  JobFrame
<1>0. cur[s] \in Jobs
  BY DEF FencingInv, TypeOK
<1>1. CASE att[s] >= MaxAttempts
  BY <1>0, <1>1, CompleteFrame DEF GiveUp, Terminal
<1>2. CASE ~(att[s] >= MaxAttempts) /\ Owned(s)
  <2>1. attempt[cur[s]] < MaxAttempts
    BY <1>0, <1>2, JobQueueAssumption DEF FencingInv, TypeOK, OwnerHasLatestAttempt
  <2>2. PICK d \in 1 .. Backoff : BackToQueue(cur[s], d)
    BY <1>2 DEF GiveUp, Requeue
  <2> QED
    BY <1>0, <2>1, <2>2, BackToQueueFrame, JobQueueAssumption
<1>3. CASE ~(att[s] >= MaxAttempts) /\ ~Owned(s)
  BY <1>3, IdleFrame DEF GiveUp, Requeue
<1> QED
  BY <1>1, <1>2, <1>3

LEMMA ReturnFrame ==
  ASSUME FencingInv, NEW s \in Slots, Return(s), JobFrame
  PROVE  Frame
BY DEF FencingInv, TypeOK, Return, JobFrame, Frame

\* Another slot with the job would have to pass for the one that claims it.
LEMMA ClaimKeepsInv ==
  ASSUME NoImpostor, FencingInv, TypeOK', RecoveryReadsHold',
         NEW s \in Slots, NEW j \in Jobs, Claim(s, j)
  PROVE  FencingInv'
<1> USE JobQueueAssumption
<1>1. OwnerHasLatestAttempt'
  <2> SUFFICES ASSUME NEW t \in Slots, pc'[t] # "idle", Owned(t)'
               PROVE  att'[t] = attempt'[cur'[t]]
    BY DEF OwnerHasLatestAttempt
  <2>1. CASE t = s
    BY <2>1 DEF Claim, FencingInv, TypeOK
  <2>2. CASE t # s
    <3>1. pc[t] # "idle" /\ cur[t] \in Jobs /\ cur'[t] = cur[t] /\ att'[t] = att[t]
      BY <2>2 DEF Claim, Goto, FencingInv, TypeOK
    <3>2. cur[t] # j
      BY <2>2, <3>1
      DEF Claim, Claimable, Owned, NoImpostor, SingleSlot, FencingInv, TypeOK
    <3> QED
      BY <3>1, <3>2
      DEF Claim, Owned, FencingInv, TypeOK, OwnerHasLatestAttempt
  <2> QED
    BY <2>1, <2>2
<1>2. QueuedIsClaimable'
  BY DEF Claim, FencingInv, TypeOK, QueuedIsClaimable
<1>3. \A i \in Jobs : status'[i] = "absent" => attempt'[i] = 0
  BY DEF Claim, FencingInv, TypeOK
<1> QED
  BY <1>1, <1>2, <1>3 DEF FencingInv

LEMMA RecoverFrame ==
  ASSUME FencingInv, NEW w \in Workers, Recover(w)
  PROVE  Frame
<1>1. PICK r \in snap[w] : Recover(w)!(r)
  BY DEF Recover
<1>2. r.job \in Jobs
  BY DEF FencingInv, TypeOK, SnapRow
<1>3. JobFrame
  <2>1. CASE SnapCurrent(r) /\ RecoverToQueued(r)
    <3>1. attempt[r.job] < MaxAttempts
      BY <2>1 DEF RecoverToQueued, FencingInv, RecoveryReadsHold
    <3>2. PICK d \in 0 .. Backoff : BackToQueue(r.job, d)
      BY <2>1 DEF RecoverToQueued
    <3> QED
      BY <1>2, <3>1, <3>2, BackToQueueFrame
  <2>2. CASE SnapCurrent(r) /\ ForceFail(r)
    BY <1>2, <2>2 DEF ForceFail, JobFrame, FencingInv, TypeOK, QueuedIsClaimable
  <2>3. CASE UNCHANGED jobVars
    BY <2>3, IdleFrame
  <2> QED
    BY <1>1, <2>1, <2>2, <2>3
<1> QED
  BY <1>1, <1>3 DEF Frame, slotVars, FencingInv, TypeOK

LEMMA FencingStep ==
  ASSUME NoImpostor, FencingInv, TypeOK', RecoveryReadsHold', [Next]_vars
  PROVE  FencingInv'
<1>1. ASSUME NEW j \in Jobs, Enqueue(j) PROVE Frame
  BY <1>1, JobQueueAssumption
  DEF Enqueue, Frame, JobFrame, FencingInv, TypeOK, QueuedIsClaimable, slotVars
<1>2. ASSUME NEW s \in Slots, UnknownType(s) PROVE Frame
  BY <1>2, CompleteFrame, ReturnFrame DEF UnknownType, FencingInv, TypeOK, Terminal
<1>3. ASSUME NEW s \in Slots, RuntimeRequeue(s) PROVE Frame
  BY <1>3, GiveUpFrame, ReturnFrame DEF RuntimeRequeue
<1>4. ASSUME NEW s \in Slots, Finish(s) PROVE Frame
  <2>1. pc[s] # "idle" /\ cur[s] \in Jobs
    BY <1>4 DEF Finish, FencingInv, TypeOK
  <2>2. JobFrame
    BY <1>4, <2>1, CompleteFrame, GiveUpFrame, IdleFrame DEF Finish, Terminal
  <2> QED
    BY <1>4, <2>2, ReturnFrame DEF Finish
<1>5. ASSUME NEW s \in Slots, Abandon(s) PROVE Frame
  BY <1>5, IdleFrame, ReturnFrame DEF Abandon
<1>6. ASSUME NEW s \in Slots,
             \/ ExpireLocks(s) \/ InsertLock(s) \/ Start(s) \/ Handle(s)
             \/ StoreError(s) \/ BeatLocks(s) \/ BeatFails(s)
             \/ \E o \in Outcome : HandlerReturns(s, o)
      PROVE  Frame
  <2>1. JobFrame /\ cur' = cur /\ att' = att /\ snap' = snap
    BY <1>6, IdleFrame
    DEF ExpireLocks, InsertLock, Start, Handle, StoreError, BeatLocks, BeatFails,
        HandlerReturns
  <2>2. \A t \in Slots : pc'[t] # "idle" => pc[t] # "idle"
    BY <1>6
    DEF ExpireLocks, InsertLock, Start, Handle, StoreError, BeatLocks, BeatFails,
        HandlerReturns, Goto, Before, FencingInv, TypeOK
  <2> QED
    BY <2>1, <2>2 DEF Frame
<1>7. ASSUME NEW s \in Slots, BeatJob(s) PROVE Frame
  BY <1>7 DEF BeatJob, Frame, JobFrame, FencingInv, QueuedIsClaimable
<1>8. ASSUME NEW w \in Workers,
             ReadExpired(w) \/ RecoverError(w) \/ Shutdown(w) PROVE Frame
  BY <1>8, IdleFrame DEF ReadExpired, RecoverError, Shutdown, Frame, slotVars
<1>9. ASSUME NEW w \in Workers, Exit(w) PROVE Frame
  <2>1. \A s \in Slots : pc'[s] # "idle" =>
          pc[s] # "idle" /\ cur'[s] = cur[s] /\ att'[s] = att[s]
    BY <1>9 DEF Exit, FencingInv, TypeOK
  <2> QED
    BY <1>9, <2>1, IdleFrame DEF Exit, Frame
<1>10. CASE Tick
  BY <1>10, FrameKeepsInv DEF Tick, Frame, JobFrame, FencingInv, QueuedIsClaimable
<1>11. CASE UNCHANGED vars
  BY <1>11, IdleFrame, FrameKeepsInv DEF vars, Frame, slotVars
<1> QED
  BY <1>1, <1>2, <1>3, <1>4, <1>5, <1>6, <1>7, <1>8, <1>9, <1>10, <1>11, FrameKeepsInv,
     ClaimKeepsInv, RecoverFrame
  DEF Next, SlotStep, Beat

(* Where each process runs one slot, or no worker is a whole lease late, a *)
(* slot that is not idle holds the latest attempt of its job or has lost   *)
(* it, what a recovery read still holds when it acts, and every queued job *)
(* can be claimed: the invariant the next two theorems project.            *)
THEOREM Fencing == ASSUME SingleSlot \/ Punctual PROVE Spec => []FencingInv
<1>1. Init => FencingInv
  BY TypeInit
  DEF Init, FencingInv, OwnerHasLatestAttempt, RecoveryReadsHold, QueuedIsClaimable
<1>2. NoImpostor /\ FencingInv /\ TypeOK' /\ RecoveryReadsHold' /\ [Next]_vars => FencingInv'
  BY FencingStep
<1> QED
  BY <1>1, <1>2, TypeInvariant, RecoveryActsOnFacts, ImpostorsExcluded, PTL DEF Spec

(* Where each process runs one slot, or no worker is a whole lease late,   *)
(* no job is ever put back into the queue with its attempts used up, where *)
(* nothing would claim or fail it.                                         *)
THEOREM QueueNeverStuck == ASSUME SingleSlot \/ Punctual PROVE Spec => []QueuedIsClaimable
<1>1. FencingInv => QueuedIsClaimable
  BY DEF FencingInv
<1> QED
  BY <1>1, Fencing, PTL

(* Under the same condition only the slot that made the latest claim of a  *)
(* job can settle or requeue it: the guard of Complete and Requeue fences  *)
(* off every other slot.                                                   *)
THEOREM StaleSlotsFenced ==
  ASSUME SingleSlot \/ Punctual PROVE Spec => []OwnerHasLatestAttempt
<1>1. FencingInv => OwnerHasLatestAttempt
  BY DEF FencingInv
<1> QED
  BY <1>1, Fencing, PTL

-----------------------------------------------------------------------------
(* What a step does to the two variables the life cycle knows.             *)

LEMMA CompleteEnds ==
  ASSUME TypeOK, NEW s \in Slots, cur[s] \in Jobs,
         NEW result \in Terminal, Complete(s, result)
  PROVE  Lifecycle!End(cur[s]) \/ UNCHANGED <<status, attempt>>
BY DEF Complete, Owned, Lifecycle!End, Lifecycle!Move, Lifecycle!Terminal, Terminal

LEMMA GiveUpPutsBack ==
  ASSUME FencingInv, NEW s \in Slots, cur[s] \in Jobs, pc[s] # "idle", GiveUp(s)
  PROVE  \/ Lifecycle!End(cur[s])
         \/ Lifecycle!PutBack(cur[s])
         \/ UNCHANGED <<status, attempt>>
<1>1. CASE att[s] >= MaxAttempts
  BY <1>1, CompleteEnds DEF FencingInv, GiveUp, Terminal
<1>2. CASE ~(att[s] >= MaxAttempts) /\ Owned(s)
  <2>1. attempt[cur[s]] < MaxAttempts
    BY <1>2, JobQueueAssumption DEF FencingInv, TypeOK, OwnerHasLatestAttempt
  <2> QED
    BY <1>2, <2>1
    DEF GiveUp, Requeue, BackToQueue, Owned, Lifecycle!PutBack, Lifecycle!Move
<1>3. CASE ~(att[s] >= MaxAttempts) /\ ~Owned(s)
  BY <1>3 DEF GiveUp, Requeue, jobVars
<1> QED
  BY <1>1, <1>2, <1>3

(* Where each process runs one slot, or no worker is a whole lease late,   *)
(* the queue with its leases, locks, heartbeats and recoveries implements  *)
(* the life cycle of its rows.                                             *)
THEOREM Refinement ==
  ASSUME SingleSlot \/ Punctual PROVE Spec => ImplementsLifecycle
<1>1. Init => Lifecycle!Init
  BY DEF Init, Lifecycle!Init
<1>2. FencingInv /\ [Next]_vars => [Lifecycle!Next]_(Lifecycle!vars)
  <2> SUFFICES ASSUME FencingInv, [Next]_vars
               PROVE  \/ \E j \in Jobs : \/ Lifecycle!Submit(j) \/ Lifecycle!Take(j)
                                         \/ Lifecycle!PutBack(j) \/ Lifecycle!End(j)
                      \/ UNCHANGED <<status, attempt>>
    BY DEF Lifecycle!Next, Lifecycle!vars
  <2>1. ASSUME NEW j \in Jobs, Enqueue(j) PROVE Lifecycle!Submit(j)
    BY <2>1 DEF Enqueue, Lifecycle!Submit, Lifecycle!Move
  <2>2. ASSUME NEW s \in Slots, NEW j \in Jobs, Claim(s, j) PROVE Lifecycle!Take(j)
    BY <2>2 DEF Claim, Claimable, Lifecycle!Take, Lifecycle!Move
  <2>3. ASSUME NEW s \in Slots,
               UnknownType(s) \/ RuntimeRequeue(s) \/ Finish(s)
        PROVE  \/ Lifecycle!End(cur[s])
               \/ Lifecycle!PutBack(cur[s])
               \/ UNCHANGED <<status, attempt>>
    <3>1. cur[s] \in Jobs /\ pc[s] # "idle"
      BY <2>3 DEF UnknownType, RuntimeRequeue, Finish, FencingInv, TypeOK
    <3>2. ASSUME NEW result \in Terminal, Complete(s, result)
          PROVE  Lifecycle!End(cur[s]) \/ UNCHANGED <<status, attempt>>
      BY <3>1, <3>2, CompleteEnds DEF FencingInv
    <3> QED
      BY <2>3, <3>1, <3>2, GiveUpPutsBack
      DEF UnknownType, RuntimeRequeue, Finish, Terminal, jobVars
  <2>4. ASSUME NEW s \in Slots, UnknownType(s) \/ RuntimeRequeue(s) \/ Finish(s)
        PROVE  cur[s] \in Jobs
    BY <2>4 DEF UnknownType, RuntimeRequeue, Finish, FencingInv, TypeOK
  <2>5. ASSUME NEW w \in Workers, Recover(w)
        PROVE  \/ \E j \in Jobs : Lifecycle!PutBack(j) \/ Lifecycle!End(j)
               \/ UNCHANGED <<status, attempt>>
    <3>1. PICK r \in snap[w] : Recover(w)!(r)
      BY <2>5 DEF Recover
    <3>2. r.job \in Jobs
      BY DEF FencingInv, TypeOK, SnapRow
    <3>3. CASE SnapCurrent(r) /\ RecoverToQueued(r)
      <4>1. attempt[r.job] < MaxAttempts
        BY <3>3 DEF RecoverToQueued, FencingInv, RecoveryReadsHold
      <4> QED
        BY <3>2, <3>3, <4>1
        DEF RecoverToQueued, BackToQueue, SnapCurrent, Lifecycle!PutBack, Lifecycle!Move
    <3>4. CASE SnapCurrent(r) /\ ForceFail(r)
      BY <3>2, <3>4
      DEF ForceFail, SnapCurrent, Lifecycle!End, Lifecycle!Move, Lifecycle!Terminal
    <3> QED
      BY <3>1, <3>3, <3>4 DEF jobVars
  <2>6. \/ \E j \in Jobs : Enqueue(j)
        \/ \E s \in Slots : \/ \E j \in Jobs : Claim(s, j)
                            \/ UnknownType(s) \/ RuntimeRequeue(s) \/ Finish(s)
        \/ \E w \in Workers : Recover(w)
        \/ UNCHANGED <<status, attempt>>
    BY DEF Next, SlotStep, Beat, ExpireLocks, InsertLock, Start, Handle,
           StoreError, HandlerReturns, Abandon, BeatJob, BeatLocks, BeatFails,
           ReadExpired, RecoverError, Shutdown, Exit, Tick, jobVars, vars
  <2> QED
    BY <2>1, <2>2, <2>3, <2>4, <2>5, <2>6
<1> QED
  BY <1>1, <1>2, Fencing, PTL DEF Spec, ImplementsLifecycle, Lifecycle!Spec

-----------------------------------------------------------------------------
(* Recovery never takes a job whose lease is alive: only a slot of the     *)
(* process that holds it ends or requeues it, however many slots that      *)
(* process runs and however late they are.                                 *)
THEOREM LiveLeases == Spec => LiveLeaseKept
<1> DEFINE A == \A j \in Jobs : Settled(j) /\ lease[j] > 0 =>
                  \E s \in Slots : /\ cur[s] = j /\ WorkerOf[s] = leasedBy[j]
                                   /\ pc'[s] = "idle"
<1>1. TypeOK /\ RecoveryReadsHold /\ [Next]_vars => [A]_vars
  <2> SUFFICES ASSUME TypeOK, RecoveryReadsHold, Next, NEW j \in Jobs, Settled(j), lease[j] > 0
               PROVE  \E s \in Slots : /\ cur[s] = j /\ WorkerOf[s] = leasedBy[j]
                                       /\ pc'[s] = "idle"
    OBVIOUS
  <2>1. ASSUME NEW s \in Slots, Return(s), status'[j] # status[j],
               GiveUp(s) \/ \E result \in Terminal : Complete(s, result)
        PROVE  cur[s] = j /\ WorkerOf[s] = leasedBy[j] /\ pc'[s] = "idle"
    BY <2>1
    DEF Return, GiveUp, Complete, Requeue, BackToQueue, Owned, jobVars,
        TypeOK
  <2>2. ASSUME NEW s \in Slots, UnknownType(s) \/ RuntimeRequeue(s) \/ Finish(s)
        PROVE  \/ UNCHANGED jobVars
               \/ Return(s) /\ (GiveUp(s) \/ \E result \in Terminal : Complete(s, result))
    BY <2>2 DEF UnknownType, RuntimeRequeue, Finish, Terminal
  <2>3. ASSUME NEW w \in Workers, Recover(w) PROVE FALSE
    BY <2>3
    DEF Recover, RecoverToQueued, ForceFail, BackToQueue, SnapCurrent, Settled,
        TypeOK, RecoveryReadsHold, SnapRow, jobVars
  <2>4. status'[j] # status[j]
    BY DEF Settled
  <2>5. \E s \in Slots : UnknownType(s) \/ RuntimeRequeue(s) \/ Finish(s)
    BY <2>3, <2>4
    DEF Next, SlotStep, Beat, Enqueue, Claim, ExpireLocks, InsertLock, Start,
        Handle, StoreError, HandlerReturns, Abandon, BeatJob, BeatLocks,
        BeatFails, ReadExpired, RecoverError, Shutdown, Exit, Tick, jobVars,
        Settled, Claimable, TypeOK
  <2> QED
    BY <2>1, <2>2, <2>4, <2>5 DEF jobVars
<1> QED
  BY <1>1, TypeInvariant, RecoveryActsOnFacts, PTL DEF Spec, LiveLeaseKept

-----------------------------------------------------------------------------
(* A job that is settled or put back leaves no lock of its last holder,    *)
(* whoever settles it and with any number of slots in a process.           *)
THEOREM LocksReleased == Spec => LocksReleasedWithJob
<1> DEFINE A == \A j \in Jobs : Settled(j) =>
                  \A r \in held' : ~(r.job = j /\ r.owner = leasedBy[j])
<1>1. TypeOK /\ [Next]_vars => [A]_vars
  <2> SUFFICES ASSUME TypeOK, Next, NEW j \in Jobs, Settled(j), NEW r \in held'
               PROVE  ~(r.job = j /\ r.owner = leasedBy[j])
    OBVIOUS
  <2>1. ASSUME NEW s \in Slots, UnknownType(s) \/ RuntimeRequeue(s) \/ Finish(s)
        PROVE  \/ UNCHANGED jobVars
               \/ Return(s) /\ (GiveUp(s) \/ \E result \in Terminal : Complete(s, result))
    BY <2>1 DEF UnknownType, RuntimeRequeue, Finish, Terminal
  <2>2. ASSUME NEW s \in Slots, GiveUp(s) \/ \E result \in Terminal : Complete(s, result)
        PROVE  ~(r.job = j /\ r.owner = leasedBy[j])
    BY <2>2
    DEF GiveUp, Complete, Requeue, BackToQueue, Owned, RowsOf, Settled, TypeOK, jobVars
  <2>3. ASSUME NEW w \in Workers, Recover(w) PROVE ~(r.job = j /\ r.owner = leasedBy[j])
    BY <2>3
    DEF Recover, RecoverToQueued, ForceFail, BackToQueue, SnapCurrent, JobRows, Settled,
        TypeOK, SnapRow, jobVars
  <2>4. \/ \E s \in Slots : UnknownType(s) \/ RuntimeRequeue(s) \/ Finish(s)
        \/ \E w \in Workers : Recover(w)
    BY DEF Next, SlotStep, Beat, Enqueue, Claim, ExpireLocks, InsertLock, Start,
        Handle, StoreError, HandlerReturns, Abandon, BeatJob, BeatLocks,
        BeatFails, ReadExpired, RecoverError, Shutdown, Exit, Tick, jobVars,
        Settled, Claimable, TypeOK
  <2> QED
    BY <2>1, <2>2, <2>3, <2>4 DEF jobVars, Settled
<1> QED
  BY <1>1, TypeInvariant, PTL DEF Spec, LocksReleasedWithJob
=============================================================================
