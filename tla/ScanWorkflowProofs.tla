------------------------- MODULE ScanWorkflowProofs -------------------------
(***************************************************************************)
(* What a scan shows of its jobs, for any number of children, slots,       *)
(* requests and attempts, and whatever refreshes and hooks fail.           *)
(***************************************************************************)
EXTENDS ScanWorkflowProps, TLAPS

Busy == {"claimed", "handler", "tools", "emit", "ok", "retryable", "permanent", "cancelled", "giveup"}

\* Where a refresh is asked to go on at, and nothing else is.
Continuations ==
  \A a \in Actors :
    /\ next[a] \in {"idle", "claimed", "handler", "emit", "ok", "apply", "reread"}
    /\ at[a] \notin {"refresh", "upsert"} => next[a] = "idle"

\* What is about to be written has been read, and read from a row.
Carried ==
  \A a \in Actors :
    /\ at[a] \in {"upsert", "save"} => val[a] \in Aggregates
    /\ at[a] = "reread" => wf # "absent"

\* Nothing happens before the scan is created.
Begun ==
  /\ \A j \in Jobs : status[j] # "absent" => status[Parent] # "absent"
  /\ \A a \in Actors : at[a] \notin {"idle", "dead"} => status[Parent] # "absent"

\* A slot between its claim and its final write has the job it claimed.
HasJob ==
  \A a \in Actors : at[a] \in Busy \/ next[a] \in Busy => a \in Slots /\ job[a] \in Jobs

\* Only the parent's handler comes to the place where children are enqueued.
ParentsTools == \A a \in Actors : at[a] = "tools" => job[a] = Parent

ScanInv == TypeOK /\ Continuations /\ Carried /\ Begun /\ HasJob /\ ParentsTools

\* As long as no job is recovered from a slot that runs, a slot at work on a
\* job is the one that holds it.
Working ==
  \A a \in Slots : job[a] \in Jobs => status[job[a]] = "running" /\ owner[job[a]] = a

Truthful(s) == s \in Finished => Ended /\ s = Aggregate

AllTruthful == Truthful(wf) /\ Truthful(scan) /\ \A a \in Actors : Truthful(val[a])

-----------------------------------------------------------------------------
LEMMA AggregateType == Aggregate \in Aggregates
BY DEF Aggregate, Ending, Aggregates, Finished, Terminal

LEMMA ScanInit == Init => ScanInv /\ Working /\ AllTruthful
BY ScanWorkflowAssumption
DEF Init, ScanInv, TypeOK, Continuations, Carried, Begun, HasJob, ParentsTools, Working,
    AllTruthful, Truthful, Jobs, Actors, Places, Busy, Finished, Terminal

LEMMA ScanStep == ScanInv /\ [Next]_vars => ScanInv'
<1> SUFFICES ASSUME ScanInv, [Next]_vars PROVE ScanInv'
  OBVIOUS
<1> USE ScanWorkflowAssumption
    DEF ScanInv, TypeOK, Continuations, Carried, Begun, HasJob, ParentsTools, Jobs, Actors,
        Places, Busy, Goto, Forget, Refresh, Aggregates, Finished, Terminal, jobVars
<1>1. ASSUME NEW a \in Actors, ReadCounts(a) PROVE ScanInv'
  BY <1>1, AggregateType DEF ReadCounts
<1>2. ASSUME NEW a \in Actors, Upsert(a) PROVE ScanInv'
  BY <1>2 DEF Upsert
<1>3. ASSUME NEW a \in Actors, ReadWorkflow(a) PROVE ScanInv'
  BY <1>3 DEF ReadWorkflow
<1>4. ASSUME NEW a \in Actors, SaveScan(a) PROVE ScanInv'
  BY <1>4 DEF SaveScan
<1>5. ASSUME NEW a \in Actors, RefreshFails(a) PROVE ScanInv'
  BY <1>5 DEF RefreshFails
<1>6. ASSUME NEW a \in Actors, ApplyFails(a) PROVE ScanInv'
  BY <1>6 DEF ApplyFails
<1>7. ASSUME NEW a \in Readers, CreateScan(a) PROVE ScanInv'
  BY <1>7 DEF CreateScan
<1>8. ASSUME NEW a \in Readers, GetScan(a) \/ Reconcile(a) PROVE ScanInv'
  BY <1>8 DEF GetScan, Reconcile
<1>9. ASSUME NEW a \in Slots, Start(a) PROVE ScanInv'
  BY <1>9 DEF Start
<1>10. ASSUME NEW a \in Slots, NotStarted(a) PROVE ScanInv'
  BY <1>10 DEF NotStarted
<1>11. ASSUME NEW a \in Slots, MarkRunning(a) PROVE ScanInv'
  BY <1>11 DEF MarkRunning
<1>12. ASSUME NEW a \in Slots, Emit(a) PROVE ScanInv'
  BY <1>12 DEF Emit
<1>13. ASSUME NEW a \in Slots, NEW c \in Children, EnqueueChild(a, c) PROVE ScanInv'
  BY <1>13 DEF EnqueueChild
<1>14. ASSUME NEW a \in Slots, NEW o \in Outcome, HandlerEnds(a, o) PROVE ScanInv'
  BY <1>14 DEF HandlerEnds, Outcome
<1>15. ASSUME NEW a \in Slots, Finish(a) PROVE ScanInv'
  BY <1>15 DEF Finish, Settle, PutBack, Owned, Outcome
<1>16. ASSUME NEW a \in Slots, RuntimeRequeue(a) PROVE ScanInv'
  BY <1>16 DEF RuntimeRequeue, Settle, PutBack, Owned
<1>17. ASSUME NEW a \in Slots, Abandon(a) PROVE ScanInv'
  BY <1>17 DEF Abandon, Outcome
<1>18. ASSUME NEW a \in Slots, Crash(a) PROVE ScanInv'
  BY <1>18 DEF Crash
<1>19. ASSUME NEW a \in Slots, NEW j \in Jobs, Claim(a, j) PROVE ScanInv'
  BY <1>19 DEF Claim
<1>20. ASSUME NEW j \in Jobs, Recover(j) PROVE ScanInv'
  BY <1>20 DEF Recover
<1>21. CASE UNCHANGED vars
  BY <1>21 DEF vars, actorVars
<1> QED
  BY <1>1, <1>2, <1>3, <1>4, <1>5, <1>6, <1>7, <1>8, <1>9, <1>10, <1>11, <1>12, <1>13,
     <1>14, <1>15, <1>16, <1>17, <1>18, <1>19, <1>20, <1>21
  DEF Next, ActorStep, SlotStep

-----------------------------------------------------------------------------
LEMMA ScanInvariant == Spec => []ScanInv
<1>1. Init => ScanInv
  BY ScanInit
<1>2. ScanInv /\ [Next]_vars => ScanInv'
  BY ScanStep
<1> QED
  BY <1>1, <1>2, PTL DEF Spec

(* Every reachable state is well typed; a scan exists exactly when its     *)
(* parent job does.                                                        *)
THEOREM TypeInvariant == Spec => []TypeOK
<1>1. ScanInv => TypeOK
  BY DEF ScanInv
<1> QED
  BY <1>1, ScanInvariant, PTL

\* The actions that change a job, and how.
LEMMA JobSteps ==
  ASSUME ScanInv, [Next]_vars
  PROVE  \/ UNCHANGED jobVars
         \/ \E a \in Readers : CreateScan(a)
         \/ \E a \in Slots, c \in Children : EnqueueChild(a, c)
         \/ \E a \in Slots, j \in Jobs : Claim(a, j)
         \/ \E a \in Slots : Finish(a) \/ RuntimeRequeue(a)
         \/ \E j \in Jobs : Recover(j)
BY DEF Next, ActorStep, SlotStep, ReadCounts, Upsert, ReadWorkflow, SaveScan, RefreshFails,
       ApplyFails, GetScan, Reconcile, Start, NotStarted, MarkRunning, Emit, HandlerEnds,
       Abandon, Crash, vars

LEMMA WorkingStep ==
  ASSUME ~Late, ScanInv, Working, [Next]_vars PROVE Working'
<1> USE ScanWorkflowAssumption
    DEF Working, ScanInv, TypeOK, Begun, HasJob, Jobs, Actors, Busy, Goto, Forget, Refresh, jobVars
<1>1. ASSUME NEW a \in Readers, CreateScan(a) PROVE Working'
  BY <1>1 DEF CreateScan
<1>2. ASSUME NEW a \in Slots, NEW c \in Children, EnqueueChild(a, c) PROVE Working'
  BY <1>2 DEF EnqueueChild
<1>3. ASSUME NEW a \in Slots, NEW j \in Jobs, Claim(a, j) PROVE Working'
  BY <1>3 DEF Claim
<1>4. ASSUME NEW a \in Slots, Finish(a) \/ RuntimeRequeue(a) PROVE Working'
  BY <1>4 DEF Finish, RuntimeRequeue, Settle, PutBack, Owned, Outcome
<1>5. ASSUME NEW j \in Jobs, Recover(j) PROVE Working'
  BY <1>5 DEF Recover, Left
<1>6. CASE UNCHANGED jobVars
  <2>1. \A a \in Slots : job'[a] = job[a] \/ job'[a] = NoJob \/ \E j \in Jobs : Claim(a, j)
    BY DEF Next, ActorStep, SlotStep, ReadCounts, Upsert, ReadWorkflow, SaveScan, RefreshFails,
           ApplyFails, CreateScan, GetScan, Reconcile, Claim, Start, NotStarted, MarkRunning,
           EnqueueChild, Emit, HandlerEnds, Finish, RuntimeRequeue, Abandon, Crash, Recover,
           vars, actorVars
  <2> QED
    BY <1>3, <1>6, <2>1
<1> QED
  BY <1>1, <1>2, <1>3, <1>4, <1>5, <1>6, JobSteps

\* Once all jobs have ended nobody can claim, settle, recover or add one.
LEMMA EndStays ==
  ASSUME ScanInv, Working, [Next]_vars, Ended PROVE UNCHANGED status
<1> USE ScanWorkflowAssumption
    DEF Working, ScanInv, TypeOK, Begun, HasJob, ParentsTools, Jobs, Actors, Ended, Terminal,
        Goto, Refresh, jobVars
<1>1. ASSUME NEW a \in Readers, CreateScan(a) PROVE FALSE
  BY <1>1 DEF CreateScan
<1>2. ASSUME NEW a \in Slots, NEW c \in Children, EnqueueChild(a, c) PROVE FALSE
  BY <1>2 DEF EnqueueChild
<1>3. ASSUME NEW a \in Slots, NEW j \in Jobs, Claim(a, j) PROVE FALSE
  BY <1>3 DEF Claim
<1>4. ASSUME NEW a \in Slots, Finish(a) \/ RuntimeRequeue(a) PROVE FALSE
  BY <1>4 DEF Finish, RuntimeRequeue, Owned, Busy, Outcome
<1>5. ASSUME NEW j \in Jobs, Recover(j) PROVE FALSE
  BY <1>5 DEF Recover
<1> QED
  BY <1>1, <1>2, <1>3, <1>4, <1>5, JobSteps

LEMMA WorkingInvariant == ASSUME ~Late PROVE Spec => [](ScanInv /\ Working)
<1>1. Init => ScanInv /\ Working
  BY ScanInit
<1>2. (ScanInv /\ Working) /\ [Next]_vars => (ScanInv /\ Working)'
  BY ScanStep, WorkingStep
<1> QED
  BY <1>1, <1>2, PTL DEF Spec

(* A scan whose jobs have all ended stays so, where recovery leaves        *)
(* running slots alone.                                                    *)
THEOREM EndsAreFinal == ASSUME ~Late PROVE Spec => EndIsFinal
<1>1. (ScanInv /\ Working) /\ [Next]_vars => [Ended => UNCHANGED status]_vars
  BY EndStays
<1> QED
  BY <1>1, WorkingInvariant, PTL DEF Spec, EndIsFinal

-----------------------------------------------------------------------------
\* An aggregate of counts that contain no queued and no running job is final.
LEMMA FinishedAggregate ==
  ASSUME ScanInv, status[Parent] # "absent", Aggregate \in Finished PROVE Ended
BY DEF Aggregate, Finished, Terminal, Some, Ended, ScanInv, TypeOK

\* Where the aggregates that a step writes come from.
LEMMA Writes ==
  ASSUME ScanInv, [Next]_vars
  PROVE  /\ wf' = wf \/ \E a \in Actors : wf' = val[a]
         /\ scan' \in {scan, "queued", "running"} \/ \E a \in Actors : scan' = val[a]
         /\ \A a \in Actors : \/ val'[a] \in {val[a], "absent", wf}
                              \/ val'[a] = Aggregate /\ status[Parent] # "absent"
BY DEF ScanInv, TypeOK, Begun, Next, ActorStep, SlotStep, ReadCounts, Upsert, ReadWorkflow,
       SaveScan, RefreshFails, ApplyFails, CreateScan, GetScan, Reconcile, Claim, Start,
       NotStarted, MarkRunning, EnqueueChild, Emit, HandlerEnds, Finish, RuntimeRequeue,
       Abandon, Crash, Recover, Goto, Forget, vars, actorVars

\* A finished status is read only after the end, and the end stays.
LEMMA TruthfulStep ==
  ASSUME ScanInv, Working, AllTruthful, [Next]_vars PROVE AllTruthful'
<1>1. status[Parent] # "absent" => Truthful(Aggregate)
  BY FinishedAggregate DEF Truthful
<1>2. Ended => Ended' /\ Aggregate' = Aggregate
  BY EndStays DEF Ended, Aggregate, Ending, Some, All
<1> QED
  BY <1>1, <1>2, Writes DEF AllTruthful, Truthful, Finished, Terminal

(* A scan or a workflow that is shown as finished is finished, and shows   *)
(* how it ended, however late, lost or repeated the refreshes are.         *)
THEOREM ShownTruthfully == ASSUME ~Late PROVE Spec => []FinishedTruthfully
<1>1. Init => AllTruthful
  BY ScanInit
<1>2. (ScanInv /\ Working) /\ AllTruthful /\ [Next]_vars => AllTruthful'
  BY TruthfulStep
<1>3. AllTruthful => FinishedTruthfully
  BY DEF AllTruthful, Truthful, FinishedTruthfully
<1> QED
  BY <1>1, <1>2, <1>3, WorkingInvariant, PTL DEF Spec

-----------------------------------------------------------------------------
(* The jobs of a scan behave as JobLifecycle describes, also where leases  *)
(* are recovered from slots that still run.                                *)
THEOREM Refinement == Spec => ImplementsLifecycle
<1>1. Init => Lifecycle!Init
  BY DEF Init, Lifecycle!Init
<1>2. ScanInv /\ [Next]_vars => [Lifecycle!Next]_(Lifecycle!vars)
  <2> SUFFICES ASSUME ScanInv, [Next]_vars
               PROVE  \/ \E j \in Jobs : \/ Lifecycle!Submit(j) \/ Lifecycle!Take(j)
                                         \/ Lifecycle!PutBack(j) \/ Lifecycle!End(j)
                      \/ UNCHANGED <<status, attempt>>
    BY DEF Lifecycle!Next, Lifecycle!vars
  <2> USE ScanWorkflowAssumption DEF ScanInv, TypeOK, Jobs, Actors, Terminal, Lifecycle!Move
  <2>1. ASSUME NEW a \in Readers, CreateScan(a) PROVE Lifecycle!Submit(Parent)
    BY <2>1 DEF CreateScan, Lifecycle!Submit
  <2>2. ASSUME NEW a \in Slots, NEW c \in Children, EnqueueChild(a, c) PROVE Lifecycle!Submit(c)
    BY <2>2 DEF EnqueueChild, Lifecycle!Submit
  <2>3. ASSUME NEW a \in Slots, NEW j \in Jobs, Claim(a, j) PROVE Lifecycle!Take(j)
    BY <2>3 DEF Claim, Lifecycle!Take
  <2>4. ASSUME NEW a \in Slots, Finish(a) \/ RuntimeRequeue(a)
        PROVE  Lifecycle!PutBack(job[a]) \/ Lifecycle!End(job[a])
    BY <2>4 DEF Finish, RuntimeRequeue, Settle, PutBack, Owned, Lifecycle!PutBack, Lifecycle!End,
                Lifecycle!Terminal
  <2>5. ASSUME NEW a \in Slots, Finish(a) \/ RuntimeRequeue(a) PROVE job[a] \in Jobs
    BY <2>5 DEF HasJob, Busy, Outcome, Finish, RuntimeRequeue
  <2>6. ASSUME NEW j \in Jobs, Recover(j) PROVE Lifecycle!PutBack(j) \/ Lifecycle!End(j)
    BY <2>6 DEF Recover, Lifecycle!PutBack, Lifecycle!End, Lifecycle!Terminal
  <2> QED
    BY <2>1, <2>2, <2>3, <2>4, <2>5, <2>6, JobSteps DEF jobVars
<1> QED
  BY <1>1, <1>2, ScanInvariant, PTL DEF Spec, ImplementsLifecycle, Lifecycle!Spec
=============================================================================
