------------------------------ MODULE ScanPool ------------------------------
(***************************************************************************)
(* A global scan (scanner/handlers.go): for each requested root a pool of  *)
(* goroutines walks the directory tree, registers the Terraform projects   *)
(* it meets, and then the projects that were not met are marked missing.   *)
(* The disk may change, any read or write may fail, the job's context may  *)
(* be cancelled, and the job may be tried again.                           *)
(*                                                                         *)
(* A step of a worker is one call to the disk or to the store with the     *)
(* section under mu that records its outcome.  The queue is a set: which   *)
(* directory is taken next does not matter here.                           *)
(***************************************************************************)
EXTENDS Naturals, FiniteSets

CONSTANTS
  Paths,       \* the paths that are on disk at some time or have a project row
  Roots,       \* the requested root paths
  Parent,      \* Parent[p]: the directory that holds p; a root holds itself
  Inside,      \* Inside[p]: p and the paths under it
  OnDisk,      \* the directories that may be on disk
  Steady,      \* those of them that are there all the time
  Terraform,   \* those that hold a Terraform file
  Skipped,     \* ignored, ".git" and symlinked directories
  Workers,     \* the goroutines of the pool
  MaxAttempts, \* attempts of the job
  NoPath

ASSUME ScanPoolAssumption ==
  /\ Roots \subseteq Paths
  /\ Parent \in [Paths -> Paths]
  /\ Inside \in [Paths -> SUBSET Paths]
  /\ Steady \subseteq OnDisk /\ OnDisk \subseteq Paths
  /\ IsFiniteSet(Workers) /\ Workers # {}
  /\ MaxAttempts \in Nat \ {0}
  /\ NoPath \notin Paths

Entries(d) == {p \in Paths \ Roots : Parent[p] = d}

\* The paths of a root form a tree.  A project row is named by its root and
\* its path below it, so the trees of two roots have no row in common.
ASSUME TreeAssumption ==
  /\ \A d \in Paths :
       /\ Inside[d] = {d} \cup UNION {Inside[c] : c \in Entries(d)}
       /\ \A c \in Entries(d) : d \notin Inside[c]
  /\ \A r, s \in Roots : r # s => Inside[r] \cap Inside[s] = {}

VARIABLES
  phase,     \* where the handler stands, or how the attempt ended
  attempt,
  cancelled, \* the context of the job
  left,      \* the requested roots that are still to be scanned
  root,      \* the root that is scanned
  useful,    \* processedRoots > 0
  errors,    \* ErrorsCount > 0
  queue, active, \* the variables of the pool under mu
  pc, dir, kids, \* per worker: its place, its directory, the children it found
  processed, \* some directory of the root was read
  seen, erroredSubtrees,
  missing,   \* the projects that MarkMissingProjects selected
  rows,      \* status of the projects table
  discovery  \* projects with a discovery job

jobVars  == <<attempt, cancelled, left, root, useful>>
poolVars == <<queue, active, pc, dir, kids, processed>>
vars == <<phase, errors, jobVars, poolVars, seen, erroredSubtrees, missing, rows, discovery>>

Holding == {"check", "list", "upsert", "enqueue"}
Places  == Holding \cup {"idle", "asleep", "return", "left"}
Ended   == {"done", "failed", "retry"}

Init ==
  /\ phase = "pick" /\ attempt = 1 /\ cancelled = FALSE
  /\ left = Roots /\ root = NoPath /\ useful = FALSE /\ errors = FALSE
  /\ queue = {} /\ active = 0 /\ processed = FALSE
  /\ pc = [w \in Workers |-> "left"]
  /\ dir = [w \in Workers |-> NoPath]
  /\ kids = [w \in Workers |-> {}]
  /\ seen = {} /\ erroredSubtrees = {} /\ missing = {}
  /\ rows \in [Paths -> {"absent", "active", "missing", "disabled"}]
  /\ discovery = {}

-----------------------------------------------------------------------------
(* Handle: one root after the other *)

\* Lstat finds a directory and the pool is started.
ScanRoot(r) ==
  /\ phase = "pick" /\ r \in left /\ ~cancelled
  /\ phase' = "walk"
  /\ root' = r /\ left' = left \ {r}
  /\ queue' = {r} /\ active' = 0 /\ processed' = FALSE
  /\ pc' = [w \in Workers |-> "idle"]
  /\ seen' = {} /\ erroredSubtrees' = {} /\ missing' = {}
  /\ UNCHANGED <<attempt, cancelled, useful, errors, dir, kids, rows, discovery>>

\* Lstat fails, or finds a symbolic link or a file.
RootUnusable(r) ==
  /\ phase = "pick" /\ r \in left /\ ~cancelled
  /\ left' = left \ {r}
  /\ errors' = TRUE
  /\ UNCHANGED <<phase, attempt, cancelled, root, useful, poolVars, seen, erroredSubtrees,
                 missing, rows, discovery>>

\* workers.Wait returns.
Join ==
  /\ phase = "walk" /\ \A w \in Workers : pc[w] = "left"
  /\ phase' = IF processed THEN "read" ELSE "pick"
  /\ useful' = (useful \/ processed)
  /\ UNCHANGED <<errors, attempt, cancelled, left, root, poolVars, seen, erroredSubtrees,
                 missing, rows, discovery>>

UnderErrored_fault(p) == p \in erroredSubtrees

UnderErrored(p) == \E e \in erroredSubtrees : p \in Inside[e]

\* MarkMissingProjects selects the active projects of the root ...
SelectMissing ==
  /\ phase = "read" /\ ~cancelled
  /\ missing' = {p \in Inside[root] : rows[p] = "active" /\ p \notin seen /\ ~UnderErrored(p)}
  /\ phase' = "write"
  /\ UNCHANGED <<errors, jobVars, poolVars, seen, erroredSubtrees, rows, discovery>>

\* ... and changes them in one transaction.
MarkMissing ==
  /\ phase = "write" /\ ~cancelled
  /\ rows' = [p \in Paths |-> IF p \in missing THEN "missing" ELSE rows[p]]
  /\ phase' = "pick"
  /\ UNCHANGED <<errors, jobVars, poolVars, seen, erroredSubtrees, missing, discovery>>

\* The store cannot be read or written, or refuses a cancelled context.
StoreFails ==
  /\ phase \in {"read", "write"} \/ (phase = "pick" /\ left # {})
  /\ phase' = "retry"
  /\ UNCHANGED <<errors, jobVars, poolVars, seen, erroredSubtrees, missing, rows, discovery>>

Finish ==
  /\ phase = "pick" /\ left = {}
  /\ phase' = IF useful THEN "done" ELSE "failed"
  /\ UNCHANGED <<errors, jobVars, poolVars, seen, erroredSubtrees, missing, rows, discovery>>

-----------------------------------------------------------------------------
(* scanRoot: the loop of a worker *)

Goto(w, from, to) ==
  /\ phase = "walk" /\ pc[w] = from
  /\ pc' = [pc EXCEPT ![w] = to]

recordVars == <<seen, erroredSubtrees, missing, rows, discovery>>

Take_uncounted(w) ==
  /\ Goto(w, "idle", "check")
  /\ \E d \in queue : queue' = queue \ {d} /\ dir' = [dir EXCEPT ![w] = d]
  /\ UNCHANGED <<phase, errors, jobVars, active, kids, processed, recordVars>>

Take(w) ==
  /\ Goto(w, "idle", "check")
  /\ \E d \in queue : queue' = queue \ {d} /\ dir' = [dir EXCEPT ![w] = d]
  /\ active' = active + 1
  /\ UNCHANGED <<phase, errors, jobVars, kids, processed, recordVars>>

\* cond.Wait
Sleep(w) ==
  /\ Goto(w, "idle", "asleep")
  /\ queue = {} /\ active > 0
  /\ UNCHANGED <<phase, errors, jobVars, queue, active, dir, kids, processed, recordVars>>

Leave_fault(w) ==
  /\ Goto(w, "idle", "left")
  /\ queue = {}
  /\ UNCHANGED <<phase, errors, jobVars, queue, active, dir, kids, processed, recordVars>>

Leave(w) ==
  /\ Goto(w, "idle", "left")
  /\ queue = {} /\ active = 0
  /\ UNCHANGED <<phase, errors, jobVars, queue, active, dir, kids, processed, recordVars>>

\* The directory is done: its children are queued and all sleepers are woken.
Return_fault(w) ==
  /\ phase = "walk" /\ pc[w] = "return"
  /\ pc' = IF kids[w] = {} THEN [pc EXCEPT ![w] = "idle"]
           ELSE [v \in Workers |-> IF v = w \/ pc[v] = "asleep" THEN "idle" ELSE pc[v]]
  /\ queue' = queue \cup kids[w] /\ active' = active - 1
  /\ dir' = [dir EXCEPT ![w] = NoPath] /\ kids' = [kids EXCEPT ![w] = {}]
  /\ UNCHANGED <<phase, errors, jobVars, processed, recordVars>>

Return(w) ==
  /\ phase = "walk" /\ pc[w] = "return"
  /\ pc' = [v \in Workers |-> IF v = w \/ pc[v] = "asleep" THEN "idle" ELSE pc[v]]
  /\ queue' = queue \cup kids[w] /\ active' = active - 1
  /\ dir' = [dir EXCEPT ![w] = NoPath] /\ kids' = [kids EXCEPT ![w] = {}]
  /\ UNCHANGED <<phase, errors, jobVars, processed, recordVars>>

-----------------------------------------------------------------------------
(* scanDirectory *)

AddError(d) ==
  /\ errors' = TRUE
  /\ erroredSubtrees' = erroredSubtrees \cup {d}

\* ctx.Err() is looked at once, before the directory is read.
CheckContext(w) ==
  /\ ~cancelled /\ Goto(w, "check", "list")
  /\ UNCHANGED <<phase, errors, jobVars, queue, active, dir, kids, processed, recordVars>>

GiveUp(w) ==
  /\ cancelled /\ Goto(w, "check", "return")
  /\ AddError(root)
  /\ UNCHANGED <<phase, jobVars, queue, active, dir, kids, processed, seen, missing, rows, discovery>>

\* A directory without Terraform files: its entries are walked.  Those that
\* come and go may be in the listing or not.
ListChildren(w) ==
  /\ dir[w] \in OnDisk \ Terraform /\ Goto(w, "list", "return")
  /\ LET found == (Entries(dir[w]) \cap OnDisk) \ Skipped
     IN \E ks \in SUBSET (found \ Steady) :
          kids' = [kids EXCEPT ![w] = (found \cap Steady) \cup ks]
  /\ processed' = TRUE
  /\ UNCHANGED <<phase, errors, jobVars, queue, active, dir, recordVars>>

\* A project: what is below it is not walked.
ListProject(w) ==
  /\ dir[w] \in OnDisk \cap Terraform /\ Goto(w, "list", "upsert")
  /\ processed' = TRUE
  /\ UNCHANGED <<phase, errors, jobVars, queue, active, dir, kids, recordVars>>

ListFails(w) ==
  /\ Goto(w, "list", "return")
  /\ AddError(dir[w])
  /\ UNCHANGED <<phase, jobVars, queue, active, dir, kids, processed, seen, missing, rows, discovery>>

\* UpsertProject inserts the row or makes it active; a disabled row stays.
Reactivate(d) == [rows EXCEPT ![d] = IF rows[d] = "disabled" THEN "disabled" ELSE "active"]

UpsertProject_fault(w) ==
  /\ ~cancelled /\ Goto(w, "upsert", "enqueue")
  /\ rows' = [rows EXCEPT ![dir[w]] = IF rows[dir[w]] = "absent" THEN "active" ELSE rows[dir[w]]]
  /\ seen' = seen \cup {dir[w]}
  /\ UNCHANGED <<phase, errors, jobVars, queue, active, dir, kids, processed, erroredSubtrees,
                 missing, discovery>>

UpsertProject(w) ==
  /\ ~cancelled /\ Goto(w, "upsert", "enqueue")
  /\ rows' = Reactivate(dir[w])
  /\ seen' = seen \cup {dir[w]}
  /\ UNCHANGED <<phase, errors, jobVars, queue, active, dir, kids, processed, erroredSubtrees,
                 missing, discovery>>

\* Nothing was written, or the row was and cannot be read back.
UpsertFails(w) ==
  /\ Goto(w, "upsert", "return")
  /\ rows' \in {rows} \cup (IF cancelled THEN {} ELSE {Reactivate(dir[w])})
  /\ AddError(dir[w])
  /\ UNCHANGED <<phase, jobVars, queue, active, dir, kids, processed, seen, missing, discovery>>

\* EnqueueIfNoActive: a discovery job that is active is not doubled.
EnqueueProjectDiscovery(w) ==
  /\ ~cancelled /\ Goto(w, "enqueue", "return")
  /\ discovery' = discovery \cup {dir[w]}
  /\ UNCHANGED <<phase, errors, jobVars, queue, active, dir, kids, processed, seen,
                 erroredSubtrees, missing, rows>>

\* The job could not be enqueued, or it was and the event could not be written.
EnqueueFails(w) ==
  /\ Goto(w, "enqueue", "return")
  /\ discovery' \in {discovery} \cup (IF cancelled THEN {} ELSE {discovery \cup {dir[w]}})
  /\ AddError(dir[w])
  /\ UNCHANGED <<phase, jobVars, queue, active, dir, kids, processed, seen, missing, rows>>

-----------------------------------------------------------------------------
(* The runtime *)

\* Shutdown, or the lease is lost.
Cancel ==
  /\ phase \notin Ended /\ ~cancelled
  /\ cancelled' = TRUE
  /\ UNCHANGED <<phase, errors, attempt, left, root, useful, poolVars, recordVars>>

\* The job is run again, after a retryable failure or the death of the process.
RunAgain ==
  /\ phase \notin {"done", "failed"} /\ attempt < MaxAttempts
  /\ attempt' = attempt + 1 /\ cancelled' = FALSE
  /\ phase' = "pick" /\ left' = Roots /\ root' = NoPath /\ useful' = FALSE /\ errors' = FALSE
  /\ queue' = {} /\ active' = 0 /\ processed' = FALSE
  /\ pc' = [w \in Workers |-> "left"]
  /\ dir' = [w \in Workers |-> NoPath]
  /\ kids' = [w \in Workers |-> {}]
  /\ seen' = {} /\ erroredSubtrees' = {} /\ missing' = {}
  /\ UNCHANGED <<rows, discovery>>

Handle ==
  \/ \E r \in Roots : ScanRoot(r) \/ RootUnusable(r)
  \/ Join \/ SelectMissing \/ MarkMissing \/ StoreFails \/ Finish

Worker(w) ==
  \/ Take(w) \/ Sleep(w) \/ Leave(w) \/ Return(w)
  \/ CheckContext(w) \/ GiveUp(w)
  \/ ListChildren(w) \/ ListProject(w) \/ ListFails(w)
  \/ UpsertProject(w) \/ UpsertFails(w)
  \/ EnqueueProjectDiscovery(w) \/ EnqueueFails(w)

Next ==
  \/ Handle
  \/ \E w \in Workers : Worker(w)
  \/ Cancel \/ RunAgain

Spec == Init /\ [][Next]_vars

\* The handler and every goroutine of the pool go on; calls return.
FairSpec == Spec /\ WF_vars(Handle) /\ \A w \in Workers : WF_vars(Worker(w))

-----------------------------------------------------------------------------
(* Properties *)

TypeOK ==
  /\ phase \in Ended \cup {"pick", "walk", "read", "write"}
  /\ attempt \in 1 .. MaxAttempts
  /\ cancelled \in BOOLEAN /\ useful \in BOOLEAN
  /\ errors \in BOOLEAN /\ processed \in BOOLEAN
  /\ left \subseteq Roots /\ root \in Roots \cup {NoPath}
  /\ queue \subseteq Paths /\ active \in Nat
  /\ pc \in [Workers -> Places]
  /\ dir \in [Workers -> Paths \cup {NoPath}]
  /\ kids \in [Workers -> SUBSET Paths]
  /\ seen \subseteq Paths /\ erroredSubtrees \subseteq Paths /\ missing \subseteq Paths
  /\ rows \in [Paths -> {"absent", "active", "missing", "disabled"}]
  /\ discovery \subseteq Paths

\* The projects a walk from d must come to: every directory on the way is
\* there, none is skipped, and none above the project is one itself.
Expected(d) ==
  {p \in Terraform \cap Inside[d] :
     \A a \in Inside[d] : p \in Inside[a] =>
       /\ a \in Steady
       /\ a # p => a \notin Terraform
       /\ a # d => a \notin Skipped}

\* A project that is on disk all the time is never marked missing, whatever
\* fails, whenever the scan is cancelled or repeated, and however the workers
\* interleave (the seen and erroredSubtrees that MarkMissingProjects is given);
\* a project that the administrator disabled is left disabled.
ProjectsKept ==
  [][/\ \A r \in Roots : \A p \in Expected(r) : rows[p] = "active" => rows'[p] = "active"
     /\ \A p \in Paths : rows[p] = "disabled" => rows'[p] = "disabled"]_rows

\* A job that ends without an error leaves a registry that agrees with the
\* disk: what is there is active (or disabled) and has a discovery job, and no
\* row of a requested root is active that the disk does not have or that the
\* ignore rules exclude (they are asked about entries, never about a root).
RegistryMatchesDisk ==
  phase = "done" /\ ~errors =>
    \A r \in Roots : \A p \in Inside[r] :
      /\ p \in Expected(r) => rows[p] \in {"active", "disabled"} /\ p \in discovery
      /\ rows[p] = "active" => p \in (OnDisk \cap Terraform) \ (Skipped \ Roots)

\* No worker leaves the pool while a directory is queued or being read: the
\* walk is over for the first to leave only if it is over for all.
NobodyLeavesEarly ==
  phase = "walk" /\ (\E w \in Workers : pc[w] = "left") =>
    queue = {} /\ \A w \in Workers : pc[w] \in {"idle", "left"}

\* A worker sleeps only while another is busy and will wake it (no wakeup is
\* lost between the test of the queue and the broadcast).
SleepersWillBeWoken ==
  phase = "walk" =>
    \A w \in Workers : pc[w] = "asleep" =>
      queue = {} /\ \E v \in Workers : pc[v] \in Holding \cup {"return"}

\* Every attempt returns: the pool drains and the handler ends.
AttemptReturns == []<>(phase \in Ended)
=============================================================================
