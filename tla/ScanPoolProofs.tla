--------------------------- MODULE ScanPoolProofs ---------------------------
(***************************************************************************)
(* The pool of a global scan, for any tree, any number of workers and any  *)
(* failures: nobody leaves or sleeps for good while there is work, and no  *)
(* project that is on disk is marked missing.                              *)
(***************************************************************************)
EXTENDS ScanPool, FiniteSetTheorems, TLAPS

Busy == {w \in Workers : pc[w] \in Holding \cup {"return"}}

\* The counter under mu is the number of busy workers.
Counted == active = Cardinality(Busy)

\* What a waiting and what a departed worker saw is still so.
Idlers ==
  phase = "walk" => \A w \in Workers :
    /\ pc[w] = "asleep" => queue = {} /\ active > 0
    /\ pc[w] = "left" => queue = {} /\ active = 0

\* A pool exists only while a root is walked.
Pools ==
  /\ phase = "walk" => \A w \in Busy : dir[w] \in Paths
  /\ phase # "walk" => Busy = {}
  /\ phase \in {"walk", "read", "write"} => root \in Roots

\* The directories that are still to be done.
Pending ==
  queue \cup {dir[w] : w \in {v \in Workers : pc[v] \in Holding \ {"enqueue"}}}
        \cup UNION {kids[w] : w \in {v \in Workers : pc[v] = "return"}}

Accounted(p) == p \in seen \/ UnderErrored(p)

\* A project that must be found has been, or has an error above it, or lies
\* below a directory that is still to be done.
Covered ==
  /\ phase = "walk" =>
       \A p \in Expected(root) : Accounted(p) \/ \E q \in Pending : p \in Expected(q)
  /\ phase = "read" => \A p \in Expected(root) : Accounted(p)
  /\ phase = "write" =>
       /\ missing \subseteq Inside[root] \ Expected(root)
       /\ \A p \in missing : rows[p] = "active"

\* Only projects are registered.
AtProjects == \A w \in Workers : pc[w] \in {"upsert", "enqueue"} => dir[w] \in Terraform

PoolInv == TypeOK /\ Counted /\ Pools /\ Idlers /\ AtProjects

-----------------------------------------------------------------------------
(* The tree *)

LEMMA InsideType ==
  ASSUME NEW d \in Paths
  PROVE  d \in Inside[d] /\ Inside[d] \subseteq Paths
BY ScanPoolAssumption, TreeAssumption

\* What a walk must find below a project is the project itself.
LEMMA ExpectedProject ==
  ASSUME NEW d \in Terraform \cap Paths, NEW p \in Expected(d)
  PROVE  p = d
BY InsideType DEF Expected

\* What it must find below another directory, it must find below an entry
\* that the listing is sure to have.
LEMMA ExpectedEntry ==
  ASSUME NEW d \in Paths \ Terraform, NEW p \in Expected(d)
  PROVE  \E c \in ((Entries(d) \cap OnDisk) \ Skipped) \cap Steady : p \in Expected(c)
<1>1. p \in Inside[d] /\ p # d
  BY DEF Expected
<1>2. PICK c \in Entries(d) : p \in Inside[c]
  BY <1>1, TreeAssumption
<1>3. c \in Paths /\ c \in Inside[c] /\ Inside[c] \subseteq Inside[d] /\ d \notin Inside[c]
  BY TreeAssumption, InsideType DEF Entries
<1>4. c \in Steady /\ c \notin Skipped
  BY <1>1, <1>2, <1>3 DEF Expected
<1>5. p \in Expected(c)
  BY <1>2, <1>3 DEF Expected
<1> QED
  BY <1>4, <1>5, ScanPoolAssumption

-----------------------------------------------------------------------------
(* The pool *)

LEMMA BusyFinite == IsFiniteSet(Busy) /\ Cardinality(Busy) \in Nat
                    /\ (Cardinality(Busy) = 0 <=> Busy = {})
<1>1. IsFiniteSet(Busy)
  BY ScanPoolAssumption, FS_Subset DEF Busy
<1> QED
  BY <1>1, FS_CardinalityType, FS_EmptySet

LEMMA PoolInit == Init => PoolInv /\ Covered
<1> SUFFICES ASSUME Init PROVE PoolInv /\ Covered
  OBVIOUS
<1>1. Busy = {}
  BY DEF Init, Busy, Holding
<1>2. TypeOK
  <2>1. /\ pc \in [Workers -> Places] /\ dir \in [Workers -> Paths \cup {NoPath}]
        /\ kids \in [Workers -> SUBSET Paths]
    BY DEF Init, Places
  <2>2. attempt \in 1 .. MaxAttempts
    BY ScanPoolAssumption DEF Init
  <2> QED
    BY <2>1, <2>2 DEF Init, TypeOK, Ended
<1>3. Cardinality({}) = 0
  BY FS_EmptySet
<1> QED
  BY <1>1, <1>2, <1>3 DEF Init, PoolInv, Counted, Pools, Idlers, AtProjects, Covered

LEMMA PoolStep == PoolInv /\ [Next]_vars => PoolInv'
<1> SUFFICES ASSUME PoolInv, [Next]_vars PROVE PoolInv'
  OBVIOUS
<1> USE ScanPoolAssumption
<1>0. /\ TypeOK /\ Counted /\ Pools /\ Idlers /\ AtProjects
      /\ IsFiniteSet(Busy) /\ Cardinality(Busy) \in Nat /\ (Cardinality(Busy) = 0 <=> Busy = {})
  BY BusyFinite DEF PoolInv
<1>1. TypeOK'
  <2>1. CASE Handle
    BY <1>0, <2>1, InsideType
    DEF Handle, ScanRoot, RootUnusable, Join, SelectMissing, MarkMissing, StoreFails, Finish,
        TypeOK, Ended, Places, Holding, jobVars, poolVars, Pools
  <2>2. ASSUME NEW w \in Workers, Worker(w) PROVE TypeOK'
    <3>1. CASE Return(w)
      <4>1. w \in Busy
        BY <3>1 DEF Return, Busy, TypeOK
      <4>2. active - 1 \in Nat
        BY <1>0, <4>1 DEF Counted
      <4> QED
        BY <1>0, <3>1, <4>2 DEF Return, TypeOK, Places, Holding, jobVars, recordVars
    <3>2. CASE Take(w) \/ Sleep(w) \/ Leave(w) \/ CheckContext(w)
      BY <1>0, <3>2 DEF Take, Sleep, Leave, CheckContext, Goto, TypeOK, Places, Holding, jobVars, recordVars
    <3>3. CASE GiveUp(w)
      BY <1>0, <3>3 DEF GiveUp, AddError, Goto, TypeOK, Places, Holding, jobVars, Pools
    <3>4. CASE ListChildren(w)
      BY <1>0, <3>4 DEF ListChildren, Goto, TypeOK, Places, Holding, jobVars, recordVars, Entries
    <3>5. CASE ListProject(w)
      BY <1>0, <3>5 DEF ListProject, Goto, TypeOK, Places, Holding, jobVars, recordVars
    <3>6. CASE ListFails(w) \/ UpsertProject(w) \/ UpsertFails(w)
            \/ EnqueueProjectDiscovery(w) \/ EnqueueFails(w)
      <4>1. phase = "walk" /\ w \in Busy /\ dir[w] \in Paths
        BY <1>0, <3>6
        DEF ListFails, UpsertProject, UpsertFails, EnqueueProjectDiscovery, EnqueueFails, Goto,
            Busy, Holding, Pools
      <4> QED
        BY <1>0, <3>6, <4>1
        DEF ListFails, UpsertProject, UpsertFails, EnqueueProjectDiscovery, EnqueueFails, Goto,
            AddError, Reactivate, TypeOK, Places, Holding, jobVars
    <3> QED
      BY <2>2, <3>1, <3>2, <3>3, <3>4, <3>5, <3>6 DEF Worker
  <2>3. CASE Cancel
    BY <1>0, <2>3 DEF Cancel, TypeOK, poolVars, recordVars
  <2>4. CASE RunAgain
    <3>1. /\ pc' \in [Workers -> Places] /\ dir' \in [Workers -> Paths \cup {NoPath}]
          /\ kids' \in [Workers -> SUBSET Paths]
      BY <2>4 DEF RunAgain, Places
    <3>2. attempt' \in 1 .. MaxAttempts
      BY <1>0, <2>4 DEF RunAgain, TypeOK
    <3> QED
      BY <1>0, <2>4, <3>1, <3>2 DEF RunAgain, TypeOK
  <2>5. CASE UNCHANGED vars
    BY <1>0, <2>5 DEF vars, TypeOK, jobVars, poolVars
  <2> QED
    BY <2>1, <2>2, <2>3, <2>4, <2>5 DEF Next
<1>a. AtProjects'
  <2>1. CASE Handle \/ Cancel \/ RunAgain \/ UNCHANGED vars
    BY <1>0, <2>1
    DEF Handle, ScanRoot, RootUnusable, Join, SelectMissing, MarkMissing, StoreFails, Finish,
        Cancel, RunAgain, vars, poolVars, AtProjects
  <2>2. ASSUME NEW w \in Workers, Take(w) \/ Sleep(w) \/ Leave(w) \/ Return(w) PROVE AtProjects'
    BY <1>0, <2>2 DEF Take, Sleep, Leave, Return, Goto, AtProjects, TypeOK
  <2>3. ASSUME NEW w \in Workers, Worker(w), ~(Take(w) \/ Sleep(w) \/ Leave(w) \/ Return(w))
        PROVE  AtProjects'
    BY <1>0, <2>3
    DEF Worker, CheckContext, GiveUp, ListChildren, ListProject, ListFails, UpsertProject,
        UpsertFails, EnqueueProjectDiscovery, EnqueueFails, Goto, AtProjects, TypeOK
  <2> QED
    BY <2>1, <2>2, <2>3 DEF Next
<1>2. CASE Handle
  <2>1. \/ Busy' = Busy /\ active' = active /\ phase' # "walk" /\ Busy = {}
        \/ Busy' = {} /\ active' = 0
    BY <1>0, <1>2
    DEF Handle, ScanRoot, RootUnusable, Join, SelectMissing, MarkMissing, StoreFails, Finish,
        Pools, Busy, Holding, poolVars
  <2>2. Counted'
    BY <1>0, <2>1, FS_EmptySet DEF Counted
  <2>3. Pools'
    BY <1>0, <1>2, <2>1
    DEF Handle, ScanRoot, RootUnusable, Join, SelectMissing, MarkMissing, StoreFails, Finish,
        Pools, jobVars
  <2>4. Idlers'
    BY <1>0, <1>2
    DEF Handle, ScanRoot, RootUnusable, Join, SelectMissing, MarkMissing, StoreFails, Finish,
        Idlers
  <2> QED
    BY <1>1, <1>a, <2>2, <2>3, <2>4 DEF PoolInv
<1>3. ASSUME NEW w \in Workers, Take(w) PROVE PoolInv'
  <2>1. Busy' = Busy \cup {w} /\ w \notin Busy
    BY <1>0, <1>3 DEF Take, Goto, Busy, Holding, TypeOK
  <2>2. Counted'
    BY <1>0, <1>3, <2>1, FS_AddElement DEF Counted, Take
  <2>3. Pools' /\ Idlers'
    BY <1>0, <1>3, <2>1 DEF Take, Goto, Pools, Idlers, TypeOK, Busy, jobVars
  <2> QED
    BY <1>1, <1>a, <2>2, <2>3 DEF PoolInv
<1>4. ASSUME NEW w \in Workers, Return(w) PROVE PoolInv'
  <2>1. Busy' = Busy \ {w} /\ w \in Busy
    BY <1>0, <1>4 DEF Return, Busy, Holding, TypeOK
  <2>2. Counted'
    BY <1>0, <1>4, <2>1, FS_RemoveElement DEF Counted, Return
  <2>3. Pools'
    BY <1>0, <1>4, <2>1 DEF Return, Pools, Busy, TypeOK, jobVars
  <2>4. \A v \in Workers : pc[v] # "left"
    BY <1>0, <2>1, <1>4 DEF Idlers, Counted, Return
  <2>5. \A v \in Workers : pc'[v] # "asleep" /\ pc'[v] # "left"
    BY <1>4, <2>4 DEF Return
  <2> QED
    BY <1>1, <1>a, <2>2, <2>3, <2>5 DEF PoolInv, Idlers
<1>5. ASSUME NEW w \in Workers, Sleep(w) \/ Leave(w) PROVE PoolInv'
  <2>1. Busy' = Busy
    BY <1>0, <1>5 DEF Sleep, Leave, Goto, Busy, Holding, TypeOK
  <2> QED
    BY <1>0, <1>1, <1>a, <1>5, <2>1
    DEF Sleep, Leave, Goto, PoolInv, Counted, Pools, Idlers, TypeOK, jobVars
<1>6. ASSUME NEW w \in Workers,
             \/ CheckContext(w) \/ GiveUp(w) \/ ListChildren(w) \/ ListProject(w) \/ ListFails(w)
             \/ UpsertProject(w) \/ UpsertFails(w)
             \/ EnqueueProjectDiscovery(w) \/ EnqueueFails(w)
      PROVE  PoolInv'
  <2> USE DEF CheckContext, GiveUp, ListChildren, ListProject, ListFails, UpsertProject,
              UpsertFails, EnqueueProjectDiscovery, EnqueueFails, Goto
  <2>1. /\ Busy' = Busy
        /\ UNCHANGED <<phase, queue, active, dir, root>>
        /\ \E place \in {"list", "return", "upsert", "enqueue"} : pc' = [pc EXCEPT ![w] = place]
    BY <1>0, <1>6 DEF Busy, Holding, TypeOK, jobVars
  <2> QED
    BY <1>0, <1>1, <1>a, <2>1 DEF PoolInv, Counted, Pools, Idlers, TypeOK
<1>7. CASE RunAgain
  <2>1. Busy' = {}
    BY <1>7 DEF RunAgain, Busy, Holding
  <2> QED
    BY <1>1, <1>a, <1>7, <2>1, FS_EmptySet DEF RunAgain, PoolInv, Counted, Pools, Idlers
<1>8. CASE Cancel \/ UNCHANGED vars
  <2>1. Busy' = Busy /\ UNCHANGED <<phase, queue, active, pc, dir, root>>
    BY <1>8 DEF Cancel, vars, jobVars, poolVars, Busy
  <2> QED
    BY <1>0, <1>1, <1>a, <2>1 DEF PoolInv, Counted, Pools, Idlers
<1> QED
  BY <1>2, <1>3, <1>4, <1>5, <1>6, <1>7, <1>8 DEF Next, Worker

LEMMA PoolInvariant == Spec => []PoolInv
BY PoolInit, PoolStep, PTL DEF Spec

\* The state of a global scan stays well typed.
THEOREM TypeCorrect == Spec => []TypeOK
BY PoolInvariant, PTL DEF PoolInv

\* scanRoot: the first worker to leave the pool leaves it empty, for any number
\* of workers and any tree.
THEOREM PoolIsComplete == Spec => []NobodyLeavesEarly
<1>1. PoolInv => NobodyLeavesEarly
  BY BusyFinite DEF PoolInv, TypeOK, Counted, Idlers, NobodyLeavesEarly, Busy, Places
<1> QED
  BY <1>1, PoolInvariant, PTL

\* scanRoot: whoever waits on the condition variable waits for a busy worker,
\* which broadcasts when it is done.
THEOREM NoLostWakeup == Spec => []SleepersWillBeWoken
<1>1. PoolInv => SleepersWillBeWoken
  BY BusyFinite DEF PoolInv, Counted, Idlers, SleepersWillBeWoken, Busy
<1> QED
  BY <1>1, PoolInvariant, PTL
-----------------------------------------------------------------------------
(* The projects *)

LEMMA RootsInside ==
  ASSUME NEW r \in Roots
  PROVE  r \in Paths /\ Expected(r) \subseteq Inside[r]
BY ScanPoolAssumption DEF Expected

\* An error stays recorded for the rest of the walk.
LEMMA AccountedStays ==
  ASSUME NEW p, Accounted(p), seen \subseteq seen', erroredSubtrees \subseteq erroredSubtrees'
  PROVE  Accounted(p)'
BY DEF Accounted, UnderErrored

LEMMA CoverStep == PoolInv /\ Covered /\ [Next]_vars => Covered'
<1> SUFFICES ASSUME PoolInv, Covered, [Next]_vars PROVE Covered'
  OBVIOUS
<1>0. TypeOK /\ Pools
  BY DEF PoolInv
<1>1. ASSUME NEW r \in Roots, ScanRoot(r) PROVE Covered'
  BY <1>1 DEF ScanRoot, Covered, Pending
<1>2. CASE Join
  <2>1. Pending = {}
    BY <1>2, ScanPoolAssumption DEF PoolInv, Join, Pending, Idlers, Holding
  <2> QED
    BY <1>2, <2>1 DEF Join, Covered, Accounted, UnderErrored
<1>3. CASE SelectMissing
  BY <1>3 DEF SelectMissing, Covered, Accounted, jobVars, TypeOK
<1>4. CASE \/ \E r \in Roots : RootUnusable(r)
           \/ MarkMissing \/ StoreFails \/ Finish \/ RunAgain
  BY <1>4 DEF RootUnusable, MarkMissing, StoreFails, Finish, RunAgain, Covered
<1>5. ASSUME Cancel \/ UNCHANGED vars PROVE Covered'
  <2>1. UNCHANGED <<phase, root, queue, pc, dir, kids, seen, erroredSubtrees, missing, rows>>
    BY <1>5 DEF Cancel, vars, jobVars, poolVars, recordVars
  <2> QED
    BY <2>1 DEF Covered, Accounted, UnderErrored, Pending
<1>6. ASSUME NEW w \in Workers, Worker(w) PROVE Covered'
  <2>1. /\ phase = "walk" /\ UNCHANGED <<phase, root>> /\ root \in Roots
        /\ seen \subseteq seen' /\ erroredSubtrees \subseteq erroredSubtrees'
    BY <1>0, <1>6
    DEF Worker, Take, Sleep, Leave, Return, CheckContext, GiveUp, ListChildren, ListProject,
        ListFails, UpsertProject, UpsertFails, EnqueueProjectDiscovery, EnqueueFails, Goto,
        AddError, Pools, jobVars, recordVars
  <2>2. SUFFICES ASSUME NEW p \in Expected(root), NEW q \in Pending, p \in Expected(q)
                 PROVE  Accounted(p)' \/ \E x \in Pending' : p \in Expected(x)
    BY <2>1, AccountedStays DEF Covered, Expected
  <2>3. CASE \/ Take(w) \/ Sleep(w) \/ Leave(w) \/ Return(w)
             \/ CheckContext(w) \/ ListProject(w)
             \/ EnqueueProjectDiscovery(w) \/ EnqueueFails(w)
    <3>1. q \in Pending'
      BY <1>0, <2>2, <2>3
      DEF Take, Sleep, Leave, Return, CheckContext, ListProject, EnqueueProjectDiscovery,
          EnqueueFails, Goto, Pending, Holding, TypeOK
    <3> QED
      BY <2>2, <3>1
  <2>4. CASE GiveUp(w)
    BY <2>1, <2>4, RootsInside DEF GiveUp, AddError, Accounted, UnderErrored
  <2>5. q # dir[w] => q \in Pending' \/ ~(ListChildren(w) \/ ListFails(w) \/ UpsertProject(w) \/ UpsertFails(w))
    BY <1>0
    DEF ListChildren, ListFails, UpsertProject, UpsertFails, Goto, Pending, Holding, TypeOK
  <2>6. dir[w] \in Paths \/ ~(ListChildren(w) \/ ListFails(w) \/ UpsertProject(w) \/ UpsertFails(w))
    BY <1>0 DEF ListChildren, ListFails, UpsertProject, UpsertFails, Goto, Pools, Busy, Holding
  <2>7. CASE ListChildren(w) /\ q = dir[w]
    <3>1. dir[w] \in Paths \ Terraform
      BY <2>6, <2>7 DEF ListChildren
    <3>2. PICK c \in ((Entries(dir[w]) \cap OnDisk) \ Skipped) \cap Steady : p \in Expected(c)
      BY <2>2, <2>7, <3>1, ExpectedEntry
    <3>3. c \in kids'[w] /\ pc'[w] = "return"
      BY <1>0, <2>7 DEF ListChildren, Goto, TypeOK
    <3> QED
      BY <3>2, <3>3 DEF Pending
  <2>8. CASE (ListFails(w) \/ UpsertFails(w)) /\ q = dir[w]
    BY <2>2, <2>6, <2>8 DEF ListFails, UpsertFails, AddError, Accounted, UnderErrored, Expected
  <2>9. CASE UpsertProject(w) /\ q = dir[w]
    <3>1. dir[w] \in Terraform \cap Paths
      BY <2>6, <2>9 DEF PoolInv, AtProjects, UpsertProject, Goto
    <3>2. p = dir[w]
      BY <2>2, <2>9, <3>1, ExpectedProject
    <3> QED
      BY <2>9, <3>2 DEF UpsertProject, Accounted
  <2> QED
    BY <1>6, <2>2, <2>3, <2>4, <2>5, <2>7, <2>8, <2>9 DEF Worker
<1> QED
  BY <1>1, <1>2, <1>3, <1>4, <1>5, <1>6 DEF Next, Handle

\* The status of a row: MarkMissingProjects takes active rows of its root that
\* need not be there, UpsertProject never takes a row out of active or disabled.
LEMMA KeptStep ==
  PoolInv /\ Covered /\ [Next]_vars =>
    /\ \A r \in Roots : \A p \in Expected(r) : rows[p] = "active" => rows'[p] = "active"
    /\ \A p \in Paths : rows[p] = "disabled" => rows'[p] = "disabled"
<1> SUFFICES ASSUME PoolInv, Covered, [Next]_vars
             PROVE  /\ \A r \in Roots : \A p \in Expected(r) : rows[p] = "active" => rows'[p] = "active"
                    /\ \A p \in Paths : rows[p] = "disabled" => rows'[p] = "disabled"
  OBVIOUS
<1>0. /\ TypeOK /\ Pools
      /\ \A r \in Roots : Expected(r) \subseteq Inside[r] /\ Expected(r) \subseteq Paths
  BY RootsInside, InsideType DEF PoolInv
<1>1. CASE MarkMissing
  <2>1. \A r \in Roots : Expected(r) \cap missing = {}
    BY <1>0, <1>1, TreeAssumption DEF MarkMissing, Covered, Pools
  <2>2. \A p \in missing : rows[p] = "active"
    BY <1>1 DEF MarkMissing, Covered
  <2> QED
    BY <1>0, <1>1, <2>1, <2>2 DEF MarkMissing
<1>2. ASSUME NEW w \in Workers, UpsertProject(w) \/ UpsertFails(w)
      PROVE  /\ \A p \in Paths : rows[p] = "active" => rows'[p] = "active"
             /\ \A p \in Paths : rows[p] = "disabled" => rows'[p] = "disabled"
  BY <1>0, <1>2 DEF UpsertProject, UpsertFails, Reactivate, TypeOK
<1>3. CASE ~MarkMissing /\ ~\E w \in Workers : UpsertProject(w) \/ UpsertFails(w)
  <2>1. rows' = rows
    BY <1>3
    DEF Next, Handle, ScanRoot, RootUnusable, Join, SelectMissing, StoreFails, Finish, Worker,
        Take, Sleep, Leave, Return, CheckContext, GiveUp, ListChildren, ListProject, ListFails,
        EnqueueProjectDiscovery, EnqueueFails, Cancel, RunAgain, recordVars, vars
  <2> QED
    BY <2>1
<1> QED
  BY <1>0, <1>1, <1>2, <1>3

\* Handle and MarkMissingProjects: no project that is on disk all the time is
\* marked missing, for any tree, pool, failure, cancellation and repetition, and
\* no disabled project is touched.
THEOREM ProjectsAreKept == Spec => ProjectsKept
<1>1. Spec => [](PoolInv /\ Covered)
  BY PoolInit, PoolStep, CoverStep, PTL DEF Spec
<1> QED
  BY <1>1, KeptStep, PTL DEF Spec, ProjectsKept

-----------------------------------------------------------------------------
(* The registry after a scan without errors.  First what is true of every  *)
(* scan: the walk stays in the tree of its root and below nothing that is  *)
(* skipped, and what it has registered was on disk.                        *)

Scanning == phase \in {"walk", "read", "write"}

Findable == (OnDisk \cap Terraform) \ (Skipped \ Roots)

\* The children of a directory are handed over at its end.
NoChildren == \A w \in Workers : pc[w] # "return" => kids[w] = {}

\* The directories that are known to the pool.
Held == queue \cup {dir[w] : w \in Busy} \cup UNION {kids[w] : w \in Workers}

InTree ==
  phase = "walk" => \A q \in Held :
    Inside[q] \subseteq Inside[root] /\ (q = root \/ q \in OnDisk \ Skipped)

AtFound ==
  \A w \in Workers : pc[w] \in {"upsert", "enqueue"} => dir[w] \in Inside[root] \cap Findable

SeenFound ==
  Scanning => /\ seen \subseteq Inside[root] \cap Findable
              /\ \A p \in seen : rows[p] \in {"active", "disabled"}

FoundInv == NoChildren /\ InTree /\ AtFound /\ SeenFound

\* Errors are counted and recorded together, so a scan that has counted none
\* has gone wrong nowhere: it read its root, and what it saw is enqueued.
NoneErrored == ~errors => erroredSubtrees = {}

SeenEnqueued ==
  ~errors /\ Scanning =>
    \A p \in seen \ discovery : \E w \in Workers : pc[w] = "enqueue" /\ dir[w] = p

RootIsRead ==
  ~errors /\ phase = "walk" /\ ~processed =>
    root \in queue \cup {dir[w] : w \in {v \in Workers : pc[v] \in {"check", "list"}}}

MissingIsRest ==
  ~errors /\ phase = "write" =>
    /\ Expected(root) \subseteq seen
    /\ missing = {p \in Inside[root] : rows[p] = "active" /\ p \notin seen}

Matches(r) ==
  \A p \in Inside[r] :
    /\ p \in Expected(r) => rows[p] \in {"active", "disabled"} /\ p \in discovery
    /\ rows[p] = "active" => p \in Findable

\* The roots of this attempt that are done agree with the disk.
RootsDone ==
  ~errors /\ phase \notin {"failed", "retry"} =>
    /\ \A r \in Roots \ left : (Scanning => r # root) => Matches(r)
    /\ phase = "done" => left = {}

CleanInv == NoneErrored /\ SeenEnqueued /\ RootIsRead /\ MissingIsRest /\ RootsDone

LEMMA EntryInside ==
  ASSUME NEW d \in Paths, NEW c \in Entries(d)
  PROVE  c \in Paths /\ Inside[c] \subseteq Inside[d]
BY TreeAssumption DEF Entries

\* What a step of a worker adds to the directories that are known.
LEMMA HeldStep ==
  ASSUME PoolInv, FoundInv, NEW w \in Workers, Worker(w), NEW q \in Held'
  PROVE  q \in Held \/ (ListChildren(w) /\ q \in (Entries(dir[w]) \cap OnDisk) \ Skipped)
<1>0. TypeOK /\ NoChildren
  BY DEF PoolInv, FoundInv
<1>1. CASE ListChildren(w)
  <2>1. /\ Busy' = Busy /\ queue' = queue /\ dir' = dir
        /\ kids'[w] \subseteq (Entries(dir[w]) \cap OnDisk) \ Skipped
        /\ \A v \in Workers \ {w} : kids'[v] = kids[v]
    BY <1>0, <1>1 DEF ListChildren, Goto, Busy, Holding, TypeOK
  <2> QED
    BY <1>1, <2>1 DEF Held
<1>2. CASE Take(w)
  <2>1. PICK d \in queue : queue' = queue \ {d} /\ dir' = [dir EXCEPT ![w] = d]
    BY <1>2 DEF Take
  <2>2. Busy' = Busy \cup {w} /\ kids' = kids /\ w \notin Busy
    BY <1>0, <1>2 DEF Take, Goto, Busy, Holding, TypeOK
  <2> QED
    BY <1>0, <2>1, <2>2 DEF Held, TypeOK, Busy
<1>3. CASE Return(w)
  <2>1. /\ queue' = queue \cup kids[w] /\ Busy' \subseteq Busy /\ w \notin Busy'
        /\ \A v \in Workers \ {w} : dir'[v] = dir[v] /\ kids'[v] = kids[v]
        /\ kids'[w] = {}
    BY <1>0, <1>3 DEF Return, Busy, Holding, TypeOK
  <2> QED
    BY <2>1 DEF Held, Busy
<1>4. CASE ~(ListChildren(w) \/ Take(w) \/ Return(w))
  <2>1. Busy' = Busy /\ queue' = queue /\ dir' = dir /\ kids' = kids
    BY <1>0, <1>4
    DEF Worker, Sleep, Leave, CheckContext, GiveUp, ListProject, ListFails, UpsertProject,
        UpsertFails, EnqueueProjectDiscovery, EnqueueFails, Goto, Busy, Holding, TypeOK
  <2> QED
    BY <2>1 DEF Held
<1> QED
  BY <1>1, <1>2, <1>3, <1>4

LEMMA FoundStep == PoolInv /\ PoolInv' /\ FoundInv /\ [Next]_vars => FoundInv'
<1> SUFFICES ASSUME PoolInv, PoolInv', FoundInv, [Next]_vars PROVE FoundInv'
  OBVIOUS
<1> USE ScanPoolAssumption
<1>0. TypeOK /\ Pools /\ NoChildren /\ InTree /\ AtFound /\ SeenFound
  BY DEF PoolInv, FoundInv
<1>1. ASSUME NEW r \in Roots, ScanRoot(r) PROVE FoundInv'
  <2>1. Busy' = {} /\ NoChildren' /\ \A w \in Workers : kids'[w] = {}
    BY <1>0, <1>1 DEF ScanRoot, Pools, NoChildren, Busy, Holding
  <2>2. Held' = {r} /\ root' = r
    BY <1>1, <2>1 DEF ScanRoot, Held
  <2> QED
    BY <1>1, <2>1, <2>2 DEF ScanRoot, FoundInv, InTree, AtFound, SeenFound, Busy, Holding
<1>2. CASE \/ \E r \in Roots : RootUnusable(r)
           \/ Join \/ SelectMissing \/ StoreFails \/ Finish \/ MarkMissing
  BY <1>0, <1>2
  DEF RootUnusable, Join, SelectMissing, StoreFails, Finish, MarkMissing, jobVars, poolVars,
      FoundInv, NoChildren, InTree, AtFound, SeenFound, Scanning
<1>3. CASE RunAgain
  BY <1>3 DEF RunAgain, FoundInv, NoChildren, InTree, AtFound, SeenFound, Scanning
<1>4. CASE Cancel \/ UNCHANGED vars
  <2>1. UNCHANGED <<phase, root, poolVars, seen, rows>>
    BY <1>4 DEF Cancel, vars, jobVars, recordVars
  <2>2. Held' = Held
    BY <2>1 DEF Held, Busy, poolVars
  <2> QED
    BY <1>0, <2>1, <2>2
    DEF poolVars, FoundInv, NoChildren, InTree, AtFound, SeenFound, Scanning
<1>5. ASSUME NEW w \in Workers, Worker(w) PROVE FoundInv'
  <2>1. phase = "walk" /\ phase' = "walk" /\ root' = root /\ root \in Roots
    BY <1>0, <1>5
    DEF Worker, Take, Sleep, Leave, Return, CheckContext, GiveUp, ListChildren, ListProject,
        ListFails, UpsertProject, UpsertFails, EnqueueProjectDiscovery, EnqueueFails, Goto,
        Pools, jobVars
  <2>2. NoChildren'
    BY <1>0, <1>5
    DEF Worker, Take, Sleep, Leave, Return, CheckContext, GiveUp, ListChildren, ListProject,
        ListFails, UpsertProject, UpsertFails, EnqueueProjectDiscovery, EnqueueFails, Goto,
        NoChildren, TypeOK
  <2>3. w \in Busy => dir[w] \in Held /\ dir[w] \in Paths
    BY <1>0, <2>1 DEF Held, Pools
  <2>4. InTree'
    <3> SUFFICES ASSUME NEW q \in Held'
                 PROVE  Inside[q] \subseteq Inside[root] /\ (q = root \/ q \in OnDisk \ Skipped)
      BY <2>1 DEF InTree
    <3>1. CASE q \in Held
      BY <1>0, <2>1, <3>1 DEF InTree
    <3>2. CASE ListChildren(w) /\ q \in (Entries(dir[w]) \cap OnDisk) \ Skipped
      <4>1. w \in Busy
        BY <3>2 DEF ListChildren, Goto, Busy, Holding
      <4>2. Inside[q] \subseteq Inside[dir[w]]
        BY <2>3, <3>2, <4>1, EntryInside
      <4> QED
        BY <1>0, <2>1, <2>3, <3>2, <4>1, <4>2 DEF InTree
    <3> QED
      BY <1>5, <3>1, <3>2, HeldStep
  <2>5. AtFound'
    <3>1. CASE ListProject(w)
      <4>1. w \in Busy
        BY <3>1 DEF ListProject, Goto, Busy, Holding
      <4>2. dir[w] \in Inside[root] \cap Findable
        BY <1>0, <2>1, <2>3, <3>1, <4>1, InsideType DEF ListProject, InTree, Findable
      <4> QED
        BY <1>0, <2>1, <3>1, <4>2 DEF ListProject, Goto, AtFound, TypeOK
    <3>2. CASE ~ListProject(w)
      BY <1>0, <1>5, <2>1, <3>2
      DEF Worker, Take, Sleep, Leave, Return, CheckContext, GiveUp, ListChildren,
          ListFails, UpsertProject, UpsertFails, EnqueueProjectDiscovery, EnqueueFails, Goto,
          AtFound, TypeOK
    <3> QED
      BY <3>1, <3>2
  <2>6. SeenFound'
    <3>1. CASE UpsertProject(w) \/ UpsertFails(w)
      <4>1. dir[w] \in Inside[root] \cap Findable
        BY <1>0, <3>1 DEF UpsertProject, UpsertFails, Goto, AtFound
      <4>2. dir[w] \in Paths
        BY <2>3, <3>1 DEF UpsertProject, UpsertFails, Goto, Busy, Holding
      <4>3. rows' = rows \/ rows' = Reactivate(dir[w])
        BY <3>1 DEF UpsertProject, UpsertFails
      <4>4. \A p \in Paths : rows[p] \in {"active", "disabled"} => rows'[p] \in {"active", "disabled"}
        BY <1>0, <4>3 DEF Reactivate, TypeOK
      <4>5. UpsertProject(w) => rows'[dir[w]] \in {"active", "disabled"}
        BY <1>0, <4>2 DEF UpsertProject, Reactivate, TypeOK
      <4>6. seen' = seen \/ (UpsertProject(w) /\ seen' = seen \cup {dir[w]})
        BY <3>1 DEF UpsertProject, UpsertFails
      <4> QED
        BY <1>0, <2>1, <4>1, <4>4, <4>5, <4>6 DEF SeenFound, Scanning, TypeOK
    <3>2. CASE ~(UpsertProject(w) \/ UpsertFails(w))
      <4>1. UNCHANGED <<rows, seen>>
        BY <1>5, <3>2
        DEF Worker, Take, Sleep, Leave, Return, CheckContext, GiveUp, ListChildren, ListProject,
            ListFails, EnqueueProjectDiscovery, EnqueueFails, recordVars
      <4> QED
        BY <1>0, <2>1, <4>1 DEF SeenFound, Scanning
    <3> QED
      BY <3>1, <3>2
  <2> QED
    BY <2>2, <2>4, <2>5, <2>6 DEF FoundInv
<1> QED
  BY <1>1, <1>2, <1>3, <1>4, <1>5 DEF Next, Handle

\* A step that may only add discovery jobs leaves what is done as it is.
LEMMA MatchesKept ==
  ASSUME NEW r \in Roots, Matches(r), discovery \subseteq discovery',
         \A p \in Inside[r] : rows'[p] = rows[p]
  PROVE  Matches(r)'
BY DEF Matches

LEMMA CleanWorker ==
  ASSUME PoolInv, FoundInv, CleanInv, NEW w \in Workers, Worker(w), ~errors'
  PROVE  CleanInv'
<1>0. /\ TypeOK /\ Pools /\ AtFound
      /\ NoneErrored /\ SeenEnqueued /\ RootIsRead /\ MissingIsRest /\ RootsDone
  BY DEF PoolInv, FoundInv, CleanInv
<1>1. ~(GiveUp(w) \/ ListFails(w) \/ UpsertFails(w) \/ EnqueueFails(w))
  BY DEF GiveUp, ListFails, UpsertFails, EnqueueFails, AddError
<1>2. /\ phase = "walk" /\ phase' = "walk" /\ ~errors /\ root \in Roots
      /\ UNCHANGED <<root, left, erroredSubtrees>>
  BY <1>0, <1>1
  DEF Worker, Take, Sleep, Leave, Return, CheckContext, ListChildren, ListProject,
      UpsertProject, EnqueueProjectDiscovery, Goto, Pools, jobVars, recordVars
<1>3. SeenEnqueued'
  <2>1. CASE UpsertProject(w)
    <3>1. /\ seen' = seen \cup {dir[w]} /\ UNCHANGED <<dir, discovery>>
          /\ pc' = [pc EXCEPT ![w] = "enqueue"]
      BY <2>1 DEF UpsertProject, Goto
    <3> QED
      BY <1>0, <1>2, <3>1 DEF SeenEnqueued, Scanning, TypeOK
  <2>2. CASE EnqueueProjectDiscovery(w)
    BY <1>0, <1>2, <2>2 DEF EnqueueProjectDiscovery, Goto, SeenEnqueued, Scanning, TypeOK
  <2>3. CASE ~(UpsertProject(w) \/ EnqueueProjectDiscovery(w))
    <3>1. /\ UNCHANGED <<seen, discovery>>
          /\ \A v \in Workers : pc[v] = "enqueue" => pc'[v] = "enqueue" /\ dir'[v] = dir[v]
      BY <1>0, <1>1, <2>3
      DEF Worker, Take, Sleep, Leave, Return, CheckContext, ListChildren, ListProject, Goto,
          recordVars, TypeOK
    <3> QED
      BY <1>0, <1>2, <3>1 DEF SeenEnqueued, Scanning
  <2> QED
    BY <2>1, <2>2, <2>3
<1>4. RootIsRead'
  <2>1. CASE ListChildren(w) \/ ListProject(w)
    BY <2>1 DEF ListChildren, ListProject, RootIsRead
  <2>2. CASE Take(w)
    <3>1. PICK d \in queue : queue' = queue \ {d} /\ dir' = [dir EXCEPT ![w] = d]
      BY <2>2 DEF Take
    <3> QED
      BY <1>0, <1>2, <2>2, <3>1 DEF Take, Goto, RootIsRead, TypeOK
  <2>3. CASE ~(ListChildren(w) \/ ListProject(w) \/ Take(w))
    <3>1. /\ queue \subseteq queue' /\ processed' = processed
          /\ \A v \in Workers : pc[v] \in {"check", "list"} =>
               pc'[v] \in {"check", "list"} /\ dir'[v] = dir[v]
      BY <1>0, <1>1, <2>3
      DEF Worker, Sleep, Leave, Return, CheckContext, UpsertProject, EnqueueProjectDiscovery,
          Goto, TypeOK
    <3> QED
      BY <1>0, <1>2, <3>1 DEF RootIsRead
  <2> QED
    BY <2>1, <2>2, <2>3
<1>5. RootsDone'
  <2>1. \A p \in Paths : p \notin Inside[root] => rows'[p] = rows[p]
    <3>1. CASE UpsertProject(w)
      BY <1>0, <3>1 DEF UpsertProject, Goto, Reactivate, AtFound, TypeOK
    <3>2. CASE ~UpsertProject(w)
      BY <1>1, <3>2
      DEF Worker, Take, Sleep, Leave, Return, CheckContext, ListChildren, ListProject,
          EnqueueProjectDiscovery, recordVars
    <3> QED
      BY <3>1, <3>2
  <2>2. discovery \subseteq discovery'
    BY <1>1
    DEF Worker, Take, Sleep, Leave, Return, CheckContext, ListChildren, ListProject,
        UpsertProject, EnqueueProjectDiscovery, recordVars
  <2>3. ASSUME NEW r \in Roots \ left, r # root PROVE Matches(r)'
    <3>1. Matches(r)
      BY <1>0, <1>2, <2>3 DEF RootsDone, Scanning
    <3>2. \A p \in Inside[r] : rows'[p] = rows[p]
      BY <1>2, <2>1, <2>3, TreeAssumption, RootsInside, InsideType
    <3> QED
      BY <2>2, <3>1, <3>2, MatchesKept
  <2> QED
    BY <1>2, <2>3 DEF RootsDone, Scanning
<1> QED
  BY <1>0, <1>2, <1>3, <1>4, <1>5 DEF CleanInv, NoneErrored, MissingIsRest

\* MarkMissingProjects ends a root: what was seen stays as it was registered,
\* what else was active is missing.
LEMMA CleanMark ==
  ASSUME PoolInv, FoundInv, CleanInv, MarkMissing, ~errors
  PROVE  RootsDone'
<1>0. /\ TypeOK /\ Pools /\ SeenFound
      /\ SeenEnqueued /\ MissingIsRest /\ RootsDone
  BY DEF PoolInv, FoundInv, CleanInv
<1>1. /\ phase = "write" /\ phase' = "pick" /\ root \in Roots
      /\ UNCHANGED <<errors, left, root, seen, discovery>>
      /\ rows' = [p \in Paths |-> IF p \in missing THEN "missing" ELSE rows[p]]
  BY <1>0 DEF MarkMissing, Pools, jobVars
<1>2. missing = {p \in Inside[root] : rows[p] = "active" /\ p \notin seen}
  BY <1>0, <1>1 DEF MissingIsRest
<1>3. seen \subseteq discovery
  BY <1>0, <1>1 DEF SeenEnqueued, Scanning, Pools, Busy, Holding
<1>4. Matches(root)'
  <2> SUFFICES ASSUME NEW p \in Inside[root]
               PROVE  /\ p \in Expected(root) => rows'[p] \in {"active", "disabled"} /\ p \in discovery
                      /\ rows'[p] = "active" => p \in Findable
    BY <1>1 DEF Matches
  <2>1. p \in Paths
    BY <1>1, RootsInside, InsideType
  <2>2. p \in Expected(root) => p \in seen
    BY <1>0, <1>1 DEF MissingIsRest
  <2>3. p \in seen => rows[p] \in {"active", "disabled"} /\ p \in Findable
    BY <1>0, <1>1 DEF SeenFound, Scanning
  <2> QED
    BY <1>1, <1>2, <1>3, <2>1, <2>2, <2>3
<1>5. ASSUME NEW r \in Roots \ left, r # root PROVE Matches(r)'
  <2>1. Matches(r)
    BY <1>0, <1>1, <1>5 DEF RootsDone, Scanning
  <2>2. \A p \in Inside[r] : rows'[p] = rows[p]
    BY <1>1, <1>2, <1>5, TreeAssumption, RootsInside, InsideType
  <2> QED
    BY <1>1, <2>1, <2>2, MatchesKept
<1> QED
  BY <1>1, <1>4, <1>5 DEF RootsDone

LEMMA CleanStep ==
  PoolInv /\ Covered /\ FoundInv /\ CleanInv /\ [Next]_vars => CleanInv'
<1> SUFFICES ASSUME PoolInv, Covered, FoundInv, CleanInv, [Next]_vars PROVE CleanInv'
  OBVIOUS
<1>0. /\ TypeOK /\ Pools /\ Idlers
      /\ NoneErrored /\ SeenEnqueued /\ RootIsRead /\ MissingIsRest /\ RootsDone
  BY DEF PoolInv, CleanInv
<1>1. CASE errors'
  BY <1>1 DEF CleanInv, NoneErrored, SeenEnqueued, RootIsRead, MissingIsRest, RootsDone
<1>2. ASSUME NEW r \in Roots, ScanRoot(r), ~errors' PROVE CleanInv'
  <2>1. /\ phase = "pick" /\ phase' = "walk" /\ ~errors /\ root' = r /\ left' = left \ {r}
        /\ UNCHANGED <<rows, discovery>> /\ queue' = {r} /\ seen' = {} /\ erroredSubtrees' = {}
    BY <1>2 DEF ScanRoot
  <2>2. ASSUME NEW q \in Roots \ left', q # r PROVE Matches(q)'
    BY <1>0, <2>1, <2>2, MatchesKept DEF RootsDone, Scanning
  <2> QED
    BY <2>1, <2>2
    DEF CleanInv, NoneErrored, SeenEnqueued, RootIsRead, MissingIsRest, RootsDone, Scanning
<1>3. CASE MarkMissing /\ ~errors'
  <2>1. ~errors /\ phase' = "pick" /\ UNCHANGED erroredSubtrees
    BY <1>3 DEF MarkMissing
  <2> QED
    BY <1>0, <1>3, <2>1, CleanMark
    DEF CleanInv, NoneErrored, SeenEnqueued, RootIsRead, MissingIsRest, Scanning
<1>4. CASE Join /\ ~errors'
  <2>1. /\ phase = "walk" /\ ~errors /\ queue = {} /\ \A w \in Workers : pc[w] = "left"
        /\ UNCHANGED <<root, left, seen, erroredSubtrees, rows, discovery, pc, dir>>
    BY <1>0, <1>4, ScanPoolAssumption DEF Join, Idlers, poolVars
  <2>2. processed /\ phase' = "read"
    BY <1>0, <1>4, <2>1 DEF Join, RootIsRead
  <2>3. ASSUME NEW q \in Roots \ left', q # root' PROVE Matches(q)'
    BY <1>0, <2>1, <2>3, MatchesKept DEF RootsDone, Scanning
  <2> QED
    BY <1>0, <2>1, <2>2, <2>3
    DEF CleanInv, NoneErrored, SeenEnqueued, RootIsRead, MissingIsRest, RootsDone, Scanning
<1>5. CASE SelectMissing /\ ~errors'
  <2>1. /\ phase = "read" /\ phase' = "write" /\ ~errors /\ erroredSubtrees = {}
        /\ UNCHANGED <<root, left, seen, erroredSubtrees, rows, discovery, pc, dir>>
    BY <1>0, <1>5 DEF SelectMissing, NoneErrored, jobVars, poolVars
  <2>2. Expected(root) \subseteq seen /\ \A p \in Inside[root] : ~UnderErrored(p)
    BY <2>1 DEF Covered, Accounted, UnderErrored
  <2>3. missing' = {p \in Inside[root] : rows[p] = "active" /\ p \notin seen}
    BY <1>5, <2>2 DEF SelectMissing
  <2>4. MissingIsRest'
    BY <2>1, <2>2, <2>3 DEF MissingIsRest
  <2>5. ASSUME NEW q \in Roots \ left', q # root' PROVE Matches(q)'
    BY <1>0, <2>1, <2>5, MatchesKept DEF RootsDone, Scanning
  <2> QED
    BY <1>0, <2>1, <2>4, <2>5
    DEF CleanInv, NoneErrored, SeenEnqueued, RootIsRead, RootsDone, Scanning
<1>6. CASE (StoreFails \/ Finish) /\ ~errors'
  <2>1. /\ ~errors /\ phase' \in Ended /\ UNCHANGED <<left, erroredSubtrees, rows, discovery>>
        /\ phase' = "done" => phase = "pick" /\ left = {}
    BY <1>6 DEF StoreFails, Finish, Ended, jobVars
  <2>2. ASSUME NEW q \in Roots, phase' = "done" PROVE Matches(q)'
    BY <1>0, <2>1, <2>2, MatchesKept DEF RootsDone, Scanning
  <2> QED
    BY <1>0, <2>1, <2>2
    DEF CleanInv, NoneErrored, SeenEnqueued, RootIsRead, MissingIsRest, RootsDone, Scanning, Ended
<1>7. CASE RunAgain
  BY <1>7
  DEF RunAgain, CleanInv, NoneErrored, SeenEnqueued, RootIsRead, MissingIsRest, RootsDone, Scanning
<1>8. CASE (Cancel \/ UNCHANGED vars) /\ ~errors'
  <2>1. UNCHANGED <<phase, errors, root, left, queue, pc, dir, processed, seen, erroredSubtrees,
                    missing, rows, discovery>>
    BY <1>8 DEF Cancel, vars, jobVars, poolVars, recordVars
  <2>2. \A q \in Roots : Matches(q) => Matches(q)'
    BY <2>1, MatchesKept
  <2>3. RootsDone'
    BY <1>0, <2>1, <2>2 DEF RootsDone, Scanning
  <2>4. SeenEnqueued' /\ RootIsRead' /\ NoneErrored' /\ MissingIsRest'
    BY <1>0, <2>1 DEF NoneErrored, SeenEnqueued, RootIsRead, MissingIsRest, Scanning
  <2> QED
    BY <2>3, <2>4 DEF CleanInv
<1>9. ASSUME NEW r \in Roots, RootUnusable(r), ~errors' PROVE FALSE
  BY <1>9 DEF RootUnusable
<1> QED
  BY <1>1, <1>2, <1>3, <1>4, <1>5, <1>6, <1>7, <1>8, <1>9, CleanWorker DEF Next, Handle

\* Handle: a scan that ends without an error leaves a registry that agrees with
\* the disk under all its roots, for any tree and any number of goroutines,
\* however often it was cancelled or tried before: what is on disk all the time
\* is active or disabled and has a discovery job, what is active is a project
\* that was on disk and not ignored.
THEOREM ScanIsTruthful == Spec => []RegistryMatchesDisk
<1>1. Init => PoolInv /\ Covered /\ FoundInv /\ CleanInv
  <2>1. Init => FoundInv
    BY DEF Init, FoundInv, NoChildren, InTree, AtFound, SeenFound, Scanning
  <2>2. Init => CleanInv
    BY DEF Init, CleanInv, NoneErrored, SeenEnqueued, RootIsRead, MissingIsRest, RootsDone,
           Scanning
  <2> QED
    BY <2>1, <2>2, PoolInit
<1>2. PoolInv /\ Covered /\ FoundInv /\ CleanInv /\ [Next]_vars
        => (PoolInv /\ Covered /\ FoundInv /\ CleanInv)'
  BY PoolStep, CoverStep, FoundStep, CleanStep
<1>3. CleanInv => RegistryMatchesDisk
  BY DEF CleanInv, RootsDone, Scanning, Matches, Findable, RegistryMatchesDisk
<1> QED
  BY <1>1, <1>2, <1>3, PTL DEF Spec
=============================================================================
