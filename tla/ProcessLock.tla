---------------------------- MODULE ProcessLock ----------------------------
(***************************************************************************)
(* The lock files that keep t-helper to one server (runtime/lock.go) and   *)
(* to one worker per SQLite database (app/worker/lock.go).  Both follow    *)
(* the same protocol; one action is one system call on the path.           *)
(***************************************************************************)
EXTENDS FiniteSets

CONSTANTS
  Procs,     \* processes; each starts once, a restart is another member
  Sees,      \* Sees[p]: the processes whose pid means the same to p
  Stopping,  \* processes that may stop or be killed
  NoProc, NoFile

ASSUME ProcessLockAssumption ==
  /\ Sees \in [Procs -> SUBSET Procs]
  /\ Stopping \subseteq Procs
  /\ NoProc \notin Procs
  /\ NoFile \notin [owner : Procs, written : BOOLEAN]

VARIABLES
  pc,        \* where AcquireLock stands, or how the process ended
  file,      \* what the path names: who created it, metadata or not
  seen,      \* the pid that was read from the file
  overtaken  \* history: a start removed another file than the one it had read

vars == <<pc, file, seen, overtaken>>

Starting == {"opening", "writing", "reading", "checking", "removing"}
Ended    == {"off", "failed", "refused", "exited", "dead"}
File     == [owner : Procs, written : BOOLEAN]

Init ==
  /\ pc = [p \in Procs |-> "off"]
  /\ file = NoFile
  /\ seen = [p \in Procs |-> NoProc]
  /\ overtaken = FALSE

Alive(p) == pc[p] \notin Ended

ProcessLive_fault(p, q) == FALSE

\* kill(pid, 0) as p sees it.
ProcessLive(p, q) == q \in Sees[p] /\ Alive(q)

Goto(p, from, to) ==
  /\ pc[p] = from
  /\ pc' = [pc EXCEPT ![p] = to]

\* The path names a file whose metadata can be decoded.
Readable == file # NoFile /\ file.written

Begin(p) ==
  /\ Goto(p, "off", "opening")
  /\ UNCHANGED <<file, seen, overtaken>>

Create_fault(p) ==
  /\ file' = [owner |-> p, written |-> FALSE]
  /\ Goto(p, "opening", "writing")

Create_unread(p) ==
  IF file = NoFile THEN Create_fault(p)
                   ELSE Goto(p, "opening", "checking") /\ UNCHANGED file

\* OpenFile with O_CREATE and O_EXCL.
Create(p) ==
  \/ /\ file = NoFile
     /\ file' = [owner |-> p, written |-> FALSE]
     /\ Goto(p, "opening", "writing")
  \/ /\ file # NoFile
     /\ Goto(p, "opening", "reading")
     /\ UNCHANGED file

\* The metadata goes to the file that was created, named by the path or not.
Write(p) ==
  /\ Goto(p, "writing", "held")
  /\ file' = IF file # NoFile /\ file.owner = p
               THEN [file EXCEPT !.written = TRUE] ELSE file
  /\ UNCHANGED <<seen, overtaken>>

\* Encode fails: the path is removed, whatever it names by now.
WriteFails(p) ==
  /\ Goto(p, "writing", "failed")
  /\ file' = NoFile
  /\ UNCHANGED <<seen, overtaken>>

\* No file, or one without metadata yet, cannot be read: startup fails.
Read(p) ==
  \/ /\ Readable
     /\ Goto(p, "reading", "checking")
     /\ seen' = [seen EXCEPT ![p] = file.owner]
     /\ UNCHANGED <<file, overtaken>>
  \/ /\ ~Readable
     /\ Goto(p, "reading", "refused")
     /\ UNCHANGED <<file, seen, overtaken>>

\* The health probe only chooses between two errors.
Check(p) ==
  /\ Goto(p, "checking", IF ProcessLive(p, seen[p]) THEN "refused" ELSE "removing")
  /\ UNCHANGED <<file, seen, overtaken>>

\* The complete file of q.
FileOf(q) == [owner |-> q, written |-> TRUE]

Remove_fault(p) == Goto(p, "removing", "opening") /\ UNCHANGED <<file, overtaken>>

\* The stale file is removed by its name, whatever that names by now; then
\* everything again.
Remove(p) ==
  /\ Goto(p, "removing", IF file = NoFile THEN "refused" ELSE "opening")
  /\ overtaken' = (overtaken \/ file \notin {NoFile, FileOf(seen[p])})
  /\ file' = NoFile

\* Normal end of the process.
Release(p) ==
  /\ p \in Stopping
  /\ Goto(p, "held", "exited")
  /\ file' = NoFile
  /\ UNCHANGED <<seen, overtaken>>

Crash(p) ==
  /\ p \in Stopping /\ Alive(p)
  /\ pc' = [pc EXCEPT ![p] = "dead"]
  /\ UNCHANGED <<file, seen, overtaken>>

AcquireLock(p) ==
  \/ Create(p) /\ UNCHANGED <<seen, overtaken>>
  \/ Write(p) \/ WriteFails(p) \/ Read(p) \/ Check(p)
  \/ Remove(p) /\ UNCHANGED seen

Next == \E p \in Procs : Begin(p) \/ AcquireLock(p) \/ Release(p) \/ Crash(p)

Spec == Init /\ [][Next]_vars

\* A process that is starting goes on.
FairSpec == Spec /\ \A p \in Procs : WF_vars(AcquireLock(p))

-----------------------------------------------------------------------------
(* Properties.                                                             *)

TypeOK ==
  /\ pc \in [Procs -> Starting \cup Ended \cup {"held"}]
  /\ file \in File \cup {NoFile}
  /\ seen \in [Procs -> Procs \cup {NoProc}]
  /\ overtaken \in BOOLEAN
  /\ \A p \in Procs : pc[p] \in {"checking", "removing"} => seen[p] \in Procs

(* Two processes never run under the lock together, whoever starts, fails, *)
(* ends or is killed meanwhile, unless a start has removed, by its name,   *)
(* another file than the one it had read and tested: the window between    *)
(* the calls of AcquireLock is the only way in.                            *)
AtMostOneHolder ==
  ~overtaken => \A p, q \in Procs : pc[p] = "held" /\ pc[q] = "held" => p = q

(* Up to then clients find the running process through the file: the path  *)
(* names the holder's own, complete file, whatever other starts do to it.  *)
HolderIsDiscoverable ==
  ~overtaken => \A p \in Procs : pc[p] = "held" => file = FileOf(p)

(* The complete file of a dead process does not keep a start out: it takes *)
(* the lock over, or is refused when another start has removed that file,  *)
(* unless its own write fails or it is killed itself.                      *)
StaleLockReplaced ==
  \A p, d \in Procs :
    (pc[p] = "opening" /\ file = FileOf(d) /\ pc[d] = "dead")
    ~> \/ pc[p] \in {"held", "failed", "dead"}
       \/ pc[p] = "refused" /\ file # FileOf(d)

(* What a lock is to be: the window included.  It does not hold.           *)
OneHolder == \A p, q \in Procs : pc[p] = "held" /\ pc[q] = "held" => p = q
=============================================================================
