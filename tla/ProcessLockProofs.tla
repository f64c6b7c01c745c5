------------------------- MODULE ProcessLockProofs -------------------------
(***************************************************************************)
(* Mutual exclusion of the lock file, for any set of processes.            *)
(***************************************************************************)
EXTENDS ProcessLock, TLAPS

(* The pid a starting process compares and the file it may remove are ones *)
(* that some process has written: Check and Remove never act on a pid that *)
(* was not read, whoever sees whom and however starts interleave.          *)
THEOREM TypeCorrect == Spec => []TypeOK
<1>1. Init => TypeOK
  BY DEF Init, TypeOK, Starting, Ended
<1>2. TypeOK /\ [Next]_vars => TypeOK'
  <2> SUFFICES ASSUME TypeOK, [Next]_vars PROVE TypeOK'
    OBVIOUS
  <2> USE DEF TypeOK, Starting, Ended, Goto
  <2>1. ASSUME NEW p \in Procs, Begin(p) PROVE TypeOK'
    BY <2>1 DEF Begin
  <2>2. ASSUME NEW p \in Procs, Create(p), UNCHANGED <<seen, overtaken>> PROVE TypeOK'
    <3>1. [owner |-> p, written |-> FALSE] \in File
      BY DEF File
    <3> QED
      BY <2>2, <3>1 DEF Create
  <2>3. ASSUME NEW p \in Procs, Write(p) PROVE TypeOK'
    <3>1. file' \in File \cup {NoFile}
      BY <2>3 DEF Write, File
    <3> QED
      BY <2>3, <3>1 DEF Write
  <2>4. ASSUME NEW p \in Procs, WriteFails(p) \/ Release(p) \/ Crash(p)
        PROVE  TypeOK'
    BY <2>4 DEF WriteFails, Release, Crash
  <2>5. ASSUME NEW p \in Procs, Read(p) PROVE TypeOK'
    <3>1. Readable => file.owner \in Procs
      BY DEF Readable, File
    <3> QED
      BY <2>5, <3>1 DEF Read
  <2>6. ASSUME NEW p \in Procs, Check(p) PROVE TypeOK'
    BY <2>6 DEF Check
  <2>7. ASSUME NEW p \in Procs, Remove(p), UNCHANGED seen PROVE TypeOK'
    BY <2>7 DEF Remove
  <2>8. CASE UNCHANGED vars
    BY <2>8 DEF vars
  <2> QED
    BY <2>1, <2>2, <2>3, <2>4, <2>5, <2>6, <2>7, <2>8 DEF Next, AcquireLock
<1> QED
  BY <1>1, <1>2, PTL DEF Spec

-----------------------------------------------------------------------------
\* kill(pid, 0) means the same to all processes: they run on one host.
OneHost == \A p \in Procs : Sees[p] = Procs

WritersFile == \A p \in Procs : pc[p] = "writing" => file = [owner |-> p, written |-> FALSE]

HoldersFile == \A p \in Procs : pc[p] = "held" => file = FileOf(p)

\* Whom a start means to replace is gone, and does not come back.
RemovesStale == \A p \in Procs : pc[p] = "removing" => ~Alive(seen[p]) /\ pc[seen[p]] # "off"

\* Only a process that has got past the creation of its file has one.
FilesBegun == file # NoFile => pc[file.owner] # "off"

SeenBegun == \A p \in Procs : pc[p] \in {"checking", "removing"} => pc[seen[p]] # "off"

LockInv ==
  /\ TypeOK /\ FilesBegun /\ SeenBegun /\ RemovesStale
  /\ ~overtaken => WritersFile /\ HoldersFile

LEMMA LockInit == Init => LockInv
BY DEF Init, LockInv, TypeOK, FilesBegun, SeenBegun, RemovesStale, WritersFile, HoldersFile, Ended, Starting

LEMMA FileRecord ==
  ASSUME NEW p \in Procs, NEW w \in BOOLEAN
  PROVE  /\ [owner |-> p, written |-> w] \in File
         /\ [owner |-> p, written |-> w] # NoFile
BY ProcessLockAssumption DEF File

\* Nobody comes back to "off" or from the dead.
LEMMA GoneStays ==
  ASSUME TypeOK, Next, NEW q \in Procs, pc[q] # "off"
  PROVE  pc'[q] # "off" /\ (~Alive(q) => ~Alive(q)')
<1> USE DEF TypeOK, Starting, Ended, Goto, Alive
<1>1. PICK p \in Procs : Begin(p) \/ AcquireLock(p) \/ Release(p) \/ Crash(p)
  BY DEF Next
<1> QED
  BY <1>1 DEF Begin, AcquireLock, Create, Write, WriteFails, Read, Check, Remove, Release, Crash

\* A step of p that leaves the path alone, and p without a file.
LEMMA PathKept ==
  ASSUME WritersFile, HoldersFile, TypeOK, NEW p \in Procs, file' = file,
         \A q \in Procs \ {p} : pc'[q] = pc[q], pc'[p] \notin {"writing", "held"}
  PROVE  WritersFile' /\ HoldersFile'
BY DEF WritersFile, HoldersFile, FileOf

\* Nobody has a file where the path names none, or one of a process that is gone.
LEMMA NobodysFile ==
  ASSUME WritersFile, HoldersFile, NEW q \in Procs,
         file = NoFile \/ (\E d \in Procs : file = FileOf(d) /\ pc[d] \in Ended)
  PROVE  pc[q] \notin {"writing", "held"}
<1>1. CASE file = NoFile
  BY <1>1, FileRecord DEF WritersFile, HoldersFile, FileOf
<1>2. ASSUME NEW d \in Procs, file = FileOf(d), pc[d] \in Ended
      PROVE  pc[q] \notin {"writing", "held"}
  BY <1>2 DEF WritersFile, HoldersFile, FileOf, Ended
<1> QED
  BY <1>1, <1>2

\* What holders and writers rely on survives every step that removes no other
\* file than the one it has read.
LEMMA FilesStep ==
  ASSUME OneHost, LockInv, Next, ~overtaken'
  PROVE  WritersFile' /\ HoldersFile'
<1>0. TypeOK /\ RemovesStale /\ SeenBegun
  BY DEF LockInv
<1> USE DEF Goto
<1>1. PICK p \in Procs : Begin(p) \/ AcquireLock(p) \/ Release(p) \/ Crash(p)
  BY DEF Next
<1>2. /\ \A q \in Procs \ {p} : pc'[q] = pc[q]
      /\ overtaken => overtaken'
  BY <1>0, <1>1 DEF Begin, AcquireLock, Create, Write, WriteFails, Read, Check, Remove, Release, Crash, TypeOK
<1>3. WritersFile /\ HoldersFile
  BY <1>2 DEF LockInv
<1>4. CASE Begin(p) \/ Read(p) \/ Check(p) \/ Crash(p)
  <2>1. file' = file /\ pc'[p] \notin {"writing", "held"}
    BY <1>0, <1>4 DEF Begin, Read, Check, Crash, TypeOK
  <2> QED
    BY <1>0, <1>2, <1>3, <2>1, PathKept
<1>5. CASE Create(p)
  <2>1. CASE file # NoFile
    BY <1>0, <1>2, <1>3, <1>5, <2>1, PathKept DEF Create, TypeOK
  <2>2. CASE file = NoFile
    <3>1. \A q \in Procs : pc[q] \notin {"writing", "held"}
      BY <1>3, <2>2, NobodysFile
    <3>2. pc' = [pc EXCEPT ![p] = "writing"] /\ file' = [owner |-> p, written |-> FALSE]
      BY <1>5, <2>2 DEF Create
    <3> QED
      BY <1>0, <3>1, <3>2 DEF TypeOK, WritersFile, HoldersFile
  <2> QED
    BY <2>1, <2>2
<1>6. CASE Write(p)
  <2>1. file = [owner |-> p, written |-> FALSE] /\ file # NoFile
    BY <1>3, <1>6, FileRecord DEF Write, WritersFile
  <2>2. file' = FileOf(p) /\ pc' = [pc EXCEPT ![p] = "held"]
    BY <1>6, <2>1 DEF Write, FileOf
  <2>3. \A q \in Procs \ {p} : pc[q] \notin {"writing", "held"}
    BY <1>3, <2>1 DEF WritersFile, HoldersFile, FileOf
  <2> QED
    BY <1>0, <2>2, <2>3 DEF TypeOK, WritersFile, HoldersFile
<1>7. CASE WriteFails(p) \/ Release(p)
  <2>1. \A q \in Procs \ {p} : pc[q] \notin {"writing", "held"}
    BY <1>3, <1>7 DEF WriteFails, Release, WritersFile, HoldersFile, FileOf
  <2>2. pc'[p] \in {"failed", "exited"}
    BY <1>0, <1>7 DEF WriteFails, Release, TypeOK
  <2> QED
    BY <1>2, <2>1, <2>2 DEF WritersFile, HoldersFile
<1>8. CASE Remove(p)
  <2>1. seen[p] \in Procs /\ pc[seen[p]] \in Ended
    BY <1>0, <1>8 DEF Remove, TypeOK, RemovesStale, Alive
  <2>2. file = NoFile \/ file = FileOf(seen[p])
    BY <1>8 DEF Remove
  <2>3. \A q \in Procs : pc[q] \notin {"writing", "held"}
    BY <1>3, <2>1, <2>2, NobodysFile
  <2>4. pc'[p] \in {"refused", "opening"}
    BY <1>0, <1>8 DEF Remove, TypeOK
  <2> QED
    BY <1>2, <2>3, <2>4 DEF WritersFile, HoldersFile
<1> QED
  BY <1>1, <1>4, <1>5, <1>6, <1>7, <1>8 DEF AcquireLock

LEMMA BegunStep ==
  ASSUME OneHost, LockInv, Next
  PROVE  FilesBegun' /\ SeenBegun' /\ RemovesStale'
<1>0. TypeOK /\ FilesBegun /\ SeenBegun /\ RemovesStale
  BY DEF LockInv
<1> USE DEF Goto
<1>1. PICK p \in Procs : Begin(p) \/ AcquireLock(p) \/ Release(p) \/ Crash(p)
  BY DEF Next
<1>2. FilesBegun'
  <2>1. \/ file' \in {file, NoFile}
        \/ /\ file' \in File /\ file'.owner = p
           /\ pc'[p] # "off"
    <3>1. CASE Create(p)
      <4>1. CASE file = NoFile
        <5>1. file' = [owner |-> p, written |-> FALSE] /\ pc' = [pc EXCEPT ![p] = "writing"]
          BY <3>1, <4>1 DEF Create
        <5>2. file' \in File /\ file'.owner = p
          BY <5>1, FileRecord
        <5> QED
          BY <1>0, <5>1, <5>2 DEF TypeOK
      <4>2. CASE file # NoFile
        BY <3>1, <4>2 DEF Create
      <4> QED
        BY <4>1, <4>2
    <3>2. CASE Write(p)
      BY <1>0, <3>2 DEF Write, TypeOK, File
    <3>3. CASE Begin(p) \/ WriteFails(p) \/ Read(p) \/ Check(p) \/ Remove(p) \/ Release(p) \/ Crash(p)
      BY <3>3 DEF Begin, WriteFails, Read, Check, Remove, Release, Crash
    <3> QED
      BY <1>1, <3>1, <3>2, <3>3 DEF AcquireLock
  <2>2. file # NoFile => file.owner \in Procs
    BY <1>0 DEF TypeOK, File
  <2> QED
    BY <1>0, <2>1, <2>2, GoneStays DEF FilesBegun
<1>3. ASSUME NEW q \in Procs, pc'[q] \in {"checking", "removing"}
      PROVE  /\ seen'[q] \in Procs /\ pc[seen'[q]] # "off"
             /\ pc'[q] = "removing" => ~Alive(seen'[q])
  <2>1. CASE Read(p) /\ q = p
    BY <1>0, <1>3, <2>1 DEF Read, Readable, TypeOK, File, FilesBegun
  <2>2. CASE Check(p) /\ q = p
    BY <1>0, <1>3, <2>2 DEF Check, ProcessLive, OneHost, TypeOK, SeenBegun
  <2>3. CASE ~((Read(p) \/ Check(p)) /\ q = p)
    <3>1. pc'[q] = pc[q] /\ seen'[q] = seen[q]
      BY <1>0, <1>1, <1>3, <2>3
      DEF Begin, AcquireLock, Create, Write, WriteFails, Read, Check, Remove, Release, Crash, TypeOK
    <3> QED
      BY <1>0, <1>3, <3>1 DEF TypeOK, SeenBegun, RemovesStale
  <2> QED
    BY <2>1, <2>2, <2>3
<1> QED
  BY <1>0, <1>2, <1>3, GoneStays DEF SeenBegun, RemovesStale

LEMMA LockInvariant == ASSUME OneHost PROVE Spec => []LockInv
<1>1. LockInv /\ TypeOK' /\ [Next]_vars => LockInv'
  <2>1. CASE UNCHANGED vars
    BY <2>1 DEF vars, LockInv, TypeOK, FilesBegun, SeenBegun, RemovesStale, WritersFile, HoldersFile, Alive
  <2> QED
    BY <2>1, FilesStep, BegunStep DEF LockInv
<1> QED
  BY <1>1, LockInit, TypeCorrect, PTL DEF Spec

\* Two processes never run under the lock together, however their starts
\* overlap and whoever ends or is killed, until a start removes by name another
\* file than the one it has read (AcquireLock of lock.go): O_EXCL decides
\* between starts, the pid check between a start and a running process.
THEOREM MutualExclusion == ASSUME OneHost PROVE Spec => []AtMostOneHolder
<1>1. LockInv => AtMostOneHolder
  BY DEF LockInv, HoldersFile, FileOf, AtMostOneHolder
<1>2. Spec => []LockInv
  BY LockInvariant
<1> QED
  BY <1>1, <1>2, PTL

\* Up to then the path names the complete file of the process that runs.
THEOREM Discoverable == ASSUME OneHost PROVE Spec => []HolderIsDiscoverable
<1>1. LockInv => HolderIsDiscoverable
  BY DEF LockInv, HoldersFile, HolderIsDiscoverable
<1>2. Spec => []LockInv
  BY LockInvariant
<1> QED
  BY <1>1, <1>2, PTL
=============================================================================
