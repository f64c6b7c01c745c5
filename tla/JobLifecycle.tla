---------------------------- MODULE JobLifecycle ----------------------------
(***************************************************************************)
(* What the queue promises of one row of jobs, without leases, locks,      *)
(* workers or time: a job is taken at most MaxAttempts times, goes back    *)
(* only while an attempt is left, and ends once.                           *)
(***************************************************************************)
EXTENDS Naturals

CONSTANTS Jobs, MaxAttempts

VARIABLES status, attempt

vars == <<status, attempt>>

Terminal == {"succeeded", "failed", "cancelled"}

Init ==
  /\ status = [j \in Jobs |-> "absent"]
  /\ attempt = [j \in Jobs |-> 0]

Move(j, from, to) ==
  /\ status[j] = from
  /\ status' = [status EXCEPT ![j] = to]

Submit(j) == Move(j, "absent", "queued") /\ UNCHANGED attempt

Take(j) ==
  /\ attempt[j] < MaxAttempts
  /\ Move(j, "queued", "running")
  /\ attempt' = [attempt EXCEPT ![j] = @ + 1]

PutBack(j) ==
  /\ attempt[j] < MaxAttempts
  /\ Move(j, "running", "queued")
  /\ UNCHANGED attempt

End(j) ==
  /\ \E result \in Terminal : Move(j, "running", result)
  /\ UNCHANGED attempt

Next == \E j \in Jobs : Submit(j) \/ Take(j) \/ PutBack(j) \/ End(j)

Spec == Init /\ [][Next]_vars
=============================================================================
