----------------------------- MODULE MCScanPool -----------------------------
(***************************************************************************)
(* Two roots for TLC: r1 with project a and directory b; r2, whose         *)
(* Terraform files are gone.  b holds the project c, the row of a deleted  *)
(* project d, the project e that comes and goes, and the ignored and       *)
(* disabled project s.                                                     *)
(***************************************************************************)
EXTENDS ScanPool, TLC

CONSTANTS r1, r2, a, b, c, d, e, s, w1, w2, w3

Tree == (r1 :> r1) @@ (a :> r1) @@ (b :> r1) @@ (c :> b) @@ (d :> b) @@ (e :> b) @@ (s :> b) @@ (r2 :> r2)

Under == (r1 :> {r1, a, b, c, d, e, s}) @@ (a :> {a}) @@ (b :> {b, c, d, e, s})
      @@ (c :> {c}) @@ (d :> {d}) @@ (e :> {e}) @@ (s :> {s}) @@ (r2 :> {r2})

\* The registry the scan starts from.
Registry == (r1 :> "absent") @@ (b :> "absent") @@ (e :> "absent") @@ (a :> "missing")
         @@ (s :> "disabled") @@ [p \in {c, d, r2} |-> "active"]

MCInit == Init /\ rows = Registry
MCSpec == MCInit /\ [][Next]_vars /\ WF_vars(Handle) /\ \A w \in Workers : WF_vars(Worker(w))
=============================================================================
