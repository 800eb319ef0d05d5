------------------------------- MODULE MCTestRun -------------------------------
(* Instances of TestRun for TLC. *)
EXTENDS TestRun, TLC

CONSTANTS w1, w2, k1, k2, k3, t1, t2, c

\* One test whose phases can end in every way, and an extended one.
Ends == (t1 :> {"failed", "skipped", "xfailed"}) @@ (t2 :> {"failed"})
=============================================================================
