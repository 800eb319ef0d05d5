---------------------------- MODULE MCTestSession ----------------------------
(* Instances of TestSession for TLC: workers and ports are model values. *)
EXTENDS TestSession, TLC

CONSTANTS w1, w2, p1, p2

SessionSymmetry == Permutations(Workers) \cup Permutations(Ports)
=============================================================================
