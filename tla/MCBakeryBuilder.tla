--------------------------- MODULE MCBakeryBuilder ---------------------------
(* Instances of BakeryBuilder for TLC. *)
EXTENDS BakeryBuilder, TLC

CONSTANTS w1, w2, p1, s1

\* The image and the bundle of one system share its output directory.
OneSystem == Kinds \X {s1}

OneImage == {<<"image", s1>>}

\* All workers of a run share one bakery_parameters fixture.
SameParameters == [w \in Workers |-> p1]

\* One builder has no parameters and must not pick up the other one's file.
MixedParameters == [w \in Workers |-> IF w = w1 THEN NoParams ELSE p1]
=============================================================================
