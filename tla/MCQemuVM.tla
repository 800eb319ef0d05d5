------------------------------- MODULE MCQemuVM -------------------------------
(* Instances of QemuVM for TLC: the descriptor numbers are model values. *)
EXTENDS QemuVM, TLC

CONSTANTS d1, d2

DescriptorSymmetry == Permutations(Descriptors)
=============================================================================
