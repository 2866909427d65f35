------------------------------- MODULE MCXrss -------------------------------
(* Two invocations at a time, three versions of two items each.            *)
EXTENDS Xrss, TLC

Symmetry == Permutations(Runs)
=============================================================================
