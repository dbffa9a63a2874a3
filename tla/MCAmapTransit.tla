---------------------------- MODULE MCAmapTransit ----------------------------
(* Instances of AmapTransit for TLC: a chunk of the recompute asks for the *)
(* directions of two destinations at a time.                               *)
EXTENDS AmapTransit, TLC

Interchangeable == Permutations(Callers)
=============================================================================
