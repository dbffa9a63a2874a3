---------------------------- MODULE MCMatrixJobs ----------------------------
(* Instances of MatrixJobs for TLC. *)
EXTENDS MatrixJobs, TLC

\* Invocations and requests are interchangeable.
Interchangeable == Permutations(Workers) \cup Permutations(Handlers)

=============================================================================
