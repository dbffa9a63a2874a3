---------------------------- MODULE MCUploadBatch ----------------------------
(* Instance of UploadBatch for TLC: every key lies in the directory of b1. *)
EXTENDS UploadBatch

CONSTANTS b1, b2, k1, k2

MCBatchOf == [k \in Keys |-> b1]

\* k2 is a key that nothing is stored under: its request takes the slot.
MCFiles == [k \in Keys |-> IF k = k1 THEN File ELSE {}]
=============================================================================
