---------------------------- MODULE UploadLedger ----------------------------
(***************************************************************************)
(* What a batch of direct uploads promises: it has at most Allowed slots   *)
(* in use, a slot is taken by one file, given back or filled once, and a   *)
(* filled slot stays filled until the batch is closed.                     *)
(***************************************************************************)
EXTENDS FiniteSets, Integers

CONSTANTS Batches, Keys, BatchOf, Allowed

VARIABLES slot, open

KeysOf(b) == {k \in Keys : BatchOf[k] = b}
InUse(b) == {k \in KeysOf(b) : slot[k] # "free"}

Init == /\ slot = [k \in Keys |-> "free"]
        /\ open = [b \in Batches |-> TRUE]

Take(k) == /\ open[BatchOf[k]]
           /\ slot[k] = "free"
           /\ Cardinality(InUse(BatchOf[k])) < Allowed
           /\ slot' = [slot EXCEPT ![k] = "taken"]
           /\ UNCHANGED open

GiveBack(k) == /\ slot[k] = "taken"
               /\ slot' = [slot EXCEPT ![k] = "free"]
               /\ UNCHANGED open

Fill(k) == /\ slot[k] = "taken"
           /\ slot' = [slot EXCEPT ![k] = "filled"]
           /\ UNCHANGED open

\* Batches are closed together, and for good.
Close(B) == /\ B # {}
            /\ \A b \in B : open[b]
            /\ open' = [b \in Batches |-> open[b] /\ b \notin B]
            /\ slot' = [k \in Keys |-> IF BatchOf[k] \in B THEN "free" ELSE slot[k]]

Next == \/ \E k \in Keys : Take(k) \/ GiveBack(k) \/ Fill(k)
        \/ \E B \in SUBSET Batches : Close(B)

Spec == Init /\ [][Next]_<<slot, open>>

=============================================================================
