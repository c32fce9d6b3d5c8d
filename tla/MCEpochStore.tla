------------------------------ MODULE MCEpochStore ------------------------------
(***************************************************************************)
(* Instances of EpochStore.                                                *)
(***************************************************************************)
EXTENDS EpochStore, TLC

CONSTANTS n1, a, b, x, r1, r2

Blob(c, slot, index) == [commitment |-> c, place |-> [slot |-> slot, index |-> index]]

(* An epoch with a block of two blobs, one epoch with none.                *)
OneNetwork == {n1}
TwoEpochs == [n \in {n1} |-> 1 :> {Blob(a, 0, 0), Blob(b, 0, 1)} @@ 2 :> {}]

(* Both are pushed, the second as the first one of its transaction; and so *)
(* is a blob that is not on the chain.                                     *)
ThreeBlobs == [n \in {n1} |-> 1 :> {Blob(a, 0, 0), Blob(b, 0, 0), Blob(x, 1, 0)}]

AllOps == {"process", "push", "finalize", "repair", "repairNoVerify", "backfill"}
Requests == {r1, r2}
RequestSymmetry == Permutations(Requests)

=============================================================================
