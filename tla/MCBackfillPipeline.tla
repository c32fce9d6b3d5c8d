--------------------------- MODULE MCBackfillPipeline ---------------------------
(* Model values and symmetry for the TLC runs of BackfillPipeline.           *)
EXTENDS BackfillPipeline, TLC

CONSTANTS w1, w2

OneWorker == {w1}
TwoWorkers == {w1, w2}

WorkerSymmetry == Permutations(Worker)

OddEpochs == {e \in Epoch : e % 2 = 1}
NoEpochs == {}

=============================================================================
