-------------------------------- MODULE MCPools --------------------------------
(***************************************************************************)
(* Pools of two workers. Blob lists: a repeated versioned hash in a map    *)
(* index, and three hashes in two shards, the second of them not full.     *)
(***************************************************************************)
EXTENDS Pools, TLC

CONSTANTS w1, w2

TwoWorkers == {w1, w2}

Blob(h, s, i) == [hash |-> h, slot |-> s, index |-> i]

SmallEpochs ==
  {<<Blob(2, 1, 0), Blob(1, 0, 1)>>,
   <<Blob(1, 2, 0), Blob(1, 0, 1)>>,
   <<Blob(3, 0, 0), Blob(1, 0, 1), Blob(2, 1, 0), Blob(1, 2, 0)>>,
   <<Blob(2, 1, 0), Blob(1, 2, 0), Blob(3, 0, 0), Blob(1, 0, 1)>>}

(* Adjacent epochs and gaps; tier 1 has more jobs than its channel holds.  *)
SmallInputs ==
  [k \in Kinds |-> CASE k = "blobs" -> SmallEpochs
                     [] k = "tier1" -> {<<3, 4>>, <<0, 1, 2, 4, 5>>}
                     [] k = "pin" -> {PinJobs(<<0, 1, 2, 4>>, {0}, {}, 0),
                                      PinJobs(<<0, 1, 2, 4>>, {1}, {2}, 1)}
                     [] OTHER -> {<<1>>, <<1, 2, 4>>}]

Epochs == 0 .. 5

=============================================================================
