---------------------------------- MODULE Dag ----------------------------------
(***************************************************************************)
(* The pure algorithms of the indexer: the index of an epoch node, the     *)
(* pages of the NetworkRoot, and the ranges the reports print.             *)
(*                                                                         *)
(* A blob is its versioned hash (a number, so that hashes are ordered) and *)
(* its slot and index; its metadata CID is any value.                      *)
(***************************************************************************)
EXTENDS Integers, Sequences, FiniteSets, SequencesExt

CONSTANTS
  HAMTThreshold,    (* epochs of so many blobs have a sharded index        *)
  ShardSize,        (* 256 in the code                                     *)
  MinPageSize       (* 1000 in the code                                    *)

ASSUME DagAssumption ==
  /\ HAMTThreshold \in Int
  /\ ShardSize \in Nat \ {0}
  /\ MinPageSize \in Nat \ {0}

(* sort.Slice: the k-th element is the one that k - 1 others come before.  *)
Sorted(S, before(_, _)) ==
  [k \in 1 .. Cardinality(S) |-> CHOOSE x \in S : Cardinality({y \in S : before(y, x)}) = k - 1]

(* sortUint64, and sort.Slice by number.                                   *)
Ascending(S) == Sorted(S, LAMBDA x, y : x < y)

-----------------------------------------------------------------------------
(* The index of an epoch node                                              *)

Before(x, y) == x.slot < y.slot \/ (x.slot = y.slot /\ x.index < y.index)

(* Mutant: the groups stay in the order of the input.                      *)
GroupUnsorted(blobs, metas) ==
  LET first(h) == CHOOSE i \in DOMAIN blobs :
                    blobs[i].hash = h /\ \A j \in 1 .. i - 1 : blobs[j].hash # h
      hashes == Sorted({b.hash : b \in ToSet(blobs)}, LAMBDA g, h : first(g) < first(h))
      occurrences(h) == Sorted({i \in DOMAIN blobs : blobs[i].hash = h},
                               LAMBDA i, j : Before(blobs[i], blobs[j]))
  IN  [g \in DOMAIN hashes |->
         [hash |-> hashes[g],
          metas |-> [k \in DOMAIN occurrences(hashes[g]) |-> metas[occurrences(hashes[g])[k]]]]]

groupByVersionedHash(blobs, metas) ==
  LET hashes == Ascending({b.hash : b \in ToSet(blobs)})
      occurrences(h) == Sorted({i \in DOMAIN blobs : blobs[i].hash = h},
                               LAMBDA i, j : Before(blobs[i], blobs[j]))
  IN  [g \in DOMAIN hashes |->
         [hash |-> hashes[g],
          metas |-> [k \in DOMAIN occurrences(hashes[g]) |-> metas[occurrences(hashes[g])[k]]]]]

(* The shards of buildHAMTBlobIndex.                                       *)
Shards(groups) ==
  [s \in 1 .. (Len(groups) + ShardSize - 1) \div ShardSize |->
     SubSeq(groups, (s - 1) * ShardSize + 1,
            IF s * ShardSize > Len(groups) THEN Len(groups) ELSE s * ShardSize)]

(* BuildEpochNode: the index is a map, or links to shards.                 *)
BuildEpochNode(blobs, metas) ==
  LET groups == groupByVersionedHash(blobs, metas)
  IN  IF Len(metas) >= HAMTThreshold
      THEN [type |-> "hamt", blobCount |-> Len(metas), shards |-> Shards(groups)]
      ELSE [type |-> "map", blobCount |-> Len(metas), shards |-> <<groups>>]

(* The metadata a reader of the node finds under a versioned hash.         *)
Lookup(node, h) ==
  {g.metas : g \in {x \in UNION {ToSet(s) : s \in ToSet(node.shards)} : x.hash = h}}

-----------------------------------------------------------------------------
(* BuildNetworkRoot: pages aligned to multiples of the page size           *)

PageSize(n) == IF n < MinPageSize THEN MinPageSize ELSE n

(* Mutant: a page starts where the page before it was full.                *)
BuildNetworkRootPacked(epochs, pageSize) ==
  LET ps == PageSize(pageSize)
      sorted == Ascending(epochs)
      starts == {i \in DOMAIN sorted : (i - 1) % ps = 0}
  IN  [latestEpoch |-> IF epochs = {} THEN 0 ELSE Last(sorted),
       pages |-> [s \in {sorted[i] : i \in starts} |->
                    {e \in epochs : s <= e /\ \A i \in starts : sorted[i] <= s \/ e < sorted[i]}]]

BuildNetworkRoot(epochs, pageSize) ==
  LET ps == PageSize(pageSize)
      start(e) == (e \div ps) * ps
  IN  [latestEpoch |-> IF epochs = {} THEN 0 ELSE Last(Ascending(epochs)),
       pages |-> [s \in {start(e) : e \in epochs} |-> {e \in epochs : start(e) = s}]]

(* What a reader of the NetworkRoot that knows the page size finds.        *)
Resolves(root, e, pageSize) ==
  LET s == (e \div PageSize(pageSize)) * PageSize(pageSize)
  IN  s \in DOMAIN root.pages /\ e \in root.pages[s]

-----------------------------------------------------------------------------
(* Ranges of epochs                                                        *)

(* Mutant: a range goes on over one missing epoch.                         *)
collapseRangesOpen(epochs) ==
  LET sorted == Ascending(ToSet(epochs))
      out[n \in 0 .. Len(sorted)] ==
        IF n = 0 THEN <<>>
        ELSE LET before == out[n - 1]
             IN  IF before # <<>> /\ sorted[n] <= Last(before)[2] + 2
                 THEN Append(Front(before), <<Last(before)[1], sorted[n]>>)
                 ELSE Append(before, <<sorted[n], sorted[n]>>)
  IN  out[Len(sorted)]

(* collapseRanges, after dedupUint64; the summary of empty epochs prints   *)
(* the same ranges. The last range grows, or the next one begins.          *)
collapseRanges(epochs) ==
  LET sorted == Ascending(ToSet(epochs))
      out[n \in 0 .. Len(sorted)] ==
        IF n = 0 THEN <<>>
        ELSE LET before == out[n - 1]
             IN  IF before # <<>> /\ sorted[n] = Last(before)[2] + 1
                 THEN Append(Front(before), <<Last(before)[1], sorted[n]>>)
                 ELSE Append(before, <<sorted[n], sorted[n]>>)
  IN  out[Len(sorted)]

Covers(ranges) == UNION {r[1] .. r[2] : r \in ToSet(ranges)}

(* Each row with the one after it: LEAD(epoch) OVER (ORDER BY epoch).      *)
Lead(epochs) ==
  {r \in epochs \X epochs : r[1] < r[2] /\ \A e \in epochs : e <= r[1] \/ r[2] <= e}

(* Mutant: next_epoch > epoch + 2.                                         *)
GetEpochGapRangesWide(epochs) ==
  Sorted({<<r[1] + 1, r[2] - 1>> : r \in {x \in Lead(epochs) : x[2] > x[1] + 2}},
         LAMBDA g, h : g[1] < h[1])

GetEpochGapRanges(epochs) ==
  Sorted({<<r[1] + 1, r[2] - 1>> : r \in {x \in Lead(epochs) : x[2] > x[1] + 1}},
         LAMBDA g, h : g[1] < h[1])

(* GapCount of GetSummaryStats.                                            *)
GapCount(epochs) ==
  IF epochs = {} THEN 0
  ELSE Last(Ascending(epochs)) - Head(Ascending(epochs)) + 1 - Cardinality(epochs)

=============================================================================
