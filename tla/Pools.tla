--------------------------------- MODULE Pools ---------------------------------
(***************************************************************************)
(* The worker pools of the program. They differ in what they do with a     *)
(* result, a failure and a cancelled context:                              *)
(*                                                                         *)
(*   "blobs"   processEpochBlobs: results on a channel, collected by index;*)
(*             the first error returns at once, the workers are left alone *)
(*   "upload"  PutBlockstore: an errgroup of bounded size; the first error *)
(*             cancels the rest and all are waited for                     *)
(*   "tier1"   runTier1: results in a slice by index; a cancelled context  *)
(*             ends the feeding of a bounded channel                       *)
(*   "pin"     cmdPinExisting: counts and lists kept under a mutex         *)
(*   "stat"    checkEpochsByBlockStat: results on a channel, counted       *)
(*                                                                         *)
(* A job is an index of the input: a list of blobs, or of the epochs of    *)
(* the database in order. What its work comes to is drawn in Init:         *)
(*   "ok"  it succeeds      "err"  it fails (network, query)               *)
(*   "bad" it finds a fault: stored CIDs that do not recompute (tier1), a  *)
(*         DAG that is incomplete (pin), a block that is absent (stat)     *)
(***************************************************************************)
EXTENDS Dag

CONSTANTS
  Worker,           (* goroutines of a pool                                *)
  Inputs,           (* inputs of each kind: lists of blobs for "blobs",    *)
                    (* of ascending epochs for the others                  *)
  EpochRange        (* epochs of the paging and gap checks                 *)

VARIABLES
  kind,             (* which pool runs                                     *)
  input,            (* its jobs                                            *)
  outcome,          (* what the work of each job comes to                  *)
  main,             (* the goroutine that feeds, collects and returns      *)
  fed,              (* number of jobs fed so far                           *)
  jobs,             (* channel of jobs                                     *)
  busy,             (* the job each worker is at, 0 if none                *)
  results,          (* channel of results                                  *)
  result,           (* entry of each job in the caller's slice             *)
  tally,            (* jobs in the order in which they were counted        *)
  cancelled         (* the context of the workers is cancelled             *)

vars == <<kind, input, outcome, main, fed, jobs, busy, results, result, tally, cancelled>>

Kinds == {"blobs", "upload", "tier1", "pin", "stat"}
Faults(k) == IF k \in {"blobs", "upload"} THEN {"err"} ELSE {"bad", "err"}

(* Slot and index name a blob of an epoch; the other jobs are epochs.      *)
ASSUME PoolsAssumption ==
  /\ Inputs["blobs"] \subseteq Seq([hash : Int, slot : Nat, index : Nat])
  /\ \A s \in Inputs["blobs"] : \A i, j \in DOMAIN s :
       i # j => s[i].slot # s[j].slot \/ s[i].index # s[j].index
  /\ \A k \in Kinds \ {"blobs"} : Inputs[k] \subseteq Seq(Nat)
  /\ EpochRange \subseteq Nat /\ IsFiniteSet(EpochRange)
  /\ \A x, y \in EpochRange : x .. y \subseteq EpochRange

Job == DOMAIN input
None == [job |-> 0, out |-> "none"]
Idle == {w \in Worker : busy[w] = 0}

(* Mutant: a results channel without room for every job.                   *)
ResultsCapacityOne == 1

(* make(chan result, len(epochInp.Blobs)): every job has room.             *)
ResultsCapacity == Len(input)

(* The epochs pin-existing sets out to pin: those that are pinned, or have *)
(* a CID that does not decode, are passed over, and -limit cuts the list.  *)
PinJobs(records, pins, badCIDs, limit) ==
  LET todo == SelectSeq(records, LAMBDA e : e \notin pins \cup badCIDs)
  IN  IF 0 < limit /\ limit < Len(todo) THEN SubSeq(todo, 1, limit) ELSE todo

-----------------------------------------------------------------------------

Init ==
  /\ kind \in Kinds
  /\ input \in Inputs[kind]
  /\ outcome \in [DOMAIN input -> {"ok"} \cup Faults(kind)]
  /\ main = "feed"
  /\ fed = 0
  /\ jobs = <<>>
  /\ busy = [w \in Worker |-> 0]
  /\ results = <<>>
  /\ result = [j \in DOMAIN input |-> None]
  /\ tally = <<>>
  /\ cancelled = FALSE

(* Tier 1 looks at its context before each send; a send that waits for     *)
(* room is not given up.                                                   *)
CheckContext ==
  /\ main = "feed"
  /\ kind = "tier1"
  /\ fed < Len(input)
  /\ ~cancelled
  /\ main' = "send"
  /\ UNCHANGED <<kind, input, outcome, fed, jobs, busy, results, result, tally, cancelled>>

Feeding == IF kind = "tier1" THEN "send" ELSE "feed"

(* The next job: jobs <- j, or g.Go, which waits for a free slot.          *)
Feed ==
  /\ main = Feeding
  /\ fed < Len(input)
  /\ Len(jobs) < CASE kind = "upload" -> Cardinality(Idle)
                   [] kind = "tier1" -> 2 * Cardinality(Worker)
                   [] OTHER -> Len(input)
  /\ main' = "feed"
  /\ fed' = fed + 1
  /\ jobs' = Append(jobs, fed + 1)
  /\ UNCHANGED <<kind, input, outcome, busy, results, result, tally, cancelled>>

(* close(jobs), once all are fed or tier 1 finds its context cancelled.    *)
CloseJobs ==
  /\ main = "feed"
  /\ fed = Len(input) \/ (kind = "tier1" /\ cancelled)
  /\ main' = "wait"
  /\ UNCHANGED <<kind, input, outcome, fed, jobs, busy, results, result, tally, cancelled>>

Take(w) ==
  /\ busy[w] = 0
  /\ jobs # <<>>
  /\ busy' = [busy EXCEPT ![w] = Head(jobs)]
  /\ jobs' = Tail(jobs)
  /\ UNCHANGED <<kind, input, outcome, main, fed, results, result, tally, cancelled>>

(* What a job comes to now: a request under a cancelled context fails,     *)
(* building a blob's nodes asks nobody. Tier 1 takes a failed query for a  *)
(* sound epoch; block/stat takes a failed request for an absent block.     *)
Outcome(j) ==
  LET o == IF cancelled /\ kind # "blobs" THEN "err" ELSE outcome[j]
  IN  CASE kind = "tier1" /\ o = "err" -> "ok"
        [] kind = "stat" /\ o = "err" -> "bad"
        [] OTHER -> o

(* A result is entered in the caller's slice, counts and lists.            *)
Record(j, o) ==
  /\ result' = [result EXCEPT ![j] = [job |-> j, out |-> o]]
  /\ tally' = Append(tally, j)

(* The worker is done with its job and goes on to the next one.            *)
Finish(w) ==
  LET j == busy[w]
      o == Outcome(j)
  IN  /\ j # 0
      /\ busy' = [busy EXCEPT ![w] = 0]
      /\ \/ /\ kind \in {"blobs", "stat"}
            /\ Len(results) < ResultsCapacity
            /\ results' = Append(results, [job |-> j, out |-> o])
            /\ UNCHANGED <<result, tally>>
         \/ /\ kind \notin {"blobs", "stat"}
            /\ Record(j, o)
            /\ UNCHANGED results
      /\ cancelled' = (cancelled \/ (kind = "upload" /\ o = "err"))
      /\ UNCHANGED <<kind, input, outcome, main, fed, jobs>>

(* Mutant: results are placed in the order in which they arrive.           *)
CollectInArrivalOrder ==
  /\ main = "wait"
  /\ results # <<>>
  /\ results' = Tail(results)
  /\ LET r == Head(results)
     IN  \/ /\ kind = "blobs" /\ r.out = "err"
            /\ main' = "failed"
            /\ UNCHANGED <<result, tally>>
         \/ /\ ~(kind = "blobs" /\ r.out = "err")
            /\ result' = [result EXCEPT ![Len(tally) + 1] = r]
            /\ tally' = Append(tally, r.job)
            /\ UNCHANGED main
  /\ UNCHANGED <<kind, input, outcome, fed, jobs, busy, cancelled>>

(* for r := range results                                                  *)
Collect ==
  /\ main = "wait"
  /\ results # <<>>
  /\ results' = Tail(results)
  /\ LET r == Head(results)
     IN  \/ /\ kind = "blobs" /\ r.out = "err"
            /\ main' = "failed"
            /\ UNCHANGED <<result, tally>>
         \/ /\ ~(kind = "blobs" /\ r.out = "err")
            /\ Record(r.job, r.out)
            /\ UNCHANGED main
  /\ UNCHANGED <<kind, input, outcome, fed, jobs, busy, cancelled>>

(* Mutant: an upload that failed is reported as done.                      *)
ReturnAnyway ==
  /\ main = "wait"
  /\ jobs = <<>> /\ Idle = Worker /\ results = <<>>
  /\ main' = "returned"
  /\ UNCHANGED <<kind, input, outcome, fed, jobs, busy, results, result, tally, cancelled>>

(* wg.Wait, g.Wait or the end of the results channel.                      *)
Return ==
  /\ main = "wait"
  /\ jobs = <<>> /\ Idle = Worker /\ results = <<>>
  /\ main' = IF kind = "upload" /\ \E j \in Job : result[j].out = "err" THEN "failed" ELSE "returned"
  /\ UNCHANGED <<kind, input, outcome, fed, jobs, busy, results, result, tally, cancelled>>

(* The program is interrupted, or the caller's context ends.               *)
Cancel ==
  /\ main \in {"feed", "send", "wait"}
  /\ ~cancelled
  /\ cancelled' = TRUE
  /\ UNCHANGED <<kind, input, outcome, main, fed, jobs, busy, results, result, tally>>

Work(w) == Take(w) \/ Finish(w)
Main == CheckContext \/ Feed \/ CloseJobs \/ Collect \/ Return

(* The process may end once the pool has returned; the workers of a failed *)
(* epoch stay.                                                             *)
Next ==
  \/ Main
  \/ \E w \in Worker : Work(w)
  \/ Cancel

Spec == Init /\ [][Next]_vars

(* The Go scheduler runs every goroutine that can take a step; requests    *)
(* end because the HTTP clients and contexts have deadlines.               *)
Fairness == WF_vars(Main) /\ \A w \in Worker : WF_vars(Work(w))
FairSpec == Spec /\ Fairness

-----------------------------------------------------------------------------
(* What the callers make of the results                                    *)

(* Entries of the list of the jobs that ended with o, in counting order.   *)
Listed(o) == LET at == Ascending({k \in DOMAIN tally : result[tally[k]].out = o})
             IN  [k \in DOMAIN at |-> input[tally[at[k]]]]

(* Mutant: only failed pins decide on the exit code.                       *)
PinExitFailedOnly == IF Listed("err") # <<>> THEN 1 ELSE 0

(* os.Exit(1) of pin-existing.                                             *)
PinExit == IF Listed("err") # <<>> \/ Listed("bad") # <<>> THEN 1 ELSE 0

(* The backfill-ipfs ranges of renderRemediation.                          *)
Remedy == collapseRanges(Listed("bad"))

(* os.Exit(2) of health-check, from worst().                               *)
HealthExit == IF Listed("bad") # <<>> THEN 2 ELSE 0

(* The epoch node buildEpoch makes of the slice; blob i's metadata is the  *)
(* job that made it.                                                       *)
Node == BuildEpochNode(input, [j \in Job |-> result[j].job])

-----------------------------------------------------------------------------
(* Properties                                                              *)

(* An epoch whose blobs were processed in parallel has an index in which   *)
(* every versioned hash leads to the metadata of exactly its occurrences,  *)
(* by slot and index, whatever order the workers finished in and whether   *)
(* the index is a map or sharded.                                          *)
EpochIndexed ==
  kind = "blobs" /\ main = "returned" =>
    \A h \in {b.hash : b \in ToSet(input)} :
      \E m \in Lookup(Node, h) :
        /\ Lookup(Node, h) = {m}
        /\ IsInjective(m)
        /\ ToSet(m) = {i \in Job : input[i].hash = h}
        /\ \A k, l \in DOMAIN m : k < l => Before(input[m[k]], input[m[l]])

(* The root CID of an epoch does not depend on the order of its blobs: the *)
(* health check and the repairs rebuild it from rows ordered by blob_index *)
(* where buildEpoch had them by slot, and compare the two.                 *)
OrderIndependent ==
  kind = "blobs" /\ main = "returned" =>
    \A p \in [Job -> Job] :
      IsInjective(p) =>
        BuildEpochNode([i \in Job |-> input[p[i]]], [i \in Job |-> result[p[i]].job]) = Node

(* Of the epochs it sets out to pin, pin-existing passes over none that it *)
(* could not pin, and then exits with 1; nor does the summary pass over an *)
(* epoch that is not on the node. Without an interrupt they name no other. *)
NothingHidden ==
  kind \in {"pin", "stat"} /\ main = "returned" =>
    LET faulty == {input[j] : j \in {i \in Job : outcome[i] # "ok"}}
        named == ToSet(Listed("err") \o Listed("bad"))
    IN  /\ faulty \subseteq named
        /\ ~cancelled => named = faulty
        /\ kind = "pin" => (PinExit = 0 <=> named = {})

(* A health check that was not interrupted and could read every row sends  *)
(* backfill-ipfs to exactly the epochs whose CIDs do not recompute, in     *)
(* disjoint ranges that do not touch, and exits with 2 if there are any.   *)
RemedyExact ==
  kind = "tier1" /\ main = "returned" /\ ~cancelled =>
    /\ Covers(Remedy) = {input[j] : j \in {i \in Job : outcome[i] = "bad"}}
    /\ \A k \in 1 .. Len(Remedy) - 1 : Remedy[k][2] + 1 < Remedy[k + 1][1]
    /\ HealthExit = 2 <=> \E j \in Job : outcome[j] = "bad"

(* PutBlockstore returns without an error only if the node has every       *)
(* block, and never with an upload still under way that could land after   *)
(* the caller went on.                                                     *)
UploadSettled ==
  kind = "upload" /\ main \in {"returned", "failed"} =>
    /\ main = "returned" <=> \A j \in Job : result[j] = [job |-> j, out |-> "ok"]
    /\ Idle = Worker /\ jobs = <<>>

(* A reader that knows the page size finds every epoch in the page of its  *)
(* number, no page has an epoch twice or more epochs than the page size,   *)
(* and the root names the latest one.                                      *)
PagesExact ==
  kind = "stat" /\ fed = 0 =>
    \A S \in SUBSET EpochRange, n \in 1 .. MinPageSize + 1 :
      LET root == BuildNetworkRoot(S, n)
      IN  /\ {e \in EpochRange : Resolves(root, e, n)} = S
          /\ \A s \in DOMAIN root.pages :
               root.pages[s] # {} /\ Cardinality(root.pages[s]) <= PageSize(n)
          /\ S # {} => root.latestEpoch \in S /\ \A e \in S : e <= root.latestEpoch

(* The gaps of the summary are exactly the epochs that are missing between *)
(* the first and the last, and their number is the one it counts from the  *)
(* minimum, the maximum and the number of rows.                            *)
GapsExact ==
  kind = "stat" /\ fed = 0 =>
    \A S \in SUBSET EpochRange :
      LET ranges == GetEpochGapRanges(S)
      IN  /\ Covers(ranges) =
               {e \in EpochRange \ S : (\E x \in S : x < e) /\ (\E y \in S : e < y)}
          /\ GapCount(S) = Cardinality(Covers(ranges))
          /\ \A k \in 1 .. Len(ranges) - 1 : ranges[k][2] + 1 < ranges[k + 1][1]

(* Every pool ends, with all of its workers: those of an epoch that failed *)
(* early are not left waiting to hand over a result nobody collects.       *)
AllEnd ==
  <>[](main \in {"returned", "failed"} /\ Idle = Worker /\ jobs = <<>>)

=============================================================================
