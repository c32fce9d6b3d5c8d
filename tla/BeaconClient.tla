----------------------------- MODULE BeaconClient ------------------------------
(***************************************************************************)
(* Fetching an epoch: FetchEpochInput with a goroutine per slot, the HTTP  *)
(* helper get with its back-off, and the execution client with its cache   *)
(* of resolved blocks.                                                     *)
(*                                                                         *)
(* The workers of the backfill and the live loop call FetchEpochInput      *)
(* beside each other. They have one beacon client, so one back-off, and    *)
(* one execution client, so one cache; the semaphore and the context are   *)
(* those of a call. All of them fetch the same epoch here, the case in     *)
(* which they share the most.                                              *)
(*                                                                         *)
(* The beacon node answers truthfully or fails: it says 404 for a slot     *)
(* without a block and for no other. Time is counted in units; requests    *)
(* take no time, back-offs do.                                             *)
(***************************************************************************)
EXTENDS Integers, Sequences, FiniteSets, SequencesExt

CONSTANTS
  Fetcher,          (* the callers of FetchEpochInput                      *)
  SlotsPerEpoch,    (* slots of the epoch that is fetched                  *)
  Sidecars,         (* number of blobs of the block of each slot           *)
  Missed,           (* slots without a block                               *)
  SlotWorkers,      (* size of the semaphore                               *)
  BackoffBase,      (* BEACON_429_BACKOFF, of any length                   *)
  BackoffCap,       (* 60 s in the code                                    *)
  MaxCalls,         (* calls of FetchEpochInput                            *)
  MaxFaults         (* failed requests and interrupts                      *)

VARIABLES
  call,             (* each caller: idle, fetching, ok or error            *)
  enrich,           (* its call was given an execution client              *)
  cancelled,        (* gctx of the call is cancelled                       *)
  failed,           (* some goroutine of it returned an error              *)
  blobs,            (* what its last call that succeeded returned          *)
  pc,               (* where the goroutine of each call and slot is        *)
  asks,             (* what its request is for: sidecars or payload        *)
  sleep,            (* what is left of its wait                            *)
  slotBlobs,        (* the blobs it has, TRUE where the EL was found       *)
  backoff,          (* backoffDuration                                     *)
  left,             (* what is left of it since lastBackoffTime            *)
  aware,            (* goroutines that wait for the back-off in force      *)
  cache,            (* slots whose block root is in the cache              *)
  resolved,         (* how often each block was fetched and indexed        *)
  budget

calls == <<call, enrich, blobs>>
http == <<backoff, left, aware>>
el == <<cache, resolved>>
vars == <<call, enrich, cancelled, failed, blobs, pc, asks, sleep, slotBlobs,
          backoff, left, aware, cache, resolved, budget>>

Slot == 0 .. SlotsPerEpoch - 1

(* The goroutines: one for each slot of each call.                         *)
Goroutine == Fetcher \X Slot

ASSUME BeaconAssumption ==
  /\ IsFiniteSet(Fetcher)
  /\ SlotsPerEpoch \in Nat \ {0}
  /\ SlotWorkers \in Nat \ {0}
  /\ BackoffBase \in Nat \ {0} /\ BackoffCap \in Nat \ {0}
  /\ Missed \subseteq Slot
  /\ Sidecars \in [Slot -> Nat]

(* Goroutines of a call that hold its semaphore.                           *)
Held(f) == {s \in Slot : pc[<<f, s>>] \in {"lookup", "check", "sleep", "inflight", "index"}}

Spend(kind) ==
  /\ budget[kind] > 0
  /\ budget' = [budget EXCEPT ![kind] = @ - 1]

Init ==
  /\ call = [f \in Fetcher |-> "idle"] /\ enrich = [f \in Fetcher |-> FALSE]
  /\ cancelled = [f \in Fetcher |-> FALSE] /\ failed = [f \in Fetcher |-> FALSE]
  /\ blobs = [f \in Fetcher |-> <<>>]
  /\ pc = [g \in Goroutine |-> "done"]
  /\ asks = [g \in Goroutine |-> "sidecars"]
  /\ sleep = [g \in Goroutine |-> 0]
  /\ slotBlobs = [g \in Goroutine |-> <<>>]
  /\ backoff = 0 /\ left = 0 /\ aware = {}
  /\ cache = {}
  /\ resolved = [s \in Slot |-> 0]
  /\ budget = [call |-> MaxCalls, fault |-> MaxFaults]

-----------------------------------------------------------------------------
(* FetchEpochInput                                                         *)

Call(f) ==
  /\ call[f] # "fetching"
  /\ Spend("call")
  /\ call' = [call EXCEPT ![f] = "fetching"]
  /\ \E given \in BOOLEAN : enrich' = [enrich EXCEPT ![f] = given]
  /\ pc' = [g \in Goroutine |-> IF g[1] = f THEN "queued" ELSE pc[g]]
  /\ asks' = [g \in Goroutine |-> IF g[1] = f THEN "sidecars" ELSE asks[g]]
  /\ slotBlobs' = [g \in Goroutine |-> IF g[1] = f THEN <<>> ELSE slotBlobs[g]]
  /\ cancelled' = [cancelled EXCEPT ![f] = FALSE]
  /\ failed' = [failed EXCEPT ![f] = FALSE]
  /\ UNCHANGED <<sleep, http, blobs, el>>

(* sem <- struct{}{}                                                       *)
Acquire(g) ==
  /\ pc[g] = "queued"
  /\ Cardinality(Held(g[1])) < SlotWorkers
  /\ pc' = [pc EXCEPT ![g] = "check"]
  /\ UNCHANGED <<calls, cancelled, failed, asks, sleep, slotBlobs, http, el, budget>>

(* The goroutine returns an error: the errgroup cancels the others.        *)
GiveUp(g) ==
  /\ pc' = [pc EXCEPT ![g] = "done"]
  /\ cancelled' = [cancelled EXCEPT ![g[1]] = TRUE]
  /\ failed' = [failed EXCEPT ![g[1]] = TRUE]
  /\ UNCHANGED <<slotBlobs, asks>>

(* The goroutine has the blobs of got. The next one is looked up in the    *)
(* execution client, if the call has one.                                  *)
Proceed(g, got) ==
  LET all == IF enrich[g[1]] THEN got ELSE [i \in 1 .. Sidecars[g[2]] |-> FALSE]
  IN  /\ slotBlobs' = [slotBlobs EXCEPT ![g] = all]
      /\ asks' = [asks EXCEPT ![g] = "payload"]
      /\ pc' = [pc EXCEPT ![g] = IF Len(all) = Sidecars[g[2]] THEN "done" ELSE "lookup"]
      /\ UNCHANGED <<cancelled, failed>>

(* What a failed request means to the goroutine: without its sidecars the  *)
(* slot fails, without its execution data the blob goes without.           *)
RequestFails(g) ==
  IF asks[g] = "sidecars" THEN GiveUp(g) ELSE Proceed(g, Append(slotBlobs[g], FALSE))

(* The blobs of a call in the order of their slots.                        *)
InSlotOrder(f) ==
  FlattenSeq([i \in 1 .. SlotsPerEpoch |->
                [k \in DOMAIN slotBlobs[<<f, i - 1>>] |-> <<i - 1, k>>]])

(* Mutant: a failed call returns the slots it has.                         *)
WaitPartial(f) ==
  /\ call[f] = "fetching"
  /\ \A s \in Slot : pc[<<f, s>>] = "done"
  /\ call' = [call EXCEPT ![f] = "ok"]
  /\ blobs' = [blobs EXCEPT ![f] = InSlotOrder(f)]
  /\ UNCHANGED <<enrich, cancelled, failed, pc, asks, sleep, slotBlobs, http, el, budget>>

(* Mutant: waits for the blobs of every slot, as if none could be missed.  *)
WaitForBlobs(f) ==
  /\ call[f] = "fetching"
  /\ \A s \in Slot : pc[<<f, s>>] = "done" /\ slotBlobs[<<f, s>>] # <<>>
  /\ call' = [call EXCEPT ![f] = IF failed[f] THEN "error" ELSE "ok"]
  /\ blobs' = IF failed[f] THEN blobs ELSE [blobs EXCEPT ![f] = InSlotOrder(f)]
  /\ UNCHANGED <<enrich, cancelled, failed, pc, asks, sleep, slotBlobs, http, el, budget>>

(* g.Wait: the epoch, or the error of a goroutine.                         *)
Wait(f) ==
  /\ call[f] = "fetching"
  /\ \A s \in Slot : pc[<<f, s>>] = "done"
  /\ \/ /\ failed[f]
        /\ call' = [call EXCEPT ![f] = "error"]
        /\ UNCHANGED blobs
     \/ /\ ~failed[f]
        /\ call' = [call EXCEPT ![f] = "ok"]
        /\ blobs' = [blobs EXCEPT ![f] = InSlotOrder(f)]
  /\ UNCHANGED <<enrich, cancelled, failed, pc, asks, sleep, slotBlobs, http, el, budget>>

-----------------------------------------------------------------------------
(* get                                                                     *)

(* Mutant: waits no longer than the cap.                                   *)
CheckBackoffCapped(g) ==
  /\ pc[g] = "check"
  /\ \/ /\ backoff > 0 /\ left > 0
        /\ pc' = [pc EXCEPT ![g] = "sleep"]
        /\ sleep' = [sleep EXCEPT ![g] = IF left > BackoffCap THEN BackoffCap ELSE left]
        /\ aware' = aware \cup {g}
     \/ /\ ~(backoff > 0 /\ left > 0)
        /\ pc' = [pc EXCEPT ![g] = "inflight"]
        /\ UNCHANGED <<sleep, aware>>
  /\ UNCHANGED <<calls, cancelled, failed, asks, slotBlobs, backoff, left, el, budget>>

(* The look at the back-off, under the mutex.                              *)
CheckBackoff(g) ==
  /\ pc[g] = "check"
  /\ \/ /\ backoff > 0 /\ left > 0
        /\ pc' = [pc EXCEPT ![g] = "sleep"]
        /\ sleep' = [sleep EXCEPT ![g] = left]
        /\ aware' = aware \cup {g}
     \/ /\ ~(backoff > 0 /\ left > 0)
        /\ pc' = [pc EXCEPT ![g] = "inflight"]
        /\ UNCHANGED <<sleep, aware>>
  /\ UNCHANGED <<calls, cancelled, failed, asks, slotBlobs, backoff, left, el, budget>>

(* The wait is over; the goroutine does not look at the back-off again.    *)
Wake(g) ==
  /\ pc[g] = "sleep" /\ sleep[g] = 0
  /\ pc' = [pc EXCEPT ![g] = "inflight"]
  /\ aware' = aware \ {g}
  /\ UNCHANGED <<calls, cancelled, failed, asks, sleep, slotBlobs, backoff, left, el, budget>>

(* ctx.Done in the wait, the rate limiter, or the request.                 *)
Interrupted(g) ==
  /\ pc[g] \in {"sleep", "inflight"}
  /\ cancelled[g[1]]
  /\ sleep' = [sleep EXCEPT ![g] = 0]
  /\ aware' = aware \ {g}
  /\ RequestFails(g)
  /\ UNCHANGED <<calls, backoff, left, el, budget>>

(* 404, which does not touch the back-off: the slot was missed. Or 200,    *)
(* which resets it: the sidecars of the block.                             *)
GetBlobSidecars(g) ==
  /\ asks[g] = "sidecars"
  /\ \/ /\ g[2] \in Missed
        /\ pc' = [pc EXCEPT ![g] = "done"]
        /\ UNCHANGED <<slotBlobs, asks, cancelled, failed, backoff>>
     \/ /\ g[2] \notin Missed
        /\ Proceed(g, <<>>)
        /\ backoff' = 0

(* 200: the hash and number of the block of the execution layer.           *)
GetExecutionPayloadInfo(g) ==
  /\ asks[g] = "payload"
  /\ pc' = [pc EXCEPT ![g] = "index"]
  /\ backoff' = 0
  /\ UNCHANGED <<slotBlobs, asks, cancelled, failed>>

Answer(g) ==
  /\ pc[g] = "inflight"
  /\ GetBlobSidecars(g) \/ GetExecutionPayloadInfo(g)
  /\ UNCHANGED <<calls, sleep, left, aware, el, budget>>

(* Mutant: the doubled back-off is not capped.                             *)
NextBackoffUncapped == IF backoff = 0 THEN BackoffBase ELSE 2 * backoff

(* The cap is applied to what was doubled, and not to the initial value.   *)
NextBackoff ==
  IF backoff = 0 THEN BackoffBase
  ELSE IF 2 * backoff > BackoffCap THEN BackoffCap ELSE 2 * backoff

TooManyRequests(g) ==
  /\ pc[g] = "inflight"
  /\ Spend("fault")
  /\ backoff' = NextBackoff
  /\ left' = NextBackoff
  /\ aware' = {}
  /\ RequestFails(g)
  /\ UNCHANGED <<calls, sleep, el>>

(* Another status or a body that does not decode, which reset the back-off *)
(* all the same, or no answer at all.                                      *)
RequestError(g) ==
  /\ pc[g] = "inflight"
  /\ Spend("fault")
  /\ backoff' \in {0, backoff}
  /\ RequestFails(g)
  /\ UNCHANGED <<calls, sleep, left, aware, el>>

-----------------------------------------------------------------------------
(* blockIndex of the execution client                                      *)

(* The cache, under its mutex: a block that is there answers for all the   *)
(* blobs that are left, since nothing removes it. For another one the      *)
(* mutex is released and the execution payload asked for.                  *)
LookUp(g) ==
  /\ pc[g] = "lookup"
  /\ \/ /\ g[2] \in cache
        /\ slotBlobs' = [slotBlobs EXCEPT ![g] =
             [i \in 1 .. Sidecars[g[2]] |-> IF i <= Len(@) THEN @[i] ELSE TRUE]]
        /\ pc' = [pc EXCEPT ![g] = "done"]
     \/ /\ g[2] \notin cache
        /\ pc' = [pc EXCEPT ![g] = "check"]
        /\ UNCHANGED slotBlobs
  /\ UNCHANGED <<calls, cancelled, failed, asks, sleep, http, el, budget>>

(* Mutant: the index is built for the blob and not kept.                   *)
IndexUncached(g) ==
  /\ pc[g] = "index"
  /\ resolved' = [resolved EXCEPT ![g[2]] = @ + 1]
  /\ Proceed(g, Append(slotBlobs[g], TRUE))
  /\ UNCHANGED <<calls, sleep, http, cache, budget>>

(* eth_getBlockByHash answers; the index goes into the cache, whether or   *)
(* not somebody else has put it there since.                               *)
Index(g) ==
  /\ pc[g] = "index"
  /\ resolved' = [resolved EXCEPT ![g[2]] = @ + 1]
  /\ cache' = cache \cup {g[2]}
  /\ Proceed(g, Append(slotBlobs[g], TRUE))
  /\ UNCHANGED <<calls, sleep, http, budget>>

(* It fails; the next blob of the block tries again.                       *)
IndexFails(g) ==
  /\ pc[g] = "index"
  /\ \/ cancelled[g[1]] /\ UNCHANGED budget
     \/ ~cancelled[g[1]] /\ Spend("fault")
  /\ RequestFails(g)
  /\ UNCHANGED <<calls, sleep, http, el>>

-----------------------------------------------------------------------------

(* The caller's context is cancelled.                                      *)
Interrupt(f) ==
  /\ call[f] = "fetching" /\ ~cancelled[f]
  /\ Spend("fault")
  /\ cancelled' = [cancelled EXCEPT ![f] = TRUE]
  /\ UNCHANGED <<calls, failed, pc, asks, sleep, slotBlobs, http, el>>

(* Time passes for the back-off and for those who wait.                    *)
Tick ==
  /\ left > 0 \/ \E g \in Goroutine : sleep[g] > 0
  /\ left' = IF left > 0 THEN left - 1 ELSE 0
  /\ sleep' = [g \in Goroutine |-> IF sleep[g] > 0 THEN sleep[g] - 1 ELSE 0]
  /\ UNCHANGED <<calls, cancelled, failed, pc, asks, slotBlobs, backoff, aware, el, budget>>

Step(g) ==
  \/ Acquire(g) \/ CheckBackoff(g) \/ Wake(g) \/ Interrupted(g)
  \/ Answer(g) \/ TooManyRequests(g) \/ RequestError(g)
  \/ LookUp(g) \/ Index(g) \/ IndexFails(g)

Next ==
  \/ \E f \in Fetcher : Call(f) \/ Wait(f) \/ Interrupt(f)
  \/ \E g \in Goroutine : Step(g)
  \/ Tick

Spec == Init /\ [][Next]_vars

(* Goroutines are scheduled, clocks run, requests end (http.Client has a   *)
(* timeout).                                                               *)
Fairness ==
  /\ \A f \in Fetcher : WF_vars(Wait(f))
  /\ \A g \in Goroutine : WF_vars(Step(g))
  /\ WF_vars(Tick)

FairSpec == Spec /\ Fairness

-----------------------------------------------------------------------------
(* Properties                                                              *)

(* The longest pause there can be.                                         *)
LongestBackoff == IF BackoffBase > BackoffCap THEN BackoffBase ELSE BackoffCap

(* The back-off "doubles on each consecutive 429, capped at 60s": it       *)
(* exceeds the cap only as the initial one, on the first 429 of a row,     *)
(* when the operator has set that longer than the cap.                     *)
Capped ==
  /\ backoff <= BackoffCap \/ backoff = BackoffBase
  /\ left <= LongestBackoff

(* Types, the bound of the back-off, and the bound of the semaphore: no    *)
(* more than SlotWorkers goroutines of a call of FetchEpochInput are at    *)
(* work.                                                                   *)
TypeOK ==
  /\ call \in [Fetcher -> {"idle", "fetching", "ok", "error"}]
  /\ pc \in [Goroutine -> {"queued", "lookup", "check", "sleep", "inflight", "index", "done"}]
  /\ asks \in [Goroutine -> {"sidecars", "payload"}]
  /\ sleep \in [Goroutine -> 0 .. LongestBackoff]
  /\ \A g \in Goroutine : Len(slotBlobs[g]) <= Sidecars[g[2]]
  /\ left \in Nat /\ backoff \in Nat /\ Capped
  /\ \A f \in Fetcher : Cardinality(Held(f)) <= SlotWorkers
  /\ cache \subseteq Slot \ Missed

(* The epoch as the chain has it.                                          *)
Expected(s) == IF s \in Missed THEN 0 ELSE Sidecars[s]

Chain ==
  FlattenSeq([i \in 1 .. SlotsPerEpoch |-> [k \in 1 .. Expected(i - 1) |-> <<i - 1, k>>]])

(* FetchEpochInput returns the whole epoch in the order of its slots, or   *)
(* an error: no failure, cancellation, order of completion or other call   *)
(* makes a slot go missing from an epoch that is then indexed as complete. *)
WholeEpoch == \A f \in Fetcher : call[f] = "ok" => blobs[f] = Chain

(* A block is fetched from the execution node at most once by each of the  *)
(* callers that are at work at the same time, whatever fails, is tried     *)
(* again or called again later. The cache is looked up and filled under    *)
(* separate locks, so callers that overlap may each fetch a block that     *)
(* the comment on ExecutionClient has "fetched at most once per process    *)
(* lifetime"; once it is in the cache, nobody begins to.                   *)
ResolvedByEach == \A s \in Slot : resolved[s] <= Cardinality(Fetcher)

(* While a back-off lasts, only those send a request who were waiting for  *)
(* an earlier one when the 429 came that began it.                         *)
Paced ==
  [][\A g \in Goroutine :
       pc[g] # "inflight" /\ pc'[g] = "inflight" /\ backoff > 0 /\ left > 0
         => pc[g] = "sleep" /\ g \notin aware]_vars

(* Every fetch ends, with all its goroutines.                              *)
FetchEnds ==
  \A f \in Fetcher : call[f] = "fetching" ~> call[f] \in {"ok", "error"} /\ Held(f) = {}

=============================================================================
