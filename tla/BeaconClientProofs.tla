--------------------------- MODULE BeaconClientProofs ---------------------------
(***************************************************************************)
(* What fetching an epoch guarantees for every epoch length, every chain,  *)
(* every initial back-off and any number of callers, workers, calls and    *)
(* faults.                                                                 *)
(***************************************************************************)
EXTENDS BeaconClient, FiniteSetTheorems, TLAPS

(* A goroutine is that of a caller and a slot.                             *)
LEMMA GoroutineFacts ==
  ASSUME NEW g \in Goroutine
  PROVE  g[1] \in Fetcher /\ g[2] \in Slot /\ g = <<g[1], g[2]>>
BY DEF Goroutine

-----------------------------------------------------------------------------
(* The back-off                                                            *)

States == {"queued", "lookup", "check", "sleep", "inflight", "index", "done"}

(* The state of the back-off and of those who wait for it. Who waits for   *)
(* the back-off that is in force waits at least as long as it lasts.       *)
PaceInv ==
  /\ pc \in [Goroutine -> States]
  /\ sleep \in [Goroutine -> Nat]
  /\ backoff \in Nat /\ left \in Nat
  /\ Capped
  /\ \A g \in aware \cap Goroutine : pc[g] = "sleep" => left <= sleep[g]

(* A request that failed leaves its goroutine done or at the next blob.    *)
LEMMA RequestFailsPc ==
  ASSUME NEW g \in Goroutine, PaceInv, RequestFails(g)
  PROVE  \E x \in {"done", "lookup"} : pc' = [pc EXCEPT ![g] = x]
BY Zenon DEF RequestFails, GiveUp, Proceed

(* Nobody waits yet.                                                       *)
LEMMA PaceInit == Init => PaceInv
BY BeaconAssumption DEF Init, PaceInv, Capped, LongestBackoff, States

(* The next back-off is within the cap or the initial one.                 *)
LEMMA NextBackoffCapped ==
  ASSUME PaceInv
  PROVE  /\ NextBackoff \in Nat /\ NextBackoff <= LongestBackoff
         /\ NextBackoff <= BackoffCap \/ NextBackoff = BackoffBase
BY BeaconAssumption DEF NextBackoff, PaceInv, LongestBackoff

(* A step of one goroutine that does not go to sleep, and that leaves the  *)
(* back-off as it is or resets it.                                         *)
LEMMA PaceKept ==
  ASSUME PaceInv, NEW g \in Goroutine,
         UNCHANGED <<left, aware, sleep>>, backoff' \in {0, backoff},
         NEW x \in States \ {"sleep"}, pc' = [pc EXCEPT ![g] = x]
  PROVE  PaceInv'
<1>1. backoff' \in Nat /\ Capped'
  BY BeaconAssumption DEF PaceInv, Capped, LongestBackoff
<1>2. pc' \in [Goroutine -> States] /\ \A h \in Goroutine : pc'[h] = "sleep" => pc[h] = "sleep"
  BY DEF PaceInv
<1>3. QED
  BY <1>1, <1>2, Zenon DEF PaceInv

(* Every step of a goroutine keeps PaceInv, and one that looks at the      *)
(* back-off or wakes up does not send a request while it lasts.            *)
LEMMA PaceStep ==
  ASSUME PaceInv, NEW g \in Goroutine, Step(g)
  PROVE  /\ PaceInv'
         /\ \A h \in Goroutine :
              pc[h] # "inflight" /\ pc'[h] = "inflight" /\ backoff > 0 /\ left > 0
                => pc[h] = "sleep" /\ h \notin aware
<1> USE DEF http
<1>1. CASE Acquire(g) \/ LookUp(g)
  <2>1. /\ UNCHANGED <<left, aware, sleep, backoff>> /\ pc[g] \in {"queued", "lookup"}
        /\ \E x \in {"done", "check"} : pc' = [pc EXCEPT ![g] = x]
    BY <1>1, Zenon DEF Acquire, LookUp
  <2>2. QED
    BY <2>1, PaceKept, Zenon DEF PaceInv, States
<1>2. CASE CheckBackoff(g)
  <2>1. /\ UNCHANGED <<backoff, left>> /\ pc[g] = "check"
        /\ \/ /\ backoff > 0 /\ left > 0
              /\ pc' = [pc EXCEPT ![g] = "sleep"]
              /\ sleep' = [sleep EXCEPT ![g] = left]
              /\ aware' = aware \cup {g}
           \/ /\ ~(backoff > 0 /\ left > 0)
              /\ pc' = [pc EXCEPT ![g] = "inflight"]
              /\ UNCHANGED <<sleep, aware>>
    BY <1>2, Zenon DEF CheckBackoff
  <2>2. QED
    BY <2>1 DEF PaceInv, Capped, States
<1>3. CASE Wake(g)
  BY <1>3 DEF Wake, PaceInv, Capped, States
<1>4. CASE Interrupted(g)
  <2>1. PICK x \in {"done", "lookup"} : pc' = [pc EXCEPT ![g] = x]
    BY <1>4, RequestFailsPc, Zenon DEF Interrupted
  <2>2. /\ UNCHANGED <<backoff, left>> /\ aware' = aware \ {g}
        /\ sleep' = [sleep EXCEPT ![g] = 0]
    BY <1>4, Zenon DEF Interrupted
  <2>3. QED
    BY <2>1, <2>2 DEF PaceInv, Capped, States
<1>5. CASE Answer(g) \/ RequestError(g) \/ Index(g) \/ IndexFails(g)
  <2>1. UNCHANGED <<left, aware, sleep>> /\ pc[g] \in {"inflight", "index"}
    BY <1>5, Zenon DEF Answer, RequestError, Index, IndexFails
  <2>2. backoff' \in {0, backoff}
    BY <1>5, Zenon DEF Answer, GetBlobSidecars, GetExecutionPayloadInfo, RequestError, Index,
                       IndexFails
  <2>3. \E x \in {"done", "lookup", "index"} : pc' = [pc EXCEPT ![g] = x]
    <3>1. CASE Answer(g) \/ Index(g)
      BY <3>1, Zenon DEF Answer, GetBlobSidecars, GetExecutionPayloadInfo, Index, Proceed
    <3>2. CASE RequestError(g) \/ IndexFails(g)
      BY <3>2, RequestFailsPc, Zenon DEF RequestError, IndexFails
    <3>3. QED
      BY <1>5, <3>1, <3>2, Zenon
  <2>4. QED
    BY <2>1, <2>2, <2>3, PaceKept, Zenon DEF PaceInv, States
<1>6. CASE TooManyRequests(g)
  <2>1. PICK x \in {"done", "lookup"} : pc' = [pc EXCEPT ![g] = x]
    BY <1>6, RequestFailsPc, Zenon DEF TooManyRequests
  <2>2. /\ UNCHANGED sleep /\ aware' = {}
        /\ backoff' = NextBackoff /\ left' = NextBackoff
    BY <1>6, Zenon DEF TooManyRequests
  <2>3. Capped' /\ backoff' \in Nat /\ left' \in Nat
    BY <2>2, NextBackoffCapped, Zenon DEF Capped, LongestBackoff
  <2>4. QED
    BY <2>1, <2>2, <2>3 DEF PaceInv, States
<1>7. QED
  BY <1>1, <1>2, <1>3, <1>4, <1>5, <1>6, Zenon DEF Step

(* The same for the callers and the clock.                                 *)
LEMMA PaceNext ==
  ASSUME PaceInv, [Next]_vars
  PROVE  /\ PaceInv'
         /\ \A h \in Goroutine :
              pc[h] # "inflight" /\ pc'[h] = "inflight" /\ backoff > 0 /\ left > 0
                => pc[h] = "sleep" /\ h \notin aware
<1> USE DEF http
<1>1. ASSUME NEW f \in Fetcher, Call(f) \/ Wait(f) \/ Interrupt(f)
      PROVE  /\ UNCHANGED <<backoff, left, aware, sleep>>
             /\ pc' \in [Goroutine -> States]
             /\ \A h \in Goroutine : pc'[h] \in {"queued", pc[h]}
  <2>1. UNCHANGED <<backoff, left, aware, sleep>>
    BY <1>1, Zenon DEF Call, Wait, Interrupt
  <2>2. pc' = pc \/ pc' = [g \in Goroutine |-> IF g[1] = f THEN "queued" ELSE pc[g]]
    BY <1>1, Zenon DEF Call, Wait, Interrupt
  <2>3. QED
    BY <2>1, <2>2 DEF PaceInv, States
<1>2. CASE \E f \in Fetcher : Call(f) \/ Wait(f) \/ Interrupt(f)
  BY <1>1, <1>2 DEF PaceInv, Capped
<1>3. CASE Tick
  BY <1>3, BeaconAssumption DEF Tick, PaceInv, Capped, LongestBackoff
<1>4. CASE UNCHANGED vars
  BY <1>4 DEF vars, PaceInv, Capped
<1>5. QED
  BY <1>2, <1>3, <1>4, PaceStep, Zenon DEF Next

(* PaceInv holds in every run.                                             *)
THEOREM BeaconPace == Spec => []PaceInv
<1>1. PaceInv /\ [Next]_vars => PaceInv'
  BY PaceNext
<1>2. QED
  BY <1>1, PaceInit, PTL DEF Spec

(* However many answers of 429 the goroutines get at once, the back-off    *)
(* exceeds the cap only as the initial one that the operator set, and what *)
(* is left of it is never more than the longer of the two.                 *)
THEOREM BeaconCapped == Spec => []Capped
<1>1. PaceInv => Capped
  BY DEF PaceInv
<1>2. QED
  BY <1>1, BeaconPace, PTL

(* While a back-off lasts, a request is sent only by a goroutine that      *)
(* waited for an earlier one when the 429 came that began it.              *)
THEOREM BeaconPaced == Spec => Paced
<1>1. PaceInv /\ [Next]_vars
        => [\A g \in Goroutine :
              pc[g] # "inflight" /\ pc'[g] = "inflight" /\ backoff > 0 /\ left > 0
                => pc[g] = "sleep" /\ g \notin aware]_vars
  BY PaceNext, Zenon
<1>2. QED
  BY <1>1, BeaconPace, PTL DEF Spec, Paced

-----------------------------------------------------------------------------
(* The epoch                                                               *)

FetchTypes ==
  /\ call \in [Fetcher -> {"idle", "fetching", "ok", "error"}]
  /\ enrich \in [Fetcher -> BOOLEAN]
  /\ failed \in [Fetcher -> BOOLEAN]
  /\ blobs \in [Fetcher -> {<<>>, Chain}]
  /\ pc \in [Goroutine -> States]
  /\ asks \in [Goroutine -> {"sidecars", "payload"}]
  /\ slotBlobs \in [Goroutine -> Seq(BOOLEAN)]

(* A goroutine that asks for sidecars has no blobs yet; one that asks for  *)
(* a payload, or looks one up, lacks some of its block; one that is done   *)
(* has what the chain has, unless its call has failed.                     *)
SlotInv(g) ==
  /\ Len(slotBlobs[g]) <= Sidecars[g[2]]
  /\ pc[g] # "done" /\ asks[g] = "sidecars"
       => slotBlobs[g] = <<>> /\ pc[g] \notin {"lookup", "index"}
  /\ pc[g] # "done" /\ asks[g] = "payload"
       => pc[g] # "queued" /\ g[2] \notin Missed /\ Len(slotBlobs[g]) < Sidecars[g[2]]
  /\ pc[g] = "done" /\ call[g[1]] = "fetching" /\ ~failed[g[1]]
       => Len(slotBlobs[g]) = Expected(g[2])

FetchInv == FetchTypes /\ (\A g \in Goroutine : SlotInv(g)) /\ WholeEpoch

(* A step of one goroutine leaves the others alone.                        *)
LEMMA OneSlot ==
  ASSUME FetchInv, NEW g \in Goroutine, FetchTypes', SlotInv(g)',
         UNCHANGED <<call, blobs>>, \A f \in Fetcher : failed[f] => failed'[f],
         \A h \in Goroutine \ {g} :
           pc'[h] = pc[h] /\ asks'[h] = asks[h] /\ slotBlobs'[h] = slotBlobs[h]
  PROVE  FetchInv'
<1>1. ASSUME NEW h \in Goroutine, h # g PROVE SlotInv(h)'
  <2>1. SlotInv(h) /\ h[1] \in Fetcher
    BY GoroutineFacts DEF FetchInv
  <2>2. pc'[h] = pc[h] /\ asks'[h] = asks[h] /\ slotBlobs'[h] = slotBlobs[h]
    BY <1>1
  <2>3. failed[h[1]] => failed'[h[1]]
    BY <2>1, Zenon
  <2>4. QED
    BY <2>1, <2>2, <2>3 DEF SlotInv, Expected
<1>2. Chain' = Chain
  BY DEF Chain, Expected
<1>3. WholeEpoch'
  BY <1>2, Zenon DEF FetchInv, WholeEpoch
<1>4. QED
  BY <1>1, <1>3, Zenon DEF FetchInv

(* A block has room for no blobs.                                          *)
LEMMA NoBlobs ==
  ASSUME NEW g \in Goroutine
  PROVE  Len(<<>>) = 0 /\ 0 <= Sidecars[g[2]] /\ Len(<<>>) <= Sidecars[g[2]]
BY GoroutineFacts, BeaconAssumption

(* A function on 1 .. n is a sequence of length n.                         *)
LEMMA FunctionIsSeq ==
  ASSUME NEW n \in Nat, NEW f \in [1 .. n -> BOOLEAN]
  PROVE  f \in Seq(BOOLEAN) /\ Len(f) = n
OBVIOUS

(* A goroutine that proceeds is done exactly when it has all of its blobs. *)
LEMMA ProceedSlot ==
  ASSUME FetchInv, NEW g \in Goroutine, g[2] \notin Missed, NEW got \in Seq(BOOLEAN),
         Len(got) <= Sidecars[g[2]], Proceed(g, got)
  PROVE  /\ pc' = [pc EXCEPT ![g] = pc'[g]] /\ pc'[g] \in {"done", "lookup"}
         /\ asks' = [asks EXCEPT ![g] = "payload"]
         /\ slotBlobs' = [slotBlobs EXCEPT ![g] = slotBlobs'[g]] /\ slotBlobs'[g] \in Seq(BOOLEAN)
         /\ Len(slotBlobs'[g]) <= Sidecars[g[2]]
         /\ pc'[g] = "done" => Len(slotBlobs'[g]) = Sidecars[g[2]]
         /\ pc'[g] = "lookup" => Len(slotBlobs'[g]) < Sidecars[g[2]]
<1> DEFINE rest == [i \in 1 .. Sidecars[g[2]] |-> FALSE]
           all == IF enrich[g[1]] THEN got ELSE rest
<1>1. Sidecars[g[2]] \in Nat
  BY GoroutineFacts, BeaconAssumption
<1>2. rest \in Seq(BOOLEAN) /\ Len(rest) = Sidecars[g[2]]
  <2>1. rest \in [1 .. Sidecars[g[2]] -> BOOLEAN]
    BY Zenon
  <2> HIDE DEF rest
  <2>2. QED
    BY <1>1, <2>1, FunctionIsSeq, Zenon
<1>3. /\ slotBlobs' = [slotBlobs EXCEPT ![g] = all]
      /\ asks' = [asks EXCEPT ![g] = "payload"]
      /\ pc' = [pc EXCEPT ![g] = IF Len(all) = Sidecars[g[2]] THEN "done" ELSE "lookup"]
  BY Zenon DEF Proceed
<1> HIDE DEF rest
<1>4. all \in Seq(BOOLEAN) /\ Len(all) <= Sidecars[g[2]]
  BY <1>1, <1>2
<1> HIDE DEF all
<1>5. slotBlobs'[g] = all /\ pc'[g] = IF Len(all) = Sidecars[g[2]] THEN "done" ELSE "lookup"
  BY <1>3, Zenon DEF FetchInv, FetchTypes
<1>6. Len(all) \in Nat
  BY <1>4
<1>7. /\ Len(slotBlobs'[g]) <= Sidecars[g[2]]
      /\ pc'[g] = "done" => Len(slotBlobs'[g]) = Sidecars[g[2]]
      /\ pc'[g] = "lookup" => Len(slotBlobs'[g]) < Sidecars[g[2]]
  BY <1>1, <1>4, <1>5, <1>6
<1>8. pc' = [pc EXCEPT ![g] = pc'[g]] /\ slotBlobs' = [slotBlobs EXCEPT ![g] = slotBlobs'[g]]
  BY <1>3, <1>5, Zenon
<1>9. pc'[g] \in {"done", "lookup"} /\ slotBlobs'[g] \in Seq(BOOLEAN)
  BY <1>4, <1>5
<1>10. QED
  BY <1>3, <1>7, <1>8, <1>9, Zenon

(* A goroutine that proceeds with what it has got.                         *)
LEMMA ProceedFetch ==
  ASSUME FetchInv, NEW g \in Goroutine, g[2] \notin Missed, NEW got \in Seq(BOOLEAN),
         Len(got) <= Sidecars[g[2]], Proceed(g, got), UNCHANGED <<call, enrich, blobs>>
  PROVE  FetchInv'
<1>1. /\ pc' = [pc EXCEPT ![g] = pc'[g]] /\ pc'[g] \in {"done", "lookup"}
      /\ asks' = [asks EXCEPT ![g] = "payload"]
      /\ slotBlobs' = [slotBlobs EXCEPT ![g] = slotBlobs'[g]] /\ slotBlobs'[g] \in Seq(BOOLEAN)
      /\ Len(slotBlobs'[g]) <= Sidecars[g[2]]
      /\ pc'[g] = "done" => Len(slotBlobs'[g]) = Sidecars[g[2]]
      /\ pc'[g] = "lookup" => Len(slotBlobs'[g]) < Sidecars[g[2]]
  BY ProceedSlot, Zenon
<1>2. failed' = failed
  BY Zenon DEF Proceed
<1>3. asks'[g] = "payload"
  BY <1>1, Zenon DEF FetchInv, FetchTypes
<1>4. FetchTypes'
  <2>1. pc' \in [Goroutine -> States]
    BY <1>1, Zenon DEF FetchInv, FetchTypes, States
  <2>2. asks' \in [Goroutine -> {"sidecars", "payload"}]
    BY <1>1, Zenon DEF FetchInv, FetchTypes
  <2>3. slotBlobs' \in [Goroutine -> Seq(BOOLEAN)]
    BY <1>1, Zenon DEF FetchInv, FetchTypes
  <2>4. Chain' = Chain
    BY DEF Chain, Expected
  <2>5. QED
    BY <1>2, <2>1, <2>2, <2>3, <2>4, Zenon DEF FetchInv, FetchTypes
<1>5. SlotInv(g)'
  BY <1>1, <1>3 DEF SlotInv, Expected
<1>6. QED
  BY <1>1, <1>2, <1>4, <1>5, OneSlot, Zenon DEF FetchInv, FetchTypes

(* A goroutine whose request failed.                                       *)
LEMMA RequestFailsFetch ==
  ASSUME FetchInv, NEW g \in Goroutine, pc[g] \in {"sleep", "inflight", "index"}, RequestFails(g),
         UNCHANGED <<call, enrich, blobs>>
  PROVE  FetchInv'
<1>1. CASE asks[g] = "sidecars"
  <2>1. /\ pc' = [pc EXCEPT ![g] = "done"] /\ failed' = [failed EXCEPT ![g[1]] = TRUE]
        /\ UNCHANGED <<slotBlobs, asks>>
    BY <1>1, Zenon DEF RequestFails, GiveUp
  <2>2. g[1] \in Fetcher
    BY GoroutineFacts
  <2>3. Chain' = Chain
    BY DEF Chain, Expected
  <2>4. FetchTypes'
    BY <2>1, <2>3, Zenon DEF FetchInv, FetchTypes, States
  <2>5. SlotInv(g)'
    BY <2>1, <2>2, Zenon DEF FetchInv, FetchTypes, SlotInv
  <2>6. \A f \in Fetcher : failed[f] => failed'[f]
    BY <2>1, Zenon DEF FetchInv, FetchTypes
  <2>7. QED
    BY <2>1, <2>4, <2>5, <2>6, OneSlot, Zenon DEF FetchInv, FetchTypes
<1>2. CASE asks[g] = "payload"
  <2> DEFINE got == Append(slotBlobs[g], FALSE)
  <2>1. /\ g[2] \notin Missed /\ slotBlobs[g] \in Seq(BOOLEAN)
        /\ Len(slotBlobs[g]) < Sidecars[g[2]] /\ Sidecars[g[2]] \in Nat
    BY <1>2, GoroutineFacts, BeaconAssumption, Zenon DEF FetchInv, FetchTypes, SlotInv
  <2>2. got \in Seq(BOOLEAN) /\ Len(got) <= Sidecars[g[2]]
    BY <2>1
  <2>3. Proceed(g, got)
    BY <1>2, Zenon DEF RequestFails
  <2> HIDE DEF got
  <2>4. QED
    BY <2>1, <2>2, <2>3, ProceedFetch, Zenon
<1>3. QED
  BY <1>1, <1>2, Zenon DEF FetchInv, FetchTypes

(* A step that moves one goroutine on, short of the end of its slot.       *)
LEMMA MoveFetch ==
  ASSUME FetchInv, NEW g \in Goroutine, pc[g] # "done",
         UNCHANGED <<call, enrich, failed, blobs, asks, slotBlobs>>,
         NEW x \in States \ {"done", "queued"}, pc' = [pc EXCEPT ![g] = x],
         asks[g] = "sidecars" => x \notin {"lookup", "index"}
  PROVE  FetchInv'
<1>1. pc'[g] = x /\ pc' \in [Goroutine -> States]
  BY DEF FetchInv, FetchTypes
<1>2. Chain' = Chain
  BY DEF Chain, Expected
<1>3. FetchTypes'
  BY <1>1, <1>2, Zenon DEF FetchInv, FetchTypes
<1>4. SlotInv(g)'
  BY <1>1, Zenon DEF FetchInv, SlotInv
<1>5. QED
  BY <1>3, <1>4, OneSlot, Zenon DEF FetchInv, FetchTypes

(* A request that was answered.                                            *)
LEMMA AnswerFetch ==
  ASSUME FetchInv, NEW g \in Goroutine, Answer(g)
  PROVE  FetchInv'
<1> USE DEF calls
<1>1. UNCHANGED <<call, enrich, blobs>> /\ pc[g] = "inflight"
  BY Zenon DEF Answer
<1>2. CASE asks[g] = "sidecars" /\ g[2] \in Missed
  <2>1. pc' = [pc EXCEPT ![g] = "done"] /\ UNCHANGED <<slotBlobs, asks, failed>>
    BY <1>2, Zenon DEF Answer, GetBlobSidecars, GetExecutionPayloadInfo
  <2>2. slotBlobs[g] = <<>> /\ pc'[g] = "done" /\ pc' \in [Goroutine -> States]
    BY <1>1, <1>2, <2>1 DEF FetchInv, FetchTypes, SlotInv, States
  <2>3. Chain' = Chain
    BY DEF Chain, Expected
  <2>4. FetchTypes'
    BY <1>1, <2>1, <2>2, <2>3, Zenon DEF FetchInv, FetchTypes
  <2>5. SlotInv(g)'
    BY <1>2, <2>1, <2>2, NoBlobs DEF SlotInv, Expected
  <2>6. QED
    BY <1>1, <2>1, <2>4, <2>5, OneSlot, Zenon DEF FetchInv, FetchTypes
<1>3. CASE asks[g] = "sidecars" /\ g[2] \notin Missed
  <2>1. Proceed(g, <<>>)
    BY <1>3, Zenon DEF Answer, GetBlobSidecars, GetExecutionPayloadInfo
  <2>2. <<>> \in Seq(BOOLEAN) /\ Len(<<>>) <= Sidecars[g[2]]
    BY GoroutineFacts, BeaconAssumption
  <2>3. QED
    BY <1>1, <1>3, <2>1, <2>2, ProceedFetch, Zenon
<1>4. CASE asks[g] = "payload"
  <2>1. pc' = [pc EXCEPT ![g] = "index"] /\ UNCHANGED <<slotBlobs, asks, failed>>
    BY <1>4, Zenon DEF Answer, GetBlobSidecars, GetExecutionPayloadInfo
  <2>2. "index" \in States \ {"done", "queued"}
    BY DEF States
  <2>3. QED
    BY <1>1, <1>4, <2>1, <2>2, MoveFetch, Zenon
<1>5. QED
  BY <1>2, <1>3, <1>4, Zenon DEF Answer, GetBlobSidecars, GetExecutionPayloadInfo

(* A block that was indexed answers for its blob.                          *)
LEMMA IndexFetch ==
  ASSUME FetchInv, NEW g \in Goroutine, Index(g)
  PROVE  FetchInv'
<1> DEFINE got == Append(slotBlobs[g], TRUE)
<1>1. UNCHANGED <<call, enrich, blobs>> /\ pc[g] = "index" /\ Proceed(g, got)
  BY Zenon DEF Index, calls
<1>2. /\ g[2] \notin Missed /\ slotBlobs[g] \in Seq(BOOLEAN)
      /\ Len(slotBlobs[g]) < Sidecars[g[2]] /\ Sidecars[g[2]] \in Nat
  BY <1>1, GoroutineFacts, BeaconAssumption, Zenon DEF FetchInv, FetchTypes, SlotInv
<1>3. got \in Seq(BOOLEAN) /\ Len(got) <= Sidecars[g[2]]
  BY <1>2
<1> HIDE DEF got
<1>4. QED
  BY <1>1, <1>2, <1>3, ProceedFetch, Zenon

(* A block in the cache completes its slot; another one is asked for.      *)
LEMMA LookUpFetch ==
  ASSUME FetchInv, NEW g \in Goroutine, LookUp(g)
  PROVE  FetchInv'
<1> DEFINE n == Sidecars[g[2]]
           all == [i \in 1 .. n |-> IF i <= Len(slotBlobs[g]) THEN slotBlobs[g][i] ELSE TRUE]
<1>1. /\ UNCHANGED <<call, enrich, failed, blobs, asks>> /\ pc[g] = "lookup"
      /\ \/ slotBlobs' = [slotBlobs EXCEPT ![g] = all] /\ pc' = [pc EXCEPT ![g] = "done"]
         \/ slotBlobs' = slotBlobs /\ pc' = [pc EXCEPT ![g] = "check"]
  BY Zenon DEF LookUp, calls
<1>2. asks[g] = "payload" /\ g[2] \notin Missed /\ slotBlobs[g] \in Seq(BOOLEAN) /\ n \in Nat
  BY <1>1, GoroutineFacts, BeaconAssumption DEF FetchInv, FetchTypes, SlotInv
<1>3. CASE slotBlobs' = slotBlobs /\ pc' = [pc EXCEPT ![g] = "check"]
  <2>1. "check" \in States \ {"done", "queued"}
    BY DEF States
  <2>2. QED
    BY <1>1, <1>2, <1>3, <2>1, MoveFetch, Zenon
<1>4. CASE slotBlobs' = [slotBlobs EXCEPT ![g] = all] /\ pc' = [pc EXCEPT ![g] = "done"]
  <2>1. all \in Seq(BOOLEAN) /\ Len(all) = n
    <3>0. \A i \in 1 .. n : i <= Len(slotBlobs[g]) => slotBlobs[g][i] \in BOOLEAN
      BY <1>2
    <3>1. all \in [1 .. n -> BOOLEAN]
      BY <3>0, Zenon
    <3> HIDE DEF all, n
    <3>2. QED
      BY <1>2, <3>1, FunctionIsSeq, Zenon
  <2> HIDE DEF all
  <2>2. /\ pc' \in [Goroutine -> States] /\ pc'[g] = "done"
        /\ slotBlobs' \in [Goroutine -> Seq(BOOLEAN)] /\ slotBlobs'[g] = all
    BY <1>4, <2>1, Zenon DEF FetchInv, FetchTypes, States
  <2>3. Chain' = Chain
    BY DEF Chain, Expected
  <2>4. FetchTypes'
    BY <1>1, <2>2, <2>3, Zenon DEF FetchInv, FetchTypes
  <2>5. SlotInv(g)'
    BY <1>2, <2>1, <2>2 DEF SlotInv, Expected
  <2>6. QED
    BY <1>1, <1>4, <2>4, <2>5, OneSlot, Zenon DEF FetchInv, FetchTypes
<1>5. QED
  BY <1>1, <1>3, <1>4, Zenon

(* Steps of a goroutine between its requests.                              *)
LEMMA PassFetch ==
  ASSUME FetchInv, NEW g \in Goroutine, Acquire(g) \/ CheckBackoff(g) \/ Wake(g)
  PROVE  FetchInv'
<1>1. /\ UNCHANGED <<call, enrich, failed, blobs, asks, slotBlobs>>
      /\ pc[g] # "done"
      /\ \E x \in {"check", "sleep", "inflight"} : pc' = [pc EXCEPT ![g] = x]
  BY Zenon DEF Acquire, CheckBackoff, Wake, calls
<1>2. QED
  BY <1>1, MoveFetch, Zenon DEF States

(* A new call has no blobs; the others keep theirs.                        *)
LEMMA CallFetch ==
  ASSUME FetchInv, NEW f \in Fetcher, Call(f)
  PROVE  FetchInv'
<1>1. /\ call' = [call EXCEPT ![f] = "fetching"] /\ blobs' = blobs
      /\ failed' = [failed EXCEPT ![f] = FALSE]
      /\ \E given \in BOOLEAN : enrich' = [enrich EXCEPT ![f] = given]
      /\ pc' = [g \in Goroutine |-> IF g[1] = f THEN "queued" ELSE pc[g]]
      /\ asks' = [g \in Goroutine |-> IF g[1] = f THEN "sidecars" ELSE asks[g]]
      /\ slotBlobs' = [g \in Goroutine |-> IF g[1] = f THEN <<>> ELSE slotBlobs[g]]
  BY Zenon DEF Call
<1>2. Chain' = Chain
  BY DEF Chain, Expected
<1>3. FetchTypes'
  <2>1. <<>> \in Seq(BOOLEAN)
    OBVIOUS
  <2>2. slotBlobs' \in [Goroutine -> Seq(BOOLEAN)]
    BY <1>1, <2>1, Zenon DEF FetchInv, FetchTypes
  <2>3. pc' \in [Goroutine -> States] /\ asks' \in [Goroutine -> {"sidecars", "payload"}]
    BY <1>1 DEF FetchInv, FetchTypes, States
  <2>4. /\ call' \in [Fetcher -> {"idle", "fetching", "ok", "error"}]
        /\ enrich' \in [Fetcher -> BOOLEAN] /\ failed' \in [Fetcher -> BOOLEAN]
    BY <1>1, Zenon DEF FetchInv, FetchTypes
  <2>5. QED
    BY <1>1, <1>2, <2>2, <2>3, <2>4, Zenon DEF FetchInv, FetchTypes
<1>4. ASSUME NEW g \in Goroutine PROVE SlotInv(g)'
  <2>1. CASE g[1] = f
    BY <1>1, <2>1, NoBlobs, Zenon DEF SlotInv
  <2>2. CASE g[1] # f
    <3>1. /\ pc'[g] = pc[g] /\ asks'[g] = asks[g] /\ slotBlobs'[g] = slotBlobs[g]
          /\ call'[g[1]] = call[g[1]] /\ failed'[g[1]] = failed[g[1]]
      BY <1>1, <2>2, GoroutineFacts, Zenon DEF FetchInv, FetchTypes
    <3>2. QED
      BY <3>1 DEF FetchInv, SlotInv, Expected
  <2>3. QED
    BY <2>1, <2>2
<1>5. WholeEpoch'
  <2>1. \A k \in Fetcher : call'[k] = "ok" => call[k] = "ok"
    BY <1>1 DEF FetchInv, FetchTypes
  <2>2. QED
    BY <1>1, <1>2, <2>1, Zenon DEF FetchInv, WholeEpoch
<1>6. QED
  BY <1>3, <1>4, <1>5, Zenon DEF FetchInv

(* A call that succeeds returns what the chain has, slot by slot.          *)
LEMMA WaitFetch ==
  ASSUME FetchInv, NEW f \in Fetcher, Wait(f)
  PROVE  FetchInv'
<1>1. /\ UNCHANGED <<enrich, failed, pc, asks, slotBlobs>> /\ call[f] = "fetching"
      /\ \/ call' = [call EXCEPT ![f] = "error"] /\ blobs' = blobs
         \/ /\ ~failed[f] /\ call' = [call EXCEPT ![f] = "ok"]
            /\ blobs' = [blobs EXCEPT ![f] = InSlotOrder(f)]
  BY Zenon DEF Wait
<1>2. Chain' = Chain
  BY DEF Chain, Expected
<1>3. ~failed[f] => InSlotOrder(f) = Chain
  <2> SUFFICES ASSUME ~failed[f] PROVE InSlotOrder(f) = Chain
    OBVIOUS
  <2>1. ASSUME NEW i \in 1 .. SlotsPerEpoch
        PROVE  DOMAIN slotBlobs[<<f, i - 1>>] = 1 .. Expected(i - 1)
    <3> DEFINE g == <<f, i - 1>>
    <3>1. i - 1 \in Slot /\ g \in Goroutine /\ g[1] = f /\ g[2] = i - 1
      BY BeaconAssumption DEF Slot, Goroutine
    <3>2. pc[g] = "done"
      BY <3>1 DEF Wait
    <3> HIDE DEF g
    <3>3. slotBlobs[g] \in Seq(BOOLEAN) /\ Len(slotBlobs[g]) = Expected(g[2])
      BY <1>1, <3>1, <3>2, Zenon DEF FetchInv, FetchTypes, SlotInv
    <3>4. DOMAIN slotBlobs[g] = 1 .. Expected(i - 1)
      BY <3>1, <3>3
    <3>5. QED
      BY <3>4 DEF g
  <2>2. [i \in 1 .. SlotsPerEpoch |-> [k \in DOMAIN slotBlobs[<<f, i - 1>>] |-> <<i - 1, k>>]]
          = [i \in 1 .. SlotsPerEpoch |-> [k \in 1 .. Expected(i - 1) |-> <<i - 1, k>>]]
    BY <2>1
  <2>3. QED
    BY <2>2, Zenon DEF InSlotOrder, Chain
<1>4. FetchTypes'
  BY <1>1, <1>2, <1>3 DEF FetchInv, FetchTypes
<1>5. ASSUME NEW g \in Goroutine PROVE SlotInv(g)'
  <2>1. call'[g[1]] = "fetching" => call[g[1]] = "fetching"
    BY <1>1, GoroutineFacts DEF FetchInv, FetchTypes
  <2>2. QED
    BY <1>1, <2>1 DEF FetchInv, SlotInv, Expected
<1>6. WholeEpoch'
  <2> SUFFICES ASSUME NEW k \in Fetcher, call'[k] = "ok" PROVE blobs'[k] = Chain
    BY <1>2, Zenon DEF WholeEpoch
  <2>1. CASE k = f
    BY <1>1, <1>3, <2>1 DEF FetchInv, FetchTypes
  <2>2. CASE k # f
    BY <1>1, <2>2 DEF FetchInv, FetchTypes, WholeEpoch
  <2>3. QED
    BY <2>1, <2>2
<1>7. QED
  BY <1>4, <1>5, <1>6, Zenon DEF FetchInv

(* FetchInv is inductive.                                                  *)
LEMMA FetchNext == ASSUME FetchInv, [Next]_vars PROVE FetchInv'
<1>1. CASE (\E f \in Fetcher : Interrupt(f)) \/ Tick \/ UNCHANGED vars
  <2>1. UNCHANGED <<call, enrich, failed, blobs, pc, asks, slotBlobs>>
    BY <1>1, Zenon DEF Interrupt, Tick, vars, calls
  <2>2. Chain' = Chain
    BY DEF Chain, Expected
  <2>3. FetchTypes' /\ WholeEpoch'
    BY <2>1, <2>2, Zenon DEF FetchInv, FetchTypes, WholeEpoch
  <2>4. \A g \in Goroutine : SlotInv(g)'
    BY <2>1 DEF FetchInv, SlotInv, Expected
  <2>5. QED
    BY <2>3, <2>4, Zenon DEF FetchInv
<1>2. ASSUME NEW g \in Goroutine, Step(g) PROVE FetchInv'
  <2>1. CASE Interrupted(g) \/ TooManyRequests(g) \/ RequestError(g) \/ IndexFails(g)
    BY <2>1, RequestFailsFetch, Zenon
    DEF Interrupted, TooManyRequests, RequestError, IndexFails, calls
  <2>2. QED
    BY <1>2, <2>1, AnswerFetch, IndexFetch, LookUpFetch, PassFetch, Zenon DEF Step
<1>3. QED
  BY <1>1, <1>2, CallFetch, WaitFetch, Zenon DEF Next

(* FetchInv holds in every run.                                            *)
THEOREM BeaconFetch == Spec => []FetchInv
<1>1. Init => FetchInv
  <2> SUFFICES ASSUME Init PROVE FetchInv
    OBVIOUS
  <2>1. FetchTypes
    <3>1. <<>> \in Seq(BOOLEAN)
      OBVIOUS
    <3>2. slotBlobs \in [Goroutine -> Seq(BOOLEAN)]
      BY <3>1, Zenon DEF Init
    <3>3. pc \in [Goroutine -> States] /\ asks \in [Goroutine -> {"sidecars", "payload"}]
      BY Zenon DEF Init, States
    <3>4. QED
      BY <3>2, <3>3, Zenon DEF Init, FetchTypes
  <2>2. ASSUME NEW g \in Goroutine PROVE SlotInv(g)
    BY GoroutineFacts, NoBlobs, Zenon DEF Init, SlotInv
  <2>3. WholeEpoch
    BY DEF Init, WholeEpoch
  <2>4. QED
    BY <2>1, <2>2, <2>3, Zenon DEF FetchInv
<1>2. FetchInv /\ [Next]_vars => FetchInv'
  BY FetchNext
<1>3. QED
  BY <1>1, <1>2, PTL DEF Spec

(* An epoch is returned whole and in the order of its slots, or not at     *)
(* all, for every chain, every order in which its slots are fetched and    *)
(* every other call beside it.                                             *)
THEOREM BeaconWholeEpoch == Spec => []WholeEpoch
<1>1. FetchInv => WholeEpoch
  BY DEF FetchInv
<1>2. QED
  BY <1>1, BeaconFetch, PTL

-----------------------------------------------------------------------------
(* The cache of the execution client                                       *)

(* The callers that have looked a block up without finding it and are at   *)
(* work on fetching it.                                                    *)
Asking(s) ==
  {f \in Fetcher : /\ asks[<<f, s>>] = "payload"
                   /\ pc[<<f, s>>] \in {"check", "sleep", "inflight", "index"}}

(* A block that is not in the cache was not fetched; for one that is,      *)
(* those who did and those who are about to are different callers.         *)
CacheInv ==
  /\ resolved \in [Slot -> Nat]
  /\ \A s \in Slot :
       IF s \in cache THEN resolved[s] + Cardinality(Asking(s)) <= Cardinality(Fetcher)
       ELSE resolved[s] = 0

(* There are finitely many callers.                                        *)
LEMMA AskingFinite ==
  ASSUME NEW s \in Slot
  PROVE  /\ IsFiniteSet(Asking(s)) /\ Cardinality(Asking(s)) \in Nat
         /\ Cardinality(Asking(s)) <= Cardinality(Fetcher) /\ Cardinality(Fetcher) \in Nat
<1>1. Asking(s) \in SUBSET Fetcher
  BY Zenon DEF Asking
<1>2. QED
  BY <1>1, BeaconAssumption, FS_Subset, FS_CardinalityType, Zenon

(* Nobody begins to fetch a block, and none is fetched.                    *)
LEMMA CacheKept ==
  ASSUME CacheInv, UNCHANGED <<cache, resolved>>,
         \A s \in Slot : s \in cache => Asking(s)' \subseteq Asking(s)
  PROVE  CacheInv'
<1> SUFFICES ASSUME NEW s \in Slot
             PROVE  IF s \in cache' THEN resolved'[s] + Cardinality(Asking(s)') <= Cardinality(Fetcher)
                    ELSE resolved'[s] = 0
  BY Zenon DEF CacheInv
<1>1. CASE s \in cache
  <2>1. Cardinality(Asking(s)') <= Cardinality(Asking(s)) /\ Cardinality(Asking(s)') \in Nat
    BY <1>1, AskingFinite, FS_Subset, FS_CardinalityType, Zenon
  <2>2. resolved[s] \in Nat /\ resolved[s] + Cardinality(Asking(s)) <= Cardinality(Fetcher)
    BY <1>1, Zenon DEF CacheInv
  <2>3. resolved[s] + Cardinality(Asking(s)') <= Cardinality(Fetcher)
    BY <2>1, <2>2, AskingFinite
  <2>4. QED
    BY <1>1, <2>3
<1>2. CASE s \notin cache
  BY <1>2, Zenon DEF CacheInv
<1>3. QED
  BY <1>1, <1>2, Zenon

(* A goroutine that does not go on to ask for a payload, or has just not   *)
(* found its block, leaves the others as they are.                         *)
LEMMA CacheOthers ==
  ASSUME CacheInv, FetchInv, NEW g \in Goroutine, UNCHANGED <<cache, resolved>>,
         \A h \in Goroutine \ {g} : pc'[h] = pc[h] /\ asks'[h] = asks[h],
         \/ g[2] \notin cache
         \/ pc'[g] \in {"done", "lookup"}
         \/ asks'[g] = "sidecars"
         \/ /\ asks'[g] = asks[g] /\ pc[g] \in {"check", "sleep", "inflight", "index"}
  PROVE  CacheInv'
<1> SUFFICES ASSUME NEW s \in Slot, s \in cache, NEW f \in Asking(s)' PROVE f \in Asking(s)
  BY CacheKept, Zenon
<1>1. /\ f \in Fetcher /\ asks'[<<f, s>>] = "payload"
      /\ pc'[<<f, s>>] \in {"check", "sleep", "inflight", "index"}
  BY Zenon DEF Asking
<1>2. <<f, s>> \in Goroutine /\ <<f, s>>[1] = f /\ <<f, s>>[2] = s
  BY <1>1 DEF Goroutine
<1>3. CASE <<f, s>> = g
  BY <1>1, <1>2, <1>3 DEF Asking
<1>4. CASE <<f, s>> # g
  <2>1. pc'[<<f, s>>] = pc[<<f, s>>] /\ asks'[<<f, s>>] = asks[<<f, s>>]
    BY <1>2, <1>4, Zenon
  <2>2. QED
    BY <1>1, <2>1, Zenon DEF Asking
<1>5. QED
  BY <1>3, <1>4

(* A caller that has fetched a block is no longer at work on it.           *)
LEMMA IndexCache ==
  ASSUME CacheInv, FetchInv, NEW g \in Goroutine, Index(g)
  PROVE  CacheInv'
<1> DEFINE f == g[1]
           s == g[2]
<1>1. f \in Fetcher /\ s \in Slot /\ g = <<f, s>>
  BY GoroutineFacts, Zenon
<1>2. /\ pc[g] = "index" /\ cache' = cache \cup {s} /\ resolved' = [resolved EXCEPT ![s] = @ + 1]
      /\ asks' = [asks EXCEPT ![g] = "payload"]
      /\ \E x \in {"done", "lookup"} : pc' = [pc EXCEPT ![g] = x]
  BY Zenon DEF Index, Proceed
<1>3. asks[g] = "payload" /\ pc'[g] \in {"done", "lookup"}
  BY <1>2 DEF FetchInv, FetchTypes, SlotInv
<1>4. \A h \in Goroutine \ {g} : pc'[h] = pc[h] /\ asks'[h] = asks[h]
  BY <1>2, Zenon DEF FetchInv, FetchTypes
<1> HIDE DEF f, s
<1>5. f \in Asking(s)
  BY <1>1, <1>2, <1>3, Zenon DEF Asking
<1>6. Asking(s)' = Asking(s) \ {f}
  <2>1. \A k \in Fetcher : <<k, s>> \in Goroutine /\ (<<k, s>> = g <=> k = f)
    BY <1>1 DEF Goroutine
  <2>2. \A k \in Fetcher \ {f} : k \in Asking(s)' <=> k \in Asking(s)
    BY <1>4, <2>1, Zenon DEF Asking
  <2>3. f \notin Asking(s)'
    BY <1>1, <1>3, Zenon DEF Asking
  <2>4. Asking(s) \subseteq Fetcher /\ Asking(s)' \subseteq Fetcher
    BY Zenon DEF Asking
  <2>5. QED
    BY <2>2, <2>3, <2>4
<1>7. \A t \in Slot \ {s} : Asking(t)' = Asking(t)
  <2>1. \A t \in Slot \ {s} : \A k \in Fetcher : <<k, t>> \in Goroutine /\ <<k, t>> # g
    BY <1>1 DEF Goroutine
  <2>2. QED
    BY <1>4, <2>1 DEF Asking
<1>8. Cardinality(Asking(s)') = Cardinality(Asking(s)) - 1
  BY <1>1, <1>5, <1>6, AskingFinite, FS_RemoveElement, Zenon
<1>9. resolved[s] \in Nat /\ resolved' \in [Slot -> Nat] /\ resolved'[s] = resolved[s] + 1
  BY <1>1, <1>2 DEF CacheInv
<1>10. resolved'[s] + Cardinality(Asking(s)') <= Cardinality(Fetcher)
  <2>1. CASE s \in cache
    <3>1. resolved[s] + Cardinality(Asking(s)) <= Cardinality(Fetcher)
      BY <1>1, <2>1, Zenon DEF CacheInv
    <3>2. QED
      BY <1>1, <1>8, <1>9, <3>1, AskingFinite
  <2>2. CASE s \notin cache
    <3>1. resolved[s] = 0
      BY <1>1, <2>2, Zenon DEF CacheInv
    <3>2. QED
      BY <1>1, <1>8, <1>9, <3>1, AskingFinite
  <2>3. QED
    BY <2>1, <2>2
<1>11. ASSUME NEW t \in Slot, t # s
       PROVE  IF t \in cache' THEN resolved'[t] + Cardinality(Asking(t)') <= Cardinality(Fetcher)
              ELSE resolved'[t] = 0
  <2>1. resolved'[t] = resolved[t] /\ (t \in cache' <=> t \in cache) /\ Asking(t)' = Asking(t)
    BY <1>2, <1>7, <1>11 DEF CacheInv
  <2>2. QED
    BY <2>1, Zenon DEF CacheInv
<1>12. s \in cache'
  BY <1>2
<1>13. QED
  BY <1>9, <1>10, <1>11, <1>12, Zenon DEF CacheInv

(* Every other step of a goroutine.                                        *)
LEMMA StepCache ==
  ASSUME CacheInv, FetchInv, NEW g \in Goroutine, Step(g)
  PROVE  CacheInv'
<1> USE DEF el
<1>1. CASE Index(g)
  BY <1>1, IndexCache
<1>2. CASE LookUp(g)
  <2>1. /\ UNCHANGED <<cache, resolved, asks>>
        /\ g[2] \notin cache \/ pc' = [pc EXCEPT ![g] = "done"]
        /\ \E x : pc' = [pc EXCEPT ![g] = x]
    BY <1>2, Zenon DEF LookUp
  <2>2. QED
    BY <2>1, CacheOthers, Zenon DEF FetchInv, FetchTypes
<1>3. CASE Acquire(g)
  <2>1. /\ UNCHANGED <<cache, resolved, asks>> /\ pc[g] = "queued"
        /\ \E x : pc' = [pc EXCEPT ![g] = x]
    BY <1>3, Zenon DEF Acquire
  <2>2. asks'[g] = "sidecars"
    BY <2>1 DEF FetchInv, FetchTypes, SlotInv
  <2>3. QED
    BY <2>1, <2>2, CacheOthers, Zenon DEF FetchInv, FetchTypes
<1>4. CASE CheckBackoff(g) \/ Wake(g)
  <2>1. /\ UNCHANGED <<cache, resolved, asks>> /\ pc[g] \in {"check", "sleep"}
        /\ \E x : pc' = [pc EXCEPT ![g] = x]
    BY <1>4, Zenon DEF CheckBackoff, Wake
  <2>2. QED
    BY <2>1, CacheOthers, Zenon DEF FetchInv, FetchTypes
<1>5. CASE Interrupted(g) \/ TooManyRequests(g) \/ RequestError(g) \/ IndexFails(g)
  <2>1. UNCHANGED <<cache, resolved>> /\ RequestFails(g)
    BY <1>5, Zenon DEF Interrupted, TooManyRequests, RequestError, IndexFails
  <2>2. /\ \E x \in {"done", "lookup"} : pc' = [pc EXCEPT ![g] = x]
        /\ asks' = asks \/ asks' = [asks EXCEPT ![g] = "payload"]
    BY <2>1, Zenon DEF RequestFails, GiveUp, Proceed
  <2>3. pc'[g] \in {"done", "lookup"}
    BY <2>2, Zenon DEF FetchInv, FetchTypes
  <2>4. \A h \in Goroutine \ {g} : pc'[h] = pc[h] /\ asks'[h] = asks[h]
    BY <2>2, Zenon DEF FetchInv, FetchTypes
  <2>5. QED
    BY <2>1, <2>3, <2>4, CacheOthers, Zenon
<1>6. CASE Answer(g)
  <2>1. UNCHANGED <<cache, resolved>> /\ pc[g] = "inflight"
    BY <1>6, Zenon DEF Answer
  <2>2. \/ /\ \E x \in {"done", "lookup"} : pc' = [pc EXCEPT ![g] = x]
           /\ asks' = asks \/ asks' = [asks EXCEPT ![g] = "payload"]
        \/ asks' = asks /\ pc' = [pc EXCEPT ![g] = "index"]
    BY <1>6, Zenon DEF Answer, GetBlobSidecars, GetExecutionPayloadInfo, Proceed
  <2>3. pc'[g] \in {"done", "lookup"} \/ asks'[g] = asks[g]
    BY <2>2, Zenon DEF FetchInv, FetchTypes
  <2>4. \A h \in Goroutine \ {g} : pc'[h] = pc[h] /\ asks'[h] = asks[h]
    BY <2>2, Zenon DEF FetchInv, FetchTypes
  <2>5. QED
    BY <2>1, <2>3, <2>4, CacheOthers, Zenon
<1>7. QED
  BY <1>1, <1>2, <1>3, <1>4, <1>5, <1>6, Zenon DEF Step

(* Callers and the clock do not touch the cache; a new call asks for       *)
(* sidecars first.                                                         *)
LEMMA NextCache ==
  ASSUME CacheInv, FetchInv, [Next]_vars
  PROVE  CacheInv'
<1> USE DEF el
<1>1. CASE (\E f \in Fetcher : Call(f) \/ Wait(f) \/ Interrupt(f)) \/ Tick \/ UNCHANGED vars
  <2>1. UNCHANGED <<cache, resolved>>
    BY <1>1, Zenon DEF Call, Wait, Interrupt, Tick, vars
  <2>2. \A g \in Goroutine :
          \/ pc'[g] = pc[g] /\ asks'[g] = asks[g]
          \/ asks'[g] = "sidecars"
    BY <1>1 DEF Call, Wait, Interrupt, Tick, vars, FetchInv, FetchTypes
  <2>3. \A s \in Slot : Asking(s)' \subseteq Asking(s)
    <3> SUFFICES ASSUME NEW s \in Slot, NEW f \in Asking(s)' PROVE f \in Asking(s)
      BY Zenon
    <3>1. f \in Fetcher /\ <<f, s>> \in Goroutine
      BY DEF Asking, Goroutine
    <3>2. QED
      BY <2>2, <3>1 DEF Asking
  <2>4. QED
    BY <2>1, <2>3, CacheKept, Zenon
<1>2. QED
  BY <1>1, StepCache, Zenon DEF Next

(* However many callers fetch an epoch at once, none of them fetches a     *)
(* block twice, and nobody begins to fetch one that is in the cache.       *)
THEOREM BeaconResolvedByEach == Spec => []ResolvedByEach
<1>1. Init => CacheInv
  BY DEF Init, CacheInv
<1>2. CacheInv /\ FetchInv /\ [Next]_vars => CacheInv'
  BY NextCache
<1>3. CacheInv => ResolvedByEach
  <2> SUFFICES ASSUME CacheInv, NEW s \in Slot PROVE resolved[s] <= Cardinality(Fetcher)
    BY Zenon DEF ResolvedByEach
  <2>1. /\ Cardinality(Asking(s)) \in Nat /\ Cardinality(Fetcher) \in Nat
        /\ resolved[s] \in Nat
    BY AskingFinite, Zenon DEF CacheInv
  <2>2. resolved[s] = 0 \/ resolved[s] + Cardinality(Asking(s)) <= Cardinality(Fetcher)
    BY Zenon DEF CacheInv
  <2>3. QED
    BY <2>1, <2>2
<1>4. QED
  BY <1>1, <1>2, <1>3, BeaconFetch, PTL DEF Spec

-----------------------------------------------------------------------------
(* The semaphore                                                           *)

(* A call has finitely many goroutines, so their number is defined.        *)
LEMMA HeldFinite ==
  ASSUME NEW f \in Fetcher
  PROVE  IsFiniteSet(Held(f)) /\ Cardinality(Held(f)) \in Nat
<1>1. IsFiniteSet(Slot)
  BY FS_Interval, BeaconAssumption DEF Slot
<1>2. Held(f) \in SUBSET Slot
  BY Zenon DEF Held
<1>3. QED
  BY <1>1, <1>2, FS_Subset, FS_CardinalityType, Zenon

(* Nobody holds the semaphore of a call who did not hold it before.        *)
LEMMA KeptHeld ==
  ASSUME NEW f \in Fetcher, Cardinality(Held(f)) <= SlotWorkers, Held(f)' \subseteq Held(f)
  PROVE  Cardinality(Held(f)') <= SlotWorkers
<1>1. Cardinality(Held(f)') \in Nat /\ Cardinality(Held(f)') <= Cardinality(Held(f))
  BY HeldFinite, FS_Subset, FS_CardinalityType, Zenon
<1>2. QED
  BY <1>1, HeldFinite, BeaconAssumption

(* A goroutine takes the semaphore of its call only when there is room for *)
(* one more.                                                               *)
LEMMA AcquireHeld ==
  ASSUME PaceInv, NEW g \in Goroutine, Acquire(g)
  PROVE  Cardinality(Held(g[1])') <= SlotWorkers
<1> DEFINE f == g[1]
           s == g[2]
<1>1. f \in Fetcher /\ s \in Slot /\ g = <<f, s>>
  BY GoroutineFacts, Zenon
<1>2. /\ pc[g] = "queued" /\ pc' = [pc EXCEPT ![g] = "check"]
      /\ Cardinality(Held(f)) < SlotWorkers
  BY Zenon DEF Acquire
<1> HIDE DEF f, s
<1>3. \A t \in Slot : <<f, t>> \in Goroutine /\ (<<f, t>> = g <=> t = s)
  BY <1>1 DEF Goroutine
<1>4. Held(f)' = Held(f) \cup {s} /\ s \notin Held(f)
  <2>1. pc'[<<f, s>>] = "check" /\ \A t \in Slot \ {s} : pc'[<<f, t>>] = pc[<<f, t>>]
    BY <1>1, <1>2, <1>3, Zenon DEF PaceInv
  <2>2. QED
    BY <1>1, <1>2, <2>1 DEF Held
<1>5. Cardinality(Held(f)') = Cardinality(Held(f)) + 1
  BY <1>1, <1>4, HeldFinite, FS_AddElement, Zenon
<1>6. Cardinality(Held(f)') <= SlotWorkers
  BY <1>1, <1>2, <1>5, HeldFinite, BeaconAssumption
<1>7. QED
  BY <1>6 DEF f

(* Every other step of a goroutine is taken by one that holds the          *)
(* semaphore of its call already.                                          *)
LEMMA StepHeld ==
  ASSUME PaceInv, NEW g \in Goroutine, Step(g), NEW f \in Fetcher,
         Cardinality(Held(f)) <= SlotWorkers
  PROVE  Cardinality(Held(f)') <= SlotWorkers
<1>1. \A h \in Goroutine \ {g} : pc'[h] = pc[h]
  <2>1. \E x : pc' = [pc EXCEPT ![g] = x]
    BY Zenon DEF Step, Acquire, CheckBackoff, Wake, Interrupted, Answer, TooManyRequests,
                RequestError, LookUp, Index, IndexFails, GetBlobSidecars, GetExecutionPayloadInfo,
                RequestFails, GiveUp, Proceed
  <2>2. QED
    BY <2>1, Zenon DEF PaceInv
<1>2. CASE Acquire(g) /\ f = g[1]
  BY <1>2, AcquireHeld, Zenon
<1>3. CASE f # g[1] \/ ~Acquire(g)
  <2>1. f = g[1] => pc[g] \in {"lookup", "check", "sleep", "inflight", "index"}
    BY <1>3, Zenon DEF Step, CheckBackoff, Wake, Interrupted, Answer, TooManyRequests, RequestError,
                LookUp, Index, IndexFails
  <2>2. Held(f)' \subseteq Held(f)
    <3> SUFFICES ASSUME NEW s \in Held(f)' PROVE s \in Held(f)
      BY Zenon
    <3>1. s \in Slot /\ pc'[<<f, s>>] \in {"lookup", "check", "sleep", "inflight", "index"}
      BY Zenon DEF Held
    <3>2. <<f, s>> \in Goroutine /\ <<f, s>>[1] = f
      BY <3>1 DEF Goroutine
    <3>3. pc[<<f, s>>] \in {"lookup", "check", "sleep", "inflight", "index"}
      BY <1>1, <2>1, <3>1, <3>2, Zenon
    <3>4. QED
      BY <3>1, <3>3, Zenon DEF Held
  <2>3. QED
    BY <2>2, KeptHeld, Zenon
<1>4. QED
  BY <1>2, <1>3, Zenon

(* What TypeOK says beyond PaceInv and FetchInv.                           *)
BoundsInv ==
  /\ \A g \in Goroutine : sleep[g] <= LongestBackoff
  /\ \A f \in Fetcher : Cardinality(Held(f)) <= SlotWorkers
  /\ cache \subseteq Slot \ Missed

(* Every step of a goroutine keeps the bounds.                             *)
LEMMA StepBounds ==
  ASSUME PaceInv, FetchInv, BoundsInv, NEW g \in Goroutine, Step(g)
  PROVE  BoundsInv'
<1> USE DEF http, el
<1>1. \A f \in Fetcher : Cardinality(Held(f)') <= SlotWorkers
  BY StepHeld, Zenon DEF BoundsInv
<1>2. \A h \in Goroutine : sleep'[h] <= LongestBackoff
  <2>1. sleep' = sleep \/ \E d \in {0, left} : sleep' = [sleep EXCEPT ![g] = d]
    BY Zenon DEF Step, Acquire, CheckBackoff, Wake, Interrupted, Answer, TooManyRequests, RequestError,
           LookUp, Index, IndexFails
  <2>2. 0 <= LongestBackoff /\ left <= LongestBackoff
    BY BeaconAssumption DEF PaceInv, Capped, LongestBackoff
  <2>3. QED
    BY <2>1, <2>2, Zenon DEF PaceInv, BoundsInv
<1>3. cache' \subseteq Slot \ Missed
  <2>1. CASE Index(g)
    <3>1. pc[g] = "index" /\ cache' = cache \cup {g[2]}
      BY <2>1, Zenon DEF Index
    <3>2. g[2] \in Slot \ Missed
      BY <3>1, GoroutineFacts, Zenon DEF FetchInv, FetchTypes, SlotInv
    <3>3. QED
      BY <3>1, <3>2 DEF BoundsInv
  <2>2. CASE ~Index(g)
    BY <2>2, Zenon DEF Step, Acquire, CheckBackoff, Wake, Interrupted, Answer, TooManyRequests,
                RequestError, LookUp, IndexFails, BoundsInv
  <2>3. QED
    BY <2>1, <2>2, Zenon
<1>4. QED
  BY <1>1, <1>2, <1>3, Zenon DEF BoundsInv, LongestBackoff

(* So does everybody else.                                                 *)
LEMMA NextBounds ==
  ASSUME PaceInv, FetchInv, BoundsInv, [Next]_vars
  PROVE  BoundsInv'
<1> USE DEF http, el
<1>1. CASE (\E f \in Fetcher : Call(f) \/ Wait(f) \/ Interrupt(f)) \/ Tick \/ UNCHANGED vars
  <2>1. cache' = cache
    BY <1>1, Zenon DEF Call, Wait, Interrupt, Tick, vars
  <2>2. \A g \in Goroutine : sleep'[g] <= LongestBackoff
    <3>1. CASE Tick
      <4>1. \A g \in Goroutine : sleep'[g] = IF sleep[g] > 0 THEN sleep[g] - 1 ELSE 0
        BY <3>1, Zenon DEF Tick
      <4>2. QED
        BY <4>1, BeaconAssumption DEF PaceInv, BoundsInv, LongestBackoff
    <3>2. CASE ~Tick
      BY <1>1, <3>2, Zenon DEF Call, Wait, Interrupt, vars, BoundsInv
    <3>3. QED
      BY <3>1, <3>2, Zenon
  <2>3. \A g \in Goroutine : pc'[g] \in {pc[g], "queued"}
    BY <1>1 DEF Call, Wait, Interrupt, Tick, vars, PaceInv
  <2>4. ASSUME NEW f \in Fetcher PROVE Held(f)' \subseteq Held(f)
    <3> SUFFICES ASSUME NEW s \in Held(f)' PROVE s \in Held(f)
      BY Zenon
    <3>1. s \in Slot /\ <<f, s>> \in Goroutine
      BY DEF Held, Goroutine
    <3>2. QED
      BY <2>3, <3>1 DEF Held
  <2>5. \A f \in Fetcher : Cardinality(Held(f)') <= SlotWorkers
    BY <2>4, KeptHeld, Zenon DEF BoundsInv
  <2>6. QED
    BY <2>1, <2>2, <2>5, Zenon DEF BoundsInv, LongestBackoff
<1>2. QED
  BY <1>1, StepBounds, Zenon DEF Next

(* However many callers there are, no more than SlotWorkers goroutines of  *)
(* a call are at work at once, none waits longer than the longest          *)
(* back-off, no slot has more blobs than its block, and no slot without a  *)
(* block gets into the cache.                                              *)
THEOREM BeaconTypeOK == Spec => []TypeOK
<1>1. Init => BoundsInv
  <2> SUFFICES ASSUME Init PROVE BoundsInv
    OBVIOUS
  <2>1. \A f \in Fetcher : Held(f) = {}
    <3> SUFFICES ASSUME NEW f \in Fetcher, NEW s \in Slot PROVE s \notin Held(f)
      BY Zenon DEF Held
    <3>1. <<f, s>> \in Goroutine
      BY Zenon DEF Goroutine
    <3>2. QED
      BY <3>1 DEF Init, Held
  <2>2. \A f \in Fetcher : Cardinality(Held(f)) <= SlotWorkers
    BY <2>1, FS_EmptySet, BeaconAssumption
  <2>3. 0 <= LongestBackoff
    BY BeaconAssumption DEF LongestBackoff
  <2>4. QED
    BY <2>2, <2>3 DEF Init, BoundsInv
<1>2. PaceInv /\ FetchInv /\ BoundsInv /\ [Next]_vars => BoundsInv'
  BY NextBounds
<1>3. PaceInv /\ FetchInv /\ BoundsInv => TypeOK
  <2> SUFFICES ASSUME PaceInv, FetchInv, BoundsInv PROVE TypeOK
    OBVIOUS
  <2>1. LongestBackoff \in Nat
    BY BeaconAssumption DEF LongestBackoff
  <2>2. sleep \in [Goroutine -> 0 .. LongestBackoff]
    BY <2>1 DEF PaceInv, BoundsInv
  <2>3. \A g \in Goroutine : Len(slotBlobs[g]) <= Sidecars[g[2]]
    BY Zenon DEF FetchInv, SlotInv
  <2>4. QED
    BY <2>2, <2>3, Zenon DEF PaceInv, FetchInv, FetchTypes, BoundsInv, TypeOK, States
<1>4. QED
  BY <1>1, <1>2, <1>3, BeaconPace, BeaconFetch, PTL DEF Spec

=============================================================================
