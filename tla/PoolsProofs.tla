------------------------------ MODULE PoolsProofs ------------------------------
(***************************************************************************)
(* What the worker pools guarantee for any number of workers, inputs of    *)
(* any length, every order in which jobs end, and interrupts at any time.  *)
(***************************************************************************)
EXTENDS Pools, DagProofs

(* What the work of a job comes to if nobody interrupts it: tier 1 takes a *)
(* failed query for a sound epoch, block/stat a failed request for an      *)
(* absent block.                                                           *)
Verdict(j) ==
  CASE kind = "tier1" /\ outcome[j] = "err" -> "ok"
    [] kind = "stat" /\ outcome[j] = "err" -> "bad"
    [] OTHER -> outcome[j]

Outs == {"ok", "err", "bad"}

(* What may be reported of job j. An interrupt can only make it worse.     *)
Right(j, o) ==
  /\ o \in Outs
  /\ ~cancelled => o = Verdict(j)
  /\ kind \in {"pin", "stat"} /\ outcome[j] # "ok" => o # "ok"
  /\ kind \in {"blobs", "upload"} => o # "bad"

Types ==
  /\ kind \in Kinds
  /\ input \in Inputs[kind]
  /\ outcome \in [Job -> Outs]
  /\ kind \in {"blobs", "upload"} => \A j \in Job : outcome[j] # "bad"
  /\ main \in {"feed", "send", "wait", "returned", "failed"}
  /\ fed \in 0 .. Len(input)
  /\ jobs \in Seq(Job)
  /\ busy \in [Worker -> 0 .. Len(input)]
  /\ results \in Seq([job : Job, out : Outs])
  /\ tally \in Seq(Job)
  /\ cancelled \in BOOLEAN

(* Results under way, and those in the slice of the caller, are those of   *)
(* their jobs.                                                             *)
Sound ==
  /\ \A i \in DOMAIN results : Right(results[i].job, results[i].out)
  /\ DOMAIN result = Job
  /\ \A j \in Job :
       \/ result[j] = None
       \/ \E o \in Outs : result[j] = [job |-> j, out |-> o] /\ Right(j, o)

(* The jobs that are counted are those that have a result.                 *)
Counted == \A j \in Job : result[j] # None <=> \E k \in DOMAIN tally : tally[k] = j

(* A job that was fed is on a channel, at a worker, or counted, unless the *)
(* epoch has failed.                                                       *)
Waiting(j) == \E i \in DOMAIN jobs : jobs[i] = j
AtWork(j) == \E w \in Worker : busy[w] = j
Handed(j) == \E i \in DOMAIN results : results[i].job = j
Accounted ==
  \A j \in 1 .. fed :
    \/ Waiting(j) \/ AtWork(j) \/ Handed(j) \/ result[j] # None
    \/ kind = "blobs" /\ main = "failed"

(* The goroutine that returned has seen all jobs fed and all workers end.  *)
Quiet == jobs = <<>> /\ Idle = Worker /\ results = <<>>
Phase ==
  /\ main \in {"wait", "returned", "failed"} => fed = Len(input) \/ (kind = "tier1" /\ cancelled)
  /\ main = "returned" => Quiet
  /\ main = "failed" => kind = "blobs" \/ (kind = "upload" /\ Quiet)
  /\ kind = "upload" /\ main \in {"returned", "failed"} =>
       (main = "failed" <=> \E j \in Job : result[j].out = "err")

PoolInv == Types /\ Sound /\ Counted /\ Accounted /\ Phase

-----------------------------------------------------------------------------
(* The pool                                                                *)

(* Jobs are the places of the input.                                       *)
LEMMA JobFacts ==
  ASSUME kind \in Kinds, input \in Inputs[kind]
  PROVE  Len(input) \in Nat /\ Job = 1 .. Len(input)
<1>1. \E T : input \in Seq(T)
  BY PoolsAssumption, Zenon DEF Kinds
<1>2. QED
  BY <1>1 DEF Job

(* What a worker reports of its job is right.                              *)
LEMMA OutcomeRight ==
  ASSUME Types, NEW j \in Job
  PROVE  Right(j, Outcome(j))
<1>1. outcome[j] \in Outs /\ (kind \in {"blobs", "upload"} => outcome[j] # "bad")
  BY Zenon DEF Types
<1>2. QED
  BY <1>1, Zenon DEF Right, Outcome, Verdict, Outs

(* Steps that touch neither jobs nor results.                              *)
LEMMA Aside ==
  ASSUME PoolInv,
         UNCHANGED <<kind, input, outcome, fed, jobs, busy, results, result, tally>>,
         main' \in {"feed", "send", "wait", "returned", "failed"},
         cancelled' \in BOOLEAN, cancelled => cancelled',
         main = "failed" => main' = "failed"
  PROVE  Types' /\ Sound' /\ Counted' /\ Accounted'
<1>1. Types'
  BY Zenon DEF PoolInv, Types, Job
<1>2. Sound'
  <2>1. ASSUME NEW i \in DOMAIN results' PROVE Right(results[i].job, results[i].out)'
    <3>1. Right(results[i].job, results[i].out)
      BY Zenon DEF PoolInv, Sound
    <3>2. QED
      BY <3>1, Zenon DEF Right, Verdict
  <2>2. ASSUME NEW j \in Job', result'[j] # None
        PROVE  \E o \in Outs : result'[j] = [job |-> j, out |-> o] /\ Right(j, o)'
    <3>1. PICK o \in Outs : result[j] = [job |-> j, out |-> o] /\ Right(j, o)
      BY <2>2, Zenon DEF PoolInv, Sound, Job
    <3>2. Right(j, o)'
      BY <3>1, Zenon DEF Right, Verdict
    <3>3. QED
      BY <3>1, <3>2, Zenon
  <2>3. DOMAIN result' = Job'
    BY Zenon DEF PoolInv, Sound, Job
  <2>4. QED
    BY <2>1, <2>2, <2>3, Zenon DEF Sound, None
<1>3. Counted'
  BY DEF PoolInv, Counted, Job, None
<1>4. Accounted'
  BY DEF PoolInv, Accounted, Waiting, AtWork, Handed, None
<1>5. QED
  BY <1>1, <1>2, <1>3, <1>4, Zenon

(* Looking at the context, closing the channel, returning, interrupts.     *)
LEMMA AsideInv ==
  ASSUME PoolInv, CheckContext \/ CloseJobs \/ Return \/ Cancel
  PROVE  PoolInv'
<1>1. UNCHANGED <<kind, input, outcome, fed, jobs, busy, results, result, tally>>
  BY Zenon DEF CheckContext, CloseJobs, Return, Cancel
<1>2. /\ main' \in {"feed", "send", "wait", "returned", "failed"}
      /\ cancelled' \in BOOLEAN /\ (cancelled => cancelled') /\ main # "failed"
  BY Zenon DEF CheckContext, CloseJobs, Return, Cancel, PoolInv, Types
<1>3. Types' /\ Sound' /\ Counted' /\ Accounted'
  BY <1>1, <1>2, Aside, Zenon
<1>4. Quiet' <=> Quiet
  BY <1>1 DEF Quiet, Idle
<1>5. (\E j \in Job : result[j].out = "err")' <=> \E j \in Job : result[j].out = "err"
  BY <1>1 DEF Job
<1>6. Phase'
  <2>1. CASE CheckContext \/ CloseJobs
    BY <1>1, <2>1 DEF CheckContext, CloseJobs, Phase
  <2>2. CASE Cancel
    BY <1>1, <1>4, <1>5, <2>2, Zenon DEF Cancel, PoolInv, Phase
  <2>3. CASE Return
    <3>1. Quiet /\ main = "wait" /\ UNCHANGED cancelled
      BY <2>3, Zenon DEF Return, Quiet
    <3>2. main' = IF kind = "upload" /\ \E j \in Job : result[j].out = "err"
                  THEN "failed" ELSE "returned"
      BY <2>3, Zenon DEF Return
    <3>3. QED
      BY <1>1, <1>4, <1>5, <3>1, <3>2, Zenon DEF PoolInv, Phase
  <2>4. QED
    BY <2>1, <2>2, <2>3, Zenon
<1>7. QED
  BY <1>3, <1>6 DEF PoolInv

(* A job that is fed waits on the channel.                                 *)
LEMMA FeedInv ==
  ASSUME PoolInv, Feed
  PROVE  PoolInv'
<1>1. /\ UNCHANGED <<kind, input, outcome, busy, results, result, tally, cancelled>>
      /\ fed < Len(input) /\ fed' = fed + 1 /\ jobs' = Append(jobs, fed + 1)
      /\ main' = "feed" /\ main \in {"feed", "send"}
  BY DEF Feed, Feeding
<1>2. Len(input) \in Nat /\ Job = 1 .. Len(input)
  BY JobFacts, Zenon DEF PoolInv, Types
<1>3. fed \in Nat /\ fed + 1 \in Job /\ jobs \in Seq(Job)
  BY <1>1, <1>2 DEF PoolInv, Types
<1>4. Types'
  <2>1. jobs' \in Seq(Job) /\ Job' = Job
    BY <1>1, <1>3 DEF Job
  <2>2. fed' \in 0 .. Len(input')
    BY <1>1, <1>2, <1>3
  <2>3. QED
    BY <1>1, <2>1, <2>2, Zenon DEF PoolInv, Types
<1>5. Sound'
  BY <1>1 DEF PoolInv, Sound, Right, Verdict, Job, None
<1>6. Counted'
  BY <1>1 DEF PoolInv, Counted, Job, None
<1>7. Accounted'
  <2> SUFFICES ASSUME NEW j \in 1 .. fed'
               PROVE  Waiting(j)' \/ AtWork(j)' \/ Handed(j)' \/ result'[j] # None
    BY Zenon DEF Accounted, None
  <2>1. CASE j = fed + 1
    <3>1. Len(jobs) + 1 \in DOMAIN jobs' /\ jobs'[Len(jobs) + 1] = fed + 1
      BY <1>1, <1>3
    <3>2. QED
      BY <2>1, <3>1, Zenon DEF Waiting
  <2>2. CASE j \in 1 .. fed
    <3>1. Waiting(j) \/ AtWork(j) \/ Handed(j) \/ result[j] # None
      BY <1>1, <2>2, Zenon DEF PoolInv, Accounted
    <3>2. Waiting(j) => Waiting(j)'
      <4>1. \A i \in DOMAIN jobs : i \in DOMAIN jobs' /\ jobs'[i] = jobs[i]
        BY <1>1, <1>3
      <4>2. QED
        BY <4>1 DEF Waiting
    <3>3. QED
      BY <1>1, <3>1, <3>2, Zenon DEF AtWork, Handed
  <2>3. QED
    BY <1>1, <1>3, <2>1, <2>2
<1>8. Phase'
  BY <1>1 DEF Phase
<1>9. QED
  BY <1>4, <1>5, <1>6, <1>7, <1>8 DEF PoolInv

(* A job that is taken is at the worker.                                   *)
LEMMA TakeInv ==
  ASSUME PoolInv, NEW w \in Worker, Take(w)
  PROVE  PoolInv'
<1>1. /\ UNCHANGED <<kind, input, outcome, main, fed, results, result, tally, cancelled>>
      /\ busy[w] = 0 /\ jobs # <<>>
      /\ busy' = [busy EXCEPT ![w] = Head(jobs)] /\ jobs' = Tail(jobs)
  BY DEF Take
<1>2. Len(input) \in Nat /\ Job = 1 .. Len(input)
  BY JobFacts DEF PoolInv, Types
<1>3. jobs \in Seq(Job) /\ Head(jobs) \in Job /\ Tail(jobs) \in Seq(Job)
  BY <1>1 DEF PoolInv, Types
<1>4. busy \in [Worker -> 0 .. Len(input)]
  BY Zenon DEF PoolInv, Types
<1>5. Types'
  <2>1. jobs' \in Seq(Job) /\ Job' = Job
    BY <1>1, <1>3, Zenon DEF Job
  <2>2. busy' \in [Worker -> 0 .. Len(input')]
    <3>1. Head(jobs) \in 0 .. Len(input)
      BY <1>2, <1>3
    <3>2. QED
      BY <1>1, <1>4, <3>1, Zenon
  <2>3. QED
    BY <1>1, <2>1, <2>2, Zenon DEF PoolInv, Types
<1>6. Sound'
  BY <1>1 DEF PoolInv, Sound, Right, Verdict, Job, None
<1>7. Counted'
  BY <1>1, Zenon DEF PoolInv, Counted, Job, None
<1>8. Accounted'
  <2> SUFFICES ASSUME NEW j \in 1 .. fed, Waiting(j) \/ AtWork(j) PROVE Waiting(j)' \/ AtWork(j)'
    BY <1>1, Zenon DEF PoolInv, Accounted, Handed, None
  <2>1. CASE AtWork(j)
    <3>1. PICK v \in Worker : busy[v] = j
      BY <2>1, Zenon DEF AtWork
    <3>2. v # w
      BY <1>1, <3>1
    <3>3. busy'[v] = j
      BY <1>1, <1>4, <3>1, <3>2, Zenon
    <3>4. QED
      BY <3>3, Zenon DEF AtWork
  <2>2. CASE Waiting(j)
    <3>1. PICK i \in DOMAIN jobs : jobs[i] = j
      BY <2>2, Zenon DEF Waiting
    <3>2. CASE i = 1
      <4>1. busy'[w] = j
        BY <1>1, <1>3, <1>4, <3>1, <3>2
      <4>2. QED
        BY <4>1, Zenon DEF AtWork
    <3>3. CASE i # 1
      <4>1. i - 1 \in DOMAIN jobs' /\ jobs'[i - 1] = j
        BY <1>1, <1>3, <3>1, <3>3
      <4>2. QED
        BY <4>1, Zenon DEF Waiting
    <3>4. QED
      BY <3>2, <3>3, Zenon
  <2>3. QED
    BY <2>1, <2>2, Zenon
<1>9. Phase'
  <2>1. ~Quiet
    BY <1>1 DEF Quiet
  <2>2. QED
    BY <1>1, <2>1, Zenon DEF PoolInv, Phase
<1>10. QED
  BY <1>5, <1>6, <1>7, <1>8, <1>9 DEF PoolInv

(* A result that is entered is right, and its job is counted.              *)
LEMMA RecordInv ==
  ASSUME PoolInv, NEW j \in Job, NEW o \in Outs, Record(j, o), Right(j, o)',
         UNCHANGED <<kind, input, outcome>>, cancelled => cancelled',
         \A i \in DOMAIN results' : \E k \in DOMAIN results : results'[i] = results[k]
  PROVE  /\ tally' \in Seq(Job)
         /\ Sound' /\ Counted'
         /\ result'[j] # None
         /\ \A i \in Job : result[i] # None => result'[i] # None
<1>1. /\ result' = [result EXCEPT ![j] = [job |-> j, out |-> o]]
      /\ tally' = Append(tally, j) /\ tally \in Seq(Job) /\ DOMAIN result = Job /\ Job' = Job
  BY Zenon DEF Record, PoolInv, Types, Sound, Job
<1>2. result'[j] = [job |-> j, out |-> o] /\ DOMAIN result' = Job
  BY <1>1, Zenon
<1>3. \A i \in Job : i # j => result'[i] = result[i]
  BY <1>1, Zenon
<1>4. [job |-> j, out |-> o] # None
  BY DEF None, Outs
<1>5. Sound'
  <2>1. ASSUME NEW i \in DOMAIN results' PROVE Right(results[i].job, results[i].out)'
    <3>1. PICK k \in DOMAIN results : results'[i] = results[k]
      OBVIOUS
    <3>2. Right(results[k].job, results[k].out)
      BY Zenon DEF PoolInv, Sound
    <3>3. QED
      BY <3>1, <3>2 DEF Right, Verdict
  <2>2. ASSUME NEW i \in Job', result'[i] # None
        PROVE  \E q \in Outs : result'[i] = [job |-> i, out |-> q] /\ Right(i, q)'
    <3>1. CASE i = j
      BY <1>2, <3>1, Zenon
    <3>2. CASE i # j
      <4>1. i \in Job /\ result[i] # None
        BY <1>1, <1>3, <2>2, <3>2, Zenon DEF None
      <4>2. PICK q \in Outs : result[i] = [job |-> i, out |-> q] /\ Right(i, q)
        BY <4>1, Zenon DEF PoolInv, Sound
      <4>3. Right(i, q)'
        BY <4>2, Zenon DEF Right, Verdict
      <4>4. QED
        BY <1>3, <3>2, <4>1, <4>2, <4>3, Zenon
    <3>3. QED
      BY <3>1, <3>2, Zenon
  <2>3. QED
    BY <1>1, <1>2, <2>1, <2>2, Zenon DEF Sound, None
<1>6. Counted'
  <2> SUFFICES ASSUME NEW i \in Job
               PROVE  result'[i] # None <=> \E k \in DOMAIN tally' : tally'[k] = i
    BY <1>1, Zenon DEF Counted, None
  <2>1. result[i] # None <=> \E k \in DOMAIN tally : tally[k] = i
    BY Zenon DEF PoolInv, Counted
  <2>2. (\E k \in DOMAIN tally' : tally'[k] = i) <=> (\E k \in DOMAIN tally : tally[k] = i) \/ i = j
    BY <1>1
  <2>3. QED
    BY <1>2, <1>3, <1>4, <2>1, <2>2, Zenon
<1>7. tally' \in Seq(Job)
  BY <1>1
<1>8. QED
  BY <1>2, <1>3, <1>4, <1>5, <1>6, <1>7, Zenon

(* A worker that is done hands its result over or enters it.               *)
LEMMA FinishInv ==
  ASSUME PoolInv, NEW w \in Worker, Finish(w)
  PROVE  PoolInv'
<1>1. Len(input) \in Nat /\ Job = 1 .. Len(input)
  BY JobFacts, Zenon DEF PoolInv, Types
<1>2. busy[w] \in Job
  BY <1>1 DEF PoolInv, Types, Finish
<1>3. PICK j \in Job : j = busy[w]
  BY <1>2
<1>4. Right(j, Outcome(j))
  BY OutcomeRight, Zenon DEF PoolInv
<1>5. PICK o \in Outs : o = Outcome(j)
  BY <1>4, Zenon DEF Right
<1>6. /\ j # 0 /\ busy' = [busy EXCEPT ![w] = 0]
      /\ UNCHANGED <<kind, input, outcome, main, fed, jobs>>
      /\ cancelled' = (cancelled \/ (kind = "upload" /\ o = "err"))
      /\ \/ /\ results' = Append(results, [job |-> j, out |-> o])
            /\ UNCHANGED <<result, tally>>
         \/ /\ Record(j, o)
            /\ UNCHANGED results
  BY <1>3, <1>5, Zenon DEF Finish
<1>7. Right(j, o)
  BY <1>4, <1>5, Zenon
<1>8. cancelled' \in BOOLEAN /\ (cancelled => cancelled')
  BY <1>6, Zenon DEF PoolInv, Types
<1>9. busy' \in [Worker -> 0 .. Len(input')]
  BY <1>1, <1>6 DEF PoolInv, Types
<1>10. ASSUME NEW i \in 1 .. fed, Waiting(i) \/ AtWork(i), i # j PROVE Waiting(i)' \/ AtWork(i)'
  <2>1. Waiting(i) => Waiting(i)'
    BY <1>6, Zenon DEF Waiting
  <2>2. ASSUME NEW v \in Worker, busy[v] = i PROVE busy'[v] = i
    <3>1. v # w
      BY <1>3, <1>10, <2>2
    <3>2. QED
      BY <1>6, <2>2, <3>1, Zenon DEF PoolInv, Types
  <2>3. QED
    BY <1>10, <2>1, <2>2, Zenon DEF AtWork
<1>11. ~Quiet
  BY <1>3, <1>6, Zenon DEF Quiet, Idle
<1>12. Phase'
  BY <1>6, <1>8, <1>11, Zenon DEF PoolInv, Phase
<1>13. CASE /\ results' = Append(results, [job |-> j, out |-> o])
            /\ UNCHANGED <<result, tally>>
  <2>1. PICK r \in [job : Job, out : Outs] : r = [job |-> j, out |-> o]
    BY Zenon
  <2>2. results \in Seq([job : Job, out : Outs])
    BY Zenon DEF PoolInv, Types
  <2>3. results' = Append(results, r)
    BY <1>13, <2>1
  <2>4. results' \in Seq([job : Job, out : Outs]) /\ Job' = Job
    BY <1>6, <2>1, <2>2, <2>3 DEF Job
  <2>5. /\ DOMAIN results' = 1 .. Len(results) + 1 /\ Len(results) \in Nat
        /\ results'[Len(results) + 1] = r
        /\ \A i \in 1 .. Len(results) : results'[i] = results[i] /\ i \in DOMAIN results
    BY <2>1, <2>2, <2>3
  <2>6. Types'
    BY <1>6, <1>8, <1>9, <1>13, <2>4, Zenon DEF PoolInv, Types
  <2>7. Sound'
    <3>1. ASSUME NEW i \in DOMAIN results' PROVE Right(results[i].job, results[i].out)'
      <4>1. CASE i \in 1 .. Len(results)
        <5>1. Right(results[i].job, results[i].out)
          BY <2>5, <4>1, Zenon DEF PoolInv, Sound
        <5>2. results'[i] = results[i]
          BY <2>5, <4>1, Zenon
        <5>3. QED
          BY <1>6, <1>8, <5>1, <5>2, Zenon DEF Right, Verdict
      <4>2. CASE i = Len(results) + 1
        <5>1. results'[i].job = j /\ results'[i].out = o
          BY <2>1, <2>5, <4>2
        <5>2. QED
          BY <1>6, <1>7, <1>8, <5>1, Zenon DEF Right, Verdict
      <4>3. QED
        BY <2>5, <4>1, <4>2
    <3>2. ASSUME NEW i \in Job', result'[i] # None
          PROVE  \E q \in Outs : result'[i] = [job |-> i, out |-> q] /\ Right(i, q)'
      <4>1. PICK q \in Outs : result[i] = [job |-> i, out |-> q] /\ Right(i, q)
        BY <1>13, <2>4, <3>2, Zenon DEF PoolInv, Sound
      <4>2. Right(i, q)'
        BY <1>6, <1>8, <4>1, Zenon DEF Right, Verdict
      <4>3. QED
        BY <1>13, <4>1, <4>2, Zenon
    <3>3. DOMAIN result' = Job'
      BY <1>13, <2>4, Zenon DEF PoolInv, Sound
    <3>4. QED
      BY <3>1, <3>2, <3>3, Zenon DEF Sound, None
  <2>8. Counted'
    BY <1>13, <2>4, Zenon DEF PoolInv, Counted, None
  <2>9. Accounted'
    <3>1. Handed(j)'
      BY <2>1, <2>5 DEF Handed
    <3>2. \A i \in 1 .. fed : Handed(i) => Handed(i)'
      BY <2>2, <2>5 DEF Handed
    <3>3. QED
      BY <1>6, <1>10, <1>13, <3>1, <3>2, Zenon DEF PoolInv, Accounted, None
  <2>10. QED
    BY <1>12, <2>6, <2>7, <2>8, <2>9 DEF PoolInv
<1>14. CASE Record(j, o) /\ UNCHANGED results
  <2>1. Right(j, o)'
    BY <1>6, <1>7, <1>8, Zenon DEF Right, Verdict
  <2>2. /\ tally' \in Seq(Job) /\ Sound' /\ Counted' /\ result'[j] # None
        /\ \A i \in Job : result[i] # None => result'[i] # None
    BY <1>6, <1>8, <1>14, <2>1, RecordInv, Zenon
  <2>3. Types'
    BY <1>6, <1>8, <1>9, <1>14, <2>2, Zenon DEF PoolInv, Types, Job
  <2>4. Accounted'
    <3>1. \A i \in 1 .. fed : i \in Job
      BY <1>1 DEF PoolInv, Types
    <3>2. \A i \in 1 .. fed : Handed(i) => Handed(i)'
      BY <1>14, Zenon DEF Handed
    <3>3. QED
      BY <1>6, <1>10, <2>2, <3>1, <3>2, Zenon DEF PoolInv, Accounted, None
  <2>5. QED
    BY <1>12, <2>2, <2>3, <2>4, Zenon DEF PoolInv
<1>15. QED
  BY <1>6, <1>13, <1>14, Zenon

(* What is first on a channel, and what is left of it.                     *)
LEMMA FirstOf ==
  ASSUME NEW T, NEW s \in Seq(T), s # <<>>
  PROVE  1 \in DOMAIN s /\ s[1] \in T /\ Head(s) = s[1] /\ Tail(s) \in Seq(T)
OBVIOUS

(* The collector enters a result or gives the epoch up.                    *)
LEMMA CollectInv ==
  ASSUME PoolInv, Collect
  PROVE  PoolInv'
<1>1. results \in Seq([job : Job, out : Outs]) /\ results # <<>>
  BY Zenon DEF PoolInv, Types, Collect
<1>2. /\ 1 \in DOMAIN results /\ results[1] \in [job : Job, out : Outs]
      /\ Head(results) = results[1] /\ Tail(results) \in Seq([job : Job, out : Outs])
  BY <1>1, FirstOf, Zenon
<1>3. PICK r \in [job : Job, out : Outs] : r = results[1]
  BY <1>2
<1>4. /\ main = "wait" /\ results # <<>> /\ results' = Tail(results)
      /\ UNCHANGED <<kind, input, outcome, fed, jobs, busy, cancelled>>
      /\ \/ /\ kind = "blobs" /\ main' = "failed"
            /\ UNCHANGED <<result, tally>>
         \/ /\ Record(r.job, r.out)
            /\ main' = main
  BY <1>2, <1>3, Zenon DEF Collect
<1>5. /\ \A i \in DOMAIN results' : i + 1 \in DOMAIN results /\ results'[i] = results[i + 1]
      /\ \A k \in DOMAIN results : k = 1 \/ (k - 1 \in DOMAIN results' /\ results'[k - 1] = results[k])
  <2>1. Len(results) \in Nat \ {0} /\ Len(results') = Len(results) - 1
    BY <1>1, <1>4
  <2>2. DOMAIN results = 1 .. Len(results) /\ DOMAIN results' = 1 .. Len(results')
    BY <1>1, <1>2, <1>4
  <2>3. \A i \in 1 .. Len(results) - 1 : results'[i] = results[i + 1]
    BY <1>1, <1>4
  <2>4. QED
    BY <2>1, <2>2, <2>3
<1>6. Right(r.job, r.out)
  BY <1>2, <1>3, Zenon DEF PoolInv, Sound
<1>7. Len(input) \in Nat /\ Job = 1 .. Len(input) /\ Job' = Job
  BY <1>4, JobFacts, Zenon DEF PoolInv, Types, Job
<1>8. main' \in {"wait", "failed"} /\ (main' = "failed" => kind = "blobs")
  BY <1>4, Zenon
<1>9. Phase'
  BY <1>4, <1>8, Zenon DEF PoolInv, Phase
<1>10. CASE kind = "blobs" /\ main' = "failed" /\ UNCHANGED <<result, tally>>
  <2>1. Types'
    BY <1>2, <1>4, <1>7, <1>10, Zenon DEF PoolInv, Types
  <2>2. Sound'
    <3>1. ASSUME NEW i \in DOMAIN results' PROVE Right(results[i].job, results[i].out)'
      <4>1. Right(results[i + 1].job, results[i + 1].out) /\ results'[i] = results[i + 1]
        BY <1>5, Zenon DEF PoolInv, Sound
      <4>2. QED
        BY <1>4, <4>1, Zenon DEF Right, Verdict
    <3>2. ASSUME NEW i \in Job', result'[i] # None
          PROVE  \E q \in Outs : result'[i] = [job |-> i, out |-> q] /\ Right(i, q)'
      <4>1. PICK q \in Outs : result[i] = [job |-> i, out |-> q] /\ Right(i, q)
        BY <1>7, <1>10, <3>2, Zenon DEF PoolInv, Sound
      <4>2. QED
        BY <1>4, <1>10, <4>1 DEF Right, Verdict
    <3>3. DOMAIN result' = Job'
      BY <1>7, <1>10, Zenon DEF PoolInv, Sound
    <3>4. QED
      BY <3>1, <3>2, <3>3 DEF Sound, None
  <2>3. Counted'
    BY <1>7, <1>10, Zenon DEF PoolInv, Counted, None
  <2>4. Accounted'
    BY <1>4, <1>10, Zenon DEF Accounted
  <2>5. QED
    BY <1>9, <2>1, <2>2, <2>3, <2>4, Zenon DEF PoolInv
<1>11. CASE Record(r.job, r.out) /\ main' = main
  <2>j. PICK j \in Job, o \in Outs : j = r.job /\ o = r.out
    OBVIOUS
  <2>1. Right(j, o)' /\ Record(j, o)
    BY <1>4, <1>6, <1>11, <2>j, Zenon DEF Right, Verdict
  <2>2. /\ tally' \in Seq(Job) /\ Sound' /\ Counted' /\ result'[j] # None
        /\ \A i \in Job : result[i] # None => result'[i] # None
    <3>1. \A i \in DOMAIN results' : \E k \in DOMAIN results : results'[i] = results[k]
      BY <1>5, Zenon
    <3>2. QED
      BY <1>4, <2>1, <3>1, RecordInv, Zenon
  <2>3. Types'
    BY <1>2, <1>4, <1>7, <1>11, <2>2, Zenon DEF PoolInv, Types
  <2>4. Accounted'
    <3>1. \A i \in 1 .. fed : i \in Job
      BY <1>7 DEF PoolInv, Types
    <3>2. \A i \in 1 .. fed : Handed(i) /\ i # j => Handed(i)'
      BY <1>3, <1>5, <2>j DEF Handed
    <3>3. \A i \in 1 .. fed : (Waiting(i) => Waiting(i)') /\ (AtWork(i) => AtWork(i)')
      BY <1>4 DEF Waiting, AtWork
    <3>4. QED
      BY <1>4, <1>11, <2>2, <3>1, <3>2, <3>3, Zenon DEF PoolInv, Accounted, None
  <2>5. QED
    BY <1>9, <2>2, <2>3, <2>4 DEF PoolInv
<1>12. QED
  BY <1>4, <1>10, <1>11

(* Nothing was fed yet.                                                    *)
LEMMA InitInv == Init => PoolInv
<1> SUFFICES ASSUME Init PROVE PoolInv
  BY Zenon
<1>1. Len(input) \in Nat /\ Job = 1 .. Len(input)
  BY JobFacts, Zenon DEF Init
<1>2. outcome \in [Job -> Outs] /\ (kind \in {"blobs", "upload"} => \A j \in Job : outcome[j] # "bad")
  BY Zenon DEF Init, Outs, Faults, Job
<1>3. Types
  <2>1. /\ fed \in 0 .. Len(input)
        /\ busy \in [Worker -> 0 .. Len(input)]
    BY <1>1 DEF Init
  <2>2. \A T : <<>> \in Seq(T)
    OBVIOUS
  <2>3. QED
    BY <1>2, <2>1, <2>2, Zenon DEF Init, Types
<1>4. Sound
  BY DEF Init, Sound, Job
<1>5. Counted
  BY DEF Init, Counted, Job
<1>6. Accounted
  BY DEF Init, Accounted
<1>7. Phase
  BY Zenon DEF Init, Phase
<1>8. QED
  BY <1>3, <1>4, <1>5, <1>6, <1>7, Zenon DEF PoolInv

(* In every pool each job fed is accounted for, each result is that of its *)
(* job, and who returns leaves nothing under way.                          *)
THEOREM PoolInvariant == Spec => []PoolInv
<1>1. ASSUME PoolInv, [Next]_vars PROVE PoolInv'
  <2>1. CASE UNCHANGED vars
    BY <1>1, <2>1 DEF vars, PoolInv, Types, Sound, Counted, Accounted, Phase, Right, Verdict,
                      Waiting, AtWork, Handed, Quiet, Idle, Job, None
  <2>2. QED
    BY <1>1, <2>1, AsideInv, FeedInv, TakeInv, FinishInv, CollectInv, Zenon DEF Next, Main, Work
<1>2. QED
  BY <1>1, InitInv, PTL DEF Spec

-----------------------------------------------------------------------------
(* What the callers see                                                    *)

(* When a pool has returned, every job has a result that is right.         *)
LEMMA AllCounted ==
  ASSUME PoolInv, ~(kind = "tier1" /\ cancelled),
         main = "returned" \/ (main = "failed" /\ kind = "upload")
  PROVE  /\ Quiet
         /\ \A j \in Job : \E o \in Outs : result[j] = [job |-> j, out |-> o] /\ Right(j, o)
<1>1. Quiet /\ fed = Len(input)
  BY Zenon DEF PoolInv, Phase
<1>2. Len(input) \in Nat /\ Job = 1 .. Len(input)
  BY JobFacts, Zenon DEF PoolInv, Types
<1>3. ASSUME NEW j \in Job PROVE result[j] # None
  <2>1. j \in 1 .. fed /\ j # 0
    BY <1>1, <1>2
  <2>2. ~Waiting(j) /\ ~Handed(j)
    BY <1>1 DEF Quiet, Waiting, Handed
  <2>3. ~AtWork(j)
    BY <1>1, <2>1 DEF Quiet, Idle, AtWork
  <2>4. QED
    BY <2>1, <2>2, <2>3, Zenon DEF PoolInv, Accounted
<1>4. QED
  BY <1>1, <1>3, Zenon DEF PoolInv, Sound

(* The list of the jobs that ended with o has the entries of exactly       *)
(* these jobs.                                                             *)
LEMMA ListedSet ==
  ASSUME PoolInv, NEW o \in Outs
  PROVE  /\ Listed(o) \in Seq({input[j] : j \in Job})
         /\ \A x : x \in ToSet(Listed(o)) <=> \E j \in Job : x = input[j] /\ result[j].out = o
         /\ Listed(o) # <<>> <=> \E j \in Job : result[j].out = o
<1> DEFINE K == {k \in DOMAIN tally : result[tally[k]].out = o}
           at == Ascending(K)
           n == Cardinality(K)
           E == {input[j] : j \in Job}
<1>1. tally \in Seq(Job) /\ Len(tally) \in Nat /\ DOMAIN tally = 1 .. Len(tally)
  BY DEF PoolInv, Types
<1>2. K \in SUBSET Int /\ IsFiniteSet(K)
  <2>1. IsFiniteSet(1 .. Len(tally))
    BY <1>1, FS_Interval
  <2>2. K \subseteq 1 .. Len(tally)
    BY <1>1
  <2>3. QED
    BY <2>1, <2>2, FS_Subset
<1>3. \A k \in K : k \in DOMAIN tally /\ tally[k] \in Job /\ result[tally[k]].out = o
  BY <1>1
<1>4. ASSUME NEW j \in Job, result[j].out = o PROVE \E k \in K : tally[k] = j
  <2>1. result[j] # None
    BY <1>4 DEF None, Outs
  <2>2. PICK k \in DOMAIN tally : tally[k] = j
    BY <2>1 DEF PoolInv, Counted
  <2>3. QED
    BY <1>4, <2>2
<1> HIDE DEF K
<1>5. /\ n \in Nat /\ at \in [1 .. n -> K]
      /\ \A x \in K : \E k \in 1 .. n : at[k] = x
  BY <1>2, AscendingFacts, Zenon
<1>6. Listed(o) = [k \in DOMAIN at |-> input[tally[at[k]]]]
  BY DEF Listed, K
<1> HIDE DEF at, n
<1>7. Listed(o) = [k \in 1 .. n |-> input[tally[at[k]]]]
  BY <1>5, <1>6, Zenon
<1>8. \A k \in 1 .. n : at[k] \in K /\ tally[at[k]] \in Job /\ result[tally[at[k]]].out = o
  BY <1>3, <1>5, Zenon
<1>9. Listed(o) \in [1 .. n -> E]
  BY <1>7, <1>8, Zenon
<1>10. Listed(o) \in Seq(E) /\ DOMAIN Listed(o) = 1 .. n
  <2> HIDE DEF E
  <2>1. QED
    BY <1>5, <1>9
<1>11. ASSUME NEW x PROVE x \in ToSet(Listed(o)) <=> \E j \in Job : x = input[j] /\ result[j].out = o
  <2>1. x \in ToSet(Listed(o)) <=> \E k \in 1 .. n : x = input[tally[at[k]]]
    BY <1>7 DEF ToSet
  <2>2. ASSUME NEW j \in Job, x = input[j], result[j].out = o
        PROVE  \E k \in 1 .. n : x = input[tally[at[k]]]
    <3>1. PICK i \in K : tally[i] = j
      BY <1>4, <2>2, Zenon
    <3>2. PICK k \in 1 .. n : at[k] = i
      BY <1>5, Zenon
    <3>3. QED
      BY <2>2, <3>1, <3>2, Zenon
  <2>3. QED
    BY <1>8, <2>1, <2>2, Zenon
<1>12. Listed(o) # <<>> <=> \E j \in Job : result[j].out = o
  <2>1. Listed(o) # <<>> <=> n # 0
    BY <1>5, <1>7
  <2>2. ASSUME n # 0 PROVE \E j \in Job : result[j].out = o
    <3>1. 1 \in 1 .. n
      BY <1>5, <2>2
    <3>2. QED
      BY <1>8, <3>1, Zenon
  <2>3. ASSUME NEW j \in Job, result[j].out = o PROVE n # 0
    <3>1. PICK i \in K : tally[i] = j
      BY <1>4, <2>3
    <3>2. PICK k \in 1 .. n : at[k] = i
      BY <1>5
    <3>3. QED
      BY <1>5, <3>2
  <2>4. QED
    BY <2>1, <2>2, <2>3, Zenon
<1>13. QED
  BY <1>10, <1>11, <1>12, Zenon

(* The entries of one list after another.                                  *)
LEMMA JoinedSet ==
  ASSUME NEW T, NEW s \in Seq(T), NEW t \in Seq(T)
  PROVE  \A x : x \in ToSet(s \o t) <=> x \in ToSet(s) \/ x \in ToSet(t)
<1> TAKE x
<1>1. /\ Len(s) \in Nat /\ Len(t) \in Nat /\ DOMAIN s = 1 .. Len(s) /\ DOMAIN t = 1 .. Len(t)
      /\ DOMAIN (s \o t) = 1 .. Len(s) + Len(t)
      /\ \A i \in 1 .. Len(s) : (s \o t)[i] = s[i]
  OBVIOUS
<1>2. \A i \in 1 .. Len(t) : Len(s) + i \in DOMAIN (s \o t) /\ (s \o t)[Len(s) + i] = t[i]
  OBVIOUS
<1>3. \A i \in DOMAIN (s \o t) : i \in 1 .. Len(s) \/ \E k \in 1 .. Len(t) : i = Len(s) + k
  <2> TAKE i \in DOMAIN (s \o t)
  <2>1. i \in 1 .. Len(s) \/ (i - Len(s) \in 1 .. Len(t) /\ i = Len(s) + (i - Len(s)))
    BY <1>1
  <2>2. QED
    BY <2>1, Zenon
<1>4. \A i \in 1 .. Len(s) : i \in DOMAIN (s \o t)
  BY <1>1
<1> DEFINE u == s \o t
<1>5. /\ \A i \in DOMAIN s : \E k \in DOMAIN u : u[k] = s[i]
      /\ \A i \in DOMAIN t : \E k \in DOMAIN u : u[k] = t[i]
      /\ \A k \in DOMAIN u : (\E i \in DOMAIN s : u[k] = s[i]) \/ (\E i \in DOMAIN t : u[k] = t[i])
  BY <1>1, <1>2, <1>3, <1>4, Zenon
<1> HIDE DEF u
<1>6. x \in ToSet(u) <=> x \in ToSet(s) \/ x \in ToSet(t)
  BY <1>5 DEF ToSet
<1>7. QED
  BY <1>6 DEF u

(* A list has finitely many entries.                                       *)
LEMMA ListFinite ==
  ASSUME NEW T, NEW s \in Seq(T)
  PROVE  IsFiniteSet(ToSet(s))
<1>1. Len(s) \in Nat /\ DOMAIN s = 1 .. Len(s) /\ s \in [1 .. Len(s) -> T]
  OBVIOUS
<1>2. IsFiniteSet(1 .. Len(s))
  BY <1>1, FS_Interval
<1>3. s \in Surjection(1 .. Len(s), ToSet(s))
  BY <1>1, Zenon DEF ToSet, Surjection
<1>4. QED
  BY <1>2, <1>3, FS_Surjection, Zenon

(* The blobs processEpochBlobs is given are those of an epoch.             *)
LEMMA BlobsOfEpoch ==
  ASSUME PoolInv, kind = "blobs"
  PROVE  Epoch(input)
BY PoolsAssumption, Zenon DEF PoolInv, Types, Epoch, Blob

(* Blob i has the metadata that was made of it.                            *)
LEMMA NodeOfJobs ==
  ASSUME PoolInv, kind = "blobs", main = "returned"
  PROVE  Node = BuildEpochNode(input, [i \in DOMAIN input |-> i])
<1>1. \A j \in Job : \E o \in Outs : result[j] = [job |-> j, out |-> o]
  BY AllCounted, Zenon
<1>2. ASSUME NEW j \in Job PROVE result[j].job = j
  <2>1. PICK o \in Outs : result[j] = [job |-> j, out |-> o]
    BY <1>1, Zenon
  <2>2. QED
    BY <2>1
<1>3. [j \in Job |-> result[j].job] = [i \in DOMAIN input |-> i]
  BY <1>2, Zenon DEF Job
<1>4. QED
  BY <1>3, Zenon DEF Node

(* PutBlockstore returns without an error only if the node has every       *)
(* block, and with no upload under way.                                    *)
THEOREM PoolsUploadSettled == Spec => []UploadSettled
<1>1. PoolInv => UploadSettled
  <2> SUFFICES ASSUME PoolInv, kind = "upload", main \in {"returned", "failed"}
               PROVE  /\ main = "returned" <=> \A j \in Job : result[j] = [job |-> j, out |-> "ok"]
                      /\ Idle = Worker /\ jobs = <<>>
    BY Zenon DEF UploadSettled
  <2>1. /\ Quiet
        /\ \A j \in Job : \E o \in Outs : result[j] = [job |-> j, out |-> o] /\ Right(j, o)
    BY AllCounted, Zenon
  <2>2. \A j \in Job : \E o \in {"ok", "err"} : result[j] = [job |-> j, out |-> o]
    BY <2>1, Zenon DEF Right, Outs
  <2>3. main = "failed" <=> \E j \in Job : result[j].out = "err"
    BY Zenon DEF PoolInv, Phase
  <2>4. ASSUME NEW j \in Job PROVE result[j] = [job |-> j, out |-> "ok"] <=> result[j].out # "err"
    <3>1. PICK o \in {"ok", "err"} : result[j] = [job |-> j, out |-> o]
      BY <2>2
    <3>2. result[j].out = o /\ [job |-> j, out |-> "ok"].out = "ok"
      BY <3>1
    <3>3. QED
      BY <3>1, <3>2
  <2>5. QED
    BY <2>1, <2>3, <2>4, Zenon DEF Quiet
<1>2. QED
  BY <1>1, PoolInvariant, PTL

(* Of the epochs it sets out to pin, pin-existing passes over none that it *)
(* could not pin, and then exits with 1; nor does the summary pass over an *)
(* epoch that is not on the node.                                          *)
THEOREM PoolsNothingHidden == Spec => []NothingHidden
<1>1. PoolInv => NothingHidden
  <2> DEFINE faulty == {input[j] : j \in {i \in Job : outcome[i] # "ok"}}
             named == ToSet(Listed("err") \o Listed("bad"))
  <2> SUFFICES ASSUME PoolInv, kind \in {"pin", "stat"}, main = "returned"
               PROVE  /\ faulty \subseteq named
                      /\ ~cancelled => named = faulty
                      /\ kind = "pin" => (PinExit = 0 <=> named = {})
    BY Zenon DEF NothingHidden
  <2>1. \A j \in Job : \E o \in Outs : result[j] = [job |-> j, out |-> o] /\ Right(j, o)
    BY AllCounted, Zenon
  <2>2. \A j \in Job : result[j].out \in Outs /\ Right(j, result[j].out)
    <3> TAKE j \in Job
    <3>1. PICK o \in Outs : result[j] = [job |-> j, out |-> o] /\ Right(j, o)
      BY <2>1, Zenon
    <3>2. result[j].out = o
      BY <3>1
    <3>3. QED
      BY <3>1, <3>2, Zenon
  <2>3. "err" \in Outs /\ "bad" \in Outs
    BY DEF Outs
  <2>4. /\ Listed("err") \in Seq({input[j] : j \in Job})
        /\ Listed("err") # <<>> <=> \E j \in Job : result[j].out = "err"
    BY <2>3, ListedSet, Zenon
  <2>5. /\ Listed("bad") \in Seq({input[j] : j \in Job})
        /\ Listed("bad") # <<>> <=> \E j \in Job : result[j].out = "bad"
    BY <2>3, ListedSet, Zenon
  <2>6. \A x : x \in named <=> x \in ToSet(Listed("err")) \/ x \in ToSet(Listed("bad"))
    BY <2>4, <2>5, JoinedSet, Zenon
  <2>7. \A x : x \in named <=> \E j \in Job : x = input[j] /\ result[j].out # "ok"
    <3> TAKE x
    <3>1. x \in ToSet(Listed("err")) <=> \E j \in Job : x = input[j] /\ result[j].out = "err"
      BY <2>3, ListedSet, Zenon
    <3>2. x \in ToSet(Listed("bad")) <=> \E j \in Job : x = input[j] /\ result[j].out = "bad"
      BY <2>3, ListedSet, Zenon
    <3>3. \A j \in Job : result[j].out # "ok" <=> result[j].out \in {"err", "bad"}
      BY <2>2, Zenon DEF Outs
    <3>4. QED
      BY <2>6, <3>1, <3>2, <3>3, Zenon
  <2> HIDE DEF named
  <2>8. \A j \in Job : outcome[j] # "ok" => result[j].out # "ok"
    BY <2>2, Zenon DEF Right
  <2>9. faulty \subseteq named
    BY <2>7, <2>8
  <2>10. ASSUME ~cancelled PROVE named = faulty
    <3>1. \A j \in Job : result[j].out # "ok" => outcome[j] # "ok"
      BY <2>2, <2>10, Zenon DEF Right, Verdict
    <3>2. named \subseteq faulty
      BY <2>7, <3>1
    <3>3. QED
      BY <2>9, <3>2
  <2>11. PinExit = 0 <=> named = {}
    <3>1. PinExit = 0 <=> Listed("err") = <<>> /\ Listed("bad") = <<>>
      BY DEF PinExit
    <3>2. named = {} <=> ~ \E j \in Job : result[j].out # "ok"
      BY <2>7, Zenon
    <3>3. \A j \in Job : result[j].out # "ok" <=> result[j].out = "err" \/ result[j].out = "bad"
      BY <2>2, Zenon DEF Outs
    <3>4. QED
      BY <2>4, <2>5, <3>1, <3>2, <3>3, Zenon
  <2>12. QED
    BY <2>9, <2>10, <2>11, Zenon
<1>2. QED
  BY <1>1, PoolInvariant, PTL

(* A health check that was not interrupted and could read every row sends  *)
(* backfill-ipfs to exactly the epochs whose CIDs do not recompute, and    *)
(* exits with 2 if there are any.                                          *)
THEOREM PoolsRemedyExact == Spec => []RemedyExact
<1>1. PoolInv => RemedyExact
  <2> SUFFICES ASSUME PoolInv, kind = "tier1", main = "returned", ~cancelled
               PROVE  /\ Covers(Remedy) = {input[j] : j \in {i \in Job : outcome[i] = "bad"}}
                      /\ \A k \in 1 .. Len(Remedy) - 1 : Remedy[k][2] + 1 < Remedy[k + 1][1]
                      /\ HealthExit = 2 <=> \E j \in Job : outcome[j] = "bad"
    BY Zenon DEF RemedyExact
  <2> DEFINE bad == Listed("bad")
  <2>1. \A j \in Job : \E o \in Outs : result[j] = [job |-> j, out |-> o] /\ Right(j, o)
    BY AllCounted, Zenon
  <2>2. \A j \in Job : result[j].out = "bad" <=> outcome[j] = "bad"
    <3> TAKE j \in Job
    <3>1. PICK o \in Outs : result[j] = [job |-> j, out |-> o] /\ Right(j, o)
      BY <2>1, Zenon
    <3>2. result[j].out = o
      BY <3>1
    <3>3. o = Verdict(j)
      BY <3>1 DEF Right
    <3>4. QED
      BY <3>2, <3>3, Zenon DEF Verdict
  <2>3. /\ bad \in Seq({input[j] : j \in Job})
        /\ \A x : x \in ToSet(bad) <=> \E j \in Job : x = input[j] /\ result[j].out = "bad"
        /\ bad # <<>> <=> \E j \in Job : result[j].out = "bad"
    BY ListedSet, Zenon DEF Outs
  <2>4. Remedy = collapseRanges(bad)
    BY DEF Remedy
  <2>5. HealthExit = 2 <=> bad # <<>>
    BY DEF HealthExit
  <2> HIDE DEF bad
  <2>6. ToSet(bad) \in SUBSET Nat /\ IsFiniteSet(ToSet(bad))
    <3>1. input \in Seq(Nat)
      BY PoolsAssumption, Zenon DEF PoolInv, Types, Kinds
    <3>2. \A j \in Job : input[j] \in Nat
      BY <3>1 DEF Job
    <3>3. ToSet(bad) \in SUBSET Nat
      BY <2>3, <3>2
    <3>4. QED
      BY <2>3, <3>3, ListFinite, Zenon
  <2>7. /\ \A e : e \in Covers(Remedy) <=> e \in ToSet(bad)
        /\ \A k \in 1 .. Len(Remedy) - 1 : Remedy[k][2] + 1 < Remedy[k + 1][1]
    BY <2>4, <2>6, CollapsedRanges, Zenon
  <2>8. Covers(Remedy) = {input[j] : j \in {i \in Job : outcome[i] = "bad"}}
    BY <2>2, <2>3, <2>7
  <2>9. QED
    BY <2>2, <2>3, <2>5, <2>7, <2>8, Zenon
<1>2. QED
  BY <1>1, PoolInvariant, PTL

(* An epoch whose blobs were processed in parallel has an index in which   *)
(* every versioned hash leads to the metadata of exactly its occurrences.  *)
THEOREM PoolsEpochIndexed == Spec => []EpochIndexed
<1>1. PoolInv => EpochIndexed
  <2> SUFFICES ASSUME PoolInv, kind = "blobs", main = "returned",
                      NEW h \in {b.hash : b \in ToSet(input)}
               PROVE  \E m \in Lookup(Node, h) :
                        /\ Lookup(Node, h) = {m}
                        /\ IsInjective(m)
                        /\ ToSet(m) = {i \in Job : input[i].hash = h}
                        /\ \A k, l \in DOMAIN m : k < l => Before(input[m[k]], input[m[l]])
    BY Zenon DEF EpochIndexed
  <2>1. Node = BuildEpochNode(input, [i \in DOMAIN input |-> i])
    BY NodeOfJobs, Zenon
  <2>2. Epoch(input) /\ h \in Hashes(input)
    BY BlobsOfEpoch DEF Hashes
  <2>3. QED
    BY <2>1, <2>2, EpochIndex, Zenon DEF Job
<1>2. QED
  BY <1>1, PoolInvariant, PTL

(* The root CID of an epoch does not depend on the order of its blobs.     *)
THEOREM PoolsOrderIndependent == Spec => []OrderIndependent
<1>1. PoolInv => OrderIndependent
  <2> SUFFICES ASSUME PoolInv, kind = "blobs", main = "returned",
                      NEW p \in [Job -> Job], IsInjective(p)
               PROVE  BuildEpochNode([i \in Job |-> input[p[i]]], [i \in Job |-> result[p[i]].job])
                        = Node
    BY Zenon DEF OrderIndependent
  <2> DEFINE metas == [j \in Job |-> result[j].job]
  <2>1. DOMAIN metas = DOMAIN input /\ \A i \in Job : metas[p[i]] = result[p[i]].job
    BY Zenon DEF Job
  <2>2. Node = BuildEpochNode(input, metas)
    BY Zenon DEF Node
  <2> HIDE DEF metas
  <2>3. [i \in Job |-> result[p[i]].job] = [i \in Job |-> metas[p[i]]]
    BY <2>1, Zenon
  <2>4. Epoch(input)
    BY BlobsOfEpoch
  <2>5. QED
    BY <2>1, <2>2, <2>3, <2>4, NodeOrderIndependent DEF Job
<1>2. QED
  BY <1>1, PoolInvariant, PTL

(* A reader that knows the page size finds every epoch in the page of its  *)
(* number, and the root names the latest one.                              *)
THEOREM PoolsPagesExact == Spec => []PagesExact
<1>1. PagesExact
  <2> SUFFICES ASSUME NEW S \in SUBSET EpochRange, NEW n \in 1 .. MinPageSize + 1
               PROVE  LET root == BuildNetworkRoot(S, n)
                      IN  /\ {e \in EpochRange : Resolves(root, e, n)} = S
                          /\ \A s \in DOMAIN root.pages :
                               root.pages[s] # {} /\ Cardinality(root.pages[s]) <= PageSize(n)
                          /\ S # {} => root.latestEpoch \in S /\ \A e \in S : e <= root.latestEpoch
    BY Zenon DEF PagesExact
  <2> DEFINE root == BuildNetworkRoot(S, n)
  <2>1. EpochRange \subseteq Nat /\ IsFiniteSet(EpochRange)
    BY PoolsAssumption, Zenon
  <2>2. S \in SUBSET Nat /\ IsFiniteSet(S) /\ n \in Nat
    <3>1. IsFiniteSet(S)
      BY <2>1, FS_Subset, Zenon
    <3>2. QED
      BY <2>1, <3>1, DagAssumption
  <2>3. /\ \A e \in Nat : Resolves(root, e, n) <=> e \in S
        /\ \A s \in DOMAIN root.pages :
             root.pages[s] # {} /\ Cardinality(root.pages[s]) <= PageSize(n)
        /\ S # {} => root.latestEpoch \in S /\ \A e \in S : e <= root.latestEpoch
    BY <2>2, NetworkRootPages, Zenon
  <2> HIDE DEF root
  <2>4. {e \in EpochRange : Resolves(root, e, n)} = S
    BY <2>3, PoolsAssumption, Zenon
  <2>5. QED
    BY <2>3, <2>4, Zenon DEF root
<1>2. QED
  BY <1>1, PTL

(* The gaps of the summary are exactly the epochs that are missing between *)
(* the first and the last, and their number is the one it counts.          *)
THEOREM PoolsGapsExact == Spec => []GapsExact
<1>1. GapsExact
  <2> SUFFICES ASSUME NEW S \in SUBSET EpochRange
               PROVE  LET ranges == GetEpochGapRanges(S)
                      IN  /\ Covers(ranges) =
                               {e \in EpochRange \ S : (\E x \in S : x < e) /\ (\E y \in S : e < y)}
                          /\ GapCount(S) = Cardinality(Covers(ranges))
                          /\ \A k \in 1 .. Len(ranges) - 1 : ranges[k][2] + 1 < ranges[k + 1][1]
    BY Zenon DEF GapsExact
  <2> DEFINE ranges == GetEpochGapRanges(S)
  <2>1. S \in SUBSET Nat /\ IsFiniteSet(S)
    BY PoolsAssumption, FS_Subset, Zenon
  <2>2. /\ \A e : e \in Covers(ranges) <=>
             e \in Nat \ S /\ (\E x \in S : x < e) /\ (\E y \in S : e < y)
        /\ GapCount(S) = Cardinality(Covers(ranges))
        /\ \A k \in 1 .. Len(ranges) - 1 : ranges[k][2] + 1 < ranges[k + 1][1]
    BY <2>1, EpochGaps, Zenon
  <2> HIDE DEF ranges
  <2>3. \A e \in Nat : (\E x \in S : x < e) /\ (\E y \in S : e < y) => e \in EpochRange
    <3> TAKE e \in Nat
    <3>1. ASSUME NEW x \in S, NEW y \in S, x < e, e < y PROVE e \in EpochRange
      <4>1. x .. y \subseteq EpochRange /\ x \in Int /\ y \in Int
        BY <2>1, PoolsAssumption
      <4>2. e \in x .. y
        BY <3>1, <4>1
      <4>3. QED
        BY <4>1, <4>2, Zenon
    <3>2. QED
      BY <3>1, Zenon
  <2>4. EpochRange \subseteq Nat
    BY PoolsAssumption
  <2>5. Covers(ranges) = {e \in EpochRange \ S : (\E x \in S : x < e) /\ (\E y \in S : e < y)}
    BY <2>2, <2>3, <2>4, Zenon
  <2>6. QED
    BY <2>2, <2>5, Zenon DEF ranges
<1>2. QED
  BY <1>1, PTL

=============================================================================
