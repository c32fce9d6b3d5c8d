------------------------- MODULE BackfillPipelineProofs -------------------------
(***************************************************************************)
(* What the backfill pipeline guarantees for every pool of workers, every  *)
(* range of epochs and any number of faults and restarts.                  *)
(***************************************************************************)
EXTENDS BackfillPipeline, TLAPS

(* A result made of an epoch of the range and a kind is a Result.          *)
LEMMA ResultType ==
  ASSUME NEW e \in Epoch, NEW k \in {"skip", "built", "error"}
  PROVE  /\ [epoch |-> e, kind |-> k] \in Result
         /\ [epoch |-> e, kind |-> k].epoch = e
         /\ [epoch |-> e, kind |-> k].kind = k
BY DEF Result

(* The empty slot is a result.                                             *)
LEMMA NoResultType == NoResult \in Result
BY PipelineAssumption DEF NoResult, Result, Epoch

(* The pool of a new attempt is well typed.                                *)
LEMMA IdlePoolType ==
  /\ [w \in Worker |-> IdleWorker] \in [Worker -> WorkerState]
  /\ [w \in Worker |-> [IdleWorker EXCEPT !.at = "exit"]] \in [Worker -> WorkerState]
BY NoResultType DEF IdleWorker, WorkerState

(* Run never resumes outside the range.                                    *)
LEMMA ResumePointType ==
  ASSUME TypeOK
  PROVE  ResumePoint \in StartEpoch .. TargetEpoch + 1
BY PipelineAssumption DEF TypeOK, ResumePoint, Epoch

(* The initial state is well typed.                                        *)
LEMMA InitTypeOK == Init => TypeOK
<1> SUFFICES ASSUME Init PROVE TypeOK
  OBVIOUS
<1>1. budget \in [{"build", "persist", "crash"} -> Nat]
  BY PipelineAssumption DEF Init
<1>2. rows \subseteq Epoch /\ blobRows \subseteq Epoch
  BY DEF Init
<1>3. <<>> \in Seq(Epoch) /\ <<>> \in Seq(Result)
  OBVIOUS
<1>4. StartEpoch \in StartEpoch .. TargetEpoch + 1
  BY PipelineAssumption
<1>5. worker \in [Worker -> WorkerState] /\ job \in Result
  BY NoResultType, IdlePoolType DEF Init
<1>6. QED
  BY <1>1, <1>2, <1>3, <1>4, <1>5, Zenon DEF Init, TypeOK

(* Starting an attempt inside the range is well typed.                     *)
LEMMA NewAttemptTypeOK ==
  ASSUME TypeOK, NEW from \in StartEpoch .. TargetEpoch + 1, NewAttempt(from), UNCHANGED <<db, env>>
  PROVE  TypeOK'
<1>1. <<>> \in Seq(Epoch) /\ <<>> \in Seq(Result)
  OBVIOUS
<1>2. worker' \in [Worker -> WorkerState] /\ job' \in Result
  BY NoResultType, IdlePoolType DEF NewAttempt
<1>3. QED
  BY <1>1, <1>2, Zenon DEF TypeOK, NewAttempt, db, env

(* A step of a worker leaves every variable in its type.                   *)
LEMMA SetWorkerType ==
  ASSUME TypeOK, NEW w \in Worker, NEW at \in {"idle", "lookup", "build", "send", "exit"},
         NEW e \in Epoch, NEW k \in {"skip", "built", "error"}, SetWorker(w, at, e, k)
  PROVE  worker' \in [Worker -> WorkerState]
BY ResultType, Zenon DEF TypeOK, SetWorker, WorkerState

(* Using up a fault keeps the budget a function to the naturals.           *)
LEMMA FailType ==
  ASSUME TypeOK, NEW k \in {"build", "persist", "crash"}, Fail(k)
  PROVE  budget' \in [{"build", "persist", "crash"} -> Nat] /\ ctxDone' = ctxDone
<1>1. CASE PctxDone
  BY <1>1 DEF TypeOK, Fail
<1>2. CASE ~PctxDone
  <2>1. budget[k] \in Nat /\ budget[k] > 0
    BY <1>2, Zenon DEF TypeOK, Fail, MayFail
  <2>2. budget' = [budget EXCEPT ![k] = budget[k] - 1]
    BY <1>2 DEF Fail
  <2>3. budget[k] - 1 \in Nat
    BY <2>1
  <2>4. QED
    BY <2>2, <2>3, Zenon DEF TypeOK, Fail
<1>3. QED
  BY <1>1, <1>2

(* Dispatcher steps are well typed.                                        *)
LEMMA DispatcherTypeOK == TypeOK /\ Dispatcher => TypeOK'
<1> SUFFICES ASSUME TypeOK, Dispatcher PROVE TypeOK'
  OBVIOUS
<1> USE PipelineAssumption DEF db, env, consVars, collVars
<1>1. CASE Dispatch
  <2>1. nextDispatch \in Epoch
    BY <1>1 DEF Dispatch, TypeOK, Epoch
  <2>2. workCh' \in Seq(Epoch)
    BY <1>1, <2>1 DEF Dispatch, TypeOK
  <2>3. nextDispatch' \in StartEpoch .. TargetEpoch + 1
    BY <1>1, <2>1 DEF Dispatch, Epoch
  <2>4. QED
    BY <1>1, <2>2, <2>3 DEF Dispatch, TypeOK
<1>2. CASE DispatchAbort
  BY <1>2 DEF DispatchAbort, TypeOK
<1>3. CASE DispatchClose
  BY <1>3 DEF DispatchClose, TypeOK
<1>4. CASE DispatchFinish
  BY <1>4 DEF DispatchFinish, TypeOK
<1>5. QED
  BY <1>1, <1>2, <1>3, <1>4 DEF Dispatcher

(* Worker steps are well typed.                                            *)
LEMMA WorkerTypeOK == TypeOK /\ (\E w \in Worker : WorkerStep(w)) => TypeOK'
<1> SUFFICES ASSUME TypeOK, NEW w \in Worker, WorkerStep(w) PROVE TypeOK'
  OBVIOUS
<1> USE DEF db, env, consVars, dispVars, collVars
<1>0. worker[w] \in WorkerState /\ worker[w].res \in Result
      /\ worker[w].res.epoch \in Epoch
  BY Zenon DEF TypeOK, WorkerState, Result
<1>1. CASE WorkerTake(w)
  <2>1. Head(workCh) \in Epoch /\ workCh' \in Seq(Epoch)
    BY <1>1 DEF WorkerTake, TypeOK
  <2>2. worker' \in [Worker -> WorkerState]
    BY <1>1, <2>1, SetWorkerType, Zenon DEF WorkerTake
  <2>3. QED
    BY <1>1, <2>1, <2>2 DEF WorkerTake, TypeOK
<1>2. CASE WorkerExit(w)
  <2>1. worker' \in [Worker -> WorkerState]
    BY <1>0, <1>2, Zenon DEF WorkerExit, TypeOK, WorkerState
  <2>2. QED
    BY <1>2, <2>1 DEF WorkerExit, TypeOK
<1>3. CASE WorkerLookup(w)
  <2>1. worker' \in [Worker -> WorkerState]
    BY <1>0, <1>3, SetWorkerType, Zenon DEF WorkerLookup
  <2>2. QED
    BY <1>3, <2>1 DEF WorkerLookup, TypeOK
<1>4. CASE WorkerBuild(w)
  <2>1. worker' \in [Worker -> WorkerState]
    BY <1>0, <1>4, SetWorkerType, Zenon DEF WorkerBuild
  <2>2. QED
    BY <1>4, <2>1 DEF WorkerBuild, TypeOK
<1>5. CASE WorkerFail(w)
  <2>1. worker' \in [Worker -> WorkerState]
    BY <1>0, <1>5, SetWorkerType, Zenon DEF WorkerFail
  <2>2. budget' \in [{"build", "persist", "crash"} -> Nat] /\ ctxDone' = ctxDone
    BY <1>5, FailType, Zenon DEF WorkerFail, TypeOK, Fail
  <2>3. QED
    BY <1>5, <2>1, <2>2 DEF WorkerFail, TypeOK
<1>6. CASE WorkerSend(w)
  <2>1. resultCh' \in Seq(Result)
    BY <1>0, <1>6 DEF WorkerSend, TypeOK
  <2>2. worker' \in [Worker -> WorkerState]
    BY <1>0, <1>6, Zenon DEF WorkerSend, TypeOK, WorkerState
  <2>3. QED
    BY <1>6, <2>1, <2>2 DEF WorkerSend, TypeOK
<1>7. QED
  BY <1>1, <1>2, <1>3, <1>4, <1>5, <1>6, Zenon DEF WorkerStep

(* Collector steps are well typed.                                         *)
LEMMA CollectorTypeOK == TypeOK /\ Collector => TypeOK'
<1> SUFFICES ASSUME TypeOK, Collector PROVE TypeOK'
  OBVIOUS
<1> USE DEF db, env, consVars, dispVars
<1>1. CASE CollectorReceive
  <2>1. Head(resultCh) \in Result /\ resultCh' \in Seq(Result)
    BY <1>1 DEF CollectorReceive, TypeOK
  <2>2. QED
    BY <1>1, <2>1 DEF CollectorReceive, TypeOK
<1>2. CASE CollectorFlush
  <2>1. PICK r \in InOrder : Forward(r)
    BY <1>2 DEF CollectorFlush
  <2>2. r \in Result /\ r.epoch = nextExpected /\ nextExpected \in Epoch
    BY Zenon DEF InOrder, TypeOK, Result
  <2>3. pending' \in Seq(Result)
    BY <2>1, <2>2 DEF Forward, TypeOK
  <2>4. nextExpected' \in StartEpoch .. TargetEpoch + 1
    BY <2>1, <2>2, PipelineAssumption DEF Forward, TypeOK, Epoch
  <2>5. reorder' \subseteq Result /\ collector' \in {"run", "ok", "aborted"}
    BY <2>1, Zenon DEF Forward, TypeOK
  <2>6. QED
    BY <1>2, <2>3, <2>4, <2>5 DEF CollectorFlush, TypeOK
<1>3. CASE CollectorAbort
  BY <1>3 DEF CollectorAbort, TypeOK
<1>4. CASE CollectorFinish
  BY <1>4 DEF CollectorFinish, TypeOK
<1>5. QED
  BY <1>1, <1>2, <1>3, <1>4 DEF Collector

(* Consumer steps are well typed.                                          *)
LEMMA ConsumerTypeOK == TypeOK /\ Consumer => TypeOK'
<1> SUFFICES ASSUME TypeOK, Consumer PROVE TypeOK'
  OBVIOUS
<1> USE DEF db, env, consVars, dispVars, collVars, goroutines
<1>0. job.epoch \in Epoch /\ job.epoch + 1 \in StartEpoch .. TargetEpoch + 1
  BY PipelineAssumption DEF TypeOK, Result, Epoch
<1>1. CASE ConsumerReceive
  <2>1. Head(pending) \in Result /\ pending' \in Seq(Result)
    BY <1>1 DEF ConsumerReceive, TypeOK
  <2>2. QED
    BY <1>1, <2>1, Zenon DEF ConsumerReceive, Abandon, TypeOK
<1>2. CASE SaveEpoch
  BY <1>0, <1>2 DEF SaveEpoch, TypeOK
<1>3. CASE SaveBlobs
  BY <1>0, <1>3 DEF SaveBlobs, TypeOK
<1>4. CASE SetBackfillCursor
  BY <1>0, <1>4, Zenon DEF SetBackfillCursor, TypeOK
<1>5. CASE SaveEpochFails
  BY <1>0, <1>5, FailType, Zenon DEF SaveEpochFails, Abandon, TypeOK
<1>6. CASE SaveBlobsFails
  BY <1>0, <1>6, FailType, Zenon DEF SaveBlobsFails, Abandon, TypeOK
<1>7. CASE SetBackfillCursorFails
  BY <1>0, <1>7, FailType, Zenon DEF SetBackfillCursorFails, Abandon, TypeOK
<1>8. CASE Drain
  <2>1. pending' \in Seq(Result)
    BY <1>8 DEF Drain, TypeOK
  <2>2. QED
    BY <1>8, <2>1 DEF Drain, TypeOK
<1>9. CASE PendingExhausted
  BY <1>9 DEF PendingExhausted, TypeOK
<1>10. CASE Join
  <2>1. budget' \in [{"build", "persist", "crash"} -> Nat]
    BY <1>10, FailType, Zenon DEF Join, TypeOK
  <2>2. QED
    BY <1>10, <2>1 DEF Join, TypeOK
<1>11. CASE Retry
  BY <1>11, NewAttemptTypeOK, Zenon DEF Retry, TypeOK
<1>12. CASE SleepInterrupted
  BY <1>12 DEF SleepInterrupted, TypeOK
<1>13. QED
  BY <1>1, <1>2, <1>3, <1>4, <1>5, <1>6, <1>7, <1>8, <1>9, <1>10, <1>11, <1>12, Zenon
  DEF Consumer

(* Shutdown, a loss of the process and a restart are well typed.           *)
LEMMA EnvironmentTypeOK == TypeOK /\ (Shutdown \/ Crash \/ Restart) => TypeOK'
<1> SUFFICES ASSUME TypeOK, Shutdown \/ Crash \/ Restart PROVE TypeOK'
  OBVIOUS
<1> USE DEF db, env, consVars, dispVars, collVars, goroutines
<1>1. CASE Shutdown
  BY <1>1 DEF Shutdown, TypeOK
<1>2. CASE Crash
  <2>1. <<>> \in Seq(Epoch) /\ <<>> \in Seq(Result)
    OBVIOUS
  <2>2. worker' \in [Worker -> WorkerState] /\ job' \in Result
    BY <1>2, NoResultType, IdlePoolType, Zenon DEF Crash
  <2>3. budget["crash"] \in Nat /\ budget["crash"] > 0
    BY <1>2, Zenon DEF Crash, TypeOK
  <2>4. budget' \in [{"build", "persist", "crash"} -> Nat]
    BY <1>2, <2>3 DEF Crash, TypeOK
  <2>5. QED
    BY <1>2, <2>1, <2>2, <2>4, ResumePointType, Zenon DEF Crash, TypeOK
<1>3. CASE Restart
  BY <1>3, ResumePointType, NewAttemptTypeOK DEF Restart
<1>4. QED
  BY <1>1, <1>2, <1>3

(* Every step keeps every variable of the pipeline in its type.            *)
LEMMA NextTypeOK == TypeOK /\ [Next]_vars => TypeOK'
<1>1. ASSUME TypeOK, UNCHANGED vars PROVE TypeOK'
  BY <1>1 DEF TypeOK, vars, db, env, consVars, dispVars, collVars
<1>2. QED
  BY <1>1, DispatcherTypeOK, WorkerTypeOK, CollectorTypeOK, ConsumerTypeOK, EnvironmentTypeOK, Zenon
  DEF Next

(* Type correctness of the pipeline: channels and the reorder map carry    *)
(* only results about epochs of the range, and the dispatcher's, the       *)
(* collector's and the consumer's positions never leave it.                *)
THEOREM PipelineTypeCorrect == Spec => []TypeOK
BY InitTypeOK, NextTypeOK, PTL DEF Spec

-----------------------------------------------------------------------------
(***************************************************************************)
(* The inductive invariant.  CursorCovered and StrictOrder are not         *)
(* inductive by themselves: the cursor is set to an epoch that was skipped *)
(* or saved, so a skip must stay true on its whole way from the worker to  *)
(* the consumer (SkipsAreSaved), and it is set to the next one, so nothing *)
(* before nextResume may be missing (ResumeCovered).                       *)
(***************************************************************************)
IInv == TypeOK /\ StrictOrder /\ SkipsAreSaved /\ ResumeCovered /\ CursorCovered

(* The pipeline starts with empty channels, at the start of the range.     *)
LEMMA InitIInv == Init => IInv
<1> SUFFICES ASSUME Init PROVE IInv
  OBVIOUS
<1>1. Len(<<>>) = 0
  OBVIOUS
<1>2. StrictOrder
  BY <1>1, PipelineAssumption DEF Init, StrictOrder, Holding, ConsumerNext
<1>3. SkipsAreSaved
  BY <1>1 DEF Init, SkipsAreSaved, Holding, IdleWorker
<1>4. ResumeCovered /\ CursorCovered
  BY PipelineAssumption DEF Init, ResumeCovered, CursorCovered
<1>5. QED
  BY <1>2, <1>3, <1>4, InitTypeOK DEF IInv

(* The dispatcher touches nothing the invariant speaks of.                 *)
LEMMA DispatcherIInv == IInv /\ Dispatcher => IInv'
<1> SUFFICES ASSUME IInv, Dispatcher PROVE IInv'
  OBVIOUS
<1>1. UNCHANGED <<db, consVars, collVars, worker, resultCh, pending>>
  BY Zenon DEF Dispatcher, Dispatch, DispatchAbort, DispatchClose, DispatchFinish
<1>2. TypeOK'
  BY DispatcherTypeOK DEF IInv
<1>3. QED
  BY <1>1, <1>2
  DEF IInv, StrictOrder, Holding, ConsumerNext, SkipsAreSaved, SkipIsSaved, ResumeCovered,
      CursorCovered, db, consVars, collVars

(* A worker only finds an epoch saved when it is.                          *)
LEMMA WorkerIInv == IInv /\ (\E w \in Worker : WorkerStep(w)) => IInv'
<1> SUFFICES ASSUME IInv, NEW w \in Worker, WorkerStep(w) PROVE IInv'
  OBVIOUS
<1> USE DEF db, env, consVars, collVars
<1>1. TypeOK /\ TypeOK'
  BY WorkerTypeOK DEF IInv
<1>2. UNCHANGED <<db, consVars, collVars, pending>>
  BY Zenon DEF WorkerStep, WorkerTake, WorkerExit, WorkerLookup, WorkerBuild, WorkerFail, WorkerSend
<1>3. StrictOrder' /\ ResumeCovered' /\ CursorCovered'
  BY <1>2 DEF IInv, StrictOrder, Holding, ConsumerNext, ResumeCovered, CursorCovered
<1>4. ASSUME NEW v \in Worker, worker'[v].at = "send" PROVE SkipIsSaved(worker[v].res)'
  <2>1. CASE v # w
    <3>1. worker'[v] = worker[v]
      BY <1>1, <2>1, Zenon
      DEF TypeOK, WorkerStep, WorkerTake, WorkerExit, WorkerLookup, WorkerBuild, WorkerFail,
          WorkerSend, SetWorker
    <3>2. QED
      BY <1>2, <1>4, <3>1, Zenon DEF IInv, SkipsAreSaved, SkipIsSaved
  <2>2. CASE v = w
    <3>1. CASE WorkerTake(w) \/ WorkerExit(w) \/ WorkerSend(w)
      <4>1. worker'[w].at \in {"lookup", "idle", "exit"}
        <5>1. CASE WorkerTake(w)
          BY <1>1, <5>1, Zenon DEF TypeOK, WorkerTake, SetWorker
        <5>2. CASE WorkerExit(w)
          BY <1>1, <5>2 DEF TypeOK, WorkerState, WorkerExit
        <5>3. CASE WorkerSend(w)
          BY <1>1, <5>3 DEF TypeOK, WorkerState, WorkerSend
        <5>4. QED
          BY <3>1, <5>1, <5>2, <5>3
      <4>2. QED
        BY <1>4, <2>2, <4>1
    <3>2. CASE WorkerLookup(w)
      BY <1>1, <1>2, <1>4, <2>2, <3>2 DEF TypeOK, WorkerLookup, SetWorker, SkipIsSaved
    <3>3. CASE WorkerBuild(w) \/ WorkerFail(w)
      <4>1. worker'[w].res.kind # "skip"
        BY <1>1, <3>3 DEF TypeOK, WorkerBuild, WorkerFail, SetWorker
      <4>2. QED
        BY <2>2, <4>1, Zenon DEF SkipIsSaved
    <3>4. QED
      BY <3>1, <3>2, <3>3 DEF WorkerStep
  <2>3. QED
    BY <2>1, <2>2
<1>5. ASSUME NEW i \in 1 .. Len(resultCh') PROVE SkipIsSaved(resultCh[i])'
  <2>1. CASE UNCHANGED resultCh
    BY <1>2, <1>5, <2>1, Zenon DEF IInv, SkipsAreSaved, SkipIsSaved
  <2>2. CASE WorkerSend(w)
    <3>1. worker[w].res \in Result /\ SkipIsSaved(worker[w].res)
      BY <1>1, <2>2, Zenon DEF IInv, SkipsAreSaved, WorkerSend, TypeOK, WorkerState
    <3>2. /\ Len(resultCh') = Len(resultCh) + 1
          /\ \A j \in 1 .. Len(resultCh) : resultCh'[j] = resultCh[j]
          /\ resultCh'[Len(resultCh) + 1] = worker[w].res
          /\ Len(resultCh) \in Nat
      BY <1>1, <2>2, <3>1 DEF WorkerSend, TypeOK
    <3>3. CASE i = Len(resultCh) + 1
      BY <1>2, <3>1, <3>2, <3>3, Zenon DEF SkipIsSaved
    <3>4. CASE i \in 1 .. Len(resultCh)
      BY <1>2, <3>2, <3>4, Zenon DEF IInv, SkipsAreSaved, SkipIsSaved
    <3>5. QED
      BY <3>2, <3>3, <3>4
  <2>3. QED
    BY <2>1, <2>2, Zenon
    DEF WorkerStep, WorkerTake, WorkerExit, WorkerLookup, WorkerBuild, WorkerFail
<1>6. SkipsAreSaved'
  <2>1. /\ \A v \in Worker : worker'[v].at = "send" => SkipIsSaved(worker[v].res)'
        /\ \A i \in 1 .. Len(resultCh') : SkipIsSaved(resultCh[i])'
    BY <1>4, <1>5, Zenon
  <2>2. /\ \A r \in reorder' : SkipIsSaved(r)'
        /\ \A i \in 1 .. Len(pending') : SkipIsSaved(pending[i])'
        /\ Holding' => SkipIsSaved(job)'
    BY <1>2, Zenon DEF IInv, SkipsAreSaved, SkipIsSaved, Holding
  <2>3. QED
    BY <2>1, <2>2, Zenon DEF SkipsAreSaved
<1>7. QED
  BY <1>1, <1>3, <1>6 DEF IInv

(* The collector hands on the epoch it waits for, so pending stays in      *)
(* order, and moves results without changing them, so skips stay true.     *)
LEMMA CollectorIInv == IInv /\ Collector => IInv'
<1> SUFFICES ASSUME IInv, Collector PROVE IInv'
  OBVIOUS
<1> USE DEF db, env, consVars, dispVars
<1>1. TypeOK /\ TypeOK'
  BY CollectorTypeOK DEF IInv
<1>2. UNCHANGED <<db, consVars, worker>>
  BY Zenon DEF Collector, CollectorReceive, CollectorFlush, CollectorAbort, CollectorFinish
<1>3. ResumeCovered' /\ CursorCovered'
  BY <1>2 DEF IInv, ResumeCovered, CursorCovered
<1>4. /\ \A w \in Worker : worker'[w].at = "send" => SkipIsSaved(worker[w].res)'
      /\ Holding' => SkipIsSaved(job)'
  BY <1>2, Zenon DEF IInv, SkipsAreSaved, SkipIsSaved, Holding
<1>5. ASSUME UNCHANGED <<pending, nextExpected>>, collector' = "run" => collector = "run"
      PROVE  StrictOrder'
  BY <1>2, <1>5 DEF IInv, StrictOrder, Holding, ConsumerNext
<1>6. CASE CollectorReceive
  <2>1. /\ Len(resultCh') = Len(resultCh) - 1
        /\ \A i \in 1 .. Len(resultCh') : resultCh'[i] = resultCh[i + 1]
        /\ Head(resultCh) = resultCh[1]
        /\ Len(resultCh) \in Nat \ {0}
    BY <1>1, <1>6 DEF CollectorReceive, TypeOK
  <2>2. \A i \in 1 .. Len(resultCh') : i + 1 \in 1 .. Len(resultCh)
    BY <2>1
  <2>3. \A i \in 1 .. Len(resultCh') : SkipIsSaved(resultCh[i])'
    <3>1. \A j \in 1 .. Len(resultCh) : SkipIsSaved(resultCh[j])
      BY DEF IInv, SkipsAreSaved
    <3>2. QED
      BY <1>2, <2>1, <2>2, <3>1, Zenon DEF SkipIsSaved
  <2>4. \A r \in reorder' : SkipIsSaved(r)'
    BY <1>2, <1>6, <2>1 DEF CollectorReceive, IInv, SkipsAreSaved, SkipIsSaved
  <2>5. \A i \in 1 .. Len(pending') : SkipIsSaved(pending[i])'
    BY <1>2, <1>6, Zenon DEF CollectorReceive, IInv, SkipsAreSaved, SkipIsSaved
  <2>6. SkipsAreSaved'
    BY <1>4, <2>3, <2>4, <2>5, Zenon DEF SkipsAreSaved
  <2>7. QED
    BY <1>1, <1>3, <1>5, <1>6, <2>6, Zenon DEF CollectorReceive, IInv
<1>7. CASE CollectorFlush
  <2>1. PICK r \in InOrder : Forward(r)
    BY <1>7 DEF CollectorFlush
  <2>2. r \in Result /\ r \in reorder /\ r.epoch = nextExpected
    BY <1>1, Zenon DEF InOrder, TypeOK
  <2>3. /\ Len(pending') = Len(pending) + 1
        /\ \A i \in 1 .. Len(pending) : pending'[i] = pending[i]
        /\ pending'[Len(pending) + 1] = r
        /\ Len(pending) \in Nat
    <3>1. pending \in Seq(Result) /\ pending' = Append(pending, r)
      BY <1>1, <2>1, Zenon DEF Forward, TypeOK
    <3>2. QED
      BY <2>2, <3>1
  <2>4. \A i \in 1 .. Len(pending') : SkipIsSaved(pending[i])'
    <3> SUFFICES ASSUME NEW i \in 1 .. Len(pending') PROVE SkipIsSaved(pending[i])'
      OBVIOUS
    <3>1. CASE i \in 1 .. Len(pending)
      BY <1>2, <2>3, <3>1, Zenon DEF IInv, SkipsAreSaved, SkipIsSaved
    <3>2. CASE i = Len(pending) + 1
      BY <1>2, <2>2, <2>3, <3>2, Zenon DEF IInv, SkipsAreSaved, SkipIsSaved
    <3>3. QED
      BY <2>3, <3>1, <3>2
  <2>5. /\ \A q \in reorder' : SkipIsSaved(q)'
        /\ \A i \in 1 .. Len(resultCh') : SkipIsSaved(resultCh[i])'
    BY <1>2, <1>7, <2>1, Zenon DEF CollectorFlush, Forward, IInv, SkipsAreSaved, SkipIsSaved
  <2>6. SkipsAreSaved'
    BY <1>4, <2>4, <2>5, Zenon DEF SkipsAreSaved
  <2>7. ConsumerNext' = ConsumerNext /\ (Holding' <=> Holding) /\ ConsumerNext \in Int
    BY <1>1, <1>2, PipelineAssumption DEF ConsumerNext, Holding, TypeOK
  <2>8. ASSUME pc = "recv" \/ Holding
        PROVE  /\ \A i \in 1 .. Len(pending') : pending'[i].epoch = ConsumerNext' + i - 1
               /\ collector' = "run" => nextExpected' = ConsumerNext' + Len(pending')
    <3>1. /\ \A i \in 1 .. Len(pending) : pending[i].epoch = ConsumerNext + i - 1
          /\ nextExpected = ConsumerNext + Len(pending)
      BY <1>7, <2>8, Zenon DEF CollectorFlush, IInv, StrictOrder
    <3>2. pending'[Len(pending) + 1].epoch = ConsumerNext + (Len(pending) + 1) - 1
      BY <2>2, <2>3, <2>7, <3>1
    <3>3. \A i \in 1 .. Len(pending') : pending'[i].epoch = ConsumerNext + i - 1
      <4>1. \A i \in 1 .. Len(pending) : pending'[i].epoch = ConsumerNext + i - 1
        BY <2>3, <3>1, Zenon
      <4>2. \A i \in 1 .. Len(pending') : i \in 1 .. Len(pending) \/ i = Len(pending) + 1
        BY <2>3
      <4>3. QED
        BY <3>2, <4>1, <4>2, Zenon
    <3>4. collector' = "run" => nextExpected' = ConsumerNext + Len(pending')
      BY <1>7, <2>1, <2>3, <2>7, <3>1 DEF Forward
    <3>5. QED
      BY <2>7, <3>3, <3>4, Zenon
  <2>9. StrictOrder'
    BY <1>2, <2>7, <2>8, Zenon DEF IInv, StrictOrder
  <2>10. QED
    BY <1>1, <1>3, <2>6, <2>9 DEF IInv
<1>8. CASE CollectorAbort \/ CollectorFinish
  <2>1. /\ UNCHANGED <<resultCh, pending, nextExpected>>
        /\ reorder' \subseteq reorder
        /\ collector' # "run"
    BY <1>8 DEF CollectorAbort, CollectorFinish
  <2>2. SkipsAreSaved'
    BY <1>2, <1>4, <2>1, Zenon DEF IInv, SkipsAreSaved, SkipIsSaved
  <2>3. QED
    BY <1>1, <1>3, <1>5, <2>1, <2>2, Zenon DEF IInv
<1>9. QED
  BY <1>6, <1>7, <1>8 DEF Collector

(* Rows are only ever added, and a step of the consumer moves no result    *)
(* but the one it takes from pending, so skips stay true.                  *)
LEMMA SkipsStayTrue ==
  ASSUME IInv, TypeOK',
         rows \subseteq rows',
         UNCHANGED <<worker, resultCh, reorder>>,
         \/ UNCHANGED pending
         \/ pending # <<>> /\ pending' = Tail(pending),
         \/ Holding' => Holding /\ UNCHANGED job
         \/ pending # <<>> /\ job' = Head(pending)
  PROVE  SkipsAreSaved'
<1>1. /\ \A w \in Worker : worker'[w].at = "send" => SkipIsSaved(worker[w].res)'
      /\ \A i \in 1 .. Len(resultCh') : SkipIsSaved(resultCh[i])'
      /\ \A r \in reorder' : SkipIsSaved(r)'
  BY Zenon DEF IInv, SkipsAreSaved, SkipIsSaved
<1>2. ASSUME pending # <<>>
      PROVE  /\ Len(pending) \in Nat \ {0}
             /\ Head(pending) = pending[1]
             /\ Len(Tail(pending)) = Len(pending) - 1
             /\ \A i \in 1 .. Len(Tail(pending)) : Tail(pending)[i] = pending[i + 1]
  BY <1>2 DEF IInv, TypeOK
<1>3. \A i \in 1 .. Len(pending') : SkipIsSaved(pending[i])'
  <2>1. CASE UNCHANGED pending
    BY <2>1, Zenon DEF IInv, SkipsAreSaved, SkipIsSaved
  <2>2. CASE pending # <<>> /\ pending' = Tail(pending)
    <3>1. \A i \in 1 .. Len(pending') : i + 1 \in 1 .. Len(pending) /\ pending'[i] = pending[i + 1]
      BY <1>2, <2>2
    <3>2. QED
      BY <3>1, Zenon DEF IInv, SkipsAreSaved, SkipIsSaved
  <2>3. QED
    BY <2>1, <2>2, Zenon
<1>4. Holding' => SkipIsSaved(job)'
  BY <1>2 DEF IInv, SkipsAreSaved, SkipIsSaved
<1>5. QED
  BY <1>1, <1>3, <1>4, Zenon DEF SkipsAreSaved

(* A new attempt finds empty channels and starts where everything before   *)
(* it is in the database.                                                  *)
LEMMA NewAttemptIInv ==
  ASSUME IInv, NEW from \in StartEpoch .. TargetEpoch + 1, NewAttempt(from), UNCHANGED <<db, env>>,
         \A e \in StartEpoch .. from - 1 : e \in rows,
         cursor \in {from - 1, from} \/ (cursor = 0 /\ from = StartEpoch)
  PROVE  IInv'
<1>1. TypeOK'
  BY NewAttemptTypeOK DEF IInv
<1>2. Len(<<>>) = 0
  OBVIOUS
<1>3. StrictOrder'
  BY <1>2, PipelineAssumption DEF NewAttempt, StrictOrder, Holding, ConsumerNext
<1>4. SkipsAreSaved'
  BY <1>2 DEF NewAttempt, SkipsAreSaved, Holding, IdleWorker
<1>5. ResumeCovered' /\ CursorCovered'
  BY Zenon DEF NewAttempt, IInv, ResumeCovered, CursorCovered, db
<1>6. QED
  BY <1>1, <1>3, <1>4, <1>5, Zenon DEF IInv

(* Once the consumer has given up, order in pending no longer matters.     *)
LEMMA AbandonIInv ==
  ASSUME IInv, TypeOK', Abandon \/ pc' \in {"join", "sleep", "stopped", "finished"},
         rows \subseteq rows',
         UNCHANGED <<nextResume, worker, resultCh, reorder>>,
         \/ UNCHANGED pending
         \/ pending # <<>> /\ pending' = Tail(pending),
         \/ UNCHANGED cursor
         \/ Holding /\ job.epoch \in rows /\ cursor' = job.epoch
  PROVE  IInv'
<1>1. pc' \notin {"recv", "saveEpoch", "saveBlobs", "setCursor"}
  BY DEF Abandon
<1>2. StrictOrder' /\ ~Holding'
  BY <1>1, Zenon DEF StrictOrder, Holding
<1>3. SkipsAreSaved'
  BY <1>2, SkipsStayTrue
<1>4. CASE UNCHANGED cursor
  BY <1>1, <1>2, <1>3, <1>4, Zenon DEF IInv, ResumeCovered, CursorCovered
<1>5. CASE Holding /\ job.epoch \in rows /\ cursor' = job.epoch
  <2>1. job.epoch = nextResume /\ nextResume \in StartEpoch .. TargetEpoch + 1
    BY <1>5, Zenon DEF IInv, StrictOrder, TypeOK
  <2>2. \A e \in StartEpoch .. nextResume : e \in rows'
    BY <1>5, <2>1, PipelineAssumption DEF IInv, ResumeCovered
  <2>3. ResumeCovered' /\ CursorCovered'
    BY <1>1, <1>5, <2>1, <2>2, Zenon DEF IInv, ResumeCovered, CursorCovered
  <2>4. QED
    BY <1>2, <1>3, <2>3 DEF IInv
<1>6. QED
  BY <1>4, <1>5

(* The consumer takes the epochs in order and moves the cursor only to an  *)
(* epoch that has its row.                                                 *)
LEMMA ConsumerIInv == IInv /\ Consumer => IInv'
<1> SUFFICES ASSUME IInv, Consumer PROVE IInv'
  OBVIOUS
<1> USE DEF env, consVars, dispVars, collVars, goroutines
<1>0. TypeOK /\ TypeOK'
  BY ConsumerTypeOK DEF IInv
<1>1. CASE ConsumerReceive
  <2>1. CASE Head(pending).kind = "error"
    BY <1>0, <1>1, <2>1, AbandonIInv, Zenon DEF ConsumerReceive, db
  <2>2. CASE Head(pending).kind # "error"
    <3>1. /\ pc = "recv"
          /\ pc' = IF Head(pending).kind = "skip" THEN "setCursor" ELSE "saveEpoch"
          /\ pending # <<>>
          /\ pending' = Tail(pending)
          /\ job' = Head(pending)
          /\ UNCHANGED <<rows, cursor, nextResume, worker, resultCh, reorder, collector, nextExpected>>
      BY <1>1, <2>2, Zenon DEF ConsumerReceive, db
    <3>2. /\ Len(pending) \in Nat \ {0}
          /\ Head(pending) = pending[1]
          /\ Len(pending') = Len(pending) - 1
          /\ \A i \in 1 .. Len(pending') : pending'[i] = pending[i + 1]
      BY <1>0, <3>1 DEF TypeOK
    <3>3. /\ \A i \in 1 .. Len(pending) : pending[i].epoch = nextResume + i - 1
          /\ collector = "run" => nextExpected = nextResume + Len(pending)
          /\ nextResume \in Int
      BY <1>0, <3>1, PipelineAssumption DEF IInv, StrictOrder, ConsumerNext, Holding, TypeOK
    <3>4. Holding' /\ ConsumerNext' = nextResume + 1 /\ job'.kind # "error"
      BY <2>2, <3>1, Zenon DEF Holding, ConsumerNext
    <3>5. job'.epoch = nextResume
      BY <3>1, <3>2, <3>3
    <3>6. \A i \in 1 .. Len(pending') : pending'[i].epoch = nextResume + 1 + i - 1
      BY <3>2, <3>3
    <3>7. StrictOrder'
      BY <3>1, <3>2, <3>3, <3>4, <3>5, <3>6 DEF StrictOrder
    <3>8. SkipsAreSaved'
      BY <1>0, <3>1, SkipsStayTrue
    <3>9. ResumeCovered' /\ CursorCovered'
      <4>1. pc' = "setCursor" => SkipIsSaved(job)' /\ job'.kind = "skip"
        BY <3>1, <3>4, <3>8, Zenon DEF SkipsAreSaved
      <4>2. pc' \in {"saveBlobs", "setCursor"} => job'.epoch \in rows'
        BY <3>1, <4>1, Zenon DEF SkipIsSaved
      <4>3. QED
        BY <3>1, <4>2, Zenon DEF IInv, ResumeCovered, CursorCovered
    <3>10. QED
      BY <1>0, <3>7, <3>8, <3>9 DEF IInv
  <2>3. QED
    BY <2>1, <2>2
<1>2. CASE SaveEpoch
  <2>1. SkipsAreSaved'
    BY <1>0, <1>2, SkipsStayTrue, Zenon DEF SaveEpoch, Holding
  <2>2. StrictOrder'
    BY <1>2, Zenon DEF SaveEpoch, IInv, StrictOrder, Holding, ConsumerNext
  <2>3. ResumeCovered' /\ CursorCovered'
    BY <1>2, Zenon DEF SaveEpoch, IInv, ResumeCovered, CursorCovered
  <2>4. QED
    BY <1>0, <2>1, <2>2, <2>3 DEF IInv
<1>3. CASE SaveBlobs
  <2>1. SkipsAreSaved'
    BY <1>0, <1>3, SkipsStayTrue, Zenon DEF SaveBlobs, Holding
  <2>2. StrictOrder'
    BY <1>3, Zenon DEF SaveBlobs, IInv, StrictOrder, Holding, ConsumerNext
  <2>3. ResumeCovered' /\ CursorCovered'
    BY <1>3, Zenon DEF SaveBlobs, IInv, ResumeCovered, CursorCovered
  <2>4. QED
    BY <1>0, <2>1, <2>2, <2>3 DEF IInv
<1>4. CASE SetBackfillCursor
  <2>1. /\ Holding /\ job.epoch = nextResume /\ job.epoch \in rows
        /\ nextResume \in StartEpoch .. TargetEpoch + 1
    BY <1>0, <1>4, Zenon DEF SetBackfillCursor, IInv, Holding, StrictOrder, ResumeCovered, TypeOK
  <2>2. SkipsAreSaved'
    BY <1>0, <1>4, SkipsStayTrue, Zenon DEF SetBackfillCursor, Holding
  <2>3. StrictOrder'
    <3>1. ~Holding' /\ ConsumerNext' = ConsumerNext
      BY <1>4, <2>1 DEF SetBackfillCursor, Holding, ConsumerNext
    <3>2. UNCHANGED <<pending, collector, nextExpected>>
      BY <1>4, Zenon DEF SetBackfillCursor
    <3>3. QED
      BY <2>1, <3>1, <3>2, Zenon DEF IInv, StrictOrder
  <2>4. ResumeCovered' /\ CursorCovered'
    <3>1. /\ cursor' = nextResume /\ nextResume' = nextResume + 1 /\ nextResume' - 1 = nextResume
          /\ pc' = "recv" /\ rows' = rows
      BY <1>4, <2>1, PipelineAssumption DEF SetBackfillCursor
    <3>2. \A e \in StartEpoch .. nextResume : e \in rows
      BY <2>1, PipelineAssumption DEF IInv, ResumeCovered
    <3>3. QED
      BY <3>1, <3>2, Zenon DEF ResumeCovered, CursorCovered
  <2>5. QED
    BY <1>0, <2>2, <2>3, <2>4, Zenon DEF IInv
<1>5. CASE SaveEpochFails
  BY <1>0, <1>5, AbandonIInv, Zenon DEF SaveEpochFails
<1>6. CASE SaveBlobsFails
  BY <1>0, <1>6, AbandonIInv, Zenon DEF SaveBlobsFails
<1>7. CASE SetBackfillCursorFails
  <2>1. Holding /\ job.epoch \in rows
    BY <1>7 DEF SetBackfillCursorFails, Holding, IInv, ResumeCovered
  <2>2. QED
    BY <1>0, <1>7, <2>1, AbandonIInv, Zenon DEF SetBackfillCursorFails
<1>8. CASE Drain
  <2>1. SkipsAreSaved'
    BY <1>0, <1>8, SkipsStayTrue, Zenon DEF Drain, db, Holding
  <2>2. StrictOrder' /\ ResumeCovered' /\ CursorCovered'
    BY <1>8, Zenon DEF Drain, db, IInv, StrictOrder, Holding, ResumeCovered, CursorCovered
  <2>3. QED
    BY <1>0, <2>1, <2>2 DEF IInv
<1>9. CASE PendingExhausted
  BY <1>0, <1>9, AbandonIInv, Zenon DEF PendingExhausted, db
<1>10. CASE Join
  BY <1>0, <1>10, AbandonIInv, Zenon DEF Join
<1>11. CASE Retry
  BY <1>11, NewAttemptIInv, Zenon DEF Retry, IInv, TypeOK, ResumeCovered
<1>12. CASE SleepInterrupted
  BY <1>0, <1>12, AbandonIInv, Zenon DEF SleepInterrupted, db
<1>13. QED
  BY <1>1, <1>2, <1>3, <1>4, <1>5, <1>6, <1>7, <1>8, <1>9, <1>10, <1>11, <1>12, Zenon
  DEF Consumer

(* A loss of the process goes back to the epoch after the cursor, before   *)
(* which nothing is missing.                                               *)
LEMMA EnvironmentIInv == IInv /\ (Shutdown \/ Crash \/ Restart) => IInv'
<1> SUFFICES ASSUME IInv, Shutdown \/ Crash \/ Restart PROVE IInv'
  OBVIOUS
<1>0. TypeOK /\ TypeOK'
  BY EnvironmentTypeOK DEF IInv
<1>1. /\ \A e \in StartEpoch .. ResumePoint - 1 : e \in rows
      /\ cursor = ResumePoint - 1 \/ (cursor = 0 /\ ResumePoint = StartEpoch)
  <2>1. CASE cursor > 0
    <3>1. cursor \in Nat /\ ResumePoint - 1 = cursor
      BY <1>0, <2>1, PipelineAssumption DEF ResumePoint, TypeOK, Epoch
    <3>2. QED
      BY <2>1, <3>1 DEF IInv, CursorCovered
  <2>2. CASE ~(cursor > 0)
    <3>1. cursor = 0 /\ ResumePoint = StartEpoch
      BY <1>0, <2>2, PipelineAssumption DEF ResumePoint, TypeOK, Epoch
    <3>2. QED
      BY <3>1, PipelineAssumption
  <2>3. QED
    BY <2>1, <2>2, Zenon
<1>2. CASE Shutdown
  BY <1>0, <1>2, Zenon
  DEF Shutdown, IInv, StrictOrder, Holding, ConsumerNext, SkipsAreSaved, SkipIsSaved,
      ResumeCovered, CursorCovered, db, consVars, collVars, goroutines
<1>3. CASE Crash
  <2>1. Len(<<>>) = 0
    OBVIOUS
  <2>2. StrictOrder'
    BY <1>3 DEF Crash, StrictOrder, Holding
  <2>3. SkipsAreSaved'
    BY <1>3, <2>1 DEF Crash, SkipsAreSaved, Holding, IdleWorker
  <2>4. ResumeCovered' /\ CursorCovered'
    BY <1>1, <1>3, Zenon DEF Crash, IInv, ResumeCovered, CursorCovered, db
  <2>5. QED
    BY <1>0, <2>2, <2>3, <2>4 DEF IInv
<1>4. CASE Restart
  <2>1. ResumePoint \in StartEpoch .. TargetEpoch + 1
    BY <1>0, ResumePointType, Zenon
  <2>2. QED
    BY <1>1, <1>4, <2>1, NewAttemptIInv, Zenon DEF Restart
<1>5. QED
  BY <1>2, <1>3, <1>4

(* The invariant is inductive.                                             *)
LEMMA NextIInv == IInv /\ [Next]_vars => IInv'
<1>1. ASSUME IInv, UNCHANGED vars PROVE IInv'
  <2>1. TypeOK'
    BY <1>1, NextTypeOK, Zenon DEF IInv
  <2>2. QED
    BY <1>1, <2>1
    DEF IInv, StrictOrder, Holding, ConsumerNext, SkipsAreSaved, SkipIsSaved, ResumeCovered,
        CursorCovered, vars, db, env, consVars, dispVars, collVars
<1>2. QED
  BY <1>1, DispatcherIInv, WorkerIInv, CollectorIInv, ConsumerIInv, EnvironmentIInv, Zenon DEF Next

(* The inductive invariant holds in every run of the pipeline.             *)
THEOREM PipelineInvariant == Spec => []IInv
BY InitIInv, NextIInv, PTL DEF Spec

(* The consumer of runBackfillPipeline sees the epochs in strict order and *)
(* without a hole, however the workers overtake each other.                *)
THEOREM PipelineStrictOrder == Spec => []StrictOrder
<1>1. IInv => StrictOrder
  BY DEF IInv
<1>2. QED
  BY <1>1, PipelineInvariant, PTL

(* An epoch found by EpochExists still has its row when its turn comes.    *)
THEOREM PipelineSkipsAreSaved == Spec => []SkipsAreSaved
<1>1. IInv => SkipsAreSaved
  BY DEF IInv
<1>2. QED
  BY <1>1, PipelineInvariant, PTL

(* The backfill cursor never passes an epoch that has no row, with any     *)
(* number of workers, faults, retries and losses of the process.           *)
THEOREM PipelineCursorCovered == Spec => []CursorCovered
<1>1. IInv => CursorCovered
  BY DEF IInv
<1>2. QED
  BY <1>1, PipelineInvariant, PTL

(* An attempt may always resume where the failed one stopped: everything   *)
(* before nextResume has its row.                                          *)
THEOREM PipelineResumeCovered == Spec => []ResumeCovered
<1>1. IInv => ResumeCovered
  BY DEF IInv
<1>2. QED
  BY <1>1, PipelineInvariant, PTL

-----------------------------------------------------------------------------
(* Every step of the pipeline is a step of the sequential loop, or none of *)
(* its business.                                                           *)
LEMMA StepImplementsSequential ==
  IInv /\ [Next]_vars => [Sequential!Next]_Sequential!vars
<1> SUFFICES ASSUME IInv, [Next]_vars PROVE [Sequential!Next]_Sequential!vars
  OBVIOUS
<1> USE DEF db, env, consVars, dispVars, collVars, goroutines, Sequential!vars
<1>1. CASE UNCHANGED <<rows, cursor, nextResume>>
  BY <1>1
<1>2. ASSUME Holding PROVE nextResume = job.epoch /\ nextResume \in Sequential!Epoch
  BY <1>2, Zenon DEF IInv, StrictOrder, TypeOK, Result, Epoch, Sequential!Epoch
<1>3. CASE SaveEpoch \/ SaveEpochFails
  <2>1. Holding /\ UNCHANGED <<cursor, nextResume>> /\ rows' \in {rows, rows \cup {nextResume}}
    BY <1>2, <1>3, Zenon DEF SaveEpoch, SaveEpochFails, Holding
  <2>2. QED
    BY <1>1, <1>2, <2>1 DEF Sequential!Next, Sequential!Save
<1>4. CASE SetBackfillCursor \/ SetBackfillCursorFails
  <2>1. Holding /\ nextResume \in rows /\ UNCHANGED rows
    BY <1>2, <1>4, Zenon
    DEF SetBackfillCursor, SetBackfillCursorFails, Holding, IInv, ResumeCovered
  <2>2. \/ UNCHANGED <<cursor, nextResume>>
        \/ cursor' = nextResume /\ nextResume' \in {nextResume, nextResume + 1}
    BY <1>2, <1>4, <2>1, Zenon DEF SetBackfillCursor, SetBackfillCursorFails
  <2>3. QED
    BY <1>1, <1>2, <2>1, <2>2, Zenon DEF Sequential!Next, Sequential!Record
<1>5. CASE Crash \/ Restart
  BY <1>5 DEF Crash, Restart, NewAttempt, ResumePoint, Sequential!Next, Sequential!Lose
<1>6. CASE Dispatcher \/ (\E w \in Worker : WorkerStep(w)) \/ Collector \/ Shutdown
  BY <1>1, <1>6, Zenon
  DEF Dispatcher, Dispatch, DispatchAbort, DispatchClose, DispatchFinish,
      WorkerStep, WorkerTake, WorkerExit, WorkerLookup, WorkerBuild, WorkerFail, WorkerSend,
      Collector, CollectorReceive, CollectorFlush, CollectorAbort, CollectorFinish, Shutdown
<1>7. CASE \/ ConsumerReceive \/ SaveBlobs \/ SaveBlobsFails \/ Drain \/ PendingExhausted
           \/ Join \/ Retry \/ SleepInterrupted
  BY <1>1, <1>7, Zenon
  DEF ConsumerReceive, SaveBlobs, SaveBlobsFails, Drain, PendingExhausted, Join, Retry,
      NewAttempt, SleepInterrupted
<1>8. CASE UNCHANGED vars
  BY <1>1, <1>8, Zenon DEF vars
<1>9. QED
  BY <1>3, <1>4, <1>5, <1>6, <1>7, <1>8, Zenon DEF Next, Consumer

(* The four kinds of goroutines of runBackfillPipeline implement the       *)
(* sequential loop: the comment on runBackfill, "crash recovery semantics  *)
(* match the pre-pipeline behaviour".                                      *)
THEOREM PipelineImplementsSequential == Spec => ImplementsSequential
<1>1. Init => Sequential!Init
  BY Zenon DEF Init, Sequential!Init, Epoch, Sequential!Epoch
<1>2. QED
  BY <1>1, PipelineInvariant, StepImplementsSequential, PTL
  DEF Spec, ImplementsSequential, Sequential!Spec

(* SetBackfillCursor never moves the saved cursor back.                    *)
THEOREM PipelineCursorMonotonic == Spec => CursorMonotonic
<1>1. IInv /\ [Sequential!Next]_Sequential!vars => [cursor' >= cursor]_cursor
  BY PipelineAssumption
  DEF IInv, TypeOK, Epoch, ResumeCovered, Sequential!Next, Sequential!Save, Sequential!Record,
      Sequential!Lose, Sequential!vars
<1>2. QED
  BY <1>1, PipelineInvariant, StepImplementsSequential, PTL DEF Spec, CursorMonotonic

-----------------------------------------------------------------------------
(* The way of an epoch through the pool                                    *)

(* The first epoch that no worker has taken.                               *)
FirstQueued == nextDispatch - Len(workCh)

Busy(w) == worker[w].at \in {"lookup", "build", "send"}

(* workCh holds the last epochs that were dispatched, in order.            *)
Queued == \A i \in 1 .. Len(workCh) : workCh[i] = FirstQueued + i - 1

(* Every epoch that was taken and not forwarded is somewhere ...           *)
InFlight == nextExpected .. FirstQueued - 1

Present ==
  \A e \in InFlight : \/ \E w \in Worker : Busy(w) /\ worker[w].res.epoch = e
                      \/ \E i \in 1 .. Len(resultCh) : resultCh[i].epoch = e
                      \/ \E r \in reorder : r.epoch = e

(* ... and nothing else is in the pool ...                                 *)
Within ==
  /\ nextExpected <= FirstQueued
  /\ \A w \in Worker : Busy(w) => worker[w].res.epoch \in InFlight
  /\ \A i \in 1 .. Len(resultCh) : resultCh[i].epoch \in InFlight
  /\ \A r \in reorder : r.epoch \in InFlight

(* ... and nothing twice.                                                  *)
Once ==
  /\ \A w, v \in Worker : Busy(w) /\ Busy(v) /\ worker[w].res.epoch = worker[v].res.epoch => w = v
  /\ \A i, j \in 1 .. Len(resultCh) : resultCh[i].epoch = resultCh[j].epoch => i = j
  /\ \A r, s \in reorder : r.epoch = s.epoch => r = s
  /\ \A w \in Worker, i \in 1 .. Len(resultCh) : Busy(w) => worker[w].res.epoch # resultCh[i].epoch
  /\ \A w \in Worker, r \in reorder : Busy(w) => worker[w].res.epoch # r.epoch
  /\ \A i \in 1 .. Len(resultCh), r \in reorder : resultCh[i].epoch # r.epoch

FlowInv == Queued /\ (collector = "run" => Present /\ Within /\ Once)

(* While the collector runs, a worker that returned before its work was    *)
(* done has left an error behind it, and the channels are closed in order. *)
ErrorAhead ==
  \/ \E i \in 1 .. Len(resultCh) : resultCh[i].kind = "error"
  \/ \E r \in reorder : r.kind = "error"

ShutInOrder ==
  collector = "run" =>
    /\ (\E w \in Worker : worker[w].at = "exit") /\ (workCh # <<>> \/ dispatcher = "send")
         => ErrorAhead
    /\ dispatcher \in {"wait", "done"} => nextDispatch = TargetEpoch + 1
    /\ dispatcher = "done" => \A w \in Worker : worker[w].at = "exit"

(* Once the collector is done without being cancelled, what is left for    *)
(* the consumer ends with an error or with the last epoch.                 *)
EndsWell ==
  \/ pending # <<>> /\ pending[Len(pending)].kind = "error"
  \/ ConsumerNext + Len(pending) = TargetEpoch + 1

Ending ==
  /\ collector = "ok" /\ (pc = "recv" \/ Holding) => EndsWell
  /\ pc = "drain" => failed
  /\ pc = "join" => collector # "run" /\ (failed \/ collector = "aborted"
                                           \/ nextResume = TargetEpoch + 1)
  /\ pc = "finished" => nextResume = TargetEpoch + 1


(* FlowInv and ShutInOrder speak of the goroutines of the pool alone.      *)
PoolInv == FlowInv /\ ShutInOrder

(* Steps of others leave the pool alone.                                   *)
LEMMA PoolKept ==
  ASSUME PoolInv, UNCHANGED goroutines
  PROVE  PoolInv'
<1>1. /\ UNCHANGED <<dispatcher, nextDispatch, collector, nextExpected, reorder>>
      /\ UNCHANGED <<workCh, worker, resultCh>>
  BY DEF goroutines, dispVars, collVars
<1>2. Queued'
  BY <1>1, Zenon DEF PoolInv, FlowInv, Queued, FirstQueued
<1>3. collector' = "run" => Present' /\ Within' /\ Once'
  BY <1>1 DEF PoolInv, FlowInv, Present, Within, Once, InFlight, FirstQueued, Busy
<1>4. ShutInOrder'
  BY <1>1 DEF PoolInv, ShutInOrder, ErrorAhead
<1>5. QED
  BY <1>2, <1>3, <1>4, Zenon DEF PoolInv, FlowInv

(* The pool before the first epoch is dispatched, or after a crash.        *)
EmptyPool ==
  /\ workCh = <<>> /\ resultCh = <<>> /\ reorder = {} /\ \A w \in Worker : ~Busy(w)
  /\ \/ collector # "run"
     \/ /\ nextExpected = nextDispatch /\ dispatcher = "send"
        /\ \A w \in Worker : worker[w].at # "exit"

(* An empty pool has nothing to lose.                                      *)
LEMMA PoolEmpty == TypeOK /\ EmptyPool => PoolInv
<1> SUFFICES ASSUME TypeOK, EmptyPool PROVE PoolInv
  OBVIOUS
<1> USE DEF EmptyPool
<1>1. Len(workCh) = 0 /\ Len(resultCh) = 0
  OBVIOUS
<1>2. nextDispatch \in Int /\ nextExpected \in Int
  BY PipelineAssumption DEF TypeOK
<1>3. Queued
  BY <1>1 DEF Queued
<1>4. collector = "run" => Present /\ Within /\ Once
  BY <1>1, <1>2 DEF Present, Within, Once, InFlight, FirstQueued
<1>5. ShutInOrder
  BY Zenon DEF ShutInOrder
<1>6. QED
  BY <1>3, <1>4, <1>5 DEF PoolInv, FlowInv

(* What is in the pool stays where it is while the dispatcher works.       *)
LEMMA DispatcherPool == TypeOK /\ PoolInv /\ Dispatcher => PoolInv'
<1> SUFFICES ASSUME TypeOK, PoolInv, Dispatcher PROVE PoolInv'
  OBVIOUS
<1>1. UNCHANGED <<collector, nextExpected, reorder, worker, resultCh>>
  BY Zenon DEF Dispatcher, Dispatch, DispatchAbort, DispatchClose, DispatchFinish, collVars
<1>2. nextDispatch \in Int /\ Len(workCh) \in Nat /\ workCh \in Seq(Epoch)
  BY PipelineAssumption DEF TypeOK
<1>3. FirstQueued' = FirstQueued /\ Queued'
  <2>1. CASE Dispatch
    <3>1. nextDispatch \in Epoch
      BY <2>1, PipelineAssumption DEF Dispatch, TypeOK, Epoch
    <3>2. /\ Len(workCh') = Len(workCh) + 1
          /\ \A i \in 1 .. Len(workCh) : workCh'[i] = workCh[i]
          /\ workCh'[Len(workCh) + 1] = nextDispatch
      BY <1>2, <2>1, <3>1 DEF Dispatch
    <3>3. FirstQueued' = FirstQueued
      BY <1>2, <2>1, <3>2 DEF FirstQueued, Dispatch
    <3>4. \A i \in 1 .. Len(workCh') : i \in 1 .. Len(workCh) \/ i = Len(workCh) + 1
      BY <1>2, <3>2
    <3>5. nextDispatch = FirstQueued + (Len(workCh) + 1) - 1
      BY <1>2 DEF FirstQueued
    <3>6. \A i \in 1 .. Len(workCh) : workCh[i] = FirstQueued + i - 1
      BY DEF PoolInv, FlowInv, Queued
    <3>7. QED
      BY <3>2, <3>3, <3>4, <3>5, <3>6, Zenon DEF Queued
  <2>2. CASE UNCHANGED <<workCh, nextDispatch>>
    BY <2>2 DEF PoolInv, FlowInv, Queued, FirstQueued
  <2>3. QED
    BY <2>1, <2>2, Zenon DEF Dispatcher, DispatchAbort, DispatchClose, DispatchFinish
<1>4. collector' = "run" => Present' /\ Within' /\ Once'
  BY <1>1, <1>3 DEF PoolInv, FlowInv, Present, Within, Once, InFlight, Busy
<1>5. ShutInOrder'
  <2>1. CASE Dispatch
    BY <1>1, <2>1, Zenon DEF Dispatch, PoolInv, ShutInOrder, ErrorAhead
  <2>2. CASE DispatchAbort
    BY <1>1, <2>2, Zenon DEF DispatchAbort, PoolInv, ShutInOrder, ErrorAhead
  <2>3. CASE DispatchClose
    <3>1. nextDispatch' = TargetEpoch + 1
      BY <2>3, PipelineAssumption DEF DispatchClose, TypeOK
    <3>2. QED
      BY <1>1, <2>3, <3>1, Zenon DEF DispatchClose, PoolInv, ShutInOrder, ErrorAhead
  <2>4. CASE DispatchFinish
    BY <1>1, <2>4, Zenon DEF DispatchFinish, PoolInv, ShutInOrder, ErrorAhead
  <2>5. QED
    BY <2>1, <2>2, <2>3, <2>4 DEF Dispatcher
<1>6. QED
  BY <1>3, <1>4, <1>5 DEF PoolInv, FlowInv

(* The numbers the pool is described with.                                 *)
LEMMA PoolNumbers ==
  ASSUME TypeOK
  PROVE  /\ nextExpected \in Int /\ nextDispatch \in Int /\ FirstQueued \in Int
         /\ Len(workCh) \in Nat /\ Len(resultCh) \in Nat
         /\ \A w \in Worker : worker[w] \in WorkerState /\ worker[w].res \in Result
                              /\ worker[w].res.epoch \in Int
         /\ \A i \in 1 .. Len(resultCh) : resultCh[i] \in Result /\ resultCh[i].epoch \in Int
         /\ \A r \in reorder : r.epoch \in Int
<1>1. Epoch \subseteq Int
  BY PipelineAssumption DEF Epoch
<1>2. nextExpected \in Int /\ nextDispatch \in Int
  BY PipelineAssumption DEF TypeOK
<1>3. Len(workCh) \in Nat /\ Len(resultCh) \in Nat
  BY DEF TypeOK
<1>4. \A i \in 1 .. Len(resultCh) : resultCh[i] \in Result
  BY DEF TypeOK
<1>5. \A r \in Result : r.epoch \in Int
  BY <1>1, Zenon DEF Result
<1>6. \A w \in Worker : worker[w] \in WorkerState /\ worker[w].res \in Result
  BY Zenon DEF TypeOK, WorkerState
<1>7. \A r \in reorder : r \in Result
  BY Zenon DEF TypeOK
<1>8. QED
  BY <1>2, <1>3, <1>4, <1>5, <1>6, <1>7 DEF FirstQueued

(* A worker takes the first epoch that is queued.                          *)
LEMMA TakePool ==
  ASSUME TypeOK, PoolInv, NEW w \in Worker, WorkerTake(w)
  PROVE  PoolInv'
<1> USE PoolNumbers
<1>1. UNCHANGED <<collector, nextExpected, reorder, resultCh, dispatcher, nextDispatch>>
  BY Zenon DEF WorkerTake, collVars, dispVars
<1>2. /\ Len(workCh) >= 1 /\ Len(workCh') = Len(workCh) - 1 /\ Head(workCh) = workCh[1]
      /\ \A i \in 1 .. Len(workCh') : workCh'[i] = workCh[i + 1]
  BY DEF WorkerTake, TypeOK
<1>3. FirstQueued' = FirstQueued + 1
  BY <1>1, <1>2 DEF FirstQueued
<1>4. \A i \in 1 .. Len(workCh) : workCh[i] = FirstQueued + i - 1
  BY Zenon DEF PoolInv, FlowInv, Queued
<1>5. Queued'
  <2>1. \A i \in 1 .. Len(workCh') : i + 1 \in 1 .. Len(workCh)
    BY <1>2
  <2>2. \A i \in 1 .. Len(workCh') : workCh'[i] = FirstQueued + (i + 1) - 1
    BY <1>2, <1>4, <2>1, Zenon
  <2>3. QED
    BY <1>3, <2>2 DEF Queued
<1>6. /\ worker[w].at = "idle"
      /\ worker'[w] = [at |-> "lookup", res |-> [epoch |-> FirstQueued, kind |-> "error"]]
      /\ \A v \in Worker \ {w} : worker'[v] = worker[v]
  <2>1. Head(workCh) = FirstQueued
    <3>1. 1 \in 1 .. Len(workCh) /\ FirstQueued \in Int
      BY <1>2
    <3>2. workCh[1] = FirstQueued + 1 - 1
      BY <1>4, <3>1, Zenon
    <3>3. QED
      BY <1>2, <3>1, <3>2
  <2>2. QED
    BY <2>1, Zenon DEF WorkerTake, SetWorker, TypeOK
<1>7. ~Busy(w) /\ Busy(w)' /\ worker'[w].res.epoch = FirstQueued /\ worker'[w].at # "exit"
  BY <1>6 DEF Busy
<1>8. \A v \in Worker \ {w} : (Busy(v)' <=> Busy(v)) /\ worker'[v].res = worker[v].res
  BY <1>6, Zenon DEF Busy
<1>9. ASSUME collector = "run" PROVE Present' /\ Within' /\ Once'
  <2>1. Present /\ Within /\ Once
    BY <1>9, Zenon DEF PoolInv, FlowInv
  <2>2. InFlight' = InFlight \cup {FirstQueued} /\ FirstQueued \notin InFlight
    BY <1>1, <1>3, <2>1 DEF InFlight, Within
  <2>3. Present'
    <3>1. ASSUME NEW e \in InFlight
          PROVE  \/ \E v \in Worker : Busy(v)' /\ worker'[v].res.epoch = e
                 \/ \E i \in 1 .. Len(resultCh') : resultCh'[i].epoch = e
                 \/ \E r \in reorder' : r.epoch = e
      BY <1>1, <1>7, <1>8, <2>1, Zenon DEF Present
    <3>2. QED
      BY <1>7, <2>2, <3>1, Zenon DEF Present
  <2>4. Within'
    BY <1>1, <1>3, <1>7, <1>8, <2>1, <2>2 DEF Within
  <2>5. Once'
    <3>1. /\ \A v \in Worker \ {w} : Busy(v) => worker[v].res.epoch # FirstQueued
          /\ \A i \in 1 .. Len(resultCh) : resultCh[i].epoch # FirstQueued
          /\ \A r \in reorder : r.epoch # FirstQueued
      BY <2>1, <2>2, Zenon DEF Within
    <3>2. \A u, v \in Worker :
            Busy(u)' /\ Busy(v)' /\ worker'[u].res.epoch = worker'[v].res.epoch => u = v
      BY <1>7, <1>8, <2>1, <3>1, Zenon DEF Once
    <3>3. ASSUME NEW v \in Worker, Busy(v)'
          PROVE  /\ \A i \in 1 .. Len(resultCh) : worker'[v].res.epoch # resultCh[i].epoch
                 /\ \A r \in reorder : worker'[v].res.epoch # r.epoch
      <4>1. CASE v = w
        BY <1>7, <3>1, <4>1, Zenon
      <4>2. CASE v # w
        <5>1. Busy(v) /\ worker'[v].res = worker[v].res
          BY <1>8, <3>3, <4>2, Zenon
        <5>2. QED
          BY <2>1, <5>1, Zenon DEF Once
      <4>3. QED
        BY <4>1, <4>2, Zenon
    <3>4. QED
      BY <1>1, <2>1, <3>2, <3>3, Zenon DEF Once
  <2>6. QED
    BY <2>3, <2>4, <2>5
<1>10. ShutInOrder'
  <2>1. workCh # <<>>
    BY Zenon DEF WorkerTake
  <2>2. \A v \in Worker : worker'[v].at = "exit" <=> worker[v].at = "exit"
    BY <1>6, <1>7, Zenon
  <2>3. QED
    BY <1>1, <2>1, <2>2, Zenon DEF PoolInv, ShutInOrder, ErrorAhead
<1>11. QED
  BY <1>1, <1>5, <1>9, <1>10, Zenon DEF PoolInv, FlowInv

(* A worker goes on with its epoch, or returns with nothing left to do.    *)
LEMMA WorkPool ==
  ASSUME TypeOK, PoolInv, NEW w \in Worker,
         WorkerExit(w) \/ WorkerLookup(w) \/ WorkerBuild(w) \/ WorkerFail(w)
  PROVE  PoolInv'
<1> USE PoolNumbers
<1>1. UNCHANGED <<collector, nextExpected, reorder, resultCh, workCh, dispatcher, nextDispatch>>
  BY Zenon DEF WorkerExit, WorkerLookup, WorkerBuild, WorkerFail, collVars, dispVars
<1>2. \A v \in Worker \ {w} : worker'[v] = worker[v]
  BY Zenon DEF WorkerExit, WorkerLookup, WorkerBuild, WorkerFail, SetWorker, TypeOK
<1>3. /\ Busy(w)' <=> Busy(w)
      /\ Busy(w) => worker'[w].res.epoch = worker[w].res.epoch
      /\ worker[w].at # "exit"
      /\ worker'[w].at = "exit" => WorkerExit(w)
  <2>1. CASE WorkerExit(w)
    BY <2>1 DEF WorkerExit, Busy, TypeOK, WorkerState
  <2>2. CASE WorkerLookup(w)
    BY <2>2 DEF WorkerLookup, SetWorker, Busy, TypeOK, WorkerState
  <2>3. CASE WorkerBuild(w)
    BY <2>3, Zenon DEF WorkerBuild, SetWorker, Busy, TypeOK, WorkerState
  <2>4. CASE WorkerFail(w)
    BY <2>4, Zenon DEF WorkerFail, SetWorker, Busy, TypeOK, WorkerState
  <2>5. QED
    BY <2>1, <2>2, <2>3, <2>4, Zenon
<1>4. \A v \in Worker : /\ Busy(v)' <=> Busy(v)
                        /\ Busy(v) => worker'[v].res.epoch = worker[v].res.epoch
  BY <1>2, <1>3, Zenon DEF Busy
<1>5. FirstQueued' = FirstQueued /\ Queued' /\ InFlight' = InFlight
  BY <1>1, Zenon DEF PoolInv, FlowInv, Queued, FirstQueued, InFlight
<1>6. ASSUME collector = "run" PROVE Present' /\ Within' /\ Once'
  <2>1. Present /\ Within /\ Once
    BY <1>6, Zenon DEF PoolInv, FlowInv
  <2>2. Present'
    BY <1>1, <1>4, <1>5, <2>1, Zenon DEF Present
  <2>3. Within'
    BY <1>1, <1>4, <1>5, <2>1, Zenon DEF Within
  <2>4. Once'
    <3>1. \A u, v \in Worker :
            Busy(u)' /\ Busy(v)' /\ worker'[u].res.epoch = worker'[v].res.epoch => u = v
      BY <1>4, <2>1, Zenon DEF Once
    <3>2. ASSUME NEW v \in Worker, Busy(v)'
          PROVE  /\ \A i \in 1 .. Len(resultCh) : worker'[v].res.epoch # resultCh[i].epoch
                 /\ \A r \in reorder : worker'[v].res.epoch # r.epoch
      <4>1. Busy(v) /\ worker'[v].res.epoch = worker[v].res.epoch
        BY <1>4, <3>2, Zenon
      <4>2. QED
        BY <2>1, <4>1, Zenon DEF Once
    <3>3. QED
      BY <1>1, <2>1, <3>1, <3>2, Zenon DEF Once
  <2>5. QED
    BY <2>2, <2>3, <2>4
<1>7. ShutInOrder'
  <2>1. CASE WorkerExit(w)
    <3>1. workCh' = <<>> /\ dispatcher' # "send"
      BY <1>1, <2>1, Zenon DEF WorkerExit, WorkChClosed
    <3>2. worker'[w].at = "exit"
      BY <2>1 DEF WorkerExit, TypeOK, WorkerState
    <3>3. QED
      BY <1>1, <1>2, <3>1, <3>2, Zenon DEF PoolInv, ShutInOrder
  <2>2. CASE ~WorkerExit(w)
    <3>1. \A v \in Worker : worker'[v].at = "exit" <=> worker[v].at = "exit"
      BY <1>2, <1>3, <2>2, Zenon
    <3>2. QED
      BY <1>1, <3>1, Zenon DEF PoolInv, ShutInOrder, ErrorAhead
  <2>3. QED
    BY <2>1, <2>2, Zenon
<1>8. QED
  BY <1>1, <1>5, <1>6, <1>7, Zenon DEF PoolInv, FlowInv

(* A worker hands its result over; one that sends an error returns, and    *)
(* the error is in the channel then.                                       *)
LEMMA SendPool ==
  ASSUME TypeOK, PoolInv, NEW w \in Worker, WorkerSend(w)
  PROVE  PoolInv'
<1> USE PoolNumbers
<1> DEFINE last == Len(resultCh) + 1
<1>1. UNCHANGED <<collector, nextExpected, reorder, workCh, dispatcher, nextDispatch>>
  BY Zenon DEF WorkerSend, collVars, dispVars
<1>2. /\ \A v \in Worker \ {w} : worker'[v] = worker[v]
      /\ worker[w].at = "send" /\ worker'[w].at \in {"idle", "exit"}
      /\ worker'[w].at = "exit" <=> worker[w].res.kind = "error"
  BY Zenon DEF WorkerSend, TypeOK, WorkerState
<1>3. /\ Len(resultCh') = last
      /\ \A i \in 1 .. Len(resultCh) : resultCh'[i] = resultCh[i]
      /\ resultCh'[last] = worker[w].res
  <2>1. resultCh \in Seq(Result) /\ worker[w].res \in Result
    BY Zenon DEF TypeOK
  <2>2. QED
    BY <2>1 DEF WorkerSend
<1>4. \A i : i \in 1 .. Len(resultCh') <=> i \in 1 .. Len(resultCh) \/ i = last
  BY <1>3
<1>5. Busy(w) /\ ~Busy(w)' /\ last \notin 1 .. Len(resultCh)
  BY <1>2 DEF Busy
<1>6. \A v \in Worker \ {w} : (Busy(v)' <=> Busy(v)) /\ worker'[v].res = worker[v].res
  BY <1>2 DEF Busy
<1>7. FirstQueued' = FirstQueued /\ Queued' /\ InFlight' = InFlight
  BY <1>1 DEF PoolInv, FlowInv, Queued, FirstQueued, InFlight
<1> HIDE DEF last
<1>8. ASSUME collector = "run" PROVE Present' /\ Within' /\ Once'
  <2>1. Present /\ Within /\ Once
    BY <1>8 DEF PoolInv, FlowInv
  <2>2. Present'
    <3>1. ASSUME NEW e \in InFlight
          PROVE  \/ \E v \in Worker : Busy(v)' /\ worker'[v].res.epoch = e
                 \/ \E i \in 1 .. Len(resultCh') : resultCh'[i].epoch = e
                 \/ \E r \in reorder' : r.epoch = e
      BY <1>1, <1>3, <1>4, <1>5, <1>6, <2>1 DEF Present
    <3>2. QED
      BY <1>7, <3>1, Zenon DEF Present
  <2>3. Within'
    BY <1>1, <1>3, <1>4, <1>5, <1>6, <1>7, <2>1, Zenon DEF Within
  <2>4. Once'
    <3>1. \A u, v \in Worker :
            Busy(u)' /\ Busy(v)' /\ worker'[u].res.epoch = worker'[v].res.epoch => u = v
      BY <1>5, <1>6, <2>1, Zenon DEF Once
    <3>2. ASSUME NEW i \in 1 .. Len(resultCh'), NEW j \in 1 .. Len(resultCh'),
                 resultCh'[i].epoch = resultCh'[j].epoch
          PROVE  i = j
      <4>1. \A k \in 1 .. Len(resultCh) : resultCh'[k].epoch # resultCh'[last].epoch
        <5>1. \A k \in 1 .. Len(resultCh) : worker[w].res.epoch # resultCh[k].epoch
          BY <1>5, <2>1, Zenon DEF Once
        <5>2. QED
          BY <1>3, <5>1, Zenon
      <4>2. CASE i = last \/ j = last
        BY <1>4, <3>2, <4>1, <4>2, Zenon
      <4>3. CASE i # last /\ j # last
        <5>1. /\ i \in 1 .. Len(resultCh) /\ j \in 1 .. Len(resultCh)
              /\ resultCh[i].epoch = resultCh[j].epoch
          BY <1>3, <1>4, <3>2, <4>3, Zenon
        <5>2. QED
          BY <2>1, <5>1, Zenon DEF Once
      <4>4. QED
        BY <4>2, <4>3, Zenon
    <3>3. ASSUME NEW v \in Worker, NEW i \in 1 .. Len(resultCh'), Busy(v)'
          PROVE  worker'[v].res.epoch # resultCh'[i].epoch
      <4>1. v # w /\ Busy(v) /\ worker'[v].res = worker[v].res
        BY <1>5, <1>6, <3>3, Zenon
      <4>2. CASE i = last
        BY <1>3, <1>5, <2>1, <4>1, <4>2, Zenon DEF Once
      <4>3. CASE i \in 1 .. Len(resultCh)
        <5>1. worker[v].res.epoch # resultCh[i].epoch
          BY <2>1, <4>1, <4>3, Zenon DEF Once
        <5>2. QED
          BY <1>3, <4>1, <4>3, <5>1, Zenon
      <4>4. QED
        BY <1>4, <4>2, <4>3, Zenon
    <3>4. \A v \in Worker, r \in reorder : Busy(v)' => worker'[v].res.epoch # r.epoch
      BY <1>5, <1>6, <2>1, Zenon DEF Once
    <3>5. ASSUME NEW i \in 1 .. Len(resultCh'), NEW r \in reorder
          PROVE  resultCh'[i].epoch # r.epoch
      <4>1. CASE i = last
        <5>1. worker[w].res.epoch # r.epoch
          BY <1>5, <2>1, Zenon DEF Once
        <5>2. QED
          BY <1>3, <4>1, <5>1, Zenon
      <4>2. CASE i \in 1 .. Len(resultCh)
        <5>1. resultCh'[i] = resultCh[i] /\ resultCh[i].epoch # r.epoch
          BY <1>3, <2>1, <4>2, Zenon DEF Once
        <5>2. QED
          BY <5>1, Zenon
      <4>3. QED
        BY <1>4, <4>1, <4>2, Zenon
    <3>6. QED
      BY <1>1, <2>1, <3>1, <3>2, <3>3, <3>4, <3>5, Zenon DEF Once
  <2>5. QED
    BY <2>2, <2>3, <2>4
<1>9. ShutInOrder'
  <2>1. ErrorAhead => ErrorAhead'
    BY <1>1, <1>3, <1>4, Zenon DEF ErrorAhead
  <2>2. worker'[w].at = "exit" => ErrorAhead'
    BY <1>2, <1>3, <1>4 DEF ErrorAhead
  <2>3. worker[w].at # "exit"
    BY <1>2, Zenon
  <2>4. QED
    BY <1>1, <1>2, <2>1, <2>2, <2>3, Zenon DEF PoolInv, ShutInOrder
<1>10. QED
  BY <1>1, <1>7, <1>8, <1>9, Zenon DEF PoolInv, FlowInv

(* The steps of the workers.                                               *)
LEMMA WorkerPool == TypeOK /\ PoolInv /\ (\E w \in Worker : WorkerStep(w)) => PoolInv'
BY TakePool, WorkPool, SendPool, Zenon DEF WorkerStep

(* The collector moves a result to the reorder map; no other result there  *)
(* is about the same epoch, so that none is overwritten.                   *)
LEMMA ReceivePool ==
  ASSUME TypeOK, PoolInv, CollectorReceive
  PROVE  PoolInv'
<1> USE PoolNumbers
<1> DEFINE head == resultCh[1]
<1>1. UNCHANGED <<collector, nextExpected, worker, workCh, dispatcher, nextDispatch>>
  BY Zenon DEF CollectorReceive, dispVars
<1>2. /\ Len(resultCh) >= 1 /\ Len(resultCh') = Len(resultCh) - 1 /\ Head(resultCh) = head
      /\ \A i \in 1 .. Len(resultCh') : resultCh'[i] = resultCh[i + 1]
  BY DEF CollectorReceive, TypeOK
<1>3. \A i \in 1 .. Len(resultCh') : i + 1 \in 1 .. Len(resultCh) /\ i + 1 # 1
  BY <1>2
<1>4. \A i \in 1 .. Len(resultCh) : i = 1 \/ (i - 1 \in 1 .. Len(resultCh') /\ (i - 1) + 1 = i)
  BY <1>2
<1>5. 1 \in 1 .. Len(resultCh)
  BY <1>2
<1>6. Present /\ Within /\ Once /\ collector = "run"
  BY Zenon DEF CollectorReceive, PoolInv, FlowInv
<1>7. reorder' = reorder \cup {head} /\ head \notin reorder
  <2>1. \A r \in reorder : r.epoch # head.epoch
    BY <1>5, <1>6, Zenon DEF Once
  <2>2. QED
    BY <1>2, <2>1 DEF CollectorReceive
<1>8. FirstQueued' = FirstQueued /\ Queued' /\ InFlight' = InFlight
  BY <1>1, Zenon DEF PoolInv, FlowInv, Queued, FirstQueued, InFlight
<1>9. \A v \in Worker : Busy(v)' <=> Busy(v)
  BY <1>1, Zenon DEF Busy
<1>10. \A i \in 1 .. Len(resultCh) :
         resultCh[i] = head \/ \E j \in 1 .. Len(resultCh') : resultCh'[j] = resultCh[i]
  <2> SUFFICES ASSUME NEW i \in 1 .. Len(resultCh), i # 1
               PROVE  \E j \in 1 .. Len(resultCh') : resultCh'[j] = resultCh[i]
    BY Zenon
  <2>1. i - 1 \in 1 .. Len(resultCh') /\ resultCh'[i - 1] = resultCh[(i - 1) + 1]
    BY <1>2, <1>4, Zenon
  <2>2. QED
    BY <1>4, <2>1, Zenon
<1>11. \A i \in 1 .. Len(resultCh') : resultCh'[i].epoch # head.epoch
  BY <1>2, <1>3, <1>5, <1>6, Zenon DEF Once
<1> HIDE DEF head
<1>12. Present'
  <2>1. ASSUME NEW e \in InFlight
        PROVE  \/ \E v \in Worker : Busy(v)' /\ worker'[v].res.epoch = e
               \/ \E i \in 1 .. Len(resultCh') : resultCh'[i].epoch = e
               \/ \E r \in reorder' : r.epoch = e
    <3>1. CASE \E v \in Worker : Busy(v) /\ worker[v].res.epoch = e
      BY <1>1, <1>9, <3>1, Zenon
    <3>2. CASE \E i \in 1 .. Len(resultCh) : resultCh[i].epoch = e
      BY <1>7, <1>10, <3>2, Zenon
    <3>3. CASE \E r \in reorder : r.epoch = e
      BY <1>7, <3>3, Zenon
    <3>4. QED
      BY <1>6, <3>1, <3>2, <3>3, Zenon DEF Present
  <2>2. QED
    BY <1>8, <2>1, Zenon DEF Present
<1>13. Within'
  BY <1>1, <1>2, <1>3, <1>5, <1>6, <1>7, <1>8, <1>9, Zenon DEF Within, head
<1>14. Once'
  <2>1. /\ \A v \in Worker : Busy(v) => worker[v].res.epoch # head.epoch
        /\ \A r \in reorder : r.epoch # head.epoch
    BY <1>5, <1>6, Zenon DEF Once, head
  <2>2. ASSUME NEW i \in 1 .. Len(resultCh'), NEW j \in 1 .. Len(resultCh'),
               resultCh'[i].epoch = resultCh'[j].epoch
        PROVE  i = j
    <3>1. i + 1 \in 1 .. Len(resultCh) /\ j + 1 \in 1 .. Len(resultCh)
      BY <1>3, Zenon
    <3>2. resultCh[i + 1].epoch = resultCh[j + 1].epoch
      BY <1>2, <2>2, Zenon
    <3>3. i + 1 = j + 1
      BY <1>6, <3>1, <3>2, Zenon DEF Once
    <3>4. QED
      BY <3>3
  <2>3. \A r, s \in reorder' : r.epoch = s.epoch => r = s
    BY <1>6, <1>7, <2>1 DEF Once
  <2>4. ASSUME NEW v \in Worker, NEW i \in 1 .. Len(resultCh'), Busy(v)
        PROVE  worker[v].res.epoch # resultCh'[i].epoch
    <3>1. i + 1 \in 1 .. Len(resultCh) /\ resultCh'[i] = resultCh[i + 1]
      BY <1>2, <1>3, Zenon
    <3>2. QED
      BY <1>6, <2>4, <3>1, Zenon DEF Once
  <2>5. \A v \in Worker, r \in reorder' : Busy(v) => worker[v].res.epoch # r.epoch
    BY <1>6, <1>7, <2>1, Zenon DEF Once
  <2>6. \A i \in 1 .. Len(resultCh'), r \in reorder' : resultCh'[i].epoch # r.epoch
    <3>1. ASSUME NEW i \in 1 .. Len(resultCh'), NEW r \in reorder
          PROVE  resultCh'[i].epoch # r.epoch
      <4>1. i + 1 \in 1 .. Len(resultCh) /\ resultCh'[i] = resultCh[i + 1]
        BY <1>2, <1>3, Zenon
      <4>2. QED
        BY <1>6, <4>1, Zenon DEF Once
    <3>2. QED
      BY <1>7, <1>11, <3>1, Zenon
  <2>7. QED
    BY <1>1, <1>6, <1>9, <2>2, <2>3, <2>4, <2>5, <2>6, Zenon DEF Once
<1>15. ShutInOrder'
  <2>1. ErrorAhead => ErrorAhead'
    BY <1>7, <1>10, Zenon DEF ErrorAhead
  <2>2. QED
    BY <1>1, <2>1 DEF PoolInv, ShutInOrder
<1>16. QED
  BY <1>8, <1>12, <1>13, <1>14, <1>15, Zenon DEF PoolInv, FlowInv

(* The collector forwards the epoch it waits for, or stops.                *)
LEMMA ForwardPool ==
  ASSUME TypeOK, PoolInv, CollectorFlush \/ CollectorAbort \/ CollectorFinish
  PROVE  PoolInv'
<1> USE PoolNumbers
<1>1. UNCHANGED <<worker, workCh, resultCh, dispatcher, nextDispatch>>
  BY Zenon DEF CollectorFlush, CollectorAbort, CollectorFinish, dispVars
<1>2. FirstQueued' = FirstQueued /\ Queued'
  BY <1>1, Zenon DEF PoolInv, FlowInv, Queued, FirstQueued
<1>3. CASE collector' # "run"
  BY <1>2, <1>3, Zenon DEF PoolInv, FlowInv, ShutInOrder
<1>4. CASE collector' = "run"
  <2>1. collector = "run" /\ \E r \in InOrder : Forward(r) /\ r.kind # "error"
    BY <1>4, Zenon DEF CollectorFlush, CollectorAbort, CollectorFinish, Forward
  <2>2. PICK r \in reorder : /\ r.epoch = nextExpected /\ r.kind # "error"
                             /\ reorder' = reorder \ {r}
                             /\ nextExpected' = nextExpected + 1
    BY <2>1, Zenon DEF InOrder, Forward
  <2>3. Present /\ Within /\ Once
    BY <2>1 DEF PoolInv, FlowInv
  <2>4. \A v \in Worker : Busy(v)' <=> Busy(v)
    BY <1>1 DEF Busy
  <2>5. InFlight' = InFlight \ {nextExpected} /\ nextExpected \in InFlight
    BY <1>2, <2>2, <2>3 DEF InFlight, Within
  <2>6. Present'
    BY <1>1, <2>2, <2>3, <2>4, <2>5, Zenon DEF Present
  <2>7. /\ \A v \in Worker : Busy(v) => worker[v].res.epoch # nextExpected
        /\ \A i \in 1 .. Len(resultCh) : resultCh[i].epoch # nextExpected
        /\ \A s \in reorder' : s.epoch # nextExpected
    BY <2>2, <2>3, Zenon DEF Once
  <2>8. nextExpected' <= FirstQueued'
    BY <1>2, <2>2, <2>5 DEF InFlight
  <2>9. Within'
    BY <1>1, <2>2, <2>3, <2>4, <2>5, <2>7, <2>8, Zenon DEF Within
  <2>10. Once'
    BY <1>1, <2>2, <2>3, <2>4 DEF Once
  <2>11. ErrorAhead => ErrorAhead'
    BY <1>1, <2>2, Zenon DEF ErrorAhead
  <2>12. ShutInOrder'
    BY <1>1, <2>1, <2>11, Zenon DEF PoolInv, ShutInOrder
  <2>13. QED
    BY <1>2, <2>6, <2>9, <2>10, <2>12, Zenon DEF PoolInv, FlowInv
<1>5. QED
  BY <1>3, <1>4

(* A new attempt and a lost process leave an empty pool.                   *)
LEMMA FreshPool ==
  ASSUME TypeOK', Crash \/ \E from \in Int : NewAttempt(from)
  PROVE  PoolInv'
<1>1. EmptyPool'
  BY DEF Crash, NewAttempt, EmptyPool, Busy, IdleWorker
<1>2. QED
  BY <1>1, PoolEmpty, PTL

(* Every step keeps what is in the pool.                                   *)
LEMMA NextPool == TypeOK /\ PoolInv /\ [Next]_vars => PoolInv'
<1> SUFFICES ASSUME TypeOK, PoolInv, [Next]_vars PROVE PoolInv'
  OBVIOUS
<1>1. TypeOK'
  BY NextTypeOK
<1>2. CASE Collector
  BY <1>2, ReceivePool, ForwardPool, Zenon DEF Collector
<1>3. CASE Consumer
  <2>1. CASE Retry
    <3>1. nextResume \in Int
      BY PipelineAssumption DEF TypeOK
    <3>2. QED
      BY <1>1, <2>1, <3>1, FreshPool DEF Retry
  <2>2. CASE ~Retry
    <3>1. UNCHANGED goroutines
      BY <1>3, <2>2, Zenon
      DEF Consumer, ConsumerReceive, SaveEpoch, SaveBlobs, SetBackfillCursor, SaveEpochFails,
          SaveBlobsFails, SetBackfillCursorFails, Drain, PendingExhausted, Join, SleepInterrupted
    <3>2. QED
      BY <3>1, PoolKept
  <2>3. QED
    BY <2>1, <2>2
<1>4. CASE Shutdown \/ UNCHANGED vars
  BY <1>4, PoolKept DEF Shutdown, vars, goroutines
<1>5. CASE Crash
  BY <1>1, <1>5, FreshPool
<1>6. CASE Restart
  <2>1. ResumePoint \in Int
    BY ResumePointType, PipelineAssumption
  <2>2. QED
    BY <1>1, <1>6, <2>1, FreshPool DEF Restart
<1>7. QED
  BY <1>2, <1>3, <1>4, <1>5, <1>6, DispatcherPool, WorkerPool DEF Next

(* The pool holds what was dispatched in every run of the pipeline.        *)
THEOREM PipelinePool == Spec => [](TypeOK /\ PoolInv)
<1>1. Init => TypeOK /\ PoolInv
  <2> SUFFICES ASSUME Init PROVE TypeOK /\ PoolInv
    OBVIOUS
  <2>1. TypeOK
    BY InitTypeOK
  <2>2. QED
    BY <2>1, PoolEmpty, Zenon DEF Init, EmptyPool, Busy, IdleWorker
<1>2. (TypeOK /\ PoolInv) /\ [Next]_vars => (TypeOK /\ PoolInv)'
  BY NextTypeOK, NextPool, Zenon
<1>3. QED
  BY <1>1, <1>2, PTL DEF Spec

(* Nothing and a single element are what NothingLost counts; that is all   *)
(* it needs to know of Cardinality.                                        *)
LEMMA CardinalityOne == Cardinality({}) = 0 /\ \A x : Cardinality({x}) = 1
<1> DEFINE Rec(S, f) == [T \in SUBSET S |-> IF T = {} THEN 0 ELSE 1 + f[T \ {CHOOSE y : y \in T}]]
           CS(S) == CHOOSE f : f = Rec(S, f)
<1>1. \A S : Cardinality(S) = CS(S)[S]
  BY Zenon DEF Cardinality
<1>2. Cardinality({}) = 0
  <2>1. \E f : f = Rec({}, f)
    <3>1. [T \in SUBSET {} |-> 0] = Rec({}, [T \in SUBSET {} |-> 0])
      OBVIOUS
    <3>2. QED
      BY <3>1, Zenon
  <2>2. CS({}) = Rec({}, CS({}))
    BY <2>1, Zenon
  <2> HIDE DEF CS
  <2>3. CS({})[{}] = 0
    BY <2>2
  <2>4. QED
    BY <1>1, <2>3
<1>3. ASSUME NEW x PROVE Cardinality({x}) = 1
  <2> DEFINE g == [T \in SUBSET {x} |-> IF T = {} THEN 0 ELSE 1]
  <2>0. {x} \ {CHOOSE y : y \in {x}} = {}
    OBVIOUS
  <2>1. \E f : f = Rec({x}, f)
    <3>1. \A T \in SUBSET {x} : T = {} \/ T = {x}
      OBVIOUS
    <3>2. g = Rec({x}, g)
      BY <2>0, <3>1
    <3>3. QED
      BY <3>2, Zenon
  <2>2. CS({x}) = Rec({x}, CS({x}))
    BY <2>1, Zenon
  <2> HIDE DEF CS
  <2>3. CS({x})[{}] = 0
    BY <2>2, Zenon
  <2>4. CS({x})[{x}] = 1 + CS({x})[{x} \ {CHOOSE y : y \in {x}}]
    BY <2>2, Zenon
  <2>5. CS({x})[{x}] = 1
    BY <2>0, <2>3, <2>4
  <2>6. QED
    BY <1>1, <2>5
<1>4. QED
  BY <1>2, <1>3, Zenon

(* An epoch that is queued is nowhere else, and one that is not is at the  *)
(* one place where Present finds it.                                       *)
LEMMA OnePlace ==
  ASSUME TypeOK, PoolInv, collector = "run", NEW e \in nextExpected .. nextDispatch - 1
  PROVE  Cardinality(InWorkCh(e)) + Cardinality(InWorker(e))
           + Cardinality(InResultCh(e)) + Cardinality(InReorder(e)) = 1
<1> USE PoolNumbers
<1>1. Queued /\ Present /\ Within /\ Once
  BY Zenon DEF PoolInv, FlowInv
<1>2. \A x : Cardinality({x}) = 1
  BY CardinalityOne, Zenon
<1>3. Cardinality({}) = 0
  BY CardinalityOne, Zenon
<1>4. CASE e >= FirstQueued
  <2> DEFINE i == e - FirstQueued + 1
  <2>1. i \in 1 .. Len(workCh) /\ \A j \in 1 .. Len(workCh) : FirstQueued + j - 1 = e => j = i
    <3>1. /\ e \in Int /\ e <= nextDispatch - 1 /\ FirstQueued = nextDispatch - Len(workCh)
          /\ nextDispatch \in Int /\ Len(workCh) \in Nat
      BY DEF FirstQueued
    <3>2. QED
      BY <1>4, <3>1
  <2>2. InWorkCh(e) = {i}
    <3>1. workCh[i] = FirstQueued + i - 1
      BY <1>1, <2>1, Zenon DEF Queued
    <3>2. FirstQueued + i - 1 = e
      OBVIOUS
    <3>3. QED
      BY <1>1, <2>1, <3>1, <3>2, Zenon DEF Queued, InWorkCh
  <2>3. e \notin InFlight
    BY <1>4 DEF InFlight
  <2>4. InWorker(e) = {} /\ InResultCh(e) = {} /\ InReorder(e) = {}
    BY <1>1, <2>3, Zenon DEF Within, Busy, InWorker, InResultCh, InReorder
  <2>5. /\ Cardinality(InWorkCh(e)) = 1 /\ Cardinality(InWorker(e)) = 0
        /\ Cardinality(InResultCh(e)) = 0 /\ Cardinality(InReorder(e)) = 0
    BY <1>2, <1>3, <2>2, <2>4, Zenon
  <2>6. QED
    BY <2>5
<1>5. CASE e < FirstQueued
  <2>1. e \in InFlight
    BY <1>5 DEF InFlight
  <2>2. InWorkCh(e) = {}
    <3>1. \A j \in 1 .. Len(workCh) : workCh[j] = FirstQueued + j - 1
      BY <1>1, Zenon DEF Queued
    <3>2. \A j \in 1 .. Len(workCh) : FirstQueued + j - 1 # e
      BY <1>5
    <3>3. QED
      BY <3>1, <3>2, Zenon DEF InWorkCh
  <2>3. CASE \E w \in Worker : Busy(w) /\ worker[w].res.epoch = e
    <3>1. PICK w \in Worker : Busy(w) /\ worker[w].res.epoch = e
      BY <2>3, Zenon
    <3>2. InWorker(e) = {w}
      <4>1. \A v \in Worker : Busy(v) /\ worker[v].res.epoch = e <=> v = w
        BY <1>1, <3>1, Zenon DEF Once
      <4>2. QED
        BY <4>1, Zenon DEF Busy, InWorker
    <3>3. InResultCh(e) = {} /\ InReorder(e) = {}
      BY <1>1, <3>1, Zenon DEF Once, InResultCh, InReorder
    <3>4. /\ Cardinality(InWorkCh(e)) = 0 /\ Cardinality(InWorker(e)) = 1
          /\ Cardinality(InResultCh(e)) = 0 /\ Cardinality(InReorder(e)) = 0
      BY <1>2, <1>3, <2>2, <3>2, <3>3, Zenon
    <3>5. QED
      BY <3>4
  <2>4. CASE \E i \in 1 .. Len(resultCh) : resultCh[i].epoch = e
    <3>1. PICK i \in 1 .. Len(resultCh) : resultCh[i].epoch = e
      BY <2>4, Zenon
    <3>2. InResultCh(e) = {i}
      BY <1>1, <3>1, Zenon DEF Once, InResultCh
    <3>3. InWorker(e) = {} /\ InReorder(e) = {}
      BY <1>1, <3>1, Zenon DEF Once, Busy, InWorker, InReorder
    <3>4. /\ Cardinality(InWorkCh(e)) = 0 /\ Cardinality(InWorker(e)) = 0
          /\ Cardinality(InResultCh(e)) = 1 /\ Cardinality(InReorder(e)) = 0
      BY <1>2, <1>3, <2>2, <3>2, <3>3, Zenon
    <3>5. QED
      BY <3>4
  <2>5. CASE \E r \in reorder : r.epoch = e
    <3>1. PICK r \in reorder : r.epoch = e
      BY <2>5, Zenon
    <3>2. InReorder(e) = {r}
      BY <1>1, <3>1, Zenon DEF Once, InReorder
    <3>3. InWorker(e) = {} /\ InResultCh(e) = {}
      BY <1>1, <3>1, Zenon DEF Once, Busy, InWorker, InResultCh
    <3>4. /\ Cardinality(InWorkCh(e)) = 0 /\ Cardinality(InWorker(e)) = 0
          /\ Cardinality(InResultCh(e)) = 0 /\ Cardinality(InReorder(e)) = 1
      BY <1>2, <1>3, <2>2, <3>2, <3>3, Zenon
    <3>5. QED
      BY <3>4
  <2>6. QED
    BY <1>1, <2>1, <2>3, <2>4, <2>5, Zenon DEF Present
<1>6. QED
  BY <1>4, <1>5

(* No epoch is lost or doubled between the dispatcher and the collector of *)
(* runBackfillPipeline, for any number of workers and any range.           *)
THEOREM PipelineNothingLost == Spec => []NothingLost
<1>1. TypeOK /\ PoolInv => NothingLost
  BY OnePlace, Zenon DEF NothingLost
<1>2. QED
  BY <1>1, PipelinePool, PTL

(* The collector finds resultCh closed only when it has forwarded the last *)
(* epoch: had a worker returned early, its error would still be on its     *)
(* way, and the epoch the collector waits for with it.                     *)
LEMMA FinishComplete ==
  ASSUME TypeOK, PoolInv, CollectorFinish
  PROVE  nextExpected = TargetEpoch + 1
<1> USE PoolNumbers
<1>1. /\ Queued /\ Present /\ Within /\ Once /\ collector = "run" /\ dispatcher = "done"
      /\ resultCh = <<>> /\ InOrder = {}
  BY Zenon DEF CollectorFinish, ResultChClosed, PoolInv, FlowInv
<1>2. /\ nextDispatch = TargetEpoch + 1 /\ \A w \in Worker : worker[w].at = "exit"
      /\ workCh # <<>> => ErrorAhead
  BY <1>1, PipelineAssumption, Zenon DEF PoolInv, ShutInOrder
<1>3. Len(resultCh) = 0
  BY <1>1
<1>4. nextExpected \notin InFlight
  BY <1>1, <1>2, <1>3 DEF Present, Busy, InOrder
<1>5. nextExpected = FirstQueued
  BY <1>1, <1>4 DEF InFlight, Within
<1>6. reorder = {}
  BY <1>1, <1>5 DEF InFlight, Within
<1>7. workCh = <<>>
  BY <1>2, <1>3, <1>6 DEF ErrorAhead
<1>8. Len(workCh) = 0
  BY <1>7
<1>9. QED
  BY <1>2, <1>5, <1>8 DEF FirstQueued

(* What ends an attempt does not change under the others' steps.           *)
LEMMA EndingKept ==
  ASSUME Ending, UNCHANGED <<consVars, collector, pending>>
  PROVE  Ending'
BY DEF Ending, EndsWell, Holding, ConsumerNext, consVars

(* The collector is the last to say that the range is complete.            *)
LEMMA CollectorEnding ==
  ASSUME IInv, PoolInv, Ending, Collector
  PROVE  Ending'
<1>1. TypeOK /\ StrictOrder /\ Len(pending) \in Nat
  BY DEF IInv, TypeOK
<1>2. UNCHANGED consVars
  BY Zenon DEF Collector, CollectorReceive, CollectorFlush, CollectorAbort, CollectorFinish
<1>3. ConsumerNext' = ConsumerNext /\ (Holding' <=> Holding) /\ UNCHANGED <<pc, failed, nextResume>>
  BY <1>2 DEF ConsumerNext, Holding, consVars
<1>4. collector = "run" /\ pc # "join"
  BY Zenon DEF Collector, CollectorReceive, CollectorFlush, CollectorAbort, CollectorFinish, Ending
<1>5. CASE collector' # "ok"
  BY <1>3, <1>4, <1>5 DEF Ending
<1>6. CASE CollectorFlush /\ collector' = "ok"
  <2>1. PICK r \in InOrder : Forward(r) /\ r.kind = "error"
    BY <1>4, <1>6 DEF CollectorFlush, Forward
  <2>2. r \in Result
    BY <1>1, Zenon DEF InOrder, TypeOK
  <2>3. Len(pending') = Len(pending) + 1 /\ pending'[Len(pending) + 1] = r
    BY <1>1, <2>1, <2>2 DEF Forward, TypeOK
  <2>4. pending' # <<>>
    BY <1>1, <2>3
  <2>5. EndsWell'
    BY <2>1, <2>3, <2>4 DEF EndsWell
  <2>6. QED
    BY <1>3, <1>4, <2>5 DEF Ending
<1>7. CASE CollectorFinish
  <2>1. nextExpected = TargetEpoch + 1 /\ UNCHANGED pending
    BY <1>1, <1>7, FinishComplete, Zenon DEF CollectorFinish
  <2>2. pc = "recv" \/ Holding => ConsumerNext + Len(pending) = TargetEpoch + 1
    BY <1>1, <1>4, <2>1, Zenon DEF StrictOrder
  <2>3. QED
    BY <1>3, <1>4, <2>1, <2>2, Zenon DEF Ending, EndsWell
<1>8. QED
  BY <1>4, <1>5, <1>6, <1>7, Zenon DEF Collector, CollectorReceive, CollectorAbort

(* The consumer takes what is left one by one: it meets the error, or the  *)
(* end of the range.                                                       *)
LEMMA ConsumerEnding ==
  ASSUME IInv, Ending, Consumer
  PROVE  Ending'
<1> USE DEF goroutines, collVars
<1>1. /\ TypeOK /\ StrictOrder /\ Len(pending) \in Nat /\ nextResume \in Int
      /\ \A i \in 1 .. Len(pending) : pending[i] \in Result
  BY PipelineAssumption DEF IInv, TypeOK
<1>2. ASSUME pending # <<>>
      PROVE  /\ Len(pending) >= 1 /\ Head(pending) = pending[1]
             /\ Len(Tail(pending)) = Len(pending) - 1
             /\ \A i \in 1 .. Len(Tail(pending)) : Tail(pending)[i] = pending[i + 1]
  BY <1>1, <1>2 DEF TypeOK
<1>3. CASE ConsumerReceive
  <2>1. /\ pc = "recv" /\ pending # <<>> /\ pending' = Tail(pending) /\ ~Holding
        /\ UNCHANGED <<collector, nextResume>>
    BY <1>3 DEF ConsumerReceive, Holding
  <2>2. CASE Head(pending).kind = "error"
    <3>1. failed' /\ pc' = "drain"
      BY <1>3, <2>2, Zenon DEF ConsumerReceive, Abandon
    <3>2. QED
      BY <3>1 DEF Ending, Holding
  <2>3. CASE Head(pending).kind # "error"
    <3>1. Holding' /\ pc' \in {"setCursor", "saveEpoch"} /\ ConsumerNext' = ConsumerNext + 1
          /\ ConsumerNext = nextResume
      BY <1>3, <2>1, <2>3 DEF ConsumerReceive, Holding, ConsumerNext
    <3>2. ASSUME collector = "ok" PROVE EndsWell'
      <4>1. EndsWell
        BY <2>1, <3>2 DEF Ending
      <4>2. CASE pending[Len(pending)].kind = "error"
        <5>1. Len(pending) # 1
          BY <1>2, <2>1, <2>3, <4>2, Zenon
        <5>2. /\ Len(pending') = Len(pending) - 1 /\ Len(pending') >= 1
              /\ Len(pending') \in 1 .. Len(pending')
          <6>1. Len(pending') = Len(pending) - 1 /\ Len(pending) >= 1 /\ Len(pending) \in Nat
            BY <1>1, <1>2, <2>1
          <6>2. QED
            BY <5>1, <6>1
        <5>3. pending'[Len(pending')] = pending[Len(pending') + 1]
          BY <1>2, <2>1, <5>2
        <5>4. pending'[Len(pending')] = pending[Len(pending)]
          BY <1>1, <5>2, <5>3
        <5>5. pending' # <<>>
          BY <5>2
        <5>6. QED
          BY <4>2, <5>4, <5>5 DEF EndsWell
      <4>3. CASE ConsumerNext + Len(pending) = TargetEpoch + 1
        BY <1>1, <1>2, <2>1, <3>1, <4>3 DEF EndsWell
      <4>4. QED
        BY <4>1, <4>2, <4>3, Zenon DEF EndsWell
    <3>3. QED
      BY <2>1, <3>1, <3>2, Zenon DEF Ending
  <2>4. QED
    BY <2>2, <2>3
<1>4. CASE SaveEpoch \/ SaveBlobs
  <2>1. /\ Holding /\ Holding' /\ UNCHANGED <<collector, nextResume, pending>>
        /\ pc' \in {"saveBlobs", "setCursor"}
    BY <1>4, Zenon DEF SaveEpoch, SaveBlobs, Holding
  <2>2. EndsWell' <=> EndsWell
    BY <2>1 DEF EndsWell, ConsumerNext
  <2>3. QED
    BY <2>1, <2>2 DEF Ending
<1>5. CASE SetBackfillCursor
  <2>1. /\ Holding /\ pc' = "recv" /\ ~Holding' /\ UNCHANGED <<collector, pending>>
        /\ nextResume' = nextResume + 1
    BY <1>1, <1>5, Zenon DEF SetBackfillCursor, Holding, StrictOrder
  <2>2. ConsumerNext' = ConsumerNext
    BY <2>1 DEF ConsumerNext
  <2>3. EndsWell' <=> EndsWell
    BY <2>1, <2>2 DEF EndsWell
  <2>4. QED
    BY <2>1, <2>3, Zenon DEF Ending
<1>6. CASE SaveEpochFails \/ SaveBlobsFails \/ SetBackfillCursorFails
  <2>1. failed' /\ pc' = "drain"
    BY <1>6, Zenon DEF SaveEpochFails, SaveBlobsFails, SetBackfillCursorFails, Abandon
  <2>2. QED
    BY <2>1 DEF Ending, Holding
<1>7. CASE Drain
  <2>1. pc = "drain" /\ UNCHANGED <<pc, failed>>
    BY <1>7, Zenon DEF Drain, consVars
  <2>2. QED
    BY <2>1 DEF Ending, Holding
<1>8. CASE PendingExhausted
  <2>1. /\ pc' = "join" /\ pc \in {"recv", "drain"} /\ pending = <<>> /\ collector # "run"
        /\ UNCHANGED <<collector, failed, nextResume>>
    BY <1>8 DEF PendingExhausted, PendingClosed
  <2>2. Len(pending) = 0
    BY <2>1
  <2>3. pc = "recv" /\ collector = "ok" => nextResume = TargetEpoch + 1
    BY <1>1, <2>1, <2>2 DEF Ending, EndsWell, ConsumerNext, Holding
  <2>4. failed \/ collector = "aborted" \/ nextResume = TargetEpoch + 1
    BY <1>1, <2>1, <2>3, Zenon DEF Ending, TypeOK
  <2>5. QED
    BY <2>1, <2>4, Zenon DEF Ending, Holding
<1>9. CASE Join
  <2>1. /\ pc = "join" /\ pc' \in {"stopped", "sleep", "finished"} /\ UNCHANGED nextResume
        /\ pc' = "finished" => ~failed /\ collector # "aborted"
    BY <1>9, Zenon DEF Join, AttemptError
  <2>2. QED
    BY <2>1, Zenon DEF Ending, Holding
<1>10. CASE Retry
  <2>1. pc' = "recv" /\ collector' = "run"
    BY <1>10, Zenon DEF Retry, NewAttempt
  <2>2. QED
    BY <2>1, Zenon DEF Ending
<1>11. CASE SleepInterrupted
  BY <1>11, Zenon DEF SleepInterrupted, Ending, Holding
<1>12. QED
  BY <1>3, <1>4, <1>5, <1>6, <1>7, <1>8, <1>9, <1>10, <1>11, Zenon DEF Consumer

(* Every step leads to a complete range or to an error.                    *)
LEMMA NextEnding == IInv /\ PoolInv /\ Ending /\ [Next]_vars => Ending'
<1> SUFFICES ASSUME IInv, PoolInv, Ending, [Next]_vars PROVE Ending'
  BY Zenon
<1>1. CASE Dispatcher
  BY <1>1, EndingKept, Zenon
  DEF Dispatcher, Dispatch, DispatchAbort, DispatchClose, DispatchFinish, collVars
<1>2. ASSUME NEW w \in Worker, WorkerStep(w) PROVE Ending'
  BY <1>2, EndingKept, Zenon
  DEF WorkerStep, WorkerTake, WorkerExit, WorkerLookup, WorkerBuild, WorkerFail, WorkerSend, collVars
<1>3. CASE Shutdown \/ UNCHANGED vars
  BY <1>3, EndingKept, Zenon DEF Shutdown, vars, goroutines, collVars
<1>4. CASE Crash
  <2>1. pc' = "down"
    BY <1>4 DEF Crash
  <2>2. QED
    BY <2>1, Zenon DEF Ending, Holding
<1>5. CASE Restart
  <2>1. pc' = "recv" /\ collector' = "run"
    BY <1>5 DEF Restart, NewAttempt
  <2>2. QED
    BY <2>1 DEF Ending
<1>6. QED
  BY <1>1, <1>2, <1>3, <1>4, <1>5, CollectorEnding, ConsumerEnding DEF Next

(* runBackfill reports completion only when the whole range has its rows   *)
(* and the cursor is at its end, for any number of workers, faults and     *)
(* restarts: a worker that fails is never mistaken for the end of work.    *)
THEOREM PipelineCompletionIsComplete == Spec => []CompletionIsComplete
<1>1. Init => Ending
  BY DEF Init, Ending
<1>2. Ending /\ IInv /\ PoolInv /\ [Next]_vars => Ending'
  BY NextEnding
<1>3. IInv /\ Ending => CompletionIsComplete
  <2> SUFFICES ASSUME IInv, Ending, pc = "finished"
               PROVE  Epoch \subseteq rows /\ cursor = TargetEpoch /\ nextResume = TargetEpoch + 1
    BY Zenon DEF CompletionIsComplete
  <2>1. nextResume = TargetEpoch + 1
    BY Zenon DEF Ending
  <2>2. nextResume - 1 = TargetEpoch /\ cursor # nextResume /\ nextResume # StartEpoch
    BY <2>1, PipelineAssumption DEF IInv, TypeOK, Epoch
  <2>3. QED
    BY <2>1, <2>2 DEF IInv, ResumeCovered, Epoch
<1>4. QED
  BY <1>1, <1>2, <1>3, PipelineInvariant, PipelinePool, PTL DEF Spec

=============================================================================
