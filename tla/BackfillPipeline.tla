---------------------------- MODULE BackfillPipeline ----------------------------
(***************************************************************************)
(* The backfill goroutine of generator/generator.go: runBackfill (the      *)
(* retry loop) and runBackfillPipeline (one attempt).                      *)
(*                                                                         *)
(* An attempt is a dispatcher, a pool of workers, a collector and the      *)
(* consumer, which is the backfill goroutine itself:                       *)
(*                                                                         *)
(*   dispatcher --workCh--> workers --resultCh--> collector --pending-->   *)
(*   consumer --> PostgreSQL (epoch row, blob rows, cursor)                *)
(*                                                                         *)
(* The three channels are bounded FIFO queues.  A channel is closed when   *)
(* the goroutine that closes it has reached a given place, so "closed" is  *)
(* a predicate and not a variable.  Losing the process (Crash) forgets     *)
(* everything but the database.                                            *)
(***************************************************************************)
EXTENDS Integers, Sequences, FiniteSets

CONSTANTS
  Worker,            (* the BackfillEpochWorkers goroutines                 *)
  StartEpoch,        (* generator.start_epoch                               *)
  TargetEpoch,       (* last epoch of the range handed over by Run          *)
  BlobEpochs,        (* the epochs that carry blobs; the others are empty   *)
  MaxBuildFaults,    (* bound: failing EpochExists / buildEpoch calls       *)
  MaxPersistFaults,  (* bound: failing upload, DB and cursor writes         *)
  MaxCrashes         (* bound: losses of the process                        *)

Epoch == StartEpoch .. TargetEpoch

ASSUME PipelineAssumption ==
  /\ StartEpoch \in Nat
  /\ TargetEpoch \in Nat
  /\ StartEpoch <= TargetEpoch
  /\ BlobEpochs \subseteq Epoch
  /\ Worker # {}
  /\ IsFiniteSet(Worker)
  /\ MaxBuildFaults \in Nat
  /\ MaxPersistFaults \in Nat
  /\ MaxCrashes \in Nat

VARIABLES
  rows,          (* epochs with a row in ipld_epochs                        *)
  blobRows,      (* epochs whose rows in ipld_blobs are saved               *)
  cursor,        (* ipld_state, key backfill_<network>; 0 when absent       *)
  networkRoot,   (* epochs linked from the last uploaded NetworkRoot        *)
  ctxDone,       (* the context of Run is cancelled (shutdown)              *)
  budget,        (* faults that may still happen                            *)
  pc,            (* where the backfill goroutine (the consumer) is          *)
  job,           (* the job the consumer holds                              *)
  nextResume,    (* the first epoch not yet persisted; next in runBackfill  *)
  failed,        (* the attempt returns an error                            *)
  cancelled,     (* the consumer called cancel()                            *)
  dispatcher,    (* where the dispatcher is                                 *)
  nextDispatch,  (* the dispatcher's loop variable                          *)
  workCh,
  worker,        (* per worker: where it is, its epoch, its result          *)
  resultCh,
  collector,     (* where the collector is                                  *)
  nextExpected,
  reorder,       (* the reorder map, as a set of results                    *)
  pending

db        == <<rows, blobRows, cursor, networkRoot>>
env       == <<ctxDone, budget>>
consVars  == <<pc, job, nextResume, failed, cancelled>>
dispVars  == <<dispatcher, nextDispatch>>
collVars  == <<collector, nextExpected, reorder>>
vars == <<db, env, consVars, dispVars, collVars, workCh, worker, resultCh, pending>>

-----------------------------------------------------------------------------
(* Results and jobs carry the same fields.  kind is "skip" for an epoch    *)
(* found by EpochExists, "built" for one buildEpoch returned and "error".  *)

Result == [epoch : Epoch, kind : {"skip", "built", "error"}]

NoResult == [epoch |-> StartEpoch, kind |-> "error"]

WorkerState ==
  [at : {"idle", "lookup", "build", "send", "exit"}, res : Result]

IdleWorker == [at |-> "idle", res |-> NoResult]

(* pctx is derived from ctx and cancelled by the consumer.                 *)
PctxDone == ctxDone \/ cancelled

WorkChClosed   == dispatcher # "send"
ResultChClosed == dispatcher = "done"
DispatchDone   == dispatcher \in {"done", "aborted"}
PendingClosed  == collector # "run"

ChanCap    == Cardinality(Worker)
PendingCap == Cardinality(Worker) + 1

(* A call fails when its context is cancelled or when a fault is left.     *)
MayFail(kind) == PctxDone \/ budget[kind] > 0

Fail(kind) ==
  /\ MayFail(kind)
  /\ budget' = IF PctxDone THEN budget ELSE [budget EXCEPT ![kind] = @ - 1]
  /\ UNCHANGED ctxDone

(* Mutant: every start begins at start_epoch, whatever the cursor says.    *)
ResumeAtStart == StartEpoch

(* Where Run starts the backfill: after the saved cursor, if there is one. *)
ResumePoint == IF cursor > 0 THEN cursor + 1 ELSE StartEpoch

(* Fresh channels and goroutines for an attempt that begins at from.       *)
NewAttempt(from) ==
  /\ pc' = "recv"
  /\ nextResume' = from
  /\ failed' = FALSE
  /\ cancelled' = FALSE
  /\ job' = NoResult
  /\ dispatcher' = "send"
  /\ nextDispatch' = from
  /\ workCh' = <<>>
  /\ worker' = [w \in Worker |-> IdleWorker]
  /\ resultCh' = <<>>
  /\ collector' = "run"
  /\ nextExpected' = from
  /\ reorder' = {}
  /\ pending' = <<>>

-----------------------------------------------------------------------------
(* A process whose Run has just started the backfill goroutine.  Some      *)
(* epochs of the range may be in the database already: an earlier run's    *)
(* live goroutine saved them.                                              *)

Init ==
  /\ rows \in SUBSET Epoch
  /\ blobRows = rows \cap BlobEpochs
  /\ cursor = 0
  /\ networkRoot = {}
  /\ ctxDone = FALSE
  /\ budget = [build |-> MaxBuildFaults, persist |-> MaxPersistFaults, crash |-> MaxCrashes]
  /\ pc = "recv"
  /\ nextResume = StartEpoch
  /\ failed = FALSE
  /\ cancelled = FALSE
  /\ job = NoResult
  /\ dispatcher = "send"
  /\ nextDispatch = StartEpoch
  /\ workCh = <<>>
  /\ worker = [w \in Worker |-> IdleWorker]
  /\ resultCh = <<>>
  /\ collector = "run"
  /\ nextExpected = StartEpoch
  /\ reorder = {}
  /\ pending = <<>>

-----------------------------------------------------------------------------
(* Dispatcher                                                              *)

(* Mutant: the loop bound is off by one, epoch <= targetEpoch+1.           *)
DispatchPastTarget ==
  /\ dispatcher = "send"
  /\ nextDispatch <= TargetEpoch + 1
  /\ Len(workCh) < ChanCap
  /\ workCh' = Append(workCh, nextDispatch)
  /\ nextDispatch' = nextDispatch + 1
  /\ UNCHANGED <<dispatcher, db, env, consVars, collVars, worker, resultCh, pending>>

Dispatch ==
  /\ dispatcher = "send"
  /\ nextDispatch <= TargetEpoch
  /\ Len(workCh) < ChanCap
  /\ workCh' = Append(workCh, nextDispatch)
  /\ nextDispatch' = nextDispatch + 1
  /\ UNCHANGED <<dispatcher, db, env, consVars, collVars, worker, resultCh, pending>>

(* The Done branch of the select: workCh is closed, resultCh is not.       *)
DispatchAbort ==
  /\ dispatcher = "send"
  /\ nextDispatch <= TargetEpoch
  /\ PctxDone
  /\ dispatcher' = "aborted"
  /\ UNCHANGED <<nextDispatch, db, env, consVars, collVars, workCh, worker, resultCh, pending>>

DispatchClose ==
  /\ dispatcher = "send"
  /\ nextDispatch > TargetEpoch
  /\ dispatcher' = "wait"
  /\ UNCHANGED <<nextDispatch, db, env, consVars, collVars, workCh, worker, resultCh, pending>>

(* Mutant: close(resultCh) is forgotten on the normal path too.            *)
DispatchFinishUnclosed ==
  /\ dispatcher = "wait"
  /\ \A w \in Worker : worker[w].at = "exit"
  /\ dispatcher' = "aborted"
  /\ UNCHANGED <<nextDispatch, db, env, consVars, collVars, workCh, worker, resultCh, pending>>

(* workerWg.Wait, then close(resultCh).                                    *)
DispatchFinish ==
  /\ dispatcher = "wait"
  /\ \A w \in Worker : worker[w].at = "exit"
  /\ dispatcher' = "done"
  /\ UNCHANGED <<nextDispatch, db, env, consVars, collVars, workCh, worker, resultCh, pending>>

-----------------------------------------------------------------------------
(* Workers                                                                 *)

SetWorker(w, at, epoch, kind) ==
  worker' = [worker EXCEPT ![w] = [at |-> at, res |-> [epoch |-> epoch, kind |-> kind]]]

(* for epoch := range workCh: take the next epoch, or return once workCh   *)
(* is closed and empty.                                                    *)
WorkerTake(w) ==
  /\ worker[w].at = "idle"
  /\ workCh # <<>>
  /\ workCh' = Tail(workCh)
  /\ SetWorker(w, "lookup", Head(workCh), "error")
  /\ UNCHANGED <<db, env, consVars, dispVars, collVars, resultCh, pending>>

WorkerExit(w) ==
  /\ worker[w].at = "idle"
  /\ workCh = <<>>
  /\ WorkChClosed
  /\ worker' = [worker EXCEPT ![w].at = "exit"]
  /\ UNCHANGED <<db, env, consVars, dispVars, collVars, workCh, resultCh, pending>>

(* Mutant: the answer of EpochExists is negated.                           *)
WorkerLookupNegated(w) ==
  LET e == worker[w].res.epoch IN
  /\ worker[w].at = "lookup"
  /\ ~PctxDone
  /\ \/ e \notin rows /\ SetWorker(w, "send", e, "skip")
     \/ e \in rows    /\ SetWorker(w, "build", e, "error")
  /\ UNCHANGED <<db, env, consVars, dispVars, collVars, workCh, resultCh, pending>>

(* EpochExists answers: a saved epoch is skipped, any other is built.      *)
WorkerLookup(w) ==
  LET e == worker[w].res.epoch IN
  /\ worker[w].at = "lookup"
  /\ ~PctxDone
  /\ \/ e \in rows    /\ SetWorker(w, "send", e, "skip")
     \/ e \notin rows /\ SetWorker(w, "build", e, "error")
  /\ UNCHANGED <<db, env, consVars, dispVars, collVars, workCh, resultCh, pending>>

(* buildEpoch returns; a build may outlive the cancellation of its context.*)
WorkerBuild(w) ==
  /\ worker[w].at = "build"
  /\ SetWorker(w, "send", worker[w].res.epoch, "built")
  /\ UNCHANGED <<db, env, consVars, dispVars, collVars, workCh, resultCh, pending>>

(* A cancelled context, a failing EpochExists or a failing buildEpoch.     *)
WorkerFail(w) ==
  /\ worker[w].at \in {"lookup", "build"}
  /\ Fail("build")
  /\ SetWorker(w, "send", worker[w].res.epoch, "error")
  /\ UNCHANGED <<db, consVars, dispVars, collVars, workCh, resultCh, pending>>

(* resultCh <- ...: the send does not select on pctx.  A worker returns    *)
(* after sending an error.                                                 *)
WorkerSend(w) ==
  /\ worker[w].at = "send"
  /\ Len(resultCh) < ChanCap
  /\ resultCh' = Append(resultCh, worker[w].res)
  /\ worker' = [worker EXCEPT ![w].at =
                  IF worker[w].res.kind = "error" THEN "exit" ELSE "idle"]
  /\ UNCHANGED <<db, env, consVars, dispVars, collVars, workCh, pending>>

-----------------------------------------------------------------------------
(* Collector                                                               *)

(* Mutant: results are handed on as they come, without reordering.         *)
AnyOrder == reorder

InOrder == {r \in reorder : r.epoch = nextExpected}

(* Mutant: the collector remembers only the last result.                   *)
CollectorReceiveOverwrites ==
  /\ collector = "run"
  /\ InOrder = {}
  /\ resultCh # <<>>
  /\ resultCh' = Tail(resultCh)
  /\ reorder' = {Head(resultCh)}
  /\ UNCHANGED <<collector, nextExpected, db, env, consVars, dispVars, workCh, worker, pending>>

CollectorReceive ==
  /\ collector = "run"
  /\ InOrder = {}
  /\ resultCh # <<>>
  /\ resultCh' = Tail(resultCh)
  /\ reorder' = {r \in reorder : r.epoch # Head(resultCh).epoch} \cup {Head(resultCh)}
  /\ UNCHANGED <<collector, nextExpected, db, env, consVars, dispVars, workCh, worker, pending>>

(* pending <- j; an error is the last thing the collector forwards.        *)
Forward(r) ==
  /\ reorder' = reorder \ {r}
  /\ pending' = Append(pending, r)
  /\ \/ /\ r.kind = "error"
        /\ collector' = "ok"
        /\ UNCHANGED nextExpected
     \/ /\ r.kind # "error"
        /\ nextExpected' = nextExpected + 1
        /\ UNCHANGED collector

CollectorFlush ==
  /\ collector = "run"
  /\ Len(pending) < PendingCap
  /\ \E r \in InOrder : Forward(r)
  /\ UNCHANGED <<db, env, consVars, dispVars, workCh, worker, resultCh>>

(* The Done branch of the collector's select.                              *)
CollectorAbort ==
  /\ collector = "run"
  /\ InOrder # {}
  /\ PctxDone
  /\ reorder' = reorder \ InOrder
  /\ collector' = "aborted"
  /\ UNCHANGED <<nextExpected, db, env, consVars, dispVars, workCh, worker, resultCh, pending>>

(* resultCh is closed and drained.  What is left in the reorder map does   *)
(* not start at nextExpected, so the final flush has nothing to send.      *)
CollectorFinish ==
  /\ collector = "run"
  /\ InOrder = {}
  /\ resultCh = <<>>
  /\ ResultChClosed
  /\ collector' = "ok"
  /\ UNCHANGED <<nextExpected, reorder, db, env, consVars, dispVars, workCh, worker, resultCh, pending>>

-----------------------------------------------------------------------------
(* Consumer: the loop over pending                                         *)

goroutines == <<dispVars, collVars, workCh, worker, resultCh>>

(* Mutant: the error path drains pending without calling cancel().         *)
AbandonUncancelled ==
  /\ failed' = TRUE
  /\ pc' = "drain"
  /\ UNCHANGED cancelled

(* cancel(), then drain pending and wait for the other goroutines.         *)
Abandon ==
  /\ cancelled' = TRUE
  /\ failed' = TRUE
  /\ pc' = "drain"

(* Mutant: a built epoch without blobs is not persisted.                   *)
ConsumerReceiveSkipsEmpty ==
  /\ pc = "recv"
  /\ pending # <<>>
  /\ pending' = Tail(pending)
  /\ job' = Head(pending)
  /\ \/ Head(pending).kind = "error" /\ Abandon
     \/ /\ Head(pending).kind = "skip" \/ Head(pending).epoch \notin BlobEpochs
        /\ Head(pending).kind # "error"
        /\ pc' = "setCursor" /\ UNCHANGED <<cancelled, failed>>
     \/ /\ Head(pending).kind = "built" /\ Head(pending).epoch \in BlobEpochs
        /\ pc' = "saveEpoch" /\ UNCHANGED <<cancelled, failed>>
  /\ UNCHANGED <<nextResume, db, env, goroutines>>

ConsumerReceive ==
  /\ pc = "recv"
  /\ pending # <<>>
  /\ pending' = Tail(pending)
  /\ job' = Head(pending)
  /\ \/ Head(pending).kind = "error" /\ Abandon
     \/ Head(pending).kind = "skip"  /\ pc' = "setCursor" /\ UNCHANGED <<cancelled, failed>>
     \/ Head(pending).kind = "built" /\ pc' = "saveEpoch" /\ UNCHANGED <<cancelled, failed>>
  /\ UNCHANGED <<nextResume, db, env, goroutines>>

(* persistEpoch: the upload and SaveEpoch.  An empty epoch ends there.     *)
SaveEpoch ==
  /\ pc = "saveEpoch"
  /\ ~PctxDone
  /\ rows' = rows \cup {job.epoch}
  /\ pc' = IF job.epoch \in BlobEpochs THEN "saveBlobs" ELSE "setCursor"
  /\ UNCHANGED <<blobRows, cursor, networkRoot, env, job, nextResume, failed, cancelled,
                 goroutines, pending>>

(* persistEpoch: SaveBlobs, one transaction after SaveEpoch's.             *)
SaveBlobs ==
  /\ pc = "saveBlobs"
  /\ ~PctxDone
  /\ blobRows' = blobRows \cup {job.epoch}
  /\ pc' = "setCursor"
  /\ UNCHANGED <<rows, cursor, networkRoot, env, job, nextResume, failed, cancelled,
                 goroutines, pending>>

SetBackfillCursor ==
  /\ pc = "setCursor"
  /\ ~PctxDone
  /\ cursor' = job.epoch
  /\ nextResume' = job.epoch + 1
  /\ pc' = "recv"
  /\ UNCHANGED <<rows, blobRows, networkRoot, env, job, failed, cancelled, goroutines, pending>>

(* Mutant: the error of persistEpoch is logged and the cursor moves on.    *)
SaveEpochFailsIgnored ==
  /\ pc = "saveEpoch"
  /\ Fail("persist")
  /\ rows' \in {rows, rows \cup {job.epoch}}
  /\ pc' = "setCursor"
  /\ UNCHANGED <<blobRows, cursor, networkRoot, job, nextResume, failed, cancelled, goroutines, pending>>

(* Mutant: the error of SetBackfillCursor is logged and the loop goes on.  *)
SetBackfillCursorFailsIgnored ==
  /\ pc = "setCursor"
  /\ Fail("persist")
  /\ cursor' \in {cursor, job.epoch}
  /\ pc' = "recv"
  /\ UNCHANGED <<rows, blobRows, networkRoot, job, nextResume, failed, cancelled, goroutines, pending>>

(* One of the three writes returns an error.  The write may have reached   *)
(* the database all the same: only its answer is lost.                     *)
SaveEpochFails ==
  /\ pc = "saveEpoch"
  /\ Fail("persist")
  /\ rows' \in {rows, rows \cup {job.epoch}}
  /\ Abandon
  /\ UNCHANGED <<blobRows, cursor, networkRoot, job, nextResume, goroutines, pending>>

SaveBlobsFails ==
  /\ pc = "saveBlobs"
  /\ Fail("persist")
  /\ blobRows' \in {blobRows, blobRows \cup {job.epoch}}
  /\ Abandon
  /\ UNCHANGED <<rows, cursor, networkRoot, job, nextResume, goroutines, pending>>

SetBackfillCursorFails ==
  /\ pc = "setCursor"
  /\ Fail("persist")
  /\ cursor' \in {cursor, job.epoch}
  /\ Abandon
  /\ UNCHANGED <<rows, blobRows, networkRoot, job, nextResume, goroutines, pending>>

(* for range pending {}                                                    *)
Drain ==
  /\ pc = "drain"
  /\ pending # <<>>
  /\ pending' = Tail(pending)
  /\ UNCHANGED <<db, env, consVars, goroutines>>

PendingExhausted ==
  /\ pc \in {"recv", "drain"}
  /\ pending = <<>>
  /\ PendingClosed
  /\ pc' = "join"
  /\ UNCHANGED <<job, nextResume, failed, cancelled, db, env, goroutines, pending>>

(* Mutant: the consumer's own error is not returned.                       *)
AttemptErrorDropped == collector = "aborted"

(* <-dispatchDone and <-producerDone: the attempt returns nextResume and   *)
(* its error, and runBackfill looks at both.  The root is rebuilt after    *)
(* the break; a failing rebuild is only logged.  The deferred cancel()     *)
(* runs on every return.                                                   *)
AttemptError == failed \/ collector = "aborted"

Join ==
  /\ pc = "join"
  /\ DispatchDone
  /\ PendingClosed
  /\ \/ /\ AttemptError
        /\ pc' = IF ctxDone THEN "stopped" ELSE "sleep"
        /\ UNCHANGED <<networkRoot, budget>>
     \/ /\ ~AttemptError
        /\ pc' = "finished"
        /\ networkRoot' = rows
        /\ UNCHANGED budget
     \/ /\ ~AttemptError
        /\ pc' = "finished"
        /\ Fail("persist")
        /\ UNCHANGED networkRoot
  /\ cancelled' = TRUE
  /\ UNCHANGED <<rows, blobRows, cursor, ctxDone, job, nextResume, failed, goroutines, pending>>

(* One PollInterval later the loop runs another attempt, unless the whole  *)
(* range is done or the context is cancelled.                              *)
Retry ==
  /\ pc = "sleep"
  /\ ~ctxDone
  /\ nextResume <= TargetEpoch
  /\ NewAttempt(nextResume)
  /\ UNCHANGED <<db, env>>

SleepInterrupted ==
  /\ pc = "sleep"
  /\ ctxDone
  /\ pc' = "stopped"
  /\ UNCHANGED <<job, nextResume, failed, cancelled, db, env, goroutines, pending>>

-----------------------------------------------------------------------------
(* Environment: shutdown, loss of the process, restart                     *)

(* SIGINT or SIGTERM cancels the context; the end of the process follows.  *)
Shutdown ==
  /\ pc # "down"
  /\ ~ctxDone
  /\ budget["crash"] > 0
  /\ ctxDone' = TRUE
  /\ UNCHANGED <<budget, db, consVars, goroutines, pending>>

(* The process ends, whatever its goroutines were doing.                   *)
Crash ==
  /\ pc # "down"
  /\ budget["crash"] > 0
  /\ budget' = [budget EXCEPT !["crash"] = @ - 1]
  /\ pc' = "down"
  /\ ctxDone' = FALSE
  /\ failed' = FALSE
  /\ cancelled' = FALSE
  /\ job' = NoResult
  /\ nextResume' = ResumePoint
  /\ dispatcher' = "done"
  /\ nextDispatch' = ResumePoint
  /\ workCh' = <<>>
  /\ worker' = [w \in Worker |-> [IdleWorker EXCEPT !.at = "exit"]]
  /\ resultCh' = <<>>
  /\ collector' = "ok"
  /\ nextExpected' = ResumePoint
  /\ reorder' = {}
  /\ pending' = <<>>
  /\ UNCHANGED db

(* Mutant: the goroutine is not started for a single remaining epoch.      *)
RestartShort ==
  /\ pc = "down"
  /\ ResumePoint < TargetEpoch
  /\ NewAttempt(ResumePoint)
  /\ UNCHANGED <<db, env>>

(* Run starts the backfill goroutine again when there is work left.        *)
Restart ==
  /\ pc = "down"
  /\ ResumePoint <= TargetEpoch
  /\ NewAttempt(ResumePoint)
  /\ UNCHANGED <<db, env>>

-----------------------------------------------------------------------------
Dispatcher == Dispatch \/ DispatchAbort \/ DispatchClose \/ DispatchFinish

WorkerStep(w) ==
  \/ WorkerTake(w)
  \/ WorkerExit(w)
  \/ WorkerLookup(w)
  \/ WorkerBuild(w)
  \/ WorkerFail(w)
  \/ WorkerSend(w)

Collector == CollectorReceive \/ CollectorFlush \/ CollectorAbort \/ CollectorFinish

Consumer ==
  \/ ConsumerReceive
  \/ SaveEpoch
  \/ SaveBlobs
  \/ SetBackfillCursor
  \/ SaveEpochFails
  \/ SaveBlobsFails
  \/ SetBackfillCursorFails
  \/ Drain
  \/ PendingExhausted
  \/ Join
  \/ Retry
  \/ SleepInterrupted

Next ==
  \/ Dispatcher
  \/ \E w \in Worker : WorkerStep(w)
  \/ Collector
  \/ Consumer
  \/ Shutdown
  \/ Crash
  \/ Restart

Spec == Init /\ [][Next]_vars

(* The Go scheduler lets every goroutine that can run, run; main returns   *)
(* after a shutdown; a supervisor starts the process again.  Nothing       *)
(* obliges a fault to happen.                                              *)
Fairness ==
  /\ WF_vars(Dispatcher)
  /\ \A w \in Worker : WF_vars(WorkerStep(w))
  /\ WF_vars(Collector)
  /\ WF_vars(Consumer)
  /\ WF_vars(ctxDone /\ Crash)
  /\ WF_vars(Restart)

FairSpec == Spec /\ Fairness

-----------------------------------------------------------------------------
(* Properties                                                              *)

TypeOK ==
  /\ rows \subseteq Epoch
  /\ blobRows \subseteq Epoch
  /\ cursor \in {0} \cup Epoch
  /\ networkRoot \subseteq Epoch
  /\ ctxDone \in BOOLEAN
  /\ budget \in [{"build", "persist", "crash"} -> Nat]
  /\ pc \in {"recv", "saveEpoch", "saveBlobs", "setCursor", "drain", "join",
             "sleep", "finished", "stopped", "down"}
  /\ job \in Result
  /\ nextResume \in StartEpoch .. TargetEpoch + 1
  /\ failed \in BOOLEAN
  /\ cancelled \in BOOLEAN
  /\ dispatcher \in {"send", "wait", "done", "aborted"}
  /\ nextDispatch \in StartEpoch .. TargetEpoch + 1
  /\ workCh \in Seq(Epoch)
  /\ worker \in [Worker -> WorkerState]
  /\ resultCh \in Seq(Result)
  /\ collector \in {"run", "ok", "aborted"}
  /\ nextExpected \in StartEpoch .. TargetEpoch + 1
  /\ reorder \subseteq Result
  /\ pending \in Seq(Result)

(* The cursor never passes an epoch that is not in the database, whatever  *)
(* the order in which the workers finished and wherever an attempt or the  *)
(* process was lost: every epoch up to it has its row.                     *)
CursorCovered == cursor > 0 => \A e \in StartEpoch .. cursor : e \in rows

(* The consumer sees the epochs in strict order and without a hole: the    *)
(* job it holds is the one nextResume waits for, and pending continues     *)
(* from there up to nextExpected.                                          *)
Holding == pc \in {"saveEpoch", "saveBlobs", "setCursor"}

ConsumerNext == IF Holding THEN nextResume + 1 ELSE nextResume

StrictOrder ==
  /\ Holding => job.epoch = nextResume /\ job.kind # "error"
  /\ pc = "recv" \/ Holding =>
       /\ \A i \in 1 .. Len(pending) : pending[i].epoch = ConsumerNext + i - 1
       /\ collector = "run" => nextExpected = ConsumerNext + Len(pending)

(* A verdict "already in the database" is still true when it is used: the  *)
(* epoch of every skip that a worker, a channel, the reorder map or the    *)
(* consumer holds has its row.                                             *)
SkipIsSaved(r) == r.kind = "skip" => r.epoch \in rows

SkipsAreSaved ==
  /\ \A w \in Worker : worker[w].at = "send" => SkipIsSaved(worker[w].res)
  /\ \A i \in 1 .. Len(resultCh) : SkipIsSaved(resultCh[i])
  /\ \A r \in reorder : SkipIsSaved(r)
  /\ \A i \in 1 .. Len(pending) : SkipIsSaved(pending[i])
  /\ Holding => SkipIsSaved(job)

(* An attempt that gives up may resume at nextResume: everything before it *)
(* is in the database, and the saved cursor is no further than the epoch   *)
(* whose cursor write lost its answer.                                     *)
ResumeCovered ==
  /\ \A e \in StartEpoch .. nextResume - 1 : e \in rows
  /\ cursor \in {nextResume - 1, nextResume} \/ (cursor = 0 /\ nextResume = StartEpoch)
  /\ pc \in {"saveBlobs", "setCursor"} => job.epoch \in rows

(* No dispatched epoch is lost or doubled on its way through the pool: as  *)
(* long as the collector runs, each one it has not forwarded is in exactly *)
(* one of workCh, a worker, resultCh and the reorder map.                  *)
InWorkCh(e)   == {i \in 1 .. Len(workCh) : workCh[i] = e}
InWorker(e)   == {w \in Worker : worker[w].at \in {"lookup", "build", "send"}
                                  /\ worker[w].res.epoch = e}
InResultCh(e) == {i \in 1 .. Len(resultCh) : resultCh[i].epoch = e}
InReorder(e)  == {r \in reorder : r.epoch = e}

NothingLost ==
  collector = "run" =>
    \A e \in nextExpected .. nextDispatch - 1 :
      Cardinality(InWorkCh(e)) + Cardinality(InWorker(e))
        + Cardinality(InResultCh(e)) + Cardinality(InReorder(e)) = 1

(* runBackfill reports completion only when the whole range is in the      *)
(* database and the cursor is at its end: an attempt that ends without an  *)
(* error has delivered every epoch.                                        *)
CompletionIsComplete ==
  pc = "finished" => Epoch \subseteq rows /\ cursor = TargetEpoch /\ nextResume = TargetEpoch + 1

(* "SetBackfillCursor still advances monotonically": the saved cursor is   *)
(* never moved back, not by a retry and not by a restart.                  *)
CursorMonotonic == [][cursor' >= cursor]_cursor

(* Unless the process is lost, runBackfill completes and the root it       *)
(* uploads links the whole range.                                          *)
Completes ==
  <>[](\/ pc = "finished" /\ Epoch \subseteq networkRoot
       \/ budget.crash < MaxCrashes)

(* A loss of the process only delays the backfill: after the restart the   *)
(* range is indexed to its end.                                            *)
IndexedEventually == <>[](Epoch \subseteq rows /\ cursor = TargetEpoch)

(* "On any error, the pipeline is torn down, we sleep one PollInterval,    *)
(* and the outer retry loop resumes": an attempt that gives up returns.    *)
TearsDown == [](pc = "drain" => <>(pc \notin {"drain", "join"}))

(* "the epoch will be re-processed on the next run" (a crash before the    *)
(* progress is recorded): an epoch the cursor has passed has its blob rows.*)
BlobRowsCovered ==
  cursor > 0 => \A e \in (StartEpoch .. cursor) \cap BlobEpochs : e \in blobRows

-----------------------------------------------------------------------------
(* The pipeline is a sequential backfill: seen from the database, and with *)
(* nextResume as the place the loop is at, its four kinds of goroutines do *)
(* what one loop would do.                                                 *)
Sequential == INSTANCE SequentialBackfill WITH next <- nextResume

ImplementsSequential == Sequential!Spec

=============================================================================
