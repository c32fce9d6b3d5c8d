-------------------------------- MODULE Service --------------------------------
(***************************************************************************)
(* The life of the process that indexes without a database: config.Load,   *)
(* generator.New with its check of the network, the run and serve commands *)
(* and, in them, runSequential with its cursor in a JSON file.             *)
(*                                                                         *)
(* state.Manager keeps the cursor in memory and writes it to a temporary   *)
(* file that it renames; the process may be lost between any two steps.    *)
(* A supervisor starts it again.                                           *)
(***************************************************************************)
EXTENDS Integers

CONSTANTS
  Environments,     (* environments the process may be started in          *)
  DencunEpoch,      (* first epoch with blobs of a known network           *)
  MaxEpoch,         (* bound: the last epoch that is finalized             *)
  MaxFaults,        (* bound: failing calls and writes                     *)
  MaxStops          (* bound: losses of the process and signals            *)

Nothing == -1       (* no file, variable not set                           *)
Partial == -2       (* a file that was written in part                     *)

ASSUME ServiceAssumption ==
  /\ \A e \in Environments : e.start \in Nat \cup {Nothing}
  /\ MaxEpoch \in Nat /\ DencunEpoch \in 0 .. MaxEpoch
  /\ MaxFaults \in Nat /\ MaxStops \in Nat

VARIABLES
  env,              (* the environment                                     *)
  node,             (* network of the beacon node: "configured" or "other" *)
  finalized,        (* the finalized epoch it reports                      *)
  indexed,          (* epochs whose blocks were uploaded                   *)
  file,             (* cursor in <network>-state.json, 0 if there is none  *)
  tmp,              (* content of <network>-state.json.tmp                 *)
  current,          (* cursor in memory                                    *)
  proc,             (* the process: down, up or draining                   *)
  pull,             (* where the goroutine of Run is                       *)
  epoch,            (* the loop variable of processLiveTick                *)
  seen,             (* finalizedEpoch of the tick                          *)
  budget

disk == <<file, tmp>>
loop == <<current, pull, epoch, seen>>
vars == <<env, node, finalized, indexed, file, tmp, current, proc, pull, epoch, seen, budget>>

Spend(kind) ==
  /\ budget[kind] > 0
  /\ budget' = [budget EXCEPT ![kind] = @ - 1]

-----------------------------------------------------------------------------
(* config.Load                                                             *)

(* Mutant: a start epoch of 0 is taken for one that is not set.            *)
StartEpochZeroUnset ==
  IF env.start > 0 THEN env.start ELSE IF env.known THEN DencunEpoch ELSE 0

(* applyDefaults: an explicit start epoch, 0 included, wins.               *)
StartEpoch ==
  IF env.start # Nothing THEN env.start ELSE IF env.known THEN DencunEpoch ELSE 0

(* validate, and the condition of New on the execution client.             *)
Startable ==
  /\ env.ipfs \/ env.skipUpload
  /\ env.execution => env.beacon

(* Mutant: goes on with the epoch of the cursor.                           *)
AfterAgain(cursor) == IF cursor > 0 THEN cursor ELSE StartEpoch

(* Where a tick begins: a cursor of 0 stands for none.                     *)
After(cursor) == IF cursor > 0 THEN cursor + 1 ELSE StartEpoch

Init ==
  /\ env \in Environments
  /\ node \in {"configured", "other"}
  /\ finalized = 0
  /\ indexed = {}
  /\ file = Nothing /\ tmp = Nothing
  /\ current = 0
  /\ proc = "down"
  /\ pull = "off"
  /\ epoch = 0 /\ seen = 0
  /\ budget = [fault |-> MaxFaults, stop |-> MaxStops]

-----------------------------------------------------------------------------
(* New, cmdRun and cmdServe                                                *)

(* GetNetworkName: another network is refused; a node that cannot be asked *)
(* is only warned of.                                                      *)
NetworkVerified ==
  \/ ~env.beacon /\ UNCHANGED budget
  \/ env.beacon /\ node = "configured" /\ UNCHANGED budget
  \/ env.beacon /\ Spend("fault")

(* The file is read into memory; one that does not parse is an error.      *)
NewManager ==
  /\ file # Partial
  /\ current' = IF file = Nothing THEN 0 ELSE file

(* A start that fails ends the process with 1. The pull loop of serve ends *)
(* at once without a beacon node, run does not start without.              *)
Start ==
  /\ proc = "down"
  /\ Startable
  /\ env.command = "run" => env.beacon
  /\ NewManager
  /\ NetworkVerified
  /\ proc' = "up"
  /\ pull' = IF env.command = "serve" THEN "off" ELSE IF env.beacon THEN "tick" ELSE "ended"
  /\ UNCHANGED <<env, node, finalized, indexed, disk, epoch, seen>>

Exits ==
  /\ proc' = "down"
  /\ pull' = "off"
  /\ UNCHANGED <<env, node, finalized, indexed, disk, current, epoch, seen>>

(* SIGTERM: run ends when its loop notices, serve shuts the API down.      *)
Signal ==
  /\ proc = "up"
  /\ Spend("stop")
  /\ proc' = "draining"
  /\ UNCHANGED <<env, node, finalized, indexed, disk, loop>>

(* run returns from a tick; serve returns from Shutdown, which knows       *)
(* nothing of the pull loop.                                               *)
Stopped ==
  /\ proc = "draining"
  /\ env.command = "run" => pull \in {"tick", "process"}
  /\ Exits
  /\ UNCHANGED budget

(* The process is killed, or ListenAndServe fails and it exits with 1.     *)
Crash ==
  /\ proc # "down"
  /\ Spend("stop")
  /\ Exits

-----------------------------------------------------------------------------
(* runSequential and processLiveTick                                       *)

Tick ==
  /\ pull = "tick"
  /\ proc = "up"
  /\ After(current) <= finalized
  /\ pull' = "process"
  /\ epoch' = After(current)
  /\ seen' = finalized
  /\ UNCHANGED <<env, node, finalized, indexed, disk, current, proc, budget>>

(* processEpoch: with neither uploads nor a database there is nothing to   *)
(* do, and the cursor moves on.                                            *)
Process ==
  /\ pull = "process"
  /\ indexed' = IF env.skipUpload THEN indexed ELSE indexed \cup {epoch}
  /\ pull' = "set"
  /\ UNCHANGED <<env, node, finalized, disk, current, proc, epoch, seen, budget>>

(* The tick ends; or the node cannot serve blobs, and Run returns.         *)
ProcessFails ==
  /\ pull = "process"
  /\ ~env.skipUpload
  /\ Spend("fault")
  /\ indexed' \in {indexed, indexed \cup {epoch}}
  /\ pull' \in {"tick", "ended"}
  /\ UNCHANGED <<env, node, finalized, disk, current, proc, epoch, seen>>

(* run exits with 1 when Run returns; serve -pull goes on without it.      *)
RunReturns ==
  /\ pull = "ended" /\ env.command = "run"
  /\ Exits
  /\ UNCHANGED budget

-----------------------------------------------------------------------------
(* SetLastProcessedEpoch                                                   *)

(* Mutant: the file itself is written.                                     *)
WriteInPlace ==
  \/ /\ pull = "set"
     /\ current' = epoch
     /\ file' = Partial
     /\ pull' = "write"
     /\ UNCHANGED tmp
  \/ /\ pull = "write"
     /\ tmp' = current /\ file' = current
     /\ pull' = "rename"
     /\ UNCHANGED current

(* The cursor in memory, and os.WriteFile of the temporary file.           *)
Write ==
  \/ /\ pull = "set"
     /\ current' = epoch
     /\ tmp' = Partial
     /\ pull' = "write"
     /\ UNCHANGED file
  \/ /\ pull = "write"
     /\ tmp' = current
     /\ pull' = "rename"
     /\ UNCHANGED <<current, file>>

SaveStep ==
  /\ Write
  /\ UNCHANGED <<env, node, finalized, indexed, proc, epoch, seen, budget>>

(* os.Rename; the loop goes on, and ends with the tick's last epoch.       *)
Rename ==
  /\ pull = "rename"
  /\ file' = tmp
  /\ tmp' = Nothing
  /\ \/ /\ epoch < seen
        /\ epoch' = epoch + 1
        /\ pull' = "process"
     \/ /\ epoch >= seen
        /\ pull' = "tick"
        /\ UNCHANGED epoch
  /\ UNCHANGED <<env, node, finalized, indexed, current, proc, seen, budget>>

(* Mutant: the cursor of a failed save is the tick's last epoch.           *)
SaveFailsAhead ==
  /\ pull \in {"write", "rename"}
  /\ Spend("fault")
  /\ tmp' = IF pull = "rename" THEN Nothing ELSE tmp
  /\ pull' = "tick"
  /\ current' = seen
  /\ UNCHANGED <<env, node, finalized, indexed, file, proc, epoch, seen>>

(* An error of either call ends the tick; the cursor in memory stays.      *)
SaveFails ==
  /\ pull \in {"write", "rename"}
  /\ Spend("fault")
  /\ tmp' = IF pull = "rename" THEN Nothing ELSE tmp
  /\ pull' = "tick"
  /\ UNCHANGED <<env, node, finalized, indexed, file, current, proc, epoch, seen>>

-----------------------------------------------------------------------------

Finalize ==
  /\ finalized < MaxEpoch
  /\ finalized' = finalized + 1
  /\ UNCHANGED <<env, node, indexed, disk, loop, proc, budget>>

Pull == Tick \/ Process \/ ProcessFails \/ SaveStep \/ Rename \/ SaveFails

Next ==
  \/ Start \/ Signal \/ Stopped \/ Crash
  \/ Pull \/ RunReturns
  \/ Finalize

Spec == Init /\ [][Next]_vars

(* The supervisor restarts the process, Shutdown has a deadline, the       *)
(* ticker ticks and calls end.                                             *)
Fairness ==
  WF_vars(Start) /\ WF_vars(Stopped) /\ WF_vars(RunReturns) /\ WF_vars(Pull)

FairSpec == Spec /\ Fairness

-----------------------------------------------------------------------------
(* Properties                                                              *)

(* The cursors never run ahead of the epochs: everything from the start    *)
(* epoch up to either of them is indexed, so that no loss of the process   *)
(* and no failed save makes the next start skip an epoch. A process that   *)
(* skips uploads only counts epochs.                                       *)
CursorsCovered ==
  \A cursor \in {file, current} :
    cursor > 0 /\ ~env.skipUpload => StartEpoch .. cursor \subseteq indexed

(* "Updates the epoch and persists atomically": the file is always one     *)
(* that a start can read, and its cursor never goes back.                  *)
Atomic == [][file' # Partial /\ (file >= 0 => file' >= file)]_vars

(* An epoch whose cursor has reached the file is not processed again, by   *)
(* the loop that saved it or after a restart, whichever saves failed in    *)
(* between: but for epoch 0, whose cursor is that of a process that has    *)
(* none.                                                                   *)
NotRepeated == pull = "process" => epoch > file \/ epoch = 0

(* Every finalized epoch from the start epoch the operator gave is indexed *)
(* in the end, whatever fails, by a process that pulls: a run command, or  *)
(* a serve -pull whose loop was not ended by a node that keeps no blobs.   *)
Pulls ==
  /\ Startable /\ env.beacon /\ ~env.skipUpload /\ env.command # "serve"
  /\ node = "configured"

IndexedEventually ==
  \A e \in 0 .. MaxEpoch :
    [](Pulls /\ e <= finalized /\ e >= (IF env.start # Nothing THEN env.start ELSE DencunEpoch)
         => <>(e \in indexed \/ (env.command = "servePull" /\ pull = "ended")))

=============================================================================
