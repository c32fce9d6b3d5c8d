-------------------------------- MODULE PullLoop --------------------------------
(***************************************************************************)
(* The pull loop of generator/generator.go: Run hands the epochs below the *)
(* finalized tip to the backfill goroutine and the ones from the tip on to *)
(* the live goroutine (runLive, processLiveTick).  The two goroutines      *)
(* share the table of epochs and each has a cursor in ipld_state.  The     *)
(* backfill is the loop of SequentialBackfill, which BackfillPipeline      *)
(* implements.  Without a database one goroutine does everything, see      *)
(* Service.                                                                *)
(*                                                                         *)
(* Beside them: the beacon chain, whose finality advances; the commands    *)
(* that process or finalize one epoch and set the live cursor; and the     *)
(* loss and the restart of the process.                                    *)
(***************************************************************************)
EXTENDS Integers, FiniteSetsExt

CONSTANTS
  StartEpoch,  (* generator.start_epoch                                    *)
  MaxEpoch,    (* bound: the last epoch that is finalized                  *)
  MaxFaults,   (* bound: failing beacon, IPFS and database calls           *)
  MaxCrashes,  (* bound: losses of the process                             *)
  MaxManual    (* bound: epochs processed or finalized on request          *)

ASSUME PullLoopAssumption ==
  /\ StartEpoch \in Nat
  /\ MaxEpoch \in Nat
  /\ StartEpoch <= MaxEpoch
  /\ MaxFaults \in Nat
  /\ MaxCrashes \in Nat
  /\ MaxManual \in Nat

VARIABLES
  finalized,    (* the finalized epoch the beacon node reports             *)
  rows,         (* epochs with a row in ipld_epochs                        *)
  liveRow,      (* ipld_state, key live_<network>; NoRow when absent       *)
  backfillRow,  (* ipld_state, key backfill_<network>; 0 when absent       *)
  main,         (* where Run is                                            *)
  seen,         (* currentFinalized in Run, finalizedEpoch in a live tick  *)
  liveCursor,   (* liveCursor in Run                                       *)
  epoch,        (* the loop variable of processLiveTick                    *)
  backfill,     (* where the backfill goroutine is                         *)
  bNext,        (* backfillStart in Run, then the epoch it is at           *)
  bTarget,      (* its last epoch                                          *)
  budget        (* faults, crashes and manual commands left                *)

database  == <<rows, liveRow, backfillRow>>
runVars   == <<main, seen, liveCursor, epoch>>
backVars  == <<backfill, bNext, bTarget>>
vars      == <<finalized, database, runVars, backVars, budget>>

NoRow == -1

Epochs == StartEpoch .. MaxEpoch

Spend(kind) ==
  /\ budget[kind] > 0
  /\ budget' = [budget EXCEPT ![kind] = @ - 1]

-----------------------------------------------------------------------------
(* GetLastProcessedEpoch: the saved cursor, else the highest epoch in the  *)
(* table, else 0.  0 stands for "none" afterwards.                         *)
GetLastProcessedEpoch ==
  IF liveRow # NoRow THEN liveRow ELSE IF rows # {} THEN Max(rows) ELSE 0

After(cursor) == IF cursor > 0 THEN cursor + 1 ELSE StartEpoch

(* A fresh database, or one filled up to some epoch by the sequential loop *)
(* of an older release.                                                    *)
Init ==
  /\ finalized \in 0 .. MaxEpoch
  /\ \E last \in 0 .. finalized : rows \in {{}, StartEpoch .. last}
  /\ liveRow = NoRow
  /\ backfillRow = 0
  /\ main = "boot"
  /\ seen = 0
  /\ liveCursor = 0
  /\ epoch = 0
  /\ backfill = "off"
  /\ bNext = 0
  /\ bTarget = 0
  /\ budget = [fault |-> MaxFaults, crash |-> MaxCrashes, manual |-> MaxManual]

-----------------------------------------------------------------------------
(* Run                                                                     *)

(* The initial reads.                                                      *)
Boot ==
  /\ main = "boot"
  /\ main' = "anchor"
  /\ seen' = finalized
  /\ liveCursor' = GetLastProcessedEpoch
  /\ bNext' = After(backfillRow)
  /\ UNCHANGED <<finalized, database, epoch, backfill, bTarget, budget>>

(* The live goroutine is anchored at the tip, the epochs before the anchor *)
(* go to the backfill goroutine.                                           *)
Top == IF bNext < seen THEN seen - 1 ELSE liveCursor

(* Mutant: the backfill is given the range up to the tip.                  *)
AnchorToTip ==
  /\ main = "anchor"
  /\ main' = "tick"
  /\ liveCursor' = Top
  /\ liveRow' = IF bNext < seen THEN Top ELSE liveRow
  /\ \/ /\ bNext < Top
        /\ backfill' = "save"
        /\ bTarget' = seen
     \/ /\ bNext >= Top
        /\ UNCHANGED <<backfill, bTarget>>
  /\ UNCHANGED <<finalized, rows, backfillRow, seen, epoch, bNext, budget>>

(* Mutant: an existing live cursor is kept.                                *)
AnchorKeepsCursor ==
  /\ main = "anchor"
  /\ main' = "tick"
  /\ liveCursor' = Top
  /\ liveRow' = IF bNext < seen /\ liveRow = NoRow THEN Top ELSE liveRow
  /\ \/ /\ bNext < Top
        /\ backfill' = "save"
        /\ bTarget' = Top - 1
     \/ /\ bNext >= Top
        /\ UNCHANGED <<backfill, bTarget>>
  /\ UNCHANGED <<finalized, rows, backfillRow, seen, epoch, bNext, budget>>

Anchor ==
  /\ main = "anchor"
  /\ main' = "tick"
  /\ liveCursor' = Top
  /\ liveRow' = IF bNext < seen THEN Top ELSE liveRow
  /\ \/ /\ bNext < Top
        /\ backfill' = "save"
        /\ bTarget' = Top - 1
     \/ /\ bNext >= Top
        /\ UNCHANGED <<backfill, bTarget>>
  /\ UNCHANGED <<finalized, rows, backfillRow, seen, epoch, bNext, budget>>

(* A failing call makes Run return; a failing write may have landed.       *)
RunFails ==
  /\ Spend("fault")
  /\ \/ /\ main = "boot"
        /\ UNCHANGED liveRow
     \/ /\ main = "anchor"
        /\ bNext < seen
        /\ liveRow' \in {liveRow, Top}
  /\ main' = "exited"
  /\ UNCHANGED <<finalized, rows, backfillRow, seen, liveCursor, epoch, backVars>>

-----------------------------------------------------------------------------
(* processLiveTick, called once and then at every tick by runLive          *)

(* Mutant: a tick waits for two new epochs, startEpoch < finalizedEpoch.   *)
TickLate ==
  /\ main = "tick"
  /\ After(GetLastProcessedEpoch) < finalized
  /\ main' = "process"
  /\ seen' = finalized
  /\ epoch' = After(GetLastProcessedEpoch)
  /\ UNCHANGED <<finalized, database, liveCursor, backVars, budget>>

(* A tick that finds nothing new, or whose reads fail, changes nothing.    *)
Tick ==
  /\ main = "tick"
  /\ After(GetLastProcessedEpoch) <= finalized
  /\ main' = "process"
  /\ seen' = finalized
  /\ epoch' = After(GetLastProcessedEpoch)
  /\ UNCHANGED <<finalized, database, liveCursor, backVars, budget>>

(* processEpoch: build and persist.                                        *)
LiveProcess ==
  /\ main = "process"
  /\ rows' = rows \cup {epoch}
  /\ main' = "setLive"
  /\ UNCHANGED <<finalized, liveRow, backfillRow, seen, liveCursor, epoch, backVars, budget>>

(* Mutant: the loop bound is off by one, epoch <= finalizedEpoch+1.        *)
LiveSetCursorPastTip ==
  /\ main = "setLive"
  /\ liveRow' = epoch
  /\ \/ /\ epoch <= seen
        /\ epoch' = epoch + 1
        /\ main' = "process"
     \/ /\ epoch > seen
        /\ main' = "tick"
        /\ UNCHANGED epoch
  /\ UNCHANGED <<finalized, rows, backfillRow, seen, liveCursor, backVars, budget>>

(* The tick ends after the last epoch, with a rebuild of the NetworkRoot.  *)
LiveSetCursor ==
  /\ main = "setLive"
  /\ liveRow' = epoch
  /\ \/ /\ epoch < seen
        /\ epoch' = epoch + 1
        /\ main' = "process"
     \/ /\ epoch >= seen
        /\ main' = "tick"
        /\ UNCHANGED epoch
  /\ UNCHANGED <<finalized, rows, backfillRow, seen, liveCursor, backVars, budget>>

(* Any error ends the tick, and ErrInsufficientCustody ends Run.           *)
LiveFails ==
  /\ Spend("fault")
  /\ \/ /\ main = "process"
        /\ rows' \in {rows, rows \cup {epoch}}
        /\ main' \in {"tick", "exited"}
        /\ UNCHANGED liveRow
     \/ /\ main = "setLive"
        /\ liveRow' \in {liveRow, epoch}
        /\ main' = "tick"
        /\ UNCHANGED rows
  /\ UNCHANGED <<finalized, backfillRow, seen, liveCursor, epoch, backVars>>

-----------------------------------------------------------------------------
(* The backfill goroutine                                                  *)

BackfillSave ==
  /\ backfill = "save"
  /\ rows' = rows \cup {bNext}
  /\ backfill' = "record"
  /\ UNCHANGED <<finalized, liveRow, backfillRow, runVars, bNext, bTarget, budget>>

(* Mutant: the loop bound is off by one, epoch < targetEpoch.              *)
BackfillRecordShort ==
  /\ backfill = "record"
  /\ backfillRow' = bNext
  /\ bNext' = bNext + 1
  /\ backfill' = IF bNext + 1 < bTarget THEN "save" ELSE "done"
  /\ UNCHANGED <<finalized, rows, liveRow, runVars, bTarget, budget>>

(* Mutant: the cursor is set to the end of the range.                      *)
BackfillRecordTarget ==
  /\ backfill = "record"
  /\ backfillRow' = bTarget
  /\ bNext' = bNext + 1
  /\ backfill' = IF bNext < bTarget THEN "save" ELSE "done"
  /\ UNCHANGED <<finalized, rows, liveRow, runVars, bTarget, budget>>

BackfillRecord ==
  /\ backfill = "record"
  /\ backfillRow' = bNext
  /\ bNext' = bNext + 1
  /\ backfill' = IF bNext < bTarget THEN "save" ELSE "done"
  /\ UNCHANGED <<finalized, rows, liveRow, runVars, bTarget, budget>>

(* The attempt is given up and the next one starts at the same epoch, or   *)
(* the attempt never returns (see TearsDown of BackfillPipeline).          *)
BackfillFails ==
  /\ Spend("fault")
  /\ \/ /\ backfill = "save"
        /\ rows' \in {rows, rows \cup {bNext}}
        /\ UNCHANGED backfillRow
     \/ /\ backfill = "record"
        /\ backfillRow' \in {backfillRow, bNext}
        /\ UNCHANGED rows
  /\ backfill' \in {"save", "stuck"}
  /\ UNCHANGED <<finalized, liveRow, runVars, bNext, bTarget>>

-----------------------------------------------------------------------------
(* The epoch command (ProcessSingleEpoch) and the finalize request of the  *)
(* push API (finalizeEpochInner): both save an epoch and then set the live *)
(* cursor to it, whatever it was.  One that ends before it sets the cursor *)
(* leaves the epoch saved; a second one for that epoch then stands for a   *)
(* cursor that is set late.                                                *)
ProcessSingleEpoch ==
  /\ Spend("manual")
  /\ \E e \in Epochs :
       /\ rows' = rows \cup {e}
       /\ liveRow' \in {liveRow, e}
  /\ UNCHANGED <<finalized, backfillRow, runVars, backVars>>

(* BackfillIPFS re-uploads an indexed epoch and sets the backfill cursor.  *)
BackfillIPFS ==
  /\ Spend("manual")
  /\ \E e \in rows : backfillRow' = e
  /\ UNCHANGED <<finalized, rows, liveRow, runVars, backVars>>

-----------------------------------------------------------------------------
(* Environment                                                             *)

Finalize ==
  /\ finalized < MaxEpoch
  /\ finalized' = finalized + 1
  /\ UNCHANGED <<database, runVars, backVars, budget>>

ProcessEnds ==
  /\ main' = "down"
  /\ backfill' = "off"
  /\ UNCHANGED <<finalized, database, seen, liveCursor, epoch, bNext, bTarget>>

Crash ==
  /\ main # "down"
  /\ Spend("crash")
  /\ ProcessEnds

(* cmdRun exits once Run has returned an error.                            *)
Exit ==
  /\ main = "exited"
  /\ ProcessEnds
  /\ UNCHANGED budget

Restart ==
  /\ main = "down"
  /\ main' = "boot"
  /\ UNCHANGED <<finalized, database, seen, liveCursor, epoch, backVars, budget>>

-----------------------------------------------------------------------------
Live == Tick \/ LiveProcess \/ LiveSetCursor \/ LiveFails

Backfill == BackfillSave \/ BackfillRecord \/ BackfillFails

Next ==
  \/ Boot \/ Anchor \/ RunFails
  \/ Live
  \/ Backfill
  \/ ProcessSingleEpoch
  \/ Finalize \/ Crash \/ Exit \/ Restart

Spec == Init /\ [][Next]_vars

(* The goroutines run, the ticker ticks, and a supervisor restarts the     *)
(* run command.  Nothing obliges the chain to finalize or a call to fail.  *)
Fairness ==
  /\ WF_vars(Boot \/ Anchor \/ RunFails)
  /\ WF_vars(Live)
  /\ WF_vars(Backfill)
  /\ WF_vars(Exit)
  /\ WF_vars(Restart)

FairSpec == Spec /\ Fairness

(* The same system with the backfill-ipfs command run beside it.           *)
SpecWithBackfillIPFS == Init /\ [][Next \/ BackfillIPFS]_vars

-----------------------------------------------------------------------------
(* Properties                                                              *)

TypeOK ==
  /\ finalized \in 0 .. MaxEpoch
  /\ rows \subseteq Epochs
  /\ liveRow \in {NoRow} \cup 0 .. MaxEpoch
  /\ backfillRow \in {0} \cup Epochs
  /\ main \in {"boot", "anchor", "tick", "process", "setLive", "exited", "down"}
  /\ seen \in 0 .. MaxEpoch
  /\ liveCursor \in 0 .. MaxEpoch
  /\ epoch \in 0 .. MaxEpoch
  /\ backfill \in {"off", "save", "record", "stuck", "done"}
  /\ bNext \in 0 .. MaxEpoch + 1
  /\ bTarget \in 0 .. MaxEpoch
  /\ budget \in [{"fault", "crash", "manual"} -> Nat]

(* The backfill resumes where it left off: everything up to its cursor is  *)
(* saved, so that the start Run computes from it skips nothing.            *)
CursorCovered == backfillRow > 0 => \A e \in StartEpoch .. backfillRow : e \in rows

(* An epoch is somebody's: saved, ahead of the backfill goroutine in its   *)
(* range, or ahead of the live goroutine.                                  *)
Backfilling == backfill \in {"save", "record", "stuck"}

Assigned(e) ==
  \/ e \in rows
  \/ Backfilling /\ e \in bNext .. bTarget
  \/ e >= After(GetLastProcessedEpoch)

Running == main \in {"tick", "process", "setLive"}

(* "Any epochs between the old live cursor and the new anchor are handed   *)
(* to the backfill goroutine": no epoch is left to nobody while Run runs.  *)
NoGap == Running => \A e \in Epochs : Assigned(e)

OnlyAnchorLeft == Running => \A e \in Epochs : e = liveCursor \/ Assigned(e)

(* The commands that set the live cursor were not used.                    *)
Undisturbed == budget.manual = MaxManual

(* What Run does guarantee: the anchor itself, the epoch before the tip    *)
(* that Run saw, is the only one that may be left to nobody.               *)
NoGapButAnchor == Undisturbed => OnlyAnchorLeft

(* The two goroutines never work on the same epoch: the live one is past   *)
(* the range of the backfill.                                              *)
Disjoint ==
  Undisturbed /\ Backfilling /\ main \in {"process", "setLive"} => bTarget < epoch

(* A start of Run that finds epochs to backfill closes every gap that      *)
(* commands or losses of the process have left, but the one at the anchor. *)
HealedOnStart == [][Anchor /\ bNext < seen => OnlyAnchorLeft']_vars

(* Every finalized epoch is indexed in the end, unless it is the anchor of *)
(* the last start or an attempt of the backfill never returns.             *)
IndexedEventually ==
  \A e \in Epochs :
    [](finalized >= e => <>[](\/ ~Undisturbed
                              \/ e \in rows
                              \/ e = liveCursor
                              \/ backfill = "stuck" /\ e \in bNext .. bTarget))

=============================================================================
