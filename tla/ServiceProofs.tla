----------------------------- MODULE ServiceProofs ------------------------------
(***************************************************************************)
(* What the process without a database guarantees for every environment,   *)
(* every number of epochs and any number of faults and losses.             *)
(***************************************************************************)
EXTENDS Service, TLAPS

(* The types the argument needs. The file is never a partial one.          *)
Types ==
  /\ env \in Environments
  /\ finalized \in Nat /\ epoch \in Nat /\ seen \in Nat /\ current \in Nat
  /\ file \in Nat \cup {Nothing}

Active == pull \in {"process", "set", "write", "rename"}

(* Nothing is missing before the epoch the loop is at; that epoch is there *)
(* once its cursor is written, which is then the one in memory and, at the *)
(* rename, in the temporary file.                                          *)
Behind ==
  /\ Active => current <= epoch
  /\ Active /\ ~env.skipUpload => StartEpoch .. (epoch - 1) \subseteq indexed
  /\ pull \in {"set", "write", "rename"} /\ ~env.skipUpload => epoch \in indexed
  /\ pull \in {"write", "rename"} => current = epoch
  /\ pull = "rename" => tmp = epoch

(* The file is never ahead of the cursor in memory.                        *)
Ordered == file <= current

(* The epoch that is processed is after the cursor in memory.              *)
Onward == pull = "process" => epoch > current \/ epoch = 0

IInv == Types /\ CursorsCovered /\ Behind /\ Ordered /\ Onward

(* A start epoch is a number in every environment.                         *)
LEMMA StartEpochNat == ASSUME env \in Environments PROVE StartEpoch \in Nat
BY ServiceAssumption DEF StartEpoch, Nothing

(* Nothing is covered before the first start.                              *)
LEMMA InitIInv == Init => IInv
BY DEF Init, IInv, Types, CursorsCovered, Behind, Active, Ordered, Onward, Nothing

(* Starting and ending the process keep the invariant: the cursor read is  *)
(* the one of the file.                                                    *)
LEMMA LifeIInv ==
  ASSUME IInv, Start \/ Signal \/ Stopped \/ Crash \/ RunReturns \/ Finalize
  PROVE  IInv'
<1> USE DEF disk, loop, Nothing, Spend
<1>1. UNCHANGED <<env, node, indexed, file, tmp, epoch, seen, StartEpoch>>
  BY DEF Start, NewManager, Signal, Stopped, Crash, RunReturns, Finalize, Exits, StartEpoch
<1>2. finalized' \in {finalized, finalized + 1}
  BY DEF Start, NewManager, Signal, Stopped, Crash, RunReturns, Finalize, Exits
<1>3. current' \in {current, file, 0} /\ file <= current' /\ current' \in Nat
  BY DEF Start, NewManager, Signal, Stopped, Crash, RunReturns, Finalize, Exits, IInv, Types, Ordered
<1>4. Types' /\ Ordered'
  BY <1>1, <1>2, <1>3 DEF IInv, Types, Ordered
<1>5. CursorsCovered'
  BY <1>1, <1>3 DEF IInv, CursorsCovered
<1>6. UNCHANGED <<pull, current>> \/ ~Active'
  BY DEF Start, NewManager, Signal, Stopped, Crash, RunReturns, Finalize, Exits, Active
<1>7. Behind'
  BY <1>1, <1>6 DEF IInv, Behind, Active
<1>8. Onward'
  BY <1>1, <1>6 DEF IInv, Onward, Active
<1>9. QED
  BY <1>4, <1>5, <1>7, <1>8 DEF IInv

(* A step of the pull loop sets a cursor only to an epoch that is indexed, *)
(* with everything before it.                                              *)
LEMMA PullIInv == ASSUME IInv, Pull PROVE IInv' /\ (file >= 0 => file' >= file)
<1> USE DEF disk, Nothing
<1>0. StartEpoch \in Nat /\ UNCHANGED <<env, node, finalized, StartEpoch>>
  BY StartEpochNat
  DEF IInv, Types, Pull, Tick, Process, ProcessFails, SaveStep, Write, Rename, SaveFails, StartEpoch
<1>1. CASE Tick
  <2>1. UNCHANGED <<file, current, indexed, tmp>> /\ seen' \in Nat /\ pull' = "process"
    BY <1>1 DEF Tick, IInv, Types
  <2>2. /\ epoch' \in Nat /\ current <= epoch'
        /\ ~env.skipUpload => StartEpoch .. (epoch' - 1) \subseteq indexed
    BY <1>0, <1>1 DEF Tick, After, IInv, Types, CursorsCovered
  <2>3. Types' /\ Ordered' /\ CursorsCovered' /\ Behind'
    BY <1>0, <2>1, <2>2, Zenon DEF IInv, Types, Ordered, CursorsCovered, Behind, Active
  <2>4. Onward'
    BY <1>0, <1>1 DEF IInv, Types, Onward, Tick, After
  <2>5. QED
    BY <2>1, <2>3, <2>4 DEF IInv, Types
<1>2. CASE Process \/ ProcessFails
  <2>1. /\ UNCHANGED <<file, current, tmp, epoch, seen>>
        /\ indexed \subseteq indexed' /\ pull = "process"
        /\ pull' \in {"set", "tick", "ended"}
        /\ pull' = "set" /\ ~env.skipUpload => epoch \in indexed'
    BY <1>2 DEF Process, ProcessFails
  <2>2. Types' /\ Ordered' /\ CursorsCovered'
    BY <1>0, <2>1 DEF IInv, Types, Ordered, CursorsCovered
  <2>3. Behind'
    BY <1>0, <2>1 DEF IInv, Behind, Active
  <2>4. Onward'
    BY <2>1 DEF Onward
  <2>5. QED
    BY <2>1, <2>2, <2>3, <2>4 DEF IInv, Types
<1>3. CASE SaveStep \/ SaveFails
  <2>1. /\ UNCHANGED <<file, epoch, seen, indexed>>
        /\ pull \in {"set", "write", "rename"}
        /\ pull' \in {"write", "rename", "tick"}
        /\ current' = epoch
        /\ pull' = "rename" => tmp' = epoch
    BY <1>3 DEF SaveStep, Write, SaveFails, IInv, Behind
  <2>2. ~env.skipUpload => StartEpoch .. epoch \subseteq indexed
    BY <1>0, <2>1 DEF IInv, Types, Behind, Active
  <2>3. Types' /\ Ordered' /\ CursorsCovered'
    BY <1>0, <2>1, <2>2 DEF IInv, Types, Ordered, CursorsCovered, Behind, Active
  <2>4. Behind'
    BY <1>0, <2>1 DEF IInv, Types, Behind, Active
  <2>5. Onward'
    BY <2>1 DEF Onward
  <2>6. QED
    BY <2>1, <2>3, <2>4, <2>5 DEF IInv, Types
<1>4. CASE Rename
  <2>1. /\ UNCHANGED <<current, seen, indexed>>
        /\ pull = "rename" /\ pull' \in {"process", "tick"}
        /\ file' = epoch /\ current = epoch
        /\ epoch' \in {epoch, epoch + 1}
        /\ epoch \in Nat /\ file \in Nat \cup {Nothing} /\ file <= epoch
    BY <1>4 DEF Rename, IInv, Types, Behind, Ordered
  <2>2. ~env.skipUpload => StartEpoch .. epoch \subseteq indexed
    BY <1>0, <2>1 DEF IInv, Types, Behind, Active
  <2>3. Types' /\ Ordered' /\ CursorsCovered'
    BY <1>0, <2>1, <2>2 DEF IInv, Types, Ordered, CursorsCovered
  <2>4. Behind'
    <3>1. CASE epoch' = epoch
      BY <1>0, <2>1, <2>2, <3>1 DEF Behind, Active
    <3>2. CASE epoch' = epoch + 1
      <4>1. epoch' - 1 = epoch /\ current' <= epoch'
        BY <2>1, <3>2
      <4>2. QED
        BY <1>0, <2>1, <2>2, <4>1, Zenon DEF Behind, Active
    <3>3. QED
      BY <2>1, <3>1, <3>2
  <2>5. Onward'
    BY <1>4, <2>1 DEF Onward, Rename
  <2>6. QED
    BY <2>1, <2>3, <2>4, <2>5 DEF IInv
<1>5. QED
  BY <1>1, <1>2, <1>3, <1>4 DEF Pull

(* The file is replaced by a rename alone, which never takes it back.      *)
LEMMA StepIInv ==
  ASSUME IInv, [Next]_vars
  PROVE  IInv' /\ [file' # Partial /\ (file >= 0 => file' >= file)]_vars
<1>1. IInv' /\ (file >= 0 => file' >= file)
  <2>1. CASE UNCHANGED vars
    BY <2>1
    DEF vars, IInv, Types, CursorsCovered, Behind, Active, Ordered, Onward, StartEpoch, Nothing
  <2>2. CASE Pull
    BY <2>2, PullIInv
  <2>3. CASE Start \/ Signal \/ Stopped \/ Crash \/ RunReturns \/ Finalize
    <3>1. UNCHANGED file
      BY <2>3 DEF Start, NewManager, Signal, Stopped, Crash, RunReturns, Finalize, Exits, disk
    <3>2. QED
      BY <2>3, <3>1, LifeIInv DEF IInv, Types, Nothing
  <2>4. QED
    BY <2>1, <2>2, <2>3 DEF Next
<1>2. QED
  BY <1>1 DEF IInv, Types, Nothing, Partial

(* The inductive invariant holds in every run of the process.              *)
THEOREM ServiceInvariant == Spec => []IInv
<1>1. IInv /\ [Next]_vars => IInv'
  BY StepIInv
<1>2. QED
  BY <1>1, InitIInv, PTL DEF Spec

(* No loss of the process and no failed save makes a start skip an epoch.  *)
THEOREM ServiceCursorsCovered == Spec => []CursorsCovered
<1>1. IInv => CursorsCovered
  BY DEF IInv
<1>2. QED
  BY <1>1, ServiceInvariant, PTL

(* No restart and no failed save makes the loop process again what the     *)
(* file says is done.                                                      *)
THEOREM ServiceNotRepeated == Spec => []NotRepeated
<1>1. IInv => NotRepeated
  BY DEF IInv, Types, Ordered, Onward, NotRepeated, Nothing
<1>2. QED
  BY <1>1, ServiceInvariant, PTL

(* The state file is always readable and its cursor never goes back, with  *)
(* losses of the process between any two steps of a save.                  *)
THEOREM ServiceAtomic == Spec => Atomic
<1>1. IInv /\ [Next]_vars => [file' # Partial /\ (file >= 0 => file' >= file)]_vars
  BY StepIInv
<1>2. QED
  BY <1>1, ServiceInvariant, PTL DEF Spec, Atomic

=============================================================================
