----------------------------- MODULE PullLoopProofs -----------------------------
(***************************************************************************)
(* What the pull loop guarantees for every range of epochs and any number  *)
(* of faults, commands and restarts.                                       *)
(***************************************************************************)
EXTENDS PullLoop, WellFoundedInduction, TLAPS

(* The part of TypeOK the argument needs.                                  *)
Types ==
  /\ finalized \in Nat
  /\ seen \in Nat
  /\ backfillRow \in Nat
  /\ bNext \in Nat

(* Nothing is missing before the epoch the backfill is at, and that epoch  *)
(* is saved once only its cursor is left to write.                         *)
Behind ==
  /\ \A e \in StartEpoch .. bNext - 1 : e \in rows
  /\ backfill = "record" => bNext \in rows

(* There is no backfill goroutine until Run has launched it.               *)
Launched == main \in {"boot", "anchor", "down"} => backfill = "off"

IInv == Types /\ CursorCovered /\ Behind /\ Launched

(* An empty cursor has nothing to cover.                                   *)
LEMMA InitIInv == Init => IInv
BY PullLoopAssumption DEF Init, IInv, Types, CursorCovered, Behind, Launched

(* Saving an epoch uncovers nothing.                                       *)
LEMMA RowsGrow ==
  ASSUME IInv, rows \subseteq rows', Types', Launched', UNCHANGED <<backfillRow, bNext>>,
         backfill' = "record" => bNext \in rows'
  PROVE  IInv'
BY DEF IInv, CursorCovered, Behind

(* The start computed from a covered cursor leaves nothing behind.         *)
LEMMA AfterCovered ==
  ASSUME IInv
  PROVE  /\ After(backfillRow) \in Nat
         /\ \A e \in StartEpoch .. After(backfillRow) - 1 : e \in rows
<1>1. CASE backfillRow > 0
  <2>1. After(backfillRow) \in Nat /\ After(backfillRow) - 1 = backfillRow
    BY <1>1 DEF After, IInv, Types
  <2>2. QED
    BY <1>1, <2>1 DEF IInv, CursorCovered
<1>2. CASE ~(backfillRow > 0)
  BY <1>2, PullLoopAssumption DEF After
<1>3. QED
  BY <1>1, <1>2

(* The backfill goroutine records an epoch only once it is saved.          *)
LEMMA BackfillIInv == IInv /\ Backfill => IInv'
<1> SUFFICES ASSUME IInv, Backfill PROVE IInv'
  OBVIOUS
<1> USE DEF runVars
<1>0. Launched'
  BY DEF Backfill, BackfillSave, BackfillRecord, BackfillFails, IInv, Launched
<1>1. CASE BackfillSave
  <2>1. Types'
    BY <1>1 DEF BackfillSave, IInv, Types
  <2>2. QED
    BY <1>0, <1>1, <2>1, RowsGrow DEF BackfillSave
<1>2. CASE BackfillRecord
  <2>1. /\ UNCHANGED <<finalized, rows, seen>>
        /\ backfillRow' = bNext
        /\ bNext' = bNext + 1
        /\ backfill' # "record"
        /\ bNext \in Nat
        /\ bNext' - 1 = bNext
    BY <1>2 DEF BackfillRecord, IInv, Types
  <2>2. \A e \in StartEpoch .. bNext : e \in rows
    BY <1>2, <2>1, PullLoopAssumption DEF BackfillRecord, IInv, Behind
  <2>3. Types'
    BY <2>1 DEF IInv, Types
  <2>4. CursorCovered' /\ Behind'
    BY <2>1, <2>2 DEF CursorCovered, Behind
  <2>5. QED
    BY <1>0, <2>3, <2>4 DEF IInv
<1>3. CASE BackfillFails
  <2>1. /\ UNCHANGED <<finalized, seen, bNext>>
        /\ backfill' # "record"
        /\ rows \subseteq rows'
        /\ \/ UNCHANGED backfillRow
           \/ backfillRow' = bNext /\ bNext \in rows
    BY <1>3 DEF BackfillFails, IInv, Behind
  <2>2. Types'
    BY <2>1 DEF IInv, Types
  <2>3. CASE UNCHANGED backfillRow
    BY <1>0, <2>1, <2>2, <2>3, RowsGrow
  <2>4. CASE backfillRow' = bNext /\ bNext \in rows
    <3>1. \A e \in StartEpoch .. bNext : e \in rows
      BY <2>4, PullLoopAssumption DEF IInv, Types, Behind
    <3>2. CursorCovered' /\ Behind'
      BY <2>1, <2>4, <3>1 DEF IInv, CursorCovered, Behind
    <3>3. QED
      BY <1>0, <2>2, <3>2 DEF IInv
  <2>5. QED
    BY <2>1, <2>3, <2>4
<1>4. QED
  BY <1>1, <1>2, <1>3 DEF Backfill

(* The initial reads start the backfill at an epoch that nothing is missing *)
(* before.                                                                 *)
LEMMA BootIInv == IInv /\ Boot => IInv'
<1> SUFFICES ASSUME IInv, Boot PROVE IInv'
  OBVIOUS
<1>1. /\ UNCHANGED <<finalized, rows, backfillRow, backfill>>
      /\ seen' \in {seen, finalized}
      /\ bNext' \in {bNext, After(backfillRow)}
      /\ backfill = "off"
  BY DEF Boot, database, IInv, Launched
<1>2. Types' /\ Launched' /\ CursorCovered'
  BY <1>1, AfterCovered DEF IInv, Types, Launched, CursorCovered
<1>3. Behind'
  BY <1>1, AfterCovered DEF IInv, Behind
<1>4. QED
  BY <1>2, <1>3 DEF IInv

(* No step of Run, the live goroutine, a command or the environment moves  *)
(* the backfill cursor or deletes a row.                                   *)
LEMMA OthersIInv ==
  ASSUME IInv,
         \/ Anchor \/ RunFails \/ Live \/ ProcessSingleEpoch
         \/ Finalize \/ Crash \/ Exit \/ Restart
  PROVE  IInv'
<1> USE DEF database, runVars, backVars
<1>1. rows \subseteq rows' /\ UNCHANGED <<backfillRow, bNext>>
  BY Zenon DEF Anchor, RunFails, Live, Tick, LiveProcess, LiveSetCursor, LiveFails,
         ProcessSingleEpoch, Finalize, Crash, Exit, ProcessEnds, Restart
<1>2. backfill' \in {backfill, "save", "off"}
  BY Zenon DEF Anchor, RunFails, Live, Tick, LiveProcess, LiveSetCursor, LiveFails,
         ProcessSingleEpoch, Finalize, Crash, Exit, ProcessEnds, Restart
<1>3. seen' \in {seen, finalized} /\ finalized' \in {finalized, finalized + 1}
  BY Zenon DEF Anchor, RunFails, Live, Tick, LiveProcess, LiveSetCursor, LiveFails,
         ProcessSingleEpoch, Finalize, Crash, Exit, ProcessEnds, Restart
<1>4. Launched'
  BY Zenon DEF Anchor, RunFails, Live, Tick, LiveProcess, LiveSetCursor, LiveFails,
         ProcessSingleEpoch, Finalize, Crash, Exit, ProcessEnds, Restart, IInv, Launched
<1>5. Types'
  BY <1>1, <1>3 DEF IInv, Types
<1>6. backfill' = "record" => bNext \in rows'
  BY <1>1, <1>2 DEF IInv, Behind
<1>7. QED
  BY <1>1, <1>4, <1>5, <1>6, RowsGrow

(* The invariant is inductive.                                             *)
LEMMA NextIInv == IInv /\ [Next]_vars => IInv'
<1>1. ASSUME IInv, UNCHANGED vars PROVE IInv'
  BY <1>1
  DEF IInv, Types, CursorCovered, Behind, Launched, vars, database, runVars, backVars
<1>2. QED
  BY <1>1, BackfillIInv, BootIInv, OthersIInv DEF Next

(* The inductive invariant holds in every run of the pull loop.            *)
THEOREM PullLoopInvariant == Spec => []IInv
BY InitIInv, NextIInv, PTL DEF Spec

(* The start Run computes from the backfill cursor never skips an epoch    *)
(* that is not saved, whatever commands and restarts came before.          *)
THEOREM PullLoopCursorCovered == Spec => []CursorCovered
<1>1. IInv => CursorCovered
  BY DEF IInv
<1>2. QED
  BY <1>1, PullLoopInvariant, PTL

(* A start of Run that anchors the live goroutine at the tip leaves no     *)
(* epoch to nobody, but the anchor.                                        *)
LEMMA AnchorHeals ==
  ASSUME IInv, Anchor, bNext < seen
  PROVE  OnlyAnchorLeft'
<1>1. /\ liveRow' = seen - 1
      /\ liveCursor' = seen - 1
      /\ rows' = rows
      /\ bNext' = bNext
      /\ seen \in Nat /\ bNext \in Nat
      /\ seen - 1 # NoRow
  BY DEF Anchor, Top, IInv, Types, NoRow
<1>2. GetLastProcessedEpoch' = seen - 1
  BY <1>1 DEF GetLastProcessedEpoch
<1>3. SUFFICES ASSUME NEW e \in Epochs, e # seen - 1 PROVE Assigned(e)'
  BY <1>1 DEF OnlyAnchorLeft
<1>4. e \in Nat /\ StartEpoch <= e
  BY PullLoopAssumption DEF Epochs
<1>5. CASE e < bNext
  BY <1>1, <1>4, <1>5, PullLoopAssumption DEF Assigned, IInv, Behind
<1>6. CASE bNext <= e /\ e < seen - 1
  <2>1. backfill' = "save" /\ bTarget' = seen - 2
    BY <1>1, <1>4, <1>6 DEF Anchor, Top
  <2>2. e \in bNext' .. bTarget'
    BY <1>1, <1>4, <1>6, <2>1
  <2>3. QED
    BY <2>1, <2>2 DEF Assigned, Backfilling
<1>7. CASE e > seen - 1
  <2>1. After(seen - 1) <= e
    BY <1>1, <1>4, <1>7, PullLoopAssumption DEF After
  <2>2. After(GetLastProcessedEpoch)' = After(seen - 1)
    BY <1>2 DEF After
  <2>3. After(seen - 1) \in Nat
    BY <1>1, PullLoopAssumption DEF After
  <2>4. QED
    BY <1>4, <2>1, <2>2, <2>3 DEF Assigned
<1>8. QED
  BY <1>1, <1>3, <1>4, <1>5, <1>6, <1>7

(* Every start of Run that finds epochs to backfill closes the gaps that   *)
(* commands or losses of the process have left.                            *)
THEOREM PullLoopHealedOnStart == Spec => HealedOnStart
<1>1. IInv /\ [Next]_vars => [Anchor /\ bNext < seen => OnlyAnchorLeft']_vars
  BY AnchorHeals
<1>2. QED
  BY <1>1, PullLoopInvariant, PTL DEF Spec, HealedOnStart

-----------------------------------------------------------------------------
(* Types                                                                   *)

(* TypeOK with the bounds of the loop variables while they are in use.     *)
TypeInv ==
  /\ TypeOK
  /\ liveRow # NoRow => liveRow \in Epochs
  /\ seen <= finalized
  /\ main \in {"process", "setLive"} => StartEpoch <= epoch /\ epoch <= seen
  /\ main = "anchor" => StartEpoch <= bNext
  /\ Backfilling => StartEpoch <= bNext /\ bNext <= bTarget
  /\ budget["manual"] <= MaxManual

(* The highest of some epochs is one of them.                              *)
LEMMA MaxOf ==
  ASSUME NEW S, S # {}, S \subseteq Epochs
  PROVE  Max(S) \in S /\ \A e \in S : e <= Max(S)
<1> DEFINE below == {MaxEpoch - e : e \in S}
<1>1. \A e \in S : e \in Nat /\ MaxEpoch - e \in Nat
  BY PullLoopAssumption DEF Epochs
<1>2. below \subseteq Nat /\ below # {}
  BY <1>1
<1>3. \E x \in below : \A y \in below : ~(<<y, x>> \in OpToRel(<, Nat))
  <2> HIDE DEF below
  <2>1. QED
    BY <1>2, NatLessThanWellFounded, WFMin
<1>4. PICK x \in below : \A y \in below : ~(y < x)
  <2>1. PICK x \in below : \A y \in below : ~(<<y, x>> \in OpToRel(<, Nat))
    BY <1>3
  <2>2. \A y \in below : ~(y < x)
    BY <1>2, <2>1, Zenon DEF OpToRel
  <2>3. QED
    BY <2>2
<1>5. PICK m \in S : x = MaxEpoch - m
  BY <1>4
<1>6. ASSUME NEW e \in S PROVE m >= e
  <2>1. MaxEpoch - e \in below
    OBVIOUS
  <2>2. ~(MaxEpoch - e < MaxEpoch - m)
    BY <1>4, <1>5, <2>1
  <2>3. QED
    BY <1>1, <2>2, PullLoopAssumption
<1>7. Max(S) \in S /\ \A e \in S : Max(S) >= e
  BY <1>6 DEF Max
<1>8. QED
  BY <1>1, <1>7

(* The cursor that is read is 0 or an epoch; without a row for it, no      *)
(* saved epoch is past it.                                                 *)
LEMMA CursorRead ==
  ASSUME TypeInv
  PROVE  /\ GetLastProcessedEpoch \in {0} \cup Epochs
         /\ After(GetLastProcessedEpoch) \in StartEpoch .. MaxEpoch + 1
         /\ liveRow = NoRow /\ rows # {} => GetLastProcessedEpoch \in rows
         /\ liveRow = NoRow => \A r \in rows : r <= GetLastProcessedEpoch
<1>1. rows \subseteq Epochs /\ liveRow \in {NoRow} \cup Epochs
  BY DEF TypeInv, TypeOK
<1>2. liveRow = NoRow /\ rows # {} =>
        GetLastProcessedEpoch \in rows /\ \A r \in rows : r <= GetLastProcessedEpoch
  BY <1>1, MaxOf DEF GetLastProcessedEpoch
<1>3. GetLastProcessedEpoch \in {0} \cup Epochs
  BY <1>1, <1>2 DEF GetLastProcessedEpoch
<1>4. After(GetLastProcessedEpoch) \in StartEpoch .. MaxEpoch + 1
  BY <1>3, PullLoopAssumption DEF After, Epochs
<1>5. QED
  BY <1>2, <1>3, <1>4

(* The types hold in the initial states.                                   *)
LEMMA InitTypes == Init => TypeInv
BY PullLoopAssumption DEF Init, TypeInv, TypeOK, Epochs, NoRow, Backfilling

(* Spending leaves a budget of numbers that does not grow.                 *)
LEMMA SpendType ==
  ASSUME TypeInv, NEW kind \in {"fault", "crash", "manual"}, Spend(kind)
  PROVE  /\ budget' \in [{"fault", "crash", "manual"} -> Nat]
         /\ budget'["manual"] <= MaxManual
         /\ kind # "manual" => budget'["manual"] = budget["manual"]
         /\ kind = "manual" => budget'["manual"] < MaxManual
BY PullLoopAssumption DEF TypeInv, TypeOK, Spend

(* Steps of Run and the live goroutine keep the types.                     *)
LEMMA RunTypes ==
  ASSUME TypeInv, IInv, Boot \/ Anchor \/ RunFails \/ Live
  PROVE  TypeInv'
<1> USE PullLoopAssumption DEF database, runVars, backVars, Epochs, NoRow, Backfilling
<1>1. CASE Boot
  <2>1. GetLastProcessedEpoch \in 0 .. MaxEpoch
    BY CursorRead
  <2>2. After(backfillRow) \in StartEpoch .. MaxEpoch + 1
    BY DEF After, TypeInv, TypeOK
  <2>3. QED
    BY <1>1, <2>1, <2>2 DEF Boot, TypeInv, TypeOK, IInv, Launched
<1>2. CASE Anchor
  <2>1. Top \in 0 .. MaxEpoch /\ (bNext < seen => Top \in Epochs) /\ bNext >= StartEpoch
    BY <1>2 DEF Anchor, Top, TypeInv, TypeOK
  <2>2. QED
    BY <1>2, <2>1 DEF Anchor, TypeInv, TypeOK, IInv, Launched
<1>3. CASE RunFails
  <2>1. main = "anchor" /\ bNext < seen => Top \in Epochs
    BY DEF Top, TypeInv, TypeOK
  <2>2. QED
    BY <1>3, <2>1, SpendType DEF RunFails, TypeInv, TypeOK
<1>4. CASE Tick
  BY <1>4, CursorRead DEF Tick, TypeInv, TypeOK
<1>5. CASE LiveProcess
  BY <1>5 DEF LiveProcess, TypeInv, TypeOK
<1>6. CASE LiveSetCursor
  BY <1>6 DEF LiveSetCursor, TypeInv, TypeOK
<1>7. CASE LiveFails
  <2>1. /\ budget' \in [{"fault", "crash", "manual"} -> Nat]
        /\ budget'["manual"] <= MaxManual
    BY <1>7, SpendType DEF LiveFails
  <2>2. /\ rows' \in {rows, rows \cup {epoch}} /\ liveRow' \in {liveRow, epoch}
        /\ main \in {"process", "setLive"} /\ main' \in {"tick", "exited"}
        /\ UNCHANGED <<finalized, backfillRow, seen, liveCursor, epoch, backfill, bNext, bTarget>>
    BY <1>7 DEF LiveFails
  <2>3. QED
    BY <2>1, <2>2 DEF TypeInv, TypeOK
<1>8. QED
  BY <1>1, <1>2, <1>3, <1>4, <1>5, <1>6, <1>7 DEF Live

(* Steps of the backfill, the commands and the environment do too.         *)
LEMMA OtherTypes ==
  ASSUME TypeInv,
         Backfill \/ ProcessSingleEpoch \/ Finalize \/ Crash \/ Exit \/ Restart \/ UNCHANGED vars
  PROVE  TypeInv'
<1> USE PullLoopAssumption DEF database, runVars, backVars, Epochs, NoRow, Backfilling
<1>1. CASE BackfillSave
  BY <1>1 DEF BackfillSave, TypeInv, TypeOK
<1>2. CASE BackfillRecord
  BY <1>2 DEF BackfillRecord, TypeInv, TypeOK
<1>3. CASE BackfillFails
  <2>1. /\ budget' \in [{"fault", "crash", "manual"} -> Nat]
        /\ budget'["manual"] <= MaxManual
    BY <1>3, SpendType DEF BackfillFails
  <2>2. /\ rows' \in {rows, rows \cup {bNext}} /\ backfillRow' \in {backfillRow, bNext}
        /\ Backfilling /\ backfill' \in {"save", "stuck"}
        /\ UNCHANGED <<finalized, liveRow, main, seen, liveCursor, epoch, bNext, bTarget>>
    BY <1>3 DEF BackfillFails
  <2>3. QED
    BY <2>1, <2>2 DEF TypeInv, TypeOK
<1>4. CASE ProcessSingleEpoch
  BY <1>4, SpendType DEF ProcessSingleEpoch, TypeInv, TypeOK
<1>5. CASE Finalize
  BY <1>5 DEF Finalize, TypeInv, TypeOK
<1>6. CASE Crash
  BY <1>6, SpendType, Zenon DEF Crash, ProcessEnds, TypeInv, TypeOK
<1>7. CASE Exit \/ Restart
  BY <1>7, Zenon DEF Exit, ProcessEnds, Restart, TypeInv, TypeOK
<1>8. CASE UNCHANGED vars
  BY <1>8 DEF vars, TypeInv, TypeOK
<1>9. QED
  BY <1>1, <1>2, <1>3, <1>4, <1>5, <1>6, <1>7, <1>8 DEF Backfill

(* The types hold in every run.                                            *)
THEOREM PullLoopTypes == Spec => []TypeInv
<1>1. TypeInv /\ IInv /\ [Next]_vars => TypeInv'
  BY RunTypes, OtherTypes DEF Next
<1>2. QED
  BY <1>1, InitTypes, PullLoopInvariant, PTL DEF Spec

(* Every cursor, row and loop variable stays within the finalized epochs.  *)
THEOREM PullLoopTypeOK == Spec => []TypeOK
<1>1. TypeInv => TypeOK
  BY DEF TypeInv
<1>2. QED
  BY <1>1, PullLoopTypes, PTL

-----------------------------------------------------------------------------
(* The epochs between the two goroutines                                   *)

(* While no command sets the live cursor:                                  *)
(*   - what Run has read is still what the table holds when it anchors;    *)
(*   - without a live cursor there was no backfill, the table ends at the  *)
(*     tip Run saw, and at the epoch the live goroutine is at;             *)
(*   - the backfill stays behind the live cursor and the live goroutine;   *)
(*   - an epoch that is not the anchor is saved, in the backfill's range,  *)
(*     or still before the live goroutine.                                 *)
Read == main = "anchor" => liveCursor = GetLastProcessedEpoch

Fresh ==
  liveRow = NoRow =>
    /\ backfillRow = 0 /\ ~Backfilling
    /\ \A r \in rows : r <= finalized
    /\ main = "anchor" => bNext = StartEpoch /\ \A r \in rows : r <= seen
    /\ main \in {"process", "setLive"} => \A r \in rows : r <= epoch

Apart ==
  Backfilling =>
    /\ bTarget < GetLastProcessedEpoch
    /\ main \in {"process", "setLive"} => bTarget < epoch

Ahead ==
  /\ main \in {"process", "setLive"} =>
       \A e \in Epochs : \/ e = liveCursor \/ e \in rows \/ e >= epoch
                         \/ Backfilling /\ e \in bNext .. bTarget
  /\ main = "setLive" => epoch \in rows

Gap == Read /\ Fresh /\ Apart /\ Ahead /\ OnlyAnchorLeft

GapInv == Undisturbed => Gap

(* The cursor that is read changes with its row, or with the table if      *)
(* there is no row.                                                        *)
LEMMA SameCursor ==
  ASSUME liveRow' = liveRow, liveRow # NoRow \/ rows' = rows
  PROVE  /\ GetLastProcessedEpoch' = GetLastProcessedEpoch
         /\ After(GetLastProcessedEpoch)' = After(GetLastProcessedEpoch)
BY DEF GetLastProcessedEpoch, After

(* Nobody loses an epoch when the cursor stays and the range of the        *)
(* backfill shrinks only by what is saved.                                 *)
LEMMA NobodyLoses ==
  ASSUME OnlyAnchorLeft, Running' => Running, rows \subseteq rows', liveCursor' = liveCursor,
         After(GetLastProcessedEpoch)' = After(GetLastProcessedEpoch),
         \A e \in Epochs : Backfilling /\ e \in bNext .. bTarget =>
                             e \in rows' \/ (Backfilling' /\ e \in bNext' .. bTarget')
  PROVE  OnlyAnchorLeft'
BY DEF OnlyAnchorLeft, Assigned

(* The initial reads.                                                      *)
LEMMA BootGap == ASSUME TypeInv, IInv, Gap, Boot PROVE Gap'
<1> USE DEF database
<1>1. /\ main' = "anchor" /\ seen' = finalized /\ liveCursor' = GetLastProcessedEpoch
      /\ bNext' = After(backfillRow) /\ UNCHANGED <<rows, liveRow, backfillRow, finalized>>
      /\ ~Backfilling /\ ~Backfilling'
  BY DEF Boot, IInv, Launched, Backfilling
<1>2. Read'
  BY <1>1, SameCursor DEF Read
<1>3. Fresh'
  BY <1>1 DEF Gap, Fresh, After
<1>4. QED
  BY <1>1, <1>2, <1>3 DEF Gap, Apart, Ahead, OnlyAnchorLeft, Running

(* The anchor: the backfill is launched below the live cursor.             *)
LEMMA AnchorGap == ASSUME TypeInv, IInv, Gap, Anchor PROVE Gap'
<1>1. /\ main' = "tick" /\ liveCursor' = Top /\ ~Backfilling
      /\ liveRow' = (IF bNext < seen THEN Top ELSE liveRow)
      /\ \/ bNext < Top /\ backfill' = "save" /\ bTarget' = Top - 1
         \/ bNext >= Top /\ UNCHANGED <<backfill, bTarget>>
      /\ UNCHANGED <<finalized, rows, backfillRow, seen, bNext>>
      /\ main = "anchor"
  BY DEF Anchor, IInv, Launched, Backfilling
<1>2. /\ seen \in Nat /\ bNext \in Nat /\ liveCursor \in Nat /\ Top \in Nat
      /\ StartEpoch \in Nat /\ StartEpoch <= bNext
  BY <1>1, PullLoopAssumption DEF TypeInv, TypeOK, Top
<1>3. GetLastProcessedEpoch' = Top
  <2>1. CASE bNext < seen
    BY <1>1, <1>2, <2>1 DEF GetLastProcessedEpoch, NoRow
  <2>2. CASE ~(bNext < seen)
    BY <1>1, <2>2, SameCursor DEF Gap, Read, Top
  <2>3. QED
    BY <2>1, <2>2
<1>4. Read' /\ Ahead'
  BY <1>1 DEF Read, Ahead
<1>5. Apart'
  BY <1>1, <1>2, <1>3 DEF Apart, Backfilling
<1>6. Fresh'
  <2> SUFFICES ASSUME liveRow' = NoRow PROVE Fresh'
    BY DEF Fresh
  <2>1. ~(bNext < seen) /\ liveRow = NoRow
    BY <1>1, <1>2 DEF Top, NoRow
  <2>2. Top = GetLastProcessedEpoch
    BY <1>1, <2>1 DEF Top, Gap, Read
  <2>3. Top <= bNext
    BY <1>1, <1>2, <2>1, <2>2, CursorRead DEF Gap, Fresh, GetLastProcessedEpoch
  <2>4. ~Backfilling'
    BY <1>1, <1>2, <2>3 DEF Backfilling
  <2>5. QED
    BY <1>1, <2>1, <2>4 DEF Gap, Fresh
<1>7. OnlyAnchorLeft'
  <2>1. CASE bNext < seen
    BY <2>1, AnchorHeals
  <2>2. CASE ~(bNext < seen)
    <3>1. Top = liveCursor
      BY <2>2 DEF Top
    <3>2. SUFFICES ASSUME NEW e \in Epochs, e # Top PROVE Assigned(e)'
      BY <1>1 DEF OnlyAnchorLeft
    <3>3. e \in Nat /\ StartEpoch <= e
      BY PullLoopAssumption DEF Epochs
    <3>4. CASE e < bNext
      BY <1>1, <1>2, <3>3, <3>4 DEF Assigned, IInv, Behind
    <3>5. CASE bNext <= e /\ e < Top
      <4>1. backfill' = "save" /\ e \in bNext' .. bTarget'
        BY <1>1, <1>2, <3>3, <3>5
      <4>2. QED
        BY <4>1 DEF Assigned, Backfilling
    <3>6. CASE e > Top
      <4>1. After(Top) <= e
        BY <1>2, <3>3, <3>6 DEF After
      <4>2. After(GetLastProcessedEpoch)' = After(Top)
        BY <1>3 DEF After
      <4>3. QED
        BY <1>2, <3>3, <4>1, <4>2 DEF Assigned, After
    <3>7. QED
      BY <1>2, <3>2, <3>3, <3>4, <3>5, <3>6
  <2>3. QED
    BY <2>1, <2>2
<1>8. QED
  BY <1>4, <1>5, <1>6, <1>7 DEF Gap

(* A live tick starts after the cursor, with everything before it somebody *)
(* else's.                                                                 *)
LEMMA TickGap == ASSUME TypeInv, Gap, Tick PROVE Gap'
<1> USE DEF database, backVars
<1>1. /\ main = "tick" /\ main' = "process" /\ epoch' = After(GetLastProcessedEpoch)
      /\ UNCHANGED <<finalized, rows, liveRow, backfillRow, liveCursor, backfill, bNext, bTarget>>
  BY DEF Tick
<1>2. /\ GetLastProcessedEpoch \in Nat /\ StartEpoch \in Nat
      /\ epoch' \in Nat
      /\ GetLastProcessedEpoch > 0 => epoch' = GetLastProcessedEpoch + 1
      /\ GetLastProcessedEpoch = 0 => epoch' = StartEpoch
  BY <1>1, CursorRead, PullLoopAssumption DEF After, Epochs
<1>3. Read' /\ Running /\ Running'
  BY <1>1 DEF Read, Running
<1>4. Apart'
  <2> SUFFICES ASSUME Backfilling' PROVE Apart'
    BY DEF Apart
  <2>1. Backfilling /\ bTarget < GetLastProcessedEpoch /\ bTarget \in Nat
    BY <1>1 DEF Gap, Apart, Backfilling, TypeInv, TypeOK
  <2>2. bTarget < epoch'
    BY <1>2, <2>1
  <2>3. QED
    BY <1>1, <2>1, <2>2, SameCursor DEF Apart
<1>5. Fresh'
  <2>1. liveRow = NoRow => \A r \in rows : r <= epoch'
    <3> SUFFICES ASSUME liveRow = NoRow, NEW r \in rows PROVE r <= epoch'
      OBVIOUS
    <3>1. r \in Nat /\ StartEpoch <= r /\ r <= GetLastProcessedEpoch
      BY CursorRead, PullLoopAssumption DEF TypeInv, TypeOK, Epochs
    <3>2. QED
      BY <1>2, <3>1
  <2>2. QED
    BY <1>1, <2>1 DEF Gap, Fresh, Backfilling
<1>6. Ahead'
  BY <1>1, <1>3 DEF Gap, OnlyAnchorLeft, Assigned, Ahead, Backfilling
<1>7. OnlyAnchorLeft'
  BY <1>1, <1>3, SameCursor, NobodyLoses DEF Gap, Backfilling
<1>8. QED
  BY <1>3, <1>4, <1>5, <1>6, <1>7 DEF Gap

(* Saving the epoch of the live goroutine; without a cursor the table then *)
(* ends at it.                                                             *)
LEMMA LiveSaveGap ==
  ASSUME TypeInv, TypeInv', Gap, main = "process",
         rows' \in {rows, rows \cup {epoch}},
         \/ main' = "setLive" /\ epoch \in rows'
         \/ main' \in {"tick", "exited"},
         UNCHANGED <<finalized, liveRow, backfillRow, seen, liveCursor, epoch,
                     backfill, bNext, bTarget>>
  PROVE  Gap'
<1>1. rows \subseteq rows' /\ epoch \in Nat /\ epoch <= finalized /\ Running
  BY PullLoopAssumption DEF TypeInv, TypeOK, Running
<1>2. Read' /\ Ahead' /\ Backfilling' = Backfilling
  BY <1>1 DEF Gap, Read, Ahead, Backfilling
<1>3. Fresh'
  BY <1>1, <1>2 DEF Gap, Fresh
<1>4. CASE liveRow # NoRow
  <2>1. Apart'
    BY <1>2, <1>4, SameCursor DEF Gap, Apart
  <2>2. OnlyAnchorLeft'
    BY <1>1, <1>2, <1>4, SameCursor, NobodyLoses DEF Gap
  <2>3. QED
    BY <1>2, <1>3, <2>1, <2>2 DEF Gap
<1>5. CASE liveRow = NoRow
  <2>1. ~Backfilling'
    BY <1>2, <1>5 DEF Gap, Fresh
  <2>2. \A r \in rows' : r <= epoch
    BY <1>1, <1>5 DEF Gap, Fresh
  <2>3. ASSUME NEW e \in Epochs, e # liveCursor PROVE Assigned(e)'
    <3>1. CASE rows' = rows
      <4>1. Assigned(e)
        BY <1>1, <2>3 DEF Gap, OnlyAnchorLeft
      <4>2. QED
        BY <1>2, <3>1, <4>1, SameCursor DEF Assigned
    <3>2. CASE rows' = rows \cup {epoch}
      <4>1. e \in rows \/ e >= epoch
        BY <1>2, <2>1, <2>3 DEF Gap, Ahead
      <4>2. e \in rows' \/ e > epoch
        <5>1. e \in Nat
          BY PullLoopAssumption DEF Epochs
        <5>2. QED
          BY <1>1, <3>2, <4>1, <5>1
      <4>3. GetLastProcessedEpoch' \in rows' /\ GetLastProcessedEpoch' \in {0} \cup Epochs
        <5>1. liveRow' = NoRow /\ rows' # {} /\ TypeInv'
          BY <1>5, <3>2
        <5>2. rows' \subseteq Epochs
          BY DEF TypeInv, TypeOK
        <5>3. GetLastProcessedEpoch' = Max(rows')
          BY <5>1 DEF GetLastProcessedEpoch
        <5>4. QED
          BY <5>1, <5>2, <5>3, MaxOf
      <4>4. GetLastProcessedEpoch' <= epoch
        BY <2>2, <4>3
      <4>5. e > epoch => e >= After(GetLastProcessedEpoch)'
        <5>1. e \in Nat /\ StartEpoch <= e /\ GetLastProcessedEpoch' \in Nat
          BY <4>3, PullLoopAssumption DEF Epochs
        <5>2. PICK c \in Nat : c = GetLastProcessedEpoch'
          BY <5>1
        <5>3. After(GetLastProcessedEpoch)' = After(c)
          BY <5>2 DEF After
        <5>4. c <= epoch
          BY <4>4, <5>2
        <5>5. e > epoch => e >= After(c)
          BY <1>1, <5>1, <5>4, PullLoopAssumption DEF After
        <5>6. QED
          BY <5>3, <5>5
      <4>6. QED
        BY <4>2, <4>5 DEF Assigned
    <3>3. QED
      BY <3>1, <3>2
  <2>4. OnlyAnchorLeft'
    BY <2>3 DEF OnlyAnchorLeft
  <2>5. QED
    BY <1>2, <1>3, <2>1, <2>4 DEF Gap, Apart
<1>6. QED
  BY <1>4, <1>5

(* Setting the live cursor to the epoch that is saved.                     *)
LEMMA LiveCursorGap ==
  ASSUME TypeInv, Gap, main = "setLive",
         \/ liveRow' = epoch /\ main' = "process" /\ epoch' = epoch + 1
         \/ liveRow' \in {liveRow, epoch} /\ main' = "tick" /\ epoch' = epoch,
         UNCHANGED <<finalized, rows, backfillRow, seen, liveCursor, backfill, bNext, bTarget>>
  PROVE  Gap'
<1>1. /\ epoch \in Nat /\ epoch \in rows /\ Running /\ StartEpoch \in Nat /\ StartEpoch <= epoch
      /\ Backfilling' = Backfilling /\ bTarget \in Nat
  BY PullLoopAssumption DEF TypeInv, TypeOK, Gap, Ahead, Running, Backfilling
<1>2. Read'
  BY DEF Read
<1>3. Ahead'
  BY <1>1, PullLoopAssumption DEF Gap, Ahead, Epochs
<1>4. CASE liveRow' = epoch
  <2>1. GetLastProcessedEpoch' = epoch /\ epoch # NoRow
    BY <1>1, <1>4 DEF GetLastProcessedEpoch, NoRow
  <2>2. Fresh'
    BY <1>4, <2>1 DEF Fresh
  <2>3. Apart'
    BY <1>1, <2>1 DEF Gap, Apart
  <2>4. ASSUME NEW e \in Epochs, e # liveCursor PROVE Assigned(e)'
    <3>1. e \in rows \/ e > epoch \/ (Backfilling /\ e \in bNext .. bTarget)
      BY <1>1, <2>4, PullLoopAssumption DEF Gap, Ahead, Epochs
    <3>2. e > epoch => e >= After(epoch)
      BY <1>1, PullLoopAssumption DEF After, Epochs
    <3>3. After(GetLastProcessedEpoch)' = After(epoch)
      BY <2>1 DEF After
    <3>4. QED
      BY <1>1, <3>1, <3>2, <3>3 DEF Assigned
  <2>5. OnlyAnchorLeft'
    BY <2>4 DEF OnlyAnchorLeft
  <2>6. QED
    BY <1>2, <1>3, <2>2, <2>3, <2>5 DEF Gap
<1>5. CASE liveRow' = liveRow /\ main' = "tick" /\ epoch' = epoch
  <2>1. Fresh' /\ Apart'
    BY <1>1, <1>5, SameCursor DEF Gap, Fresh, Apart
  <2>2. OnlyAnchorLeft'
    BY <1>1, <1>5, SameCursor, NobodyLoses DEF Gap
  <2>3. QED
    BY <1>2, <1>3, <2>1, <2>2 DEF Gap
<1>6. QED
  BY <1>4, <1>5

(* The backfill gives up an epoch of its range only once it is saved.      *)
LEMMA BackfillGap == ASSUME TypeInv, IInv, Gap, Backfill PROVE Gap'
<1> USE DEF runVars
<1>1. /\ Backfilling /\ rows \subseteq rows' /\ bTarget' = bTarget
      /\ UNCHANGED <<finalized, liveRow, main, seen, liveCursor, epoch>>
  BY DEF Backfill, BackfillSave, BackfillRecord, BackfillFails, Backfilling
<1>2. liveRow # NoRow /\ main # "anchor"
  BY <1>1 DEF Gap, Fresh, IInv, Launched, Backfilling
<1>3. /\ GetLastProcessedEpoch' = GetLastProcessedEpoch
      /\ After(GetLastProcessedEpoch)' = After(GetLastProcessedEpoch)
  BY <1>1, <1>2, SameCursor
<1>4. ASSUME NEW e \in Epochs, e \in bNext .. bTarget
      PROVE  e \in rows' \/ (Backfilling' /\ e \in bNext' .. bTarget')
  <2>1. CASE BackfillSave \/ BackfillFails
    BY <1>4, <2>1 DEF BackfillSave, BackfillFails, Backfilling
  <2>2. CASE BackfillRecord
    <3>1. /\ bNext \in Nat /\ bTarget \in Nat /\ e \in Nat /\ bNext \in rows
          /\ rows' = rows /\ bNext' = bNext + 1 /\ bTarget' = bTarget
          /\ bNext < bTarget => Backfilling'
      BY <2>2, PullLoopAssumption
      DEF BackfillRecord, Backfilling, TypeInv, TypeOK, IInv, Behind, Epochs
    <3>2. CASE e = bNext
      BY <3>1, <3>2
    <3>3. CASE e # bNext
      BY <1>4, <3>1, <3>3
    <3>4. QED
      BY <3>2, <3>3
  <2>3. QED
    BY <2>1, <2>2 DEF Backfill
<1>5. Read' /\ Fresh'
  BY <1>1, <1>2 DEF Read, Fresh
<1>6. Apart'
  BY <1>1, <1>3 DEF Gap, Apart
<1>7. Ahead'
  BY <1>1, <1>4 DEF Gap, Ahead
<1>8. OnlyAnchorLeft'
  BY <1>1, <1>3, <1>4, NobodyLoses DEF Gap, Running
<1>9. QED
  BY <1>5, <1>6, <1>7, <1>8 DEF Gap

(* The loss, the end and the restart of the process, and finality.         *)
LEMMA EnvironmentGap ==
  ASSUME TypeInv, IInv, Gap, RunFails \/ Finalize \/ Crash \/ Exit \/ Restart \/ UNCHANGED vars
  PROVE  Gap'
<1> USE DEF vars, database, runVars, backVars
<1>1. CASE RunFails
  <2>1. ~Backfilling /\ ~Backfilling' /\ main' = "exited"
    BY <1>1, Zenon DEF RunFails, IInv, Launched, Backfilling
  <2>2. Fresh'
    <3> SUFFICES ASSUME liveRow' = NoRow PROVE Fresh'
      BY DEF Fresh
    <3>1. liveRow = NoRow /\ UNCHANGED <<rows, backfillRow, finalized>>
      BY <1>1 DEF RunFails, Top, TypeInv, TypeOK, NoRow
    <3>2. QED
      BY <2>1, <3>1, Zenon DEF Gap, Fresh
  <2>3. QED
    BY <2>1, <2>2 DEF Gap, Read, Apart, Ahead, OnlyAnchorLeft, Running
<1>2. CASE Crash \/ Exit \/ Restart
  <2>1. ~Backfilling' /\ main' \in {"down", "boot"}
        /\ UNCHANGED <<finalized, rows, liveRow, backfillRow>>
    BY <1>2 DEF Crash, Exit, ProcessEnds, Restart, IInv, Launched, Backfilling
  <2>2. Fresh'
    BY <2>1 DEF Gap, Fresh
  <2>3. QED
    BY <2>1, <2>2 DEF Gap, Read, Apart, Ahead, OnlyAnchorLeft, Running
<1>3. CASE Finalize \/ UNCHANGED vars
  <2>1. /\ UNCHANGED <<rows, liveRow, backfillRow, main, seen, liveCursor, epoch, backfill, bNext, bTarget>>
        /\ finalized' \in {finalized, finalized + 1} /\ finalized \in Nat
    BY <1>3 DEF Finalize, TypeInv, TypeOK
  <2>2. /\ GetLastProcessedEpoch' = GetLastProcessedEpoch
        /\ After(GetLastProcessedEpoch)' = After(GetLastProcessedEpoch)
    BY <2>1, SameCursor
  <2>3. Fresh'
    <3>1. \A r \in rows : r \in Nat
      BY PullLoopAssumption DEF TypeInv, TypeOK, Epochs
    <3>2. QED
      BY <2>1, <3>1 DEF Gap, Fresh, Backfilling
  <2>4. Read' /\ Apart' /\ Ahead'
    BY <2>1, <2>2 DEF Gap, Read, Apart, Ahead, Backfilling
  <2>5. OnlyAnchorLeft'
    BY <2>1, <2>2, NobodyLoses DEF Gap, Running, Backfilling
  <2>6. QED
    BY <2>3, <2>4, <2>5 DEF Gap
<1>4. QED
  BY <1>1, <1>2, <1>3

(* Each step of the live goroutine is one of the three above.              *)
LEMMA LiveGap == ASSUME TypeInv, TypeInv', Gap, Live PROVE Gap'
<1> USE DEF database, backVars
<1>1. CASE Tick
  BY <1>1, TickGap
<1>2. CASE LiveProcess
  BY <1>2, LiveSaveGap DEF LiveProcess
<1>3. CASE LiveSetCursor
  BY <1>3, LiveCursorGap DEF LiveSetCursor
<1>4. CASE LiveFails
  BY <1>4, LiveSaveGap, LiveCursorGap DEF LiveFails
<1>5. QED
  BY <1>1, <1>2, <1>3, <1>4 DEF Live

(* A command that sets the live cursor is never forgotten.                 *)
LEMMA StillUndisturbed ==
  ASSUME TypeInv, [Next]_vars, Undisturbed'
  PROVE  Undisturbed /\ ~ProcessSingleEpoch
<1>1. budget'["manual"] = MaxManual /\ budget["manual"] \in Nat /\ budget["manual"] <= MaxManual
  BY DEF Undisturbed, TypeInv, TypeOK
<1>2. ~ProcessSingleEpoch
  BY <1>1, SpendType, PullLoopAssumption DEF ProcessSingleEpoch
<1>3. budget'["manual"] = budget["manual"]
  <2>1. CASE UNCHANGED budget
    BY <2>1
  <2>2. CASE Spend("fault") \/ Spend("crash")
    BY <2>2, SpendType
  <2>3. QED
    BY <1>2, <2>1, <2>2, Zenon
    DEF Next, vars, Boot, Anchor, RunFails, Live, Tick, LiveProcess, LiveSetCursor, LiveFails,
        Backfill, BackfillSave, BackfillRecord, BackfillFails, Finalize, Crash, Exit, Restart
<1>4. QED
  BY <1>1, <1>2, <1>3 DEF Undisturbed

(* The invariant about the epochs between the goroutines holds in every    *)
(* run.                                                                    *)
THEOREM PullLoopGap == Spec => []GapInv
<1>1. Init => GapInv
  BY PullLoopAssumption
  DEF Init, GapInv, Gap, Read, Fresh, Apart, Ahead, OnlyAnchorLeft, Running, Backfilling
<1>2. TypeInv /\ TypeInv' /\ IInv /\ GapInv /\ [Next]_vars => GapInv'
  <2> SUFFICES ASSUME TypeInv, TypeInv', IInv, GapInv, [Next]_vars, Undisturbed' PROVE Gap'
    BY DEF GapInv
  <2>1. Gap /\ ~ProcessSingleEpoch
    BY StillUndisturbed DEF GapInv
  <2>2. QED
    BY <2>1, BootGap, AnchorGap, LiveGap, BackfillGap, EnvironmentGap DEF Next
<1>3. QED
  BY <1>1, <1>2, PullLoopTypes, PullLoopInvariant, PTL DEF Spec

(* Whatever fails and however often Run starts again, the anchor is the    *)
(* only epoch that is left to nobody.                                      *)
THEOREM PullLoopNoGapButAnchor == Spec => []NoGapButAnchor
<1>1. GapInv => NoGapButAnchor
  BY DEF GapInv, Gap, NoGapButAnchor
<1>2. QED
  BY <1>1, PullLoopGap, PTL

(* The live goroutine is always past the range of the backfill.            *)
THEOREM PullLoopDisjoint == Spec => []Disjoint
<1>1. GapInv => Disjoint
  BY DEF GapInv, Gap, Apart, Disjoint
<1>2. QED
  BY <1>1, PullLoopGap, PTL

=============================================================================
