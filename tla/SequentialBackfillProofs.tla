------------------------ MODULE SequentialBackfillProofs ------------------------
(* What the sequential backfill guarantees for every range of epochs.        *)
EXTENDS SequentialBackfill, TLAPS

IInv == TypeOK /\ CursorCovered /\ Behind

(* The initial state has nothing behind it.                                *)
LEMMA InitIInv == NonEmptyRange /\ Init => IInv
BY DEF NonEmptyRange, Init, IInv, TypeOK, Epoch, CursorCovered, Behind

(* Saving, recording and losing the place keep everything up to the cursor *)
(* in the database.                                                        *)
LEMMA NextIInv == NonEmptyRange /\ IInv /\ [Next]_vars => IInv'
<1> SUFFICES ASSUME NonEmptyRange, IInv, [Next]_vars PROVE IInv'
  OBVIOUS
<1> USE DEF NonEmptyRange, IInv, TypeOK, Epoch, CursorCovered, Behind
<1>1. CASE Save
  BY <1>1 DEF Save
<1>2. CASE Record
  <2>1. TypeOK'
    BY <1>2 DEF Record
  <2>2. \A e \in StartEpoch .. next : e \in rows
    BY <1>2 DEF Record
  <2>3. CursorCovered'
    BY <1>2, <2>2 DEF Record
  <2>4. Behind'
    <3>1. CASE next' = next
      BY <1>2, <3>1 DEF Record
    <3>2. CASE next' = next + 1
      <4>1. next' - 1 = next
        BY <3>2
      <4>2. \A e \in StartEpoch .. next' - 1 : e \in rows'
        BY <1>2, <2>2, <4>1, Zenon DEF Record
      <4>3. QED
        BY <1>2, <4>1, <4>2, Zenon DEF Record
    <3>3. QED
      BY <1>2, <3>1, <3>2, Zenon DEF Record
  <2>5. QED
    BY <2>1, <2>3, <2>4, Zenon
<1>3. CASE Lose
  BY <1>3 DEF Lose
<1>4. CASE UNCHANGED vars
  BY <1>4 DEF vars
<1>5. QED
  BY <1>1, <1>2, <1>3, <1>4 DEF Next

(* The invariant of the loop of runBackfill, for every range.              *)
THEOREM SequentialInvariant ==
  ASSUME NonEmptyRange
  PROVE  Spec => []IInv
<1>1. Init => IInv
  BY InitIInv
<1>2. IInv /\ [Next]_vars => IInv'
  BY NextIInv
<1>3. QED
  BY <1>1, <1>2, PTL DEF Spec

(* The backfill cursor never passes an epoch that has no row.              *)
THEOREM SequentialCovered ==
  ASSUME NonEmptyRange
  PROVE  Spec => []CursorCovered
<1>1. IInv => CursorCovered
  BY DEF IInv
<1>2. QED
  BY <1>1, SequentialInvariant, PTL

(* SetBackfillCursor never moves the cursor back, across losses too.       *)
THEOREM SequentialMonotonic ==
  ASSUME NonEmptyRange
  PROVE  Spec => CursorMonotonic
<1>1. IInv /\ [Next]_vars => [cursor' >= cursor]_cursor
  BY DEF NonEmptyRange, IInv, TypeOK, Epoch, Behind, Next, Save, Record, Lose, vars
<1>2. QED
  BY <1>1, SequentialInvariant, PTL DEF Spec, CursorMonotonic

=============================================================================
