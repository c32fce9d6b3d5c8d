--------------------------- MODULE SequentialBackfill ---------------------------
(***************************************************************************)
(* What the backfill promises, whatever machinery runs it: the loop the    *)
(* comment on runBackfill calls "the pre-pipeline behaviour".  It saves    *)
(* the epoch it is at unless it is in the database already, records it in  *)
(* the cursor and goes on to the next one; a loss of the process sends it  *)
(* back to the epoch after the cursor.                                     *)
(***************************************************************************)
EXTENDS Integers

CONSTANTS StartEpoch, TargetEpoch

Epoch == StartEpoch .. TargetEpoch

(* The range Run hands over is never empty.                                *)
NonEmptyRange ==
  /\ StartEpoch \in Nat
  /\ TargetEpoch \in Nat
  /\ StartEpoch <= TargetEpoch

VARIABLES
  rows,    (* epochs with a row in ipld_epochs    *)
  cursor,  (* the saved cursor, 0 when absent     *)
  next     (* the epoch the loop is at            *)

vars == <<rows, cursor, next>>

Init ==
  /\ rows \in SUBSET Epoch
  /\ cursor = 0
  /\ next = StartEpoch

Save ==
  /\ next \in Epoch
  /\ rows' = rows \cup {next}
  /\ UNCHANGED <<cursor, next>>

(* The answer to the write may be lost: then the loop stays where it is.   *)
Record ==
  /\ next \in Epoch
  /\ next \in rows
  /\ cursor' = next
  /\ next' \in {next, next + 1}
  /\ UNCHANGED rows

Lose ==
  /\ next' = IF cursor > 0 THEN cursor + 1 ELSE StartEpoch
  /\ UNCHANGED <<rows, cursor>>

Next == Save \/ Record \/ Lose

Spec == Init /\ [][Next]_vars

-----------------------------------------------------------------------------
TypeOK ==
  /\ rows \subseteq Epoch
  /\ cursor \in {0} \cup Epoch
  /\ next \in StartEpoch .. TargetEpoch + 1

(* Every epoch up to the cursor is in the database.                        *)
CursorCovered == cursor > 0 => \A e \in StartEpoch .. cursor : e \in rows

(* The loop has left nothing behind it, and is at most one epoch from the  *)
(* cursor; with CursorCovered this is inductive.                           *)
Behind ==
  /\ \A e \in StartEpoch .. next - 1 : e \in rows
  /\ cursor \in {next - 1, next} \/ (cursor = 0 /\ next = StartEpoch)

(* The cursor is never moved back.                                         *)
CursorMonotonic == [][cursor' >= cursor]_cursor

=============================================================================
