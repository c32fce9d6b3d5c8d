---------------------------- MODULE MCBeaconClient -----------------------------
(***************************************************************************)
(* A worker of the backfill and the live loop fetch an epoch of two slots: *)
(* a block with two blobs, and no block.                                   *)
(***************************************************************************)
EXTENDS BeaconClient, TLC

CONSTANTS worker, live

Fetchers == {worker, live}

TwoSlots == (0 :> 2) @@ (1 :> 0)

MissedSlot == {1}

=============================================================================
