-------------------------------- MODULE MCLocks --------------------------------
(* Instances of the lock model for TLC: a task per operation, and the sets    *)
(* of operations that are run together.                                       *)
EXTENDS Locks, TLC

CONSTANTS t1, t2, t3, t4, t5

MCOrdered == t1 :> "save_snapshot" @@ t2 :> "load_snapshot" @@ t3 :> "trade_tick"
             @@ t4 :> "dock_ship" @@ t5 :> "economy_tick"
MCInverted == t1 :> "delete_player" @@ t2 :> "save_snapshot" @@ t3 :> "get_ship"
              @@ t4 :> "find_callback"
=============================================================================
