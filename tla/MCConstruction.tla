---------------------------- MODULE MCConstruction ----------------------------
(* Small instances of construction for TLC: two players with a station each   *)
(* and a settled planet to build on; and, for the loads of snapshots, one     *)
(* player with a station and an uninhabited planet.                           *)
EXTENDS Construction, TLC

CONSTANTS p1, p2, h1, h2, settled, wild

MCInitStatus == (h1 :> "connected" @@ h2 :> "connected" @@ settled :> "settled")
MCInitOwner == (h1 :> p1 @@ h2 :> p2 @@ settled :> Nobody)
MCInitCredits == (p1 :> 2 @@ p2 :> 1)

MCSmallStatus == (h1 :> "connected" @@ wild :> "uninhabited")
MCSmallOwner == (h1 :> p1 @@ wild :> Nobody)
MCSmallCredits == (p1 :> 2)

Symmetry == Permutations(ProjectIds) \cup Permutations(Threads)
=============================================================================
