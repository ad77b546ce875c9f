------------------------------ MODULE MCShips ------------------------------
(* Small instance of the shipping lifecycle for TLC: two stations, ships from *)
(* one to the other, and one ship that is there when the server starts.       *)
EXTENDS Ships, TLC

CONSTANTS p1, p2, s1, s2, a1, a2, a3

MCOwner == s1 :> p1 @@ s2 :> p2

\* One ship waits for a bay at s1 and one for leave to undock there.
Waiting == [kind |-> "trade", from |-> s2, to |-> s1, cargo |-> 1,
            status |-> "awaiting_docking_auth"]
Unloaded == [Waiting EXCEPT !.status = "awaiting_undocking_auth"]
MCRoutes == {<<s1, s2>>}

MCShips == [s \in ShipIds |-> CASE s = a2 -> Waiting [] s = a3 -> Unloaded [] OTHER -> NoShip]
=============================================================================
