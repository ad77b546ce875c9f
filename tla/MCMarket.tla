------------------------------ MODULE MCMarket ------------------------------
(* Small instances of the exchange for TLC: two players with a station each. *)
EXTENDS Market, TLC

CONSTANTS p1, p2, s1, s2

MCOwner == s1 :> p1 @@ s2 :> p2
MCMarketPrices == {NoPrice, 2}

\* Handlers are alike, and so are the two players with their stations.
Swap == p1 :> p2 @@ p2 :> p1 @@ s1 :> s2 @@ s2 :> s1
Symmetry == Permutations(Threads) \cup {Swap}
=============================================================================
