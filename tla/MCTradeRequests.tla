---------------------------- MODULE MCTradeRequests ----------------------------
(* Small instances of trade requests for TLC.  The orders are chosen so that  *)
(* a total is no multiple of its rate, a rate is more than a station has, and *)
(* a price limit lies between the prices.                                     *)
EXTENDS TradeRequests, TLC

MCThreeOrders ==
  {[direction |-> "import", mode |-> "total", rate |-> 2, limit |-> 4],
   [direction |-> "export", mode |-> "total", rate |-> 2, limit |-> 3],
   [direction |-> "export", mode |-> "price_limit", rate |-> 1, limit |-> 2]}
MCOneOrder == {[direction |-> "export", mode |-> "total", rate |-> 2, limit |-> 3],
               [direction |-> "import", mode |-> "total", rate |-> 2, limit |-> 0]}

Symmetry == Permutations(RequestIds)
=============================================================================
