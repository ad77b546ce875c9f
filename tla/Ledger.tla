------------------------------- MODULE Ledger -------------------------------
(***************************************************************************)
(* What the exchange promises its players: an account gains or loses       *)
(* credits, and a station goods, in trades only, and a trade is one step:  *)
(* the buyer pays the seller for the goods that change hands.  No order,   *)
(* reservation, refund or ship is visible here.  Module Market shows that  *)
(* the code, which spreads a trade over many critical sections, does this. *)
(* The code also gives some goods back twice; those are counted apart, so  *)
(* that a station that sells them owes them.                               *)
(***************************************************************************)
EXTENDS Integers

CONSTANTS
  Players, Stations,
  Owner,        \* [Stations -> Players]
  Prices,       \* what a unit may cost
  Lots,         \* how many units a trade may move
  InitCredits, InitStock

VARIABLES
  wealth,       \* what each player has, wherever it is kept
  goods,        \* what each station has a right to, wherever it is kept
  surplus       \* what each station was given back twice

Init ==
  /\ wealth = [p \in Players |-> InitCredits]
  /\ goods = [s \in Stations |-> InitStock]
  /\ surplus = [s \in Stations |-> 0]

\* Station buyer gets some units of station seller, and their owners settle at
\* one price for a unit.  A seller has what is sold, by right or twice; a buyer
\* may go into debt.
\* Who trades within one station changes nothing.
Trade(buyer, seller) ==
  LET n == goods'[buyer] - goods[buyer]
  IN  /\ buyer # seller
      /\ n \in Lots
      /\ goods[seller] + surplus[seller] >= n
      /\ goods' = [goods EXCEPT ![buyer] = @ + n, ![seller] = @ - n]
      /\ \E price \in Prices : wealth' = [p \in Players |->
           wealth[p] + (IF p = Owner[seller] THEN n * price ELSE 0)
                     - (IF p = Owner[buyer] THEN n * price ELSE 0)]
      /\ UNCHANGED surplus

\* A station gets some units a second time; no account and no right changes.
GiveTwice(station) ==
  /\ \E n \in Lots : surplus' = [surplus EXCEPT ![station] = @ + n]
  /\ UNCHANGED <<wealth, goods>>

Next == \/ \E buyer, seller \in Stations : Trade(buyer, seller)
        \/ \E station \in Stations : GiveTwice(station)

Spec == Init /\ [][Next]_<<wealth, goods, surplus>>
=============================================================================
