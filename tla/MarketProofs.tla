---------------------------- MODULE MarketProofs ----------------------------
(***************************************************************************)
(* What TLAPS proves about module Market, for any players, stations,       *)
(* handlers, prices, quantities and bounds.                                *)
(*                                                                         *)
(* First the book: whatever the admin deletes and the server restarts, it  *)
(* tells what the orders tell, no two limit orders that wait reach each    *)
(* other, every trade keeps to its limits, and only market buys take an    *)
(* account below zero; until a restart, orders trade by price and then by  *)
(* time.                                                                   *)
(*                                                                         *)
(* Then the accounts: credits and goods come from nothing and are lost for *)
(* the reasons CreditsKept and GoodsKept name and for no others; and while *)
(* nothing is removed and nothing restarts, the exchange implements the    *)
(* ledger of module Ledger.  An account is credits or stock, what is       *)
(* reserved for orders, and what handlers hold; each action has a lemma    *)
(* that says which of the three it changes, and by how much.               *)
(***************************************************************************)
EXTENDS Market, Sums, SequenceTheorems

-----------------------------------------------------------------------------
(* The inductive invariant *)

\* A handler that has a request keeps its body, and one that has placed or
\* cancelled an order its number.
HandlersSound ==
  \A t \in Threads :
    /\ handler[t].pc \in {"validated", "reserved"} => handler[t].req \in Body
    /\ handler[t].pc \in {"matching", "returning", "settling", "shipping", "refunding"} =>
         handler[t].order \in OrderIds
    /\ handler[t].pc = "shipping" => handler[t].trades # <<>>

\* market.write() is held over several sections by the matching loop, and by the
\* deletion of a player while it refunds.
LockSound ==
  /\ \A t \in Threads : At(t, "matching") <=> marketLock = t
  /\ admin.pc \in {"refund_credits", "return_goods"} => marketLock = "admin"

\* A limit order has a price, and an order is filled when nothing of it remains.
OrdersSound ==
  \A i \in OrderIds :
    /\ orders[i].type = "limit" => orders[i].price \in Prices
    /\ orders[i].status = "filled" <=> Remaining(orders[i]) = 0

\* The order in the matching loop is the last one placed; nobody has cancelled it
\* or put it into the book.
MatchingSound ==
  \A t \in Threads : At(t, "matching") =>
    /\ handler[t].order = Len(orders)
    /\ orders[handler[t].order].status # "cancelled"
    /\ ~InBook(handler[t].order)

\* No limit order that waits reaches another.
LimitsApart ==
  \A i, j \in OrderIds :
    /\ Resting(i) /\ orders[i].side = "buy"
    /\ Resting(j) /\ orders[j].side = "sell"
    => orders[i].price < orders[j].price

\* The trades a handler has still to settle are trades of its own order.
TradesSound ==
  \A t \in Threads : \A k \in 1..Len(handler[t].trades) :
    LET tr == handler[t].trades[k]
    IN  /\ handler[t].pc \in {"matching", "returning", "settling", "shipping"}
        /\ tr.buy \in OrderIds /\ tr.sell \in OrderIds
        /\ handler[t].order \in {tr.buy, tr.sell}
        /\ orders[tr.buy].filled > 0

\* All of it.  TypeOK is not inductive on its own: that a trade moves at least
\* one unit, and no more than either order has left, is what the book says.
Sound ==
  /\ TypeOK /\ HandlersSound /\ LockSound /\ OrdersSound /\ MatchingSound
  /\ BookAgrees /\ LimitsApart /\ TradesSound /\ TradesWithinLimits
  /\ OverdraftOnlyByMarketBuys

-----------------------------------------------------------------------------
(* Queues *)

\* Retained is the last turn of the loop.
LEMMA RetainedUnfolded ==
  ASSUME NEW queue, NEW ids
  PROVE  Retained(queue, ids)
           = (CHOOSE g : KeepsUpTo(queue, ids, g, Len(queue)))[Len(queue)]
  BY DEF Retained, KeepsUpTo, Turn

\* What is retained of a queue are its entries in ids, in their order.
LEMMA RetainedPicks ==
  ASSUME NEW T, NEW queue \in Seq(T), NEW ids
  PROVE  Retained(queue, ids) \in Seq(T) /\ Picks(queue, ids, Retained(queue, ids), Len(queue))
<1>1. PICK g : g = [m \in 0..Len(queue) |-> Turn(queue, ids, g, m)]
               /\ Retained(queue, ids) = g[Len(queue)]
  <2> DEFINE g == CHOOSE g : KeepsUpTo(queue, ids, g, Len(queue))
  <2>1. Len(queue) \in Nat
    OBVIOUS
  <2>2. KeepsUpTo(queue, ids, g, Len(queue))
    BY <2>1, SomeKeeps
  <2>3. Retained(queue, ids) = g[Len(queue)]
    BY RetainedUnfolded
  <2> HIDE DEF g
  <2> QED BY <2>2, <2>3 DEF KeepsUpTo
<1> DEFINE Good == {n \in Nat : n <= Len(queue) => g[n] \in Seq(T) /\ Picks(queue, ids, g[n], n)}
<1>2. 0 \in Good
  <2>1. g[0] = <<>>
    BY <1>1 DEF Turn
  <2>2. Picks(queue, ids, <<>>, 0)
    <3> DEFINE none == [k \in {} |-> 0]
    <3>1. Len(<<>>) = 0 /\ 1..0 = {}
      OBVIOUS
    <3>2. none \in [{} -> {}]
      OBVIOUS
    <3> HIDE DEF none
    <3> QED BY <3>1, <3>2 DEF Picks
  <2>3. Picks(queue, ids, g[0], 0) /\ g[0] \in Seq(T)
    BY <2>1, <2>2
  <2> QED BY <2>3
<1>3. ASSUME NEW n \in Good PROVE n + 1 \in Good
  <2> SUFFICES ASSUME n + 1 <= Len(queue)
               PROVE  g[n + 1] \in Seq(T) /\ Picks(queue, ids, g[n + 1], n + 1)
    BY <1>3
  <2>1. n \in Nat /\ g[n] \in Seq(T) /\ Picks(queue, ids, g[n], n)
    BY <1>3
  <2>2. g[n + 1] = IF queue[n + 1] \in ids THEN Append(g[n], queue[n + 1]) ELSE g[n]
    <3>1. n + 1 \in 0..Len(queue) /\ n + 1 # 0 /\ (n + 1) - 1 = n
      BY <2>1
    <3>2. g[n + 1] = Turn(queue, ids, g, n + 1)
      BY <1>1, <3>1
    <3> QED BY <3>1, <3>2 DEF Turn
  <2>3. n < Len(queue)
    BY <2>1
  <2>4. CASE queue[n + 1] \in ids
    BY <2>1, <2>2, <2>3, <2>4, PicksMore
  <2>5. CASE queue[n + 1] \notin ids
    BY <2>1, <2>2, <2>5, PicksSame
  <2> QED BY <2>4, <2>5
<1> HIDE DEF Good
<1>4. Good = Nat
  <2>1. Good \in SUBSET Nat
    BY DEF Good
  <2> QED BY <1>2, <1>3, <2>1, InductionOnNat
<1>5. Len(queue) \in Good
  BY <1>4
<1> QED BY <1>1, <1>5 DEF Good

\* Order survives retaining.
LEMMA RetainedQueue ==
  ASSUME NEW T, NEW queue \in Seq(T), NEW ids
  PROVE  /\ Retained(queue, ids) \in Seq(T)
         /\ Ids(Retained(queue, ids)) = Ids(queue) \cap ids
         /\ \A ascending : Ordered(queue, ascending) => Ordered(Retained(queue, ids), ascending)
<1> DEFINE r == Retained(queue, ids)
<1>1. r \in Seq(T) /\ Picks(queue, ids, r, Len(queue))
  BY RetainedPicks
<1> HIDE DEF r
<1>2. PICK pos \in [1..Len(r) -> 1..Len(queue)] :
        /\ \A k \in 1..Len(r) : r[k] = queue[pos[k]] /\ r[k] \in ids
        /\ \A k, l \in 1..Len(r) : k < l => pos[k] < pos[l]
        /\ \A m \in 1..Len(queue) : queue[m] \in ids => \E k \in 1..Len(r) : pos[k] = m
  BY <1>1 DEF Picks
<1>3. Ids(r) \subseteq Ids(queue) \cap ids
  BY <1>2 DEF Ids
<1>4. Ids(queue) \cap ids \subseteq Ids(r)
  <2> SUFFICES ASSUME NEW m \in 1..Len(queue), queue[m] \in ids PROVE queue[m] \in Ids(r)
    BY DEF Ids
  <2>1. PICK k \in 1..Len(r) : pos[k] = m
    BY <1>2
  <2>2. r[k] = queue[m]
    BY <1>2, <2>1
  <2> QED BY <2>2 DEF Ids
<1>5. ASSUME NEW ascending, Ordered(queue, ascending) PROVE Ordered(r, ascending)
  <2> SUFFICES ASSUME NEW k \in 1..Len(r), NEW l \in 1..Len(r), k < l
               PROVE  IF ascending THEN r[k] < r[l] ELSE r[k] # r[l]
    BY DEF Ordered
  <2>1. pos[k] \in 1..Len(queue) /\ pos[l] \in 1..Len(queue) /\ pos[k] < pos[l]
    BY <1>2
  <2>2. r[k] = queue[pos[k]] /\ r[l] = queue[pos[l]]
    BY <1>2
  <2> QED BY <1>5, <2>1, <2>2 DEF Ordered
<1> QED BY <1>1, <1>3, <1>4, <1>5 DEF r

-----------------------------------------------------------------------------
(* The orders and the book *)

\* The fields of an order.
LEMMA OrderFields ==
  \A o \in OrderRecord :
    /\ o.player \in Players /\ o.station \in Stations /\ o.side \in Sides
    /\ o.type \in {"limit", "market"} /\ o.price \in Prices \cup {NoPrice}
    /\ o.quantity \in Nat \ {0} /\ o.filled \in Nat /\ o.status \in Statuses
  BY MarketAssumption DEF OrderRecord

\* What two versions of an order have in common.
SameOrder(o, before) ==
  /\ o.player = before.player /\ o.station = before.station /\ o.side = before.side
  /\ o.type = before.type /\ o.price = before.price /\ o.quantity = before.quantity

\* What Fill changes.
LEMMA FilledOrder ==
  ASSUME NEW o \in OrderRecord, NEW n \in Nat \ {0}, n <= Remaining(o)
  PROVE  /\ Fill(o, n) \in OrderRecord /\ SameOrder(Fill(o, n), o)
         /\ Fill(o, n).filled = o.filled + n /\ Fill(o, n).filled <= o.quantity
         /\ Remaining(Fill(o, n)) = Remaining(o) - n
         /\ Fill(o, n).status = IF Remaining(o) = n THEN "filled" ELSE "partially_filled"
<1>1. o.quantity \in Nat /\ o.filled \in Nat /\ o.filled + n \in Nat /\ o.filled + n <= o.quantity
  BY OrderFields DEF Remaining
<1>2. o.filled + n = o.quantity <=> Remaining(o) = n
  BY <1>1 DEF Remaining
<1>3. /\ Fill(o, n).filled = o.filled + n
      /\ Fill(o, n).status = IF Remaining(o) = n THEN "filled" ELSE "partially_filled"
      /\ SameOrder(Fill(o, n), o)
  BY <1>2 DEF Fill, SameOrder, OrderRecord
<1>4. Fill(o, n) \in OrderRecord
  BY <1>1 DEF Fill, OrderRecord, Statuses
<1>5. Remaining(Fill(o, n)) = Remaining(o) - n
  BY <1>1, <1>3 DEF SameOrder, Remaining
<1> QED BY <1>1, <1>3, <1>4, <1>5

\* Orders and queues are what their types say, entry by entry.
LEMMA OrderTypes ==
  TypeOK => \A i \in OrderIds :
    /\ orders[i] \in OrderRecord
    /\ Remaining(orders[i]) \in Nat /\ Remaining(orders[i]) <= orders[i].quantity
    /\ i \in Nat \ {0}
<1> SUFFICES ASSUME TypeOK, NEW i \in OrderIds
             PROVE  /\ orders[i] \in OrderRecord
                    /\ Remaining(orders[i]) \in Nat /\ Remaining(orders[i]) <= orders[i].quantity
                    /\ i \in Nat \ {0}
  OBVIOUS
<1>1. orders[i] \in OrderRecord /\ i \in Nat \ {0} /\ orders[i].filled <= orders[i].quantity
  BY ElementOfSeq DEF TypeOK, OrderIds
<1>2. orders[i].quantity \in Nat /\ orders[i].filled \in Nat
  BY <1>1, OrderFields
<1> QED BY <1>1, <1>2 DEF Remaining

\* A price level is a queue of orders.
LEMMA WaitingTypes ==
  ASSUME TypeOK, NEW s \in Sides, NEW p \in Prices
  PROVE  /\ book[s][p] \in Seq(OrderIds) /\ book[s][p] \in Seq(Nat)
         /\ Waiting(s, p) = Ids(book[s][p]) /\ Waiting(s, p) \subseteq OrderIds
<1>1. book[s][p] \in Seq(OrderIds)
  BY DEF TypeOK
<1>2. Waiting(s, p) = Ids(book[s][p])
  BY DEF Waiting, Ids
<1>3. \A k \in 1..Len(book[s][p]) : book[s][p][k] \in OrderIds
  BY <1>1, ElementOfSeq
<1>4. OrderIds \subseteq Nat
  BY DEF OrderIds
<1>5. book[s][p] \in Seq(Nat)
  BY <1>1, <1>4, SeqMonotonic
<1> QED BY <1>1, <1>2, <1>3, <1>5 DEF Waiting

\* What waits in the book can still trade, whatever it is.
LEMMA WaitingFacts ==
  ASSUME TypeOK, BookAgrees, NEW s \in Sides, NEW p \in Prices
  PROVE  /\ \A i \in Waiting(s, p) :
              /\ i \in OrderIds /\ orders[i].side = s /\ orders[i].price = p
              /\ Cancellable(orders[i]) /\ Remaining(orders[i]) > 0
         /\ Ordered(book[s][p], restarts = 0)
<1>1. Waiting(s, p) \subseteq OrderIds
  BY WaitingTypes
<1> QED BY <1>1 DEF BookAgrees, Resting, Ordered

-----------------------------------------------------------------------------
(* A turn of the matching loop *)

\* Handler t's order i trades n units with order r, which waits at price p.
Deal(t, i, r, p, n) ==
  /\ At(t, "matching") /\ i = handler[t].order
  /\ i \in OrderIds /\ r \in OrderIds /\ i # r
  /\ p \in Prices /\ n \in Nat \ {0}
  /\ n <= Remaining(orders[i]) /\ n <= Remaining(orders[r])
  /\ n = Remaining(orders[i]) \/ n = Remaining(orders[r])
  /\ book[orders[r].side][p] # <<>> /\ r = Head(book[orders[r].side][p])
  /\ orders[r].price = p /\ Cancellable(orders[r])
  /\ \/ /\ orders[i].side = "buy" /\ orders[r].side = "sell" /\ BestAsk(p)
        /\ orders[i].type = "limit" => p <= orders[i].price
     \/ /\ orders[i].side = "sell" /\ orders[r].side = "buy" /\ BestBid(p)
        /\ orders[i].type = "limit" => p >= orders[i].price
  /\ orders' = [orders EXCEPT ![i] = Fill(orders[i], n), ![r] = Fill(orders[r], n)]
  /\ book' = [book EXCEPT ![orders[r].side][p] =
                 IF Remaining(orders[r]) = n THEN Tail(@) ELSE @]
  /\ lastPrice' = p
  /\ handler' = [handler EXCEPT ![t].trades =
       Append(@, [price |-> p, quantity |-> n,
                  buy  |-> IF orders[i].side = "buy" THEN i ELSE r,
                  sell |-> IF orders[i].side = "buy" THEN r ELSE i])]
  /\ UNCHANGED <<marketLock, accounts, stations, admin, restarts>>

\* A turn of either matching loop is a Deal.
LEMMA TradeDeals ==
  ASSUME Sound, NEW t \in Threads, MatchBuy(t) \/ MatchSell(t)
  PROVE  \E i, r, p, n : Deal(t, i, r, p, n)
<1> DEFINE i == handler[t].order
<1>1. TypeOK /\ BookAgrees /\ HandlersSound /\ MatchingSound
  BY DEF Sound
<1>2. At(t, "matching")
  BY DEF MatchBuy, MatchSell
<1>3. i \in OrderIds /\ ~InBook(i)
  BY <1>1, <1>2 DEF HandlersSound, MatchingSound, At
<1>4. orders[i].side \in Sides
  BY <1>1, <1>3, OrderTypes, OrderFields
<1>5. PICK p \in Prices, s \in Sides :
        /\ s # orders[i].side
        /\ MatchesAt(orders[i], p) /\ book[s][p] # <<>>
        /\ Trade(t, i, Head(book[s][p]), p)
  <2>1. CASE MatchBuy(t)
    <3>1. PICK p \in Prices : MatchesAt(orders[i], p) /\ Trade(t, i, Head(book["sell"][p]), p)
      BY <2>1 DEF MatchBuy
    <3>2. orders[i].side = "buy" /\ book["sell"][p] # <<>>
      BY <2>1, <3>1 DEF MatchBuy, MatchesAt, BestAsk
    <3> QED BY <3>1, <3>2 DEF Sides
  <2>2. CASE MatchSell(t)
    <3>1. PICK p \in Prices : MatchesAt(orders[i], p) /\ Trade(t, i, Head(book["buy"][p]), p)
      BY <2>2 DEF MatchSell
    <3>2. orders[i].side = "sell" /\ book["buy"][p] # <<>>
      BY <2>2, <3>1 DEF MatchSell, MatchesAt, BestBid
    <3> QED BY <3>1, <3>2 DEF Sides
  <2> QED BY <2>1, <2>2
<1> DEFINE r == Head(book[s][p])
           n == IF Remaining(orders[i]) <= Remaining(orders[r])
                THEN Remaining(orders[i]) ELSE Remaining(orders[r])
<1>6. book[s][p] \in Seq(OrderIds) /\ Waiting(s, p) = Ids(book[s][p])
  BY <1>1, WaitingTypes
<1>7. r \in Waiting(s, p)
  BY <1>5, <1>6, TailQueue
<1>8. /\ r \in OrderIds /\ orders[r].side = s /\ orders[r].price = p
      /\ Cancellable(orders[r]) /\ Remaining(orders[r]) > 0
  BY <1>1, <1>7, WaitingFacts
<1>9. i # r
  BY <1>3, <1>7 DEF InBook
<1>10. Remaining(orders[i]) > 0
  BY <1>5 DEF MatchesAt
<1>11. Remaining(orders[i]) \in Nat /\ Remaining(orders[r]) \in Nat
  BY <1>1, <1>3, <1>8, OrderTypes
<1>12. /\ n \in Nat \ {0} /\ n <= Remaining(orders[i]) /\ n <= Remaining(orders[r])
       /\ n = Remaining(orders[i]) \/ n = Remaining(orders[r])
  BY <1>8, <1>10, <1>11
<1>13. \/ /\ orders[i].side = "buy" /\ s = "sell" /\ BestAsk(p)
          /\ orders[i].type = "limit" => p <= orders[i].price
       \/ /\ orders[i].side = "sell" /\ s = "buy" /\ BestBid(p)
          /\ orders[i].type = "limit" => p >= orders[i].price
  BY <1>4, <1>5 DEF MatchesAt, Sides
<1>14. /\ orders' = [orders EXCEPT ![i] = Fill(orders[i], n), ![r] = Fill(orders[r], n)]
       /\ book' = [book EXCEPT ![orders[r].side][p] =
                      IF Remaining(orders[r]) = n THEN Tail(@) ELSE @]
       /\ lastPrice' = p
       /\ handler' = [handler EXCEPT ![t].trades =
            Append(@, [price |-> p, quantity |-> n,
                       buy  |-> IF orders[i].side = "buy" THEN i ELSE r,
                       sell |-> IF orders[i].side = "buy" THEN r ELSE i])]
       /\ UNCHANGED <<marketLock, accounts, stations, admin, restarts>>
  <2> HIDE DEF i, r
  <2>1. Trade(t, i, r, p)
    BY <1>5 DEF r
  <2>2. [orders EXCEPT ![i] = Fill(@, n), ![r] = Fill(@, n)]
          = [orders EXCEPT ![i] = Fill(orders[i], n), ![r] = Fill(orders[r], n)]
    BY <1>9
  <2> QED BY <2>1, <2>2 DEF Trade
<1> HIDE DEF r, n, i
<1>15. Deal(t, i, r, p, n)
  BY <1>2, <1>3, <1>5, <1>8, <1>9, <1>12, <1>13, <1>14 DEF Deal, r, i
<1> QED BY <1>15

\* A Deal fills two orders.
LEMMA DealOrders ==
  ASSUME TypeOK, NEW t, NEW i, NEW r, NEW p, NEW n, Deal(t, i, r, p, n)
  PROVE  /\ orders' \in Seq(OrderRecord) /\ Len(orders') = Len(orders)
         /\ orders'[i] = Fill(orders[i], n) /\ orders'[r] = Fill(orders[r], n)
         /\ \A j \in OrderIds \ {i, r} : orders'[j] = orders[j]
<1>1. i \in OrderIds /\ r \in OrderIds /\ i # r /\ n \in Nat \ {0}
      /\ n <= Remaining(orders[i]) /\ n <= Remaining(orders[r])
  BY DEF Deal
<1>2. orders[i] \in OrderRecord /\ orders[r] \in OrderRecord
  BY <1>1, OrderTypes
<1>3. Fill(orders[i], n) \in OrderRecord /\ Fill(orders[r], n) \in OrderRecord
  BY <1>1, <1>2, FilledOrder
<1> DEFINE oi == Fill(orders[i], n)
           or == Fill(orders[r], n)
           first == [orders EXCEPT ![i] = oi]
<1>4. orders' = [first EXCEPT ![r] = or]
  BY DEF Deal
<1> HIDE DEF oi, or, first
<1>5. orders \in Seq(OrderRecord) /\ i \in 1..Len(orders) /\ r \in 1..Len(orders)
      /\ oi \in OrderRecord /\ or \in OrderRecord
  BY <1>1, <1>3 DEF TypeOK, OrderIds, oi, or
<1>6. /\ first \in Seq(OrderRecord) /\ Len(first) = Len(orders)
      /\ \A j \in 1..Len(orders) : first[j] = IF j = i THEN oi ELSE orders[j]
  BY <1>5, ExceptSeq DEF first
<1>7. /\ orders' \in Seq(OrderRecord) /\ Len(orders') = Len(first)
      /\ \A j \in 1..Len(orders) : orders'[j] = IF j = r THEN or ELSE first[j]
  BY <1>4, <1>5, <1>6, ExceptSeq
<1> QED BY <1>1, <1>5, <1>6, <1>7 DEF OrderIds, oi, or

\* Cancelling only changes the status.
LEMMA CancelledOrders ==
  ASSUME TypeOK, NEW ids \in SUBSET OrderIds, \A i \in ids : Cancellable(orders[i]), CancelOrders(ids)
  PROVE  /\ orders' \in Seq(OrderRecord) /\ Len(orders') = Len(orders)
         /\ \A i \in OrderIds \ ids : orders'[i] = orders[i]
         /\ \A i \in ids : /\ SameOrder(orders'[i], orders[i])
                           /\ orders'[i].filled = orders[i].filled
                           /\ orders'[i].status = "cancelled"
<1> DEFINE after == [i \in 1..Len(orders) |-> IF i \in ids THEN [orders[i] EXCEPT !.status = "cancelled"]
                                                          ELSE orders[i]]
<1>1. orders' = after
  BY DEF CancelOrders, Cancelled, OrderIds
<1>2. ASSUME NEW i \in 1..Len(orders)
      PROVE  /\ orders[i] \in OrderRecord
             /\ [orders[i] EXCEPT !.status = "cancelled"] \in OrderRecord
  <2>1. orders[i] \in OrderRecord
    BY OrderTypes DEF OrderIds
  <2> QED BY <2>1 DEF OrderRecord, Statuses
<1>3. Len(orders) \in Nat
  BY DEF TypeOK
<1>4. after \in Seq(OrderRecord) /\ Len(after) = Len(orders)
  <2>1. after \in [1..Len(orders) -> OrderRecord]
    BY <1>2
  <2> HIDE DEF after
  <2> QED BY <1>3, <2>1
<1>5. \A i \in OrderIds \ ids : after[i] = orders[i]
  BY DEF OrderIds
<1>6. ASSUME NEW i \in ids
      PROVE  /\ SameOrder(after[i], orders[i])
             /\ after[i].filled = orders[i].filled /\ after[i].status = "cancelled"
  <2>1. after[i] = [orders[i] EXCEPT !.status = "cancelled"] /\ orders[i] \in OrderRecord
    BY <1>2 DEF OrderIds
  <2> HIDE DEF after
  <2> QED BY <2>1 DEF SameOrder, OrderRecord
<1> HIDE DEF after
<1> QED BY <1>1, <1>4, <1>5, <1>6

\* The queues of a book from which orders are cancelled.
LEMMA CancelledBook ==
  ASSUME TypeOK, NEW ids \in SUBSET OrderIds, CancelOrders(ids), NEW s \in Sides, NEW p \in Prices
  PROVE  /\ book'[s][p] \in Seq(OrderIds)
         /\ Ids(book'[s][p]) = Waiting(s, p) \ ids
         /\ \A ascending : Ordered(book[s][p], ascending) => Ordered(book'[s][p], ascending)
<1>1. book'[s][p] = Retained(book[s][p], OrderIds \ ids)
  BY DEF CancelOrders, Without
<1>2. book[s][p] \in Seq(OrderIds) /\ Waiting(s, p) = Ids(book[s][p]) /\ Waiting(s, p) \subseteq OrderIds
  BY WaitingTypes
<1>3. /\ Retained(book[s][p], OrderIds \ ids) \in Seq(OrderIds)
      /\ Ids(Retained(book[s][p], OrderIds \ ids)) = Ids(book[s][p]) \cap (OrderIds \ ids)
      /\ \A ascending : Ordered(book[s][p], ascending)
           => Ordered(Retained(book[s][p], OrderIds \ ids), ascending)
  BY <1>2, RetainedQueue
<1> QED BY <1>1, <1>2, <1>3

\* What the loop leaves of the order it has matched.
LEMMA RestOrders ==
  ASSUME Sound, NEW t \in Threads, Rest(t)
  PROVE  LET i == handler[t].order
         IN  /\ i \in OrderIds
             /\ orders' \in Seq(OrderRecord) /\ Len(orders') = Len(orders)
             /\ \A j \in OrderIds \ {i} : orders'[j] = orders[j]
             /\ SameOrder(orders'[i], orders[i]) /\ orders'[i].filled = orders[i].filled
             /\ orders[i].type = "limit" => orders'[i] = orders[i]
             /\ orders'[i].status = "filled" <=> Remaining(orders'[i]) = 0
<1> DEFINE i == handler[t].order
<1>1. TypeOK /\ HandlersSound /\ OrdersSound
  BY DEF Sound
<1>2. i \in OrderIds
  BY <1>1 DEF Rest, At, HandlersSound
<1>3. orders \in Seq(OrderRecord) /\ orders[i] \in OrderRecord /\ i \in 1..Len(orders)
  BY <1>1, <1>2, OrderTypes DEF TypeOK, OrderIds
<1>4. CASE UNCHANGED orders
  BY <1>1, <1>2, <1>3, <1>4 DEF SameOrder, OrdersSound
<1>5. CASE ~UNCHANGED orders
  <2> DEFINE status == IF orders[i].filled > 0 THEN "partially_filled" ELSE "cancelled"
             after == [orders[i] EXCEPT !.status = status]
  <2>1. orders' = [orders EXCEPT ![i] = after] /\ orders[i].type = "market" /\ Remaining(orders[i]) > 0
    BY <1>5 DEF Rest
  <2>2. status \in {"partially_filled", "cancelled"}
    OBVIOUS
  <2> HIDE DEF status
  <2>3. /\ after \in OrderRecord /\ SameOrder(after, orders[i])
        /\ after.filled = orders[i].filled /\ after.status = status
    BY <1>3, <2>2 DEF OrderRecord, Statuses, SameOrder
  <2> HIDE DEF after
  <2>4. /\ orders' \in Seq(OrderRecord) /\ Len(orders') = Len(orders)
        /\ \A j \in 1..Len(orders) : orders'[j] = IF j = i THEN after ELSE orders[j]
    BY <1>3, <2>1, <2>3, ExceptSeq
  <2>5. Remaining(after) = Remaining(orders[i]) /\ Remaining(orders[i]) \in Nat
    BY <1>1, <1>2, <2>3, OrderTypes DEF SameOrder, Remaining
  <2> QED BY <1>2, <1>3, <2>1, <2>2, <2>3, <2>4, <2>5 DEF OrderIds
<1> QED BY <1>4, <1>5

\* Insert appends one order.
LEMMA InsertedOrder ==
  ASSUME Sound, NEW t \in Threads, Insert(t)
  PROVE  LET new == Len(orders) + 1
         IN  /\ orders' \in Seq(OrderRecord) /\ Len(orders') = new
             /\ \A j \in OrderIds : j \in 1..new /\ j # new /\ orders'[j] = orders[j]
             /\ \A j \in 1..new : j = new \/ j \in OrderIds
             /\ orders'[new].filled = 0 /\ orders'[new].status = "open"
             /\ Remaining(orders'[new]) = orders'[new].quantity
             /\ orders'[new].type = "limit" => orders'[new].price \in Prices
             /\ orders'[new] = NewOrder(handler[t].req) /\ handler[t].req \in Body
<1> DEFINE b == handler[t].req
           o == NewOrder(b)
<1>1. TypeOK /\ HandlersSound
  BY DEF Sound
<1>2. b \in Body
  BY <1>1 DEF Insert, At, HandlersSound
<1>3. /\ b.player \in Players /\ b.station \in Stations /\ b.side \in Sides
      /\ b.type \in {"limit", "market"} /\ b.price \in Prices \cup {NoPrice}
      /\ b.quantity \in Quantities /\ (b.type = "limit" => b.price \in Prices)
  BY <1>2, MarketAssumption DEF Body
<1> HIDE DEF b
<1>4. /\ o \in OrderRecord /\ o.filled = 0 /\ o.status = "open" /\ Remaining(o) = o.quantity
      /\ o.type = "limit" => o.price \in Prices
  <2>1. b.quantity \in Nat
    BY <1>3, MarketAssumption
  <2>2. o \in OrderRecord
    BY <1>3 DEF NewOrder, OrderRecord, Statuses
  <2>3. o.filled = 0 /\ o.status = "open" /\ o.quantity = b.quantity
        /\ o.type = b.type /\ o.price = b.price
    BY DEF NewOrder
  <2> HIDE DEF o
  <2> QED BY <1>3, <2>1, <2>2, <2>3 DEF Remaining
<1> HIDE DEF o
<1>5. orders \in Seq(OrderRecord) /\ orders' = Append(orders, o)
  BY <1>1 DEF Insert, TypeOK, o, b
<1>6. /\ orders' \in Seq(OrderRecord) /\ Len(orders') = Len(orders) + 1 /\ Len(orders) \in Nat
      /\ orders'[Len(orders) + 1] = o
      /\ \A j \in 1..Len(orders) : orders'[j] = orders[j]
  BY <1>4, <1>5
<1>7. \A j \in 1..(Len(orders) + 1) : j = Len(orders) + 1 \/ j \in 1..Len(orders)
  BY <1>6
<1>8. \A j \in 1..Len(orders) : j \in 1..(Len(orders) + 1) /\ j # Len(orders) + 1
  BY <1>6
<1>9. o = NewOrder(handler[t].req)
  BY DEF o, b
<1> QED BY <1>2, <1>4, <1>6, <1>7, <1>8, <1>9 DEF OrderIds, b

-----------------------------------------------------------------------------
(* The steps, as the market sees them *)

\* The sections in which the deletion of a player holds market.write().
Deleting == {"refund_credits", "return_goods"}

\* A step of a handler or the admin that leaves the market alone, and the matching
\* loop, too.
Aside ==
  /\ UNCHANGED <<market, restarts>>
  /\ \A t \in Threads : At(t, "matching") \/ At(t, "matching")' => handler'[t] = handler[t]
  /\ admin'.pc \in Deleting => admin.pc \in Deleting

\* Somebody cancels orders, while nobody matches.
CancelStep(ids) ==
  /\ ids \in SUBSET OrderIds /\ \A i \in ids : Cancellable(orders[i])
  /\ CancelOrders(ids)
  /\ marketLock = NoThread
  /\ marketLock' = "admin" \/ (marketLock' = NoThread /\ admin'.pc \notin Deleting)
  /\ UNCHANGED <<lastPrice, restarts>>
  /\ \A t \in Threads : ~At(t, "matching") /\ ~At(t, "matching")'

\* Every handler is somewhere.
LEMMA HandlerDomain == TypeOK => DOMAIN handler = Threads /\ \A t \in Threads : handler[t].pc \in PCs
  BY DEF TypeOK

\* All steps, by what they do to orders.
LEMMA Steps ==
  ASSUME Sound, [Next]_vars
  PROVE  \/ \E t \in Threads : Insert(t)
         \/ \E t \in Threads : \E i, r, p, n : Deal(t, i, r, p, n)
         \/ \E t \in Threads : Rest(t)
         \/ \E ids : CancelStep(ids)
         \/ ReturnGoods
         \/ Restart
         \/ Aside
<1>1. TypeOK /\ LockSound
  BY DEF Sound
<1>2. DOMAIN handler = Threads
  BY <1>1, HandlerDomain
<1>3. marketLock = NoThread => \A t \in Threads : ~At(t, "matching")
  BY <1>1, MarketAssumption DEF LockSound
<1>4. ASSUME NEW t \in Threads, NEW b \in Body, Validate(t, b) PROVE Aside
  BY <1>1, <1>2, <1>4 DEF Validate, Aside, At, Idle, TypeOK
<1>5. ASSUME NEW t \in Threads, NEW i \in OrderIds, Cancel(t, i) PROVE CancelStep({i})
  <2>1. admin' = admin /\ admin.pc \notin Deleting
    BY <1>1, <1>5, MarketAssumption DEF Cancel, LockSound, Deleting
  <2> QED BY <1>1, <1>2, <1>3, <1>5, <2>1 DEF Cancel, CancelStep, At, Idle, TypeOK
<1>6. ASSUME NEW t \in Threads, Reserve(t) PROVE Aside
  BY <1>1, <1>2, <1>6 DEF Reserve, Aside, At, Goto, TypeOK
<1>7. ASSUME NEW t \in Threads, Refuse(t) \/ Respond(t) \/ Refund(t) PROVE Aside
  BY <1>1, <1>2, <1>7 DEF Refuse, Respond, Refund, GiveBack, Aside, At, Finish, Idle, TypeOK
<1>8. ASSUME NEW t \in Threads, ReturnUnfilled(t) \/ SettleCredits(t) PROVE Aside
  BY <1>1, <1>2, <1>8 DEF ReturnUnfilled, SettleCredits, Aside, At, Goto, TypeOK
<1>9. ASSUME NEW t \in Threads, SpawnShip(t) PROVE Aside
  <2>1. handler' = [handler EXCEPT ![t].pc = "settling", ![t].trades = Tail(@)]
    BY <1>9 DEF SpawnShip
  <2>2. handler'[t].pc = "settling" /\ \A u \in Threads \ {t} : handler'[u] = handler[u]
    BY <1>1, <1>2, <2>1 DEF TypeOK
  <2>3. ~At(t, "matching") /\ ~At(t, "matching")'
    BY <1>9, <2>2 DEF SpawnShip, At
  <2>4. UNCHANGED <<market, admin, restarts>>
    BY <1>9 DEF SpawnShip
  <2>5. \A u \in Threads : At(u, "matching") \/ At(u, "matching")' => handler'[u] = handler[u]
    BY <2>2, <2>3
  <2> QED BY <2>4, <2>5 DEF Aside
<1>10. ASSUME NEW t \in Threads, MatchBuy(t) \/ MatchSell(t)
       PROVE  \E i, r, p, n : Deal(t, i, r, p, n)
  BY <1>10, TradeDeals
<1>11. CASE Administer
  <2>1. CASE CancelOrdersAt
    <3> DEFINE ids == {i \in OrderIds : orders[i].station = admin.station /\ Cancellable(orders[i])}
    <3>1. CancelStep(ids)
      <4>1. admin'.pc = "remove"
        BY <1>1, <2>1 DEF CancelOrdersAt, AdminAt, TypeOK, AdminRecord, AdminIdle
      <4> QED BY <1>3, <2>1, <4>1 DEF CancelOrdersAt, CancelStep, At, Deleting
    <3> QED BY <3>1
  <2>2. CASE DeleteOrders
    <3> DEFINE ids == {i \in OrderIds : orders[i].player = admin.player /\ Cancellable(orders[i])}
    <3>1. CancelStep(ids)
      BY <1>3, <2>2 DEF DeleteOrders, CancelStep, At
    <3> QED BY <3>1
  <2>3. ASSUME NEW s \in Stations, CheckStation(s) PROVE Aside
    BY <2>3 DEF CheckStation, Aside, Deleting
  <2>4. ASSUME NEW p \in Players, DeleteShips(p) PROVE Aside
    BY <2>4 DEF DeleteShips, Aside, Deleting
  <2>5. CASE RefundOrder
    <3>1. admin'.pc = admin.pc
      BY <1>1, <2>5 DEF RefundOrder, AdminAt, TypeOK, AdminRecord, AdminIdle
    <3> QED BY <2>5, <3>1 DEF RefundOrder, Aside
  <2>6. CASE RemoveStation \/ RefundCredits \/ Disown \/ Unregister
    <3>1. admin'.pc \in Deleting => admin.pc \in Deleting
      BY <1>1, <2>6 DEF RemoveStation, RefundCredits, Disown, Unregister, AdminAt, TypeOK,
                        AdminRecord, AdminIdle, Deleting
    <3> QED BY <2>6, <3>1 DEF RemoveStation, RefundCredits, Disown, Unregister, Aside
  <2> QED BY <1>11, <2>1, <2>2, <2>3, <2>4, <2>5, <2>6 DEF Administer
<1>12. CASE Quiet \/ UNCHANGED vars
  BY <1>12 DEF Quiet, vars, server, Aside
<1> QED BY <1>4, <1>5, <1>6, <1>7, <1>8, <1>9, <1>10, <1>11, <1>12 DEF Next, Step

\* Orders stay what they were when placed, but for their status and what of them
\* has traded, which only grows.
LEMMA OrdersKept ==
  ASSUME Sound, [Next]_vars
  PROVE  /\ orders' \in Seq(OrderRecord) /\ Len(orders) <= Len(orders')
         /\ \A i \in OrderIds : /\ i \in 1..Len(orders') /\ SameOrder(orders'[i], orders[i])
                                /\ orders[i].filled <= orders'[i].filled
<1>1. TypeOK /\ orders \in Seq(OrderRecord) /\ Len(orders) \in Nat
  BY DEF Sound, TypeOK
<1>2. \A i \in OrderIds : orders[i] \in OrderRecord /\ orders[i].filled \in Nat
                          /\ SameOrder(orders[i], orders[i])
  BY <1>1, OrderTypes, OrderFields DEF SameOrder
<1>3. ASSUME NEW t \in Threads, Insert(t)
      PROVE  /\ orders' \in Seq(OrderRecord) /\ Len(orders) <= Len(orders')
             /\ \A i \in OrderIds : i \in 1..Len(orders') /\ orders'[i] = orders[i]
  BY <1>1, <1>3, InsertedOrder
<1>4. ASSUME NEW t \in Threads, NEW i, NEW r, NEW p, NEW n, Deal(t, i, r, p, n)
      PROVE  /\ orders' \in Seq(OrderRecord) /\ Len(orders) <= Len(orders')
             /\ \A j \in OrderIds : /\ j \in 1..Len(orders') /\ SameOrder(orders'[j], orders[j])
                                    /\ orders[j].filled <= orders'[j].filled
  <2>1. /\ orders' \in Seq(OrderRecord) /\ Len(orders') = Len(orders)
        /\ orders'[i] = Fill(orders[i], n) /\ orders'[r] = Fill(orders[r], n)
        /\ \A j \in OrderIds \ {i, r} : orders'[j] = orders[j]
    BY <1>1, <1>4, DealOrders
  <2>2. ASSUME NEW j \in {i, r}
        PROVE  SameOrder(Fill(orders[j], n), orders[j]) /\ orders[j].filled <= Fill(orders[j], n).filled
    <3>1. j \in OrderIds /\ n \in Nat \ {0} /\ n <= Remaining(orders[j])
      BY <1>4 DEF Deal
    <3>2. orders[j] \in OrderRecord /\ orders[j].filled \in Nat
      BY <1>2, <3>1
    <3>3. SameOrder(Fill(orders[j], n), orders[j]) /\ Fill(orders[j], n).filled = orders[j].filled + n
      BY <3>1, <3>2, FilledOrder
    <3> QED BY <3>1, <3>2, <3>3
  <2> QED BY <1>1, <1>2, <2>1, <2>2 DEF OrderIds
<1>5. ASSUME NEW t \in Threads, Rest(t)
      PROVE  /\ orders' \in Seq(OrderRecord) /\ Len(orders) <= Len(orders')
             /\ \A j \in OrderIds : /\ j \in 1..Len(orders') /\ SameOrder(orders'[j], orders[j])
                                    /\ orders[j].filled <= orders'[j].filled
  BY <1>1, <1>2, <1>5, RestOrders DEF OrderIds
<1>6. ASSUME NEW ids, CancelStep(ids)
      PROVE  /\ orders' \in Seq(OrderRecord) /\ Len(orders) <= Len(orders')
             /\ \A j \in OrderIds : /\ j \in 1..Len(orders') /\ SameOrder(orders'[j], orders[j])
                                    /\ orders[j].filled <= orders'[j].filled
  <2>1. ids \in SUBSET OrderIds /\ (\A i \in ids : Cancellable(orders[i])) /\ CancelOrders(ids)
    BY <1>6 DEF CancelStep
  <2>2. /\ orders' \in Seq(OrderRecord) /\ Len(orders') = Len(orders)
        /\ \A i \in OrderIds \ ids : orders'[i] = orders[i]
        /\ \A i \in ids : SameOrder(orders'[i], orders[i]) /\ orders'[i].filled = orders[i].filled
    BY <1>1, <2>1, CancelledOrders
  <2> QED BY <1>1, <1>2, <2>2 DEF OrderIds
<1>7. CASE ReturnGoods \/ Restart \/ Aside
  BY <1>1, <1>2, <1>7 DEF ReturnGoods, Restart, Aside, market, OrderIds
<1> QED BY <1>2, <1>3, <1>4, <1>5, <1>6, <1>7, Steps

-----------------------------------------------------------------------------
(* The steps, as one handler sees them *)

\* What a step may do to handler u: nothing, end it (or restart the server), or take
\* it on to its next section.
HandlerStep(u) ==
  LET h == handler[u]
      next == handler'[u]
  IN  \/ next = h
      \/ next = Idle
      \/ \E b \in Body : next = [Idle EXCEPT !.pc = "validated", !.req = b]
      \/ h.pc = "validated" /\ next = [h EXCEPT !.pc = "reserved"]
      \/ next = [Idle EXCEPT !.pc = "matching", !.order = Len(orders) + 1]
         /\ Len(orders') = Len(orders) + 1
      \/ \E i \in OrderIds : next = [Idle EXCEPT !.pc = "refunding", !.order = i]
      \/ \E i, r, p, n : Deal(u, i, r, p, n)
      \/ /\ h.pc \in {"matching", "returning", "settling"}
         /\ \E pc \in {"returning", "settling", "shipping"} :
              next = [h EXCEPT !.pc = pc] /\ (pc = "shipping" => h.trades # <<>>)
      \/ h.pc = "shipping" /\ next = [h EXCEPT !.pc = "settling", !.trades = Tail(@)]

\* All steps, by what they do to a handler.
LEMMA HandlerSteps ==
  ASSUME Sound, [Next]_vars
  PROVE  /\ handler' = [u \in Threads |-> handler'[u]]
         /\ \A u \in Threads : HandlerStep(u)
<1>1. TypeOK
  BY DEF Sound
<1>2. handler = [u \in Threads |-> handler[u]] /\ DOMAIN handler = Threads
  BY <1>1 DEF TypeOK
<1>3. ASSUME NEW t \in Threads, NEW next, handler' = [handler EXCEPT ![t] = next]
      PROVE  /\ handler' = [u \in Threads |-> handler'[u]]
             /\ handler'[t] = next
             /\ \A u \in Threads \ {t} : handler'[u] = handler[u]
  BY <1>2, <1>3
<1>4. ASSUME NEW t \in Threads, NEW next, handler' = [handler EXCEPT ![t] = next],
             handler'[t] = next => HandlerStep(t)
      PROVE  /\ handler' = [u \in Threads |-> handler'[u]]
             /\ \A u \in Threads : HandlerStep(u)
  <2>1. HandlerStep(t)
    BY <1>3, <1>4
  <2>2. ASSUME NEW u \in Threads, handler'[u] = handler[u] PROVE HandlerStep(u)
    BY <2>2 DEF HandlerStep
  <2> QED BY <1>3, <1>4, <2>1, <2>2
<1>5. ASSUME NEW t \in Threads, NEW b \in Body, Validate(t, b)
      PROVE  /\ handler' = [u \in Threads |-> handler'[u]]
             /\ \A u \in Threads : HandlerStep(u)
  <2>1. handler' = [handler EXCEPT ![t] = [Idle EXCEPT !.pc = "validated", !.req = b]]
    BY <1>5 DEF Validate
  <2>2. handler'[t] = [Idle EXCEPT !.pc = "validated", !.req = b] => HandlerStep(t)
    BY DEF HandlerStep
  <2> QED BY <1>4, <2>1, <2>2
<1>6. ASSUME NEW t \in Threads, NEW i \in OrderIds, Cancel(t, i)
      PROVE  /\ handler' = [u \in Threads |-> handler'[u]]
             /\ \A u \in Threads : HandlerStep(u)
  <2>1. handler' = [handler EXCEPT ![t] = [Idle EXCEPT !.pc = "refunding", !.order = i]]
    BY <1>6 DEF Cancel
  <2>2. handler'[t] = [Idle EXCEPT !.pc = "refunding", !.order = i] => HandlerStep(t)
    BY DEF HandlerStep
  <2> QED BY <1>4, <2>1, <2>2
<1>7. ASSUME NEW t \in Threads, Reserve(t)
      PROVE  /\ handler' = [u \in Threads |-> handler'[u]]
             /\ \A u \in Threads : HandlerStep(u)
  <2>1. handler' = [handler EXCEPT ![t] = [handler[t] EXCEPT !.pc = "reserved"]]
        /\ handler[t].pc = "validated"
    BY <1>7 DEF Reserve, Goto, At
  <2>2. handler'[t] = [handler[t] EXCEPT !.pc = "reserved"] => HandlerStep(t)
    BY <2>1 DEF HandlerStep
  <2> QED BY <1>4, <2>1, <2>2
<1>8. ASSUME NEW t \in Threads, Refuse(t) \/ Respond(t) \/ Refund(t)
      PROVE  /\ handler' = [u \in Threads |-> handler'[u]]
             /\ \A u \in Threads : HandlerStep(u)
  <2>1. handler' = [handler EXCEPT ![t] = Idle]
    BY <1>8 DEF Refuse, Respond, Refund, Finish
  <2>2. handler'[t] = Idle => HandlerStep(t)
    BY DEF HandlerStep
  <2> QED BY <1>4, <2>1, <2>2
<1>9. ASSUME NEW t \in Threads, Insert(t)
      PROVE  /\ handler' = [u \in Threads |-> handler'[u]]
             /\ \A u \in Threads : HandlerStep(u)
  <2>1. handler' = [handler EXCEPT ![t] = [Idle EXCEPT !.pc = "matching", !.order = Len(orders) + 1]]
    BY <1>9 DEF Insert
  <2>2. Len(orders') = Len(orders) + 1
    BY <1>9, InsertedOrder
  <2>3. handler'[t] = [Idle EXCEPT !.pc = "matching", !.order = Len(orders) + 1] => HandlerStep(t)
    BY <2>2 DEF HandlerStep
  <2> QED BY <1>4, <2>1, <2>3
<1>10. ASSUME NEW t \in Threads, MatchBuy(t) \/ MatchSell(t)
       PROVE  /\ handler' = [u \in Threads |-> handler'[u]]
              /\ \A u \in Threads : HandlerStep(u)
  <2>1. PICK i, r, p, n : Deal(t, i, r, p, n)
    BY <1>10, TradeDeals
  <2> DEFINE next == [handler[t] EXCEPT !.trades = Append(@, [price |-> p, quantity |-> n,
                        buy  |-> IF orders[i].side = "buy" THEN i ELSE r,
                        sell |-> IF orders[i].side = "buy" THEN r ELSE i])]
  <2>2. handler' = [handler EXCEPT ![t] = next]
    BY <2>1 DEF Deal
  <2>3. HandlerStep(t)
    BY <2>1 DEF HandlerStep
  <2> HIDE DEF next
  <2> QED BY <1>4, <2>2, <2>3
<1>11. ASSUME NEW t \in Threads, NEW pc \in {"returning", "settling", "shipping"},
              Goto(t, pc), handler[t].pc \in {"matching", "returning", "settling"},
              pc = "shipping" => handler[t].trades # <<>>
       PROVE  /\ handler' = [u \in Threads |-> handler'[u]]
              /\ \A u \in Threads : HandlerStep(u)
  <2>1. handler' = [handler EXCEPT ![t] = [handler[t] EXCEPT !.pc = pc]]
    BY <1>11 DEF Goto
  <2>2. handler'[t] = [handler[t] EXCEPT !.pc = pc] => HandlerStep(t)
    BY <1>11 DEF HandlerStep
  <2> QED BY <1>4, <2>1, <2>2
<1>12. ASSUME NEW t \in Threads, Rest(t) \/ ReturnUnfilled(t) \/ SettleCredits(t)
       PROVE  /\ handler' = [u \in Threads |-> handler'[u]]
              /\ \A u \in Threads : HandlerStep(u)
  <2>1. CASE Rest(t)
    <3>1. handler[t].pc = "matching" /\ (Goto(t, "returning") \/ Goto(t, "settling"))
      BY <2>1 DEF Rest, At
    <3> QED BY <1>11, <3>1
  <2>2. CASE ReturnUnfilled(t)
    <3>1. handler[t].pc = "returning" /\ Goto(t, "settling")
      BY <2>2 DEF ReturnUnfilled, At
    <3> QED BY <1>11, <3>1
  <2>3. CASE SettleCredits(t)
    <3>1. handler[t].pc = "settling" /\ Goto(t, "shipping") /\ handler[t].trades # <<>>
      BY <2>3 DEF SettleCredits, At
    <3> QED BY <1>11, <3>1
  <2> QED BY <1>12, <2>1, <2>2, <2>3
<1>13. ASSUME NEW t \in Threads, SpawnShip(t)
       PROVE  /\ handler' = [u \in Threads |-> handler'[u]]
              /\ \A u \in Threads : HandlerStep(u)
  <2>1. handler' = [handler EXCEPT ![t] = [handler[t] EXCEPT !.pc = "settling", !.trades = Tail(@)]]
    <3>1. handler' = [handler EXCEPT ![t].pc = "settling", ![t].trades = Tail(@)]
      BY <1>13 DEF SpawnShip
    <3>2. handler[t] = [pc |-> handler[t].pc, req |-> handler[t].req, order |-> handler[t].order,
                        trades |-> handler[t].trades]
      BY <1>1 DEF TypeOK
    <3> QED BY <1>2, <3>1, <3>2
  <2>2. handler'[t] = [handler[t] EXCEPT !.pc = "settling", !.trades = Tail(@)] => HandlerStep(t)
    BY <1>13 DEF HandlerStep, SpawnShip, At
  <2> QED BY <1>4, <2>1, <2>2
<1>14. CASE Restart
  <2>1. handler' = [u \in Threads |-> Idle]
    BY <1>14 DEF Restart
  <2> QED BY <2>1 DEF HandlerStep
<1>15. CASE UNCHANGED handler
  BY <1>2, <1>15 DEF HandlerStep
<1>16. CASE Administer
  <2>1. UNCHANGED handler
    BY <1>16 DEF Administer, CheckStation, CancelOrdersAt, RefundOrder, RemoveStation, DeleteShips,
                 DeleteOrders, RefundCredits, ReturnGoods, Disown, Unregister
  <2> QED BY <1>15, <2>1
<1>17. CASE Quiet \/ UNCHANGED vars
  BY <1>15, <1>17 DEF Quiet, vars, server
<1> QED BY <1>5, <1>6, <1>7, <1>8, <1>9, <1>10, <1>12, <1>13, <1>14, <1>16, <1>17 DEF Next, Step

-----------------------------------------------------------------------------
(* Who is matched, and who rests *)

\* Who matches is the one who holds the lock.
LEMMA MatchingOne ==
  ASSUME Sound
  PROVE  /\ \A t \in Threads : At(t, "matching") =>
              /\ \A u \in Threads : At(u, "matching") => u = t
              /\ \A i : Matching(i) <=> i = handler[t].order
         /\ (\A t \in Threads : ~At(t, "matching")) => \A i : ~Matching(i)
  BY DEF Sound, LockSound, Matching

\* A new order does not rest yet.
LEMMA InsertResting ==
  ASSUME Sound, NEW t \in Threads, Insert(t)
  PROVE  /\ \A j \in OrderIds : Resting(j)' <=> Resting(j)
         /\ \A j : j = Len(orders) + 1 => ~Resting(j)'
         /\ handler'[t].pc = "matching" /\ handler'[t].order = Len(orders) + 1
         /\ \A u \in Threads \ {t} : handler'[u] = handler[u] /\ ~At(u, "matching")
<1>1. TypeOK /\ LockSound /\ marketLock = NoThread
  BY DEF Sound, Insert
<1>2. \A u \in Threads : ~At(u, "matching")
  BY <1>1, MarketAssumption DEF LockSound
<1>3. handler' = [handler EXCEPT ![t] = [Idle EXCEPT !.pc = "matching", !.order = Len(orders) + 1]]
  BY DEF Insert
<1>4. /\ handler'[t].pc = "matching" /\ handler'[t].order = Len(orders) + 1
      /\ \A u \in Threads \ {t} : handler'[u] = handler[u] /\ ~At(u, "matching")
  BY <1>1, <1>2, <1>3 DEF TypeOK, Idle
<1>5. \A j : Matching(j)' <=> j = Len(orders) + 1
  BY <1>4 DEF Matching, At
<1>6. \A j : ~Matching(j)
  BY <1>2, MatchingOne
<1>7. \A j \in OrderIds : j # Len(orders) + 1 /\ orders'[j] = orders[j]
  BY InsertedOrder
<1>8. ASSUME NEW j \in OrderIds PROVE Resting(j)' <=> Resting(j)
  BY <1>5, <1>6, <1>7 DEF Resting
<1>9. \A j : j = Len(orders) + 1 => ~Resting(j)'
  BY <1>5 DEF Resting
<1> QED BY <1>4, <1>8, <1>9

\* A Deal may end one rest.
LEMMA DealResting ==
  ASSUME Sound, NEW t \in Threads, NEW i, NEW r, NEW p, NEW n, Deal(t, i, r, p, n)
  PROVE  /\ \A j \in OrderIds :
              Resting(j)' <=> Resting(j) /\ ~(j = r /\ n = Remaining(orders[r]))
         /\ handler'[t].pc = "matching" /\ handler'[t].order = i
         /\ \A u \in Threads \ {t} : handler'[u] = handler[u] /\ ~At(u, "matching")
         /\ \A j : Matching(j) <=> j = i
         /\ \A j : Matching(j)' <=> j = i
<1>1. TypeOK /\ At(t, "matching") /\ handler[t].order = i /\ i # r /\ i \in OrderIds /\ r \in OrderIds
  BY DEF Sound, Deal
<1>2. /\ handler'[t].pc = "matching" /\ handler'[t].order = i
      /\ \A u \in Threads \ {t} : handler'[u] = handler[u] /\ ~At(u, "matching")
  <2>1. \A u \in Threads \ {t} : ~At(u, "matching")
    BY <1>1, MatchingOne
  <2>2. handler'[t].pc = handler[t].pc /\ handler'[t].order = handler[t].order
        /\ \A u \in Threads \ {t} : handler'[u] = handler[u]
    BY <1>1 DEF Deal, TypeOK
  <2> QED BY <1>1, <2>1, <2>2 DEF At
<1>3. \A j : Matching(j) <=> j = i
  BY <1>1, MatchingOne
<1>4. \A j : Matching(j)' <=> j = i
  BY <1>2 DEF Matching, At
<1>5. /\ orders'[i] = Fill(orders[i], n) /\ orders'[r] = Fill(orders[r], n)
      /\ \A j \in OrderIds \ {i, r} : orders'[j] = orders[j]
  BY <1>1, DealOrders
<1>6. ASSUME NEW j \in OrderIds
      PROVE  Resting(j)' <=> Resting(j) /\ ~(j = r /\ n = Remaining(orders[r]))
  <2>1. CASE j = i
    BY <1>3, <1>4, <2>1 DEF Resting
  <2>2. CASE j = r
    <3>1. orders[r] \in OrderRecord /\ Remaining(orders[r]) \in Nat
      BY <1>1, OrderTypes
    <3>2. n \in Nat \ {0} /\ n <= Remaining(orders[r]) /\ Cancellable(orders[r])
      BY DEF Deal
    <3>3. /\ SameOrder(orders'[r], orders[r]) /\ Remaining(orders'[r]) = Remaining(orders[r]) - n
          /\ orders'[r].status = IF Remaining(orders[r]) = n THEN "filled" ELSE "partially_filled"
      BY <1>5, <3>1, <3>2, FilledOrder
    <3>4. Resting(r) <=> orders[r].type = "limit"
      BY <1>1, <1>3, <3>1, <3>2 DEF Resting
    <3>5. Resting(r)' <=> orders[r].type = "limit" /\ n # Remaining(orders[r])
      BY <1>1, <1>4, <3>1, <3>2, <3>3 DEF Resting, SameOrder, Cancellable
    <3> QED BY <2>2, <3>4, <3>5
  <2>3. CASE j \notin {i, r}
    BY <1>3, <1>4, <1>5, <2>3 DEF Resting
  <2> QED BY <2>1, <2>2, <2>3
<1> QED BY <1>2, <1>3, <1>4, <1>6

\* The rest of a limit order rests.
LEMMA RestResting ==
  ASSUME Sound, NEW t \in Threads, Rest(t)
  PROVE  /\ \A j \in OrderIds :
              Resting(j)' <=> \/ Resting(j)
                              \/ /\ j = handler[t].order /\ orders[j].type = "limit"
                                 /\ Remaining(orders[j]) > 0
         /\ \A u \in Threads : ~At(u, "matching")'
         /\ \A j : ~Matching(j)'
<1> DEFINE i == handler[t].order
<1>1. TypeOK /\ At(t, "matching") /\ OrdersSound /\ MatchingSound
  BY DEF Sound, Rest
<1>2. \A u \in Threads : ~At(u, "matching")'
  <2>1. \A u \in Threads \ {t} : ~At(u, "matching")
    BY <1>1, MatchingOne
  <2>2. handler'[t].pc # "matching" /\ \A u \in Threads \ {t} : handler'[u] = handler[u]
    BY <1>1 DEF Rest, Goto, TypeOK
  <2> QED BY <2>1, <2>2 DEF At
<1>3. \A j : ~Matching(j)'
  BY <1>2 DEF Matching, At
<1>4. \A j : Matching(j) <=> j = i
  BY <1>1, MatchingOne
<1>5. /\ i \in OrderIds /\ \A j \in OrderIds \ {i} : orders'[j] = orders[j]
      /\ SameOrder(orders'[i], orders[i])
      /\ orders[i].type = "limit" => orders'[i] = orders[i]
  BY RestOrders
<1>6. Remaining(orders[i]) > 0 => Cancellable(orders[i])
  <2>1. orders[i].status # "cancelled"
    BY <1>1 DEF MatchingSound
  <2>2. orders[i].status \in Statuses
    BY <1>1, <1>5, OrderTypes, OrderFields
  <2>3. Remaining(orders[i]) > 0 => orders[i].status # "filled"
    BY <1>1, <1>5 DEF OrdersSound
  <2> QED BY <2>1, <2>2, <2>3 DEF Statuses, Cancellable
<1> HIDE DEF i
<1>7. ASSUME NEW j \in OrderIds
      PROVE  Resting(j)' <=> \/ Resting(j)
                             \/ j = i /\ orders[j].type = "limit" /\ Remaining(orders[j]) > 0
  <2>1. CASE j # i
    BY <1>3, <1>4, <1>5, <2>1 DEF Resting
  <2>2. CASE j = i
    BY <1>3, <1>4, <1>5, <1>6, <2>2 DEF Resting, SameOrder
  <2> QED BY <2>1, <2>2
<1> QED BY <1>2, <1>3, <1>7 DEF i

\* The cancelled rest no more.
LEMMA CancelResting ==
  ASSUME Sound, NEW ids, CancelStep(ids)
  PROVE  /\ \A j \in OrderIds : Resting(j)' <=> Resting(j) /\ j \notin ids
         /\ \A j : ~Matching(j) /\ ~Matching(j)'
<1>1. \A j : ~Matching(j) /\ ~Matching(j)'
  BY DEF CancelStep, Matching
<1>2. /\ \A j \in OrderIds \ ids : orders'[j] = orders[j]
      /\ \A j \in ids : orders'[j].status = "cancelled"
  BY CancelledOrders DEF CancelStep, Sound
<1>3. ASSUME NEW j \in OrderIds PROVE Resting(j)' <=> Resting(j) /\ j \notin ids
  <2>1. CASE j \in ids
    BY <1>2, <2>1 DEF Resting, Cancellable
  <2>2. CASE j \notin ids
    BY <1>1, <1>2, <2>2 DEF Resting
  <2> QED BY <2>1, <2>2
<1> QED BY <1>1, <1>3

\* Nothing else changes who rests.
LEMMA AsideResting ==
  ASSUME Sound, Aside \/ Restart \/ ReturnGoods
  PROVE  /\ orders' = orders
         /\ \A j \in OrderIds : Resting(j)' <=> Resting(j)
         /\ \A t \in Threads : At(t, "matching")' => At(t, "matching") /\ handler'[t] = handler[t]
         /\ Restart \/ ReturnGoods => \A t \in Threads : ~At(t, "matching") /\ ~At(t, "matching")'
<1>1. orders' = orders
  BY DEF Aside, Restart, ReturnGoods, market
<1>2. Restart \/ ReturnGoods => \A t \in Threads : ~At(t, "matching") /\ ~At(t, "matching")'
  <2>1. CASE Restart
    BY <2>1, MarketAssumption DEF Sound, LockSound, Restart, At, Idle
  <2>2. CASE ReturnGoods
    <3>1. marketLock = "admin" /\ handler' = handler
      BY <2>2 DEF Sound, LockSound, ReturnGoods, AdminAt
    <3> QED BY <3>1, MarketAssumption DEF Sound, LockSound, At
  <2> QED BY <2>1, <2>2
<1>3. \A t \in Threads : At(t, "matching") <=> At(t, "matching")'
  BY <1>2 DEF Aside, At
<1>4. \A t \in Threads : At(t, "matching")' => handler'[t] = handler[t]
  BY <1>2 DEF Aside
<1>5. \A j : Matching(j)' <=> Matching(j)
  BY <1>3, <1>4 DEF Matching
<1>6. ASSUME NEW j \in OrderIds PROVE Resting(j)' <=> Resting(j)
  BY <1>1, <1>5 DEF Resting
<1> QED BY <1>1, <1>2, <1>3, <1>4, <1>6

-----------------------------------------------------------------------------
(* Each part of the invariant is kept *)

\* One handler at a time matches.
LEMMA LockStep ==
  ASSUME Sound, [Next]_vars
  PROVE  LockSound'
<1>1. TypeOK /\ LockSound
  BY DEF Sound
<1>2. ASSUME NEW t \in Threads, Insert(t) PROVE LockSound'
  <2>1. /\ marketLock = NoThread /\ marketLock' = t /\ admin' = admin
        /\ handler'[t].pc = "matching"
        /\ \A u \in Threads \ {t} : handler'[u] = handler[u] /\ ~At(u, "matching")
    BY <1>2, InsertResting DEF Insert
  <2>2. admin.pc \notin {"refund_credits", "return_goods"}
    BY <1>1, <2>1, MarketAssumption DEF LockSound
  <2> QED BY <2>1, <2>2 DEF LockSound, At
<1>3. ASSUME NEW t \in Threads, NEW i, NEW r, NEW p, NEW n, Deal(t, i, r, p, n) PROVE LockSound'
  <2>1. /\ marketLock' = marketLock /\ admin' = admin
        /\ handler'[t].pc = "matching" /\ At(t, "matching")
        /\ \A u \in Threads \ {t} : handler'[u] = handler[u]
    BY <1>3, DealResting DEF Deal
  <2> QED BY <1>1, <2>1 DEF LockSound, At
<1>4. ASSUME NEW t \in Threads, Rest(t) PROVE LockSound'
  <2>1. /\ marketLock' = NoThread /\ admin' = admin /\ At(t, "matching")
        /\ \A u \in Threads : ~At(u, "matching")'
    BY <1>4, RestResting DEF Rest, LeaveMarket
  <2>2. marketLock = t
    BY <1>1, <2>1 DEF LockSound
  <2> QED BY <1>1, <2>1, <2>2, MarketAssumption DEF LockSound
<1>5. ASSUME NEW ids, CancelStep(ids) PROVE LockSound'
  BY <1>5, MarketAssumption DEF CancelStep, LockSound, Deleting
<1>6. CASE ReturnGoods
  <2>1. \A t \in Threads : ~At(t, "matching")'
    BY <1>6, AsideResting
  <2>2. marketLock' = NoThread /\ admin'.pc = "disown"
    BY <1>1, <1>6 DEF ReturnGoods, LeaveMarket, AdminAt, TypeOK, AdminRecord, AdminIdle
  <2> QED BY <2>1, <2>2, MarketAssumption DEF LockSound
<1>7. CASE Restart
  <2>1. \A t \in Threads : ~At(t, "matching")'
    BY <1>7, AsideResting
  <2>2. marketLock' = NoThread /\ admin'.pc = "idle"
    BY <1>7 DEF Restart, AdminIdle
  <2> QED BY <2>1, <2>2, MarketAssumption DEF LockSound
<1>8. CASE Aside
  <2>1. marketLock' = marketLock /\ (admin'.pc \in Deleting => admin.pc \in Deleting)
    BY <1>8 DEF Aside, market
  <2>2. \A t \in Threads : At(t, "matching") <=> At(t, "matching")'
    BY <1>8 DEF Aside, At
  <2> QED BY <1>1, <2>1, <2>2 DEF LockSound, Deleting
<1> QED BY <1>2, <1>3, <1>4, <1>5, <1>6, <1>7, <1>8, Steps

\* Every order stays well formed.
LEMMA OrdersStep ==
  ASSUME Sound, [Next]_vars
  PROVE  OrdersSound'
<1>1. TypeOK /\ OrdersSound /\ Len(orders) \in Nat
  BY DEF Sound, TypeOK
<1>2. \A i \in OrderIds : orders[i] \in OrderRecord /\ Remaining(orders[i]) \in Nat
  BY <1>1, OrderTypes
<1>3. ASSUME NEW t \in Threads, Insert(t) PROVE OrdersSound'
  <2> DEFINE new == Len(orders) + 1
  <2>1. /\ orders' \in Seq(OrderRecord) /\ Len(orders') = new
        /\ \A j \in OrderIds : orders'[j] = orders[j]
        /\ \A j \in 1..new : j = new \/ j \in OrderIds
        /\ orders'[new].status = "open" /\ Remaining(orders'[new]) = orders'[new].quantity
        /\ orders'[new].type = "limit" => orders'[new].price \in Prices
    BY <1>3, InsertedOrder
  <2>2. orders'[new].quantity \in Nat \ {0}
    <3>1. new \in 1..Len(orders')
      BY <1>1, <2>1
    <3> HIDE DEF new
    <3>2. orders'[new] \in OrderRecord
      BY <2>1, <3>1, ElementOfSeq
    <3> QED BY <3>2, OrderFields
  <2> HIDE DEF new
  <2> QED BY <1>1, <2>1, <2>2 DEF OrdersSound, OrderIds
<1>4. ASSUME NEW t \in Threads, NEW i, NEW r, NEW p, NEW n, Deal(t, i, r, p, n) PROVE OrdersSound'
  <2>1. /\ Len(orders') = Len(orders)
        /\ orders'[i] = Fill(orders[i], n) /\ orders'[r] = Fill(orders[r], n)
        /\ \A j \in OrderIds \ {i, r} : orders'[j] = orders[j]
    BY <1>1, <1>4, DealOrders
  <2>2. ASSUME NEW j \in {i, r}
        PROVE  /\ SameOrder(orders'[j], orders[j])
               /\ orders'[j].status = "filled" <=> Remaining(orders'[j]) = 0
    <3>1. j \in OrderIds /\ n \in Nat \ {0} /\ n <= Remaining(orders[j])
      BY <1>4 DEF Deal
    <3>2. orders[j] \in OrderRecord /\ Remaining(orders[j]) \in Nat
      BY <1>2, <3>1
    <3>3. /\ SameOrder(Fill(orders[j], n), orders[j])
          /\ Remaining(Fill(orders[j], n)) = Remaining(orders[j]) - n
          /\ Fill(orders[j], n).status = IF Remaining(orders[j]) = n THEN "filled" ELSE "partially_filled"
      BY <3>1, <3>2, FilledOrder
    <3> QED BY <2>1, <3>1, <3>2, <3>3
  <2> QED BY <1>1, <2>1, <2>2 DEF OrdersSound, OrderIds, SameOrder
<1>5. ASSUME NEW t \in Threads, Rest(t) PROVE OrdersSound'
  <2> DEFINE i == handler[t].order
  <2>1. /\ Len(orders') = Len(orders) /\ i \in OrderIds
        /\ \A j \in OrderIds \ {i} : orders'[j] = orders[j]
        /\ SameOrder(orders'[i], orders[i])
        /\ orders'[i].status = "filled" <=> Remaining(orders'[i]) = 0
    BY <1>5, RestOrders
  <2> HIDE DEF i
  <2> QED BY <1>1, <2>1 DEF OrdersSound, OrderIds, SameOrder
<1>6. ASSUME NEW ids, CancelStep(ids) PROVE OrdersSound'
  <2>1. /\ Len(orders') = Len(orders) /\ ids \in SUBSET OrderIds
        /\ \A j \in OrderIds \ ids : orders'[j] = orders[j]
        /\ \A j \in ids : /\ SameOrder(orders'[j], orders[j]) /\ orders'[j].filled = orders[j].filled
                          /\ orders'[j].status = "cancelled" /\ Cancellable(orders[j])
    BY <1>1, <1>6, CancelledOrders DEF CancelStep
  <2>2. \A j \in ids : Remaining(orders'[j]) = Remaining(orders[j]) /\ Remaining(orders[j]) # 0
    BY <1>1, <2>1 DEF OrdersSound, SameOrder, Remaining, Cancellable
  <2> QED BY <1>1, <2>1, <2>2 DEF OrdersSound, OrderIds, SameOrder
<1>7. CASE Aside \/ Restart \/ ReturnGoods
  BY <1>1, <1>7, AsideResting DEF OrdersSound, OrderIds
<1> QED BY <1>3, <1>4, <1>5, <1>6, <1>7, Steps

\* A trade takes the front order out of its queue if nothing of it remains.
LEMMA DealBook ==
  ASSUME Sound, NEW t \in Threads, NEW i, NEW r, NEW p, NEW n, Deal(t, i, r, p, n)
  PROVE  \A s \in Sides, q \in Prices :
           /\ book'[s][q] \in Seq(OrderIds)
           /\ \A j : j \in Ids(book'[s][q]) <=> /\ j \in Ids(book[s][q])
                                                /\ ~(j = r /\ n = Remaining(orders[r]))
           /\ Ordered(book'[s][q], restarts = 0)
<1> SUFFICES ASSUME NEW s \in Sides, NEW q \in Prices
             PROVE  /\ book'[s][q] \in Seq(OrderIds)
                    /\ \A j : j \in Ids(book'[s][q]) <=> /\ j \in Ids(book[s][q])
                                                         /\ ~(j = r /\ n = Remaining(orders[r]))
                    /\ Ordered(book'[s][q], restarts = 0)
  OBVIOUS
<1>1. TypeOK /\ BookAgrees
  BY DEF Sound
<1>2. book \in [Sides -> [Prices -> Seq(OrderIds)]]
  BY <1>1 DEF TypeOK
<1>3. /\ orders[r].side \in Sides /\ p \in Prices /\ orders[r].price = p
      /\ book[orders[r].side][p] # <<>> /\ r = Head(book[orders[r].side][p])
  BY <1>1, OrderTypes, OrderFields DEF Deal
<1>4. book'[s][q] = IF s = orders[r].side /\ q = p /\ n = Remaining(orders[r])
                    THEN Tail(book[s][q]) ELSE book[s][q]
  <2> DEFINE queue == IF Remaining(orders[r]) = n THEN Tail(book[orders[r].side][p])
                                                  ELSE book[orders[r].side][p]
  <2>1. book' = [book EXCEPT ![orders[r].side][p] = queue]
    BY DEF Deal
  <2> HIDE DEF queue
  <2>2. book'[s][q] = IF s = orders[r].side /\ q = p THEN queue ELSE book[s][q]
    BY <1>2, <1>3, <2>1
  <2> QED BY <2>2 DEF queue
<1>5. /\ book[s][q] \in Seq(OrderIds) /\ book[s][q] \in Seq(Nat) /\ Waiting(s, q) = Ids(book[s][q])
      /\ Ordered(book[s][q], restarts = 0)
      /\ \A j \in Ids(book[s][q]) : orders[j].side = s /\ orders[j].price = q
  BY <1>1, WaitingTypes, WaitingFacts
<1>6. CASE s = orders[r].side /\ q = p /\ n = Remaining(orders[r])
  <2>1. book'[s][q] = Tail(book[s][q]) /\ book[s][q] # <<>> /\ r = Head(book[s][q])
    BY <1>3, <1>4, <1>6
  <2>2. /\ Tail(book[s][q]) \in Seq(OrderIds)
        /\ Ids(book[s][q]) = Ids(Tail(book[s][q])) \cup {Head(book[s][q])}
        /\ Ordered(book[s][q], restarts = 0) => Ordered(Tail(book[s][q]), restarts = 0)
    BY <1>5, <2>1, TailQueue
  <2>3. Head(book[s][q]) \notin Ids(Tail(book[s][q]))
    BY <1>5, <2>1, HeadFirst
  <2> HIDE DEF Ordered
  <2>4. \A j : j \in Ids(book'[s][q]) <=> j \in Ids(book[s][q]) /\ j # r
    BY <2>1, <2>2, <2>3
  <2>5. Ordered(book'[s][q], restarts = 0)
    BY <1>5, <2>1, <2>2
  <2> QED BY <1>6, <2>1, <2>2, <2>4, <2>5
<1>7. CASE ~(s = orders[r].side /\ q = p /\ n = Remaining(orders[r]))
  <2>1. book'[s][q] = book[s][q]
    BY <1>4, <1>7
  <2>2. n = Remaining(orders[r]) => r \notin Ids(book[s][q])
    BY <1>3, <1>5, <1>7
  <2> QED BY <1>4, <1>5, <2>1, <2>2
<1> QED BY <1>6, <1>7

\* Who is matched is not in the book.
LEMMA MatchingStep ==
  ASSUME Sound, [Next]_vars
  PROVE  MatchingSound'
<1>1. TypeOK /\ MatchingSound /\ Len(orders) \in Nat
  BY DEF Sound, TypeOK
<1>2. \A s \in Sides, p \in Prices : Waiting(s, p) = Ids(book[s][p]) /\ Waiting(s, p) \subseteq OrderIds
  BY <1>1, WaitingTypes
<1>3. \A s \in Sides, p \in Prices : Waiting(s, p)' = Ids(book'[s][p])
  BY DEF Waiting, Ids
<1>4. ASSUME NEW t \in Threads, Insert(t) PROVE MatchingSound'
  <2>1. /\ handler'[t].order = Len(orders')
        /\ \A u \in Threads \ {t} : ~At(u, "matching")'
        /\ orders'[handler'[t].order].status = "open"
    BY <1>4, InsertResting, InsertedOrder DEF At
  <2>2. \A s \in Sides, p \in Prices : Waiting(s, p)' = Waiting(s, p)
    BY <1>2, <1>3, <1>4 DEF Insert
  <2>3. handler'[t].order \notin OrderIds
    BY <1>1, <1>4, <2>1, InsertedOrder DEF OrderIds
  <2>4. ASSUME NEW s \in Sides, NEW p \in Prices PROVE handler'[t].order \notin Waiting(s, p)'
    BY <1>2, <2>2, <2>3
  <2> QED BY <2>1, <2>4 DEF MatchingSound, InBook
<1>5. ASSUME NEW t \in Threads, NEW i, NEW r, NEW p, NEW n, Deal(t, i, r, p, n)
      PROVE  MatchingSound'
  <2>1. /\ handler'[t].order = i /\ handler[t].order = i /\ At(t, "matching")
        /\ \A u \in Threads \ {t} : ~At(u, "matching")'
    BY <1>5, DealResting, ZenonT(60) DEF Deal, At
  <2>2. Len(orders') = Len(orders) /\ orders'[i] = Fill(orders[i], n)
    BY <1>1, <1>5, DealOrders
  <2>3. orders[i] \in OrderRecord /\ n \in Nat \ {0} /\ n <= Remaining(orders[i])
    BY <1>1, <1>5, OrderTypes DEF Deal
  <2>4. orders'[i].status # "cancelled"
    BY <2>2, <2>3, FilledOrder
  <2>5. i = Len(orders) /\ ~InBook(i)
    BY <1>1, <2>1 DEF MatchingSound
  <2>6. ASSUME NEW s \in Sides, NEW q \in Prices PROVE i \notin Waiting(s, q)'
    <3>1. \A j : j \in Ids(book'[s][q]) => j \in Ids(book[s][q])
      BY <1>5, DealBook
    <3>2. i \notin Ids(book[s][q])
      BY <1>2, <2>5 DEF InBook
    <3> QED BY <1>3, <3>1, <3>2
  <2> QED BY <2>1, <2>2, <2>4, <2>5, <2>6, SMTT(30) DEF MatchingSound, InBook
<1>6. CASE \/ \E t \in Threads : Rest(t)
           \/ \E ids : CancelStep(ids)
           \/ ReturnGoods \/ Restart
  <2>1. \A t \in Threads : ~At(t, "matching")'
    BY <1>6, RestResting, AsideResting DEF CancelStep
  <2> QED BY <2>1 DEF MatchingSound
<1>7. CASE Aside
  <2>1. UNCHANGED <<orders, book>>
    BY <1>7 DEF Aside, market
  <2>2. \A t \in Threads : At(t, "matching")' => At(t, "matching") /\ handler'[t] = handler[t]
    BY <1>7, AsideResting
  <2> QED BY <1>1, <2>1, <2>2, SMTT(30) DEF MatchingSound, InBook, Waiting
<1> QED BY <1>4, <1>5, <1>6, <1>7, Steps

\* A market order that a restart put into the book, and that can trade.
Stray(i) ==
  restarts > 0 /\ orders[i].type = "market" /\ Cancellable(orders[i]) /\ Remaining(orders[i]) > 0

\* What the book says of one queue.
Agrees(s, p) ==
  /\ \A i \in OrderIds : Resting(i) /\ orders[i].side = s /\ orders[i].price = p
                           => i \in Ids(book[s][p])
  /\ \A i \in Ids(book[s][p]) : /\ orders[i].side = s /\ orders[i].price = p
                                /\ Resting(i) \/ Stray(i)
  /\ Ordered(book[s][p], restarts = 0)

\* What is left of a limit order is appended to its price level.
LEMMA RestBook ==
  ASSUME NEW t \in Threads, Rest(t), orders[handler[t].order].type = "limit",
         Remaining(orders[handler[t].order]) > 0
  PROVE  book' = [book EXCEPT ![orders[handler[t].order].side][orders[handler[t].order].price] =
                    Append(@, handler[t].order)]
<1>1. Remaining(orders[handler[t].order]) # 0
  OBVIOUS
<1>2. orders[handler[t].order].type # "market"
  OBVIOUS
<1> QED BY <1>1, <1>2, SMTT(90) DEF Rest

\* The book agrees level by level.
LEMMA BookByQueue == BookAgrees <=> \A s \in Sides, p \in Prices : Agrees(s, p)
<1>1. \A s \in Sides, p \in Prices : Waiting(s, p) = Ids(book[s][p])
  BY DEF Waiting, Ids
<1>2. BookAgrees => \A s \in Sides, p \in Prices : Agrees(s, p)
  BY <1>1 DEF BookAgrees, Agrees, Stray, Ordered
<1>3. (\A s \in Sides, p \in Prices : Agrees(s, p)) => BookAgrees
  BY <1>1 DEF BookAgrees, Agrees, Stray, Ordered
<1> QED BY <1>2, <1>3

\* The book follows the orders.
LEMMA BookStep ==
  ASSUME Sound, [Next]_vars
  PROVE  BookAgrees'
<1>1. /\ TypeOK /\ OrdersSound /\ MatchingSound
      /\ Len(orders) \in Nat /\ restarts \in Nat
      /\ \A s \in Sides, p \in Prices : Agrees(s, p)
  BY BookByQueue DEF Sound, TypeOK
<1>2. SUFFICES ASSUME NEW s \in Sides, NEW p \in Prices PROVE Agrees(s, p)'
  <2>1. (BookAgrees <=> \A s \in Sides, p \in Prices : Agrees(s, p))'
    BY BookByQueue, PTL
  <2> QED BY <2>1
<1>3. Agrees(s, p) /\ book[s][p] \in Seq(OrderIds) /\ Waiting(s, p) = Ids(book[s][p])
      /\ Ids(book[s][p]) \subseteq OrderIds
  BY <1>1, WaitingTypes
<1>4. \A j \in OrderIds : SameOrder(orders'[j], orders[j])
  BY OrdersKept
<1>5. ASSUME NEW t \in Threads, Insert(t) PROVE Agrees(s, p)'
  <2>1. book' = book /\ restarts' = restarts
    BY <1>5 DEF Insert
  <2>2. \A j \in OrderIds' : j = Len(orders) + 1 \/ j \in OrderIds
    BY <1>5, InsertedOrder DEF OrderIds
  <2>3. \A j \in OrderIds : (Resting(j)' <=> Resting(j)) /\ orders'[j] = orders[j]
    BY <1>5, InsertedOrder, InsertResting
  <2>4. \A j : j = Len(orders) + 1 => ~Resting(j)'
    BY <1>5, InsertResting
  <2> QED BY <1>3, <2>1, <2>2, <2>3, <2>4 DEF Agrees, Stray
<1>6. ASSUME NEW t \in Threads, NEW i, NEW r, NEW pr, NEW n, Deal(t, i, r, pr, n)
      PROVE  Agrees(s, p)'
  <2>1. /\ OrderIds' = OrderIds /\ restarts' = restarts
        /\ orders'[r] = Fill(orders[r], n)
        /\ \A j \in OrderIds \ {i, r} : orders'[j] = orders[j]
    BY <1>1, <1>6, DealOrders, SMTT(60) DEF OrderIds, Deal
  <2>2. \A j \in OrderIds :
          Resting(j)' <=> Resting(j) /\ ~(j = r /\ n = Remaining(orders[r]))
    BY <1>6, DealResting
  <2>3. /\ \A j : j \in Ids(book'[s][p]) <=> /\ j \in Ids(book[s][p])
                                             /\ ~(j = r /\ n = Remaining(orders[r]))
        /\ Ordered(book'[s][p], restarts = 0)
    BY <1>6, DealBook
  <2>4. i \notin Ids(book[s][p])
    BY <1>1, <1>3, <1>6 DEF MatchingSound, InBook, Deal
  <2>5. ASSUME NEW j \in Ids(book'[s][p]), Stray(j) PROVE Stray(j)'
    <3>1. j \in OrderIds /\ j # i
      BY <1>3, <2>3, <2>4
    <3>2. CASE j = r
      <4>1. r \in OrderIds /\ n \in Nat \ {0} /\ n <= Remaining(orders[r])
        BY <1>6 DEF Deal
      <4>2. orders[r] \in OrderRecord /\ Remaining(orders[r]) \in Nat
        BY <1>1, <4>1, OrderTypes
      <4>3. /\ Remaining(orders'[r]) = Remaining(orders[r]) - n
            /\ orders'[r].status = IF Remaining(orders[r]) = n THEN "filled" ELSE "partially_filled"
            /\ SameOrder(orders'[r], orders[r])
        BY <2>1, <4>1, <4>2, FilledOrder
      <4> QED BY <2>1, <2>3, <2>5, <3>2, <4>1, <4>2, <4>3 DEF Stray, SameOrder, Cancellable
    <3>3. CASE j # r
      BY <2>1, <2>5, <3>1, <3>3 DEF Stray
    <3> QED BY <3>2, <3>3
  <2> QED BY <1>3, <1>4, <2>1, <2>2, <2>3, <2>5, SMTT(30) DEF Agrees, SameOrder
<1>7. ASSUME NEW t \in Threads, Rest(t) PROVE Agrees(s, p)'
  <2> DEFINE i == handler[t].order
  <2>1. /\ OrderIds' = OrderIds /\ i \in OrderIds
        /\ \A j \in OrderIds \ {i} : orders'[j] = orders[j]
    BY <1>7, RestOrders DEF OrderIds
  <2>2. \A j \in OrderIds :
          Resting(j)' <=> \/ Resting(j)
                          \/ j = i /\ orders[j].type = "limit" /\ Remaining(orders[j]) > 0
    BY <1>7, RestResting
  <2>3. i = Len(orders) /\ i \notin Ids(book[s][p]) /\ restarts' = restarts
    BY <1>1, <1>3, <1>7, ZenonT(60) DEF MatchingSound, InBook, Rest
  <2>4. \A j \in Ids(book[s][p]) : j \in OrderIds /\ j < i
    BY <1>1, <1>3, <2>3 DEF OrderIds
  <2>5. \A j \in Ids(book[s][p]) : Stray(j) => Stray(j)'
    BY <2>1, <2>3, <2>4 DEF Stray
  <2>6. book'[s][p] = IF /\ orders[i].type = "limit" /\ Remaining(orders[i]) > 0
                         /\ orders[i].side = s /\ orders[i].price = p
                      THEN Append(book[s][p], i) ELSE book[s][p]
    <3>1. orders[i].side \in Sides /\ (orders[i].type = "limit" => orders[i].price \in Prices)
      BY <1>1, <2>1, OrderTypes, OrderFields DEF OrdersSound
    <3>2. book \in [Sides -> [Prices -> Seq(OrderIds)]] /\ Remaining(orders[i]) \in Nat
      BY <1>1, <2>1, OrderTypes DEF TypeOK
    <3>3. CASE orders[i].type = "limit" /\ Remaining(orders[i]) > 0
      <4>1. book' = [book EXCEPT ![orders[i].side][orders[i].price] = Append(@, i)]
        BY <1>7, <3>3, RestBook
      <4> HIDE DEF i
      <4> QED BY <3>1, <3>2, <3>3, <4>1
    <3>4. CASE ~(orders[i].type = "limit" /\ Remaining(orders[i]) > 0)
      <4>1. book' = book
        BY <1>7, <3>4 DEF Rest
      <4> QED BY <3>4, <4>1
    <3> QED BY <3>3, <3>4
  <2> HIDE DEF i
  <2>7. CASE /\ orders[i].type = "limit" /\ Remaining(orders[i]) > 0
             /\ orders[i].side = s /\ orders[i].price = p
    <3>1. OrderIds \in SUBSET Nat
      BY DEF OrderIds
    <3>2. /\ Ids(book'[s][p]) = Ids(book[s][p]) \cup {i}
          /\ \A ascending \in BOOLEAN :
               Ordered(book[s][p], ascending) => Ordered(book'[s][p], ascending)
      BY <1>3, <2>1, <2>4, <2>6, <2>7, <3>1, AppendQueue
    <3>3. (restarts = 0) \in BOOLEAN
      OBVIOUS
    <3>4. Ordered(book'[s][p], restarts' = 0)
      BY <1>3, <2>3, <3>2, <3>3 DEF Agrees
    <3> QED BY <1>3, <1>4, <2>1, <2>2, <2>4, <2>5, <2>7, <3>2, <3>4 DEF Agrees, SameOrder
  <2>8. CASE ~( /\ orders[i].type = "limit" /\ Remaining(orders[i]) > 0
                /\ orders[i].side = s /\ orders[i].price = p)
    BY <1>3, <1>4, <2>1, <2>2, <2>3, <2>4, <2>5, <2>6, <2>8 DEF Agrees, SameOrder
  <2> QED BY <2>7, <2>8
<1>8. ASSUME NEW ids, CancelStep(ids) PROVE Agrees(s, p)'
  <2>1. ids \in SUBSET OrderIds /\ (\A j \in ids : Cancellable(orders[j])) /\ CancelOrders(ids)
        /\ restarts' = restarts
    BY <1>8 DEF CancelStep
  <2>2. OrderIds' = OrderIds /\ \A j \in OrderIds \ ids : orders'[j] = orders[j]
    BY <1>1, <2>1, CancelledOrders DEF OrderIds
  <2>3. /\ Ids(book'[s][p]) = Ids(book[s][p]) \ ids
        /\ \A ascending : Ordered(book[s][p], ascending) => Ordered(book'[s][p], ascending)
    BY <1>1, <1>3, <2>1, CancelledBook
  <2>4. \A j \in OrderIds : Resting(j)' <=> Resting(j) /\ j \notin ids
    BY <1>8, CancelResting
  <2>5. Ordered(book'[s][p], restarts' = 0)
    BY <1>3, <2>1, <2>3 DEF Agrees
  <2>6. \A j \in Ids(book'[s][p]) : /\ j \in OrderIds \ ids /\ j \in Ids(book[s][p])
                                    /\ Stray(j) => Stray(j)'
    BY <1>3, <2>1, <2>2, <2>3 DEF Stray
  <2> QED BY <1>3, <1>4, <2>2, <2>3, <2>4, <2>5, <2>6 DEF Agrees, SameOrder
<1>9. CASE Restart
  <2>1. PICK visited \in Bijection(OrderIds, OrderIds) : book' = Rebuilt(visited)
    BY <1>9 DEF Restart
  <2> DEFINE listed == {j \in OrderIds : Listed(j, s, p)}
  <2>2. visited \in Seq(OrderIds) /\ Len(visited) = Len(orders) /\ Ids(visited) = OrderIds
        /\ Ordered(visited, FALSE)
    <3>1. visited \in [1..Len(orders) -> 1..Len(orders)]
          /\ (\A k, l \in 1..Len(orders) : visited[k] = visited[l] => k = l)
          /\ (\A j \in 1..Len(orders) : \E k \in 1..Len(orders) : visited[k] = j)
      BY <2>1 DEF Bijection, Injection, Surjection, IsInjective, OrderIds
    <3>2. visited \in Seq(1..Len(orders)) /\ Len(visited) = Len(orders)
      <4>1. visited = [k \in 1..Len(orders) |-> visited[k]]
            /\ \A k \in 1..Len(orders) : visited[k] \in 1..Len(orders)
        BY <3>1
      <4> QED BY <1>1, <4>1
    <3>3. Ids(visited) = 1..Len(orders)
      BY <3>1, <3>2 DEF Ids
    <3>4. Ordered(visited, FALSE)
      BY <3>1, <3>2 DEF Ordered
    <3> QED BY <3>2, <3>3, <3>4 DEF OrderIds
  <2>3. book'[s][p] = Retained(visited, listed)
    BY <2>1 DEF Rebuilt
  <2> HIDE DEF listed
  <2>4. Ids(book'[s][p]) = listed /\ Ordered(book'[s][p], FALSE)
    <3>1. /\ Ids(Retained(visited, listed)) = Ids(visited) \cap listed
          /\ \A ascending : Ordered(visited, ascending) => Ordered(Retained(visited, listed), ascending)
      BY <2>2, RetainedQueue
    <3>2. listed \subseteq OrderIds
      BY DEF listed
    <3> QED BY <2>2, <2>3, <3>1, <3>2
  <2>5. orders' = orders /\ OrderIds' = OrderIds /\ restarts' > 0 /\ restarts' # 0
    BY <1>1, <1>9 DEF Restart, OrderIds
  <2>6. /\ \A j \in OrderIds : Resting(j)' <=> Resting(j)
        /\ \A j : ~Matching(j)'
    BY <1>9, AsideResting DEF Matching
  <2>7. ASSUME NEW j \in listed PROVE Resting(j)' \/ Stray(j)'
    <3>1. j \in OrderIds /\ Cancellable(orders[j])
      BY DEF listed, Listed
    <3>2. orders[j].type \in {"limit", "market"} /\ Remaining(orders[j]) \in Nat
      BY <1>1, <3>1, OrderTypes, OrderFields
    <3>3. Remaining(orders[j]) > 0
      BY <1>1, <3>1, <3>2 DEF OrdersSound, Cancellable
    <3> QED BY <2>5, <2>6, <3>1, <3>2, <3>3 DEF Resting, Stray
  <2>8. Ordered(book'[s][p], restarts' = 0)
    BY <2>4, <2>5 DEF Ordered
  <2>9. \A j \in OrderIds : Resting(j)' /\ orders'[j].side = s /\ orders'[j].price = p => j \in listed
    BY <2>5, <2>6 DEF Resting, listed, Listed
  <2>10. \A j \in listed : orders'[j].side = s /\ orders'[j].price = p
    BY <2>5 DEF listed, Listed
  <2> QED BY <2>4, <2>5, <2>7, <2>8, <2>9, <2>10 DEF Agrees
<1>10. CASE Aside \/ ReturnGoods
  <2>1. UNCHANGED <<orders, book, restarts>> /\ OrderIds' = OrderIds
    BY <1>10 DEF Aside, ReturnGoods, market, OrderIds
  <2>2. \A j \in OrderIds : Resting(j)' <=> Resting(j)
    BY <1>10, AsideResting
  <2> QED BY <1>3, <2>1, <2>2 DEF Agrees, Stray
<1> QED BY <1>5, <1>6, <1>7, <1>8, <1>9, <1>10, Steps

\* Where anybody waits on a side of the book, somebody waits at its best price.
LEMMA SomeBestAsk ==
  ASSUME NEW p \in Prices, book["sell"][p] # <<>>
  PROVE  \E q : BestAsk(q) /\ q <= p
<1> DEFINE levels == {q \in Prices : book["sell"][q] # <<>>}
<1>1. levels \in SUBSET Nat /\ p \in levels
  BY MarketAssumption
<1>2. PICK q \in levels : \A k \in levels : q <= k
  <2> HIDE DEF levels
  <2> QED BY <1>1, LeastNatural
<1>3. BestAsk(q) /\ q <= p
  BY <1>1, <1>2 DEF BestAsk
<1> QED BY <1>3

\* Where there is a bid there is a best one.
LEMMA SomeBestBid ==
  ASSUME NEW p \in Prices, book["buy"][p] # <<>>
  PROVE  \E q : BestBid(q) /\ q >= p
<1> DEFINE levels == {q \in Prices : book["buy"][q] # <<>>}
<1>1. levels \in SUBSET Nat /\ p \in levels /\ levels \in SUBSET Prices
  BY MarketAssumption
<1>2. IsFiniteSet(levels)
  BY <1>1, MarketAssumption, FS_Subset
<1>3. PICK q \in levels : \A k \in levels : k <= q
  <2> HIDE DEF levels
  <2> QED BY <1>1, <1>2, SomeLargest
<1>4. BestBid(q) /\ q >= p
  <2>1. \A k \in levels : q >= k
    BY <1>1, <1>3
  <2> QED BY <1>1, <2>1 DEF BestBid
<1> QED BY <1>4

\* Resting limits stay apart.
LEMMA LimitsStep ==
  ASSUME Sound, [Next]_vars
  PROVE  LimitsApart'
<1>1. TypeOK /\ OrdersSound /\ MatchingSound /\ BookAgrees /\ LimitsApart /\ Len(orders) \in Nat
  BY DEF Sound, TypeOK
<1>2. \A j \in OrderIds : SameOrder(orders'[j], orders[j])
  BY OrdersKept
<1>3. ASSUME \A j \in OrderIds' : Resting(j)' => j \in OrderIds /\ Resting(j)
      PROVE  LimitsApart'
  BY <1>1, <1>2, <1>3 DEF LimitsApart, SameOrder
<1>4. ASSUME NEW t \in Threads, Insert(t) PROVE LimitsApart'
  <2>1. \A j \in OrderIds' : j = Len(orders) + 1 \/ j \in OrderIds
    BY <1>4, InsertedOrder DEF OrderIds
  <2>2. \A j : j = Len(orders) + 1 => ~Resting(j)'
    BY <1>4, InsertResting
  <2>3. \A j \in OrderIds : Resting(j)' <=> Resting(j)
    BY <1>4, InsertResting
  <2> QED BY <1>3, <2>1, <2>2, <2>3
<1>5. ASSUME NEW t \in Threads, NEW i, NEW r, NEW p, NEW n, Deal(t, i, r, p, n)
      PROVE  LimitsApart'
  <2>1. OrderIds' = OrderIds
    BY <1>1, <1>5, DealOrders DEF OrderIds
  <2>2. \A j \in OrderIds : Resting(j)' => Resting(j)
    BY <1>5, DealResting
  <2> QED BY <1>3, <2>1, <2>2
<1>6. ASSUME NEW ids, CancelStep(ids) PROVE LimitsApart'
  <2>1. OrderIds' = OrderIds
    BY <1>1, <1>6, CancelledOrders DEF OrderIds, CancelStep
  <2>2. \A j \in OrderIds : Resting(j)' => Resting(j)
    BY <1>6, CancelResting
  <2> QED BY <1>3, <2>1, <2>2
<1>7. CASE Aside \/ Restart \/ ReturnGoods
  <2>1. OrderIds' = OrderIds
    BY <1>7, AsideResting DEF OrderIds
  <2>2. \A j \in OrderIds : Resting(j)' => Resting(j)
    BY <1>7, AsideResting
  <2> QED BY <1>3, <2>1, <2>2
<1>8. ASSUME NEW t \in Threads, Rest(t) PROVE LimitsApart'
  <2> DEFINE i == handler[t].order
             o == orders[i]
  <2>1. /\ OrderIds' = OrderIds /\ i \in OrderIds
        /\ \A j \in OrderIds \ {i} : orders'[j] = orders[j]
    BY <1>8, RestOrders DEF OrderIds
  <2>2. \A j \in OrderIds :
          Resting(j)' <=> \/ Resting(j)
                          \/ j = i /\ orders[j].type = "limit" /\ Remaining(orders[j]) > 0
    BY <1>8, RestResting
  <2>3. \A p \in Prices : ~MatchesAt(o, p)
    BY <1>8 DEF Rest
  <2>4. /\ \A j \in OrderIds : /\ orders[j].side \in Sides
                               /\ Resting(j) => orders[j].price \in Prices
        /\ o.type = "limit" => o.price \in Prices
    BY <1>1, <2>1, OrderTypes, OrderFields DEF OrdersSound, Resting
  <2> HIDE DEF i, o
  <2>5. ASSUME NEW j \in OrderIds, Resting(j)
        PROVE  book[orders[j].side][orders[j].price] # <<>>
    <3>1. j \in Waiting(orders[j].side, orders[j].price)
      BY <1>1, <2>4, <2>5 DEF BookAgrees
    <3> QED BY <3>1 DEF Waiting
  <2>6. ASSUME NEW j \in OrderIds, Resting(j), orders[j].side = "sell",
               o.side = "buy", o.type = "limit", Remaining(o) > 0
        PROVE  o.price < orders[j].price
    <3>1. orders[j].price \in Prices /\ book["sell"][orders[j].price] # <<>>
      BY <2>4, <2>5, <2>6
    <3>2. PICK q : BestAsk(q) /\ q <= orders[j].price
      BY <3>1, SomeBestAsk
    <3>3. q \in Prices /\ ~(q <= o.price)
      BY <2>3, <2>6, <3>2 DEF MatchesAt, BestAsk
    <3>4. q \in Nat /\ o.price \in Nat /\ orders[j].price \in Nat
      BY <2>4, <2>6, <3>1, <3>3, MarketAssumption
    <3> QED BY <3>2, <3>3, <3>4
  <2>7. ASSUME NEW j \in OrderIds, Resting(j), orders[j].side = "buy",
               o.side = "sell", o.type = "limit", Remaining(o) > 0
        PROVE  orders[j].price < o.price
    <3>1. orders[j].price \in Prices /\ book["buy"][orders[j].price] # <<>>
      BY <2>4, <2>5, <2>7
    <3>2. PICK q : BestBid(q) /\ q >= orders[j].price
      BY <3>1, SomeBestBid
    <3>3. q \in Prices /\ ~(q >= o.price)
      BY <2>3, <2>7, <3>2 DEF MatchesAt, BestBid
    <3>4. q \in Nat /\ o.price \in Nat /\ orders[j].price \in Nat
      BY <2>4, <2>7, <3>1, <3>3, MarketAssumption
    <3> QED BY <3>2, <3>3, <3>4
  <2>8. SUFFICES ASSUME NEW j \in OrderIds, NEW k \in OrderIds,
                        Resting(j)', orders[j].side = "buy",
                        Resting(k)', orders[k].side = "sell"
                 PROVE  orders[j].price < orders[k].price
    BY <1>2, <2>1 DEF LimitsApart, SameOrder
  <2>9. CASE Resting(j) /\ Resting(k)
    BY <1>1, <2>8, <2>9 DEF LimitsApart
  <2>10. CASE Resting(k) /\ j = i /\ o.type = "limit" /\ Remaining(o) > 0
    BY <2>6, <2>8, <2>10 DEF o
  <2>11. CASE Resting(j) /\ k = i /\ o.type = "limit" /\ Remaining(o) > 0
    BY <2>7, <2>8, <2>11 DEF o
  <2>12. j # k
    BY <2>8
  <2> QED BY <2>2, <2>8, <2>9, <2>10, <2>11, <2>12 DEF o
<1> QED BY <1>4, <1>5, <1>6, <1>7, <1>8, Steps

-----------------------------------------------------------------------------
(* The handlers and their trades *)

\* A trade of two orders that have traded, within their limits.
Proper(tr) ==
  /\ tr.buy \in OrderIds /\ tr.sell \in OrderIds
  /\ orders[tr.buy].side = "buy" /\ orders[tr.sell].side = "sell"
  /\ orders[tr.buy].filled > 0
  /\ orders[tr.buy].type = "limit" => tr.price <= orders[tr.buy].price
  /\ orders[tr.sell].type = "limit" => tr.price >= orders[tr.sell].price

\* A handler as it should be.
Keeping == {"matching", "returning", "settling", "shipping"}

WellTyped(h) == h \in [pc : PCs, req : Body \cup {NoRequest}, order : 0..Len(orders),
                       trades : Seq(TradeRecord)]

Well(h) ==
  /\ WellTyped(h)
  /\ h.pc \in {"validated", "reserved"} => h.req \in Body
  /\ h.pc \in {"matching", "returning", "settling", "shipping", "refunding"} => h.order \in OrderIds
  /\ h.pc = "shipping" => h.trades # <<>>
  /\ h.trades # <<>> => h.pc \in Keeping
  /\ \A k \in 1..Len(h.trades) : Proper(h.trades[k]) /\ h.order \in {h.trades[k].buy, h.trades[k].sell}

\* The handlers, one by one.
LEMMA HandlersWell ==
  (DOMAIN handler = Threads /\ handler = [u \in Threads |-> handler[u]]) =>
    ( /\ handler \in [Threads -> [pc : PCs, req : Body \cup {NoRequest}, order : 0..Len(orders),
                                  trades : Seq(TradeRecord)]]
      /\ HandlersSound /\ TradesSound /\ TradesWithinLimits
      <=> \A u \in Threads : Well(handler[u]))
<1> SUFFICES ASSUME DOMAIN handler = Threads, handler = [u \in Threads |-> handler[u]]
             PROVE  /\ handler \in [Threads -> [pc : PCs, req : Body \cup {NoRequest},
                                                order : 0..Len(orders), trades : Seq(TradeRecord)]]
                    /\ HandlersSound /\ TradesSound /\ TradesWithinLimits
                    <=> \A u \in Threads : Well(handler[u])
  OBVIOUS
<1>1. handler \in [Threads -> [pc : PCs, req : Body \cup {NoRequest}, order : 0..Len(orders),
                               trades : Seq(TradeRecord)]]
      <=> \A u \in Threads : WellTyped(handler[u])
  BY DEF WellTyped
<1>2. ASSUME NEW u \in Threads, WellTyped(handler[u])
      PROVE  /\ handler[u].trades # <<>> => 1 \in 1..Len(handler[u].trades)
             /\ \A k \in 1..Len(handler[u].trades) : handler[u].trades # <<>>
  <2>1. handler[u].trades \in Seq(TradeRecord)
    BY <1>2 DEF WellTyped
  <2> QED BY <2>1
<1>3. ASSUME \A u \in Threads : WellTyped(handler[u]), HandlersSound, TradesSound, TradesWithinLimits,
             NEW u \in Threads
      PROVE  Well(handler[u])
  BY <1>2, <1>3 DEF Well, HandlersSound, TradesSound, TradesWithinLimits, Proper, Keeping
<1>4. ASSUME \A u \in Threads : Well(handler[u])
      PROVE  HandlersSound /\ TradesSound /\ TradesWithinLimits /\ \A u \in Threads : WellTyped(handler[u])
  <2>1. \A u \in Threads : WellTyped(handler[u])
    BY <1>4 DEF Well
  <2>2. HandlersSound
    BY <1>4 DEF Well, HandlersSound
  <2>3. TradesSound
    BY <1>2, <1>4, <2>1 DEF Well, TradesSound, Proper, Keeping
  <2>4. TradesWithinLimits
    BY <1>4 DEF Well, TradesWithinLimits, Proper
  <2> QED BY <2>1, <2>2, <2>3, <2>4
<1> QED BY <1>1, <1>3, <1>4

\* A trade stays proper, whatever the step.
LEMMA TradeKept ==
  ASSUME Sound, [Next]_vars, NEW tr, Proper(tr)
  PROVE  Proper(tr)'
<1>1. TypeOK
  BY DEF Sound
<1>2. ASSUME NEW i \in OrderIds
      PROVE  /\ i \in OrderIds' /\ SameOrder(orders'[i], orders[i])
             /\ orders[i].filled > 0 => orders'[i].filled > 0
  <2>1. /\ i \in 1..Len(orders') /\ SameOrder(orders'[i], orders[i])
        /\ orders[i].filled <= orders'[i].filled /\ orders' \in Seq(OrderRecord)
    BY OrdersKept
  <2>2. orders[i] \in OrderRecord /\ orders'[i] \in OrderRecord
    BY <1>1, <2>1, OrderTypes, ElementOfSeq
  <2>3. orders[i].filled \in Nat /\ orders'[i].filled \in Nat
    BY <2>2, OrderFields
  <2> QED BY <2>1, <2>3 DEF OrderIds
<1> QED BY <1>2 DEF Proper, SameOrder

\* Each stays well.
LEMMA WellStep ==
  ASSUME Sound, [Next]_vars, NEW u \in Threads
  PROVE  \A next : next = handler'[u] => Well(next)'
<1>1. TypeOK /\ Len(orders) \in Nat /\ Len(orders') \in Nat /\ Len(orders) <= Len(orders')
  BY OrdersKept DEF Sound, TypeOK
<1>2. SUFFICES ASSUME NEW next, next = handler'[u] PROVE Well(next)'
  OBVIOUS
<1>h. PICK h : h = handler[u]
  OBVIOUS
<1>3. Well(h)
  BY <1>h, HandlersWell DEF Sound, TypeOK
<1>4. HandlerStep(u)
  BY HandlerSteps
<1>5. OrderIds \subseteq OrderIds' /\ 0..Len(orders) \subseteq 0..Len(orders')
  BY <1>1 DEF OrderIds
<1>6. \A tr : Proper(tr) => Proper(tr)'
  BY TradeKept
<1>7. /\ h.pc \in PCs /\ h.req \in Body \cup {NoRequest} /\ h.order \in 0..Len(orders)
      /\ h.trades \in Seq(TradeRecord)
      /\ h = [pc |-> h.pc, req |-> h.req, order |-> h.order, trades |-> h.trades]
  BY <1>3 DEF Well, WellTyped
<1>8. CASE next = h
  BY <1>3, <1>5, <1>6, <1>7, <1>8 DEF Well, WellTyped
<1>9. ASSUME NEW pc \in PCs, NEW req \in Body \cup {NoRequest}, NEW order \in 0..Len(orders'),
             pc \in {"validated", "reserved"} => req \in Body,
             pc # "idle" /\ pc \notin {"validated", "reserved"} => order \in OrderIds',
             pc # "shipping",
             next = [pc |-> pc, req |-> req, order |-> order, trades |-> <<>>]
      PROVE  Well(next)'
  BY <1>9 DEF Well, WellTyped
<1>10. CASE next = Idle
  <2>1. next = [pc |-> "idle", req |-> NoRequest, order |-> 0, trades |-> <<>>]
    BY <1>10 DEF Idle
  <2>2. "idle" \in PCs /\ 0 \in 0..Len(orders')
    BY <1>1 DEF PCs
  <2> QED BY <1>9, <2>1, <2>2
<1>11. ASSUME NEW b \in Body, next = [Idle EXCEPT !.pc = "validated", !.req = b] PROVE Well(next)'
  <2>1. next = [pc |-> "validated", req |-> b, order |-> 0, trades |-> <<>>]
    BY <1>11 DEF Idle
  <2>2. "validated" \in PCs /\ 0 \in 0..Len(orders')
    BY <1>1 DEF PCs
  <2> QED BY <1>9, <2>1, <2>2
<1>12. ASSUME h.pc = "validated", next = [h EXCEPT !.pc = "reserved"] PROVE Well(next)'
  <2>1. h.trades = <<>> /\ h.req \in Body
    BY <1>3, <1>12 DEF Well, Keeping
  <2>2. next = [pc |-> "reserved", req |-> h.req, order |-> h.order, trades |-> <<>>]
    BY <1>7, <1>12, <2>1
  <2>3. "reserved" \in PCs /\ h.order \in 0..Len(orders')
    BY <1>5, <1>7 DEF PCs
  <2> QED BY <1>9, <2>1, <2>2, <2>3
<1>13. ASSUME Len(orders') = Len(orders) + 1,
              next = [Idle EXCEPT !.pc = "matching", !.order = Len(orders) + 1]
       PROVE  Well(next)'
  <2>1. next = [pc |-> "matching", req |-> NoRequest, order |-> Len(orders) + 1, trades |-> <<>>]
    BY <1>13 DEF Idle
  <2>2. "matching" \in PCs /\ Len(orders) + 1 \in 0..Len(orders') /\ Len(orders) + 1 \in OrderIds'
    BY <1>1, <1>13 DEF PCs, OrderIds
  <2> QED BY <1>9, <2>1, <2>2
<1>14. ASSUME NEW i \in OrderIds, next = [Idle EXCEPT !.pc = "refunding", !.order = i]
       PROVE  Well(next)'
  <2>1. next = [pc |-> "refunding", req |-> NoRequest, order |-> i, trades |-> <<>>]
    BY <1>14 DEF Idle
  <2>2. "refunding" \in PCs /\ i \in 0..Len(orders') /\ i \in OrderIds'
    BY <1>1, <1>5 DEF PCs, OrderIds
  <2> QED BY <1>9, <2>1, <2>2
<1>15. ASSUME NEW i, NEW r, NEW p, NEW n, Deal(u, i, r, p, n) PROVE Well(next)'
  <2>t. PICK tr : tr = [price |-> p, quantity |-> n,
                        buy  |-> IF orders[i].side = "buy" THEN i ELSE r,
                        sell |-> IF orders[i].side = "buy" THEN r ELSE i]
    OBVIOUS
  <2>m. PICK more : more = Append(h.trades, tr)
    OBVIOUS
  <2>1. /\ i \in OrderIds /\ r \in OrderIds /\ p \in Prices /\ n \in Nat \ {0}
        /\ i = h.order /\ h.pc = "matching"
        /\ i # r /\ n <= Remaining(orders[i]) /\ n <= Remaining(orders[r])
        /\ orders[r].price = p
        /\ \/ /\ orders[i].side = "buy" /\ orders[r].side = "sell"
              /\ orders[i].type = "limit" => p <= orders[i].price
           \/ /\ orders[i].side = "sell" /\ orders[r].side = "buy"
              /\ orders[i].type = "limit" => p >= orders[i].price
    BY <1>h, <1>15 DEF Deal, At
  <2>2. next = [h EXCEPT !.trades = more]
    <3>1. handler' = [handler EXCEPT ![u].trades = Append(@, tr)]
      BY <1>15, <2>t DEF Deal
    <3>2. handler'[u] = [handler[u] EXCEPT !.trades = Append(handler[u].trades, tr)]
      BY <1>1, <3>1 DEF TypeOK
    <3> QED BY <1>2, <1>h, <2>m, <3>2
  <2>3. p \in Nat
    BY <2>1, MarketAssumption
  <2>4. tr \in TradeRecord
    <3>1. i \in Nat \ {0} /\ r \in Nat \ {0}
      BY <1>1, <2>1 DEF OrderIds
    <3> QED BY <2>1, <2>t, <3>1 DEF TradeRecord
  <2>5. ASSUME NEW j \in {i, r}
        PROVE  /\ j \in OrderIds' /\ SameOrder(orders'[j], orders[j]) /\ orders'[j].filled > 0
    <3>1. j \in OrderIds /\ orders'[j] = Fill(orders[j], n) /\ n <= Remaining(orders[j])
      BY <1>1, <1>15, <2>1, DealOrders
    <3>2. orders[j] \in OrderRecord
      BY <1>1, <3>1, OrderTypes
    <3>3. orders[j].filled \in Nat
      BY <3>2, OrderFields
    <3>4. SameOrder(orders'[j], orders[j]) /\ orders'[j].filled = orders[j].filled + n
      BY <2>1, <3>1, <3>2, FilledOrder
    <3> QED BY <1>5, <2>1, <3>1, <3>3, <3>4
  <2>6. tr.price = p /\ tr.buy \in {i, r} /\ tr.sell \in {i, r} /\ i \in {tr.buy, tr.sell}
        /\ orders[tr.buy].side = "buy" /\ orders[tr.sell].side = "sell"
        /\ (orders[tr.buy].type = "limit" => p <= orders[tr.buy].price)
        /\ (orders[tr.sell].type = "limit" => p >= orders[tr.sell].price)
    BY <2>1, <2>3, <2>t
  <2>7. Proper(tr)'
    BY <2>5, <2>6 DEF Proper, SameOrder
  <2>8. /\ more \in Seq(TradeRecord) /\ more # <<>> /\ Len(more) = Len(h.trades) + 1
        /\ more[Len(h.trades) + 1] = tr /\ Len(h.trades) \in Nat
        /\ \A k \in 1..Len(h.trades) : more[k] = h.trades[k]
    BY <1>7, <2>4, <2>m
  <2>9. ASSUME NEW k \in 1..Len(more)
        PROVE  Proper(more[k])' /\ h.order \in {more[k].buy, more[k].sell}
    <3>1. CASE k = Len(h.trades) + 1
      BY <2>1, <2>6, <2>7, <2>8, <3>1
    <3>2. CASE k \in 1..Len(h.trades)
      <4>1. more[k] = h.trades[k] /\ Proper(h.trades[k]) /\ h.order \in {h.trades[k].buy, h.trades[k].sell}
        BY <1>3, <2>8, <3>2 DEF Well
      <4> QED BY <1>6, <4>1
    <3> QED BY <2>8, <3>1, <3>2
  <2>10. next.pc = "matching" /\ next.req = h.req /\ next.order = h.order /\ next.trades = more
         /\ next = [pc |-> next.pc, req |-> next.req, order |-> next.order, trades |-> next.trades]
    BY <1>7, <2>1, <2>2
  <2>11. WellTyped(next)'
    BY <1>5, <1>7, <2>8, <2>10 DEF WellTyped, PCs
  <2>12. h.order \in OrderIds'
    BY <1>5, <2>1
  <2> QED BY <2>8, <2>9, <2>10, <2>11, <2>12 DEF Well, Keeping
<1>16. ASSUME NEW pc \in {"returning", "settling", "shipping"}, next = [h EXCEPT !.pc = pc],
              h.pc \in {"matching", "returning", "settling"}, pc = "shipping" => h.trades # <<>>
       PROVE  Well(next)'
  <2>1. next.pc = pc /\ next.req = h.req /\ next.order = h.order /\ next.trades = h.trades
        /\ next = [pc |-> next.pc, req |-> next.req, order |-> next.order, trades |-> next.trades]
    BY <1>7, <1>16
  <2>2. WellTyped(next)'
    BY <1>5, <1>7, <2>1 DEF WellTyped, PCs
  <2> QED BY <1>3, <1>5, <1>6, <1>16, <2>1, <2>2 DEF Well, Keeping
<1>17. ASSUME h.pc = "shipping", next = [h EXCEPT !.pc = "settling", !.trades = Tail(@)]
       PROVE  Well(next)'
  <2>m. PICK rest : rest = Tail(h.trades)
    OBVIOUS
  <2>1. next.pc = "settling" /\ next.req = h.req /\ next.order = h.order /\ next.trades = rest
        /\ next = [pc |-> next.pc, req |-> next.req, order |-> next.order, trades |-> next.trades]
    BY <1>7, <1>17, <2>m
  <2>2. h.trades # <<>> /\ h.order \in OrderIds
    BY <1>3, <1>17 DEF Well
  <2>3. /\ rest \in Seq(TradeRecord) /\ Len(rest) = Len(h.trades) - 1
        /\ Len(h.trades) \in Nat
        /\ \A k \in 1..Len(rest) : rest[k] = h.trades[k + 1]
    BY <1>7, <2>2, <2>m
  <2>4. WellTyped(next)'
    BY <1>5, <1>7, <2>1, <2>3 DEF WellTyped, PCs
  <2>5. ASSUME NEW k \in 1..Len(rest)
        PROVE  Proper(rest[k])' /\ h.order \in {rest[k].buy, rest[k].sell}
    <3>1. k + 1 \in 1..Len(h.trades)
      BY <2>3
    <3>2. Proper(h.trades[k + 1]) /\ h.order \in {h.trades[k + 1].buy, h.trades[k + 1].sell}
      BY <1>3, <3>1 DEF Well
    <3> QED BY <1>6, <2>3, <3>2
  <2> QED BY <1>5, <2>1, <2>2, <2>4, <2>5 DEF Well, Keeping
<1> HIDE DEF Well
<1>18. HandlerStep(u) => \/ next = h \/ next = Idle
                         \/ \E b \in Body : next = [Idle EXCEPT !.pc = "validated", !.req = b]
                         \/ h.pc = "validated" /\ next = [h EXCEPT !.pc = "reserved"]
                         \/ next = [Idle EXCEPT !.pc = "matching", !.order = Len(orders) + 1]
                            /\ Len(orders') = Len(orders) + 1
                         \/ \E i \in OrderIds : next = [Idle EXCEPT !.pc = "refunding", !.order = i]
                         \/ \E i, r, p, n : Deal(u, i, r, p, n)
                         \/ /\ h.pc \in {"matching", "returning", "settling"}
                            /\ \E pc \in {"returning", "settling", "shipping"} :
                                 next = [h EXCEPT !.pc = pc] /\ (pc = "shipping" => h.trades # <<>>)
                         \/ h.pc = "shipping" /\ next = [h EXCEPT !.pc = "settling", !.trades = Tail(@)]
  BY <1>2, <1>h DEF HandlerStep
<1> QED BY <1>4, <1>8, <1>10, <1>11, <1>12, <1>13, <1>14, <1>15, <1>16, <1>17, <1>18

\* So all do.
LEMMA HandlersStep ==
  ASSUME Sound, [Next]_vars
  PROVE  /\ handler' \in [Threads -> [pc : PCs, req : Body \cup {NoRequest}, order : 0..Len(orders'),
                                      trades : Seq(TradeRecord)]]
         /\ HandlersSound' /\ TradesSound' /\ TradesWithinLimits'
<1>1. handler' = [u \in Threads |-> handler'[u]]
  BY HandlerSteps
<1>2. DOMAIN handler' = Threads
  BY <1>1
<1>3. \A u \in Threads : Well(handler[u])'
  BY WellStep
<1>4. ((DOMAIN handler = Threads /\ handler = [u \in Threads |-> handler[u]]) =>
         ( /\ handler \in [Threads -> [pc : PCs, req : Body \cup {NoRequest}, order : 0..Len(orders),
                                       trades : Seq(TradeRecord)]]
           /\ HandlersSound /\ TradesSound /\ TradesWithinLimits
           <=> \A u \in Threads : Well(handler[u])))'
  BY HandlersWell, PTL
<1> QED BY <1>1, <1>2, <1>3, <1>4

-----------------------------------------------------------------------------
(* The accounts and the stations *)

\* What an order gives back is never negative.
LEMMA BackTypes ==
  ASSUME TypeOK, NEW i \in OrderIds
  PROVE  CreditBack(i) \in Nat /\ GoodsBack(i) \in Nat
<1>1. orders[i].price \in Prices \cup {NoPrice} /\ Remaining(orders[i]) \in Nat
  BY OrderTypes, OrderFields
<1>2. orders[i].price # NoPrice => orders[i].price \in Nat
  BY <1>1, MarketAssumption
<1>3. orders[i].price # NoPrice => orders[i].price * Remaining(orders[i]) \in Nat
  BY <1>1, <1>2
<1> QED BY <1>1, <1>3 DEF CreditBack, GoodsBack

\* The refunds of the orders of a deleted player.
LEMMA RefundTypes ==
  ASSUME TypeOK, NEW ids \in SUBSET OrderIds
  PROVE  /\ SumFunctionOnSet([i \in OrderIds |-> CreditBack(i)], ids) \in Nat
         /\ SumFunctionOnSet([i \in OrderIds |-> GoodsBack(i)], ids) \in Nat
<1>1. IsFiniteSet(ids)
  <2>1. IsFiniteSet(OrderIds)
    BY FS_Interval DEF OrderIds, TypeOK
  <2> QED BY <2>1, FS_Subset
<1>2. \A i \in OrderIds : CreditBack(i) \in Nat /\ GoodsBack(i) \in Nat
  BY BackTypes
<1> DEFINE creditBack == [i \in OrderIds |-> CreditBack(i)]
           goodsBack == [i \in OrderIds |-> GoodsBack(i)]
<1>3. \A i \in ids : creditBack[i] \in Nat /\ goodsBack[i] \in Nat
  BY <1>2
<1> HIDE DEF creditBack, goodsBack
<1>4. SumFunctionOnSet(creditBack, ids) \in Nat
  BY <1>1, <1>3, SumNatural
<1>5. SumFunctionOnSet(goodsBack, ids) \in Nat
  BY <1>1, <1>3, SumNatural
<1> QED BY <1>4, <1>5 DEF creditBack, goodsBack

\* What the admin's handler refers to.
LEMMA AdminTypes ==
  TypeOK =>
    /\ admin.pc \in {"cancel_orders", "remove"} => admin.station \in Stations /\ admin.refunds \in SUBSET OrderIds
    /\ admin.pc \in {"delete_orders", "refund_credits", "return_goods", "disown", "unregister"}
         => admin.player \in Players /\ admin.refunds \in SUBSET OrderIds
    /\ admin.pc \in {"idle", "cancel_orders", "remove", "delete_orders", "refund_credits",
                     "return_goods", "disown", "unregister"}
  BY DEF TypeOK, AdminRecord, AdminIdle

\* Player p has traded on a market buy, which reserves nothing.
BoughtAtMarket(p) ==
  \E i \in OrderIds : /\ orders[i].player = p /\ orders[i].filled > 0
                      /\ orders[i].side = "buy" /\ orders[i].type = "market"

\* What a settled trade brings, when it is not the bill of a market buy.
LEMMA SettledCredits ==
  ASSUME Sound, NEW t \in Threads, SettleCredits(t), NEW p \in Players
  PROVE  /\ credits'[p] \in Int
         /\ credits'[p] >= credits[p] \/ BoughtAtMarket(p)
<1> DEFINE i == handler[t].order
           tr == Head(handler[t].trades)
           o == orders[i]
           due == Due(i, tr, p)
<1>1. TypeOK /\ credits[p] \in Int
  BY DEF Sound, TypeOK
<1>2. Well(handler[t])
  BY <1>1, HandlersWell DEF Sound, TypeOK
<1>3. /\ tr \in TradeRecord /\ Proper(tr) /\ i \in {tr.buy, tr.sell}
  <2>1. handler[t].trades \in Seq(TradeRecord) /\ handler[t].trades # <<>>
    BY <1>2 DEF SettleCredits, Well, WellTyped
  <2>2. 1 \in 1..Len(handler[t].trades) /\ tr = handler[t].trades[1] /\ tr \in TradeRecord
    BY <2>1
  <2> HIDE DEF tr
  <2> QED BY <1>2, <2>2 DEF Well
<1>4. credits'[p] = IF p \in registered THEN credits[p] + due ELSE credits[p]
  BY <1>1 DEF SettleCredits, Credited, TypeOK
<1> HIDE DEF i, tr, due
<1>5. /\ tr.buy \in OrderIds /\ tr.sell \in OrderIds
      /\ tr.price \in Nat /\ tr.quantity \in Nat
  BY <1>3, MarketAssumption DEF Proper, TradeRecord
<1>6. tr.price * tr.quantity \in Nat
  BY <1>5
<1>7. o.side = "buy" => i = tr.buy
  BY <1>3 DEF Proper
<1>8. CASE p = orders[tr.buy].player /\ o.side = "buy"
  <2>1. i = tr.buy /\ o.type \in {"limit", "market"}
    BY <1>1, <1>5, <1>7, <1>8, OrderTypes, OrderFields
  <2>2. CASE o.type = "market"
    <3>1. BoughtAtMarket(p)
      BY <1>3, <1>5, <1>8, <2>1, <2>2 DEF BoughtAtMarket, Proper
    <3>2. due = (IF p = orders[tr.sell].player THEN tr.price * tr.quantity ELSE 0) - tr.price * tr.quantity
      BY <1>8, <2>2 DEF Due, due
    <3>3. due \in Int
      BY <1>6, <3>2
    <3> QED BY <1>1, <1>4, <3>1, <3>3
  <2>3. CASE o.type = "limit"
    <3>1. tr.price <= o.price /\ o.price \in Nat
      BY <1>1, <1>3, <1>5, <2>1, <2>3, MarketAssumption DEF Proper, Sound, OrdersSound
    <3>2. tr.price - o.price \in Int /\ tr.price - o.price <= 0
      BY <1>5, <3>1
    <3>3. (tr.price - o.price) * tr.quantity \in Int /\ (tr.price - o.price) * tr.quantity <= 0
      <4>1. \A x \in Int, y \in Nat : x <= 0 => x * y \in Int /\ x * y <= 0
        OBVIOUS
      <4> QED BY <1>5, <3>2, <4>1
    <3>4. due = (IF p = orders[tr.sell].player THEN tr.price * tr.quantity ELSE 0)
                - (tr.price - o.price) * tr.quantity
      BY <1>8, <2>3 DEF Due, due
    <3>5. due \in Nat
      <4> DEFINE cost == tr.price * tr.quantity
                 charge == (tr.price - o.price) * tr.quantity
      <4>1. cost \in Nat /\ charge \in Int /\ charge <= 0
        BY <1>6, <3>3
      <4>2. due = (IF p = orders[tr.sell].player THEN cost ELSE 0) - charge
        BY <3>4
      <4> HIDE DEF cost, charge, o
      <4> QED BY <4>1, <4>2
    <3> HIDE DEF o
    <3> QED BY <1>1, <1>4, <3>5
  <2> QED BY <2>1, <2>2, <2>3
<1>9. CASE ~(p = orders[tr.buy].player /\ o.side = "buy")
  <2>1. due = (IF p = orders[tr.sell].player THEN tr.price * tr.quantity ELSE 0) - 0
    BY <1>9 DEF Due, due
  <2>2. due \in Nat
    BY <1>6, <2>1
  <2> QED BY <1>1, <1>4, <2>2
<1> QED BY <1>8, <1>9

\* No step but the bill of a market buy takes an account below zero.
LEMMA CreditsStep ==
  ASSUME Sound, [Next]_vars
  PROVE  /\ credits' = [p \in Players |-> credits'[p]]
         /\ \A p \in Players : /\ credits'[p] \in Int
                               /\ credits'[p] >= credits[p] \/ credits'[p] >= 0 \/ BoughtAtMarket(p)
<1>1. TypeOK /\ HandlersSound /\ credits \in [Players -> Int]
  BY DEF Sound, TypeOK
<1> DEFINE Kept == /\ credits' = [p \in Players |-> credits'[p]]
                   /\ \A p \in Players : /\ credits'[p] \in Int
                                         /\ \/ credits'[p] >= credits[p] \/ credits'[p] >= 0
                                            \/ BoughtAtMarket(p)
<1>2. ASSUME UNCHANGED credits PROVE Kept
  BY <1>1, <1>2
<1>3. ASSUME NEW q \in Players, NEW m, m \in Int,
             credits' = [credits EXCEPT ![q] = m],
             m >= credits[q] \/ m >= 0
      PROVE  Kept
  <2>1. credits' = [p \in Players |-> credits'[p]]
    BY <1>1, <1>3
  <2>2. \A p \in Players : credits'[p] = IF p = q THEN m ELSE credits[p]
    BY <1>1, <1>3
  <2>3. \A p \in Players : credits[p] \in Int
    BY <1>1
  <2> QED BY <1>3, <2>1, <2>2, <2>3
<1>4. ASSUME NEW q \in Players, NEW n, n \in Nat, credits' = Credited(q, n) PROVE Kept
  <2>1. PICK m : m = IF q \in registered THEN credits[q] + n ELSE credits[q]
    OBVIOUS
  <2>2. credits' = [credits EXCEPT ![q] = m]
    BY <1>4, <2>1 DEF Credited
  <2>3. credits[q] \in Int
    BY <1>1
  <2>4. m \in Int /\ m >= credits[q]
    BY <1>4, <2>1, <2>3
  <2> HIDE DEF Kept
  <2> QED BY <1>3, <2>2, <2>4
<1>5. ASSUME NEW t \in Threads, Reserve(t) PROVE Kept
  <2> DEFINE b == handler[t].req
  <2>1. b \in Body
    BY <1>1, <1>5 DEF HandlersSound, Reserve, At
  <2>2. b.player \in Players /\ b.quantity \in Nat /\ (b.type = "limit" => b.price \in Nat)
    BY <2>1, MarketAssumption DEF Body
  <2>3. CASE b.side = "buy" /\ b.type = "limit"
    <3>1. credits' = [credits EXCEPT ![b.player] = credits[b.player] - b.price * b.quantity]
          /\ credits[b.player] >= b.price * b.quantity
      BY <1>5, <2>3 DEF Reserve, Covered
    <3>2. b.price * b.quantity \in Nat /\ credits[b.player] \in Int
      BY <1>1, <2>2, <2>3
    <3> DEFINE m == credits[b.player] - b.price * b.quantity
    <3>3. m \in Int /\ m >= 0
      BY <3>1, <3>2
    <3>4. credits' = [credits EXCEPT ![b.player] = m]
      BY <3>1
    <3> HIDE DEF m, b, Kept
    <3> QED BY <1>3, <2>2, <3>3, <3>4
  <2>4. CASE ~(b.side = "buy" /\ b.type = "limit")
    <3>1. UNCHANGED credits
      BY <1>5, <2>4 DEF Reserve
    <3> QED BY <1>2, <3>1
  <2> QED BY <2>3, <2>4
<1>6. ASSUME NEW t \in Threads, SettleCredits(t) PROVE Kept
  <2>1. credits' = [p \in Players |-> credits'[p]]
    BY <1>6 DEF SettleCredits
  <2>2. \A p \in Players : credits'[p] \in Int /\ (credits'[p] >= credits[p] \/ BoughtAtMarket(p))
    BY <1>6, SettledCredits
  <2> QED BY <2>1, <2>2
<1>7. ASSUME NEW i \in OrderIds, GiveBack(i) PROVE Kept
  <2>1. orders[i].player \in Players /\ CreditBack(i) \in Nat
    BY <1>1, BackTypes, OrderTypes, OrderFields
  <2>2. credits' = Credited(orders[i].player, CreditBack(i))
    BY <1>7 DEF GiveBack
  <2> HIDE DEF Kept
  <2> QED BY <1>4, <2>1, <2>2
<1>8. ASSUME NEW t \in Threads, Refund(t) PROVE Kept
  <2>1. handler[t].order \in OrderIds /\ GiveBack(handler[t].order)
    BY <1>1, <1>8 DEF HandlersSound, Refund, At
  <2> HIDE DEF Kept
  <2> QED BY <1>7, <2>1
<1>9. ASSUME RefundOrder PROVE Kept
  <2>1. PICK i \in admin.refunds : GiveBack(i)
    BY <1>9 DEF RefundOrder
  <2>2. i \in OrderIds
    BY <1>1, <1>9, AdminTypes DEF RefundOrder, AdminAt
  <2> HIDE DEF Kept
  <2> QED BY <1>7, <2>1, <2>2
<1>10. ASSUME RefundCredits PROVE Kept
  <2>1. admin.player \in Players /\ admin.refunds \in SUBSET OrderIds
    BY <1>1, <1>10, AdminTypes DEF RefundCredits, AdminAt
  <2>2. SumFunctionOnSet([i \in OrderIds |-> CreditBack(i)], admin.refunds) \in Nat
    BY <1>1, <2>1, RefundTypes
  <2>3. credits' = Credited(admin.player, SumFunctionOnSet([i \in OrderIds |-> CreditBack(i)], admin.refunds))
    BY <1>10 DEF RefundCredits
  <2> HIDE DEF Kept
  <2> QED BY <1>4, <2>1, <2>2, <2>3
<1>11. ASSUME Unregister PROVE Kept
  <2>1. admin.player \in Players
    BY <1>1, <1>11, AdminTypes DEF Unregister, AdminAt
  <2>2. credits' = [credits EXCEPT ![admin.player] = 0] /\ 0 \in Int /\ 0 >= 0
    BY <1>11 DEF Unregister
  <2> HIDE DEF Kept
  <2> QED BY <1>3, <2>1, <2>2
<1>12. ASSUME NEW t \in Threads,
              \/ \E b \in Body : Validate(t, b)
              \/ \E i \in OrderIds : Cancel(t, i)
              \/ Refuse(t) \/ Insert(t) \/ MatchBuy(t) \/ MatchSell(t) \/ Rest(t)
              \/ ReturnUnfilled(t) \/ SpawnShip(t) \/ Respond(t)
       PROVE  Kept
  <2>1. UNCHANGED credits
    BY <1>12 DEF Validate, Cancel, Refuse, Insert, MatchBuy, MatchSell, Trade, Rest, ReturnUnfilled,
                 SpawnShip, Respond, accounts
  <2> QED BY <1>2, <2>1
<1>13. ASSUME \/ \E s \in Stations : CheckStation(s)
              \/ CancelOrdersAt \/ RemoveStation
              \/ \E p \in Players : DeleteShips(p)
              \/ DeleteOrders \/ ReturnGoods \/ Disown \/ Restart \/ Quiet \/ UNCHANGED vars
       PROVE  Kept
  <2>1. UNCHANGED credits
    BY <1>13 DEF CheckStation, CancelOrdersAt, RemoveStation, DeleteShips, DeleteOrders, ReturnGoods,
                 Disown, Restart, Quiet, vars, accounts
  <2> QED BY <1>2, <2>1
<1> HIDE DEF Kept
<1>14. Kept
  BY <1>5, <1>6, <1>8, <1>9, <1>10, <1>11, <1>12, <1>13 DEF Next, Step, Administer
<1> QED BY <1>14 DEF Kept

\* Stations never hold less than nothing, and ships never carry it.
LEMMA StationsStep ==
  ASSUME Sound, [Next]_vars
  PROVE  stock' \in [Stations -> Nat] /\ aboard' \in [Stations -> [Stations -> Nat]]
<1>1. /\ TypeOK /\ HandlersSound
      /\ stock \in [Stations -> Nat] /\ aboard \in [Stations -> [Stations -> Nat]]
  BY DEF Sound, TypeOK
<1>2. ASSUME NEW s \in Stations, NEW n \in Int, stock' = Stocked(s, n),
             Exists(s) => stock[s] + n >= 0
      PROVE  stock' \in [Stations -> Nat]
  <2>1. stock' = [stock EXCEPT ![s] = IF Exists(s) THEN stock[s] + n ELSE stock[s]]
    BY <1>2 DEF Stocked
  <2>2. (IF Exists(s) THEN stock[s] + n ELSE stock[s]) \in Nat
    BY <1>1, <1>2
  <2> QED BY <1>1, <2>1, <2>2
<1>3. ASSUME NEW s \in Stations, NEW n \in Nat, stock' = Stocked(s, n)
      PROVE  stock' \in [Stations -> Nat]
  <2>1. stock[s] \in Nat
    BY <1>1
  <2>2. n \in Int /\ stock[s] + n >= 0
    BY <2>1
  <2> QED BY <1>2, <1>3, <2>2
<1>4. ASSUME NEW t \in Threads, Reserve(t) PROVE stock' \in [Stations -> Nat]
  <2> DEFINE b == handler[t].req
  <2>1. b \in Body
    BY <1>1, <1>4 DEF HandlersSound, Reserve, At
  <2>2. b.station \in Stations /\ b.quantity \in Nat
    BY <2>1, MarketAssumption DEF Body
  <2>3. CASE b.side = "sell"
    <3>1. stock' = Stocked(b.station, -b.quantity)
      BY <1>4, <2>3 DEF Reserve
    <3>2. Exists(b.station) => stock[b.station] >= b.quantity
      BY <1>4, <2>3 DEF Reserve, Covered
    <3>3. Exists(b.station) => stock[b.station] + (-b.quantity) >= 0
      BY <1>1, <2>2, <3>2
    <3> HIDE DEF b
    <3>4. -b.quantity \in Int
      BY <2>2
    <3> QED BY <1>2, <2>2, <3>1, <3>3, <3>4
  <2>4. CASE b.side # "sell"
    BY <1>1, <1>4, <2>4 DEF Reserve
  <2> QED BY <2>3, <2>4
<1>5. ASSUME NEW t \in Threads, ReturnUnfilled(t) PROVE stock' \in [Stations -> Nat]
  <2>1. handler[t].order \in OrderIds
    BY <1>1, <1>5 DEF HandlersSound, ReturnUnfilled, At
  <2>2. orders[handler[t].order].station \in Stations /\ Remaining(orders[handler[t].order]) \in Nat
    BY <1>1, <2>1, OrderTypes, OrderFields
  <2>3. stock' = Stocked(orders[handler[t].order].station, Remaining(orders[handler[t].order]))
    BY <1>5 DEF ReturnUnfilled
  <2> QED BY <1>3, <2>2, <2>3
<1>6. ASSUME NEW t \in Threads, SpawnShip(t)
      PROVE  stock' \in [Stations -> Nat] /\ aboard' \in [Stations -> [Stations -> Nat]]
  <2> DEFINE tr == Head(handler[t].trades)
             from == orders[tr.sell].station
             to == orders[tr.buy].station
  <2>1. tr \in TradeRecord /\ Proper(tr)
    <3>1. Well(handler[t])
      BY <1>1, HandlersWell DEF Sound, TypeOK
    <3>2. handler[t].trades \in Seq(TradeRecord) /\ handler[t].trades # <<>>
      BY <1>6, <3>1 DEF SpawnShip, At, Well, WellTyped
    <3>3. 1 \in 1..Len(handler[t].trades) /\ tr = handler[t].trades[1] /\ tr \in TradeRecord
      BY <3>2
    <3> HIDE DEF tr
    <3> QED BY <3>1, <3>3 DEF Well
  <2>2. tr.quantity \in Nat /\ tr.buy \in OrderIds /\ tr.sell \in OrderIds
    BY <2>1 DEF TradeRecord, Proper
  <2>3. from \in Stations /\ to \in Stations
    BY <1>1, <2>2, OrderTypes, OrderFields
  <2>4. CASE from = to
    <3>1. stock' = Stocked(to, tr.quantity) /\ aboard' = aboard
      BY <1>6, <2>4 DEF SpawnShip
    <3> HIDE DEF tr, from, to
    <3> QED BY <1>1, <1>3, <2>2, <2>3, <3>1
  <2>5. CASE from # to
    <3>1. stock' = stock /\ aboard' = [aboard EXCEPT ![from][to] = @ + tr.quantity]
      BY <1>6, <2>5 DEF SpawnShip
    <3> HIDE DEF tr, from, to
    <3>2. aboard[from][to] + tr.quantity \in Nat
      BY <1>1, <2>2, <2>3
    <3> QED BY <1>1, <2>2, <2>3, <3>1, <3>2
  <2> QED BY <2>4, <2>5
<1>7. ASSUME NEW i \in OrderIds, GiveBack(i) PROVE stock' \in [Stations -> Nat]
  <2>1. orders[i].station \in Stations /\ GoodsBack(i) \in Nat
    BY <1>1, BackTypes, OrderTypes, OrderFields
  <2>2. stock' = Stocked(orders[i].station, GoodsBack(i))
    BY <1>7 DEF GiveBack
  <2> QED BY <1>3, <2>1, <2>2
<1>8. ASSUME NEW t \in Threads, Refund(t) PROVE stock' \in [Stations -> Nat]
  <2>1. handler[t].order \in OrderIds /\ GiveBack(handler[t].order)
    BY <1>1, <1>8 DEF HandlersSound, Refund, At
  <2> QED BY <1>7, <2>1
<1>9. CASE RefundOrder
  <2>1. PICK i \in admin.refunds : GiveBack(i)
    BY <1>9 DEF RefundOrder
  <2>2. i \in OrderIds
    BY <1>1, <1>9, AdminTypes DEF RefundOrder, AdminAt
  <2>3. stock' \in [Stations -> Nat]
    BY <1>7, <2>1, <2>2
  <2>4. aboard' = aboard
    BY <1>9 DEF RefundOrder
  <2> QED BY <1>1, <2>3, <2>4
<1>10. CASE ReturnGoods
  <2> DEFINE back(s) == SumFunctionOnSet([i \in OrderIds |-> GoodsBack(i)], admin.refunds \cap PlacedAt(s))
  <2>1. admin.refunds \in SUBSET OrderIds
    BY <1>1, <1>10, AdminTypes DEF ReturnGoods, AdminAt
  <2>2. ASSUME NEW s \in Stations PROVE Stocked(s, back(s))[s] \in Nat
    <3>1. admin.refunds \cap PlacedAt(s) \in SUBSET OrderIds
      BY <2>1
    <3>2. back(s) \in Nat
      BY <1>1, <3>1, RefundTypes
    <3> HIDE DEF back
    <3>3. Stocked(s, back(s))[s] = IF Exists(s) THEN stock[s] + back(s) ELSE stock[s]
      BY <1>1 DEF Stocked
    <3>4. stock[s] \in Nat
      BY <1>1
    <3> QED BY <3>2, <3>3, <3>4
  <2>3. stock' = [s \in Stations |-> Stocked(s, back(s))[s]] /\ aboard' = aboard
    BY <1>10 DEF ReturnGoods
  <2> HIDE DEF back
  <2> QED BY <1>1, <2>2, <2>3
<1>11. CASE RemoveStation
  <2>1. stock' = [stock EXCEPT ![admin.station] = 0] /\ aboard' = aboard
    BY <1>11 DEF RemoveStation
  <2> QED BY <1>1, <2>1
<1>12. ASSUME NEW p \in Players, DeleteShips(p)
       PROVE  stock' \in [Stations -> Nat] /\ aboard' \in [Stations -> [Stations -> Nat]]
  BY <1>1, <1>12 DEF DeleteShips
<1>13. ASSUME NEW t \in Threads,
              \/ \E b \in Body : Validate(t, b)
              \/ \E i \in OrderIds : Cancel(t, i)
              \/ Refuse(t) \/ Insert(t) \/ MatchBuy(t) \/ MatchSell(t) \/ Rest(t)
              \/ SettleCredits(t) \/ Respond(t)
       PROVE  UNCHANGED <<stock, aboard>>
  BY <1>13 DEF Validate, Cancel, Refuse, Insert, MatchBuy, MatchSell, Trade, Rest, SettleCredits,
               Respond, stations
<1>14. ASSUME \/ \E s \in Stations : CheckStation(s)
              \/ CancelOrdersAt \/ DeleteOrders \/ RefundCredits \/ Disown \/ Unregister
              \/ Restart \/ Quiet \/ UNCHANGED vars
       PROVE  UNCHANGED <<stock, aboard>>
  BY <1>14 DEF CheckStation, CancelOrdersAt, DeleteOrders, RefundCredits, Disown, Unregister,
               Restart, Quiet, vars, stations
<1>15. ASSUME NEW t \in Threads, Reserve(t) \/ ReturnUnfilled(t) \/ Refund(t) PROVE UNCHANGED aboard
  BY <1>15 DEF Reserve, ReturnUnfilled, Refund
<1> QED BY <1>1, <1>4, <1>5, <1>6, <1>8, <1>9, <1>10, <1>11, <1>12, <1>13, <1>14, <1>15
        DEF Next, Step, Administer

\* The admin's deletion keeps its type.
LEMMA AdminStep ==
  ASSUME Sound, [Next]_vars
  PROVE  admin' \in AdminRecord'
<1>1. TypeOK /\ admin \in AdminRecord
  BY DEF Sound, TypeOK
<1>2. OrderIds \subseteq OrderIds'
  BY <1>1, OrdersKept DEF OrderIds, TypeOK
<1>3. CASE UNCHANGED admin
  BY <1>1, <1>2, <1>3 DEF AdminRecord
<1>4. CASE admin' = AdminIdle
  BY <1>4 DEF AdminRecord
<1>5. ASSUME NEW pc \in {"cancel_orders", "remove"}, NEW s \in Stations, NEW ids \in SUBSET OrderIds,
             admin' = [pc |-> pc, station |-> s, refunds |-> ids]
      PROVE  admin' \in AdminRecord'
  BY <1>2, <1>5 DEF AdminRecord
<1>6. ASSUME NEW pc \in {"delete_orders", "refund_credits", "return_goods", "disown", "unregister"},
             NEW p \in Players, NEW ids \in SUBSET OrderIds,
             admin' = [pc |-> pc, player |-> p, refunds |-> ids]
      PROVE  admin' \in AdminRecord'
  BY <1>2, <1>6 DEF AdminRecord
<1>7. admin.pc \in {"cancel_orders", "remove"} =>
        /\ admin.station \in Stations /\ admin.refunds \in SUBSET OrderIds
        /\ admin = [pc |-> admin.pc, station |-> admin.station, refunds |-> admin.refunds]
  BY <1>1 DEF AdminRecord, AdminIdle
<1>8. admin.pc \in {"delete_orders", "refund_credits", "return_goods", "disown", "unregister"} =>
        /\ admin.player \in Players /\ admin.refunds \in SUBSET OrderIds
        /\ admin = [pc |-> admin.pc, player |-> admin.player, refunds |-> admin.refunds]
  BY <1>1 DEF AdminRecord, AdminIdle
<1>9. ASSUME NEW s \in Stations, CheckStation(s) PROVE admin' \in AdminRecord'
  <2>1. admin' = [pc |-> "cancel_orders", station |-> s, refunds |-> {}]
    BY <1>9 DEF CheckStation
  <2> QED BY <1>5, <2>1
<1>10. CASE CancelOrdersAt
  <2> DEFINE ids == {i \in OrderIds : orders[i].station = admin.station /\ Cancellable(orders[i])}
  <2>1. admin' = [admin EXCEPT !.pc = "remove", !.refunds = ids] /\ admin.pc = "cancel_orders"
    BY <1>10 DEF CancelOrdersAt, AdminAt
  <2>2. ids \in SUBSET OrderIds
    OBVIOUS
  <2> HIDE DEF ids
  <2>3. admin' = [pc |-> "remove", station |-> admin.station, refunds |-> ids]
    BY <1>7, <2>1
  <2> QED BY <1>5, <1>7, <2>1, <2>2, <2>3
<1>11. CASE RefundOrder
  <2>1. PICK i \in admin.refunds : admin' = [admin EXCEPT !.refunds = @ \ {i}]
    BY <1>11 DEF RefundOrder
  <2>2. admin.pc = "remove"
    BY <1>11 DEF RefundOrder, AdminAt
  <2>3. admin' = [pc |-> "remove", station |-> admin.station, refunds |-> admin.refunds \ {i}]
    BY <1>7, <2>1, <2>2
  <2>4. admin.refunds \ {i} \in SUBSET OrderIds
    BY <1>7, <2>2
  <2> QED BY <1>5, <1>7, <2>2, <2>3, <2>4
<1>12. ASSUME NEW p \in Players, DeleteShips(p) PROVE admin' \in AdminRecord'
  <2>1. admin' = [pc |-> "delete_orders", player |-> p, refunds |-> {}]
    BY <1>12 DEF DeleteShips
  <2> QED BY <1>6, <2>1
<1>13. CASE DeleteOrders
  <2> DEFINE ids == {i \in OrderIds : orders[i].player = admin.player /\ Cancellable(orders[i])}
  <2>1. admin' = [admin EXCEPT !.pc = "refund_credits", !.refunds = ids] /\ admin.pc = "delete_orders"
    BY <1>13 DEF DeleteOrders, AdminAt
  <2>2. ids \in SUBSET OrderIds
    OBVIOUS
  <2> HIDE DEF ids
  <2>3. admin' = [pc |-> "refund_credits", player |-> admin.player, refunds |-> ids]
    BY <1>8, <2>1
  <2> QED BY <1>6, <1>8, <2>1, <2>2, <2>3
<1>14. CASE RefundCredits
  <2> DEFINE ids == {i \in admin.refunds : orders[i].side = "sell"}
  <2>1. admin' = [admin EXCEPT !.pc = "return_goods", !.refunds = ids] /\ admin.pc = "refund_credits"
    BY <1>14 DEF RefundCredits, AdminAt
  <2>2. ids \in SUBSET OrderIds
    BY <1>8, <2>1
  <2> HIDE DEF ids
  <2>3. admin' = [pc |-> "return_goods", player |-> admin.player, refunds |-> ids]
    BY <1>8, <2>1
  <2> QED BY <1>6, <1>8, <2>1, <2>2, <2>3
<1>15. CASE ReturnGoods
  <2>1. admin' = [admin EXCEPT !.pc = "disown", !.refunds = {}] /\ admin.pc = "return_goods"
    BY <1>15 DEF ReturnGoods, AdminAt
  <2>2. admin' = [pc |-> "disown", player |-> admin.player, refunds |-> {}]
    BY <1>8, <2>1
  <2> QED BY <1>6, <1>8, <2>1, <2>2
<1>16. CASE Disown
  <2>1. admin' = [admin EXCEPT !.pc = "unregister"] /\ admin.pc = "disown"
    BY <1>16 DEF Disown, AdminAt
  <2>2. admin' = [pc |-> "unregister", player |-> admin.player, refunds |-> admin.refunds]
    BY <1>8, <2>1
  <2> QED BY <1>6, <1>8, <2>1, <2>2
<1>17. CASE RemoveStation \/ Unregister \/ Restart
  BY <1>4, <1>17 DEF RemoveStation, Unregister, Restart
<1>18. CASE Quiet \/ UNCHANGED vars
  BY <1>3, <1>18 DEF Quiet, vars, server
<1>19. ASSUME NEW t \in Threads,
              \/ \E b \in Body : Validate(t, b)
              \/ \E i \in OrderIds : Cancel(t, i)
              \/ Step(t)
       PROVE  UNCHANGED admin
  BY <1>19 DEF Validate, Cancel, Step, Reserve, Refuse, Insert, MatchBuy, MatchSell, Trade, Rest,
               ReturnUnfilled, SettleCredits, SpawnShip, Respond, Refund
<1> QED BY <1>3, <1>9, <1>10, <1>11, <1>12, <1>13, <1>14, <1>15, <1>16, <1>17, <1>18, <1>19
        DEF Next, Administer

\* The book holds queues of orders, and no order trades more than it is for.
LEMMA BookTypeStep ==
  ASSUME Sound, [Next]_vars
  PROVE  /\ book' \in [Sides -> [Prices -> Seq(OrderIds')]]
         /\ \A i \in OrderIds' : orders'[i].filled <= orders'[i].quantity
         /\ lastPrice' \in Prices \cup {NoPrice}
         /\ marketLock' \in Threads \cup {NoThread, "admin"}
         /\ restarts' \in 0..MaxRestarts
<1>1. /\ TypeOK /\ Len(orders) \in Nat
      /\ book \in [Sides -> [Prices -> Seq(OrderIds)]]
      /\ \A i \in OrderIds : orders[i].filled <= orders[i].quantity
      /\ lastPrice \in Prices \cup {NoPrice}
      /\ marketLock \in Threads \cup {NoThread, "admin"}
      /\ restarts \in 0..MaxRestarts
  BY DEF Sound, TypeOK
<1>2. ASSUME NEW t \in Threads, Insert(t)
      PROVE  /\ book' \in [Sides -> [Prices -> Seq(OrderIds')]]
             /\ \A i \in OrderIds' : orders'[i].filled <= orders'[i].quantity
             /\ lastPrice' \in Prices \cup {NoPrice}
             /\ marketLock' \in Threads \cup {NoThread, "admin"}
             /\ restarts' \in 0..MaxRestarts
  <2> DEFINE new == Len(orders) + 1
  <2>1. /\ orders' \in Seq(OrderRecord) /\ Len(orders') = new
        /\ \A j \in OrderIds : j \in 1..new /\ orders'[j] = orders[j]
        /\ \A j \in 1..new : j = new \/ j \in OrderIds
        /\ orders'[new].filled = 0
    BY <1>2, InsertedOrder
  <2>2. new \in 1..Len(orders')
    BY <1>1, <2>1
  <2> HIDE DEF new
  <2>3. orders'[new].quantity \in Nat
    BY <2>1, <2>2, ElementOfSeq, OrderFields
  <2>4. \A i \in OrderIds' : orders'[i].filled <= orders'[i].quantity
    BY <1>1, <2>1, <2>3 DEF OrderIds
  <2>5. OrderIds \subseteq OrderIds'
    BY <2>1 DEF OrderIds
  <2>6. Seq(OrderIds) \subseteq Seq(OrderIds')
    <3>1. \A ids \in Seq(OrderIds) : ids \in Seq(OrderIds')
      BY <2>5, SeqMonotonic
    <3> QED BY <3>1
  <2>7. book' \in [Sides -> [Prices -> Seq(OrderIds')]]
    BY <1>1, <1>2, <2>6 DEF Insert
  <2> QED BY <1>1, <1>2, <2>4, <2>7 DEF Insert
<1>3. ASSUME NEW t \in Threads, NEW i, NEW r, NEW p, NEW n, Deal(t, i, r, p, n)
      PROVE  /\ book' \in [Sides -> [Prices -> Seq(OrderIds')]]
             /\ \A j \in OrderIds' : orders'[j].filled <= orders'[j].quantity
             /\ lastPrice' \in Prices \cup {NoPrice}
             /\ marketLock' \in Threads \cup {NoThread, "admin"}
             /\ restarts' \in 0..MaxRestarts
  <2>1. /\ OrderIds' = OrderIds
        /\ orders'[i] = Fill(orders[i], n) /\ orders'[r] = Fill(orders[r], n)
        /\ \A j \in OrderIds \ {i, r} : orders'[j] = orders[j]
    BY <1>1, <1>3, DealOrders DEF OrderIds
  <2>2. ASSUME NEW j \in {i, r} PROVE orders'[j].filled <= orders'[j].quantity
    <3>1. j \in OrderIds /\ n \in Nat \ {0} /\ n <= Remaining(orders[j])
      BY <1>3 DEF Deal
    <3>2. orders[j] \in OrderRecord
      BY <1>1, <3>1, OrderTypes
    <3>3. Fill(orders[j], n).filled <= orders[j].quantity /\ SameOrder(Fill(orders[j], n), orders[j])
      BY <3>1, <3>2, FilledOrder
    <3> QED BY <2>1, <3>3 DEF SameOrder
  <2>3. \A s \in Sides, q \in Prices : book'[s][q] \in Seq(OrderIds)
    BY <1>3, DealBook
  <2>4. book' \in [Sides -> [Prices -> Seq(OrderIds)]]
    <3>1. book' = [book EXCEPT ![orders[r].side] = book'[orders[r].side]]
          /\ DOMAIN book' = Sides
          /\ \A s \in Sides : DOMAIN book'[s] = Prices /\ book'[s] = [q \in Prices |-> book'[s][q]]
      <4> DEFINE queue == IF Remaining(orders[r]) = n THEN Tail(book[orders[r].side][p])
                                                      ELSE book[orders[r].side][p]
      <4>1. book' = [book EXCEPT ![orders[r].side][p] = queue]
        BY <1>3 DEF Deal
      <4>2. orders[r].side \in Sides /\ p \in Prices
        BY <1>1, <1>3, OrderTypes, OrderFields DEF Deal
      <4> HIDE DEF queue
      <4> QED BY <1>1, <4>1, <4>2
    <3>2. \A s \in Sides : book'[s] \in [Prices -> Seq(OrderIds)]
      BY <2>3, <3>1
    <3>3. book' = [s \in Sides |-> book'[s]]
      BY <1>1, <3>1
    <3> QED BY <3>2, <3>3
  <2>5. lastPrice' = p /\ p \in Prices /\ UNCHANGED <<marketLock, restarts>>
    BY <1>3 DEF Deal
  <2> QED BY <1>1, <2>1, <2>2, <2>4, <2>5
<1>4. ASSUME NEW t \in Threads, Rest(t)
      PROVE  /\ book' \in [Sides -> [Prices -> Seq(OrderIds')]]
             /\ \A i \in OrderIds' : orders'[i].filled <= orders'[i].quantity
             /\ lastPrice' \in Prices \cup {NoPrice}
             /\ marketLock' \in Threads \cup {NoThread, "admin"}
             /\ restarts' \in 0..MaxRestarts
  <2> DEFINE i == handler[t].order
  <2>1. /\ OrderIds' = OrderIds /\ i \in OrderIds
        /\ \A j \in OrderIds \ {i} : orders'[j] = orders[j]
        /\ SameOrder(orders'[i], orders[i]) /\ orders'[i].filled = orders[i].filled
    BY <1>4, RestOrders DEF OrderIds
  <2>2. UNCHANGED book
        \/ /\ orders[i].type = "limit"
           /\ book' = [book EXCEPT ![orders[i].side][orders[i].price] = Append(@, i)]
    BY <1>4 DEF Rest
  <2>3. orders[i].side \in Sides /\ (orders[i].type = "limit" => orders[i].price \in Prices)
    BY <1>1, <2>1, OrderTypes, OrderFields DEF Sound, OrdersSound
  <2>4. UNCHANGED <<lastPrice, restarts>> /\ marketLock' = NoThread
    BY <1>4 DEF Rest, LeaveMarket
  <2> HIDE DEF i
  <2>5. \A q \in Seq(OrderIds) : Append(q, i) \in Seq(OrderIds)
    BY <2>1
  <2>6. book' \in [Sides -> [Prices -> Seq(OrderIds)]]
    <3>1. CASE UNCHANGED book
      BY <1>1, <3>1
    <3>2. CASE /\ orders[i].type = "limit"
               /\ book' = [book EXCEPT ![orders[i].side][orders[i].price] = Append(@, i)]
      <4>1. PICK s \in Sides, p \in Prices : s = orders[i].side /\ p = orders[i].price
        BY <2>3, <3>2
      <4>2. PICK q : q = Append(book[s][p], i) /\ q \in Seq(OrderIds)
        <5>1. book[s][p] \in Seq(OrderIds)
          BY <1>1
        <5> QED BY <2>5, <5>1
      <4>3. book' = [book EXCEPT ![s][p] = q]
        BY <3>2, <4>1, <4>2
      <4> QED BY <1>1, <4>2, <4>3
    <3> QED BY <2>2, <3>1, <3>2
  <2> QED BY <1>1, <2>1, <2>4, <2>6 DEF SameOrder
<1>5. ASSUME NEW ids, CancelStep(ids)
      PROVE  /\ book' \in [Sides -> [Prices -> Seq(OrderIds')]]
             /\ \A i \in OrderIds' : orders'[i].filled <= orders'[i].quantity
             /\ lastPrice' \in Prices \cup {NoPrice}
             /\ marketLock' \in Threads \cup {NoThread, "admin"}
             /\ restarts' \in 0..MaxRestarts
  <2>1. /\ ids \in SUBSET OrderIds /\ (\A i \in ids : Cancellable(orders[i])) /\ CancelOrders(ids)
        /\ UNCHANGED <<lastPrice, restarts>> /\ marketLock' \in {NoThread, "admin"}
    BY <1>5 DEF CancelStep
  <2>2. /\ OrderIds' = OrderIds
        /\ \A j \in OrderIds \ ids : orders'[j] = orders[j]
        /\ \A j \in ids : SameOrder(orders'[j], orders[j]) /\ orders'[j].filled = orders[j].filled
    BY <1>1, <2>1, CancelledOrders DEF OrderIds
  <2>3. \A s \in Sides, p \in Prices : book'[s][p] \in Seq(OrderIds)
    BY <1>1, <2>1, CancelledBook
  <2>4. book' = [s \in Sides |-> [p \in Prices |-> book'[s][p]]]
    BY <2>1 DEF CancelOrders, Without
  <2>5. book' \in [Sides -> [Prices -> Seq(OrderIds)]]
    BY <2>3, <2>4
  <2> QED BY <1>1, <2>1, <2>2, <2>5 DEF SameOrder
<1>6. CASE Restart
  <2>1. PICK visited \in Bijection(OrderIds, OrderIds) : book' = Rebuilt(visited)
    BY <1>6 DEF Restart
  <2>2. visited \in Seq(OrderIds)
    <3>1. visited \in [1..Len(orders) -> 1..Len(orders)]
      BY <2>1 DEF Bijection, Injection, OrderIds
    <3>2. visited = [k \in 1..Len(orders) |-> visited[k]]
          /\ \A k \in 1..Len(orders) : visited[k] \in 1..Len(orders)
      BY <3>1
    <3> QED BY <1>1, <3>2 DEF OrderIds
  <2>3. \A ids : Retained(visited, ids) \in Seq(OrderIds)
    BY <2>2, RetainedQueue
  <2>4. book' \in [Sides -> [Prices -> Seq(OrderIds)]]
    BY <2>1, <2>3 DEF Rebuilt
  <2>5. UNCHANGED <<orders, lastPrice, marketLock>> /\ restarts' = restarts + 1 /\ restarts < MaxRestarts
        /\ OrderIds' = OrderIds
    BY <1>6 DEF Restart, OrderIds
  <2>6. restarts' \in 0..MaxRestarts
    BY <1>1, <2>5, MarketAssumption
  <2> QED BY <1>1, <2>4, <2>5, <2>6
<1>7. CASE ReturnGoods \/ Aside
  <2>1. UNCHANGED <<orders, book, lastPrice, restarts>> /\ OrderIds' = OrderIds
        /\ marketLock' \in {marketLock, NoThread}
    BY <1>7 DEF ReturnGoods, LeaveMarket, Aside, market, OrderIds
  <2> QED BY <1>1, <2>1
<1> QED BY <1>2, <1>3, <1>4, <1>5, <1>6, <1>7, Steps

\* Every step keeps the types.
LEMMA TypeStep ==
  ASSUME Sound, [Next]_vars
  PROVE  TypeOK'
<1>1. TypeOK
  BY DEF Sound
<1>2. orders' \in Seq(OrderRecord)
  BY OrdersKept
<1>3. /\ book' \in [Sides -> [Prices -> Seq(OrderIds')]]
      /\ \A i \in OrderIds' : orders'[i].filled <= orders'[i].quantity
      /\ lastPrice' \in Prices \cup {NoPrice}
      /\ marketLock' \in Threads \cup {NoThread, "admin"}
      /\ restarts' \in 0..MaxRestarts
  BY BookTypeStep
<1>4. credits' \in [Players -> Int]
  BY CreditsStep
<1>5. registered' \subseteq Players
  BY <1>1, ZenonT(60) DEF TypeOK, Next, Validate, Cancel, Step, Reserve, Refuse, Insert, MatchBuy, MatchSell, Trade,
     Rest, ReturnUnfilled, SettleCredits, SpawnShip, Respond, Refund, Administer, CheckStation,
     CancelOrdersAt, RefundOrder, RemoveStation, DeleteShips, DeleteOrders, RefundCredits, ReturnGoods,
     Disown, Unregister, Restart, Quiet, vars, accounts
<1>6. owner' \in [Stations -> Players \cup {Nobody, NoStation}]
  <2>1. CASE UNCHANGED owner
    BY <1>1, <2>1 DEF TypeOK
  <2>2. CASE RemoveStation \/ Disown
    BY <1>1, <2>2 DEF TypeOK, RemoveStation, Disown
  <2> QED BY <2>1, <2>2, ZenonT(60) DEF Next, Validate, Cancel, Step, Reserve, Refuse, Insert, MatchBuy, MatchSell,
     Trade, Rest, ReturnUnfilled, SettleCredits, SpawnShip, Respond, Refund, Administer, CheckStation,
     CancelOrdersAt, RefundOrder, DeleteShips, DeleteOrders, RefundCredits, ReturnGoods,
     Unregister, Restart, Quiet, vars, stations
<1>7. stock' \in [Stations -> Nat] /\ aboard' \in [Stations -> [Stations -> Nat]]
  BY StationsStep
<1>8. handler' \in [Threads -> [pc : PCs, req : Body \cup {NoRequest}, order : 0..Len(orders'),
                                trades : Seq(TradeRecord)]]
  BY HandlersStep
<1>9. admin' \in AdminRecord'
  BY AdminStep
<1> QED BY <1>2, <1>3, <1>4, <1>5, <1>6, <1>7, <1>8, <1>9 DEF TypeOK

\* Only market buys overdraw.
LEMMA OverdraftStep ==
  ASSUME Sound, [Next]_vars
  PROVE  OverdraftOnlyByMarketBuys'
<1>1. TypeOK /\ \A p \in Players : credits[p] < 0 => BoughtAtMarket(p)
  BY DEF Sound, OverdraftOnlyByMarketBuys, BoughtAtMarket
<1>2. \A p \in Players : credits[p] \in Int
  BY <1>1 DEF TypeOK
<1>3. \A p \in Players : /\ credits'[p] \in Int
                         /\ credits'[p] >= credits[p] \/ credits'[p] >= 0 \/ BoughtAtMarket(p)
  BY CreditsStep
<1>4. ASSUME NEW p \in Players, BoughtAtMarket(p) PROVE BoughtAtMarket(p)'
  <2>1. PICK i \in OrderIds : /\ orders[i].player = p /\ orders[i].filled > 0
                              /\ orders[i].side = "buy" /\ orders[i].type = "market"
    BY <1>4 DEF BoughtAtMarket
  <2>2. /\ i \in 1..Len(orders') /\ SameOrder(orders'[i], orders[i])
        /\ orders[i].filled <= orders'[i].filled /\ orders' \in Seq(OrderRecord)
    BY OrdersKept
  <2>3. orders[i].filled \in Nat /\ orders'[i].filled \in Nat
    BY <1>1, <2>2, OrderTypes, ElementOfSeq, OrderFields
  <2> QED BY <2>1, <2>2, <2>3 DEF BoughtAtMarket, OrderIds, SameOrder
<1>5. ASSUME NEW p \in Players, credits'[p] < 0 PROVE BoughtAtMarket(p)'
  <2>1. BoughtAtMarket(p)
    BY <1>1, <1>2, <1>3, <1>5
  <2> QED BY <1>4, <2>1
<1> QED BY <1>5 DEF OverdraftOnlyByMarketBuys, BoughtAtMarket

-----------------------------------------------------------------------------
(* The invariant *)

\* It holds at the start,
LEMMA SoundInit == Init => Sound
<1> SUFFICES ASSUME Init PROVE Sound
  OBVIOUS
<1>1. orders = <<>> /\ OrderIds = {} /\ Len(orders) = 0
  BY DEF Init, OrderIds
<1>2. \A s \in Sides, p \in Prices : book[s][p] = <<>> /\ Waiting(s, p) = {} /\ Ids(book[s][p]) = {}
  BY DEF Init, Waiting, Ids
<1>3. \A t \in Threads : handler[t] = Idle
  BY DEF Init
<1>4. TypeOK
  <2>1. handler \in [Threads -> [pc : PCs, req : Body \cup {NoRequest}, order : 0..Len(orders),
                                 trades : Seq(TradeRecord)]]
    <3>1. Idle \in [pc : PCs, req : Body \cup {NoRequest}, order : 0..Len(orders),
                    trades : Seq(TradeRecord)]
      BY <1>1 DEF Idle, PCs
    <3> QED BY <3>1 DEF Init
  <2>2. book \in [Sides -> [Prices -> Seq(OrderIds)]]
    BY DEF Init
  <2>3. credits \in [Players -> Int] /\ stock \in [Stations -> Nat]
        /\ aboard \in [Stations -> [Stations -> Nat]]
    BY MarketAssumption DEF Init
  <2>4. owner \in [Stations -> Players \cup {Nobody, NoStation}] /\ registered \subseteq Players
    BY MarketAssumption DEF Init
  <2>5. admin \in AdminRecord /\ restarts \in 0..MaxRestarts
    BY MarketAssumption DEF Init, AdminRecord
  <2>6. /\ orders \in Seq(OrderRecord) /\ lastPrice \in Prices \cup {NoPrice}
        /\ marketLock \in Threads \cup {NoThread, "admin"}
    BY DEF Init
  <2> QED BY <1>1, <2>1, <2>2, <2>3, <2>4, <2>5, <2>6 DEF TypeOK
<1>5. HandlersSound /\ LockSound /\ MatchingSound /\ TradesSound /\ TradesWithinLimits
  <2>1. marketLock = NoThread /\ admin.pc = "idle"
    BY DEF Init, AdminIdle
  <2>2. \A t \in Threads : handler[t].pc = "idle" /\ handler[t].trades = <<>>
    BY <1>3 DEF Idle
  <2> QED BY <2>1, <2>2, MarketAssumption
          DEF HandlersSound, LockSound, MatchingSound, TradesSound, TradesWithinLimits, At
<1>6. OrdersSound /\ LimitsApart
  BY <1>1 DEF OrdersSound, LimitsApart
<1>7. BookAgrees
  <2>1. \A s \in Sides, p \in Prices : Agrees(s, p)
    BY <1>1, <1>2 DEF Agrees, Ordered
  <2> QED BY <2>1, BookByQueue
<1>8. OverdraftOnlyByMarketBuys
  BY MarketAssumption DEF Init, OverdraftOnlyByMarketBuys
<1> QED BY <1>4, <1>5, <1>6, <1>7, <1>8 DEF Sound

\* every step keeps it,
LEMMA SoundStep == Sound /\ [Next]_vars => Sound'
  BY TypeStep, HandlersStep, LockStep, OrdersStep, MatchingStep, BookStep, LimitsStep, OverdraftStep
     DEF Sound

\* so it always holds.
LEMMA SoundAlways == Spec => []Sound
  BY SoundInit, SoundStep, PTL DEF Spec

\* In a book that agrees with orders apart, a bid reaches an ask only if one of
\* them was revived.
LEMMA SoundNotCrossed == Sound => NotCrossed
<1> SUFFICES ASSUME Sound, NEW p \in Prices, NEW q \in Prices,
                    book["buy"][p] # <<>>, book["sell"][q] # <<>>
             PROVE  p < q \/ \E i \in Waiting("buy", p) \cup Waiting("sell", q) : Revived(i)
  BY DEF NotCrossed
<1>1. TypeOK /\ BookAgrees /\ LimitsApart /\ "buy" \in Sides /\ "sell" \in Sides
  BY DEF Sound, Sides
<1>2. PICK i \in Waiting("buy", p) : i \in OrderIds /\ orders[i].side = "buy" /\ orders[i].price = p
                                     /\ (Resting(i) \/ orders[i].type = "market")
  <2>1. book["buy"][p] \in Seq(OrderIds) /\ Waiting("buy", p) = Ids(book["buy"][p])
        /\ Waiting("buy", p) \subseteq OrderIds
    BY <1>1, WaitingTypes
  <2>2. Head(book["buy"][p]) \in Waiting("buy", p)
    BY <2>1, TailQueue
  <2> QED BY <1>1, <2>1, <2>2 DEF BookAgrees
<1>3. PICK j \in Waiting("sell", q) : j \in OrderIds /\ orders[j].side = "sell" /\ orders[j].price = q
                                      /\ (Resting(j) \/ orders[j].type = "market")
  <2>1. book["sell"][q] \in Seq(OrderIds) /\ Waiting("sell", q) = Ids(book["sell"][q])
        /\ Waiting("sell", q) \subseteq OrderIds
    BY <1>1, WaitingTypes
  <2>2. Head(book["sell"][q]) \in Waiting("sell", q)
    BY <2>1, TailQueue
  <2> QED BY <1>1, <2>1, <2>2 DEF BookAgrees
<1>4. CASE Resting(i) /\ Resting(j)
  BY <1>1, <1>2, <1>3, <1>4 DEF LimitsApart
<1>5. CASE orders[i].type = "market"
  BY <1>1, <1>2, <1>5 DEF Revived, InBook
<1>6. CASE orders[j].type = "market"
  BY <1>1, <1>3, <1>6 DEF Revived, InBook
<1> QED BY <1>2, <1>3, <1>4, <1>5, <1>6

-----------------------------------------------------------------------------
(* The theorems *)

\* Every variable of the exchange keeps its shape in every reachable state: no
\* order trades more than it is for, no station holds less than nothing, and the
\* queues of the book hold orders.
THEOREM TypeCorrect == Spec => []TypeOK
<1>1. Sound => TypeOK
  BY DEF Sound
<1> QED BY <1>1, SoundAlways, PTL

\* In every reachable state, between any two sections of any handlers, the book
\* and the order table tell the same story, no bid reaches an ask unless a restart
\* revived one of them, and only market buys have taken an account below zero.
THEOREM MarketCorrect == Spec => []MarketInv
<1>1. Sound => MarketInv
  BY SoundNotCrossed DEF Sound, MarketInv
<1> QED BY <1>1, SoundAlways, PTL

\* The matching engine gives both parties of every trade their limit or better.
THEOREM LimitsCorrect == Spec => []TradesWithinLimits
<1>1. Sound => TradesWithinLimits
  BY DEF Sound
<1> QED BY <1>1, SoundAlways, PTL

\* No step fills the later of two resting orders.
LEMMA SoundPriority ==
  ASSUME Sound, restarts = 0, [Next]_vars,
         NEW i \in OrderIds, NEW j \in OrderIds, Resting(i), Resting(j), Before(i, j)
  PROVE  orders'[j].filled = orders[j].filled
<1>1. TypeOK /\ BookAgrees
  BY DEF Sound
<1>2. ASSUME NEW t \in Threads, NEW k, NEW r, NEW p, NEW n, Deal(t, k, r, p, n)
      PROVE  orders'[j].filled = orders[j].filled
  <2>1. j # k
    BY <1>2, DealResting DEF Resting
  <2>2. r # j
    <3> SUFFICES ASSUME r = j PROVE FALSE
      OBVIOUS
    <3> DEFINE s == orders[j].side
    <3>1. /\ s \in Sides /\ p \in Prices /\ orders[j].price = p
          /\ book[s][p] # <<>> /\ j = Head(book[s][p])
          /\ (s = "sell" /\ BestAsk(p)) \/ (s = "buy" /\ BestBid(p))
      BY <1>1, <1>2, OrderTypes, OrderFields DEF Deal
    <3>2. orders[i].side = s
      BY DEF Before
    <3>3. orders[i].price \in Prices
      BY DEF Sound, OrdersSound, Resting
    <3> DEFINE q == orders[i].price
    <3>4. i \in Waiting(s, q) /\ book[s][q] # <<>>
      <4>1. i \in Waiting(s, q)
        BY <1>1, <3>1, <3>2, <3>3 DEF BookAgrees
      <4> QED BY <4>1 DEF Waiting
    <3> HIDE DEF s, q
    <3>5. p \in Nat /\ q \in Nat
      BY <3>1, <3>3, MarketAssumption DEF q
    <3>6. q = p /\ i < j
      <4>1. s = "sell" => p <= q
        BY <3>1, <3>3, <3>4 DEF BestAsk, q
      <4>2. s = "buy" => p >= q
        BY <3>1, <3>3, <3>4 DEF BestBid, q
      <4> QED BY <3>1, <3>2, <3>5, <4>1, <4>2 DEF Before, q, s
    <3>7. /\ book[s][p] \in Seq(OrderIds) /\ book[s][p] \in Seq(Nat) /\ Waiting(s, p) = Ids(book[s][p])
          /\ Ordered(book[s][p], restarts = 0)
      BY <1>1, <3>1, WaitingTypes, WaitingFacts
    <3>8. Ordered(book[s][p], TRUE)
      BY <3>7 DEF Ordered
    <3>9. \A x \in Ids(Tail(book[s][p])) : j < x
      BY <3>1, <3>7, <3>8, HeadFirst
    <3>10. i \in Ids(Tail(book[s][p])) \cup {j}
      BY <3>1, <3>4, <3>6, <3>7, TailQueue
    <3>11. i \in Nat /\ j \in Nat
      BY <1>1, OrderTypes
    <3> QED BY <3>6, <3>9, <3>10, <3>11
  <2> QED BY <1>1, <1>2, <2>1, <2>2, DealOrders
<1>3. ASSUME NEW t \in Threads, Insert(t) PROVE orders'[j].filled = orders[j].filled
  BY <1>3, InsertedOrder
<1>4. ASSUME NEW t \in Threads, Rest(t) PROVE orders'[j].filled = orders[j].filled
  BY <1>4, RestOrders
<1>5. ASSUME NEW ids, CancelStep(ids) PROVE orders'[j].filled = orders[j].filled
  BY <1>1, <1>5, CancelledOrders DEF CancelStep
<1>6. CASE ReturnGoods \/ Restart \/ Aside
  BY <1>6, AsideResting
<1> QED BY <1>2, <1>3, <1>4, <1>5, <1>6, Steps

\* The matching loops keep price-time priority as long as the server is not
\* restarted, which puts the orders of a price level back in any order.
THEOREM PriorityCorrect == MaxRestarts = 0 => (Spec => PriceTimePriority)
<1> DEFINE Kept == \A i, j \in OrderIds :
                     Resting(i) /\ Resting(j) /\ Before(i, j)
                       => orders'[j].filled = orders[j].filled
<1> SUFFICES ASSUME MaxRestarts = 0 PROVE Spec => PriceTimePriority
  OBVIOUS
<1>1. Sound /\ [Next]_vars => [Kept]_vars
  <2>1. Sound => restarts = 0
    BY DEF Sound, TypeOK
  <2> QED BY <2>1, SoundPriority
<1> QED BY <1>1, SoundAlways, PTL DEF Spec, PriceTimePriority

-----------------------------------------------------------------------------
(* What a deletion and a refund refer to *)

\* The admin refunds cancelled orders only, the credits first and then, when a
\* player is deleted, the goods; the station or player is there until the end.
AdminSound ==
  /\ admin.pc \notin {"remove", "refund_credits", "return_goods"} => admin.refunds = {}
  /\ \A i \in admin.refunds : orders[i].status = "cancelled"
  /\ admin.pc = "return_goods" => \A i \in admin.refunds : orders[i].side = "sell"
  /\ admin.pc \in {"cancel_orders", "remove"} => Exists(admin.station)
  /\ admin.pc \in {"delete_orders", "refund_credits", "return_goods", "disown", "unregister"} =>
       /\ admin.player \in registered
       /\ \A i \in admin.refunds : orders[i].player = admin.player

\* A handler refunds a cancelled order, another one than the others, and gives the
\* rest of a market sell back while nobody can trade with it.
Refunds(t, i) ==
  /\ At(t, "refunding") =>
       /\ orders[i].status = "cancelled"
       /\ orders[i].type = "market" => orders[i].filled > 0
       /\ \A u \in Threads \ {t} : At(u, "refunding") => handler[u].order # i
  /\ At(t, "returning") =>
       /\ orders[i].side = "sell" /\ orders[i].type = "market"
       /\ ~Matching(i) /\ ~InBook(i)
RefundsSound == \A t \in Threads, i \in OrderIds : i = handler[t].order => Refunds(t, i)

\* A market order that was not matched at all is cancelled.
MarketOnce ==
  \A i \in OrderIds : orders[i].type = "market" /\ Cancellable(orders[i]) =>
    Matching(i) \/ orders[i].filled > 0

\* All that the accounts of credits and goods rest on.
Settled == Sound /\ AdminSound /\ RefundsSound /\ MarketOnce

\* Cancelled orders stay as they are.
LEMMA CancelledKept ==
  ASSUME Sound, [Next]_vars
  PROVE  \A i \in OrderIds : orders[i].status = "cancelled" => orders'[i] = orders[i]
<1>1. TypeOK /\ HandlersSound /\ MatchingSound
  BY DEF Sound
<1>2. ASSUME NEW t \in Threads, Insert(t)
      PROVE  \A i \in OrderIds : orders[i].status = "cancelled" => orders'[i] = orders[i]
  BY <1>2, InsertedOrder
<1>3. ASSUME NEW t \in Threads, NEW i, NEW r, NEW p, NEW n, Deal(t, i, r, p, n)
      PROVE  \A j \in OrderIds : orders[j].status = "cancelled" => orders'[j] = orders[j]
  <2>1. \A j \in OrderIds \ {i, r} : orders'[j] = orders[j]
    BY <1>1, <1>3, DealOrders
  <2>2. orders[i].status # "cancelled"
    BY <1>1, <1>3 DEF Deal, MatchingSound
  <2>3. orders[r].status # "cancelled"
    BY <1>3 DEF Deal, Cancellable
  <2> QED BY <2>1, <2>2, <2>3
<1>4. ASSUME NEW t \in Threads, Rest(t)
      PROVE  \A j \in OrderIds : orders[j].status = "cancelled" => orders'[j] = orders[j]
  <2>1. \A j \in OrderIds : j # handler[t].order => orders'[j] = orders[j]
    BY <1>4, RestOrders
  <2>2. orders[handler[t].order].status # "cancelled"
    BY <1>1, <1>4 DEF Rest, MatchingSound
  <2> QED BY <2>1, <2>2
<1>5. ASSUME NEW ids, CancelStep(ids)
      PROVE  \A j \in OrderIds : orders[j].status = "cancelled" => orders'[j] = orders[j]
  <2>1. ids \in SUBSET OrderIds /\ (\A i \in ids : Cancellable(orders[i])) /\ CancelOrders(ids)
    BY <1>5 DEF CancelStep
  <2>2. \A j \in OrderIds \ ids : orders'[j] = orders[j]
    BY <1>1, <2>1, CancelledOrders
  <2>3. \A j \in ids : orders[j].status # "cancelled"
    BY <2>1 DEF Cancellable
  <2> QED BY <2>2, <2>3
<1>6. CASE ReturnGoods \/ Restart \/ Aside
  BY <1>6 DEF ReturnGoods, Restart, Aside, market
<1> QED BY <1>2, <1>3, <1>4, <1>5, <1>6, Steps

\* An order enters the book from the matching loop, or with a restart.
LEMMA BookGrows ==
  ASSUME Sound, [Next]_vars, ~Restart
  PROVE  \A j : InBook(j)' => InBook(j) \/ Matching(j)
<1>1. TypeOK /\ OrdersSound
  BY DEF Sound
<1>2. \A s \in Sides, p \in Prices : Waiting(s, p) = Ids(book[s][p])
  BY DEF Waiting, Ids
<1>3. \A s \in Sides, p \in Prices : Waiting(s, p)' = Ids(book'[s][p])
  BY DEF Waiting, Ids
<1>4. ASSUME NEW t \in Threads, NEW i, NEW r, NEW p, NEW n, Deal(t, i, r, p, n)
      PROVE  \A j : InBook(j)' => InBook(j)
  <2>1. \A s \in Sides, q \in Prices : \A j : j \in Ids(book'[s][q]) => j \in Ids(book[s][q])
    BY <1>4, DealBook
  <2> QED BY <1>2, <1>3, <2>1 DEF InBook
<1>5. ASSUME NEW ids, CancelStep(ids) PROVE \A j : InBook(j)' => InBook(j)
  <2>1. \A s \in Sides, q \in Prices : Ids(book'[s][q]) = Waiting(s, q) \ ids
    BY <1>1, <1>5, CancelledBook DEF CancelStep
  <2> QED BY <1>3, <2>1 DEF InBook
<1>6. ASSUME NEW t \in Threads, Rest(t) PROVE \A j : InBook(j)' => InBook(j) \/ Matching(j)
  <2> DEFINE i == handler[t].order
             o == orders[i]
  <2>1. Matching(i)
    BY <1>6 DEF Rest, Matching
  <2>2. CASE book' = book
    BY <2>2 DEF InBook, Waiting
  <2>3. CASE book' # book
    <3>1. Remaining(o) > 0 /\ o.type = "limit" /\ book' = [book EXCEPT ![o.side][o.price] = Append(@, i)]
      BY <1>6, <2>3, ZenonT(30) DEF Rest
    <3>2. i \in OrderIds
      BY <1>6, RestOrders
    <3>3. o.side \in Sides /\ o.price \in Prices
      BY <1>1, <3>1, <3>2, OrderTypes, OrderFields DEF OrdersSound
    <3> HIDE DEF i, o
    <3>4. ASSUME NEW s \in Sides, NEW q \in Prices, NEW j, j \in Ids(book'[s][q])
          PROVE  j \in Ids(book[s][q]) \/ j = i
      <4>1. book[s][q] \in Seq(OrderIds) /\ book \in [Sides -> [Prices -> Seq(OrderIds)]]
        BY <1>1 DEF TypeOK
      <4>2. book'[s][q] = IF s = o.side /\ q = o.price THEN Append(book[s][q], i) ELSE book[s][q]
        BY <3>1, <3>3, <4>1
      <4>3. Ids(Append(book[s][q], i)) \subseteq Ids(book[s][q]) \cup {i}
        BY <3>2, <4>1 DEF Ids
      <4> QED BY <3>4, <4>2, <4>3
    <3> QED BY <1>2, <1>3, <2>1, <3>4 DEF InBook
  <2> QED BY <2>2, <2>3
<1>7. ASSUME (\E t \in Threads : Insert(t)) \/ ReturnGoods \/ Aside
      PROVE  \A j : InBook(j)' => InBook(j)
  BY <1>7 DEF Insert, ReturnGoods, Aside, market, InBook, Waiting
<1> QED BY <1>4, <1>5, <1>6, <1>7, Steps

\* Whatever step is taken, the refunds of the admin stay cancelled orders.
LEMMA AdminSoundStep ==
  ASSUME Sound, AdminSound, [Next]_vars
  PROVE  AdminSound'
<1>1. TypeOK
  BY DEF Sound
<1>2. /\ admin.refunds \subseteq OrderIds
      /\ admin.pc \in {"cancel_orders", "remove"} =>
           admin = [pc |-> admin.pc, station |-> admin.station, refunds |-> admin.refunds]
      /\ admin.pc \in {"delete_orders", "refund_credits", "return_goods", "disown", "unregister"} =>
           admin = [pc |-> admin.pc, player |-> admin.player, refunds |-> admin.refunds]
  BY <1>1 DEF TypeOK, AdminRecord, AdminIdle
<1>3. \A i \in admin.refunds : orders'[i] = orders[i]
  BY <1>2, CancelledKept DEF AdminSound
<1>4. ASSUME UNCHANGED <<admin, registered, owner>> PROVE AdminSound'
  BY <1>3, <1>4 DEF AdminSound, Exists
<1>5. ASSUME admin' = AdminIdle PROVE AdminSound'
  BY <1>5 DEF AdminSound, AdminIdle
<1>6. ASSUME NEW s \in Stations, CheckStation(s) PROVE AdminSound'
  <2>1. admin' = [pc |-> "cancel_orders", station |-> s, refunds |-> {}] /\ owner' = owner /\ Exists(s)
    BY <1>6 DEF CheckStation, stations
  <2> QED BY <2>1 DEF AdminSound, Exists
<1>7. CASE CancelOrdersAt
  <2> DEFINE ids == {i \in OrderIds : orders[i].station = admin.station /\ Cancellable(orders[i])}
  <2>1. CancelOrders(ids) /\ ids \in SUBSET OrderIds /\ \A i \in ids : Cancellable(orders[i])
    BY <1>7 DEF CancelOrdersAt
  <2>2. admin' = [admin EXCEPT !.pc = "remove", !.refunds = ids] /\ admin.pc = "cancel_orders" /\ owner' = owner
    BY <1>7 DEF CancelOrdersAt, AdminAt, stations
  <2> HIDE DEF ids
  <2>3. admin' = [pc |-> "remove", station |-> admin.station, refunds |-> ids]
    BY <1>2, <2>2
  <2>4. \A i \in ids : orders'[i].status = "cancelled"
    BY <1>1, <2>1, CancelledOrders
  <2> QED BY <2>2, <2>3, <2>4 DEF AdminSound, Exists
<1>8. CASE RefundOrder
  <2>1. PICK i \in admin.refunds : admin' = [admin EXCEPT !.refunds = @ \ {i}]
    BY <1>8 DEF RefundOrder
  <2>2. admin.pc = "remove" /\ owner' = owner /\ orders' = orders
    BY <1>8 DEF RefundOrder, AdminAt, market
  <2>3. admin' = [pc |-> "remove", station |-> admin.station, refunds |-> admin.refunds \ {i}]
    BY <1>2, <2>1, <2>2
  <2> QED BY <2>2, <2>3 DEF AdminSound, Exists
<1>9. ASSUME NEW p \in Players, DeleteShips(p) PROVE AdminSound'
  <2>1. admin' = [pc |-> "delete_orders", player |-> p, refunds |-> {}] /\ registered' = registered /\ p \in registered
    BY <1>9 DEF DeleteShips, accounts
  <2> QED BY <2>1 DEF AdminSound
<1>10. CASE DeleteOrders
  <2> DEFINE ids == {i \in OrderIds : orders[i].player = admin.player /\ Cancellable(orders[i])}
  <2>1. CancelOrders(ids) /\ ids \in SUBSET OrderIds /\ \A i \in ids : Cancellable(orders[i])
    BY <1>10 DEF DeleteOrders
  <2>2. /\ admin' = [admin EXCEPT !.pc = "refund_credits", !.refunds = ids] /\ admin.pc = "delete_orders"
        /\ registered' = registered
    BY <1>10 DEF DeleteOrders, AdminAt, accounts
  <2>3. \A i \in ids : orders[i].player = admin.player
    OBVIOUS
  <2> HIDE DEF ids
  <2>4. admin' = [pc |-> "refund_credits", player |-> admin.player, refunds |-> ids]
    BY <1>2, <2>2
  <2>5. \A i \in ids : orders'[i].status = "cancelled" /\ orders'[i].player = admin.player
    BY <1>1, <2>1, <2>3, CancelledOrders DEF SameOrder
  <2> QED BY <2>2, <2>4, <2>5 DEF AdminSound
<1>11. CASE RefundCredits
  <2> DEFINE ids == {i \in admin.refunds : orders[i].side = "sell"}
  <2>1. /\ admin' = [admin EXCEPT !.pc = "return_goods", !.refunds = ids] /\ admin.pc = "refund_credits"
        /\ registered' = registered /\ orders' = orders
    BY <1>11 DEF RefundCredits, AdminAt, market
  <2>2. \A i \in ids : i \in admin.refunds /\ orders[i].side = "sell"
    OBVIOUS
  <2> HIDE DEF ids
  <2>3. admin' = [pc |-> "return_goods", player |-> admin.player, refunds |-> ids]
    BY <1>2, <2>1
  <2> QED BY <2>1, <2>2, <2>3 DEF AdminSound
<1>12. CASE ReturnGoods
  <2>1. /\ admin' = [admin EXCEPT !.pc = "disown", !.refunds = {}] /\ admin.pc = "return_goods"
        /\ registered' = registered
    BY <1>12 DEF ReturnGoods, AdminAt, accounts
  <2>2. admin' = [pc |-> "disown", player |-> admin.player, refunds |-> {}]
    BY <1>2, <2>1
  <2> QED BY <2>1, <2>2 DEF AdminSound
<1>13. CASE Disown
  <2>1. admin' = [admin EXCEPT !.pc = "unregister"] /\ admin.pc = "disown" /\ registered' = registered
    BY <1>13 DEF Disown, AdminAt, accounts
  <2>2. admin' = [pc |-> "unregister", player |-> admin.player, refunds |-> admin.refunds]
    BY <1>2, <2>1
  <2> QED BY <2>1, <2>2 DEF AdminSound
<1>14. CASE RemoveStation \/ Unregister \/ Restart
  BY <1>5, <1>14 DEF RemoveStation, Unregister, Restart
<1>15. CASE Quiet \/ UNCHANGED vars
  BY <1>4, <1>15 DEF Quiet, vars, server, accounts, stations
<1>16. ASSUME NEW t \in Threads,
              \/ \E b \in Body : Validate(t, b)
              \/ \E i \in OrderIds : Cancel(t, i)
              \/ Step(t)
       PROVE  UNCHANGED <<admin, registered, owner>>
  BY <1>16 DEF Validate, Cancel, Step, Reserve, Refuse, Insert, MatchBuy, MatchSell, Trade, Rest,
               ReturnUnfilled, SettleCredits, SpawnShip, Respond, Refund, accounts, stations
<1> QED BY <1>4, <1>6, <1>7, <1>8, <1>9, <1>10, <1>11, <1>12, <1>13, <1>14, <1>15, <1>16
        DEF Next, Administer

\* A market order leaves the matching loop filled, partially filled or cancelled.
LEMMA MarketOnceStep ==
  ASSUME Sound, MarketOnce, [Next]_vars
  PROVE  MarketOnce'
<1>1. TypeOK /\ OrdersSound
  BY DEF Sound
<1>2. ASSUME NEW t \in Threads, Insert(t) PROVE MarketOnce'
  <2>1. handler'[t].pc = "matching" /\ handler'[t].order = Len(orders) + 1
    BY <1>2, InsertResting
  <2>2. \A i : i = Len(orders) + 1 => Matching(i)'
    BY <2>1 DEF Matching, At
  <2>3. \A i \in OrderIds' : i = Len(orders) + 1 \/ (i \in OrderIds /\ orders'[i] = orders[i])
    BY <1>2, InsertedOrder DEF OrderIds
  <2>4. \A i : ~Matching(i)
    BY <1>2, MatchingOne, MarketAssumption DEF Insert, Sound, LockSound
  <2> QED BY <2>2, <2>3, <2>4 DEF MarketOnce
<1>3. ASSUME NEW t \in Threads, NEW i, NEW r, NEW p, NEW n, Deal(t, i, r, p, n) PROVE MarketOnce'
  <2>1. /\ Len(orders') = Len(orders) /\ orders'[i] = Fill(orders[i], n) /\ orders'[r] = Fill(orders[r], n)
        /\ \A j \in OrderIds \ {i, r} : orders'[j] = orders[j]
    BY <1>1, <1>3, DealOrders
  <2>2. ASSUME NEW j \in {i, r} PROVE orders'[j].filled > 0
    <3>1. j \in OrderIds /\ n \in Nat \ {0} /\ n <= Remaining(orders[j])
      BY <1>3 DEF Deal
    <3>2. orders[j] \in OrderRecord /\ orders[j].filled \in Nat
      BY <1>1, <3>1, OrderTypes, OrderFields
    <3>3. Fill(orders[j], n).filled = orders[j].filled + n
      BY <3>1, <3>2, FilledOrder
    <3> QED BY <2>1, <3>1, <3>2, <3>3
  <2>3. \A j \in OrderIds : Matching(j) => j = i
    BY <1>3, MatchingOne DEF Deal
  <2> QED BY <2>1, <2>2, <2>3 DEF MarketOnce, OrderIds
<1>4. ASSUME NEW t \in Threads, Rest(t) PROVE MarketOnce'
  <2> DEFINE i == handler[t].order
  <2>1. /\ i \in OrderIds /\ Len(orders') = Len(orders)
        /\ \A j \in OrderIds : j # i => orders'[j] = orders[j]
    BY <1>4, RestOrders
  <2>2. \A j \in OrderIds : Matching(j) => j = i
    BY <1>4, MatchingOne DEF Rest
  <2>3. orders[i].type = orders'[i].type /\ orders[i].filled = orders'[i].filled
    BY <1>4, RestOrders DEF SameOrder
  <2>4. orders[i].filled \in Nat /\ orders[i].quantity \in Nat \ {0} /\ orders[i] \in OrderRecord
    BY <1>1, <2>1, OrderTypes, OrderFields
  <2>5. orders'[i].type = "market" /\ Cancellable(orders'[i]) => orders'[i].filled > 0
    <3>1. CASE Remaining(orders[i]) = 0
      BY <2>3, <2>4, <3>1 DEF Remaining
    <3>2. CASE Remaining(orders[i]) > 0 /\ orders[i].type = "market"
      <4>1. orders' = [orders EXCEPT ![i].status = IF orders[i].filled > 0 THEN "partially_filled" ELSE "cancelled"]
        <5>1. Remaining(orders[i]) # 0 /\ orders[i].type # "limit"
          BY <3>2
        <5> QED BY <1>4, <5>1 DEF Rest
      <4>2. orders'[i].status = IF orders[i].filled > 0 THEN "partially_filled" ELSE "cancelled"
        BY <1>1, <2>1, <2>4, <4>1 DEF TypeOK, OrderIds, OrderRecord
      <4> QED BY <2>3, <2>4, <4>2 DEF Cancellable
    <3> QED BY <1>4, <2>3, <3>1, <3>2 DEF Rest
  <2> QED BY <2>1, <2>2, <2>5 DEF MarketOnce, OrderIds
<1>5. ASSUME NEW ids, CancelStep(ids) PROVE MarketOnce'
  <2>1. ids \in SUBSET OrderIds /\ (\A i \in ids : Cancellable(orders[i])) /\ CancelOrders(ids)
    BY <1>5 DEF CancelStep
  <2>2. /\ Len(orders') = Len(orders)
        /\ \A i \in OrderIds \ ids : orders'[i] = orders[i]
        /\ \A i \in ids : orders'[i].status = "cancelled"
    BY <1>1, <2>1, CancelledOrders
  <2>3. \A i : ~Matching(i)
    BY <1>5, MatchingOne DEF CancelStep
  <2> QED BY <2>2, <2>3 DEF MarketOnce, OrderIds, Cancellable
<1>6. CASE ReturnGoods \/ Restart \/ Aside
  <2>1. orders' = orders
    BY <1>6 DEF ReturnGoods, Restart, Aside, market
  <2>2. \A i : Matching(i) => Matching(i)'
    <3>1. CASE ReturnGoods
      BY <3>1 DEF ReturnGoods, Matching, At
    <3>2. CASE Restart
      BY <3>2, MatchingOne, MarketAssumption DEF Restart, Sound, LockSound
    <3>3. CASE Aside
      BY <3>3 DEF Aside, Matching, At
    <3> QED BY <1>6, <3>1, <3>2, <3>3
  <2> QED BY <2>1, <2>2 DEF MarketOnce, OrderIds
<1> QED BY <1>2, <1>3, <1>4, <1>5, <1>6, Steps

\* Only a new order gets into the matching loop.
LEMMA MatchingGrows ==
  ASSUME Sound, [Next]_vars
  PROVE  \A j \in OrderIds : Matching(j)' => Matching(j)
<1> SUFFICES ASSUME NEW j \in OrderIds, NEW u \in Threads,
                    handler'[u].pc = "matching", handler'[u].order = j
             PROVE  Matching(j)
  BY DEF Matching, At
<1>1. TypeOK
  BY DEF Sound
<1>2. HandlerStep(u)
  BY HandlerSteps
<1>3. handler[u] = [pc |-> handler[u].pc, req |-> handler[u].req, order |-> handler[u].order,
                    trades |-> handler[u].trades]
  BY <1>1 DEF TypeOK
<1>4. j # Len(orders) + 1
  BY <1>1 DEF TypeOK, OrderIds
<1>5. CASE handler'[u] = handler[u]
  BY <1>5 DEF Matching, At
<1>6. ASSUME NEW i, NEW r, NEW p, NEW n, Deal(u, i, r, p, n) PROVE Matching(j)
  BY <1>6, DealResting
<1>7. CASE handler'[u] = [Idle EXCEPT !.pc = "matching", !.order = Len(orders) + 1]
  BY <1>4, <1>7 DEF Idle
<1>8. ASSUME NEW b, NEW i,
             \/ handler'[u] = Idle
             \/ handler'[u] = [Idle EXCEPT !.pc = "validated", !.req = b]
             \/ handler'[u] = [Idle EXCEPT !.pc = "refunding", !.order = i]
      PROVE  Matching(j)
  <2>1. handler'[u] = Idle => handler'[u].pc = "idle"
    BY DEF Idle
  <2>2. [Idle EXCEPT !.pc = "validated", !.req = b].pc = "validated"
    BY DEF Idle
  <2>3. [Idle EXCEPT !.pc = "refunding", !.order = i].pc = "refunding"
    BY DEF Idle
  <2> QED BY <1>8, <2>1, <2>2, <2>3
<1>9. CASE \E pc \in {"reserved", "returning", "settling", "shipping"} : handler'[u] = [handler[u] EXCEPT !.pc = pc]
  BY <1>3, <1>9
<1>10. CASE handler'[u] = [handler[u] EXCEPT !.pc = "settling", !.trades = Tail(@)]
  BY <1>3, <1>10
<1> QED BY <1>2, <1>5, <1>6, <1>7, <1>8, <1>9, <1>10 DEF HandlerStep

\* Whatever step is taken, no order is refunded twice and no rest given back is traded.
LEMMA RefundsSoundStep ==
  ASSUME Sound, RefundsSound, MarketOnce, [Next]_vars
  PROVE  RefundsSound'
<1>1. TypeOK /\ HandlersSound /\ LockSound /\ MatchingSound
  BY DEF Sound
<1>2. \A i \in OrderIds : SameOrder(orders'[i], orders[i])
  BY OrdersKept
<1>3. ASSUME NEW u \in Threads, handler'[u] = handler[u], ~Restart, At(u, "returning")
      PROVE  \A i : i = handler'[u].order =>
               orders'[i].side = "sell" /\ orders'[i].type = "market" /\ ~Matching(i)' /\ ~InBook(i)'
  <2> SUFFICES ASSUME NEW i, i = handler'[u].order
               PROVE  orders'[i].side = "sell" /\ orders'[i].type = "market"
                      /\ ~Matching(i)' /\ ~InBook(i)'
    OBVIOUS
  <2>1. i = handler[u].order
    BY <1>3
  <2>2. i \in OrderIds
    BY <1>1, <1>3, <2>1 DEF HandlersSound, At
  <2>3. orders[i].side = "sell" /\ orders[i].type = "market" /\ ~Matching(i) /\ ~InBook(i)
    BY <1>3, <2>1, <2>2 DEF RefundsSound, Refunds
  <2>4. ~Matching(i)' /\ ~InBook(i)'
    BY <1>3, <2>2, <2>3, MatchingGrows, BookGrows
  <2>5. orders'[i].side = "sell" /\ orders'[i].type = "market"
    BY <1>2, <2>2, <2>3 DEF SameOrder
  <2> QED BY <2>4, <2>5
<1>4. ASSUME NEW u \in Threads, handler'[u] = handler[u], At(u, "refunding")
      PROVE  \A i : i = handler'[u].order =>
               orders'[i].status = "cancelled" /\ (orders'[i].type = "market" => orders'[i].filled > 0)
  <2>1. handler[u].order \in OrderIds
    BY <1>1, <1>4 DEF HandlersSound, At
  <2> QED BY <1>4, <2>1, CancelledKept DEF RefundsSound, Refunds
<1>5. ASSUME ~Restart,
             \A u \in Threads : \/ handler'[u] = handler[u]
                               \/ \A i : i = handler'[u].order => Refunds(u, i)'
      PROVE  RefundsSound'
  <2> SUFFICES ASSUME NEW t \in Threads, NEW i, i = handler'[t].order, handler'[t] = handler[t]
               PROVE  Refunds(t, i)'
    BY <1>5 DEF RefundsSound
  <2>1. CASE handler'[t].pc = "refunding"
    <3>1. handler[t].pc = "refunding" /\ i = handler[t].order
      BY <2>1
    <3>2. i \in OrderIds
      BY <1>1, <3>1 DEF HandlersSound
    <3>3. orders'[i].status = "cancelled" /\ (orders'[i].type = "market" => orders'[i].filled > 0)
      BY <1>4, <3>1 DEF At
    <3>4. \A u \in Threads \ {t} : handler[u].pc = "refunding" => handler[u].order # i
      BY <3>1, <3>2 DEF RefundsSound, Refunds, At
    <3>5. ASSUME NEW u \in Threads \ {t}, handler'[u].pc = "refunding" PROVE handler'[u].order # i
      <4>1. CASE handler'[u] = handler[u]
        BY <3>4, <3>5, <4>1
      <4>2. CASE \A j : j = handler'[u].order => Refunds(u, j)'
        BY <2>1, <3>5, <4>2 DEF Refunds, At
      <4> QED BY <1>5, <4>1, <4>2
    <3> QED BY <2>1, <3>3, <3>5 DEF Refunds, At
  <2>2. CASE handler'[t].pc = "returning"
    <3>1. handler[t].pc = "returning"
      BY <2>2
    <3> QED BY <1>3, <1>5, <2>2, <3>1 DEF Refunds, At
  <2> QED BY <2>1, <2>2 DEF Refunds, At
<1> DEFINE Others(t) == \A u \in Threads \ {t} : handler'[u] = handler[u]
<1>6. ASSUME NEW t \in Threads, ~Restart, Others(t), handler'[t].pc \notin {"refunding", "returning"}
      PROVE  RefundsSound'
  BY <1>5, <1>6 DEF Refunds, At
<1>7. handler \in [Threads -> [pc : PCs, req : Body \cup {NoRequest}, order : 0..Len(orders),
                               trades : Seq(TradeRecord)]]
  BY <1>1 DEF TypeOK
<1>8. CASE Restart
  <2>1. \A u \in Threads : handler'[u].pc = "idle"
    BY <1>8 DEF Restart, Idle
  <2> QED BY <2>1 DEF RefundsSound, Refunds, At
<1>9. ASSUME NEW t \in Threads, NEW i \in OrderIds, Cancel(t, i), ~Restart PROVE RefundsSound'
  <2>1. handler'[t].pc = "refunding" /\ handler'[t].order = i /\ Others(t)
    BY <1>7, <1>9 DEF Cancel, Idle
  <2>2. /\ SameOrder(orders'[i], orders[i]) /\ orders'[i].filled = orders[i].filled
        /\ orders'[i].status = "cancelled"
    BY <1>1, <1>9, CancelledOrders DEF Cancel
  <2>3. \A j : ~Matching(j)
    BY <1>1, <1>9, MarketAssumption DEF Cancel, LockSound, Matching
  <2>4. orders'[i].type = "market" => orders'[i].filled > 0
    BY <1>9, <2>2, <2>3 DEF MarketOnce, SameOrder, Cancel
  <2>5. \A u \in Threads \ {t} : At(u, "refunding") => handler[u].order # i
    BY <1>1, <1>9 DEF RefundsSound, Refunds, Cancel, Cancellable, HandlersSound, At
  <2>6. \A j : j = handler'[t].order => Refunds(t, j)'
    BY <2>1, <2>2, <2>4, <2>5 DEF Refunds, At
  <2> QED BY <1>5, <1>9, <2>1, <2>6
<1>10. ASSUME NEW t \in Threads, Rest(t), ~Restart PROVE RefundsSound'
  <2>1. PICK i : i = handler[t].order
    OBVIOUS
  <2>2. i \in OrderIds /\ SameOrder(orders'[i], orders[i])
    BY <1>2, <1>10, <2>1, RestOrders
  <2>3. Others(t) /\ handler'[t].order = i
    BY <1>7, <1>10, <2>1 DEF Rest, Goto
  <2>4. CASE handler'[t].pc = "returning"
    <3>1. orders[i].side = "sell" /\ orders[i].type = "market" /\ Remaining(orders[i]) > 0
      BY <1>7, <1>10, <2>1, <2>4 DEF Rest, Goto
    <3>2. book' = book /\ ~InBook(i)
      BY <1>1, <1>10, <2>1, <3>1 DEF Rest, MatchingSound
    <3>3. ~InBook(i)'
      BY <3>2 DEF InBook, Waiting
    <3>4. ~Matching(i)'
      BY <1>10, RestResting
    <3>5. orders'[i].side = "sell" /\ orders'[i].type = "market"
      BY <2>2, <3>1 DEF SameOrder
    <3>6. \A j : j = handler'[t].order => Refunds(t, j)'
      BY <2>3, <2>4, <3>3, <3>4, <3>5 DEF Refunds, At
    <3> QED BY <1>5, <1>10, <2>3, <3>6
  <2>5. CASE handler'[t].pc = "settling"
    BY <1>6, <1>10, <2>3, <2>5
  <2> QED BY <1>7, <1>10, <2>4, <2>5 DEF Rest, Goto
<1>11. ASSUME NEW t \in Threads, NEW next, handler' = [handler EXCEPT ![t] = next],
              next.pc \notin {"refunding", "returning"}, ~Restart
       PROVE  RefundsSound'
  BY <1>6, <1>7, <1>11
<1>12. ASSUME NEW t \in Threads, NEW b \in Body, Validate(t, b), ~Restart PROVE RefundsSound'
  BY <1>11, <1>12 DEF Validate, Idle
<1>13. ASSUME NEW t \in Threads, Step(t), ~Rest(t), ~Restart PROVE RefundsSound'
  <2>1. CASE Reserve(t)
    BY <1>7, <1>6, <1>13, <2>1 DEF Reserve, Goto
  <2>2. CASE Refuse(t) \/ Respond(t) \/ Refund(t)
    BY <1>11, <1>13, <2>2 DEF Refuse, Respond, Refund, Finish, Idle
  <2>3. CASE Insert(t)
    BY <1>11, <1>13, <2>3 DEF Insert, Idle
  <2>4. CASE MatchBuy(t) \/ MatchSell(t)
    <3>1. PICK i, r, p, n : Deal(t, i, r, p, n)
      BY <2>4, TradeDeals
    <3>2. handler'[t].pc = "matching" /\ Others(t)
      BY <3>1, DealResting
    <3> QED BY <1>6, <1>13, <3>2
  <2>5. CASE ReturnUnfilled(t) \/ SettleCredits(t)
    <3>1. Goto(t, "settling") \/ Goto(t, "shipping")
      BY <2>5 DEF ReturnUnfilled, SettleCredits
    <3> QED BY <1>6, <1>7, <1>13, <3>1 DEF Goto
  <2>6. CASE SpawnShip(t)
    <3>1. handler' = [handler EXCEPT ![t].pc = "settling", ![t].trades = Tail(@)]
      BY <2>6 DEF SpawnShip
    <3>2. handler'[t].pc = "settling" /\ Others(t)
      BY <1>7, <3>1
    <3> QED BY <1>6, <1>13, <3>2
  <2> QED BY <1>13, <2>1, <2>2, <2>3, <2>4, <2>5, <2>6 DEF Step
<1>14. ASSUME UNCHANGED handler, ~Restart PROVE RefundsSound'
  BY <1>5, <1>14
<1>15. CASE (Administer \/ Quiet \/ UNCHANGED vars) /\ ~Restart
  <2>1. UNCHANGED handler
    BY <1>15 DEF Administer, CheckStation, CancelOrdersAt, RefundOrder, RemoveStation, DeleteShips,
                 DeleteOrders, RefundCredits, ReturnGoods, Disown, Unregister, Quiet, vars, server
  <2> QED BY <1>14, <1>15, <2>1
<1> QED BY <1>8, <1>9, <1>10, <1>12, <1>13, <1>15 DEF Next

\* Nothing is refunded at the start.
LEMMA SettledInit == Init => Settled
<1> SUFFICES ASSUME Init PROVE Settled
  OBVIOUS
<1>1. Sound
  BY SoundInit
<1>2. OrderIds = {} /\ admin = AdminIdle /\ \A t \in Threads : handler[t].pc = "idle"
  BY DEF Init, OrderIds, Idle
<1>3. AdminSound
  BY <1>2 DEF AdminSound, AdminIdle
<1>4. RefundsSound /\ MarketOnce
  BY <1>2 DEF RefundsSound, MarketOnce, At
<1> QED BY <1>1, <1>3, <1>4 DEF Settled

\* The invariant the accounts rest on is inductive.
LEMMA SettledStep == Settled /\ [Next]_vars => Settled'
  BY SoundStep, AdminSoundStep, RefundsSoundStep, MarketOnceStep DEF Settled

\* So it always holds.
LEMMA SettledAlways == Spec => []Settled
  BY SettledInit, SettledStep, PTL DEF Spec

-----------------------------------------------------------------------------
(* The accounts, order by order and handler by handler *)

\* The credits of player p an order holds: reserved, or being refunded by the admin.
CreditsOf(i, p) ==
  IF orders[i].player = p
  THEN CreditsReservedBy(i) + (IF i \in admin.refunds THEN CreditsReturning(i) ELSE 0) ELSE 0

\* The goods of station s an order holds.
GoodsOf(i, s) ==
  IF orders[i].station = s
  THEN GoodsReservedBy(i) + (IF i \in admin.refunds THEN GoodsBack(i) ELSE 0) ELSE 0

\* Their totals.
OrderCredits(p) == SumFunctionOnSet([i \in OrderIds |-> CreditsOf(i, p)], OrderIds)
OrderGoods(s) == SumFunctionOnSet([i \in OrderIds |-> GoodsOf(i, s)], OrderIds)
HandlerCredits(p) == SumFunctionOnSet([t \in Threads |-> CreditsHeld(t, p)], Threads)
HandlerGoods(s) == SumFunctionOnSet([t \in Threads |-> GoodsHeld(t, s)], Threads)
Incoming(s) == SumFunctionOnSet([r \in Stations |-> aboard[r][s]], Stations)

\* What one order holds is never negative.
LEMMA OrderHolds ==
  ASSUME TypeOK, OrdersSound, NEW i \in OrderIds
  PROVE  /\ CreditsReservedBy(i) \in Nat /\ CreditsReturning(i) \in Nat
         /\ GoodsReservedBy(i) \in Nat /\ GoodsBack(i) \in Nat
         /\ \A p : CreditsOf(i, p) \in Nat
         /\ \A s : GoodsOf(i, s) \in Nat
<1>1. orders[i] \in OrderRecord /\ Remaining(orders[i]) \in Nat
  BY OrderTypes
<1>2. orders[i].type = "limit" => orders[i].price \in Nat
  BY MarketAssumption DEF OrdersSound
<1>3. CreditBack(i) \in Nat /\ GoodsBack(i) \in Nat
  BY BackTypes
<1>4. CreditsReservedBy(i) \in Nat
  BY <1>1, <1>2 DEF CreditsReservedBy
<1>5. CreditsReturning(i) \in Nat
  BY <1>3 DEF CreditsReturning
<1>6. GoodsReservedBy(i) \in Nat
  BY <1>1 DEF GoodsReservedBy
<1>7. \A p : CreditsOf(i, p) \in Nat
  BY <1>4, <1>5 DEF CreditsOf
<1>8. \A s : GoodsOf(i, s) \in Nat
  BY <1>3, <1>6 DEF GoodsOf
<1> QED BY <1>3, <1>4, <1>5, <1>6, <1>7, <1>8

\* There are finitely many orders.
LEMMA OrdersFinite == TypeOK => IsFiniteSet(OrderIds)
<1> SUFFICES ASSUME TypeOK PROVE IsFiniteSet(OrderIds)
  OBVIOUS
<1>1. Len(orders) \in Int /\ 1 \in Int
  BY DEF TypeOK
<1> QED BY <1>1, FS_Interval DEF OrderIds

\* What the admin refunds are orders.
LEMMA RefundIds == TypeOK => admin.refunds \in SUBSET OrderIds
  BY DEF TypeOK, AdminRecord, AdminIdle

\* The sums of what is reserved and of what the admin refunds are one sum over the orders.
LEMMA OrderSums ==
  ASSUME TypeOK, OrdersSound
  PROVE  /\ \A p \in Players :
              OrderCredits(p) = SumFunctionOnSet([i \in OrderIds |-> CreditsReservedBy(i)], PlacedBy(p))
                + SumFunctionOnSet([i \in OrderIds |-> CreditsReturning(i)], admin.refunds \cap PlacedBy(p))
         /\ \A s \in Stations :
              OrderGoods(s) = SumFunctionOnSet([i \in OrderIds |-> GoodsReservedBy(i)], PlacedAt(s))
                + SumFunctionOnSet([i \in OrderIds |-> GoodsBack(i)], admin.refunds \cap PlacedAt(s))
<1> DEFINE f == [i \in OrderIds |-> CreditsReservedBy(i)]
           g == [i \in OrderIds |-> CreditsReturning(i)]
           k == [i \in OrderIds |-> GoodsReservedBy(i)]
           l == [i \in OrderIds |-> GoodsBack(i)]
<1>1. IsFiniteSet(OrderIds) /\ admin.refunds \in SUBSET OrderIds
  <2>1. IsFiniteSet(OrderIds)
    BY OrdersFinite
  <2> QED BY <2>1, RefundIds
<1>2. /\ \A i \in OrderIds : f[i] = CreditsReservedBy(i) /\ g[i] = CreditsReturning(i)
                             /\ k[i] = GoodsReservedBy(i) /\ l[i] = GoodsBack(i)
      /\ \A i \in OrderIds : f[i] \in Int /\ g[i] \in Int
      /\ \A i \in OrderIds : k[i] \in Int /\ l[i] \in Int
  BY OrderHolds
<1> HIDE DEF f, g, k, l
<1>3. ASSUME NEW p \in Players
      PROVE  OrderCredits(p) = SumFunctionOnSet(f, PlacedBy(p))
                                 + SumFunctionOnSet(g, admin.refunds \cap PlacedBy(p))
  <2> DEFINE h == [i \in OrderIds |-> CreditsOf(i, p)]
             A == PlacedBy(p)
             R == admin.refunds
  <2>1. A \in SUBSET OrderIds /\ R \in SUBSET OrderIds /\ \A i \in OrderIds : i \in A <=> orders[i].player = p
    BY <1>1 DEF PlacedBy
  <2>2. \A i \in OrderIds : h[i] = IF i \in A THEN f[i] + (IF i \in R THEN g[i] ELSE 0) ELSE 0
    BY <1>2, <2>1 DEF CreditsOf
  <2>3. OrderCredits(p) = SumFunctionOnSet(h, OrderIds)
    BY DEF OrderCredits
  <2> HIDE DEF h, A, R
  <2>4. \A i \in OrderIds : f[i] \in Int /\ g[i] \in Int
    BY <1>2
  <2>5. IsFiniteSet(OrderIds) /\ A \in SUBSET OrderIds /\ R \in SUBSET OrderIds
    BY <1>1, <2>1
  <2>6. SumFunctionOnSet(f, A) + SumFunctionOnSet(g, R \cap A) = SumFunctionOnSet(h, OrderIds)
    <3>1. Joins(h, f, g, A, R, OrderIds)
      BY <2>2, <2>4, <2>5 DEF Joins
    <3> QED BY <3>1, OneSum
  <2> QED BY <2>3, <2>6 DEF A, R
<1>4. ASSUME NEW s \in Stations
      PROVE  OrderGoods(s) = SumFunctionOnSet(k, PlacedAt(s))
                               + SumFunctionOnSet(l, admin.refunds \cap PlacedAt(s))
  <2> DEFINE h == [i \in OrderIds |-> GoodsOf(i, s)]
             A == PlacedAt(s)
             R == admin.refunds
  <2>1. A \in SUBSET OrderIds /\ R \in SUBSET OrderIds /\ \A i \in OrderIds : i \in A <=> orders[i].station = s
    BY <1>1 DEF PlacedAt
  <2>2. \A i \in OrderIds : h[i] = IF i \in A THEN k[i] + (IF i \in R THEN l[i] ELSE 0) ELSE 0
    BY <1>2, <2>1 DEF GoodsOf
  <2>3. OrderGoods(s) = SumFunctionOnSet(h, OrderIds)
    BY DEF OrderGoods
  <2> HIDE DEF h, A, R
  <2>4. \A i \in OrderIds : k[i] \in Int /\ l[i] \in Int
    BY <1>2
  <2>5. IsFiniteSet(OrderIds) /\ A \in SUBSET OrderIds /\ R \in SUBSET OrderIds
    BY <1>1, <2>1
  <2>6. SumFunctionOnSet(k, A) + SumFunctionOnSet(l, R \cap A) = SumFunctionOnSet(h, OrderIds)
    <3>1. Joins(h, k, l, A, R, OrderIds)
      BY <2>2, <2>4, <2>5 DEF Joins
    <3> QED BY <3>1, OneSum
  <2> QED BY <2>3, <2>6 DEF A, R
<1> QED BY <1>3, <1>4 DEF f, g, k, l

-----------------------------------------------------------------------------
(* What a handler holds, as a function of the orders and of the handler *)

\* What a trade of the handler of order i still brings player p.
Flow(os, i, tr, p) ==
  (IF os[tr.sell].player = p THEN tr.price * tr.quantity ELSE 0) -
  (IF os[tr.buy].player # p \/ os[i].side = "sell" THEN 0
   ELSE IF os[tr.buy].type = "market" THEN tr.price * tr.quantity
   ELSE (tr.price - os[tr.buy].price) * tr.quantity)
Flows(os, i, q, p) == SumFunctionOnSet([k \in 1..Len(q) |-> Flow(os, i, q[k], p)], 1..Len(q))

\* The goods a trade still brings station s.
Bought(os, tr, s) == IF os[tr.buy].station = s THEN tr.quantity ELSE 0
Boughts(os, q, s) == SumFunctionOnSet([k \in 1..Len(q) |-> Bought(os, q[k], s)], 1..Len(q))

\* The trades a handler has still to settle with the players.
Unsettled(h) == IF h.pc = "shipping" THEN Tail(h.trades) ELSE h.trades

\* What a cancelled order gives back.
OwedCredits(o) ==
  IF o.type = "limit" /\ o.side = "buy" /\ o.price # NoPrice THEN o.price * Remaining(o) ELSE 0
OwedGoods(o) == IF o.side = "sell" THEN Remaining(o) ELSE 0

\* What handler h holds for player p, and for station s, given the orders.
HeldBy(os, h, p) ==
  IF h.pc = "reserved"
  THEN IF h.req.player = p /\ h.req.side = "buy" /\ h.req.type = "limit"
       THEN h.req.price * h.req.quantity ELSE 0
  ELSE IF h.pc = "refunding"
  THEN IF os[h.order].player = p THEN OwedCredits(os[h.order]) ELSE 0
  ELSE Flows(os, h.order, Unsettled(h), p)

GoodsBy(os, h, s) ==
  IF h.pc = "reserved"
  THEN IF h.req.station = s /\ h.req.side = "sell" THEN h.req.quantity ELSE 0
  ELSE IF h.pc = "refunding"
  THEN IF os[h.order].station = s THEN OwedGoods(os[h.order]) ELSE 0
  ELSE Boughts(os, h.trades, s)
       + IF h.pc = "returning" /\ os[h.order].station = s THEN Remaining(os[h.order]) ELSE 0

\* These say what the module says.
LEMMA HeldIs ==
  /\ \A t, p : CreditsHeld(t, p) = HeldBy(orders, handler[t], p)
  /\ \A t, s : GoodsHeld(t, s) = GoodsBy(orders, handler[t], s)
  /\ \A i : CreditsReturning(i) = OwedCredits(orders[i])
  /\ \A i : GoodsBack(i) = OwedGoods(orders[i])
<1>1. \A i : CreditsReturning(i) = OwedCredits(orders[i])
  BY DEF CreditsReturning, CreditBack, OwedCredits
<1>2. \A i : GoodsBack(i) = OwedGoods(orders[i])
  BY DEF GoodsBack, OwedGoods
<1>3. ASSUME NEW t, NEW p PROVE CreditsHeld(t, p) = HeldBy(orders, handler[t], p)
  BY <1>1 DEF CreditsHeld, HeldBy, Flows, Flow, Unsettled
<1>4. ASSUME NEW t, NEW s PROVE GoodsHeld(t, s) = GoodsBy(orders, handler[t], s)
  BY <1>2 DEF GoodsHeld, GoodsBy, Boughts, Bought
<1> QED BY <1>1, <1>2, <1>3, <1>4

\* And they do after a step.
LEMMA HeldNext ==
  /\ \A t, p : CreditsHeld(t, p)' = HeldBy(orders', handler'[t], p)
  /\ \A t, s : GoodsHeld(t, s)' = GoodsBy(orders', handler'[t], s)
<1>1. \A i : CreditsReturning(i)' = OwedCredits(orders'[i])
  BY DEF CreditsReturning, CreditBack, OwedCredits
<1>2. \A i : GoodsBack(i)' = OwedGoods(orders'[i])
  BY DEF GoodsBack, OwedGoods
<1>3. ASSUME NEW t, NEW p PROVE CreditsHeld(t, p)' = HeldBy(orders', handler'[t], p)
  BY DEF CreditsHeld, HeldBy, Flows, Flow, Unsettled, CreditsReturning, CreditBack, OwedCredits
<1>4. ASSUME NEW t, NEW s PROVE GoodsHeld(t, s)' = GoodsBy(orders', handler'[t], s)
  BY DEF GoodsHeld, GoodsBy, Boughts, Bought, GoodsBack, OwedGoods
<1> QED BY <1>3, <1>4

-----------------------------------------------------------------------------
(* Queues of trades *)

\* A queue of trades of order i.
TradesOf(i, q) ==
  /\ q \in Seq(TradeRecord)
  /\ \A k \in 1..Len(q) : Proper(q[k]) /\ i \in {q[k].buy, q[k].sell}

\* What a trade brings is a number.
LEMMA FlowTypes ==
  ASSUME TypeOK, OrdersSound, NEW tr \in TradeRecord, Proper(tr)
  PROVE  /\ \A i, p : Flow(orders, i, tr, p) \in Int
         /\ \A s : Bought(orders, tr, s) \in Nat
<1>1. tr.price \in Nat /\ tr.quantity \in Nat
  BY MarketAssumption DEF TradeRecord
<1>2. tr.buy \in OrderIds /\ tr.sell \in OrderIds
  BY DEF Proper
<1>3. orders[tr.buy].type \in {"limit", "market"} /\ (orders[tr.buy].type = "limit" => orders[tr.buy].price \in Nat)
  BY <1>2, OrderTypes, OrderFields, MarketAssumption DEF OrdersSound
<1>4. tr.price * tr.quantity \in Int
  BY <1>1
<1>5. orders[tr.buy].type # "market" => (tr.price - orders[tr.buy].price) * tr.quantity \in Int
  BY <1>1, <1>3
<1>6. \A i, p : Flow(orders, i, tr, p) \in Int
  BY <1>4, <1>5 DEF Flow
<1> QED BY <1>1, <1>6 DEF Bought

\* What settling a trade brings a player is what the trade was to bring.
LEMMA FlowDue ==
  ASSUME TypeOK, NEW tr, Proper(tr), NEW i \in {tr.buy, tr.sell}, NEW p
  PROVE  Due(i, tr, p) = Flow(orders, i, tr, p)
<1>1. /\ orders[tr.buy].side = "buy" /\ orders[tr.sell].side = "sell"
      /\ tr.buy \in OrderIds /\ orders[tr.buy].type \in {"limit", "market"}
  BY OrderTypes, OrderFields DEF Proper
<1>2. CASE i = tr.buy
  BY <1>1, <1>2 DEF Due, Flow
<1>3. CASE i = tr.sell
  BY <1>1, <1>3 DEF Due, Flow
<1> QED BY <1>2, <1>3

\* The terms of a trade do not change.
LEMMA FlowKept ==
  ASSUME Sound, [Next]_vars, NEW tr, Proper(tr), NEW i \in {tr.buy, tr.sell}
  PROVE  /\ \A p : Flow(orders', i, tr, p) = Flow(orders, i, tr, p)
         /\ \A s : Bought(orders', tr, s) = Bought(orders, tr, s)
<1>1. tr.buy \in OrderIds /\ tr.sell \in OrderIds /\ i \in OrderIds
  BY DEF Proper
<1>2. SameOrder(orders'[tr.buy], orders[tr.buy]) /\ SameOrder(orders'[tr.sell], orders[tr.sell])
      /\ SameOrder(orders'[i], orders[i])
  BY <1>1, OrdersKept
<1> QED BY <1>2 DEF Flow, Bought, SameOrder

\* A step does not change what a queue of trades brings.
LEMMA FlowsKept ==
  ASSUME Sound, [Next]_vars, NEW q, NEW i, TradesOf(i, q)
  PROVE  /\ \A p : Flows(orders', i, q, p) = Flows(orders, i, q, p)
         /\ \A s : Boughts(orders', q, s) = Boughts(orders, q, s)
<1>1. ASSUME NEW k \in 1..Len(q)
      PROVE  /\ \A p : Flow(orders', i, q[k], p) = Flow(orders, i, q[k], p)
             /\ \A s : Bought(orders', q[k], s) = Bought(orders, q[k], s)
  BY FlowKept DEF TradesOf
<1>2. ASSUME NEW p PROVE Flows(orders', i, q, p) = Flows(orders, i, q, p)
  <2>1. [k \in 1..Len(q) |-> Flow(orders', i, q[k], p)] = [k \in 1..Len(q) |-> Flow(orders, i, q[k], p)]
    BY <1>1
  <2> QED BY <2>1, Zenon DEF Flows
<1>3. ASSUME NEW s PROVE Boughts(orders', q, s) = Boughts(orders, q, s)
  <2>1. [k \in 1..Len(q) |-> Bought(orders', q[k], s)] = [k \in 1..Len(q) |-> Bought(orders, q[k], s)]
    BY <1>1
  <2> QED BY <2>1, Zenon DEF Boughts
<1> QED BY <1>2, <1>3

\* What a queue of trades brings is a number.
LEMMA FlowsTypes ==
  ASSUME TypeOK, OrdersSound, NEW q, NEW i, TradesOf(i, q)
  PROVE  /\ \A p : Flows(orders, i, q, p) \in Int
         /\ \A s : Boughts(orders, q, s) \in Nat
<1>1. IsFiniteSet(1..Len(q)) /\ Len(q) \in Nat
  BY FS_Interval DEF TradesOf
<1>2. \A k \in 1..Len(q) : q[k] \in TradeRecord /\ Proper(q[k])
  BY ElementOfSeq DEF TradesOf
<1>3. ASSUME NEW p PROVE Flows(orders, i, q, p) \in Int
  <2> DEFINE f == [k \in 1..Len(q) |-> Flow(orders, i, q[k], p)]
  <2>1. \A k \in 1..Len(q) : f[k] \in Int
    BY <1>2, FlowTypes
  <2> HIDE DEF f
  <2>2. SumFunctionOnSet(f, 1..Len(q)) \in Int
    BY <1>1, <2>1, SumType
  <2> QED BY <2>2 DEF Flows, f
<1>4. ASSUME NEW s PROVE Boughts(orders, q, s) \in Nat
  <2> DEFINE f == [k \in 1..Len(q) |-> Bought(orders, q[k], s)]
  <2>1. \A k \in 1..Len(q) : f[k] \in Nat
    BY <1>2, FlowTypes
  <2> HIDE DEF f
  <2>2. SumFunctionOnSet(f, 1..Len(q)) \in Nat
    BY <1>1, <2>1, SumNatural
  <2> QED BY <2>2 DEF Boughts, f
<1> QED BY <1>3, <1>4

\* One more trade at the end of the queue.
OneMore(more, q, tr) == q \in Seq(TradeRecord) /\ tr \in TradeRecord /\ more = Append(q, tr)

\* A queue with one trade more brings what that trade brings, too.
LEMMA FlowsAppended ==
  ASSUME NEW os, NEW i, NEW q, NEW tr, NEW more, OneMore(more, q, tr)
  PROVE  /\ \A p : (\A k \in 1..Len(more) : Flow(os, i, more[k], p) \in Int)
                     => Flows(os, i, more, p) = Flows(os, i, q, p) + Flow(os, i, tr, p)
         /\ \A s : (\A k \in 1..Len(more) : Bought(os, more[k], s) \in Int)
                     => Boughts(os, more, s) = Boughts(os, q, s) + Bought(os, tr, s)
<1>1. PICK n \in Nat : n = Len(q)
  BY DEF OneMore
<1>2. Len(more) = n + 1 /\ more[n + 1] = tr /\ \A k \in 1..n : more[k] = q[k]
  BY <1>1 DEF OneMore
<1>3. ASSUME NEW p, \A k \in 1..Len(more) : Flow(os, i, more[k], p) \in Int
      PROVE  Flows(os, i, more, p) = Flows(os, i, q, p) + Flow(os, i, tr, p)
  <2> DEFINE f == [k \in 1..n |-> Flow(os, i, q[k], p)]
             g == [k \in 1..(n + 1) |-> Flow(os, i, more[k], p)]
  <2>1. /\ \A k \in 1..(n + 1) : g[k] \in Int
        /\ g[n + 1] = Flow(os, i, tr, p)
        /\ \A k \in 1..n : f[k] = g[k]
    BY <1>2, <1>3
  <2>2. Flows(os, i, more, p) = SumFunctionOnSet(g, 1..(n + 1)) /\ Flows(os, i, q, p) = SumFunctionOnSet(f, 1..n)
    BY <1>1, <1>2 DEF Flows
  <2> HIDE DEF f, g
  <2>3. SumFunctionOnSet(g, 1..(n + 1)) = SumFunctionOnSet(f, 1..n) + g[n + 1]
    BY <2>1, SumAppended
  <2> QED BY <2>1, <2>2, <2>3
<1>4. ASSUME NEW s, \A k \in 1..Len(more) : Bought(os, more[k], s) \in Int
      PROVE  Boughts(os, more, s) = Boughts(os, q, s) + Bought(os, tr, s)
  <2> DEFINE f == [k \in 1..n |-> Bought(os, q[k], s)]
             g == [k \in 1..(n + 1) |-> Bought(os, more[k], s)]
  <2>1. /\ \A k \in 1..(n + 1) : g[k] \in Int
        /\ g[n + 1] = Bought(os, tr, s)
        /\ \A k \in 1..n : f[k] = g[k]
    BY <1>2, <1>4
  <2>2. Boughts(os, more, s) = SumFunctionOnSet(g, 1..(n + 1)) /\ Boughts(os, q, s) = SumFunctionOnSet(f, 1..n)
    BY <1>1, <1>2 DEF Boughts
  <2> HIDE DEF f, g
  <2>3. SumFunctionOnSet(g, 1..(n + 1)) = SumFunctionOnSet(f, 1..n) + g[n + 1]
    BY <2>1, SumAppended
  <2> QED BY <2>1, <2>2, <2>3
<1> QED BY <1>3, <1>4

\* The first trade of the queue and the others.
LEMMA FlowsShifted ==
  ASSUME TypeOK, OrdersSound, NEW i, NEW q, TradesOf(i, q), q # <<>>
  PROVE  /\ \A p : Flows(orders, i, q, p) = Flow(orders, i, Head(q), p) + Flows(orders, i, Tail(q), p)
         /\ \A s : Boughts(orders, q, s) = Bought(orders, Head(q), s) + Boughts(orders, Tail(q), s)
<1>q. q \in Seq(TradeRecord) /\ \A k \in 1..Len(q) : q[k] \in TradeRecord /\ Proper(q[k])
  BY ElementOfSeq DEF TradesOf
<1>t. \A k \in 1..Len(q) : /\ \A p : Flow(orders, i, q[k], p) \in Int
                             /\ \A s : Bought(orders, q[k], s) \in Int
  BY <1>q, FlowTypes
<1>r. PICK rest : rest = Tail(q)
  OBVIOUS
<1>1. PICK n \in Nat : n = Len(q) - 1
  BY <1>q
<1>2. Len(q) = n + 1 /\ Len(rest) = n /\ q[1] = Head(q) /\ \A k \in 1..n : rest[k] = q[k + 1]
  BY <1>q, <1>r, <1>1
<1>3. ASSUME NEW p
      PROVE  Flows(orders, i, q, p) = Flow(orders, i, Head(q), p) + Flows(orders, i, rest, p)
  <2> DEFINE f == [k \in 1..(n + 1) |-> Flow(orders, i, q[k], p)]
             g == [k \in 1..n |-> Flow(orders, i, rest[k], p)]
  <2>1. /\ \A k \in 1..(n + 1) : f[k] \in Int
        /\ f[1] = Flow(orders, i, Head(q), p)
    BY <1>t, <1>2
  <2>2. \A k \in 1..n : g[k] = f[k + 1]
    BY <1>2
  <2>3. Flows(orders, i, q, p) = SumFunctionOnSet(f, 1..(n + 1)) /\ Flows(orders, i, rest, p) = SumFunctionOnSet(g, 1..n)
    BY <1>2 DEF Flows
  <2> HIDE DEF f, g
  <2>4. SumFunctionOnSet(f, 1..(n + 1)) = f[1] + SumFunctionOnSet(g, 1..n)
    BY <2>1, <2>2, SumShifted
  <2> QED BY <2>1, <2>3, <2>4
<1>4. ASSUME NEW s
      PROVE  Boughts(orders, q, s) = Bought(orders, Head(q), s) + Boughts(orders, rest, s)
  <2> DEFINE f == [k \in 1..(n + 1) |-> Bought(orders, q[k], s)]
             g == [k \in 1..n |-> Bought(orders, rest[k], s)]
  <2>1. /\ \A k \in 1..(n + 1) : f[k] \in Int
        /\ f[1] = Bought(orders, Head(q), s)
    BY <1>t, <1>2
  <2>2. \A k \in 1..n : g[k] = f[k + 1]
    BY <1>2
  <2>3. Boughts(orders, q, s) = SumFunctionOnSet(f, 1..(n + 1)) /\ Boughts(orders, rest, s) = SumFunctionOnSet(g, 1..n)
    BY <1>2 DEF Boughts
  <2> HIDE DEF f, g
  <2>4. SumFunctionOnSet(f, 1..(n + 1)) = f[1] + SumFunctionOnSet(g, 1..n)
    BY <2>1, <2>2, SumShifted
  <2> QED BY <2>1, <2>3, <2>4
<1> QED BY <1>r, <1>3, <1>4

-----------------------------------------------------------------------------
(* What the handlers hold *)

\* The rest of a queue of trades is one, and its head is a trade.
LEMMA TailOf ==
  ASSUME NEW i, NEW q, TradesOf(i, q), q # <<>>
  PROVE  TradesOf(i, Tail(q)) /\ Head(q) \in TradeRecord /\ Proper(Head(q)) /\ i \in {Head(q).buy, Head(q).sell}
<1>r. PICK rest : rest = Tail(q)
  OBVIOUS
<1>1. /\ rest \in Seq(TradeRecord) /\ Len(rest) = Len(q) - 1 /\ Len(q) \in Nat \ {0}
      /\ Head(q) = q[1] /\ q[1] \in TradeRecord
      /\ \A k \in 1..Len(rest) : rest[k] = q[k + 1]
  BY <1>r DEF TradesOf
<1>2. \A k \in 1..Len(rest) : k + 1 \in 1..Len(q)
  BY <1>1
<1>3. TradesOf(i, rest)
  BY <1>1, <1>2, Zenon DEF TradesOf
<1>4. 1 \in 1..Len(q)
  BY <1>1
<1> QED BY <1>r, <1>1, <1>3, <1>4 DEF TradesOf

\* The trades a handler has are proper trades of its order.
LEMMA WellTrades ==
  ASSUME NEW h, Well(h)
  PROVE  TradesOf(h.order, h.trades) /\ TradesOf(h.order, Unsettled(h))
<1>1. h.trades \in Seq(TradeRecord)
  BY DEF Well, WellTyped
<1>2. TradesOf(h.order, h.trades)
  BY <1>1 DEF Well, TradesOf
<1>3. CASE h.pc = "shipping"
  BY <1>2, <1>3, TailOf DEF Well, Unsettled
<1> QED BY <1>2, <1>3 DEF Unsettled

\* Every handler is in a proper state.
LEMMA Wells == Sound => \A u \in Threads : Well(handler[u])
<1> SUFFICES ASSUME Sound PROVE \A u \in Threads : Well(handler[u])
  OBVIOUS
<1>1. handler \in [Threads -> [pc : PCs, req : Body \cup {NoRequest}, order : 0..Len(orders),
                               trades : Seq(TradeRecord)]]
  BY DEF Sound, TypeOK
<1>2. HandlersSound /\ TradesSound /\ TradesWithinLimits
  BY DEF Sound
<1>3. DOMAIN handler = Threads /\ handler = [u \in Threads |-> handler[u]]
  BY <1>1
<1> QED BY <1>1, <1>2, <1>3, HandlersWell

\* What is owed for an order is a natural number.
LEMMA OwedTypes ==
  ASSUME TypeOK, OrdersSound, NEW i \in OrderIds
  PROVE  OwedCredits(orders[i]) \in Nat /\ OwedGoods(orders[i]) \in Nat
  BY OrderHolds, HeldIs

\* What a handler holds is a number.
LEMMA HeldTypes ==
  ASSUME TypeOK, OrdersSound, NEW h, Well(h)
  PROVE  /\ \A p : HeldBy(orders, h, p) \in Int
         /\ \A s : GoodsBy(orders, h, s) \in Nat
<1>1. TradesOf(h.order, h.trades) /\ TradesOf(h.order, Unsettled(h))
  BY WellTrades
<1>2. /\ \A p : Flows(orders, h.order, Unsettled(h), p) \in Int
      /\ \A s : Boughts(orders, h.trades, s) \in Nat
  BY <1>1, FlowsTypes
<1>3. CASE h.pc = "reserved"
  <2>1. h.req \in Body
    BY <1>3 DEF Well
  <2>2. h.req.quantity \in Nat /\ (h.req.type = "limit" => h.req.price \in Nat)
    BY <2>1, MarketAssumption DEF Body
  <2> QED BY <1>3, <2>2 DEF HeldBy, GoodsBy
<1>4. CASE h.pc = "refunding"
  <2>1. h.order \in OrderIds
    BY <1>4 DEF Well
  <2>2. OwedCredits(orders[h.order]) \in Nat /\ OwedGoods(orders[h.order]) \in Nat
    BY <2>1, OwedTypes
  <2> QED BY <1>4, <2>2 DEF HeldBy, GoodsBy
<1>5. CASE h.pc = "returning"
  <2>1. h.order \in OrderIds
    BY <1>5 DEF Well
  <2>2. Remaining(orders[h.order]) \in Nat
    BY <2>1, OrderTypes
  <2> QED BY <1>2, <1>5, <2>2 DEF HeldBy, GoodsBy
<1>6. CASE h.pc \notin {"reserved", "refunding", "returning"}
  BY <1>2, <1>6 DEF HeldBy, GoodsBy
<1> QED BY <1>3, <1>4, <1>5, <1>6

\* Only an order that is being matched or waits in the book is filled.
LEMMA FilledKept ==
  ASSUME Sound, [Next]_vars
  PROVE  \A j \in OrderIds : ~Matching(j) /\ ~InBook(j) => orders'[j].filled = orders[j].filled
<1>1. TypeOK
  BY DEF Sound
<1>2. ASSUME NEW t \in Threads, NEW i, NEW r, NEW p, NEW n, Deal(t, i, r, p, n)
      PROVE  \A j \in OrderIds : ~Matching(j) /\ ~InBook(j) => orders'[j].filled = orders[j].filled
  <2>1. Matching(i)
    BY <1>2 DEF Deal, Matching
  <2>2. r \in OrderIds /\ orders[r].side \in Sides /\ p \in Prices
        /\ book[orders[r].side][p] # <<>> /\ r = Head(book[orders[r].side][p])
    BY <1>1, <1>2, OrderTypes, OrderFields DEF Deal
  <2>3. r \in Waiting(orders[r].side, p)
    BY <1>1, <2>2, WaitingTypes, TailQueue
  <2>4. InBook(r)
    BY <2>2, <2>3 DEF InBook
  <2> QED BY <1>1, <1>2, <2>1, <2>4, DealOrders
<1>3. ASSUME NEW t \in Threads, Insert(t)
      PROVE  \A j \in OrderIds : orders'[j].filled = orders[j].filled
  BY <1>3, InsertedOrder
<1>4. ASSUME NEW t \in Threads, Rest(t)
      PROVE  \A j \in OrderIds : orders'[j].filled = orders[j].filled
  BY <1>4, RestOrders
<1>5. ASSUME NEW ids, CancelStep(ids)
      PROVE  \A j \in OrderIds : orders'[j].filled = orders[j].filled
  BY <1>1, <1>5, CancelledOrders DEF CancelStep
<1>6. CASE ReturnGoods \/ Restart \/ Aside
  BY <1>6 DEF ReturnGoods, Restart, Aside, market
<1> QED BY <1>2, <1>3, <1>4, <1>5, <1>6, Steps

\* What a handler holds does not change while it waits.
LEMMA HeldKept ==
  ASSUME Settled, [Next]_vars, NEW u \in Threads, NEW h, h = handler[u]
  PROVE  /\ \A p : HeldBy(orders', h, p) = HeldBy(orders, h, p)
         /\ \A s : GoodsBy(orders', h, s) = GoodsBy(orders, h, s)
<1>1. Sound /\ RefundsSound /\ TypeOK /\ Well(h)
  BY Wells DEF Settled, Sound
<1>2. TradesOf(h.order, h.trades) /\ TradesOf(h.order, Unsettled(h))
  BY <1>1, WellTrades
<1>3. /\ \A p : Flows(orders', h.order, Unsettled(h), p) = Flows(orders, h.order, Unsettled(h), p)
      /\ \A s : Boughts(orders', h.trades, s) = Boughts(orders, h.trades, s)
  BY <1>1, <1>2, FlowsKept
<1>4. CASE h.pc = "refunding"
  <2>1. h.order \in OrderIds
    BY <1>1, <1>4 DEF Well
  <2>2. orders'[h.order] = orders[h.order]
    BY <1>1, <1>4, <2>1, CancelledKept DEF RefundsSound, Refunds, At
  <2> QED BY <1>4, <2>2 DEF HeldBy, GoodsBy
<1>5. CASE h.pc = "returning"
  <2>1. h.order \in OrderIds
    BY <1>1, <1>5 DEF Well
  <2>2. ~Matching(h.order) /\ ~InBook(h.order)
    BY <1>1, <1>5, <2>1 DEF RefundsSound, Refunds, At
  <2>3. orders'[h.order].filled = orders[h.order].filled /\ SameOrder(orders'[h.order], orders[h.order])
    BY <1>1, <2>1, <2>2, FilledKept, OrdersKept
  <2>4. Remaining(orders'[h.order]) = Remaining(orders[h.order])
        /\ orders'[h.order].station = orders[h.order].station
    BY <2>3 DEF Remaining, SameOrder
  <2> QED BY <1>3, <1>5, <2>4 DEF HeldBy, GoodsBy
<1>6. CASE h.pc \notin {"refunding", "returning"}
  BY <1>3, <1>6 DEF HeldBy, GoodsBy
<1> QED BY <1>4, <1>5, <1>6

\* The same, of the handlers there are.
LEMMA HeldInt ==
  Sound => \A u \in Threads : /\ \A p : CreditsHeld(u, p) \in Int
                              /\ \A s : GoodsHeld(u, s) \in Nat
  BY Wells, HeldTypes, HeldIs DEF Sound

\* And of the orders.
LEMMA OrderInt ==
  Sound => \A i \in OrderIds : /\ \A p : CreditsOf(i, p) \in Nat
                               /\ \A s : GoodsOf(i, s) \in Nat
  BY OrderHolds DEF Sound

\* And of both after a step.
LEMMA NextInt ==
  ASSUME Settled, [Next]_vars
  PROVE  /\ \A u \in Threads : /\ \A p : HeldBy(orders', handler'[u], p) \in Int
                               /\ \A s : GoodsBy(orders', handler'[u], s) \in Nat
         /\ \A i \in OrderIds' : (\A p : CreditsOf(i, p)' \in Nat) /\ (\A s : GoodsOf(i, s)' \in Nat)
<1>1. Sound'
  BY SoundStep DEF Settled
<1>2. \A u \in Threads : (\A p : CreditsHeld(u, p)' \in Int) /\ (\A s : GoodsHeld(u, s)' \in Nat)
  <2>1. (Sound => \A u \in Threads : /\ \A p : CreditsHeld(u, p) \in Int
                                     /\ \A s : GoodsHeld(u, s) \in Nat)'
    BY HeldInt, PTL
  <2> QED BY <1>1, <2>1
<1>3. \A i \in OrderIds' : (\A p : CreditsOf(i, p)' \in Nat) /\ (\A s : GoodsOf(i, s)' \in Nat)
  <2>1. (Sound => \A i \in OrderIds : /\ \A p : CreditsOf(i, p) \in Nat
                                      /\ \A s : GoodsOf(i, s) \in Nat)'
    BY OrderInt, PTL
  <2> QED BY <1>1, <2>1
<1> QED BY <1>2, <1>3, HeldNext

\* One handler takes a step.
LEMMA HandlersOne ==
  ASSUME Settled, [Next]_vars, NEW t \in Threads, \A u \in Threads \ {t} : handler'[u] = handler[u]
  PROVE  /\ \A p : HandlerCredits(p)' = HandlerCredits(p)
                     + (HeldBy(orders', handler'[t], p) - HeldBy(orders, handler[t], p))
         /\ \A s : HandlerGoods(s)' = HandlerGoods(s)
                     + (GoodsBy(orders', handler'[t], s) - GoodsBy(orders, handler[t], s))
<1>1. /\ \A u \in Threads : /\ \A p : HeldBy(orders', handler'[u], p) \in Int
                            /\ \A s : GoodsBy(orders', handler'[u], s) \in Int
      /\ \A u \in Threads : /\ \A p : HeldBy(orders, handler[u], p) \in Int
                            /\ \A s : GoodsBy(orders, handler[u], s) \in Int
  BY NextInt, HeldInt, HeldIs DEF Settled
<1>2. \A u \in Threads \ {t} : /\ \A p : HeldBy(orders', handler'[u], p) = HeldBy(orders, handler[u], p)
                               /\ \A s : GoodsBy(orders', handler'[u], s) = GoodsBy(orders, handler[u], s)
  BY HeldKept
<1>3. ASSUME NEW p
      PROVE  HandlerCredits(p)' = HandlerCredits(p)
               + (HeldBy(orders', handler'[t], p) - HeldBy(orders, handler[t], p))
  <2> DEFINE f == [u \in Threads |-> HeldBy(orders, handler[u], p)]
             g == [u \in Threads |-> HeldBy(orders', handler'[u], p)]
  <2>1. HandlerCredits(p) = SumFunctionOnSet(f, Threads)
    BY HeldIs DEF HandlerCredits
  <2>2. HandlerCredits(p)' = SumFunctionOnSet(g, Threads)
    BY HeldNext DEF HandlerCredits
  <2>3. DiffersAt(g, f, t, Threads)
    BY <1>1, <1>2, MarketAssumption DEF DiffersAt
  <2>4. g[t] = HeldBy(orders', handler'[t], p) /\ f[t] = HeldBy(orders, handler[t], p)
    OBVIOUS
  <2> HIDE DEF f, g
  <2> QED BY <2>1, <2>2, <2>3, <2>4, SumDiffers
<1>4. ASSUME NEW s
      PROVE  HandlerGoods(s)' = HandlerGoods(s)
               + (GoodsBy(orders', handler'[t], s) - GoodsBy(orders, handler[t], s))
  <2> DEFINE f == [u \in Threads |-> GoodsBy(orders, handler[u], s)]
             g == [u \in Threads |-> GoodsBy(orders', handler'[u], s)]
  <2>1. HandlerGoods(s) = SumFunctionOnSet(f, Threads)
    BY HeldIs DEF HandlerGoods
  <2>2. HandlerGoods(s)' = SumFunctionOnSet(g, Threads)
    BY HeldNext DEF HandlerGoods
  <2>3. DiffersAt(g, f, t, Threads)
    BY <1>1, <1>2, MarketAssumption DEF DiffersAt
  <2>4. g[t] = GoodsBy(orders', handler'[t], s) /\ f[t] = GoodsBy(orders, handler[t], s)
    OBVIOUS
  <2> HIDE DEF f, g
  <2> QED BY <2>1, <2>2, <2>3, <2>4, SumDiffers
<1> QED BY <1>3, <1>4

\* No handler does.
LEMMA HandlersNone ==
  ASSUME Settled, [Next]_vars, \A u \in Threads : handler'[u] = handler[u]
  PROVE  (\A p : HandlerCredits(p)' = HandlerCredits(p)) /\ (\A s : HandlerGoods(s)' = HandlerGoods(s))
<1>1. \A u \in Threads : /\ \A p : HeldBy(orders', handler'[u], p) = HeldBy(orders, handler[u], p)
                         /\ \A s : GoodsBy(orders', handler'[u], s) = GoodsBy(orders, handler[u], s)
  BY HeldKept
<1>2. ASSUME NEW p PROVE HandlerCredits(p)' = HandlerCredits(p)
  <2>1. [u \in Threads |-> CreditsHeld(u, p)'] = [u \in Threads |-> CreditsHeld(u, p)]
    BY <1>1, HeldIs, HeldNext
  <2> QED BY <2>1, Zenon DEF HandlerCredits
<1>3. ASSUME NEW s PROVE HandlerGoods(s)' = HandlerGoods(s)
  <2>1. [u \in Threads |-> GoodsHeld(u, s)'] = [u \in Threads |-> GoodsHeld(u, s)]
    BY <1>1, HeldIs, HeldNext
  <2> QED BY <2>1, Zenon DEF HandlerGoods
<1> QED BY <1>2, <1>3

\* What the orders hold does not change when it does not for any.
LEMMA OrdersEach ==
  ASSUME Settled, [Next]_vars, Len(orders') = Len(orders)
  PROVE  /\ \A p : (\A i \in OrderIds : CreditsOf(i, p)' = CreditsOf(i, p)) => OrderCredits(p)' = OrderCredits(p)
         /\ \A s : (\A i \in OrderIds : GoodsOf(i, s)' = GoodsOf(i, s)) => OrderGoods(s)' = OrderGoods(s)
<1>1. OrderIds' = OrderIds
  BY DEF OrderIds
<1>2. ASSUME NEW p, \A i \in OrderIds : CreditsOf(i, p)' = CreditsOf(i, p)
      PROVE  OrderCredits(p)' = OrderCredits(p)
  <2>1. [i \in OrderIds' |-> CreditsOf(i, p)'] = [i \in OrderIds |-> CreditsOf(i, p)]
    BY <1>1, <1>2
  <2> QED BY <1>1, <2>1, Zenon DEF OrderCredits
<1>3. ASSUME NEW s, \A i \in OrderIds : GoodsOf(i, s)' = GoodsOf(i, s)
      PROVE  OrderGoods(s)' = OrderGoods(s)
  <2>1. [i \in OrderIds' |-> GoodsOf(i, s)'] = [i \in OrderIds |-> GoodsOf(i, s)]
    BY <1>1, <1>3
  <2> QED BY <1>1, <2>1, Zenon DEF OrderGoods
<1> QED BY <1>2, <1>3

\* One order takes a step.
LEMMA OrdersOne ==
  ASSUME Settled, [Next]_vars, Len(orders') = Len(orders), NEW j \in OrderIds
  PROVE  /\ \A p : (\A i \in OrderIds \ {j} : CreditsOf(i, p)' = CreditsOf(i, p))
                     => OrderCredits(p)' = OrderCredits(p) + (CreditsOf(j, p)' - CreditsOf(j, p))
         /\ \A s : (\A i \in OrderIds \ {j} : GoodsOf(i, s)' = GoodsOf(i, s))
                     => OrderGoods(s)' = OrderGoods(s) + (GoodsOf(j, s)' - GoodsOf(j, s))
<1>1. OrderIds' = OrderIds /\ IsFiniteSet(OrderIds)
  <2>1. OrderIds' = OrderIds
    BY DEF OrderIds
  <2>2. IsFiniteSet(OrderIds)
    BY OrdersFinite DEF Settled, Sound
  <2> QED BY <2>1, <2>2
<1>2. \A i \in OrderIds : /\ \A p : CreditsOf(i, p) \in Int /\ CreditsOf(i, p)' \in Int
                          /\ \A s : GoodsOf(i, s) \in Int /\ GoodsOf(i, s)' \in Int
  BY <1>1, NextInt, OrderInt DEF Settled
<1>3. ASSUME NEW p, \A i \in OrderIds \ {j} : CreditsOf(i, p)' = CreditsOf(i, p)
      PROVE  OrderCredits(p)' = OrderCredits(p) + (CreditsOf(j, p)' - CreditsOf(j, p))
  <2> DEFINE f == [i \in OrderIds |-> CreditsOf(i, p)]
             g == [i \in OrderIds |-> CreditsOf(i, p)']
  <2>1. OrderCredits(p) = SumFunctionOnSet(f, OrderIds)
    BY DEF OrderCredits
  <2>2. OrderCredits(p)' = SumFunctionOnSet(g, OrderIds)
    BY <1>1 DEF OrderCredits
  <2>3. DiffersAt(g, f, j, OrderIds)
    BY <1>1, <1>2, <1>3 DEF DiffersAt
  <2>4. g[j] = CreditsOf(j, p)' /\ f[j] = CreditsOf(j, p)
    OBVIOUS
  <2> HIDE DEF f, g
  <2> QED BY <2>1, <2>2, <2>3, <2>4, SumDiffers
<1>4. ASSUME NEW s, \A i \in OrderIds \ {j} : GoodsOf(i, s)' = GoodsOf(i, s)
      PROVE  OrderGoods(s)' = OrderGoods(s) + (GoodsOf(j, s)' - GoodsOf(j, s))
  <2> DEFINE f == [i \in OrderIds |-> GoodsOf(i, s)]
             g == [i \in OrderIds |-> GoodsOf(i, s)']
  <2>1. OrderGoods(s) = SumFunctionOnSet(f, OrderIds)
    BY DEF OrderGoods
  <2>2. OrderGoods(s)' = SumFunctionOnSet(g, OrderIds)
    BY <1>1 DEF OrderGoods
  <2>3. DiffersAt(g, f, j, OrderIds)
    BY <1>1, <1>2, <1>4 DEF DiffersAt
  <2>4. g[j] = GoodsOf(j, s)' /\ f[j] = GoodsOf(j, s)
    OBVIOUS
  <2> HIDE DEF f, g
  <2> QED BY <2>1, <2>2, <2>3, <2>4, SumDiffers
<1> QED BY <1>3, <1>4

-----------------------------------------------------------------------------
(* The accounts *)

\* All the credits of a player, and all the goods of a station, by who keeps them.
LEMMA WealthIs ==
  Sound =>
    /\ \A p \in Players : /\ Wealth(p) = credits[p] + OrderCredits(p) + HandlerCredits(p)
                          /\ credits[p] \in Int /\ OrderCredits(p) \in Nat /\ HandlerCredits(p) \in Int
    /\ \A s \in Stations : /\ Goods(s) = stock[s] + Incoming(s) + OrderGoods(s) + HandlerGoods(s)
                           /\ stock[s] \in Nat /\ Incoming(s) \in Nat
                           /\ OrderGoods(s) \in Nat /\ HandlerGoods(s) \in Nat
<1> SUFFICES ASSUME Sound
             PROVE  /\ \A p \in Players :
                         /\ Wealth(p) = credits[p] + OrderCredits(p) + HandlerCredits(p)
                         /\ credits[p] \in Int /\ OrderCredits(p) \in Nat /\ HandlerCredits(p) \in Int
                    /\ \A s \in Stations :
                         /\ Goods(s) = stock[s] + Incoming(s) + OrderGoods(s) + HandlerGoods(s)
                         /\ stock[s] \in Nat /\ Incoming(s) \in Nat
                         /\ OrderGoods(s) \in Nat /\ HandlerGoods(s) \in Nat
  OBVIOUS
<1>1. TypeOK /\ OrdersSound
  BY DEF Sound
<1>2. IsFiniteSet(OrderIds) /\ IsFiniteSet(Threads) /\ IsFiniteSet(Stations)
  BY <1>1, OrdersFinite, MarketAssumption
<1>r. admin.refunds \in SUBSET OrderIds
  BY <1>1, RefundIds
<1>3. ASSUME NEW p \in Players
      PROVE  /\ Wealth(p) = credits[p] + OrderCredits(p) + HandlerCredits(p)
             /\ credits[p] \in Int /\ OrderCredits(p) \in Nat /\ HandlerCredits(p) \in Int
  <2>1. OrderCredits(p) \in Nat
    <3> DEFINE f == [i \in OrderIds |-> CreditsOf(i, p)]
    <3>1. \A i \in OrderIds : f[i] \in Nat
      BY OrderInt
    <3> HIDE DEF f
    <3>2. SumFunctionOnSet(f, OrderIds) \in Nat
      BY <1>2, <3>1, SumNatural
    <3> QED BY <3>2 DEF OrderCredits, f
  <2>2. HandlerCredits(p) \in Int
    <3> DEFINE f == [t \in Threads |-> CreditsHeld(t, p)]
    <3>1. \A t \in Threads : f[t] \in Int
      BY HeldInt
    <3> HIDE DEF f
    <3>2. SumFunctionOnSet(f, Threads) \in Int
      BY <1>2, <3>1, SumType
    <3> QED BY <3>2 DEF HandlerCredits, f
  <2>3. credits[p] \in Int
    BY <1>1 DEF TypeOK
  <2> DEFINE a == SumFunctionOnSet([i \in OrderIds |-> CreditsReservedBy(i)], PlacedBy(p))
             b == SumFunctionOnSet([i \in OrderIds |-> CreditsReturning(i)], admin.refunds \cap PlacedBy(p))
  <2>4. OrderCredits(p) = a + b
    BY <1>1, OrderSums
  <2>5. Wealth(p) = credits[p] + a + HandlerCredits(p) + b
    BY DEF Wealth, HandlerCredits
  <2>6. a \in Int /\ b \in Int
    <3> DEFINE f == [i \in OrderIds |-> CreditsReservedBy(i)]
               g == [i \in OrderIds |-> CreditsReturning(i)]
               A == PlacedBy(p)
               R == admin.refunds \cap PlacedBy(p)
    <3>1. A \in SUBSET OrderIds /\ R \in SUBSET OrderIds
      BY DEF PlacedBy
    <3>2. IsFiniteSet(A) /\ IsFiniteSet(R)
      BY <1>2, <3>1, FS_Subset
    <3>3. (\A i \in A : f[i] \in Int) /\ (\A i \in R : g[i] \in Int)
      BY <1>1, <3>1, OrderHolds
    <3> HIDE DEF f, g, A, R
    <3>4. SumFunctionOnSet(f, A) \in Int /\ SumFunctionOnSet(g, R) \in Int
      BY <3>2, <3>3, SumType
    <3> QED BY <3>4 DEF f, g, A, R
  <2> HIDE DEF a, b
  <2> QED BY <2>1, <2>2, <2>3, <2>4, <2>5, <2>6
<1>4. ASSUME NEW s \in Stations
      PROVE  /\ Goods(s) = stock[s] + Incoming(s) + OrderGoods(s) + HandlerGoods(s)
             /\ stock[s] \in Nat /\ Incoming(s) \in Nat
             /\ OrderGoods(s) \in Nat /\ HandlerGoods(s) \in Nat
  <2>1. OrderGoods(s) \in Nat
    <3> DEFINE f == [i \in OrderIds |-> GoodsOf(i, s)]
    <3>1. \A i \in OrderIds : f[i] \in Nat
      BY OrderInt
    <3> HIDE DEF f
    <3>2. SumFunctionOnSet(f, OrderIds) \in Nat
      BY <1>2, <3>1, SumNatural
    <3> QED BY <3>2 DEF OrderGoods, f
  <2>2. HandlerGoods(s) \in Nat
    <3> DEFINE f == [t \in Threads |-> GoodsHeld(t, s)]
    <3>1. \A t \in Threads : f[t] \in Nat
      BY HeldInt
    <3> HIDE DEF f
    <3>2. SumFunctionOnSet(f, Threads) \in Nat
      BY <1>2, <3>1, SumNatural
    <3> QED BY <3>2 DEF HandlerGoods, f
  <2>3. stock[s] \in Nat
    BY <1>1 DEF TypeOK
  <2>4. Incoming(s) \in Nat
    <3> DEFINE f == [r \in Stations |-> aboard[r][s]]
    <3>1. \A r \in Stations : f[r] \in Nat
      BY <1>1 DEF TypeOK
    <3> HIDE DEF f
    <3>2. SumFunctionOnSet(f, Stations) \in Nat
      BY <1>2, <3>1, SumNatural
    <3> QED BY <3>2 DEF Incoming, f
  <2> DEFINE a == SumFunctionOnSet([i \in OrderIds |-> GoodsReservedBy(i)], PlacedAt(s))
             b == SumFunctionOnSet([i \in OrderIds |-> GoodsBack(i)], admin.refunds \cap PlacedAt(s))
  <2>5. OrderGoods(s) = a + b
    BY <1>1, OrderSums
  <2>6. Goods(s) = stock[s] + Incoming(s) + a + HandlerGoods(s) + b
    BY DEF Goods, HandlerGoods, Incoming
  <2>7. a \in Int /\ b \in Int
    <3> DEFINE f == [i \in OrderIds |-> GoodsReservedBy(i)]
               g == [i \in OrderIds |-> GoodsBack(i)]
               A == PlacedAt(s)
               R == admin.refunds \cap PlacedAt(s)
    <3>1. A \in SUBSET OrderIds /\ R \in SUBSET OrderIds
      BY DEF PlacedAt
    <3>2. IsFiniteSet(A) /\ IsFiniteSet(R)
      BY <1>2, <3>1, FS_Subset
    <3>3. (\A i \in A : f[i] \in Int) /\ (\A i \in R : g[i] \in Int)
      BY <1>1, <3>1, OrderHolds
    <3> HIDE DEF f, g, A, R
    <3>4. SumFunctionOnSet(f, A) \in Int /\ SumFunctionOnSet(g, R) \in Int
      BY <3>2, <3>3, SumType
    <3> QED BY <3>4 DEF f, g, A, R
  <2> HIDE DEF a, b
  <2> QED BY <2>1, <2>2, <2>3, <2>4, <2>5, <2>6, <2>7
<1> QED BY <1>3, <1>4

\* The accounts after a step, in their parts.
LEMMA WealthNext ==
  ASSUME Settled, [Next]_vars
  PROVE  /\ \A p \in Players :
              /\ Wealth(p)' = credits'[p] + OrderCredits(p)' + HandlerCredits(p)'
              /\ credits'[p] \in Int /\ OrderCredits(p)' \in Nat /\ HandlerCredits(p)' \in Int
         /\ \A s \in Stations :
              /\ Goods(s)' = stock'[s] + Incoming(s)' + OrderGoods(s)' + HandlerGoods(s)'
              /\ stock'[s] \in Nat /\ Incoming(s)' \in Nat
              /\ OrderGoods(s)' \in Nat /\ HandlerGoods(s)' \in Nat
<1>1. Sound'
  BY SoundStep DEF Settled
<1>2. (Sound =>
        /\ \A p \in Players : /\ Wealth(p) = credits[p] + OrderCredits(p) + HandlerCredits(p)
                              /\ credits[p] \in Int /\ OrderCredits(p) \in Nat /\ HandlerCredits(p) \in Int
        /\ \A s \in Stations : /\ Goods(s) = stock[s] + Incoming(s) + OrderGoods(s) + HandlerGoods(s)
                               /\ stock[s] \in Nat /\ Incoming(s) \in Nat
                               /\ OrderGoods(s) \in Nat /\ HandlerGoods(s) \in Nat)'
  BY WealthIs, PTL
<1> QED BY <1>1, <1>2

\* How much the accounts change, from what changes in their parts.
LEMMA WealthChange ==
  ASSUME Settled, [Next]_vars
  PROVE  /\ \A p \in Players :
              Wealth(p)' = Wealth(p) + (credits'[p] - credits[p]) + (OrderCredits(p)' - OrderCredits(p))
                                     + (HandlerCredits(p)' - HandlerCredits(p))
         /\ \A s \in Stations :
              Goods(s)' = Goods(s) + (stock'[s] - stock[s]) + (Incoming(s)' - Incoming(s))
                                   + (OrderGoods(s)' - OrderGoods(s)) + (HandlerGoods(s)' - HandlerGoods(s))
  BY WealthIs, WealthNext DEF Settled

\* An order that nobody touches holds what it held.
LEMMA OrderKept ==
  ASSUME NEW i, orders'[i] = orders[i], i \in admin'.refunds <=> i \in admin.refunds
  PROVE  /\ \A p : CreditsOf(i, p)' = CreditsOf(i, p)
         /\ \A s : (Matching(i)' <=> Matching(i)) => GoodsOf(i, s)' = GoodsOf(i, s)
<1>1. CreditsReservedBy(i)' = CreditsReservedBy(i)
  BY DEF CreditsReservedBy
<1>2. CreditsReturning(i)' = CreditsReturning(i)
  BY DEF CreditsReturning, CreditBack
<1>3. GoodsBack(i)' = GoodsBack(i)
  BY DEF GoodsBack
<1>4. (Matching(i)' <=> Matching(i)) => GoodsReservedBy(i)' = GoodsReservedBy(i)
  BY DEF GoodsReservedBy
<1> QED BY <1>1, <1>2, <1>3, <1>4 DEF CreditsOf, GoodsOf

\* Without trades nothing is to be settled or shipped.
LEMMA NoTrades ==
  /\ \A os, i, p : Flows(os, i, <<>>, p) = 0
  /\ \A os, s : Boughts(os, <<>>, s) = 0
<1>1. 1..Len(<<>>) = {} /\ IsFiniteSet({})
  BY FS_EmptySet
<1>2. \A f : SumFunctionOnSet(f, {}) = 0
  BY <1>1, SumRecursive
<1> QED BY <1>1, <1>2 DEF Flows, Boughts

\* A handler that does nothing yet, or has not reserved anything, holds nothing.
LEMMA NothingHeld ==
  ASSUME NEW h, h.trades = <<>>, h.pc \notin {"reserved", "refunding", "returning", "shipping"}
  PROVE  (\A os, p : HeldBy(os, h, p) = 0) /\ (\A os, s : GoodsBy(os, h, s) = 0)
  BY NoTrades DEF HeldBy, GoodsBy, Unsettled

\* An idle handler holds nothing.
LEMMA IdleHolds == (\A os, p : HeldBy(os, Idle, p) = 0) /\ (\A os, s : GoodsBy(os, Idle, s) = 0)
  BY NoTrades DEF HeldBy, GoodsBy, Unsettled, Idle

\* A step of one handler that leaves the orders alone.
LEMMA HandlerAlone ==
  ASSUME Settled, [Next]_vars, NEW t \in Threads, \A u \in Threads \ {t} : handler'[u] = handler[u],
         orders' = orders, admin' = admin, handler[t].pc # "matching", handler'[t].pc # "matching"
  PROVE  /\ \A p \in Players :
              Wealth(p)' = Wealth(p) + (credits'[p] - credits[p])
                + (HeldBy(orders, handler'[t], p) - HeldBy(orders, handler[t], p))
         /\ \A s \in Stations :
              Goods(s)' = Goods(s) + (stock'[s] - stock[s]) + (Incoming(s)' - Incoming(s))
                + (GoodsBy(orders, handler'[t], s) - GoodsBy(orders, handler[t], s))
<1>1. \A i : Matching(i)' <=> Matching(i)
  BY DEF Matching, At
<1>2. /\ \A i, p : CreditsOf(i, p)' = CreditsOf(i, p)
      /\ \A i, s : GoodsOf(i, s)' = GoodsOf(i, s)
  BY <1>1, OrderKept
<1>3. (\A p : OrderCredits(p)' = OrderCredits(p)) /\ (\A s : OrderGoods(s)' = OrderGoods(s))
  BY <1>2, OrdersEach
<1>4. /\ \A p \in Players : OrderCredits(p) \in Int /\ HandlerCredits(p) \in Int
      /\ \A s \in Stations : OrderGoods(s) \in Int /\ HandlerGoods(s) \in Int
      /\ \A p : HeldBy(orders, handler'[t], p) \in Int /\ HeldBy(orders, handler[t], p) \in Int
      /\ \A s : GoodsBy(orders, handler'[t], s) \in Int /\ GoodsBy(orders, handler[t], s) \in Int
  <2>1. /\ \A p \in Players : OrderCredits(p) \in Int /\ HandlerCredits(p) \in Int
        /\ \A s \in Stations : OrderGoods(s) \in Int /\ HandlerGoods(s) \in Int
    BY WealthIs DEF Settled
  <2>2. /\ \A p : HeldBy(orders, handler[t], p) \in Int
        /\ \A s : GoodsBy(orders, handler[t], s) \in Int
    BY HeldInt, HeldIs DEF Settled
  <2>3. /\ \A p : HeldBy(orders, handler'[t], p) \in Int
        /\ \A s : GoodsBy(orders, handler'[t], s) \in Int
    BY NextInt
  <2> QED BY <2>1, <2>2, <2>3
<1>5. ASSUME NEW p \in Players
      PROVE  Wealth(p)' = Wealth(p) + (credits'[p] - credits[p])
                            + (HeldBy(orders, handler'[t], p) - HeldBy(orders, handler[t], p))
  <2>1. HandlerCredits(p)' = HandlerCredits(p)
          + (HeldBy(orders, handler'[t], p) - HeldBy(orders, handler[t], p))
    BY HandlersOne
  <2>2. Wealth(p)' = Wealth(p) + (credits'[p] - credits[p]) + (OrderCredits(p)' - OrderCredits(p))
                       + (HandlerCredits(p)' - HandlerCredits(p))
    BY WealthChange
  <2>3. Wealth(p) \in Int /\ credits'[p] \in Int /\ credits[p] \in Int
    BY WealthIs, WealthNext DEF Settled
  <2> QED BY <1>3, <1>4, <2>1, <2>2, <2>3
<1>6. ASSUME NEW s \in Stations
      PROVE  Goods(s)' = Goods(s) + (stock'[s] - stock[s]) + (Incoming(s)' - Incoming(s))
                           + (GoodsBy(orders, handler'[t], s) - GoodsBy(orders, handler[t], s))
  <2>1. HandlerGoods(s)' = HandlerGoods(s)
          + (GoodsBy(orders, handler'[t], s) - GoodsBy(orders, handler[t], s))
    BY HandlersOne
  <2>2. Goods(s)' = Goods(s) + (stock'[s] - stock[s]) + (Incoming(s)' - Incoming(s))
                      + (OrderGoods(s)' - OrderGoods(s)) + (HandlerGoods(s)' - HandlerGoods(s))
    BY WealthChange
  <2>3. Goods(s) \in Int /\ stock'[s] \in Int /\ stock[s] \in Int /\ Incoming(s) \in Int /\ Incoming(s)' \in Int
    BY WealthIs, WealthNext DEF Settled
  <2> QED BY <1>3, <1>4, <2>1, <2>2, <2>3
<1> QED BY <1>5, <1>6

\* No account changes.
Neutral ==
  /\ \A p \in Players : Wealth(p)' = Wealth(p)
  /\ \A s \in Stations : Goods(s)' = Goods(s)

\* What handler t holds changes as the accounts do.
LEMMA HandlerNeutral ==
  ASSUME Settled, [Next]_vars, NEW t \in Threads, \A u \in Threads \ {t} : handler'[u] = handler[u],
         orders' = orders, admin' = admin, handler[t].pc # "matching", handler'[t].pc # "matching"
  PROVE  /\ \A p \in Players :
              credits'[p] + HeldBy(orders, handler'[t], p) = credits[p] + HeldBy(orders, handler[t], p)
                => Wealth(p)' = Wealth(p)
         /\ \A s \in Stations :
              stock'[s] + Incoming(s)' + GoodsBy(orders, handler'[t], s)
                = stock[s] + Incoming(s) + GoodsBy(orders, handler[t], s)
                => Goods(s)' = Goods(s)
<1>1. /\ \A p \in Players : Wealth(p) \in Int /\ credits[p] \in Int
      /\ \A s \in Stations : Goods(s) \in Int /\ stock[s] \in Int /\ Incoming(s) \in Int
  BY WealthIs DEF Settled
<1>2. /\ \A p \in Players : credits'[p] \in Int
      /\ \A s \in Stations : stock'[s] \in Int /\ Incoming(s)' \in Int
  BY WealthNext
<1>3. /\ \A p : HeldBy(orders, handler[t], p) \in Int
      /\ \A s : GoodsBy(orders, handler[t], s) \in Int
  BY HeldInt, HeldIs DEF Settled
<1>4. /\ \A p : HeldBy(orders, handler'[t], p) \in Int
      /\ \A s : GoodsBy(orders, handler'[t], s) \in Int
  BY NextInt
<1> QED BY <1>1, <1>2, <1>3, <1>4, HandlerAlone

\* A request that is looked at, refused or answered moves nothing.
LEMMA PassAccounts ==
  ASSUME Settled, [Next]_vars, NEW t \in Threads,
         (\E b \in Body : Validate(t, b)) \/ Refuse(t) \/ Respond(t)
  PROVE  Neutral
<1>1. handler \in [Threads -> [pc : PCs, req : Body \cup {NoRequest}, order : 0..Len(orders),
                               trades : Seq(TradeRecord)]]
  BY DEF Settled, Sound, TypeOK
<1>2. /\ orders' = orders /\ admin' = admin /\ credits' = credits /\ stock' = stock /\ aboard' = aboard
      /\ \A u \in Threads \ {t} : handler'[u] = handler[u]
  BY <1>1 DEF Validate, Refuse, Respond, Finish, market, accounts, stations
<1>3. handler[t].trades = <<>> /\ handler[t].pc \in {"idle", "validated", "settling"}
  BY Wells DEF Validate, Refuse, Respond, Settled, Sound, Well, Keeping, At
<1>4. handler'[t].trades = <<>> /\ handler'[t].pc \in {"idle", "validated"}
  <2>1. ASSUME NEW b \in Body, Validate(t, b)
        PROVE  handler'[t].trades = <<>> /\ handler'[t].pc = "validated"
    <3>1. handler'[t] = [pc |-> "validated", req |-> b, order |-> 0, trades |-> <<>>]
      BY <1>1, <2>1 DEF Validate, Idle
    <3> QED BY <3>1
  <2>2. CASE Refuse(t) \/ Respond(t)
    <3>1. handler'[t] = [pc |-> "idle", req |-> NoRequest, order |-> 0, trades |-> <<>>]
      BY <1>1, <2>2 DEF Refuse, Respond, Finish, Idle
    <3> QED BY <3>1
  <2> QED BY <2>1, <2>2
<1>5. /\ \A p : HeldBy(orders, handler'[t], p) = HeldBy(orders, handler[t], p)
      /\ \A s : GoodsBy(orders, handler'[t], s) = GoodsBy(orders, handler[t], s)
  BY <1>3, <1>4, NothingHeld
<1>6. \A s : Incoming(s)' = Incoming(s)
  BY <1>2 DEF Incoming
<1> QED BY <1>2, <1>3, <1>4, <1>5, <1>6, HandlerNeutral DEF Neutral

\* A reservation moves from the account to the handler; goods of a station that is
\* gone are reserved from nowhere.
LEMMA ReserveAccounts ==
  ASSUME Settled, [Next]_vars, NEW t \in Threads, Reserve(t)
  PROVE  /\ \A p \in Players : Wealth(p)' = Wealth(p)
         /\ \A s \in Stations :
              \/ Goods(s)' = Goods(s)
              \/ /\ handler[t].req.side = "sell" /\ ~Exists(handler[t].req.station)
                 /\ Goods(s)' >= Goods(s)
<1>h. PICK h : h = handler[t]
  OBVIOUS
<1>b. PICK b : b = h.req
  OBVIOUS
<1>1. /\ handler \in [Threads -> [pc : PCs, req : Body \cup {NoRequest}, order : 0..Len(orders),
                                  trades : Seq(TradeRecord)]]
      /\ credits \in [Players -> Int] /\ stock \in [Stations -> Nat]
  BY DEF Settled, Sound, TypeOK
<1>2. orders' = orders /\ admin' = admin /\ aboard' = aboard /\ Goto(t, "reserved")
  BY DEF Reserve, market
<1>3. h.trades = <<>> /\ h.pc = "validated" /\ b \in Body
  BY <1>h, <1>b, Wells DEF Reserve, Settled, Sound, Well, Keeping, At
<1>4. /\ \A u \in Threads \ {t} : handler'[u] = handler[u]
      /\ handler'[t].pc = "reserved" /\ handler'[t].req = b
  BY <1>h, <1>b, <1>1, <1>2 DEF Goto
<1>5. /\ \A p : HeldBy(orders, h, p) = 0
      /\ \A s : GoodsBy(orders, h, s) = 0
  BY <1>3, NothingHeld
<1>6. /\ \A p : HeldBy(orders, handler'[t], p) =
                  IF b.player = p /\ b.side = "buy" /\ b.type = "limit" THEN b.price * b.quantity ELSE 0
      /\ \A s : GoodsBy(orders, handler'[t], s) =
                  IF b.station = s /\ b.side = "sell" THEN b.quantity ELSE 0
  BY <1>4 DEF HeldBy, GoodsBy
<1>7. \A s : Incoming(s)' = Incoming(s)
  BY <1>2 DEF Incoming
<1>8. /\ b.player \in Players /\ b.station \in Stations /\ b.side \in Sides /\ b.type \in {"limit", "market"}
      /\ b.quantity \in Nat /\ (b.type = "limit" => b.price \in Nat)
  BY <1>3, MarketAssumption DEF Body
<1>9. \A s \in Stations : Goods(s) \in Int /\ stock[s] \in Int /\ Incoming(s) \in Int
  BY WealthIs DEF Settled
<1>10. CASE b.side = "buy" /\ b.type = "limit"
  <2>1. credits' = [credits EXCEPT ![b.player] = @ - b.price * b.quantity] /\ stock' = stock
    BY <1>h, <1>b, <1>10 DEF Reserve
  <2> DEFINE n == b.price * b.quantity
  <2>2. n \in Int
    BY <1>8, <1>10
  <2>3. \A p \in Players : credits'[p] = IF p = b.player THEN credits[p] - n ELSE credits[p]
    BY <1>1, <2>1
  <2> HIDE DEF n
  <2>4. \A p \in Players : credits'[p] + HeldBy(orders, handler'[t], p) = credits[p] + HeldBy(orders, h, p)
    BY <1>1, <1>5, <1>6, <1>10, <2>2, <2>3 DEF n
  <2>5. \A s \in Stations : stock'[s] + Incoming(s)' + GoodsBy(orders, handler'[t], s)
                              = stock[s] + Incoming(s) + GoodsBy(orders, h, s)
    BY <1>5, <1>6, <1>7, <1>10, <2>1
  <2> QED BY <1>h, <1>2, <1>3, <1>4, <2>4, <2>5, HandlerNeutral
<1>11. CASE b.side = "buy" /\ b.type = "market"
  <2>1. credits' = credits /\ stock' = stock
    BY <1>h, <1>b, <1>11 DEF Reserve
  <2>2. \A p \in Players : credits'[p] + HeldBy(orders, handler'[t], p) = credits[p] + HeldBy(orders, h, p)
    BY <1>5, <1>6, <1>11, <2>1
  <2>3. \A s \in Stations : stock'[s] + Incoming(s)' + GoodsBy(orders, handler'[t], s)
                              = stock[s] + Incoming(s) + GoodsBy(orders, h, s)
    BY <1>5, <1>6, <1>7, <1>11, <2>1
  <2> QED BY <1>h, <1>2, <1>3, <1>4, <2>2, <2>3, HandlerNeutral
<1>12. CASE b.side = "sell"
  <2>1. credits' = credits /\ stock' = Stocked(b.station, -b.quantity)
    BY <1>h, <1>b, <1>12 DEF Reserve
  <2>2. \A p \in Players : credits'[p] + HeldBy(orders, handler'[t], p) = credits[p] + HeldBy(orders, h, p)
    BY <1>5, <1>6, <1>12, <2>1
  <2>3. \A s \in Stations : stock'[s] = IF s = b.station /\ Exists(s) THEN stock[s] - b.quantity ELSE stock[s]
    BY <1>1, <1>8, <2>1 DEF Stocked
  <2>4. ASSUME NEW s \in Stations, s # b.station \/ Exists(s) PROVE Goods(s)' = Goods(s)
    <3>1. stock'[s] + Incoming(s)' + GoodsBy(orders, handler'[t], s)
            = stock[s] + Incoming(s) + GoodsBy(orders, h, s)
      BY <1>5, <1>6, <1>7, <1>8, <1>9, <1>12, <2>3, <2>4
    <3> QED BY <1>h, <1>2, <1>3, <1>4, <3>1, HandlerNeutral
  <2>5. ASSUME NEW s \in Stations, s = b.station, ~Exists(s) PROVE Goods(s)' >= Goods(s)
    <3>1. Goods(s)' = Goods(s) + (stock'[s] - stock[s]) + (Incoming(s)' - Incoming(s))
                        + (GoodsBy(orders, handler'[t], s) - GoodsBy(orders, h, s))
      BY <1>h, <1>2, <1>3, <1>4, HandlerAlone
    <3> QED BY <1>5, <1>6, <1>7, <1>8, <1>9, <1>12, <2>3, <2>5, <3>1
  <2>6. \A p \in Players : Wealth(p)' = Wealth(p)
    BY <1>h, <1>2, <1>3, <1>4, <2>2, HandlerNeutral
  <2> QED BY <1>h, <1>b, <1>12, <2>4, <2>5, <2>6
<1> QED BY <1>8, <1>10, <1>11, <1>12 DEF Sides

\* The rest of a market sell goes back to its station, or is lost with it.
LEMMA ReturnAccounts ==
  ASSUME Settled, [Next]_vars, NEW t \in Threads, ReturnUnfilled(t)
  PROVE  /\ \A p \in Players : Wealth(p)' = Wealth(p)
         /\ \A s \in Stations :
              \/ Goods(s)' = Goods(s)
              \/ /\ ~Exists(orders[handler[t].order].station)
                 /\ Goods(s)' <= Goods(s)
<1>h. PICK h : h = handler[t]
  OBVIOUS
<1>o. PICK o : o = orders[h.order]
  OBVIOUS
<1>1. /\ handler \in [Threads -> [pc : PCs, req : Body \cup {NoRequest}, order : 0..Len(orders),
                                  trades : Seq(TradeRecord)]]
      /\ stock \in [Stations -> Nat] /\ TypeOK /\ OrdersSound
  BY DEF Settled, Sound, TypeOK
<1>2. orders' = orders /\ admin' = admin /\ aboard' = aboard /\ credits' = credits /\ Goto(t, "settling")
  BY DEF ReturnUnfilled, market, accounts
<1>3. h.pc = "returning" /\ h.order \in OrderIds
  BY <1>h DEF ReturnUnfilled, At, Settled, Sound, HandlersSound
<1>4. /\ \A u \in Threads \ {t} : handler'[u] = handler[u]
      /\ handler'[t].pc = "settling" /\ handler'[t].order = h.order /\ handler'[t].trades = h.trades
  BY <1>h, <1>1, <1>2 DEF Goto
<1>5. o.station \in Stations /\ Remaining(o) \in Nat
  BY <1>o, <1>1, <1>3, OrderTypes, OrderFields
<1>6. \A s : Boughts(orders, h.trades, s) \in Int
  BY <1>h, <1>1, Wells, WellTrades, FlowsTypes DEF Settled
<1>7. /\ \A p : HeldBy(orders, handler'[t], p) = HeldBy(orders, h, p)
      /\ \A s : GoodsBy(orders, handler'[t], s) = Boughts(orders, h.trades, s) + 0
      /\ \A s : GoodsBy(orders, h, s) = Boughts(orders, h.trades, s) + (IF o.station = s THEN Remaining(o) ELSE 0)
  BY <1>o, <1>3, <1>4 DEF HeldBy, GoodsBy, Unsettled
<1>8. \A s : Incoming(s)' = Incoming(s)
  BY <1>2 DEF Incoming
<1>9. stock' = Stocked(o.station, Remaining(o))
  BY <1>h, <1>o DEF ReturnUnfilled
<1>10. \A s \in Stations : stock'[s] = IF s = o.station /\ Exists(s) THEN stock[s] + Remaining(o) ELSE stock[s]
  BY <1>1, <1>5, <1>9 DEF Stocked
<1>11. \A s \in Stations : Goods(s) \in Int /\ stock[s] \in Int /\ Incoming(s) \in Int
  BY WealthIs DEF Settled
<1>12. ASSUME NEW s \in Stations, s # o.station \/ Exists(s) PROVE Goods(s)' = Goods(s)
  <2>1. stock'[s] + Incoming(s)' + GoodsBy(orders, handler'[t], s)
          = stock[s] + Incoming(s) + GoodsBy(orders, h, s)
    BY <1>5, <1>6, <1>7, <1>8, <1>10, <1>11, <1>12
  <2> QED BY <1>h, <1>2, <1>3, <1>4, <2>1, HandlerNeutral
<1>13. ASSUME NEW s \in Stations, s = o.station, ~Exists(s) PROVE Goods(s)' <= Goods(s)
  <2>1. Goods(s)' = Goods(s) + (stock'[s] - stock[s]) + (Incoming(s)' - Incoming(s))
                      + (GoodsBy(orders, handler'[t], s) - GoodsBy(orders, h, s))
    BY <1>h, <1>2, <1>3, <1>4, HandlerAlone
  <2> QED BY <1>5, <1>6, <1>7, <1>8, <1>10, <1>11, <1>13, <2>1
<1>14. \A p \in Players : Wealth(p)' = Wealth(p)
  BY <1>h, <1>2, <1>3, <1>4, <1>7, HandlerNeutral
<1> QED BY <1>h, <1>o, <1>12, <1>13, <1>14

\* A trade is settled with the players that are still there.
LEMMA SettleAccounts ==
  ASSUME Settled, [Next]_vars, NEW t \in Threads, SettleCredits(t)
  PROVE  LET tr == Head(handler[t].trades)
         IN  /\ \A p \in Players :
                  Wealth(p)' = IF p \in registered THEN Wealth(p)
                               ELSE Wealth(p) - Flow(orders, handler[t].order, tr, p)
             /\ \A p : Flow(orders, handler[t].order, tr, p) \in Int
             /\ Proper(tr) /\ tr \in TradeRecord
             /\ \A s \in Stations : Goods(s)' = Goods(s)
<1>h. PICK h : h = handler[t]
  OBVIOUS
<1>r. PICK tr : tr = Head(h.trades)
  OBVIOUS
<1>1. /\ handler \in [Threads -> [pc : PCs, req : Body \cup {NoRequest}, order : 0..Len(orders),
                                  trades : Seq(TradeRecord)]]
      /\ credits \in [Players -> Int] /\ TypeOK /\ OrdersSound
  BY DEF Settled, Sound, TypeOK
<1>2. orders' = orders /\ admin' = admin /\ aboard' = aboard /\ stock' = stock /\ Goto(t, "shipping")
  BY DEF SettleCredits, market, stations
<1>3. h.pc = "settling" /\ h.trades # <<>>
  BY <1>h DEF SettleCredits, At
<1>4. /\ \A u \in Threads \ {t} : handler'[u] = handler[u]
      /\ handler'[t].pc = "shipping" /\ handler'[t].order = h.order /\ handler'[t].trades = h.trades
  BY <1>h, <1>1, <1>2 DEF Goto
<1>5. TradesOf(h.order, h.trades)
  BY <1>h, Wells, WellTrades DEF Settled
<1>6. TradesOf(h.order, Tail(h.trades)) /\ tr \in TradeRecord /\ Proper(tr) /\ h.order \in {tr.buy, tr.sell}
  BY <1>r, <1>3, <1>5, TailOf
<1>7. \A p : Flow(orders, h.order, tr, p) \in Int /\ Flows(orders, h.order, Tail(h.trades), p) \in Int
  BY <1>1, <1>6, FlowTypes, FlowsTypes
<1>8. \A p : Flows(orders, h.order, h.trades, p)
               = Flow(orders, h.order, tr, p) + Flows(orders, h.order, Tail(h.trades), p)
  BY <1>r, <1>1, <1>3, <1>5, FlowsShifted
<1>9. /\ \A p : HeldBy(orders, handler'[t], p) = Flows(orders, h.order, Tail(h.trades), p)
      /\ \A p : HeldBy(orders, h, p) = Flows(orders, h.order, h.trades, p)
      /\ \A s : GoodsBy(orders, handler'[t], s) = GoodsBy(orders, h, s)
  BY <1>3, <1>4 DEF HeldBy, GoodsBy, Unsettled
<1>10. \A s : Incoming(s)' = Incoming(s)
  BY <1>2 DEF Incoming
<1>11. \A p \in Players : credits'[p] = IF p \in registered THEN credits[p] + Flow(orders, h.order, tr, p)
                                        ELSE credits[p]
  <2>1. \A p \in Players : credits'[p] = Credited(p, Due(h.order, tr, p))[p]
    BY <1>h, <1>r DEF SettleCredits
  <2>2. \A p \in Players : Due(h.order, tr, p) = Flow(orders, h.order, tr, p)
    BY <1>1, <1>6, FlowDue
  <2>3. \A p \in Players : \A n : Credited(p, n)[p] = IF p \in registered THEN credits[p] + n ELSE credits[p]
    BY <1>1 DEF Credited
  <2> QED BY <2>1, <2>2, <2>3
<1>12. \A p \in Players : Wealth(p) \in Int /\ credits[p] \in Int
  BY WealthIs DEF Settled
<1>13. ASSUME NEW p \in Players
       PROVE  Wealth(p)' = IF p \in registered THEN Wealth(p) ELSE Wealth(p) - Flow(orders, h.order, tr, p)
  <2>1. Wealth(p)' = Wealth(p) + (credits'[p] - credits[p])
                       + (HeldBy(orders, handler'[t], p) - HeldBy(orders, h, p))
    BY <1>h, <1>2, <1>3, <1>4, HandlerAlone
  <2> QED BY <1>7, <1>8, <1>9, <1>11, <1>12, <2>1
<1>14. \A s \in Stations : Goods(s)' = Goods(s)
  BY <1>h, <1>2, <1>3, <1>4, <1>9, <1>10, HandlerNeutral
<1> QED BY <1>h, <1>r, <1>6, <1>7, <1>13, <1>14

\* The goods of a trade leave on a ship or are delivered, unless their station is gone.
LEMMA SpawnAccounts ==
  ASSUME Settled, [Next]_vars, NEW t \in Threads, SpawnShip(t)
  PROVE  /\ \A p \in Players : Wealth(p)' = Wealth(p)
         /\ \A s \in Stations :
              \/ Goods(s)' = Goods(s)
              \/ /\ ~Exists(orders[Head(handler[t].trades).buy].station)
                 /\ Goods(s)' <= Goods(s)
<1>h. PICK h : h = handler[t]
  OBVIOUS
<1>r. PICK tr : tr = Head(h.trades)
  OBVIOUS
<1>f. PICK from : from = orders[tr.sell].station
  OBVIOUS
<1>to. PICK to : to = orders[tr.buy].station
  OBVIOUS
<1>1. /\ handler \in [Threads -> [pc : PCs, req : Body \cup {NoRequest}, order : 0..Len(orders),
                                  trades : Seq(TradeRecord)]]
      /\ stock \in [Stations -> Nat] /\ aboard \in [Stations -> [Stations -> Nat]] /\ TypeOK /\ OrdersSound
  BY DEF Settled, Sound, TypeOK
<1>2. orders' = orders /\ admin' = admin /\ credits' = credits /\ h.pc = "shipping"
  BY <1>h DEF SpawnShip, market, accounts, At
<1>3. h.trades # <<>>
  BY <1>h, <1>2, Wells DEF Settled, Well
<1>4. /\ \A u \in Threads \ {t} : handler'[u] = handler[u]
      /\ handler'[t].pc = "settling" /\ handler'[t].order = h.order /\ handler'[t].trades = Tail(h.trades)
  <2>1. handler' = [handler EXCEPT ![t].pc = "settling", ![t].trades = Tail(@)]
    BY DEF SpawnShip
  <2>2. h = [pc |-> h.pc, req |-> h.req, order |-> h.order, trades |-> h.trades]
    BY <1>h, <1>1
  <2>3. handler'[t] = [h EXCEPT !.pc = "settling", !.trades = Tail(h.trades)]
    BY <1>h, <1>1, <2>1, <2>2
  <2>4. \A u \in Threads \ {t} : handler'[u] = handler[u]
    BY <1>1, <2>1
  <2> QED BY <2>2, <2>3, <2>4
<1>5. TradesOf(h.order, h.trades)
  BY <1>h, Wells, WellTrades DEF Settled
<1>6. TradesOf(h.order, Tail(h.trades)) /\ tr \in TradeRecord /\ Proper(tr)
  BY <1>r, <1>3, <1>5, TailOf
<1>7. \A s : Bought(orders, tr, s) \in Nat /\ Boughts(orders, Tail(h.trades), s) \in Nat
  BY <1>1, <1>6, FlowTypes, FlowsTypes
<1>8. \A s : Boughts(orders, h.trades, s) = Bought(orders, tr, s) + Boughts(orders, Tail(h.trades), s)
  BY <1>r, <1>1, <1>3, <1>5, FlowsShifted
<1>9. /\ \A p : HeldBy(orders, handler'[t], p) = HeldBy(orders, h, p)
      /\ \A s : GoodsBy(orders, handler'[t], s) = Boughts(orders, Tail(h.trades), s) + 0
      /\ \A s : GoodsBy(orders, h, s) = Boughts(orders, h.trades, s) + 0
      /\ \A s : Bought(orders, tr, s) = IF s = to THEN tr.quantity ELSE 0
  BY <1>2, <1>4, <1>to DEF HeldBy, GoodsBy, Unsettled, Bought
<1>10. from \in Stations /\ to \in Stations /\ tr.quantity \in Nat
  BY <1>f, <1>to, <1>1, <1>6, OrderTypes, OrderFields DEF Proper, TradeRecord
<1>11. \A s \in Stations : Goods(s) \in Int /\ stock[s] \in Int /\ Incoming(s) \in Int
  BY WealthIs DEF Settled
<1>12. \A p \in Players : Wealth(p)' = Wealth(p)
  BY <1>h, <1>2, <1>4, <1>9, HandlerNeutral
<1>13. CASE from = to
  <2>1. stock' = Stocked(to, tr.quantity) /\ aboard' = aboard
    BY <1>h, <1>r, <1>f, <1>to, <1>13 DEF SpawnShip
  <2>2. \A s \in Stations : stock'[s] = IF s = to /\ Exists(s) THEN stock[s] + tr.quantity ELSE stock[s]
    BY <1>1, <1>10, <2>1 DEF Stocked
  <2>3. \A s : Incoming(s)' = Incoming(s)
    BY <2>1 DEF Incoming
  <2>4. ASSUME NEW s \in Stations, s # to \/ Exists(s) PROVE Goods(s)' = Goods(s)
    <3>1. stock'[s] + Incoming(s)' + GoodsBy(orders, handler'[t], s)
            = stock[s] + Incoming(s) + GoodsBy(orders, h, s)
      BY <1>7, <1>8, <1>9, <1>10, <1>11, <2>2, <2>3, <2>4
    <3> QED BY <1>h, <1>2, <1>4, <3>1, HandlerNeutral
  <2>5. ASSUME NEW s \in Stations, s = to, ~Exists(s) PROVE Goods(s)' <= Goods(s)
    <3>1. Goods(s)' = Goods(s) + (stock'[s] - stock[s]) + (Incoming(s)' - Incoming(s))
                        + (GoodsBy(orders, handler'[t], s) - GoodsBy(orders, h, s))
      BY <1>h, <1>2, <1>4, HandlerAlone
    <3> QED BY <1>7, <1>8, <1>9, <1>10, <1>11, <2>2, <2>3, <2>5, <3>1
  <2> QED BY <1>h, <1>r, <1>to, <1>12, <2>4, <2>5
<1>14. CASE from # to
  <2>1. stock' = stock /\ aboard' = [aboard EXCEPT ![from][to] = @ + tr.quantity]
    BY <1>h, <1>r, <1>f, <1>to, <1>14 DEF SpawnShip
  <2>2. \A r, s \in Stations : aboard'[r][s] = IF r = from /\ s = to THEN aboard[r][s] + tr.quantity ELSE aboard[r][s]
    BY <1>1, <1>10, <2>1
  <2>3. ASSUME NEW s \in Stations PROVE Incoming(s)' = Incoming(s) + (IF s = to THEN tr.quantity ELSE 0)
    <3> DEFINE f == [r \in Stations |-> aboard[r][s]]
               g == [r \in Stations |-> aboard'[r][s]]
    <3>1. Incoming(s) = SumFunctionOnSet(f, Stations) /\ Incoming(s)' = SumFunctionOnSet(g, Stations)
      BY DEF Incoming
    <3>2. \A r \in Stations : aboard[r][s] \in Int /\ aboard'[r][s] \in Int
      <4>1. aboard' \in [Stations -> [Stations -> Nat]] /\ aboard \in [Stations -> [Stations -> Nat]]
        BY <1>1, StationsStep DEF Settled
      <4> QED BY <4>1
    <3>3. DiffersAt(g, f, from, Stations)
      BY <1>10, <2>2, <3>2, MarketAssumption DEF DiffersAt
    <3>4. f[from] \in Int /\ g[from] = IF s = to THEN f[from] + tr.quantity ELSE f[from]
      BY <1>10, <2>2, <3>2
    <3> HIDE DEF f, g
    <3> QED BY <1>10, <1>11, <3>1, <3>3, <3>4, SumDiffers
  <2>4. ASSUME NEW s \in Stations PROVE Goods(s)' = Goods(s)
    <3>1. stock'[s] + Incoming(s)' + GoodsBy(orders, handler'[t], s)
            = stock[s] + Incoming(s) + GoodsBy(orders, h, s)
      BY <1>7, <1>8, <1>9, <1>10, <1>11, <2>1, <2>3
    <3> QED BY <1>h, <1>2, <1>4, <3>1, HandlerNeutral
  <2> QED BY <1>12, <2>4
<1> QED BY <1>13, <1>14

\* A cancelled order is refunded to those who are there.  Only a market buy that
\* named a price is paid what it did not reserve.
LEMMA RefundAccounts ==
  ASSUME Settled, [Next]_vars, NEW t \in Threads, Refund(t)
  PROVE  LET i == handler[t].order
         IN  /\ i \in OrderIds /\ handler'[t] = Idle /\ At(t, "refunding")
             /\ \A p \in Players : Wealth(p)' = Wealth(p)
                  + (IF p = orders[i].player
                     THEN (IF p \in registered THEN CreditBack(i) ELSE 0) - CreditsReturning(i) ELSE 0)
             /\ \A s \in Stations : Goods(s)' = Goods(s)
                  - (IF s = orders[i].station /\ ~Exists(s) THEN GoodsBack(i) ELSE 0)
<1>h. PICK h : h = handler[t]
  OBVIOUS
<1>i. PICK i : i = h.order
  OBVIOUS
<1>1. /\ handler \in [Threads -> [pc : PCs, req : Body \cup {NoRequest}, order : 0..Len(orders),
                                  trades : Seq(TradeRecord)]]
      /\ credits \in [Players -> Int] /\ stock \in [Stations -> Nat] /\ TypeOK /\ OrdersSound
  BY DEF Settled, Sound, TypeOK
<1>2. orders' = orders /\ admin' = admin /\ aboard' = aboard /\ Finish(t)
  BY DEF Refund, market
<1>3. h.pc = "refunding" /\ i \in OrderIds
  BY <1>h, <1>i DEF Refund, At, Settled, Sound, HandlersSound
<1>4. (\A u \in Threads \ {t} : handler'[u] = handler[u]) /\ handler'[t] = Idle
  BY <1>1, <1>2 DEF Finish
<1>5. handler'[t].pc # "matching"
  BY <1>4 DEF Idle
<1>6. /\ orders[i].player \in Players /\ orders[i].station \in Stations
      /\ CreditBack(i) \in Nat /\ GoodsBack(i) \in Nat /\ CreditsReturning(i) \in Nat
  BY <1>1, <1>3, OrderTypes, OrderFields, BackTypes, OrderHolds
<1>7. /\ \A p : HeldBy(orders, handler'[t], p) = 0
      /\ \A s : GoodsBy(orders, handler'[t], s) = 0
      /\ \A p : HeldBy(orders, h, p) = IF p = orders[i].player THEN CreditsReturning(i) ELSE 0
      /\ \A s : GoodsBy(orders, h, s) = IF s = orders[i].station THEN GoodsBack(i) ELSE 0
  BY <1>i, <1>3, <1>4, IdleHolds, HeldIs DEF HeldBy, GoodsBy
<1>8. \A s : Incoming(s)' = Incoming(s)
  BY <1>2 DEF Incoming
<1>9. /\ credits' = Credited(orders[i].player, CreditBack(i))
      /\ stock' = Stocked(orders[i].station, GoodsBack(i))
  BY <1>h, <1>i DEF Refund, GiveBack
<1>10. /\ \A p \in Players : credits'[p] = IF p = orders[i].player /\ p \in registered
                                           THEN credits[p] + CreditBack(i) ELSE credits[p]
       /\ \A s \in Stations : stock'[s] = IF s = orders[i].station /\ Exists(s)
                                          THEN stock[s] + GoodsBack(i) ELSE stock[s]
  BY <1>1, <1>6, <1>9 DEF Credited, Stocked
<1>11. /\ \A p \in Players : Wealth(p) \in Int /\ credits[p] \in Int
       /\ \A s \in Stations : Goods(s) \in Int /\ stock[s] \in Int /\ Incoming(s) \in Int
  BY WealthIs DEF Settled
<1>12. ASSUME NEW p \in Players
       PROVE  Wealth(p)' = Wealth(p)
                + (IF p = orders[i].player
                   THEN (IF p \in registered THEN CreditBack(i) ELSE 0) - CreditsReturning(i) ELSE 0)
  <2>1. Wealth(p)' = Wealth(p) + (credits'[p] - credits[p])
                       + (HeldBy(orders, handler'[t], p) - HeldBy(orders, h, p))
    BY <1>h, <1>2, <1>3, <1>4, <1>5, HandlerAlone
  <2> QED BY <1>6, <1>7, <1>10, <1>11, <2>1
<1>13. ASSUME NEW s \in Stations
       PROVE  Goods(s)' = Goods(s) - (IF s = orders[i].station /\ ~Exists(s) THEN GoodsBack(i) ELSE 0)
  <2>1. Goods(s)' = Goods(s) + (stock'[s] - stock[s]) + (Incoming(s)' - Incoming(s))
                      + (GoodsBy(orders, handler'[t], s) - GoodsBy(orders, h, s))
    BY <1>h, <1>2, <1>3, <1>4, <1>5, HandlerAlone
  <2> QED BY <1>6, <1>7, <1>8, <1>10, <1>11, <2>1
<1> QED BY <1>h, <1>i, <1>3, <1>4, <1>12, <1>13 DEF At

\* A new order.
LEMMA OrdersGrow ==
  ASSUME Settled, [Next]_vars, NEW new, new = Len(orders) + 1, Len(orders') = new
  PROVE  /\ \A p : (\A i \in OrderIds : CreditsOf(i, p)' = CreditsOf(i, p))
                     => OrderCredits(p)' = OrderCredits(p) + CreditsOf(new, p)'
         /\ \A s : (\A i \in OrderIds : GoodsOf(i, s)' = GoodsOf(i, s))
                     => OrderGoods(s)' = OrderGoods(s) + GoodsOf(new, s)'
<1>1. PICK n \in Nat : n = Len(orders)
  BY DEF Settled, Sound, TypeOK
<1>2. OrderIds = 1..n /\ OrderIds' = 1..(n + 1) /\ new = n + 1
  BY <1>1 DEF OrderIds
<1>3. \A i \in 1..(n + 1) : (\A p : CreditsOf(i, p)' \in Int) /\ (\A s : GoodsOf(i, s)' \in Int)
  BY <1>2, NextInt
<1>4. ASSUME NEW p, \A i \in OrderIds : CreditsOf(i, p)' = CreditsOf(i, p)
      PROVE  OrderCredits(p)' = OrderCredits(p) + CreditsOf(new, p)'
  <2> DEFINE f == [i \in 1..n |-> CreditsOf(i, p)]
             g == [i \in 1..(n + 1) |-> CreditsOf(i, p)']
  <2>1. OrderCredits(p) = SumFunctionOnSet(f, 1..n)
    BY <1>2 DEF OrderCredits
  <2>2. OrderCredits(p)' = SumFunctionOnSet(g, 1..(n + 1))
    BY <1>2 DEF OrderCredits
  <2>3. (\A k \in 1..(n + 1) : g[k] \in Int) /\ (\A k \in 1..n : f[k] = g[k])
    BY <1>2, <1>3, <1>4
  <2>4. g[n + 1] = CreditsOf(new, p)'
    BY <1>2
  <2> HIDE DEF f, g
  <2>5. SumFunctionOnSet(g, 1..(n + 1)) = SumFunctionOnSet(f, 1..n) + g[n + 1]
    BY <2>3, SumAppended
  <2> QED BY <2>1, <2>2, <2>4, <2>5
<1>5. ASSUME NEW s, \A i \in OrderIds : GoodsOf(i, s)' = GoodsOf(i, s)
      PROVE  OrderGoods(s)' = OrderGoods(s) + GoodsOf(new, s)'
  <2> DEFINE f == [i \in 1..n |-> GoodsOf(i, s)]
             g == [i \in 1..(n + 1) |-> GoodsOf(i, s)']
  <2>1. OrderGoods(s) = SumFunctionOnSet(f, 1..n)
    BY <1>2 DEF OrderGoods
  <2>2. OrderGoods(s)' = SumFunctionOnSet(g, 1..(n + 1))
    BY <1>2 DEF OrderGoods
  <2>3. (\A k \in 1..(n + 1) : g[k] \in Int) /\ (\A k \in 1..n : f[k] = g[k])
    BY <1>2, <1>3, <1>5
  <2>4. g[n + 1] = GoodsOf(new, s)'
    BY <1>2
  <2> HIDE DEF f, g
  <2>5. SumFunctionOnSet(g, 1..(n + 1)) = SumFunctionOnSet(f, 1..n) + g[n + 1]
    BY <2>3, SumAppended
  <2> QED BY <2>1, <2>2, <2>4, <2>5
<1> QED BY <1>4, <1>5

\* When one handler and the orders take a step, an account keeps what they hold
\* together, and the rest of it.
LEMMA StepChange ==
  ASSUME Settled, [Next]_vars, NEW t \in Threads, \A u \in Threads \ {t} : handler'[u] = handler[u],
         UNCHANGED <<credits, stock, aboard>>
  PROVE  /\ \A p \in Players :
              /\ Wealth(p)' = Wealth(p) + (OrderCredits(p)' - OrderCredits(p))
                   + (HeldBy(orders', handler'[t], p) - HeldBy(orders, handler[t], p))
              /\ Wealth(p) \in Int /\ OrderCredits(p) \in Int /\ OrderCredits(p)' \in Int
              /\ HeldBy(orders', handler'[t], p) \in Int /\ HeldBy(orders, handler[t], p) \in Int
         /\ \A s \in Stations :
              /\ Goods(s)' = Goods(s) + (OrderGoods(s)' - OrderGoods(s))
                   + (GoodsBy(orders', handler'[t], s) - GoodsBy(orders, handler[t], s))
              /\ Goods(s) \in Int /\ OrderGoods(s) \in Int /\ OrderGoods(s)' \in Int
              /\ GoodsBy(orders', handler'[t], s) \in Int /\ GoodsBy(orders, handler[t], s) \in Int
<1>1. ASSUME NEW p \in Players
      PROVE  /\ Wealth(p)' = Wealth(p) + (OrderCredits(p)' - OrderCredits(p))
                  + (HeldBy(orders', handler'[t], p) - HeldBy(orders, handler[t], p))
             /\ Wealth(p) \in Int /\ OrderCredits(p) \in Int /\ OrderCredits(p)' \in Int
             /\ HeldBy(orders', handler'[t], p) \in Int /\ HeldBy(orders, handler[t], p) \in Int
  <2>1. HandlerCredits(p)' = HandlerCredits(p)
          + (HeldBy(orders', handler'[t], p) - HeldBy(orders, handler[t], p))
    BY HandlersOne
  <2>2. Wealth(p)' = Wealth(p) + (credits'[p] - credits[p]) + (OrderCredits(p)' - OrderCredits(p))
                       + (HandlerCredits(p)' - HandlerCredits(p))
    BY WealthChange
  <2>3. Wealth(p) \in Int /\ credits[p] \in Int /\ OrderCredits(p) \in Int /\ HandlerCredits(p) \in Int
    BY WealthIs DEF Settled
  <2>4. OrderCredits(p)' \in Int
    BY WealthNext
  <2>5. HeldBy(orders', handler'[t], p) \in Int /\ HeldBy(orders, handler[t], p) \in Int
    BY NextInt, HeldInt, HeldIs DEF Settled
  <2>6. credits'[p] = credits[p]
    OBVIOUS
  <2> QED BY <2>1, <2>2, <2>3, <2>4, <2>5, <2>6
<1>2. ASSUME NEW s \in Stations
      PROVE  /\ Goods(s)' = Goods(s) + (OrderGoods(s)' - OrderGoods(s))
                  + (GoodsBy(orders', handler'[t], s) - GoodsBy(orders, handler[t], s))
             /\ Goods(s) \in Int /\ OrderGoods(s) \in Int /\ OrderGoods(s)' \in Int
             /\ GoodsBy(orders', handler'[t], s) \in Int /\ GoodsBy(orders, handler[t], s) \in Int
  <2>1. HandlerGoods(s)' = HandlerGoods(s)
          + (GoodsBy(orders', handler'[t], s) - GoodsBy(orders, handler[t], s))
    BY HandlersOne
  <2>2. Goods(s)' = Goods(s) + (stock'[s] - stock[s]) + (Incoming(s)' - Incoming(s))
                      + (OrderGoods(s)' - OrderGoods(s)) + (HandlerGoods(s)' - HandlerGoods(s))
    BY WealthChange
  <2>3. Goods(s) \in Int /\ stock[s] \in Int /\ Incoming(s) \in Int /\ OrderGoods(s) \in Int
        /\ HandlerGoods(s) \in Int
    BY WealthIs DEF Settled
  <2>4. OrderGoods(s)' \in Int
    BY WealthNext
  <2>5. GoodsBy(orders', handler'[t], s) \in Int /\ GoodsBy(orders, handler[t], s) \in Int
    BY NextInt, HeldInt, HeldIs DEF Settled
  <2>6. stock'[s] = stock[s] /\ Incoming(s)' = Incoming(s)
    BY DEF Incoming
  <2> QED BY <2>1, <2>2, <2>3, <2>4, <2>5, <2>6
<1> QED BY <1>1, <1>2

\* What was reserved for a request is reserved for its order.
LEMMA InsertAccounts ==
  ASSUME Settled, [Next]_vars, NEW t \in Threads, Insert(t)
  PROVE  Neutral
<1>h. PICK h : h = handler[t]
  OBVIOUS
<1>b. PICK b : b = h.req
  OBVIOUS
<1>n. PICK new : new = Len(orders) + 1
  OBVIOUS
<1>1. /\ Len(orders') = new
      /\ \A j \in OrderIds : orders'[j] = orders[j]
      /\ orders'[new] = NewOrder(b)
  BY <1>h, <1>b, <1>n, InsertedOrder DEF Settled
<1>2. /\ handler'[t].pc = "matching" /\ handler'[t].order = new
      /\ \A u \in Threads \ {t} : handler'[u] = handler[u] /\ ~At(u, "matching")
      /\ handler'[t].trades = <<>>
  <2>1. handler'[t] = [pc |-> "matching", req |-> NoRequest, order |-> new, trades |-> <<>>]
    BY <1>n DEF Insert, Idle, Settled, Sound, TypeOK
  <2> QED BY <1>n, <2>1, InsertResting DEF Settled
<1>3. h.pc = "reserved" /\ b \in Body /\ admin' = admin /\ UNCHANGED <<credits, stock, aboard>>
  BY <1>h, <1>b DEF Insert, At, Settled, Sound, HandlersSound, accounts, stations
<1>4. \A i \in OrderIds : (Matching(i)' <=> Matching(i))
  <2>1. \A i : ~Matching(i)
    BY <1>h, <1>2, <1>3 DEF Matching, At
  <2> QED BY <2>1, MatchingGrows DEF Settled
<1>5. /\ \A i \in OrderIds : \A p : CreditsOf(i, p)' = CreditsOf(i, p)
      /\ \A i \in OrderIds : \A s : GoodsOf(i, s)' = GoodsOf(i, s)
  BY <1>1, <1>3, <1>4, OrderKept
<1>6. new \notin admin'.refunds
  <2>1. new \notin OrderIds
    BY <1>n DEF OrderIds, Settled, Sound, TypeOK
  <2> QED BY <1>3, <2>1, RefundIds DEF Settled, Sound
<1>7. /\ b.player \in Players /\ b.station \in Stations /\ b.side \in Sides /\ b.type \in {"limit", "market"}
      /\ b.quantity \in Nat /\ (b.type = "limit" => b.price \in Nat)
  BY <1>3, MarketAssumption DEF Body
<1>8. /\ orders'[new].player = b.player /\ orders'[new].station = b.station /\ orders'[new].side = b.side
      /\ orders'[new].type = b.type /\ orders'[new].price = b.price /\ Cancellable(orders'[new])
      /\ Remaining(orders'[new]) = b.quantity
  BY <1>1, <1>7 DEF NewOrder, Cancellable, Remaining
<1>9. Matching(new)'
  BY <1>2 DEF Matching, At
<1>10. /\ \A p : CreditsOf(new, p)' = IF b.player = p /\ b.side = "buy" /\ b.type = "limit"
                                      THEN b.price * b.quantity ELSE 0
       /\ \A s : GoodsOf(new, s)' = IF b.station = s /\ b.side = "sell" THEN b.quantity ELSE 0
  BY <1>6, <1>7, <1>8, <1>9 DEF CreditsOf, GoodsOf, CreditsReservedBy, GoodsReservedBy
<1>11. /\ \A p : HeldBy(orders', handler'[t], p) = 0
       /\ \A s : GoodsBy(orders', handler'[t], s) = 0
  BY <1>2, NothingHeld
<1>12. /\ \A p : HeldBy(orders, h, p) = IF b.player = p /\ b.side = "buy" /\ b.type = "limit"
                                        THEN b.price * b.quantity ELSE 0
       /\ \A s : GoodsBy(orders, h, s) = IF b.station = s /\ b.side = "sell" THEN b.quantity ELSE 0
  BY <1>b, <1>3 DEF HeldBy, GoodsBy
<1>13. /\ \A p : OrderCredits(p)' = OrderCredits(p) + CreditsOf(new, p)'
       /\ \A s : OrderGoods(s)' = OrderGoods(s) + GoodsOf(new, s)'
  BY <1>n, <1>1, <1>5, OrdersGrow
<1>14. ASSUME NEW p \in Players PROVE Wealth(p)' = Wealth(p)
  <2>1. /\ Wealth(p)' = Wealth(p) + (OrderCredits(p)' - OrderCredits(p))
             + (HeldBy(orders', handler'[t], p) - HeldBy(orders, h, p))
        /\ Wealth(p) \in Int /\ OrderCredits(p) \in Int /\ HeldBy(orders, h, p) \in Int
    BY <1>h, <1>2, <1>3, StepChange
  <2>2. CreditsOf(new, p)' = HeldBy(orders, h, p)
    BY <1>10, <1>12
  <2> QED BY <1>11, <1>13, <2>1, <2>2
<1>15. ASSUME NEW s \in Stations PROVE Goods(s)' = Goods(s)
  <2>1. /\ Goods(s)' = Goods(s) + (OrderGoods(s)' - OrderGoods(s))
             + (GoodsBy(orders', handler'[t], s) - GoodsBy(orders, h, s))
        /\ Goods(s) \in Int /\ OrderGoods(s) \in Int /\ GoodsBy(orders, h, s) \in Int
    BY <1>h, <1>2, <1>3, StepChange
  <2>2. GoodsOf(new, s)' = GoodsBy(orders, h, s)
    BY <1>10, <1>12
  <2> QED BY <1>11, <1>13, <2>1, <2>2
<1> QED BY <1>14, <1>15 DEF Neutral

-----------------------------------------------------------------------------
(* Cancelling *)

\* What an order holds before and after it is cancelled: a limit order what it
\* gives back, the rest of a market order nothing before.
LEMMA CancelledHolds ==
  ASSUME Settled, [Next]_vars, NEW i \in OrderIds, Cancellable(orders[i]), ~Matching(i),
         SameOrder(orders'[i], orders[i]), orders'[i].filled = orders[i].filled,
         orders'[i].status = "cancelled"
  PROVE  /\ i \notin admin.refunds
         /\ OwedCredits(orders'[i]) \in Nat /\ OwedGoods(orders'[i]) \in Nat
         /\ OwedGoods(orders'[i]) = GoodsBack(i)
         /\ \A p : CreditsOf(i, p) = IF orders[i].player = p THEN OwedCredits(orders'[i]) ELSE 0
         /\ \A p : CreditsOf(i, p)' = IF orders[i].player = p /\ i \in admin'.refunds
                                      THEN OwedCredits(orders'[i]) ELSE 0
         /\ \A s : GoodsOf(i, s) = IF orders[i].station = s /\ orders[i].type = "limit"
                                   THEN OwedGoods(orders'[i]) ELSE 0
         /\ \A s : GoodsOf(i, s)' = IF orders[i].station = s /\ i \in admin'.refunds
                                    THEN OwedGoods(orders'[i]) ELSE 0
<1>1. TypeOK /\ OrdersSound
  BY DEF Settled, Sound
<1>2. i \notin admin.refunds
  BY DEF Settled, AdminSound, Cancellable
<1>3. Remaining(orders'[i]) = Remaining(orders[i]) /\ Remaining(orders[i]) \in Nat
  BY <1>1, OrderTypes DEF Remaining, SameOrder
<1>4. ~Cancellable(orders'[i])
  BY DEF Cancellable
<1>5. orders[i].type \in {"limit", "market"} /\ (orders[i].type = "limit" => orders[i].price # NoPrice)
  BY <1>1, OrderTypes, OrderFields, MarketAssumption DEF OrdersSound
<1>6. OwedCredits(orders'[i]) = OwedCredits(orders[i]) /\ OwedGoods(orders'[i]) = OwedGoods(orders[i])
  BY <1>3 DEF OwedCredits, OwedGoods, SameOrder
<1>7. OwedCredits(orders[i]) \in Nat /\ OwedGoods(orders[i]) \in Nat /\ OwedGoods(orders[i]) = GoodsBack(i)
  BY <1>1, OwedTypes, HeldIs
<1>8. CreditsReservedBy(i) = OwedCredits(orders[i])
  BY <1>5 DEF CreditsReservedBy, OwedCredits
<1>9. GoodsReservedBy(i) = IF orders[i].type = "limit" THEN OwedGoods(orders[i]) ELSE 0
  BY <1>5 DEF GoodsReservedBy, OwedGoods
<1>10. CreditsReservedBy(i)' = 0 /\ GoodsReservedBy(i)' = 0
  BY <1>4 DEF CreditsReservedBy, GoodsReservedBy
<1>11. CreditsReturning(i)' = OwedCredits(orders'[i]) /\ GoodsBack(i)' = OwedGoods(orders'[i])
  BY DEF CreditsReturning, CreditBack, GoodsBack, OwedCredits, OwedGoods
<1>12. orders'[i].player = orders[i].player /\ orders'[i].station = orders[i].station
  BY DEF SameOrder
<1>13. \A p : CreditsOf(i, p) = IF orders[i].player = p THEN OwedCredits(orders'[i]) ELSE 0
  BY <1>2, <1>6, <1>7, <1>8 DEF CreditsOf
<1>14. \A p : CreditsOf(i, p)' = IF orders[i].player = p /\ i \in admin'.refunds
                                 THEN OwedCredits(orders'[i]) ELSE 0
  BY <1>6, <1>7, <1>10, <1>11, <1>12 DEF CreditsOf
<1>15. \A s : GoodsOf(i, s) = IF orders[i].station = s /\ orders[i].type = "limit"
                              THEN OwedGoods(orders'[i]) ELSE 0
  BY <1>2, <1>6, <1>7, <1>9 DEF GoodsOf
<1>16. \A s : GoodsOf(i, s)' = IF orders[i].station = s /\ i \in admin'.refunds
                               THEN OwedGoods(orders'[i]) ELSE 0
  BY <1>6, <1>7, <1>10, <1>11, <1>12 DEF GoodsOf
<1> QED BY <1>2, <1>6, <1>7, <1>13, <1>14, <1>15, <1>16

\* Cancelling moves a reservation to the handler.  The rest of a market sell, which
\* went back to its station when the order was placed, is given a second time.
LEMMA CancelAccounts ==
  ASSUME Settled, [Next]_vars, NEW t \in Threads, NEW i \in OrderIds, Cancel(t, i)
  PROVE  /\ \A p \in Players : Wealth(p)' = Wealth(p)
         /\ \A s \in Stations : Goods(s)' = Goods(s)
              + (IF s = orders[i].station /\ orders[i].type = "market" THEN GoodsBack(i) ELSE 0)
         /\ GoodsBack(i) \in Nat /\ orders'[i].status = "cancelled"
<1>h. PICK h : h = handler[t]
  OBVIOUS
<1>1. /\ handler \in [Threads -> [pc : PCs, req : Body \cup {NoRequest}, order : 0..Len(orders),
                                  trades : Seq(TradeRecord)]]
      /\ TypeOK /\ OrdersSound
  BY DEF Settled, Sound, TypeOK
<1>2. h.pc = "idle" /\ h.trades = <<>>
  BY <1>h, Wells DEF Cancel, Settled, Sound, Well, Keeping, At
<1>3. /\ \A u \in Threads \ {t} : handler'[u] = handler[u]
      /\ handler'[t].pc = "refunding" /\ handler'[t].order = i
  <2>1. handler'[t] = [pc |-> "refunding", req |-> NoRequest, order |-> i, trades |-> <<>>]
    BY <1>1 DEF Cancel, Idle
  <2>2. \A u \in Threads \ {t} : handler'[u] = handler[u]
    BY <1>1 DEF Cancel
  <2> QED BY <2>1, <2>2
<1>4. /\ Cancellable(orders[i]) /\ admin' = admin
      /\ UNCHANGED <<credits, stock, aboard>>
  BY DEF Cancel, accounts, stations
<1>5. \A j : ~Matching(j)
  BY MatchingOne, MarketAssumption DEF Cancel, Settled, Sound, LockSound
<1>6. \A j \in OrderIds : ~Matching(j)'
  BY <1>5, MatchingGrows DEF Settled
<1>7. /\ Len(orders') = Len(orders)
      /\ \A j \in OrderIds \ {i} : orders'[j] = orders[j]
      /\ SameOrder(orders'[i], orders[i]) /\ orders'[i].filled = orders[i].filled
      /\ orders'[i].status = "cancelled"
  BY <1>1, <1>4, CancelledOrders DEF Cancel
<1> DEFINE money == OwedCredits(orders'[i])
           units == OwedGoods(orders'[i])
<1>8. /\ i \notin admin'.refunds /\ money \in Nat /\ units \in Nat /\ units = GoodsBack(i)
      /\ \A p : CreditsOf(i, p) = IF orders[i].player = p THEN money ELSE 0
      /\ \A p : CreditsOf(i, p)' = 0
      /\ \A s : GoodsOf(i, s) = IF orders[i].station = s /\ orders[i].type = "limit" THEN units ELSE 0
      /\ \A s : GoodsOf(i, s)' = 0
  BY <1>4, <1>5, <1>7, CancelledHolds
<1>9. /\ \A p : HeldBy(orders', handler'[t], p) = IF orders[i].player = p THEN money ELSE 0
      /\ \A s : GoodsBy(orders', handler'[t], s) = IF orders[i].station = s THEN units ELSE 0
  BY <1>3, <1>7 DEF HeldBy, GoodsBy, SameOrder
<1> HIDE DEF money, units
<1>10. /\ \A p : HeldBy(orders, h, p) = 0
       /\ \A s : GoodsBy(orders, h, s) = 0
  BY <1>2, NothingHeld
<1>11. /\ \A j \in OrderIds \ {i} : \A p : CreditsOf(j, p)' = CreditsOf(j, p)
       /\ \A j \in OrderIds \ {i} : \A s : GoodsOf(j, s)' = GoodsOf(j, s)
  BY <1>4, <1>5, <1>6, <1>7, OrderKept
<1>12. /\ \A p : OrderCredits(p)' = OrderCredits(p) + (CreditsOf(i, p)' - CreditsOf(i, p))
       /\ \A s : OrderGoods(s)' = OrderGoods(s) + (GoodsOf(i, s)' - GoodsOf(i, s))
  BY <1>7, <1>11, OrdersOne
<1>13. ASSUME NEW p \in Players PROVE Wealth(p)' = Wealth(p)
  <2>1. /\ Wealth(p)' = Wealth(p) + (OrderCredits(p)' - OrderCredits(p))
             + (HeldBy(orders', handler'[t], p) - HeldBy(orders, h, p))
        /\ Wealth(p) \in Int /\ OrderCredits(p) \in Int
    BY <1>h, <1>3, <1>4, StepChange
  <2> QED BY <1>8, <1>9, <1>10, <1>12, <2>1
<1>14. orders[i].type \in {"limit", "market"}
  BY <1>1, OrderTypes, OrderFields
<1>15. ASSUME NEW s \in Stations
       PROVE  Goods(s)' = Goods(s)
                + (IF s = orders[i].station /\ orders[i].type = "market" THEN GoodsBack(i) ELSE 0)
  <2>1. /\ Goods(s)' = Goods(s) + (OrderGoods(s)' - OrderGoods(s))
             + (GoodsBy(orders', handler'[t], s) - GoodsBy(orders, h, s))
        /\ Goods(s) \in Int /\ OrderGoods(s) \in Int
    BY <1>h, <1>3, <1>4, StepChange
  <2> QED BY <1>8, <1>9, <1>10, <1>12, <1>14, <2>1
<1> QED BY <1>7, <1>8, <1>13, <1>15

\* What an order held in the matching loop it holds in the book, or its handler
\* returns it.
LEMMA RestAccounts ==
  ASSUME Settled, [Next]_vars, NEW t \in Threads, Rest(t)
  PROVE  Neutral
<1>h. PICK h : h = handler[t]
  OBVIOUS
<1>i. PICK i : i = h.order
  OBVIOUS
<1>1. /\ handler \in [Threads -> [pc : PCs, req : Body \cup {NoRequest}, order : 0..Len(orders),
                                  trades : Seq(TradeRecord)]]
      /\ TypeOK /\ OrdersSound /\ Sound
  BY DEF Settled, Sound, TypeOK
<1>2. h.pc = "matching" /\ admin' = admin /\ UNCHANGED <<credits, stock, aboard>>
  BY <1>h DEF Rest, At, accounts, stations
<1>3. /\ i \in OrderIds /\ Len(orders') = Len(orders)
      /\ \A j \in OrderIds \ {i} : orders'[j] = orders[j]
      /\ SameOrder(orders'[i], orders[i]) /\ orders'[i].filled = orders[i].filled
      /\ orders[i].type = "limit" => orders'[i] = orders[i]
  BY <1>h, <1>i, <1>1, RestOrders
<1>4. /\ \A u \in Threads \ {t} : handler'[u] = handler[u]
      /\ handler'[t].order = i /\ handler'[t].trades = h.trades
      /\ handler'[t].pc = IF orders[i].side = "sell" /\ orders[i].type = "market" /\ Remaining(orders[i]) > 0
                          THEN "returning" ELSE "settling"
  BY <1>h, <1>i, <1>1 DEF Rest, Goto
<1>5. /\ \A j : Matching(j) <=> j = i
      /\ \A j : ~Matching(j)'
  <2>1. At(t, "matching") /\ \A u \in Threads : At(u, "matching") => u = t
    BY <1>h, <1>1, <1>2, MatchingOne DEF At
  <2>2. \A u \in Threads : handler'[u].pc # "matching"
    BY <1>4, <2>1 DEF At
  <2> QED BY <1>h, <1>i, <2>1, <2>2 DEF Matching, At
<1>6. orders[i].status # "cancelled" /\ i \notin admin.refunds
  <2>1. orders[i].status # "cancelled"
    BY <1>h, <1>i, <1>2 DEF Settled, Sound, MatchingSound, At
  <2> QED BY <2>1 DEF Settled, AdminSound
<1>7. /\ orders[i].type \in {"limit", "market"} /\ orders[i].side \in Sides /\ Remaining(orders[i]) \in Nat
      /\ orders[i].status \in Statuses
  BY <1>1, <1>3, OrderTypes, OrderFields
<1>8. TradesOf(i, h.trades)
  BY <1>h, <1>i, <1>1, Wells, WellTrades
<1>9. /\ \A p : Flows(orders', i, h.trades, p) = Flows(orders, i, h.trades, p)
      /\ \A s : Boughts(orders', h.trades, s) = Boughts(orders, h.trades, s)
      /\ \A s : Boughts(orders, h.trades, s) \in Int
  BY <1>1, <1>8, FlowsKept, FlowsTypes
<1> DEFINE left(s) == IF orders[i].side = "sell" /\ orders[i].type = "market" /\ orders[i].station = s
                      THEN Remaining(orders[i]) ELSE 0
<1>10. Remaining(orders'[i]) = Remaining(orders[i]) /\ orders'[i].station = orders[i].station
  BY <1>3 DEF Remaining, SameOrder
<1>11. \A p : HeldBy(orders', handler'[t], p) = HeldBy(orders, h, p)
  BY <1>i, <1>2, <1>4, <1>9 DEF HeldBy, Unsettled
<1>12. \A s : GoodsBy(orders', handler'[t], s) = GoodsBy(orders, h, s) + left(s)
  <2>1. \A s : GoodsBy(orders, h, s) = Boughts(orders, h.trades, s) + 0
    BY <1>2 DEF GoodsBy
  <2>2. \A s : GoodsBy(orders', handler'[t], s)
                 = Boughts(orders, h.trades, s)
                   + (IF handler'[t].pc = "returning" /\ orders[i].station = s THEN Remaining(orders[i]) ELSE 0)
    BY <1>4, <1>9, <1>10 DEF GoodsBy
  <2>3. \A s : (IF handler'[t].pc = "returning" /\ orders[i].station = s THEN Remaining(orders[i]) ELSE 0) = left(s)
    BY <1>4, <1>7
  <2> HIDE DEF left
  <2> QED BY <1>9, <2>1, <2>2, <2>3
<1>13. \A p : CreditsOf(i, p)' = CreditsOf(i, p)
  <2>1. CASE orders[i].type = "limit"
    BY <1>2, <1>3, <2>1, OrderKept
  <2>2. CASE orders[i].type = "market"
    <3>1. CreditsReservedBy(i) = 0 /\ CreditsReservedBy(i)' = 0
      BY <1>3, <2>2 DEF CreditsReservedBy, SameOrder
    <3> QED BY <1>2, <1>3, <1>6, <3>1 DEF CreditsOf, SameOrder
  <2> QED BY <1>7, <2>1, <2>2
<1>14. \A s : GoodsOf(i, s) \in Int /\ GoodsOf(i, s)' = GoodsOf(i, s) - left(s)
  <2>1. \A s : GoodsOf(i, s) \in Int
    BY <1>1, <1>3, OrderInt
  <2>2. CASE orders[i].type = "limit"
    <3>1. GoodsReservedBy(i)' = GoodsReservedBy(i)
      BY <1>3, <2>2 DEF GoodsReservedBy
    <3>2. \A s : GoodsOf(i, s)' = GoodsOf(i, s)
      BY <1>2, <1>3, <1>6, <2>2, <3>1 DEF GoodsOf
    <3>3. \A s : left(s) = 0
      BY <2>2
    <3> HIDE DEF left
    <3> QED BY <2>1, <3>2, <3>3
  <2>3. CASE orders[i].type = "market"
    <3>1. GoodsReservedBy(i)' = 0
      BY <1>3, <1>5, <2>3 DEF GoodsReservedBy, SameOrder
    <3>2. GoodsReservedBy(i) = IF orders[i].side = "sell" THEN Remaining(orders[i]) ELSE 0
      <4>1. ~Cancellable(orders[i]) => Remaining(orders[i]) = 0
        BY <1>1, <1>3, <1>6, <1>7 DEF Cancellable, OrdersSound, Statuses
      <4> QED BY <1>5, <1>7, <4>1 DEF GoodsReservedBy
    <3>3. \A s : GoodsOf(i, s)' = 0
      BY <1>2, <1>6, <3>1 DEF GoodsOf
    <3>4. \A s : GoodsOf(i, s) = left(s)
      BY <1>6, <1>7, <2>3, <3>2 DEF GoodsOf
    <3> HIDE DEF left
    <3> QED BY <2>1, <3>3, <3>4
  <2> QED BY <1>7, <2>2, <2>3
<1>15. /\ \A j \in OrderIds \ {i} : \A p : CreditsOf(j, p)' = CreditsOf(j, p)
       /\ \A j \in OrderIds \ {i} : \A s : GoodsOf(j, s)' = GoodsOf(j, s)
  BY <1>2, <1>3, <1>5, OrderKept
<1>16. /\ \A p : OrderCredits(p)' = OrderCredits(p) + (CreditsOf(i, p)' - CreditsOf(i, p))
       /\ \A s : OrderGoods(s)' = OrderGoods(s) + (GoodsOf(i, s)' - GoodsOf(i, s))
  BY <1>3, <1>15, OrdersOne
<1>17. \A s : left(s) \in Int
  BY <1>7
<1> HIDE DEF left
<1>18. \A p : CreditsOf(i, p) \in Int
  BY <1>1, <1>3, OrderInt
<1>19. ASSUME NEW p \in Players PROVE Wealth(p)' = Wealth(p)
  <2>1. /\ Wealth(p)' = Wealth(p) + (OrderCredits(p)' - OrderCredits(p))
             + (HeldBy(orders', handler'[t], p) - HeldBy(orders, h, p))
        /\ Wealth(p) \in Int /\ OrderCredits(p) \in Int /\ HeldBy(orders, h, p) \in Int
    BY <1>h, <1>2, <1>4, StepChange
  <2> QED BY <1>11, <1>13, <1>16, <1>18, <2>1
<1>20. ASSUME NEW s \in Stations PROVE Goods(s)' = Goods(s)
  <2>1. /\ Goods(s)' = Goods(s) + (OrderGoods(s)' - OrderGoods(s))
             + (GoodsBy(orders', handler'[t], s) - GoodsBy(orders, h, s))
        /\ Goods(s) \in Int /\ OrderGoods(s) \in Int /\ GoodsBy(orders, h, s) \in Int
    BY <1>h, <1>2, <1>4, StepChange
  <2> QED BY <1>12, <1>14, <1>16, <1>17, <2>1
<1> QED BY <1>19, <1>20 DEF Neutral

-----------------------------------------------------------------------------
(* A turn of the matching loop *)

\* Two orders take a step.
LEMMA OrdersTwo ==
  ASSUME Settled, [Next]_vars, Len(orders') = Len(orders), NEW j \in OrderIds, NEW k \in OrderIds, j # k
  PROVE  /\ \A p : (\A i \in OrderIds \ {j, k} : CreditsOf(i, p)' = CreditsOf(i, p))
                     => OrderCredits(p)' = OrderCredits(p) + (CreditsOf(j, p)' - CreditsOf(j, p))
                                                           + (CreditsOf(k, p)' - CreditsOf(k, p))
         /\ \A s : (\A i \in OrderIds \ {j, k} : GoodsOf(i, s)' = GoodsOf(i, s))
                     => OrderGoods(s)' = OrderGoods(s) + (GoodsOf(j, s)' - GoodsOf(j, s))
                                                       + (GoodsOf(k, s)' - GoodsOf(k, s))
<1>1. OrderIds' = OrderIds /\ IsFiniteSet(OrderIds)
  <2>1. OrderIds' = OrderIds
    BY DEF OrderIds
  <2>2. IsFiniteSet(OrderIds)
    BY OrdersFinite DEF Settled, Sound
  <2> QED BY <2>1, <2>2
<1>2. \A i \in OrderIds : /\ \A p : CreditsOf(i, p) \in Int /\ CreditsOf(i, p)' \in Int
                          /\ \A s : GoodsOf(i, s) \in Int /\ GoodsOf(i, s)' \in Int
  BY <1>1, NextInt, OrderInt DEF Settled
<1>3. ASSUME NEW p, \A i \in OrderIds \ {j, k} : CreditsOf(i, p)' = CreditsOf(i, p)
      PROVE  OrderCredits(p)' = OrderCredits(p) + (CreditsOf(j, p)' - CreditsOf(j, p))
                                                + (CreditsOf(k, p)' - CreditsOf(k, p))
  <2> DEFINE f == [i \in OrderIds |-> CreditsOf(i, p)]
             g == [i \in OrderIds |-> CreditsOf(i, p)']
  <2>1. OrderCredits(p) = SumFunctionOnSet(f, OrderIds)
    BY DEF OrderCredits
  <2>2. OrderCredits(p)' = SumFunctionOnSet(g, OrderIds)
    BY <1>1 DEF OrderCredits
  <2>3. DiffersTwice(g, f, j, k, OrderIds)
    BY <1>1, <1>2, <1>3 DEF DiffersTwice
  <2>4. g[j] = CreditsOf(j, p)' /\ f[j] = CreditsOf(j, p) /\ g[k] = CreditsOf(k, p)' /\ f[k] = CreditsOf(k, p)
    OBVIOUS
  <2> HIDE DEF f, g
  <2> QED BY <2>1, <2>2, <2>3, <2>4, SumDiffersTwice
<1>4. ASSUME NEW s, \A i \in OrderIds \ {j, k} : GoodsOf(i, s)' = GoodsOf(i, s)
      PROVE  OrderGoods(s)' = OrderGoods(s) + (GoodsOf(j, s)' - GoodsOf(j, s))
                                            + (GoodsOf(k, s)' - GoodsOf(k, s))
  <2> DEFINE f == [i \in OrderIds |-> GoodsOf(i, s)]
             g == [i \in OrderIds |-> GoodsOf(i, s)']
  <2>1. OrderGoods(s) = SumFunctionOnSet(f, OrderIds)
    BY DEF OrderGoods
  <2>2. OrderGoods(s)' = SumFunctionOnSet(g, OrderIds)
    BY <1>1 DEF OrderGoods
  <2>3. DiffersTwice(g, f, j, k, OrderIds)
    BY <1>1, <1>2, <1>4 DEF DiffersTwice
  <2>4. g[j] = GoodsOf(j, s)' /\ f[j] = GoodsOf(j, s) /\ g[k] = GoodsOf(k, s)' /\ f[k] = GoodsOf(k, s)
    OBVIOUS
  <2> HIDE DEF f, g
  <2> QED BY <2>1, <2>2, <2>3, <2>4, SumDiffersTwice
<1> QED BY <1>3, <1>4

\* What filling an order takes from what it holds.
LEMMA FilledHolds ==
  ASSUME Settled, NEW i \in OrderIds, Cancellable(orders[i]), NEW n \in Nat \ {0}, n <= Remaining(orders[i]),
         orders'[i] = Fill(orders[i], n), admin' = admin, Matching(i)' <=> Matching(i)
  PROVE  /\ \A p : CreditsOf(i, p)' = CreditsOf(i, p)
              - (IF orders[i].player = p /\ orders[i].side = "buy" /\ orders[i].type = "limit"
                 THEN orders[i].price * n ELSE 0)
         /\ \A s : GoodsOf(i, s)' = GoodsOf(i, s)
              - (IF orders[i].station = s /\ orders[i].side = "sell" /\ (orders[i].type = "limit" \/ Matching(i))
                 THEN n ELSE 0)
<1>1. TypeOK /\ OrdersSound
  BY DEF Settled, Sound
<1>2. i \notin admin.refunds
  BY DEF Settled, AdminSound, Cancellable
<1>3. orders[i] \in OrderRecord /\ Remaining(orders[i]) \in Nat
  BY <1>1, OrderTypes
<1>4. /\ SameOrder(orders'[i], orders[i])
      /\ Remaining(orders'[i]) = Remaining(orders[i]) - n
      /\ orders'[i].status = IF Remaining(orders[i]) = n THEN "filled" ELSE "partially_filled"
  BY <1>3, FilledOrder
<1>5. Cancellable(orders'[i]) \/ (Remaining(orders[i]) = n /\ ~Cancellable(orders'[i]))
  BY <1>4 DEF Cancellable
<1>6. orders[i].type = "limit" => orders[i].price \in Nat
  BY <1>1, MarketAssumption DEF OrdersSound
<1>7. orders[i].type = "limit" =>
        orders[i].price * (Remaining(orders[i]) - n) = orders[i].price * Remaining(orders[i]) - orders[i].price * n
  BY <1>3, <1>6
<1>8. /\ orders'[i].side = orders[i].side /\ orders'[i].type = orders[i].type /\ orders'[i].price = orders[i].price
      /\ orders'[i].player = orders[i].player /\ orders'[i].station = orders[i].station
  BY <1>4 DEF SameOrder
<1>9. CreditsReservedBy(i) = IF orders[i].side = "buy" /\ orders[i].type = "limit"
                             THEN orders[i].price * Remaining(orders[i]) ELSE 0
  BY DEF CreditsReservedBy
<1>10. CreditsReservedBy(i)' = IF orders[i].side = "buy" /\ orders[i].type = "limit"
                               THEN orders[i].price * (Remaining(orders[i]) - n) ELSE 0
  <2>1. CASE Cancellable(orders'[i])
    BY <1>4, <1>8, <2>1 DEF CreditsReservedBy
  <2>2. CASE ~Cancellable(orders'[i])
    <3>1. CreditsReservedBy(i)' = 0
      BY <2>2 DEF CreditsReservedBy
    <3>2. Remaining(orders[i]) = n
      BY <1>5, <2>2
    <3> QED BY <1>6, <1>7, <3>1, <3>2
  <2> QED BY <2>1, <2>2
<1>11. GoodsReservedBy(i) = IF orders[i].side = "sell" /\ (orders[i].type = "limit" \/ Matching(i))
                            THEN Remaining(orders[i]) ELSE 0
  BY DEF GoodsReservedBy
<1>12. GoodsReservedBy(i)' = IF orders[i].side = "sell" /\ (orders[i].type = "limit" \/ Matching(i))
                             THEN Remaining(orders[i]) - n ELSE 0
  <2>1. CASE Cancellable(orders'[i])
    BY <1>4, <1>8, <2>1 DEF GoodsReservedBy
  <2>2. CASE ~Cancellable(orders'[i])
    <3>1. GoodsReservedBy(i)' = 0
      BY <2>2 DEF GoodsReservedBy
    <3>2. Remaining(orders[i]) = n
      BY <1>5, <2>2
    <3> QED BY <1>3, <3>1, <3>2
  <2> QED BY <2>1, <2>2
<1>13. /\ \A p : CreditsOf(i, p) = IF orders[i].player = p THEN CreditsReservedBy(i) + 0 ELSE 0
       /\ \A p : CreditsOf(i, p)' = IF orders[i].player = p THEN CreditsReservedBy(i)' + 0 ELSE 0
       /\ \A s : GoodsOf(i, s) = IF orders[i].station = s THEN GoodsReservedBy(i) + 0 ELSE 0
       /\ \A s : GoodsOf(i, s)' = IF orders[i].station = s THEN GoodsReservedBy(i)' + 0 ELSE 0
  BY <1>2, <1>8 DEF CreditsOf, GoodsOf
<1>14. \A p : CreditsOf(i, p)' = CreditsOf(i, p)
         - (IF orders[i].player = p /\ orders[i].side = "buy" /\ orders[i].type = "limit"
            THEN orders[i].price * n ELSE 0)
  BY <1>3, <1>6, <1>7, <1>9, <1>10, <1>13
<1>15. \A s : GoodsOf(i, s)' = GoodsOf(i, s)
         - (IF orders[i].station = s /\ orders[i].side = "sell" /\ (orders[i].type = "limit" \/ Matching(i))
            THEN n ELSE 0)
  BY <1>3, <1>11, <1>12, <1>13
<1> QED BY <1>14, <1>15

\* The trade of order i with the waiting order r.
Traded(i, r, p, n) == [price |-> p, quantity |-> n,
                       buy  |-> IF orders[i].side = "buy" THEN i ELSE r,
                       sell |-> IF orders[i].side = "buy" THEN r ELSE i]

\* A trade moves its price to the seller and its goods to the buyer, from what the
\* two orders hold.  Only the rest of a market order that waits in the book holds
\* nothing.
LEMMA DealAccounts ==
  ASSUME Settled, [Next]_vars, NEW t \in Threads, NEW i, NEW r, NEW p, NEW n, Deal(t, i, r, p, n)
  PROVE  LET tr == Traded(i, r, p, n)
             buy == orders[tr.buy]
             sell == orders[tr.sell]
             revived == orders[r].type = "market"
         IN  /\ tr.buy \in OrderIds /\ tr.sell \in OrderIds /\ buy.side = "buy" /\ sell.side = "sell"
             /\ \A q \in Players : Wealth(q)' = Wealth(q)
                  + (IF q = sell.player THEN p * n ELSE 0)
                  - (IF q = buy.player /\ ~(r = tr.buy /\ revived) THEN p * n ELSE 0)
             /\ \A s \in Stations : Goods(s)' = Goods(s)
                  + (IF s = buy.station THEN n ELSE 0)
                  - (IF s = sell.station /\ ~(r = tr.sell /\ revived) THEN n ELSE 0)
<1>h. PICK h : h = handler[t]
  OBVIOUS
<1>tr. PICK tr : tr = Traded(i, r, p, n)
  OBVIOUS
<1>b. PICK b : b = tr.buy
  OBVIOUS
<1>k. PICK k : k = tr.sell
  OBVIOUS
<1>1. /\ handler \in [Threads -> [pc : PCs, req : Body \cup {NoRequest}, order : 0..Len(orders),
                                  trades : Seq(TradeRecord)]]
      /\ TypeOK /\ OrdersSound /\ Sound
  BY DEF Settled, Sound, TypeOK
<1>2. /\ h.pc = "matching" /\ i = h.order /\ i \in OrderIds /\ r \in OrderIds /\ i # r
      /\ p \in Prices /\ p \in Nat /\ n \in Nat \ {0} /\ n <= Remaining(orders[i]) /\ n <= Remaining(orders[r])
      /\ orders[r].price = p /\ Cancellable(orders[r])
      /\ \/ orders[i].side = "buy" /\ orders[r].side = "sell"
         \/ orders[i].side = "sell" /\ orders[r].side = "buy"
      /\ admin' = admin /\ UNCHANGED <<credits, stock, aboard>>
  BY <1>h, MarketAssumption DEF Deal, At, accounts, stations
<1>3. /\ tr.price = p /\ tr.quantity = n
      /\ (orders[i].side = "buy" /\ b = i /\ k = r) \/ (orders[i].side = "sell" /\ b = r /\ k = i)
  BY <1>tr, <1>b, <1>k, <1>2 DEF Traded
<1>4. /\ b \in OrderIds /\ k \in OrderIds /\ b # k /\ {i, r} = {b, k}
      /\ orders[b].side = "buy" /\ orders[k].side = "sell"
  BY <1>2, <1>3
<1>5. tr \in TradeRecord
  BY <1>tr, <1>2, OrderTypes, <1>1 DEF Traded, TradeRecord
<1>6. /\ Len(orders') = Len(orders)
      /\ orders'[i] = Fill(orders[i], n) /\ orders'[r] = Fill(orders[r], n)
      /\ \A j \in OrderIds \ {i, r} : orders'[j] = orders[j]
  BY <1>1, DealOrders
<1>7. /\ \A j : Matching(j) <=> j = i
      /\ \A j : Matching(j)' <=> j = i
      /\ handler'[t].pc = "matching" /\ handler'[t].order = i
      /\ \A u \in Threads \ {t} : handler'[u] = handler[u]
  BY <1>1, DealResting
<1>8. handler'[t].trades = Append(h.trades, tr)
  <2>1. handler' = [handler EXCEPT ![t].trades = Append(@, tr)]
    BY <1>tr DEF Deal, Traded
  <2>2. handler[t] = [pc |-> h.pc, req |-> h.req, order |-> h.order, trades |-> h.trades]
    BY <1>h, <1>1
  <2> QED BY <1>1, <2>1, <2>2
<1>9. Cancellable(orders[i])
  <2>1. orders[i].status # "cancelled"
    BY <1>h, <1>2 DEF Settled, Sound, MatchingSound, At
  <2>2. Remaining(orders[i]) # 0 /\ orders[i].status \in Statuses
    BY <1>1, <1>2, OrderTypes, OrderFields
  <2> QED BY <1>1, <1>2, <2>1, <2>2 DEF Cancellable, OrdersSound, Statuses
<1> DEFINE cr(j, q) == IF orders[j].player = q /\ orders[j].side = "buy" /\ orders[j].type = "limit"
                       THEN orders[j].price * n ELSE 0
           gd(j, s) == IF orders[j].station = s /\ orders[j].side = "sell" /\ (orders[j].type = "limit" \/ j = i)
                       THEN n ELSE 0
<1>10. \A j \in {i, r} :
         /\ \A q : CreditsOf(j, q)' = CreditsOf(j, q) - cr(j, q)
         /\ \A s : GoodsOf(j, s)' = GoodsOf(j, s) - gd(j, s)
  BY <1>2, <1>6, <1>7, <1>9, FilledHolds
<1>11. /\ \A j \in OrderIds \ {i, r} : \A q : CreditsOf(j, q)' = CreditsOf(j, q)
       /\ \A j \in OrderIds \ {i, r} : \A s : GoodsOf(j, s)' = GoodsOf(j, s)
  BY <1>2, <1>6, <1>7, OrderKept
<1>12. /\ \A q : OrderCredits(q)' = OrderCredits(q) + (CreditsOf(i, q)' - CreditsOf(i, q))
                                                    + (CreditsOf(r, q)' - CreditsOf(r, q))
       /\ \A s : OrderGoods(s)' = OrderGoods(s) + (GoodsOf(i, s)' - GoodsOf(i, s))
                                                + (GoodsOf(r, s)' - GoodsOf(r, s))
  BY <1>2, <1>6, <1>11, OrdersTwo
<1>13. \A j \in {i, r} : SameOrder(orders'[j], orders[j])
  BY <1>1, <1>2, OrdersKept
<1>14. TradesOf(i, h.trades) /\ h.trades \in Seq(TradeRecord) /\ Unsettled(h) = h.trades
       /\ Unsettled(handler'[t]) = handler'[t].trades
  BY <1>h, <1>1, <1>2, <1>7, Wells, WellTrades DEF Unsettled
<1> DEFINE more == handler'[t].trades
<1>15. /\ \A q : HeldBy(orders', handler'[t], q) = Flows(orders', i, more, q)
       /\ \A s : GoodsBy(orders', handler'[t], s) = Boughts(orders', more, s) + 0
       /\ \A q : HeldBy(orders, h, q) = Flows(orders, i, h.trades, q)
       /\ \A s : GoodsBy(orders, h, s) = Boughts(orders, h.trades, s) + 0
  BY <1>2, <1>7, <1>14 DEF HeldBy, GoodsBy
<1> HIDE DEF more
<1>16. /\ \A q : Flows(orders', i, h.trades, q) = Flows(orders, i, h.trades, q)
       /\ \A s : Boughts(orders', h.trades, s) = Boughts(orders, h.trades, s)
       /\ \A q : Flows(orders, i, h.trades, q) \in Int
       /\ \A s : Boughts(orders, h.trades, s) \in Int
  BY <1>1, <1>14, FlowsKept, FlowsTypes
<1> DEFINE out(q) == IF orders[b].player # q \/ orders[i].side = "sell" THEN 0
                     ELSE IF orders[b].type = "market" THEN p * n
                     ELSE (p - orders[b].price) * n
<1>17. orders[b].type \in {"limit", "market"} /\ (orders[b].type = "limit" => orders[b].price \in Nat)
       /\ (orders[k].type \in {"limit", "market"})
  BY <1>1, <1>4, OrderTypes, OrderFields, MarketAssumption DEF OrdersSound
<1>18. /\ \A q : Flow(orders', i, tr, q) = (IF orders[k].player = q THEN p * n ELSE 0) - out(q)
       /\ \A s : Bought(orders', tr, s) = IF orders[b].station = s THEN n ELSE 0
  <2>1. /\ orders'[b].player = orders[b].player /\ orders'[b].type = orders[b].type
        /\ orders'[b].price = orders[b].price /\ orders'[b].station = orders[b].station
        /\ orders'[k].player = orders[k].player /\ orders'[i].side = orders[i].side
    BY <1>4, <1>13 DEF SameOrder
  <2> QED BY <1>b, <1>k, <1>3, <2>1 DEF Flow, Bought
<1>19. \A q : out(q) \in Int /\ p * n \in Int
  <2>1. p * n \in Int
    BY <1>2
  <2>2. orders[b].type = "limit" => (p - orders[b].price) * n \in Int
    BY <1>2, <1>17
  <2> QED BY <1>17, <2>1, <2>2
<1>20. \A q : cr(b, q) + out(q) = IF q = orders[b].player /\ ~(r = b /\ orders[r].type = "market")
                                  THEN p * n ELSE 0
  <2> SUFFICES ASSUME NEW q, q = orders[b].player
               PROVE  cr(b, q) + out(q) = IF ~(r = b /\ orders[r].type = "market") THEN p * n ELSE 0
    BY <1>4
  <2>1. CASE b = i
    <3>1. orders[i].side # "sell"
      BY <1>4, <2>1
    <3>2. CASE orders[b].type = "market"
      BY <1>2, <1>19, <2>1, <3>1, <3>2
    <3>3. CASE orders[b].type = "limit"
      <4>1. cr(b, q) = orders[b].price * n /\ out(q) = (p - orders[b].price) * n
        BY <1>4, <3>1, <3>3
      <4>2. orders[b].price * n + (p - orders[b].price) * n = p * n
        BY <1>2, <1>17, <3>3
      <4> QED BY <1>2, <2>1, <4>1, <4>2
    <3> QED BY <1>17, <3>2, <3>3
  <2>2. CASE b = r
    <3>1. orders[i].side = "sell" /\ orders[b].price = p
      BY <1>2, <1>3, <2>2
    <3>2. out(q) = 0
      BY <3>1
    <3>3. cr(b, q) = IF orders[b].type = "limit" THEN p * n ELSE 0
      BY <1>4, <3>1
    <3> HIDE DEF cr, out
    <3> QED BY <1>17, <1>19, <2>2, <3>2, <3>3
  <2> QED BY <1>3, <2>1, <2>2
<1>21. \A s : gd(k, s) = IF s = orders[k].station /\ ~(r = k /\ orders[r].type = "market") THEN n ELSE 0
  BY <1>2, <1>3, <1>4, <1>17
<1>22. (\A q : cr(k, q) = 0) /\ (\A s : gd(b, s) = 0)
  BY <1>4
<1>23. (\A q : cr(b, q) \in Int) /\ (\A s : gd(k, s) \in Int)
  BY <1>2, <1>17
<1> HIDE DEF cr, gd, out
<1>24. /\ \A q : OrderCredits(q)' = OrderCredits(q) + (CreditsOf(b, q)' - CreditsOf(b, q))
                                                    + (CreditsOf(k, q)' - CreditsOf(k, q))
       /\ \A s : OrderGoods(s)' = OrderGoods(s) + (GoodsOf(b, s)' - GoodsOf(b, s))
                                                + (GoodsOf(k, s)' - GoodsOf(k, s))
  <2>1. OrderIds \ {i, r} = OrderIds \ {b, k}
    BY <1>4
  <2>2. /\ \A j \in OrderIds \ {b, k} : \A q : CreditsOf(j, q)' = CreditsOf(j, q)
        /\ \A j \in OrderIds \ {b, k} : \A s : GoodsOf(j, s)' = GoodsOf(j, s)
    BY <1>11, <2>1
  <2> QED BY <1>4, <1>6, <2>2, OrdersTwo
<1>25. /\ \A q : CreditsOf(b, q) \in Int /\ CreditsOf(k, q) \in Int
       /\ \A s : GoodsOf(b, s) \in Int /\ GoodsOf(k, s) \in Int
  BY <1>1, <1>4, OrderInt
<1>26. /\ \A q \in Players : OrderCredits(q)' = OrderCredits(q) - cr(b, q)
       /\ \A s \in Stations : OrderGoods(s)' = OrderGoods(s) - gd(k, s)
  <2>1. /\ \A q : CreditsOf(b, q)' = CreditsOf(b, q) - cr(b, q) /\ CreditsOf(k, q)' = CreditsOf(k, q) - 0
        /\ \A s : GoodsOf(b, s)' = GoodsOf(b, s) - 0 /\ GoodsOf(k, s)' = GoodsOf(k, s) - gd(k, s)
    BY <1>4, <1>10, <1>22
  <2>2. /\ \A q \in Players : OrderCredits(q) \in Int
        /\ \A s \in Stations : OrderGoods(s) \in Int
    BY WealthIs DEF Settled
  <2> QED BY <1>23, <1>24, <1>25, <2>1, <2>2
<1>27. /\ \A j \in 1..Len(h.trades) : /\ \A q : Flow(orders', i, h.trades[j], q) \in Int
                                      /\ \A s : Bought(orders', h.trades[j], s) \in Int
  <2>1. \A j \in 1..Len(h.trades) : /\ Proper(h.trades[j]) /\ i \in {h.trades[j].buy, h.trades[j].sell}
                                    /\ h.trades[j] \in TradeRecord
    BY <1>14, ElementOfSeq DEF TradesOf
  <2>2. ASSUME NEW j \in 1..Len(h.trades)
        PROVE  /\ \A q : Flow(orders', i, h.trades[j], q) \in Int
               /\ \A s : Bought(orders', h.trades[j], s) \in Int
    <3>1. PICK old : old = h.trades[j]
      OBVIOUS
    <3>2. Proper(old) /\ i \in {old.buy, old.sell} /\ old \in TradeRecord
      BY <2>1, <3>1
    <3>3. /\ \A q : Flow(orders', i, old, q) = Flow(orders, i, old, q)
          /\ \A s : Bought(orders', old, s) = Bought(orders, old, s)
      BY <1>1, <3>2, FlowKept
    <3>4. (\A q : Flow(orders, i, old, q) \in Int) /\ \A s : Bought(orders, old, s) \in Nat
      BY <1>1, <3>2, FlowTypes
    <3> QED BY <3>1, <3>3, <3>4
  <2> QED BY <2>2
<1>28. (\A q : Flow(orders', i, tr, q) \in Int) /\ \A s : Bought(orders', tr, s) \in Int
  BY <1>2, <1>18, <1>19
<1>29. more = Append(h.trades, tr)
  BY <1>8 DEF more
<1>30. \A j \in 1..Len(more) : more[j] = tr \/ \E l \in 1..Len(h.trades) : more[j] = h.trades[l]
  BY <1>5, <1>14, <1>29
<1>31. /\ \A q : Flows(orders', i, more, q) = Flows(orders', i, h.trades, q) + Flow(orders', i, tr, q)
       /\ \A s : Boughts(orders', more, s) = Boughts(orders', h.trades, s) + Bought(orders', tr, s)
  <2>1. ASSUME NEW j \in 1..Len(more)
        PROVE  (\A q : Flow(orders', i, more[j], q) \in Int) /\ (\A s : Bought(orders', more[j], s) \in Int)
    <3>1. CASE more[j] = tr
      BY <1>28, <3>1
    <3>2. ASSUME NEW l \in 1..Len(h.trades), more[j] = h.trades[l]
          PROVE  (\A q : Flow(orders', i, more[j], q) \in Int) /\ (\A s : Bought(orders', more[j], s) \in Int)
      BY <1>27, <3>2
    <3> QED BY <1>30, <3>1, <3>2
  <2>2. /\ \A q : (\A j \in 1..Len(more) : Flow(orders', i, more[j], q) \in Int)
                 => Flows(orders', i, more, q) = Flows(orders', i, h.trades, q) + Flow(orders', i, tr, q)
        /\ \A s : (\A j \in 1..Len(more) : Bought(orders', more[j], s) \in Int)
                 => Boughts(orders', more, s) = Boughts(orders', h.trades, s) + Bought(orders', tr, s)
    <3>1. PICK os : os = orders'
      OBVIOUS
    <3>2. PICK old : old = h.trades
      OBVIOUS
    <3>3. PICK new : new = more
      OBVIOUS
    <3>4. OneMore(new, old, tr)
      BY <1>5, <1>14, <1>29, <3>2, <3>3 DEF OneMore
    <3>5. /\ \A q : (\A j \in 1..Len(new) : Flow(os, i, new[j], q) \in Int)
                   => Flows(os, i, new, q) = Flows(os, i, old, q) + Flow(os, i, tr, q)
          /\ \A s : (\A j \in 1..Len(new) : Bought(os, new[j], s) \in Int)
                   => Boughts(os, new, s) = Boughts(os, old, s) + Bought(os, tr, s)
      BY <3>4, FlowsAppended
    <3> QED BY <3>1, <3>2, <3>3, <3>5
  <2> QED BY <2>1, <2>2
<1>32. ASSUME NEW q \in Players
       PROVE  Wealth(q)' = Wealth(q) + (IF q = orders[k].player THEN p * n ELSE 0)
                - (IF q = orders[b].player /\ ~(r = b /\ orders[r].type = "market") THEN p * n ELSE 0)
  <2>1. /\ Wealth(q)' = Wealth(q) + (OrderCredits(q)' - OrderCredits(q))
             + (HeldBy(orders', handler'[t], q) - HeldBy(orders, h, q))
        /\ Wealth(q) \in Int /\ OrderCredits(q) \in Int
    BY <1>h, <1>2, <1>7, StepChange
  <2>2. HeldBy(orders', handler'[t], q) - HeldBy(orders, h, q) = Flow(orders', i, tr, q)
    BY <1>15, <1>16, <1>28, <1>31
  <2>3. OrderCredits(q)' - OrderCredits(q) = - cr(b, q)
    BY <1>23, <1>26, <2>1
  <2>4. Wealth(q)' = Wealth(q) + (IF orders[k].player = q THEN p * n ELSE 0) - (cr(b, q) + out(q))
    BY <1>18, <1>19, <1>23, <2>1, <2>2, <2>3
  <2> QED BY <1>20, <2>4
<1>33. ASSUME NEW s \in Stations
       PROVE  Goods(s)' = Goods(s) + (IF s = orders[b].station THEN n ELSE 0)
                - (IF s = orders[k].station /\ ~(r = k /\ orders[r].type = "market") THEN n ELSE 0)
  <2>1. /\ Goods(s)' = Goods(s) + (OrderGoods(s)' - OrderGoods(s))
             + (GoodsBy(orders', handler'[t], s) - GoodsBy(orders, h, s))
        /\ Goods(s) \in Int /\ OrderGoods(s) \in Int
    BY <1>h, <1>2, <1>7, StepChange
  <2>2. GoodsBy(orders', handler'[t], s) - GoodsBy(orders, h, s) = Bought(orders', tr, s)
    BY <1>15, <1>16, <1>28, <1>31
  <2>3. OrderGoods(s)' - OrderGoods(s) = - gd(k, s)
    BY <1>23, <1>26, <2>1
  <2>4. Goods(s)' = Goods(s) + (IF orders[b].station = s THEN n ELSE 0) - gd(k, s)
    BY <1>2, <1>18, <1>23, <2>1, <2>2, <2>3
  <2> QED BY <1>21, <2>4
<1> QED BY <1>tr, <1>b, <1>k, <1>4, <1>32, <1>33

-----------------------------------------------------------------------------
(* The admin *)

\* While the handlers wait, an account changes with its parts.
LEMMA AdminChange ==
  ASSUME Settled, [Next]_vars, handler' = handler
  PROVE  /\ \A p \in Players :
              /\ Wealth(p)' = Wealth(p) + (credits'[p] - credits[p]) + (OrderCredits(p)' - OrderCredits(p))
              /\ Wealth(p) \in Int /\ credits[p] \in Int /\ credits'[p] \in Int
              /\ OrderCredits(p) \in Int /\ OrderCredits(p)' \in Int
         /\ \A s \in Stations :
              /\ Goods(s)' = Goods(s) + (stock'[s] - stock[s]) + (Incoming(s)' - Incoming(s))
                                      + (OrderGoods(s)' - OrderGoods(s))
              /\ Goods(s) \in Int /\ stock[s] \in Nat /\ stock'[s] \in Int
              /\ Incoming(s) \in Int /\ Incoming(s)' \in Int
              /\ OrderGoods(s) \in Int /\ OrderGoods(s)' \in Int
<1>1. (\A p : HandlerCredits(p)' = HandlerCredits(p)) /\ (\A s : HandlerGoods(s)' = HandlerGoods(s))
  BY HandlersNone
<1>2. ASSUME NEW p \in Players
      PROVE  /\ Wealth(p)' = Wealth(p) + (credits'[p] - credits[p]) + (OrderCredits(p)' - OrderCredits(p))
             /\ Wealth(p) \in Int /\ credits[p] \in Int /\ credits'[p] \in Int
             /\ OrderCredits(p) \in Int /\ OrderCredits(p)' \in Int
  <2>1. Wealth(p)' = Wealth(p) + (credits'[p] - credits[p]) + (OrderCredits(p)' - OrderCredits(p))
                       + (HandlerCredits(p)' - HandlerCredits(p))
    BY WealthChange
  <2>2. /\ Wealth(p) \in Int /\ credits[p] \in Int /\ OrderCredits(p) \in Int /\ HandlerCredits(p) \in Int
    BY WealthIs DEF Settled
  <2>3. credits'[p] \in Int /\ OrderCredits(p)' \in Int
    BY WealthNext
  <2> QED BY <1>1, <2>1, <2>2, <2>3
<1>3. ASSUME NEW s \in Stations
      PROVE  /\ Goods(s)' = Goods(s) + (stock'[s] - stock[s]) + (Incoming(s)' - Incoming(s))
                                     + (OrderGoods(s)' - OrderGoods(s))
             /\ Goods(s) \in Int /\ stock[s] \in Nat /\ stock'[s] \in Int
             /\ Incoming(s) \in Int /\ Incoming(s)' \in Int
             /\ OrderGoods(s) \in Int /\ OrderGoods(s)' \in Int
  <2>1. Goods(s)' = Goods(s) + (stock'[s] - stock[s]) + (Incoming(s)' - Incoming(s))
                      + (OrderGoods(s)' - OrderGoods(s)) + (HandlerGoods(s)' - HandlerGoods(s))
    BY WealthChange
  <2>2. /\ Goods(s) \in Int /\ stock[s] \in Nat /\ Incoming(s) \in Int /\ OrderGoods(s) \in Int
        /\ HandlerGoods(s) \in Int
    BY WealthIs DEF Settled
  <2>3. stock'[s] \in Int /\ Incoming(s)' \in Int /\ OrderGoods(s)' \in Int
    BY WealthNext
  <2> QED BY <1>1, <2>1, <2>2, <2>3
<1> QED BY <1>2, <1>3

\* Nor do the orders change.
LEMMA OrdersAlone ==
  ASSUME Settled, [Next]_vars, handler' = handler, orders' = orders, admin'.refunds = admin.refunds
  PROVE  (\A p : OrderCredits(p)' = OrderCredits(p)) /\ (\A s : OrderGoods(s)' = OrderGoods(s))
<1>1. \A i : Matching(i)' <=> Matching(i)
  BY DEF Matching, At
<1>2. /\ \A i, p : CreditsOf(i, p)' = CreditsOf(i, p)
      /\ \A i, s : GoodsOf(i, s)' = GoodsOf(i, s)
  BY <1>1, OrderKept
<1> QED BY <1>2, OrdersEach

\* The admin cancels orders: the rest of a market sell is there twice.
CancelsFreeSell ==
  \E i \in OrderIds : /\ orders[i].side = "sell" /\ orders[i].type = "market"
                      /\ Cancels(i)

\* Cancelling the orders of a station or of a player moves no credits; market sells
\* among them get their goods a second time.
LEMMA CancelAllAccounts ==
  ASSUME Settled, [Next]_vars, CancelOrdersAt \/ DeleteOrders
  PROVE  /\ \A p \in Players : Wealth(p)' = Wealth(p)
         /\ \A s \in Stations : /\ Goods(s)' >= Goods(s)
                                /\ Goods(s)' # Goods(s) => CancelsFreeSell
<1>1. TypeOK /\ OrdersSound
  BY DEF Settled, Sound
<1>2. PICK ids \in SUBSET OrderIds :
        /\ \A i \in ids : Cancellable(orders[i])
        /\ CancelOrders(ids)
        /\ admin'.refunds = ids
  <2>1. CASE CancelOrdersAt
    <3> DEFINE ids == {i \in OrderIds : orders[i].station = admin.station /\ Cancellable(orders[i])}
    <3>1. CancelOrders(ids) /\ ids \in SUBSET OrderIds /\ \A i \in ids : Cancellable(orders[i])
      BY <2>1 DEF CancelOrdersAt
    <3>2. admin' = [admin EXCEPT !.pc = "remove", !.refunds = ids] /\ admin.pc = "cancel_orders"
      BY <2>1 DEF CancelOrdersAt, AdminAt
    <3> HIDE DEF ids
    <3>3. admin = [pc |-> admin.pc, station |-> admin.station, refunds |-> admin.refunds]
      BY <1>1, <3>2 DEF TypeOK, AdminRecord, AdminIdle
    <3>4. admin'.refunds = ids
      BY <3>2, <3>3
    <3> QED BY <3>1, <3>4
  <2>2. CASE DeleteOrders
    <3> DEFINE ids == {i \in OrderIds : orders[i].player = admin.player /\ Cancellable(orders[i])}
    <3>1. CancelOrders(ids) /\ ids \in SUBSET OrderIds /\ \A i \in ids : Cancellable(orders[i])
      BY <2>2 DEF DeleteOrders
    <3>2. admin' = [admin EXCEPT !.pc = "refund_credits", !.refunds = ids] /\ admin.pc = "delete_orders"
      BY <2>2 DEF DeleteOrders, AdminAt
    <3> HIDE DEF ids
    <3>3. admin = [pc |-> admin.pc, player |-> admin.player, refunds |-> admin.refunds]
      BY <1>1, <3>2 DEF TypeOK, AdminRecord, AdminIdle
    <3>4. admin'.refunds = ids
      BY <3>2, <3>3
    <3> QED BY <3>1, <3>4
  <2> QED BY <2>1, <2>2
<1>3. /\ handler' = handler /\ credits' = credits /\ stock' = stock /\ aboard' = aboard
      /\ marketLock = NoThread /\ admin.refunds = {}
  BY DEF CancelOrdersAt, DeleteOrders, AdminAt, accounts, stations, Settled, AdminSound
<1>4. \A j : ~Matching(j) /\ ~Matching(j)'
  <2>1. \A j : ~Matching(j)
    BY <1>3, MatchingOne, MarketAssumption DEF Settled, Sound, LockSound
  <2> QED BY <1>3, <2>1 DEF Matching, At
<1>5. /\ Len(orders') = Len(orders)
      /\ \A j \in OrderIds \ ids : orders'[j] = orders[j]
      /\ \A j \in ids : /\ SameOrder(orders'[j], orders[j]) /\ orders'[j].filled = orders[j].filled
                        /\ orders'[j].status = "cancelled"
  BY <1>1, <1>2, CancelledOrders
<1>6. /\ \A j \in OrderIds \ ids : \A p : CreditsOf(j, p)' = CreditsOf(j, p)
      /\ \A j \in OrderIds \ ids : \A s : GoodsOf(j, s)' = GoodsOf(j, s)
  BY <1>2, <1>3, <1>4, <1>5, OrderKept
<1>7. ASSUME NEW j \in ids
      PROVE  /\ \A p : CreditsOf(j, p)' = CreditsOf(j, p)
             /\ \A s : GoodsOf(j, s) <= GoodsOf(j, s)'
             /\ \A s : GoodsOf(j, s)' # GoodsOf(j, s) => CancelsFreeSell
  <2>1. j \in OrderIds /\ j \in admin'.refunds /\ Cancellable(orders[j])
    BY <1>2
  <2> DEFINE money == OwedCredits(orders'[j])
             units == OwedGoods(orders'[j])
  <2>2. /\ money \in Nat /\ units \in Nat /\ units = GoodsBack(j)
        /\ \A p : CreditsOf(j, p) = IF orders[j].player = p THEN money ELSE 0
        /\ \A p : CreditsOf(j, p)' = IF orders[j].player = p THEN money ELSE 0
        /\ \A s : GoodsOf(j, s) = IF orders[j].station = s /\ orders[j].type = "limit" THEN units ELSE 0
        /\ \A s : GoodsOf(j, s)' = IF orders[j].station = s THEN units ELSE 0
    BY <1>4, <1>5, <2>1, CancelledHolds
  <2> HIDE DEF money, units
  <2>3. orders[j].type \in {"limit", "market"}
    BY <1>1, <2>1, OrderTypes, OrderFields
  <2>4. ASSUME NEW s, GoodsOf(j, s)' # GoodsOf(j, s) PROVE CancelsFreeSell
    <3>1. orders[j].type = "market" /\ units # 0
      BY <2>2, <2>3, <2>4
    <3>2. orders[j].side = "sell"
      BY <2>2, <3>1 DEF GoodsBack
    <3>3. Cancels(j)
      BY <1>5, <2>1 DEF Cancels
    <3> QED BY <2>1, <3>1, <3>2, <3>3 DEF CancelsFreeSell
  <2> QED BY <2>2, <2>4
<1>8. \A p : OrderCredits(p)' = OrderCredits(p)
  BY <1>5, <1>6, <1>7, OrdersEach
<1>9. ASSUME NEW s PROVE OrderGoods(s) <= OrderGoods(s)'
  <2>1. OrderIds' = OrderIds
    BY <1>5 DEF OrderIds
  <2>2. IsFiniteSet(OrderIds)
    BY <1>1, OrdersFinite
  <2>3. \A j \in OrderIds : GoodsOf(j, s) \in Int /\ GoodsOf(j, s)' \in Int
    BY <2>1, NextInt, OrderInt DEF Settled
  <2> DEFINE f == [i \in OrderIds |-> GoodsOf(i, s)]
             g == [i \in OrderIds |-> GoodsOf(i, s)']
  <2>4. OrderGoods(s) = SumFunctionOnSet(f, OrderIds) /\ OrderGoods(s)' = SumFunctionOnSet(g, OrderIds)
    BY <2>1 DEF OrderGoods
  <2>5. \A j \in OrderIds : f[j] \in Int /\ g[j] \in Int /\ f[j] <= g[j]
    BY <1>6, <1>7, <2>3
  <2> HIDE DEF f, g
  <2> QED BY <2>2, <2>4, <2>5, SumMonotone
<1>10. ASSUME NEW s, ~CancelsFreeSell PROVE OrderGoods(s)' = OrderGoods(s)
  BY <1>5, <1>6, <1>7, <1>10, OrdersEach
<1>11. ASSUME NEW p \in Players PROVE Wealth(p)' = Wealth(p)
  BY <1>3, <1>8, AdminChange
<1>12. ASSUME NEW s \in Stations
       PROVE  Goods(s)' >= Goods(s) /\ (Goods(s)' # Goods(s) => CancelsFreeSell)
  <2>1. Incoming(s)' = Incoming(s)
    BY <1>3 DEF Incoming
  <2>2. /\ Goods(s)' = Goods(s) + (stock'[s] - stock[s]) + (Incoming(s)' - Incoming(s))
                         + (OrderGoods(s)' - OrderGoods(s))
        /\ Goods(s) \in Int /\ stock[s] \in Nat /\ Incoming(s) \in Int
        /\ OrderGoods(s) \in Int /\ OrderGoods(s)' \in Int
    BY <1>3, AdminChange
  <2>3. Goods(s)' = Goods(s) + (OrderGoods(s)' - OrderGoods(s))
    BY <1>3, <2>1, <2>2
  <2> QED BY <1>9, <1>10, <2>2, <2>3
<1> QED BY <1>11, <1>12

\* The steps of the admin that only look, or only change an owner, move nothing.
LEMMA PassiveAccounts ==
  ASSUME Settled, [Next]_vars, (\E s \in Stations : CheckStation(s)) \/ Disown \/ Quiet \/ UNCHANGED vars
  PROVE  Neutral
<1>1. /\ handler' = handler /\ orders' = orders /\ credits' = credits /\ stock' = stock /\ aboard' = aboard
      /\ admin'.refunds = admin.refunds
  <2>1. ASSUME NEW s \in Stations, CheckStation(s)
        PROVE  /\ handler' = handler /\ orders' = orders /\ credits' = credits /\ stock' = stock
               /\ aboard' = aboard /\ admin'.refunds = admin.refunds
    BY <2>1 DEF CheckStation, AdminAt, market, accounts, stations, Settled, AdminSound
  <2>2. CASE Disown
    <3>1. admin' = [admin EXCEPT !.pc = "unregister"] /\ admin.pc = "disown"
      BY <2>2 DEF Disown, AdminAt
    <3>2. admin = [pc |-> admin.pc, player |-> admin.player, refunds |-> admin.refunds]
      BY <3>1 DEF Settled, Sound, TypeOK, AdminRecord, AdminIdle
    <3>3. admin'.refunds = admin.refunds
      BY <3>1, <3>2
    <3> QED BY <2>2, <3>3 DEF Disown, market, accounts
  <2>3. CASE Quiet \/ UNCHANGED vars
    BY <2>3 DEF Quiet, vars, market, accounts, stations, server
  <2> QED BY <2>1, <2>2, <2>3
<1>2. (\A p : OrderCredits(p)' = OrderCredits(p)) /\ (\A s : OrderGoods(s)' = OrderGoods(s))
  BY <1>1, OrdersAlone
<1>3. \A s : Incoming(s)' = Incoming(s)
  BY <1>1 DEF Incoming
<1> QED BY <1>1, <1>2, <1>3, AdminChange DEF Neutral

\* The admin refunds one order like its owner.
LEMMA RefundOrderAccounts ==
  ASSUME Settled, [Next]_vars, RefundOrder
  PROVE  \E i \in OrderIds :
           /\ i \in admin.refunds /\ i \notin admin'.refunds
           /\ CreditBack(i) \in Nat /\ CreditsReturning(i) \in Nat /\ GoodsBack(i) \in Nat
           /\ \A p \in Players : Wealth(p)' = Wealth(p)
                + (IF p = orders[i].player
                   THEN (IF p \in registered THEN CreditBack(i) ELSE 0) - CreditsReturning(i) ELSE 0)
           /\ \A s \in Stations : Goods(s)' = Goods(s)
                - (IF s = orders[i].station /\ ~Exists(s) THEN GoodsBack(i) ELSE 0)
<1>1. /\ credits \in [Players -> Int] /\ stock \in [Stations -> Nat] /\ TypeOK /\ OrdersSound
  BY DEF Settled, Sound, TypeOK
<1>2. PICK i \in admin.refunds : GiveBack(i) /\ admin' = [admin EXCEPT !.refunds = @ \ {i}]
  BY DEF RefundOrder
<1>3. /\ handler' = handler /\ orders' = orders /\ aboard' = aboard
      /\ admin = [pc |-> admin.pc, station |-> admin.station, refunds |-> admin.refunds]
  BY <1>1 DEF RefundOrder, AdminAt, market, TypeOK, AdminRecord, AdminIdle
<1>4. admin'.refunds = admin.refunds \ {i} /\ i \in OrderIds /\ orders[i].status = "cancelled"
  BY <1>1, <1>2, <1>3, RefundIds DEF Settled, AdminSound
<1>5. /\ orders[i].player \in Players /\ orders[i].station \in Stations
      /\ CreditBack(i) \in Nat /\ GoodsBack(i) \in Nat /\ CreditsReturning(i) \in Nat
  BY <1>1, <1>4, OrderTypes, OrderFields, BackTypes, OrderHolds
<1>6. \A j : Matching(j)' <=> Matching(j)
  BY <1>3 DEF Matching, At
<1>7. /\ \A j \in OrderIds \ {i} : \A p : CreditsOf(j, p)' = CreditsOf(j, p)
      /\ \A j \in OrderIds \ {i} : \A s : GoodsOf(j, s)' = GoodsOf(j, s)
  BY <1>3, <1>4, <1>6, OrderKept
<1>8. CreditsReservedBy(i) = 0 /\ GoodsReservedBy(i) = 0 /\ CreditsReservedBy(i)' = 0 /\ GoodsReservedBy(i)' = 0
  BY <1>3, <1>4 DEF CreditsReservedBy, GoodsReservedBy, Cancellable
<1>9. /\ \A p : CreditsOf(i, p) = IF p = orders[i].player THEN CreditsReturning(i) ELSE 0
      /\ \A p : CreditsOf(i, p)' = 0
      /\ \A s : GoodsOf(i, s) = IF s = orders[i].station THEN GoodsBack(i) ELSE 0
      /\ \A s : GoodsOf(i, s)' = 0
  BY <1>2, <1>4, <1>5, <1>8 DEF CreditsOf, GoodsOf
<1>10. /\ \A p : OrderCredits(p)' = OrderCredits(p) + (CreditsOf(i, p)' - CreditsOf(i, p))
       /\ \A s : OrderGoods(s)' = OrderGoods(s) + (GoodsOf(i, s)' - GoodsOf(i, s))
  BY <1>3, <1>4, <1>7, OrdersOne
<1>11. /\ \A p \in Players : credits'[p] = IF p = orders[i].player /\ p \in registered
                                           THEN credits[p] + CreditBack(i) ELSE credits[p]
       /\ \A s \in Stations : stock'[s] = IF s = orders[i].station /\ Exists(s)
                                          THEN stock[s] + GoodsBack(i) ELSE stock[s]
  BY <1>1, <1>2, <1>5 DEF GiveBack, Credited, Stocked
<1>12. \A s : Incoming(s)' = Incoming(s)
  BY <1>3 DEF Incoming
<1>13. ASSUME NEW p \in Players
       PROVE  Wealth(p)' = Wealth(p)
                + (IF p = orders[i].player
                   THEN (IF p \in registered THEN CreditBack(i) ELSE 0) - CreditsReturning(i) ELSE 0)
  <2>1. /\ Wealth(p)' = Wealth(p) + (credits'[p] - credits[p]) + (OrderCredits(p)' - OrderCredits(p))
        /\ Wealth(p) \in Int /\ credits[p] \in Int /\ OrderCredits(p) \in Int
    BY <1>3, AdminChange
  <2> QED BY <1>5, <1>9, <1>10, <1>11, <2>1
<1>14. ASSUME NEW s \in Stations
       PROVE  Goods(s)' = Goods(s) - (IF s = orders[i].station /\ ~Exists(s) THEN GoodsBack(i) ELSE 0)
  <2>1. /\ Goods(s)' = Goods(s) + (stock'[s] - stock[s]) + (Incoming(s)' - Incoming(s))
                         + (OrderGoods(s)' - OrderGoods(s))
        /\ Goods(s) \in Int /\ stock[s] \in Nat /\ Incoming(s) \in Int /\ OrderGoods(s) \in Int
    BY <1>3, AdminChange
  <2> QED BY <1>5, <1>9, <1>10, <1>11, <1>12, <2>1
<1> QED BY <1>2, <1>4, <1>5, <1>13, <1>14

\* A station goes with its goods.
LEMMA RemoveAccounts ==
  ASSUME Settled, [Next]_vars, RemoveStation
  PROVE  /\ owner' # owner
         /\ \A p \in Players : Wealth(p)' = Wealth(p)
         /\ \A s \in Stations : Goods(s)' <= Goods(s)
<1>1. owner \in [Stations -> Players \cup {Nobody, NoStation}] /\ stock \in [Stations -> Nat]
  BY DEF Settled, Sound, TypeOK
<1>2. /\ handler' = handler /\ orders' = orders /\ aboard' = aboard /\ credits' = credits
      /\ admin'.refunds = {} /\ admin.refunds = {} /\ admin.pc = "remove"
  BY DEF RemoveStation, AdminAt, AdminIdle, market, accounts
<1>3. admin.station \in Stations /\ Exists(admin.station)
  <2>1. admin.station \in Stations
    BY <1>2 DEF Settled, Sound, TypeOK, AdminRecord, AdminIdle
  <2>2. Exists(admin.station)
    BY <1>2 DEF Settled, AdminSound
  <2> QED BY <2>1, <2>2
<1>4. owner' # owner
  BY <1>1, <1>3 DEF RemoveStation, Exists
<1>5. \A s \in Stations : stock'[s] <= stock[s]
  BY <1>1, <1>3 DEF RemoveStation
<1>6. (\A p : OrderCredits(p)' = OrderCredits(p)) /\ (\A s : OrderGoods(s)' = OrderGoods(s))
  BY <1>2, OrdersAlone
<1>7. \A s : Incoming(s)' = Incoming(s)
  BY <1>2 DEF Incoming
<1>8. \A p \in Players : Wealth(p)' = Wealth(p)
  BY <1>2, <1>6, AdminChange
<1>9. \A s \in Stations : Goods(s)' <= Goods(s)
  BY <1>2, <1>5, <1>6, <1>7, AdminChange
<1> QED BY <1>4, <1>8, <1>9

\* The ships of a deleted player go with what is aboard.
LEMMA ShipsAccounts ==
  ASSUME Settled, [Next]_vars, NEW p \in Players, DeleteShips(p)
  PROVE  /\ DeletesShips
         /\ \A q \in Players : Wealth(q)' = Wealth(q)
         /\ \A s \in Stations : Goods(s)' <= Goods(s)
<1>1. aboard \in [Stations -> [Stations -> Nat]]
  BY DEF Settled, Sound, TypeOK
<1>2. /\ handler' = handler /\ orders' = orders /\ credits' = credits /\ stock' = stock
      /\ admin'.refunds = {} /\ admin.refunds = {} /\ admin.pc = "idle" /\ admin'.pc = "delete_orders"
  BY DEF DeleteShips, AdminAt, market, accounts, Settled, AdminSound
<1>3. (\A q : OrderCredits(q)' = OrderCredits(q)) /\ (\A s : OrderGoods(s)' = OrderGoods(s))
  BY <1>2, OrdersAlone
<1>4. ASSUME NEW s \in Stations PROVE Incoming(s)' <= Incoming(s)
  <2> DEFINE f == [r \in Stations |-> aboard'[r][s]]
             g == [r \in Stations |-> aboard[r][s]]
  <2>1. Incoming(s)' = SumFunctionOnSet(f, Stations) /\ Incoming(s) = SumFunctionOnSet(g, Stations)
    BY DEF Incoming
  <2>2. \A r \in Stations : f[r] \in Int /\ g[r] \in Int /\ f[r] <= g[r]
    <3>1. \A r \in Stations : aboard'[r][s] = IF r \in Of(p) THEN 0 ELSE aboard[r][s]
      BY DEF DeleteShips
    <3>2. \A r \in Stations : aboard[r][s] \in Nat
      BY <1>1
    <3> QED BY <3>1, <3>2
  <2> HIDE DEF f, g
  <2> QED BY <2>1, <2>2, SumMonotone, MarketAssumption
<1>5. \A q \in Players : Wealth(q)' = Wealth(q)
  BY <1>2, <1>3, AdminChange
<1>6. ASSUME NEW s \in Stations PROVE Goods(s)' <= Goods(s)
  <2>1. /\ Goods(s)' = Goods(s) + (stock'[s] - stock[s]) + (Incoming(s)' - Incoming(s))
                         + (OrderGoods(s)' - OrderGoods(s))
        /\ Goods(s) \in Int /\ stock[s] \in Nat /\ Incoming(s) \in Int /\ Incoming(s)' \in Int
        /\ OrderGoods(s) \in Int
    BY <1>2, AdminChange
  <2> QED BY <1>2, <1>3, <1>4, <2>1
<1> QED BY <1>2, <1>5, <1>6 DEF DeletesShips, AdminAt

\* The account of a deleted player goes with him.
LEMMA UnregisterAccounts ==
  ASSUME Settled, [Next]_vars, Unregister
  PROVE  \E p \in registered \ registered' :
           /\ p \in Players
           /\ \A q \in Players : Wealth(q)' = Wealth(q) - (IF q = p THEN credits[p] ELSE 0)
           /\ \A s \in Stations : Goods(s)' = Goods(s)
<1>1. credits \in [Players -> Int]
  BY DEF Settled, Sound, TypeOK
<1>2. /\ handler' = handler /\ orders' = orders /\ stock' = stock /\ aboard' = aboard
      /\ admin'.refunds = {} /\ admin.refunds = {} /\ admin.pc = "unregister"
  BY DEF Unregister, AdminAt, AdminIdle, market, stations, Settled, AdminSound
<1>3. PICK p : p = admin.player
  OBVIOUS
<1>4. p \in Players /\ p \in registered /\ p \notin registered'
  <2>1. p \in Players
    BY <1>2, <1>3 DEF Settled, Sound, TypeOK, AdminRecord, AdminIdle
  <2>2. p \in registered
    BY <1>2, <1>3 DEF Settled, AdminSound
  <2>3. registered' = registered \ {p}
    BY <1>3 DEF Unregister
  <2> QED BY <2>1, <2>2, <2>3
<1>5. \A q \in Players : credits'[q] = IF q = p THEN 0 ELSE credits[q]
  BY <1>1, <1>3 DEF Unregister
<1>6. (\A q : OrderCredits(q)' = OrderCredits(q)) /\ (\A s : OrderGoods(s)' = OrderGoods(s))
  BY <1>2, OrdersAlone
<1>7. \A s : Incoming(s)' = Incoming(s)
  BY <1>2 DEF Incoming
<1>8. ASSUME NEW q \in Players PROVE Wealth(q)' = Wealth(q) - (IF q = p THEN credits[p] ELSE 0)
  <2>1. /\ Wealth(q)' = Wealth(q) + (credits'[q] - credits[q]) + (OrderCredits(q)' - OrderCredits(q))
        /\ Wealth(q) \in Int /\ credits[q] \in Int /\ OrderCredits(q) \in Int
    BY <1>2, AdminChange
  <2> QED BY <1>5, <1>6, <2>1
<1>9. \A s \in Stations : Goods(s)' = Goods(s)
  BY <1>2, <1>6, <1>7, AdminChange
<1> QED BY <1>4, <1>8, <1>9

-----------------------------------------------------------------------------
(* The refunds of a deletion *)

\* The admin refunds a market buy in this step.
RefundsFreeBuy ==
  \E i \in OrderIds : /\ orders[i].side = "buy" /\ orders[i].type = "market"
                      /\ i \in admin.refunds /\ i \notin admin'.refunds

\* The credits of a deleted player's orders go to the account, and with them what
\* market buys named as their price.
LEMMA RefundCreditsAccounts ==
  ASSUME Settled, [Next]_vars, RefundCredits
  PROVE  /\ \A p \in Players : /\ Wealth(p)' >= Wealth(p)
                               /\ Wealth(p)' # Wealth(p) => RefundsFreeBuy
         /\ \A s \in Stations : Goods(s)' = Goods(s)
<1>1. credits \in [Players -> Int] /\ TypeOK /\ OrdersSound
  BY DEF Settled, Sound, TypeOK
<1>d. PICK d : d = admin.player
  OBVIOUS
<1>R. PICK R : R = admin.refunds
  OBVIOUS
<1>2. /\ admin.pc = "refund_credits" /\ handler' = handler /\ orders' = orders /\ stock' = stock
      /\ aboard' = aboard /\ admin' = [admin EXCEPT !.pc = "return_goods",
                                          !.refunds = {i \in @ : orders[i].side = "sell"}]
      /\ credits' = Credited(d, SumFunctionOnSet([i \in OrderIds |-> CreditBack(i)], R))
  BY <1>d, <1>R DEF RefundCredits, AdminAt, market, stations
<1>3. admin = [pc |-> admin.pc, player |-> d, refunds |-> R] /\ d \in Players
  BY <1>1, <1>2, <1>d, <1>R DEF TypeOK, AdminRecord, AdminIdle
<1>4. /\ admin'.refunds = {i \in R : orders[i].side = "sell"}
      /\ d \in registered /\ (\A i \in R : orders[i].player = d /\ orders[i].status = "cancelled")
      /\ R \in SUBSET OrderIds
  <2>1. admin'.refunds = {i \in R : orders[i].side = "sell"}
    BY <1>2, <1>3
  <2>2. d \in registered /\ \A i \in R : orders[i].player = d /\ orders[i].status = "cancelled"
    BY <1>2, <1>d, <1>R DEF Settled, AdminSound
  <2> QED BY <2>1, <2>2, <1>1, <1>R, RefundIds
<1>5. IsFiniteSet(OrderIds) /\ OrderIds' = OrderIds
  <2>1. IsFiniteSet(OrderIds)
    BY OrdersFinite DEF Settled, Sound
  <2> QED BY <1>2, <2>1 DEF OrderIds
<1>6. \A j : Matching(j)' <=> Matching(j)
  BY <1>2 DEF Matching, At
<1>7. \A j \in OrderIds : ~(j \in R /\ orders[j].side = "buy") =>
        /\ \A p : CreditsOf(j, p)' = CreditsOf(j, p)
        /\ \A s : GoodsOf(j, s)' = GoodsOf(j, s)
  <2>1. \A j \in OrderIds : orders[j].side \in {"buy", "sell"}
    BY <1>1, OrderTypes, OrderFields DEF Sides
  <2> QED BY <1>2, <1>4, <1>6, <1>R, <2>1, OrderKept
<1>8. \A j \in OrderIds : j \in R /\ orders[j].side = "buy" =>
        /\ \A p : CreditsOf(j, p)' = 0
        /\ \A p : CreditsOf(j, p) = IF p = d THEN CreditsReturning(j) ELSE 0
        /\ \A s : GoodsOf(j, s)' = 0 /\ GoodsOf(j, s) = 0
  <2> SUFFICES ASSUME NEW j \in OrderIds, j \in R, orders[j].side = "buy"
               PROVE  /\ \A p : CreditsOf(j, p)' = 0
                      /\ \A p : CreditsOf(j, p) = IF p = d THEN CreditsReturning(j) ELSE 0
                      /\ \A s : GoodsOf(j, s)' = 0 /\ GoodsOf(j, s) = 0
    OBVIOUS
  <2>1. /\ CreditsReservedBy(j) = 0 /\ CreditsReservedBy(j)' = 0
        /\ GoodsReservedBy(j) = 0 /\ GoodsReservedBy(j)' = 0 /\ GoodsBack(j) = 0
    BY <1>2, <1>4 DEF CreditsReservedBy, GoodsReservedBy, Cancellable, GoodsBack
  <2>2. j \notin admin'.refunds /\ j \in admin.refunds /\ orders[j].player = d
    BY <1>4, <1>R
  <2>3. CreditsReturning(j) \in Nat
    BY <1>1, OrderHolds
  <2> QED BY <1>2, <2>1, <2>2, <2>3 DEF CreditsOf, GoodsOf
<1>9. \A j \in OrderIds : /\ CreditBack(j) \in Nat /\ CreditsReturning(j) \in Nat
                          /\ CreditsReturning(j) <= CreditBack(j)
                          /\ orders[j].side = "sell" => CreditBack(j) = 0
                          /\ CreditsReturning(j) # CreditBack(j) => orders[j].type = "market"
  <2>1. \A j \in OrderIds : CreditBack(j) \in Nat /\ orders[j].type \in {"limit", "market"}
    BY <1>1, BackTypes, OrderTypes, OrderFields
  <2> QED BY <2>1 DEF CreditsReturning, CreditBack
<1>10. \A s : OrderGoods(s)' = OrderGoods(s)
  BY <1>2, <1>7, <1>8, OrdersEach
<1>11. ASSUME NEW p \in Players, p # d PROVE Wealth(p)' = Wealth(p)
  <2>1. \A j \in OrderIds : CreditsOf(j, p)' = CreditsOf(j, p)
    BY <1>7, <1>8, <1>11
  <2>2. OrderCredits(p)' = OrderCredits(p)
    BY <1>2, <2>1, OrdersEach
  <2>3. credits'[p] = credits[p]
    BY <1>1, <1>2, <1>3, <1>11 DEF Credited
  <2> QED BY <1>2, <2>2, <2>3, AdminChange
<1>12. Wealth(d)' >= Wealth(d) /\ (Wealth(d)' # Wealth(d) => RefundsFreeBuy)
  <2> DEFINE f == [j \in OrderIds |-> CreditsOf(j, d)]
             g == [j \in OrderIds |-> CreditsOf(j, d)']
             b == [j \in OrderIds |-> CreditBack(j)]
             c == [j \in OrderIds |-> IF j \in R THEN CreditBack(j) ELSE 0]
             h == [j \in OrderIds |-> g[j] + c[j]]
  <2>1. OrderCredits(d) = SumFunctionOnSet(f, OrderIds) /\ OrderCredits(d)' = SumFunctionOnSet(g, OrderIds)
    BY <1>5 DEF OrderCredits
  <2>2. \A j \in OrderIds : f[j] \in Nat /\ g[j] \in Nat
    BY <1>5, NextInt, OrderInt DEF Settled
  <2>3. \A j \in OrderIds : c[j] \in Int /\ h[j] = g[j] + c[j] /\ b[j] \in Int
    BY <1>9
  <2>4. \A j \in R : c[j] = b[j] /\ b[j] \in Int /\ c[j] \in Int
    BY <1>4, <1>9
  <2>5. \A j \in OrderIds \ R : c[j] = 0
    OBVIOUS
  <2>6. \A j \in OrderIds : /\ f[j] <= h[j] /\ h[j] \in Int
                            /\ f[j] # h[j] => j \in R /\ orders[j].side = "buy" /\ orders[j].type = "market"
    <3> SUFFICES ASSUME NEW j \in OrderIds
                 PROVE  /\ f[j] <= h[j] /\ h[j] \in Int
                        /\ f[j] # h[j] => j \in R /\ orders[j].side = "buy" /\ orders[j].type = "market"
      OBVIOUS
    <3>1. CASE j \in R /\ orders[j].side = "buy"
      <4>1. f[j] = CreditsReturning(j) /\ g[j] = 0 /\ c[j] = CreditBack(j)
        BY <1>8, <3>1
      <4> HIDE DEF f, g, c
      <4> QED BY <1>9, <3>1, <4>1
    <3>2. CASE j \in R /\ orders[j].side # "buy"
      <4>1. orders[j].side = "sell"
        BY <1>1, <3>2, OrderTypes, OrderFields DEF Sides
      <4>2. f[j] = g[j] /\ c[j] = 0
        BY <1>7, <1>9, <3>2, <4>1
      <4> HIDE DEF f, g, c
      <4> QED BY <2>2, <4>2
    <3>3. CASE j \notin R
      <4>2. f[j] = g[j] /\ c[j] = 0
        BY <1>7, <3>3
      <4> HIDE DEF f, g, c
      <4> QED BY <2>2, <4>2
    <3> QED BY <3>1, <3>2, <3>3
  <2>7. credits'[d] = credits[d] + SumFunctionOnSet(b, R)
    BY <1>1, <1>2, <1>3, <1>4 DEF Credited
  <2> HIDE DEF f, g, b, c, h
  <2>8. IsFiniteSet(R)
    BY <1>4, <1>5, FS_Subset
  <2>9. SumFunctionOnSet(c, OrderIds) = SumFunctionOnSet(c, R)
    BY <1>4, <1>5, <2>4, <2>5, SumRestrict
  <2>10. SumFunctionOnSet(c, R) = SumFunctionOnSet(b, R)
    BY <2>4, <2>8, SumSame
  <2>11. SumFunctionOnSet(h, OrderIds) = SumFunctionOnSet(g, OrderIds) + SumFunctionOnSet(c, OrderIds)
    BY <1>5, <2>2, <2>3, SumPlus
  <2>12. SumFunctionOnSet(f, OrderIds) <= SumFunctionOnSet(h, OrderIds)
    BY <1>5, <2>2, <2>6, SumMonotone
  <2>13. /\ Wealth(d)' = Wealth(d) + (credits'[d] - credits[d]) + (OrderCredits(d)' - OrderCredits(d))
         /\ Wealth(d) \in Int /\ credits[d] \in Int /\ OrderCredits(d) \in Int /\ OrderCredits(d)' \in Int
    BY <1>2, <1>3, AdminChange
  <2>14. SumFunctionOnSet(b, R) \in Int
    BY <2>4, <2>8, SumType
  <2>15. Wealth(d)' = Wealth(d) + (SumFunctionOnSet(h, OrderIds) - SumFunctionOnSet(f, OrderIds))
         /\ SumFunctionOnSet(h, OrderIds) \in Int /\ SumFunctionOnSet(f, OrderIds) \in Int
    BY <2>1, <2>7, <2>9, <2>10, <2>11, <2>13, <2>14
  <2>16. ASSUME ~RefundsFreeBuy PROVE Wealth(d)' = Wealth(d)
    <3>1. ASSUME NEW j \in OrderIds PROVE f[j] = h[j]
      <4>1. ~(j \in R /\ orders[j].side = "buy" /\ orders[j].type = "market")
        BY <1>4, <1>R, <2>16 DEF RefundsFreeBuy
      <4> QED BY <2>6, <4>1
    <3>2. SumFunctionOnSet(h, OrderIds) = SumFunctionOnSet(f, OrderIds)
      BY <1>5, <2>2, <3>1, SumSame
    <3> QED BY <2>13, <2>15, <3>2
  <2> QED BY <2>12, <2>13, <2>15, <2>16
<1>13. ASSUME NEW p \in Players
       PROVE  Wealth(p)' >= Wealth(p) /\ (Wealth(p)' # Wealth(p) => RefundsFreeBuy)
  <2>1. CASE p = d
    BY <1>12, <2>1
  <2>2. CASE p # d
    BY <1>1, <1>11, <2>2, WealthIs DEF Settled
  <2> QED BY <2>1, <2>2
<1>14. \A s : Incoming(s)' = Incoming(s)
  BY <1>2 DEF Incoming
<1>15. \A s \in Stations : Goods(s)' = Goods(s)
  BY <1>2, <1>10, <1>14, AdminChange
<1> QED BY <1>13, <1>15

\* The goods of a deleted player's orders go to the stations that are still there.
LEMMA ReturnGoodsAccounts ==
  ASSUME Settled, [Next]_vars, ReturnGoods
  PROVE  /\ \A p \in Players : Wealth(p)' = Wealth(p)
         /\ \A s \in Stations :
              /\ Goods(s)' <= Goods(s)
              /\ Goods(s)' # Goods(s) =>
                   \E i \in OrderIds : /\ i \in admin.refunds /\ i \notin admin'.refunds
                                       /\ ~Exists(orders[i].station)
<1>1. stock \in [Stations -> Nat] /\ TypeOK /\ OrdersSound
  BY DEF Settled, Sound, TypeOK
<1>R. PICK R : R = admin.refunds
  OBVIOUS
<1>2. /\ admin.pc = "return_goods" /\ handler' = handler /\ orders' = orders /\ credits' = credits
      /\ owner' = owner /\ aboard' = aboard
      /\ admin' = [admin EXCEPT !.pc = "disown", !.refunds = {}]
      /\ stock' = [s \in Stations |->
           Stocked(s, SumFunctionOnSet([i \in OrderIds |-> GoodsBack(i)], R \cap PlacedAt(s)))[s]]
  BY <1>R DEF ReturnGoods, AdminAt, accounts
<1>3. admin = [pc |-> admin.pc, player |-> admin.player, refunds |-> R]
  BY <1>1, <1>2, <1>R DEF TypeOK, AdminRecord, AdminIdle
<1>4. /\ admin'.refunds = {} /\ R \in SUBSET OrderIds
      /\ \A i \in R : orders[i].side = "sell" /\ orders[i].status = "cancelled"
  <2>1. admin'.refunds = {}
    BY <1>2, <1>3
  <2>2. \A i \in R : orders[i].side = "sell" /\ orders[i].status = "cancelled"
    BY <1>2, <1>R DEF Settled, AdminSound
  <2> QED BY <2>1, <2>2, <1>1, <1>R, RefundIds
<1>5. IsFiniteSet(OrderIds) /\ OrderIds' = OrderIds
  <2>1. IsFiniteSet(OrderIds)
    BY OrdersFinite DEF Settled, Sound
  <2> QED BY <1>2, <2>1 DEF OrderIds
<1>6. \A j : Matching(j)' <=> Matching(j)
  BY <1>2 DEF Matching, At
<1>7. \A j \in OrderIds \ R : /\ \A p : CreditsOf(j, p)' = CreditsOf(j, p)
                              /\ \A s : GoodsOf(j, s)' = GoodsOf(j, s)
  BY <1>2, <1>4, <1>6, <1>R, OrderKept
<1>8. \A j \in OrderIds : GoodsBack(j) \in Nat
  BY <1>1, BackTypes
<1>9. \A j \in R : /\ \A p : CreditsOf(j, p)' = 0 /\ CreditsOf(j, p) = 0
                   /\ \A s : GoodsOf(j, s)' = 0
                   /\ \A s : GoodsOf(j, s) = IF orders[j].station = s THEN GoodsBack(j) ELSE 0
  <2> SUFFICES ASSUME NEW j \in R
               PROVE  /\ \A p : CreditsOf(j, p)' = 0 /\ CreditsOf(j, p) = 0
                      /\ \A s : GoodsOf(j, s)' = 0
                      /\ \A s : GoodsOf(j, s) = IF orders[j].station = s THEN GoodsBack(j) ELSE 0
    OBVIOUS
  <2>1. /\ CreditsReservedBy(j) = 0 /\ CreditsReservedBy(j)' = 0
        /\ GoodsReservedBy(j) = 0 /\ GoodsReservedBy(j)' = 0 /\ CreditsReturning(j) = 0
    BY <1>2, <1>4 DEF CreditsReservedBy, GoodsReservedBy, Cancellable, CreditsReturning, CreditBack
  <2>2. j \notin admin'.refunds /\ j \in admin.refunds /\ GoodsBack(j) \in Nat
    BY <1>4, <1>8, <1>R
  <2> QED BY <1>2, <2>1, <2>2 DEF CreditsOf, GoodsOf
<1>10. \A p : OrderCredits(p)' = OrderCredits(p)
  BY <1>2, <1>7, <1>9, OrdersEach
<1>11. \A p \in Players : Wealth(p)' = Wealth(p)
  BY <1>2, <1>10, AdminChange
<1>12. \A s : Incoming(s)' = Incoming(s)
  BY <1>2 DEF Incoming
<1>13. ASSUME NEW s \in Stations
       PROVE  /\ Goods(s)' <= Goods(s)
              /\ Goods(s)' # Goods(s) =>
                   \E i \in OrderIds : /\ i \in admin.refunds /\ i \notin admin'.refunds
                                       /\ ~Exists(orders[i].station)
  <2> DEFINE A == R \cap PlacedAt(s)
             f == [j \in OrderIds |-> GoodsOf(j, s)]
             g == [j \in OrderIds |-> GoodsOf(j, s)']
             b == [j \in OrderIds |-> GoodsBack(j)]
             c == [j \in OrderIds |-> IF j \in A THEN GoodsBack(j) ELSE 0]
  <2>1. OrderGoods(s) = SumFunctionOnSet(f, OrderIds) /\ OrderGoods(s)' = SumFunctionOnSet(g, OrderIds)
    BY <1>5 DEF OrderGoods
  <2>2. \A j \in OrderIds : f[j] \in Nat /\ g[j] \in Nat
    BY <1>5, NextInt, OrderInt DEF Settled
  <2>3. A \in SUBSET OrderIds /\ (\A j \in A : j \in R /\ orders[j].station = s)
        /\ \A j \in R : j \in A <=> orders[j].station = s
    BY <1>4 DEF PlacedAt
  <2>4. /\ \A j \in A : c[j] = b[j] /\ b[j] \in Nat /\ c[j] \in Int
        /\ \A j \in OrderIds \ A : c[j] = 0
        /\ \A j \in OrderIds : c[j] \in Int
    BY <1>8, <2>3
  <2>5. \A j \in OrderIds : f[j] = g[j] + c[j]
    <3> SUFFICES ASSUME NEW j \in OrderIds PROVE f[j] = g[j] + c[j]
      OBVIOUS
    <3>1. CASE j \in R
      <4>1. /\ g[j] = 0 /\ f[j] = (IF orders[j].station = s THEN GoodsBack(j) ELSE 0)
            /\ c[j] = IF orders[j].station = s THEN GoodsBack(j) ELSE 0
        BY <1>9, <2>3, <3>1
      <4> HIDE DEF f, g, c
      <4> QED BY <1>8, <4>1
    <3>2. CASE j \notin R
      <4>1. f[j] = g[j] /\ c[j] = 0
        BY <1>7, <3>2
      <4> HIDE DEF f, g, c
      <4> QED BY <2>2, <4>1
    <3> QED BY <3>1, <3>2
  <2>6. stock'[s] = IF Exists(s) THEN stock[s] + SumFunctionOnSet(b, A) ELSE stock[s]
    BY <1>1, <1>2 DEF Stocked
  <2> HIDE DEF f, g, b, c, A
  <2>7. IsFiniteSet(A)
    BY <1>5, <2>3, FS_Subset
  <2>8. SumFunctionOnSet(f, OrderIds) = SumFunctionOnSet(g, OrderIds) + SumFunctionOnSet(c, OrderIds)
    BY <1>5, <2>2, <2>4, <2>5, SumPlus
  <2>9. SumFunctionOnSet(c, OrderIds) = SumFunctionOnSet(c, A)
    BY <1>5, <2>3, <2>4, SumRestrict
  <2>10. SumFunctionOnSet(c, A) = SumFunctionOnSet(b, A)
    BY <2>4, <2>7, SumSame
  <2>11. SumFunctionOnSet(b, A) \in Nat
    BY <2>4, <2>7, SumNatural
  <2>12. /\ Goods(s)' = Goods(s) + (stock'[s] - stock[s]) + (Incoming(s)' - Incoming(s))
                         + (OrderGoods(s)' - OrderGoods(s))
         /\ Goods(s) \in Int /\ stock[s] \in Nat /\ Incoming(s) \in Int
         /\ OrderGoods(s) \in Int /\ OrderGoods(s)' \in Int
    BY <1>2, AdminChange
  <2>13. Goods(s)' = Goods(s) - IF Exists(s) THEN 0 ELSE SumFunctionOnSet(b, A)
    BY <1>12, <2>1, <2>6, <2>8, <2>9, <2>10, <2>11, <2>12
  <2>14. ASSUME Goods(s)' # Goods(s)
         PROVE  \E i \in OrderIds : /\ i \in admin.refunds /\ i \notin admin'.refunds
                                    /\ ~Exists(orders[i].station)
    <3>1. ~Exists(s) /\ SumFunctionOnSet(b, A) # 0
      BY <2>11, <2>12, <2>13, <2>14
    <3>2. A # {}
      BY <2>7, <3>1, SumRecursive
    <3>3. PICK i \in A : TRUE
      BY <3>2
    <3> QED BY <1>4, <1>R, <2>3, <3>1, <3>3
  <2> QED BY <2>11, <2>12, <2>13, <2>14
<1> QED BY <1>11, <1>13
-----------------------------------------------------------------------------
(* What a restart interrupts *)

\* A trade brings the players together nothing, or what a limit buyer has paid.
LEMMA FlowTotal ==
  ASSUME TypeOK, OrdersSound, NEW tr \in TradeRecord, Proper(tr), NEW i, NEW f,
         \A p \in Players : f[p] = Flow(orders, i, tr, p)
  PROVE  SumFunctionOnSet(f, Players) >= 0
<1> DEFINE cost == tr.price * tr.quantity
           charge == IF orders[i].side = "sell" THEN 0
                     ELSE IF orders[tr.buy].type = "market" THEN cost
                     ELSE (tr.price - orders[tr.buy].price) * tr.quantity
           a == orders[tr.sell].player
           b == orders[tr.buy].player
           in == [p \in Players |-> IF p = a THEN cost ELSE 0]
           out == [p \in Players |-> IF p = b THEN -charge ELSE 0]
<1>1. tr.price \in Nat /\ tr.quantity \in Nat
  BY MarketAssumption DEF TradeRecord
<1>2. tr.buy \in OrderIds /\ tr.sell \in OrderIds
  BY DEF Proper
<1>3. /\ orders[tr.buy].type \in {"limit", "market"}
      /\ orders[tr.buy].type = "limit" => orders[tr.buy].price \in Nat
      /\ a \in Players /\ b \in Players
  BY <1>2, OrderTypes, OrderFields, MarketAssumption DEF OrdersSound
<1>4. cost \in Nat
  BY <1>1
<1>5. charge \in Int /\ charge <= cost
  <2>1. ASSUME NEW l \in Nat
        PROVE  (tr.price - l) * tr.quantity \in Int /\ (tr.price - l) * tr.quantity <= tr.price * tr.quantity
    <3>1. (tr.price - l) * tr.quantity = tr.price * tr.quantity - l * tr.quantity
      BY <1>1
    <3>2. l * tr.quantity \in Nat
      BY <1>1
    <3> QED BY <1>4, <3>1, <3>2
  <2>2. CASE orders[i].side = "sell"
    BY <1>4, <2>2
  <2>3. CASE orders[i].side # "sell" /\ orders[tr.buy].type = "market"
    BY <1>4, <2>3
  <2>4. CASE orders[i].side # "sell" /\ orders[tr.buy].type = "limit"
    <3>1. charge = (tr.price - orders[tr.buy].price) * tr.quantity
      BY <2>4
    <3> HIDE DEF charge
    <3> QED BY <1>3, <2>1, <2>4, <3>1
  <2> QED BY <1>3, <2>2, <2>3, <2>4
<1>6. \A p \in Players : f[p] = (IF p = a THEN cost ELSE 0) - (IF p = b THEN charge ELSE 0)
  BY DEF Flow
<1> HIDE DEF cost, charge, a, b
<1>7. \A p \in Players : /\ in[p] = IF p = a THEN cost ELSE 0
                         /\ out[p] = IF p = b THEN -charge ELSE 0
  OBVIOUS
<1> HIDE DEF in, out
<1>8. \A p \in Players : in[p] \in Int /\ out[p] \in Int
  BY <1>4, <1>5, <1>7
<1>9. \A p \in Players : f[p] = in[p] + out[p]
  BY <1>4, <1>5, <1>6, <1>7
<1>10. SumFunctionOnSet(f, Players) = SumFunctionOnSet(in, Players) + SumFunctionOnSet(out, Players)
  BY <1>8, <1>9, SumPlus, MarketAssumption
<1>11. SumFunctionOnSet(in, Players) = cost
  BY <1>3, <1>4, <1>7, SumOne, MarketAssumption
<1>12. SumFunctionOnSet(out, Players) = -charge
  <2>1. -charge \in Int
    BY <1>5
  <2> QED BY <1>3, <1>7, <2>1, SumOne, MarketAssumption
<1> QED BY <1>4, <1>5, <1>10, <1>11, <1>12
\* So do all the trades of a queue, and all that one handler holds.
LEMMA FlowsTotal ==
  ASSUME TypeOK, OrdersSound, NEW q, NEW i, TradesOf(i, q), NEW row,
         \A p \in Players : row[p] = Flows(orders, i, q, p)
  PROVE  SumFunctionOnSet(row, Players) >= 0
<1> DEFINE R == 1..Len(q)
           f == [p \in Players |-> [k \in R |-> Flow(orders, i, q[k], p)]]
<1>1. IsFiniteSet(R) /\ IsFiniteSet(Players)
  BY FS_Interval, MarketAssumption DEF TradesOf
<1>2. \A k \in R : q[k] \in TradeRecord /\ Proper(q[k])
  BY ElementOfSeq DEF TradesOf
<1>3. \A p \in Players, k \in R : f[p][k] = Flow(orders, i, q[k], p) /\ f[p][k] \in Int
  BY <1>2, FlowTypes
<1>4. \A p \in Players : row[p] = SumFunctionOnSet(f[p], R)
  BY DEF Flows
<1>5. ASSUME NEW k \in R PROVE SumFunctionOnSet([p \in Players |-> f[p][k]], Players) >= 0
  <2> DEFINE g == [p \in Players |-> f[p][k]]
  <2>1. \A p \in Players : g[p] = Flow(orders, i, q[k], p)
    BY <1>3
  <2> HIDE DEF g, f, R
  <2>2. SumFunctionOnSet(g, Players) >= 0
    BY <1>2, <2>1, FlowTotal
  <2> QED BY <2>2 DEF g
<1> HIDE DEF f, R
<1>6. Rows(row, f, Players, R)
  BY <1>1, <1>3, <1>4 DEF Rows
<1> QED BY <1>5, <1>6, SumRows

\* What a handler holds for all the players together is not negative.
LEMMA HeldTotal ==
  ASSUME TypeOK, OrdersSound, NEW h, Well(h), NEW row, \A p \in Players : row[p] = HeldBy(orders, h, p)
  PROVE  SumFunctionOnSet(row, Players) >= 0
<1>1. TradesOf(h.order, Unsettled(h)) /\ \A p : HeldBy(orders, h, p) \in Int
  BY WellTrades, HeldTypes
<1>2. CASE h.pc \in {"reserved", "refunding"}
  <2>1. ASSUME NEW p \in Players PROVE HeldBy(orders, h, p) \in Nat
    <3>1. CASE h.pc = "reserved"
      <4>1. h.req \in Body
        BY <3>1 DEF Well
      <4>2. h.req.quantity \in Nat /\ (h.req.type = "limit" => h.req.price \in Nat)
        BY <4>1, MarketAssumption DEF Body
      <4> QED BY <3>1, <4>2 DEF HeldBy
    <3>2. CASE h.pc = "refunding"
      <4>1. h.order \in OrderIds
        BY <3>2 DEF Well
      <4>2. CreditsReturning(h.order) \in Nat
        BY <4>1, OrderHolds
      <4> QED BY <3>2, <4>2, HeldIs DEF HeldBy
    <3> QED BY <1>2, <3>1, <3>2
  <2>2. SumFunctionOnSet(row, Players) \in Nat
    BY <2>1, SumNatural, MarketAssumption
  <2> QED BY <2>2
<1>3. CASE h.pc \notin {"reserved", "refunding"}
  <2>1. \A p \in Players : row[p] = Flows(orders, h.order, Unsettled(h), p)
    BY <1>3 DEF HeldBy
  <2> QED BY <1>1, <2>1, FlowsTotal
<1> QED BY <1>2, <1>3

\* The players have what the handlers hold for them.
LEMMA HandlersTotal ==
  ASSUME Sound
  PROVE  SumFunctionOnSet([p \in Players |-> HandlerCredits(p)], Players) >= 0
<1> DEFINE row == [p \in Players |-> HandlerCredits(p)]
           line == [p \in Players |-> [t \in Threads |-> HeldBy(orders, handler[t], p)]]
<1>1. \A t \in Threads : Well(handler[t]) /\ \A p : HeldBy(orders, handler[t], p) \in Int
  BY Wells, HeldInt, HeldIs
<1>2. \A p \in Players, t \in Threads : line[p][t] \in Int /\ line[p][t] = HeldBy(orders, handler[t], p)
  BY <1>1
<1>3. \A p \in Players : row[p] = SumFunctionOnSet(line[p], Threads)
  BY HeldIs DEF HandlerCredits
<1>4. ASSUME NEW t \in Threads PROVE SumFunctionOnSet([p \in Players |-> line[p][t]], Players) >= 0
  <2>h. PICK h : h = handler[t]
    OBVIOUS
  <2> DEFINE column == [p \in Players |-> line[p][t]]
  <2>1. \A p \in Players : column[p] = HeldBy(orders, h, p)
    BY <1>2, <2>h
  <2> HIDE DEF column
  <2>2. SumFunctionOnSet(column, Players) >= 0
    BY <1>1, <2>h, <2>1, HeldTotal DEF Sound
  <2> QED BY <2>2 DEF column
<1> HIDE DEF row, line
<1>5. Rows(row, line, Players, Threads)
  BY <1>2, <1>3, MarketAssumption DEF Rows
<1>6. SumFunctionOnSet(row, Players) >= 0
  BY <1>4, <1>5, SumRows
<1> QED BY <1>6 DEF row
\* The accounts and their totals are numbers.
LEMMA TotalTypes ==
  ASSUME Settled, [Next]_vars
  PROVE  /\ \A p \in Players : Wealth(p) \in Int /\ Wealth(p)' \in Int
         /\ \A s \in Stations : Goods(s) \in Int /\ Goods(s)' \in Int
         /\ TotalCredits \in Int /\ TotalCredits' \in Int /\ TotalGoods \in Int /\ TotalGoods' \in Int
<1>1. \A p \in Players : Wealth(p) \in Int /\ Wealth(p)' \in Int
  BY WealthIs, WealthNext DEF Settled
<1>2. \A s \in Stations : Goods(s) \in Int /\ Goods(s)' \in Int
  BY WealthIs, WealthNext DEF Settled
<1>3. TotalCredits \in Int /\ TotalCredits' \in Int
  <2> DEFINE f == [p \in Players |-> Wealth(p)]
             g == [p \in Players |-> Wealth(p)']
  <2>1. TotalCredits = SumFunctionOnSet(f, Players) /\ TotalCredits' = SumFunctionOnSet(g, Players)
    BY DEF TotalCredits
  <2>2. \A p \in Players : f[p] \in Int /\ g[p] \in Int
    BY <1>1
  <2> HIDE DEF f, g
  <2> QED BY <2>1, <2>2, SumType, MarketAssumption
<1>4. TotalGoods \in Int /\ TotalGoods' \in Int
  <2> DEFINE f == [s \in Stations |-> Goods(s)]
             g == [s \in Stations |-> Goods(s)']
  <2>1. TotalGoods = SumFunctionOnSet(f, Stations) /\ TotalGoods' = SumFunctionOnSet(g, Stations)
    BY DEF TotalGoods
  <2>2. \A s \in Stations : f[s] \in Int /\ g[s] \in Int
    BY <1>2
  <2> HIDE DEF f, g
  <2> QED BY <2>1, <2>2, SumType, MarketAssumption
<1> QED BY <1>1, <1>2, <1>3, <1>4

\* The totals move with the accounts.
LEMMA TotalsMove ==
  ASSUME Settled, [Next]_vars
  PROVE  /\ TotalCredits' > TotalCredits => \E p \in Players : Wealth(p)' > Wealth(p)
         /\ TotalCredits' < TotalCredits => \E p \in Players : Wealth(p)' < Wealth(p)
         /\ TotalGoods' > TotalGoods => \E s \in Stations : Goods(s)' > Goods(s)
         /\ TotalGoods' < TotalGoods => \E s \in Stations : Goods(s)' < Goods(s)
<1>1. /\ \A p \in Players : Wealth(p) \in Int /\ Wealth(p)' \in Int
      /\ \A s \in Stations : Goods(s) \in Int /\ Goods(s)' \in Int
      /\ TotalCredits \in Int /\ TotalCredits' \in Int /\ TotalGoods \in Int /\ TotalGoods' \in Int
  BY TotalTypes
<1> DEFINE f == [p \in Players |-> Wealth(p)]
           g == [p \in Players |-> Wealth(p)']
           k == [s \in Stations |-> Goods(s)]
           l == [s \in Stations |-> Goods(s)']
<1>2. /\ TotalCredits = SumFunctionOnSet(f, Players) /\ TotalCredits' = SumFunctionOnSet(g, Players)
      /\ TotalGoods = SumFunctionOnSet(k, Stations) /\ TotalGoods' = SumFunctionOnSet(l, Stations)
  BY DEF TotalCredits, TotalGoods
<1>3. /\ \A p \in Players : f[p] = Wealth(p) /\ g[p] = Wealth(p)'
      /\ \A s \in Stations : k[s] = Goods(s) /\ l[s] = Goods(s)'
  OBVIOUS
<1> HIDE DEF f, g, k, l
<1>4. ASSUME ~\E p \in Players : Wealth(p)' > Wealth(p) PROVE TotalCredits' <= TotalCredits
  <2>1. \A p \in Players : f[p] \in Int /\ g[p] \in Int /\ g[p] <= f[p]
    BY <1>1, <1>3, <1>4
  <2> QED BY <1>2, <2>1, SumMonotone, MarketAssumption
<1>5. ASSUME ~\E p \in Players : Wealth(p)' < Wealth(p) PROVE TotalCredits <= TotalCredits'
  <2>1. \A p \in Players : f[p] \in Int /\ g[p] \in Int /\ f[p] <= g[p]
    BY <1>1, <1>3, <1>5
  <2> QED BY <1>2, <2>1, SumMonotone, MarketAssumption
<1>6. ASSUME ~\E s \in Stations : Goods(s)' > Goods(s) PROVE TotalGoods' <= TotalGoods
  <2>1. \A s \in Stations : k[s] \in Int /\ l[s] \in Int /\ l[s] <= k[s]
    BY <1>1, <1>3, <1>6
  <2> QED BY <1>2, <2>1, SumMonotone, MarketAssumption
<1>7. ASSUME ~\E s \in Stations : Goods(s)' < Goods(s) PROVE TotalGoods <= TotalGoods'
  <2>1. \A s \in Stations : k[s] \in Int /\ l[s] \in Int /\ k[s] <= l[s]
    BY <1>1, <1>3, <1>7
  <2> QED BY <1>2, <2>1, SumMonotone, MarketAssumption
<1> QED BY <1>1, <1>4, <1>5, <1>6, <1>7

\* A restart loses what handlers and the admin held, never more than nothing.
LEMMA RestartAccounts ==
  ASSUME Settled, [Next]_vars, Restart
  PROVE  Restarts /\ TotalCredits' <= TotalCredits /\ TotalGoods' <= TotalGoods
<1>1. /\ handler' = [t \in Threads |-> Idle] /\ orders' = orders /\ credits' = credits /\ stock' = stock
      /\ aboard' = aboard /\ admin'.refunds = {} /\ restarts' = restarts + 1 /\ marketLock = NoThread
  BY DEF Restart, AdminIdle, accounts, stations
<1>2. Restarts
  BY <1>1 DEF Restarts, Settled, Sound, TypeOK
<1>3. OrderIds' = OrderIds /\ IsFiniteSet(OrderIds)
  <2>1. IsFiniteSet(OrderIds)
    BY OrdersFinite DEF Settled, Sound
  <2> QED BY <1>1, <2>1 DEF OrderIds
<1>4. \A j : ~Matching(j) /\ ~Matching(j)'
  <2>1. \A j : ~Matching(j)
    BY <1>1, MatchingOne, MarketAssumption DEF Settled, Sound, LockSound
  <2>2. \A j : ~Matching(j)'
    BY <1>1 DEF Matching, At, Idle
  <2> QED BY <2>1, <2>2
<1>5. \A j \in OrderIds : /\ \A p : CreditsOf(j, p)' <= CreditsOf(j, p)
                          /\ \A s : GoodsOf(j, s)' <= GoodsOf(j, s)
  <2> SUFFICES ASSUME NEW j \in OrderIds
               PROVE  /\ \A p : CreditsOf(j, p)' <= CreditsOf(j, p)
                      /\ \A s : GoodsOf(j, s)' <= GoodsOf(j, s)
    OBVIOUS
  <2>1. /\ CreditsReservedBy(j) \in Nat /\ CreditsReturning(j) \in Nat
        /\ GoodsReservedBy(j) \in Nat /\ GoodsBack(j) \in Nat
    BY OrderHolds DEF Settled, Sound
  <2>2. CreditsReservedBy(j)' = CreditsReservedBy(j) /\ GoodsReservedBy(j)' = GoodsReservedBy(j)
    BY <1>1, <1>4 DEF CreditsReservedBy, GoodsReservedBy
  <2>3. j \notin admin'.refunds /\ orders'[j] = orders[j]
    BY <1>1
  <2> QED BY <2>1, <2>2, <2>3 DEF CreditsOf, GoodsOf
<1>6. ASSUME NEW p PROVE OrderCredits(p)' <= OrderCredits(p)
  <2> DEFINE f == [j \in OrderIds |-> CreditsOf(j, p)]
             g == [j \in OrderIds |-> CreditsOf(j, p)']
  <2>1. OrderCredits(p) = SumFunctionOnSet(f, OrderIds) /\ OrderCredits(p)' = SumFunctionOnSet(g, OrderIds)
    BY <1>3 DEF OrderCredits
  <2>2. \A j \in OrderIds : f[j] \in Int /\ g[j] \in Int /\ g[j] <= f[j]
    BY <1>3, <1>5, NextInt, OrderInt DEF Settled
  <2> HIDE DEF f, g
  <2> QED BY <1>3, <2>1, <2>2, SumMonotone
<1>7. ASSUME NEW s PROVE OrderGoods(s)' <= OrderGoods(s)
  <2> DEFINE f == [j \in OrderIds |-> GoodsOf(j, s)]
             g == [j \in OrderIds |-> GoodsOf(j, s)']
  <2>1. OrderGoods(s) = SumFunctionOnSet(f, OrderIds) /\ OrderGoods(s)' = SumFunctionOnSet(g, OrderIds)
    BY <1>3 DEF OrderGoods
  <2>2. \A j \in OrderIds : f[j] \in Int /\ g[j] \in Int /\ g[j] <= f[j]
    BY <1>3, <1>5, NextInt, OrderInt DEF Settled
  <2> HIDE DEF f, g
  <2> QED BY <1>3, <2>1, <2>2, SumMonotone
<1>8. (\A p : HandlerCredits(p)' = 0) /\ (\A s : HandlerGoods(s)' = 0)
  <2>1. \A t \in Threads : (\A p : CreditsHeld(t, p)' = 0) /\ (\A s : GoodsHeld(t, s)' = 0)
    BY <1>1, HeldNext, IdleHolds
  <2>2. ASSUME NEW p PROVE HandlerCredits(p)' = 0
    <3> DEFINE f == [t \in Threads |-> CreditsHeld(t, p)']
    <3>1. HandlerCredits(p)' = SumFunctionOnSet(f, Threads) /\ \A t \in Threads : f[t] = 0
      BY <2>1 DEF HandlerCredits
    <3> HIDE DEF f
    <3> QED BY <3>1, SumZero, MarketAssumption
  <2>3. ASSUME NEW s PROVE HandlerGoods(s)' = 0
    <3> DEFINE f == [t \in Threads |-> GoodsHeld(t, s)']
    <3>1. HandlerGoods(s)' = SumFunctionOnSet(f, Threads) /\ \A t \in Threads : f[t] = 0
      BY <2>1 DEF HandlerGoods
    <3> HIDE DEF f
    <3> QED BY <3>1, SumZero, MarketAssumption
  <2> QED BY <2>2, <2>3
<1>9. TotalCredits' <= TotalCredits
  <2> DEFINE f == [p \in Players |-> Wealth(p)]
             g == [p \in Players |-> Wealth(p)']
             a == [p \in Players |-> credits[p] + OrderCredits(p)]
             h == [p \in Players |-> HandlerCredits(p)]
  <2>1. TotalCredits = SumFunctionOnSet(f, Players) /\ TotalCredits' = SumFunctionOnSet(g, Players)
    BY DEF TotalCredits
  <2>2. \A p \in Players : a[p] \in Int /\ h[p] \in Int /\ f[p] = a[p] + h[p]
    BY WealthIs DEF Settled
  <2>3. \A p \in Players : g[p] \in Int /\ g[p] <= a[p]
    <3> SUFFICES ASSUME NEW p \in Players PROVE g[p] \in Int /\ g[p] <= a[p]
      OBVIOUS
    <3>1. g[p] = credits[p] + OrderCredits(p)'
      BY <1>1, <1>8, WealthNext
    <3>2. a[p] = credits[p] + OrderCredits(p) /\ credits[p] \in Int /\ OrderCredits(p) \in Int
      BY WealthIs DEF Settled
    <3>3. OrderCredits(p)' \in Int
      BY WealthNext
    <3> HIDE DEF g, a
    <3> QED BY <1>6, <3>1, <3>2, <3>3
  <2>4. SumFunctionOnSet(h, Players) >= 0
    BY HandlersTotal DEF Settled
  <2> HIDE DEF f, g, a, h
  <2>5. SumFunctionOnSet(f, Players) = SumFunctionOnSet(a, Players) + SumFunctionOnSet(h, Players)
    BY <2>2, SumPlus, MarketAssumption
  <2>6. SumFunctionOnSet(g, Players) <= SumFunctionOnSet(a, Players)
    BY <2>2, <2>3, SumMonotone, MarketAssumption
  <2>7. /\ SumFunctionOnSet(a, Players) \in Int /\ SumFunctionOnSet(h, Players) \in Int
        /\ SumFunctionOnSet(g, Players) \in Int
    BY <2>2, <2>3, SumType, MarketAssumption
  <2> QED BY <2>1, <2>4, <2>5, <2>6, <2>7
<1>10. \A s \in Stations : Goods(s)' <= Goods(s)
  <2> SUFFICES ASSUME NEW s \in Stations PROVE Goods(s)' <= Goods(s)
    OBVIOUS
  <2>1. Incoming(s)' = Incoming(s)
    BY <1>1 DEF Incoming
  <2>2. /\ Goods(s) = stock[s] + Incoming(s) + OrderGoods(s) + HandlerGoods(s)
        /\ stock[s] \in Nat /\ Incoming(s) \in Nat /\ OrderGoods(s) \in Nat /\ HandlerGoods(s) \in Nat
    BY WealthIs DEF Settled
  <2>3. /\ Goods(s)' = stock'[s] + Incoming(s)' + OrderGoods(s)' + HandlerGoods(s)'
        /\ OrderGoods(s)' \in Nat
    BY WealthNext
  <2> QED BY <1>1, <1>7, <1>8, <2>1, <2>2, <2>3
<1>11. TotalGoods' <= TotalGoods
  BY <1>10, TotalsMove, TotalTypes
<1> QED BY <1>2, <1>9, <1>11
-----------------------------------------------------------------------------
(* Trades, in total *)

\* A revived order trades in this step.
FillsRevived(side) ==
  \E i \in OrderIds : orders[i].side = side /\ orders[i].type = "market" /\ FilledWaiting(i)

\* A trade leaves the totals alone, but for the rest of a market order that waits.
LEMMA DealTotals ==
  ASSUME Settled, [Next]_vars, NEW t \in Threads, NEW i, NEW r, NEW p, NEW n, Deal(t, i, r, p, n)
  PROVE  /\ TotalCredits' >= TotalCredits
         /\ TotalCredits' # TotalCredits => FillsRevived("buy")
         /\ TotalGoods' >= TotalGoods
         /\ TotalGoods' # TotalGoods => FillsRevived("sell")
<1>tr. PICK tr : tr = Traded(i, r, p, n)
  OBVIOUS
<1>b. PICK b : b = tr.buy
  OBVIOUS
<1>k. PICK k : k = tr.sell
  OBVIOUS
<1> DEFINE revived == orders[r].type = "market"
<1>1. /\ b \in OrderIds /\ k \in OrderIds /\ orders[b].side = "buy" /\ orders[k].side = "sell"
      /\ \A q \in Players : Wealth(q)' = Wealth(q)
           + (IF q = orders[k].player THEN p * n ELSE 0)
           - (IF q = orders[b].player /\ ~(r = b /\ revived) THEN p * n ELSE 0)
      /\ \A s \in Stations : Goods(s)' = Goods(s)
           + (IF s = orders[b].station THEN n ELSE 0)
           - (IF s = orders[k].station /\ ~(r = k /\ revived) THEN n ELSE 0)
  BY <1>tr, <1>b, <1>k, DealAccounts
<1>2. /\ i \in OrderIds /\ r \in OrderIds /\ p \in Nat /\ n \in Nat \ {0} /\ n <= Remaining(orders[r])
      /\ orders[r].side \in Sides /\ p \in Prices
      /\ book[orders[r].side][p] # <<>> /\ r = Head(book[orders[r].side][p])
  BY MarketAssumption DEF Deal, Sides
<1>3. TypeOK
  BY DEF Settled, Sound
<1>4. FilledWaiting(r)
  <2>1. book[orders[r].side][p] \in Seq(OrderIds) /\ Waiting(orders[r].side, p) = Ids(book[orders[r].side][p])
    BY <1>2, <1>3, WaitingTypes
  <2>2. r \in Waiting(orders[r].side, p)
    BY <1>2, <2>1, TailQueue
  <2>3. InBook(r)
    BY <1>2, <2>2 DEF InBook
  <2>4. orders'[r] = Fill(orders[r], n)
    BY <1>3, DealOrders
  <2>5. orders[r] \in OrderRecord /\ orders[r].filled \in Nat
    BY <1>2, <1>3, OrderTypes, OrderFields
  <2>6. orders'[r].filled = orders[r].filled + n
    BY <1>2, <2>4, <2>5, FilledOrder
  <2> QED BY <1>2, <2>3, <2>5, <2>6 DEF FilledWaiting
<1>5. /\ r = b /\ revived => FillsRevived("buy")
      /\ r = k /\ revived => FillsRevived("sell")
  BY <1>1, <1>2, <1>4 DEF FillsRevived
<1>6. /\ orders[k].player \in Players /\ orders[b].player \in Players
      /\ orders[k].station \in Stations /\ orders[b].station \in Stations
  BY <1>1, <1>3, OrderTypes, OrderFields
<1>7. p * n \in Nat
  BY <1>2
<1> HIDE DEF revived
<1>8. TotalCredits' >= TotalCredits /\ (TotalCredits' # TotalCredits => r = b /\ revived)
  <2> DEFINE f == [q \in Players |-> Wealth(q)]
             g == [q \in Players |-> Wealth(q)']
             e == IF r = b /\ revived THEN 0 ELSE p * n
  <2>1. TotalCredits = SumFunctionOnSet(f, Players) /\ TotalCredits' = SumFunctionOnSet(g, Players)
    BY DEF TotalCredits
  <2>2. \A q \in Players : f[q] \in Int
    BY TotalTypes
  <2>3. \A q \in Players : g[q] = f[q] + (IF q = orders[k].player THEN p * n ELSE 0)
                                       - (IF q = orders[b].player THEN e ELSE 0)
    BY <1>1
  <2>4. e \in Int /\ e <= p * n /\ (e # p * n => r = b /\ revived)
    BY <1>7
  <2> HIDE DEF f, g, e
  <2>5. Moves(g, f, orders[k].player, p * n, orders[b].player, e, Players)
    BY <1>6, <1>7, <2>2, <2>3, <2>4, MarketAssumption DEF Moves
  <2>6. SumFunctionOnSet(g, Players) = SumFunctionOnSet(f, Players) + p * n - e
    BY <2>5, SumMoves
  <2> QED BY <1>7, <2>1, <2>4, <2>6, TotalTypes
<1>9. TotalGoods' >= TotalGoods /\ (TotalGoods' # TotalGoods => r = k /\ revived)
  <2> DEFINE f == [s \in Stations |-> Goods(s)]
             g == [s \in Stations |-> Goods(s)']
             e == IF r = k /\ revived THEN 0 ELSE n
  <2>1. TotalGoods = SumFunctionOnSet(f, Stations) /\ TotalGoods' = SumFunctionOnSet(g, Stations)
    BY DEF TotalGoods
  <2>2. \A s \in Stations : f[s] \in Int
    BY TotalTypes
  <2>3. \A s \in Stations : g[s] = f[s] + (IF s = orders[b].station THEN n ELSE 0)
                                        - (IF s = orders[k].station THEN e ELSE 0)
    BY <1>1
  <2>4. e \in Int /\ e <= n /\ (e # n => r = k /\ revived)
    BY <1>2
  <2> HIDE DEF f, g, e
  <2>5. Moves(g, f, orders[b].station, n, orders[k].station, e, Stations)
    BY <1>2, <1>6, <2>2, <2>3, <2>4, MarketAssumption DEF Moves
  <2>6. SumFunctionOnSet(g, Stations) = SumFunctionOnSet(f, Stations) + n - e
    BY <2>5, SumMoves
  <2> QED BY <1>2, <2>1, <2>4, <2>6, TotalTypes
<1> QED BY <1>5, <1>8, <1>9
-----------------------------------------------------------------------------
(* Where credits and goods come from, and where they go *)

\* The steps that touch the accounts.
Accounting ==
  \/ Neutral
  \/ \E t \in Threads : Reserve(t) \/ ReturnUnfilled(t) \/ SettleCredits(t) \/ SpawnShip(t) \/ Refund(t)
  \/ \E t \in Threads : \E i, r, p, n : Deal(t, i, r, p, n)
  \/ \E t \in Threads, i \in OrderIds : Cancel(t, i)
  \/ CancelOrdersAt \/ DeleteOrders \/ RefundOrder \/ RemoveStation
  \/ \E p \in Players : DeleteShips(p)
  \/ RefundCredits \/ ReturnGoods \/ Unregister \/ Restart

\* Every step is one of them.
LEMMA StepsAccounted ==
  ASSUME Settled, [Next]_vars
  PROVE  Accounting
<1>1. ASSUME NEW t \in Threads, MatchBuy(t) \/ MatchSell(t)
      PROVE  \E i, r, p, n : Deal(t, i, r, p, n)
  BY <1>1, TradeDeals DEF Settled
<1>2. ASSUME NEW t \in Threads, (\E b \in Body : Validate(t, b)) \/ Refuse(t) \/ Respond(t) \/ Insert(t) \/ Rest(t)
      PROVE  Neutral
  BY <1>2, PassAccounts, InsertAccounts, RestAccounts
<1>3. CASE (\E s \in Stations : CheckStation(s)) \/ Disown \/ Quiet \/ UNCHANGED vars
  BY <1>3, PassiveAccounts DEF Accounting
<1>4. ASSUME NEW t \in Threads, Step(t) PROVE Accounting
  BY <1>1, <1>2, <1>4 DEF Step, Accounting
<1>5. CASE Administer
  BY <1>3, <1>5 DEF Administer, Accounting
<1>6. ASSUME NEW t \in Threads, \E i \in OrderIds : Cancel(t, i) PROVE Accounting
  BY <1>6 DEF Accounting
<1>7. ASSUME NEW t \in Threads, \E b \in Body : Validate(t, b) PROVE Accounting
  BY <1>2, <1>7 DEF Accounting
<1>8. CASE Restart
  BY <1>8 DEF Accounting
<1> QED BY <1>3, <1>4, <1>5, <1>6, <1>7, <1>8 DEF Next

\* A refund gives back what was reserved, and more for a market buy only.
LEMMA RefundGain ==
  ASSUME TypeOK, OrdersSound, NEW i \in OrderIds
  PROVE  /\ CreditBack(i) \in Nat /\ CreditsReturning(i) \in Nat /\ CreditsReturning(i) <= CreditBack(i)
         /\ CreditBack(i) # CreditsReturning(i) => orders[i].side = "buy" /\ orders[i].type = "market"
         /\ GoodsBack(i) \in Nat
<1>1. CreditBack(i) \in Nat /\ GoodsBack(i) \in Nat /\ orders[i].type \in {"limit", "market"}
  BY BackTypes, OrderTypes, OrderFields
<1> QED BY <1>1 DEF CreditsReturning, CreditBack

\* The cases in which credits may come from nothing, or be lost.
CreditsMade ==
  \/ \E p \in registered \ registered' : credits[p] < 0
  \/ \E i \in OrderIds : /\ orders[i].side = "buy" /\ orders[i].type = "market"
                         /\ \/ Refunded(i) \/ FilledWaiting(i)
                            \/ Settles(i) /\ Gone(i)
CreditsLost ==
  \/ registered' # registered \/ Restarts
  \/ \E i \in OrderIds : Gone(i) /\ (Refunded(i) \/ Settles(i))

\* A refund changes the total for a market buy, or for a player who is gone.
LEMMA RefundBalance ==
  ASSUME Settled, [Next]_vars, NEW i \in OrderIds, Refunded(i),
         \A p \in Players : Wealth(p)' = Wealth(p)
           + (IF p = orders[i].player
              THEN (IF p \in registered THEN CreditBack(i) ELSE 0) - CreditsReturning(i) ELSE 0)
  PROVE  \A p \in Players : /\ Wealth(p)' > Wealth(p) => CreditsMade
                            /\ Wealth(p)' < Wealth(p) => CreditsLost
<1>1. /\ CreditBack(i) \in Nat /\ CreditsReturning(i) \in Nat /\ CreditsReturning(i) <= CreditBack(i)
      /\ CreditBack(i) # CreditsReturning(i) => orders[i].side = "buy" /\ orders[i].type = "market"
  BY RefundGain DEF Settled, Sound
<1> SUFFICES ASSUME NEW p \in Players
             PROVE  /\ Wealth(p)' > Wealth(p) => CreditsMade
                    /\ Wealth(p)' < Wealth(p) => CreditsLost
  OBVIOUS
<1>2. Wealth(p) \in Int /\ Wealth(p)' \in Int
  BY TotalTypes
<1>3. Wealth(p)' > Wealth(p) => p \in registered /\ CreditBack(i) # CreditsReturning(i)
  BY <1>1, <1>2
<1>4. Wealth(p)' < Wealth(p) => p = orders[i].player /\ p \notin registered
  BY <1>1, <1>2
<1> QED BY <1>1, <1>3, <1>4 DEF CreditsMade, CreditsLost, Gone

\* Settling a trade changes the total for a player who is gone only.
LEMMA SettleBalance ==
  ASSUME Settled, [Next]_vars, NEW t \in Threads, SettleCredits(t)
  PROVE  \A p \in Players : /\ Wealth(p)' > Wealth(p) => CreditsMade
                            /\ Wealth(p)' < Wealth(p) => CreditsLost
<1>h. PICK h : h = handler[t]
  OBVIOUS
<1>r. PICK tr : tr = Head(h.trades)
  OBVIOUS
<1>i. PICK i : i = h.order
  OBVIOUS
<1>1. /\ \A p \in Players : Wealth(p)' = IF p \in registered THEN Wealth(p)
                                         ELSE Wealth(p) - Flow(orders, i, tr, p)
      /\ \A p : Flow(orders, i, tr, p) \in Int
      /\ Proper(tr) /\ tr \in TradeRecord
  BY <1>h, <1>r, <1>i, SettleAccounts
<1>2. /\ handler \in [Threads -> [pc : PCs, req : Body \cup {NoRequest}, order : 0..Len(orders),
                                  trades : Seq(TradeRecord)]]
      /\ TypeOK /\ OrdersSound /\ TradesWithinLimits
  BY DEF Settled, Sound, TypeOK
<1>3. At(t, "settling") /\ h.trades # <<>> /\ handler'[t].pc = "shipping"
  BY <1>2, <1>h DEF SettleCredits, Goto, At
<1>4. tr.buy \in OrderIds /\ tr.sell \in OrderIds /\ Settles(tr.buy) /\ Settles(tr.sell)
  BY <1>1, <1>3, <1>h, <1>r DEF Settles, Proper
<1>5. /\ orders[tr.buy].side = "buy"
      /\ orders[tr.buy].type = "limit" => tr.price <= orders[tr.buy].price
  <2>1. 1 \in 1..Len(h.trades) /\ tr = h.trades[1]
    <3>1. h.trades \in Seq(TradeRecord)
      BY <1>2, <1>h
    <3> QED BY <1>3, <1>r, <3>1
  <2> QED BY <1>2, <1>h, <2>1 DEF TradesWithinLimits
<1>6. /\ tr.price \in Nat /\ tr.quantity \in Nat /\ orders[tr.buy].type \in {"limit", "market"}
      /\ orders[tr.buy].type = "limit" => orders[tr.buy].price \in Nat
  BY <1>1, <1>2, <1>4, OrderTypes, OrderFields, MarketAssumption DEF TradeRecord, OrdersSound
<1> SUFFICES ASSUME NEW p \in Players
             PROVE  /\ Wealth(p)' > Wealth(p) => CreditsMade
                    /\ Wealth(p)' < Wealth(p) => CreditsLost
  OBVIOUS
<1>7. Wealth(p) \in Int
  BY TotalTypes
<1>8. Flow(orders, i, tr, p) # 0 => p = orders[tr.buy].player \/ p = orders[tr.sell].player
  BY DEF Flow
<1>9. Flow(orders, i, tr, p) < 0 => p = orders[tr.buy].player /\ orders[tr.buy].type = "market"
  <2> SUFFICES ASSUME ~(p = orders[tr.buy].player /\ orders[tr.buy].type = "market")
               PROVE  Flow(orders, i, tr, p) >= 0
    BY <1>1
  <2>1. tr.price * tr.quantity \in Nat
    BY <1>6
  <2>2. CASE p # orders[tr.buy].player
    BY <2>1, <2>2 DEF Flow
  <2>3. CASE orders[tr.buy].type = "limit"
    <3> DEFINE l == orders[tr.buy].price
    <3>1. l \in Nat /\ tr.price <= l
      BY <1>5, <1>6, <2>3
    <3>2. (tr.price - l) * tr.quantity \in Int /\ (tr.price - l) * tr.quantity <= 0
      <4>1. (l - tr.price) * tr.quantity \in Nat /\ (tr.price - l) * tr.quantity = -((l - tr.price) * tr.quantity)
        <5>1. l - tr.price \in Nat
          BY <1>6, <3>1
        <5> QED BY <1>6, <3>1, <5>1
      <4> QED BY <4>1
    <3> QED BY <2>1, <2>3, <3>2 DEF Flow
  <2> QED BY <1>6, <2>2, <2>3
<1>10. Wealth(p)' > Wealth(p) => p \notin registered /\ Flow(orders, i, tr, p) < 0
  BY <1>1, <1>7
<1>11. Wealth(p)' < Wealth(p) => p \notin registered /\ Flow(orders, i, tr, p) # 0
  BY <1>1, <1>7
<1> QED BY <1>4, <1>5, <1>8, <1>9, <1>10, <1>11 DEF CreditsMade, CreditsLost, Gone

\* Every step keeps the total of the credits, or there is one of the reasons.
LEMMA CreditsBalance ==
  ASSUME Settled, [Next]_vars
  PROVE  /\ TotalCredits' > TotalCredits => CreditsMade
         /\ TotalCredits' < TotalCredits => CreditsLost
<1>1. TotalCredits \in Int /\ TotalCredits' \in Int /\ \A p \in Players : Wealth(p) \in Int /\ Wealth(p)' \in Int
  BY TotalTypes
<1>2. ASSUME \A p \in Players : /\ Wealth(p)' > Wealth(p) => CreditsMade
                                /\ Wealth(p)' < Wealth(p) => CreditsLost
      PROVE  /\ TotalCredits' > TotalCredits => CreditsMade
             /\ TotalCredits' < TotalCredits => CreditsLost
  BY <1>2, TotalsMove
<1>3. ASSUME \A p \in Players : Wealth(p)' = Wealth(p)
      PROVE  /\ TotalCredits' > TotalCredits => CreditsMade
             /\ TotalCredits' < TotalCredits => CreditsLost
  BY <1>1, <1>2, <1>3
<1>4. CASE Neutral
  BY <1>3, <1>4 DEF Neutral
<1>5. ASSUME NEW t \in Threads, Reserve(t) \/ ReturnUnfilled(t) \/ SpawnShip(t)
      PROVE  \A p \in Players : Wealth(p)' = Wealth(p)
  BY <1>5, ReserveAccounts, ReturnAccounts, SpawnAccounts
<1>6. ASSUME NEW t \in Threads, Refund(t)
      PROVE  \A p \in Players : /\ Wealth(p)' > Wealth(p) => CreditsMade
                                /\ Wealth(p)' < Wealth(p) => CreditsLost
  <2>1. PICK i : i = handler[t].order
    OBVIOUS
  <2>2. /\ i \in OrderIds /\ handler'[t] = Idle /\ At(t, "refunding")
        /\ \A p \in Players : Wealth(p)' = Wealth(p)
             + (IF p = orders[i].player
                THEN (IF p \in registered THEN CreditBack(i) ELSE 0) - CreditsReturning(i) ELSE 0)
    BY <1>6, <2>1, RefundAccounts
  <2>3. Refunded(i)
    BY <2>1, <2>2 DEF Refunded
  <2> QED BY <2>2, <2>3, RefundBalance
<1>7. ASSUME NEW t \in Threads, NEW i, NEW r, NEW p, NEW n, Deal(t, i, r, p, n)
      PROVE  /\ TotalCredits' > TotalCredits => CreditsMade
             /\ TotalCredits' < TotalCredits => CreditsLost
  <2>1. TotalCredits' >= TotalCredits /\ (TotalCredits' # TotalCredits => FillsRevived("buy"))
    BY <1>7, DealTotals
  <2>2. FillsRevived("buy") => CreditsMade
    BY DEF FillsRevived, CreditsMade
  <2> QED BY <1>1, <2>1, <2>2
<1>8. ASSUME NEW t \in Threads, NEW i \in OrderIds, Cancel(t, i)
      PROVE  \A p \in Players : Wealth(p)' = Wealth(p)
  BY <1>8, CancelAccounts
<1>9. CASE CancelOrdersAt \/ DeleteOrders \/ RemoveStation \/ ReturnGoods \/ \E p \in Players : DeleteShips(p)
  <2>1. \A p \in Players : Wealth(p)' = Wealth(p)
    BY <1>9, CancelAllAccounts, RemoveAccounts, ReturnGoodsAccounts, ShipsAccounts
  <2> QED BY <1>3, <2>1
<1>10. CASE RefundOrder
  <2>1. PICK i \in OrderIds :
          /\ i \in admin.refunds /\ i \notin admin'.refunds
          /\ \A p \in Players : Wealth(p)' = Wealth(p)
               + (IF p = orders[i].player
                  THEN (IF p \in registered THEN CreditBack(i) ELSE 0) - CreditsReturning(i) ELSE 0)
    BY <1>10, RefundOrderAccounts
  <2>2. Refunded(i)
    BY <2>1 DEF Refunded
  <2>3. \A p \in Players : /\ Wealth(p)' > Wealth(p) => CreditsMade
                           /\ Wealth(p)' < Wealth(p) => CreditsLost
    BY <2>1, <2>2, RefundBalance
  <2> QED BY <1>2, <2>3
<1>11. CASE RefundCredits
  <2>1. \A p \in Players : Wealth(p)' >= Wealth(p) /\ (Wealth(p)' # Wealth(p) => RefundsFreeBuy)
    BY <1>11, RefundCreditsAccounts
  <2>2. RefundsFreeBuy => CreditsMade
    BY DEF RefundsFreeBuy, CreditsMade, Refunded
  <2>3. \A p \in Players : /\ Wealth(p)' > Wealth(p) => CreditsMade
                           /\ Wealth(p)' < Wealth(p) => CreditsLost
    BY <1>1, <2>1, <2>2
  <2> QED BY <1>2, <2>3
<1>12. CASE Unregister
  <2>1. PICK p \in registered \ registered' :
          p \in Players /\ \A q \in Players : Wealth(q)' = Wealth(q) - (IF q = p THEN credits[p] ELSE 0)
    BY <1>12, UnregisterAccounts
  <2>2. credits[p] \in Int
    BY <2>1 DEF Settled, Sound, TypeOK
  <2>3. \A q \in Players : Wealth(q)' > Wealth(q) => credits[p] < 0
    BY <1>1, <2>1, <2>2
  <2>4. registered' # registered
    BY <2>1
  <2>5. \A q \in Players : /\ Wealth(q)' > Wealth(q) => CreditsMade
                           /\ Wealth(q)' < Wealth(q) => CreditsLost
    BY <2>1, <2>3, <2>4 DEF CreditsMade, CreditsLost
  <2> QED BY <1>2, <2>5
<1>13. CASE Restart
  BY <1>1, <1>13, RestartAccounts DEF CreditsLost
<1>14. ASSUME NEW t \in Threads, SettleCredits(t)
       PROVE  \A p \in Players : /\ Wealth(p)' > Wealth(p) => CreditsMade
                                 /\ Wealth(p)' < Wealth(p) => CreditsLost
  BY <1>14, SettleBalance
<1> QED BY <1>2, <1>3, <1>4, <1>5, <1>6, <1>7, <1>8, <1>9, <1>10, <1>11, <1>12, <1>13, <1>14,
           StepsAccounted DEF Accounting
\* The cases in which goods may come from nothing, or be lost.
GoodsMade ==
  \/ \E i \in OrderIds : /\ orders[i].side = "sell" /\ orders[i].type = "market"
                         /\ Cancels(i) \/ FilledWaiting(i)
  \/ \E t \in Threads : /\ At(t, "validated") /\ handler'[t].pc = "reserved"
                        /\ handler[t].req.side = "sell"
                        /\ ~Exists(handler[t].req.station)
GoodsLost ==
  \/ owner' # owner \/ Restarts \/ DeletesShips
  \/ \E i \in OrderIds : Refunded(i) /\ ~Exists(orders[i].station)
  \/ \E t \in Threads : /\ handler[t].pc \in {"returning", "shipping"}
                        /\ handler'[t] # handler[t]
                        /\ ~Exists(BoundFor(t))

\* A refund loses goods for a station that is gone only.
LEMMA GoodsRefundBalance ==
  ASSUME Settled, [Next]_vars, NEW i \in OrderIds, Refunded(i),
         \A s \in Stations : Goods(s)' = Goods(s)
           - (IF s = orders[i].station /\ ~Exists(s) THEN GoodsBack(i) ELSE 0)
  PROVE  \A s \in Stations : Goods(s)' <= Goods(s) /\ (Goods(s)' < Goods(s) => GoodsLost)
<1>1. GoodsBack(i) \in Nat
  BY RefundGain DEF Settled, Sound
<1> SUFFICES ASSUME NEW s \in Stations
             PROVE  Goods(s)' <= Goods(s) /\ (Goods(s)' < Goods(s) => GoodsLost)
  OBVIOUS
<1>2. Goods(s) \in Int /\ Goods(s)' \in Int
  BY TotalTypes
<1>3. Goods(s)' < Goods(s) => s = orders[i].station /\ ~Exists(s)
  BY <1>1, <1>2
<1>4. Goods(s)' <= Goods(s)
  BY <1>1, <1>2
<1> QED BY <1>3, <1>4 DEF GoodsLost

\* Every step keeps the total of the goods, or there is one of the reasons.
LEMMA GoodsBalance ==
  ASSUME Settled, [Next]_vars
  PROVE  /\ TotalGoods' > TotalGoods => GoodsMade
         /\ TotalGoods' < TotalGoods => GoodsLost
<1>1. TotalGoods \in Int /\ TotalGoods' \in Int /\ \A s \in Stations : Goods(s) \in Int /\ Goods(s)' \in Int
  BY TotalTypes
<1>2. ASSUME \A s \in Stations : /\ Goods(s)' > Goods(s) => GoodsMade
                                 /\ Goods(s)' < Goods(s) => GoodsLost
      PROVE  /\ TotalGoods' > TotalGoods => GoodsMade
             /\ TotalGoods' < TotalGoods => GoodsLost
  BY <1>2, TotalsMove
<1>3. ASSUME \A s \in Stations : Goods(s)' = Goods(s)
      PROVE  /\ TotalGoods' > TotalGoods => GoodsMade
             /\ TotalGoods' < TotalGoods => GoodsLost
  BY <1>1, <1>2, <1>3
<1>4. CASE Neutral
  BY <1>3, <1>4 DEF Neutral
<1>5. handler \in [Threads -> [pc : PCs, req : Body \cup {NoRequest}, order : 0..Len(orders),
                               trades : Seq(TradeRecord)]]
  BY DEF Settled, Sound, TypeOK
<1>6. ASSUME NEW t \in Threads, Reserve(t)
      PROVE  \A s \in Stations : /\ Goods(s)' > Goods(s) => GoodsMade
                                 /\ Goods(s)' < Goods(s) => GoodsLost
  <2>1. \A s \in Stations :
          \/ Goods(s)' = Goods(s)
          \/ /\ handler[t].req.side = "sell" /\ ~Exists(handler[t].req.station)
             /\ Goods(s)' >= Goods(s)
    BY <1>6, ReserveAccounts
  <2>2. At(t, "validated") /\ handler'[t].pc = "reserved"
    BY <1>5, <1>6 DEF Reserve, Goto
  <2> QED BY <1>1, <2>1, <2>2 DEF GoodsMade
<1>7. ASSUME NEW t \in Threads, ReturnUnfilled(t)
      PROVE  \A s \in Stations : /\ Goods(s)' > Goods(s) => GoodsMade
                                 /\ Goods(s)' < Goods(s) => GoodsLost
  <2>1. \A s \in Stations :
          \/ Goods(s)' = Goods(s)
          \/ /\ ~Exists(orders[handler[t].order].station)
             /\ Goods(s)' <= Goods(s)
    BY <1>7, ReturnAccounts
  <2>2. At(t, "returning") /\ handler[t].pc = "returning" /\ handler'[t].pc = "settling"
    BY <1>5, <1>7 DEF ReturnUnfilled, Goto, At
  <2>3. handler'[t] # handler[t]
    BY <2>2
  <2>4. BoundFor(t) = orders[handler[t].order].station
    BY <2>2 DEF BoundFor
  <2> QED BY <1>1, <2>1, <2>2, <2>3, <2>4 DEF GoodsLost
<1>8. ASSUME NEW t \in Threads, SpawnShip(t)
      PROVE  \A s \in Stations : /\ Goods(s)' > Goods(s) => GoodsMade
                                 /\ Goods(s)' < Goods(s) => GoodsLost
  <2>1. \A s \in Stations :
          \/ Goods(s)' = Goods(s)
          \/ /\ ~Exists(orders[Head(handler[t].trades).buy].station)
             /\ Goods(s)' <= Goods(s)
    BY <1>8, SpawnAccounts
  <2>2. /\ handler[t].pc = "shipping" /\ ~At(t, "returning")
        /\ handler' = [handler EXCEPT ![t].pc = "settling", ![t].trades = Tail(@)]
    BY <1>8 DEF SpawnShip, At
  <2>3. handler'[t].pc = "settling"
    BY <1>5, <2>2
  <2>4. handler'[t] # handler[t]
    BY <2>2, <2>3
  <2>5. BoundFor(t) = orders[Head(handler[t].trades).buy].station
    BY <2>2 DEF BoundFor
  <2>6. ~Exists(orders[Head(handler[t].trades).buy].station) => GoodsLost
    BY <2>2, <2>4, <2>5 DEF GoodsLost
  <2> QED BY <1>1, <2>1, <2>6
<1>9. ASSUME NEW t \in Threads, Refund(t)
      PROVE  \A s \in Stations : Goods(s)' <= Goods(s) /\ (Goods(s)' < Goods(s) => GoodsLost)
  <2>1. PICK i : i = handler[t].order
    OBVIOUS
  <2>2. /\ i \in OrderIds /\ handler'[t] = Idle /\ At(t, "refunding")
        /\ \A s \in Stations : Goods(s)' = Goods(s)
             - (IF s = orders[i].station /\ ~Exists(s) THEN GoodsBack(i) ELSE 0)
    BY <1>9, <2>1, RefundAccounts
  <2>3. Refunded(i)
    BY <2>1, <2>2 DEF Refunded
  <2> QED BY <2>2, <2>3, GoodsRefundBalance
<1>10. CASE RefundOrder
  <2>1. PICK i \in OrderIds :
          /\ i \in admin.refunds /\ i \notin admin'.refunds
          /\ \A s \in Stations : Goods(s)' = Goods(s)
               - (IF s = orders[i].station /\ ~Exists(s) THEN GoodsBack(i) ELSE 0)
    BY <1>10, RefundOrderAccounts
  <2>2. Refunded(i)
    BY <2>1 DEF Refunded
  <2>3. \A s \in Stations : Goods(s)' <= Goods(s) /\ (Goods(s)' < Goods(s) => GoodsLost)
    BY <2>1, <2>2, GoodsRefundBalance
  <2> QED BY <1>1, <1>2, <2>3
<1>11. ASSUME NEW t \in Threads, NEW i, NEW r, NEW p, NEW n, Deal(t, i, r, p, n)
       PROVE  /\ TotalGoods' > TotalGoods => GoodsMade
              /\ TotalGoods' < TotalGoods => GoodsLost
  <2>1. TotalGoods' >= TotalGoods /\ (TotalGoods' # TotalGoods => FillsRevived("sell"))
    BY <1>11, DealTotals
  <2>2. FillsRevived("sell") => GoodsMade
    BY DEF FillsRevived, GoodsMade
  <2> QED BY <1>1, <2>1, <2>2
<1>12. ASSUME NEW t \in Threads, NEW i \in OrderIds, Cancel(t, i)
       PROVE  \A s \in Stations : /\ Goods(s)' > Goods(s) => GoodsMade
                                  /\ Goods(s)' < Goods(s) => GoodsLost
  <2>1. /\ \A s \in Stations : Goods(s)' = Goods(s)
             + (IF s = orders[i].station /\ orders[i].type = "market" THEN GoodsBack(i) ELSE 0)
        /\ GoodsBack(i) \in Nat /\ orders'[i].status = "cancelled"
    BY <1>12, CancelAccounts
  <2>2. Cancels(i)
    BY <1>12, <2>1 DEF Cancels, Cancel
  <2>3. \A s \in Stations : /\ Goods(s)' > Goods(s) => orders[i].type = "market" /\ GoodsBack(i) # 0
                            /\ ~(Goods(s)' < Goods(s))
    BY <1>1, <2>1
  <2>4. GoodsBack(i) # 0 => orders[i].side = "sell"
    BY DEF GoodsBack
  <2> QED BY <2>2, <2>3, <2>4 DEF GoodsMade
<1>13. CASE CancelOrdersAt \/ DeleteOrders
  <2>1. \A s \in Stations : Goods(s)' >= Goods(s) /\ (Goods(s)' # Goods(s) => CancelsFreeSell)
    BY <1>13, CancelAllAccounts
  <2>2. CancelsFreeSell => GoodsMade
    BY DEF CancelsFreeSell, GoodsMade
  <2>3. \A s \in Stations : /\ Goods(s)' > Goods(s) => GoodsMade
                            /\ Goods(s)' < Goods(s) => GoodsLost
    BY <1>1, <2>1, <2>2
  <2> QED BY <1>2, <2>3
<1>14. CASE RemoveStation \/ \E p \in Players : DeleteShips(p)
  <2>1. (owner' # owner \/ DeletesShips) /\ \A s \in Stations : Goods(s)' <= Goods(s)
    BY <1>14, RemoveAccounts, ShipsAccounts
  <2>2. \A s \in Stations : /\ Goods(s)' > Goods(s) => GoodsMade
                            /\ Goods(s)' < Goods(s) => GoodsLost
    BY <1>1, <2>1 DEF GoodsLost
  <2> QED BY <1>2, <2>2
<1>15. CASE ReturnGoods
  <2>1. \A s \in Stations :
          /\ Goods(s)' <= Goods(s)
          /\ Goods(s)' # Goods(s) =>
               \E i \in OrderIds : /\ i \in admin.refunds /\ i \notin admin'.refunds
                                   /\ ~Exists(orders[i].station)
    BY <1>15, ReturnGoodsAccounts
  <2>2. \A s \in Stations : Goods(s)' # Goods(s) => GoodsLost
    BY <2>1 DEF GoodsLost, Refunded
  <2>3. \A s \in Stations : /\ Goods(s)' > Goods(s) => GoodsMade
                            /\ Goods(s)' < Goods(s) => GoodsLost
    BY <1>1, <2>1, <2>2
  <2> QED BY <1>2, <2>3
<1>16. CASE RefundCredits \/ Unregister
  <2>1. \A s \in Stations : Goods(s)' = Goods(s)
    BY <1>16, RefundCreditsAccounts, UnregisterAccounts
  <2> QED BY <1>3, <2>1
<1>17. ASSUME NEW t \in Threads, SettleCredits(t)
       PROVE  \A s \in Stations : Goods(s)' = Goods(s)
  BY <1>17, SettleAccounts
<1>18. CASE Restart
  BY <1>1, <1>18, RestartAccounts DEF GoodsLost
<1>19. ASSUME NEW t \in Threads,
              Reserve(t) \/ ReturnUnfilled(t) \/ SettleCredits(t) \/ SpawnShip(t) \/ Refund(t)
       PROVE  /\ TotalGoods' > TotalGoods => GoodsMade
              /\ TotalGoods' < TotalGoods => GoodsLost
  <2>1. CASE Refund(t)
    <3>1. \A s \in Stations : Goods(s)' <= Goods(s) /\ (Goods(s)' < Goods(s) => GoodsLost)
      BY <1>9, <2>1
    <3> QED BY <1>1, <1>2, <3>1
  <2> QED BY <1>2, <1>3, <1>6, <1>7, <1>8, <1>17, <1>19, <2>1
<1> QED BY <1>2, <1>4, <1>10, <1>11, <1>12, <1>13, <1>14, <1>15, <1>16, <1>18, <1>19,
           StepsAccounted DEF Accounting

\* Credits come from nothing, and are lost, in the cases CreditsKept names only,
\* whatever handlers, the admin and restarts do in any order.
THEOREM CreditsKeptCorrect == Spec => CreditsKept
<1>1. Settled /\ [Next]_vars =>
        [LET gain == TotalCredits' - TotalCredits
         IN  gain # 0 =>
             /\ gain > 0 =>
                  \/ \E p \in registered \ registered' : credits[p] < 0
                  \/ \E i \in OrderIds : /\ orders[i].side = "buy" /\ orders[i].type = "market"
                                         /\ \/ Refunded(i) \/ FilledWaiting(i)
                                            \/ Settles(i) /\ Gone(i)
             /\ gain < 0 =>
                  \/ registered' # registered \/ Restarts
                  \/ \E i \in OrderIds : Gone(i) /\ (Refunded(i) \/ Settles(i))]_vars
  <2> SUFFICES ASSUME Settled, [Next]_vars
               PROVE  /\ TotalCredits' - TotalCredits > 0 => CreditsMade
                      /\ TotalCredits' - TotalCredits < 0 => CreditsLost
    BY DEF CreditsMade, CreditsLost
  <2>1. TotalCredits \in Int /\ TotalCredits' \in Int
    BY TotalTypes
  <2>2. /\ TotalCredits' > TotalCredits => CreditsMade
        /\ TotalCredits' < TotalCredits => CreditsLost
    BY CreditsBalance
  <2>3. PICK a, b : a = TotalCredits /\ b = TotalCredits'
    OBVIOUS
  <2>4. /\ a \in Int /\ b \in Int
        /\ b > a => CreditsMade
        /\ b < a => CreditsLost
    BY <2>1, <2>2, <2>3
  <2>5. /\ b - a > 0 => CreditsMade
        /\ b - a < 0 => CreditsLost
    BY <2>4
  <2> QED BY <2>3, <2>5
<1> QED BY <1>1, SettledAlways, PTL DEF Spec, CreditsKept

\* The same of the goods.
THEOREM GoodsKeptCorrect == Spec => GoodsKept
<1>1. Settled /\ [Next]_vars =>
        [LET gain == TotalGoods' - TotalGoods
         IN  gain # 0 =>
             /\ gain > 0 =>
                  \/ \E i \in OrderIds : /\ orders[i].side = "sell" /\ orders[i].type = "market"
                                         /\ Cancels(i) \/ FilledWaiting(i)
                  \/ \E t \in Threads : /\ At(t, "validated") /\ handler'[t].pc = "reserved"
                                        /\ handler[t].req.side = "sell"
                                        /\ ~Exists(handler[t].req.station)
             /\ gain < 0 =>
                  \/ owner' # owner \/ Restarts \/ DeletesShips
                  \/ \E i \in OrderIds : Refunded(i) /\ ~Exists(orders[i].station)
                  \/ \E t \in Threads : /\ handler[t].pc \in {"returning", "shipping"}
                                        /\ handler'[t] # handler[t]
                                        /\ ~Exists(BoundFor(t))]_vars
  <2> SUFFICES ASSUME Settled, [Next]_vars
               PROVE  /\ TotalGoods' - TotalGoods > 0 => GoodsMade
                      /\ TotalGoods' - TotalGoods < 0 => GoodsLost
    BY DEF GoodsMade, GoodsLost
  <2>1. TotalGoods \in Int /\ TotalGoods' \in Int
    BY TotalTypes
  <2>2. /\ TotalGoods' > TotalGoods => GoodsMade
        /\ TotalGoods' < TotalGoods => GoodsLost
    BY GoodsBalance
  <2>3. PICK a, b : a = TotalGoods /\ b = TotalGoods'
    OBVIOUS
  <2>4. /\ a \in Int /\ b \in Int
        /\ b > a => GoodsMade
        /\ b < a => GoodsLost
    BY <2>1, <2>2, <2>3
  <2>5. /\ b - a > 0 => GoodsMade
        /\ b - a < 0 => GoodsLost
    BY <2>4
  <2> QED BY <2>3, <2>5
<1> QED BY <1>1, SettledAlways, PTL DEF Spec, GoodsKept

-----------------------------------------------------------------------------
(* The exchange on its own: the admin removes nothing, the server keeps running *)

\* Nothing can be removed, nobody deleted, and there are no restarts.
Alone == Removable = {} /\ Deletable = {} /\ MaxRestarts = 0

\* Everybody is there and keeps the station he had, and orders for it.
AtHome ==
  /\ owner = Owner /\ registered = Players /\ admin = AdminIdle /\ restarts = 0
  /\ \A i \in OrderIds : orders[i].player = Owner[orders[i].station]
  /\ \A t \in Threads : handler[t].pc \in {"validated", "reserved"} =>
       handler[t].req.player = Owner[handler[t].req.station]

\* Then only handlers take steps.
LEMMA HandlersOnly ==
  ASSUME Alone, AtHome, [Next]_vars
  PROVE  \/ UNCHANGED vars
         \/ \E t \in Threads : \/ \E b \in Body : Validate(t, b)
                               \/ \E i \in OrderIds : Cancel(t, i)
                               \/ Step(t)
<1>1. admin.pc = "idle" /\ restarts = 0
  BY DEF AtHome, AdminIdle
<1>2. ~Administer
  BY <1>1 DEF Administer, Alone, CheckStation, CancelOrdersAt, RefundOrder, RemoveStation, DeleteShips,
              DeleteOrders, RefundCredits, ReturnGoods, Disown, Unregister, AdminAt
<1>3. ~Restart
  BY <1>1 DEF Restart, Alone
<1> QED BY <1>2, <1>3 DEF Next, Quiet

\* A handler's request is the one it was validated with.
LEMMA RequestKept ==
  ASSUME Alone, Settled, AtHome, [Next]_vars, NEW u \in Threads, handler'[u].pc \in {"validated", "reserved"}
  PROVE  \/ \E b \in Body : Validate(u, b) /\ handler'[u].req = b
         \/ /\ handler[u].pc \in {"validated", "reserved"}
            /\ handler'[u].req = handler[u].req
<1>1. /\ handler \in [Threads -> [pc : PCs, req : Body \cup {NoRequest}, order : 0..Len(orders),
                                  trades : Seq(TradeRecord)]]
      /\ Sound
  BY DEF Settled, Sound, TypeOK
<1>2. CASE UNCHANGED vars
  BY <1>2 DEF vars, server
<1>3. ASSUME NEW t \in Threads, NEW b \in Body, Validate(t, b)
      PROVE  IF u = t THEN handler'[u].req = b ELSE handler'[u] = handler[u]
  <2>1. handler'[t] = [pc |-> "validated", req |-> b, order |-> 0, trades |-> <<>>]
    BY <1>1, <1>3 DEF Validate, Idle
  <2>2. \A v \in Threads \ {t} : handler'[v] = handler[v]
    BY <1>1, <1>3 DEF Validate
  <2> QED BY <2>1, <2>2
<1>4. ASSUME NEW t \in Threads, NEW i \in OrderIds, Cancel(t, i) PROVE handler'[u] = handler[u]
  <2>1. handler'[t] = [pc |-> "refunding", req |-> NoRequest, order |-> i, trades |-> <<>>]
    BY <1>1, <1>4 DEF Cancel, Idle
  <2>2. \A v \in Threads \ {t} : handler'[v] = handler[v]
    BY <1>1, <1>4 DEF Cancel
  <2> QED BY <2>1, <2>2
<1>5. ASSUME NEW t \in Threads, Reserve(t)
      PROVE  handler'[u] = handler[u] \/ (handler[u].pc = "validated" /\ handler'[u].req = handler[u].req)
  <2>1. handler' = [handler EXCEPT ![t].pc = "reserved"] /\ handler[t].pc = "validated"
    BY <1>5 DEF Reserve, Goto, At
  <2>2. handler'[t].req = handler[t].req /\ \A v \in Threads \ {t} : handler'[v] = handler[v]
    BY <1>1, <2>1
  <2> QED BY <2>1, <2>2
<1>6. ASSUME NEW t \in Threads, Refuse(t) \/ Respond(t) \/ Refund(t) PROVE handler'[u] = handler[u]
  <2>1. handler' = [handler EXCEPT ![t] = [pc |-> "idle", req |-> NoRequest, order |-> 0, trades |-> <<>>]]
    BY <1>6 DEF Refuse, Respond, Refund, Finish, Idle
  <2> QED BY <1>1, <2>1
<1>7. ASSUME NEW t \in Threads, Insert(t) PROVE handler'[u] = handler[u]
  <2>1. handler'[t] = [pc |-> "matching", req |-> NoRequest, order |-> Len(orders) + 1, trades |-> <<>>]
    BY <1>1, <1>7 DEF Insert, Idle
  <2>2. \A v \in Threads \ {t} : handler'[v] = handler[v]
    BY <1>1, <1>7 DEF Insert
  <2> QED BY <2>1, <2>2
<1>8. ASSUME NEW t \in Threads, MatchBuy(t) \/ MatchSell(t) PROVE handler'[u] = handler[u]
  <2>1. PICK i, r, p, n : Deal(t, i, r, p, n)
    BY <1>1, <1>8, TradeDeals
  <2>2. /\ handler'[t].pc = "matching"
        /\ \A v \in Threads \ {t} : handler'[v] = handler[v]
    BY <1>1, <2>1, DealResting
  <2> QED BY <2>2
<1>9. ASSUME NEW t \in Threads, Rest(t) PROVE handler'[u] = handler[u]
  <2>1. PICK pc \in {"returning", "settling"} : handler' = [handler EXCEPT ![t].pc = pc]
    BY <1>9 DEF Rest, Goto
  <2> QED BY <1>1, <2>1
<1>10. ASSUME NEW t \in Threads, ReturnUnfilled(t) \/ SettleCredits(t) PROVE handler'[u] = handler[u]
  <2>1. PICK pc \in {"shipping", "settling"} : handler' = [handler EXCEPT ![t].pc = pc]
    BY <1>10 DEF ReturnUnfilled, SettleCredits, Goto
  <2> QED BY <1>1, <2>1
<1>11. ASSUME NEW t \in Threads, SpawnShip(t) PROVE handler'[u] = handler[u]
  <2>1. handler' = [handler EXCEPT ![t].pc = "settling", ![t].trades = Tail(@)]
    BY <1>11 DEF SpawnShip
  <2>2. handler'[t].pc = "settling" /\ \A v \in Threads \ {t} : handler'[v] = handler[v]
    BY <1>1, <2>1
  <2> QED BY <2>2
<1>12. ASSUME NEW t \in Threads, Step(t)
       PROVE  handler'[u] = handler[u] \/ (handler[u].pc = "validated" /\ handler'[u].req = handler[u].req)
  BY <1>5, <1>6, <1>7, <1>8, <1>9, <1>10, <1>11, <1>12 DEF Step
<1> QED BY <1>2, <1>3, <1>4, <1>12, HandlersOnly

\* So it is at the start.
LEMMA AtHomeInit == Alone /\ Init => AtHome
<1> SUFFICES ASSUME Alone, Init PROVE AtHome
  OBVIOUS
<1>1. OrderIds = {}
  BY DEF Init, OrderIds
<1>2. \A t \in Threads : handler[t].pc = "idle"
  BY DEF Init, Idle
<1> QED BY <1>1, <1>2 DEF AtHome, Init

\* And so it stays.
LEMMA AtHomeStep == Alone /\ Settled /\ AtHome /\ [Next]_vars => AtHome'
<1> SUFFICES ASSUME Alone, Settled, AtHome, [Next]_vars PROVE AtHome'
  OBVIOUS
<1>1. Sound /\ TypeOK
  BY DEF Settled, Sound
<1>2. owner' = Owner /\ registered' = Players /\ admin' = AdminIdle /\ restarts' = 0
  <2>1. owner' = owner /\ registered' = registered /\ admin' = admin /\ restarts' = restarts
    <3>1. CASE UNCHANGED vars
      BY <3>1 DEF vars, accounts, stations, server
    <3>2. ASSUME NEW t \in Threads,
                 (\E b \in Body : Validate(t, b)) \/ (\E i \in OrderIds : Cancel(t, i)) \/ Step(t)
          PROVE  owner' = owner /\ registered' = registered /\ admin' = admin /\ restarts' = restarts
      BY <3>2 DEF Validate, Cancel, Step, Reserve, Refuse, Insert, MatchBuy, MatchSell, Trade, Rest,
                  ReturnUnfilled, SettleCredits, SpawnShip, Respond, Refund, accounts, stations
    <3> QED BY <3>1, <3>2, HandlersOnly
  <2> QED BY <2>1 DEF AtHome
<1>3. \A t \in Threads : handler'[t].pc \in {"validated", "reserved"} =>
        handler'[t].req.player = Owner[handler'[t].req.station]
  <2> SUFFICES ASSUME NEW t \in Threads, handler'[t].pc \in {"validated", "reserved"}
               PROVE  handler'[t].req.player = Owner[handler'[t].req.station]
    OBVIOUS
  <2>1. ASSUME NEW b \in Body, Validate(t, b), handler'[t].req = b
        PROVE  handler'[t].req.player = Owner[handler'[t].req.station]
    BY <2>1 DEF Validate, AtHome
  <2>2. ASSUME handler[t].pc \in {"validated", "reserved"}, handler'[t].req = handler[t].req
        PROVE  handler'[t].req.player = Owner[handler'[t].req.station]
    BY <2>2 DEF AtHome
  <2> QED BY <2>1, <2>2, RequestKept
<1>4. \A i \in OrderIds' : orders'[i].player = Owner[orders'[i].station]
  <2>1. \A i \in OrderIds : SameOrder(orders'[i], orders[i])
    BY <1>1, OrdersKept
  <2>2. \A i \in OrderIds : orders'[i].player = Owner[orders'[i].station]
    BY <2>1 DEF SameOrder, AtHome
  <2>3. ASSUME NEW t \in Threads, Insert(t)
        PROVE  \A i \in OrderIds' : orders'[i].player = Owner[orders'[i].station]
    <3>n. PICK new : new = Len(orders) + 1
      OBVIOUS
    <3>b. PICK b : b = handler[t].req
      OBVIOUS
    <3>1. Len(orders') = new /\ (\A j \in 1..new : j = new \/ j \in OrderIds) /\ orders'[new] = NewOrder(b)
      BY <1>1, <2>3, <3>n, <3>b, InsertedOrder
    <3>2. b.player = Owner[b.station]
      BY <2>3, <3>b DEF Insert, At, AtHome
    <3>3. orders'[new].player = Owner[orders'[new].station]
      BY <3>1, <3>2 DEF NewOrder
    <3> QED BY <2>2, <3>1, <3>3 DEF OrderIds
  <2>4. ASSUME Len(orders') = Len(orders)
        PROVE  \A i \in OrderIds' : orders'[i].player = Owner[orders'[i].station]
    BY <2>2, <2>4 DEF OrderIds
  <2>5. ASSUME NEW t \in Threads, NEW i, NEW r, NEW p, NEW n, Deal(t, i, r, p, n)
        PROVE  Len(orders') = Len(orders)
    BY <1>1, <2>5, DealOrders
  <2>6. ASSUME NEW t \in Threads, Rest(t) PROVE Len(orders') = Len(orders)
    BY <1>1, <2>6, RestOrders
  <2>7. ASSUME NEW ids, CancelStep(ids) PROVE Len(orders') = Len(orders)
    BY <1>1, <2>7, CancelledOrders DEF CancelStep
  <2>8. CASE ReturnGoods \/ Restart \/ Aside
    <3>1. orders' = orders
      BY <2>8 DEF ReturnGoods, Restart, Aside, market
    <3> QED BY <2>4, <3>1
  <2> QED BY <1>1, <2>3, <2>4, <2>5, <2>6, <2>7, <2>8, Steps
<1> QED BY <1>2, <1>3, <1>4 DEF AtHome

-----------------------------------------------------------------------------
(* What was paid out *)

\* A step that neither cancels an order nor refunds one.
Plain == \A t \in Threads : ~Refund(t) /\ \A i \in OrderIds : ~Cancel(t, i)

\* Only a handler that cancels or refunds changes what is being refunded.
LEMMA RefundingKept ==
  ASSUME Alone, Settled, AtHome, [Next]_vars, Plain
  PROVE  \A i : Refunding(i)' <=> Refunding(i)
<1>1. /\ handler \in [Threads -> [pc : PCs, req : Body \cup {NoRequest}, order : 0..Len(orders),
                                  trades : Seq(TradeRecord)]]
      /\ Sound
  BY DEF Settled, Sound, TypeOK
<1> DEFINE Other(t) == /\ handler[t].pc # "refunding" /\ handler'[t].pc # "refunding"
                       /\ \A u \in Threads \ {t} : handler'[u] = handler[u]
<1>2. CASE UNCHANGED vars
  BY <1>2 DEF vars, server, Refunding, At
<1>3. ASSUME NEW t \in Threads, NEW b \in Body, Validate(t, b) PROVE Other(t)
  <2>1. handler'[t] = [pc |-> "validated", req |-> b, order |-> 0, trades |-> <<>>]
    BY <1>1, <1>3 DEF Validate, Idle
  <2>2. \A v \in Threads \ {t} : handler'[v] = handler[v]
    BY <1>1, <1>3 DEF Validate
  <2> QED BY <1>3, <2>1, <2>2 DEF Validate, At
<1>4. ASSUME NEW t \in Threads, Reserve(t) PROVE Other(t)
  <2>1. handler' = [handler EXCEPT ![t].pc = "reserved"] /\ handler[t].pc = "validated"
    BY <1>4 DEF Reserve, Goto, At
  <2> QED BY <1>1, <2>1
<1>5. ASSUME NEW t \in Threads, Refuse(t) \/ Respond(t) PROVE Other(t)
  <2>1. /\ handler' = [handler EXCEPT ![t] = [pc |-> "idle", req |-> NoRequest, order |-> 0, trades |-> <<>>]]
        /\ handler[t].pc # "refunding"
    BY <1>5 DEF Refuse, Respond, Finish, Idle, At
  <2> QED BY <1>1, <2>1
<1>6. ASSUME NEW t \in Threads, Insert(t) PROVE Other(t)
  <2>1. handler'[t] = [pc |-> "matching", req |-> NoRequest, order |-> Len(orders) + 1, trades |-> <<>>]
    BY <1>1, <1>6 DEF Insert, Idle
  <2>2. \A v \in Threads \ {t} : handler'[v] = handler[v]
    BY <1>1, <1>6 DEF Insert
  <2> QED BY <1>6, <2>1, <2>2 DEF Insert, At
<1>7. ASSUME NEW t \in Threads, MatchBuy(t) \/ MatchSell(t) PROVE Other(t)
  <2>1. PICK i, r, p, n : Deal(t, i, r, p, n)
    BY <1>1, <1>7, TradeDeals
  <2>2. /\ handler'[t].pc = "matching" /\ handler[t].pc = "matching"
        /\ \A v \in Threads \ {t} : handler'[v] = handler[v]
    BY <1>1, <2>1, DealResting DEF Deal, At
  <2> QED BY <2>2
<1>8. ASSUME NEW t \in Threads, Rest(t) PROVE Other(t)
  <2>1. PICK pc \in {"returning", "settling"} : handler' = [handler EXCEPT ![t].pc = pc]
    BY <1>8 DEF Rest, Goto
  <2>2. handler[t].pc = "matching"
    BY <1>8 DEF Rest, At
  <2> QED BY <1>1, <2>1, <2>2
<1>9. ASSUME NEW t \in Threads, ReturnUnfilled(t) \/ SettleCredits(t) PROVE Other(t)
  <2>1. PICK pc \in {"shipping", "settling"} : handler' = [handler EXCEPT ![t].pc = pc]
    BY <1>9 DEF ReturnUnfilled, SettleCredits, Goto
  <2>2. handler[t].pc # "refunding"
    BY <1>9 DEF ReturnUnfilled, SettleCredits, At
  <2> QED BY <1>1, <2>1, <2>2
<1>10. ASSUME NEW t \in Threads, SpawnShip(t) PROVE Other(t)
  <2>1. handler' = [handler EXCEPT ![t].pc = "settling", ![t].trades = Tail(@)]
    BY <1>10 DEF SpawnShip
  <2>2. handler'[t].pc = "settling" /\ \A v \in Threads \ {t} : handler'[v] = handler[v]
    BY <1>1, <2>1
  <2> QED BY <1>10, <2>2 DEF SpawnShip, At
<1>11. ASSUME NEW t \in Threads, Step(t) PROVE Other(t)
  BY <1>4, <1>5, <1>6, <1>7, <1>8, <1>9, <1>10, <1>11 DEF Step, Plain
<1>12. ASSUME NEW t \in Threads, Other(t) PROVE \A i : Refunding(i)' <=> Refunding(i)
  BY <1>12 DEF Refunding, At
<1> HIDE DEF Other
<1> QED BY <1>2, <1>3, <1>11, <1>12, HandlersOnly DEF Plain

\* Only a cancellation adds to the market orders cancelled after a fill.
LEMMA AfterFillKept ==
  ASSUME Alone, Settled, AtHome, [Next]_vars, \A t \in Threads, i \in OrderIds : ~Cancel(t, i)
  PROVE  /\ CancelledAfterFill' = CancelledAfterFill
         /\ \A i \in CancelledAfterFill : i \in OrderIds /\ i \in OrderIds' /\ orders'[i] = orders[i]
<1>1. Sound /\ TypeOK
  BY DEF Settled, Sound
<1>2. \A i \in OrderIds : i \in OrderIds' /\ (orders[i].status = "cancelled" => orders'[i] = orders[i])
  BY <1>1, OrdersKept, CancelledKept DEF OrderIds
<1> DEFINE Newly(j) == /\ j \in OrderIds' /\ orders'[j].type = "market"
                       /\ orders'[j].status = "cancelled" /\ orders'[j].filled > 0
                       /\ (j \notin OrderIds \/ orders'[j] # orders[j])
<1>3. ASSUME orders' = orders, NEW j, Newly(j) PROVE FALSE
  BY <1>3 DEF OrderIds
<1>4. ASSUME NEW t \in Threads, Insert(t), NEW j, Newly(j) PROVE FALSE
  <2>n. PICK new : new = Len(orders) + 1
    OBVIOUS
  <2>1. /\ Len(orders') = new /\ \A k \in 1..new : k = new \/ k \in OrderIds
        /\ \A k \in OrderIds : orders'[k] = orders[k]
        /\ orders'[new].filled = 0
    BY <1>1, <1>4, <2>n, InsertedOrder
  <2> QED BY <1>4, <2>1 DEF OrderIds
<1>5. ASSUME NEW t \in Threads, NEW i, NEW r, NEW p, NEW n, Deal(t, i, r, p, n), NEW j, Newly(j) PROVE FALSE
  <2>1. /\ Len(orders') = Len(orders) /\ orders'[i] = Fill(orders[i], n) /\ orders'[r] = Fill(orders[r], n)
        /\ \A k \in OrderIds \ {i, r} : orders'[k] = orders[k]
    BY <1>1, <1>5, DealOrders
  <2>2. /\ i \in OrderIds /\ r \in OrderIds /\ n \in Nat \ {0}
        /\ n <= Remaining(orders[i]) /\ n <= Remaining(orders[r])
    BY <1>5 DEF Deal
  <2>3. Fill(orders[i], n).status # "cancelled" /\ Fill(orders[r], n).status # "cancelled"
    BY <1>1, <2>2, OrderTypes, FilledOrder
  <2> QED BY <1>5, <2>1, <2>3 DEF OrderIds
<1>6. ASSUME NEW t \in Threads, Rest(t), NEW j, Newly(j) PROVE FALSE
  <2>i. PICK i : i = handler[t].order
    OBVIOUS
  <2>1. /\ i \in OrderIds /\ Len(orders') = Len(orders)
        /\ \A k \in OrderIds \ {i} : orders'[k] = orders[k]
        /\ orders'[i].filled = orders[i].filled
    BY <1>1, <1>6, <2>i, RestOrders
  <2>2. orders[i] \in OrderRecord /\ orders \in Seq(OrderRecord) /\ orders[i].filled \in Nat
    BY <1>1, <2>1, OrderTypes, OrderFields DEF TypeOK
  <2>3. orders'[i] = orders[i] \/ (orders[i].filled > 0 => orders'[i].status = "partially_filled")
    <3>1. CASE orders' = orders
      BY <3>1
    <3>2. CASE orders' = [orders EXCEPT ![i].status = IF orders[i].filled > 0 THEN "partially_filled" ELSE "cancelled"]
      BY <2>1, <2>2, <3>2 DEF OrderRecord, OrderIds
    <3> QED BY <1>6, <2>i, <3>1, <3>2 DEF Rest
  <2> QED BY <1>6, <2>1, <2>2, <2>3 DEF OrderIds
<1>7. ASSUME NEW j, Newly(j) PROVE FALSE
  <2>1. CASE UNCHANGED vars
    BY <1>3, <1>7, <2>1 DEF vars, market
  <2>2. ASSUME NEW t \in Threads, NEW b \in Body, Validate(t, b) PROVE FALSE
    BY <1>3, <1>7, <2>2 DEF Validate, market
  <2>3. ASSUME NEW t \in Threads, MatchBuy(t) \/ MatchSell(t) PROVE FALSE
    BY <1>1, <1>5, <1>7, <2>3, TradeDeals
  <2>4. ASSUME NEW t \in Threads, Reserve(t) \/ Refuse(t) \/ ReturnUnfilled(t) \/ SettleCredits(t)
                                  \/ SpawnShip(t) \/ Respond(t) \/ Refund(t) PROVE FALSE
    BY <1>3, <1>7, <2>4 DEF Reserve, Refuse, ReturnUnfilled, SettleCredits, SpawnShip, Respond, Refund, market
  <2>5. ASSUME NEW t \in Threads, Step(t) PROVE FALSE
    BY <1>4, <1>6, <1>7, <2>3, <2>4, <2>5 DEF Step
  <2> QED BY <2>1, <2>2, <2>5, HandlersOnly
<1>8. \A i \in CancelledAfterFill : i \in OrderIds /\ i \in OrderIds' /\ orders'[i] = orders[i]
  BY <1>2 DEF CancelledAfterFill
<1>9. CancelledAfterFill' \subseteq CancelledAfterFill
  BY <1>7 DEF CancelledAfterFill
<1>10. CancelledAfterFill \subseteq CancelledAfterFill'
  BY <1>8 DEF CancelledAfterFill
<1> QED BY <1>8, <1>9, <1>10

-----------------------------------------------------------------------------
(* How the payments grow *)

\* The orders whose cancellation paid something out.
CreditsDone(p) == {i \in CancelledAfterFill \cap PlacedBy(p) : ~Refunding(i)}
GoodsDone(s) == CancelledAfterFill \cap PlacedAt(s)

\* What was paid out is a natural number.
LEMMA PaidOutTypes ==
  Sound => /\ \A p : /\ CreditsDone(p) \in SUBSET OrderIds /\ IsFiniteSet(CreditsDone(p))
                     /\ CreditsPaidOut(p) = SumFunctionOnSet([i \in OrderIds |-> CreditBack(i)], CreditsDone(p))
                     /\ CreditsPaidOut(p) \in Nat
           /\ \A s : /\ GoodsDone(s) \in SUBSET OrderIds /\ IsFiniteSet(GoodsDone(s))
                     /\ GoodsPaidOut(s) = SumFunctionOnSet([i \in OrderIds |-> GoodsBack(i)], GoodsDone(s))
                     /\ GoodsPaidOut(s) \in Nat
<1> SUFFICES ASSUME Sound
    PROVE  /\ \A p : /\ CreditsDone(p) \in SUBSET OrderIds /\ IsFiniteSet(CreditsDone(p))
                     /\ CreditsPaidOut(p) = SumFunctionOnSet([i \in OrderIds |-> CreditBack(i)], CreditsDone(p))
                     /\ CreditsPaidOut(p) \in Nat
           /\ \A s : /\ GoodsDone(s) \in SUBSET OrderIds /\ IsFiniteSet(GoodsDone(s))
                     /\ GoodsPaidOut(s) = SumFunctionOnSet([i \in OrderIds |-> GoodsBack(i)], GoodsDone(s))
                     /\ GoodsPaidOut(s) \in Nat
  OBVIOUS
<1>1. TypeOK /\ Len(orders) \in Nat
  BY DEF Sound, TypeOK
<1>2. IsFiniteSet(OrderIds)
  BY <1>1, OrdersFinite
<1>3. /\ \A p : CreditsDone(p) \in SUBSET OrderIds
      /\ \A s : GoodsDone(s) \in SUBSET OrderIds
  BY DEF CreditsDone, GoodsDone, CancelledAfterFill
<1>4. /\ \A p : CreditsPaidOut(p) = SumFunctionOnSet([i \in OrderIds |-> CreditBack(i)], CreditsDone(p))
      /\ \A s : GoodsPaidOut(s) = SumFunctionOnSet([i \in OrderIds |-> GoodsBack(i)], GoodsDone(s))
  BY DEF CreditsPaidOut, GoodsPaidOut, CreditsDone, GoodsDone
<1>5. /\ \A p : SumFunctionOnSet([i \in OrderIds |-> CreditBack(i)], CreditsDone(p)) \in Nat
      /\ \A s : SumFunctionOnSet([i \in OrderIds |-> GoodsBack(i)], GoodsDone(s)) \in Nat
  BY <1>1, <1>3, RefundTypes
<1>6. /\ \A p : IsFiniteSet(CreditsDone(p))
      /\ \A s : IsFiniteSet(GoodsDone(s))
  BY <1>2, <1>3, FS_Subset
<1> QED BY <1>3, <1>4, <1>5, <1>6

\* What a cancellation gives back is a natural number.
LEMMA BacksNatural == TypeOK => \A i \in OrderIds : CreditBack(i) \in Nat /\ GoodsBack(i) \in Nat
  BY BackTypes

\* What one order more of the set adds; what the same orders were paid, they were
\* paid.
LEMMA PaidOutGrows ==
  ASSUME Settled, [Next]_vars,
         \A i \in CancelledAfterFill : i \in OrderIds' /\ orders'[i] = orders[i]
  PROVE  /\ \A p : CreditsDone(p)' = CreditsDone(p) => CreditsPaidOut(p)' = CreditsPaidOut(p)
         /\ \A p, i : i \in OrderIds' /\ i \notin CreditsDone(p) /\ CreditsDone(p)' = CreditsDone(p) \cup {i}
                        => CreditsPaidOut(p)' = CreditsPaidOut(p) + CreditBack(i)'
         /\ \A s : GoodsDone(s)' = GoodsDone(s) => GoodsPaidOut(s)' = GoodsPaidOut(s)
         /\ \A s, i : i \in OrderIds' /\ i \notin GoodsDone(s) /\ GoodsDone(s)' = GoodsDone(s) \cup {i}
                        => GoodsPaidOut(s)' = GoodsPaidOut(s) + GoodsBack(i)'
<1>1. Sound /\ Settled' /\ TypeOK
  BY SettledStep DEF Settled, Sound
<1>2. Sound' /\ TypeOK'
  BY <1>1 DEF Settled, Sound
<1> DEFINE f == [i \in OrderIds |-> CreditBack(i)]
           g == [i \in OrderIds' |-> CreditBack(i)']
           k == [i \in OrderIds |-> GoodsBack(i)]
           l == [i \in OrderIds' |-> GoodsBack(i)']
<1>3. /\ \A p : /\ CreditsDone(p) \in SUBSET OrderIds /\ IsFiniteSet(CreditsDone(p))
                /\ CreditsPaidOut(p) = SumFunctionOnSet(f, CreditsDone(p))
      /\ \A s : /\ GoodsDone(s) \in SUBSET OrderIds /\ IsFiniteSet(GoodsDone(s))
                /\ GoodsPaidOut(s) = SumFunctionOnSet(k, GoodsDone(s))
  BY <1>1, PaidOutTypes
<1>4. (Sound =>
           /\ \A p : /\ CreditsDone(p) \in SUBSET OrderIds /\ IsFiniteSet(CreditsDone(p))
                     /\ CreditsPaidOut(p) = SumFunctionOnSet([i \in OrderIds |-> CreditBack(i)], CreditsDone(p))
                     /\ CreditsPaidOut(p) \in Nat
           /\ \A s : /\ GoodsDone(s) \in SUBSET OrderIds /\ IsFiniteSet(GoodsDone(s))
                     /\ GoodsPaidOut(s) = SumFunctionOnSet([i \in OrderIds |-> GoodsBack(i)], GoodsDone(s))
                     /\ GoodsPaidOut(s) \in Nat)'
  BY PaidOutTypes, PTL
<1>5. /\ \A p : /\ CreditsPaidOut(p)' = SumFunctionOnSet(g, CreditsDone(p)')
      /\ \A s : /\ GoodsPaidOut(s)' = SumFunctionOnSet(l, GoodsDone(s)')
  BY <1>2, <1>4
<1>6. \A i \in OrderIds : f[i] = CreditBack(i) /\ f[i] \in Int /\ k[i] = GoodsBack(i) /\ k[i] \in Int
  BY <1>1, BackTypes
<1>7. (TypeOK => \A i \in OrderIds : CreditBack(i) \in Nat /\ GoodsBack(i) \in Nat)'
  BY BacksNatural, PTL
<1>8. \A i \in OrderIds' : g[i] = CreditBack(i)' /\ g[i] \in Int /\ l[i] = GoodsBack(i)' /\ l[i] \in Int
  BY <1>2, <1>7
<1>9. /\ \A p : CreditsDone(p) \subseteq CancelledAfterFill
      /\ \A s : GoodsDone(s) \subseteq CancelledAfterFill
  BY DEF CreditsDone, GoodsDone
<1>10. \A i \in CancelledAfterFill : i \in OrderIds /\ g[i] = f[i] /\ l[i] = k[i] /\ g[i] \in Int /\ l[i] \in Int
  <2> SUFFICES ASSUME NEW i \in CancelledAfterFill
               PROVE  i \in OrderIds /\ g[i] = f[i] /\ l[i] = k[i] /\ g[i] \in Int /\ l[i] \in Int
    OBVIOUS
  <2>1. i \in OrderIds /\ i \in OrderIds' /\ orders'[i] = orders[i]
    BY DEF CancelledAfterFill
  <2>2. CreditBack(i)' = CreditBack(i) /\ GoodsBack(i)' = GoodsBack(i)
    BY <2>1 DEF CreditBack, GoodsBack, Remaining
  <2> QED BY <1>6, <1>8, <2>1, <2>2
<1> HIDE DEF f, g, k, l
<1>11. /\ \A p : SumFunctionOnSet(g, CreditsDone(p)) = CreditsPaidOut(p)
       /\ \A s : SumFunctionOnSet(l, GoodsDone(s)) = GoodsPaidOut(s)
  <2>1. ASSUME NEW p PROVE SumFunctionOnSet(g, CreditsDone(p)) = SumFunctionOnSet(f, CreditsDone(p))
    <3>1. IsFiniteSet(CreditsDone(p)) /\ \A i \in CreditsDone(p) : f[i] \in Int /\ g[i] = f[i]
      BY <1>3, <1>6, <1>9, <1>10
    <3> QED BY <3>1, SumSame
  <2>2. ASSUME NEW s PROVE SumFunctionOnSet(l, GoodsDone(s)) = SumFunctionOnSet(k, GoodsDone(s))
    <3>1. IsFiniteSet(GoodsDone(s)) /\ \A i \in GoodsDone(s) : k[i] \in Int /\ l[i] = k[i]
      BY <1>3, <1>6, <1>9, <1>10
    <3> QED BY <3>1, SumSame
  <2> QED BY <1>3, <2>1, <2>2
<1>12. ASSUME NEW p, NEW i \in OrderIds', i \notin CreditsDone(p), CreditsDone(p)' = CreditsDone(p) \cup {i}
       PROVE  CreditsPaidOut(p)' = CreditsPaidOut(p) + CreditBack(i)'
  <2>1. /\ IsFiniteSet(CreditsDone(p)) /\ g[i] = CreditBack(i)' /\ g[i] \in Int
        /\ \A j \in CreditsDone(p) \cup {i} : g[j] \in Int
    BY <1>3, <1>8, <1>9, <1>10
  <2>2. SumFunctionOnSet(g, CreditsDone(p) \cup {i}) = g[i] + SumFunctionOnSet(g, CreditsDone(p))
    BY <1>12, <2>1, SumAdd
  <2>3. SumFunctionOnSet(g, CreditsDone(p)) \in Int
    BY <2>1, SumType
  <2>4. CreditsPaidOut(p)' = SumFunctionOnSet(g, CreditsDone(p) \cup {i})
    BY <1>5, <1>12
  <2> QED BY <1>11, <2>1, <2>2, <2>3, <2>4
<1>13. ASSUME NEW s, NEW i \in OrderIds', i \notin GoodsDone(s), GoodsDone(s)' = GoodsDone(s) \cup {i}
       PROVE  GoodsPaidOut(s)' = GoodsPaidOut(s) + GoodsBack(i)'
  <2>1. /\ IsFiniteSet(GoodsDone(s)) /\ l[i] = GoodsBack(i)' /\ l[i] \in Int
        /\ \A j \in GoodsDone(s) \cup {i} : l[j] \in Int
    BY <1>3, <1>8, <1>9, <1>10
  <2>2. SumFunctionOnSet(l, GoodsDone(s) \cup {i}) = l[i] + SumFunctionOnSet(l, GoodsDone(s))
    BY <1>13, <2>1, SumAdd
  <2>3. SumFunctionOnSet(l, GoodsDone(s)) \in Int
    BY <2>1, SumType
  <2>4. GoodsPaidOut(s)' = SumFunctionOnSet(l, GoodsDone(s) \cup {i})
    BY <1>5, <1>13
  <2> QED BY <1>11, <2>1, <2>2, <2>3, <2>4
<1>14. /\ \A p : CreditsDone(p)' = CreditsDone(p) => CreditsPaidOut(p)' = CreditsPaidOut(p)
       /\ \A s : GoodsDone(s)' = GoodsDone(s) => GoodsPaidOut(s)' = GoodsPaidOut(s)
  BY <1>5, <1>11
<1> QED BY <1>12, <1>13, <1>14

-----------------------------------------------------------------------------
(* Every step is a step of the ledger, or none *)

\* The exchange alone: everybody is known and every station is there.
LEMMA Known ==
  ASSUME AtHome
  PROVE  (\A s \in Stations : Exists(s)) /\ registered = Players
  BY MarketAssumption DEF AtHome, Exists

\* Between a trade and the next only trades move anything.
LEMMA PlainAccounts ==
  ASSUME Alone, Settled, AtHome, [Next]_vars, Plain
  PROVE  Neutral \/ \E t \in Threads : \E i, r, p, n : Deal(t, i, r, p, n)
<1>1. Sound /\ TypeOK
  BY DEF Settled, Sound
<1>2. ASSUME NEW t \in Threads, NEW b \in Body, Validate(t, b) PROVE Neutral
  BY <1>2, PassAccounts
<1>3. CASE UNCHANGED vars
  BY <1>3, PassiveAccounts
<1>4. ASSUME NEW t \in Threads, Reserve(t) PROVE Neutral
  <2>1. handler[t].req \in Body
    BY <1>1, <1>4 DEF Reserve, At, Sound, HandlersSound
  <2>2. Exists(handler[t].req.station)
    BY <2>1, Known DEF Body
  <2> QED BY <1>4, <2>2, ReserveAccounts DEF Neutral
<1>5. ASSUME NEW t \in Threads, ReturnUnfilled(t) PROVE Neutral
  <2>1. handler[t].order \in OrderIds
    BY <1>1, <1>5 DEF ReturnUnfilled, At, Sound, HandlersSound
  <2>2. Exists(orders[handler[t].order].station)
    BY <1>1, <2>1, Known, OrderTypes, OrderFields
  <2> QED BY <1>5, <2>2, ReturnAccounts DEF Neutral
<1>6. ASSUME NEW t \in Threads, SettleCredits(t) PROVE Neutral
  BY <1>6, Known, SettleAccounts DEF Neutral
<1>7. ASSUME NEW t \in Threads, SpawnShip(t) PROVE Neutral
  <2>h. PICK h : h = handler[t]
    OBVIOUS
  <2>1. Well(h) /\ h.trades # <<>>
    BY <1>1, <1>7, <2>h, Wells DEF SpawnShip, At, Well
  <2>2. Proper(Head(h.trades))
    BY <2>1, WellTrades, TailOf
  <2>3. Exists(orders[Head(h.trades).buy].station)
    BY <1>1, <2>2, Known, OrderTypes, OrderFields DEF Proper
  <2> QED BY <1>7, <2>h, <2>3, SpawnAccounts DEF Neutral
<1>8. ASSUME NEW t \in Threads, Refuse(t) \/ Respond(t) PROVE Neutral
  BY <1>8, PassAccounts
<1>9. ASSUME NEW t \in Threads, Insert(t) \/ Rest(t) PROVE Neutral
  BY <1>9, InsertAccounts, RestAccounts
<1>10. ASSUME NEW t \in Threads, MatchBuy(t) \/ MatchSell(t) PROVE \E i, r, p, n : Deal(t, i, r, p, n)
  BY <1>1, <1>10, TradeDeals
<1>11. ASSUME NEW t \in Threads, Step(t) PROVE Neutral \/ \E i, r, p, n : Deal(t, i, r, p, n)
  BY <1>4, <1>5, <1>6, <1>7, <1>8, <1>9, <1>10, <1>11 DEF Step, Plain
<1> QED BY <1>2, <1>3, <1>11, HandlersOnly DEF Plain

\* Nothing more is paid out but at a cancellation or a refund.
LEMMA PlainPayments ==
  ASSUME Alone, Settled, AtHome, [Next]_vars, Plain
  PROVE  /\ \A p \in Players : CreditsPaidOut(p)' = CreditsPaidOut(p)
         /\ \A s \in Stations : GoodsPaidOut(s)' = GoodsPaidOut(s)
<1>1. /\ CancelledAfterFill' = CancelledAfterFill
      /\ \A i \in CancelledAfterFill : i \in OrderIds /\ i \in OrderIds' /\ orders'[i] = orders[i]
  BY AfterFillKept DEF Plain
<1>2. \A i : Refunding(i)' <=> Refunding(i)
  BY RefundingKept
<1>3. ASSUME NEW p PROVE CreditsDone(p)' = CreditsDone(p)
  <2>1. \A i : i \in CreditsDone(p)' <=> i \in CreditsDone(p)
    BY <1>1, <1>2 DEF CreditsDone, PlacedBy
  <2> QED BY <2>1 DEF CreditsDone
<1>4. ASSUME NEW s PROVE GoodsDone(s)' = GoodsDone(s)
  <2>1. \A i : i \in GoodsDone(s)' <=> i \in GoodsDone(s)
    BY <1>1 DEF GoodsDone, PlacedAt
  <2> QED BY <2>1 DEF GoodsDone
<1> QED BY <1>1, <1>3, <1>4, PaidOutGrows

\* What every account of the ledger is worth stays the same.
Still ==
  /\ \A p \in Players : Wealth(p)' - CreditsPaidOut(p)' = Wealth(p) - CreditsPaidOut(p)
  /\ \A s \in Stations : Goods(s)' = Goods(s) /\ GoodsPaidOut(s)' = GoodsPaidOut(s)

\* A refund of a market order is what it pays out; of a limit order, what was
\* reserved.
LEMMA RefundStill ==
  ASSUME Alone, Settled, AtHome, [Next]_vars, NEW t \in Threads, Refund(t)
  PROVE  Still
<1>i. PICK i : i = handler[t].order
  OBVIOUS
<1>1. /\ i \in OrderIds /\ handler'[t] = Idle /\ At(t, "refunding")
      /\ \A p \in Players : Wealth(p)' = Wealth(p)
           + (IF p = orders[i].player
              THEN (IF p \in registered THEN CreditBack(i) ELSE 0) - CreditsReturning(i) ELSE 0)
      /\ \A s \in Stations : Goods(s)' = Goods(s)
           - (IF s = orders[i].station /\ ~Exists(s) THEN GoodsBack(i) ELSE 0)
  BY <1>i, RefundAccounts
<1>2. /\ Sound /\ TypeOK
      /\ handler \in [Threads -> [pc : PCs, req : Body \cup {NoRequest}, order : 0..Len(orders),
                                  trades : Seq(TradeRecord)]]
  BY DEF Settled, Sound, TypeOK
<1>3. orders' = orders /\ \A u \in Threads \ {t} : handler'[u] = handler[u]
  BY <1>2 DEF Refund, Finish, market
<1>4. /\ orders[i].status = "cancelled" /\ (orders[i].type = "market" => orders[i].filled > 0)
      /\ \A u \in Threads \ {t} : At(u, "refunding") => handler[u].order # i
  BY <1>i, <1>1 DEF Settled, RefundsSound, Refunds
<1>5. \A j : Refunding(j)' <=> Refunding(j) /\ j # i
  BY <1>i, <1>1, <1>3, <1>4 DEF Refunding, At, Idle
<1>6. \A u \in Threads, j \in OrderIds : ~Cancel(u, j)
  <2> SUFFICES ASSUME NEW u \in Threads, NEW j \in OrderIds, Cancel(u, j) PROVE FALSE
    OBVIOUS
  <2>1. handler'[u].pc = "refunding"
    BY <1>2 DEF Cancel, Idle
  <2>2. handler[u].pc = "idle"
    BY DEF Cancel, At
  <2> QED BY <1>1, <1>3, <2>1, <2>2 DEF At, Idle
<1>7. /\ CancelledAfterFill' = CancelledAfterFill
      /\ \A j \in CancelledAfterFill : j \in OrderIds /\ j \in OrderIds' /\ orders'[j] = orders[j]
  BY <1>6, AfterFillKept
<1>8. \A s \in Stations : Goods(s)' = Goods(s) /\ GoodsPaidOut(s)' = GoodsPaidOut(s)
  <2>1. ASSUME NEW s PROVE GoodsDone(s)' = GoodsDone(s)
    <3>1. \A j : j \in GoodsDone(s)' <=> j \in GoodsDone(s)
      BY <1>7 DEF GoodsDone, PlacedAt
    <3> QED BY <3>1 DEF GoodsDone
  <2>2. \A s \in Stations : GoodsPaidOut(s)' = GoodsPaidOut(s)
    BY <1>7, <2>1, PaidOutGrows
  <2>3. \A s \in Stations : Goods(s) \in Int
    BY TotalTypes
  <2> QED BY <1>1, <2>2, <2>3, Known
<1>9. orders[i].player \in Players /\ orders[i].type \in {"limit", "market"} /\ CreditBack(i) \in Nat
  BY <1>1, <1>2, OrderTypes, OrderFields, BackTypes
<1>10. \A p \in Players : Wealth(p) \in Int /\ CreditsPaidOut(p) \in Nat
  BY <1>2, TotalTypes, PaidOutTypes
<1>11. \A j \in CancelledAfterFill : j \in OrderIds
  BY <1>7
<1>12. ASSUME NEW p \in Players, orders[i].type = "market", orders[i].player = p
       PROVE  Wealth(p)' - CreditsPaidOut(p)' = Wealth(p) - CreditsPaidOut(p)
  <2>1. i \in CancelledAfterFill
    BY <1>1, <1>4, <1>12 DEF CancelledAfterFill
  <2>2. \A j : j \in CreditsDone(p)' <=> j \in CreditsDone(p) \/ j = i
    BY <1>1, <1>3, <1>5, <1>7, <1>12, <2>1 DEF CreditsDone, PlacedBy
  <2>3. CreditsDone(p)' = CreditsDone(p) \cup {i}
    BY <2>2 DEF CreditsDone
  <2>4. i \notin CreditsDone(p)
    BY <1>i, <1>1 DEF CreditsDone, Refunding
  <2>5. CreditsPaidOut(p)' = CreditsPaidOut(p) + CreditBack(i)'
    BY <1>1, <1>7, <2>1, <2>3, <2>4, PaidOutGrows
  <2>6. CreditBack(i)' = CreditBack(i)
    BY <1>3 DEF CreditBack, Remaining
  <2>7. Wealth(p)' = Wealth(p) + CreditBack(i)
    BY <1>1, <1>9, <1>12, Known DEF CreditsReturning
  <2> QED BY <1>9, <1>10, <2>5, <2>6, <2>7
<1>13. ASSUME NEW p \in Players, orders[i].type = "limit" \/ orders[i].player # p
       PROVE  Wealth(p)' - CreditsPaidOut(p)' = Wealth(p) - CreditsPaidOut(p)
  <2>1. i \notin CancelledAfterFill \/ orders[i].player # p
    BY <1>13 DEF CancelledAfterFill
  <2>2. \A j : j \in CreditsDone(p)' <=> j \in CreditsDone(p)
    BY <1>1, <1>3, <1>5, <1>7, <2>1 DEF CreditsDone, PlacedBy
  <2>3. CreditsDone(p)' = CreditsDone(p)
    BY <2>2 DEF CreditsDone
  <2>4. CreditsPaidOut(p)' = CreditsPaidOut(p)
    BY <1>7, <2>3, PaidOutGrows
  <2>5. Wealth(p)' = Wealth(p)
    BY <1>1, <1>9, <1>10, <1>13, Known DEF CreditsReturning
  <2> QED BY <2>4, <2>5
<1>14. \A p \in Players : Wealth(p)' - CreditsPaidOut(p)' = Wealth(p) - CreditsPaidOut(p)
  BY <1>9, <1>12, <1>13
<1> QED BY <1>8, <1>14 DEF Still

\* How many units a trade may move.
LotSizes == UNION {1..n : n \in Quantities}

\* What a trade or a cancellation moves is a lot.
LEMMA LotOfOrder ==
  ASSUME TypeOK, NEW i \in OrderIds, NEW n \in Nat \ {0}, n <= Remaining(orders[i])
  PROVE  n \in LotSizes
<1>1. orders[i].quantity \in Quantities /\ Remaining(orders[i]) <= orders[i].quantity
  BY OrderTypes DEF OrderRecord
<1>2. orders[i].quantity \in Nat /\ Remaining(orders[i]) \in Nat
  BY <1>1, OrderTypes, MarketAssumption
<1>3. n \in 1..orders[i].quantity
  BY <1>1, <1>2
<1> QED BY <1>1, <1>3 DEF LotSizes

\* A cancellation gives the goods of a market sell to its station a second time.
GivesTwice(s) ==
  \E n \in LotSizes :
    /\ GoodsPaidOut(s)' = GoodsPaidOut(s) + n
    /\ \A r \in Stations : Goods(r)' - GoodsPaidOut(r)' = Goods(r) - GoodsPaidOut(r)
    /\ \A r \in Stations \ {s} : GoodsPaidOut(r)' = GoodsPaidOut(r)
    /\ \A p \in Players : Wealth(p)' - CreditsPaidOut(p)' = Wealth(p) - CreditsPaidOut(p)

\* A trade moves a lot between two stations, and its price between their owners.
Trades(buyer, seller) ==
  \E n \in LotSizes, price \in Prices :
    /\ buyer # seller /\ n \in Nat
    /\ Goods(seller) >= n
    /\ \A r \in Stations : GoodsPaidOut(r)' = GoodsPaidOut(r)
    /\ \A r \in Stations : Goods(r)' = Goods(r) + (IF r = buyer THEN n ELSE 0) - (IF r = seller THEN n ELSE 0)
    /\ \A p \in Players : CreditsPaidOut(p)' = CreditsPaidOut(p)
    /\ \A p \in Players : Wealth(p)' = Wealth(p) + (IF p = Owner[seller] THEN n * price ELSE 0)
                                                 - (IF p = Owner[buyer] THEN n * price ELSE 0)

\* Cancelling an order changes no account of the ledger, or gives goods twice.
LEMMA CancelMoves ==
  ASSUME Alone, Settled, AtHome, [Next]_vars, NEW t \in Threads, NEW i \in OrderIds, Cancel(t, i)
  PROVE  Still \/ \E s \in Stations : GivesTwice(s)
<1>1. /\ Sound /\ TypeOK /\ OrdersSound
      /\ handler \in [Threads -> [pc : PCs, req : Body \cup {NoRequest}, order : 0..Len(orders),
                                  trades : Seq(TradeRecord)]]
  BY DEF Settled, Sound, TypeOK
<1>2. /\ \A p \in Players : Wealth(p)' = Wealth(p)
      /\ \A s \in Stations : Goods(s)' = Goods(s)
           + (IF s = orders[i].station /\ orders[i].type = "market" THEN GoodsBack(i) ELSE 0)
      /\ GoodsBack(i) \in Nat /\ orders'[i].status = "cancelled"
  BY CancelAccounts
<1>3. /\ \A u \in Threads \ {t} : handler'[u] = handler[u]
      /\ handler'[t].pc = "refunding" /\ handler'[t].order = i /\ handler[t].pc = "idle"
  <2>1. handler'[t] = [pc |-> "refunding", req |-> NoRequest, order |-> i, trades |-> <<>>]
    BY <1>1 DEF Cancel, Idle
  <2>2. \A u \in Threads \ {t} : handler'[u] = handler[u]
    BY <1>1 DEF Cancel
  <2> QED BY <2>1, <2>2 DEF Cancel, At
<1>4. Cancellable(orders[i]) /\ \A j : ~Matching(j)
  BY <1>1, MatchingOne, MarketAssumption DEF Cancel, Sound, LockSound
<1>5. /\ Len(orders') = Len(orders)
      /\ \A j \in OrderIds \ {i} : orders'[j] = orders[j]
      /\ SameOrder(orders'[i], orders[i]) /\ orders'[i].filled = orders[i].filled
      /\ orders'[i].status = "cancelled"
  BY <1>1, <1>4, CancelledOrders DEF Cancel
<1>6. OrderIds' = OrderIds /\ i \notin CancelledAfterFill
  BY <1>4, <1>5 DEF OrderIds, CancelledAfterFill, Cancellable
<1>7. orders[i].type = "market" => orders[i].filled > 0
  BY <1>4 DEF Settled, MarketOnce
<1>8. \A j : j \in CancelledAfterFill' <=> j \in CancelledAfterFill \/ (j = i /\ orders[i].type = "market")
  <2>1. ASSUME NEW j, j # i PROVE j \in CancelledAfterFill' <=> j \in CancelledAfterFill
    BY <1>5, <1>6, <2>1 DEF CancelledAfterFill
  <2>2. i \in CancelledAfterFill' <=> orders[i].type = "market"
    <3>1. orders'[i].type = orders[i].type
      BY <1>5 DEF SameOrder
    <3>2. i \in CancelledAfterFill' <=> /\ i \in OrderIds' /\ orders'[i].type = "market"
                                       /\ orders'[i].status = "cancelled" /\ orders'[i].filled > 0
      BY DEF CancelledAfterFill
    <3> QED BY <1>5, <1>6, <1>7, <3>1, <3>2
  <2> QED BY <1>6, <2>1, <2>2
<1>9. \A j \in CancelledAfterFill : j \in OrderIds /\ j \in OrderIds' /\ orders'[j] = orders[j]
  BY <1>5, <1>6 DEF CancelledAfterFill
<1>10. \A j : Refunding(j)' <=> Refunding(j) \/ j = i
  BY <1>3 DEF Refunding, At
<1>11. \A p \in Players : CreditsPaidOut(p)' = CreditsPaidOut(p)
  <2>1. ASSUME NEW p PROVE CreditsDone(p)' = CreditsDone(p)
    <3>1. ASSUME NEW j PROVE j \in CreditsDone(p)' <=> j \in CreditsDone(p)
      <4>1. CASE j = i
        BY <1>6, <1>10, <4>1 DEF CreditsDone
      <4>2. CASE j \notin CancelledAfterFill /\ j # i
        BY <1>8, <4>2 DEF CreditsDone
      <4>3. CASE j \in CancelledAfterFill /\ j # i
        <5>1. orders'[j] = orders[j] /\ j \in OrderIds /\ j \in OrderIds' /\ j \in CancelledAfterFill'
          BY <1>8, <1>9, <4>3
        <5>2. Refunding(j)' <=> Refunding(j)
          BY <1>10, <4>3
        <5> QED BY <4>3, <5>1, <5>2 DEF CreditsDone, PlacedBy
      <4> QED BY <4>1, <4>2, <4>3
    <3> QED BY <3>1 DEF CreditsDone
  <2> QED BY <1>9, <2>1, PaidOutGrows
<1>12. orders[i].station \in Stations /\ orders[i].type \in {"limit", "market"} /\ orders[i].side \in Sides
  BY <1>1, OrderTypes, OrderFields
<1>13. GoodsBack(i)' = GoodsBack(i)
  BY <1>5 DEF GoodsBack, SameOrder, Remaining
<1>14. ASSUME NEW s \in Stations
       PROVE  GoodsPaidOut(s)' = GoodsPaidOut(s)
                + (IF s = orders[i].station /\ orders[i].type = "market" THEN GoodsBack(i) ELSE 0)
  <2>1. CASE s = orders[i].station /\ orders[i].type = "market"
    <3>1. \A j : j \in GoodsDone(s)' <=> j \in GoodsDone(s) \/ j = i
      BY <1>5, <1>6, <1>8, <1>9, <2>1 DEF GoodsDone, PlacedAt, SameOrder
    <3>2. GoodsDone(s)' = GoodsDone(s) \cup {i}
      BY <3>1 DEF GoodsDone
    <3>3. i \notin GoodsDone(s)
      BY <1>6 DEF GoodsDone
    <3>4. GoodsPaidOut(s)' = GoodsPaidOut(s) + GoodsBack(i)'
      BY <1>6, <1>9, <3>2, <3>3, PaidOutGrows
    <3> QED BY <1>13, <2>1, <3>4
  <2>2. CASE ~(s = orders[i].station /\ orders[i].type = "market")
    <3>1. ASSUME NEW j PROVE j \in GoodsDone(s)' <=> j \in GoodsDone(s)
      <4>1. CASE j = i
        BY <1>5, <1>6, <1>8, <2>2, <4>1 DEF GoodsDone, PlacedAt, SameOrder
      <4>2. CASE j \notin CancelledAfterFill /\ j # i
        BY <1>8, <4>2 DEF GoodsDone
      <4>3. CASE j \in CancelledAfterFill /\ j # i
        <5>1. orders'[j] = orders[j] /\ j \in OrderIds /\ j \in OrderIds' /\ j \in CancelledAfterFill'
          BY <1>8, <1>9, <4>3
        <5> QED BY <4>3, <5>1 DEF GoodsDone, PlacedAt
      <4> QED BY <4>1, <4>2, <4>3
    <3>2. GoodsDone(s)' = GoodsDone(s)
      BY <3>1 DEF GoodsDone
    <3>3. GoodsPaidOut(s)' = GoodsPaidOut(s)
      BY <1>9, <3>2, PaidOutGrows
    <3>4. GoodsPaidOut(s) \in Nat
      BY <1>1, PaidOutTypes
    <3> QED BY <2>2, <3>3, <3>4
  <2> QED BY <2>1, <2>2
<1>15. \A s \in Stations : Goods(s) \in Int /\ GoodsPaidOut(s) \in Nat
  BY <1>1, TotalTypes, PaidOutTypes
<1>16. CASE orders[i].type = "market" /\ GoodsBack(i) # 0
  <2>1. GoodsBack(i) \in LotSizes
    <3>1. GoodsBack(i) = Remaining(orders[i])
      BY <1>16 DEF GoodsBack
    <3> QED BY <1>1, <1>2, <1>16, <3>1, LotOfOrder
  <2>s. PICK s : s = orders[i].station
    OBVIOUS
  <2>2. GivesTwice(s)
    <3>1. GoodsPaidOut(s)' = GoodsPaidOut(s) + GoodsBack(i)
      BY <1>12, <1>14, <1>16, <2>s
    <3>2. \A r \in Stations : Goods(r)' - GoodsPaidOut(r)' = Goods(r) - GoodsPaidOut(r)
      BY <1>2, <1>14, <1>15
    <3>3. \A r \in Stations \ {s} : GoodsPaidOut(r)' = GoodsPaidOut(r)
      BY <1>14, <1>15, <2>s
    <3> QED BY <1>2, <1>11, <2>1, <3>1, <3>2, <3>3 DEF GivesTwice
  <2> QED BY <1>12, <2>s, <2>2
<1>17. CASE ~(orders[i].type = "market" /\ GoodsBack(i) # 0)
  <2>1. \A s \in Stations : Goods(s)' = Goods(s) /\ GoodsPaidOut(s)' = GoodsPaidOut(s)
    BY <1>2, <1>14, <1>15, <1>17
  <2> QED BY <1>2, <1>11, <2>1 DEF Still
<1> QED BY <1>16, <1>17

\* A turn of the matching loop is a trade of the ledger, or, within one station, nothing.
LEMMA DealMoves ==
  ASSUME Alone, Settled, AtHome, [Next]_vars, Plain,
         NEW t \in Threads, NEW i, NEW r, NEW p, NEW n, Deal(t, i, r, p, n)
  PROVE  Still \/ \E b, k \in Stations : Trades(b, k)
<1>1. Sound /\ TypeOK
  BY DEF Settled, Sound
<1>tr. PICK tr : tr = Traded(i, r, p, n)
  OBVIOUS
<1>b. PICK b : b = tr.buy
  OBVIOUS
<1>k. PICK k : k = tr.sell
  OBVIOUS
<1>2. /\ i \in OrderIds /\ r \in OrderIds /\ p \in Prices /\ p \in Nat /\ n \in Nat \ {0}
      /\ n <= Remaining(orders[r]) /\ orders[r].side \in Sides
      /\ book[orders[r].side][p] # <<>> /\ r = Head(book[orders[r].side][p])
  BY MarketAssumption DEF Deal, Sides
<1>3. orders[r].type # "market"
  <2>1. book[orders[r].side][p] \in Seq(OrderIds) /\ Waiting(orders[r].side, p) = Ids(book[orders[r].side][p])
    BY <1>1, <1>2, WaitingTypes
  <2>2. r \in Waiting(orders[r].side, p)
    BY <1>2, <2>1, TailQueue
  <2>3. Resting(r)
    BY <1>1, <1>2, <2>2 DEF AtHome, Sound, BookAgrees
  <2> QED BY <2>3 DEF Resting
<1>4. /\ b \in OrderIds /\ k \in OrderIds
      /\ \A q \in Players : Wealth(q)' = Wealth(q)
           + (IF q = orders[k].player THEN p * n ELSE 0)
           - (IF q = orders[b].player THEN p * n ELSE 0)
      /\ \A s \in Stations : Goods(s)' = Goods(s)
           + (IF s = orders[b].station THEN n ELSE 0)
           - (IF s = orders[k].station THEN n ELSE 0)
  BY <1>tr, <1>b, <1>k, <1>3, DealAccounts
<1>buyer. PICK buyer : buyer = orders[b].station
  OBVIOUS
<1>seller. PICK seller : seller = orders[k].station
  OBVIOUS
<1>5. buyer \in Stations /\ seller \in Stations
  BY <1>1, <1>4, <1>buyer, <1>seller, OrderTypes, OrderFields
<1>6. orders[b].player = Owner[buyer] /\ orders[k].player = Owner[seller]
  BY <1>4, <1>buyer, <1>seller DEF AtHome
<1>7. n \in LotSizes
  BY <1>1, <1>2, LotOfOrder
<1>8. /\ \A q \in Players : CreditsPaidOut(q)' = CreditsPaidOut(q)
      /\ \A s \in Stations : GoodsPaidOut(s)' = GoodsPaidOut(s)
  BY PlainPayments
<1>9. /\ \A q \in Players : Wealth(q) \in Int
      /\ \A s \in Stations : Goods(s) \in Int
  BY TotalTypes
<1>10. p * n \in Nat /\ n * p = p * n
  BY <1>2
<1>11. CASE buyer = seller
  <2>1. \A q \in Players : Wealth(q)' = Wealth(q)
    BY <1>4, <1>6, <1>9, <1>10, <1>11
  <2>2. \A s \in Stations : Goods(s)' = Goods(s)
    <3>1. orders[b].station = orders[k].station
      BY <1>11, <1>buyer, <1>seller
    <3> QED BY <1>2, <1>4, <1>9, <3>1
  <2> QED BY <1>8, <2>1, <2>2 DEF Still
<1>12. CASE buyer # seller
  <2>1. Goods(seller) >= n
    <3>1. Goods(seller)' = Goods(seller) - n /\ Goods(seller) \in Int
      BY <1>2, <1>4, <1>5, <1>9, <1>12, <1>buyer, <1>seller
    <3>2. /\ Goods(seller)' = stock'[seller] + Incoming(seller)' + OrderGoods(seller)' + HandlerGoods(seller)'
          /\ stock'[seller] \in Nat /\ Incoming(seller)' \in Nat
          /\ OrderGoods(seller)' \in Nat /\ HandlerGoods(seller)' \in Nat
      BY <1>5, WealthNext
    <3>3. Goods(seller)' >= 0
      BY <3>2
    <3> QED BY <1>2, <3>1, <3>3
  <2>2. \A r0 \in Stations : Goods(r0)' = Goods(r0) + (IF r0 = buyer THEN n ELSE 0) - (IF r0 = seller THEN n ELSE 0)
    BY <1>4, <1>buyer, <1>seller
  <2>3. \A q \in Players : Wealth(q)' = Wealth(q) + (IF q = Owner[seller] THEN n * p ELSE 0)
                                                  - (IF q = Owner[buyer] THEN n * p ELSE 0)
    BY <1>4, <1>6, <1>10
  <2>4. Trades(buyer, seller)
    BY <1>2, <1>7, <1>8, <1>12, <2>1, <2>2, <2>3 DEF Trades
  <2> QED BY <1>5, <2>4
<1> QED BY <1>11, <1>12

\* Accounts that stay the same are a stutter of the ledger.
LEMMA StillMaps ==
  ASSUME Still
  PROVE  UNCHANGED <<[p \in Players |-> Wealth(p) - CreditsPaidOut(p)],
                     [s \in Stations |-> Goods(s) - GoodsPaidOut(s)],
                     [s \in Stations |-> GoodsPaidOut(s)]>>
  BY DEF Still

\* Goods given twice are that step of the ledger.
LEMMA GivesMaps ==
  ASSUME NEW s \in Stations, GivesTwice(s), \A r \in Stations : GoodsPaidOut(r) \in Nat
  PROVE  Exchange!GiveTwice(s)
<1>1. PICK n \in LotSizes :
        /\ GoodsPaidOut(s)' = GoodsPaidOut(s) + n
        /\ \A r \in Stations : Goods(r)' - GoodsPaidOut(r)' = Goods(r) - GoodsPaidOut(r)
        /\ \A r \in Stations \ {s} : GoodsPaidOut(r)' = GoodsPaidOut(r)
        /\ \A p \in Players : Wealth(p)' - CreditsPaidOut(p)' = Wealth(p) - CreditsPaidOut(p)
  BY DEF GivesTwice
<1>2. [r \in Stations |-> GoodsPaidOut(r)']
        = [[r \in Stations |-> GoodsPaidOut(r)] EXCEPT ![s] = @ + n]
  BY <1>1
<1>3. /\ [p \in Players |-> Wealth(p)' - CreditsPaidOut(p)'] = [p \in Players |-> Wealth(p) - CreditsPaidOut(p)]
      /\ [r \in Stations |-> Goods(r)' - GoodsPaidOut(r)'] = [r \in Stations |-> Goods(r) - GoodsPaidOut(r)]
  BY <1>1
<1> QED BY <1>1, <1>2, <1>3 DEF Exchange!GiveTwice, LotSizes

\* A trade is a trade of the ledger.
LEMMA TradesMap ==
  ASSUME NEW b \in Stations, NEW k \in Stations, Trades(b, k),
         \A r \in Stations : Goods(r) \in Int /\ GoodsPaidOut(r) \in Nat,
         \A p \in Players : Wealth(p) \in Int /\ CreditsPaidOut(p) \in Nat
  PROVE  Exchange!Trade(b, k)
<1>1. PICK n \in LotSizes, price \in Prices :
        /\ b # k /\ n \in Nat
        /\ Goods(k) >= n
        /\ \A r \in Stations : GoodsPaidOut(r)' = GoodsPaidOut(r)
        /\ \A r \in Stations : Goods(r)' = Goods(r) + (IF r = b THEN n ELSE 0) - (IF r = k THEN n ELSE 0)
        /\ \A p \in Players : CreditsPaidOut(p)' = CreditsPaidOut(p)
        /\ \A p \in Players : Wealth(p)' = Wealth(p) + (IF p = Owner[k] THEN n * price ELSE 0)
                                                     - (IF p = Owner[b] THEN n * price ELSE 0)
  BY DEF Trades
<1> DEFINE goods == [r \in Stations |-> Goods(r) - GoodsPaidOut(r)]
           goodsNext == [r \in Stations |-> Goods(r)' - GoodsPaidOut(r)']
           wealth == [p \in Players |-> Wealth(p) - CreditsPaidOut(p)]
           wealthNext == [p \in Players |-> Wealth(p)' - CreditsPaidOut(p)']
           surplus == [r \in Stations |-> GoodsPaidOut(r)]
           surplusNext == [r \in Stations |-> GoodsPaidOut(r)']
<1>2. \A r \in Stations : /\ goods[r] \in Int
                          /\ goodsNext[r] = goods[r] + (IF r = b THEN n ELSE 0) - (IF r = k THEN n ELSE 0)
  BY <1>1
<1>3. n * price \in Nat
  BY <1>1, MarketAssumption
<1>4. goodsNext[b] - goods[b] = n
  <2> HIDE DEF goods, goodsNext
  <2>1. goodsNext[b] = goods[b] + n /\ goods[b] \in Int
    BY <1>1, <1>2
  <2> QED BY <1>1, <2>1
<1>5. goodsNext = [goods EXCEPT ![b] = @ + n, ![k] = @ - n]
  <2>1. /\ goodsNext = [r \in Stations |-> goodsNext[r]]
        /\ goods = [r \in Stations |-> goods[r]]
    OBVIOUS
  <2> HIDE DEF goods, goodsNext
  <2> QED BY <1>1, <1>2, <2>1
<1>6. wealthNext = [p \in Players |-> wealth[p] + (IF p = Owner[k] THEN n * price ELSE 0)
                                                - (IF p = Owner[b] THEN n * price ELSE 0)]
  BY <1>1, <1>3
<1>7. goods[k] + surplus[k] >= n /\ surplusNext = surplus
  BY <1>1
<1>8. \E q \in Prices : wealthNext = [p \in Players |-> wealth[p] + (IF p = Owner[k] THEN n * q ELSE 0)
                                                                - (IF p = Owner[b] THEN n * q ELSE 0)]
  BY <1>1, <1>6
<1>9. n \in UNION {1..m : m \in Quantities}
  BY <1>1 DEF LotSizes
<1> HIDE DEF goods, goodsNext, wealth, wealthNext, surplus, surplusNext
<1>10. /\ b # k /\ goodsNext[b] - goods[b] \in UNION {1..m : m \in Quantities}
       /\ goods[k] + surplus[k] >= goodsNext[b] - goods[b]
       /\ goodsNext = [goods EXCEPT ![b] = @ + (goodsNext[b] - goods[b]), ![k] = @ - (goodsNext[b] - goods[b])]
       /\ \E q \in Prices : wealthNext = [p \in Players |->
            wealth[p] + (IF p = Owner[k] THEN (goodsNext[b] - goods[b]) * q ELSE 0)
                      - (IF p = Owner[b] THEN (goodsNext[b] - goods[b]) * q ELSE 0)]
       /\ surplusNext = surplus
  BY ZenonT(60), <1>1, <1>4, <1>5, <1>7, <1>8, <1>9
<1> QED BY <1>10 DEF Exchange!Trade, goods, goodsNext, wealth, wealthNext, surplus, surplusNext

\* The ledger of the start.
LEMMA StartMaps == Init => Exchange!Init
<1> SUFFICES ASSUME Init PROVE Exchange!Init
  OBVIOUS
<1>1. Settled /\ Sound
  BY SettledInit DEF Settled
<1>2. OrderIds = {} /\ \A t \in Threads : handler[t] = Idle
  BY DEF Init, OrderIds
<1>3. /\ \A p \in Players : credits[p] = InitCredits
      /\ \A s \in Stations : stock[s] = InitStock
      /\ \A r, s \in Stations : aboard[r][s] = 0
  BY DEF Init
<1>4. /\ \A p : OrderCredits(p) = 0
      /\ \A s : OrderGoods(s) = 0
  <2>1. IsFiniteSet(OrderIds)
    BY <1>2, FS_EmptySet
  <2> QED BY <1>2, <2>1, SumZero DEF OrderCredits, OrderGoods
<1>5. /\ \A p : HandlerCredits(p) = 0
      /\ \A s : HandlerGoods(s) = 0
  <2>1. \A t \in Threads : (\A p : CreditsHeld(t, p) = 0) /\ (\A s : GoodsHeld(t, s) = 0)
    BY <1>2, HeldIs, IdleHolds
  <2>2. ASSUME NEW p PROVE HandlerCredits(p) = 0
    <3> DEFINE f == [t \in Threads |-> CreditsHeld(t, p)]
    <3>1. \A t \in Threads : f[t] = 0
      BY <2>1
    <3> HIDE DEF f
    <3>2. SumFunctionOnSet(f, Threads) = 0
      BY <3>1, SumZero, MarketAssumption
    <3> QED BY <3>2 DEF HandlerCredits, f
  <2>3. ASSUME NEW s PROVE HandlerGoods(s) = 0
    <3> DEFINE f == [t \in Threads |-> GoodsHeld(t, s)]
    <3>1. \A t \in Threads : f[t] = 0
      BY <2>1
    <3> HIDE DEF f
    <3>2. SumFunctionOnSet(f, Threads) = 0
      BY <3>1, SumZero, MarketAssumption
    <3> QED BY <3>2 DEF HandlerGoods, f
  <2> QED BY <2>2, <2>3
<1>6. \A s \in Stations : Incoming(s) = 0
  <2> SUFFICES ASSUME NEW s \in Stations PROVE Incoming(s) = 0
    OBVIOUS
  <2> DEFINE f == [r \in Stations |-> aboard[r][s]]
  <2>1. \A r \in Stations : f[r] = 0
    BY <1>3
  <2> HIDE DEF f
  <2>2. SumFunctionOnSet(f, Stations) = 0
    BY <2>1, SumZero, MarketAssumption
  <2> QED BY <2>2 DEF Incoming, f
<1>7. /\ \A p : CreditsPaidOut(p) = 0
      /\ \A s : GoodsPaidOut(s) = 0
  <2>1. /\ \A p : CreditsDone(p) = {} /\ IsFiniteSet(CreditsDone(p))
        /\ \A s : GoodsDone(s) = {} /\ IsFiniteSet(GoodsDone(s))
    BY <1>1, <1>2, PaidOutTypes
  <2>2. /\ \A p : SumFunctionOnSet([i \in OrderIds |-> CreditBack(i)], CreditsDone(p)) = 0
        /\ \A s : SumFunctionOnSet([i \in OrderIds |-> GoodsBack(i)], GoodsDone(s)) = 0
    BY <2>1, SumZero
  <2> QED BY <1>1, <2>2, PaidOutTypes
<1>8. \A p \in Players : Wealth(p) = InitCredits
  BY <1>1, <1>3, <1>4, <1>5, WealthIs, MarketAssumption
<1>9. \A s \in Stations : Goods(s) = InitStock
  BY <1>1, <1>3, <1>4, <1>5, <1>6, WealthIs, MarketAssumption
<1>10. InitCredits \in Nat /\ InitStock \in Nat
  BY MarketAssumption
<1> QED BY <1>7, <1>8, <1>9, <1>10 DEF Exchange!Init

\* Every step maps to a step of the ledger, or to none.
LEMMA StepMaps ==
  Alone /\ Settled /\ AtHome /\ [Next]_vars =>
    [Exchange!Next]_<<[p \in Players |-> Wealth(p) - CreditsPaidOut(p)],
                     [s \in Stations |-> Goods(s) - GoodsPaidOut(s)],
                     [s \in Stations |-> GoodsPaidOut(s)]>>
<1> SUFFICES ASSUME Alone, Settled, AtHome, [Next]_vars
    PROVE  [Exchange!Next]_<<[p \in Players |-> Wealth(p) - CreditsPaidOut(p)],
                            [s \in Stations |-> Goods(s) - GoodsPaidOut(s)],
                            [s \in Stations |-> GoodsPaidOut(s)]>>
  OBVIOUS
<1>1. /\ \A p \in Players : Wealth(p) \in Int /\ CreditsPaidOut(p) \in Nat
      /\ \A s \in Stations : Goods(s) \in Int /\ GoodsPaidOut(s) \in Nat
  BY TotalTypes, PaidOutTypes DEF Settled
<1>2. CASE Still
  BY <1>2, StillMaps
<1>3. ASSUME NEW s \in Stations, GivesTwice(s) PROVE Exchange!Next
  BY <1>1, <1>3, GivesMaps DEF Exchange!Next
<1>4. ASSUME NEW b \in Stations, NEW k \in Stations, Trades(b, k) PROVE Exchange!Next
  BY <1>1, <1>4, TradesMap DEF Exchange!Next
<1>5. Still \/ (\E s \in Stations : GivesTwice(s)) \/ (\E b, k \in Stations : Trades(b, k))
  <2>1. CASE \E t \in Threads : Refund(t)
    BY <2>1, RefundStill
  <2>2. CASE \E t \in Threads, i \in OrderIds : Cancel(t, i)
    BY <2>2, CancelMoves
  <2>3. CASE Plain
    <3>1. CASE Neutral
      <4>1. /\ \A p \in Players : CreditsPaidOut(p)' = CreditsPaidOut(p)
            /\ \A s \in Stations : GoodsPaidOut(s)' = GoodsPaidOut(s)
        BY <2>3, PlainPayments
      <4> QED BY <3>1, <4>1 DEF Neutral, Still
    <3>2. CASE \E t \in Threads : \E i, r, p, n : Deal(t, i, r, p, n)
      BY <2>3, <3>2, DealMoves
    <3> QED BY <2>3, <3>1, <3>2, PlainAccounts
  <2> QED BY <2>1, <2>2, <2>3 DEF Plain
<1> QED BY <1>2, <1>3, <1>4, <1>5

\* The exchange implements the ledger: however handlers interleave, each player and
\* each station gains and loses by whole trades and nothing else, save what
\* cancelling a partially filled market order pays out, as long as the admin
\* removes nothing and the server does not restart.
THEOREM ExchangeCorrect ==
  ASSUME Removable = {}, Deletable = {}, MaxRestarts = 0
  PROVE  Spec => ImplementsLedger
<1>1. Alone
  BY DEF Alone
<1>2. Init => AtHome
  BY <1>1, AtHomeInit
<1>3. Settled /\ AtHome /\ [Next]_vars => AtHome'
  BY <1>1, AtHomeStep
<1>4. Settled /\ AtHome /\ [Next]_vars =>
        [Exchange!Next]_<<[p \in Players |-> Wealth(p) - CreditsPaidOut(p)],
                         [s \in Stations |-> Goods(s) - GoodsPaidOut(s)],
                         [s \in Stations |-> GoodsPaidOut(s)]>>
  BY <1>1, StepMaps
<1> QED BY <1>2, <1>3, <1>4, StartMaps, SettledAlways, PTL DEF Spec, ImplementsLedger, Exchange!Spec
=============================================================================
