------------------------------- MODULE Market -------------------------------
(***************************************************************************)
(* The commodity exchange: the matching engine of src/market.rs and the    *)
(* two handlers of src/routes/market.rs that feed it, POST /market/orders  *)
(* and DELETE /market/orders/{id}.                                         *)
(*                                                                         *)
(* A handler is a thread that takes one lock at a time (players, galaxy,   *)
(* market); every critical section is an action here, so other handlers    *)
(* run between any two of them.  Only the matching loop keeps its lock     *)
(* over several actions: marketLock is the holder of market.write().       *)
(*                                                                         *)
(* The admin may remove a station (src/routes/stations.rs) or delete a     *)
(* player (src/routes/players.rs), both of which cancel orders in many     *)
(* sections, and the server may restart from a snapshot, which rebuilds    *)
(* the books (src/persistence.rs).                                         *)
(*                                                                         *)
(* Books of different goods share nothing, so there is one good.  UUIDs of *)
(* orders are positions in the sequence orders: orders are only ever       *)
(* appended (MarketState::orders never loses a key).  Ships are abstracted *)
(* to the goods aboard them, whose voyage is module Ships.                 *)
(***************************************************************************)
EXTENDS Integers, Sequences, FiniteSets, Functions

CONSTANTS
  Players,      \* accounts that may trade
  Stations,     \* connected stations
  Owner,        \* [Stations -> Players]: station.owner_id at the start
  Threads,      \* concurrent request handlers
  Prices,       \* limit prices a request may name
  Quantities,   \* quantities a request may name (validated: at least 1)
  MarketPrices, \* what a market order may carry in its price field
  NoPrice,      \* Option::None in that field
  NoRequest,    \* a handler without a request body
  NoThread,     \* nobody holds market.write()
  Nobody,       \* the owner of a station whose owner was deleted
  NoStation,    \* in place of an owner: the station is gone
  Removable,    \* stations the admin may remove
  Deletable,    \* players the admin may delete
  MaxRestarts,  \* bound on the number of restarts
  InitCredits,  \* credits of every player at the start
  InitStock,    \* units of the good in every station at the start
  MaxOrders     \* bound on the number of orders ever placed

ASSUME MarketAssumption ==
  /\ IsFiniteSet(Players) /\ IsFiniteSet(Stations) /\ IsFiniteSet(Threads)
  /\ Owner \in [Stations -> Players]
  /\ Prices \subseteq Nat /\ IsFiniteSet(Prices)
  /\ Quantities \subseteq Nat \ {0}
  /\ NoPrice \notin Prices
  /\ MarketPrices \subseteq Prices \cup {NoPrice}
  /\ NoThread \notin Threads /\ "admin" \notin Threads \cup {NoThread}
  /\ Nobody \notin Players /\ NoStation \notin Players \cup {Nobody}
  /\ Removable \subseteq Stations /\ Deletable \subseteq Players
  /\ MaxRestarts \in Nat
  /\ InitCredits \in Nat /\ InitStock \in Nat /\ MaxOrders \in Nat

VARIABLES
  orders,     \* MarketState::orders, by order number
  book,       \* OrderBook: side -> price -> queue of order numbers
  lastPrice,  \* MarketState::last_prices of the good
  marketLock, \* who is inside market.write(): a thread, "admin", NoThread
  credits,    \* player.credits
  registered, \* the keys of AppState::players
  owner,      \* station.owner_id of each station
  stock,      \* station.inventory of the good
  aboard,     \* goods that left on trade ships, by origin and destination
  handler,    \* what each request handler is doing
  admin,      \* what the handler of the admin's request is doing
  restarts    \* restarts so far

market == <<orders, book, lastPrice, marketLock>>
accounts == <<credits, registered>>
stations == <<owner, stock, aboard>>
server == <<handler, admin, restarts>>
vars == <<market, accounts, stations, server>>

-----------------------------------------------------------------------------
(* Orders *)

Sides    == {"buy", "sell"}
Statuses == {"open", "partially_filled", "filled", "cancelled"}

\* A request body: limit orders must have a price, market orders may.
Body == [player : Players, station : Stations, side : Sides, type : {"limit"},
         price : Prices, quantity : Quantities]
        \cup
        [player : Players, station : Stations, side : Sides, type : {"market"},
         price : MarketPrices, quantity : Quantities]

NewOrder(b) ==
  [player |-> b.player, station |-> b.station, side |-> b.side,
   type |-> b.type, price |-> b.price, quantity |-> b.quantity,
   filled |-> 0, status |-> "open"]

Remaining(o) == o.quantity - o.filled

Cancellable(o) == o.status \in {"open", "partially_filled"}

\* The order after n more of its units have traded.
Fill(o, n) ==
  [o EXCEPT !.filled = @ + n,
            !.status = IF o.filled + n = o.quantity THEN "filled"
                                                    ELSE "partially_filled"]

OrderIds == 1..Len(orders)

-----------------------------------------------------------------------------
(* The book *)

\* Mutant: any waiting ask will do.
SomeAsk(p) == p \in Prices /\ book["sell"][p] # <<>>

BestAsk(p) == /\ p \in Prices /\ book["sell"][p] # <<>>
              /\ \A q \in Prices : book["sell"][q] # <<>> => p <= q

BestBid(p) == /\ p \in Prices /\ book["buy"][p] # <<>>
              /\ \A q \in Prices : book["buy"][q] # <<>> => p >= q

\* Mutants: the loop does not stop when the order is filled; an equal price is
\* no match; a limit seller's price is not compared.
MatchesFilled(o, p) ==
  \/ o.side = "buy"  /\ BestAsk(p) /\ (o.type = "limit" => p <= o.price)
  \/ o.side = "sell" /\ BestBid(p) /\ (o.type = "limit" => p >= o.price)
MatchesStrictly(o, p) ==
  /\ Remaining(o) > 0
  /\ \/ o.side = "buy"  /\ BestAsk(p) /\ (o.type = "limit" => p < o.price)
     \/ o.side = "sell" /\ BestBid(p) /\ (o.type = "limit" => p > o.price)
MatchesAnyBid(o, p) ==
  /\ Remaining(o) > 0
  /\ \/ o.side = "buy"  /\ BestAsk(p) /\ (o.type = "limit" => p <= o.price)
     \/ o.side = "sell" /\ BestBid(p)

\* The price level the incoming order o trades with next, if there is one.
MatchesAt(o, p) ==
  /\ Remaining(o) > 0
  /\ \/ o.side = "buy"  /\ BestAsk(p) /\ (o.type = "limit" => p <= o.price)
     \/ o.side = "sell" /\ BestBid(p) /\ (o.type = "limit" => p >= o.price)

\* Vec::retain and its kin: the entries of a queue that are in a set, in order.
Retained(queue, ids) ==
  LET kept[n \in 0..Len(queue)] ==
        IF n = 0 THEN <<>>
        ELSE IF queue[n] \in ids THEN Append(kept[n - 1], queue[n]) ELSE kept[n - 1]
  IN  kept[Len(queue)]

\* Mutant: cancelled orders stay in their queues.
WithoutNone(ids) == book

\* The queues of the cancelled orders retain the others; a market order that
\* carries a price is looked for at that price.
Without(ids) ==
  [s \in Sides |-> [p \in Prices |-> Retained(book[s][p], OrderIds \ ids)]]

\* cancel_order of every order in ids.
Cancelled(ids) ==
  [i \in OrderIds |-> IF i \in ids THEN [orders[i] EXCEPT !.status = "cancelled"]
                                   ELSE orders[i]]

CancelOrders(ids) == orders' = Cancelled(ids) /\ book' = Without(ids)

-----------------------------------------------------------------------------
Idle == [pc |-> "idle", req |-> NoRequest, order |-> 0, trades |-> <<>>]
AdminIdle == [pc |-> "idle", refunds |-> {}]

Init ==
  /\ orders = <<>>
  /\ book = [s \in Sides |-> [p \in Prices |-> <<>>]]
  /\ lastPrice = NoPrice
  /\ marketLock = NoThread
  /\ credits = [p \in Players |-> InitCredits]
  /\ registered = Players
  /\ owner = Owner
  /\ stock = [s \in Stations |-> InitStock]
  /\ aboard = [from \in Stations |-> [to \in Stations |-> 0]]
  /\ handler = [t \in Threads |-> Idle]
  /\ admin = AdminIdle
  /\ restarts = 0

At(t, pc) == handler[t].pc = pc
Goto(t, pc) == handler' = [handler EXCEPT ![t].pc = pc]
Finish(t) == handler' = [handler EXCEPT ![t] = Idle]

Exists(s) == owner[s] # NoStation

\* if let Some(player) = players.get_mut(p): credits of nobody are dropped.
Credited(p, n) == [credits EXCEPT ![p] = IF p \in registered THEN @ + n ELSE @]

\* if let Connected { station, .. }: goods for a station that is gone are, too.
Stocked(s, n) == [stock EXCEPT ![s] = IF Exists(s) THEN @ + n ELSE @]

-----------------------------------------------------------------------------
(* POST /market/orders *)

InFlight == {t \in Threads : handler[t].pc \in {"validated", "reserved"}}

\* The station is looked at under galaxy.read().
Validate(t, b) ==
  /\ At(t, "idle")
  /\ Len(orders) + Cardinality(InFlight) < MaxOrders
  /\ owner[b.station] = b.player
  /\ handler' = [handler EXCEPT ![t] = [Idle EXCEPT !.pc = "validated", !.req = b]]
  /\ UNCHANGED <<market, accounts, stations, admin, restarts>>

Covered(b) ==
  CASE b.side = "buy" /\ b.type = "limit" ->
         b.player \in registered /\ credits[b.player] >= b.price * b.quantity
    [] b.side = "sell" /\ Exists(b.station) -> stock[b.station] >= b.quantity
    [] OTHER -> TRUE

\* The reservation at placement: credits for a limit buy, goods for any sell,
\* nothing for a market buy.  If the station has gone since the check nothing
\* is deducted for a sell, and the order is placed all the same.
Reserve(t) ==
  LET b == handler[t].req
  IN  /\ At(t, "validated")
      /\ Covered(b)
      /\ \/ /\ b.side = "buy" /\ b.type = "limit"
            /\ credits' = [credits EXCEPT ![b.player] = @ - b.price * b.quantity]
            /\ UNCHANGED stock
         \/ /\ b.side = "buy" /\ b.type = "market"
            /\ UNCHANGED <<credits, stock>>
         \/ /\ b.side = "sell"
            /\ stock' = Stocked(b.station, -b.quantity)
            /\ UNCHANGED credits
      /\ Goto(t, "reserved")
      /\ UNCHANGED <<market, registered, owner, aboard, admin, restarts>>

\* PlayerNotFound, InsufficientCredits, InsufficientInventory
Refuse(t) ==
  /\ At(t, "validated")
  /\ ~Covered(handler[t].req)
  /\ Finish(t)
  /\ UNCHANGED <<market, accounts, stations, admin, restarts>>

\* place_order enters market.write() and inserts the order.
Insert(t) ==
  /\ At(t, "reserved")
  /\ marketLock = NoThread
  /\ marketLock' = t
  /\ orders' = Append(orders, NewOrder(handler[t].req))
  /\ handler' = [handler EXCEPT
       ![t] = [Idle EXCEPT !.pc = "matching", !.order = Len(orders) + 1]]
  /\ UNCHANGED <<book, lastPrice, accounts, stations, admin, restarts>>

\* One turn of the matching loop: the incoming order i trades with order r,
\* the front of the opposite queue at price p, at the resting price.
Trade(t, i, r, p) ==
  LET n == IF Remaining(orders[i]) <= Remaining(orders[r])
           THEN Remaining(orders[i]) ELSE Remaining(orders[r])
      buyer == orders[i].side = "buy"
      trade == [price |-> p, quantity |-> n,
                buy  |-> IF buyer THEN i ELSE r,
                sell |-> IF buyer THEN r ELSE i]
  IN  /\ orders' = [orders EXCEPT ![i] = Fill(@, n), ![r] = Fill(@, n)]
      /\ book' = [book EXCEPT ![orders[r].side][p] =
                     IF Remaining(orders[r]) = n THEN Tail(@) ELSE @]
      /\ lastPrice' = p
      /\ handler' = [handler EXCEPT ![t].trades = Append(@, trade)]
      /\ UNCHANGED <<marketLock, accounts, stations, admin, restarts>>

MatchBuy(t) ==
  LET i == handler[t].order
  IN  /\ At(t, "matching")
      /\ orders[i].side = "buy"
      /\ \E p \in Prices : /\ MatchesAt(orders[i], p)
                           /\ Trade(t, i, Head(book["sell"][p]), p)

MatchSell(t) ==
  LET i == handler[t].order
  IN  /\ At(t, "matching")
      /\ orders[i].side = "sell"
      /\ \E p \in Prices : /\ MatchesAt(orders[i], p)
                           /\ Trade(t, i, Head(book["buy"][p]), p)

LeaveMarket == marketLock' = NoThread

\* The loop breaks.  The rest of a limit order goes to the back of its price
\* level; the rest of a market order is dropped.
Rest(t) ==
  LET i == handler[t].order
      o == orders[i]
  IN  /\ At(t, "matching")
      /\ \A p \in Prices : ~MatchesAt(o, p)
      /\ \/ /\ Remaining(o) = 0
            /\ UNCHANGED <<orders, book>>
         \/ /\ Remaining(o) > 0 /\ o.type = "limit"
            /\ book' = [book EXCEPT ![o.side][o.price] = Append(@, i)]
            /\ UNCHANGED orders
         \/ /\ Remaining(o) > 0 /\ o.type = "market"
            /\ orders' = [orders EXCEPT ![i].status =
                 IF o.filled > 0 THEN "partially_filled" ELSE "cancelled"]
            /\ UNCHANGED book
      /\ LeaveMarket
      /\ Goto(t, IF o.side = "sell" /\ o.type = "market" /\ Remaining(o) > 0
                 THEN "returning" ELSE "settling")
      /\ UNCHANGED <<lastPrice, accounts, stations, admin, restarts>>

\* The unfilled goods of a market sell go back to its station.  The code reads
\* remaining() in a section of its own first; nothing changes it any more,
\* except a trade with the order itself after a restart, which ends this
\* handler.
ReturnUnfilled(t) ==
  LET o == orders[handler[t].order]
  IN  /\ At(t, "returning")
      /\ stock' = Stocked(o.station, Remaining(o))
      /\ Goto(t, "settling")
      /\ UNCHANGED <<market, accounts, owner, aboard, admin, restarts>>

\* Mutant: a limit buyer, who paid when ordering, pays again.
DueTwice(i, trade, p) ==
  LET cost == trade.price * trade.quantity
  IN  (IF p = orders[trade.sell].player THEN cost ELSE 0)
      - (IF p = orders[trade.buy].player /\ orders[i].side = "buy" THEN cost ELSE 0)

\* What a trade brings player p when the incoming order is i: the seller is
\* paid, a market buyer pays now, and a limit buyer who came in at a better
\* price gets the difference back.
Due(i, trade, p) ==
  LET o      == orders[i]
      cost   == trade.price * trade.quantity
      charge == IF o.type = "market" THEN cost
                ELSE (trade.price - o.price) * trade.quantity
  IN  (IF p = orders[trade.sell].player THEN cost ELSE 0)
      - (IF p = orders[trade.buy].player /\ o.side = "buy" THEN charge ELSE 0)

SettleCredits(t) ==
  /\ At(t, "settling")
  /\ handler[t].trades # <<>>
  /\ credits' = [p \in Players |->
       Credited(p, Due(handler[t].order, Head(handler[t].trades), p))[p]]
  /\ Goto(t, "shipping")
  /\ UNCHANGED <<market, registered, stations, admin, restarts>>

\* The goods of the trade leave on a ship, or are delivered at once when the
\* two stations are the same.
SpawnShip(t) ==
  LET trade == Head(handler[t].trades)
      from  == orders[trade.sell].station
      to    == orders[trade.buy].station
  IN  /\ At(t, "shipping")
      /\ IF from = to
         THEN /\ stock' = Stocked(to, trade.quantity)
              /\ UNCHANGED aboard
         ELSE /\ aboard' = [aboard EXCEPT ![from][to] = @ + trade.quantity]
              /\ UNCHANGED stock
      /\ handler' = [handler EXCEPT ![t].pc = "settling", ![t].trades = Tail(@)]
      /\ UNCHANGED <<market, accounts, owner, admin, restarts>>

Respond(t) ==
  /\ At(t, "settling")
  /\ handler[t].trades = <<>>
  /\ Finish(t)
  /\ UNCHANGED <<market, accounts, stations, admin, restarts>>

-----------------------------------------------------------------------------
(* DELETE /market/orders/{order_id} *)

\* cancel_order under market.write(), for a caller authenticated before.
Cancel(t, i) ==
  /\ At(t, "idle")
  /\ marketLock = NoThread
  /\ Cancellable(orders[i])
  /\ CancelOrders({i})
  /\ handler' = [handler EXCEPT ![t] = [Idle EXCEPT !.pc = "refunding", !.order = i]]
  /\ UNCHANGED <<lastPrice, marketLock, accounts, stations, admin, restarts>>

\* Mutant: the whole order is given back, filled or not.
GoodsBackWhole(i) == IF orders[i].side = "sell" THEN orders[i].quantity ELSE 0

\* What cancelling gives back of the reservation: price * remaining for a buy
\* that has a price, the remaining goods for a sell.
CreditBack(i) ==
  IF orders[i].side = "buy" /\ orders[i].price # NoPrice
  THEN orders[i].price * Remaining(orders[i]) ELSE 0
GoodsBack(i) == IF orders[i].side = "sell" THEN Remaining(orders[i]) ELSE 0

GiveBack(i) ==
  /\ credits' = Credited(orders[i].player, CreditBack(i))
  /\ stock' = Stocked(orders[i].station, GoodsBack(i))

Refund(t) ==
  /\ At(t, "refunding")
  /\ GiveBack(handler[t].order)
  /\ Finish(t)
  /\ UNCHANGED <<market, registered, owner, aboard, admin, restarts>>

-----------------------------------------------------------------------------
(* The admin removes a station: admin_delete_station *)

AdminAt(pc) == admin.pc = pc

\* The station is there.  A ship from it or to it holds the deletion up until it is
\* complete, and any of them may be so by now: the voyages are module Ships.
CheckStation(s) ==
  /\ AdminAt("idle")
  /\ s \in Removable
  /\ Exists(s)
  /\ admin' = [pc |-> "cancel_orders", station |-> s, refunds |-> {}]
  /\ UNCHANGED <<market, accounts, stations, handler, restarts>>

CancelOrdersAt ==
  LET ids == {i \in OrderIds : orders[i].station = admin.station /\ Cancellable(orders[i])}
  IN  /\ AdminAt("cancel_orders")
      /\ marketLock = NoThread
      /\ CancelOrders(ids)
      /\ admin' = [admin EXCEPT !.pc = "remove", !.refunds = ids]
      /\ UNCHANGED <<lastPrice, marketLock, accounts, stations, handler, restarts>>

\* One refund after the other, each under a lock of its own.
RefundOrder ==
  /\ AdminAt("remove")
  /\ \E i \in admin.refunds : /\ GiveBack(i)
                              /\ admin' = [admin EXCEPT !.refunds = @ \ {i}]
  /\ UNCHANGED <<market, registered, owner, aboard, handler, restarts>>

RemoveStation ==
  /\ AdminAt("remove") /\ admin.refunds = {}
  /\ owner' = [owner EXCEPT ![admin.station] = NoStation]
  /\ stock' = [stock EXCEPT ![admin.station] = 0]
  /\ admin' = AdminIdle
  /\ UNCHANGED <<market, accounts, aboard, handler, restarts>>

-----------------------------------------------------------------------------
(* The admin deletes a player: admin_delete_player *)

Of(p) == {s \in Stations : Owner[s] = p}

DeleteShips(p) ==
  /\ AdminAt("idle")
  /\ p \in Deletable \cap registered
  /\ aboard' = [from \in Stations |-> IF from \in Of(p) THEN [to \in Stations |-> 0]
                                                   ELSE aboard[from]]
  /\ admin' = [pc |-> "delete_orders", player |-> p, refunds |-> {}]
  /\ UNCHANGED <<market, accounts, owner, stock, handler, restarts>>

\* market.write() is taken here, and kept while players and then galaxy are
\* locked for the refunds.
DeleteOrders ==
  LET ids == {i \in OrderIds : orders[i].player = admin.player /\ Cancellable(orders[i])}
  IN  /\ AdminAt("delete_orders")
      /\ marketLock = NoThread
      /\ marketLock' = "admin"
      /\ CancelOrders(ids)
      /\ admin' = [admin EXCEPT !.pc = "refund_credits", !.refunds = ids]
      /\ UNCHANGED <<lastPrice, accounts, stations, handler, restarts>>

RefundCredits ==
  /\ AdminAt("refund_credits")
  /\ credits' = Credited(admin.player, SumFunctionOnSet([i \in OrderIds |-> CreditBack(i)], admin.refunds))
  /\ admin' = [admin EXCEPT !.pc = "return_goods",
                            !.refunds = {i \in @ : orders[i].side = "sell"}]
  /\ UNCHANGED <<market, registered, stations, handler, restarts>>

PlacedAt(s) == {i \in OrderIds : orders[i].station = s}

ReturnGoods ==
  /\ AdminAt("return_goods")
  /\ stock' = [s \in Stations |->
       Stocked(s, SumFunctionOnSet([i \in OrderIds |-> GoodsBack(i)],
                                   admin.refunds \cap PlacedAt(s)))[s]]
  /\ LeaveMarket
  /\ admin' = [admin EXCEPT !.pc = "disown", !.refunds = {}]
  /\ UNCHANGED <<orders, book, lastPrice, accounts, owner, aboard, handler, restarts>>

Disown ==
  /\ AdminAt("disown")
  /\ owner' = [s \in Stations |-> IF owner[s] = admin.player THEN Nobody ELSE owner[s]]
  /\ admin' = [admin EXCEPT !.pc = "unregister"]
  /\ UNCHANGED <<market, accounts, stock, aboard, handler, restarts>>

Unregister ==
  /\ AdminAt("unregister")
  /\ registered' = registered \ {admin.player}
  /\ credits' = [credits EXCEPT ![admin.player] = 0]
  /\ admin' = AdminIdle
  /\ UNCHANGED <<market, stations, handler, restarts>>

-----------------------------------------------------------------------------
(* Restarts *)

\* Mutant: whatever has a price goes back into the book.
ListedAll(i, s, p) == orders[i].side = s /\ orders[i].price = p

\* Does load_snapshot put order i into the book of side s, at price p?  It asks
\* for a price, not for a limit order.
Listed(i, s, p) ==
  orders[i].side = s /\ orders[i].price = p /\ Cancellable(orders[i])

\* The books when the saved orders are visited in this order.
Rebuilt(visited) ==
  [s \in Sides |-> [p \in Prices |-> Retained(visited, {i \in OrderIds : Listed(i, s, p)})]]

\* The server stops and starts from a snapshot.  What happened after the save is
\* gone, so the restart is taken at the save; saving holds market.read().  The
\* requests are gone with what they held; the saved orders come in the order of
\* a HashMap.
Restart ==
  /\ restarts < MaxRestarts
  /\ marketLock = NoThread
  /\ restarts' = restarts + 1
  /\ \E visited \in Bijection(OrderIds, OrderIds) : book' = Rebuilt(visited)
  /\ handler' = [t \in Threads |-> Idle]
  /\ admin' = AdminIdle
  /\ UNCHANGED <<orders, lastPrice, marketLock, accounts, stations>>

-----------------------------------------------------------------------------
Step(t) ==
  \/ Reserve(t) \/ Refuse(t) \/ Insert(t) \/ MatchBuy(t) \/ MatchSell(t) \/ Rest(t)
  \/ ReturnUnfilled(t) \/ SettleCredits(t) \/ SpawnShip(t) \/ Respond(t)
  \/ Refund(t)

Administer ==
  \/ \E s \in Stations : CheckStation(s)
  \/ CancelOrdersAt \/ RefundOrder \/ RemoveStation
  \/ \E p \in Players : DeleteShips(p)
  \/ DeleteOrders \/ RefundCredits \/ ReturnGoods \/ Disown \/ Unregister

\* Nothing is left to do, so TLC takes a handler that cannot go on, one that
\* waits for a market lock nobody gives back, for the deadlock it is.
Quiet ==
  /\ \A t \in Threads : handler[t] = Idle
  /\ admin = AdminIdle
  /\ UNCHANGED vars

Next ==
  \/ \E t \in Threads :
       \/ \E b \in Body : Validate(t, b)
       \/ \E i \in OrderIds : Cancel(t, i)
       \/ Step(t)
  \/ Administer \/ Restart
  \/ Quiet

Spec == Init /\ [][Next]_vars

-----------------------------------------------------------------------------
(* Properties *)

TradeRecord == [price : Prices, quantity : Nat \ {0}, buy : Nat \ {0}, sell : Nat \ {0}]

PCs == {"idle", "validated", "reserved", "matching", "returning", "settling",
        "shipping", "refunding"}

OrderRecord ==
  [player : Players, station : Stations, side : Sides, type : {"limit", "market"},
   price : Prices \cup {NoPrice}, quantity : Quantities, filled : Nat,
   status : Statuses]

AdminRecord ==
  {AdminIdle}
  \cup [pc : {"cancel_orders", "remove"}, station : Stations, refunds : SUBSET OrderIds]
  \cup [pc : {"delete_orders", "refund_credits", "return_goods", "disown", "unregister"},
        player : Players, refunds : SUBSET OrderIds]

\* Every variable has the shape the Rust types give it; filled never exceeds
\* quantity, so remaining() of models/market.rs cannot underflow.
TypeOK ==
  /\ orders \in Seq(OrderRecord)
  /\ \A i \in OrderIds : orders[i].filled <= orders[i].quantity
  /\ book \in [Sides -> [Prices -> Seq(OrderIds)]]
  /\ lastPrice \in Prices \cup {NoPrice}
  /\ marketLock \in Threads \cup {NoThread, "admin"}
  /\ credits \in [Players -> Int]
  /\ registered \subseteq Players
  /\ owner \in [Stations -> Players \cup {Nobody, NoStation}]
  /\ stock \in [Stations -> Nat]
  /\ aboard \in [Stations -> [Stations -> Nat]]
  /\ handler \in [Threads -> [pc : PCs, req : Body \cup {NoRequest},
                             order : 0..Len(orders), trades : Seq(TradeRecord)]]
  /\ admin \in AdminRecord
  /\ restarts \in 0..MaxRestarts

\* The order now inside the matching loop; it is not in the book yet.
Matching(i) == \E t \in Threads : At(t, "matching") /\ handler[t].order = i

\* A limit order that waits for a counterparty.
Resting(i) == /\ orders[i].type = "limit" /\ Cancellable(orders[i])
              /\ Remaining(orders[i]) > 0 /\ ~Matching(i)

\* The ids waiting at a price, and all that wait.
Waiting(s, p) == {book[s][p][k] : k \in 1..Len(book[s][p])}
InBook(i) == \E s \in Sides, p \in Prices : i \in Waiting(s, p)

\* The rest of a market order, dropped when it was placed, that a restart put
\* into the book: nothing is reserved for it.
Revived(i) == orders[i].type = "market" /\ InBook(i)

\* The book and the order table, two maps that place_order, the matching loops,
\* cancel_order and load_snapshot update separately, tell the same story: a
\* price level holds exactly the resting orders of that side and price, and the
\* market orders that a restart revived, once each; until a restart shuffles
\* them, in the order they arrived.
BookAgrees ==
  \A s \in Sides, p \in Prices :
    LET q == book[s][p]
    IN  /\ {i \in OrderIds : Resting(i) /\ orders[i].side = s /\ orders[i].price = p}
             \subseteq Waiting(s, p)
        /\ \A i \in Waiting(s, p) :
             /\ orders[i].side = s /\ orders[i].price = p
             /\ \/ Resting(i)
                \/ /\ restarts > 0 /\ orders[i].type = "market"
                   /\ Cancellable(orders[i]) /\ Remaining(orders[i]) > 0
        /\ \A k, l \in 1..Len(q) :
             k < l => IF restarts = 0 THEN q[k] < q[l] ELSE q[k] # q[l]

\* Whatever was placed, cancelled and deleted, no bid that waits reaches an ask
\* that waits: matching leaves no trade undone.  Only an order revived by a
\* restart, which was not matched on its return, may cross the book.
NotCrossed ==
  \A p, q \in Prices :
    book["buy"][p] # <<>> /\ book["sell"][q] # <<>> =>
      p < q \/ \E i \in Waiting("buy", p) \cup Waiting("sell", q) : Revived(i)

\* Only market buys, which reserve nothing, can take an account below zero:
\* limit buys are covered by their reservation whatever price they trade at.
\* (The documentation has every buy refused for insufficient credits.)
OverdraftOnlyByMarketBuys ==
  \A p \in Players : credits[p] < 0 =>
    \E i \in OrderIds : /\ orders[i].player = p /\ orders[i].filled > 0
                        /\ orders[i].side = "buy" /\ orders[i].type = "market"

\* What holds of the market between any two sections of its handlers: the types,
\* the agreement of book and orders, the book uncrossed, accounts not overdrawn.
MarketInv == TypeOK /\ BookAgrees /\ NotCrossed /\ OverdraftOnlyByMarketBuys

\* Resting order i trades before resting order j: better price, or the same
\* price and earlier.
Before(i, j) ==
  /\ orders[i].side = orders[j].side
  /\ \/ orders[i].side = "buy"  /\ orders[i].price > orders[j].price
     \/ orders[i].side = "sell" /\ orders[i].price < orders[j].price
     \/ (orders[i].price = orders[j].price /\ i < j)

\* Price-time priority: the matching loops never fill a resting order while one
\* that comes before it waits.
PriceTimePriority ==
  [][\A i, j \in OrderIds :
       Resting(i) /\ Resting(j) /\ Before(i, j)
         => orders'[j].filled = orders[j].filled]_vars

\* Both parties of every trade the engine reports get their limit or better.
TradesWithinLimits ==
  \A t \in Threads : \A k \in 1..Len(handler[t].trades) :
    LET tr == handler[t].trades[k]
    IN  /\ orders[tr.buy].side = "buy" /\ orders[tr.sell].side = "sell"
        /\ orders[tr.buy].type = "limit" => tr.price <= orders[tr.buy].price
        /\ orders[tr.sell].type = "limit" => tr.price >= orders[tr.sell].price

-----------------------------------------------------------------------------
(* Where the credits and the goods are *)

\* What is reserved for an order that waits or is matched now.
CreditsReservedBy(i) ==
  IF orders[i].side = "buy" /\ orders[i].type = "limit" /\ Cancellable(orders[i])
  THEN orders[i].price * Remaining(orders[i]) ELSE 0

GoodsReservedBy(i) ==
  IF orders[i].side = "sell" /\ Cancellable(orders[i])
     /\ (orders[i].type = "limit" \/ Matching(i))
  THEN Remaining(orders[i]) ELSE 0

\* What a cancelled order is still to give back, of what it had reserved.
CreditsReturning(i) == IF orders[i].type = "limit" THEN CreditBack(i) ELSE 0

\* The credits of player p a handler holds between two critical sections: the
\* reservation of a request not inserted yet, what its trades still bring or
\* cost, a refund on its way.
CreditsHeld(t, p) ==
  LET h == handler[t]
      unsettled == IF h.pc = "shipping" THEN Tail(h.trades) ELSE h.trades
      incoming(tr) == IF orders[tr.sell].player = p THEN tr.price * tr.quantity ELSE 0
      outgoing(tr) ==
        IF orders[tr.buy].player # p \/ orders[h.order].side = "sell" THEN 0
        ELSE IF orders[tr.buy].type = "market" THEN tr.price * tr.quantity
        ELSE (tr.price - orders[tr.buy].price) * tr.quantity
  IN  CASE h.pc = "reserved" ->
             IF h.req.player = p /\ h.req.side = "buy" /\ h.req.type = "limit"
             THEN h.req.price * h.req.quantity ELSE 0
        [] h.pc = "refunding" ->
             IF orders[h.order].player = p THEN CreditsReturning(h.order) ELSE 0
        [] OTHER -> SumFunctionOnSet([k \in 1..Len(unsettled) |->
                         incoming(unsettled[k]) - outgoing(unsettled[k])], 1..Len(unsettled))

GoodsHeld(t, s) ==
  LET h == handler[t]
      bought(tr) == IF orders[tr.buy].station = s THEN tr.quantity ELSE 0
  IN  CASE h.pc = "reserved" ->
             IF h.req.station = s /\ h.req.side = "sell" THEN h.req.quantity ELSE 0
        [] h.pc = "refunding" ->
             IF orders[h.order].station = s THEN GoodsBack(h.order) ELSE 0
        [] OTHER -> SumFunctionOnSet([k \in 1..Len(h.trades) |-> bought(h.trades[k])],
                                     1..Len(h.trades))
                    + IF h.pc = "returning" /\ orders[h.order].station = s
                      THEN Remaining(orders[h.order]) ELSE 0

PlacedBy(p) == {i \in OrderIds : orders[i].player = p}

\* All the credits of a player, and all the goods of a station.
Wealth(p) ==
  credits[p] + SumFunctionOnSet([i \in OrderIds |-> CreditsReservedBy(i)], PlacedBy(p))
             + SumFunctionOnSet([t \in Threads |-> CreditsHeld(t, p)], Threads)
             + SumFunctionOnSet([i \in OrderIds |-> CreditsReturning(i)],
                                admin.refunds \cap PlacedBy(p))

Goods(s) ==
  stock[s] + SumFunctionOnSet([r \in Stations |-> aboard[r][s]], Stations)
           + SumFunctionOnSet([i \in OrderIds |-> GoodsReservedBy(i)], PlacedAt(s))
           + SumFunctionOnSet([t \in Threads |-> GoodsHeld(t, s)], Threads)
           + SumFunctionOnSet([i \in OrderIds |-> GoodsBack(i)], admin.refunds \cap PlacedAt(s))

\* Market orders cancelled by their owner after a partial fill, whose refund
\* was never reserved, or was returned before.
CancelledAfterFill ==
  {i \in OrderIds : /\ orders[i].type = "market"
                    /\ orders[i].status = "cancelled" /\ orders[i].filled > 0}

Refunding(i) == \E t \in Threads : At(t, "refunding") /\ handler[t].order = i

\* What cancelling such orders has paid out to player p: the price a buy named,
\* and the goods of a sell a second time.
CreditsPaidOut(p) ==
  SumFunctionOnSet([i \in OrderIds |-> CreditBack(i)],
                   {i \in CancelledAfterFill \cap PlacedBy(p) : ~Refunding(i)})
GoodsPaidOut(s) ==
  SumFunctionOnSet([i \in OrderIds |-> GoodsBack(i)], CancelledAfterFill \cap PlacedAt(s))

Exchange == INSTANCE Ledger WITH
  Lots    <- UNION {1..n : n \in Quantities},
  wealth  <- [p \in Players |-> Wealth(p) - CreditsPaidOut(p)],
  goods   <- [s \in Stations |-> Goods(s) - GoodsPaidOut(s)],
  surplus <- [s \in Stations |-> GoodsPaidOut(s)]

\* The exchange implements the ledger: however handlers interleave between the
\* sections in which they reserve, match, settle, ship and refund, each player
\* and each station gains and loses by whole trades and nothing else, save what
\* cancelling a partially filled market order pays out; and nobody sells what is
\* not there, be it goods that were paid out so.
ImplementsLedger == Exchange!Spec

-----------------------------------------------------------------------------
(* What the admin and a restart may create or lose *)

TotalCredits == SumFunctionOnSet([p \in Players |-> Wealth(p)], Players)
TotalGoods == SumFunctionOnSet([s \in Stations |-> Goods(s)], Stations)

\* Order i is refunded in this step: by its owner, or by the admin.
Refunded(i) ==
  \/ \E t \in Threads : At(t, "refunding") /\ handler[t].order = i /\ handler'[t] = Idle
  \/ i \in admin.refunds /\ i \notin admin'.refunds

Cancels(i) == Cancellable(orders[i]) /\ orders'[i].status = "cancelled"

\* A trade of order i is settled in this step.
Settles(i) ==
  \E t \in Threads : /\ At(t, "settling") /\ handler'[t].pc = "shipping"
                     /\ i \in {Head(handler[t].trades).buy, Head(handler[t].trades).sell}

\* Order i trades in this step while it waits in the book.
FilledWaiting(i) == InBook(i) /\ orders'[i].filled > orders[i].filled

Gone(i) == orders[i].player \notin registered
Restarts == restarts' > restarts
DeletesShips == AdminAt("idle") /\ admin'.pc = "delete_orders"

\* Where the goods go that handler t is about to put into a station.
BoundFor(t) ==
  orders[IF At(t, "returning") THEN handler[t].order ELSE Head(handler[t].trades).buy].station

\* Whatever the admin removes and whenever the server restarts, credits come
\* from nothing for market buys only, which reserve nothing: when one is
\* cancelled after a partial fill and its price refunded, when one that a restart
\* put into the book trades there, when its buyer is deleted before the trade is
\* settled, and when the debt it left is deleted with the buyer.  They are lost
\* with a deleted player, in the account or on their way to it, and with the
\* requests a restart interrupts.
CreditsKept ==
  [][LET gain == TotalCredits' - TotalCredits
     IN  gain # 0 =>
         /\ gain > 0 =>
              \/ \E p \in registered \ registered' : credits[p] < 0
              \/ \E i \in OrderIds : /\ orders[i].side = "buy" /\ orders[i].type = "market"
                                     /\ \/ Refunded(i) \/ FilledWaiting(i)
                                        \/ Settles(i) /\ Gone(i)
         /\ gain < 0 =>
              \/ registered' # registered \/ Restarts
              \/ \E i \in OrderIds : Gone(i) /\ (Refunded(i) \/ Settles(i))]_vars

\* Goods come from nothing when a market sell, whose rest went back to the
\* station at once, is cancelled or trades after a restart, and when a sell is
\* placed although its station has gone since the handler looked.  They are lost
\* with the station that holds them or was to get them, with the ships of a
\* deleted player, and with the requests a restart interrupts.
GoodsKept ==
  [][LET gain == TotalGoods' - TotalGoods
     IN  gain # 0 =>
         /\ gain > 0 =>
              \/ \E i \in OrderIds : /\ orders[i].side = "sell" /\ orders[i].type = "market"
                                     /\ Cancels(i) \/ FilledWaiting(i)
              \/ \E t \in Threads : /\ At(t, "validated") /\ handler'[t].pc = "reserved"
                                    /\ handler[t].req.side = "sell"
                                    /\ ~Exists(handler[t].req.station)
         /\ gain < 0 =>
              \/ owner' # owner \/ Restarts \/ DeletesShips
              \/ \E i \in OrderIds : Refunded(i) /\ ~Exists(orders[i].station)
              \/ \E t \in Threads : /\ handler[t].pc \in {"returning", "shipping"}
                                    /\ handler'[t] # handler[t]
                                    /\ ~Exists(BoundFor(t))]_vars
=============================================================================
