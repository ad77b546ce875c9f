# Offworld Trading Manager: a verification project

TLA+ specifications of the server of this repository (a Rust program on axum and
tokio), the TLC configurations that check them on small instances, and proofs that
TLAPS checks for every instance. Source paths below are relative to the root of the
repository (the crate itself is in its `src/` directory); `PROJECT.json` gives the
exact lines behind every definition.

Contents: [the system](#the-system) · [the modules](#the-modules) ·
[the runs](#the-runs) · [bounds](#bounds-and-why-they-are-enough) ·
[fairness](#fairness) · [the proofs](#the-proofs) ·
[where the code departs from its documentation](#where-the-code-departs-from-its-documentation) ·
[what is not modelled](#what-is-not-modelled) · [plan](#plan)

## The system

The server keeps all of its state in memory, in `AppState` (`src/state.rs`): `galaxy`,
`players`, `ships`, `projects`, `trade_requests` and `market`, each behind a
`tokio::sync::RwLock` of its own. HTTP handlers, timers and background tasks share it.
A handler typically takes one lock, lets go of it, awaits, and takes another: the
sections between locks are atomic, the handler as a whole is not. That, the timers
that wake up later to write what they decided earlier, and the snapshots that restart
them, is where this program is hard to test.

| Component | State | Operations | What makes it correct |
|---|---|---|---|
| market (`market.rs`, `routes/market.rs`) | orders, order book per good, last prices | place, cancel; matching, settlement, ships for the goods | the book agrees with the orders; price-time priority; nobody trades beyond a limit; credits and goods move in trades only, across reservations, refunds, deletions and restarts |
| ships, trucking (`ship_lifecycle.rs`, `routes/ships.rs`, `routes/trucking.rs`) | ships with a status of nine | create, two transit timers, poll, dock, undock | the sequence of statuses; cargo neither multiplies nor vanishes; bays and storage; no ship is stranded |
| mass drivers (`routes/connections.rs`, `models/mass_driver.rs`, `consumer.rs`) | connections, channels, a topic of packets per player | request, accept, reject, close, delete; deduct, land, return, acknowledge | channels are not exceeded; packets are delivered or returned, once unless the broker repeats them |
| space elevator (`models/space_elevator.rs`, `routes/space_elevator.rs`) | cabins with state and deadline, warehouse | transfer (in two sections around a sleep), failure, repair | an answered transfer has delivered or returned its goods; cabins come back |
| construction (`routes/construction.rs`, `construction_lifecycle.rs`) | projects, their tasks | create, transit, build, apply, complete | what is paid for is built, once; nobody's station is replaced |
| trade requests (`routes/trade.rs`, `trade_lifecycle.rs`) | requests, their loops | create, cancel; tick, auto-cancel, complete | totals are not exceeded; ended stays ended; loops end |
| economy loop (`economy/`) | stocks, resources, prices, accumulators of a settlement | initialize, copy, tick, write back | stocks are booked to the unit; trades that come during a tick are not lost |
| persistence (`persistence.rs`) | snapshots in S3 | save, load, recovery of timers and tasks | a restart repeats and forgets as little as it can |
| locks (`state.rs` and every caller) | guards and queues | read, write, drop | no deadlock |
| stations (`routes/stations.rs`) | station of a planet | admin create, update, delete | what depends on a station survives its update and its removal |
| players (`routes/players.rs`) | accounts, credits | register, update, token, delete | deletion returns what the player had reserved |
| settlements, planets, systems (`routes/`) | the galaxy | admin edits | an edit during a tick loses no more than it must |
| queries and leaderboard, authentication, configuration and seed, Pulsar client, errors and routing | none of their own | read, map, connect | not modelled, see below |

How they meet. The market turns trades into ships (`Market` hands the goods over to
`aboard`, `Ships` starts with a trade ship whose goods have left the seller).
Construction raises the limits the others respect: docking bays, storage, channels,
cabins. Trade requests move goods between the settlement's economy and the warehouse
of the elevator, the elevator between warehouse and station, and ships and mass
drivers between stations. Webhooks to the owners' callbacks only notify: no handler
waits for their answer to decide anything, and they are left out of every model.
Pulsar topics carry packets to one consumer task per player.

What is hard here, in a word each: checks made under one lock and used under the next
(market, ships, construction, trade requests); snapshots of a record written back
without looking again (ships, trade requests, economy); timers that outlive what they
were set for (elevator cabins, projects after a reload); capacity checked by many and
consumed by each (bays, storage, channels, cabins); several locks held at a time
(locks); packets the broker delivers again (mass drivers); admins who remove stations
and players, or edit the galaxy, between the sections of other handlers (market, ships,
construction, economy); handlers whose future the server drops, between two sections,
when the client disconnects (ships, elevator, construction); restarts and reloads while
tasks run (everywhere). The hazards
are listed with their lines in `PROJECT.json`, each with the properties that cover it;
the width of the market's amounts and the lock order of `get_ship` have none.

## The modules

Every module keeps to one convention: a variable per part of the shared state; one
action per section the code runs under one acquisition of its locks; a program counter per
handler or task that has several sections, so that anything may run between two of
them; guards from the code's conditions and early returns. A request that is refused
before it has changed anything is no step. A definition that begins with `\* Mutant:`
is the same code with a plausible mistake. Mutants are used by no specification; each
shows that a property notices the mistake (`PROJECT.json`, "mutants").

- **`Market`**: `orders`, `book`, `lastPrice` are `MarketState`; `handler[t]` is a
  request of `POST` or `DELETE /market/orders`. `Reserve`, `Insert`, `MatchBuy` and
  `MatchSell` (one turn of the matching loop each, under `marketLock`), `Rest`,
  `ReturnUnfilled`, `SettleCredits`, `SpawnShip` and `Respond` are `place_order` in its order;
  `Cancel` and `Refund` are `cancel_order`. `CheckStation`, `CancelOrdersAt`, `RefundOrder`
  and `RemoveStation` are `admin_delete_station`; `DeleteShips`, `DeleteOrders`,
  `RefundCredits`, `ReturnGoods` (the last three under one `market.write()`), `Disown` and
  `Unregister` are `admin_delete_player`. `Restart` forgets the handlers and rebuilds the
  books from the saved orders in any order, as iterating over a `HashMap` does. The ships
  that could hold up `CheckStation` are those of module `Ships`; here they may have arrived
  by the time the admin looks. `Retained`
  is what a queue keeps when orders leave it, or when a book is rebuilt.
- **`Ledger`**: the abstract specification of the exchange. Players have wealth and
  stations have goods, and both change only in trades: the buyer's station gets
  units of the seller's, and their owners settle at one price. `surplus` is what a station
  was given back twice (`GiveTwice`), as the code does when a partly filled market sell
  is cancelled: such goods are nobody's right, but they can be sold. `Market` implements it
  under the refinement mapping at the end of that module (`Exchange == INSTANCE Ledger
  WITH ...`): the wealth of a player is the account plus what is reserved by resting orders
  plus what handlers hold between two sections, and likewise for goods; what cancelling a
  partly filled market order pays out without a reservation is subtracted by name, the
  goods of it as `surplus`.
- **`Ships`**: `ships[s]`, its timers `toOrigin[s]` and `transits[s]` (counted, so that
  two timers for one ship would show), `handler[t]` for dock and undock, which may be
  about the same ship. `PayFee` and `CreateTrucking` are the two sections of a trucking
  request: the payment, and the ship; `paid` counts the requests between them.
  `DeductCargo` comes before `OriginBayCheck`, as in the code. `DeleteShips` and `Disown` are
  the two sections of a player's deletion that matter here; `CheckShips` and `RemoveStation`
  those of a station's. After the first any ship may still be sent there, and a ship that
  is complete does not count in it, whether or not its cargo has been delivered. Every later
  section looks the station up again, and each does something else when it has gone:
  `DeductCargo` deducts nothing and goes on, the checks of bays and storage let the ship
  pass, `Deliver` drops the cargo. `Drop` and `DropOrder` are handlers whose client
  disconnects; `Restart` recovers one timer per ship on its way. The server starts with the
  ships of a snapshot, `InitShips`. The fee is a whole number per unit; the code rounds the
  product down.
- **`MassDriver`**: `connections`, `connected` (which planets have a station),
  `channels`, `stock`; `topic[k]`, the packets the broker has not seen acknowledged, and
  `consumer[k]`, the task that handles the first of them: `Refuse`, `Send`, `Land`,
  `Return`, `Ack`. `Reconnect` has the broker deliver the packet being handled once more;
  `Restart` empties the connections, which no snapshot holds, and has what was not
  acknowledged delivered again. A packet is the largest quantity of its items and their
  total, the two numbers `handle_packet` compares. `Deducted` wraps at `Word`, as `u64`
  does in a release build. The stations an admin may delete and rebuild are `Removable`.
- **`SpaceElevator`**: `cabin[c]` has the two fields of the code, `state` and a
  deadline: the transfer it was set for, `"alone"` when nobody sleeps until then (a repair,
  or a transfer that was dropped), or `"expired"`. `Elapse` ends a transfer's sleep and its
  cabin's deadline together, because both come from the same duration; `Complete` comes
  later, and the cabin may be taken in between; `Expire` ends a deadline nobody sleeps
  until. A transfer ends with the answer it is given, so that a property can compare the
  two. `Drop` is a handler dropped with its client: the goods are gone and the cabin keeps its
  deadline. `RestartElevator` is a restart from a snapshot, which has the stocks but neither
  handlers nor cabins.
- **`Construction`**: `Request`, `Pay`, `Supply`, `Record` are `create_project`, and `Drop`
  its end where a client disconnects (a thread is used up by that);
  `StartBuilding`, `FinishUpgrade`, `Apply`, `MarkComplete` the tasks; `Save`,
  `Restart`, `Reload`, `Recover` the snapshots. A restart loses requests and tasks and
  recovers tasks before the first request; a reload (`POST /admin/persistence/load`)
  keeps the old ones running. Tasks have slots because a project may then have several.
  `PutStation` is `admin_create_station` on a settled planet (a new station) and on a
  connected one (an update, which keeps elevator and mass driver and sets `Fields` back);
  `DropProjects`, `Disown`, `Unregister` are a player's deletion.
- **`TradeRequests`**: `Wake`, `Check`, `CheckPrice`, `Close`, `Apply`, `Count` are the
  loop of a request, each section its own action; `CopyEconomy`, `TickEconomy`,
  `WriteEconomy` the economy loop; snapshots as in `Construction`. The economy counts
  in grains of a unit because its budget is fractional and a delivery is whole; `Cost`
  rounds as `f64::round` does. Prices, demand and output are inputs; the rationing of
  exports (domestic demand first) is the code's.
- **`Economy`**: the loop again, from the side of the settlement. `Bootstrap` initializes
  what it finds at the start, `CopyEconomy` drains the accumulators into `copy`, and
  `TickEconomy` moves the goods: extraction against the planet's deposits, production from
  inputs that factories share, domestic demand before exports, investment, stocks carried
  over, transient goods cleared. `WriteEconomy` looks the settlement up again by the names
  it remembered. `Import` and `Export` are trades of a request, `Settle`,
  `DeleteSettlement`, `CreatePlanet`, `DeletePlanet` and `RenameSystem` the admin's edits.
  What prices, wages, capital and population decide is chosen from small sets.
- **`Locks`**: the operations that hold one lock while they ask for another, as the
  sequences of locks they take and guards they drop, run by fair reader-writer locks:
  a lock request joins a FIFO queue and a reader waits behind a writer that waits.
- **`MarketProofs`, `ShipsProofs`, `MassDriverProofs`, `ConstructionProofs`,
  `TradeProofs`, `LocksProofs`**: the theorems about the module each extends, and their
  lemmas. **`PlanetProofs`**: those about `Economy` and `SpaceElevator`, which it extends
  both; the elevator's specification has names of its own for that (`ElevatorInit`,
  `ElevatorNext`, `ElevatorSpec`). **`Sums`**: lemmas on sums over finite sets, and on
  sequences as queues, for all of them.
- **`MC*`**: the small instances, with the values of constants that a configuration
  file cannot spell.

## The runs

`tlc -workers 2 -config <run>.cfg <module>` in this directory; every run ends within about
three minutes. Deadlock is checked where the model never stops by itself (`MCMarket`,
`MCMarketAdmin`, `MCMassDriver`, `MCLocks`); the other models stop when ships are
delivered, project ids used up or bounds reached. The module is the one of the same name,
or `MCMarket`, `MCConstruction`, `MCTradeRequests` and `MCLocks` for the variants. Where
several invariants are about one thing they are one named conjunction: `MarketInv` is
`TypeOK`, `BookAgrees`, `NotCrossed` and `OverdraftOnlyByMarketBuys`; `ConstructionInv` is
`TypeOK` and `UpgradesCounted`; `TradeInv` is `TypeOK` and `ImportsCounted`; `LocksInv` is
`TypeOK` and `NoWaitCycle`; `EconomyInv` is `TypeOK` and `TransientNeverUsed`.

| Run | Distinct states | What it shows |
|---|---|---|
| `MCMarket` | 0.6 M | Two players, each with a station, place and cancel up to three orders through two concurrent handlers. `BookAgrees`: a price level holds exactly the resting orders of its price, in order of arrival, though orders and book are updated separately. `NotCrossed`, `TradesWithinLimits`, `PriceTimePriority`: the engine leaves no trade undone, breaks no limit and skips nobody. `OverdraftOnlyByMarketBuys`: a negative balance needs a market buy. `ImplementsLedger`: reservations, trades, improvements and refunds, in whatever order handlers interleave, are steps of `Ledger` or none at all. |
| `MCMarketAdmin` | 1.8 M | The same market with one handler beside an admin who deletes a player and a station, and a restart. `MarketInv` for the rebuilt books too. `CreditsKept` and `GoodsKept` name every step by which credits and goods may come from nothing or be lost. |
| `MCShips` | 0.8 M | Three ships, two requests at a time, for the same ship if they like, one bay, storage that fills up, a player and a station deleted, a restart or a request dropped. `TimersRun` and `NoShipStranded`: a ship on its way has a timer and arrives. `GoodsMultiplyOnlyByStaleWrite` and `GoodsLostOnlyWithoutBay` account for the cargo across deduction, refusal, delivery, deletion and restart, with two places where goods are made and six where they are lost; `ShipFollowsSequence` says that statuses are skipped or repeated only by a stale write; `BayOverrunBounded` and `StorageOverrunBounded` how far the races between check and use can go. |
| `MCMassDriver` | 0.5 M | Two connections between two stations, one of which is removed and rebuilt, channel upgrades, two consumers, a lost broker connection, a restart. `ChannelsRespected` in every order of request, acceptance, closure and upgrade; `GoodsLostOnlyWithStation`, `OverfullOnlyByReturn`; `TakenTwiceOnlyByReconnect`: only a redelivered packet is deducted twice; `TopicsDrained`: every packet is acknowledged in the end. |
| `MCSpaceElevator` | 64 k | Two transfers, a second cabin by upgrade, failures, the station removed, and two restarts or dropped requests in any mixture. `GoodsLostOnlyWithoutCabin`, although two transfers can meet in one cabin: no goods are made, they are lost in the four places named only, and where a station stands an answer says where they are. `TransfersEnd`: every transfer is answered or cut off, and every cabin becomes free again, whatever has become of its transfer. |
| `MCConstruction` | 2.7 M | Two players race for the same planets with all kinds of projects but the founding of settlements, while the admin updates a station and deletes a player, and requests are dropped. `UpgradesCounted` but for what an update sets back; `StationsKept`: no project takes a standing station from its owner; `FeeLostOnlyForGoods`. |
| `MCConstructionLoads` | 1.0 M | One save and one restart or reload at any point, a settlement founded, its station removed, nobody deleted. `UpgradesNeverLost`, `LifecycleForward` (restarts), `ProjectsComplete` (restarts and reloads). |
| `MCTrade` | 2.1 M | Two requests against two economy ticks. `ImportsCounted`, `EndedStaysEnded`; `TypeOK` includes that the player's balance stays non-negative. |
| `MCTradeLoads` | 0.5 M | One request, a save and a restart or reload, the station removed. `TotalRespected` (restarts), `TotalsEnd` (restarts and reloads). |
| `MCEconomy` | 0.5 M | Two ticks of a mine, a smelter and a power plant with two trades, two edits of the galaxy and a restart between the loop's sections. `BooksBalance`: a tick uses no more of a good than there was before it made any, books it to the unit unless something domestic is short, and digs up what the deposit had at its start, where only extractors make the good and a full deposit is ample for all of them (`Dug`). `TradesKept`: trades wait for the next tick, and are lost only by the edits and the restart it names. `TransientNeverUsed` and `FoundedStaysEmpty` state two consequences of the code that its documents do not mention, see below. |
| `MCLocks` | 12 k | Save, load, a trade tick, a dock request and the economy loop, again and again. `NoWaitCycle` counts waiting behind a queued writer as waiting; `OperationsEnd` also excludes starvation. `get_ship` and `admin_delete_player`, which take locks in another order, are not in this run. |
| `MCLocksInverted` | violation | `OperationsEnd` with `admin_delete_player` beside save and `get_ship`: the deletion and the save deadlock. The cycles that `get_ship` can close with operations of the other order are not shown by a run of their own. |

## Bounds, and why they are enough

- **Two handlers, two players, two stations.** Every race found or excluded is between
  a check of one handler and a write of another; `BayOverrunBounded` is proved for any
  number of handlers. Sender and receiver, buyer and seller are all the roles there are.
- **`Market`**: in `MCMarket`, `MaxOrders` 3 lets an incoming order trade with two resting
  ones, at two prices or at one, or leave a rest behind; quantities 1 and 2 give partial
  fills on either side; prices 1 and 2 give an improvement and a refusal; four credits run
  out; market orders carry a price, the case in which the code refunds one. Goods given
  back twice and then sold, which is what `surplus` is for in `Ledger`, take a fourth order:
  the same instance with `MaxOrders` 4, one handler and one price (1.5 M states) has them,
  and satisfies `ImplementsLedger`. `MCMarketAdmin`
  has market orders with and without a price, two orders, one handler and three credits:
  what is new in it is one more actor beside a handler, and a restart, of which
  one (`MaxRestarts`) rebuilds every book that can be reached. One player and one station,
  of different owners, may be removed, so a deletion meets buyer and seller.
- **`Ships`**: one new ship, one that waits for a bay and one that waits for leave to
  undock at that station when the server starts, so that bays and storage
  are contended at once; one bay, storage 2, stock 1 and unit cargoes give a refusal
  for storage, for cargo and for bays. `MaxBreaks` 1, a restart or a dropped request: it may
  come at any point of any ship. One station of the two, the deleted player's, may be deleted
  too: it is the origin of some ships and the destination of others.
- **`MassDriver`**: two connections against one channel, and against two after
  `MaxChannels`; storage 3, stock 2 and packets of 2 have packets returned.
  `MaxPublished` 1 packet per player, `MaxReconnects` 1 and `MaxRestarts` 1: with a
  redelivery a topic holds two, one waiting behind the other. `Word` is 16 and not 2^64:
  the run sends packets that name a good once, for which nothing wraps.
- **`SpaceElevator`**: two transfers and one cabin, two after an upgrade. `MaxBreaks` 2: both
  transfers may be dropped, or one be dropped before a restart.
- **`Construction`**: two projects meet on a planet; one station-paid and one
  warehouse-paid facility; money and goods for less than what is asked; one update
  (`MaxEdits`) of a station of the first player, or a station put by the admin on the
  planet both build on. The run with snapshots has one facility and one player,
  `MaxLoads` 1: one load leaves an old task beside a recovered one, which is all that
  several would.
- **`TradeRequests`**: totals that are no multiple of the rate, a rate above what is in
  the warehouse, one credit, two prices; `MaxTicks` bounds the economy's ticks (a tick,
  and one that meets the effects of the one before), `MaxDemand` and `MaxDone` saturate
  two counters above every value that is compared with them. Half-unit grains and
  half-credit prices give both directions of rounding.
- **`Economy`**: a raw, a made and a transient good; two factories that share an input
  and one whose inputs include an output; a building that needs two goods. `MaxTicks`,
  `MaxTrades` and `MaxEdits` 2, `MaxRestarts` 1: two edits delete a settlement and
  found another in the middle of a tick, or rename a system there and back. One planet,
  since a tick touches each by itself.
- **`Locks`**: each operation once per task, repeated without bound.
- **Symmetry** is used for interchangeable handlers, players with their stations, projects
  and requests, and only in runs without liveness properties (`MCMarket`,
  `MCConstruction`, `MCTrade`).

## Fairness

Weak fairness, task by task, of the steps tokio's runtime takes on its own:
it polls every task that can go on, wakes every sleeping task, and hands a lock to
the head of its queue (`tokio::sync::RwLock` is documented to be fair). So both timers of
each ship (`Ships`), each consumer's `Carry` (`MassDriver`), each task of a project and each
loop of a trade request (`Construction`, `TradeRequests`), all of them spawned tasks, and the
deadlines of cabins (`SpaceElevator`) are fair. A handler is tied to its client, who may
disconnect: no handler of `Ships` or `Construction` is fair, and `NoShipStranded` and
`ProjectsComplete` hold without. A transfer's handler (`Elapse` or `Complete`) is fair as
long as it has not been dropped: `Drop` and `RestartElevator` disable it, and `TransfersEnd`
says of such a transfer that it is cut off and its cabin comes back. Recovery follows a load
because it is the next statement of the handler. Nothing that people or the network decide is fair: no request, cancellation,
admin call, save, restart, reload or reconnection ever has to happen. The steps of a task or
a transfer are fair as one disjunction, since one of them is enabled at a time. `Market` and `Economy`
have no fairness: their properties are about what a step may do. `MCMarket` checks for
deadlock instead: the action `Quiet` is the only step of a market with nothing to do, so a
handler that could not go on would be reported.

## The proofs

`tlapm <module>.tla` checks every proof: 8634 obligations in `MarketProofs`, 2444 in
`ShipsProofs`, 1884 in `ConstructionProofs`, 1176 in `TradeProofs`, 808 in
`MassDriverProofs`, 520 in `LocksProofs`, 2183 in `PlanetProofs` and 1158 in `Sums`.
Each theorem holds for all values of the constants that satisfy the assumption its module
names (`MarketAssumption`, `ShipsAssumption` and so on): sets the code keeps finite are
finite, amounts are natural numbers, names that stand for nothing are no names of anything,
and what the server starts with is a state it can have. TLC evaluates them in every run.
Nothing bounds the constants from above, so the theorems hold for any number of
handlers, orders, restarts, reloads and redeliveries, unless a hypothesis below says
otherwise.

**How they go.** Every invariant is proved from an inductive one, with a lemma per
action or group of actions; an action property from that invariant and one step. Sums of
goods and credits are folds over sets, and an induction theorem that takes an operator as a
parameter is out of the provers' reach, so `Sums` gets there another way: it finds
the least natural number of a set from the well-foundedness of `<`, proves induction over
natural numbers and over the subsets of a finite set for *sets* of them, and then that a sum
is additive, changes by what one element changes, is monotone, natural and bounded, that two
sums add up term by term and the order of a double sum does not matter, and what a sum over
a sequence gains by an entry appended.

**`MarketProofs`** (`Sound`, `Settled`). `TypeOK` is not inductive by itself: that a trade moves at least
one unit and no more than either order has left is what the book says of the orders in
it, and what the book says depends on who is in the matching loop. So `Sound` joins the types
with `BookAgrees`, what the handlers know (`HandlersSound`), who holds `market.write()`
(`LockSound`), that the order being matched is the last one, not in the book and not cancelled
(`MatchingSound`), and that resting limit orders do not reach each other (`LimitsApart`).
- `TypeCorrect`, `MarketCorrect`: `Spec => []MarketInv`, hence `BookAgrees`, `NotCrossed` and
  `OverdraftOnlyByMarketBuys`, with deletions and restarts. `Retained` is a recursive function
  over a queue; lemma `RetainedPicks` says it picks the entries in order, by induction on
  the length. `NotCrossed` holds because a limit order rests only when nothing of the
  other side matches it any more (`LimitsStep`).
- `LimitsCorrect`: `Spec => []TradesWithinLimits`.
- `PriorityCorrect`: `PriceTimePriority` when `MaxRestarts = 0`. A restart loses the order of
  arrival, so with one the property is false of the code (see below).
- `CreditsKeptCorrect`, `GoodsKeptCorrect`: `CreditsKept` and `GoodsKept`, with deletions and
  restarts. Their invariant `Settled` adds to `Sound` what refunds rely on: the admin refunds
  cancelled orders only, of the player or station he deletes (`AdminSound`); no two handlers
  refund the same order, and the rest of a market sell is given back while nobody can trade
  with it (`RefundsSound`); a market order that can be cancelled has traded or is being matched
  (`MarketOnce`). What a player or station has is its account, plus what each order reserves,
  plus what each handler and the admin hold for it (`OrderCredits`, `HandlerCredits`,
  `Incoming` and so on). A lemma per action says by how much each part changes; a trade
  (`Deal`) touches both orders, the handler's list and two owners at once, which is where the
  sums need the sums over two elements (`SumChangeTwo`) and over the trades of a sequence.
- `ExchangeCorrect`: `ImplementsLedger` if `Removable`, `Deletable` are empty and `MaxRestarts`
  is 0, which is what `MCMarket` runs. The hypotheses are needed: a deletion or a restart makes
  and loses value (`CreditsKept`, `GoodsKept` say where), and `Ledger` has no step for that. All
  owners stay (`AtHome`), what cancelled market orders have been paid out grows at `Cancel`
  and `Refund` only, and every step is a `Trade` of `Ledger`, its `GiveTwice`, or a stutter
  (`StepMaps`).

**`ShipsProofs`** (`Typed`, with what each property adds).
- `TypeCorrect`: credits stay natural by the comparison of the fee with the balance; that a
  ship has at most one timer to its origin needs that an unused id has no timer and a handler
  works on a ship that exists (`Grounded`).
- `BayOverrunCorrect`, of stations that stand: the bound is not inductive, since handlers past the check are ships to
  come. `SlotsBounded` counts both. A handler passes only while a bay is free, and no more
  handlers than there are can be past the check.
- `StorageOverrunCorrect`: the same for storage, in units: what is stored and what handlers
  past the check will still add (`DueBounded`), each at most the largest cargo, which exists
  because the cargoes are a finite set (`CargoesKnown`).
- `TimersRunCorrect`: every ship on its way has a timer. The delicate steps are `Depart`, which
  may set a ship back from a stale copy, `Arrive`, and `Restart`, whose recovery reads the
  statuses it has just loaded.
- `SequenceCorrect`: `ShipFollowsSequence`, statuses are skipped or repeated only by a stale
  write.
- `GoodsMultiplyCorrect`, `GoodsLostCorrect`: the two action properties about the sum of all
  goods; one lemma per action says how much the sum changes. A trucking ship that has
  loaded has had its cargo taken from the stock, or its origin has gone
  (`TruckingDeducts`). `RemoveStation` lowers the sum by the station's stock, `Deliver` by the
  cargo where no station is any more, `Drop` and `Restart` by what the handlers hold.

**`MassDriverProofs`**.
- `TypeCorrect`: `Deducted` stays natural, wrapping or not, because a packet is below
  the word; topics stay sequences over acknowledgement, redelivery and restart.
- `ChannelsCorrect`: `Accept` is the one action that adds an active connection, and it
  compares both ends with their channels; a rebuilt station gets fewer channels, so the
  invariant is about stations not removed, and needs that those stay connected (`Standing`).
- `TakenCorrect`: only a redelivered packet is taken from its sender twice.
- `OverfullCorrect`, `GoodsCorrect`: `OverfullOnlyByReturn` and `GoodsLostOnlyWithStation`,
  under `NamedOnce`: packets name a good once. For others the code compares item by item and
  deducts the total, which wraps; then both are false (see below).

**`PlanetProofs`**, the economy (`EconomyIInv`).
- `EconomyCorrect`: `Spec => []EconomyInv`, types, deposits within their capacity and
  `TransientNeverUsed`. An economy is `Sound` if its deposits keep within their capacity and
  no transient good is in stock, imported or used. `EconomyIInv` says so
  of the settlement's economy and of the loop's copy: the copy is what the next economy is
  made from, and a copy is still computed on when its settlement has long been replaced.
- `BooksCorrect`: `BooksBalance`. A good is divided among its uses, then among
  the factories that run on it and among those who build with it, each time rounded down,
  and what another good lets a factory or a builder do may be less still. `SumPart` says that the rounded shares of a whole add up to no more than the whole;
  from it, what households, investors, factories and exports are given is no more than
  the supply (`SharesFit`), factories that are cut back use no more than they were given
  (`ScaledFits`), and investors build with no more than that (`BuiltFits`). If nothing
  domestic is short, all shares are whole and the balance is zero. `DugFits`: extractors are
  limited in proportion to what is left, each as if it were alone, so all of them together
  stay within the deposit if a full one is ample for them.
- `TradesCorrect`, `FoundedCorrect`: `TradesKept`, `FoundedStaysEmpty`, action by action.

`EconomyAssumption` takes from `data/factories.json` that an extractor makes one good; all
nineteen do. Which deposits are ample is up to a planet's data, so that is a condition in the
property and no assumption (the planet of `tests/economy_diagnose.rs` has some that are not).

**`PlanetProofs`**, the elevator. `ElevatorTypeCorrect`; `ElevatorGoodsCorrect`:
`GoodsLostOnlyWithoutCabin`, under `NamedOnce` for the same reason as in `MassDriverProofs`.
What transfers carry is a sum over the handlers: `Start` adds what it deducts, `Complete` takes
out what it delivers or returns, `Drop` and `RestartElevator` what the handlers had.

**`ConstructionProofs`** (`Typed`, `Phases`, `IInv`).
- `TypeCorrect`, `LifecycleCorrect`: a project moves forward, whatever is saved and restarted.
- `StationsKeptCorrect`: no step of a project replaces a standing station.
- `ConstructionCorrect`, `UpgradesNeverLostCorrect`: `UpgradesCounted`, a facility has grown by
  as many steps as upgrades of it were applied until something is loaded, and
  `UpgradesNeverLost` with restarts. `Phases` says that without a reload a project has one
  task at most and the two agree how far it is, `Standing` that upgrades are only of stations
  that stand, also those in the snapshot and those asked for. `AtLeast` bounds the levels from
  below, in the galaxy and in the snapshot, which a restart makes the galaxy again;
  `AtMost` bounds them from above until something is loaded or deleted.
- `FeeCorrect`: `FeeLostOnlyForGoods`, from the change of the sum of credits in each step,
  dropped requests included.

**`TradeProofs`** (`Typed`, `Alone`, `AllMoved`).
- `TypeCorrect`: with it that no player gets into debt. `EndedCorrect`: `EndedStaysEnded`.
- `TotalCorrect`: `TotalRespected`. With restarts only, a request has at most one loop
  (`Alone`), and what that loop has decided keeps to what is left of the total.
- `TradeCorrect`: `Spec => []TradeInv`, hence `ImportsCounted`. The strengthening `AllMoved`
  adds to what each request has counted what its loop is about to count, exactly, where
  `ImportsCounted` allows it a whole tick.

**`LocksProofs`**.
- `LocksCorrect`: if the locks can be ranked so that every operation asks only for locks that
  rank above all it holds, no tasks wait for each other in a circle, for any number of tasks,
  and queued writers count as waited for. Of the tasks in a circle, one waits for the lock
  of the highest rank; whoever it waits for waits for a higher one, or is in front of it in the
  queue, and the first of the queue waits for a holder.
- `SnapshotOrderCorrect`, `InvertedOrderCorrect`: save, load, the trade tick, docking and the
  economy loop have such a ranking; `get_ship` and `admin_delete_player` have one
  with those that do not hold the locks in the other order. That a mixture of the two
  deadlocks is shown for `admin_delete_player` and `save_snapshot` (`MCLocksInverted`); for
  `get_ship` the theorems say only which operations can be in a cycle with it.

Model-checked only: liveness (`NoShipStranded`, `TopicsDrained`, `TransfersEnd`,
`ProjectsComplete`, `TotalsEnd`, `OperationsEnd`), because TLAPS has no support for `ENABLED`
and fairness. Every other property of a passing run is a theorem.

## Where the code departs from its documentation

The passing properties state what the code does guarantee, and name its exceptions.
Most of the exceptions below are places where a document of the repository promises more;
the others are where it promises nothing and a reader may expect it. The last has a run of
its own that ends in a counterexample; the others are named in the properties and in the
refinement mapping, and the runs reach them.

- Market (`docs/market.md`): the rest of a partly filled market sell is returned at once
  (`routes/market.rs:179`) and again on cancellation (117: "Only unfilled quantity is
  refunded"). A partly filled market buy with a price is refunded that price though
  nothing was reserved (`routes/market.rs:435`, doc 29). A market buy is debited after
  matching without a look at the balance (`routes/market.rs:207`, doc 59). A sell is
  placed and nothing deducted when its station has gone since the check
  (`routes/market.rs:123`). After a restart orders of one price have lost their order of
  arrival, and partly filled market orders that carry a price are in the book
  (`persistence.rs:159`).
- Ships (`docs/shipping.md`, `docs/stations.md`): a trucking ship refused for lack of a
  bay has lost its cargo, and loses it again on the next attempt (`routes/ships.rs:254`,
  doc 277). Bays and storage are checked in one section and used in another
  (`routes/ships.rs:255`, `567`; `stations.md` 61 and 49). Two overlapping undock
  requests both deliver (`routes/ships.rs:590`, doc 284), and a late one can set a ship
  back to a status it has left (`routes/ships.rs:519`, doc 173). Between completion and
  delivery only the handler has the cargo: a restart from a snapshot of that moment or a
  client that disconnects loses it, and so does the deletion of the station, which a complete
  ship does not hold up; the request is then answered as a success (`routes/ships.rs:598`,
  `routes/stations.rs:288`). A trucking ship whose origin has gone is loaded with a cargo
  that was deducted nowhere (`routes/ships.rs:226`). A trucking request cut off after it has
  paid gets no ship (`routes/trucking.rs:99`). The trucking fee is rounded down
  (`routes/trucking.rs:75`).
- Mass drivers: connections outlive a station and may exceed the channels of the one
  rebuilt there (`routes/stations.rs:353`, `stations.md` 67); returned goods overfill
  (`consumer.rs:236`, `stations.md` 49); a packet being handled when the connection to the
  broker is lost is taken from the sender twice (`consumer.rs:65`); a packet that names a
  good twice is compared item by item and deducted as a whole, which wraps
  (`consumer.rs:134`, `155`).
- Space elevator (`docs/space-elevator.md`): a request that finds no cabin has lost its
  goods (`routes/space_elevator.rs:233`, doc 143: "either everything moves or nothing
  does"); so has one that is cut off while it sleeps, by a restart or by a client that
  disconnects (`routes/space_elevator.rs:250`), and one that finds its station gone, which is
  answered as a success (`routes/space_elevator.rs:313`); a cabin is free when the sleep ends
  and not when the transfer does, so it may be shared (`models/space_elevator.rs:64`,
  doc 129), its repair cut short (`192`, doc 140), and the station filled beyond its
  storage (doc 115).
- Construction (`docs/construction.md`): an upgrade saved between application and
  completion is applied again (`construction_lifecycle.rs:104`, doc 225); after a
  reload an old task may complete what the snapshot undid (`persistence.rs:182`, doc 207);
  the fee is lost when the goods are missing (`routes/construction.rs:124`, doc 237: "If the
  project fails validation, nothing is deducted"), or when the client disconnects. An
  admin's update of a station sets back the bays and the storage its owner paid for
  (`routes/stations.rs:209`). A project whose owner is deleted is dropped, but a request past
  its payment still records one, and a task past its transit still builds
  (`routes/players.rs:261`).
- Trade requests (`docs/trade.md`): after a reload two loops trade for one request, past
  its total (`persistence.rs:355`, doc 32); an import is counted in full when the
  warehouse had less (`trade_lifecycle.rs:269`), and cancelled when it is empty
  (`trade_lifecycle.rs:131`, doc 157).
- Economy: a settlement put or founded while the server runs has nobody living in it until
  the server starts anew (`routes/settlements.rs:155`, `construction_lifecycle.rs:257`;
  `docs/galaxy.md` 190: "Has a settlement with population and economy"), and that
  initialization wipes the imports waiting for it. A settlement replaced while a tick
  computes gets the old economy back (`routes/settlements.rs:153`); a system renamed
  meanwhile loses the tick and the trades drained for it (`routes/systems.rs:169`), and so
  does a restart from a snapshot of that moment (`economy/lifecycle.rs:83`). Transient
  goods are made at the end of a tick and cleared before the next, so nobody ever uses any
  (`economy/tick.rs:974`). Investors are allotted their part of a good even where another
  good of the building is short; the allotted rest is in no stock and in no book
  (`economy/tick.rs:760`; `tests/economy_tests.rs` 1115 states the balance, for inputs
  where this does not happen).
- Locks: `admin_delete_player` takes market before players and galaxy
  (`routes/players.rs:194`), `get_ship` ships before galaxy (`routes/ships.rs:118`); save
  and load take them the other way round.

## What is not modelled

- **Several goods**, except in `Economy`. Books, stocks and item lists of different goods
  share nothing but the capacity they are compared with, which the models compare with the
  total.
- **Time.** Durations, distances and deadlines are left open: a timer may run out at any
  moment after it was set. Only the coincidence that matters is kept (`SpaceElevator`).
- **The floating-point laws of the economy** (prices, wages, employment, demography, how
  much capital grows) and the fractions of a unit: out of TLC's reach; their results are
  inputs of `TradeRequests` and `Economy`. So is the completion of snapshots of older
  versions.
- **Integer widths of money.** Amounts are small; the product of a price and a quantity
  as `i64` is not taken to its limits.
- **Reloads** of a running server (`POST /admin/persistence/load`) beyond projects and trade
  requests: `Market`, `Ships`, `MassDriver`, `SpaceElevator` and `Economy` restart only.
- **Clients who disconnect from the market**: the handlers of `Market` end in the middle
  only by a restart. A handler dropped between two sections loses what it holds at that
  moment (`HandlerCredits`, the goods of a sell order between reservation and insertion), so
  `CreditsKept`, `GoodsKept` and `ImplementsLedger` are about handlers that are not dropped.
  The same goes for the admin's deletions, of which a dropped one is here a slow one.
- **Deletion of a planet or a system with a station on it** (`DELETE /planets`, `/systems`),
  which looks for no ships and no orders: stations go by `admin_delete_station` in `Market`
  and `Ships`. In `Ships` a deleted station is not built again.
- **Upgrades of bays and storage while ships dock**: `Ships` has them constant,
  `Construction` has no ships.
- **Players' registration, callbacks and tokens**: single writes that no other component
  depends on. Registration starts the consumer of `MassDriver`; that a deleted player's
  consumer is never stopped, and that players who appear by a reload have none until a
  restart, is not modelled. Neither is an item of a packet with quantity zero of a
  good the station has never held (`consumer.rs:157`).
- **Creation and deletion of whole systems** but for the planet on them, and edits of
  a planet's reference data: nothing is computed from them between two calls.
- **Queries, leaderboard, authentication, configuration, seed, error mapping, the Pulsar
  client, webhooks**: they keep no state of their own or are pure I/O.

## Plan

Done, in this order: `Market`, `Ships`, `MassDriver`, `SpaceElevator`, `Construction`,
`TradeRequests`, `Locks`; deletions and restarts in `Market` and `Ships`; `Ledger` and its
refinement; redelivery and restarts in `MassDriver`; station updates and deletions in
`Construction`; `Economy`; the proofs about `Ships`, `MassDriver`, `Locks`, `Construction`,
`TradeRequests`, `SpaceElevator`, `Market` and `Economy`, with every safety property of theirs that a
passing run checks, the refinement of `Ledger` included. Next:

1. Reloads of a running server in `Ships` and `MassDriver`: old timers and consumers beside
   recovered ones. Handlers of `Market` whose client disconnects.
2. Amounts at their width in `Market`: `price * quantity` modulo the word.
3. A ledger of goods for `Ships`, to compose with that of the exchange where a trade's goods
   go aboard.
