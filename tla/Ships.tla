-------------------------------- MODULE Ships --------------------------------
(***************************************************************************)
(* The shipping lifecycle: ship creation (src/routes/trucking.rs and the   *)
(* trade ships of src/routes/market.rs), the two transit timers of         *)
(* src/ship_lifecycle.rs, and the handlers GET /ships/{id}, PUT .../dock   *)
(* and PUT .../undock of src/routes/ships.rs.                              *)
(*                                                                         *)
(* dock and undock read the ship under one lock, check the station under   *)
(* another and write the ship under a third, so each is a thread with a    *)
(* program counter and every critical section is an action.  The station   *)
(* owner is the only caller whose request gets past the first checks, so   *)
(* callers are left out; there is one good.                                *)
(*                                                                         *)
(* Nothing keeps two requests about one ship apart.  The admin may delete  *)
(* a player with the ships he owns (src/routes/players.rs) and a station   *)
(* that no ship but complete ones still needs (src/routes/stations.rs); a  *)
(* client may disconnect, which ends its handler between two sections; and *)
(* the server may restart from a snapshot (src/persistence.rs).            *)
(*                                                                         *)
(* operation_complete_at only delays the move out of Loading and Unloading *)
(* until some later poll, so it is not a variable: Poll may happen at any  *)
(* moment after docking.                                                   *)
(***************************************************************************)
EXTENDS Integers, FiniteSets, Functions

CONSTANTS
  Stations,      \* planets with a station
  Owner,         \* the player of each station
  Players,
  Routes,        \* pairs of stations ships may be sent between
  ShipIds,       \* ids of the ships that may be spawned
  Cargoes,       \* quantities a ship may carry
  Threads,       \* concurrent request handlers
  Deletable,     \* players the admin may delete
  Removable,     \* stations the admin may delete
  DockingBays,   \* station.docking_bays
  MaxStorage,    \* station.max_storage
  BaseFee,       \* config.trucking.base_fee
  FeePerUnit,    \* config.trucking.fee_per_unit, a whole number here
  InitCredits,
  InitStock,
  InitShips,     \* the ships of the snapshot the server starts from
  MaxBreaks,     \* bound on the restarts and the requests dropped, together
  NoShip,        \* a ship id not used yet
  NoPlayer,      \* no player is being deleted
  NoStation      \* no station is being deleted

\* ShipStatus, in the order of the lifecycle.
Sequence == <<"in_transit_to_origin", "awaiting_origin_docking_auth", "loading",
              "awaiting_origin_undocking_auth", "in_transit",
              "awaiting_docking_auth", "unloading", "awaiting_undocking_auth",
              "complete">>

\* A deleted ship leaves the map; its record stays here for the handlers that
\* have a copy.
Statuses == {Sequence[i] : i \in 1..9} \cup {"deleted"}

Ship == [kind : {"trade", "trucking"}, from : Stations, to : Stations,
         cargo : Nat, status : Statuses]

\* Does this ship occupy a bay of station st?
Occupies(ship, st) ==
  /\ ship # NoShip
  /\ \/ /\ ship.from = st
        /\ ship.status \in {"loading", "awaiting_origin_undocking_auth"}
     \/ /\ ship.to = st
        /\ ship.status \in {"unloading", "awaiting_undocking_auth"}

\* What POST /trucking asks for.
Orders == {[from |-> route[1], to |-> route[2], cargo |-> q] : route \in Routes, q \in Cargoes}

\* The most one ship may carry.
LargestCargo == CHOOSE q \in Cargoes : \A r \in Cargoes : r <= q

ASSUME ShipsAssumption ==
  /\ IsFiniteSet(Stations) /\ IsFiniteSet(ShipIds)
  /\ IsFiniteSet(Threads) /\ Threads # {}
  /\ NoShip \notin Ship /\ NoShip \notin ShipIds
  /\ Owner \in [Stations -> Players]
  /\ Routes \subseteq Stations \X Stations
  /\ Cargoes \subseteq Nat /\ IsFiniteSet(Cargoes) /\ Cargoes # {}
  /\ Deletable \subseteq Players /\ NoPlayer \notin Players
  /\ Removable \subseteq Stations /\ NoStation \notin Stations
  /\ InitShips \in [ShipIds -> Ship \cup {NoShip}]
  /\ \A s \in ShipIds : InitShips[s] # NoShip => InitShips[s].cargo \in Cargoes
  /\ \A st \in Stations : Cardinality({s \in ShipIds : Occupies(InitShips[s], st)})
                            <= DockingBays + Cardinality(Threads) - 1
  /\ MaxBreaks \in Nat
  /\ DockingBays \in Nat /\ MaxStorage \in Nat
  /\ BaseFee \in Nat /\ FeePerUnit \in Nat
  /\ InitCredits \in Nat /\ InitStock \in Nat
  /\ InitStock <= MaxStorage + (Cardinality(Threads) - 1) * LargestCargo

VARIABLES
  ships,     \* AppState::ships
  stock,     \* station.inventory, of the one good
  credits,   \* player.credits
  paid,      \* trucking requests that have paid and not launched their ship
  toOrigin,  \* running spawn_transit_to_origin tasks, per ship
  transits,  \* running spawn_ship_transit tasks, per ship
  handler,   \* what each dock or undock handler is doing
  deleting,  \* the player the admin is deleting
  disowned,  \* deleted players: nobody owns their stations any more
  removing,  \* the station the admin is deleting
  gone,      \* stations that are deleted
  drops,     \* requests dropped so far
  restarts   \* restarts so far

fleet == <<ships, toOrigin, transits>>
money == <<credits, paid>>
server == <<deleting, disowned, removing, gone, drops, restarts>>
vars == <<fleet, stock, money, handler, server>>

Used(s) == ships[s] # NoShip
Exists(s) == Used(s) /\ ships[s].status # "deleted"
HasStatus(s, status) == Exists(s) /\ ships[s].status = status

\* count_docked_ships
DockedShips(st) == {s \in ShipIds : Occupies(ships[s], st)}

Docked(st) == Cardinality(DockedShips(st))

Idle == [pc |-> "idle", ship |-> NoShip]

\* recover_in_flight_tasks: one timer for each ship that is on this leg.
Recovered(leg, loaded) ==
  [s \in ShipIds |-> IF loaded[s] # NoShip /\ loaded[s].status = leg THEN 1 ELSE 0]

Init ==
  /\ ships = InitShips
  /\ stock = [st \in Stations |-> InitStock]
  /\ credits = [p \in Players |-> InitCredits]
  /\ paid = [o \in Orders |-> 0]
  /\ toOrigin = Recovered("in_transit_to_origin", InitShips)
  /\ transits = Recovered("in_transit", InitShips)
  /\ handler = [t \in Threads |-> Idle]
  /\ deleting = NoPlayer
  /\ disowned = {}
  /\ removing = NoStation
  /\ gone = {}
  /\ drops = 0
  /\ restarts = 0

At(t, pc) == handler[t].pc = pc
Goto(t, pc) == handler' = [handler EXCEPT ![t].pc = pc]
Finish(t) == handler' = [handler EXCEPT ![t] = Idle]
SetStatus(s, st) == ships' = [ships EXCEPT ![s].status = st]

\* A handler's last look at its ship: ShipNotFound ends the request.
WriteStatus(s, st) == IF Exists(s) THEN SetStatus(s, st) ELSE UNCHANGED ships

\* Is the planet's status still Connected?
Connected(st) == st \notin gone

Owned(st) == Connected(st) /\ Owner[st] \notin disowned

\* Mutant: one ship too many is let in.
BaysTakenOff(st) == Connected(st) /\ Docked(st) > DockingBays

\* No bay or no room, as the handlers see it: a planet without a station lets
\* every ship pass.
BaysTaken(st) == Connected(st) /\ Docked(st) >= DockingBays
StorageFull(ship) == Connected(ship.to) /\ stock[ship.to] + ship.cargo > MaxStorage

-----------------------------------------------------------------------------
(* Ships come into being, each with a timer to its origin *)

Launch(s, kind, from, to, q) ==
  /\ ~Used(s)
  /\ ships' = [ships EXCEPT ![s] = [kind |-> kind, from |-> from, to |-> to,
                                    cargo |-> q, status |-> Sequence[1]]]
  /\ toOrigin' = [toOrigin EXCEPT ![s] = @ + 1]

\* POST /trucking by the owner of the origin, who looks the stations up and pays
\* the fee; the cargo leaves the station when the ship docks there...
PayFee(o) ==
  LET fee == BaseFee + FeePerUnit * o.cargo
  IN  /\ o.from # o.to /\ Owned(o.from) /\ Connected(o.to)
      /\ credits[Owner[o.from]] >= fee
      /\ credits' = [credits EXCEPT ![Owner[o.from]] = @ - fee]
      /\ paid' = [paid EXCEPT ![o] = @ + 1]
      /\ UNCHANGED <<fleet, stock, handler, server>>

\* ...and another section launches the ship, without another look.
CreateTrucking(s, o) ==
  /\ paid[o] > 0
  /\ paid' = [paid EXCEPT ![o] = @ - 1]
  /\ Launch(s, "trucking", o.from, o.to, o.cargo)
  /\ UNCHANGED <<stock, credits, transits, handler, server>>

\* A trade between two stations: the goods were taken from the seller's
\* station when the sell order was placed.  The buyer's station may be gone.
CreateTrade(s, from, to, q) ==
  /\ from # to
  /\ q > 0
  /\ stock[from] >= q
  /\ stock' = [stock EXCEPT ![from] = @ - q]
  /\ Launch(s, "trade", from, to, q)
  /\ UNCHANGED <<money, transits, handler, server>>

\* spawn_transit_to_origin wakes up.
ArriveAtOrigin(s) ==
  /\ toOrigin[s] > 0
  /\ toOrigin' = [toOrigin EXCEPT ![s] = @ - 1]
  /\ IF HasStatus(s, "in_transit_to_origin")
     THEN SetStatus(s, "awaiting_origin_docking_auth") ELSE UNCHANGED ships
  /\ UNCHANGED <<stock, money, transits, handler, server>>

\* spawn_ship_transit wakes up.
Arrive(s) ==
  /\ transits[s] > 0
  /\ transits' = [transits EXCEPT ![s] = @ - 1]
  /\ IF HasStatus(s, "in_transit")
     THEN SetStatus(s, "awaiting_docking_auth") ELSE UNCHANGED ships
  /\ UNCHANGED <<stock, money, toOrigin, handler, server>>

-----------------------------------------------------------------------------
(* GET /ships/{id} and the polling both it and undock do *)

\* Mutant: a loaded ship leaves without undocking.
PolledAway(status) == CASE status = "loading"   -> "in_transit"
                        [] status = "unloading" -> "awaiting_undocking_auth"
                        [] OTHER                -> status

\* The status once the loading or unloading time has passed.
Polled(status) == CASE status = "loading"   -> "awaiting_origin_undocking_auth"
                    [] status = "unloading" -> "awaiting_undocking_auth"
                    [] OTHER                -> status

Poll(s) ==
  /\ Exists(s)
  /\ Polled(ships[s].status) # ships[s].status
  /\ SetStatus(s, Polled(ships[s].status))
  /\ UNCHANGED <<stock, money, toOrigin, transits, handler, server>>

-----------------------------------------------------------------------------
(* PUT /ships/{id}/dock *)

\* A request about ship s reaches an idle handler.
MayStart(t, s) == At(t, "idle") /\ Exists(s)

\* The snapshot of the ship; its status selects the branch.  Trucking ships
\* have their cargo deducted before the docking bay is checked.
Dock(t, s) ==
  /\ MayStart(t, s)
  /\ \/ /\ ships[s].status = "awaiting_origin_docking_auth"
        /\ Owned(ships[s].from)
        /\ handler' = [handler EXCEPT ![t] =
             [pc |-> IF ships[s].kind = "trucking" THEN "deduct" ELSE "origin_bay",
              ship |-> s]]
     \/ /\ ships[s].status = "awaiting_docking_auth"
        /\ Owned(ships[s].to)
        /\ handler' = [handler EXCEPT ![t] = [pc |-> "dest_bay", ship |-> s]]
  /\ UNCHANGED <<fleet, stock, money, server>>

DeductCargo(t) ==
  LET ship == ships[handler[t].ship]
  IN  /\ At(t, "deduct")
      /\ \/ /\ Connected(ship.from) /\ stock[ship.from] >= ship.cargo
            /\ stock' = [stock EXCEPT ![ship.from] = @ - ship.cargo]
            /\ Goto(t, "origin_bay")
         \/ /\ Connected(ship.from) /\ stock[ship.from] < ship.cargo
            /\ UNCHANGED stock                \* InsufficientCargo
            /\ Finish(t)
         \/ /\ ~Connected(ship.from)          \* nothing to look at, nothing deducted
            /\ UNCHANGED stock
            /\ Goto(t, "origin_bay")
      /\ UNCHANGED <<fleet, money, server>>

\* NoDockingBayAvailable ends the request; a deducted cargo is not put back.
OriginBayCheck(t) ==
  /\ At(t, "origin_bay")
  /\ IF BaysTaken(ships[handler[t].ship].from)
     THEN Finish(t) ELSE Goto(t, "load")
  /\ UNCHANGED <<fleet, stock, money, server>>

\* Origin docking does not look at the status again.
StartLoading(t) ==
  /\ At(t, "load")
  /\ WriteStatus(handler[t].ship, "loading")
  /\ Finish(t)
  /\ UNCHANGED <<stock, money, toOrigin, transits, server>>

DestBayCheck(t) ==
  /\ At(t, "dest_bay")
  /\ IF BaysTaken(ships[handler[t].ship].to)
     THEN Finish(t) ELSE Goto(t, "unload")
  /\ UNCHANGED <<fleet, stock, money, server>>

\* Destination docking does.
StartUnloading(t) ==
  /\ At(t, "unload")
  /\ IF ships[handler[t].ship].status = "awaiting_docking_auth"
     THEN SetStatus(handler[t].ship, "unloading") ELSE UNCHANGED ships
  /\ Finish(t)
  /\ UNCHANGED <<stock, money, toOrigin, transits, server>>

-----------------------------------------------------------------------------
(* PUT /ships/{id}/undock *)

\* Poll and snapshot under one ships.write().
Undock(t, s) ==
  LET status == Polled(ships[s].status)
  IN  /\ MayStart(t, s)
      /\ \/ /\ status = "awaiting_origin_undocking_auth"
            /\ Owned(ships[s].from)
            /\ handler' = [handler EXCEPT ![t] = [pc |-> "depart", ship |-> s]]
         \/ /\ status = "awaiting_undocking_auth"
            /\ Owned(ships[s].to)
            /\ handler' = [handler EXCEPT ![t] = [pc |-> "storage", ship |-> s]]
      /\ SetStatus(s, status)
      /\ UNCHANGED <<stock, money, toOrigin, transits, server>>

\* Mutant: no timer is started.
DepartWithoutTimer(t) ==
  /\ At(t, "depart")
  /\ WriteStatus(handler[t].ship, "in_transit")
  /\ Finish(t)
  /\ UNCHANGED <<stock, money, toOrigin, transits, server>>

\* The status becomes InTransit, whatever it is by now, and a timer starts.
Depart(t) ==
  LET s == handler[t].ship
  IN  /\ At(t, "depart")
      /\ WriteStatus(s, "in_transit")
      /\ transits' = [transits EXCEPT ![s] = IF Exists(s) THEN @ + 1 ELSE @]
      /\ Finish(t)
      /\ UNCHANGED <<stock, money, toOrigin, server>>

\* Mutant: the cargo is left out of the comparison.
StorageCheckBefore(t) ==
  /\ At(t, "storage")
  /\ IF StorageFull([ships[handler[t].ship] EXCEPT !.cargo = 0])
     THEN Finish(t) ELSE Goto(t, "complete")
  /\ UNCHANGED <<fleet, stock, money, server>>

\* Mutant: the ship is marked complete before its storage is known to suffice.
StorageCheckMarked(t) ==
  /\ At(t, "storage")
  /\ WriteStatus(handler[t].ship, "complete")
  /\ IF StorageFull(ships[handler[t].ship]) THEN Finish(t) ELSE Goto(t, "complete")
  /\ UNCHANGED <<stock, money, toOrigin, transits, server>>

StorageCheck(t) ==
  /\ At(t, "storage")
  /\ IF StorageFull(ships[handler[t].ship]) THEN Finish(t) ELSE Goto(t, "complete")
  /\ UNCHANGED <<fleet, stock, money, server>>

\* Mutant: the ship is not marked before its cargo is delivered.
CompleteUnmarked(t) ==
  /\ At(t, "complete")
  /\ Goto(t, "deliver")
  /\ UNCHANGED <<fleet, stock, money, server>>

Complete(t) ==
  /\ At(t, "complete")
  /\ WriteStatus(handler[t].ship, "complete")
  /\ IF Exists(handler[t].ship) THEN Goto(t, "deliver") ELSE Finish(t)
  /\ UNCHANGED <<stock, money, toOrigin, transits, server>>

\* The cargo of a ship whose station has gone since it was marked complete is
\* dropped, and the request succeeds.
Deliver(t) ==
  LET ship == ships[handler[t].ship]
  IN  /\ At(t, "deliver")
      /\ stock' = [stock EXCEPT ![ship.to] = IF Connected(ship.to) THEN @ + ship.cargo ELSE @]
      /\ Finish(t)
      /\ UNCHANGED <<fleet, money, server>>

-----------------------------------------------------------------------------
(* The admin deletes a player or a station, clients go, the server restarts *)

\* admin_delete_player drops the player's ships from the map, whatever they and
\* their handlers and timers are doing...
DeleteShips(p) ==
  /\ deleting = NoPlayer
  /\ p \in Deletable \ disowned
  /\ ships' = [s \in ShipIds |-> IF Exists(s) /\ Owner[ships[s].from] = p
                                 THEN [ships[s] EXCEPT !.status = "deleted"]
                                 ELSE ships[s]]
  /\ deleting' = p
  /\ UNCHANGED <<toOrigin, transits, stock, money, handler, disowned, removing, gone, drops,
                 restarts>>

\* ...and some sections later clears the owner of the player's stations.
Disown ==
  /\ deleting # NoPlayer
  /\ disowned' = disowned \cup {deleting}
  /\ deleting' = NoPlayer
  /\ UNCHANGED <<fleet, stock, money, handler, removing, gone, drops, restarts>>

\* admin_delete_station looks for ships that are not complete...
CheckShips(st) ==
  /\ removing = NoStation
  /\ st \in Removable /\ Connected(st)
  /\ \A s \in ShipIds : Exists(s) /\ st \in {ships[s].from, ships[s].to}
                         => ships[s].status = "complete"
  /\ removing' = st
  /\ UNCHANGED <<fleet, stock, money, handler, deleting, disowned, gone, drops, restarts>>

\* ...and some sections later takes the station away, whatever has happened to
\* it since.
RemoveStation ==
  /\ removing # NoStation
  /\ gone' = gone \cup {removing}
  /\ stock' = [stock EXCEPT ![removing] = 0]
  /\ removing' = NoStation
  /\ UNCHANGED <<fleet, money, handler, deleting, disowned, drops, restarts>>

\* A client disconnects, and the server drops the future of its handler where it
\* waits for the lock of its next section.
Drop(t) ==
  /\ drops + restarts < MaxBreaks
  /\ drops' = drops + 1
  /\ ~At(t, "idle")
  /\ Finish(t)
  /\ UNCHANGED <<fleet, stock, money, deleting, disowned, removing, gone, restarts>>

\* The same for POST /trucking: the fee is paid and no ship comes.
DropOrder(o) ==
  /\ drops + restarts < MaxBreaks
  /\ drops' = drops + 1
  /\ paid[o] > 0
  /\ paid' = [paid EXCEPT ![o] = @ - 1]
  /\ UNCHANGED <<fleet, stock, credits, handler, deleting, disowned, removing, gone, restarts>>

\* Mutant: ships on their way to their origin are not recovered.
RestartForgetful ==
  /\ drops + restarts < MaxBreaks
  /\ restarts' = restarts + 1
  /\ toOrigin' = [s \in ShipIds |-> 0]
  /\ transits' = Recovered("in_transit", ships)
  /\ handler' = [t \in Threads |-> Idle]
  /\ paid' = [o \in Orders |-> 0]
  /\ deleting' = NoPlayer
  /\ removing' = NoStation
  /\ UNCHANGED <<ships, stock, credits, disowned, gone, drops>>

\* Mutant: the timers of before go on.
RestartBeside ==
  /\ drops + restarts < MaxBreaks
  /\ restarts' = restarts + 1
  /\ toOrigin' = [s \in ShipIds |-> toOrigin[s] + Recovered("in_transit_to_origin", ships)[s]]
  /\ transits' = [s \in ShipIds |-> transits[s] + Recovered("in_transit", ships)[s]]
  /\ handler' = [t \in Threads |-> Idle]
  /\ paid' = [o \in Orders |-> 0]
  /\ deleting' = NoPlayer
  /\ removing' = NoStation
  /\ UNCHANGED <<ships, stock, credits, disowned, gone, drops>>

\* The server stops and starts from a snapshot.  What happened after the save is
\* gone, so the restart is taken at the save.  Requests and timers are gone;
\* the timers are started again.
Restart ==
  /\ drops + restarts < MaxBreaks
  /\ restarts' = restarts + 1
  /\ toOrigin' = Recovered("in_transit_to_origin", ships)
  /\ transits' = Recovered("in_transit", ships)
  /\ handler' = [t \in Threads |-> Idle]
  /\ paid' = [o \in Orders |-> 0]
  /\ deleting' = NoPlayer
  /\ removing' = NoStation
  /\ UNCHANGED <<ships, stock, credits, disowned, gone, drops>>

-----------------------------------------------------------------------------
Create == \/ \E o \in Orders : PayFee(o)
          \/ \E s \in ShipIds, o \in Orders : CreateTrucking(s, o)
          \/ \E s \in ShipIds, route \in Routes, q \in Cargoes : CreateTrade(s, route[1], route[2], q)

Timer(s) == ArriveAtOrigin(s) \/ Arrive(s)

Request == \E t \in Threads, s \in ShipIds : Dock(t, s) \/ Undock(t, s)

Step(t) == \/ DeductCargo(t) \/ OriginBayCheck(t) \/ StartLoading(t)
           \/ DestBayCheck(t) \/ StartUnloading(t)
           \/ Depart(t) \/ StorageCheck(t) \/ Complete(t) \/ Deliver(t)

Administer == \/ (\E p \in Deletable : DeleteShips(p)) \/ Disown
              \/ (\E st \in Removable : CheckShips(st)) \/ RemoveStation

Disconnect == (\E t \in Threads : Drop(t)) \/ \E o \in Orders : DropOrder(o)

Next == \/ Create \/ Request
        \/ \E s \in ShipIds : Timer(s) \/ Poll(s)
        \/ \E t \in Threads : Step(t)
        \/ Administer \/ Disconnect \/ Restart

\* tokio wakes every sleeping task: the timers are tasks of their own.  Requests
\* come when the players please and may be dropped, so no handler is fair.
Fairness == \A s \in ShipIds : WF_vars(ArriveAtOrigin(s)) /\ WF_vars(Arrive(s))

Spec == Init /\ [][Next]_vars /\ Fairness

-----------------------------------------------------------------------------
(* Properties *)

\* Every variable has the shape the Rust types give it, no trucking fee takes
\* an account below zero, and a ship has one timer to its origin at most.
TypeOK ==
  /\ ships \in [ShipIds -> Ship \cup {NoShip}]
  /\ stock \in [Stations -> Nat]
  /\ credits \in [Players -> Nat]
  /\ paid \in [Orders -> Nat]
  /\ toOrigin \in [ShipIds -> 0..1]
  /\ transits \in [ShipIds -> Nat]
  /\ handler \in [Threads ->
       [pc : {"idle", "deduct", "origin_bay", "load", "dest_bay", "unload",
              "depart", "storage", "complete", "deliver"},
        ship : ShipIds \cup {NoShip}]]
  /\ deleting \in Players \cup {NoPlayer}
  /\ disowned \subseteq Players
  /\ removing \in Stations \cup {NoStation}
  /\ gone \subseteq Stations
  /\ drops \in Nat /\ restarts \in Nat

\* The status on which handler t decided what to do.
Seen(t) ==
  CASE handler[t].pc \in {"deduct", "origin_bay", "load"} -> "awaiting_origin_docking_auth"
    [] handler[t].pc \in {"dest_bay", "unload"}           -> "awaiting_docking_auth"
    [] At(t, "depart")                                    -> "awaiting_origin_undocking_auth"
    [] handler[t].pc \in {"storage", "complete"}          -> "awaiting_undocking_auth"
    [] OTHER                                              -> "complete"

\* Handler t takes a step in which it writes the ship, and the ship is no longer
\* what the handler saw.
WritesStale(t) ==
  /\ handler[t].pc \in {"load", "depart", "complete"}
  /\ ships[handler[t].ship].status # Seen(t)
  /\ handler'[t] # handler[t]

\* Every ship follows the documented sequence of statuses: a step leaves the
\* status alone, moves it to the next one, or deletes the ship.  The exception
\* is a handler that writes what it decided on a snapshot, after another
\* request about the same ship has moved it on: three of the four writes do not
\* look again.
ShipFollowsSequence ==
  [][\A s \in ShipIds : Exists(s) /\ ships'[s] # ships[s] =>
       \/ ships'[s].status = "deleted"
       \/ \E i \in 1..8 : /\ ships[s].status = Sequence[i]
                          /\ ships'[s].status = Sequence[i + 1]
       \/ \E t \in Threads : handler[t].ship = s /\ WritesStale(t)]_vars

\* Is the cargo of ship s aboard?  A trucking ship's once it has loaded, a trade
\* ship's from the trade; until the ship is complete.
Loaded(s) ==
  /\ Exists(s) /\ ships[s].status # "complete"
  /\ \/ ships[s].kind = "trade"
     \/ ships[s].status \notin {"in_transit_to_origin", "awaiting_origin_docking_auth"}

\* The handlers that have the cargo of ship s between two critical sections.
Holding(s) ==
  {t \in Threads : /\ handler[t].ship = s
                   /\ \/ At(t, "deliver")
                      \/ /\ ships[s].kind = "trucking"
                         /\ handler[t].pc \in {"origin_bay", "load"}}

Cargo(s) == ships[s].cargo * (Cardinality(Holding(s)) + (IF Loaded(s) THEN 1 ELSE 0))

Afloat == SumFunctionOnSet([s \in ShipIds |-> IF Used(s) THEN Cargo(s) ELSE 0], ShipIds)

TotalGoods == SumFunctionOnSet(stock, Stations) + Afloat

\* Shipping makes no goods: what a station receives some station gave up, once;
\* unless two requests about one ship overlap, and one of them loads, sends or
\* completes a ship that the other has already moved on; or the origin of a
\* trucking ship goes before its cargo is deducted, and the ship is loaded from
\* a station that is not there.
GoodsMultiplyOnlyByStaleWrite ==
  [][TotalGoods' > TotalGoods =>
       \/ \E t \in Threads : WritesStale(t)
       \/ \E t \in Threads : At(t, "deduct") /\ ~Connected(ships[handler[t].ship].from)]_vars

\* The request of handler t, which holds a cargo, ends before it puts it
\* anywhere: its client has disconnected, or the server restarts.
CutOff(t) ==
  /\ \E s \in ShipIds : Used(s) /\ t \in Holding(s)
  /\ At(t, "idle")' /\ (drops' > drops \/ restarts' > restarts)

\* Shipping loses no goods either, whatever is checked and refused on the way,
\* save in six places: a trucking ship that finds no bay at its origin has had
\* its cargo deducted already, and will have it deducted again; two requests that
\* load one ship deduct twice; a ship is marked complete, and so holds up the
\* deletion of its station no longer, before its cargo is delivered; the ships
\* of a deleted player go with their cargo, and a deleted station goes with its
\* stock; and so does what a handler holds that is cut off, be it between the
\* completion of a ship and the delivery of its cargo.
GoodsLostOnlyWithoutBay ==
  [][TotalGoods' < TotalGoods =>
       \/ \E t \in Threads : /\ At(t, "origin_bay") /\ At(t, "idle")'
                             /\ ships[handler[t].ship].kind = "trucking"
                             /\ BaysTaken(ships[handler[t].ship].from)
       \/ \E t \in Threads : At(t, "load") /\ WritesStale(t)
       \/ \E t \in Threads : /\ At(t, "deliver") /\ At(t, "idle")'
                             /\ ~Connected(ships[handler[t].ship].to)
       \/ deleting # deleting'
       \/ \E st \in Stations : Connected(st) /\ ~Connected(st)'
       \/ \E t \in Threads : CutOff(t)]_vars

\* A station serves no more ships than it has docking bays, and one more for
\* each handler that runs beside another: dock_ship checks and writes in
\* separate sections, so each may slip in one ship.
BayOverrunBounded ==
  \A st \in Stations \ gone : Docked(st) <= DockingBays + Cardinality(Threads) - 1

\* Unloading fills a station up to its storage, and beyond it by at most what
\* the handlers beside one another have checked and not delivered.
StorageOverrunBounded ==
  \A st \in Stations \ gone :
    stock[st] <= MaxStorage + (Cardinality(Threads) - 1) * LargestCargo

OnItsWay(s) == HasStatus(s, "in_transit_to_origin") \/ HasStatus(s, "in_transit")

\* A ship on its way has a timer that will wake up, whatever requests overlap
\* and whenever the server restarts; nothing else would move it.
TimersRun ==
  \A s \in ShipIds : /\ HasStatus(s, "in_transit_to_origin") => toOrigin[s] > 0
                     /\ HasStatus(s, "in_transit") => transits[s] > 0

\* A ship in transit, to the origin or to the destination, arrives: no
\* interleaving of handlers, deletions and restarts leaves one on its way.
NoShipStranded == \A s \in ShipIds : OnItsWay(s) ~> ~OnItsWay(s)
=============================================================================
