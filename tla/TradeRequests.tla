----------------------------- MODULE TradeRequests -----------------------------
(***************************************************************************)
(* Trade requests and the economy they trade with: the handlers of         *)
(* src/routes/trade.rs, the loop of src/trade_lifecycle.rs that runs every *)
(* active request, the loop of src/economy/lifecycle.rs that ticks the     *)
(* economy, and the snapshots that restart the request loops.              *)
(*                                                                         *)
(* Neither loop holds a lock for a whole tick.  A request loop reads its   *)
(* request, reads the galaxy, writes galaxy and players, and writes the    *)
(* request; the economy loop takes a copy of the economy with its trade    *)
(* accumulators, computes on the copy, and writes it back later, merging   *)
(* the trades of the meantime.                                             *)
(*                                                                         *)
(* One planet, one good, one player.  The economy keeps fractions, in      *)
(* grains of 1/Grain unit; the warehouse and trades are in whole units.    *)
(* Prices are in 1/PriceUnit credit.  What the economy produces, demands   *)
(* and charges is any value of a small set: its floating-point model is    *)
(* left out, and the rationing of exports is kept.                         *)
(***************************************************************************)
EXTENDS Integers, Sequences, FiniteSets, Functions

CONSTANTS
  RequestIds,
  Orders,      \* the request bodies players may send
  Grain, PriceUnit,
  Prices,      \* prices the economy may arrive at
  Demands,     \* what households, investment and factories may ask in a tick
  Outputs,     \* what factories may produce in a tick
  InitCredits, InitWares, InitStock,
  MaxDemand,   \* bound on exports_this_tick, above all there can be to export
  MaxDone,     \* bound on cumulative_generated where nothing reads it
  MaxTicks,    \* bound on economy ticks
  MaxLoads,    \* bound on restarts and reloads
  Loading,     \* how snapshots are loaded: by a "restart", by a "reload"
  Removable,   \* may the admin remove the station?
  NoRequest, NoCopy, NoSave

Directions == {"import", "export"}
Modes      == {"total", "price_limit"}
Statuses   == {"active", "completed", "cancelled", "auto_cancelled"}

\* CreateTradeRequestBody: limit is total_quantity or price_limit, by mode.
Order == [direction : Directions, mode : Modes, rate : Nat \ {0}, limit : Nat]
Request == [order : Order, done : Nat, status : Statuses]

ASSUME TradeAssumption ==
  /\ IsFiniteSet(RequestIds)
  /\ Orders \subseteq Order
  /\ Grain \in Nat \ {0} /\ PriceUnit \in Nat \ {0}
  /\ Prices \subseteq Nat \ {0} /\ Prices # {}
  /\ Demands \subseteq Nat /\ Outputs \subseteq Nat
  /\ InitCredits \in Nat /\ InitWares \in Nat /\ InitStock \in Nat
  /\ MaxDemand \in Nat /\ MaxDone \in Nat /\ MaxTicks \in Nat /\ MaxLoads \in Nat
  /\ Loading \subseteq {"restart", "reload"} /\ Removable \in BOOLEAN
  /\ \A order \in Orders : order.mode = "total" => order.limit + order.rate <= MaxDone
  /\ NoRequest \notin Request

VARIABLES
  connected,  \* is the planet PlanetStatus::Connected?
  wares,      \* space_elevator.warehouse.inventory of the good
  credits,    \* player.credits
  econ,       \* settlement.economy
  copy,       \* the copy the economy loop works on, or NoCopy
  ticks,      \* economy ticks so far
  request,    \* AppState::trade_requests
  loop,       \* the loops of each request, by slot
  loads,      \* the snapshots loaded so far: by restart or by reload
  recovering, \* loaded, but loops not recovered yet
  saved       \* the snapshot in S3

player == <<wares, credits>>
economy == <<econ, copy, ticks>>
trading == <<request, loop>>
loading == <<loads, recovering, saved>>
vars == <<connected, player, economy, trading, loading>>

\* A loop per request, and one more for each snapshot loaded.
Slots == 0..MaxLoads
None == [pc |-> "none"]
Sleeping == [pc |-> "sleep"]

Smaller(m, n) == IF m <= n THEN m ELSE n
Monus(m, n) == IF n <= m THEN m - n ELSE 0

\* f64::round of the price of n units.
Cost(n, price) == (2 * n * price + PriceUnit) \div (2 * PriceUnit)

Init ==
  /\ connected = TRUE
  /\ wares = InitWares
  /\ credits = InitCredits
  /\ econ \in [stock : {InitStock}, imports : {0}, exports : {0}, budget : {0}, price : Prices]
  /\ copy = NoCopy
  /\ ticks = 0
  /\ request = [id \in RequestIds |-> NoRequest]
  /\ loop = [id \in RequestIds |-> [i \in Slots |-> None]]
  /\ loads = <<>>
  /\ recovering = FALSE
  /\ saved = NoSave

-----------------------------------------------------------------------------
(* Handlers *)

\* POST /trade.  The station is checked under another lock than the insertion;
\* nobody can tell a removal between the two from one after them.
Create(id, order) ==
  /\ connected
  /\ request[id] = NoRequest /\ \A i \in Slots : loop[id][i] = None
  /\ request' = [request EXCEPT ![id] = [order |-> order, done |-> 0, status |-> "active"]]
  /\ loop' = [loop EXCEPT ![id][0] = Sleeping]
  /\ UNCHANGED <<connected, player, economy, loading>>

Active(id) == request[id] # NoRequest /\ request[id].status = "active"

End(id, status) == request' = [request EXCEPT ![id].status = status]

\* DELETE /trade/{request_id}
Cancel(id) ==
  /\ Active(id)
  /\ End(id, "cancelled")
  /\ UNCHANGED <<connected, player, economy, loop, loading>>

-----------------------------------------------------------------------------
(* The loop of a request *)

Goto(id, i, pc) == loop' = [loop EXCEPT ![id][i].pc = pc]
Exit(id, i) == loop' = [loop EXCEPT ![id][i] = None]

\* The loop wakes and copies its request, if that is still active.
Wake(id, i) ==
  /\ loop[id][i].pc = "sleep"
  /\ loop' = [loop EXCEPT ![id][i] =
       IF Active(id) THEN [pc |-> "check", snapshot |-> request[id]] ELSE None]
  /\ UNCHANGED <<connected, player, economy, request, loading>>

\* Mutant: the last tick is not cut to what remains.
UnitsWhole(snapshot) ==
  IF snapshot.order.mode = "total" /\ snapshot.done >= snapshot.order.limit THEN 0
  ELSE snapshot.order.rate

\* The units of this tick.
Units(snapshot) ==
  IF snapshot.order.mode = "total"
  THEN Smaller(snapshot.order.rate, Monus(snapshot.order.limit, snapshot.done))
  ELSE snapshot.order.rate

Ready(snapshot) == IF Units(snapshot) = 0 THEN "finish" ELSE "apply"

\* check_auto_cancel
MustCancel(snapshot) == ~connected \/ (snapshot.order.direction = "import" /\ wares = 0)

Check(id, i) ==
  LET snapshot == loop[id][i].snapshot
  IN  /\ loop[id][i].pc = "check"
      /\ Goto(id, i, IF MustCancel(snapshot) THEN "cancel"
                     ELSE IF snapshot.order.mode = "price_limit" THEN "price"
                     ELSE Ready(snapshot))
      /\ UNCHANGED <<connected, player, economy, request, loading>>

\* check_price_condition, under a galaxy.read() of its own.
GoodPrice(order) ==
  /\ connected
  /\ IF order.direction = "import" THEN econ.price > order.limit ELSE econ.price < order.limit

CheckPrice(id, i) ==
  /\ loop[id][i].pc = "price"
  /\ loop' = [loop EXCEPT ![id][i] =
       IF GoodPrice(@.snapshot.order) THEN [@ EXCEPT !.pc = "apply"] ELSE Sleeping]
  /\ UNCHANGED <<connected, player, economy, request, loading>>

\* The request is cancelled, or has nothing left to trade.
Close(id, i) ==
  /\ loop[id][i].pc \in {"cancel", "finish"}
  /\ IF Active(id)
     THEN End(id, IF loop[id][i].pc = "cancel" THEN "auto_cancelled" ELSE "completed")
     ELSE UNCHANGED request
  /\ Exit(id, i)
  /\ UNCHANGED <<connected, player, economy, loading>>

\* Mutant: what the budget allows is delivered without asking who can pay.
ExportOnCredit(units) ==
  LET actual    == Smaller(units * Grain, econ.budget)
      delivered == actual \div Grain
  IN  /\ econ' = [econ EXCEPT !.exports = Smaller(@ + units * Grain, MaxDemand), !.budget = @ - actual]
      /\ wares' = wares + delivered
      /\ credits' = credits - Cost(delivered, econ.price)

\* An export asks for units, is given what the budget of the last economy tick
\* allows, and takes to the warehouse what the player can pay.  The budget is
\* used up by what it gave, paid or not, in fractions of a unit too.
Export(units) ==
  LET actual     == Smaller(units * Grain, econ.budget)
      delivered  == actual \div Grain
      affordable == IF Cost(delivered, econ.price) > 0
                    THEN Smaller(delivered, (credits * PriceUnit) \div econ.price) ELSE delivered
  IN  /\ econ' = [econ EXCEPT !.exports = Smaller(@ + units * Grain, MaxDemand), !.budget = @ - actual]
      /\ wares' = wares + affordable
      /\ credits' = credits - Cost(affordable, econ.price)

\* An import takes what the warehouse has.
Import(units) ==
  LET transferred == Smaller(units, wares)
  IN  /\ econ' = [econ EXCEPT !.imports = @ + transferred * Grain]
      /\ wares' = wares - transferred
      /\ credits' = credits + Cost(transferred, econ.price)

\* apply_trade_tick, whatever has become of the request by now.
Apply(id, i) ==
  LET snapshot == loop[id][i].snapshot
  IN  /\ loop[id][i].pc = "apply"
      /\ \/ /\ connected /\ snapshot.order.direction = "export"
            /\ Export(Units(snapshot))
         \/ /\ connected /\ snapshot.order.direction = "import"
            /\ Import(Units(snapshot))
         \/ ~connected /\ UNCHANGED <<econ, wares, credits>>
      /\ Goto(id, i, "count")
      /\ UNCHANGED <<connected, copy, ticks, request, loading>>

\* Mutant: the count of the last tick replaces those before it.
CountedLast(r, units) ==
  [r EXCEPT !.done = units,
            !.status = IF r.order.mode = "total" /\ units >= r.order.limit
                       THEN "completed" ELSE @]

\* The request with units more generated.
Counted(r, units) ==
  LET done == r.done + units
  IN  IF r.order.mode = "total"
      THEN [r EXCEPT !.done = done,
                     !.status = IF done >= r.order.limit THEN "completed" ELSE @]
      ELSE [r EXCEPT !.done = Smaller(done, MaxDone)]

\* Mutant: the request is counted, and completed, without asking whether it
\* is still active.
CountAnyway(id, i) ==
  /\ loop[id][i].pc = "count"
  /\ request[id] # NoRequest
  /\ request' = [request EXCEPT ![id] = Counted(@, Units(loop[id][i].snapshot))]
  /\ loop' = [loop EXCEPT ![id][i] = IF request'[id].status = "active" THEN Sleeping ELSE None]
  /\ UNCHANGED <<connected, player, economy, loading>>

\* Mutant: the loop returns after its first tick.
CountOnce(id, i) ==
  /\ loop[id][i].pc = "count"
  /\ request' = IF Active(id)
                THEN [request EXCEPT ![id] = Counted(@, Units(loop[id][i].snapshot))] ELSE request
  /\ Exit(id, i)
  /\ UNCHANGED <<connected, player, economy, loading>>

\* The tick is counted, if the request is still active.
Count(id, i) ==
  /\ loop[id][i].pc = "count"
  /\ \/ /\ Active(id)
        /\ request' = [request EXCEPT ![id] = Counted(@, Units(loop[id][i].snapshot))]
        /\ loop' = [loop EXCEPT ![id][i] =
             IF request'[id].status = "active" THEN Sleeping ELSE None]
     \/ /\ request[id] = NoRequest
        /\ loop' = [loop EXCEPT ![id][i] = Sleeping]
        /\ UNCHANGED request
     \/ /\ request[id] # NoRequest /\ ~Active(id)
        /\ Exit(id, i)
        /\ UNCHANGED request
  /\ UNCHANGED <<connected, player, economy, loading>>

-----------------------------------------------------------------------------
(* The economy loop *)

\* Under galaxy.write(): copy the economy and drain its accumulators.
CopyEconomy ==
  /\ copy = NoCopy
  /\ ticks < MaxTicks
  /\ copy' = [economy |-> econ, ticked |-> FALSE]
  /\ econ' = [econ EXCEPT !.imports = 0, !.exports = 0]
  /\ ticks' = ticks + 1
  /\ UNCHANGED <<connected, player, trading, loading>>

\* What is left for exports once the domestic demand is served.
Exported(exports, supply, demand) ==
  IF demand <= supply THEN Smaller(exports, supply - demand) ELSE 0

\* economy_tick, on the copy: imports join the stock, the domestic demand comes
\* before exports, production arrives after both.
Ticked(e, demand, output, price) ==
  LET supply == e.stock + e.imports
      budget == Exported(e.exports, supply, demand)
  IN  [stock |-> Monus(supply, Smaller(demand, supply) + budget) + output,
       imports |-> 0, exports |-> 0, budget |-> budget, price |-> price]

TickEconomy ==
  /\ copy # NoCopy /\ ~copy.ticked
  /\ \E demand \in Demands, output \in Outputs, price \in Prices :
       copy' = [economy |-> Ticked(copy.economy, demand, output, price), ticked |-> TRUE]
  /\ UNCHANGED <<connected, player, econ, ticks, trading, loading>>

\* The copy, with the trades of the meantime; the budget is the new one.
Merged(e) == [e EXCEPT !.imports = @ + econ.imports, !.exports = @ + econ.exports]

\* Under galaxy.write() again.
WriteEconomy ==
  /\ copy # NoCopy /\ copy.ticked
  /\ econ' = Merged(copy.economy)
  /\ copy' = NoCopy
  /\ UNCHANGED <<connected, player, ticks, trading, loading>>

-----------------------------------------------------------------------------
(* The station is removed and built again; its settlement stays *)

RemoveStation ==
  /\ Removable /\ connected
  /\ connected' = FALSE
  /\ wares' = 0
  /\ UNCHANGED <<credits, economy, trading, loading>>

InstallStation ==
  /\ ~connected
  /\ connected' = TRUE
  /\ UNCHANGED <<player, economy, trading, loading>>

-----------------------------------------------------------------------------
(* Snapshots *)

Save ==
  /\ Len(loads) < MaxLoads
  /\ saved' = [connected |-> connected, wares |-> wares, credits |-> credits,
               econ |-> econ, request |-> request]
  /\ UNCHANGED <<connected, player, economy, trading, loads, recovering>>

Loaded(how) ==
  /\ how \in Loading
  /\ Len(loads) < MaxLoads
  /\ saved # NoSave
  /\ connected' = saved.connected
  /\ wares' = saved.wares
  /\ credits' = saved.credits
  /\ econ' = saved.econ
  /\ request' = saved.request
  /\ loads' = Append(loads, how)
  /\ UNCHANGED <<ticks, saved>>

\* The loops recover_in_flight_tasks spawns: one for each active request.
Recovered(rs, id) ==
  IF rs[id] # NoRequest /\ rs[id].status = "active" THEN Sleeping ELSE None

\* The server stops and starts from the snapshot; both kinds of loop are new.
Restart ==
  /\ Loaded("restart")
  /\ copy' = NoCopy
  /\ loop' = [id \in RequestIds |-> [i \in Slots |->
       IF i = Len(loads) + 1 THEN Recovered(saved.request, id) ELSE None]]
  /\ recovering' = FALSE

\* POST /admin/persistence/load: the loops keep running.
Reload ==
  /\ ~recovering
  /\ Loaded("reload")
  /\ recovering' = TRUE
  /\ UNCHANGED <<copy, loop>>

Recover ==
  /\ recovering
  /\ loop' = [id \in RequestIds |-> [loop[id] EXCEPT ![Len(loads)] = Recovered(request, id)]]
  /\ recovering' = FALSE
  /\ UNCHANGED <<connected, player, economy, request, loads, saved>>

-----------------------------------------------------------------------------
RunLoop(id, i) == \/ Wake(id, i) \/ Check(id, i) \/ CheckPrice(id, i) \/ Close(id, i)
                  \/ Apply(id, i) \/ Count(id, i)

RunEconomy == CopyEconomy \/ TickEconomy \/ WriteEconomy

Next ==
  \/ \E id \in RequestIds : Cancel(id) \/ \E order \in Orders : Create(id, order)
  \/ \E id \in RequestIds, i \in Slots : RunLoop(id, i)
  \/ RunEconomy
  \/ RemoveStation \/ InstallStation
  \/ Save \/ Restart \/ Reload \/ Recover

\* tokio wakes every loop; players, admins and restarts are not forced.
Fairness == /\ \A id \in RequestIds, i \in Slots : WF_vars(RunLoop(id, i))
            /\ WF_vars(RunEconomy) /\ WF_vars(Recover)

Spec == Init /\ [][Next]_vars /\ Fairness

-----------------------------------------------------------------------------
(* Properties *)

EconomyRecord == [stock : Nat, imports : Nat, exports : Nat, budget : Nat, price : Prices]
Loop == {None, Sleeping}
        \cup [pc : {"check", "price", "cancel", "finish", "apply", "count"}, snapshot : Request]

\* Every variable has the shape the Rust types give it; credits are signed in the
\* code, and yet rounding and racing requests never take the player into debt.
TypeOK ==
  /\ connected \in BOOLEAN
  /\ wares \in Nat
  /\ credits \in Nat
  /\ econ \in EconomyRecord
  /\ copy \in {NoCopy} \cup [economy : EconomyRecord, ticked : BOOLEAN]
  /\ ticks \in 0..MaxTicks
  /\ request \in [RequestIds -> {NoRequest} \cup Request]
  /\ loop \in [RequestIds -> [Slots -> Loop]]
  /\ loads \in Seq({"restart", "reload"}) /\ Len(loads) <= MaxLoads
  /\ recovering \in BOOLEAN

\* What a request in total mode has been counted for never exceeds its total,
\* nor after a restart.  (After a reload the old loop and the recovered one count
\* towards the same request, each up to its own view of it.)
TotalRespected ==
  (\A i \in 1..Len(loads) : loads[i] = "restart") => \A id \in RequestIds :
    request[id] # NoRequest /\ request[id].order.mode = "total"
      => request[id].done <= request[id].order.limit

\* A request that has ended stays as it ended, whatever its loop is doing:
\* cancelled is never overwritten by completed, and nothing more is counted.
EndedStaysEnded ==
  [][loads' = loads =>
       \A id \in RequestIds :
         request[id] # NoRequest /\ ~Active(id) => request'[id] = request[id]]_vars

\* What a request may have moved beyond what it was counted for.
Uncounted(id) ==
  IF request[id] = NoRequest THEN 0
  ELSE IF Active(id) /\ \A i \in Slots : loop[id][i].pc # "count" THEN 0
  ELSE request[id].order.rate

\* Imports move no more than requests are counted for, and one tick each when a
\* tick has been applied and not counted, or will never be because its request
\* was cancelled under it.  (The removal of the station takes its goods away, and
\* a snapshot forgets a tick that was applied when it was saved.)
ImportsCounted ==
  /\ loads = <<>> /\ ~Removable
  /\ \A id \in RequestIds : request[id] # NoRequest =>
       request[id].order.direction = "import" /\ request[id].done < MaxDone
  => InitWares - wares <=
       SumFunctionOnSet([id \in RequestIds |-> IF request[id] = NoRequest THEN 0
                                              ELSE request[id].done + Uncounted(id)], RequestIds)

\* What holds of player, economy, requests and loops between any two sections.
TradeInv == TypeOK /\ ImportsCounted

\* A request in total mode ends, and the loop of a request that has ended ends
\* too, in a server that restarts as in one that does not.
TotalsEnd ==
  \A id \in RequestIds :
    /\ Active(id) /\ request[id].order.mode = "total"
         ~> ~Active(id) \/ request[id].order.mode # "total"
    /\ (request[id] # NoRequest /\ ~Active(id))
         ~> (Active(id) \/ \A i \in Slots : loop[id][i] = None)
=============================================================================
