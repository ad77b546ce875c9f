------------------------------ MODULE TradeProofs ------------------------------
(***************************************************************************)
(* What TLAPS proves about module TradeRequests, for any orders, prices,   *)
(* ticks of the economy, removals and loads of snapshots, and however the  *)
(* loops interleave: every variable keeps its type, and no player gets     *)
(* into debt; a request that has ended stays as it ended; a total is never *)
(* exceeded; and imports move no more than they are counted for.           *)
(***************************************************************************)
EXTENDS TradeRequests, Sums

-----------------------------------------------------------------------------
(* Arithmetic *)

\* Minimum and subtraction that stops at zero.
LEMMA SmallerIs ==
  ASSUME NEW m \in Nat, NEW n \in Nat
  PROVE  /\ Smaller(m, n) \in Nat /\ Smaller(m, n) <= m /\ Smaller(m, n) <= n
         /\ Monus(m, n) \in Nat /\ Monus(m, n) <= m
         /\ n <= m => Monus(m, n) = m - n
  BY DEF Smaller, Monus

\* What division is.
LEMMA Quotient ==
  ASSUME NEW a \in Nat, NEW b \in Nat \ {0}
  PROVE  /\ a \div b \in Nat /\ b * (a \div b) <= a
         /\ \A q \in Nat : a < b * (q + 1) => a \div b <= q
<1> DEFINE q == a \div b
<1>1. q \in Int /\ b * q <= a /\ a < b * q + b
  OBVIOUS
<1> HIDE DEF q
<1>2. q >= 0
  <2> SUFFICES ASSUME q <= -1 PROVE FALSE
    BY <1>1
  <2>1. b * q <= b * (-1)
    BY <1>1
  <2> QED BY <1>1, <2>1
<1>3. ASSUME NEW r \in Nat, a < b * (r + 1) PROVE q <= r
  <2> SUFFICES ASSUME q >= r + 1 PROVE FALSE
    BY <1>1
  <2>1. b * q >= b * (r + 1)
    BY <1>1
  <2> QED BY <1>1, <1>3, <2>1
<1> QED BY <1>1, <1>2, <1>3 DEF q

\* The price of what a player can pay, rounded, is no more than the player has.
LEMMA CostFits ==
  ASSUME NEW n \in Nat, NEW price \in Nat \ {0}, NEW has \in Nat
  PROVE  /\ Cost(n, price) \in Nat
         /\ n <= (has * PriceUnit) \div price => Cost(n, price) <= has
<1> USE TradeAssumption
<1>1. 2 * n * price + PriceUnit \in Nat /\ 2 * PriceUnit \in Nat \ {0}
  OBVIOUS
<1>2. Cost(n, price) \in Nat
  BY <1>1, Quotient DEF Cost
<1>3. ASSUME n <= (has * PriceUnit) \div price PROVE Cost(n, price) <= has
  <2> DEFINE q == (has * PriceUnit) \div price
  <2>1. q \in Nat /\ price * q <= has * PriceUnit
    BY Quotient
  <2> HIDE DEF q
  <2>2. n * price <= price * q
    BY <1>3, <2>1 DEF q
  <2>3. n * price <= has * PriceUnit
    BY <2>1, <2>2
  <2>4. 2 * n * price + PriceUnit < (2 * PriceUnit) * (has + 1)
    BY <2>3
  <2> QED BY <1>1, <2>4, Quotient DEF Cost
<1> QED BY <1>2, <1>3

-----------------------------------------------------------------------------
(* Type correctness *)

RequestTable == [RequestIds -> {NoRequest} \cup Request]

\* The snapshot has the shape of what it was taken of.
SavedOK ==
  saved # NoSave =>
    /\ saved.connected \in BOOLEAN /\ saved.wares \in Nat /\ saved.credits \in Nat
    /\ saved.econ \in EconomyRecord /\ saved.request \in RequestTable

Typed == TypeOK /\ SavedOK

\* The types hold at the start.
LEMMA TypedInit == Init => Typed
<1> SUFFICES ASSUME Init PROVE Typed
  OBVIOUS
<1>1. econ \in EconomyRecord
  BY TradeAssumption DEF Init, EconomyRecord
<1>2. loads \in Seq({"restart", "reload"}) /\ Len(loads) <= MaxLoads
  BY TradeAssumption DEF Init
<1>3. loop \in [RequestIds -> [Slots -> Loop]]
  BY DEF Init, Loop
<1>4. ticks \in 0..MaxTicks
  BY TradeAssumption DEF Init
<1> QED BY <1>1, <1>2, <1>3, <1>4, TradeAssumption DEF Init, Typed, TypeOK, SavedOK

\* What a request asks for in a tick is no more than its rate, nor than what
\* remains of its total.
LEMMA UnitsAre ==
  ASSUME NEW r \in Request
  PROVE  /\ Units(r) \in Nat /\ Units(r) <= r.order.rate
         /\ r.order.mode = "total" => Units(r) <= Monus(r.order.limit, r.done)
<1>1. r.order.rate \in Nat /\ r.order.limit \in Nat /\ r.done \in Nat
  BY DEF Request, Order
<1> DEFINE left == Monus(r.order.limit, r.done)
<1>2. left \in Nat /\ Smaller(r.order.rate, left) \in Nat
      /\ Smaller(r.order.rate, left) <= r.order.rate /\ Smaller(r.order.rate, left) <= left
  BY <1>1, SmallerIs
<1> QED BY <1>1, <1>2 DEF Units

\* Counting it keeps the type, and the total if that was kept.
LEMMA CountedIs ==
  ASSUME NEW r \in Request, NEW units \in Nat
  PROVE  /\ Counted(r, units) \in Request
         /\ Counted(r, units).order = r.order
         /\ r.order.mode = "total" => Counted(r, units).done = r.done + units
         /\ r.done + units <= MaxDone => Counted(r, units).done = r.done + units
         /\ Counted(r, units).done = r.done + units \/ Counted(r, units).done = MaxDone
         /\ r.order.mode # "total" => Counted(r, units).status = r.status
<1> DEFINE done == r.done + units
<1>1. r.done \in Nat /\ r.order \in Order /\ r.status \in Statuses /\ done \in Nat
  BY DEF Request
<1>2. Smaller(done, MaxDone) \in Nat /\ Smaller(done, MaxDone) \in {done, MaxDone}
      /\ (done <= MaxDone => Smaller(done, MaxDone) = done)
  BY <1>1, TradeAssumption DEF Smaller
<1>3. ASSUME NEW n \in Nat, NEW status \in Statuses
      PROVE  LET new == [r EXCEPT !.done = n, !.status = status]
             IN  new \in Request /\ new.order = r.order /\ new.done = n /\ new.status = status
  BY <1>1 DEF Request
<1>4. ASSUME NEW n \in Nat
      PROVE  LET new == [r EXCEPT !.done = n]
             IN  new \in Request /\ new.order = r.order /\ new.done = n /\ new.status = r.status
  BY <1>1 DEF Request
<1>5. CASE r.order.mode = "total"
  <2> DEFINE status == IF done >= r.order.limit THEN "completed" ELSE r.status
  <2>1. Counted(r, units) = [r EXCEPT !.done = done, !.status = status]
    BY <1>5 DEF Counted
  <2>2. status \in Statuses
    BY <1>1 DEF Statuses
  <2> HIDE DEF status
  <2> DEFINE new == [r EXCEPT !.done = done, !.status = status]
  <2>3. new \in Request /\ new.order = r.order /\ new.done = done
    BY <1>1, <1>3, <2>2
  <2> HIDE DEF new
  <2> QED BY <1>1, <1>5, <2>1, <2>3 DEF new
<1>6. CASE r.order.mode # "total"
  <2>1. Counted(r, units) = [r EXCEPT !.done = Smaller(done, MaxDone)]
    BY <1>6 DEF Counted
  <2> QED BY <1>2, <1>4, <1>6, <2>1
<1> QED BY <1>5, <1>6

\* A request is set as a whole.
LEMMA RequestSet ==
  ASSUME Typed, NEW id \in RequestIds, NEW new \in {NoRequest} \cup Request,
         request' = [request EXCEPT ![id] = new]
  PROVE  request' \in RequestTable
  BY DEF Typed, TypeOK, RequestTable

\* Setting one loop.
LEMMA LoopSet ==
  ASSUME Typed, NEW id \in RequestIds, NEW i, NEW new \in Loop,
         loop' = [loop EXCEPT ![id][i] = new]
  PROVE  loop' \in [RequestIds -> [Slots -> Loop]]
  BY DEF Typed, TypeOK

\* A loop that is awake has a copy of its request.
LEMMA Awake ==
  ASSUME Typed, NEW id \in RequestIds, NEW i \in Slots,
         loop[id][i].pc \in {"check", "price", "cancel", "finish", "apply", "count"}
  PROVE  /\ loop[id][i].snapshot \in Request
         /\ \A pc \in {"check", "price", "cancel", "finish", "apply", "count"} :
              LET new == [loop[id][i] EXCEPT !.pc = pc]
              IN  new \in Loop /\ new.pc = pc /\ new.snapshot = loop[id][i].snapshot
         /\ loop[id][i] \notin {None, Sleeping}
  BY DEF Typed, TypeOK, Loop, None, Sleeping

\* What a loop does to the requests and to itself.
LEMMA TypedRunLoop ==
  ASSUME Typed, NEW id \in RequestIds, NEW i \in Slots, RunLoop(id, i)
  PROVE  Typed'
<1> USE DEF Typed
<1> DEFINE task == loop[id][i]
<1>2. {None, Sleeping} \subseteq Loop
  BY DEF Loop
<1>3. ASSUME NEW status \in Statuses, Active(id), End(id, status)
      PROVE  request' \in RequestTable
  <2>1. request[id] \in Request
    BY <1>3 DEF Active, TypeOK
  <2>2. [request[id] EXCEPT !.status = status] \in Request
    BY <2>1 DEF Request
  <2> QED BY <1>3, <2>2, RequestSet DEF End
<1>4. CASE Wake(id, i)
  <2>1. Active(id) => [pc |-> "check", snapshot |-> request[id]] \in Loop
    BY DEF Active, TypeOK, Loop
  <2>2. loop' \in [RequestIds -> [Slots -> Loop]]
    BY <1>2, <1>4, <2>1, LoopSet DEF Wake
  <2> QED BY <1>4, <2>2 DEF Wake, player, economy, loading, TypeOK, SavedOK
<1>5. CASE Check(id, i)
  <2>1. loop' \in [RequestIds -> [Slots -> Loop]]
    <3>1. PICK pc \in {"cancel", "price", "finish", "apply"} : Goto(id, i, pc)
      BY <1>5 DEF Check, Ready
    <3>2. [task EXCEPT !.pc = pc] \in Loop
      BY <1>5, <3>1, Awake DEF Check
    <3>3. loop' = [loop EXCEPT ![id][i] = [task EXCEPT !.pc = pc]]
      BY <3>1 DEF Goto, TypeOK
    <3> QED BY <3>2, <3>3, LoopSet
  <2> QED BY <1>5, <2>1 DEF Check, player, economy, loading, TypeOK, SavedOK
<1>6. CASE CheckPrice(id, i)
  <2>1. loop' \in [RequestIds -> [Slots -> Loop]]
    <3>1. [task EXCEPT !.pc = "apply"] \in Loop
      BY <1>6, Awake DEF CheckPrice
    <3>2. loop' = [loop EXCEPT ![id][i] = IF GoodPrice(task.snapshot.order)
                                          THEN [task EXCEPT !.pc = "apply"] ELSE Sleeping]
      BY <1>6 DEF CheckPrice, TypeOK
    <3> QED BY <1>2, <3>1, <3>2, LoopSet
  <2> QED BY <1>6, <2>1 DEF CheckPrice, player, economy, loading, TypeOK, SavedOK
<1>7. CASE Close(id, i)
  <2>1. loop' \in [RequestIds -> [Slots -> Loop]]
    BY <1>2, <1>7, LoopSet DEF Close, Exit
  <2>2. request' \in RequestTable
    BY <1>3, <1>7 DEF Close, Statuses, TypeOK, RequestTable
  <2> QED BY <1>7, <2>1, <2>2 DEF Close, player, economy, loading, TypeOK, SavedOK, RequestTable
<1>8. CASE Apply(id, i)
  <2> DEFINE units == Units(task.snapshot)
  <2>1. units \in Nat
    BY <1>8, Awake, UnitsAre DEF Apply
  <2>2. loop' \in [RequestIds -> [Slots -> Loop]]
    <3>1. [task EXCEPT !.pc = "count"] \in Loop
      BY <1>8, Awake DEF Apply
    <3>2. loop' = [loop EXCEPT ![id][i] = [task EXCEPT !.pc = "count"]]
      BY <1>8 DEF Apply, Goto, TypeOK
    <3> QED BY <3>1, <3>2, LoopSet
  <2>3. wares' \in Nat /\ credits' \in Nat /\ econ' \in EconomyRecord
    <3> HIDE DEF units
    <3>1. econ \in EconomyRecord /\ wares \in Nat /\ credits \in Nat /\ econ.price \in Nat \ {0}
          /\ econ.budget \in Nat /\ econ.exports \in Nat /\ econ.imports \in Nat
      BY TradeAssumption DEF TypeOK, EconomyRecord
    <3>2. CASE Export(units)
      <4> DEFINE actual == Smaller(units * Grain, econ.budget)
                 delivered == actual \div Grain
                 affordable == IF Cost(delivered, econ.price) > 0
                               THEN Smaller(delivered, (credits * PriceUnit) \div econ.price)
                               ELSE delivered
                 asked == Smaller(econ.exports + units * Grain, MaxDemand)
                 rest == econ.budget - actual
      <4>1. units * Grain \in Nat /\ credits * PriceUnit \in Nat
        BY <2>1, <3>1, TradeAssumption
      <4>2. actual \in Nat /\ actual <= econ.budget
        BY <3>1, <4>1, SmallerIs
      <4>3. asked \in Nat /\ rest \in Nat
        <5>1. econ.exports + units * Grain \in Nat
          BY <3>1, <4>1
        <5> HIDE DEF actual
        <5> QED BY <3>1, <4>2, <5>1, SmallerIs, TradeAssumption
      <4>4. econ' = [econ EXCEPT !.exports = asked, !.budget = rest]
            /\ wares' = wares + affordable /\ credits' = credits - Cost(affordable, econ.price)
        BY <3>2 DEF Export
      <4> HIDE DEF actual, asked, rest
      <4>5. delivered \in Nat
        BY <4>2, Quotient, TradeAssumption
      <4>6. (credits * PriceUnit) \div econ.price \in Nat
        BY <3>1, <4>1, Quotient
      <4> HIDE DEF delivered
      <4>7. affordable \in Nat /\ Cost(affordable, econ.price) \in Nat
            /\ Cost(affordable, econ.price) <= credits
        <5>1. CASE Cost(delivered, econ.price) > 0
          <6>1. affordable = Smaller(delivered, (credits * PriceUnit) \div econ.price)
            BY <5>1
          <6> HIDE DEF affordable
          <6>2. affordable \in Nat /\ affordable <= (credits * PriceUnit) \div econ.price
            BY <4>5, <4>6, <6>1, SmallerIs
          <6> QED BY <3>1, <6>2, CostFits
        <5>2. CASE ~(Cost(delivered, econ.price) > 0)
          <6>1. affordable = delivered /\ Cost(delivered, econ.price) \in Nat
            BY <3>1, <4>5, <5>2, CostFits
          <6> QED BY <3>1, <4>5, <5>2, <6>1
        <5> QED BY <5>1, <5>2
      <4> HIDE DEF affordable
      <4>8. econ' \in EconomyRecord
        BY <3>1, <4>3, <4>4 DEF EconomyRecord
      <4> QED BY <3>1, <4>4, <4>7, <4>8
    <3>3. CASE Import(units)
      <4> DEFINE transferred == Smaller(units, wares)
                 more == econ.imports + transferred * Grain
      <4>1. transferred \in Nat /\ transferred <= wares
        BY <2>1, <3>1, SmallerIs
      <4>2. Cost(transferred, econ.price) \in Nat
        BY <3>1, <4>1, CostFits
      <4>3. econ' = [econ EXCEPT !.imports = more] /\ wares' = wares - transferred
            /\ credits' = credits + Cost(transferred, econ.price)
        BY <3>3 DEF Import
      <4> HIDE DEF transferred
      <4>4. more \in Nat
        BY <3>1, <4>1, TradeAssumption
      <4> HIDE DEF more
      <4>5. econ' \in EconomyRecord
        BY <3>1, <4>3, <4>4 DEF EconomyRecord
      <4> QED BY <3>1, <4>1, <4>2, <4>3, <4>5
    <3>4. CASE UNCHANGED <<econ, wares, credits>>
      BY <3>1, <3>4
    <3>5. Export(units) \/ Import(units) \/ UNCHANGED <<econ, wares, credits>>
      BY <1>8 DEF Apply, units
    <3> QED BY <3>2, <3>3, <3>4, <3>5
  <2> QED BY <1>8, <2>2, <2>3 DEF Apply, loading, TypeOK, SavedOK
<1>9. CASE Count(id, i)
  <2>1. loop' \in [RequestIds -> [Slots -> Loop]]
    BY <1>2, <1>9, LoopSet DEF Count, Exit
  <2>2. request' \in RequestTable
    <3>1. CASE Active(id) /\ request' = [request EXCEPT ![id] = Counted(request[id], Units(task.snapshot))]
      <4>1. request[id] \in Request
        BY <3>1 DEF Active, TypeOK
      <4>2. Units(task.snapshot) \in Nat
        BY <1>9, Awake, UnitsAre DEF Count
      <4> QED BY <3>1, <4>1, <4>2, CountedIs, RequestSet
    <3> QED BY <1>9, <3>1 DEF Count, TypeOK, RequestTable
  <2> QED BY <1>9, <2>1, <2>2 DEF Count, player, economy, loading, TypeOK, SavedOK, RequestTable
<1> QED BY <1>4, <1>5, <1>6, <1>7, <1>8, <1>9 DEF RunLoop

\* What players and the admin do.
LEMMA TypedHandlers ==
  ASSUME Typed,
         \/ \E id \in RequestIds : Cancel(id) \/ \E order \in Orders : Create(id, order)
         \/ RemoveStation \/ InstallStation
  PROVE  Typed'
<1> USE DEF Typed
<1>1. ASSUME NEW id \in RequestIds, Cancel(id) PROVE Typed'
  <2>1. request[id] \in Request
    BY <1>1 DEF Cancel, Active, TypeOK
  <2>2. [request[id] EXCEPT !.status = "cancelled"] \in Request
    BY <2>1 DEF Request, Statuses
  <2>3. request' \in RequestTable
    BY <1>1, <2>2, RequestSet DEF Cancel, End
  <2> QED BY <1>1, <2>3 DEF Cancel, player, economy, loading, TypeOK, SavedOK, RequestTable
<1>2. ASSUME NEW id \in RequestIds, NEW order \in Orders, Create(id, order) PROVE Typed'
  <2>1. [order |-> order, done |-> 0, status |-> "active"] \in Request
    BY TradeAssumption DEF Request, Statuses
  <2>2. request' \in RequestTable
    BY <1>2, <2>1, RequestSet DEF Create
  <2>3. loop' \in [RequestIds -> [Slots -> Loop]]
    BY <1>2, LoopSet DEF Create, Loop
  <2> QED BY <1>2, <2>2, <2>3 DEF Create, player, economy, loading, TypeOK, SavedOK, RequestTable
<1>3. CASE RemoveStation
  BY <1>3 DEF RemoveStation, economy, trading, loading, TypeOK, SavedOK, RequestTable
<1>4. CASE InstallStation
  BY <1>4 DEF InstallStation, player, economy, trading, loading, TypeOK, SavedOK, RequestTable
<1> QED BY <1>1, <1>2, <1>3, <1>4

\* The economy loop keeps the types.
LEMMA TypedEconomy ==
  ASSUME Typed, RunEconomy
  PROVE  Typed'
<1> USE DEF Typed
<1>1. CASE CopyEconomy
  <2>1. econ' = [econ EXCEPT !.imports = 0, !.exports = 0] /\ econ \in EconomyRecord
    BY <1>1 DEF CopyEconomy, TypeOK
  <2>2. econ' \in EconomyRecord
    BY <2>1 DEF EconomyRecord
  <2>3. copy' \in [economy : EconomyRecord, ticked : BOOLEAN]
    BY <1>1, <2>1 DEF CopyEconomy
  <2>4. ticks' \in 0..MaxTicks
    BY <1>1, TradeAssumption DEF CopyEconomy, TypeOK
  <2> QED BY <1>1, <2>2, <2>3, <2>4 DEF CopyEconomy, player, trading, loading, TypeOK, SavedOK, RequestTable
<1>2. CASE TickEconomy
  <2>1. copy \in [economy : EconomyRecord, ticked : BOOLEAN]
    BY <1>2 DEF TickEconomy, TypeOK
  <2>2. PICK demand \in Demands, output \in Outputs, price \in Prices :
          copy' = [economy |-> Ticked(copy.economy, demand, output, price), ticked |-> TRUE]
    BY <1>2 DEF TickEconomy
  <2>3. Ticked(copy.economy, demand, output, price) \in EconomyRecord
    <3> DEFINE e == copy.economy
               supply == e.stock + e.imports
               budget == Exported(e.exports, supply, demand)
               used == Smaller(demand, supply) + budget
    <3>1. e.exports \in Nat /\ supply \in Nat /\ demand \in Nat /\ output \in Nat
      BY <2>1, TradeAssumption DEF EconomyRecord
    <3> HIDE DEF supply
    <3>2. budget \in Nat
      BY <3>1, SmallerIs DEF Exported
    <3>3. used \in Nat
      <4>1. Smaller(demand, supply) \in Nat
        BY <3>1, SmallerIs
      <4> HIDE DEF budget
      <4> QED BY <3>2, <4>1
    <3>4. Monus(supply, used) + output \in Nat
      <4> HIDE DEF used
      <4>1. Monus(supply, used) \in Nat
        BY <3>1, <3>3, SmallerIs
      <4> QED BY <3>1, <4>1
    <3>5. Ticked(e, demand, output, price) =
            [stock |-> Monus(supply, used) + output, imports |-> 0, exports |-> 0,
             budget |-> budget, price |-> price]
      BY DEF Ticked, supply
    <3> HIDE DEF budget, used
    <3> QED BY <3>2, <3>4, <3>5 DEF EconomyRecord
  <2> QED BY <1>2, <2>2, <2>3 DEF TickEconomy, player, trading, loading, TypeOK, SavedOK, RequestTable
<1>3. CASE WriteEconomy
  <2>1. copy.economy \in EconomyRecord /\ econ \in EconomyRecord
    BY <1>3 DEF WriteEconomy, TypeOK
  <2> DEFINE e == copy.economy
             i == e.imports + econ.imports
             x == e.exports + econ.exports
  <2>2. i \in Nat /\ x \in Nat
    BY <2>1 DEF EconomyRecord
  <2>3. econ' = [e EXCEPT !.imports = i, !.exports = x]
    BY <1>3 DEF WriteEconomy, Merged
  <2> HIDE DEF e, i, x
  <2>4. econ' \in EconomyRecord
    BY <2>1, <2>2, <2>3 DEF EconomyRecord, e
  <2> QED BY <1>3, <2>4 DEF WriteEconomy, player, trading, loading, TypeOK, SavedOK, RequestTable
<1> QED BY <1>1, <1>2, <1>3 DEF RunEconomy

\* A load of a snapshot is remembered.
Reloaded == \E i \in 1..Len(loads) : loads[i] = "reload"

\* A load is remembered.
LEMMA LoadsGrow ==
  ASSUME Typed, NEW how \in {"restart", "reload"}, Loaded(how)
  PROVE  /\ loads' # loads /\ loads' # <<>>
         /\ Reloaded' <=> Reloaded \/ how = "reload"
         /\ loads' \in Seq({"restart", "reload"}) /\ Len(loads') <= MaxLoads
<1>1. loads \in Seq({"restart", "reload"}) /\ loads' = Append(loads, how)
  BY DEF Typed, TypeOK, Loaded
<1>2. Len(loads') = Len(loads) + 1 /\ Len(loads) \in Nat
  BY <1>1
<1>3. /\ \A i \in 1..Len(loads) : loads'[i] = loads[i]
      /\ loads'[Len(loads) + 1] = how
  BY <1>1
<1>4. Reloaded' <=> \E i \in 1..(Len(loads) + 1) : loads'[i] = "reload"
  BY <1>2 DEF Reloaded
<1>5. loads' \in Seq({"restart", "reload"}) /\ Len(loads') <= MaxLoads
  BY <1>1, <1>2, TradeAssumption DEF Loaded
<1> QED BY <1>2, <1>3, <1>4, <1>5 DEF Reloaded

\* Saving and loading keep the types.
LEMMA TypedSnapshots ==
  ASSUME Typed, Save \/ Restart \/ Reload \/ Recover
  PROVE  Typed'
<1> USE DEF Typed
<1>1. CASE Save
  BY <1>1 DEF Save, player, economy, trading, TypeOK, SavedOK, RequestTable
<1>2. ASSUME NEW how \in {"restart", "reload"}, Loaded(how)
      PROVE  /\ connected' \in BOOLEAN /\ wares' \in Nat /\ credits' \in Nat
             /\ econ' \in EconomyRecord /\ request' \in RequestTable
             /\ loads' \in Seq({"restart", "reload"}) /\ Len(loads') <= MaxLoads
             /\ ticks' = ticks /\ saved' = saved
  BY <1>2, LoadsGrow DEF Loaded, SavedOK
<1>3. \A rs, id : Recovered(rs, id) \in Loop
  BY DEF Recovered, Loop
<1>4. CASE Restart
  <2>1. loop' \in [RequestIds -> [Slots -> Loop]]
    BY <1>3, <1>4 DEF Restart, Loop
  <2> QED BY <1>2, <1>4, <2>1 DEF Restart, TypeOK, SavedOK, RequestTable
<1>5. CASE Reload
  BY <1>2, <1>5 DEF Reload, TypeOK, SavedOK, RequestTable
<1>6. CASE Recover
  <2>1. loop' \in [RequestIds -> [Slots -> Loop]]
    BY <1>3, <1>6 DEF Recover, TypeOK
  <2> QED BY <1>6, <2>1 DEF Recover, player, economy, TypeOK, SavedOK, RequestTable
<1> QED BY <1>1, <1>4, <1>5, <1>6

\* So every step keeps them.
LEMMA TypedStep == Typed /\ [Next]_vars => Typed'
<1> SUFFICES ASSUME Typed, [Next]_vars PROVE Typed'
  OBVIOUS
<1>1. CASE UNCHANGED vars
  BY <1>1 DEF vars, player, economy, trading, loading, Typed, TypeOK, SavedOK, RequestTable
<1>2. CASE \E id \in RequestIds, i \in Slots : RunLoop(id, i)
  BY <1>2, TypedRunLoop
<1> QED BY <1>1, <1>2, TypedHandlers, TypedEconomy, TypedSnapshots DEF Next

\* Every variable keeps its type, and the player never gets into debt: an export
\* is cut to what can be paid, rounded as the price is, however requests race.
THEOREM TypeCorrect == Spec => []TypeOK
<1>1. Typed => TypeOK
  BY DEF Typed
<1> QED BY <1>1, TypedInit, TypedStep, PTL DEF Spec

-----------------------------------------------------------------------------
(* The end of a request *)

\* A request that was cancelled, completed or given up is never touched again,
\* not even by the loop that is in the middle of a tick for it.
THEOREM EndedCorrect == Spec => EndedStaysEnded
<1> DEFINE Kept ==
      loads' = loads => \A id \in RequestIds :
        request[id] # NoRequest /\ ~Active(id) => request'[id] = request[id]
<1>1. Typed /\ Next => Kept
  <2> SUFFICES ASSUME Typed, Next, loads' = loads, NEW id \in RequestIds,
                      request[id] # NoRequest, ~Active(id)
               PROVE  request'[id] = request[id]
    OBVIOUS
  <2>1. request \in [RequestIds -> {NoRequest} \cup Request]
    BY DEF Typed, TypeOK
  <2>2. ASSUME NEW jd \in RequestIds, Cancel(jd) \/ \E order \in Orders : Create(jd, order)
        PROVE  request'[id] = request[id]
    BY <2>1, <2>2 DEF Cancel, Create, End
  <2>3. ASSUME NEW jd \in RequestIds, NEW i \in Slots, RunLoop(jd, i)
        PROVE  request'[id] = request[id]
    BY <2>1, <2>3 DEF RunLoop, Wake, Check, CheckPrice, Close, Apply, Count, End
  <2>4. ~Restart /\ ~Reload
    BY LoadsGrow DEF Restart, Reload
  <2> QED BY <2>2, <2>3, <2>4 DEF Next, RunEconomy, CopyEconomy, TickEconomy, WriteEconomy,
             RemoveStation, InstallStation, Save, Recover, trading
<1>2. Typed /\ [Next]_vars => [Kept]_vars
  BY <1>1
<1> QED BY <1>2, TypedInit, TypedStep, PTL DEF Spec, EndedStaysEnded

-----------------------------------------------------------------------------
(* Totals *)

\* A total is not exceeded.
Within(r) == r # NoRequest /\ r.order.mode = "total" => r.done <= r.order.limit

\* A request has one loop at most, and what that is working on is the request as
\* it is, but for its status.
OneLoop(id) ==
  /\ \A i, j \in Slots : loop[id][i] # None /\ loop[id][j] # None => i = j
  /\ \A i \in Slots : loop[id][i] # None => request[id] # NoRequest
  /\ \A i \in Slots : loop[id][i] \notin {None, Sleeping} =>
       /\ loop[id][i].snapshot.order = request[id].order
       /\ loop[id][i].snapshot.done = request[id].done
  /\ Within(request[id])

\* So it is until a snapshot is loaded into the running server, and so it is in
\* the snapshot.
Alone ==
  /\ recovering => Reloaded
  /\ ~Reloaded => /\ \A id \in RequestIds : OneLoop(id)
                  /\ saved # NoSave => \A id \in RequestIds : Within(saved.request[id])

\* At the start no loop runs.
LEMMA AloneInit == Init => Alone
  BY DEF Init, Alone, OneLoop, Within

\* A step of a loop leaves the other loops and requests alone.
LEMMA RunAlone ==
  ASSUME Typed, NEW id \in RequestIds, NEW i \in Slots, RunLoop(id, i)
  PROVE  /\ loop[id][i] # None
         /\ \A jd \in RequestIds \ {id} : request'[jd] = request[jd] /\ loop'[jd] = loop[jd]
         /\ \A j \in Slots \ {i} : loop'[id][j] = loop[id][j]
         /\ UNCHANGED <<connected, loads, recovering, saved>>
<1> USE DEF Typed, TypeOK
<1>1. loop[id][i] # None
  BY DEF RunLoop, Wake, Check, CheckPrice, Close, Apply, Count, None
<1>2. \A jd \in RequestIds \ {id} : request'[jd] = request[jd]
  BY DEF RunLoop, Wake, Check, CheckPrice, Close, Apply, Count, End
<1>3. \A jd \in RequestIds \ {id} : loop'[jd] = loop[jd]
  BY DEF RunLoop, Wake, Check, CheckPrice, Close, Apply, Count, Goto, Exit
<1>4. \A j \in Slots \ {i} : loop'[id][j] = loop[id][j]
  BY DEF RunLoop, Wake, Check, CheckPrice, Close, Apply, Count, Goto, Exit
<1>5. UNCHANGED <<connected, loads, recovering, saved>>
  BY DEF RunLoop, Wake, Check, CheckPrice, Close, Apply, Count, loading
<1> QED BY <1>1, <1>2, <1>3, <1>4, <1>5

\* What a step of a loop does to its request and to itself: it copies the request,
\* goes on, lets it rest, ends it, or counts the tick.
LEMMA RunDoes ==
  ASSUME Typed, NEW id \in RequestIds, NEW i \in Slots, RunLoop(id, i)
  PROVE  \/ /\ loop[id][i].pc = "sleep" /\ request'[id] = request[id] /\ Active(id)
            /\ loop'[id][i] = [pc |-> "check", snapshot |-> request[id]]
         \/ /\ loop[id][i].pc \in {"check", "price", "apply"} /\ request'[id] = request[id]
            /\ \E pc \in {"price", "cancel", "finish", "apply", "count"} :
                 /\ loop'[id][i] = [loop[id][i] EXCEPT !.pc = pc]
                 /\ pc = "count" <=> loop[id][i].pc = "apply"
         \/ /\ loop[id][i].pc \notin {"apply", "count"} /\ request'[id] = request[id]
            /\ loop'[id][i] = None => ~Active(id)
            /\ loop'[id][i] \in {None, Sleeping}
         \/ /\ loop[id][i].pc \in {"cancel", "finish"} /\ Active(id) /\ loop'[id][i] = None
            /\ \E status \in {"auto_cancelled", "completed"} :
                 request'[id] = [request[id] EXCEPT !.status = status]
         \/ /\ loop[id][i].pc = "count" /\ Active(id)
            /\ request'[id] = Counted(request[id], Units(loop[id][i].snapshot))
            /\ loop'[id][i] = IF request'[id].status = "active" THEN Sleeping ELSE None
         \/ /\ loop[id][i].pc = "count" /\ ~Active(id) /\ request'[id] = request[id]
            /\ loop'[id][i] = IF request[id] = NoRequest THEN Sleeping ELSE None
<1> USE DEF Typed, TypeOK
<1>1. CASE Wake(id, i)
  BY <1>1 DEF Wake
<1>2. CASE Check(id, i)
  <2>1. PICK pc \in {"cancel", "price", "finish", "apply"} : Goto(id, i, pc)
    BY <1>2 DEF Check, Ready
  <2>2. loop'[id][i] = [loop[id][i] EXCEPT !.pc = pc]
    BY <2>1 DEF Goto
  <2> QED BY <1>2, <2>2 DEF Check
<1>3. CASE CheckPrice(id, i)
  BY <1>3 DEF CheckPrice, Sleeping, None
<1>4. CASE Close(id, i)
  BY <1>4 DEF Close, End, Exit
<1>5. CASE Apply(id, i)
  <2>1. loop'[id][i] = [loop[id][i] EXCEPT !.pc = "count"]
    BY <1>5 DEF Apply, Goto
  <2> QED BY <1>5, <2>1 DEF Apply
<1>6. CASE Count(id, i)
  BY <1>6 DEF Count, Exit, Active
<1> QED BY <1>1, <1>2, <1>3, <1>4, <1>5, <1>6 DEF RunLoop

\* A step of its one loop leaves a request with one.
LEMMA OneLoopRuns ==
  ASSUME Typed, NEW id \in RequestIds, OneLoop(id), NEW i \in Slots, RunLoop(id, i)
  PROVE  OneLoop(id)'
<1> USE DEF Typed
<1> DEFINE task == loop[id][i]
<1>1. /\ request[id] \in Request /\ task # None
      /\ \A j \in Slots \ {i} : loop[id][j] = None /\ loop'[id][j] = None
  BY RunAlone DEF OneLoop, TypeOK
<1>2. ASSUME request'[id] # NoRequest,
             loop'[id][i] \notin {None, Sleeping} =>
               /\ loop'[id][i].snapshot.order = request'[id].order
               /\ loop'[id][i].snapshot.done = request'[id].done,
             Within(request'[id])
      PROVE  OneLoop(id)'
  BY <1>1, <1>2 DEF OneLoop
<1>3. Within(request[id]) /\ request[id] # NoRequest
  BY <1>1 DEF OneLoop
<1>4. CASE /\ request'[id] = request[id]
           /\ \/ loop'[id][i] = [pc |-> "check", snapshot |-> request[id]]
              \/ loop'[id][i] \in {None, Sleeping}
  BY <1>2, <1>3, <1>4
<1>5. CASE /\ request'[id] = request[id] /\ task.pc \in {"check", "price", "apply"}
           /\ \E pc \in {"price", "cancel", "finish", "apply", "count"} :
                loop'[id][i] = [task EXCEPT !.pc = pc]
  <2>1. PICK pc \in {"price", "cancel", "finish", "apply", "count"} :
          loop'[id][i] = [task EXCEPT !.pc = pc]
    BY <1>5
  <2>2. loop'[id][i].snapshot = task.snapshot /\ task \notin {None, Sleeping}
    <3>1. task.pc \in {"check", "price", "cancel", "finish", "apply", "count"}
      BY <1>5
    <3>2. task \in [pc : {"check", "price", "cancel", "finish", "apply", "count"}, snapshot : Request]
      BY <3>1 DEF TypeOK, Loop, None, Sleeping
    <3>3. task \notin {None, Sleeping}
      BY <3>1 DEF None, Sleeping
    <3> HIDE DEF task
    <3>4. [task EXCEPT !.pc = pc].snapshot = task.snapshot
      BY <3>2
    <3> QED BY <2>1, <3>3, <3>4 DEF task
  <2> QED BY <1>2, <1>3, <1>5, <2>2 DEF OneLoop
<1>6. CASE /\ loop'[id][i] = None
           /\ \E status \in {"auto_cancelled", "completed"} :
                request'[id] = [request[id] EXCEPT !.status = status]
  <2>1. PICK status \in {"auto_cancelled", "completed"} :
          request'[id] = [request[id] EXCEPT !.status = status]
    BY <1>6
  <2>2. request'[id] \in Request /\ request'[id].order = request[id].order
        /\ request'[id].done = request[id].done
    BY <1>1, <2>1 DEF Request, Statuses
  <2>3. request'[id] # NoRequest
    BY <2>2, TradeAssumption
  <2> QED BY <1>2, <1>3, <1>6, <2>2, <2>3 DEF Within
<1>7. CASE /\ task.pc = "count" /\ Active(id)
           /\ request'[id] = Counted(request[id], Units(task.snapshot))
           /\ loop'[id][i] \in {None, Sleeping}
  <2> DEFINE units == Units(task.snapshot)
             r == request[id]
  <2>1. /\ units \in Nat
        /\ task.snapshot.order.mode = "total" =>
             units <= Monus(task.snapshot.order.limit, task.snapshot.done)
    BY <1>7, Awake, UnitsAre
  <2>2. task.snapshot.order = r.order /\ task.snapshot.done = r.done
    BY <1>7, Awake DEF OneLoop
  <2>3. r.order.limit \in Nat /\ r.done \in Nat
    BY <1>1 DEF Request, Order
  <2> HIDE DEF units
  <2>4. /\ Counted(r, units) \in Request /\ Counted(r, units).order = r.order
        /\ r.order.mode = "total" => Counted(r, units).done = r.done + units
    BY <1>1, <2>1, CountedIs
  <2>5. r.order.mode = "total" => r.done + units <= r.order.limit
    <3> SUFFICES ASSUME r.order.mode = "total" PROVE r.done + units <= r.order.limit
      OBVIOUS
    <3>1. r.done <= r.order.limit
      BY <1>3 DEF Within
    <3>2. Monus(r.order.limit, r.done) = r.order.limit - r.done
      BY <2>3, <3>1, SmallerIs
    <3> QED BY <2>1, <2>2, <2>3, <3>2
  <2>6. Within(Counted(r, units))
    BY <2>4, <2>5 DEF Within
  <2>7. request'[id] = Counted(r, units)
    BY <1>7 DEF units
  <2>8. request'[id] # NoRequest
    BY <2>4, <2>7, TradeAssumption
  <2> QED BY <1>2, <1>7, <2>6, <2>7, <2>8
<1> QED BY <1>1, <1>4, <1>5, <1>6, <1>7, RunDoes DEF Active

\* Every step keeps it.
LEMMA AloneStep == Typed /\ Alone /\ [Next]_vars => Alone'
<1> SUFFICES ASSUME Typed, Alone, [Next]_vars PROVE Alone'
  OBVIOUS
<1> USE DEF Typed
<1>1. ASSUME UNCHANGED <<loads, recovering, saved>>,
             ~Reloaded => \A id \in RequestIds : OneLoop(id)'
      PROVE  Alone'
  BY <1>1 DEF Alone, Reloaded
<1>2. ASSUME NEW id \in RequestIds, request'[id] = request[id], loop'[id] = loop[id]
      PROVE  OneLoop(id)' <=> OneLoop(id)
  BY <1>2 DEF OneLoop
<1>3. CASE UNCHANGED vars \/ RunEconomy \/ RemoveStation \/ InstallStation
  <2>1. UNCHANGED <<request, loop, loads, recovering, saved>>
    BY <1>3 DEF vars, trading, loading, RunEconomy, CopyEconomy, TickEconomy, WriteEconomy,
                RemoveStation, InstallStation
  <2> QED BY <1>1, <1>2, <2>1 DEF Alone
<1>4. CASE \E id \in RequestIds, i \in Slots : RunLoop(id, i)
  <2>1. PICK id \in RequestIds, i \in Slots : RunLoop(id, i)
    BY <1>4
  <2>2. /\ \A jd \in RequestIds \ {id} : request'[jd] = request[jd] /\ loop'[jd] = loop[jd]
        /\ UNCHANGED <<loads, recovering, saved>>
    BY <2>1, RunAlone
  <2> QED BY <1>1, <1>2, <2>1, <2>2, OneLoopRuns DEF Alone
<1>5. CASE \E id \in RequestIds : Cancel(id) \/ \E order \in Orders : Create(id, order)
  <2>1. PICK id \in RequestIds : Cancel(id) \/ \E order \in Orders : Create(id, order)
    BY <1>5
  <2>2. UNCHANGED <<loads, recovering, saved>>
    BY <2>1 DEF Cancel, Create, loading
  <2>3. \A jd \in RequestIds \ {id} : request'[jd] = request[jd] /\ loop'[jd] = loop[jd]
    BY <2>1 DEF Cancel, Create, End, TypeOK
  <2>4. ASSUME OneLoop(id) PROVE OneLoop(id)'
    <3>1. CASE Cancel(id)
      <4>1. request[id] \in Request /\ loop' = loop
            /\ request'[id] = [request[id] EXCEPT !.status = "cancelled"]
        BY <3>1 DEF Cancel, End, Active, TypeOK
      <4>2. request'[id] \in Request /\ request'[id].order = request[id].order
            /\ request'[id].done = request[id].done
        BY <4>1 DEF Request, Statuses
      <4> QED BY <2>4, <4>1, <4>2, TradeAssumption DEF OneLoop, Within
    <3>2. ASSUME NEW order \in Orders, Create(id, order) PROVE OneLoop(id)'
      <4>1. /\ request'[id] = [order |-> order, done |-> 0, status |-> "active"]
            /\ loop'[id] = [loop[id] EXCEPT ![0] = Sleeping] /\ \A i \in Slots : loop[id][i] = None
        BY <3>2 DEF Create, TypeOK
      <4>2. request'[id] \in Request /\ request'[id].done = 0 /\ request'[id].order \in Order
        BY <4>1, TradeAssumption DEF Request, Statuses
      <4>3. \A i \in Slots : loop'[id][i] = IF i = 0 THEN Sleeping ELSE None
        BY <4>1 DEF TypeOK
      <4>4. request'[id] # NoRequest /\ Within(request'[id])
        BY <4>2, TradeAssumption DEF Within, Order
      <4> QED BY <4>3, <4>4 DEF OneLoop
    <3> QED BY <2>1, <3>1, <3>2
  <2> QED BY <1>1, <1>2, <2>2, <2>3, <2>4 DEF Alone
<1>6. CASE Save
  <2>1. UNCHANGED <<request, loop, loads, recovering>> /\ saved'.request = request
    BY <1>6 DEF Save, trading
  <2>2. ~Reloaded => \A id \in RequestIds : OneLoop(id) /\ Within(request[id])
    BY DEF Alone, OneLoop
  <2> QED BY <1>2, <2>1, <2>2 DEF Alone, Reloaded
<1>7. CASE Restart
  <2>1. /\ saved # NoSave /\ saved' = saved /\ request' = saved.request /\ recovering' = FALSE
        /\ \A id \in RequestIds, i \in Slots :
             loop'[id][i] = IF i = Len(loads) + 1 THEN Recovered(saved.request, id) ELSE None
    BY <1>7 DEF Restart, Loaded
  <2>2. ~Reloaded' => ~Reloaded
    BY <1>7, LoadsGrow DEF Restart
  <2>3. ASSUME ~Reloaded, NEW id \in RequestIds PROVE OneLoop(id)'
    <3>1. Within(request'[id])
      BY <2>1, <2>3 DEF Alone
    <3>2. \A i \in Slots : loop'[id][i] \in {None, Sleeping}
                           /\ (loop'[id][i] # None => request'[id] # NoRequest /\ i = Len(loads) + 1)
      BY <2>1 DEF Recovered
    <3> QED BY <3>1, <3>2 DEF OneLoop
  <2> QED BY <2>1, <2>2, <2>3 DEF Alone
<1>8. CASE Reload
  BY <1>8, LoadsGrow DEF Reload, Alone
<1>9. CASE Recover
  BY <1>9 DEF Recover, Alone, Reloaded
<1> QED BY <1>3, <1>4, <1>5, <1>6, <1>7, <1>8, <1>9 DEF Next

\* A request in total mode is never counted for more than its total, although the
\* loop counts a tick that it applied earlier, to a request that others end: in a
\* server that restarts from snapshots as in one that does not.
THEOREM TotalCorrect == Spec => []TotalRespected
<1>1. Typed /\ Alone => TotalRespected
  <2> SUFFICES ASSUME Typed, Alone, \A i \in 1..Len(loads) : loads[i] = "restart",
                      NEW id \in RequestIds, request[id] # NoRequest, request[id].order.mode = "total"
               PROVE  request[id].done <= request[id].order.limit
    BY DEF TotalRespected
  <2>1. ~Reloaded
    BY DEF Reloaded
  <2> QED BY <2>1 DEF Alone, OneLoop, Within
<1> QED BY <1>1, TypedInit, TypedStep, AloneInit, AloneStep, PTL DEF Spec

-----------------------------------------------------------------------------
(* Imports *)

\* Only imports, which nothing but their loops disturbs, and whose counts are
\* below the bound of the model.
Importing ==
  /\ loads = <<>> /\ ~Removable
  /\ \A id \in RequestIds : request[id] # NoRequest =>
       request[id].order.direction = "import" /\ request[id].done < MaxDone

\* What a request may have moved: what it is counted for, and the tick that is
\* applied and not counted yet; or one that never will be, once its loop has gone.
Moved(id) ==
  IF request[id] = NoRequest THEN 0
  ELSE request[id].done +
       IF \E i \in Slots : loop[id][i].pc = "count" THEN Units(request[id])
       ELSE IF Active(id) \/ \E i \in Slots : loop[id][i] # None THEN 0
       ELSE request[id].order.rate

AllMoved ==
  Importing => InitWares - wares <= SumFunctionOnSet([id \in RequestIds |-> Moved(id)], RequestIds)

\* What a loop moves is no less than nothing.
LEMMA MovedType ==
  ASSUME Typed, NEW id \in RequestIds
  PROVE  Moved(id) \in Nat
<1>1. CASE request[id] = NoRequest
  BY <1>1 DEF Moved
<1>2. CASE request[id] # NoRequest
  <2>1. request[id] \in Request
    BY <1>2 DEF Typed, TypeOK
  <2>2. request[id].done \in Nat /\ request[id].order.rate \in Nat /\ Units(request[id]) \in Nat
    BY <2>1, UnitsAre DEF Request, Order
  <2> QED BY <1>2, <2>2 DEF Moved
<1> QED BY <1>1, <1>2

\* Nor is it after a step.
LEMMA MovedTypeNext ==
  ASSUME Typed', NEW id \in RequestIds
  PROVE  Moved(id)' \in Nat
<1>1. CASE request'[id] = NoRequest
  BY <1>1 DEF Moved
<1>2. CASE request'[id] # NoRequest
  <2>1. request'[id] \in Request
    BY <1>2 DEF Typed, TypeOK
  <2>2. request'[id].done \in Nat /\ request'[id].order.rate \in Nat /\ Units(request'[id]) \in Nat
    BY <2>1, UnitsAre DEF Request, Order
  <2> QED BY <1>2, <2>2 DEF Moved
<1> QED BY <1>1, <1>2

\* A step of its loop never makes that less, and applying a tick makes it more by
\* the units of the tick.
LEMMA MovedRuns ==
  ASSUME Typed, NEW id \in RequestIds, OneLoop(id), NEW i \in Slots, RunLoop(id, i),
         request'[id].done < MaxDone
  PROVE  /\ loop[id][i].pc # "apply" => Moved(id) <= Moved(id)'
         /\ loop[id][i].pc = "apply" => Moved(id)' = Moved(id) + Units(loop[id][i].snapshot)
<1> USE DEF Typed
<1> DEFINE task == loop[id][i]
           r == request[id]
<1>1. /\ r \in Request /\ r # NoRequest /\ task # None
      /\ \A j \in Slots \ {i} : loop[id][j] = None /\ loop'[id][j] = None
  BY RunAlone DEF OneLoop, TypeOK
<1>2. /\ r.done \in Nat /\ r.order.rate \in Nat /\ Units(r) \in Nat /\ Units(r) <= r.order.rate
  BY <1>1, UnitsAre DEF Request, Order
<1>3. task.pc \in {"apply", "count"} => Units(task.snapshot) = Units(r)
  <2>1. task.pc \in {"apply", "count"} => task \notin {None, Sleeping}
    BY DEF None, Sleeping
  <2>2. task.pc \in {"apply", "count"} =>
          task.snapshot.order = r.order /\ task.snapshot.done = r.done
    BY <2>1 DEF OneLoop
  <2> QED BY <2>2 DEF Units
<1>4. Moved(id) = r.done + IF task.pc = "count" THEN Units(r) ELSE 0
  <2>1. (\E j \in Slots : loop[id][j].pc = "count") <=> task.pc = "count"
    BY <1>1 DEF None
  <2> QED BY <1>1, <2>1 DEF Moved
<1>5. request'[id] # NoRequest =>
        Moved(id)' = request'[id].done +
          IF loop'[id][i].pc = "count" THEN Units(request'[id])
          ELSE IF Active(id)' \/ loop'[id][i] # None THEN 0
          ELSE request'[id].order.rate
  <2>1. (\E j \in Slots : loop'[id][j].pc = "count") <=> loop'[id][i].pc = "count"
    BY <1>1 DEF None
  <2>2. (\E j \in Slots : loop'[id][j] # None) <=> loop'[id][i] # None
    BY <1>1
  <2> QED BY <2>1, <2>2 DEF Moved
<1>6. CASE request'[id] = r /\ task.pc = "apply" /\ loop'[id][i].pc = "count"
  BY <1>1, <1>2, <1>3, <1>4, <1>5, <1>6
<1>7. CASE /\ request'[id] = r /\ task.pc \notin {"apply", "count"}
           /\ loop'[id][i].pc # "count"
  BY <1>1, <1>2, <1>4, <1>5, <1>7
<1>8. CASE /\ task.pc \in {"cancel", "finish"} /\ loop'[id][i] = None
           /\ \E status \in {"auto_cancelled", "completed"} :
                request'[id] = [r EXCEPT !.status = status]
  <2>1. PICK status \in {"auto_cancelled", "completed"} : request'[id] = [r EXCEPT !.status = status]
    BY <1>8
  <2>2. /\ request'[id] \in Request /\ request'[id].done = r.done
        /\ request'[id].order = r.order
    BY <1>1, <2>1 DEF Request, Statuses
  <2>3. request'[id] # NoRequest /\ None.pc # "count"
    BY <2>2, TradeAssumption DEF None
  <2> QED BY <1>2, <1>4, <1>5, <1>8, <2>2, <2>3
<1>9. CASE /\ task.pc = "count" /\ request'[id] = Counted(r, Units(task.snapshot))
           /\ loop'[id][i] \in {None, Sleeping}
  <2>1. /\ request'[id] \in Request /\ request'[id].order = r.order
        /\ request'[id].done = r.done + Units(r)
    <3>1. Units(task.snapshot) = Units(r) /\ Units(r) \in Nat
      BY <1>2, <1>3, <1>9
    <3>2. request'[id] = Counted(r, Units(r))
      BY <1>9, <3>1
    <3>3. /\ Counted(r, Units(r)) \in Request /\ Counted(r, Units(r)).order = r.order
          /\ Counted(r, Units(r)).done \in {r.done + Units(r), MaxDone}
      BY <1>1, <3>1, CountedIs
    <3> QED BY <3>2, <3>3, TradeAssumption
  <2>2. request'[id] # NoRequest /\ loop'[id][i].pc # "count"
    BY <1>9, <2>1, TradeAssumption DEF None, Sleeping
  <2> QED BY <1>2, <1>4, <1>5, <1>9, <2>1, <2>2
<1>10. CASE /\ task.pc = "count" /\ request'[id] = r /\ ~Active(id) /\ loop'[id][i] = None
  <2>1. None.pc # "count" /\ ~Active(id)'
    BY <1>10 DEF None, Active
  <2> QED BY <1>1, <1>2, <1>4, <1>5, <1>10, <2>1
<1>11. \/ request'[id] = r /\ task.pc = "apply" /\ loop'[id][i].pc = "count"
       \/ request'[id] = r /\ task.pc \notin {"apply", "count"} /\ loop'[id][i].pc # "count"
       \/ /\ task.pc \in {"cancel", "finish"} /\ loop'[id][i] = None
          /\ \E status \in {"auto_cancelled", "completed"} :
               request'[id] = [r EXCEPT !.status = status]
       \/ /\ task.pc = "count" /\ request'[id] = Counted(r, Units(task.snapshot))
          /\ loop'[id][i] \in {None, Sleeping}
       \/ task.pc = "count" /\ request'[id] = r /\ ~Active(id) /\ loop'[id][i] = None
  <2>1. ASSUME request'[id] = r, task.pc \in {"check", "price", "apply"},
               NEW pc \in {"price", "cancel", "finish", "apply", "count"},
               loop'[id][i] = [task EXCEPT !.pc = pc], pc = "count" <=> task.pc = "apply"
        PROVE  \/ request'[id] = r /\ task.pc = "apply" /\ loop'[id][i].pc = "count"
               \/ request'[id] = r /\ task.pc \notin {"apply", "count"} /\ loop'[id][i].pc # "count"
    <3>1. task \in [pc : {"check", "price", "cancel", "finish", "apply", "count"}, snapshot : Request]
      BY <2>1 DEF TypeOK, Loop, None, Sleeping
    <3>2. loop'[id][i].pc = pc
      <4> HIDE DEF task
      <4> QED BY <2>1, <3>1
    <3> QED BY <2>1, <3>2
  <2>2. ASSUME request'[id] = r, task.pc \notin {"apply", "count"}, loop'[id][i] \in {None, Sleeping}
        PROVE  loop'[id][i].pc # "count"
    BY <2>2 DEF None, Sleeping
  <2>3. CASE /\ task.pc \in {"check", "price", "apply"} /\ request'[id] = r
             /\ \E pc \in {"price", "cancel", "finish", "apply", "count"} :
                  /\ loop'[id][i] = [task EXCEPT !.pc = pc]
                  /\ pc = "count" <=> task.pc = "apply"
    <3>1. PICK pc \in {"price", "cancel", "finish", "apply", "count"} :
            /\ loop'[id][i] = [task EXCEPT !.pc = pc]
            /\ pc = "count" <=> task.pc = "apply"
      BY <2>3
    <3> QED BY <2>1, <2>3, <3>1
  <2>4. CASE ~(/\ task.pc \in {"check", "price", "apply"} /\ request'[id] = r
               /\ \E pc \in {"price", "cancel", "finish", "apply", "count"} :
                    /\ loop'[id][i] = [task EXCEPT !.pc = pc]
                    /\ pc = "count" <=> task.pc = "apply")
    <3>1. CASE loop'[id][i] = [pc |-> "check", snapshot |-> r] /\ request'[id] = r /\ task.pc = "sleep"
      BY <3>1
    <3>2. CASE /\ task.pc \notin {"apply", "count"} /\ request'[id] = r
               /\ loop'[id][i] \in {None, Sleeping}
      BY <2>2, <3>2
    <3>3. CASE /\ task.pc = "count" /\ Active(id)
               /\ request'[id] = Counted(r, Units(task.snapshot))
               /\ loop'[id][i] = IF request'[id].status = "active" THEN Sleeping ELSE None
      BY <3>3
    <3> QED BY <1>1, <2>4, <3>1, <3>2, <3>3, RunDoes
  <2> QED BY <2>3, <2>4
<1> QED BY <1>6, <1>7, <1>8, <1>9, <1>10, <1>11

\* At the start nothing is counted or moved.
LEMMA AllMovedInit == Init => AllMoved
<1> SUFFICES ASSUME Init PROVE AllMoved
  OBVIOUS
<1>1. \A id \in RequestIds : Moved(id) = 0
  BY DEF Init, Moved
<1> DEFINE moved == [id \in RequestIds |-> Moved(id)]
<1>2. \A id \in RequestIds : moved[id] \in Nat
  BY <1>1
<1> HIDE DEF moved
<1>3. SumFunctionOnSet(moved, RequestIds) \in Nat
  BY <1>2, SumNatural, TradeAssumption
<1>4. InitWares - wares = 0
  BY TradeAssumption DEF Init
<1> QED BY <1>3, <1>4 DEF AllMoved, moved

\* The requests are imports before a step if they are after it, and each has moved
\* as much, and as many more as the step applies.
LEMMA MovedSteps ==
  ASSUME Typed, Alone, [Next]_vars, Importing'
  PROVE  /\ Importing
         /\ \/ wares' >= wares /\ \A id \in RequestIds : Moved(id) <= Moved(id)'
            \/ \E id \in RequestIds, units \in Nat :
                 /\ wares' >= wares - units /\ Moved(id)' = Moved(id) + units
                 /\ \A jd \in RequestIds \ {id} : Moved(jd)' = Moved(jd)
<1> USE DEF Typed
<1>1. ~Restart /\ ~Reload
  BY LoadsGrow DEF Restart, Reload, Importing
<1>2. wares \in Nat
  BY DEF TypeOK
<1>3. loads' = loads /\ loads = <<>> /\ ~Reloaded
  <2>1. CASE \E id \in RequestIds, i \in Slots : RunLoop(id, i)
    BY <2>1, RunAlone DEF Importing, Reloaded
  <2>2. CASE ~(\E id \in RequestIds, i \in Slots : RunLoop(id, i))
    <3>1. loads' = loads
      BY <1>1, <2>2 DEF Next, vars, loading, RunEconomy, CopyEconomy, TickEconomy, WriteEconomy,
                Cancel, Create, RemoveStation, InstallStation, Save, Recover
    <3> QED BY <3>1 DEF Importing, Reloaded
  <2> QED BY <2>1, <2>2
<1>4. \A id \in RequestIds : OneLoop(id)
  BY <1>3 DEF Alone
<1>5. ASSUME NEW jd \in RequestIds, request'[jd] = request[jd], loop'[jd] = loop[jd]
      PROVE  Moved(jd)' = Moved(jd) /\ Moved(jd) <= Moved(jd)'
  <2>1. Moved(jd)' = Moved(jd)
    BY <1>5 DEF Moved, Active
  <2> QED BY <2>1, MovedType
<1>6. CASE \/ UNCHANGED vars \/ RunEconomy \/ RemoveStation \/ InstallStation \/ Save \/ Recover
  <2>1. UNCHANGED <<request, loop, wares>>
    BY <1>3, <1>6 DEF vars, player, trading, loading, RunEconomy, CopyEconomy, TickEconomy,
               WriteEconomy, RemoveStation, InstallStation, Save, Recover, Importing, Alone
  <2> QED BY <1>2, <1>3, <1>5, <2>1 DEF Importing
<1>7. CASE \E id \in RequestIds : Cancel(id) \/ \E order \in Orders : Create(id, order)
  <2>1. PICK id \in RequestIds : Cancel(id) \/ \E order \in Orders : Create(id, order)
    BY <1>7
  <2>2. wares' = wares
    BY <2>1 DEF Cancel, Create, player
  <2>3. \A jd \in RequestIds \ {id} : request'[jd] = request[jd] /\ loop'[jd] = loop[jd]
    BY <2>1 DEF Cancel, Create, End, TypeOK
  <2>4. CASE Cancel(id)
    <3>1. request[id] \in Request /\ loop' = loop /\ Active(id)
          /\ request'[id] = [request[id] EXCEPT !.status = "cancelled"]
      BY <2>4 DEF Cancel, End, Active, TypeOK
    <3>2. request'[id] \in Request /\ request'[id].order = request[id].order
          /\ request'[id].done = request[id].done
      BY <3>1 DEF Request, Statuses
    <3>3. request[id] # NoRequest /\ request'[id] # NoRequest
      BY <3>1, <3>2, TradeAssumption
    <3>4. Units(request'[id]) = Units(request[id]) /\ request[id].done \in Nat
          /\ request[id].order.rate \in Nat /\ Units(request[id]) \in Nat
      BY <3>1, <3>2, UnitsAre DEF Units, Request, Order
    <3>5. Moved(id) <= Moved(id)'
      <4>1. CASE \E i \in Slots : loop[id][i].pc = "count"
        BY <3>1, <3>2, <3>3, <3>4, <4>1 DEF Moved
      <4>2. CASE ~\E i \in Slots : loop[id][i].pc = "count"
        <5>1. Moved(id) = request[id].done
          BY <3>1, <3>3, <3>4, <4>2 DEF Moved
        <5>2. Moved(id)' \in {request[id].done, request[id].done + request[id].order.rate}
          BY <3>1, <3>2, <3>3, <3>4, <4>2 DEF Moved
        <5> QED BY <3>4, <5>1, <5>2
      <4> QED BY <4>1, <4>2
    <3> QED BY <1>2, <1>3, <1>5, <2>2, <2>3, <3>2, <3>3, <3>5 DEF Importing
  <2>5. ASSUME NEW order \in Orders, Create(id, order)
        PROVE  request[id] = NoRequest /\ Moved(id) <= Moved(id)'
    <3>1. request[id] = NoRequest /\ Moved(id) = 0
      BY <2>5 DEF Create, Moved
    <3>2. Typed'
      BY TypedStep
    <3>3. Moved(id)' \in Nat
      BY <3>2, MovedTypeNext
    <3> QED BY <3>1, <3>3
  <2> QED BY <1>2, <1>3, <1>5, <2>1, <2>2, <2>3, <2>4, <2>5 DEF Importing
<1>8. CASE \E id \in RequestIds, i \in Slots : RunLoop(id, i)
  <2>1. PICK id \in RequestIds, i \in Slots : RunLoop(id, i)
    BY <1>8
  <2>2. /\ \A jd \in RequestIds \ {id} : request'[jd] = request[jd] /\ loop'[jd] = loop[jd]
        /\ loop[id][i] # None
    BY <2>1, RunAlone
  <2>3. request[id] \in Request /\ request[id] # NoRequest
    BY <1>4, <2>2 DEF OneLoop, TypeOK
  <2>4. /\ request'[id] # NoRequest /\ request'[id].order = request[id].order
        /\ request'[id].done < MaxDone => request[id].done < MaxDone
    <3>1. ASSUME NEW status \in Statuses, request'[id] = [request[id] EXCEPT !.status = status]
          PROVE  request'[id] \in Request /\ request'[id].order = request[id].order
                 /\ request'[id].done = request[id].done
      BY <2>3, <3>1 DEF Request
    <3>2. ASSUME NEW units \in Nat, request'[id] = Counted(request[id], units)
          PROVE  request'[id] \in Request /\ request'[id].order = request[id].order
                 /\ request'[id].done \in {request[id].done + units, MaxDone}
      BY <2>3, <3>2, CountedIs
    <3>3. request[id].done \in Nat
      BY <2>3 DEF Request
    <3>4. CASE request'[id] = request[id]
      BY <2>3, <3>4
    <3>5. CASE \E status \in {"auto_cancelled", "completed"} :
                 request'[id] = [request[id] EXCEPT !.status = status]
      BY <3>1, <3>3, <3>5, TradeAssumption DEF Statuses
    <3>6. CASE /\ loop[id][i].pc = "count"
               /\ request'[id] = Counted(request[id], Units(loop[id][i].snapshot))
      <4>1. Units(loop[id][i].snapshot) \in Nat
        BY <3>6, Awake, UnitsAre
      <4> QED BY <3>2, <3>3, <3>6, <4>1, TradeAssumption
    <3> QED BY <2>1, <3>4, <3>5, <3>6, RunDoes
  <2>5. Importing /\ request'[id].done < MaxDone
    BY <1>3, <2>2, <2>3, <2>4 DEF Importing
  <2>6. /\ loop[id][i].pc # "apply" => Moved(id) <= Moved(id)'
        /\ loop[id][i].pc = "apply" => Moved(id)' = Moved(id) + Units(loop[id][i].snapshot)
    BY <1>4, <2>1, <2>5, MovedRuns
  <2>7. CASE loop[id][i].pc # "apply"
    <3>1. wares' = wares
      BY <2>1, <2>7 DEF RunLoop, Wake, Check, CheckPrice, Close, Apply, Count, player
    <3> QED BY <1>2, <1>5, <2>2, <2>5, <2>6, <2>7, <3>1
  <2>8. CASE loop[id][i].pc = "apply"
    <3> DEFINE units == Units(loop[id][i].snapshot)
    <3>1. units \in Nat
      BY <2>8, Awake, UnitsAre
    <3>2. loop[id][i].snapshot.order.direction = "import"
      <4>1. loop[id][i] \notin {None, Sleeping}
        BY <2>8 DEF None, Sleeping
      <4>2. loop[id][i].snapshot.order = request[id].order
        BY <1>4, <4>1 DEF OneLoop
      <4> QED BY <2>3, <2>5, <4>2 DEF Importing
    <3>3. wares' = wares \/ wares' = wares - Smaller(units, wares)
      BY <2>1, <2>8, <3>2 DEF RunLoop, Wake, Check, CheckPrice, Close, Apply, Count, Import
    <3> HIDE DEF units
    <3>4. wares' >= wares - units
      BY <1>2, <3>1, <3>3, SmallerIs
    <3>5. Moved(id)' = Moved(id) + units
      BY <2>6, <2>8 DEF units
    <3> QED BY <1>5, <2>2, <2>5, <3>1, <3>4, <3>5
  <2> QED BY <2>7, <2>8
<1> QED BY <1>1, <1>6, <1>7, <1>8 DEF Next

\* Every step counts what it moves.
LEMMA AllMovedStep == Typed /\ Typed' /\ Alone /\ AllMoved /\ [Next]_vars => AllMoved'
<1> SUFFICES ASSUME Typed, Typed', Alone, AllMoved, [Next]_vars, Importing'
             PROVE  InitWares - wares' <=
                      SumFunctionOnSet([id \in RequestIds |-> Moved(id)'], RequestIds)
  BY DEF AllMoved
<1> DEFINE before == [id \in RequestIds |-> Moved(id)]
           after == [id \in RequestIds |-> Moved(id)']
<1>1. \A id \in RequestIds : before[id] \in Nat /\ after[id] \in Nat
  BY MovedType, MovedTypeNext
<1>2. InitWares - wares <= SumFunctionOnSet(before, RequestIds)
  BY MovedSteps DEF AllMoved
<1>3. wares \in Nat /\ wares' \in Nat /\ InitWares \in Nat /\ IsFiniteSet(RequestIds)
  BY TradeAssumption DEF Typed, TypeOK
<1>4. \/ wares' >= wares /\ \A id \in RequestIds : before[id] <= after[id]
      \/ \E id \in RequestIds, units \in Nat :
           /\ wares' >= wares - units /\ after[id] = before[id] + units
           /\ \A jd \in RequestIds \ {id} : after[jd] = before[jd]
  BY MovedSteps
<1> HIDE DEF before, after
<1>5. SumFunctionOnSet(before, RequestIds) \in Nat /\ SumFunctionOnSet(after, RequestIds) \in Nat
  BY <1>1, <1>3, SumNatural
<1>6. CASE wares' >= wares /\ \A id \in RequestIds : before[id] <= after[id]
  <2>1. SumFunctionOnSet(before, RequestIds) <= SumFunctionOnSet(after, RequestIds)
    BY <1>1, <1>3, <1>6, SumMonotone
  <2>2. InitWares - wares' <= SumFunctionOnSet(after, RequestIds)
    BY <1>2, <1>3, <1>5, <1>6, <2>1
  <2> QED BY <2>2 DEF after
<1>7. ASSUME NEW id \in RequestIds, NEW units \in Nat,
             wares' >= wares - units, after[id] = before[id] + units,
             \A jd \in RequestIds \ {id} : after[jd] = before[jd]
      PROVE  InitWares - wares' <= SumFunctionOnSet(after, RequestIds)
  <2>1. SumFunctionOnSet(after, RequestIds) =
          SumFunctionOnSet(before, RequestIds) + (after[id] - before[id])
    <3>1. \A jd \in RequestIds : before[jd] \in Int /\ after[jd] \in Int
      BY <1>1
    <3>2. \A jd \in RequestIds \ {id} : after[jd] = before[jd]
      BY <1>7
    <3>3. IsFiniteSet(RequestIds)
      BY <1>3
    <3>4. SumFunctionOnSet(after, RequestIds) =
            SumFunctionOnSet(before, RequestIds) + (after[id] - before[id])
      BY <3>1, <3>2, <3>3, SumChange, SMTT(30)
    <3> QED BY <3>4
  <2>2. after[id] - before[id] = units
    BY <1>1, <1>7
  <2> QED BY <1>2, <1>3, <1>5, <1>7, <2>1, <2>2
<1> QED BY <1>4, <1>6, <1>7 DEF after

\* While nothing removes the station or loads a snapshot, imports have taken no
\* more from the warehouse than their requests are counted for, and one tick of
\* each at most: however the loops, the cancellations and the economy interleave.
THEOREM TradeCorrect == Spec => []TradeInv
<1>1. Typed /\ AllMoved => TradeInv
  <2> SUFFICES ASSUME Typed, AllMoved, Importing
               PROVE  InitWares - wares <=
                        SumFunctionOnSet([id \in RequestIds |-> IF request[id] = NoRequest THEN 0
                                           ELSE request[id].done + Uncounted(id)], RequestIds)
    BY DEF TradeInv, Typed, ImportsCounted, Importing
  <2> DEFINE moved == [id \in RequestIds |-> Moved(id)]
             counted == [id \in RequestIds |-> IF request[id] = NoRequest THEN 0
                                               ELSE request[id].done + Uncounted(id)]
  <2>1. ASSUME NEW id \in RequestIds
        PROVE  moved[id] \in Nat /\ counted[id] \in Nat /\ moved[id] <= counted[id]
    <3>1. CASE request[id] = NoRequest
      BY <3>1 DEF Moved
    <3>2. CASE request[id] # NoRequest
      <4>1. request[id] \in Request
        BY <3>2 DEF Typed, TypeOK
      <4>2. /\ request[id].done \in Nat /\ request[id].order.rate \in Nat
            /\ Units(request[id]) \in Nat /\ Units(request[id]) <= request[id].order.rate
        BY <4>1, UnitsAre DEF Request, Order
      <4> QED BY <3>2, <4>2 DEF Moved, Uncounted
    <3> QED BY <3>1, <3>2
  <2>2. InitWares - wares <= SumFunctionOnSet(moved, RequestIds)
    BY DEF AllMoved
  <2> HIDE DEF moved, counted
  <2>3. SumFunctionOnSet(moved, RequestIds) <= SumFunctionOnSet(counted, RequestIds)
    BY <2>1, SumMonotone, TradeAssumption
  <2>4. SumFunctionOnSet(moved, RequestIds) \in Nat /\ SumFunctionOnSet(counted, RequestIds) \in Nat
    BY <2>1, SumNatural, TradeAssumption
  <2>5. wares \in Nat /\ InitWares \in Nat
    BY TradeAssumption DEF Typed, TypeOK
  <2>6. InitWares - wares <= SumFunctionOnSet(counted, RequestIds)
    BY <2>2, <2>3, <2>4, <2>5
  <2> QED BY <2>6 DEF counted
<1> QED BY <1>1, TypedInit, TypedStep, AloneInit, AloneStep, AllMovedInit, AllMovedStep, PTL DEF Spec
=============================================================================
