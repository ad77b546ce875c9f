------------------------------- MODULE Economy -------------------------------
(***************************************************************************)
(* The economy of a settlement: the tick of src/economy/tick.rs, the loop  *)
(* of src/economy/lifecycle.rs that runs it, and what the rest of the      *)
(* server does to the settlement meanwhile: the admin handlers of          *)
(* src/routes/settlements.rs, planets.rs and systems.rs, the trades of     *)
(* src/trade_lifecycle.rs and restarts.                                    *)
(*                                                                         *)
(* The loop takes a copy of the economy, and the trades of the last tick   *)
(* with it, under one galaxy.write(), computes on the copy, and stores it  *)
(* under another.  In between, the settlement may be replaced or removed   *)
(* and its system renamed.                                                 *)
(*                                                                         *)
(* One planet.  A tick moves goods in whole units, and rations round down. *)
(* What prices, capital, labour and population decide is chosen from small *)
(* sets: how much factories could produce (the Cobb-Douglas function), how *)
(* much households want and how much there is to invest.  Everything that  *)
(* follows from the goods themselves is kept: the inputs factories have to *)
(* share, the rationing with its domestic priority, production that counts *)
(* from the next tick on, transient goods, and resources.  A tick is one   *)
(* second and a production cycle one tick, as configured by default.       *)
(***************************************************************************)
EXTENDS Integers, FiniteSets, Functions

CONSTANTS
  Goods,
  Transient,     \* goods of config.economy.transient_goods
  Factories,     \* global.factory_types
  Extractors,    \* those of category extraction, of one output each
  Input, Output, \* [factory -> [good -> quantity]]
  Builders,      \* the factories that have a build cost, and infrastructure
  BuildCost,     \* [builder -> [good -> quantity]]
  Capacity,      \* max_capacity of a resource, 0 for other goods
  MaxExtraction, \* max_extraction, over the whole capacity
  Regeneration,  \* regeneration_rate, 0 where not renewable
  InitStock,     \* the stock a new economy has of every good it can store
  Potentials,    \* [factory -> runs]: what capital and labour may allow
  Wants,         \* [good -> units]: what households may want
  Plans,         \* [builder -> builds]: what investors may pay for
  Trades,        \* [good, units] players may import or export in a tick
  Names,         \* names of the system
  MaxTicks, MaxTrades, MaxEdits, MaxRestarts, \* bounds
  NoEconomy, NoCopy

Amounts == [Goods -> Nat]

EconomyRecord ==
  [initialized : BOOLEAN, stocks : Amounts, resources : Amounts,
   imports : Amounts, exports : Amounts, budget : Amounts,
   production : Amounts, consumption : Amounts, investment : Amounts,
   intermediate : Amounts, supply : Amounts, demand : Amounts]

\* Names of the planet's system, and what the loop copies.
NameRecord == [system : Names, id : Names]
CopyRecord == [name : NameRecord, ticked : BOOLEAN, economy : EconomyRecord]

Needs(row) == {g \in Goods : row[g] > 0}

ASSUME EconomyAssumption ==
  /\ IsFiniteSet(Goods) /\ IsFiniteSet(Factories) /\ IsFiniteSet(Builders)
  /\ Transient \subseteq Goods /\ Extractors \subseteq Factories
  /\ Input \in [Factories -> Amounts] /\ Output \in [Factories -> Amounts]
  /\ BuildCost \in [Builders -> Amounts]
  /\ {Capacity, MaxExtraction, Regeneration} \subseteq Amounts
  /\ \A g \in Goods : Capacity[g] = 0 => MaxExtraction[g] = 0 /\ Regeneration[g] = 0
  /\ \A f \in Extractors : \A g, h \in Needs(Output[f]) : g = h
  /\ InitStock \in Nat
  /\ Potentials \subseteq [Factories -> Nat] /\ Wants \subseteq Amounts
  /\ Plans \subseteq [Builders -> Nat]
  /\ Trades \subseteq [good : Goods, units : Nat]
  /\ {MaxTicks, MaxTrades, MaxEdits, MaxRestarts} \subseteq Nat
  /\ NoEconomy \notin EconomyRecord /\ NoCopy \notin CopyRecord

VARIABLES
  name,    \* [system, id]: the name of the planet's system, and the one its id has
  planet,  \* "absent", "uninhabited" or "settled", with a station or without
  econ,    \* settlement.economy, or NoEconomy
  copy,    \* what the loop works on: a name and an economy, or NoCopy
  booted,  \* has the loop initialized the settlements it found?
  ticks, trades, edits, restarts \* so far

galaxy == <<name, planet, econ>>
loop   == <<copy, booted, ticks>>
vars   == <<galaxy, loop, trades, edits, restarts>>

\* f itself.  (Comparing them, TLC computes its values once and for all.)
Table(f) == CHOOSE table \in {f} : table = f

Zero == [g \in Goods |-> 0]
Least(a, b)  == IF a <= b THEN a ELSE b
Monus(a, b)  == IF b <= a THEN a - b ELSE 0
\* The least of n and the numbers of S.
LeastOf(n, S) == CHOOSE m \in {n} \cup S : \A k \in {n} \cup S : m <= k
Most(S)       == CHOOSE m \in {0} \cup S : \A k \in {0} \cup S : k <= m

\* EconomyState::default(): nobody lives there.
Default == [initialized |-> FALSE, stocks |-> Zero, resources |-> Zero,
            imports |-> Zero, exports |-> Zero, budget |-> Zero,
            production |-> Zero, consumption |-> Zero, investment |-> Zero,
            intermediate |-> Zero, supply |-> Zero, demand |-> Zero]

\* Mutant: transient goods are stocked too.
InitializedAll ==
  [Default EXCEPT !.initialized = TRUE, !.resources = Capacity,
                  !.stocks = [g \in Goods |-> InitStock]]

\* initialize_economy_with_population
Initialized ==
  [Default EXCEPT !.initialized = TRUE, !.resources = Capacity,
     !.stocks = [g \in Goods |->
       IF g \notin Transient /\ \E f \in Factories : Output[f][g] > 0 THEN InitStock ELSE 0]]

\* A seed: its settlement waits for the loop.
Init ==
  /\ \E n \in Names : name = [system |-> n, id |-> n]
  /\ planet = "settled"
  /\ econ = Default
  /\ copy = NoCopy
  /\ booted = FALSE
  /\ ticks = 0 /\ trades = 0 /\ edits = 0 /\ restarts = 0

-----------------------------------------------------------------------------
(* Production *)

\* Mutant: a deposit gives its maximum whatever is left of it.
LimitFull(e, f) == Most({MaxExtraction[g] : g \in Needs(Output[f])})

\* What a deposit gives falls with what is left of it.  (How far capital
\* exploits it is part of the potential.)
Limit(e, f) ==
  Most({(MaxExtraction[g] * e.resources[g]) \div Capacity[g] :
          g \in {h \in Needs(Output[f]) : Capacity[h] > 0}})

\* y_unconstrained: the runs of f by its potential, its deposit and the inputs
\* in stock before this tick's imports, each factory looking at the whole stock.
Wanted(e, potential, f) ==
  LeastOf(IF f \in Extractors THEN Least(potential[f], Limit(e, f)) ELSE potential[f],
          {e.stocks[g] \div Input[f][g] : g \in Needs(Input[f])})

\* What runs make of part of what is needed, part out of whole.
Part(runs, part, whole) == IF part < whole THEN (runs * part) \div whole ELSE runs

Used(runs, g) == SumFunctionOnSet([f \in Factories |-> Input[f][g] * runs[f]], Factories)
Made(runs, g) == SumFunctionOnSet([f \in Factories |-> Output[f][g] * runs[f]], Factories)

\* Factories that want more of an input than there is share it; the scarcest
\* input decides.
Rationed(e, wanted) ==
  [f \in Factories |->
     LeastOf(wanted[f], {Part(wanted[f], e.stocks[g], Used(wanted, g)) : g \in Needs(Input[f])})]

-----------------------------------------------------------------------------
(* Use *)

\* What a domestic use that desires n gets, when all of them desire dom.
Domestic(n, supply, dom) == IF dom <= supply THEN n ELSE (n * supply) \div dom

\* Exports get what the domestic uses leave.
Exported(x, supply, dom) == IF dom <= supply THEN Least(x, supply - dom) ELSE 0

\* Mutant: production is not cut when inputs went to other uses.
ScaledNot(runs, got, desired) == runs

\* Factories that got less of an input than they reckoned with run less.
Scaled(runs, got, desired) ==
  [f \in Factories |->
     LeastOf(runs[f], {Part(runs[f], got[g], desired[g]) : g \in Needs(Input[f])})]

Invested(plan, g) == SumFunctionOnSet([b \in Builders |-> BuildCost[b][g] * plan[b]], Builders)

\* What builder b can build of its plan with its part of the goods that were
\* given to investment: the scarcest good decides.
Built(plan, given, b) ==
  LeastOf(plan[b], {((given[g] * BuildCost[b][g] * plan[b]) \div Invested(plan, g)) \div BuildCost[b][g] :
                      g \in {h \in Needs(BuildCost[b]) : Invested(plan, h) > 0}})

\* Extraction and regeneration, once a tick, of what an extractor digs: in
\* data/factories.json no two extractors share a good.  (The code regenerates
\* after each of them.)
Deposit(e, runs, g) ==
  LET left == Monus(e.resources[g], SumFunctionOnSet([f \in Extractors |-> Output[f][g] * runs[f]], Extractors))
  IN  IF Capacity[g] = 0 \/ \A f \in Extractors : Output[f][g] = 0 THEN e.resources[g]
      ELSE Least(Capacity[g],
                 left + (Regeneration[g] * (Capacity[g] - left)) \div Capacity[g])

\* Mutant: transient goods stay in stock.
StoredAll(g, n) == n

\* Transient goods are gone at the end of the tick, also those just made.
Stored(g, n) == IF g \in Transient THEN 0 ELSE n

\* economy_tick
Ticked(e, potential, want, plan) ==
  LET wanted   == Table([f \in Factories |-> Wanted(e, potential, f)])
      planned  == Table(Rationed(e, wanted))
      inputs   == Table([g \in Goods |-> Used(planned, g)])
      supply   == Table([g \in Goods |-> e.stocks[g] + e.imports[g]])
      dom      == Table([g \in Goods |-> want[g] + Invested(plan, g) + inputs[g]])
      consumed == Table([g \in Goods |-> Domestic(want[g], supply[g], dom[g])])
      given    == Table([g \in Goods |-> Domestic(Invested(plan, g), supply[g], dom[g])])
      got      == Table([g \in Goods |-> Domestic(inputs[g], supply[g], dom[g])])
      exported == Table([g \in Goods |-> Exported(e.exports[g], supply[g], dom[g])])
      runs     == Table(Scaled(planned, got, inputs))
      usage    == Table([g \in Goods |-> consumed[g] + given[g] + Used(runs, g) + exported[g]])
      built    == Table([b \in Builders |-> Built(plan, given, b)])
  IN  IF ~e.initialized THEN e ELSE
      [initialized  |-> TRUE,
       stocks       |-> [g \in Goods |-> Stored(g, Monus(supply[g], usage[g]) + Made(runs, g))],
       resources    |-> [g \in Goods |-> Deposit(e, runs, g)],
       imports      |-> Zero,
       exports      |-> Zero,
       budget       |-> exported,
       production   |-> [g \in Goods |-> Made(runs, g)],
       consumption  |-> consumed,
       investment   |-> [g \in Goods |-> Invested(built, g)],
       intermediate |-> [g \in Goods |-> Used(runs, g)],
       supply       |-> supply,
       demand       |-> [g \in Goods |-> dom[g] + e.exports[g]]]

-----------------------------------------------------------------------------
(* The economy loop *)

\* The loop starts with the settlements that are not initialized yet.
Bootstrap ==
  /\ ~booted
  /\ booted' = TRUE
  /\ econ' = IF planet = "settled" /\ ~econ.initialized THEN Initialized ELSE econ
  /\ UNCHANGED <<name, planet, copy, ticks, trades, edits, restarts>>

\* Under galaxy.write(): copy the economy and drain its accumulators.
CopyEconomy ==
  /\ booted /\ copy = NoCopy
  /\ ticks < MaxTicks
  /\ planet = "settled"
  /\ copy' = [name |-> name, ticked |-> FALSE, economy |-> econ]
  /\ econ' = [econ EXCEPT !.imports = Zero, !.exports = Zero]
  /\ ticks' = ticks + 1
  /\ UNCHANGED <<name, planet, booted, trades, edits, restarts>>

TickEconomy ==
  /\ copy # NoCopy /\ ~copy.ticked
  /\ \E potential \in Potentials, want \in Wants, plan \in Plans :
       copy' = [copy EXCEPT !.ticked = TRUE, !.economy = Ticked(@, potential, want, plan)]
  /\ UNCHANGED <<galaxy, booted, ticks, trades, edits, restarts>>

\* The copy is stored in the system of the name it was taken under, if there is
\* a settlement.
Found == planet = "settled" /\ name = copy.name

\* Mutant: trades of the meantime are lost.
MergedNot(e) == e

\* The copy, with the trades of the meantime.
Merged(e) == [e EXCEPT !.imports = [g \in Goods |-> @[g] + econ.imports[g]],
                       !.exports = [g \in Goods |-> @[g] + econ.exports[g]]]

\* Under galaxy.write() again.
WriteEconomy ==
  /\ copy # NoCopy /\ copy.ticked
  /\ econ' = IF Found THEN Merged(copy.economy) ELSE econ
  /\ copy' = NoCopy
  /\ UNCHANGED <<name, planet, booted, ticks, trades, edits, restarts>>

-----------------------------------------------------------------------------
(* Trades *)

Trade(t) ==
  /\ trades < MaxTrades
  /\ trades' = trades + 1
  /\ planet = "settled"
  /\ t.good \notin Transient
  /\ UNCHANGED <<name, planet, loop, edits, restarts>>

\* The tick of an import request puts what the warehouse had on this tick's
\* account.
Import(t) ==
  /\ Trade(t)
  /\ econ' = [econ EXCEPT !.imports[t.good] = @ + t.units]

\* Mutant: the budget is charged with what was asked for.
ExportUncapped(t) ==
  /\ Trade(t)
  /\ econ' = [econ EXCEPT !.exports[t.good] = @ + t.units, !.budget[t.good] = @ - t.units]

\* The tick of an export request asks for units and takes what the budget of
\* the last tick has.
Export(t) ==
  /\ Trade(t)
  /\ econ' = [econ EXCEPT !.exports[t.good] = @ + t.units, !.budget[t.good] = Monus(@, t.units)]

-----------------------------------------------------------------------------
(* Administration *)

Edit ==
  /\ edits < MaxEdits
  /\ edits' = edits + 1
  /\ UNCHANGED <<loop, trades, restarts>>

\* Mutant: a new settlement is initialized like those of the seed.
SettleInitialized ==
  /\ Edit
  /\ planet # "absent"
  /\ planet' = "settled"
  /\ econ' = Initialized
  /\ UNCHANGED name

\* PUT .../settlements: whether there was a settlement or not.  A settlement
\* that a construction project founds starts the same way.
Settle ==
  /\ Edit
  /\ planet # "absent"
  /\ planet' = "settled"
  /\ econ' = Default
  /\ UNCHANGED name

\* DELETE .../settlements
DeleteSettlement ==
  /\ Edit
  /\ planet = "settled"
  /\ planet' = "uninhabited"
  /\ econ' = NoEconomy
  /\ UNCHANGED name

\* DELETE of the planet or of its system, with all there is on it.
DeletePlanet ==
  /\ Edit
  /\ planet # "absent"
  /\ planet' = "absent"
  /\ econ' = NoEconomy
  /\ UNCHANGED name

\* POST .../planets, in the system or in a new one of any name: the id of the
\* planet is made of the name.
CreatePlanet ==
  /\ Edit
  /\ planet = "absent"
  /\ planet' = "uninhabited"
  /\ \E n \in Names : name' = [system |-> n, id |-> n]
  /\ UNCHANGED econ

\* PUT /admin/systems/{name}: the planets keep their ids.
RenameSystem ==
  /\ Edit
  /\ planet # "absent"
  /\ \E n \in Names \ {name.system} : name' = [name EXCEPT !.system = n]
  /\ UNCHANGED <<planet, econ>>

-----------------------------------------------------------------------------
\* The server stops and starts from a snapshot.  What happened after the save is
\* gone, so the restart is taken at the save: the loop and its copy are gone.
Restart ==
  /\ restarts < MaxRestarts
  /\ restarts' = restarts + 1
  /\ copy' = NoCopy
  /\ booted' = FALSE
  /\ UNCHANGED <<galaxy, ticks, trades, edits>>

RunLoop == Bootstrap \/ CopyEconomy \/ TickEconomy \/ WriteEconomy

Administer == \/ Settle \/ DeleteSettlement \/ DeletePlanet
              \/ CreatePlanet \/ RenameSystem

Next ==
  \/ RunLoop
  \/ \E t \in Trades : Import(t) \/ Export(t)
  \/ Administer
  \/ Restart

Spec == Init /\ [][Next]_vars

-----------------------------------------------------------------------------
(* Properties *)

\* Every variable has the shape the Rust types give it, there is an economy
\* exactly where there is a settlement, and no deposit ever grows over its
\* capacity.
TypeOK ==
  /\ name \in NameRecord
  /\ planet \in {"absent", "uninhabited", "settled"}
  /\ econ \in {NoEconomy} \cup EconomyRecord
  /\ planet = "settled" <=> econ # NoEconomy
  /\ copy \in {NoCopy} \cup CopyRecord
  /\ booted \in BOOLEAN
  /\ {ticks, trades, edits, restarts} \subseteq Nat
  /\ econ # NoEconomy => \A g \in Goods : econ.resources[g] <= Capacity[g]

Ticks == copy # NoCopy /\ ~copy.ticked /\ copy' # NoCopy /\ copy'.ticked

\* Good g only comes from deposits, and a full one has what all extractors
\* together take in a tick.
Dug(g) ==
  /\ Capacity[g] > 0
  /\ \A f \in Factories \ Extractors : Output[f][g] = 0
  /\ SumFunctionOnSet([f \in Extractors |-> Output[f][g]], Extractors) * MaxExtraction[g] <= Capacity[g]

Uses(e, g) == e.consumption[g] + e.investment[g] + e.intermediate[g] + e.budget[g]

\* What the stock of g has to make up for in a tick that makes old into new.
Balance(old, new, g) ==
  (old.stocks[g] + old.imports[g] + new.production[g]) - (new.stocks[g] + Uses(new, g))

Books(old, new) ==
  /\ \A g \in Goods : Uses(new, g) <= old.stocks[g] + old.imports[g]
  /\ \A g \in Goods \ Transient :
       /\ Balance(old, new, g) >= 0
       /\ (\A h \in Goods : new.demand[h] - old.exports[h] <= new.supply[h])
            => Balance(old, new, g) = 0
  /\ \A g \in Goods : Dug(g) => new.production[g] <= old.resources[g]

\* The books of test_stock_accounting_conservation, for every tick: what a tick
\* starts with and makes is what it uses and ends with.  The uses never ask for
\* more than there was before anything was made, though each factory looks at
\* the whole stock and all of them are rationed twice.  Goods may disappear,
\* unlike in the test, where something is short: investors take their part of a
\* good and build nothing with it if another one is lacking.  And what a tick
\* digs up, the deposit had at its start, though extraction is limited by one
\* amount and booked against another.
BooksBalance ==
  [][Ticks /\ copy.economy.initialized => Books(copy.economy, copy'.economy)]_vars

Economies == {e \in {econ} \cup (IF copy = NoCopy THEN {} ELSE {copy.economy}) : e # NoEconomy}

\* A transient good is only ever produced: it becomes available the tick after,
\* when it is gone.  Nobody consumes it, no factory runs on it, and nothing is
\* built where it is part of the cost.
TransientNeverUsed ==
  \A e \in Economies : \A g \in Transient :
    /\ e.stocks[g] = 0 /\ e.imports[g] = 0
    /\ e.consumption[g] = 0 /\ e.intermediate[g] = 0 /\ e.investment[g] = 0

\* What holds of the planet, its economy and the copy of it.
EconomyInv == TypeOK /\ TransientNeverUsed

\* All there is of good g on the planet: while the loop computes, the stock and
\* the imports of before are in its copy.
Held(g) ==
  (IF econ = NoEconomy THEN 0 ELSE econ.imports[g])
  + (IF copy # NoCopy THEN copy.economy.stocks[g] + copy.economy.imports[g]
     ELSE IF econ = NoEconomy THEN 0 ELSE econ.stocks[g])

\* What players import is used by a tick, once: besides the tick itself, only
\* trades add goods, and goods disappear only with a settlement that is removed
\* or replaced, with a tick that finds its planet gone or its system renamed
\* when it ends, with a restart during a tick, and when a settlement is
\* initialized after it was traded with.
TradesKept ==
  [][\A g \in Goods : Held(g)' # Held(g) /\ ~Ticks =>
       \/ Held(g)' > Held(g) /\ trades' # trades
       \/ edits' # edits /\ econ' # econ
       \/ copy # NoCopy /\ copy.ticked /\ copy' = NoCopy /\ ~Found
       \/ restarts' # restarts /\ copy # NoCopy
       \/ booted' /\ ~booted /\ ~econ.initialized]_vars

Lives(e) == e # NoEconomy /\ e.initialized

\* A settlement that is founded or replaced while the server runs has nobody in
\* it until the server starts anew, unless it was replaced while a tick was
\* computed: then the economy of before comes back.
FoundedStaysEmpty ==
  [][Lives(econ') /\ ~Lives(econ) =>
       \/ ~booted
       \/ copy # NoCopy /\ Lives(copy.economy) /\ copy' = NoCopy]_vars
=============================================================================
