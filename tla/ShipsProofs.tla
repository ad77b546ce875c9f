----------------------------- MODULE ShipsProofs -----------------------------
(***************************************************************************)
(* What TLAPS proves about module Ships, for any stations, ships, cargoes, *)
(* numbers of bays, handlers and restarts, and however requests about one  *)
(* ship overlap: every variable keeps its type; the docking bays are       *)
(* overrun by at most one ship per handler that runs beside another, and   *)
(* the storage by at most a cargo of each; every ship on its way has a     *)
(* running timer; statuses come in sequence and cargoes are accounted for, *)
(* but for the steps the properties name.                                  *)
(***************************************************************************)
EXTENDS Ships, Sums

-----------------------------------------------------------------------------
(* Type correctness *)

\* A ship id not used yet has no timer, and a handler that is at work is at
\* work on a ship that was there once.
Grounded ==
  /\ \A s \in ShipIds : ~Used(s) => toOrigin[s] = 0
  /\ \A t \in Threads : ~At(t, "idle") => handler[t].ship \in ShipIds /\ Used(handler[t].ship)

Typed == TypeOK /\ Grounded

\* The initial state is well typed and no handler is at work.
LEMMA TypedInit == Init => Typed
  BY ShipsAssumption DEF Init, Typed, TypeOK, Grounded, Idle, At, Used, Recovered

\* The statuses, spelled out.
LEMMA StatusesAre ==
  Statuses = {"in_transit_to_origin", "awaiting_origin_docking_auth", "loading",
              "awaiting_origin_undocking_auth", "in_transit",
              "awaiting_docking_auth", "unloading", "awaiting_undocking_auth",
              "complete", "deleted"}
<1>1. 1..9 = {1, 2, 3, 4, 5, 6, 7, 8, 9}
  OBVIOUS
<1> QED BY <1>1 DEF Statuses, Sequence

\* Polling leads from a status to a status.
LEMMA PolledStatus == \A status \in Statuses : Polled(status) \in Statuses
  BY StatusesAre DEF Polled

\* Giving a ship another status leaves every ship a ship.
LEMMA SetStatusTyped ==
  ASSUME Typed, NEW s \in ShipIds, Used(s), NEW status \in Statuses,
         SetStatus(s, status) \/ WriteStatus(s, status)
  PROVE  /\ ships' \in [ShipIds -> Ship \cup {NoShip}]
         /\ \A r \in ShipIds : Used(r)' <=> Used(r)
<1>1. CASE SetStatus(s, status)
  BY <1>1, ShipsAssumption, ZenonT(40) DEF Typed, TypeOK, SetStatus, WriteStatus, Ship, Used
<1>2. CASE ships' = ships
  BY <1>2 DEF Typed, TypeOK, Used
<1> QED BY <1>1, <1>2 DEF WriteStatus

\* A handler keeps its ship over every step but the first and the last.
LEMMA HandlerTyped ==
  ASSUME Typed, NEW t \in Threads, ~At(t, "idle"),
         NEW pc \in {"deduct", "origin_bay", "load", "dest_bay", "unload",
                     "depart", "storage", "complete", "deliver"},
         Goto(t, pc) \/ Finish(t),
         \A r \in ShipIds : Used(r)' <=> Used(r),
         toOrigin' = toOrigin, UNCHANGED server
  PROVE  /\ deleting' \in Players \cup {NoPlayer} /\ disowned' \subseteq Players
         /\ removing' \in Stations \cup {NoStation} /\ gone' \subseteq Stations
         /\ drops' \in Nat /\ restarts' \in Nat
         /\ handler' \in [Threads ->
              [pc : {"idle", "deduct", "origin_bay", "load", "dest_bay", "unload",
                     "depart", "storage", "complete", "deliver"},
               ship : ShipIds \cup {NoShip}]]
         /\ Grounded'
  BY DEF Typed, TypeOK, Goto, Finish, Grounded, Idle, At, server

\* An order names stations and a cargo that may be carried.
LEMMA OrderIs ==
  ASSUME NEW o \in Orders
  PROVE  o.from \in Stations /\ o.to \in Stations /\ o.cargo \in Cargoes /\ o.cargo \in Nat
<1>1. PICK route \in Routes, q \in Cargoes : o = [from |-> route[1], to |-> route[2], cargo |-> q]
  BY DEF Orders
<1>2. route \in Stations \X Stations /\ q \in Nat
  BY ShipsAssumption
<1> QED BY <1>1, <1>2

\* Paying a trucking fee keeps the types: it takes no more than there is.
LEMMA PayTyped ==
  ASSUME Typed, NEW o \in Orders, PayFee(o)
  PROVE  Typed'
<1> USE DEF Typed, TypeOK, fleet, server, money
<1>1. BaseFee + FeePerUnit * o.cargo \in Nat
  <2>1. BaseFee \in Nat /\ FeePerUnit \in Nat /\ o.cargo \in Nat
    BY OrderIs, ShipsAssumption
  <2> QED BY <2>1
<1>2. credits' \in [Players -> Nat]
  BY <1>1, OrderIs, ShipsAssumption DEF PayFee
<1>3. paid' \in [Orders -> Nat]
  BY DEF PayFee
<1> QED BY <1>2, <1>3 DEF PayFee, Grounded, At, Used

\* Creating a ship keeps the types: it is new, so it has no timer yet.
LEMMA CreateTyped ==
  ASSUME Typed, NEW s \in ShipIds, NEW from \in Stations, NEW to \in Stations,
         NEW q \in Cargoes,
         \/ CreateTrade(s, from, to, q)
         \/ \E o \in Orders : /\ from = o.from /\ to = o.to /\ q = o.cargo
                             /\ CreateTrucking(s, o)
  PROVE  Typed'
<1> USE DEF Typed, TypeOK, fleet, server, money
<1>1. PICK kind \in {"trade", "trucking"} : Launch(s, kind, from, to, q) /\ handler' = handler
  BY DEF CreateTrucking, CreateTrade
<1>2. [kind |-> kind, from |-> from, to |-> to, cargo |-> q, status |-> Sequence[1]] \in Ship
  BY StatusesAre, ShipsAssumption DEF Ship, Sequence
<1>3. /\ ships' \in [ShipIds -> Ship \cup {NoShip}]
      /\ \A r \in ShipIds : Used(r)' <=> r = s \/ Used(r)
  BY <1>1, <1>2, ShipsAssumption DEF Launch, Exists, Used
<1>4. toOrigin[s] = 0 /\ toOrigin' = [toOrigin EXCEPT ![s] = @ + 1]
  BY <1>1 DEF Launch, Grounded
<1>5. toOrigin' \in [ShipIds -> 0..1]
  BY <1>4
<1>6. Grounded'
  BY <1>1, <1>3, <1>4 DEF Grounded, At
<1>7. ASSUME NEW o \in Orders, CreateTrucking(s, o)
      PROVE  Typed'
  <2>1. paid' \in [Orders -> Nat]
    BY <1>7 DEF CreateTrucking
  <2> QED BY <1>3, <1>5, <1>6, <1>7, <2>1 DEF CreateTrucking
<1>8. CASE CreateTrade(s, from, to, q)
  <2>1. stock' \in [Stations -> Nat]
    BY <1>8, ShipsAssumption DEF CreateTrade
  <2> QED BY <1>3, <1>5, <1>6, <1>8, <2>1 DEF CreateTrade
<1> QED BY <1>7, <1>8

\* The same, for any step of module Ships that creates a ship or pays for one.
LEMMA LaunchTyped == Typed /\ Create => Typed'
<1> SUFFICES ASSUME Typed, Create PROVE Typed'
  OBVIOUS
<1>1. ASSUME NEW s \in ShipIds, NEW o \in Orders, CreateTrucking(s, o)
      PROVE  Typed'
  BY <1>1, OrderIs, CreateTyped
<1>2. ASSUME NEW s \in ShipIds, NEW route \in Routes, NEW q \in Cargoes,
             CreateTrade(s, route[1], route[2], q)
      PROVE  Typed'
  <2>1. route[1] \in Stations /\ route[2] \in Stations
    BY ShipsAssumption
  <2> QED BY <1>2, <2>1, CreateTyped
<1> QED BY <1>1, <1>2, PayTyped DEF Create

\* A timer that wakes up keeps the types.
LEMMA TimerTyped ==
  ASSUME Typed, NEW s \in ShipIds, Timer(s)
  PROVE  Typed'
<1> USE DEF Typed, TypeOK, fleet, server, money
<1>1. /\ ships' \in [ShipIds -> Ship \cup {NoShip}]
      /\ \A r \in ShipIds : Used(r)' <=> Used(r)
  BY StatusesAre, SetStatusTyped DEF Timer, ArriveAtOrigin, Arrive, HasStatus, Exists, Used
<1>2. CASE ArriveAtOrigin(s)
  BY <1>1, <1>2 DEF ArriveAtOrigin, Grounded, At
<1>3. CASE Arrive(s)
  BY <1>1, <1>3 DEF Arrive, Grounded, At
<1> QED BY <1>2, <1>3 DEF Timer

\* Polling and the requests that reach a handler keep the types: a handler
\* starts with a ship that exists.
LEMMA RequestTyped ==
  ASSUME Typed, NEW s \in ShipIds, NEW t \in Threads,
         Poll(s) \/ Dock(t, s) \/ Undock(t, s)
  PROVE  Typed'
<1> USE DEF Typed, TypeOK, fleet, server, money
<1>1. Used(s)
  BY DEF Poll, Dock, Undock, MayStart, Exists
<1>2. Polled(ships[s].status) \in Statuses
  BY <1>1, PolledStatus DEF Ship, Exists, Used
<1>3. /\ ships' \in [ShipIds -> Ship \cup {NoShip}]
      /\ \A r \in ShipIds : Used(r)' <=> Used(r)
  BY <1>1, <1>2, SetStatusTyped DEF Poll, Dock, Undock, Exists, Used
<1>4. CASE Poll(s)
  BY <1>3, <1>4 DEF Poll, Grounded, At
<1>5. CASE Dock(t, s)
  BY <1>1, <1>3, <1>5 DEF Dock, Grounded, At
<1>6. CASE Undock(t, s)
  <2>1. PICK pc \in {"depart", "storage"} :
          handler' = [handler EXCEPT ![t] = [pc |-> pc, ship |-> s]]
    BY <1>6 DEF Undock
  <2>2. Grounded'
    BY <1>1, <1>3, <1>6, <2>1 DEF Undock, Grounded, At
  <2> QED BY <1>3, <1>6, <2>1, <2>2 DEF Undock
<1> QED BY <1>4, <1>5, <1>6

\* The critical sections of dock and undock keep the types.
LEMMA StepTyped ==
  ASSUME Typed, NEW t \in Threads, Step(t)
  PROVE  Typed'
<1> DEFINE s == handler[t].ship
<1> USE DEF Typed, TypeOK, fleet, server, money
<1>1. ~At(t, "idle") /\ s \in ShipIds /\ Used(s)
  BY DEF Step, DeductCargo, OriginBayCheck, StartLoading, DestBayCheck,
         StartUnloading, Depart, StorageCheck, Complete, Deliver, At, Grounded
<1>2. ships[s] \in Ship
  BY <1>1 DEF Exists, Used
<1>3. /\ ships' \in [ShipIds -> Ship \cup {NoShip}]
      /\ \A r \in ShipIds : Used(r)' <=> Used(r)
  <2>1. ships' = ships \/ \E status \in Statuses : SetStatus(s, status) \/ WriteStatus(s, status)
    BY StatusesAre
    DEF Step, DeductCargo, OriginBayCheck, StartLoading, DestBayCheck,
        StartUnloading, Depart, StorageCheck, Complete, Deliver
  <2> QED BY <1>1, <2>1, SetStatusTyped DEF Exists, Used
<1>4. /\ toOrigin' = toOrigin /\ UNCHANGED <<money, server>>
      /\ \E pc \in {"deduct", "origin_bay", "load", "dest_bay", "unload",
                    "depart", "storage", "complete", "deliver"} :
           Goto(t, pc) \/ Finish(t)
  BY DEF Step, DeductCargo, OriginBayCheck, StartLoading, DestBayCheck,
         StartUnloading, Depart, StorageCheck, Complete, Deliver
<1>5. stock' \in [Stations -> Nat] /\ transits' \in [ShipIds -> Nat]
  BY <1>2
  DEF Step, DeductCargo, OriginBayCheck, StartLoading, DestBayCheck,
      StartUnloading, Depart, StorageCheck, Complete, Deliver, Ship
<1> QED BY <1>1, <1>3, <1>4, <1>5, HandlerTyped

\* Deletions, dropped requests and restarts keep the types: a restart starts one
\* timer at most.
LEMMA ServerTyped ==
  ASSUME Typed, Administer \/ Disconnect \/ Restart
  PROVE  Typed'
<1> USE DEF Typed, TypeOK, fleet, server, money
<1>1. ASSUME NEW p \in Deletable, DeleteShips(p)
      PROVE  Typed'
  <2>1. ASSUME NEW r \in ShipIds, Used(r)
        PROVE  [ships[r] EXCEPT !.status = "deleted"] \in Ship
    BY <2>1, StatusesAre DEF Used, Ship
  <2>2. ships' \in [ShipIds -> Ship \cup {NoShip}]
    BY <1>1, <2>1 DEF DeleteShips, Exists
  <2>3. \A r \in ShipIds : Used(r)' <=> Used(r)
    BY <1>1, <2>1, ShipsAssumption DEF DeleteShips, Exists, Used
  <2> QED BY <1>1, <2>2, <2>3, ShipsAssumption DEF DeleteShips, Grounded, At
<1>2. CASE Disown
  BY <1>2 DEF Disown, fleet, Grounded, At, Used
<1>3. CASE Restart
  BY <1>3 DEF Restart, Recovered, Idle, Grounded, At, Used
<1>4. ASSUME NEW st \in Removable, CheckShips(st)
      PROVE  Typed'
  BY <1>4, ShipsAssumption DEF CheckShips, Grounded, At, Used
<1>5. CASE RemoveStation
  BY <1>5 DEF RemoveStation, Grounded, At, Used
<1>6. ASSUME NEW t \in Threads, Drop(t)
      PROVE  Typed'
  BY <1>6 DEF Drop, Finish, Idle, Grounded, At, Used
<1>7. ASSUME NEW o \in Orders, DropOrder(o)
      PROVE  Typed'
  BY <1>7 DEF DropOrder, Grounded, At, Used
<1> QED BY <1>1, <1>2, <1>3, <1>4, <1>5, <1>6, <1>7 DEF Administer, Disconnect

\* No step takes a variable out of its type.
LEMMA TypedStep == Typed /\ [Next]_vars => Typed'
<1> SUFFICES ASSUME Typed, [Next]_vars PROVE Typed'
  OBVIOUS
<1>1. CASE UNCHANGED vars
  BY <1>1 DEF vars, fleet, server, money, Typed, TypeOK, Grounded, Exists, Used, At
<1> QED
  BY ShipsAssumption, <1>1, LaunchTyped, TimerTyped, RequestTyped, StepTyped, ServerTyped
  DEF Next, Request

\* The type invariant of the ships holds in every reachable state.
THEOREM TypeCorrect == Spec => []TypeOK
<1>1. Typed => TypeOK
  BY DEF Typed
<1> QED BY <1>1, TypedInit, TypedStep, PTL DEF Spec

-----------------------------------------------------------------------------
(* Docking bays *)

\* The handlers that have seen a free bay at station st and not docked yet.
Passed(st) ==
  {t \in Threads : \/ At(t, "load")   /\ ships[handler[t].ship].from = st
                   \/ At(t, "unload") /\ ships[handler[t].ship].to = st}

\* The strengthening of BayOverrunBounded: the ships in the bays and the
\* handlers about to dock another stay within the bound together.  The bound
\* alone is not inductive: it does not say that a handler which has passed its
\* check was counted.
SlotsBounded ==
  \A st \in Stations \ gone :
    Docked(st) + Cardinality(Passed(st)) <= DockingBays + Cardinality(Threads) - 1

\* A station that has gone stays gone.
LEMMA GoneStays == [Next]_vars => gone \subseteq gone'
<1> SUFFICES ASSUME [Next]_vars PROVE gone \subseteq gone'
  OBVIOUS
<1>1. CASE \E t \in Threads : Step(t)
  <2>1. UNCHANGED server
    BY <1>1 DEF Step, DeductCargo, OriginBayCheck, StartLoading, DestBayCheck, StartUnloading, Depart,
           StorageCheck, Complete, Deliver
  <2> QED BY <2>1 DEF server
<1>2. CASE RemoveStation
  BY <1>2 DEF RemoveStation
<1>3. CASE Create \/ Request \/ UNCHANGED vars \/ \E s \in ShipIds : Timer(s) \/ Poll(s)
  <2>1. UNCHANGED server
    BY <1>3 DEF Create, PayFee, CreateTrucking, CreateTrade, Request, Dock, Undock, Timer,
           ArriveAtOrigin, Arrive, Poll, vars
  <2> QED BY <2>1 DEF server
<1>4. CASE Administer /\ ~RemoveStation
  BY <1>4 DEF Administer, DeleteShips, Disown, CheckShips
<1>5. CASE Disconnect \/ Restart
  BY <1>5 DEF Disconnect, Drop, DropOrder, Restart
<1> QED BY <1>1, <1>2, <1>3, <1>4, <1>5 DEF Next

\* Docked ships and passed handlers are finite sets, which can be counted.
LEMMA Finite ==
  ASSUME NEW st \in Stations
  PROVE  /\ IsFiniteSet(DockedShips(st)) /\ Docked(st) \in Nat
         /\ IsFiniteSet(Passed(st)) /\ Cardinality(Passed(st)) \in Nat
         /\ Cardinality(Threads) \in Nat /\ Cardinality(Threads) >= 1
         /\ Cardinality(Passed(st)) <= Cardinality(Threads)
<1>1. DockedShips(st) \in SUBSET ShipIds /\ Passed(st) \in SUBSET Threads
  BY DEF DockedShips, Occupies, Passed
<1>2. IsFiniteSet(Threads) /\ IsFiniteSet(ShipIds) /\ Threads # {}
  BY ShipsAssumption
<1>3. IsFiniteSet(DockedShips(st)) /\ Docked(st) \in Nat
  BY <1>1, <1>2, FS_Subset, FS_CardinalityType DEF Docked
<1>4. /\ IsFiniteSet(Passed(st)) /\ Cardinality(Passed(st)) \in Nat
      /\ Cardinality(Passed(st)) <= Cardinality(Threads)
  BY <1>1, <1>2, FS_Subset, FS_CardinalityType
<1>5. Cardinality(Threads) \in Nat /\ Cardinality(Threads) # 0
  BY <1>2, FS_EmptySet, FS_CardinalityType
<1> QED BY <1>3, <1>4, <1>5

\* At the start nobody is about to dock, and the snapshot's ships are in bounds.
LEMMA SlotsInit == Init => SlotsBounded
<1> SUFFICES ASSUME Init, NEW st \in Stations
             PROVE  Docked(st) + Cardinality(Passed(st))
                      <= DockingBays + Cardinality(Threads) - 1
  BY DEF SlotsBounded
<1>1. Passed(st) = {}
  BY DEF Init, Passed, At, Idle
<1>2. DockedShips(st) = {s \in ShipIds : Occupies(InitShips[s], st)}
  BY DEF Init, DockedShips
<1>3. Docked(st) <= DockingBays + Cardinality(Threads) - 1
  BY <1>2, ShipsAssumption DEF Docked
<1> QED BY <1>1, <1>3, Finite, FS_EmptySet, ShipsAssumption

\* A step that docks no ship and lets no handler pass keeps the bound.
LEMMA SlotsFewer ==
  ASSUME SlotsBounded, NEW st \in Stations, st \notin gone,
         DockedShips(st)' \subseteq DockedShips(st), Passed(st)' \subseteq Passed(st)
  PROVE  Docked(st)' + Cardinality(Passed(st)') <= DockingBays + Cardinality(Threads) - 1
<1>1. /\ Docked(st)' <= Docked(st) /\ Docked(st)' \in Nat
      /\ Cardinality(Passed(st)') <= Cardinality(Passed(st))
      /\ Cardinality(Passed(st)') \in Nat
  BY Finite, FS_Subset, FS_CardinalityType DEF Docked
<1>2. Docked(st) + Cardinality(Passed(st)) <= DockingBays + Cardinality(Threads) - 1
  BY DEF SlotsBounded
<1> QED BY <1>1, <1>2, Finite, ShipsAssumption

\* A handler that passes the check has seen a free bay, so the bound holds
\* however many handlers have passed.
LEMMA SlotsPass ==
  ASSUME NEW st \in Stations, ~(Docked(st) >= DockingBays),
         DockedShips(st)' = DockedShips(st), Passed(st)' \in SUBSET Threads
  PROVE  Docked(st)' + Cardinality(Passed(st)') <= DockingBays + Cardinality(Threads) - 1
<1>1. Docked(st)' = Docked(st)
  BY DEF Docked
<1>2. Cardinality(Passed(st)') \in Nat /\ Cardinality(Passed(st)') <= Cardinality(Threads)
  BY ShipsAssumption, FS_Subset, FS_CardinalityType
<1> QED BY <1>1, <1>2, Finite, ShipsAssumption

\* A handler that docks its ship fills a bay and is no longer about to.
LEMMA SlotsDock ==
  ASSUME SlotsBounded, NEW st \in Stations, st \notin gone, NEW s, NEW t \in Passed(st),
         DockedShips(st)' \subseteq DockedShips(st) \cup {s},
         Passed(st)' \subseteq Passed(st) \ {t}
  PROVE  Docked(st)' + Cardinality(Passed(st)') <= DockingBays + Cardinality(Threads) - 1
<1>1. /\ IsFiniteSet(DockedShips(st) \cup {s})
      /\ Cardinality(DockedShips(st) \cup {s}) \in Nat
      /\ Cardinality(DockedShips(st) \cup {s}) <= Docked(st) + 1
  <2>1. IsFiniteSet(DockedShips(st) \cup {s})
    BY Finite, FS_AddElement
  <2>2. \/ Cardinality(DockedShips(st) \cup {s}) = Docked(st)
        \/ Cardinality(DockedShips(st) \cup {s}) = Docked(st) + 1
    BY Finite, FS_AddElement DEF Docked
  <2> QED BY <2>1, <2>2, Finite, FS_CardinalityType
<1>2. /\ IsFiniteSet(Passed(st) \ {t})
      /\ Cardinality(Passed(st) \ {t}) = Cardinality(Passed(st)) - 1
  BY Finite, FS_RemoveElement
<1>3. Docked(st)' \in Nat /\ Docked(st)' <= Docked(st) + 1
  BY <1>1, Finite, FS_Subset, FS_CardinalityType DEF Docked
<1>4. /\ Cardinality(Passed(st)') \in Nat
      /\ Cardinality(Passed(st)') <= Cardinality(Passed(st)) - 1
  BY <1>2, FS_Subset, FS_CardinalityType
<1>5. Docked(st) + Cardinality(Passed(st)) <= DockingBays + Cardinality(Threads) - 1
  BY DEF SlotsBounded
<1> QED BY <1>3, <1>4, <1>5, Finite, ShipsAssumption

\* Stations keep their ships and handlers while no ship docks: creating ships,
\* timers, polling and new requests fill no bay, and neither do the sections
\* of dock and undock other than the bay checks and the writes after them.
LEMMA QuietSteps ==
  ASSUME Typed, NEW st \in Stations,
         \/ Create \/ Request \/ (\E s \in ShipIds : Timer(s) \/ Poll(s))
         \/ \E t \in Threads : \/ DeductCargo(t) \/ Depart(t) \/ StorageCheck(t)
                               \/ Complete(t) \/ Deliver(t)
  PROVE  DockedShips(st)' \subseteq DockedShips(st) /\ Passed(st)' \subseteq Passed(st)
<1> USE DEF Typed, TypeOK, fleet, server, money
<1>0. ASSUME NEW o \in Orders, PayFee(o)
      PROVE  DockedShips(st)' \subseteq DockedShips(st) /\ Passed(st)' \subseteq Passed(st)
  BY <1>0 DEF PayFee, DockedShips, Occupies, Passed, At
<1>1. CASE Create /\ ~\E o \in Orders : PayFee(o)
  <2>0. \A route \in Routes : route[1] \in Stations /\ route[2] \in Stations
    BY ShipsAssumption
  <2>1. PICK s \in ShipIds, from \in Stations, to \in Stations, q \in Cargoes,
             kind \in {"trade", "trucking"} :
          Launch(s, kind, from, to, q) /\ handler' = handler
    BY <1>1, <2>0, OrderIs, ShipsAssumption DEF Create, CreateTrucking, CreateTrade
  <2>2. DockedShips(st)' \subseteq DockedShips(st)
    BY <2>1 DEF Launch, DockedShips, Occupies, Exists, Used, Sequence
  <2>3. Passed(st)' \subseteq Passed(st)
    BY <2>1 DEF Launch, Passed, At, Grounded, Exists, Used
  <2> QED BY <2>2, <2>3
<1>2. ASSUME NEW s \in ShipIds, Timer(s)
      PROVE  DockedShips(st)' \subseteq DockedShips(st) /\ Passed(st)' \subseteq Passed(st)
  BY <1>2 DEF Timer, ArriveAtOrigin, Arrive, HasStatus, SetStatus, WriteStatus, DockedShips, Occupies,
              Passed, At, Grounded, Exists, Used, Ship
<1>3. ASSUME NEW s \in ShipIds, Used(s), SetStatus(s, Polled(ships[s].status))
      PROVE  /\ DockedShips(st)' \subseteq DockedShips(st)
             /\ \A r \in ShipIds : Used(r) => /\ ships'[r].from = ships[r].from
                                                /\ ships'[r].to = ships[r].to
  BY <1>3 DEF SetStatus, WriteStatus, DockedShips, Occupies, Exists, Used, Ship, Polled
<1>4. ASSUME NEW s \in ShipIds, Poll(s)
      PROVE  DockedShips(st)' \subseteq DockedShips(st) /\ Passed(st)' \subseteq Passed(st)
  BY <1>3, <1>4 DEF Poll, Exists, Passed, At, Grounded
<1>5. ASSUME NEW s \in ShipIds, NEW t \in Threads, Dock(t, s)
      PROVE  DockedShips(st)' \subseteq DockedShips(st) /\ Passed(st)' \subseteq Passed(st)
  BY <1>5 DEF Dock, DockedShips, Occupies, Passed, At, Exists, Used
<1>6. ASSUME NEW s \in ShipIds, NEW t \in Threads, Undock(t, s)
      PROVE  DockedShips(st)' \subseteq DockedShips(st) /\ Passed(st)' \subseteq Passed(st)
  BY <1>3, <1>6, SMTT(30) DEF Undock, MayStart, Exists, Used, Passed, At, Grounded
<1>7. ASSUME NEW t \in Threads, DeductCargo(t) \/ StorageCheck(t) \/ Deliver(t)
      PROVE  DockedShips(st)' \subseteq DockedShips(st) /\ Passed(st)' \subseteq Passed(st)
  <2>1. ships' = ships
    <3>1. DeductCargo(t) => ships' = ships
      BY SMTT(60) DEF DeductCargo
    <3>2. StorageCheck(t) => ships' = ships
      BY SMTT(60) DEF StorageCheck
    <3>3. Deliver(t) => ships' = ships
      BY SMTT(60) DEF Deliver
    <3> QED BY <1>7, <3>1, <3>2, <3>3
  <2>2. Finish(t) \/ \E pc \in {"origin_bay", "complete"} : Goto(t, pc)
    <3>1. Finish(t) \/ Goto(t, "origin_bay") \/ Goto(t, "complete")
      BY <1>7, Zenon DEF DeductCargo, StorageCheck, Deliver
    <3> QED BY <3>1
  <2>3. DockedShips(st)' = DockedShips(st)
    BY <2>1 DEF DockedShips, Occupies, Exists, Used
  <2>4. Passed(st)' \subseteq Passed(st)
    BY <2>1, <2>2 DEF Goto, Finish, Idle, Passed, At
  <2> QED BY <2>3, <2>4
<1>8. ASSUME NEW t \in Threads, Depart(t) \/ Complete(t)
      PROVE  DockedShips(st)' \subseteq DockedShips(st) /\ Passed(st)' \subseteq Passed(st)
  <2>1. handler[t].ship \in ShipIds /\ Used(handler[t].ship)
    BY <1>8 DEF Depart, Complete, At, Grounded
  <2>2. DockedShips(st)' \subseteq DockedShips(st)
    BY <1>8, <2>1, SMTT(30) DEF Depart, Complete, SetStatus, WriteStatus, DockedShips, Occupies, Exists, Used, Ship
  <2>3. Passed(st)' \subseteq Passed(st)
    <3>1. CASE Depart(t)
      BY <2>1, <3>1, SMTT(60) DEF Depart, SetStatus, WriteStatus, Finish, Idle, Passed, At,
                                  Grounded, Exists, Used, Ship
    <3>2. CASE Complete(t)
      BY <2>1, <3>2, SMTT(60) DEF Complete, SetStatus, WriteStatus, Goto, Finish, Idle, Passed,
                                  At, Grounded, Exists, Used, Ship
    <3> QED BY <1>8, <3>1, <3>2
  <2> QED BY <2>2, <2>3
<1> QED
  BY <1>0, <1>1, <1>2, <1>4, <1>5, <1>6, <1>7, <1>8 DEF Create, Request

\* The bay checks and the writes after them keep the bound at every station.
LEMMA BaySteps ==
  ASSUME Typed, SlotsBounded, NEW st \in Stations, st \notin gone, NEW t \in Threads,
         OriginBayCheck(t) \/ StartLoading(t) \/ DestBayCheck(t) \/ StartUnloading(t)
  PROVE  Docked(st)' + Cardinality(Passed(st)') <= DockingBays + Cardinality(Threads) - 1
<1> DEFINE s == handler[t].ship
<1> USE DEF Typed, TypeOK, fleet, server, money
<1>1. s \in ShipIds /\ Used(s) /\ ships[s] \in Ship
  BY DEF OriginBayCheck, StartLoading, DestBayCheck, StartUnloading, At,
         Grounded, Exists, Used
<1>2. CASE OriginBayCheck(t)
  <2>1. DockedShips(st)' = DockedShips(st)
    BY <1>2 DEF OriginBayCheck, DockedShips, Occupies, Exists, Used
  <2>2. CASE ships[s].from = st /\ ~(Docked(st) >= DockingBays)
    BY <2>1, <2>2, SlotsPass DEF Passed
  <2>3. CASE ~(ships[s].from = st /\ ~(Docked(st) >= DockingBays))
    <3>1. Passed(st)' \subseteq Passed(st)
      BY <1>2, <2>3 DEF OriginBayCheck, BaysTaken, Connected, Goto, Finish, Idle, Passed, At
    <3> QED BY <2>1, <3>1, SlotsFewer
  <2> QED BY <2>2, <2>3
<1>3. CASE DestBayCheck(t)
  <2>1. DockedShips(st)' = DockedShips(st)
    BY <1>3 DEF DestBayCheck, DockedShips, Occupies, Exists, Used
  <2>2. CASE ships[s].to = st /\ ~(Docked(st) >= DockingBays)
    BY <2>1, <2>2, SlotsPass DEF Passed
  <2>3. CASE ~(ships[s].to = st /\ ~(Docked(st) >= DockingBays))
    <3>1. Passed(st)' \subseteq Passed(st)
      BY <1>3, <2>3 DEF DestBayCheck, BaysTaken, Connected, Goto, Finish, Idle, Passed, At
    <3> QED BY <2>1, <3>1, SlotsFewer
  <2> QED BY <2>2, <2>3
<1>4. CASE StartLoading(t)
  <2>1. Passed(st)' \subseteq Passed(st) \ {t}
    BY <1>1, <1>4 DEF StartLoading, SetStatus, WriteStatus, Finish, Idle, Passed, At,
                      Grounded, Exists, Used, Ship
  <2>2. CASE ships[s].from = st
    <3>1. DockedShips(st)' \subseteq DockedShips(st) \cup {s}
      BY <1>1, <1>4 DEF StartLoading, SetStatus, WriteStatus, DockedShips, Occupies, Exists, Used, Ship
    <3>2. t \in Passed(st)
      BY <1>4, <2>2 DEF StartLoading, Passed
    <3> QED BY <2>1, <3>1, <3>2, SlotsDock
  <2>3. CASE ships[s].from # st
    <3>1. DockedShips(st)' \subseteq DockedShips(st)
      BY <1>1, <1>4, <2>3 DEF StartLoading, SetStatus, WriteStatus, DockedShips, Occupies, Exists, Used, Ship
    <3> QED BY <2>1, <3>1, SlotsFewer
  <2> QED BY <2>2, <2>3
<1>5. CASE StartUnloading(t)
  <2>1. Passed(st)' \subseteq Passed(st) \ {t}
    BY <1>1, <1>5 DEF StartUnloading, SetStatus, WriteStatus, Finish, Idle, Passed, At,
                      Grounded, Exists, Used, Ship
  <2>2. CASE ships[s].to = st
    <3>1. DockedShips(st)' \subseteq DockedShips(st) \cup {s}
      BY <1>1, <1>5 DEF StartUnloading, SetStatus, WriteStatus, DockedShips, Occupies, Exists, Used, Ship
    <3>2. t \in Passed(st)
      BY <1>5, <2>2 DEF StartUnloading, Passed
    <3> QED BY <2>1, <3>1, <3>2, SlotsDock
  <2>3. CASE ships[s].to # st
    <3>1. DockedShips(st)' \subseteq DockedShips(st)
      BY <1>1, <1>5, <2>3 DEF StartUnloading, SetStatus, WriteStatus, DockedShips, Occupies, Exists, Used, Ship
    <3> QED BY <2>1, <3>1, SlotsFewer
  <2> QED BY <2>2, <2>3
<1> QED BY <1>2, <1>3, <1>4, <1>5

\* Deleting ships empties bays, and a restart or a disconnected client forgets who
\* passed a check.
LEMMA ServerSteps ==
  ASSUME Typed, NEW st \in Stations, Administer \/ Disconnect \/ Restart
  PROVE  DockedShips(st)' \subseteq DockedShips(st) /\ Passed(st)' \subseteq Passed(st)
<1> USE DEF Typed, TypeOK, fleet, server, money
<1>1. ASSUME NEW p \in Deletable, DeleteShips(p)
      PROVE  DockedShips(st)' \subseteq DockedShips(st) /\ Passed(st)' \subseteq Passed(st)
  <2>1. ASSUME NEW s \in ShipIds
        PROVE  \/ ships'[s] = ships[s]
               \/ /\ Used(s) /\ ships'[s].status = "deleted"
                  /\ ships'[s].from = ships[s].from /\ ships'[s].to = ships[s].to
    BY <1>1 DEF DeleteShips, Exists, Used, Ship
  <2>2. DockedShips(st)' \subseteq DockedShips(st)
    BY <2>1 DEF DockedShips, Occupies
  <2>3. handler' = handler
    BY <1>1 DEF DeleteShips
  <2>4. Passed(st)' \subseteq Passed(st)
    BY <2>1, <2>3 DEF Passed, At, Grounded
  <2> QED BY <2>2, <2>4
<1>2. CASE Disown
  BY <1>2 DEF Disown, DockedShips, Passed, At
<1>3. CASE Restart
  BY <1>3 DEF Restart, Idle, DockedShips, Passed, At
<1>4. CASE (\E r \in Removable : CheckShips(r)) \/ RemoveStation \/ \E o \in Orders : DropOrder(o)
  BY <1>4 DEF CheckShips, RemoveStation, DropOrder, DockedShips, Passed, At
<1>5. ASSUME NEW t \in Threads, Drop(t)
      PROVE  DockedShips(st)' \subseteq DockedShips(st) /\ Passed(st)' \subseteq Passed(st)
  BY <1>5 DEF Drop, Finish, Idle, DockedShips, Passed, At
<1> QED BY <1>1, <1>2, <1>3, <1>4, <1>5 DEF Administer, Disconnect

\* Every step keeps the ships and the passed handlers of a station in bounds.
LEMMA SlotsStep == Typed /\ SlotsBounded /\ [Next]_vars => SlotsBounded'
<1> SUFFICES ASSUME Typed, SlotsBounded, [Next]_vars, NEW st \in Stations, st \notin gone
             PROVE  Docked(st)' + Cardinality(Passed(st)')
                      <= DockingBays + Cardinality(Threads) - 1
  BY GoneStays DEF SlotsBounded
<1>1. CASE UNCHANGED vars
  <2>1. DockedShips(st)' = DockedShips(st) /\ Passed(st)' = Passed(st)
    BY <1>1 DEF vars, fleet, DockedShips, Occupies, Passed, Exists, Used, At
  <2> QED BY <2>1, SlotsFewer
<1>2. CASE \/ Create \/ Request \/ (\E s \in ShipIds : Timer(s) \/ Poll(s))
           \/ \E t \in Threads : \/ DeductCargo(t) \/ Depart(t) \/ StorageCheck(t)
                                 \/ Complete(t) \/ Deliver(t)
  BY <1>2, QuietSteps, SlotsFewer
<1>3. ASSUME NEW t \in Threads,
             OriginBayCheck(t) \/ StartLoading(t) \/ DestBayCheck(t) \/ StartUnloading(t)
      PROVE  Docked(st)' + Cardinality(Passed(st)') <= DockingBays + Cardinality(Threads) - 1
  BY <1>3, BaySteps
<1>4. CASE Administer \/ Disconnect \/ Restart
  BY <1>4, ServerSteps, SlotsFewer
<1> QED BY <1>1, <1>2, <1>3, <1>4 DEF Next, Step

\* dock_ship checks for a free bay under one lock and takes it under another,
\* so the bays can be overrun; but by no more than one ship per handler that
\* runs beside another, whatever the requests and however they overlap.
THEOREM BayOverrunCorrect == Spec => []BayOverrunBounded
<1>1. Init => Typed /\ SlotsBounded
  BY TypedInit, SlotsInit
<1>2. Typed /\ SlotsBounded /\ [Next]_vars => (Typed /\ SlotsBounded)'
  BY TypedStep, SlotsStep
<1>3. SlotsBounded => BayOverrunBounded
  BY Finite, ShipsAssumption DEF SlotsBounded, BayOverrunBounded
<1> QED BY <1>1, <1>2, <1>3, PTL DEF Spec

-----------------------------------------------------------------------------
(* Timers *)

\* A step that moves ship s to a status in which it is not on its way, and
\* leaves the timers alone, leaves every ship that is on its way with its timer.
LEMMA MovedOn ==
  ASSUME Typed, TimersRun, NEW s \in ShipIds, Used(s), NEW status,
         status \notin {"in_transit_to_origin", "in_transit"},
         SetStatus(s, status) \/ WriteStatus(s, status),
         toOrigin' = toOrigin, transits' = transits
  PROVE  TimersRun'
<1> USE DEF Typed, TypeOK
<1>1. CASE SetStatus(s, status)
  <2>1. ASSUME NEW r \in ShipIds, r # s PROVE ships'[r] = ships[r]
    BY <1>1, <2>1 DEF SetStatus
  <2>2. ships'[s].status = status
    BY <1>1 DEF SetStatus, Used, Ship
  <2> QED BY <2>1, <2>2 DEF TimersRun, HasStatus, Exists, Used
<1>2. CASE ships' = ships
  BY <1>2 DEF TimersRun, HasStatus, Exists, Used
<1> QED BY <1>1, <1>2 DEF WriteStatus

\* A new ship gets its timer to the origin.
LEMMA TimersCreate == Typed /\ TimersRun /\ Create => TimersRun'
<1> SUFFICES ASSUME Typed, TimersRun, Create PROVE TimersRun'
  OBVIOUS
<1> USE DEF Typed, TypeOK
<1>0. CASE \E o \in Orders : PayFee(o)
  BY <1>0 DEF PayFee, fleet, TimersRun, HasStatus, Exists, Used
<1> SUFFICES ASSUME ~\E o \in Orders : PayFee(o) PROVE TimersRun'
  BY <1>0
<1>1. PICK s \in ShipIds :
        \E kind, from, to, q : Launch(s, kind, from, to, q) /\ transits' = transits
  BY DEF Create, CreateTrucking, CreateTrade
<1>2. ASSUME NEW r \in ShipIds, r # s
      PROVE  ships'[r] = ships[r] /\ toOrigin'[r] = toOrigin[r]
  BY <1>1, <1>2 DEF Launch
<1>3. ships'[s].status = "in_transit_to_origin" /\ toOrigin'[s] > 0
  BY <1>1 DEF Launch, Sequence
<1> QED BY <1>1, <1>2, <1>3 DEF TimersRun, HasStatus, Exists, Used

\* A timer that wakes up moves its ship on, if it is still on its way.
LEMMA TimersWake ==
  ASSUME Typed, TimersRun, NEW s \in ShipIds, Timer(s)
  PROVE  TimersRun'
<1> USE DEF Typed, TypeOK
<1>1. ASSUME NEW r \in ShipIds, r # s
      PROVE  ships'[r] = ships[r] /\ toOrigin'[r] = toOrigin[r] /\ transits'[r] = transits[r]
  BY <1>1 DEF Timer, ArriveAtOrigin, Arrive, SetStatus
<1>2. CASE ArriveAtOrigin(s)
  <2>1. transits' = transits /\ ~HasStatus(s, "in_transit_to_origin")'
        /\ (HasStatus(s, "in_transit")' => HasStatus(s, "in_transit"))
    BY <1>2 DEF ArriveAtOrigin, SetStatus, HasStatus, Exists, Used, Ship
  <2> QED BY <1>1, <2>1 DEF TimersRun, HasStatus, Exists, Used
<1>3. CASE Arrive(s)
  <2>1. toOrigin' = toOrigin /\ ~HasStatus(s, "in_transit")'
        /\ (HasStatus(s, "in_transit_to_origin")' => HasStatus(s, "in_transit_to_origin"))
    BY <1>3 DEF Arrive, SetStatus, HasStatus, Exists, Used, Ship
  <2> QED BY <1>1, <2>1 DEF TimersRun, HasStatus, Exists, Used
<1> QED BY <1>2, <1>3 DEF Timer

\* Polling moves a ship on, and a request starts with a ship as it is.
LEMMA TimersRequest ==
  ASSUME Typed, TimersRun, NEW s \in ShipIds, NEW t,
         Poll(s) \/ Dock(t, s) \/ Undock(t, s)
  PROVE  TimersRun'
<1> USE DEF Typed, TypeOK, fleet
<1>1. CASE Dock(t, s)
  BY <1>1 DEF Dock, TimersRun, HasStatus, Exists, Used
<1>2. CASE Poll(s) \/ Undock(t, s)
  <2>1. Used(s) /\ SetStatus(s, Polled(ships[s].status)) /\ toOrigin' = toOrigin /\ transits' = transits
    BY <1>2 DEF Poll, Undock, MayStart, Exists
  <2>2. CASE Polled(ships[s].status) \notin {"in_transit_to_origin", "in_transit"}
    BY <2>1, <2>2, MovedOn
  <2>3. CASE Polled(ships[s].status) = ships[s].status
    <3>1. ships' = ships
      BY <2>1, <2>3 DEF SetStatus, Used, Ship
    <3> QED BY <2>1, <3>1 DEF TimersRun, HasStatus, Exists, Used
  <2> QED BY <2>2, <2>3 DEF Polled
<1> QED BY <1>1, <1>2

\* The sections of dock and undock move ships on, and one that departs gets its
\* timer.
LEMMA TimersStep ==
  ASSUME Typed, TimersRun, NEW t \in Threads, Step(t)
  PROVE  TimersRun'
<1> USE DEF Typed, TypeOK, fleet
<1>1. CASE DeductCargo(t) \/ OriginBayCheck(t) \/ DestBayCheck(t) \/ StorageCheck(t) \/ Deliver(t)
  <2>1. ships' = ships /\ toOrigin' = toOrigin /\ transits' = transits
    BY <1>1 DEF DeductCargo, OriginBayCheck, DestBayCheck, StorageCheck, Deliver
  <2> QED BY <2>1 DEF TimersRun, HasStatus, Exists, Used
<1>2. CASE StartLoading(t) \/ StartUnloading(t) \/ Complete(t)
  <2>1. handler[t].ship \in ShipIds /\ Used(handler[t].ship)
    BY <1>2 DEF StartLoading, StartUnloading, Complete, At, Grounded
  <2>2. /\ toOrigin' = toOrigin /\ transits' = transits
        /\ \/ ships' = ships
           \/ \E status \in {"loading", "unloading", "complete"} :
                SetStatus(handler[t].ship, status) \/ WriteStatus(handler[t].ship, status)
    BY <1>2 DEF StartLoading, StartUnloading, Complete
  <2>3. CASE ships' = ships
    BY <2>2, <2>3 DEF TimersRun, HasStatus, Exists, Used
  <2> QED BY <2>1, <2>2, <2>3, MovedOn
<1>3. CASE Depart(t)
  <2> DEFINE r == handler[t].ship
  <2>1. r \in ShipIds /\ Used(r) /\ toOrigin' = toOrigin
    BY <1>3 DEF Depart, At, Grounded
  <2>2. CASE ~Exists(r)
    <3>1. ships' = ships /\ transits' = transits
      BY <1>3, <2>1, <2>2 DEF Depart, WriteStatus
    <3> QED BY <2>1, <3>1 DEF TimersRun, HasStatus, Exists, Used
  <2>3. CASE Exists(r)
    <3>1. ASSUME NEW q \in ShipIds, q # r
          PROVE  ships'[q] = ships[q] /\ transits'[q] = transits[q]
      BY <1>3, <2>3, <3>1 DEF Depart, WriteStatus, SetStatus
    <3>2. ships'[r].status = "in_transit" /\ transits'[r] > 0
      BY <1>3, <2>1, <2>3 DEF Depart, WriteStatus, SetStatus, Used, Ship
    <3> QED BY <2>1, <3>1, <3>2 DEF TimersRun, HasStatus, Exists, Used
  <2> QED BY <2>2, <2>3
<1> QED BY <1>1, <1>2, <1>3 DEF Step

\* Deleted ships need no timer, and a restart starts those of the others again.
LEMMA TimersServer ==
  ASSUME Typed, TimersRun, Administer \/ Disconnect \/ Restart
  PROVE  TimersRun'
<1> USE DEF Typed, TypeOK, fleet
<1>1. ASSUME NEW p \in Deletable, DeleteShips(p)
      PROVE  TimersRun'
  <2>1. ASSUME NEW s \in ShipIds
        PROVE  ships'[s] = ships[s] \/ ships'[s].status = "deleted"
    BY <1>1 DEF DeleteShips, Exists, Used, Ship
  <2>2. toOrigin' = toOrigin /\ transits' = transits
    BY <1>1 DEF DeleteShips
  <2> QED BY <2>1, <2>2 DEF TimersRun, HasStatus, Exists, Used
<1>2. CASE Disown
  BY <1>2 DEF Disown, TimersRun, HasStatus, Exists, Used
<1>3. CASE Restart
  BY <1>3 DEF Restart, Recovered, TimersRun, HasStatus, Exists, Used
<1>4. CASE (\E st \in Removable : CheckShips(st)) \/ RemoveStation \/ Disconnect
  <2>1. UNCHANGED fleet
    BY <1>4 DEF CheckShips, RemoveStation, Disconnect, Drop, DropOrder
  <2> QED BY <2>1 DEF TimersRun, HasStatus, Exists, Used
<1> QED BY <1>1, <1>2, <1>3, <1>4 DEF Administer

\* A ship that is on its way, to its origin or to its destination, has a timer
\* running that will move it on: however requests about it overlap, whoever is
\* deleted, and however often the server restarts.
THEOREM TimersRunCorrect == Spec => []TimersRun
<1>1. Init => Typed /\ TimersRun
  <2>1. Init => TimersRun
    BY DEF Init, Recovered, TimersRun, HasStatus, Exists, Used
  <2> QED BY <2>1, TypedInit
<1>2. Typed /\ TimersRun /\ [Next]_vars => (Typed /\ TimersRun)'
  <2> SUFFICES ASSUME Typed, TimersRun, [Next]_vars PROVE TimersRun'
    BY TypedStep
  <2>1. CASE UNCHANGED vars
    BY <2>1 DEF vars, fleet, TimersRun, HasStatus, Exists, Used
  <2> QED BY <2>1, TimersCreate, TimersWake, TimersRequest, TimersStep, TimersServer
          DEF Next, Request
<1> QED BY <1>1, <1>2, PTL DEF Spec

-----------------------------------------------------------------------------
(* The sequence of statuses *)

\* A step is on sequence for a ship if it leaves its status, moves it to the next
\* one, deletes the ship, or is the stale write of a handler.
OnSequence(s) ==
  Exists(s) /\ ships'[s] # ships[s] =>
    \/ ships'[s].status = "deleted"
    \/ \E i \in 1..8 : ships[s].status = Sequence[i] /\ ships'[s].status = Sequence[i + 1]
    \/ \E t \in Threads : handler[t].ship = s /\ WritesStale(t)

\* The pairs of statuses that follow one another.
LEMMA Follows ==
  ASSUME NEW from, NEW to,
         \/ from = "in_transit_to_origin" /\ to = "awaiting_origin_docking_auth"
         \/ from = "awaiting_origin_docking_auth" /\ to = "loading"
         \/ from = "loading" /\ to = "awaiting_origin_undocking_auth"
         \/ from = "awaiting_origin_undocking_auth" /\ to = "in_transit"
         \/ from = "in_transit" /\ to = "awaiting_docking_auth"
         \/ from = "awaiting_docking_auth" /\ to = "unloading"
         \/ from = "unloading" /\ to = "awaiting_undocking_auth"
         \/ from = "awaiting_undocking_auth" /\ to = "complete"
  PROVE  \E i \in 1..8 : from = Sequence[i] /\ to = Sequence[i + 1]
<1>1. ASSUME NEW i \in 1..8, from = Sequence[i], to = Sequence[i + 1]
      PROVE  \E j \in 1..8 : from = Sequence[j] /\ to = Sequence[j + 1]
  BY <1>1
<1>2. {1, 2, 3, 4, 5, 6, 7, 8} \subseteq 1..8
  OBVIOUS
<1> QED BY <1>1, <1>2 DEF Sequence

\* A write to one ship touches no other.
LEMMA OneWritten ==
  ASSUME Typed, NEW s \in ShipIds, Used(s), NEW status, SetStatus(s, status)
  PROVE  /\ ships'[s] = [ships[s] EXCEPT !.status = status]
         /\ ships'[s].status = status
         /\ ships'[s].kind = ships[s].kind /\ ships'[s].cargo = ships[s].cargo
         /\ ships'[s].from = ships[s].from /\ ships'[s].to = ships[s].to
         /\ \A r \in ShipIds \ {s} : ships'[r] = ships[r]
<1>1. ships[s] \in Ship /\ ships' = [ships EXCEPT ![s] = [@ EXCEPT !.status = status]]
  BY DEF Typed, TypeOK, Used, SetStatus
<1>2. ships'[s] = [ships[s] EXCEPT !.status = status]
      /\ \A r \in ShipIds \ {s} : ships'[r] = ships[r]
  BY <1>1 DEF Typed, TypeOK
<1> QED BY <1>1, <1>2 DEF Ship

\* Every ship follows the documented sequence of statuses, unless a handler writes
\* what it decided on a snapshot after another request has moved the ship on.
THEOREM SequenceCorrect == Spec => ShipFollowsSequence
<1> DEFINE Follow == \A s \in ShipIds : Exists(s) /\ ships'[s] # ships[s] =>
       \/ ships'[s].status = "deleted"
       \/ \E i \in 1..8 : /\ ships[s].status = Sequence[i]
                          /\ ships'[s].status = Sequence[i + 1]
       \/ \E t \in Threads : handler[t].ship = s /\ WritesStale(t)
<1>1. Typed /\ [Next]_vars => [\A s \in ShipIds : OnSequence(s)]_vars
  <2> SUFFICES ASSUME Typed, Next, NEW s \in ShipIds, Exists(s), ships'[s] # ships[s]
               PROVE  OnSequence(s)
    BY DEF OnSequence
  <2>1. Used(s) /\ ships[s] \in Ship /\ ships[s].status \in Statuses
    BY DEF Exists, Used, Typed, TypeOK, Ship
  <2>2. CASE Create
    <3>1. PICK r \in ShipIds : \E kind, from, to, q : Launch(r, kind, from, to, q)
      BY <2>2 DEF Create, PayFee, CreateTrucking, CreateTrade, fleet
    <3>2. r # s
      BY <2>1, <3>1 DEF Launch
    <3> QED BY <3>1, <3>2 DEF Launch, Typed, TypeOK
  <2>3. CASE \E r \in ShipIds : Timer(r)
    <3>1. PICK r \in ShipIds :
            \/ HasStatus(r, "in_transit_to_origin") /\ SetStatus(r, "awaiting_origin_docking_auth")
            \/ HasStatus(r, "in_transit") /\ SetStatus(r, "awaiting_docking_auth")
      BY <2>3 DEF Timer, ArriveAtOrigin, Arrive
    <3>2. r = s
      BY <3>1 DEF SetStatus, Typed, TypeOK
    <3>3. \/ ships[s].status = "in_transit_to_origin" /\ ships'[s].status = "awaiting_origin_docking_auth"
          \/ ships[s].status = "in_transit" /\ ships'[s].status = "awaiting_docking_auth"
      BY <2>1, <3>1, <3>2, OneWritten DEF HasStatus
    <3> QED BY <3>3, Follows DEF OnSequence
  <2>4. CASE Request \/ \E r \in ShipIds : Poll(r)
    <3>1. PICK r \in ShipIds : Used(r) /\ SetStatus(r, Polled(ships[r].status))
      BY <2>4 DEF Request, Dock, Undock, Poll, fleet, MayStart, Exists
    <3>2. r = s
      BY <3>1 DEF SetStatus, Typed, TypeOK
    <3>3. /\ ships'[s].status = Polled(ships[s].status)
          /\ ships'[s] = [ships[s] EXCEPT !.status = Polled(ships[s].status)]
      BY <3>1, <3>2, OneWritten
    <3>4. Polled(ships[s].status) # ships[s].status
      <4> SUFFICES ASSUME Polled(ships[s].status) = ships[s].status PROVE FALSE
        OBVIOUS
      <4>1. ships'[s] = [ships[s] EXCEPT !.status = ships[s].status]
        BY <3>3
      <4> QED BY <2>1, <4>1 DEF Ship
    <3>5. \/ ships[s].status = "loading" /\ ships'[s].status = "awaiting_origin_undocking_auth"
          \/ ships[s].status = "unloading" /\ ships'[s].status = "awaiting_undocking_auth"
      BY <3>3, <3>4 DEF Polled
    <3> QED BY <3>5, Follows DEF OnSequence
  <2>5. ASSUME NEW t \in Threads, Step(t)
        PROVE  OnSequence(s)
    <3>1. PICK status :
            /\ SetStatus(handler[t].ship, status) /\ handler[t].pc # "idle"
            /\ \/ At(t, "load") /\ status = "loading"
               \/ At(t, "depart") /\ status = "in_transit"
               \/ At(t, "complete") /\ status = "complete"
               \/ /\ At(t, "unload") /\ status = "unloading"
                  /\ ships[handler[t].ship].status = "awaiting_docking_auth"
      BY <2>5 DEF Step, DeductCargo, OriginBayCheck, StartLoading, DestBayCheck, StartUnloading,
             Depart, StorageCheck, Complete, Deliver, WriteStatus, At, fleet
    <3>2. handler[t].ship = s
      BY <3>1 DEF SetStatus, Typed, TypeOK
    <3>3. ships'[s].status = status
      BY <2>1, <3>1, <3>2, OneWritten
    <3>4. handler'[t] # handler[t]
      <4>1. CASE At(t, "complete")
        <5>1. Complete(t)
          BY <2>5, <4>1 DEF Step, DeductCargo, OriginBayCheck, StartLoading, DestBayCheck,
                 StartUnloading, Depart, StorageCheck, Deliver, At
        <5>2. Goto(t, "deliver")
          BY <3>2, <5>1 DEF Complete
        <5>3. handler'[t].pc = "deliver"
          BY <5>2 DEF Goto, Typed, TypeOK
        <5> QED BY <4>1, <5>3 DEF At
      <4>2. CASE ~At(t, "complete")
        <5>1. Finish(t)
          BY <2>5, <3>1, <4>2 DEF Step, DeductCargo, OriginBayCheck, StartLoading, DestBayCheck,
                 StartUnloading, Depart, StorageCheck, Deliver, Complete, At
        <5> QED BY <3>1, <5>1 DEF Finish, Idle, Typed, TypeOK
      <4> QED BY <4>1, <4>2
    <3>5. CASE WritesStale(t)
      BY <3>2, <3>5 DEF OnSequence
    <3>6. CASE ~WritesStale(t)
      <4>1. \/ ships[s].status = "awaiting_origin_docking_auth" /\ status = "loading"
            \/ ships[s].status = "awaiting_origin_undocking_auth" /\ status = "in_transit"
            \/ ships[s].status = "awaiting_undocking_auth" /\ status = "complete"
            \/ ships[s].status = "awaiting_docking_auth" /\ status = "unloading"
        BY <3>1, <3>2, <3>4, <3>6 DEF WritesStale, Seen, At
      <4> QED BY <3>3, <4>1, Follows DEF OnSequence
    <3> QED BY <3>5, <3>6
  <2>6. CASE \E p \in Deletable : DeleteShips(p)
    <3>1. ships'[s] = [ships[s] EXCEPT !.status = "deleted"]
      BY <2>6 DEF DeleteShips
    <3> QED BY <2>1, <3>1 DEF Ship, OnSequence
  <2>7. CASE Disown \/ (\E st \in Removable : CheckShips(st)) \/ RemoveStation \/ Disconnect \/ Restart
    BY <2>7 DEF Disown, CheckShips, RemoveStation, Disconnect, Drop, DropOrder, Restart, fleet
  <2> QED BY <2>2, <2>3, <2>4, <2>5, <2>6, <2>7 DEF Next, Administer
<1>2. Typed /\ [Next]_vars => [Follow]_vars
  BY <1>1 DEF OnSequence
<1> QED BY <1>2, TypedInit, TypedStep, PTL DEF Spec, ShipFollowsSequence

-----------------------------------------------------------------------------
(* Storage *)

\* A ship is launched.
Launched ==
  \E s \in ShipIds, kind \in {"trade", "trucking"}, from \in Stations, to \in Stations,
     q \in Cargoes : Launch(s, kind, from, to, q)

\* What a step may do to the ships: launch one, give one a status, or delete.
LEMMA ShipWrites ==
  ASSUME Typed, [Next]_vars
  PROVE  \/ ships' = ships
         \/ Launched
         \/ \E s \in ShipIds, status \in Statuses : Used(s) /\ SetStatus(s, status)
         \/ \E p \in Deletable : DeleteShips(p)
<1> DEFINE Written == \/ ships' = ships
                      \/ \E s \in ShipIds, status \in Statuses : Used(s) /\ SetStatus(s, status)
<1>1. CASE UNCHANGED vars
  BY <1>1 DEF vars, fleet
<1>2. CASE Create
  <2>1. \A route \in Routes : route[1] \in Stations /\ route[2] \in Stations
    BY ShipsAssumption
  <2> QED BY <1>2, <2>1, OrderIs DEF Create, PayFee, CreateTrucking, CreateTrade, Launched, fleet
<1>3. ASSUME NEW s \in ShipIds, Poll(s) \/ \E t \in Threads : Dock(t, s) \/ Undock(t, s)
      PROVE  Written
  <2>1. Used(s) /\ Polled(ships[s].status) \in Statuses
    BY <1>3, PolledStatus DEF Poll, Dock, Undock, MayStart, Exists, Used, Typed, TypeOK, Ship
  <2> QED BY <1>3, <2>1 DEF Poll, Dock, Undock, fleet
<1>4. ASSUME NEW s \in ShipIds, Timer(s)
      PROVE  Written
  BY <1>4, StatusesAre DEF Timer, ArriveAtOrigin, Arrive, HasStatus, Exists
<1>5. ASSUME NEW t \in Threads, Step(t)
      PROVE  Written
  <2>1. handler[t].ship \in ShipIds /\ Used(handler[t].ship)
    BY <1>5 DEF Step, DeductCargo, OriginBayCheck, StartLoading, DestBayCheck,
           StartUnloading, Depart, StorageCheck, Complete, Deliver, At, Typed, Grounded
  <2> QED BY <1>5, <2>1, StatusesAre
          DEF Step, DeductCargo, OriginBayCheck, StartLoading, DestBayCheck,
              StartUnloading, Depart, StorageCheck, Complete, Deliver, WriteStatus, fleet
<1>6. CASE Disown \/ (\E st \in Removable : CheckShips(st)) \/ RemoveStation \/ Disconnect \/ Restart
  BY <1>6 DEF Disown, CheckShips, RemoveStation, Disconnect, Drop, DropOrder, Restart, fleet
<1> HIDE DEF Written
<1>7. Written => \/ ships' = ships
                 \/ \E s \in ShipIds, status \in Statuses : Used(s) /\ SetStatus(s, status)
  BY DEF Written
<1> QED BY <1>1, <1>2, <1>3, <1>4, <1>5, <1>6, <1>7 DEF Next, Request, Administer

\* Only the status of a ship that is used ever changes.
LEMMA ShipsKept ==
  ASSUME Typed, [Next]_vars, NEW s \in ShipIds, Used(s)
  PROVE  /\ ships'[s] # NoShip
         /\ ships'[s].kind = ships[s].kind /\ ships'[s].cargo = ships[s].cargo
         /\ ships'[s].from = ships[s].from /\ ships'[s].to = ships[s].to
<1>1. ships[s] \in Ship
  BY DEF Typed, TypeOK, Used
<1>2. CASE ships' = ships
  BY <1>2 DEF Used
<1>3. ASSUME NEW r \in ShipIds, NEW kind, NEW from, NEW to, NEW q, Launch(r, kind, from, to, q)
      PROVE  ships'[s] = ships[s]
  <2>1. r # s
    BY <1>3 DEF Launch
  <2> QED BY <1>3, <2>1 DEF Launch, Typed, TypeOK
<1>4. ASSUME NEW status \in Statuses,
             ships'[s] = ships[s] \/ ships'[s] = [ships[s] EXCEPT !.status = status]
      PROVE  /\ ships'[s] \in Ship
             /\ ships'[s].kind = ships[s].kind /\ ships'[s].cargo = ships[s].cargo
             /\ ships'[s].from = ships[s].from /\ ships'[s].to = ships[s].to
  BY <1>1, <1>4 DEF Ship
<1>5. ASSUME NEW r \in ShipIds, NEW status \in Statuses, Used(r), SetStatus(r, status)
      PROVE  ships'[s] = ships[s] \/ ships'[s] = [ships[s] EXCEPT !.status = status]
  BY <1>5, OneWritten, ZenonT(40)
<1>6. ASSUME NEW p \in Deletable, DeleteShips(p)
      PROVE  ships'[s] = ships[s] \/ ships'[s] = [ships[s] EXCEPT !.status = "deleted"]
  BY <1>6 DEF DeleteShips
<1>7. "deleted" \in Statuses
  BY StatusesAre
<1>8. CASE Launched
  BY <1>3, <1>8 DEF Launched, Used
<1>9. CASE \E r \in ShipIds, status \in Statuses : Used(r) /\ SetStatus(r, status)
  BY <1>4, <1>5, <1>9, ShipsAssumption
<1>10. CASE \E p \in Deletable : DeleteShips(p)
  BY <1>4, <1>6, <1>7, <1>10, ShipsAssumption
<1> QED BY <1>2, <1>8, <1>9, <1>10, ShipWrites

\* Ships carry what they may carry.
CargoesKnown == \A s \in ShipIds : Used(s) => ships[s].cargo \in Cargoes

\* No step makes a cargo of another size.
LEMMA CargoesStep == Typed /\ CargoesKnown /\ [Next]_vars => CargoesKnown'
<1> SUFFICES ASSUME Typed, CargoesKnown, [Next]_vars, NEW s \in ShipIds, ships'[s] # NoShip
             PROVE  ships'[s].cargo \in Cargoes
  BY DEF CargoesKnown, Used
<1>1. CASE Used(s)
  BY <1>1, ShipsKept DEF CargoesKnown
<1>2. CASE ~Used(s)
  <2>1. ASSUME NEW r \in ShipIds, NEW status, Used(r), SetStatus(r, status)
        PROVE  FALSE
    <3>1. ships'[s] = ships[s]
      BY <1>2, <2>1, OneWritten
    <3> QED BY <1>2, <3>1 DEF Used
  <2>2. ASSUME NEW p \in Deletable, DeleteShips(p) PROVE FALSE
    BY <1>2, <2>2 DEF DeleteShips, Exists, Used
  <2>3. ships' # ships
    BY <1>2 DEF Used
  <2>4. Launched
    BY <2>1, <2>2, <2>3, ShipWrites
  <2>6. PICK r \in ShipIds, kind \in {"trade", "trucking"}, from \in Stations, to \in Stations,
             q \in Cargoes : Launch(r, kind, from, to, q)
    BY <2>4 DEF Launched
  <2>7. r = s
    BY <1>2, <2>6 DEF Launch, Used, Typed, TypeOK
  <2>8. ships'[s] = [kind |-> kind, from |-> from, to |-> to, cargo |-> q, status |-> Sequence[1]]
    BY <2>6, <2>7 DEF Launch, Typed, TypeOK
  <2> QED BY <2>8
<1> QED BY <1>1, <1>2

\* There is none at the start.
LEMMA CargoesInit == Init => CargoesKnown
  BY ShipsAssumption DEF Init, CargoesKnown, Used

\* The cargoes are finitely many, so one is the largest.
LEMMA LargestIs ==
  LargestCargo \in Nat /\ \A q \in Cargoes : q \in Nat /\ q <= LargestCargo
<1>1. \E q \in Cargoes : \A r \in Cargoes : r <= q
  BY ShipsAssumption, SomeLargest
<1>2. LargestCargo \in Cargoes /\ \A r \in Cargoes : r <= LargestCargo
  BY <1>1 DEF LargestCargo
<1> QED BY <1>2, ShipsAssumption

\* What handler t has checked against the storage of station st and not delivered.
Due(t, st) ==
  IF handler[t].pc \in {"complete", "deliver"} /\ ships[handler[t].ship].to = st
  THEN ships[handler[t].ship].cargo ELSE 0

AllDue(st) == SumFunctionOnSet([t \in Threads |-> Due(t, st)], Threads)

\* The strengthening of StorageOverrunBounded: the stock and all that is due stay
\* within the bound together.
DueBounded ==
  \A st \in Stations \ gone :
    stock[st] + AllDue(st) <= MaxStorage + (Cardinality(Threads) - 1) * LargestCargo

\* What is due is a cargo.
LEMMA DueType ==
  ASSUME Typed, CargoesKnown, NEW t \in Threads, NEW st \in Stations
  PROVE  Due(t, st) \in Nat /\ Due(t, st) <= LargestCargo
<1>1. CASE handler[t].pc \in {"complete", "deliver"}
  <2>1. handler[t].ship \in ShipIds /\ Used(handler[t].ship)
    BY <1>1 DEF Typed, Grounded, At
  <2>2. ships[handler[t].ship].cargo \in Cargoes
    BY <2>1 DEF CargoesKnown
  <2> QED BY <2>2, LargestIs DEF Due
<1>2. CASE handler[t].pc \notin {"complete", "deliver"}
  BY <1>2, LargestIs DEF Due
<1> QED BY <1>1, <1>2

\* What a handler will still add is bounded after a step, too.
LEMMA DueTypeNext ==
  ASSUME Typed', CargoesKnown', NEW t \in Threads, NEW st \in Stations
  PROVE  Due(t, st)' \in Nat /\ Due(t, st)' <= LargestCargo
<1>1. CASE handler'[t].pc \in {"complete", "deliver"}
  <2>1. handler'[t].ship \in ShipIds /\ ships'[handler'[t].ship] # NoShip
    BY <1>1 DEF Typed, Grounded, At, Used
  <2>2. ships'[handler'[t].ship].cargo \in Cargoes
    BY <2>1 DEF CargoesKnown, Used
  <2> QED BY <2>2, LargestIs DEF Due
<1>2. CASE handler'[t].pc \notin {"complete", "deliver"}
  BY <1>2, LargestIs DEF Due
<1> QED BY <1>1, <1>2

\* At the start nothing is due.
LEMMA DueInit == Init => DueBounded
<1> SUFFICES ASSUME Init, NEW st \in Stations
             PROVE  stock[st] + AllDue(st) <= MaxStorage + (Cardinality(Threads) - 1) * LargestCargo
  BY DEF DueBounded
<1> DEFINE due == [t \in Threads |-> Due(t, st)]
<1>1. \A t \in Threads : due[t] = 0
  BY DEF Init, Idle, Due
<1> HIDE DEF due
<1>2. SumFunctionOnSet(due, Threads) = 0
  BY <1>1, SumZero, ShipsAssumption
<1>3. stock[st] = InitStock /\ InitStock \in Nat
  BY ShipsAssumption DEF Init
<1> QED BY <1>2, <1>3, ShipsAssumption DEF AllDue, due

\* A handler that has something due afterwards had it due before, unless it has
\* just checked the storage.
LEMMA DueBefore ==
  ASSUME Typed, [Next]_vars, NEW t \in Threads, ~StorageCheck(t),
         handler'[t].pc \in {"complete", "deliver"}
  PROVE  handler[t].pc \in {"complete", "deliver"} /\ handler'[t].ship = handler[t].ship
<1>1. handler \in [Threads -> [pc : {"idle", "deduct", "origin_bay", "load", "dest_bay", "unload",
                                     "depart", "storage", "complete", "deliver"},
                               ship : ShipIds \cup {NoShip}]]
  BY DEF Typed, TypeOK
<1>2. CASE handler'[t] = handler[t]
  BY <1>2
<1>3. ASSUME NEW pc, handler' = [handler EXCEPT ![t].pc = pc]
      PROVE  handler'[t].pc = pc /\ handler'[t].ship = handler[t].ship
  BY <1>1, <1>3
<1>4. ASSUME NEW u \in Threads, Step(u)
      PROVE  handler[t].pc \in {"complete", "deliver"} /\ handler'[t].ship = handler[t].ship
  <2>1. CASE u # t
    <3>1. handler'[t] = handler[t]
      BY <1>1, <1>4, <2>1 DEF Step, DeductCargo, OriginBayCheck, StartLoading, DestBayCheck,
             StartUnloading, Depart, StorageCheck, Complete, Deliver, Goto, Finish
    <3> QED BY <1>2, <3>1
  <2>2. CASE u = t
    <3>1. ~Finish(t)
      BY <1>1 DEF Finish, Idle
    <3>2. ~Goto(t, "load") /\ ~Goto(t, "unload") /\ ~Goto(t, "origin_bay")
      BY <1>3 DEF Goto
    <3>3. Complete(t) /\ Goto(t, "deliver")
      BY <1>4, <2>2, <3>1, <3>2 DEF Step, DeductCargo, OriginBayCheck, StartLoading, DestBayCheck,
             StartUnloading, Depart, Complete, Deliver
    <3> QED BY <1>3, <3>3 DEF Complete, Goto, At
  <2> QED BY <2>1, <2>2
<1>5. ASSUME NEW u \in Threads, NEW s \in ShipIds, Dock(u, s) \/ Undock(u, s)
      PROVE  handler'[t] = handler[t]
  BY <1>1, <1>5 DEF Dock, Undock
<1>6. ~Restart
  BY DEF Restart, Idle
<1>7. ASSUME NEW u \in Threads, Drop(u)
      PROVE  handler'[t] = handler[t]
  BY <1>1, <1>7 DEF Drop, Finish, Idle
<1>8. CASE ~Request /\ (~\E u \in Threads : Step(u)) /\ ~\E u \in Threads : Drop(u)
  BY <1>2, <1>6, <1>8
  DEF Next, Create, PayFee, CreateTrucking, CreateTrade, Timer, ArriveAtOrigin, Arrive, Poll, Administer,
      DeleteShips, Disown, CheckShips, RemoveStation, Disconnect, DropOrder, vars
<1> QED BY <1>2, <1>4, <1>5, <1>7, <1>8 DEF Request

\* So nothing else makes more due, and what is delivered is due no longer.
LEMMA DueSteps ==
  ASSUME Typed, CargoesKnown, [Next]_vars, NEW t \in Threads, NEW st \in Stations, ~StorageCheck(t)
  PROVE  Due(t, st)' <= Due(t, st)
<1>1. CASE handler'[t].pc \in {"complete", "deliver"}
  <2>1. handler[t].pc \in {"complete", "deliver"} /\ handler'[t].ship = handler[t].ship
    BY <1>1, DueBefore
  <2>2. handler[t].ship \in ShipIds /\ Used(handler[t].ship)
    BY <2>1 DEF Typed, Grounded, At
  <2>3. /\ ships'[handler[t].ship].cargo = ships[handler[t].ship].cargo
        /\ ships'[handler[t].ship].to = ships[handler[t].ship].to
    BY <2>2, ShipsKept
  <2>4. Due(t, st)' = Due(t, st)
    BY <1>1, <2>1, <2>3 DEF Due
  <2> QED BY <2>4, DueType
<1>2. CASE handler'[t].pc \notin {"complete", "deliver"}
  BY <1>2, DueType DEF Due
<1> QED BY <1>1, <1>2

\* Every step keeps what is stored and due within the bound.
LEMMA DueStep == Typed /\ CargoesKnown /\ DueBounded /\ [Next]_vars => DueBounded'
<1> SUFFICES ASSUME Typed, CargoesKnown, DueBounded, [Next]_vars, NEW st \in Stations, st \notin gone
             PROVE  stock'[st] + AllDue(st)'
                      <= MaxStorage + (Cardinality(Threads) - 1) * LargestCargo
  BY GoneStays DEF DueBounded
<1> DEFINE before == [t \in Threads |-> Due(t, st)]
           after == [t \in Threads |-> Due(t, st)']
           most == (Cardinality(Threads) - 1) * LargestCargo
<1>1. Typed' /\ CargoesKnown'
  BY TypedStep, CargoesStep
<1>2. \A t \in Threads : /\ before[t] \in Nat /\ before[t] <= LargestCargo
                         /\ after[t] \in Nat /\ after[t] <= LargestCargo
  BY <1>1, DueType, DueTypeNext
<1>3. stock[st] + SumFunctionOnSet(before, Threads) <= MaxStorage + most
  BY DEF DueBounded, AllDue
<1>4. stock \in [Stations -> Nat] /\ stock[st] \in Nat /\ stock'[st] \in Nat /\ MaxStorage \in Nat
  BY <1>1, ShipsAssumption DEF Typed, TypeOK
<1>5. IsFiniteSet(Threads) /\ Cardinality(Threads) \in Nat /\ most \in Int
  BY ShipsAssumption, FS_CardinalityType, LargestIs
<1>6. \A t \in Threads : ~StorageCheck(t) => after[t] <= before[t]
  BY DueSteps
<1>7. ASSUME NEW t \in Threads
      PROVE  before[t] = Due(t, st) /\ after[t] = Due(t, st)'
  OBVIOUS
<1>8. AllDue(st)' = SumFunctionOnSet(after, Threads)
  BY DEF AllDue
<1> HIDE DEF before, after, most
<1>9. SumFunctionOnSet(before, Threads) \in Nat /\ SumFunctionOnSet(after, Threads) \in Nat
  BY <1>2, <1>5, SumNatural
<1> SUFFICES stock'[st] + SumFunctionOnSet(after, Threads) <= MaxStorage + most
  BY <1>8 DEF most
<1>10. CASE stock'[st] <= stock[st] /\ \A t \in Threads : after[t] <= before[t]
  <2>1. SumFunctionOnSet(after, Threads) <= SumFunctionOnSet(before, Threads)
    BY <1>2, <1>5, <1>10, SumMonotone
  <2> QED BY <1>3, <1>4, <1>5, <1>9, <1>10, <2>1
<1>11. ASSUME NEW t \in Threads, StorageCheck(t)
       PROVE  stock'[st] + SumFunctionOnSet(after, Threads) <= MaxStorage + most
  <2> DEFINE ship == ships[handler[t].ship]
  <2>1. stock' = stock /\ ships' = ships
    BY <1>11 DEF StorageCheck, fleet
  <2>2. \A u \in Threads \ {t} : handler'[u] = handler[u]
    BY <1>11 DEF StorageCheck, Goto, Finish, Typed, TypeOK
  <2>3. \A u \in Threads \ {t} : after[u] <= before[u]
    <3>1. ASSUME NEW u \in Threads \ {t} PROVE Due(u, st)' = Due(u, st)
      BY <2>1, <2>2 DEF Due
    <3> QED BY <1>2, <1>7, <3>1
  <2>4. CASE handler'[t].pc \in {"complete", "deliver"} /\ ship.to = st
    <3>1. Goto(t, "complete") /\ ~(stock[st] + ship.cargo > MaxStorage)
      <4>1. ~Finish(t)
        BY <2>4 DEF Finish, Idle, Typed, TypeOK
      <4> QED BY <1>11, <2>4, <4>1 DEF StorageCheck, StorageFull, Connected
    <3>2. handler'[t].ship = handler[t].ship
      BY <3>1 DEF Goto, Typed, TypeOK
    <3>3. after[t] = ship.cargo
      BY <1>7, <2>1, <2>4, <3>2 DEF Due
    <3> HIDE DEF ship
    <3>4. stock[st] + after[t] <= MaxStorage
      BY <1>2, <1>4, <3>1, <3>3
    <3>5. SumFunctionOnSet(after, Threads) = after[t] + SumFunctionOnSet(after, Threads \ {t})
      <4>1. \A u \in Threads : after[u] \in Int
        BY <1>2
      <4> QED BY <1>5, <4>1, SumRemove
    <3>6. IsFiniteSet(Threads \ {t}) /\ Cardinality(Threads \ {t}) = Cardinality(Threads) - 1
      BY <1>5, FS_RemoveElement
    <3>7. SumFunctionOnSet(after, Threads \ {t}) <= Cardinality(Threads \ {t}) * LargestCargo
      <4>1. \A u \in Threads \ {t} : after[u] \in Int /\ after[u] <= LargestCargo
        BY <1>2
      <4> QED BY <3>6, <4>1, LargestIs, SumBounded
    <3>8. SumFunctionOnSet(after, Threads \ {t}) <= most
      BY <3>6, <3>7 DEF most
    <3>9. SumFunctionOnSet(after, Threads \ {t}) \in Int
      <4>1. \A u \in Threads \ {t} : after[u] \in Int
        BY <1>2
      <4> QED BY <3>6, <4>1, SumType
    <3>10. stock'[st] = stock[st] /\ after[t] \in Nat
      BY <1>2, <2>1
    <3> QED BY <1>4, <1>5, <3>4, <3>5, <3>8, <3>9, <3>10
  <2>5. CASE ~(handler'[t].pc \in {"complete", "deliver"} /\ ship.to = st)
    <3>1. after[t] = 0
      <4>1. handler'[t].ship # handler[t].ship => handler'[t].pc \notin {"complete", "deliver"}
        BY <1>11 DEF StorageCheck, Goto, Finish, Idle, Typed, TypeOK
      <4> QED BY <1>7, <2>1, <2>5, <4>1 DEF Due
    <3>2. \A u \in Threads : after[u] <= before[u]
      BY <1>2, <2>3, <3>1
    <3> QED BY <1>4, <1>10, <2>1, <3>2
  <2> QED BY <2>4, <2>5
<1>12. ASSUME NEW t \in Threads, Deliver(t)
       PROVE  stock'[st] + SumFunctionOnSet(after, Threads) <= MaxStorage + most
  <2> DEFINE ship == ships[handler[t].ship]
  <2>1. stock' = [stock EXCEPT ![ship.to] = IF Connected(ship.to) THEN @ + ship.cargo ELSE @]
    BY <1>12 DEF Deliver
  <2>2. \A u \in Threads : ~StorageCheck(u)
    BY <1>12 DEF Deliver, StorageCheck, At, Goto, Finish, Idle, Typed, TypeOK
  <2>3. after[t] = 0 /\ (ship.to = st => before[t] = ship.cargo)
    BY <1>7, <1>12 DEF Deliver, Finish, Idle, At, Due, Typed, TypeOK
  <2> HIDE DEF ship
  <2>4. CASE ship.to # st
    <3>1. stock'[st] = stock[st]
      BY <1>4, <2>1, <2>4
    <3> QED BY <1>4, <1>6, <1>10, <2>2, <3>1
  <2>5. CASE ship.to = st
    <3>1. stock'[st] = stock[st] + before[t]
      BY <1>4, <2>1, <2>3, <2>5 DEF Connected
    <3> DEFINE rest == [before EXCEPT ![t] = 0]
    <3>2. \A u \in Threads : rest[u] = IF u = t THEN 0 ELSE before[u]
      BY DEF before
    <3> HIDE DEF rest
    <3>3. SumFunctionOnSet(rest, Threads) = SumFunctionOnSet(before, Threads) + (rest[t] - before[t])
      <4>1. \A u \in Threads : before[u] \in Int /\ rest[u] \in Int
        BY <1>2, <3>2
      <4>2. \A u \in Threads \ {t} : rest[u] = before[u]
        BY <3>2
      <4> QED BY <1>5, <4>1, <4>2, SumChange, SMTT(30)
    <3>4. SumFunctionOnSet(after, Threads) <= SumFunctionOnSet(rest, Threads)
      <4>1. \A u \in Threads : after[u] \in Int /\ rest[u] \in Int /\ after[u] <= rest[u]
        BY <1>2, <1>6, <2>2, <2>3, <3>2
      <4> QED BY <1>5, <4>1, SumMonotone
    <3>5. rest[t] = 0 /\ before[t] \in Nat
      BY <1>2, <3>2
    <3>6. SumFunctionOnSet(after, Threads) <= SumFunctionOnSet(before, Threads) - before[t]
      BY <1>9, <3>3, <3>4, <3>5
    <3> QED BY <1>3, <1>4, <1>5, <1>9, <3>1, <3>5, <3>6
  <2> QED BY <2>4, <2>5
<1>13. CASE ~(\E t \in Threads : StorageCheck(t) \/ Deliver(t))
  <2>1. stock'[st] <= stock[st]
    <3>1. CASE stock' = stock
      BY <1>4, <3>1
    <3>2. ASSUME NEW t \in Threads, DeductCargo(t), stock' # stock PROVE stock'[st] <= stock[st]
      <4>1. ships[handler[t].ship] \in Ship
        BY <3>2 DEF DeductCargo, At, Typed, TypeOK, Grounded, Used
      <4>2. ships[handler[t].ship].cargo \in Nat
        BY <4>1 DEF Ship
      <4> QED BY <1>4, <3>2, <4>2 DEF DeductCargo
    <3>3. ASSUME NEW s, NEW from, NEW to, NEW q \in Cargoes, CreateTrade(s, from, to, q)
          PROVE  stock'[st] <= stock[st]
      BY <1>4, <3>3, LargestIs DEF CreateTrade
    <3>4. CASE RemoveStation
      BY <1>4, <3>4 DEF RemoveStation
    <3> QED BY <1>13, <3>1, <3>2, <3>3, <3>4
            DEF Next, Create, PayFee, CreateTrucking, Request, Dock, Undock, Timer, ArriveAtOrigin, Arrive,
                Poll, Step, OriginBayCheck, StartLoading, DestBayCheck, StartUnloading, Depart, Complete,
                Administer, DeleteShips, Disown, CheckShips, Disconnect, Drop, DropOrder, Restart, vars
  <2> QED BY <1>6, <1>10, <1>13, <2>1
<1> QED BY <1>11, <1>12, <1>13

\* Unloading checks the room for a cargo under one lock and delivers it under
\* another, so a station can be overfilled; but by no more than a largest cargo
\* for each handler that runs beside another.
THEOREM StorageOverrunCorrect == Spec => []StorageOverrunBounded
<1>1. Typed /\ CargoesKnown /\ DueBounded => StorageOverrunBounded
  <2> SUFFICES ASSUME Typed, CargoesKnown, DueBounded, NEW st \in Stations, st \notin gone
               PROVE  stock[st] <= MaxStorage + (Cardinality(Threads) - 1) * LargestCargo
    BY DEF StorageOverrunBounded
  <2> DEFINE due == [t \in Threads |-> Due(t, st)]
             most == MaxStorage + (Cardinality(Threads) - 1) * LargestCargo
  <2>1. stock[st] + SumFunctionOnSet(due, Threads) <= most /\ stock[st] \in Nat
    BY DEF DueBounded, AllDue, Typed, TypeOK
  <2>2. \A t \in Threads : due[t] \in Nat
    BY DueType
  <2>3. Cardinality(Threads) \in Nat /\ MaxStorage \in Nat /\ most \in Int
    BY ShipsAssumption, FS_CardinalityType, LargestIs
  <2> HIDE DEF due, most
  <2>4. SumFunctionOnSet(due, Threads) \in Nat
    BY <2>2, SumNatural, ShipsAssumption
  <2>5. stock[st] <= most
    BY <2>1, <2>3, <2>4
  <2> QED BY <2>5 DEF most
<1> QED BY <1>1, TypedInit, TypedStep, CargoesInit, CargoesStep, DueInit, DueStep, PTL DEF Spec

-----------------------------------------------------------------------------
(* Goods *)

\* Does handler t have the cargo of ship s between two critical sections?
Holds(t, s) ==
  /\ handler[t].ship = s
  /\ \/ At(t, "deliver")
     \/ ships[s].kind = "trucking" /\ handler[t].pc \in {"origin_bay", "load"}

Bit(b) == IF b THEN 1 ELSE 0

\* Only the cargo of trucking ships is deducted when they dock.
TruckingDeducts ==
  \A t \in Threads : At(t, "deduct") => ships[handler[t].ship].kind = "trucking"

\* Every step keeps it.
LEMMA TruckingStep == Typed /\ TruckingDeducts /\ [Next]_vars => TruckingDeducts'
<1> SUFFICES ASSUME Typed, TruckingDeducts, [Next]_vars, NEW t \in Threads, handler'[t].pc = "deduct"
             PROVE  ships'[handler'[t].ship].kind = "trucking"
  BY DEF TruckingDeducts, At
<1> USE DEF Typed, TypeOK
<1>1. CASE handler'[t] = handler[t]
  <2>1. handler[t].ship \in ShipIds /\ Used(handler[t].ship)
    BY <1>1 DEF Grounded, At
  <2>2. ships[handler[t].ship].kind = "trucking"
    BY <1>1 DEF TruckingDeducts, At
  <2>3. ships'[handler[t].ship].kind = ships[handler[t].ship].kind
    BY <2>1, ShipsKept
  <2> QED BY <1>1, <2>2, <2>3
<1>2. CASE handler'[t] # handler[t]
  <2>1. \A u \in Threads : ~Step(u)
    BY <1>2 DEF Step, DeductCargo, OriginBayCheck, StartLoading, DestBayCheck, StartUnloading, Depart,
                StorageCheck, Complete, Deliver, Goto, Finish, Idle
  <2>2. ~Restart /\ \A u \in Threads : ~Drop(u)
    BY <1>2 DEF Restart, Drop, Finish, Idle
  <2>3. \E s \in ShipIds : Dock(t, s)
    BY <1>2, <2>1, <2>2
    DEF Next, Request, Dock, Undock, Create, PayFee, CreateTrucking, CreateTrade, Timer, ArriveAtOrigin,
        Arrive, Poll, Administer, DeleteShips, Disown, CheckShips, RemoveStation, Disconnect, DropOrder, vars
  <2>4. PICK s \in ShipIds : Dock(t, s)
    BY <2>3
  <2>5. handler'[t].ship = s /\ ships[s].kind = "trucking" /\ ships' = ships
    BY <2>4 DEF Dock, fleet
  <2> QED BY <2>5
<1> QED BY <1>1, <1>2

\* At the start no handler has deducted anything.
LEMMA TruckingInit == Init => TruckingDeducts
  BY DEF Init, TruckingDeducts, At, Idle

\* A ship's goods are its cargo, once for each handler that holds it and once if it
\* is loaded.
LEMMA CargoIs ==
  ASSUME Typed, NEW s \in ShipIds, Used(s)
  PROVE  /\ ships[s].cargo \in Nat /\ Cardinality(Holding(s)) \in Nat /\ IsFiniteSet(Holding(s))
         /\ Cargo(s) = ships[s].cargo * (Cardinality(Holding(s)) + Bit(Loaded(s)))
         /\ Cargo(s) \in Nat
<1>1. ships[s].cargo \in Nat
  BY DEF Typed, TypeOK, Used, Ship
<1>2. Holding(s) \in SUBSET Threads
  BY DEF Holding
<1>3. Cardinality(Holding(s)) \in Nat /\ IsFiniteSet(Holding(s))
  BY <1>2, ShipsAssumption, FS_Subset, FS_CardinalityType
<1>4. Cargo(s) = ships[s].cargo * (Cardinality(Holding(s)) + Bit(Loaded(s)))
  BY DEF Cargo, Bit
<1>5. Bit(Loaded(s)) \in Nat
  BY DEF Bit
<1> QED BY <1>1, <1>3, <1>4, <1>5

\* The cargo of a ship after a step.
LEMMA CargoIsNext ==
  ASSUME Typed', NEW s \in ShipIds, ships'[s] # NoShip
  PROVE  /\ ships'[s].cargo \in Nat /\ Cardinality(Holding(s)') \in Nat /\ IsFiniteSet(Holding(s)')
         /\ Cargo(s)' = ships'[s].cargo * (Cardinality(Holding(s)') + Bit(Loaded(s)'))
         /\ Cargo(s)' \in Nat
<1>1. ships'[s].cargo \in Nat
  BY DEF Typed, TypeOK, Ship
<1>2. Holding(s)' \in SUBSET Threads
  BY DEF Holding
<1>3. Cardinality(Holding(s)') \in Nat /\ IsFiniteSet(Holding(s)')
  BY <1>2, ShipsAssumption, FS_Subset, FS_CardinalityType
<1>4. Cargo(s)' = ships'[s].cargo * (Cardinality(Holding(s)') + Bit(Loaded(s)'))
  BY DEF Cargo, Bit
<1>5. Bit(Loaded(s)') \in Nat
  BY DEF Bit
<1> QED BY <1>1, <1>3, <1>4, <1>5

\* One handler changes what it holds of a ship, and the ship whether it is loaded.
LEMMA CargoChange ==
  ASSUME Typed, Typed', NEW s \in ShipIds, Used(s), ships'[s] # NoShip,
         ships'[s].cargo = ships[s].cargo, NEW t \in Threads,
         \A u \in Threads \ {t} : Holds(u, s)' <=> Holds(u, s)
  PROVE  Cargo(s)' = Cargo(s) + ships[s].cargo * ((Bit(Holds(t, s)') - Bit(Holds(t, s)))
                                                  + (Bit(Loaded(s)') - Bit(Loaded(s))))
<1> DEFINE c == ships[s].cargo
           n == Cardinality(Holding(s))
           m == Cardinality(Holding(s)')
           bits == Bit(Holds(t, s)') - Bit(Holds(t, s))
<1>1. \A u \in Threads : (u \in Holding(s) <=> Holds(u, s)) /\ (u \in Holding(s)' <=> Holds(u, s)')
  BY DEF Holding, Holds
<1>2. Holding(s) \in SUBSET Threads /\ Holding(s)' \in SUBSET Threads
  BY DEF Holding
<1>3. c \in Nat /\ n \in Nat /\ m \in Nat /\ IsFiniteSet(Holding(s)) /\ IsFiniteSet(Holding(s)')
  BY CargoIs, CargoIsNext
<1>4. m = n + bits
  <2>1. CASE Holds(t, s) /\ Holds(t, s)'
    <3>1. Holding(s)' = Holding(s)
      BY <1>1, <1>2, <2>1
    <3> QED BY <1>3, <2>1, <3>1 DEF Bit
  <2>2. CASE ~Holds(t, s) /\ ~Holds(t, s)'
    <3>1. Holding(s)' = Holding(s)
      BY <1>1, <1>2, <2>2
    <3> QED BY <1>3, <2>2, <3>1 DEF Bit
  <2>3. CASE Holds(t, s) /\ ~Holds(t, s)'
    <3>1. Holding(s)' = Holding(s) \ {t} /\ t \in Holding(s)
      BY <1>1, <1>2, <2>3
    <3>2. m = n - 1
      BY <1>3, <3>1, FS_RemoveElement
    <3> QED BY <1>3, <2>3, <3>2 DEF Bit
  <2>4. CASE ~Holds(t, s) /\ Holds(t, s)'
    <3>1. Holding(s)' = Holding(s) \cup {t} /\ t \notin Holding(s)
      BY <1>1, <1>2, <2>4
    <3>2. m = n + 1
      BY <1>3, <3>1, FS_AddElement
    <3> QED BY <1>3, <2>4, <3>2 DEF Bit
  <2> QED BY <2>1, <2>2, <2>3, <2>4
<1>5. Cargo(s) = c * (n + Bit(Loaded(s))) /\ Cargo(s)' = c * (m + Bit(Loaded(s)'))
  BY CargoIs, CargoIsNext
<1>6. bits \in Int /\ Bit(Loaded(s)) \in Int /\ Bit(Loaded(s)') \in Int
  BY DEF Bit
<1> DEFINE old == Bit(Loaded(s))
           new == Bit(Loaded(s)')
<1>7. old \in Int /\ new \in Int
  BY <1>6
<1> HIDE DEF c, n, m, bits, old, new
<1>8. c * (m + new) = c * (n + old) + c * (bits + (new - old))
  BY <1>3, <1>4, <1>6, <1>7
<1> QED BY <1>5, <1>8 DEF c, bits, old, new

\* The goods of a ship, if it is one.
Aboard(s) == IF Used(s) THEN Cargo(s) ELSE 0

\* What is aboard is no less than nothing.
LEMMA AboardNat ==
  ASSUME Typed, NEW s \in ShipIds
  PROVE  Aboard(s) \in Nat
  BY CargoIs DEF Aboard

\* Nor is it after a step.
LEMMA AboardNatNext ==
  ASSUME Typed', NEW s \in ShipIds
  PROVE  Aboard(s)' \in Nat
  BY CargoIsNext DEF Aboard, Used

\* A ship that stays what it is and is held by the same handlers has the same goods.
LEMMA AboardSame ==
  ASSUME NEW s \in ShipIds, ships'[s] = ships[s], \A t \in Threads : Holds(t, s)' <=> Holds(t, s)
  PROVE  Aboard(s)' = Aboard(s)
<1>1. Holding(s)' = Holding(s)
  <2>1. \A t \in Threads : (t \in Holding(s) <=> Holds(t, s)) /\ (t \in Holding(s)' <=> Holds(t, s)')
    BY DEF Holding, Holds
  <2>2. Holding(s) \in SUBSET Threads /\ Holding(s)' \in SUBSET Threads
    BY DEF Holding
  <2> QED BY <2>1, <2>2
<1>2. Loaded(s)' = Loaded(s)
  BY DEF Loaded, Exists, Used
<1> QED BY <1>1, <1>2 DEF Aboard, Used, Cargo

\* The goods afloat and those in the stations are numbers.
LEMMA GoodsNat ==
  Typed => Afloat \in Nat /\ SumFunctionOnSet(stock, Stations) \in Nat
<1> SUFFICES ASSUME Typed
             PROVE  Afloat \in Nat /\ SumFunctionOnSet(stock, Stations) \in Nat
  OBVIOUS
<1> DEFINE aboard == [s \in ShipIds |-> Aboard(s)]
<1>1. \A s \in ShipIds : aboard[s] \in Nat
  BY AboardNat
<1>2. \A st \in Stations : stock[st] \in Nat
  BY DEF Typed, TypeOK
<1>3. Afloat = SumFunctionOnSet(aboard, ShipIds)
  BY DEF Afloat, Aboard
<1> HIDE DEF aboard
<1> QED BY <1>1, <1>2, <1>3, SumNatural, ShipsAssumption

\* One ship changes its goods, and so do the goods afloat.
LEMMA AfloatChange ==
  ASSUME Typed, Typed', NEW s \in ShipIds, \A r \in ShipIds \ {s} : Aboard(r)' = Aboard(r)
  PROVE  Afloat' = Afloat + (Aboard(s)' - Aboard(s))
<1> DEFINE before == [r \in ShipIds |-> Aboard(r)]
           after == [r \in ShipIds |-> Aboard(r)']
<1>1. \A r \in ShipIds : before[r] \in Int /\ after[r] \in Int
  BY AboardNat, AboardNatNext
<1>2. \A r \in ShipIds \ {s} : after[r] = before[r]
  OBVIOUS
<1>3. before[s] = Aboard(s) /\ after[s] = Aboard(s)'
  OBVIOUS
<1>4. Afloat = SumFunctionOnSet(before, ShipIds) /\ Afloat' = SumFunctionOnSet(after, ShipIds)
  BY DEF Afloat, Aboard
<1>5. IsFiniteSet(ShipIds)
  BY ShipsAssumption
<1> HIDE DEF before, after
<1>6. SumFunctionOnSet(after, ShipIds) = SumFunctionOnSet(before, ShipIds) + (after[s] - before[s])
  BY <1>1, <1>2, <1>5, SumChange, SMTT(30)
<1> QED BY <1>3, <1>4, <1>6

\* One stock changes.
LEMMA StockSum ==
  ASSUME NEW st \in Stations, \A r \in Stations : stock[r] \in Int /\ stock'[r] \in Int,
         \A r \in Stations \ {st} : stock'[r] = stock[r]
  PROVE  SumFunctionOnSet(stock', Stations)
           = SumFunctionOnSet(stock, Stations) + (stock'[st] - stock[st])
<1>1. IsFiniteSet(Stations)
  BY ShipsAssumption
<1> QED BY <1>1, SumChange, SMTT(30)

\* It changes by a given amount.
LEMMA StockChange ==
  ASSUME Typed, Typed', NEW st \in Stations, NEW change \in Int,
         stock' = [stock EXCEPT ![st] = @ + change]
  PROVE  SumFunctionOnSet(stock', Stations) = SumFunctionOnSet(stock, Stations) + change
<1>1. stock \in [Stations -> Nat] /\ stock' \in [Stations -> Nat]
  BY DEF Typed, TypeOK
<1>2. stock'[st] = stock[st] + change /\ \A r \in Stations \ {st} : stock'[r] = stock[r]
  BY <1>1
<1>3. \A r \in Stations : stock[r] \in Int /\ stock'[r] \in Int
  BY <1>1
<1>5. SumFunctionOnSet(stock', Stations)
        = SumFunctionOnSet(stock, Stations) + (stock'[st] - stock[st])
  BY <1>2, <1>3, StockSum
<1>6. stock'[st] - stock[st] = change
  BY <1>2, <1>3
<1> QED BY <1>5, <1>6

\* What one handler and one ship change about the goods afloat.
LEMMA AfloatStep ==
  ASSUME Typed, [Next]_vars, NEW s \in ShipIds, Used(s), NEW t \in Threads,
         \A r \in ShipIds \ {s} : ships'[r] = ships[r] /\ (Holds(t, r)' <=> Holds(t, r)),
         \A u \in Threads \ {t} : handler'[u] = handler[u]
  PROVE  /\ Afloat' = Afloat + ships[s].cargo * ((Bit(Holds(t, s)') - Bit(Holds(t, s)))
                                                 + (Bit(Loaded(s)') - Bit(Loaded(s))))
         /\ ships[s].cargo \in Nat /\ Afloat \in Nat /\ Afloat' \in Nat
<1>1. Typed'
  BY TypedStep
<1>2. ships'[s] # NoShip /\ ships'[s].cargo = ships[s].cargo /\ ships'[s].kind = ships[s].kind
  BY ShipsKept
<1>3. ASSUME NEW r \in ShipIds \ {s} PROVE Aboard(r)' = Aboard(r)
  <2>1. \A u \in Threads : Holds(u, r)' <=> Holds(u, r)
    BY DEF Holds, At
  <2> QED BY <2>1, AboardSame
<1>4. \A u \in Threads \ {t} : Holds(u, s)' <=> Holds(u, s)
  BY <1>2 DEF Holds, At
<1>5. Aboard(s) = Cargo(s) /\ Aboard(s)' = Cargo(s)'
  BY <1>2 DEF Aboard, Used
<1>6. Afloat' = Afloat + (Cargo(s)' - Cargo(s))
  BY <1>1, <1>3, <1>5, AfloatChange
<1> DEFINE change == ships[s].cargo * ((Bit(Holds(t, s)') - Bit(Holds(t, s)))
                                       + (Bit(Loaded(s)') - Bit(Loaded(s))))
<1>7. Cargo(s)' = Cargo(s) + change
  BY <1>1, <1>2, <1>4, CargoChange
<1>8. Cargo(s) \in Nat /\ Cargo(s)' \in Nat /\ ships[s].cargo \in Nat
  BY <1>1, <1>2, CargoIs, CargoIsNext
<1>9. change \in Int
  BY <1>8 DEF Bit
<1>10. Afloat \in Nat /\ (Typed' => Afloat' \in Nat)
  <2>1. (Typed => Afloat \in Nat /\ SumFunctionOnSet(stock, Stations) \in Nat)'
    BY GoodsNat, PTL
  <2> QED BY <2>1, GoodsNat
<1> HIDE DEF change
<1>11. Afloat' = Afloat + change
  BY <1>6, <1>7, <1>8, <1>9, <1>10
<1> QED BY <1>1, <1>8, <1>10, <1>11 DEF change

\* Launching a ship: a trucking ship has nothing aboard yet, and a trade ship what
\* its trade has taken from the origin.
LEMMA GoodsLaunched ==
  ASSUME Typed, Create
  PROVE  TotalGoods' = TotalGoods
<1>0. CASE \E o \in Orders : PayFee(o)
  <2>1. Afloat' = Afloat /\ stock' = stock
    BY <1>0 DEF PayFee, fleet, Afloat, Used, Cargo, Holding, Loaded, Exists, At
  <2> QED BY <2>1 DEF TotalGoods
<1> SUFFICES ASSUME ~\E o \in Orders : PayFee(o) PROVE TotalGoods' = TotalGoods
  BY <1>0
<1>1. PICK s \in ShipIds, from \in Stations, to \in Stations, q \in Cargoes :
        \/ CreateTrade(s, from, to, q)
        \/ \E o \in Orders : /\ from = o.from /\ to = o.to /\ q = o.cargo
                            /\ CreateTrucking(s, o)
  <2>1. \A route \in Routes : route[1] \in Stations /\ route[2] \in Stations
    BY ShipsAssumption
  <2> QED BY <2>1, OrderIs DEF Create
<1>2. PICK kind \in {"trade", "trucking"} :
        /\ Launch(s, kind, from, to, q) /\ handler' = handler
        /\ \/ kind = "trucking" /\ stock' = stock
           \/ /\ kind = "trade" /\ stock' = [stock EXCEPT ![from] = @ - q]
  BY <1>1 DEF CreateTrucking, CreateTrade
<1>3. Typed' /\ q \in Nat
  BY TypedStep, LargestIs DEF Next
<1>4. ~Used(s) /\ \A r \in ShipIds \ {s} : ships'[r] = ships[r]
  BY <1>2 DEF Launch
<1>5. ships'[s] = [kind |-> kind, from |-> from, to |-> to, cargo |-> q, status |-> Sequence[1]]
  BY <1>2 DEF Launch, Typed, TypeOK
<1>6. \A t \in Threads : ~Holds(t, s)'
  <2>1. \A t \in Threads : handler[t].ship = s => At(t, "idle")
    BY <1>4 DEF Typed, Grounded
  <2> QED BY <1>2, <2>1 DEF Holds, At
<1>7. Holding(s)' = {}
  BY <1>6 DEF Holding, Holds
<1>8. ships'[s] # NoShip
  BY <1>3, <1>5, StatusesAre, ShipsAssumption DEF Ship, Sequence
<1>9. Loaded(s)' <=> kind = "trade"
  BY <1>5, <1>8 DEF Loaded, Exists, Used, Sequence
<1>10. Aboard(s) = 0 /\ Aboard(s)' = ships'[s].cargo * (0 + Bit(kind = "trade"))
  BY <1>3, <1>4, <1>7, <1>8, <1>9, CargoIsNext, FS_EmptySet DEF Aboard, Used, Bit
<1>11. ships'[s].cargo = q
  BY <1>5
<1>12. ASSUME NEW r \in ShipIds \ {s} PROVE Aboard(r)' = Aboard(r)
  <2>1. \A t \in Threads : Holds(t, r)' <=> Holds(t, r)
    BY <1>2, <1>4 DEF Holds, At
  <2> QED BY <1>4, <2>1, AboardSame
<1>13. Afloat' = Afloat + (Aboard(s)' - Aboard(s))
  BY <1>3, <1>12, AfloatChange
<1>14. Afloat \in Nat /\ SumFunctionOnSet(stock, Stations) \in Nat
  BY GoodsNat
<1>15. CASE kind = "trucking" /\ stock' = stock
  <2>1. Aboard(s)' = 0
    BY <1>3, <1>10, <1>11, <1>15 DEF Bit
  <2> QED BY <1>10, <1>13, <1>14, <1>15, <2>1 DEF TotalGoods
<1>16. CASE kind = "trade" /\ stock' = [stock EXCEPT ![from] = @ - q]
  <2>1. Aboard(s)' = q
    BY <1>3, <1>10, <1>11, <1>16 DEF Bit
  <2>2. stock' = [stock EXCEPT ![from] = @ + (0 - q)] /\ 0 - q \in Int
    <3>1. stock[from] - q = stock[from] + (0 - q)
      BY <1>3 DEF Typed, TypeOK
    <3>2. 0 - q \in Int
      BY <1>3
    <3> QED BY <1>16, <3>1, <3>2
  <2>3. SumFunctionOnSet(stock', Stations) = SumFunctionOnSet(stock, Stations) + (0 - q)
    BY <1>3, <2>2, StockChange
  <2> QED BY <1>3, <1>10, <1>13, <1>14, <2>1, <2>3 DEF TotalGoods
<1> QED BY <1>2, <1>15, <1>16

\* Timers, polls and new requests leave the goods where they are.
LEMMA GoodsQuiet ==
  ASSUME Typed, [Next]_vars, Request \/ \E s \in ShipIds : Timer(s) \/ Poll(s)
  PROVE  TotalGoods' = TotalGoods
<1> DEFINE Same(s, t) ==
      /\ \A r \in ShipIds \ {s} : ships'[r] = ships[r]
      /\ \A r \in ShipIds : Holds(t, r)' <=> Holds(t, r)
      /\ \A u \in Threads \ {t} : handler'[u] = handler[u]
      /\ Loaded(s)' <=> Loaded(s)
      /\ stock' = stock
<1>1. ASSUME NEW s \in ShipIds, NEW t \in Threads, Used(s), Same(s, t)
      PROVE  TotalGoods' = TotalGoods
  <2>1. /\ Bit(Holds(t, s)') - Bit(Holds(t, s)) = 0
        /\ Bit(Loaded(s)') - Bit(Loaded(s)) = 0
    BY <1>1 DEF Bit
  <2>2. /\ Afloat' = Afloat + ships[s].cargo * ((Bit(Holds(t, s)') - Bit(Holds(t, s)))
                                                 + (Bit(Loaded(s)') - Bit(Loaded(s))))
        /\ ships[s].cargo \in Nat /\ Afloat \in Nat /\ Afloat' \in Nat
    BY <1>1, AfloatStep
  <2>3. Afloat' = Afloat
    BY <2>1, <2>2
  <2> QED BY <1>1, <2>3 DEF TotalGoods
<1>2. ASSUME NEW s \in ShipIds, Used(s), NEW status, SetStatus(s, status),
             \/ ships[s].status = status
             \/ ships[s].status = "in_transit_to_origin" /\ status = "awaiting_origin_docking_auth"
             \/ /\ {ships[s].status, status} \cap
                     {"in_transit_to_origin", "awaiting_origin_docking_auth", "complete", "deleted"} = {}
      PROVE  Loaded(s)' <=> Loaded(s)
  <2>1. ships'[s].status = status /\ ships'[s].kind = ships[s].kind /\ ships'[s] # NoShip
    BY <1>2, OneWritten, ShipsKept
  <2> QED BY <1>2, <2>1 DEF Loaded, Exists, Used
<1>3. ASSUME NEW s \in ShipIds, Used(s)
      PROVE  LET status == Polled(ships[s].status)
             IN  \/ ships[s].status = status
                 \/ /\ {ships[s].status, status} \cap
                      {"in_transit_to_origin", "awaiting_origin_docking_auth", "complete", "deleted"} = {}
  BY DEF Polled
<1>4. ASSUME NEW s \in ShipIds, NEW t \in Threads, Dock(t, s)
      PROVE  TotalGoods' = TotalGoods
  <2>1. Used(s) /\ ships' = ships /\ stock' = stock /\ \A u \in Threads \ {t} : handler'[u] = handler[u]
    BY <1>4 DEF Dock, MayStart, Exists, fleet, Typed, TypeOK
  <2>2. At(t, "idle") /\ \E pc \in {"deduct", "origin_bay", "dest_bay"} :
          /\ handler'[t] = [pc |-> pc, ship |-> s]
          /\ pc = "origin_bay" => ships[s].kind # "trucking"
    BY <1>4 DEF Dock, MayStart, Typed, TypeOK
  <2>3. \A r \in ShipIds : ~Holds(t, r)' /\ ~Holds(t, r)
    BY <2>1, <2>2 DEF Holds, At
  <2>4. Loaded(s)' <=> Loaded(s)
    BY <2>1 DEF Loaded, Exists, Used
  <2> QED BY <1>1, <2>1, <2>3, <2>4
<1>5. ASSUME NEW s \in ShipIds, NEW t \in Threads, Undock(t, s)
      PROVE  TotalGoods' = TotalGoods
  <2>1. Used(s) /\ SetStatus(s, Polled(ships[s].status)) /\ stock' = stock
        /\ \A u \in Threads \ {t} : handler'[u] = handler[u]
    BY <1>5 DEF Undock, MayStart, Exists, Typed, TypeOK
  <2>2. At(t, "idle") /\ \E pc \in {"depart", "storage"} : handler'[t] = [pc |-> pc, ship |-> s]
    BY <1>5 DEF Undock, MayStart, Typed, TypeOK
  <2>3. \A r \in ShipIds : ~Holds(t, r)' /\ ~Holds(t, r)
    BY <2>2 DEF Holds, At
  <2>4. \A r \in ShipIds \ {s} : ships'[r] = ships[r]
    BY <2>1, OneWritten
  <2>5. Loaded(s)' <=> Loaded(s)
    BY <1>2, <1>3, <2>1
  <2> QED BY <1>1, <2>1, <2>3, <2>4, <2>5
<1>6. ASSUME NEW s \in ShipIds, Timer(s) \/ Poll(s)
      PROVE  TotalGoods' = TotalGoods
  <2>1. stock' = stock /\ handler' = handler
    BY <1>6 DEF Timer, ArriveAtOrigin, Arrive, Poll
  <2>2. CASE ships' = ships
    <3>1. Afloat' = Afloat
      BY <2>1, <2>2 DEF Afloat, Used, Cargo, Holding, Loaded, Exists, At
    <3> QED BY <2>1, <3>1 DEF TotalGoods
  <2>3. CASE ships' # ships
    <3>1. Used(s) /\ \E status : SetStatus(s, status)
                     /\ \/ ships[s].status = status
                        \/ ships[s].status = "in_transit_to_origin" /\ status = "awaiting_origin_docking_auth"
                        \/ /\ {ships[s].status, status} \cap
                                {"in_transit_to_origin", "awaiting_origin_docking_auth", "complete", "deleted"} = {}
      <4>1. CASE Poll(s)
        BY <1>3, <4>1 DEF Poll, Exists
      <4>2. CASE Timer(s)
        BY <2>3, <4>2 DEF Timer, ArriveAtOrigin, Arrive, HasStatus, Exists
      <4> QED BY <1>6, <4>1, <4>2
    <3>2. Loaded(s)' <=> Loaded(s)
      BY <1>2, <3>1
    <3>3. \A r \in ShipIds \ {s} : ships'[r] = ships[r]
      BY <3>1, OneWritten
    <3>4. PICK t \in Threads : TRUE
      BY ShipsAssumption
    <3>5. \A r \in ShipIds : Holds(t, r)' <=> Holds(t, r)
      <4>1. ships'[s].kind = ships[s].kind
        BY <3>1, ShipsKept
      <4> QED BY <2>1, <3>3, <4>1 DEF Holds, At
    <3> QED BY <1>1, <2>1, <3>1, <3>2, <3>3, <3>5
  <2> QED BY <2>2, <2>3
<1> QED BY <1>4, <1>5, <1>6 DEF Request

\* A section of dock or undock touches its own ship and its own handler only.
LEMMA SectionAlone ==
  ASSUME Typed, NEW t \in Threads, Step(t)
  PROVE  /\ handler[t].ship \in ShipIds /\ Used(handler[t].ship)
         /\ \A r \in ShipIds \ {handler[t].ship} :
              ships'[r] = ships[r] /\ (Holds(t, r)' <=> Holds(t, r))
         /\ \A u \in Threads \ {t} : handler'[u] = handler[u]
         /\ \/ Finish(t) /\ handler'[t] = Idle
            \/ \E pc : /\ Goto(t, pc) /\ handler'[t].pc = pc
                       /\ handler'[t].ship = handler[t].ship
<1> DEFINE s == handler[t].ship
<1>1. s \in ShipIds /\ Used(s)
  BY DEF Step, DeductCargo, OriginBayCheck, StartLoading, DestBayCheck,
         StartUnloading, Depart, StorageCheck, Complete, Deliver, At, Typed, Grounded
<1>2. \A r \in ShipIds \ {s} : ships'[r] = ships[r]
  BY <1>1, OneWritten
  DEF Step, DeductCargo, OriginBayCheck, StartLoading, DestBayCheck,
      StartUnloading, Depart, StorageCheck, Complete, Deliver, WriteStatus, fleet
<1>3. Finish(t) \/ \E pc : Goto(t, pc)
  BY DEF Step, DeductCargo, OriginBayCheck, StartLoading, DestBayCheck,
         StartUnloading, Depart, StorageCheck, Complete, Deliver
<1>4. \A u \in Threads \ {t} : handler'[u] = handler[u]
  BY <1>3 DEF Finish, Goto, Typed, TypeOK
<1>5. \/ Finish(t) /\ handler'[t] = Idle
      \/ \E pc : Goto(t, pc) /\ handler'[t].pc = pc /\ handler'[t].ship = s
  BY <1>3 DEF Finish, Goto, Typed, TypeOK
<1>6. handler'[t].ship \in {s, NoShip}
  BY <1>5 DEF Idle
<1>7. ASSUME NEW r \in ShipIds \ {s} PROVE ~Holds(t, r) /\ ~Holds(t, r)'
  BY <1>6, ShipsAssumption DEF Holds
<1> QED BY <1>1, <1>2, <1>4, <1>5, <1>7

\* The sections of dock and undock keep the goods, save when they write what is no
\* longer so, or turn away a trucking ship whose cargo has been deducted.
LEMMA GoodsSections ==
  ASSUME Typed, TruckingDeducts, [Next]_vars, NEW t \in Threads, Step(t),
         NEW s \in ShipIds, handler[t].ship = s
  PROVE  \/ TotalGoods' = TotalGoods
         \/ WritesStale(t) /\ (At(t, "load") \/ TotalGoods' >= TotalGoods)
         \/ /\ TotalGoods' <= TotalGoods
            /\ At(t, "origin_bay") /\ At(t, "idle")'
            /\ ships[handler[t].ship].kind = "trucking"
            /\ BaysTaken(ships[handler[t].ship].from)
         \/ /\ TotalGoods' >= TotalGoods
            /\ At(t, "deduct") /\ ~Connected(ships[handler[t].ship].from)
         \/ /\ TotalGoods' <= TotalGoods
            /\ At(t, "deliver") /\ At(t, "idle")' /\ ~Connected(ships[handler[t].ship].to)
<1> DEFINE c == ships[s].cargo
           held == Bit(Holds(t, s)') - Bit(Holds(t, s))
           loaded == Bit(Loaded(s)') - Bit(Loaded(s))
           inStock == SumFunctionOnSet(stock, Stations)
           inStock2 == SumFunctionOnSet(stock', Stations)
<1>1. s \in ShipIds /\ Used(s) /\ Typed'
  BY SectionAlone, TypedStep
<1>2. /\ Afloat' = Afloat + c * (held + loaded)
      /\ c \in Nat /\ Afloat \in Nat /\ Afloat' \in Nat
  <2>1. /\ \A r \in ShipIds \ {s} : ships'[r] = ships[r] /\ (Holds(t, r)' <=> Holds(t, r))
        /\ \A u \in Threads \ {t} : handler'[u] = handler[u]
    BY SectionAlone
  <2> QED BY <1>1, <2>1, AfloatStep
<1>3. inStock \in Nat
  BY GoodsNat
<1>4. TotalGoods = inStock + Afloat /\ TotalGoods' = inStock2 + Afloat'
  BY DEF TotalGoods
<1>5. held \in {-1, 0, 1} /\ loaded \in {-1, 0, 1}
  BY DEF Bit
<1>6. \/ Finish(t) /\ handler'[t] = Idle
      \/ \E pc : Goto(t, pc) /\ handler'[t].pc = pc /\ handler'[t].ship = s
  BY SectionAlone
<1>7. ships'[s] # NoShip /\ ships'[s].kind = ships[s].kind
  BY <1>1, ShipsKept
<1>8. Finish(t) => handler'[t] = Idle /\ At(t, "idle")' /\ ~Holds(t, s)'
  BY <1>1, ShipsAssumption DEF Finish, Idle, At, Holds, Typed, TypeOK
<1>9. ASSUME NEW pc, Goto(t, pc)
      PROVE  handler'[t].pc = pc /\ handler'[t].ship = s
             /\ (Holds(t, s)' <=> \/ pc = "deliver"
                                  \/ ships[s].kind = "trucking" /\ pc \in {"origin_bay", "load"})
  <2>1. handler'[t].pc = pc /\ handler'[t].ship = s
    BY <1>9 DEF Goto, Typed, TypeOK
  <2> QED BY <1>7, <2>1 DEF Holds, At
<1>10. ships' = ships => (Loaded(s)' <=> Loaded(s))
  BY DEF Loaded, Exists, Used
<1>11. stock' = stock => inStock2 = inStock
  OBVIOUS
<1>12. ASSUME NEW status, SetStatus(s, status)
       PROVE  Loaded(s)' <=>
                /\ status \notin {"deleted", "complete"}
                /\ \/ ships[s].kind = "trade"
                   \/ status \notin {"in_transit_to_origin", "awaiting_origin_docking_auth"}
  <2>1. ships'[s].status = status
    BY <1>1, <1>12, OneWritten
  <2> QED BY <1>7, <2>1 DEF Loaded, Exists, Used
<1>13. Holds(t, s) <=> \/ At(t, "deliver")
                       \/ ships[s].kind = "trucking" /\ handler[t].pc \in {"origin_bay", "load"}
  BY DEF Holds
<1>14. ships[s].kind \in {"trade", "trucking"} /\ ships[s].from \in Stations /\ ships[s].to \in Stations
  BY <1>1 DEF Typed, TypeOK, Used, Ship
<1>15. Loaded(s) <=>
         /\ ships[s].status \notin {"deleted", "complete"}
         /\ \/ ships[s].kind = "trade"
            \/ ships[s].status \notin {"in_transit_to_origin", "awaiting_origin_docking_auth"}
  BY <1>1 DEF Loaded, Exists
<1> HIDE DEF c, inStock, inStock2
<1>16. ASSUME inStock2 = inStock, held + loaded = 0
       PROVE  TotalGoods' = TotalGoods
  BY <1>2, <1>3, <1>4, <1>16
<1>17. ASSUME inStock2 = inStock, held + loaded \in {0, 1, 2}
       PROVE  TotalGoods' >= TotalGoods
  <2>1. c * (held + loaded) >= 0
    BY <1>2, <1>17
  <2> HIDE DEF held, loaded
  <2>2. c * (held + loaded) \in Int
    BY <1>2, <1>5
  <2> QED BY <1>2, <1>3, <1>4, <1>17, <2>1, <2>2
<1>18. CASE StorageCheck(t) \/ DestBayCheck(t)
  <2>1. stock' = stock /\ ships' = ships /\ ~Holds(t, s) /\ ~Holds(t, s)'
    BY <1>8, <1>9, <1>13, <1>18 DEF StorageCheck, DestBayCheck, fleet, At
  <2>2. held + loaded = 0
    BY <1>10, <2>1 DEF Bit
  <2> QED BY <1>11, <1>16, <2>1, <2>2
<1>19. CASE OriginBayCheck(t)
  <2>1. stock' = stock /\ ships' = ships /\ (Holds(t, s) <=> ships[s].kind = "trucking")
    BY <1>13, <1>19 DEF OriginBayCheck, fleet, At
  <2>2. CASE Goto(t, "load")
    <3>1. Holds(t, s)' <=> Holds(t, s)
      BY <1>9, <2>1, <2>2
    <3>2. held + loaded = 0
      BY <1>10, <2>1, <3>1 DEF Bit
    <3> QED BY <1>11, <1>16, <2>1, <3>2
  <2>3. CASE Finish(t) /\ BaysTaken(ships[s].from)
    <3>1. CASE ships[s].kind = "trade"
      <4>1. held + loaded = 0
        BY <1>8, <1>10, <2>1, <2>3, <3>1 DEF Bit
      <4> QED BY <1>11, <1>16, <2>1, <4>1
    <3>2. CASE ships[s].kind = "trucking"
      <4>1. held + loaded = -1
        BY <1>8, <1>10, <2>1, <2>3, <3>2 DEF Bit
      <4>2. Afloat' = Afloat - c
        BY <1>2, <4>1
      <4>3. TotalGoods' <= TotalGoods
        BY <1>2, <1>3, <1>4, <1>11, <2>1, <4>2
      <4> QED BY <1>8, <1>19, <2>3, <3>2, <4>3 DEF OriginBayCheck
    <3> QED BY <1>14, <3>1, <3>2
  <2> QED BY <1>19, <2>2, <2>3 DEF OriginBayCheck
<1>20. CASE DeductCargo(t)
  <2>1. ships' = ships /\ ~Holds(t, s) /\ ships[s].kind = "trucking"
    BY <1>13, <1>20 DEF DeductCargo, fleet, At, TruckingDeducts
  <2>2. CASE Finish(t) /\ stock' = stock
    <3>1. held + loaded = 0
      BY <1>8, <1>10, <2>1, <2>2 DEF Bit
    <3> QED BY <1>11, <1>16, <2>2, <3>1
  <2>3. CASE Goto(t, "origin_bay") /\ stock' = [stock EXCEPT ![ships[s].from] = @ - c]
    <3>1. held + loaded = 1
      BY <1>9, <1>10, <2>1, <2>3 DEF Bit
    <3>2. Afloat' = Afloat + c
      BY <1>2, <3>1
    <3>3. stock' = [stock EXCEPT ![ships[s].from] = @ + (0 - c)] /\ 0 - c \in Int
      <4>1. stock[ships[s].from] - c = stock[ships[s].from] + (0 - c)
        BY <1>2, <1>14 DEF Typed, TypeOK
      <4>2. 0 - c \in Int
        BY <1>2
      <4> QED BY <2>3, <4>1, <4>2
    <3>4. inStock2 = inStock + (0 - c)
      <4>1. ASSUME NEW st \in Stations, NEW change \in Int, stock' = [stock EXCEPT ![st] = @ + change]
            PROVE  inStock2 = inStock + change
        BY <1>1, <4>1, StockChange DEF inStock, inStock2
      <4> QED BY <1>14, <3>3, <4>1
    <3>5. TotalGoods' = TotalGoods
      BY <1>2, <1>3, <1>4, <3>2, <3>4
    <3> QED BY <3>5
  <2>4. CASE Goto(t, "origin_bay") /\ stock' = stock /\ ~Connected(ships[s].from)
    <3>1. held + loaded = 1
      BY <1>9, <1>10, <2>1, <2>4 DEF Bit
    <3>2. TotalGoods' >= TotalGoods
      BY <1>11, <1>17, <2>4, <3>1
    <3> QED BY <1>20, <2>4, <3>2 DEF DeductCargo
  <2> QED BY <1>20, <2>2, <2>3, <2>4 DEF DeductCargo, c
<1>21. CASE StartLoading(t)
  <2>1. Finish(t) /\ stock' = stock /\ At(t, "load") /\ (Holds(t, s) <=> ships[s].kind = "trucking")
    BY <1>13, <1>21 DEF StartLoading, At
  <2>2. CASE ships[s].status # "awaiting_origin_docking_auth"
    <3>1. WritesStale(t)
      BY <1>8, <2>1, <2>2 DEF WritesStale, Seen, At, Idle
    <3> QED BY <2>1, <3>1
  <2>3. CASE ships[s].status = "awaiting_origin_docking_auth"
    <3>1. Exists(s) /\ SetStatus(s, "loading")
      BY <1>1, <1>21, <2>3 DEF StartLoading, WriteStatus, Exists
    <3>2. Loaded(s)' /\ (Loaded(s) <=> ships[s].kind = "trade")
      BY <1>12, <1>15, <2>3, <3>1
    <3>3. held + loaded = 0
      BY <1>8, <1>14, <2>1, <3>2 DEF Bit
    <3> QED BY <1>11, <1>16, <2>1, <3>3
  <2> QED BY <2>2, <2>3
<1>22. CASE StartUnloading(t)
  <2>1. Finish(t) /\ stock' = stock /\ ~Holds(t, s)
    BY <1>13, <1>22 DEF StartUnloading, At
  <2>2. Loaded(s)' <=> Loaded(s)
    <3>1. CASE ships' = ships
      BY <1>10, <3>1
    <3>2. CASE ships' # ships
      <4>1. ships[s].status = "awaiting_docking_auth" /\ SetStatus(s, "unloading")
        BY <1>22, <3>2 DEF StartUnloading
      <4> QED BY <1>12, <1>15, <4>1
    <3> QED BY <3>1, <3>2
  <2>3. held + loaded = 0
    BY <1>8, <2>1, <2>2 DEF Bit
  <2> QED BY <1>11, <1>16, <2>1, <2>3
<1>23. CASE Depart(t)
  <2>1. Finish(t) /\ stock' = stock /\ ~Holds(t, s) /\ At(t, "depart")
    BY <1>13, <1>23 DEF Depart, At
  <2>2. CASE ~Exists(s)
    <3>1. ships' = ships
      BY <1>23, <2>2 DEF Depart, WriteStatus
    <3>2. held + loaded = 0
      BY <1>8, <1>10, <2>1, <3>1 DEF Bit
    <3> QED BY <1>11, <1>16, <2>1, <3>2
  <2>3. CASE Exists(s)
    <3>1. SetStatus(s, "in_transit") /\ Loaded(s)'
      BY <1>12, <1>23, <2>3 DEF Depart, WriteStatus
    <3>2. CASE ships[s].status = "awaiting_origin_undocking_auth"
      <4>1. held + loaded = 0
        BY <1>8, <1>15, <2>1, <3>1, <3>2 DEF Bit
      <4> QED BY <1>11, <1>16, <2>1, <4>1
    <3>3. CASE ships[s].status # "awaiting_origin_undocking_auth"
      <4>1. WritesStale(t)
        BY <1>8, <2>1, <3>3 DEF WritesStale, Seen, At, Idle
      <4>2. held + loaded \in {0, 1, 2}
        BY <1>8, <2>1, <3>1 DEF Bit
      <4> QED BY <1>11, <1>17, <2>1, <4>1, <4>2
    <3> QED BY <3>2, <3>3
  <2> QED BY <2>2, <2>3
<1>24. CASE Complete(t)
  <2>1. stock' = stock /\ ~Holds(t, s) /\ At(t, "complete")
    BY <1>13, <1>24 DEF Complete, At
  <2>2. CASE ~Exists(s)
    <3>1. ships' = ships /\ Finish(t)
      BY <1>24, <2>2 DEF Complete, WriteStatus
    <3>2. held + loaded = 0
      BY <1>8, <1>10, <2>1, <3>1 DEF Bit
    <3> QED BY <1>11, <1>16, <2>1, <3>2
  <2>3. CASE Exists(s)
    <3>1. SetStatus(s, "complete") /\ Goto(t, "deliver")
      BY <1>24, <2>3 DEF Complete, WriteStatus
    <3>2. ~Loaded(s)' /\ Holds(t, s)' /\ handler'[t].pc = "deliver"
      BY <1>9, <1>12, <3>1
    <3>3. CASE ships[s].status = "awaiting_undocking_auth"
      <4>1. held + loaded = 0
        BY <1>15, <2>1, <3>2, <3>3 DEF Bit
      <4> QED BY <1>11, <1>16, <2>1, <4>1
    <3>4. CASE ships[s].status # "awaiting_undocking_auth"
      <4>1. WritesStale(t)
        BY <2>1, <3>2, <3>4 DEF WritesStale, Seen, At
      <4>2. held + loaded \in {0, 1, 2}
        BY <2>1, <3>2 DEF Bit
      <4> QED BY <1>11, <1>17, <2>1, <4>1, <4>2
    <3> QED BY <3>3, <3>4
  <2> QED BY <2>2, <2>3
<1>25. CASE Deliver(t)
  <2>1. /\ Finish(t) /\ ships' = ships /\ Holds(t, s)
        /\ stock' = [stock EXCEPT ![ships[s].to] = IF Connected(ships[s].to) THEN @ + c ELSE @]
    BY <1>13, <1>25 DEF Deliver, fleet, At, c
  <2>2. held + loaded = -1
    BY <1>8, <1>10, <2>1 DEF Bit
  <2>3. Afloat' = Afloat - c
    BY <1>2, <2>2
  <2>4. c \in Int
    BY <1>2
  <2>5. CASE Connected(ships[s].to)
    <3>1. inStock2 = inStock + c
      <4>1. stock' = [stock EXCEPT ![ships[s].to] = @ + c]
        BY <2>1, <2>5
      <4>2. ASSUME NEW st \in Stations, NEW change \in Int, stock' = [stock EXCEPT ![st] = @ + change]
            PROVE  inStock2 = inStock + change
        BY <1>1, <4>2, StockChange DEF inStock, inStock2
      <4> QED BY <1>14, <2>4, <4>1, <4>2
    <3>2. TotalGoods' = TotalGoods
      BY <1>2, <1>3, <1>4, <2>3, <3>1
    <3> QED BY <3>2
  <2>6. CASE ~Connected(ships[s].to)
    <3>1. stock' = stock
      BY <2>1, <2>6 DEF Typed, TypeOK
    <3>2. TotalGoods' <= TotalGoods
      BY <1>2, <1>3, <1>4, <1>11, <2>3, <3>1
    <3> QED BY <1>8, <1>25, <2>1, <2>6, <3>2 DEF Deliver
  <2> QED BY <2>5, <2>6
<1> QED BY <1>18, <1>19, <1>20, <1>21, <1>22, <1>23, <1>24, <1>25 DEF Step

\* Where no ship has more goods than before, there are no more goods afloat.
LEMMA AfloatFewer ==
  ASSUME Typed, Typed', stock' = stock, \A r \in ShipIds : Aboard(r)' <= Aboard(r)
  PROVE  TotalGoods' <= TotalGoods
<1> DEFINE before == [r \in ShipIds |-> Aboard(r)]
           after == [r \in ShipIds |-> Aboard(r)']
<1>1. \A r \in ShipIds : before[r] \in Nat /\ after[r] \in Nat /\ after[r] <= before[r]
  BY AboardNat, AboardNatNext
<1>2. Afloat = SumFunctionOnSet(before, ShipIds) /\ Afloat' = SumFunctionOnSet(after, ShipIds)
  BY DEF Afloat, Aboard
<1> HIDE DEF before, after
<1>3. SumFunctionOnSet(after, ShipIds) <= SumFunctionOnSet(before, ShipIds)
  <2>1. \A r \in ShipIds : before[r] \in Int /\ after[r] \in Int /\ after[r] <= before[r]
    BY <1>1
  <2> QED BY <2>1, SumMonotone, ShipsAssumption
<1>4. SumFunctionOnSet(after, ShipIds) \in Nat /\ SumFunctionOnSet(before, ShipIds) \in Nat
  BY <1>1, SumNatural, ShipsAssumption
<1>5. SumFunctionOnSet(stock, Stations) \in Nat
  BY GoodsNat
<1> QED BY <1>2, <1>3, <1>4, <1>5 DEF TotalGoods

\* Handlers that hold no more of a ship, and a ship that is not newly loaded.
LEMMA AboardFewer ==
  ASSUME Typed, Typed', [Next]_vars, NEW s \in ShipIds, Used(s),
         Holding(s)' \subseteq Holding(s), Loaded(s)' => Loaded(s)
  PROVE  Aboard(s)' <= Aboard(s)
<1>1. ships'[s] # NoShip /\ ships'[s].cargo = ships[s].cargo
  BY ShipsKept
<1> DEFINE c == ships[s].cargo
           n == Cardinality(Holding(s))
           m == Cardinality(Holding(s)')
           old == Bit(Loaded(s))
           new == Bit(Loaded(s)')
<1>2. c \in Nat /\ n \in Nat /\ m \in Nat /\ IsFiniteSet(Holding(s))
  BY <1>1, CargoIs, CargoIsNext
<1>3. Aboard(s) = c * (n + old) /\ Aboard(s)' = c * (m + new)
  BY <1>1, CargoIs, CargoIsNext DEF Aboard, Used
<1>4. m <= n
  BY <1>2, FS_Subset
<1>5. old \in Nat /\ new \in Nat /\ new <= old
  BY DEF Bit
<1> HIDE DEF c, n, m, old, new
<1> DEFINE more == n + old
           less == m + new
<1>6. less \in Nat /\ more \in Nat /\ less <= more
  BY <1>2, <1>4, <1>5
<1> HIDE DEF more, less
<1>7. c * less <= c * more
  BY <1>2, <1>6
<1> QED BY <1>3, <1>7 DEF more, less

\* The station that is being deleted is still there.
Standing == removing # NoStation => Connected(removing)

\* No station is being deleted at the start.
LEMMA StandingInit == Init => Standing
  BY DEF Init, Standing

\* Only one deletion runs at a time, and no other step takes a station away.
LEMMA StandingStep == Standing /\ [Next]_vars => Standing'
<1> SUFFICES ASSUME Standing, [Next]_vars PROVE Standing'
  OBVIOUS
<1>1. CASE UNCHANGED <<removing, gone>>
  BY <1>1 DEF Standing, Connected
<1>2. CASE Create \/ Request \/ UNCHANGED vars
  BY <1>1, <1>2 DEF Create, Request, PayFee, CreateTrucking, CreateTrade, Dock, Undock, server, vars
<1>3. CASE \E s \in ShipIds : Timer(s) \/ Poll(s)
  BY <1>1, <1>3 DEF Timer, ArriveAtOrigin, Arrive, Poll, server
<1>4. CASE \E t \in Threads : Step(t)
  BY <1>1, <1>4 DEF Step, DeductCargo, OriginBayCheck, StartLoading, DestBayCheck,
                    StartUnloading, Depart, StorageCheck, Complete, Deliver, server
<1>5. CASE Administer
  <2>1. CASE (\E p \in Deletable : DeleteShips(p)) \/ Disown
    BY <1>1, <2>1 DEF DeleteShips, Disown
  <2>2. CASE \E st \in Removable : CheckShips(st)
    BY <2>2 DEF CheckShips, Standing, Connected
  <2>3. CASE RemoveStation
    BY <2>3 DEF RemoveStation, Standing
  <2> QED BY <1>5, <2>1, <2>2, <2>3 DEF Administer
<1>6. CASE Disconnect
  BY <1>1, <1>6 DEF Disconnect, Drop, DropOrder
<1>7. CASE Restart
  BY <1>7 DEF Restart, Standing
<1> QED BY <1>2, <1>3, <1>4, <1>5, <1>6, <1>7 DEF Next

\* Deleted ships go with their cargo and a deleted station with its stock, and a
\* restart or a disconnected client ends what handlers hold.
LEMMA GoodsServer ==
  ASSUME Typed, Standing, [Next]_vars, Administer \/ Disconnect \/ Restart
  PROVE  /\ TotalGoods' <= TotalGoods
         /\ TotalGoods' < TotalGoods =>
              \/ deleting # deleting'
              \/ \E st \in Stations : Connected(st) /\ ~Connected(st)'
              \/ \E t \in Threads : CutOff(t)
<1>1. Typed'
  BY TypedStep
<1>2. /\ SumFunctionOnSet(stock, Stations) \in Nat /\ Afloat \in Nat
      /\ (SumFunctionOnSet(stock, Stations) \in Nat /\ Afloat \in Nat)'
  <2>1. (Typed => Afloat \in Nat /\ SumFunctionOnSet(stock, Stations) \in Nat)'
    BY GoodsNat, PTL
  <2> QED BY <1>1, <2>1, GoodsNat
<1>3. ASSUME NEW p \in Deletable, DeleteShips(p)
      PROVE  TotalGoods' <= TotalGoods /\ deleting # deleting'
  <2>1. stock' = stock /\ handler' = handler /\ deleting = NoPlayer /\ deleting' = p
    BY <1>3 DEF DeleteShips
  <2>2. deleting # deleting'
    BY <2>1, ShipsAssumption
  <2>3. ASSUME NEW s \in ShipIds PROVE Aboard(s)' <= Aboard(s)
    <3>1. CASE Used(s)
      <4>1. ships'[s].kind = ships[s].kind /\ ships'[s] # NoShip
        BY <3>1, ShipsKept
      <4>2. Holding(s)' = Holding(s)
        BY <2>1, <4>1 DEF Holding, At
      <4>3. ships'[s] = ships[s] \/ ships'[s] = [ships[s] EXCEPT !.status = "deleted"]
        BY <1>3 DEF DeleteShips
      <4>4. ships[s] \in Ship
        BY <3>1 DEF Typed, TypeOK, Used
      <4>5. ships'[s] = ships[s] \/ ships'[s].status = "deleted"
        BY <4>3, <4>4 DEF Ship
      <4>6. Loaded(s)' => Loaded(s)
        BY <4>1, <4>5 DEF Loaded, Exists, Used
      <4> QED BY <1>1, <3>1, <4>2, <4>6, AboardFewer
    <3>2. CASE ~Used(s)
      <4>1. ships'[s] = ships[s]
        BY <1>3, <3>2 DEF DeleteShips, Exists
      <4>2. Aboard(s)' = 0 /\ Aboard(s) = 0
        BY <3>2, <4>1 DEF Aboard, Used
      <4> QED BY <4>2
    <3> QED BY <3>1, <3>2
  <2> QED BY <1>1, <2>1, <2>2, <2>3, AfloatFewer
<1>4. CASE Disown
  <2>1. Afloat' = Afloat /\ stock' = stock
    BY <1>4 DEF Disown, fleet, Afloat, Used, Cargo, Holding, Loaded, Exists, At
  <2>2. TotalGoods' = TotalGoods /\ TotalGoods \in Int
    BY <1>2, <2>1 DEF TotalGoods
  <2> QED BY <2>2
<1>5. CASE Restart \/ \E t \in Threads : Drop(t)
  <2>1. /\ ships' = ships /\ stock' = stock
        /\ \A t \in Threads : handler'[t] = handler[t] \/ handler'[t] = Idle
    BY <1>5 DEF Restart, Drop, Finish, fleet, Typed, TypeOK
  <2>2. drops' > drops \/ restarts' > restarts
    BY <1>5 DEF Restart, Drop, Typed, TypeOK
  <2>3. ASSUME NEW s \in ShipIds
        PROVE  /\ Aboard(s)' <= Aboard(s)
               /\ (\E t \in Threads : CutOff(t)) \/ Aboard(s)' = Aboard(s)
    <3>1. Holding(s)' \subseteq Holding(s)
      BY <2>1, ShipsAssumption DEF Holding, Idle, At
    <3>2. Loaded(s)' = Loaded(s)
      BY <2>1 DEF Loaded, Exists, Used
    <3>3. CASE Used(s)
      <4>1. Aboard(s)' <= Aboard(s)
        BY <1>1, <3>1, <3>2, <3>3, AboardFewer
      <4>2. Holding(s)' = Holding(s) => Aboard(s)' = Aboard(s)
        BY <2>1, <3>2 DEF Aboard, Used, Cargo
      <4>3. ASSUME NEW t \in Holding(s), t \notin Holding(s)'
            PROVE  t \in Threads /\ CutOff(t)
        <5>1. t \in Threads
          BY DEF Holding
        <5>2. handler'[t] = Idle
          BY <2>1, <4>3, <5>1 DEF Holding, At
        <5> QED BY <2>2, <3>3, <5>1, <5>2 DEF CutOff, Idle, At
      <4> QED BY <3>1, <4>1, <4>2, <4>3
    <3>4. CASE ~Used(s)
      <4>1. Aboard(s)' = 0 /\ Aboard(s) = 0
        BY <2>1, <3>4 DEF Aboard, Used
      <4> QED BY <4>1
    <3> QED BY <3>3, <3>4
  <2>4. TotalGoods' <= TotalGoods
    BY <1>1, <2>1, <2>3, AfloatFewer
  <2>5. CASE \E t \in Threads : CutOff(t)
    BY <2>4, <2>5
  <2>6. CASE ~\E t \in Threads : CutOff(t)
    <3>1. \A s \in ShipIds : Aboard(s)' = Aboard(s)
      BY <2>3, <2>6
    <3>2. Afloat' = Afloat
      <4>1. Afloat = SumFunctionOnSet([s \in ShipIds |-> Aboard(s)], ShipIds)
            /\ Afloat' = SumFunctionOnSet([s \in ShipIds |-> Aboard(s)'], ShipIds)
        BY DEF Afloat, Aboard
      <4>2. [s \in ShipIds |-> Aboard(s)'] = [s \in ShipIds |-> Aboard(s)]
        BY <3>1
      <4> QED BY <4>1, <4>2
    <3>3. TotalGoods' = TotalGoods /\ TotalGoods \in Int
      BY <1>2, <2>1, <3>2 DEF TotalGoods
    <3> QED BY <3>3
  <2> QED BY <2>5, <2>6
<1>6. CASE (\E st \in Removable : CheckShips(st)) \/ \E o \in Orders : DropOrder(o)
  <2>1. Afloat' = Afloat /\ stock' = stock
    BY <1>6 DEF CheckShips, DropOrder, fleet, Afloat, Used, Cargo, Holding, Loaded, Exists, At
  <2>2. TotalGoods' = TotalGoods /\ TotalGoods \in Int
    BY <1>2, <2>1 DEF TotalGoods
  <2> QED BY <2>2
<1>7. CASE RemoveStation
  <2>1. Afloat' = Afloat
    BY <1>7 DEF RemoveStation, fleet, Afloat, Used, Cargo, Holding, Loaded, Exists, At
  <2>2. removing \in Stations /\ stock' = [stock EXCEPT ![removing] = 0] /\ removing \in gone'
    BY <1>7 DEF RemoveStation, Typed, TypeOK
  <2>3. SumFunctionOnSet(stock', Stations)
          = SumFunctionOnSet(stock, Stations) + (stock'[removing] - stock[removing])
    <3>1. /\ \A r \in Stations : stock[r] \in Int /\ stock'[r] \in Int
          /\ \A r \in Stations \ {removing} : stock'[r] = stock[r]
      BY <1>1, <2>2 DEF Typed, TypeOK
    <3> QED BY <2>2, <3>1, StockSum
  <2>4. stock[removing] \in Nat /\ stock'[removing] = 0
    BY <2>2 DEF Typed, TypeOK
  <2>5. TotalGoods' <= TotalGoods
    BY <1>2, <2>1, <2>3, <2>4 DEF TotalGoods
  <2>6. \E st \in Stations : Connected(st) /\ ~Connected(st)'
    <3>1. gone' = gone \cup {removing} /\ removing # NoStation
      BY <1>7 DEF RemoveStation
    <3> QED BY <2>2, <3>1 DEF Standing, Connected
  <2> QED BY <2>5, <2>6
<1> QED BY <1>3, <1>4, <1>5, <1>6, <1>7 DEF Administer, Disconnect

\* Every step, in one place.
LEMMA GoodsStep ==
  ASSUME Typed, TruckingDeducts, Standing, [Next]_vars
  PROVE  /\ TotalGoods' > TotalGoods =>
              \/ \E t \in Threads : WritesStale(t)
              \/ \E t \in Threads : At(t, "deduct") /\ ~Connected(ships[handler[t].ship].from)
         /\ TotalGoods' < TotalGoods =>
              \/ \E t \in Threads : /\ At(t, "origin_bay") /\ At(t, "idle")'
                                    /\ ships[handler[t].ship].kind = "trucking"
                                    /\ BaysTaken(ships[handler[t].ship].from)
              \/ \E t \in Threads : At(t, "load") /\ WritesStale(t)
              \/ \E t \in Threads : /\ At(t, "deliver") /\ At(t, "idle")'
                                    /\ ~Connected(ships[handler[t].ship].to)
              \/ deleting # deleting'
              \/ \E st \in Stations : Connected(st) /\ ~Connected(st)'
              \/ \E t \in Threads : CutOff(t)
<1>1. TotalGoods \in Nat /\ TotalGoods' \in Nat
  <2>1. (Typed => Afloat \in Nat /\ SumFunctionOnSet(stock, Stations) \in Nat)'
    BY GoodsNat, PTL
  <2> QED BY <2>1, TypedStep, GoodsNat DEF TotalGoods
<1>2. CASE TotalGoods' = TotalGoods
  BY <1>1, <1>2
<1>3. CASE \E t \in Threads : Step(t)
  <2>1. PICK t \in Threads : Step(t)
    BY <1>3
  <2>2. PICK s \in ShipIds : handler[t].ship = s
    BY <2>1, SectionAlone
  <2>3. \/ TotalGoods' = TotalGoods
        \/ WritesStale(t) /\ (At(t, "load") \/ TotalGoods' >= TotalGoods)
        \/ /\ TotalGoods' <= TotalGoods
           /\ At(t, "origin_bay") /\ At(t, "idle")'
           /\ ships[handler[t].ship].kind = "trucking"
           /\ BaysTaken(ships[handler[t].ship].from)
        \/ TotalGoods' >= TotalGoods /\ At(t, "deduct") /\ ~Connected(ships[handler[t].ship].from)
        \/ /\ TotalGoods' <= TotalGoods
           /\ At(t, "deliver") /\ At(t, "idle")' /\ ~Connected(ships[handler[t].ship].to)
    BY <2>1, <2>2, GoodsSections
  <2> QED BY <1>1, <2>3
<1>4. CASE UNCHANGED vars
  <2>1. Afloat' = Afloat /\ stock' = stock
    BY <1>4 DEF vars, fleet, Afloat, Used, Cargo, Holding, Loaded, Exists, At
  <2> QED BY <1>2, <2>1 DEF TotalGoods
<1>5. CASE Administer \/ Disconnect \/ Restart
  <2>1. ~(TotalGoods' > TotalGoods)
    BY <1>1, <1>5, GoodsServer
  <2> QED BY <1>5, <2>1, GoodsServer
<1> QED BY <1>2, <1>3, <1>4, <1>5, GoodsLaunched, GoodsQuiet DEF Next

\* Shipping makes no goods, unless two requests about one ship overlap and one of
\* them loads, sends or completes a ship that the other has moved on, or a trucking
\* ship is loaded at a station that has gone.
THEOREM GoodsMultiplyCorrect == Spec => GoodsMultiplyOnlyByStaleWrite
<1> DEFINE Kept == TotalGoods' > TotalGoods =>
       \/ \E t \in Threads : WritesStale(t)
       \/ \E t \in Threads : At(t, "deduct") /\ ~Connected(ships[handler[t].ship].from)
<1>1. Typed /\ TruckingDeducts /\ Standing /\ [Next]_vars => [Kept]_vars
  BY GoodsStep
<1> QED BY <1>1, TypedInit, TypedStep, TruckingInit, TruckingStep, StandingInit, StandingStep, PTL
        DEF Spec, GoodsMultiplyOnlyByStaleWrite

\* Shipping loses goods in six places and no other: a trucking ship that finds no
\* bay, two requests that load one ship, a delivery to a station that has gone since
\* its ship was marked complete, the ships of a deleted player, the stock of a
\* deleted station, and what a handler holds that is cut off by a restart or because
\* its client disconnects.
THEOREM GoodsLostCorrect == Spec => GoodsLostOnlyWithoutBay
<1> DEFINE Kept == TotalGoods' < TotalGoods =>
       \/ \E t \in Threads : /\ At(t, "origin_bay") /\ At(t, "idle")'
                             /\ ships[handler[t].ship].kind = "trucking"
                             /\ BaysTaken(ships[handler[t].ship].from)
       \/ \E t \in Threads : At(t, "load") /\ WritesStale(t)
       \/ \E t \in Threads : /\ At(t, "deliver") /\ At(t, "idle")'
                             /\ ~Connected(ships[handler[t].ship].to)
       \/ deleting # deleting'
       \/ \E st \in Stations : Connected(st) /\ ~Connected(st)'
       \/ \E t \in Threads : CutOff(t)
<1>1. Typed /\ TruckingDeducts /\ Standing /\ [Next]_vars => [Kept]_vars
  BY GoodsStep
<1> QED BY <1>1, TypedInit, TypedStep, TruckingInit, TruckingStep, StandingInit, StandingStep, PTL
        DEF Spec, GoodsLostOnlyWithoutBay
=============================================================================
