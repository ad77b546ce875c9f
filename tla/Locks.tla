--------------------------------- MODULE Locks ---------------------------------
(***************************************************************************)
(* The locks of AppState and the order in which requests and background    *)
(* tasks take them.  Each part of the state has a tokio RwLock of its own. *)
(* Most code holds one lock at a time; the operations below hold several,  *)
(* and wait for one while holding another.                                 *)
(*                                                                         *)
(* A tokio RwLock is fair: lock requests queue in the order they are made, *)
(* and a reader waits behind a writer that waits, even while other readers *)
(* hold the lock.                                                          *)
(***************************************************************************)
EXTENDS Integers, Sequences, FiniteSets
LOCAL INSTANCE SequencesExt

CONSTANTS
  Tasks,     \* concurrent requests and background tasks
  Running    \* [Tasks -> Operations]: what each task does, again and again

Locks == {"galaxy", "players", "ships", "projects", "trade_requests", "market"}
Modes == {"read", "write"}

VARIABLES
  step,    \* the step of its operation each task is at; 0 between operations
  held,    \* the guards of each task: [Tasks -> SUBSET (Locks \X Modes)]
  queue    \* the waiters of each lock: [Locks -> Seq(Tasks)]

vars == <<step, held, queue>>

-----------------------------------------------------------------------------
(* The operations, as the locks they take and the guards they drop; at the *)
(* end every guard left is dropped.                                        *)

Read(l)  == <<l, "read">>
Write(l) == <<l, "write">>
Drop(l)  == <<l, "drop">>

\* save_snapshot and load_snapshot: every lock, in a fixed order.
SaveSnapshot == <<Read("galaxy"), Read("players"), Read("ships"), Read("projects"),
                  Read("trade_requests"), Read("market")>>
LoadSnapshot == <<Write("galaxy"), Write("players"), Write("ships"), Write("projects"),
                  Write("trade_requests"), Write("market")>>

\* Mutant: players first.
TradeTickSwapped == <<Write("players"), Write("galaxy")>>

\* A tick of a trade request applies to galaxy and players together.
TradeTick == <<Write("galaxy"), Write("players")>>

\* dock_ship counts the docked ships of a station.
DockShip == <<Read("galaxy"), Read("ships")>>

\* undock_ship and place_order look up the owner of a station, and the callback.
FindCallback == <<Read("galaxy"), Read("players")>>

\* The economy loop, like most handlers, takes one lock at a time; it takes the
\* galaxy twice, to copy it and to write it back.
EconomyTick == <<Write("galaxy"), Drop("galaxy"), Write("galaxy")>>

\* get_ship, for a caller who does not own the ship: the ship stays locked while
\* the stations are looked at.
GetShip == <<Write("ships"), Read("galaxy")>>

\* admin_delete_player cancels the player's orders, and refunds credits and
\* goods before it lets go of the market.
DeletePlayer == <<Write("market"), Write("players"), Drop("players"),
                  Write("galaxy"), Drop("galaxy")>>

Program(operation) ==
  CASE operation = "save_snapshot" -> SaveSnapshot
    [] operation = "load_snapshot" -> LoadSnapshot
    [] operation = "trade_tick"    -> TradeTick
    [] operation = "dock_ship"     -> DockShip
    [] operation = "find_callback" -> FindCallback
    [] operation = "economy_tick"  -> EconomyTick
    [] operation = "get_ship"      -> GetShip
    [] operation = "delete_player" -> DeletePlayer

Operations == {"save_snapshot", "load_snapshot", "trade_tick", "dock_ship", "find_callback",
               "economy_tick", "get_ship", "delete_player"}

ASSUME LocksAssumption == IsFiniteSet(Tasks) /\ Running \in [Tasks -> Operations]

Init ==
  /\ step = [t \in Tasks |-> 0]
  /\ held = [t \in Tasks |-> {}]
  /\ queue = [l \in Locks |-> <<>>]

Length(t) == Len(Program(Running[t]))
Current(t) == Program(Running[t])[step[t]]
Busy(t) == step[t] \in 1..Length(t)

-----------------------------------------------------------------------------
(* tokio *)

\* The task calls read() or write(), and joins the queue of the lock.
Ask(t) ==
  /\ Busy(t) /\ Current(t)[2] \in Modes
  /\ LET l == Current(t)[1]
     IN  /\ ~Contains(queue[l], t)
         /\ queue' = [queue EXCEPT ![l] = Append(@, t)]
  /\ UNCHANGED <<step, held>>

\* Mutant: a writer does not wait for the readers.
CompatibleReaders(t, l) == \A u \in Tasks \ {t} : Write(l) \notin held[u]

Compatible(t, l) ==
  \A u \in Tasks \ {t} :
    /\ Write(l) \notin held[u]
    /\ Current(t) = Write(l) => Read(l) \notin held[u]

\* Mutant: the lock goes to any waiter that is compatible.
GrantAnyone(t, l) ==
  /\ Contains(queue[l], t)
  /\ Compatible(t, l)
  /\ queue' = [queue EXCEPT ![l] = RemoveFirst(@, t)]
  /\ held' = [held EXCEPT ![t] = @ \cup {Current(t)}]
  /\ step' = [step EXCEPT ![t] = @ + 1]

\* The lock is given to the head of its queue.
Grant(t, l) ==
  /\ queue[l] # <<>> /\ Head(queue[l]) = t
  /\ Compatible(t, l)
  /\ queue' = [queue EXCEPT ![l] = Tail(@)]
  /\ held' = [held EXCEPT ![t] = @ \cup {Current(t)}]
  /\ step' = [step EXCEPT ![t] = @ + 1]

\* A guard goes out of scope.
DropGuard(t) ==
  /\ Busy(t) /\ Current(t)[2] = "drop"
  /\ held' = [held EXCEPT ![t] = {guard \in @ : guard[1] # Current(t)[1]}]
  /\ step' = [step EXCEPT ![t] = @ + 1]
  /\ UNCHANGED queue

-----------------------------------------------------------------------------
Begin(t) ==
  /\ step[t] = 0
  /\ step' = [step EXCEPT ![t] = 1]
  /\ UNCHANGED <<held, queue>>

Finish(t) ==
  /\ step[t] = Length(t) + 1
  /\ step' = [step EXCEPT ![t] = 0]
  /\ held' = [held EXCEPT ![t] = {}]
  /\ UNCHANGED queue

Advance(t) == Ask(t) \/ DropGuard(t) \/ Finish(t)

Next == \E t \in Tasks : Begin(t) \/ Advance(t) \/ \E l \in Locks : Grant(t, l)

\* The runtime polls every task that can go on, and a lock is handed on when it
\* can be; nothing makes a task begin.
Fairness == /\ \A t \in Tasks : WF_vars(Advance(t))
            /\ \A l \in Locks : WF_vars(\E t \in Tasks : Grant(t, l))

Spec == Init /\ [][Next]_vars /\ Fairness

-----------------------------------------------------------------------------
(* Properties *)

\* Every variable has its shape, a task waits for one lock at a time and only
\* for the one it has asked for, and a lock that is written has one holder.
TypeOK ==
  /\ step \in [Tasks -> Nat] /\ \A t \in Tasks : step[t] <= Length(t) + 1
  /\ held \in [Tasks -> SUBSET (Locks \X Modes)]
  /\ queue \in [Locks -> Seq(Tasks)]
  /\ \A l \in Locks, t \in Tasks :
       Contains(queue[l], t) => Busy(t) /\ Current(t) \in {Read(l), Write(l)}
  /\ \A l \in Locks, t, u \in Tasks :
       Write(l) \in held[t] /\ t # u => {Read(l), Write(l)} \cap held[u] = {}

\* u is one of those t waits for: it holds the lock, in a mode that excludes
\* t's, or it is before t in the queue.
WaitsFor(t, u) ==
  \E l \in Locks :
    /\ Contains(queue[l], t)
    /\ \/ Write(l) \in held[u]
       \/ Current(t) = Write(l) /\ Read(l) \in held[u]
       \/ \E i, j \in 1..Len(queue[l]) : i < j /\ queue[l][i] = u /\ queue[l][j] = t

\* No tasks wait for each other in a circle, queues included: a saved, loaded,
\* docked or traded galaxy never stops the server.
NoWaitCycle ==
  \A S \in (SUBSET Tasks) \ {{}} : \E t \in S : \A u \in S : ~WaitsFor(t, u)

\* What holds of the locks at any time: who holds one excludes the others, who
\* waits is in its queue, and no circle of waiting closes.
LocksInv == TypeOK /\ NoWaitCycle

\* Every operation that has begun ends, even when others begin again and again.
OperationsEnd == \A t \in Tasks : step[t] # 0 ~> step[t] = 0
=============================================================================
