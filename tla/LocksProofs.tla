----------------------------- MODULE LocksProofs -----------------------------
(***************************************************************************)
(* What TLAPS proves about module Locks, for any number of tasks and any   *)
(* operations they run again and again: if the locks can be ranked so that *)
(* every operation asks for a lock that ranks above all it holds, then no  *)
(* tasks ever wait for each other in a circle, the queues of the locks     *)
(* included.  The locks of the server have such an order; two operations   *)
(* break it, and they have an order of their own with some of the others.  *)
(***************************************************************************)
EXTENDS Locks, Sums
LOCAL INSTANCE SequencesExt

\* Does an operation ask for a lock at step n?
Asks(operation, n) == Program(operation)[n][2] \in Modes

\* The guards an operation may hold at step n: of locks it asked for before and
\* has not dropped since.
KeptAt(operation, n) ==
  {Program(operation)[k] : k \in
     {j \in 1..(n - 1) :
        /\ Asks(operation, j)
        /\ \A d \in (j + 1)..(n - 1) : Program(operation)[d] # Drop(Program(operation)[j][1])}}

\* The operation asks for locks in the order of their ranks.
Ascending(operation, rank) ==
  \A n \in 1..Len(Program(operation)) :
    Asks(operation, n) =>
      \A guard \in KeptAt(operation, n) : rank[guard[1]] < rank[Program(operation)[n][1]]

-----------------------------------------------------------------------------
(* The operations *)

\* A program is a sequence of locks to take and guards to drop.
LEMMA ProgramType ==
  \A operation \in Operations :
    /\ Len(Program(operation)) \in Nat
    /\ \A n \in 1..Len(Program(operation)) :
         Program(operation)[n] \in Locks \X {"read", "write", "drop"}
<1> USE DEF Locks, Read, Write, Drop
<1>1. \A program \in {SaveSnapshot, LoadSnapshot, TradeTick, DockShip, FindCallback,
                      EconomyTick, GetShip, DeletePlayer} :
        /\ Len(program) \in Nat
        /\ \A n \in 1..Len(program) : program[n] \in Locks \X {"read", "write", "drop"}
  <2>1. \A n \in 1..Len(SaveSnapshot) : SaveSnapshot[n] \in Locks \X {"read", "write", "drop"}
    BY DEF SaveSnapshot
  <2>2. \A n \in 1..Len(LoadSnapshot) : LoadSnapshot[n] \in Locks \X {"read", "write", "drop"}
    BY DEF LoadSnapshot
  <2>3. \A n \in 1..Len(TradeTick) : TradeTick[n] \in Locks \X {"read", "write", "drop"}
    BY DEF TradeTick
  <2>4. \A n \in 1..Len(DockShip) : DockShip[n] \in Locks \X {"read", "write", "drop"}
    BY DEF DockShip
  <2>5. \A n \in 1..Len(FindCallback) : FindCallback[n] \in Locks \X {"read", "write", "drop"}
    BY DEF FindCallback
  <2>6. \A n \in 1..Len(EconomyTick) : EconomyTick[n] \in Locks \X {"read", "write", "drop"}
    BY DEF EconomyTick
  <2>7. \A n \in 1..Len(GetShip) : GetShip[n] \in Locks \X {"read", "write", "drop"}
    BY DEF GetShip
  <2>8. \A n \in 1..Len(DeletePlayer) : DeletePlayer[n] \in Locks \X {"read", "write", "drop"}
    BY DEF DeletePlayer
  <2>9. \A program \in {SaveSnapshot, LoadSnapshot, TradeTick, DockShip, FindCallback,
                        EconomyTick, GetShip, DeletePlayer} : Len(program) \in Nat
    BY DEF SaveSnapshot, LoadSnapshot, TradeTick, DockShip, FindCallback, EconomyTick,
           GetShip, DeletePlayer
  <2> QED BY <2>1, <2>2, <2>3, <2>4, <2>5, <2>6, <2>7, <2>8, <2>9
<1> QED BY <1>1 DEF Program, Operations

\* Where only guards of locks that rank below are held at each step that asks.
LEMMA SnapshotsAscend ==
  ASSUME NEW rank \in [Locks -> Nat],
         rank["galaxy"] < rank["players"], rank["players"] < rank["ships"],
         rank["ships"] < rank["projects"], rank["projects"] < rank["trade_requests"],
         rank["trade_requests"] < rank["market"]
  PROVE  /\ Ascending("save_snapshot", rank)
         /\ Ascending("load_snapshot", rank)
<1> USE DEF Locks, Read, Write, Drop, Modes, Asks
<1>1. Program("save_snapshot") = SaveSnapshot /\ Program("load_snapshot") = LoadSnapshot
  BY DEF Program
<1>2. ASSUME NEW k \in 1..6, NEW n \in 1..6, k < n
      PROVE  rank[SaveSnapshot[k][1]] < rank[SaveSnapshot[n][1]]
  BY <1>2 DEF SaveSnapshot
<1>3. ASSUME NEW k \in 1..6, NEW n \in 1..6, k < n
      PROVE  rank[LoadSnapshot[k][1]] < rank[LoadSnapshot[n][1]]
  BY <1>3 DEF LoadSnapshot
<1>4. Len(SaveSnapshot) = 6 /\ Len(LoadSnapshot) = 6
  BY DEF SaveSnapshot, LoadSnapshot
<1>5. Ascending("save_snapshot", rank)
  <2> SUFFICES ASSUME NEW n \in 1..6, NEW guard \in KeptAt("save_snapshot", n)
               PROVE  rank[guard[1]] < rank[SaveSnapshot[n][1]]
    BY <1>1, <1>4 DEF Ascending
  <2>1. PICK k \in 1..(n - 1) : guard = SaveSnapshot[k]
    BY <1>1 DEF KeptAt
  <2>2. k \in 1..6 /\ k < n
    OBVIOUS
  <2> QED BY <2>1, <2>2, <1>2
<1>6. Ascending("load_snapshot", rank)
  <2> SUFFICES ASSUME NEW n \in 1..6, NEW guard \in KeptAt("load_snapshot", n)
               PROVE  rank[guard[1]] < rank[LoadSnapshot[n][1]]
    BY <1>1, <1>4 DEF Ascending
  <2>1. PICK k \in 1..(n - 1) : guard = LoadSnapshot[k]
    BY <1>1 DEF KeptAt
  <2>2. k \in 1..6 /\ k < n
    OBVIOUS
  <2> QED BY <2>1, <2>2, <1>3
<1> QED BY <1>5, <1>6

\* What the operations with two locks ask of a ranking.
LEMMA PairsAscend ==
  ASSUME NEW rank \in [Locks -> Nat]
  PROVE  /\ rank["galaxy"] < rank["players"] => Ascending("trade_tick", rank)
         /\ rank["galaxy"] < rank["players"] => Ascending("find_callback", rank)
         /\ rank["galaxy"] < rank["ships"] => Ascending("dock_ship", rank)
         /\ rank["ships"] < rank["galaxy"] => Ascending("get_ship", rank)
<1> USE DEF Locks, Read, Write, Drop, Modes, Asks
<1>1. rank["galaxy"] < rank["players"] => Ascending("trade_tick", rank)
  BY DEF Ascending, KeptAt, Program, TradeTick
<1>2. rank["galaxy"] < rank["players"] => Ascending("find_callback", rank)
  BY DEF Ascending, KeptAt, Program, FindCallback
<1>3. rank["galaxy"] < rank["ships"] => Ascending("dock_ship", rank)
  BY DEF Ascending, KeptAt, Program, DockShip
<1>4. rank["ships"] < rank["galaxy"] => Ascending("get_ship", rank)
  BY DEF Ascending, KeptAt, Program, GetShip
<1> QED BY <1>1, <1>2, <1>3, <1>4

\* Operations that drop a guard before they ask again.
LEMMA DroppersAscend ==
  ASSUME NEW rank \in [Locks -> Nat]
  PROVE  /\ Ascending("economy_tick", rank)
         /\ rank["market"] < rank["players"] /\ rank["market"] < rank["galaxy"]
              => Ascending("delete_player", rank)
<1> USE DEF Locks, Read, Write, Drop, Modes, Asks
<1>1. Ascending("economy_tick", rank)
  <2>1. Program("economy_tick") = EconomyTick /\ Len(EconomyTick) = 3
    BY DEF Program, EconomyTick
  <2>2. KeptAt("economy_tick", 1) = {}
    BY DEF KeptAt
  <2>3. KeptAt("economy_tick", 3) = {}
    BY <2>1 DEF KeptAt, EconomyTick
  <2>4. ~Asks("economy_tick", 2)
    BY <2>1 DEF EconomyTick
  <2> QED BY <2>1, <2>2, <2>3, <2>4 DEF Ascending
<1>2. ASSUME rank["market"] < rank["players"], rank["market"] < rank["galaxy"]
      PROVE  Ascending("delete_player", rank)
  <2>1. Program("delete_player") = DeletePlayer /\ Len(DeletePlayer) = 5
    BY DEF Program, DeletePlayer
  <2>2. KeptAt("delete_player", 1) = {}
    BY DEF KeptAt
  <2>3. KeptAt("delete_player", 2) \subseteq {Write("market")}
    BY <2>1 DEF KeptAt, DeletePlayer
  <2>4. KeptAt("delete_player", 4) \subseteq {Write("market")}
    BY <2>1 DEF KeptAt, DeletePlayer
  <2>5. ~Asks("delete_player", 3) /\ ~Asks("delete_player", 5)
    BY <2>1 DEF DeletePlayer
  <2>6. DeletePlayer[2][1] = "players" /\ DeletePlayer[4][1] = "galaxy"
    BY DEF DeletePlayer
  <2> QED BY <1>2, <2>1, <2>2, <2>3, <2>4, <2>5, <2>6, SMTT(30) DEF Ascending
<1> QED BY <1>1, <1>2

-----------------------------------------------------------------------------
(* Types, and what a task holds *)

\* A task that has begun holds no guards but those its operation keeps at the
\* step it is at, and no task is twice in a queue.
Holdings ==
  /\ \A t \in Tasks : step[t] = 0 => held[t] = {}
  /\ \A t \in Tasks : step[t] # 0 => held[t] \subseteq KeptAt(Running[t], step[t])
  /\ \A l \in Locks : \A i, j \in 1..Len(queue[l]) : queue[l][i] = queue[l][j] => i = j

Typed == TypeOK /\ Holdings

\* At the start nobody holds or waits for anything.
LEMMA TypedInit == Init => Typed
<1> SUFFICES ASSUME Init PROVE Typed
  OBVIOUS
<1>1. \A l \in Locks : queue[l] = <<>> /\ Len(queue[l]) = 0
  BY DEF Init
<1>2. \A t \in Tasks : Length(t) \in Nat
  BY ProgramType, LocksAssumption DEF Length
<1>3. \A l \in Locks, t \in Tasks : ~Contains(queue[l], t)
  BY <1>1 DEF Contains
<1>4. TypeOK
  BY <1>1, <1>2, <1>3 DEF Init, TypeOK
<1>5. Holdings
  BY <1>1 DEF Init, Holdings
<1> QED BY <1>4, <1>5 DEF Typed

\* What a task waits for: the lock in its program.
LEMMA Programmed ==
  ASSUME NEW t \in Tasks, Typed
  PROVE  /\ Length(t) \in Nat /\ step[t] \in Nat
         /\ Busy(t) => Current(t) \in Locks \X {"read", "write", "drop"}
  BY ProgramType, LocksAssumption DEF Typed, TypeOK, Busy, Length, Current

\* The next step keeps what is held, and what was just taken.
LEMMA KeptNext ==
  ASSUME NEW operation \in Operations, NEW n \in 1..Len(Program(operation)), Asks(operation, n)
  PROVE  KeptAt(operation, n) \cup {Program(operation)[n]} \subseteq KeptAt(operation, n + 1)
<1>1. n \in Nat
  BY ProgramType
<1>2. Program(operation)[n] \in KeptAt(operation, n + 1)
  BY <1>1 DEF KeptAt
<1>3. ASSUME NEW guard \in KeptAt(operation, n)
      PROVE  guard \in KeptAt(operation, n + 1)
  <2>1. PICK k \in 1..(n - 1) :
          /\ guard = Program(operation)[k] /\ Asks(operation, k)
          /\ \A d \in (k + 1)..(n - 1) : Program(operation)[d] # Drop(Program(operation)[k][1])
    BY DEF KeptAt
  <2>2. Program(operation)[n] # Drop(Program(operation)[k][1])
    BY DEF Asks, Drop, Modes
  <2>3. \A d \in (k + 1)..n : d = n \/ d \in (k + 1)..(n - 1)
    BY <1>1
  <2>4. n + 1 - 1 = n /\ k \in 1..n
    BY <1>1
  <2> QED BY <2>1, <2>2, <2>3, <2>4 DEF KeptAt
<1> QED BY <1>2, <1>3

\* The next step keeps what is held and not dropped.
LEMMA KeptDrop ==
  ASSUME NEW operation \in Operations, NEW n \in 1..Len(Program(operation)),
         NEW l, Program(operation)[n] = Drop(l)
  PROVE  {guard \in KeptAt(operation, n) : guard[1] # l} \subseteq KeptAt(operation, n + 1)
<1>1. n \in Nat
  BY ProgramType
<1> SUFFICES ASSUME NEW guard \in KeptAt(operation, n), guard[1] # l
             PROVE  guard \in KeptAt(operation, n + 1)
  OBVIOUS
<1>2. PICK k \in 1..(n - 1) :
        /\ guard = Program(operation)[k] /\ Asks(operation, k)
        /\ \A d \in (k + 1)..(n - 1) : Program(operation)[d] # Drop(Program(operation)[k][1])
  BY DEF KeptAt
<1>3. Program(operation)[n] # Drop(Program(operation)[k][1])
  BY <1>2 DEF Drop
<1>4. \A d \in (k + 1)..n : d = n \/ d \in (k + 1)..(n - 1)
  BY <1>1
<1>5. n + 1 - 1 = n /\ k \in 1..n
  BY <1>1
<1> QED BY <1>2, <1>3, <1>4, <1>5 DEF KeptAt

\* Steps that leave the queues alone move one task, which waits for nothing, and
\* add to no task's guards.
LEMMA TypedMove ==
  ASSUME Typed, NEW t \in Tasks, NEW n \in Nat, n <= Length(t) + 1,
         \A l \in Locks : ~Contains(queue[l], t),
         NEW guards \in SUBSET held[t],
         n = 0 => guards = {},
         n # 0 => guards \subseteq KeptAt(Running[t], n),
         step' = [step EXCEPT ![t] = n],
         held' = [held EXCEPT ![t] = guards],
         queue' = queue
  PROVE  Typed'
<1> USE DEF Typed
<1>1. \A u \in Tasks : held'[u] \subseteq held[u]
  BY DEF TypeOK
<1>2. \A u \in Tasks \ {t} : step'[u] = step[u] /\ held'[u] = held[u]
  BY DEF TypeOK
<1>3. step'[t] = n /\ held'[t] = guards
  BY DEF TypeOK
<1>4. \A u \in Tasks \ {t} : (Busy(u)' <=> Busy(u)) /\ Current(u)' = Current(u)
  BY <1>2 DEF Busy, Current, Length
<1>5. TypeOK'
  <2>1. step' \in [Tasks -> Nat] /\ \A u \in Tasks : step'[u] <= Length(u) + 1
    BY <1>2, <1>3 DEF TypeOK
  <2>2. held' \in [Tasks -> SUBSET (Locks \X Modes)] /\ queue' \in [Locks -> Seq(Tasks)]
    BY DEF TypeOK
  <2>3. \A l \in Locks, u \in Tasks :
          Contains(queue'[l], u) => Busy(u)' /\ Current(u)' \in {Read(l), Write(l)}
    BY <1>4 DEF TypeOK
  <2>4. \A l \in Locks, u, v \in Tasks :
          Write(l) \in held'[u] /\ u # v => {Read(l), Write(l)} \cap held'[v] = {}
    BY <1>1 DEF TypeOK
  <2> QED BY <2>1, <2>2, <2>3, <2>4 DEF TypeOK, Length
<1>6. Holdings'
  BY <1>2, <1>3 DEF Holdings
<1> QED BY <1>5, <1>6

\* A task that asks joins the end of a queue it was not in.
LEMMA TypedAsk == ASSUME Typed, NEW t \in Tasks, Ask(t) PROVE Typed'
<1> USE DEF Typed
<1> DEFINE l == Current(t)[1]
<1>1. Busy(t) /\ l \in Locks /\ Current(t) \in {Read(l), Write(l)}
  BY Programmed DEF Ask, Modes, Read, Write
<1>2. /\ ~Contains(queue[l], t) /\ step' = step /\ held' = held
      /\ queue' = [queue EXCEPT ![l] = Append(@, t)]
  BY DEF Ask
<1>3. \A k \in Locks \ {l} : queue'[k] = queue[k]
  BY <1>2 DEF TypeOK
<1>4. queue[l] \in Seq(Tasks) /\ queue'[l] = Append(queue[l], t)
  BY <1>1, <1>2 DEF TypeOK
<1>5. /\ Len(queue'[l]) = Len(queue[l]) + 1 /\ queue'[l][Len(queue[l]) + 1] = t
      /\ Len(queue[l]) \in Nat
      /\ \A i \in 1..Len(queue[l]) : queue'[l][i] = queue[l][i]
  BY <1>4
<1>6. \A i \in 1..Len(queue[l]) : queue[l][i] # t
  BY <1>2 DEF Contains
<1>7. \A u \in Tasks : (Busy(u)' <=> Busy(u)) /\ Current(u)' = Current(u)
  BY <1>2 DEF Busy, Current, Length
<1>8. TypeOK'
  <2>1. queue' \in [Locks -> Seq(Tasks)]
    BY <1>2, <1>4 DEF TypeOK
  <2>2. \A u \in Tasks : Contains(queue'[l], u) => u = t \/ Contains(queue[l], u)
    BY <1>5 DEF Contains
  <2>3. \A k \in Locks, u \in Tasks :
          Contains(queue'[k], u) => Busy(u)' /\ Current(u)' \in {Read(k), Write(k)}
    BY <1>1, <1>3, <1>7, <2>2 DEF TypeOK
  <2> QED BY <1>2, <2>1, <2>3 DEF TypeOK, Length
<1>9. Holdings'
  <2>1. \A i, j \in 1..Len(queue'[l]) : queue'[l][i] = queue'[l][j] => i = j
    <3> SUFFICES ASSUME NEW i \in 1..Len(queue'[l]), NEW j \in 1..Len(queue'[l]),
                        queue'[l][i] = queue'[l][j]
                 PROVE  i = j
      OBVIOUS
    <3>1. /\ i = Len(queue[l]) + 1 \/ i \in 1..Len(queue[l])
          /\ j = Len(queue[l]) + 1 \/ j \in 1..Len(queue[l])
      BY <1>5
    <3>2. \A m, n \in 1..Len(queue[l]) : queue[l][m] = queue[l][n] => m = n
      BY <1>1 DEF Holdings
    <3> HIDE DEF l
    <3> QED BY <1>5, <1>6, <3>1, <3>2
  <2> QED BY <1>2, <1>3, <2>1 DEF Holdings
<1> HIDE DEF Typed
<1> QED BY <1>8, <1>9 DEF Typed

\* The head of a queue gets the lock, if no other task holds it in a mode that
\* excludes its own.
LEMMA TypedGrant ==
  ASSUME Typed, NEW t \in Tasks, NEW l \in Locks, Grant(t, l)
  PROVE  Typed'
<1> USE DEF Typed
<1>1. /\ queue[l] # <<>> /\ Head(queue[l]) = t /\ Compatible(t, l)
      /\ queue' = [queue EXCEPT ![l] = Tail(@)]
      /\ held' = [held EXCEPT ![t] = @ \cup {Current(t)}]
      /\ step' = [step EXCEPT ![t] = @ + 1]
  BY DEF Grant
<1>2. queue[l] \in Seq(Tasks) /\ Len(queue[l]) \in Nat /\ Len(queue[l]) > 0 /\ queue[l][1] = t
  BY <1>1 DEF TypeOK
<1>3. Busy(t) /\ Current(t) \in {Read(l), Write(l)}
  BY <1>2 DEF TypeOK, Contains
<1>4. /\ queue'[l] = Tail(queue[l]) /\ Len(queue'[l]) = Len(queue[l]) - 1
      /\ \A i \in 1..Len(queue'[l]) : queue'[l][i] = queue[l][i + 1]
      /\ \A k \in Locks \ {l} : queue'[k] = queue[k]
  BY <1>1, <1>2 DEF TypeOK
<1>5. \A u \in Tasks : Contains(queue'[l], u) => u # t /\ Contains(queue[l], u)
  <2> SUFFICES ASSUME NEW u \in Tasks, NEW i \in 1..Len(queue'[l]), queue'[l][i] = u
               PROVE  u # t /\ Contains(queue[l], u)
    BY DEF Contains
  <2>1. i + 1 \in 1..Len(queue[l]) /\ i + 1 # 1 /\ 1 \in 1..Len(queue[l]) /\ queue[l][i + 1] = u
    BY <1>2, <1>4
  <2> QED BY <1>2, <2>1 DEF Holdings, Contains
<1>6. \A k \in Locks \ {l} : ~Contains(queue[k], t)
  BY <1>3 DEF TypeOK, Read, Write
<1>7. \A u \in Tasks \ {t} : /\ step'[u] = step[u] /\ held'[u] = held[u]
                             /\ (Busy(u)' <=> Busy(u)) /\ Current(u)' = Current(u)
  BY <1>1 DEF TypeOK, Busy, Current, Length
<1>8. step'[t] = step[t] + 1 /\ held'[t] = held[t] \cup {Current(t)} /\ step[t] \in 1..Length(t)
  BY <1>1, <1>3 DEF TypeOK, Busy
<1>9. TypeOK'
  <2>1. queue' \in [Locks -> Seq(Tasks)]
    BY <1>1, <1>2 DEF TypeOK
  <2>2. \A k \in Locks, u \in Tasks :
          Contains(queue'[k], u) => Busy(u)' /\ Current(u)' \in {Read(k), Write(k)}
    BY <1>4, <1>5, <1>6, <1>7 DEF TypeOK
  <2>3. step' \in [Tasks -> Nat] /\ \A u \in Tasks : step'[u] <= Length(u) + 1
    <3>1. step[t] \in Nat /\ Length(t) \in Nat /\ step'[t] \in Nat /\ step'[t] <= Length(t) + 1
      BY <1>8, Programmed
    <3> QED BY <1>1, <1>7, <3>1 DEF TypeOK
  <2>4. held' \in [Tasks -> SUBSET (Locks \X Modes)]
    BY <1>1, <1>3 DEF TypeOK, Read, Write, Modes
  <2>5. \A k \in Locks, u, v \in Tasks :
          Write(k) \in held'[u] /\ u # v => {Read(k), Write(k)} \cap held'[v] = {}
    <3> SUFFICES ASSUME NEW k \in Locks, NEW u \in Tasks, NEW v \in Tasks,
                        Write(k) \in held'[u], u # v
                 PROVE  {Read(k), Write(k)} \cap held'[v] = {}
      OBVIOUS
    <3>1. CASE u # t /\ v # t
      BY <1>7, <3>1 DEF TypeOK
    <3>2. CASE u = t
      <4>1. held'[v] = held[v]
        BY <1>7, <3>2
      <4>2. CASE Write(k) \in held[t]
        BY <3>2, <4>1, <4>2 DEF TypeOK
      <4>3. CASE Write(k) = Current(t)
        <5>1. k = l /\ Current(t) = Write(l)
          BY <1>3, <4>3 DEF Read, Write
        <5> QED BY <1>1, <3>2, <4>1, <5>1 DEF Compatible
      <4> QED BY <1>8, <3>2, <4>2, <4>3
    <3>3. CASE v = t
      <4>1. Write(k) \in held[u]
        BY <1>7, <3>3
      <4>2. {Read(k), Write(k)} \cap held[t] = {}
        BY <3>3, <4>1 DEF TypeOK
      <4>3. Current(t) \notin {Read(k), Write(k)}
        <5>1. k # l
          BY <1>1, <3>3, <4>1 DEF Compatible
        <5> QED BY <1>3, <5>1 DEF Read, Write
      <4> QED BY <1>8, <3>3, <4>2, <4>3
    <3> QED BY <3>1, <3>2, <3>3
  <2> QED BY <2>1, <2>2, <2>3, <2>4, <2>5 DEF TypeOK, Length
<1>10. Holdings'
  <2>1. \A i, j \in 1..Len(queue'[l]) : queue'[l][i] = queue'[l][j] => i = j
    <3> SUFFICES ASSUME NEW i \in 1..Len(queue'[l]), NEW j \in 1..Len(queue'[l]),
                        queue'[l][i] = queue'[l][j]
                 PROVE  i = j
      OBVIOUS
    <3>1. /\ i + 1 \in 1..Len(queue[l]) /\ j + 1 \in 1..Len(queue[l])
          /\ queue[l][i + 1] = queue[l][j + 1]
      BY <1>2, <1>4
    <3>2. i + 1 = j + 1
      BY <3>1 DEF Holdings
    <3> QED BY <3>2
  <2>2. held'[t] \subseteq KeptAt(Running[t], step'[t]) /\ step'[t] # 0
    <3>1. /\ Running[t] \in Operations /\ step[t] \in 1..Len(Program(Running[t]))
          /\ Asks(Running[t], step[t]) /\ Current(t) = Program(Running[t])[step[t]]
      BY <1>3, <1>8, LocksAssumption DEF Length, Current, Asks, Read, Write, Modes
    <3>2. held[t] \subseteq KeptAt(Running[t], step[t])
      BY <1>8 DEF Holdings
    <3>3. step[t] \in Nat
      BY DEF TypeOK
    <3> QED BY <1>8, <3>1, <3>2, <3>3, KeptNext
  <2> QED BY <1>4, <1>7, <2>1, <2>2 DEF Holdings
<1> HIDE DEF Typed
<1> QED BY <1>9, <1>10 DEF Typed

\* No step changes the types or what is known of the guards.
LEMMA TypedStep == Typed /\ [Next]_vars => Typed'
<1> SUFFICES ASSUME Typed, [Next]_vars PROVE Typed'
  OBVIOUS
<1>1. ASSUME NEW t \in Tasks, ~Busy(t) \/ Current(t)[2] = "drop"
      PROVE  \A l \in Locks : ~Contains(queue[l], t)
  BY <1>1 DEF Typed, TypeOK, Read, Write
<1>2. ASSUME NEW t \in Tasks, Begin(t) PROVE Typed'
  <2>1. held[t] = {} /\ held' = [held EXCEPT ![t] = {}] /\ ~Busy(t)
    BY <1>2 DEF Begin, Typed, Holdings, TypeOK, Busy
  <2>2. 1 <= Length(t) + 1
    BY Programmed
  <2> QED BY <1>1, <1>2, <2>1, <2>2, TypedMove DEF Begin
<1>3. ASSUME NEW t \in Tasks, DropGuard(t) PROVE Typed'
  <2> DEFINE guards == {guard \in held[t] : guard[1] # Current(t)[1]}
  <2>1. step[t] \in 1..Length(t) /\ step[t] \in Nat /\ Length(t) \in Nat /\ Running[t] \in Operations
    BY <1>3, Programmed, LocksAssumption DEF DropGuard, Busy
  <2>2. Program(Running[t])[step[t]] = Drop(Current(t)[1])
    <3>1. Current(t) \in Locks \X {"read", "write", "drop"} /\ Current(t)[2] = "drop"
      BY <1>3, Programmed DEF DropGuard
    <3> QED BY <3>1 DEF Current, Drop
  <2>3. guards \subseteq KeptAt(Running[t], step[t] + 1)
    BY <2>1, <2>2, KeptDrop DEF Typed, Holdings, Length
  <2>4. held' = [held EXCEPT ![t] = guards] /\ step' = [step EXCEPT ![t] = step[t] + 1]
    BY <1>3 DEF DropGuard, Typed, TypeOK
  <2>5. step[t] + 1 \in Nat /\ step[t] + 1 # 0 /\ step[t] + 1 <= Length(t) + 1
    BY <2>1
  <2>6. guards \in SUBSET held[t] /\ queue' = queue /\ \A l \in Locks : ~Contains(queue[l], t)
    BY <1>1, <1>3 DEF DropGuard
  <2> HIDE DEF guards
  <2> QED BY <2>3, <2>4, <2>5, <2>6, TypedMove
<1>4. ASSUME NEW t \in Tasks, Finish(t) PROVE Typed'
  <2>1. ~Busy(t) /\ 0 <= Length(t) + 1
    BY <1>4, Programmed DEF Finish, Busy
  <2> QED BY <1>1, <1>4, <2>1, TypedMove DEF Finish
<1>5. CASE UNCHANGED vars
  BY <1>5 DEF vars, Typed, TypeOK, Holdings, Busy, Current, Length
<1> QED BY <1>2, <1>3, <1>4, <1>5, TypedAsk, TypedGrant DEF Next, Advance

-----------------------------------------------------------------------------
(* No circle of waiting *)

\* Who waits, waits for a task that waits for a lock of higher rank, or for one
\* before it in the same queue.  So of any tasks, one that waits for the lock of
\* the highest rank, and of those the first in the queue, waits for no other.
LEMMA NoCircle ==
  ASSUME NEW rank \in [Locks -> Nat], \A t \in Tasks : Ascending(Running[t], rank), Typed
  PROVE  NoWaitCycle
<1> USE DEF Typed
<1> SUFFICES ASSUME NEW S \in SUBSET Tasks, S # {},
                    \A t \in S : \E u \in S : WaitsFor(t, u)
             PROVE  FALSE
  BY DEF NoWaitCycle
<1>1. ASSUME NEW t \in Tasks, NEW l \in Locks, Contains(queue[l], t)
      PROVE  Current(t) \in {Read(l), Write(l)} /\ Current(t)[1] = l /\ Busy(t)
  BY <1>1 DEF TypeOK, Read, Write
<1>2. ASSUME NEW t \in S
      PROVE  Current(t)[1] \in Locks /\ Contains(queue[Current(t)[1]], t)
  BY <1>1 DEF WaitsFor
<1>3. ASSUME NEW t \in S, NEW guard \in held[t]
      PROVE  rank[guard[1]] < rank[Current(t)[1]]
  <2>1. Busy(t) /\ Current(t) \in {Read(Current(t)[1]), Write(Current(t)[1])}
    BY <1>1, <1>2
  <2>2. /\ step[t] \in 1..Len(Program(Running[t])) /\ step[t] # 0
        /\ Asks(Running[t], step[t])
        /\ Current(t) = Program(Running[t])[step[t]]
    BY <2>1 DEF Busy, Length, Current, Asks, Modes, Read, Write
  <2>3. guard \in KeptAt(Running[t], step[t])
    BY <2>2 DEF Holdings
  <2> QED BY <2>2, <2>3 DEF Ascending
<1> DEFINE top == rank["galaxy"] + rank["players"] + rank["ships"] + rank["projects"]
                  + rank["trade_requests"] + rank["market"]
<1>4. \A l \in Locks : rank[l] \in Nat /\ top - rank[l] \in Nat
  BY DEF Locks
<1>5. PICK t \in S : \A u \in S : rank[Current(u)[1]] <= rank[Current(t)[1]]
  <2> DEFINE T == {top - rank[Current(u)[1]] : u \in S}
  <2>1. T \in SUBSET Nat /\ T # {}
    BY <1>2, <1>4
  <2>2. PICK m \in T : \A k \in T : m <= k
    <3> HIDE DEF T
    <3> QED BY <2>1, LeastNatural
  <2>3. PICK t \in S : m = top - rank[Current(t)[1]]
    BY <2>2
  <2>4. ASSUME NEW u \in S PROVE rank[Current(u)[1]] <= rank[Current(t)[1]]
    <3>1. top - rank[Current(t)[1]] <= top - rank[Current(u)[1]]
      BY <2>2, <2>3
    <3>2. /\ rank[Current(t)[1]] \in Nat /\ rank[Current(u)[1]] \in Nat
          /\ top \in Nat
      BY <1>2, <1>4 DEF Locks
    <3> HIDE DEF top
    <3> QED BY <3>1, <3>2
  <2> QED BY <2>4
<1> DEFINE l == Current(t)[1]
<1> DEFINE places == {k \in 1..Len(queue[l]) : queue[l][k] \in S}
<1>6. PICK k \in places : \A i \in places : k <= i
  <2>1. PICK i \in 1..Len(queue[l]) : queue[l][i] = t
    BY <1>2 DEF Contains
  <2>2. places \in SUBSET Nat /\ places # {}
    BY <2>1
  <2> HIDE DEF places
  <2> QED BY <2>2, LeastNatural
<1> DEFINE first == queue[l][k]
<1>7. first \in S /\ Contains(queue[l], first) /\ l \in Locks /\ Current(first)[1] = l
  BY <1>1, <1>2, <1>6 DEF Contains
<1>8. PICK u \in S : WaitsFor(first, u)
  BY <1>7
<1>9. PICK r \in Locks :
        /\ Contains(queue[r], first)
        /\ \/ Write(r) \in held[u]
           \/ Current(first) = Write(r) /\ Read(r) \in held[u]
           \/ \E i, j \in 1..Len(queue[r]) : i < j /\ queue[r][i] = u /\ queue[r][j] = first
  BY <1>8 DEF WaitsFor
<1>10. r = l
  BY <1>1, <1>7, <1>9
<1>11. CASE \E guard \in held[u] : guard[1] = l
  <2>1. rank[l] < rank[Current(u)[1]] /\ rank[Current(u)[1]] <= rank[l]
    BY <1>3, <1>5, <1>11
  <2>2. rank[l] \in Nat /\ rank[Current(u)[1]] \in Nat
    BY <1>2, <1>7
  <2> QED BY <2>1, <2>2
<1>12. CASE \E i, j \in 1..Len(queue[l]) : i < j /\ queue[l][i] = u /\ queue[l][j] = first
  <2>1. PICK i, j \in 1..Len(queue[l]) : i < j /\ queue[l][i] = u /\ queue[l][j] = first
    BY <1>12
  <2>2. j = k
    BY <1>6, <1>7, <2>1 DEF Holdings
  <2>3. k <= i
    BY <1>6, <2>1
  <2> QED BY <2>1, <2>2, <2>3
<1> QED BY <1>9, <1>10, <1>11, <1>12 DEF Read, Write

\* Whatever runs, if the operations have an order of the locks in common, who
\* holds a lock excludes the others and no circle of waiting closes, at any time.
THEOREM LocksCorrect ==
  ASSUME NEW rank \in [Locks -> Nat], \A t \in Tasks : Ascending(Running[t], rank)
  PROVE  Spec => []LocksInv
<1>1. Init => Typed
  BY TypedInit
<1>2. Typed /\ [Next]_vars => Typed'
  BY TypedStep
<1>3. Typed => LocksInv
  BY NoCircle DEF LocksInv, Typed
<1> QED BY <1>1, <1>2, <1>3, PTL DEF Spec

\* The order of save_snapshot: galaxy, players, ships, projects, trade requests,
\* market.  Every operation but two keeps to it, so any number of requests, ticks,
\* saves and loads never stop the server, as long as nobody looks at a foreign
\* ship and no player is deleted.
THEOREM SnapshotOrderCorrect ==
  ASSUME \A t \in Tasks : Running[t] \notin {"get_ship", "delete_player"}
  PROVE  Spec => []LocksInv
<1> DEFINE rank == [l \in Locks |-> CASE l = "galaxy"         -> 1
                                     [] l = "players"        -> 2
                                     [] l = "ships"          -> 3
                                     [] l = "projects"       -> 4
                                     [] l = "trade_requests" -> 5
                                     [] l = "market"         -> 6]
<1>1. /\ rank \in [Locks -> Nat]
      /\ rank["galaxy"] = 1 /\ rank["players"] = 2 /\ rank["ships"] = 3
      /\ rank["projects"] = 4 /\ rank["trade_requests"] = 5 /\ rank["market"] = 6
  BY DEF Locks
<1> HIDE DEF rank
<1>2. ASSUME NEW t \in Tasks PROVE Ascending(Running[t], rank)
  <2>1. Running[t] \in {"save_snapshot", "load_snapshot", "trade_tick", "dock_ship",
                        "find_callback", "economy_tick"}
    BY LocksAssumption DEF Operations
  <2>2. Ascending("save_snapshot", rank) /\ Ascending("load_snapshot", rank)
    BY <1>1, SnapshotsAscend
  <2>3. /\ Ascending("trade_tick", rank) /\ Ascending("find_callback", rank)
        /\ Ascending("dock_ship", rank)
    BY <1>1, PairsAscend
  <2>4. Ascending("economy_tick", rank)
    BY <1>1, DroppersAscend
  <2> QED BY <2>1, <2>2, <2>3, <2>4
<1> QED BY <1>1, <1>2, LocksCorrect

\* The two operations that break that order, get_ship for a caller who does not
\* own the ship and the deletion of a player, stop the server only together with
\* a snapshot or the docking of a ship: with all others they have an order too.
THEOREM InvertedOrderCorrect ==
  ASSUME \A t \in Tasks : Running[t] \notin {"save_snapshot", "load_snapshot", "dock_ship"}
  PROVE  Spec => []LocksInv
<1> DEFINE rank == [l \in Locks |-> CASE l = "market"  -> 1
                                     [] l = "ships"   -> 2
                                     [] l = "galaxy"  -> 3
                                     [] l = "players" -> 4
                                     [] OTHER         -> 5]
<1>1. /\ rank \in [Locks -> Nat]
      /\ rank["market"] = 1 /\ rank["ships"] = 2
      /\ rank["galaxy"] = 3 /\ rank["players"] = 4
  BY DEF Locks
<1> HIDE DEF rank
<1>2. ASSUME NEW t \in Tasks PROVE Ascending(Running[t], rank)
  <2>1. Running[t] \in {"trade_tick", "find_callback", "economy_tick", "get_ship",
                        "delete_player"}
    BY LocksAssumption DEF Operations
  <2>2. /\ Ascending("trade_tick", rank) /\ Ascending("find_callback", rank)
        /\ Ascending("get_ship", rank)
    BY <1>1, PairsAscend
  <2>3. Ascending("economy_tick", rank) /\ Ascending("delete_player", rank)
    BY <1>1, DroppersAscend
  <2> QED BY <2>1, <2>2, <2>3
<1> QED BY <1>1, <1>2, LocksCorrect
=============================================================================
