----------------------------- MODULE MassDriver -----------------------------
(***************************************************************************)
(* Mass drivers: the connections of src/routes/connections.rs, limited by  *)
(* the channels of src/models/mass_driver.rs, and the packets the Pulsar   *)
(* send consumers of src/consumer.rs carry over them.                      *)
(*                                                                         *)
(* A connection handler is one galaxy.write() section.  A packet takes     *)
(* three: deduct at the sender, credit at the receiver after the flight,   *)
(* and, when the receiver is full, credit back at the sender.  Each player *)
(* has a topic in Pulsar and one consumer, which handles the packets on it *)
(* one after the other and acknowledges each when it is done with it.      *)
(*                                                                         *)
(* Two things make a packet come again: the client connects to the broker  *)
(* anew while the packet is being handled, or the server restarts, with    *)
(* the galaxy of a snapshot and with no connections, which are not saved.  *)
(*                                                                         *)
(* All stations are in one system, as connections require, and there is    *)
(* one good.  Of a packet's item list only what handle_packet reads is     *)
(* kept: the largest quantity, which it compares with the inventory item   *)
(* by item, and the total, which it deducts and compares with max_storage. *)
(***************************************************************************)
EXTENDS Integers, Sequences, FiniteSets, Functions

CONSTANTS
  Stations,        \* planets of the system that have, or had, a station
  Removable,       \* the stations an admin may delete and build again
  ConnIds,         \* connection ids
  Consumers,       \* one send consumer per player
  Packets,         \* what players send: [largest, total] of an item list
  DefaultChannels, \* config.mass_driver.default_channels
  MaxChannels,     \* bound on channel upgrades
  MaxPacket,       \* config.mass_driver.max_packet_size
  MaxStorage,      \* station.max_storage
  InitStock,       \* units in every station at the start
  Word,            \* 2^64: inventory quantities are u64 and wrap
  MaxPublished,    \* bound on the packets of a player
  MaxReconnects,   \* bound on broken broker connections
  MaxRestarts,     \* bound on restarts
  NoConnection     \* a connection id that is not in the map

Connection == [from : Stations, to : Stations,
               status : {"pending", "active", "closed"}]

ASSUME MassDriverAssumption ==
  /\ IsFiniteSet(Stations) /\ IsFiniteSet(ConnIds) /\ IsFiniteSet(Consumers)
  /\ Removable \subseteq Stations
  /\ Packets \subseteq [largest : Nat, total : Nat]
  /\ DefaultChannels \in Nat /\ MaxChannels \in Nat
  /\ NoConnection \notin Connection
  /\ MaxPacket \in Nat /\ MaxStorage \in Nat /\ InitStock \in Nat
  /\ MaxPublished \in Nat /\ MaxReconnects \in Nat /\ MaxRestarts \in Nat
  /\ Word \in Nat /\ MaxStorage < Word /\ InitStock < Word /\ MaxPacket < Word

VARIABLES
  connections, \* GalaxyState::connections
  connected,   \* planets in PlanetStatus::Connected
  channels,    \* mass_driver.max_channels
  stock,       \* station.inventory of the good
  consumer,    \* what each send consumer is doing
  topic,       \* packets a player has sent and the consumer has not acknowledged
  published,   \* packets each player has sent so far
  reconnects,  \* broken broker connections so far
  restarts     \* restarts so far

broker == <<topic, published, reconnects, restarts>>
vars == <<connections, connected, channels, stock, consumer, broker>>

\* Pulsar marks a message that it has delivered before.
Message == [conn : ConnIds, packet : Packets, again : BOOLEAN]

Idle   == [pc |-> "idle"]
Acking == [pc |-> "ack"]
Job == {Idle, Acking} \cup [pc : {"flight", "return"}, from : Stations, to : Stations,
                            total : Nat]

Init ==
  /\ connections = [c \in ConnIds |-> NoConnection]
  /\ connected = Stations
  /\ channels = [s \in Stations |-> DefaultChannels]
  /\ stock = [s \in Stations |-> InitStock]
  /\ consumer = [k \in Consumers |-> Idle]
  /\ topic = [k \in Consumers |-> <<>>]
  /\ published = [k \in Consumers |-> 0]
  /\ reconnects = 0
  /\ restarts = 0

-----------------------------------------------------------------------------
(* Connections *)

HasStatus(c, status) ==
  connections[c] # NoConnection /\ connections[c].status = status

\* get_planet_connections and active_connections_count
ActiveAt(s) == {c \in ConnIds : /\ HasStatus(c, "active")
                                /\ connections[c].from = s \/ connections[c].to = s}

\* Mutant: one too many.
HasAvailableChannelOff(s) == Cardinality(ActiveAt(s)) <= channels[s]

HasAvailableChannel(s) == Cardinality(ActiveAt(s)) < channels[s]

SetStatus(c, status) ==
  /\ connections' = [connections EXCEPT ![c].status = status]
  /\ UNCHANGED <<connected, channels, stock, consumer, broker>>

\* Ids are never used twice: none a packet still names is given out.
Fresh(c) ==
  /\ connections[c] = NoConnection
  /\ \A k \in Consumers : \A i \in 1..Len(topic[k]) : topic[k][i].conn # c

\* Mutant: a station may be connected to itself.
CreateSelf(c, from, to) ==
  /\ Fresh(c)
  /\ from \in connected /\ to \in connected
  /\ HasAvailableChannel(from)
  /\ connections' = [connections EXCEPT
       ![c] = [from |-> from, to |-> to, status |-> "pending"]]
  /\ UNCHANGED <<connected, channels, stock, consumer, broker>>

Create(c, from, to) ==
  /\ Fresh(c)
  /\ from # to
  /\ from \in connected /\ to \in connected
  /\ HasAvailableChannel(from)
  /\ connections' = [connections EXCEPT
       ![c] = [from |-> from, to |-> to, status |-> "pending"]]
  /\ UNCHANGED <<connected, channels, stock, consumer, broker>>

\* Both ends are checked again: they may have filled up since the request.
Accept(c) ==
  /\ HasStatus(c, "pending")
  /\ connections[c].to \in connected /\ connections[c].from \in connected
  /\ HasAvailableChannel(connections[c].to)
  /\ HasAvailableChannel(connections[c].from)
  /\ SetStatus(c, "active")

Reject(c) == HasStatus(c, "pending") /\ SetStatus(c, "closed")

Close(c) == HasStatus(c, "active") /\ SetStatus(c, "closed")

Delete(c) ==
  /\ connections[c] # NoConnection
  /\ connections' = [connections EXCEPT ![c] = NoConnection]
  /\ UNCHANGED <<connected, channels, stock, consumer, broker>>

-----------------------------------------------------------------------------
(* Stations *)

\* A finished mass_driver_channels upgrade.
UpgradeChannels(s) ==
  /\ s \in connected
  /\ channels[s] < MaxChannels
  /\ channels' = [channels EXCEPT ![s] = @ + 1]
  /\ UNCHANGED <<connections, connected, stock, consumer, broker>>

\* DELETE /admin/.../station: the planet is Settled again.  Connections of the
\* station are left as they are.
DeleteStation(s) ==
  /\ s \in Removable \cap connected
  /\ connected' = connected \ {s}
  /\ stock' = [stock EXCEPT ![s] = 0]
  /\ UNCHANGED <<connections, channels, consumer, broker>>

\* A new station on a settled planet has the default mass driver and no goods.
CreateStation(s) ==
  /\ s \notin connected
  /\ connected' = connected \cup {s}
  /\ channels' = [channels EXCEPT ![s] = DefaultChannels]
  /\ UNCHANGED <<connections, stock, consumer, broker>>

-----------------------------------------------------------------------------
(* Packets *)

Set(k, job) == consumer' = [consumer EXCEPT ![k] = job]

\* A player sends a packet over a connection there is, or was.
Publish(k, c, packet) ==
  /\ published[k] < MaxPublished
  /\ published' = [published EXCEPT ![k] = @ + 1]
  /\ connections[c] # NoConnection
  /\ topic' = [topic EXCEPT ![k] = Append(@, [conn |-> c, packet |-> packet, again |-> FALSE])]
  /\ UNCHANGED <<connections, connected, channels, stock, consumer, reconnects, restarts>>

\* Taking q from a u64 quantity n in a release build.
Deducted(n, q) == IF q <= n THEN n - q ELSE n - q + Word

\* What handle_packet asks of a packet, in phase 1.
Accepted(m) ==
  /\ HasStatus(m.conn, "active")
  /\ m.packet.total <= MaxPacket
  /\ connections[m.conn].from \in connected
  /\ m.packet.largest <= stock[connections[m.conn].from]

First(k) == Head(topic[k])
Receives(k) == consumer[k] = Idle /\ topic[k] # <<>>

\* A refused packet changes nothing.
Refuse(k) ==
  /\ Receives(k) /\ ~Accepted(First(k))
  /\ Set(k, Acking)
  /\ UNCHANGED <<connections, connected, channels, stock, broker>>

\* Phase 1 of handle_packet.  The receiver is looked up only after the
\* deduction, so a packet to a planet without a station is taken and dropped.
Send(k) ==
  LET m    == First(k)
      from == connections[m.conn].from
      to   == connections[m.conn].to
  IN  /\ Receives(k) /\ Accepted(m)
      /\ stock' = [stock EXCEPT ![from] = Deducted(@, m.packet.total)]
      /\ Set(k, IF to \in connected
                THEN [pc |-> "flight", from |-> from, to |-> to, total |-> m.packet.total]
                ELSE Acking)
      /\ UNCHANGED <<connections, connected, channels, broker>>

\* Mutant: room for the packet is not asked for, only room.
FitsAny(s, n) == stock[s] < MaxStorage

Fits(s, n) == stock[s] + n <= MaxStorage

\* Phase 3, after the flight.
Land(k) ==
  LET to == consumer[k].to
      n  == consumer[k].total
  IN  /\ consumer[k].pc = "flight"
      /\ \/ /\ to \in connected
            /\ Fits(to, n)
            /\ stock' = [stock EXCEPT ![to] = @ + n]
            /\ Set(k, Acking)
         \/ /\ to \in connected
            /\ ~Fits(to, n)
            /\ Set(k, [consumer[k] EXCEPT !.pc = "return"])
            /\ UNCHANGED stock
         \/ /\ to \notin connected     \* reported as received all the same
            /\ Set(k, Acking)
            /\ UNCHANGED stock
      /\ UNCHANGED <<connections, connected, channels, broker>>

\* Mutant: goods come back only to a station that has room for them.
ReturnIfRoom(k) ==
  LET from == consumer[k].from
  IN  /\ consumer[k].pc = "return"
      /\ stock' = IF from \in connected /\ Fits(from, consumer[k].total)
                  THEN [stock EXCEPT ![from] = @ + consumer[k].total] ELSE stock
      /\ Set(k, Acking)
      /\ UNCHANGED <<connections, connected, channels, broker>>

\* Mutant: the consumer waits for a sender that is gone.
ReturnWaiting(k) ==
  LET from == consumer[k].from
  IN  /\ consumer[k].pc = "return"
      /\ from \in connected
      /\ stock' = [stock EXCEPT ![from] = @ + consumer[k].total]
      /\ Set(k, Acking)
      /\ UNCHANGED <<connections, connected, channels, broker>>

\* The receiver was full: the goods go back, whatever the sender's storage.
Return(k) ==
  LET from == consumer[k].from
  IN  /\ consumer[k].pc = "return"
      /\ stock' = IF from \in connected
                  THEN [stock EXCEPT ![from] = @ + consumer[k].total] ELSE stock
      /\ Set(k, Acking)
      /\ UNCHANGED <<connections, connected, channels, broker>>

\* The packet is acknowledged; the next one may be handled.
Ack(k) ==
  /\ consumer[k] = Acking
  /\ topic' = [topic EXCEPT ![k] = Tail(@)]
  /\ Set(k, Idle)
  /\ UNCHANGED <<connections, connected, channels, stock, published, reconnects, restarts>>

-----------------------------------------------------------------------------
(* Faults *)

Again(m) == [m EXCEPT !.again = TRUE]

\* The client connects to the broker anew while a packet is being handled: the
\* packet is not acknowledged, so the broker delivers it once more.
Reconnect(k) ==
  /\ reconnects < MaxReconnects
  /\ reconnects' = reconnects + 1
  /\ consumer[k] # Idle
  /\ topic' = [topic EXCEPT ![k] = <<First(k), Again(First(k))>> \o Tail(@)]
  /\ UNCHANGED <<connections, connected, channels, stock, consumer, published, restarts>>

\* The packets of q that are left when the first n have been acknowledged.
Left(q, n) == [i \in 1..(Len(q) - n) |-> Again(q[i + n])]

\* Mutant: connections are saved with the galaxy.
RestartConnected ==
  /\ restarts < MaxRestarts
  /\ restarts' = restarts + 1
  /\ consumer' = [k \in Consumers |-> Idle]
  /\ \E acked \in [Consumers -> 0..MaxPublished + MaxReconnects] :
       /\ \A k \in Consumers : acked[k] <= Len(topic[k])
       /\ topic' = [k \in Consumers |-> Left(topic[k], acked[k])]
  /\ UNCHANGED <<connections, connected, channels, stock, published, reconnects>>

\* The server stops and starts from a snapshot.  What happened to the galaxy
\* after the save is gone, so the restart is taken at the save.  Pulsar forgets
\* nothing: packets acknowledged since the save do not come again, all others do.
Restart ==
  /\ restarts < MaxRestarts
  /\ restarts' = restarts + 1
  /\ connections' = [c \in ConnIds |-> NoConnection]
  /\ consumer' = [k \in Consumers |-> Idle]
  /\ \E acked \in [Consumers -> 0..MaxPublished + MaxReconnects] :
       /\ \A k \in Consumers : acked[k] <= Len(topic[k])
       /\ topic' = [k \in Consumers |-> Left(topic[k], acked[k])]
  /\ UNCHANGED <<connected, channels, stock, published, reconnects>>

-----------------------------------------------------------------------------
Connect == \E c \in ConnIds :
  \/ \E from, to \in Stations : Create(c, from, to)
  \/ Accept(c) \/ Reject(c) \/ Close(c) \/ Delete(c)

Build == \E s \in Stations :
  UpgradeChannels(s) \/ DeleteStation(s) \/ CreateStation(s)

Carry(k) == Refuse(k) \/ Send(k) \/ Land(k) \/ Return(k) \/ Ack(k)

Fail == Restart \/ \E k \in Consumers : Reconnect(k)

Next ==
  \/ Connect \/ Build
  \/ \E k \in Consumers, c \in ConnIds, packet \in Packets : Publish(k, c, packet)
  \/ \E k \in Consumers : Carry(k)
  \/ Fail

\* The consumer task is polled until its topic is empty; nothing forces players
\* or admins to act.
Fairness == \A k \in Consumers : WF_vars(Carry(k))

Spec == Init /\ [][Next]_vars /\ Fairness

-----------------------------------------------------------------------------
(* Properties *)

\* Every variable has the shape the Rust types give it, an idle consumer holds
\* no packet and no connection leads back to its own station.
TypeOK ==
  /\ connections \in [ConnIds -> Connection \cup {NoConnection}]
  /\ \A c \in ConnIds : connections[c] # NoConnection =>
                          connections[c].from # connections[c].to
  /\ connected \in SUBSET Stations
  /\ channels \in [Stations -> Nat]
  /\ stock \in [Stations -> Nat]
  /\ consumer \in [Consumers -> Job]
  /\ topic \in [Consumers -> Seq(Message)]
  /\ \A k \in Consumers : consumer[k] # Idle => topic[k] # <<>>
  /\ published \in [Consumers -> Nat]
  /\ reconnects \in Nat /\ restarts \in Nat

\* However requests, acceptances, closures and upgrades follow one another, a
\* station never has more active connections than channels, unless it is one
\* that admins delete and rebuild.
ChannelsRespected ==
  \A s \in Stations \ Removable : Cardinality(ActiveAt(s)) <= channels[s]

\* A planet without a station is one whose station an admin removed.
Standing == Stations \ Removable \subseteq connected

Carried(job) == IF job.pc \in {"flight", "return"} THEN job.total ELSE 0

InFlight == SumFunctionOnSet([k \in Consumers |-> Carried(consumer[k])], Consumers)

Goods == SumFunctionOnSet(stock, Stations) + InFlight

\* Packets move goods and make none, whatever happens to the connection during
\* the flight, however full the receiver is and however often the packet comes;
\* they lose goods only where a station has been removed, and a restart loses
\* exactly those in flight.
GoodsLostOnlyWithStation ==
  [][/\ Goods' <= Goods
     /\ Goods' < Goods => \/ connected' # Stations
                          \/ restarts' # restarts /\ Goods - Goods' = InFlight]_vars

\* Packets are acknowledged after they are handled, and yet one that has been
\* handled takes goods from its sender again only when the client connected to
\* the broker anew: one that comes again after a restart finds no connection.
TakenTwiceOnlyByReconnect ==
  [][\A k \in Consumers :
       consumer[k] = Idle /\ stock' # stock /\ consumer'[k] # Idle /\ First(k).again
         => reconnects > 0]_vars

\* Storage is checked again on landing: only goods that come back to their
\* sender can push a station over its capacity.
OverfullOnlyByReturn ==
  [][\A s \in Stations :
       stock'[s] > stock[s] /\ stock'[s] > MaxStorage =>
         \E k \in Consumers : consumer[k].pc = "return" /\ consumer[k].from = s]_vars

\* Every packet on a topic is handled and acknowledged at last, also one that
\* a fault has delivered again, and no packet blocks those behind it.
TopicsDrained == \A k \in Consumers : topic[k] # <<>> ~> topic[k] = <<>>
=============================================================================
