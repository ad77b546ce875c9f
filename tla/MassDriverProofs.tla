--------------------------- MODULE MassDriverProofs ---------------------------
(***************************************************************************)
(* What TLAPS proves about module MassDriver: for any stations, admins,    *)
(* players, connection ids, packets and bounds, every variable keeps its   *)
(* type; no station that is never rebuilt has more active connections than *)
(* channels; and goods are taken twice only for a packet delivered again,  *)
(* overfill a station only when they are returned, and are lost only with  *)
(* a station.                                                              *)
(***************************************************************************)
EXTENDS MassDriver, Sums, SequenceTheorems

-----------------------------------------------------------------------------
(* Type correctness *)

\* Deducting a packet of at most MaxPacket units leaves a natural number,
\* whether the subtraction wraps around or not.
LEMMA DeductedNat ==
  ASSUME NEW n \in Nat, NEW q \in Nat, q <= MaxPacket
  PROVE  Deducted(n, q) \in Nat
  BY MassDriverAssumption DEF Deducted

\* What a restart leaves of a topic is a topic.
LEMMA LeftMessages ==
  ASSUME NEW q \in Seq(Message), NEW n \in Nat, n <= Len(q)
  PROVE  Left(q, n) \in Seq(Message)
<1>1. Len(q) - n \in Nat
  OBVIOUS
<1>2. ASSUME NEW i \in 1..(Len(q) - n) PROVE Again(q[i + n]) \in Message
  <2>1. i + n \in 1..Len(q)
    BY <1>1
  <2>2. q[i + n] \in Message
    BY <2>1, ElementOfSeq
  <2> QED BY <2>2 DEF Again, Message
<1> QED BY <1>1, <1>2, IsASeq DEF Left

\* A packet delivered again goes behind the delivery that is being handled.
LEMMA ReconnectMessages ==
  ASSUME NEW q \in Seq(Message), q # <<>>
  PROVE  /\ <<Head(q), Again(Head(q))>> \o Tail(q) \in Seq(Message)
         /\ <<Head(q), Again(Head(q))>> \o Tail(q) # <<>>
<1>1. Head(q) \in Message /\ Tail(q) \in Seq(Message)
  OBVIOUS
<1>2. Again(Head(q)) \in Message
  BY <1>1 DEF Again, Message
<1>3. <<Head(q), Again(Head(q))>> \in Seq(Message)
  BY <1>1, <1>2
<1> QED BY <1>1, <1>3

\* The initial state is well typed.
LEMMA TypeInit == Init => TypeOK
  BY MassDriverAssumption DEF Init, TypeOK, Job

\* No handler of routes/connections.rs, no admin and no consumer step takes a
\* variable out of its type.
LEMMA TypeStep == TypeOK /\ [Next]_vars => TypeOK'
<1> SUFFICES ASSUME TypeOK, [Next]_vars PROVE TypeOK'
  OBVIOUS
<1> USE DEF TypeOK
<1>1. ASSUME NEW c \in ConnIds, NEW from \in Stations, NEW to \in Stations,
             Create(c, from, to)
      PROVE  TypeOK'
  BY <1>1 DEF Create, Fresh, Connection, broker
<1>2. ASSUME NEW c \in ConnIds, NEW status \in {"pending", "active", "closed"},
             connections[c] # NoConnection, SetStatus(c, status)
      PROVE  TypeOK'
  BY <1>2 DEF SetStatus, Connection, broker
<1>3. ASSUME NEW c \in ConnIds, Delete(c) PROVE TypeOK'
  BY <1>3 DEF Delete, broker
<1>4. ASSUME NEW s \in Stations,
             UpgradeChannels(s) \/ DeleteStation(s) \/ CreateStation(s)
      PROVE  TypeOK'
  <2>1. connected' \in SUBSET Stations /\ stock' \in [Stations -> Nat]
    BY <1>4 DEF UpgradeChannels, DeleteStation, CreateStation
  <2>2. channels' \in [Stations -> Nat]
    <3>1. channels \in [Stations -> Nat] /\ DefaultChannels \in Nat
      BY MassDriverAssumption
    <3>2. \/ channels' = [channels EXCEPT ![s] = @ + 1]
          \/ channels' = [channels EXCEPT ![s] = DefaultChannels]
          \/ channels' = channels
      BY <1>4 DEF UpgradeChannels, DeleteStation, CreateStation
    <3> HIDE DEF TypeOK
    <3> QED BY <3>1, <3>2
  <2>3. UNCHANGED <<connections, consumer, broker>>
    BY <1>4 DEF UpgradeChannels, DeleteStation, CreateStation
  <2> QED BY <2>1, <2>2, <2>3 DEF broker
<1>5. ASSUME NEW k \in Consumers, Send(k) PROVE TypeOK'
  <2>1. First(k) \in Message
    BY <1>5 DEF Send, Receives, First
  <2>2. connections[First(k).conn] \in Connection
    BY <1>5, <2>1 DEF Send, Accepted, HasStatus, Message
  <2>3. First(k).packet \in [largest : Nat, total : Nat] /\ First(k).packet.total <= MaxPacket
    BY <1>5, <2>1, MassDriverAssumption DEF Message, Send, Accepted
  <2>4. stock' \in [Stations -> Nat]
    BY <1>5, <2>2, <2>3, DeductedNat DEF Send, Connection
  <2>5. consumer' \in [Consumers -> Job]
    BY <1>5, <2>2, <2>3 DEF Send, Set, Job, Connection
  <2>6. \A j \in Consumers : consumer'[j] # Idle => topic'[j] # <<>>
    BY <1>5, <2>5 DEF Send, Set, Receives, broker
  <2> QED BY <1>5, <2>4, <2>5, <2>6 DEF Send, broker
<1>6. ASSUME NEW k \in Consumers, Land(k) PROVE TypeOK'
  <2>1. consumer[k] \in [pc : {"flight", "return"}, from : Stations,
                         to : Stations, total : Nat]
    BY <1>6 DEF Land, Job, Idle, Acking
  <2>2. stock' \in [Stations -> Nat]
    <3>1. stock \in [Stations -> Nat] /\ consumer[k].total \in Nat
      BY <2>1
    <3>2. \/ stock' = [stock EXCEPT ![consumer[k].to] = @ + consumer[k].total]
          \/ stock' = stock
      BY <1>6 DEF Land
    <3> HIDE DEF TypeOK
    <3> QED BY <3>1, <3>2
  <2>3. [consumer[k] EXCEPT !.pc = "return"] \in Job /\ Acking \in Job
    BY <2>1 DEF Job
  <2>4. consumer' \in [Consumers -> Job]
    BY <1>6, <2>3 DEF Land, Set
  <2>5. consumer[k] # Idle
    BY <1>6 DEF Land, Idle
  <2>6. \A j \in Consumers : consumer'[j] # Idle => topic'[j] # <<>>
    BY <1>6, <2>5 DEF Land, Set, broker
  <2> QED BY <1>6, <2>2, <2>4, <2>6 DEF Land, broker
<1>7. ASSUME NEW k \in Consumers, Return(k) PROVE TypeOK'
  <2>1. consumer[k] \in [pc : {"flight", "return"}, from : Stations,
                         to : Stations, total : Nat]
    BY <1>7 DEF Return, Job, Idle, Acking
  <2>2. stock' \in [Stations -> Nat] /\ consumer' \in [Consumers -> Job]
    BY <1>7, <2>1 DEF Return, Set, Job
  <2>3. consumer[k] # Idle
    BY <1>7 DEF Return, Idle
  <2>4. \A j \in Consumers : consumer'[j] # Idle => topic'[j] # <<>>
    BY <1>7, <2>3 DEF Return, Set, broker
  <2> QED BY <1>7, <2>2, <2>4 DEF Return, broker
<1>8. ASSUME NEW k \in Consumers, Refuse(k) PROVE TypeOK'
  <2>1. consumer' \in [Consumers -> Job]
    BY <1>8 DEF Refuse, Set, Job
  <2>2. \A j \in Consumers : consumer'[j] # Idle => topic'[j] # <<>>
    BY <1>8, <2>1 DEF Refuse, Receives, Set, broker
  <2> QED BY <1>8, <2>1, <2>2 DEF Refuse, broker
<1>9. ASSUME NEW k \in Consumers, Ack(k) PROVE TypeOK'
  <2>1. consumer[k] # Idle
    BY <1>9 DEF Ack, Idle, Acking
  <2>2. topic' \in [Consumers -> Seq(Message)]
    BY <1>9, <2>1 DEF Ack
  <2>3. consumer' \in [Consumers -> Job]
    BY <1>9 DEF Ack, Set, Job
  <2>4. \A j \in Consumers : consumer'[j] # Idle => topic'[j] # <<>>
    BY <1>9, <2>3 DEF Ack, Set
  <2> QED BY <1>9, <2>2, <2>3, <2>4 DEF Ack
<1>10. ASSUME NEW k \in Consumers, NEW c \in ConnIds, NEW packet \in Packets,
              Publish(k, c, packet)
       PROVE  TypeOK'
  <2>1. [conn |-> c, packet |-> packet, again |-> FALSE] \in Message
    BY DEF Message
  <2>2. topic' \in [Consumers -> Seq(Message)]
    BY <1>10, <2>1 DEF Publish
  <2>3. \A j \in Consumers : topic[j] # <<>> => topic'[j] # <<>>
    <3>1. Append(topic[k], [conn |-> c, packet |-> packet, again |-> FALSE]) # <<>>
      BY <2>1, AppendProperties
    <3> QED BY <1>10, <3>1 DEF Publish
  <2> QED BY <1>10, <2>2, <2>3 DEF Publish
<1>11. ASSUME NEW k \in Consumers, Reconnect(k) PROVE TypeOK'
  <2>1. topic[k] # <<>>
    BY <1>11 DEF Reconnect
  <2>2. /\ topic' \in [Consumers -> Seq(Message)]
        /\ \A j \in Consumers : topic[j] # <<>> => topic'[j] # <<>>
    BY <1>11, <2>1, ReconnectMessages DEF Reconnect, First
  <2> QED BY <1>11, <2>2 DEF Reconnect
<1>12. CASE Restart
  <2>1. topic' \in [Consumers -> Seq(Message)]
    <3>1. PICK acked \in [Consumers -> 0..MaxPublished + MaxReconnects] :
            /\ \A k \in Consumers : acked[k] <= Len(topic[k])
            /\ topic' = [k \in Consumers |-> Left(topic[k], acked[k])]
      BY <1>12 DEF Restart
    <3>2. ASSUME NEW k \in Consumers PROVE acked[k] \in Nat
      BY <3>2, MassDriverAssumption
    <3> QED BY <3>1, <3>2, LeftMessages
  <2>2. consumer' \in [Consumers -> Job] /\ \A k \in Consumers : consumer'[k] = Idle
    BY <1>12 DEF Restart, Job
  <2>3. connections' \in [ConnIds -> Connection \cup {NoConnection}]
    BY <1>12 DEF Restart
  <2>4. \A c \in ConnIds : connections'[c] = NoConnection
    BY <1>12 DEF Restart
  <2>5. /\ UNCHANGED <<connected, channels, stock, published, reconnects>>
        /\ restarts' = restarts + 1
    BY <1>12 DEF Restart
  <2> QED BY <2>1, <2>2, <2>3, <2>4, <2>5
<1>13. CASE UNCHANGED vars
  BY <1>13 DEF vars, broker
<1> QED
  BY <1>1, <1>2, <1>3, <1>4, <1>5, <1>6, <1>7, <1>8, <1>9, <1>10, <1>11, <1>12, <1>13
  DEF Next, Connect, Build, Carry, Fail, Accept, Reject, Close, HasStatus

\* The type invariant of the mass drivers holds in every reachable state.
THEOREM TypeCorrect == Spec => []TypeOK
  BY TypeInit, TypeStep, PTL DEF Spec

-----------------------------------------------------------------------------
(* Channels *)

\* The active connections of a station are a finite set, so counting them
\* means something and an acceptance adds at most one.
LEMMA ActiveFinite ==
  ASSUME NEW s \in Stations
  PROVE  IsFiniteSet(ActiveAt(s)) /\ Cardinality(ActiveAt(s)) \in Nat
<1>1. ActiveAt(s) \in SUBSET ConnIds
  BY DEF ActiveAt
<1> QED BY <1>1, MassDriverAssumption, FS_Subset, FS_CardinalityType

\* Accepting a connection adds one active connection at its two ends, where
\* the handler has just seen a free channel, and none anywhere else.
LEMMA AcceptKeepsChannels ==
  ASSUME TypeOK, NEW s \in Stations, NEW c \in ConnIds, Accept(c),
         Cardinality(ActiveAt(s)) <= channels[s]
  PROVE  Cardinality(ActiveAt(s)') <= channels'[s]
<1>1. connections[c] \in Connection
  BY DEF TypeOK, Accept, HasStatus
<1>2. channels' = channels
  BY DEF Accept, SetStatus
<1>3. CASE s = connections[c].from \/ s = connections[c].to
  <2>1. ActiveAt(s)' = ActiveAt(s) \cup {c}
    BY <1>1, <1>3, MassDriverAssumption
    DEF ActiveAt, HasStatus, Accept, SetStatus, TypeOK, Connection
  <2>2. Cardinality(ActiveAt(s)) < channels[s]
    BY <1>3 DEF Accept, HasAvailableChannel
  <2>3. IsFiniteSet(ActiveAt(s)) /\ Cardinality(ActiveAt(s)) \in Nat
    BY ActiveFinite
  <2>4. \/ Cardinality(ActiveAt(s) \cup {c}) = Cardinality(ActiveAt(s))
        \/ Cardinality(ActiveAt(s) \cup {c}) = Cardinality(ActiveAt(s)) + 1
    BY <2>3, FS_AddElement
  <2>5. channels[s] \in Nat
    BY DEF TypeOK
  <2> QED BY <1>2, <2>1, <2>2, <2>3, <2>4, <2>5
<1>4. CASE s # connections[c].from /\ s # connections[c].to
  <2>1. ActiveAt(s)' = ActiveAt(s)
    BY <1>1, <1>4, MassDriverAssumption
    DEF ActiveAt, HasStatus, Accept, SetStatus, TypeOK, Connection
  <2> QED BY <1>2, <2>1
<1> QED BY <1>3, <1>4

\* Whatever makes no connection active cannot exceed a station's channels, as
\* long as it takes no channel away.
LEMMA FewerActive ==
  ASSUME TypeOK, NEW s \in Stations,
         ActiveAt(s)' \subseteq ActiveAt(s),
         channels'[s] \in Nat, channels[s] <= channels'[s],
         Cardinality(ActiveAt(s)) <= channels[s]
  PROVE  Cardinality(ActiveAt(s)') <= channels'[s]
<1>1. /\ Cardinality(ActiveAt(s)') <= Cardinality(ActiveAt(s))
      /\ Cardinality(ActiveAt(s)') \in Nat
  BY ActiveFinite, FS_Subset, FS_CardinalityType
<1> QED BY <1>1, ActiveFinite DEF TypeOK

\* A station that no admin removes keeps standing.  ChannelsRespected alone is
\* not inductive: building a station, which every planet without one allows,
\* resets its channels.
LEMMA StandingStep == Standing /\ [Next]_vars => Standing'
  BY DEF Standing, Next, Connect, Build, Carry, Create, Accept, Reject, Close,
         Delete, SetStatus, UpgradeChannels, DeleteStation, CreateStation,
         Refuse, Send, Land, Return, Ack, Publish, Fail, Reconnect, Restart, vars

\* Every step respects the channels of every station that stands for good; it
\* needs the types, because the counts are of finite sets and numbers.
LEMMA ChannelsStep ==
  TypeOK /\ Standing /\ ChannelsRespected /\ [Next]_vars => ChannelsRespected'
<1> SUFFICES ASSUME TypeOK, Standing, ChannelsRespected, [Next]_vars,
                    NEW s \in Stations \ Removable
             PROVE  Cardinality(ActiveAt(s)') <= channels'[s]
  BY DEF ChannelsRespected
<1>0. Cardinality(ActiveAt(s)) <= channels[s] /\ channels[s] \in Nat
  BY DEF ChannelsRespected, TypeOK
<1>1. ASSUME NEW c \in ConnIds, NEW from \in Stations, NEW to \in Stations,
             Create(c, from, to)
      PROVE  ActiveAt(s)' \subseteq ActiveAt(s) /\ channels' = channels
  BY <1>1 DEF Create, Fresh, ActiveAt, HasStatus, TypeOK
<1>2. ASSUME NEW c \in ConnIds, Reject(c) \/ Close(c)
      PROVE  ActiveAt(s)' \subseteq ActiveAt(s) /\ channels' = channels
  BY <1>2 DEF Reject, Close, SetStatus, ActiveAt, HasStatus, TypeOK, Connection
<1>3. ASSUME NEW c \in ConnIds, Delete(c)
      PROVE  ActiveAt(s)' \subseteq ActiveAt(s) /\ channels' = channels
  BY <1>3 DEF Delete, ActiveAt, HasStatus, TypeOK
<1>4. ASSUME NEW t \in Stations,
             UpgradeChannels(t) \/ DeleteStation(t) \/ CreateStation(t)
      PROVE  /\ ActiveAt(s)' \subseteq ActiveAt(s)
             /\ channels'[s] \in Nat /\ channels[s] <= channels'[s]
  <2>1. ActiveAt(s)' = ActiveAt(s)
    BY <1>4 DEF UpgradeChannels, DeleteStation, CreateStation, ActiveAt, HasStatus
  <2>2. CASE UpgradeChannels(t)
    BY <1>0, <2>1, <2>2 DEF UpgradeChannels, TypeOK
  <2>3. CASE DeleteStation(t)
    BY <1>0, <2>1, <2>3 DEF DeleteStation
  <2>4. CASE CreateStation(t)
    BY <1>0, <2>1, <2>4 DEF CreateStation, Standing, TypeOK
  <2> QED BY <1>4, <2>2, <2>3, <2>4
<1>5. ASSUME NEW k \in Consumers,
             \/ Carry(k) \/ Reconnect(k)
             \/ \E c \in ConnIds, packet \in Packets : Publish(k, c, packet)
      PROVE  ActiveAt(s)' = ActiveAt(s) /\ channels' = channels
  BY <1>5 DEF Carry, Refuse, Send, Land, Return, Ack, Reconnect, Publish, ActiveAt, HasStatus
<1>6. CASE UNCHANGED vars
  BY <1>0, <1>6 DEF vars, ActiveAt, HasStatus
<1>7. ASSUME NEW c \in ConnIds, Accept(c)
      PROVE  Cardinality(ActiveAt(s)') <= channels'[s]
  BY <1>0, <1>7, AcceptKeepsChannels
<1>8. CASE Restart
  <2>1. ActiveAt(s)' \subseteq ActiveAt(s) /\ channels' = channels
    BY <1>8 DEF Restart, ActiveAt, HasStatus
  <2> QED BY <1>0, <2>1, FewerActive
<1> QED
  BY <1>0, <1>1, <1>2, <1>3, <1>4, <1>5, <1>6, <1>7, <1>8, FewerActive
  DEF Next, Connect, Build, Fail

\* In the initial state no connection exists.
LEMMA ChannelsInit == Init => Standing /\ ChannelsRespected
<1> SUFFICES ASSUME Init, NEW s \in Stations PROVE Cardinality(ActiveAt(s)) <= channels[s]
  BY DEF Init, Standing, ChannelsRespected
<1>1. ActiveAt(s) = {}
  BY DEF Init, ActiveAt, HasStatus
<1> QED BY <1>1, FS_EmptySet, MassDriverAssumption DEF Init

\* However requests, acceptances, closures, upgrades, packets, faults and restarts follow one another, a
\* station that is never rebuilt has at most as many active connections as its
\* mass driver has channels.
THEOREM ChannelsCorrect == Spec => []ChannelsRespected
<1>1. Init => TypeOK /\ Standing /\ ChannelsRespected
  BY TypeInit, ChannelsInit
<1>2. TypeOK /\ Standing /\ ChannelsRespected /\ [Next]_vars
        => (TypeOK /\ Standing /\ ChannelsRespected)'
  BY TypeStep, StandingStep, ChannelsStep
<1> QED BY <1>1, <1>2, PTL DEF Spec

-----------------------------------------------------------------------------
(* Packets that come again *)

\* A packet that comes again before the client has ever connected to the broker
\* anew comes again because of a restart, and its connection is gone.
AgainForNothing ==
  reconnects = 0 =>
    \A k \in Consumers : \A i \in 1..Len(topic[k]) :
      topic[k][i].again => connections[topic[k][i].conn] = NoConnection

\* No step brings such a connection back: new ones have ids that no packet names.
LEMMA AgainStep == TypeOK /\ AgainForNothing /\ [Next]_vars => AgainForNothing'
<1> SUFFICES ASSUME TypeOK, AgainForNothing, [Next]_vars, reconnects' = 0,
                    NEW k \in Consumers, NEW i \in 1..Len(topic'[k]), topic'[k][i].again
             PROVE  connections'[topic'[k][i].conn] = NoConnection
  BY DEF AgainForNothing
<1>1. reconnects \in Nat /\ topic[k] \in Seq(Message)
  BY DEF TypeOK
<1>2. CASE Restart
  <2>1. PICK acked \in [Consumers -> 0..MaxPublished + MaxReconnects] :
          /\ \A j \in Consumers : acked[j] <= Len(topic[j])
          /\ topic' = [j \in Consumers |-> Left(topic[j], acked[j])]
    BY <1>2 DEF Restart
  <2>2. topic'[k] \in Seq(Message)
    <3>1. acked[k] \in Nat /\ acked[k] <= Len(topic[k])
      BY <2>1, MassDriverAssumption
    <3> QED BY <1>1, <2>1, <3>1, LeftMessages
  <2>3. topic'[k][i] \in Message
    BY <2>2, ElementOfSeq
  <2> QED BY <1>2, <2>3 DEF Restart, Message
<1>3. CASE \E j \in Consumers : Reconnect(j)
  BY <1>1, <1>3 DEF Reconnect
<1>4. CASE ~Restart /\ ~\E j \in Consumers : Reconnect(j)
  <2>1. reconnects' = reconnects
    BY <1>4 DEF Next, Connect, Build, Carry, Fail, Create, Accept, Reject, Close, Delete, SetStatus,
               UpgradeChannels, DeleteStation, CreateStation, Publish, Refuse, Send, Land, Return,
               Ack, broker, vars
  <2>2. \A j \in 1..Len(topic[k]) :
          topic[k][j].again => connections[topic[k][j].conn] = NoConnection
    BY <2>1 DEF AgainForNothing
  <2>3. CASE UNCHANGED <<connections, topic>>
    BY <2>2, <2>3
  <2>4. CASE Connect
    <3>1. topic' = topic
      BY <2>4 DEF Connect, Create, Accept, Reject, Close, Delete, SetStatus, broker
    <3>2. topic[k][i] \in Message /\ connections[topic[k][i].conn] = NoConnection
      BY <1>1, <2>2, <3>1, ElementOfSeq
    <3> DEFINE c == topic[k][i].conn
    <3>3. c \in ConnIds
      BY <3>2 DEF Message
    <3>4. ASSUME NEW d \in ConnIds, connections[d] # NoConnection \/ Fresh(d),
                 NEW value, connections' = [connections EXCEPT ![d] = value]
          PROVE  connections'[c] = NoConnection
      <4>1. d # c
        BY <1>1, <3>1, <3>2, <3>4 DEF Fresh
      <4> HIDE DEF c
      <4>2. connections'[c] = connections[c]
        BY <3>3, <3>4, <4>1 DEF TypeOK
      <4> QED BY <3>2, <4>2 DEF c
    <3>5. \E d \in ConnIds : /\ connections[d] # NoConnection \/ Fresh(d)
                             /\ \E value : connections' = [connections EXCEPT ![d] = value]
      BY <2>4 DEF Connect, Create, Accept, Reject, Close, Delete, SetStatus, HasStatus
    <3> QED BY <3>1, <3>4, <3>5
  <2>5. CASE \E j \in Consumers, c \in ConnIds, packet \in Packets : Publish(j, c, packet)
    <3>1. PICK j \in Consumers, c \in ConnIds, packet \in Packets : Publish(j, c, packet)
      BY <2>5
    <3> DEFINE m == [conn |-> c, packet |-> packet, again |-> FALSE]
    <3>2. m \in Message /\ ~m.again
      BY DEF Message
    <3>3. connections' = connections /\ topic' = [topic EXCEPT ![j] = Append(@, m)]
      BY <3>1 DEF Publish
    <3> HIDE DEF m
    <3>4. topic'[k] = topic[k] \/ topic'[k] = Append(topic[k], m)
      BY <3>3 DEF TypeOK
    <3>5. topic'[k][i] = m \/ (i \in 1..Len(topic[k]) /\ topic'[k][i] = topic[k][i])
      BY <1>1, <3>2, <3>4
    <3> QED BY <2>2, <3>2, <3>3, <3>5
  <2>6. CASE \E j \in Consumers : Ack(j)
    <3>1. PICK j \in Consumers : Ack(j)
      BY <2>6
    <3>2. connections' = connections /\ topic' = [topic EXCEPT ![j] = Tail(@)]
      BY <3>1 DEF Ack
    <3>3. j = k => topic[k] # <<>>
      BY <3>1 DEF Ack, TypeOK, Acking, Idle
    <3>4. \E n \in 1..Len(topic[k]) : topic'[k][i] = topic[k][n]
      <4>1. CASE j = k
        <5>1. topic'[k] = Tail(topic[k])
          BY <3>2, <4>1 DEF TypeOK
        <5> QED BY <1>1, <3>3, <4>1, <5>1
      <4>2. CASE j # k
        <5>1. topic'[k] = topic[k]
          BY <3>2, <4>2 DEF TypeOK
        <5> QED BY <5>1
      <4> QED BY <4>1, <4>2
    <3> QED BY <2>2, <3>2, <3>4
  <2> QED
    BY <1>4, <2>3, <2>4, <2>5, <2>6
    DEF Next, Build, Carry, Fail, UpgradeChannels, DeleteStation, CreateStation, Refuse, Send, Land,
        Return, broker, vars
<1> QED BY <1>2, <1>3, <1>4

\* However a packet comes again, it takes goods from its sender a second time only
\* if the client has connected to the broker anew: after a restart alone, the
\* connection it names is gone.
THEOREM TakenCorrect == Spec => TakenTwiceOnlyByReconnect
<1> DEFINE Taken == \A k \in Consumers :
       consumer[k] = Idle /\ stock' # stock /\ consumer'[k] # Idle /\ First(k).again
         => reconnects > 0
<1>1. TypeOK /\ AgainForNothing /\ [Next]_vars => [Taken]_vars
  <2> SUFFICES ASSUME TypeOK, AgainForNothing, Next, NEW k \in Consumers,
                      consumer[k] = Idle, stock' # stock, consumer'[k] # Idle, First(k).again,
                      reconnects = 0
               PROVE  FALSE
    BY DEF TypeOK
  <2>1. Send(k)
    <3>1. consumer' # consumer
      OBVIOUS
    <3>2. ~Restart /\ ~Connect /\ ~Build
      BY <3>1 DEF Restart, Connect, Create, Accept, Reject, Close, Delete, SetStatus, Build,
                  UpgradeChannels, DeleteStation, CreateStation
    <3>3. PICK j \in Consumers : Carry(j)
      BY <3>1, <3>2 DEF Next, Publish, Fail, Reconnect
    <3>4. ~Refuse(j) /\ ~Ack(j)
      BY DEF Refuse, Ack
    <3>5. j = k
      BY <3>3, <3>4 DEF Carry, Send, Land, Return, Set, TypeOK
    <3>6. ~Land(j) /\ ~Return(j)
      BY <3>5 DEF Land, Return, Idle
    <3> QED BY <3>3, <3>4, <3>5, <3>6 DEF Carry
  <2>2. topic[k] \in Seq(Message) /\ topic[k] # <<>>
    BY <2>1 DEF TypeOK, Send, Receives
  <2>3. topic[k][1].again /\ 1 \in 1..Len(topic[k])
    BY <2>2 DEF First
  <2>4. connections[topic[k][1].conn] = NoConnection
    BY <2>3 DEF AgainForNothing
  <2> QED BY <2>1, <2>2, <2>4, SMTT(60) DEF Send, Accepted, HasStatus, First
<1>2. Init => AgainForNothing
  BY DEF Init, AgainForNothing
<1> QED BY <1>1, <1>2, TypeInit, TypeStep, AgainStep, PTL DEF Spec, TakenTwiceOnlyByReconnect

-----------------------------------------------------------------------------
(* Goods *)

\* No packet names a good twice: then what is deducted is what was compared with
\* the inventory, and nothing wraps.
NamedOnce == \A packet \in Packets : packet.total = packet.largest

\* A packet carries no less than nothing.
LEMMA CarriedNat ==
  ASSUME NEW job \in Job
  PROVE  Carried(job) \in Nat
  BY DEF Carried, Job, Idle, Acking

\* What a consumer sends is what leaves the sender: no more than there is.
LEMMA SendMoves ==
  ASSUME NamedOnce, TypeOK, NEW k \in Consumers, Send(k)
  PROVE  \E from \in Stations, total \in Nat :
           /\ total <= stock[from]
           /\ stock' = [stock EXCEPT ![from] = @ - total]
           /\ Carried(consumer[k]) = 0
           /\ \/ Carried(consumer'[k]) = total
              \/ Carried(consumer'[k]) = 0 /\ connected # Stations
<1> DEFINE m == First(k)
           from == connections[m.conn].from
           to == connections[m.conn].to
           total == m.packet.total
<1>1. m \in Message
  BY DEF Send, Receives, First, TypeOK
<1>2. connections[m.conn] \in Connection
  BY <1>1 DEF Send, Accepted, HasStatus, Message, TypeOK
<1>3. m.packet \in Packets /\ total \in Nat /\ total = m.packet.largest
  BY <1>1, MassDriverAssumption DEF Message, NamedOnce
<1>4. from \in Stations /\ to \in Stations
  BY <1>2 DEF Connection
<1>5. total <= stock[from] /\ stock' = [stock EXCEPT ![from] = Deducted(@, total)]
  BY <1>3 DEF Send, Accepted
<1>6. consumer[k] = Idle
      /\ consumer'[k] = IF to \in connected
                        THEN [pc |-> "flight", from |-> from, to |-> to, total |-> total]
                        ELSE Acking
  BY DEF Send, Receives, Set, TypeOK
<1> HIDE DEF m, from, to, total
<1>7. stock' = [stock EXCEPT ![from] = @ - total]
  BY <1>3, <1>4, <1>5 DEF Deducted, TypeOK
<1>8. Carried(consumer[k]) = 0 /\ Carried(consumer'[k]) = IF to \in connected THEN total ELSE 0
  BY <1>6 DEF Carried, Idle, Acking
<1> QED BY <1>3, <1>4, <1>5, <1>7, <1>8

\* A job in flight lands at its receiver, turns back, or is dropped where the
\* station is gone.
LEMMA FlightMoves ==
  ASSUME TypeOK, NEW k \in Consumers, Land(k) \/ Return(k)
  PROVE  \E s \in Stations, total \in Nat :
           /\ Carried(consumer[k]) = total
           /\ \/ /\ stock' = [stock EXCEPT ![s] = @ + total] /\ Carried(consumer'[k]) = 0
                 /\ \/ Land(k) /\ Fits(s, total)
                    \/ consumer[k].pc = "return" /\ consumer[k].from = s
              \/ stock' = stock /\ Carried(consumer'[k]) = total
              \/ stock' = stock /\ Carried(consumer'[k]) = 0 /\ connected # Stations
<1> DEFINE job == consumer[k]
<1>1. job \in [pc : {"flight", "return"}, from : Stations, to : Stations, total : Nat]
  BY DEF Land, Return, TypeOK, Job, Idle, Acking
<1>2. Carried(job) = job.total /\ job.total \in Nat /\ job.from \in Stations /\ job.to \in Stations
  BY <1>1 DEF Carried
<1>3. CASE Land(k)
  <2>1. consumer' = [consumer EXCEPT ![k] = Acking]
        \/ consumer' = [consumer EXCEPT ![k] = [job EXCEPT !.pc = "return"]]
    BY <1>3 DEF Land, Set
  <2>2. \A new : consumer' = [consumer EXCEPT ![k] = new] => consumer'[k] = new
    BY DEF TypeOK
  <2>3. /\ Carried(Acking) = 0
        /\ Carried([job EXCEPT !.pc = "return"]) = job.total
    BY <1>1 DEF Carried, Acking
  <2>4. CASE /\ job.to \in connected /\ Fits(job.to, job.total)
             /\ stock' = [stock EXCEPT ![job.to] = @ + job.total]
             /\ consumer' = [consumer EXCEPT ![k] = Acking]
    <3>1. Carried(consumer'[k]) = 0
      BY <2>2, <2>3, <2>4
    <3> QED BY <1>2, <1>3, <2>4, <3>1
  <2>5. CASE stock' = stock /\ consumer' = [consumer EXCEPT ![k] = [job EXCEPT !.pc = "return"]]
    <3>1. Carried(consumer'[k]) = job.total
      BY <2>2, <2>3, <2>5
    <3> QED BY <1>2, <2>5, <3>1
  <2>6. CASE job.to \notin connected /\ stock' = stock /\ consumer' = [consumer EXCEPT ![k] = Acking]
    <3>1. Carried(consumer'[k]) = 0
      BY <2>2, <2>3, <2>6
    <3> QED BY <1>2, <2>6, <3>1
  <2> QED BY <1>3, <2>4, <2>5, <2>6 DEF Land, Set
<1>4. CASE Return(k)
  <2>1. consumer'[k] = Acking /\ job.pc = "return"
    BY <1>4 DEF Return, Set, TypeOK
  <2>2. Carried(consumer'[k]) = 0
    BY <2>1 DEF Carried, Acking
  <2>3. stock' = IF job.from \in connected THEN [stock EXCEPT ![job.from] = @ + job.total] ELSE stock
    BY <1>4 DEF Return
  <2>4. CASE job.from \in connected
    BY <1>2, <2>1, <2>2, <2>3, <2>4
  <2>5. CASE job.from \notin connected
    BY <1>2, <2>2, <2>3, <2>5
  <2> QED BY <2>4, <2>5
<1> QED BY <1>3, <1>4

\* Only a packet that turns back fills a station beyond its storage: one that lands
\* is compared with the room again when it does.
THEOREM OverfullCorrect == NamedOnce => (Spec => OverfullOnlyByReturn)
<1> SUFFICES ASSUME NamedOnce PROVE Spec => OverfullOnlyByReturn
  OBVIOUS
<1> DEFINE Overfull == \A s \in Stations :
       stock'[s] > stock[s] /\ stock'[s] > MaxStorage =>
         \E k \in Consumers : consumer[k].pc = "return" /\ consumer[k].from = s
<1>1. TypeOK /\ [Next]_vars => [Overfull]_vars
  <2> SUFFICES ASSUME TypeOK, Next, NEW s \in Stations, stock'[s] > stock[s], stock'[s] > MaxStorage
               PROVE  \E k \in Consumers : consumer[k].pc = "return" /\ consumer[k].from = s
    OBVIOUS
  <2>1. stock \in [Stations -> Nat] /\ stock[s] \in Nat /\ MaxStorage \in Nat
    BY MassDriverAssumption DEF TypeOK
  <2>2. stock' # stock
    BY <2>1
  <2>3. CASE \E t \in Stations : DeleteStation(t)
    BY <2>1, <2>3 DEF DeleteStation
  <2>4. CASE \E k \in Consumers : Send(k)
    <3>1. PICK k \in Consumers : Send(k)
      BY <2>4
    <3>2. PICK from \in Stations, total \in Nat :
            total <= stock[from] /\ stock' = [stock EXCEPT ![from] = @ - total]
      BY <3>1, SendMoves
    <3> QED BY <2>1, <3>2
  <2>5. CASE \E k \in Consumers : Land(k) \/ Return(k)
    <3>1. PICK k \in Consumers : Land(k) \/ Return(k)
      BY <2>5
    <3>2. PICK t \in Stations, total \in Nat :
            /\ stock' = [stock EXCEPT ![t] = @ + total]
            /\ \/ Fits(t, total)
               \/ consumer[k].pc = "return" /\ consumer[k].from = t
      BY <2>2, <3>1, FlightMoves
    <3>3. t = s
      BY <2>1, <3>2
    <3>4. ~Fits(t, total)
      BY <2>1, <3>2, <3>3 DEF Fits
    <3> QED BY <3>2, <3>3, <3>4
  <2> QED BY <2>2, <2>3, <2>4, <2>5
          DEF Next, Connect, Create, Accept, Reject, Close, Delete, SetStatus, Build, UpgradeChannels,
              CreateStation, Publish, Carry, Refuse, Ack, Fail, Restart, Reconnect
<1> QED BY <1>1, TypeInit, TypeStep, PTL DEF Spec, OverfullOnlyByReturn

\* The goods of the stations and of the flights are numbers, before a step and after.
LEMMA GoodsNat ==
  TypeOK => SumFunctionOnSet(stock, Stations) \in Nat /\ InFlight \in Nat
<1> SUFFICES ASSUME TypeOK
             PROVE  SumFunctionOnSet(stock, Stations) \in Nat /\ InFlight \in Nat
  OBVIOUS
<1> DEFINE carried == [k \in Consumers |-> Carried(consumer[k])]
<1>1. \A k \in Consumers : carried[k] \in Nat
  BY CarriedNat DEF TypeOK
<1>2. \A s \in Stations : stock[s] \in Nat
  BY DEF TypeOK
<1> HIDE DEF carried
<1>3. SumFunctionOnSet(carried, Consumers) \in Nat /\ SumFunctionOnSet(stock, Stations) \in Nat
  BY <1>1, <1>2, SumNatural, MassDriverAssumption
<1> QED BY <1>3 DEF InFlight, carried

\* Goods of one station, and of one consumer, that change.
LEMMA StockChange ==
  ASSUME TypeOK, TypeOK', NEW s \in Stations, \A t \in Stations \ {s} : stock'[t] = stock[t]
  PROVE  SumFunctionOnSet(stock', Stations)
           = SumFunctionOnSet(stock, Stations) + (stock'[s] - stock[s])
<1>1. \A t \in Stations : stock[t] \in Int /\ stock'[t] \in Int
  BY DEF TypeOK
<1>2. IsFiniteSet(Stations)
  BY MassDriverAssumption
<1> QED BY <1>1, <1>2, SumChange, SMTT(30)

\* One consumer takes a step.
LEMMA FlightChange ==
  ASSUME TypeOK, TypeOK', NEW k \in Consumers, \A j \in Consumers \ {k} : consumer'[j] = consumer[j]
  PROVE  InFlight' = InFlight + (Carried(consumer'[k]) - Carried(consumer[k]))
<1> DEFINE before == [j \in Consumers |-> Carried(consumer[j])]
           after == [j \in Consumers |-> Carried(consumer'[j])]
<1>1. \A j \in Consumers : before[j] \in Int /\ after[j] \in Int
  <2>1. \A j \in Consumers : consumer[j] \in Job /\ consumer'[j] \in Job
    BY DEF TypeOK
  <2> QED BY <2>1, CarriedNat
<1>2. \A j \in Consumers \ {k} : after[j] = before[j]
  OBVIOUS
<1>3. before[k] = Carried(consumer[k]) /\ after[k] = Carried(consumer'[k])
  OBVIOUS
<1>4. IsFiniteSet(Consumers)
  BY MassDriverAssumption
<1>5. InFlight = SumFunctionOnSet(before, Consumers) /\ InFlight' = SumFunctionOnSet(after, Consumers)
  BY DEF InFlight
<1> HIDE DEF before, after
<1>6. SumFunctionOnSet(after, Consumers) = SumFunctionOnSet(before, Consumers) + (after[k] - before[k])
  BY <1>1, <1>2, <1>4, SumChange, SMTT(30)
<1> QED BY <1>3, <1>5, <1>6

\* Packets move goods and make none, and goods are lost only where a station has
\* been removed, or with the flights a restart ends: whatever happens to the
\* connection or the stations during a flight, and however often the packet comes.
THEOREM GoodsCorrect == NamedOnce => (Spec => GoodsLostOnlyWithStation)
<1> SUFFICES ASSUME NamedOnce PROVE Spec => GoodsLostOnlyWithStation
  OBVIOUS
<1> DEFINE Kept == /\ Goods' <= Goods
                   /\ Goods' < Goods => \/ connected' # Stations
                                        \/ restarts' # restarts /\ Goods - Goods' = InFlight
<1>1. TypeOK /\ TypeOK' /\ [Next]_vars => [Kept]_vars
  <2> SUFFICES ASSUME TypeOK, TypeOK', Next PROVE Kept
    OBVIOUS
  <2> DEFINE kept == SumFunctionOnSet(stock, Stations)
             kept2 == SumFunctionOnSet(stock', Stations)
  <2>1. kept \in Nat /\ InFlight \in Nat
    BY GoodsNat
  <2>2. kept2 \in Nat /\ InFlight' \in Nat
    <3>1. (SumFunctionOnSet(stock, Stations) \in Nat /\ InFlight \in Nat)'
      BY GoodsNat, PTL
    <3> QED BY <3>1
  <2>3. Goods = kept + InFlight /\ Goods' = kept2 + InFlight'
    BY DEF Goods
  <2>4. stock' = stock => kept2 = kept
    OBVIOUS
  <2> HIDE DEF kept, kept2
  <2>5. CASE stock' = stock /\ InFlight' = InFlight
    BY <2>1, <2>3, <2>4, <2>5
  <2>6. CASE Restart
    <3>1. stock' = stock /\ restarts \in Nat /\ restarts' # restarts
      BY <2>6 DEF Restart, TypeOK
    <3>2. InFlight' \in Nat
      BY <2>2
    <3> DEFINE after == [j \in Consumers |-> Carried(consumer'[j])]
               none == [j \in Consumers |-> 0]
    <3>3. \A j \in Consumers : none[j] \in Int /\ after[j] \in Int /\ after[j] <= none[j]
      <4>1. \A j \in Consumers : consumer'[j] = Idle
        BY <2>6 DEF Restart
      <4> QED BY <4>1 DEF Carried, Idle
    <3>4. \A j \in Consumers : after[j] = 0
      <4>1. \A j \in Consumers : consumer'[j] = Idle
        BY <2>6 DEF Restart
      <4> QED BY <4>1 DEF Carried, Idle
    <3>5. InFlight' = SumFunctionOnSet(after, Consumers)
      BY DEF InFlight
    <3> HIDE DEF after
    <3>6. SumFunctionOnSet(after, Consumers) = 0
      BY <3>4, SumZero, MassDriverAssumption
    <3>7. Goods' <= Goods /\ Goods - Goods' = InFlight
      BY <2>1, <2>2, <2>3, <2>4, <3>1, <3>5, <3>6
    <3> QED BY <3>1, <3>7
  <2>7. CASE \E s \in Stations : DeleteStation(s)
    <3>1. PICK s \in Stations : DeleteStation(s)
      BY <2>7
    <3>2. stock[s] \in Nat /\ stock'[s] = 0 /\ \A t \in Stations \ {s} : stock'[t] = stock[t]
      BY <3>1 DEF DeleteStation, TypeOK
    <3>3. kept2 = kept + (stock'[s] - stock[s])
      BY <3>2, StockChange DEF kept, kept2
    <3>4. InFlight' = InFlight /\ connected' # Stations
      BY <3>1 DEF DeleteStation, InFlight
    <3> QED BY <2>1, <2>2, <2>3, <3>2, <3>3, <3>4
  <2>8. ASSUME NEW k \in Consumers, Send(k) \/ Land(k) \/ Return(k)
        PROVE  Kept
    <3>1. connected' = connected /\ \A j \in Consumers \ {k} : consumer'[j] = consumer[j]
      BY <2>8 DEF Send, Land, Return, Set, TypeOK
    <3>2. InFlight' = InFlight + (Carried(consumer'[k]) - Carried(consumer[k]))
      BY <3>1, FlightChange
    <3>3. stock \in [Stations -> Nat] /\ consumer[k] \in Job
      BY DEF TypeOK
    <3>4. CASE Send(k)
      <4>1. PICK s \in Stations, total \in Nat :
              /\ total <= stock[s] /\ stock' = [stock EXCEPT ![s] = @ - total]
              /\ Carried(consumer[k]) = 0
              /\ \/ Carried(consumer'[k]) = total
                 \/ Carried(consumer'[k]) = 0 /\ connected # Stations
        BY <3>4, SendMoves
      <4>2. stock'[s] = stock[s] - total /\ \A t \in Stations \ {s} : stock'[t] = stock[t]
        BY <3>3, <4>1
      <4>3. kept2 = kept + (stock'[s] - stock[s])
        BY <4>2, StockChange DEF kept, kept2
      <4>4. stock[s] \in Nat /\ stock'[s] - stock[s] = 0 - total
        BY <3>3, <4>2
      <4>5. kept2 = kept - total
        BY <2>1, <4>3, <4>4
      <4>6. CASE Carried(consumer'[k]) = total
        BY <2>1, <2>3, <3>2, <4>1, <4>5, <4>6
      <4>7. CASE Carried(consumer'[k]) = 0 /\ connected # Stations
        BY <2>1, <2>3, <3>1, <3>2, <4>1, <4>5, <4>7
      <4> QED BY <4>1, <4>6, <4>7
    <3>5. CASE Land(k) \/ Return(k)
      <4>1. PICK s \in Stations, total \in Nat :
              /\ Carried(consumer[k]) = total
              /\ \/ stock' = [stock EXCEPT ![s] = @ + total] /\ Carried(consumer'[k]) = 0
                 \/ stock' = stock /\ Carried(consumer'[k]) = total
                 \/ stock' = stock /\ Carried(consumer'[k]) = 0 /\ connected # Stations
        BY <3>5, FlightMoves
      <4>2. CASE stock' = [stock EXCEPT ![s] = @ + total] /\ Carried(consumer'[k]) = 0
        <5>1. stock'[s] = stock[s] + total /\ \A t \in Stations \ {s} : stock'[t] = stock[t]
          BY <3>3, <4>2
        <5>2. kept2 = kept + (stock'[s] - stock[s])
          BY <5>1, StockChange DEF kept, kept2
        <5>3. stock[s] \in Nat /\ stock'[s] - stock[s] = total
          BY <3>3, <5>1
        <5> QED BY <2>1, <2>3, <3>2, <4>1, <4>2, <5>2, <5>3
      <4>3. CASE stock' = stock /\ Carried(consumer'[k]) = total
        BY <2>1, <2>3, <2>4, <3>2, <4>1, <4>3
      <4>4. CASE stock' = stock /\ Carried(consumer'[k]) = 0 /\ connected # Stations
        BY <2>1, <2>3, <2>4, <3>1, <3>2, <4>1, <4>4
      <4> QED BY <4>1, <4>2, <4>3, <4>4
    <3> QED BY <2>8, <3>4, <3>5
  <2>9. CASE \E k \in Consumers : Refuse(k) \/ Ack(k)
    <3>1. PICK k \in Consumers : Refuse(k) \/ Ack(k)
      BY <2>9
    <3>2. /\ \A j \in Consumers \ {k} : consumer'[j] = consumer[j]
          /\ {consumer[k], consumer'[k]} \subseteq {Idle, Acking} /\ stock' = stock
      BY <3>1 DEF Refuse, Ack, Receives, Set, TypeOK
    <3>3. Carried(consumer[k]) = 0 /\ Carried(consumer'[k]) = 0
      BY <3>2 DEF Carried, Idle, Acking
    <3>4. InFlight' = InFlight + (Carried(consumer'[k]) - Carried(consumer[k]))
      BY <3>2, FlightChange
    <3>5. InFlight' = InFlight
      BY <2>1, <3>3, <3>4
    <3> QED BY <2>5, <3>2, <3>5
  <2>10. CASE \/ Connect \/ \E s \in Stations : UpgradeChannels(s) \/ CreateStation(s)
              \/ \E k \in Consumers, c \in ConnIds, packet \in Packets : Publish(k, c, packet)
              \/ \E k \in Consumers : Reconnect(k)
    <3>1. stock' = stock /\ consumer' = consumer
      BY <2>10 DEF Connect, Create, Accept, Reject, Close, Delete, SetStatus, UpgradeChannels,
                   CreateStation, Publish, Reconnect
    <3>2. InFlight' = InFlight
      BY <3>1 DEF InFlight
    <3> QED BY <2>5, <3>1, <3>2
  <2> HIDE DEF Kept
  <2> QED BY <2>6, <2>7, <2>8, <2>9, <2>10 DEF Next, Build, Carry, Fail
<1> QED BY <1>1, TypeInit, TypeStep, PTL DEF Spec, GoodsLostOnlyWithStation
=============================================================================
