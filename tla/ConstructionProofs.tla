-------------------------- MODULE ConstructionProofs --------------------------
(***************************************************************************)
(* What TLAPS proves about module Construction, for any planets, players,  *)
(* facilities, projects, requests, edits and loads of snapshots, and       *)
(* however they interleave: every variable keeps its type, a project moves *)
(* forward, no project takes a station from a player, every upgrade that   *)
(* was applied is there, once, and a fee is lost only where the goods were *)
(* missing.                                                                *)
(***************************************************************************)
EXTENDS Construction, Sums

-----------------------------------------------------------------------------
(* Type correctness *)

\* The snapshot has the shape of what it was taken of, and who was gone when it
\* was taken is gone.
SavedOK ==
  saved # NoSave =>
    /\ saved.planet \in [Planets -> PlanetRecord]
    /\ \A p \in Planets : saved.planet[p].owner # Nobody => saved.planet[p].status = "connected"
    /\ saved.credits \in [Players -> Nat]
    /\ saved.projects \in [ProjectIds -> Project \cup {NoProject}]
    /\ saved.edited \subseteq Editable /\ saved.gone \subseteq gone

Typed == TypeOK /\ SavedOK

\* The initial state is well typed; saved is a value of its own at the start.
LEMMA TypedInit == Init => Typed
<1> SUFFICES ASSUME Init PROVE Typed
  OBVIOUS
<1> USE ConstructionAssumption
<1>1. planet \in [Planets -> PlanetRecord]
  BY DEF Init, PlanetRecord, Basic, Empty, Place
<1>2. \A p \in Planets : planet[p].owner # Nobody => Connected(p)
  BY DEF Init, Connected
<1>3. loads \in Seq({"restart", "reload"}) /\ Len(loads) <= MaxLoads
  BY DEF Init
<1> QED BY <1>1, <1>2, <1>3 DEF Init, Typed, TypeOK, SavedOK

\* Steps of requests.
LEMMA TypedRequest ==
  ASSUME Typed, NEW t \in Threads, NEW pl \in Players, NEW kind \in Kinds,
         NEW from \in Planets, NEW target \in Planets, NEW extra \in Extras,
         Request(t, pl, kind, from, target, extra)
  PROVE  Typed'
<1> USE DEF Typed
<1> DEFINE pr == [kind |-> kind, owner |-> pl, from |-> from, target |-> target,
                  extra |-> IF kind = "found_settlement" THEN extra ELSE 0,
                  status |-> IF TwoPhase(kind) THEN "in_transit" ELSE "building"]
<1>1. pr \in Project
  BY ConstructionAssumption DEF Project, Statuses
<1>2. handler' \in [Threads -> {Idle, Cut} \cup Order]
  <2>1. [pc |-> "pay", project |-> pr] \in Order
    BY <1>1 DEF Order
  <2> HIDE DEF pr
  <2>2. handler' = [handler EXCEPT ![t] = [pc |-> "pay", project |-> pr]]
    BY DEF Request, pr
  <2> QED BY <2>1, <2>2 DEF TypeOK
<1>3. UNCHANGED <<planet, credits, projects, tasks, edited, gone, deletion, loads, recovering, saved>>
  BY DEF Request, admin, snapshots
<1> HIDE DEF pr
<1> QED BY <1>2, <1>3 DEF TypeOK, SavedOK, Connected

\* A request that is served has a project.
LEMMA Served ==
  ASSUME Typed, NEW t \in Threads, handler[t].pc \in {"pay", "supply", "record"}
  PROVE  handler[t] \in Order /\ handler[t].project \in Project /\ handler[t] \notin {Idle, Cut}
  BY DEF Typed, TypeOK, Order, Idle, Cut

\* Giving a request another step, or ending it, leaves every request typed.
LEMMA HandlerGoes ==
  ASSUME Typed, NEW t \in Threads, handler[t].pc \in {"pay", "supply", "record"},
         NEW pc \in {"pay", "supply", "record"},
         handler' = [handler EXCEPT ![t].pc = pc] \/ handler' = [handler EXCEPT ![t] = Idle]
  PROVE  handler' \in [Threads -> {Idle, Cut} \cup Order]
<1>1. handler \in [Threads -> {Idle, Cut} \cup Order] /\ handler[t] \in Order
  BY Served DEF Typed, TypeOK
<1>2. [handler[t] EXCEPT !.pc = pc] \in Order
  BY <1>1 DEF Order
<1> QED BY <1>1, <1>2

\* A request keeps the types.
LEMMA TypedServe ==
  ASSUME Typed, NEW t \in Threads, Serve(t)
  PROVE  Typed'
<1> USE DEF Typed
<1>1. CASE Pay(t)
  <2> DEFINE pl == handler[t].project.owner
  <2>1. pl \in Players
    BY <1>1, Served DEF Pay, Project
  <2>2. handler' \in [Threads -> {Idle, Cut} \cup Order]
    BY <1>1, HandlerGoes DEF Pay
  <2>3. credits' \in [Players -> Nat]
    <3>1. credits' = credits \/ (credits[pl] >= Fee /\ credits' = [credits EXCEPT ![pl] = @ - Fee])
      BY <1>1 DEF Pay
    <3>2. credits \in [Players -> Nat] /\ Fee \in Nat
      BY ConstructionAssumption DEF TypeOK
    <3> HIDE DEF pl
    <3> QED BY <2>1, <3>1, <3>2
  <2>4. UNCHANGED <<planet, projects, tasks, edited, gone, deletion, loads, recovering, saved>>
    BY <1>1 DEF Pay, admin, snapshots
  <2> QED BY <2>2, <2>3, <2>4 DEF TypeOK, SavedOK, Connected
<1>2. CASE Supply(t)
  <2> DEFINE pr == handler[t].project
  <2>1. pr \in Project /\ pr.from \in Planets /\ Source(pr) \in Place /\ Supplies(pr) \in Nat
    BY <1>2, Served, ConstructionAssumption DEF Supply, Project, Source, Supplies, Place
  <2>2. handler' \in [Threads -> {Idle, Cut} \cup Order]
    BY <1>2, HandlerGoes DEF Supply
  <2> DEFINE rest == planet[pr.from].stock[Source(pr)] - Supplies(pr)
             left == [planet[pr.from].stock EXCEPT ![Source(pr)] = rest]
             home == [planet[pr.from] EXCEPT !.stock = left]
  <2>3. planet' = planet \/ (rest \in Nat /\ planet' = [planet EXCEPT ![pr.from] = home])
    <3>1. planet[pr.from].stock[Source(pr)] \in Nat
      BY <2>1 DEF TypeOK, PlanetRecord
    <3> QED BY <1>2, <2>1, <3>1 DEF Supply, Lacking
  <2>4. planet[pr.from] \in PlanetRecord
    BY <2>1 DEF TypeOK
  <2>5. rest \in Nat => left \in [Place -> Nat]
    BY <2>1, <2>4 DEF PlanetRecord
  <2> HIDE DEF pr, rest, left
  <2>6. rest \in Nat =>
          home \in PlanetRecord /\ home.owner = planet[pr.from].owner /\ home.status = planet[pr.from].status
    BY <2>4, <2>5 DEF PlanetRecord
  <2> HIDE DEF home
  <2>7. planet' \in [Planets -> PlanetRecord]
    BY <2>1, <2>3, <2>6 DEF TypeOK
  <2>8. \A p \in Planets : planet'[p].owner = planet[p].owner /\ planet'[p].status = planet[p].status
    BY <2>1, <2>3, <2>6 DEF TypeOK
  <2>9. UNCHANGED <<credits, projects, tasks, edited, gone, deletion, loads, recovering, saved>>
    BY <1>2 DEF Supply, admin, snapshots
  <2> QED BY <2>2, <2>7, <2>8, <2>9 DEF TypeOK, SavedOK, Connected
<1>3. CASE Record(t)
  <2>1. PICK id \in ProjectIds :
          /\ projects' = [projects EXCEPT ![id] = handler[t].project]
          /\ tasks' = [tasks EXCEPT ![id][OwnSlot] = Task(handler[t].project)]
    BY <1>3 DEF Record
  <2>2. handler[t].project \in Project /\ Task(handler[t].project) \in TaskRecord
    BY <1>3, Served DEF Record, Task, TaskRecord
  <2>3. projects' \in [ProjectIds -> Project \cup {NoProject}]
    BY <2>1, <2>2 DEF TypeOK
  <2>4. tasks' \in [ProjectIds -> [Slots -> {None} \cup TaskRecord]]
    BY <2>1, <2>2 DEF TypeOK
  <2>5. handler' \in [Threads -> {Idle, Cut} \cup Order]
    BY <1>3 DEF Record, TypeOK
  <2>6. UNCHANGED <<planet, credits, edited, gone, deletion, loads, recovering, saved>>
    BY <1>3 DEF Record, admin, snapshots
  <2> QED BY <2>3, <2>4, <2>5, <2>6 DEF TypeOK, SavedOK, Connected
<1> QED BY <1>1, <1>2, <1>3 DEF Serve

\* A task that is at work has a project, whose target is a planet.
LEMMA Working ==
  ASSUME Typed, NEW id \in ProjectIds, NEW i \in Slots,
         tasks[id][i].pc \in {"transit", "upgrade", "apply", "mark"}
  PROVE  /\ tasks[id][i] \in TaskRecord /\ tasks[id][i] # None
         /\ tasks[id][i].project \in Project /\ tasks[id][i].project.target \in Planets
  BY DEF Typed, TypeOK, TaskRecord, None, Project

\* What a project makes of its target is a planet, with an owner only if there is
\* a station.
LEMMA BuiltType ==
  ASSUME Typed, NEW pr \in Project
  PROVE  /\ Built(pr) \in PlanetRecord
         /\ Built(pr).owner # Nobody => Built(pr).status = "connected"
<1> USE DEF Typed
<1>1. /\ pr.target \in Planets /\ pr.owner \in Players /\ pr.extra \in Nat /\ pr.kind \in Kinds
      /\ planet[pr.target] \in PlanetRecord
  BY DEF Project, TypeOK
<1>2. Station(pr, "connected") \in PlanetRecord /\ Station(pr, "connected").status = "connected"
  BY <1>1 DEF Station, PlanetRecord, Basic, Empty, Place
<1>3. CASE pr.kind \in Facilities /\ Connected(pr.target)
  <2> DEFINE levels == [planet[pr.target].level EXCEPT ![pr.kind] = @ + 1]
             new == [planet[pr.target] EXCEPT !.level = levels]
  <2>1. levels \in [Facilities -> Nat \ {0}]
    BY <1>1, <1>3 DEF PlanetRecord
  <2>2. Built(pr) = new
    BY <1>3, ConstructionAssumption DEF Built
  <2> HIDE DEF levels
  <2>3. new \in PlanetRecord /\ new.status = planet[pr.target].status
    BY <1>1, <2>1 DEF PlanetRecord
  <2> QED BY <1>3, <2>2, <2>3 DEF Connected
<1>4. CASE ~(pr.kind \in Facilities /\ Connected(pr.target))
  BY <1>1, <1>2, <1>4 DEF Built, TypeOK, Connected
<1> QED BY <1>3, <1>4

\* So does the task of a project.
LEMMA TypedWork ==
  ASSUME Typed, NEW id \in ProjectIds, NEW i \in Slots, Work(id, i)
  PROVE  Typed'
<1> USE DEF Typed
<1>1. ASSUME NEW task \in {None} \cup TaskRecord, SetTask(id, i, task)
      PROVE  tasks' \in [ProjectIds -> [Slots -> {None} \cup TaskRecord]]
  BY <1>1 DEF SetTask, TypeOK
<1>2. projects[id] # NoProject => [pc |-> "apply", project |-> projects[id]] \in TaskRecord
  BY DEF TypeOK, TaskRecord
<1>3. ASSUME NEW status \in Statuses, projects[id] # NoProject,
             projects' = [projects EXCEPT ![id].status = status]
      PROVE  projects' \in [ProjectIds -> Project \cup {NoProject}]
  <2>1. [projects[id] EXCEPT !.status = status] \in Project
    BY <1>3 DEF TypeOK, Project
  <2> QED BY <1>3, <2>1 DEF TypeOK
<1>4. CASE StartBuilding(id, i)
  <2>1. tasks' \in [ProjectIds -> [Slots -> {None} \cup TaskRecord]]
    BY <1>1, <1>2, <1>4 DEF StartBuilding
  <2>2. projects' \in [ProjectIds -> Project \cup {NoProject}]
    BY <1>3, <1>4 DEF StartBuilding, TypeOK, Statuses
  <2>3. UNCHANGED <<planet, credits, handler, edited, gone, deletion, loads, recovering, saved>>
    BY <1>4 DEF StartBuilding, admin, snapshots
  <2> QED BY <2>1, <2>2, <2>3 DEF TypeOK, SavedOK, Connected
<1>5. CASE FinishUpgrade(id, i)
  <2>1. tasks' \in [ProjectIds -> [Slots -> {None} \cup TaskRecord]]
    BY <1>1, <1>2, <1>5 DEF FinishUpgrade
  <2>2. UNCHANGED <<planet, credits, projects, handler, edited, gone, deletion, loads, recovering, saved>>
    BY <1>5 DEF FinishUpgrade, admin, snapshots
  <2> QED BY <2>1, <2>2 DEF TypeOK, SavedOK, Connected
<1>6. CASE Apply(id, i)
  <2> DEFINE pr == tasks[id][i].project
  <2>1. pr \in Project /\ pr.target \in Planets /\ tasks[id][i] \in TaskRecord
    BY <1>6, Working DEF Apply
  <2>2. planet' = [planet EXCEPT ![pr.target] = Built(pr)]
    BY <1>6 DEF Apply
  <2>3. tasks' \in [ProjectIds -> [Slots -> {None} \cup TaskRecord]]
    <3>1. [tasks[id][i] EXCEPT !.pc = "mark"] \in TaskRecord
      BY <2>1 DEF TaskRecord
    <3>2. tasks' = [tasks EXCEPT ![id] = [@ EXCEPT ![i] = [tasks[id][i] EXCEPT !.pc = "mark"]]]
      BY <1>6 DEF Apply, GotoTask
    <3> QED BY <3>1, <3>2 DEF TypeOK
  <2> HIDE DEF pr
  <2>4. planet' \in [Planets -> PlanetRecord]
    BY <2>1, <2>2, BuiltType DEF TypeOK
  <2>5. \A p \in Planets : planet'[p].owner # Nobody => planet'[p].status = "connected"
    BY <2>1, <2>2, BuiltType DEF TypeOK, Connected
  <2>6. UNCHANGED <<credits, projects, handler, edited, gone, deletion, loads, recovering, saved>>
    BY <1>6 DEF Apply, admin, snapshots
  <2> QED BY <2>3, <2>4, <2>5, <2>6 DEF TypeOK, SavedOK, Connected
<1>7. CASE MarkComplete(id, i)
  <2>1. tasks' \in [ProjectIds -> [Slots -> {None} \cup TaskRecord]]
    BY <1>1, <1>7 DEF MarkComplete
  <2>2. projects' \in [ProjectIds -> Project \cup {NoProject}]
    BY <1>3, <1>7 DEF MarkComplete, TypeOK, Statuses
  <2>3. UNCHANGED <<planet, credits, handler, edited, gone, deletion, loads, recovering, saved>>
    BY <1>7 DEF MarkComplete, admin, snapshots
  <2> QED BY <2>1, <2>2, <2>3 DEF TypeOK, SavedOK, Connected
<1> QED BY <1>4, <1>5, <1>6, <1>7 DEF Work

\* What the admin does.
LEMMA TypedAdmin ==
  ASSUME Typed,
         \/ \E p \in Planets : RemoveStation(p)
         \/ \E p \in Planets, pl \in Players : PutStation(p, pl)
         \/ \E pl \in Players : DropProjects(pl)
         \/ Disown \/ Unregister
  PROVE  Typed'
<1> USE DEF Typed
<1>1. ASSUME NEW p \in Planets, NEW new \in PlanetRecord,
             new.owner # Nobody => new.status = "connected",
             planet' = [planet EXCEPT ![p] = new]
      PROVE  /\ planet' \in [Planets -> PlanetRecord]
             /\ \A q \in Planets : planet'[q].owner # Nobody => planet'[q].status = "connected"
  BY <1>1 DEF TypeOK, Connected
<1>2. ASSUME NEW p \in Planets, RemoveStation(p) PROVE Typed'
  <2> DEFINE new == [status |-> "settled", owner |-> Nobody, level |-> Basic, stock |-> Empty]
  <2>1. new \in PlanetRecord /\ new.owner = Nobody /\ planet' = [planet EXCEPT ![p] = new]
    BY <1>2 DEF RemoveStation, PlanetRecord, Basic, Empty, Place
  <2> HIDE DEF new
  <2>2. UNCHANGED <<credits, projects, handler, tasks, edited, gone, deletion, loads, recovering, saved>>
    BY <1>2 DEF RemoveStation, admin, snapshots
  <2> QED BY <1>1, <2>1, <2>2 DEF TypeOK, SavedOK, Connected
<1>3. ASSUME NEW p \in Planets, NEW pl \in Players, PutStation(p, pl) PROVE Typed'
  <2>1. Updated(p, pl) \in PlanetRecord /\ Updated(p, pl).status = "connected"
    <3> DEFINE levels == [f \in Facilities |-> IF f \in Fields THEN 1 ELSE planet[p].level[f]]
               new == [planet[p] EXCEPT !.owner = pl, !.level = levels]
    <3>1. planet[p] \in PlanetRecord
      BY DEF TypeOK
    <3>2. levels \in [Facilities -> Nat \ {0}]
      BY <3>1 DEF PlanetRecord
    <3>3. CASE Connected(p)
      <4>1. Updated(p, pl) = new
        BY <3>3 DEF Updated
      <4> HIDE DEF levels
      <4> QED BY <3>1, <3>2, <3>3, <4>1 DEF PlanetRecord, Connected
    <3>4. CASE ~Connected(p)
      BY <3>4 DEF Updated, PlanetRecord, Basic, Empty, Place
    <3> QED BY <3>3, <3>4
  <2>2. planet' = [planet EXCEPT ![p] = Updated(p, pl)] /\ edited' \subseteq Editable
    BY <1>3 DEF PutStation, TypeOK
  <2>3. UNCHANGED <<credits, projects, handler, tasks, gone, deletion, loads, recovering, saved>>
    BY <1>3 DEF PutStation, snapshots
  <2> QED BY <1>1, <2>1, <2>2, <2>3 DEF TypeOK, SavedOK, Connected
<1>4. ASSUME NEW pl \in Players, DropProjects(pl) PROVE Typed'
  <2>1. projects' \in [ProjectIds -> Project \cup {NoProject}]
    BY <1>4 DEF DropProjects, TypeOK
  <2>2. deletion' \in [pc : {"disown", "unregister"}, player : Deletable \ gone]
    BY <1>4 DEF DropProjects
  <2>3. UNCHANGED <<planet, credits, handler, tasks, edited, gone, loads, recovering, saved>>
    BY <1>4 DEF DropProjects, snapshots
  <2> QED BY <2>1, <2>2, <2>3 DEF TypeOK, SavedOK, Connected
<1>5. CASE Disown
  <2>1. ASSUME NEW p \in Planets
        PROVE  /\ planet'[p] \in PlanetRecord
               /\ planet'[p].owner # Nobody => planet'[p].status = "connected"
    <3>1. planet[p] \in PlanetRecord
      BY DEF TypeOK
    <3>2. [planet[p] EXCEPT !.owner = Nobody] \in PlanetRecord
      BY <3>1 DEF PlanetRecord
    <3>3. [planet[p] EXCEPT !.owner = Nobody].owner = Nobody
      BY <3>1 DEF PlanetRecord
    <3> QED BY <1>5, <3>1, <3>2, <3>3 DEF Disown, TypeOK, Connected
  <2>2. planet' \in [Planets -> PlanetRecord]
    BY <1>5, <2>1 DEF Disown
  <2>3. deletion' \in [pc : {"disown", "unregister"}, player : Deletable \ gone]
    BY <1>5 DEF Disown, TypeOK, Idle
  <2>4. UNCHANGED <<credits, projects, handler, tasks, edited, gone, loads, recovering, saved>>
    BY <1>5 DEF Disown, snapshots
  <2> QED BY <2>1, <2>2, <2>3, <2>4 DEF TypeOK, SavedOK, Connected
<1>6. CASE Unregister
  <2>1. deletion.player \in Deletable
    BY <1>6 DEF Unregister, TypeOK, Idle
  <2>2. gone' = gone \cup {deletion.player} /\ deletion' = Idle
    BY <1>6 DEF Unregister
  <2>3. UNCHANGED <<planet, credits, projects, handler, tasks, edited, loads, recovering, saved>>
    BY <1>6 DEF Unregister, snapshots
  <2> QED BY <2>1, <2>2, <2>3 DEF TypeOK, SavedOK, Connected
<1> QED BY <1>2, <1>3, <1>4, <1>5, <1>6

\* Snapshots: what is loaded was there.
LEMMA TypedSnapshots ==
  ASSUME Typed, Save \/ Restart \/ Reload \/ Recover
  PROVE  Typed'
<1> USE DEF Typed
<1>1. ASSUME NEW ps \in [ProjectIds -> Project \cup {NoProject}], NEW id \in ProjectIds
      PROVE  Recovered(ps[id]) \in {None} \cup TaskRecord
  BY <1>1 DEF Recovered, Task, TaskRecord
<1>2. CASE Save
  <2>1. UNCHANGED <<planet, credits, projects, handler, tasks, edited, gone, deletion, loads, recovering>>
    BY <1>2 DEF Save, admin
  <2>2. saved' = [planet |-> planet, credits |-> credits, projects |-> projects,
                  gone |-> gone, edited |-> edited]
    BY <1>2 DEF Save
  <2>3. SavedOK'
    BY <2>1, <2>2 DEF TypeOK, SavedOK, Connected
  <2> QED BY <2>1, <2>3 DEF TypeOK, Connected
<1>3. ASSUME NEW how \in {"restart", "reload"}, Loaded(how)
      PROVE  /\ planet' \in [Planets -> PlanetRecord]
             /\ \A p \in Planets : planet'[p].owner # Nobody => Connected(p)'
             /\ credits' \in [Players -> Nat]
             /\ projects' \in [ProjectIds -> Project \cup {NoProject}]
             /\ edited' \subseteq Editable /\ gone' \subseteq gone /\ gone' \subseteq Deletable
             /\ loads' \in Seq({"restart", "reload"}) /\ Len(loads') <= MaxLoads
             /\ SavedOK'
  <2>1. loads' \in Seq({"restart", "reload"}) /\ Len(loads') <= MaxLoads
    BY <1>3, ConstructionAssumption DEF Loaded, TypeOK
  <2> QED BY <1>3, <2>1 DEF Loaded, SavedOK, TypeOK, Connected
<1>4. CASE Restart
  <2>1. tasks' \in [ProjectIds -> [Slots -> {None} \cup TaskRecord]]
    <3>1. saved.projects \in [ProjectIds -> Project \cup {NoProject}]
      BY <1>4 DEF Restart, Loaded, SavedOK
    <3> QED BY <1>1, <1>4, <3>1 DEF Restart
  <2> QED BY <1>3, <1>4, <2>1 DEF Restart, TypeOK
<1>5. CASE Reload
  <2>1. deletion' = deletion /\ handler' = handler /\ tasks' = tasks /\ recovering' = TRUE
    BY <1>5 DEF Reload
  <2> QED BY <1>3, <1>5, <2>1 DEF Reload, TypeOK
<1>6. CASE Recover
  <2>1. tasks' \in [ProjectIds -> [Slots -> {None} \cup TaskRecord]]
    <3>1. ASSUME NEW id \in ProjectIds
          PROVE  tasks'[id] \in [Slots -> {None} \cup TaskRecord]
      <4>1. Recovered(projects[id]) \in {None} \cup TaskRecord
        BY <1>1 DEF TypeOK
      <4>2. tasks'[id] = IF Recovered(projects[id]) = None THEN tasks[id]
                         ELSE [tasks[id] EXCEPT ![OwnSlot - 1] = Recovered(projects[id])]
        BY <1>6 DEF Recover
      <4>3. tasks[id] \in [Slots -> {None} \cup TaskRecord]
        BY DEF TypeOK
      <4>4. ASSUME NEW task \in {None} \cup TaskRecord, NEW n
            PROVE  [tasks[id] EXCEPT ![n] = task] \in [Slots -> {None} \cup TaskRecord]
        BY <4>3
      <4> QED BY <4>1, <4>2, <4>3, <4>4
    <3>2. tasks' = [id \in ProjectIds |-> tasks'[id]]
      BY <1>6 DEF Recover
    <3> QED BY <3>1, <3>2
  <2>2. UNCHANGED <<planet, credits, projects, handler, edited, gone, deletion, loads, saved>>
    BY <1>6 DEF Recover, admin
  <2>3. recovering' = FALSE
    BY <1>6 DEF Recover
  <2> QED BY <2>1, <2>2, <2>3 DEF TypeOK, SavedOK, Connected
<1> QED BY <1>2, <1>4, <1>5, <1>6

\* No step changes the types.
LEMMA TypedStep == Typed /\ [Next]_vars => Typed'
<1> SUFFICES ASSUME Typed, [Next]_vars PROVE Typed'
  OBVIOUS
<1>1. CASE UNCHANGED vars
  BY <1>1 DEF vars, admin, snapshots, Typed, TypeOK, SavedOK, Connected
<1>2. CASE NewRequest
  BY <1>2, TypedRequest DEF NewRequest
<1>3. CASE \E t \in Threads : Serve(t)
  BY <1>3, TypedServe
<1>4. CASE \E id \in ProjectIds, i \in Slots : Work(id, i)
  BY <1>4, TypedWork
<1>5. CASE \E t \in Threads : Drop(t)
  <2>1. handler' \in [Threads -> {Idle, Cut} \cup Order]
    BY <1>5 DEF Drop, Typed, TypeOK
  <2>2. UNCHANGED <<planet, credits, projects, tasks, edited, gone, deletion, loads, recovering, saved>>
    BY <1>5 DEF Drop, admin, snapshots
  <2> QED BY <2>1, <2>2 DEF Typed, TypeOK, SavedOK, Connected
<1> QED BY <1>1, <1>2, <1>3, <1>4, <1>5, TypedAdmin, TypedSnapshots DEF Next

\* Every variable keeps its type, whatever is asked for, built, edited, deleted,
\* saved and loaded: no price takes credits or stocks below zero, and only a
\* planet with a station has an owner.
THEOREM TypeCorrect == Spec => []TypeOK
<1>1. Typed => TypeOK
  BY DEF Typed
<1> QED BY <1>1, TypedInit, TypedStep, PTL DEF Spec

\* The owner of a station that stands changes hands only when the admin puts the
\* station or deletes the owner: no project of another player takes it, however
\* late it is built.
THEOREM StationsKeptCorrect == Spec => StationsKept
<1> DEFINE Kept ==
      loads' = loads => \A p \in Planets :
        /\ Connected(p) /\ planet'[p].status = "connected"
        /\ planet'[p].owner # planet[p].owner
        => \/ p \in edited' \ edited
           \/ /\ deletion # Idle /\ planet[p].owner = deletion.player
              /\ planet'[p].owner = Nobody
<1>1. Typed /\ Next => Kept
  <2> SUFFICES ASSUME Typed, Next, loads' = loads, NEW p \in Planets,
                      Connected(p), planet'[p].status = "connected",
                      planet'[p].owner # planet[p].owner
               PROVE  \/ p \in edited' \ edited
                      \/ /\ deletion # Idle /\ planet[p].owner = deletion.player
                         /\ planet'[p].owner = Nobody
    OBVIOUS
  <2> USE DEF Typed
  <2>1. planet[p] \in PlanetRecord /\ planet \in [Planets -> PlanetRecord]
    BY DEF TypeOK
  <2>2. /\ ~NewRequest /\ ~Unregister /\ ~Save /\ ~Recover
        /\ ~(\E t \in Threads : Drop(t)) /\ ~\E pl \in Players : DropProjects(pl)
    BY DEF NewRequest, Request, Drop, Unregister, Save, Recover, DropProjects
  <2>3. ~Restart /\ ~Reload
    <3>1. loads \in Seq({"restart", "reload"})
      BY DEF TypeOK
    <3>2. \A how : Append(loads, how) # loads
      <4>1. \A how : Len(Append(loads, how)) = Len(loads) + 1 /\ Len(loads) \in Nat
        BY <3>1
      <4> QED BY <4>1
    <3> QED BY <3>2 DEF Restart, Reload, Loaded
  <2>4. ASSUME NEW t \in Threads, Serve(t) PROVE FALSE
    <3>1. CASE Supply(t)
      <4> DEFINE pr == handler[t].project
                 left == [planet[pr.from].stock EXCEPT ![Source(pr)] = @ - Supplies(pr)]
                 home == [planet[pr.from] EXCEPT !.stock = left]
      <4>1. pr.from \in Planets
        BY <3>1, Served DEF Supply, Project
      <4>2. planet' = planet \/ planet' = [planet EXCEPT ![pr.from] = home]
        BY <3>1 DEF Supply
      <4>3. planet[pr.from] \in PlanetRecord
        BY <4>1 DEF TypeOK
      <4> HIDE DEF pr, left
      <4>4. home.owner = planet[pr.from].owner
        BY <4>3 DEF PlanetRecord
      <4> HIDE DEF home
      <4> QED BY <2>1, <4>1, <4>2, <4>4
    <3>2. CASE Pay(t) \/ Record(t)
      BY <3>2 DEF Pay, Record
    <3> QED BY <2>4, <3>1, <3>2 DEF Serve
  <2>5. ASSUME NEW id \in ProjectIds, NEW i \in Slots, Work(id, i) PROVE FALSE
    <3>1. CASE Apply(id, i)
      <4> DEFINE pr == tasks[id][i].project
      <4>1. pr \in Project /\ pr.target \in Planets
        BY <3>1, Working DEF Apply
      <4>2. planet' = [planet EXCEPT ![pr.target] = Built(pr)]
        BY <3>1 DEF Apply
      <4> HIDE DEF pr
      <4>3. p = pr.target /\ planet'[p] = Built(pr)
        BY <2>1, <4>1, <4>2
      <4>4. Built(pr).owner = planet[p].owner
        <5>1. CASE pr.kind \in Facilities
          <6> DEFINE levels == [planet[p].level EXCEPT ![pr.kind] = @ + 1]
                     new == [planet[p] EXCEPT !.level = levels]
          <6>1. Built(pr) = new
            BY <4>3, <5>1, ConstructionAssumption DEF Built
          <6> HIDE DEF levels
          <6> QED BY <2>1, <6>1 DEF PlanetRecord
        <5>2. CASE pr.kind \notin Facilities
          BY <4>3, <5>2 DEF Built, Connected
        <5> QED BY <5>1, <5>2
      <4> QED BY <4>3, <4>4
    <3>2. CASE StartBuilding(id, i) \/ FinishUpgrade(id, i) \/ MarkComplete(id, i)
      BY <3>2 DEF StartBuilding, FinishUpgrade, MarkComplete
    <3> QED BY <2>5, <3>1, <3>2 DEF Work
  <2>6. ASSUME NEW q \in Planets, RemoveStation(q) PROVE FALSE
    BY <2>1, <2>6 DEF RemoveStation
  <2>7. ASSUME NEW q \in Planets, NEW pl \in Players, PutStation(q, pl)
        PROVE  p \in edited' \ edited
    BY <2>1, <2>7 DEF PutStation
  <2>8. CASE Disown
    <3>1. deletion # Idle
      BY <2>8 DEF Disown, Idle
    <3>2. planet'[p] = IF Connected(p) /\ planet[p].owner = deletion.player
                       THEN [planet[p] EXCEPT !.owner = Nobody] ELSE planet[p]
      BY <2>8 DEF Disown
    <3>3. [planet[p] EXCEPT !.owner = Nobody].owner = Nobody
      BY <2>1 DEF PlanetRecord
    <3> QED BY <3>1, <3>2, <3>3
  <2> QED BY <2>2, <2>3, <2>4, <2>5, <2>6, <2>7, <2>8 DEF Next
<1>2. Typed /\ [Next]_vars => [Kept]_vars
  BY <1>1
<1> QED BY <1>2, TypedInit, TypedStep, PTL DEF Spec, StationsKept

-----------------------------------------------------------------------------
(* The life of a project *)

\* An upgrade has no transit.
NoTransit(pr) == pr # NoProject /\ pr.kind \in Facilities => pr.status # "in_transit"

\* How far task i of project id is, with the project as it is recorded.
InStep(id, i) ==
  tasks[id][i] # None /\ projects[id] # NoProject =>
    /\ tasks[id][i].project.kind = projects[id].kind
    /\ tasks[id][i].project.target = projects[id].target
    /\ projects[id].status # "complete"
    /\ tasks[id][i].pc = "transit" <=>
         TwoPhase(projects[id].kind) /\ tasks[id][i].pc \notin {"apply", "mark"}
    /\ tasks[id][i].pc # "transit" => projects[id].status = "building"

\* Without a reload, a project has one task at most, and the two are in step.
Phases ==
  /\ \A id \in ProjectIds : NoTransit(projects[id])
  /\ saved # NoSave => \A id \in ProjectIds : NoTransit(saved.projects[id])
  /\ \A t \in Threads : handler[t] \notin {Idle, Cut} =>
       handler[t].project.status =
         IF TwoPhase(handler[t].project.kind) THEN "in_transit" ELSE "building"
  /\ recovering => Reloaded
  /\ ~Reloaded => \A id \in ProjectIds :
       /\ \A i, j \in Slots : tasks[id][i] # None /\ tasks[id][j] # None => i = j
       /\ \A i \in Slots : InStep(id, i)

\* At the start there are no projects, tasks or requests.
LEMMA PhasesInit == Init => Phases
  BY DEF Init, Phases, NoTransit, InStep, Reloaded, Idle, Cut

\* A step of the task of project id in slot i leaves all other tasks and projects
\* alone.
LEMMA WorkAlone ==
  ASSUME Typed, NEW id \in ProjectIds, NEW i \in Slots, Work(id, i)
  PROVE  /\ tasks[id][i] # None
         /\ \A jd \in ProjectIds \ {id} : projects'[jd] = projects[jd] /\ tasks'[jd] = tasks[jd]
         /\ \A j \in Slots \ {i} : tasks'[id][j] = tasks[id][j]
         /\ UNCHANGED <<handler, loads, recovering, saved>>
<1> USE DEF Typed, TypeOK
<1>1. tasks[id][i] # None
  BY DEF Work, StartBuilding, FinishUpgrade, Apply, MarkComplete, None
<1>2. \A jd \in ProjectIds \ {id} : projects'[jd] = projects[jd]
  BY DEF Work, StartBuilding, FinishUpgrade, Apply, MarkComplete
<1>3. \A jd \in ProjectIds \ {id} : tasks'[jd] = tasks[jd]
  BY DEF Work, StartBuilding, FinishUpgrade, Apply, MarkComplete, SetTask, GotoTask
<1>4. \A j \in Slots \ {i} : tasks'[id][j] = tasks[id][j]
  BY DEF Work, StartBuilding, FinishUpgrade, Apply, MarkComplete, SetTask, GotoTask
<1>5. UNCHANGED <<handler, loads, recovering, saved>>
  BY DEF Work, StartBuilding, FinishUpgrade, Apply, MarkComplete, snapshots
<1> QED BY <1>1, <1>2, <1>3, <1>4, <1>5

\* What a step does to the project and to the task itself.
LEMMA WorkDoes ==
  ASSUME Typed, NEW id \in ProjectIds, NEW i \in Slots, Work(id, i)
  PROVE  \/ /\ projects[id] = NoProject /\ projects'[id] = NoProject
            /\ tasks'[id][i] = None \/ tasks[id][i].pc = "apply"
         \/ /\ tasks[id][i].pc = "transit" /\ projects[id] # NoProject
            /\ projects'[id] = [projects[id] EXCEPT !.status = "building"]
            /\ tasks'[id][i] = [pc |-> "apply", project |-> projects[id]]
         \/ /\ tasks[id][i].pc = "upgrade" /\ projects[id] # NoProject
            /\ projects'[id] = projects[id]
            /\ tasks'[id][i] = [pc |-> "apply", project |-> projects[id]]
         \/ /\ tasks[id][i].pc = "apply" /\ projects[id] # NoProject
            /\ projects'[id] = projects[id]
            /\ tasks'[id][i] = [tasks[id][i] EXCEPT !.pc = "mark"]
         \/ /\ tasks[id][i].pc = "mark" /\ projects[id] # NoProject
            /\ projects'[id] = [projects[id] EXCEPT !.status = "complete"]
            /\ tasks'[id][i] = None
<1> USE DEF Typed, TypeOK
<1>1. CASE StartBuilding(id, i)
  BY <1>1 DEF StartBuilding, SetTask
<1>2. CASE FinishUpgrade(id, i)
  BY <1>2 DEF FinishUpgrade, SetTask
<1>3. CASE Apply(id, i)
  BY <1>3 DEF Apply, GotoTask
<1>4. CASE MarkComplete(id, i)
  BY <1>4 DEF MarkComplete, SetTask
<1> QED BY <1>1, <1>2, <1>3, <1>4 DEF Work

\* A task and its project go on together.
LEMMA PhasesWork ==
  ASSUME Typed, Phases, NEW id \in ProjectIds, NEW i \in Slots, Work(id, i)
  PROVE  Phases'
<1> USE DEF Typed
<1>1. projects[id] \in Project \cup {NoProject} /\ NoProject \notin Project
  BY ConstructionAssumption DEF TypeOK
<1>2. /\ tasks[id][i] \in TaskRecord
      /\ tasks[id][i] # None
  BY WorkAlone DEF TypeOK
<1>3. /\ projects[id] = NoProject => projects'[id] = NoProject
      /\ projects[id] # NoProject =>
           /\ projects'[id] # NoProject
           /\ projects'[id].kind = projects[id].kind
           /\ projects'[id].target = projects[id].target
           /\ projects'[id].status \in {projects[id].status, "building", "complete"}
  <2>1. projects[id] # NoProject =>
          projects'[id] \in {projects[id], [projects[id] EXCEPT !.status = "building"],
                             [projects[id] EXCEPT !.status = "complete"]}
    BY WorkDoes
  <2>2. projects[id] # NoProject => \A status \in {"building", "complete"} :
          LET pr == [projects[id] EXCEPT !.status = status]
          IN  pr \in Project /\ pr.kind = projects[id].kind /\ pr.target = projects[id].target
              /\ pr.status = status
    BY <1>1 DEF Project, Statuses
  <2>3. projects[id] = NoProject => projects'[id] = NoProject
    BY WorkDoes
  <2> QED BY <1>1, <2>1, <2>2, <2>3
<1>6. NoTransit(projects'[id])
  BY <1>3 DEF Phases, NoTransit
<1>4. \A jd \in ProjectIds : NoTransit(projects'[jd])
  BY <1>6, WorkAlone DEF Phases
<1>5. ASSUME ~Reloaded'
      PROVE  \A jd \in ProjectIds :
               /\ \A j, k \in Slots : tasks'[jd][j] # None /\ tasks'[jd][k] # None => j = k
               /\ \A j \in Slots : InStep(jd, j)'
  <2>1. ~Reloaded
    BY <1>5, WorkAlone DEF Reloaded
  <2>2. \A j \in Slots \ {i} : tasks[id][j] = None /\ tasks'[id][j] = None
    BY <1>2, <2>1, WorkAlone DEF Phases
  <2>3. InStep(id, i)'
    <3>1. InStep(id, i)
      BY <2>1 DEF Phases
    <3>2. CASE projects'[id] = NoProject
      BY <3>2 DEF InStep
    <3>3. CASE projects'[id] # NoProject /\ projects[id] # NoProject
      <4> DEFINE task == tasks[id][i]
      <4>1. CASE projects'[id] = [projects[id] EXCEPT !.status = "complete"] /\ tasks'[id][i] = None
        BY <4>1 DEF InStep
      <4>2. CASE /\ tasks[id][i].pc = "transit"
                 /\ projects'[id] = [projects[id] EXCEPT !.status = "building"]
                 /\ tasks'[id][i] = [pc |-> "apply", project |-> projects[id]]
        <5>1. projects[id] \in Project /\ projects'[id].status = "building"
          BY <1>1, <3>3, <4>2 DEF Project
        <5> QED BY <1>3, <3>3, <4>2, <5>1 DEF InStep
      <4>3. CASE /\ task.pc = "upgrade" /\ projects'[id] = projects[id]
                 /\ tasks'[id][i] = [pc |-> "apply", project |-> projects[id]]
        BY <1>2, <3>1, <3>3, <4>3 DEF InStep
      <4>4. CASE /\ task.pc = "apply" /\ projects'[id] = projects[id]
                 /\ tasks'[id][i] = [task EXCEPT !.pc = "mark"]
        <5>1. tasks'[id][i].pc = "mark" /\ tasks'[id][i].project = task.project
          BY <1>2, <4>4 DEF TaskRecord
        <5> QED BY <1>2, <3>1, <3>3, <4>4, <5>1 DEF InStep
      <4> QED BY <3>3, <4>1, <4>2, <4>3, <4>4, WorkDoes
    <3>4. projects[id] = NoProject => projects'[id] = NoProject
      BY WorkDoes
    <3> QED BY <3>2, <3>3, <3>4
  <2>4. ASSUME NEW jd \in ProjectIds, jd # id
        PROVE  /\ \A j, k \in Slots : tasks'[jd][j] # None /\ tasks'[jd][k] # None => j = k
               /\ \A j \in Slots : InStep(jd, j)'
    BY <2>1, <2>4, WorkAlone DEF Phases, InStep
  <2> QED BY <2>2, <2>3, <2>4 DEF InStep
<1> QED BY <1>4, <1>5, WorkAlone DEF Phases, Reloaded

\* A request starts one task for a new project.
LEMMA PhasesServe ==
  ASSUME Typed, Phases, NEW t \in Threads, Serve(t)
  PROVE  Phases'
<1> USE DEF Typed
<1>1. handler[t] \in Order /\ handler[t] \notin {Idle, Cut} /\ handler[t].project \in Project
  BY Served DEF Serve, Pay, Supply, Record
<1>2. UNCHANGED <<loads, recovering, saved>>
  BY DEF Serve, Pay, Supply, Record, snapshots
<1>3. ASSUME NEW u \in Threads, handler'[u] \notin {Idle, Cut}
      PROVE  handler[u] \notin {Idle, Cut} /\ handler'[u].project = handler[u].project
  <2>1. \/ handler' = [handler EXCEPT ![t] = Idle]
        \/ \E pc \in {"supply", "record"} : handler' = [handler EXCEPT ![t].pc = pc]
    BY DEF Serve, Pay, Supply, Record
  <2>2. handler \in [Threads -> {Idle, Cut} \cup Order]
    BY DEF TypeOK
  <2>3. \A pc : [handler[t] EXCEPT !.pc = pc].project = handler[t].project
    BY <1>1 DEF Order
  <2> QED BY <1>1, <1>3, <2>1, <2>2, <2>3
<1>4. CASE Pay(t) \/ Supply(t)
  <2>1. projects' = projects /\ tasks' = tasks
    BY <1>4 DEF Pay, Supply
  <2> QED BY <1>2, <1>3, <2>1 DEF Phases, InStep, Reloaded
<1>5. CASE Record(t)
  <2>1. PICK id \in ProjectIds :
          /\ projects[id] = NoProject /\ \A i \in Slots : tasks[id][i] = None
          /\ projects' = [projects EXCEPT ![id] = handler[t].project]
          /\ tasks' = [tasks EXCEPT ![id][OwnSlot] = Task(handler[t].project)]
    BY <1>5 DEF Record
  <2>2. \A jd \in ProjectIds \ {id} : projects'[jd] = projects[jd] /\ tasks'[jd] = tasks[jd]
    BY <2>1 DEF TypeOK
  <2>3. /\ projects'[id] = handler[t].project
        /\ \A i \in Slots : tasks'[id][i] \in {None, Task(handler[t].project)}
        /\ \A i \in Slots : tasks'[id][i] # None => i = OwnSlot
    BY <2>1 DEF TypeOK
  <2>4. handler[t].project.status =
          IF TwoPhase(handler[t].project.kind) THEN "in_transit" ELSE "building"
    BY <1>1 DEF Phases
  <2>5. NoTransit(projects'[id])
    BY <2>3, <2>4, ConstructionAssumption DEF NoTransit, TwoPhase
  <2>6. \A i \in Slots : InStep(id, i)'
    BY <2>3, <2>4 DEF InStep, Task, None
  <2> QED BY <1>2, <1>3, <2>2, <2>3, <2>5, <2>6 DEF Phases, InStep, Reloaded
<1> QED BY <1>4, <1>5 DEF Serve

\* The admin's edits leave the tasks alone, or drop project and all.
LEMMA PhasesOthers ==
  ASSUME Typed, Phases,
         \/ NewRequest
         \/ \E t \in Threads : Drop(t)
         \/ \E p \in Planets : RemoveStation(p)
         \/ \E p \in Planets, pl \in Players : PutStation(p, pl)
         \/ \E pl \in Players : DropProjects(pl)
         \/ Disown \/ Unregister
         \/ UNCHANGED vars
  PROVE  Phases'
<1> USE DEF Typed, admin, snapshots
<1>1. CASE NewRequest
  <2>1. PICK t \in Threads, pl \in Players, kind \in Kinds, from, target \in Planets, extra \in Extras :
          Request(t, pl, kind, from, target, extra)
    BY <1>1 DEF NewRequest
  <2>2. UNCHANGED <<projects, tasks, loads, recovering, saved>>
    BY <2>1 DEF Request
  <2>3. \A u \in Threads \ {t} : handler'[u] = handler[u]
    BY <2>1 DEF Request, TypeOK
  <2>4. handler'[t].project.status =
          IF TwoPhase(handler'[t].project.kind) THEN "in_transit" ELSE "building"
    BY <2>1 DEF Request, TypeOK
  <2> QED BY <2>2, <2>3, <2>4 DEF Phases, InStep, Reloaded
<1>2. ASSUME NEW pl \in Players, DropProjects(pl) PROVE Phases'
  <2>1. \A id \in ProjectIds : projects'[id] \in {projects[id], NoProject}
    BY <1>2 DEF DropProjects
  <2>2. UNCHANGED <<handler, tasks, loads, recovering, saved>>
    BY <1>2 DEF DropProjects
  <2> QED BY <2>1, <2>2 DEF Phases, InStep, Reloaded, NoTransit
<1>3. CASE \/ \E p \in Planets : RemoveStation(p)
           \/ \E p \in Planets, pl \in Players : PutStation(p, pl)
           \/ Disown \/ Unregister \/ UNCHANGED vars
  <2>1. UNCHANGED <<projects, handler, tasks, loads, recovering, saved>>
    BY <1>3 DEF RemoveStation, PutStation, Disown, Unregister, vars
  <2> QED BY <2>1 DEF Phases, InStep, Reloaded
<1>4. ASSUME NEW t \in Threads, Drop(t) PROVE Phases'
  <2>1. UNCHANGED <<projects, tasks, loads, recovering, saved>>
    BY <1>4 DEF Drop
  <2>2. \A u \in Threads : handler'[u] \in {handler[u], Cut}
    BY <1>4 DEF Drop, TypeOK
  <2> QED BY <2>1, <2>2 DEF Phases, InStep, Reloaded
<1> QED BY <1>1, <1>2, <1>3, <1>4

\* Saving and loading leave projects and their tasks in step.
LEMMA PhasesSnapshots ==
  ASSUME Typed, Phases, Save \/ Restart \/ Reload \/ Recover
  PROVE  Phases'
<1> USE DEF Typed
<1>1. CASE Save
  <2>1. UNCHANGED <<projects, handler, tasks, loads, recovering>> /\ saved'.projects = projects
    BY <1>1 DEF Save
  <2> QED BY <2>1 DEF Phases, InStep, Reloaded
<1>2. CASE Restart
  <2>1. /\ saved # NoSave /\ saved' = saved /\ projects' = saved.projects /\ recovering' = FALSE
        /\ \A t \in Threads : handler'[t] = Idle
        /\ \A id \in ProjectIds, i \in Slots :
             tasks'[id][i] = IF i = OwnSlot + 1 THEN Recovered(saved.projects[id]) ELSE None
    BY <1>2 DEF Restart, Loaded
  <2>2. \A id \in ProjectIds : saved.projects[id] \in Project \cup {NoProject} /\ NoTransit(saved.projects[id])
    BY <2>1 DEF SavedOK, Phases
  <2>3. ASSUME NEW id \in ProjectIds, NEW i \in Slots
        PROVE  InStep(id, i)'
    <3>1. CASE tasks'[id][i] = None \/ projects'[id] = NoProject
      BY <3>1 DEF InStep
    <3>2. CASE tasks'[id][i] # None /\ projects'[id] # NoProject
      <4>1. /\ tasks'[id][i] = Task(projects'[id]) /\ projects'[id].status # "complete"
            /\ projects'[id] \in Project /\ NoTransit(projects'[id])
        BY <2>1, <2>2, <3>2 DEF Recovered
      <4>2. ~TwoPhase(projects'[id].kind) => projects'[id].status = "building"
        BY <3>2, <4>1 DEF Project, Kinds, Statuses, TwoPhase, NoTransit
      <4> QED BY <4>1, <4>2 DEF InStep, Task
    <3> QED BY <3>1, <3>2
  <2> QED BY <2>1, <2>2, <2>3 DEF Phases
<1>3. CASE Reload
  <2>1. Reloaded'
    <3>1. loads \in Seq({"restart", "reload"}) /\ loads' = Append(loads, "reload")
      BY <1>3 DEF Reload, Loaded, TypeOK
    <3>2. Len(loads') = Len(loads) + 1 /\ Len(loads) \in Nat /\ loads'[Len(loads) + 1] = "reload"
      BY <3>1
    <3> QED BY <3>2 DEF Reloaded
  <2>2. saved # NoSave /\ saved' = saved /\ projects' = saved.projects /\ handler' = handler
    BY <1>3 DEF Reload, Loaded
  <2> QED BY <2>1, <2>2 DEF Phases
<1>4. CASE Recover
  <2>1. Reloaded /\ UNCHANGED <<projects, handler, loads, saved>> /\ recovering' = FALSE
    BY <1>4 DEF Recover, Phases
  <2> QED BY <2>1 DEF Phases, Reloaded
<1> QED BY <1>1, <1>2, <1>3, <1>4

\* So project and task agree in every step.
LEMMA PhasesStep == Typed /\ Phases /\ [Next]_vars => Phases'
  BY PhasesWork, PhasesServe, PhasesOthers, PhasesSnapshots DEF Next

\* Whichever tasks work on it and whatever is restarted, a project goes from
\* in_transit to building to complete, one at a time, unless its owner is deleted
\* or a snapshot is loaded into the running server.
THEOREM LifecycleCorrect == Spec => LifecycleForward
<1> DEFINE Forward ==
      loads' = loads /\ ~Reloaded => \A id \in ProjectIds :
        projects[id] # NoProject /\ projects'[id] \notin {projects[id], NoProject} =>
          <<projects[id].status, projects'[id].status>> \in
            {<<"in_transit", "building">>, <<"building", "complete">>}
<1>1. Typed /\ Phases /\ Next => Forward
  <2> SUFFICES ASSUME Typed, Phases, Next, loads' = loads, ~Reloaded, NEW id \in ProjectIds,
                      projects[id] # NoProject, projects'[id] \notin {projects[id], NoProject}
               PROVE  <<projects[id].status, projects'[id].status>> \in
                        {<<"in_transit", "building">>, <<"building", "complete">>}
    OBVIOUS
  <2>1. \A jd \in ProjectIds : projects[jd] \in Project \cup {NoProject}
    BY DEF Typed, TypeOK
  <2>2. /\ ~NewRequest /\ ~Disown /\ ~Unregister /\ ~Save /\ ~Recover
        /\ ~\E t \in Threads : Drop(t)
    BY DEF NewRequest, Request, Drop, Disown, Unregister, Save, Recover
  <2>3. ~Restart /\ ~Reload
    <3>1. loads \in Seq({"restart", "reload"})
      BY DEF Typed, TypeOK
    <3>2. \A how : Append(loads, how) # loads
      <4>1. \A how : Len(Append(loads, how)) = Len(loads) + 1 /\ Len(loads) \in Nat
        BY <3>1
      <4> QED BY <4>1
    <3> QED BY <3>2 DEF Restart, Reload, Loaded
  <2>4. ~\E t \in Threads : Serve(t)
    <3> SUFFICES ASSUME NEW t \in Threads, Record(t) PROVE FALSE
      BY DEF Serve, Pay, Supply
    <3> QED BY DEF Record, Typed, TypeOK
  <2>5. /\ ~\E p \in Planets : RemoveStation(p)
        /\ ~\E p \in Planets, pl \in Players : PutStation(p, pl)
        /\ ~\E pl \in Players : DropProjects(pl)
    BY DEF RemoveStation, PutStation, DropProjects
  <2>6. ASSUME NEW jd \in ProjectIds, NEW i \in Slots, Work(jd, i)
        PROVE  <<projects[id].status, projects'[id].status>> \in
                 {<<"in_transit", "building">>, <<"building", "complete">>}
    <3>1. jd = id
      BY <2>6, WorkAlone
    <3>2. InStep(id, i) /\ tasks[id][i] # None
      BY <2>6, <3>1, WorkAlone DEF Phases
    <3>3. projects[id] \in Project
      BY <2>1
    <3>4. CASE /\ tasks[id][i].pc = "transit"
               /\ projects'[id] = [projects[id] EXCEPT !.status = "building"]
      <4>1. projects'[id].status = "building" /\ projects[id].status # "complete"
        BY <3>2, <3>3, <3>4 DEF Project, InStep
      <4>2. projects[id].status # "building"
        <5>1. projects[id].status = "building" => projects'[id] = projects[id]
          BY <3>3, <3>4 DEF Project
        <5> QED BY <5>1
      <4> QED BY <3>3, <4>1, <4>2 DEF Project, Statuses
    <3>5. CASE /\ tasks[id][i].pc = "mark"
               /\ projects'[id] = [projects[id] EXCEPT !.status = "complete"]
      BY <3>2, <3>3, <3>5 DEF InStep, Project
    <3> QED BY <2>6, <3>1, <3>4, <3>5, WorkDoes
  <2> QED BY <2>2, <2>3, <2>4, <2>5, <2>6 DEF Next
<1>2. Typed /\ Phases /\ [Next]_vars => [Forward]_vars
  BY <1>1
<1> QED BY <1>2, TypedInit, TypedStep, PhasesInit, PhasesStep, PTL DEF Spec, LifecycleForward

-----------------------------------------------------------------------------
(* Upgrades *)

IsUpgradeOf(pr, p) == pr # NoProject /\ pr.kind \in Facilities /\ pr.target = p

\* Without a reload, upgrades are only of stations that stand: also those a
\* snapshot has, and those being asked for.
Standing ==
  ~Reloaded => \A p \in Planets \ Removable :
    /\ \A id \in ProjectIds : IsUpgradeOf(projects[id], p) => Connected(p)
    /\ \A t \in Threads : handler[t] \notin {Idle, Cut} /\ IsUpgradeOf(handler[t].project, p) => Connected(p)
    /\ saved # NoSave => \A id \in ProjectIds :
         IsUpgradeOf(saved.projects[id], p) => saved.planet[p].status = "connected"

\* Upgrades of facility f at planet p that are complete.
CompleteIn(recorded, p, f) ==
  {id \in ProjectIds :
     /\ recorded[id] # NoProject /\ recorded[id].status = "complete"
     /\ recorded[id].kind = f /\ recorded[id].target = p}

\* No upgrade is missing, in the galaxy or in the snapshot.
AtLeast ==
  ~Reloaded => \A p \in Planets \ Removable, f \in Facilities :
    /\ (p \notin edited \/ f \notin Fields) /\ Connected(p) =>
         planet[p].level[f] >= 1 + Cardinality(Applied(p, f))
    /\ saved # NoSave /\ (p \notin saved.edited \/ f \notin Fields)
       /\ saved.planet[p].status = "connected" =>
         saved.planet[p].level[f] >= 1 + Cardinality(CompleteIn(saved.projects, p, f))

\* Until something is loaded or deleted, no upgrade is there that was not applied.
AtMost ==
  loads = <<>> /\ ~Deleting =>
    /\ \A id \in ProjectIds, i \in Slots : tasks[id][i] # None => projects[id] # NoProject
    /\ \A p \in Planets \ Removable, f \in Facilities :
         Connected(p) => planet[p].level[f] <= 1 + Cardinality(Applied(p, f))

\* What a step may do to facility f of planet p and to the upgrades of it: nothing,
\* or one more of each; it may drop the record of an upgrade, or apply one whose
\* record was dropped; it may build the station, or set the facility back.
Nothing(p, f)  == /\ Connected(p)' = Connected(p) /\ planet'[p].level[f] = planet[p].level[f]
                  /\ Applied(p, f)' = Applied(p, f)
Dropped(p, f)  == /\ Connected(p)' = Connected(p) /\ planet'[p].level[f] = planet[p].level[f]
                  /\ Applied(p, f)' \subseteq Applied(p, f) /\ Deleting'
OneMore(p, f)  == /\ planet'[p].level[f] = planet[p].level[f] + 1 /\ Connected(p)
                  /\ \E id \in ProjectIds \ Applied(p, f) : Applied(p, f)' = Applied(p, f) \cup {id}
Unrecorded(p, f) == /\ planet'[p].level[f] = planet[p].level[f] + 1 /\ Connected(p)
                    /\ Applied(p, f)' = Applied(p, f)
                    /\ \E id \in ProjectIds, i \in Slots : tasks[id][i] # None /\ projects[id] = NoProject
Founded(p, f)  == planet'[p].level[f] = 1 /\ Applied(p, f)' = {}
SetBack(p, f)  == planet'[p].level[f] = 1 /\ f \in Fields /\ p \in edited' /\ Applied(p, f)' = Applied(p, f)

Effect(p, f) ==
  \/ Nothing(p, f) \/ Dropped(p, f) \/ OneMore(p, f) \/ Unrecorded(p, f)
  \/ Founded(p, f) \/ SetBack(p, f)

\* An upgrade counts as applied from the step that applies it.
LEMMA AppliedIs ==
  ASSUME Typed, Phases, ~Reloaded, NEW p \in Planets, NEW f \in Facilities, NEW id \in ProjectIds
  PROVE  /\ id \in Applied(p, f) <=>
              /\ projects[id] # NoProject /\ projects[id].kind = f /\ projects[id].target = p
              /\ projects[id].status = "complete" \/ \E i \in Slots : tasks[id][i].pc = "mark"
         /\ \A i \in Slots : tasks[id][i] # None =>
              (id \in Applied(p, f) <=>
                 /\ projects[id] # NoProject /\ projects[id].kind = f /\ projects[id].target = p
                 /\ tasks[id][i].pc = "mark")
<1>1. id \in Applied(p, f) <=>
        /\ projects[id] # NoProject /\ projects[id].kind = f /\ projects[id].target = p
        /\ projects[id].status = "complete" \/ \E i \in Slots : tasks[id][i].pc = "mark"
  BY DEF Applied
<1>2. ASSUME NEW i \in Slots, tasks[id][i] # None
      PROVE  /\ \A j \in Slots : tasks[id][j].pc = "mark" => j = i
             /\ projects[id] # NoProject => projects[id].status # "complete"
  BY <1>2 DEF Phases, InStep, None
<1> QED BY <1>1, <1>2

\* Where only one project and its task are touched, only that project may come
\* or go from those applied.
LEMMA AppliedBut ==
  ASSUME NEW p, NEW f, NEW id \in ProjectIds,
         \A jd \in ProjectIds \ {id} : projects'[jd] = projects[jd] /\ tasks'[jd] = tasks[jd]
  PROVE  \A jd \in ProjectIds \ {id} : jd \in Applied(p, f)' <=> jd \in Applied(p, f)
  BY DEF Applied

\* A load of a snapshot is remembered.
LEMMA LoadsGrow ==
  ASSUME Typed, NEW how \in {"restart", "reload"}, Loaded(how)
  PROVE  /\ loads' # loads
         /\ Reloaded' <=> Reloaded \/ how = "reload"
<1>1. loads \in Seq({"restart", "reload"}) /\ loads' = Append(loads, how)
  BY DEF Typed, TypeOK, Loaded
<1>2. Len(loads') = Len(loads) + 1 /\ Len(loads) \in Nat
  BY <1>1
<1>3. /\ \A i \in 1..Len(loads) : loads'[i] = loads[i]
      /\ loads'[Len(loads) + 1] = how
  BY <1>1
<1>4. Reloaded' <=> \E i \in 1..(Len(loads) + 1) : loads'[i] = "reload"
  BY <1>2 DEF Reloaded
<1> QED BY <1>2, <1>3, <1>4 DEF Reloaded

\* Serving a request touches stocks only.
LEMMA ServeKeeps ==
  ASSUME Typed, NEW t \in Threads, Serve(t), NEW p \in Planets
  PROVE  /\ planet'[p].status = planet[p].status /\ planet'[p].level = planet[p].level
         /\ UNCHANGED <<edited, gone, deletion, loads, recovering, saved>>
<1> USE DEF Typed
<1>1. CASE Supply(t)
  <2> DEFINE pr == handler[t].project
             left == [planet[pr.from].stock EXCEPT ![Source(pr)] = @ - Supplies(pr)]
             home == [planet[pr.from] EXCEPT !.stock = left]
  <2>1. pr.from \in Planets
    BY <1>1, Served DEF Supply, Project
  <2>2. planet' = planet \/ planet' = [planet EXCEPT ![pr.from] = home]
    BY <1>1 DEF Supply
  <2>3. planet[pr.from] \in PlanetRecord
    BY <2>1 DEF TypeOK
  <2>4. UNCHANGED <<edited, gone, deletion, loads, recovering, saved>>
    BY <1>1 DEF Supply, admin, snapshots
  <2> HIDE DEF pr, left
  <2>5. home.status = planet[pr.from].status /\ home.level = planet[pr.from].level
    BY <2>3 DEF PlanetRecord
  <2> HIDE DEF home
  <2> QED BY <2>1, <2>2, <2>4, <2>5 DEF TypeOK
<1>2. CASE Pay(t) \/ Record(t)
  BY <1>2 DEF Pay, Record, admin, snapshots
<1> QED BY <1>1, <1>2 DEF Serve

\* A project that is applied leaves its target with a station, one step of its
\* facility further if it is an upgrade, and new if it is not.
LEMMA BuiltWhat ==
  ASSUME Typed, NEW pr \in Project, NEW f \in Facilities
  PROVE  \/ /\ Built(pr) = planet[pr.target] /\ (pr.kind \notin Facilities \/ ~Connected(pr.target))
         \/ /\ pr.kind \notin Facilities /\ ~Connected(pr.target)
            /\ Built(pr).status = "connected" /\ Built(pr).level[f] = 1
         \/ /\ pr.kind \in Facilities /\ Connected(pr.target)
            /\ Built(pr).status = planet[pr.target].status
            /\ Built(pr).level[f] = planet[pr.target].level[f] + (IF f = pr.kind THEN 1 ELSE 0)
<1> USE DEF Typed
<1>1. /\ pr.target \in Planets /\ pr.kind \in Kinds /\ planet[pr.target] \in PlanetRecord
  BY DEF Project, TypeOK
<1>2. CASE pr.kind \in Facilities /\ Connected(pr.target)
  <2> DEFINE levels == [planet[pr.target].level EXCEPT ![pr.kind] = @ + 1]
             new == [planet[pr.target] EXCEPT !.level = levels]
  <2>1. levels[f] = planet[pr.target].level[f] + (IF f = pr.kind THEN 1 ELSE 0)
    BY <1>1, <1>2 DEF PlanetRecord
  <2>2. Built(pr) = new
    BY <1>2, ConstructionAssumption DEF Built
  <2> HIDE DEF levels
  <2>3. new.level = levels /\ new.status = planet[pr.target].status
    BY <1>1 DEF PlanetRecord
  <2> QED BY <1>2, <2>1, <2>2, <2>3
<1>3. CASE ~(pr.kind \in Facilities /\ Connected(pr.target))
  <2>1. Station(pr, "connected").status = "connected" /\ Station(pr, "connected").level[f] = 1
    BY DEF Station, Basic
  <2>2. CASE pr.kind \in Facilities
    BY <1>3, <2>2, ConstructionAssumption DEF Built
  <2>3. CASE pr.kind \notin Facilities
    BY <2>1, <2>3 DEF Built, Connected
  <2> QED BY <2>2, <2>3
<1> QED BY <1>2, <1>3

\* Only the admin's removal and a snapshot take a station away.
LEMMA ConnectedStays ==
  ASSUME Typed, [Next]_vars, loads' = loads, NEW p \in Planets \ Removable, Connected(p)
  PROVE  Connected(p)'
<1> USE DEF Typed
<1>1. CASE UNCHANGED vars \/ NewRequest \/ Unregister \/ Save \/ Recover
           \/ (\E t \in Threads : Drop(t)) \/ \E pl \in Players : DropProjects(pl)
  BY <1>1 DEF vars, NewRequest, Request, Drop, Unregister, Save, Recover, DropProjects, Connected
<1>2. CASE \E t \in Threads : Serve(t)
  BY <1>2, ServeKeeps DEF Connected
<1>3. CASE \E id \in ProjectIds, i \in Slots : Work(id, i)
  <2>1. PICK id \in ProjectIds, i \in Slots : Work(id, i)
    BY <1>3
  <2>2. CASE Apply(id, i)
    <3> DEFINE pr == tasks[id][i].project
    <3>1. pr \in Project /\ pr.target \in Planets
      BY <2>2, Working DEF Apply
    <3>2. planet' = [planet EXCEPT ![pr.target] = Built(pr)]
      BY <2>2 DEF Apply
    <3> HIDE DEF pr
    <3>3. p = pr.target => Built(pr).status = "connected"
      BY <3>1, BuiltWhat DEF Connected, Built, Station
    <3> QED BY <3>1, <3>2, <3>3 DEF TypeOK, Connected
  <2>3. CASE StartBuilding(id, i) \/ FinishUpgrade(id, i) \/ MarkComplete(id, i)
    BY <2>3 DEF StartBuilding, FinishUpgrade, MarkComplete, Connected
  <2> QED BY <2>1, <2>2, <2>3 DEF Work
<1>4. CASE \E q \in Planets : RemoveStation(q)
  BY <1>4 DEF RemoveStation, TypeOK, Connected
<1>5. CASE \E q \in Planets, pl \in Players : PutStation(q, pl)
  <2>1. PICK q \in Planets, pl \in Players : PutStation(q, pl)
    BY <1>5
  <2>2. planet' = [planet EXCEPT ![q] = Updated(q, pl)]
    BY <2>1 DEF PutStation
  <2>3. planet[p] \in PlanetRecord /\ planet \in [Planets -> PlanetRecord]
    BY DEF TypeOK
  <2>4. Updated(p, pl).status = "connected"
    <3> DEFINE levels == [f \in Facilities |-> IF f \in Fields THEN 1 ELSE planet[p].level[f]]
               new == [planet[p] EXCEPT !.owner = pl, !.level = levels]
    <3>1. Updated(p, pl) = new
      BY DEF Updated
    <3> HIDE DEF levels
    <3> QED BY <2>3, <3>1 DEF PlanetRecord, Connected
  <2> QED BY <2>2, <2>3, <2>4 DEF Connected
<1>6. CASE Disown
  <2>1. planet[p] \in PlanetRecord
    BY DEF TypeOK
  <2>2. [planet[p] EXCEPT !.owner = Nobody].status = planet[p].status
    BY <2>1 DEF PlanetRecord
  <2> QED BY <1>6, <2>2 DEF Disown, Connected
<1>7. CASE Restart \/ Reload
  BY <1>7, LoadsGrow DEF Restart, Reload
<1> QED BY <1>1, <1>2, <1>3, <1>4, <1>5, <1>6, <1>7 DEF Next

\* At the start nothing is upgraded.
LEMMA StandingInit == Init => Standing
  BY DEF Init, Standing, IsUpgradeOf, Idle, Cut

\* Every step leaves upgrades only where stations stand.
LEMMA StandingStep == Typed /\ Standing /\ [Next]_vars => Standing'
<1> DEFINE StandingAt(p) ==
      /\ \A id \in ProjectIds : IsUpgradeOf(projects[id], p) => Connected(p)
      /\ \A t \in Threads : handler[t] \notin {Idle, Cut} /\ IsUpgradeOf(handler[t].project, p) => Connected(p)
      /\ saved # NoSave => \A id \in ProjectIds :
           IsUpgradeOf(saved.projects[id], p) => saved.planet[p].status = "connected"
<1> SUFFICES ASSUME Typed, Standing, [Next]_vars, ~Reloaded', NEW p \in Planets \ Removable
             PROVE  StandingAt(p)'
  BY DEF Standing
<1> USE DEF Typed
<1>1. CASE Restart \/ Reload
  <2>1. ~Reload /\ ~Reloaded
    BY <1>1, LoadsGrow DEF Restart, Reload
  <2>2. /\ saved' = saved /\ saved # NoSave /\ projects' = saved.projects /\ planet' = saved.planet
        /\ \A t \in Threads : handler'[t] = Idle
    BY <1>1, <2>1 DEF Restart, Loaded
  <2> QED BY <2>1, <2>2 DEF Standing, Connected
<1>2. CASE Save
  BY <1>2 DEF Save, Standing, Connected, Reloaded
<1>3. ASSUME loads' = loads, saved' = saved,
             \A id \in ProjectIds : IsUpgradeOf(projects'[id], p) =>
               \/ IsUpgradeOf(projects[id], p)
               \/ \E t \in Threads : handler[t] \notin {Idle, Cut} /\ IsUpgradeOf(handler[t].project, p),
             \A t \in Threads : handler'[t] \notin {Idle, Cut} /\ IsUpgradeOf(handler'[t].project, p) =>
               \/ handler[t] \notin {Idle, Cut} /\ IsUpgradeOf(handler[t].project, p)
               \/ Connected(p)
      PROVE  StandingAt(p)'
  BY <1>3, ConnectedStays DEF Standing, Reloaded
<1>4. CASE UNCHANGED vars \/ Unregister \/ Recover \/ Disown
           \/ (\E q \in Planets : RemoveStation(q))
           \/ \E q \in Planets, pl \in Players : PutStation(q, pl)
  BY <1>3, <1>4 DEF vars, snapshots, Unregister, Recover, Disown, RemoveStation, PutStation
<1>5. CASE \E pl \in Players : DropProjects(pl)
  <2>1. /\ UNCHANGED <<handler, loads, saved>>
        /\ \A id \in ProjectIds : projects'[id] \in {projects[id], NoProject}
    BY <1>5 DEF DropProjects, snapshots
  <2> QED BY <1>3, <2>1 DEF IsUpgradeOf
<1>6. CASE NewRequest
  <2>1. PICK t \in Threads, pl \in Players, kind \in Kinds, from, target \in Planets, extra \in Extras :
          Request(t, pl, kind, from, target, extra)
    BY <1>6 DEF NewRequest
  <2>2. UNCHANGED <<projects, loads, saved>> /\ \A u \in Threads \ {t} : handler'[u] = handler[u]
    BY <2>1 DEF Request, snapshots, TypeOK
  <2>3. handler'[t].project.kind = kind /\ handler'[t].project.target = target
    BY <2>1 DEF Request, TypeOK
  <2>4. IsUpgradeOf(handler'[t].project, p) => Connected(p)
    BY <2>1, <2>3, ConstructionAssumption DEF Request, Allowed, IsUpgradeOf
  <2> QED BY <1>3, <2>2, <2>4
<1>9. CASE \E t \in Threads : Drop(t)
  <2>1. /\ UNCHANGED <<projects, loads, saved>>
        /\ \A u \in Threads : handler'[u] \in {handler[u], Cut}
    BY <1>9 DEF Drop, snapshots, TypeOK
  <2> QED BY <1>3, <2>1
<1>7. CASE \E t \in Threads : Serve(t)
  <2>1. PICK t \in Threads : Serve(t)
    BY <1>7
  <2>2. handler[t] \in Order /\ handler[t] \notin {Idle, Cut} /\ handler[t].project \in Project
    BY <2>1, Served, SMTT(30) DEF Serve, Pay, Supply, Record
  <2>3. UNCHANGED <<loads, saved>>
    BY <2>1, ServeKeeps, <2>2 DEF Serve, Pay, Supply, Record, snapshots
  <2>4. ASSUME NEW u \in Threads, handler'[u] \notin {Idle, Cut}
        PROVE  handler[u] \notin {Idle, Cut} /\ handler'[u].project = handler[u].project
    BY <2>1, <2>2, <2>4 DEF Serve, Pay, Supply, Record, TypeOK, Order
  <2>5. \A id \in ProjectIds : projects'[id] \in {projects[id], handler[t].project}
    BY <2>1 DEF Serve, Pay, Supply, Record, TypeOK
  <2> QED BY <1>3, <2>2, <2>3, <2>4, <2>5
<1>8. CASE \E id \in ProjectIds, i \in Slots : Work(id, i)
  <2>1. PICK id \in ProjectIds, i \in Slots : Work(id, i)
    BY <1>8
  <2>2. /\ UNCHANGED <<handler, loads, saved>>
        /\ \A jd \in ProjectIds \ {id} : projects'[jd] = projects[jd]
    BY <2>1, WorkAlone
  <2>3. IsUpgradeOf(projects'[id], p) => IsUpgradeOf(projects[id], p)
    <3>1. \/ projects'[id] = projects[id]
          \/ \E status \in {"building", "complete"} :
               projects[id] # NoProject /\ projects'[id] = [projects[id] EXCEPT !.status = status]
      BY <2>1, WorkDoes
    <3>2. projects[id] # NoProject => \A status :
            [projects[id] EXCEPT !.status = status].kind = projects[id].kind
            /\ [projects[id] EXCEPT !.status = status].target = projects[id].target
      BY DEF TypeOK, Project
    <3> QED BY <3>1, <3>2 DEF IsUpgradeOf
  <2> QED BY <1>3, <2>2, <2>3
<1> QED BY <1>1, <1>2, <1>4, <1>5, <1>6, <1>7, <1>8, <1>9 DEF Next

\* Nobody has paid for an upgrade of a planet without a station.
LEMMA NoneApplied ==
  ASSUME Standing, ~Reloaded, NEW p \in Planets \ Removable, NEW f \in Facilities, ~Connected(p)
  PROVE  \A id \in ProjectIds : ~IsUpgradeOf(projects[id], p)
  BY DEF Standing

\* What the tasks do to an upgrade.
LEMMA WorkEffect ==
  ASSUME Typed, Phases, Standing, ~Reloaded,
         NEW p \in Planets \ Removable, NEW f \in Facilities, Connected(p)',
         NEW id \in ProjectIds, NEW i \in Slots, Work(id, i)
  PROVE  Effect(p, f) /\ (Connected(p) \/ Founded(p, f))
<1> USE DEF Typed
<1>1. /\ tasks[id][i] # None /\ InStep(id, i)
      /\ \A j \in Slots \ {i} : tasks[id][j] = None /\ tasks'[id][j] = None
      /\ projects[id] \in Project \cup {NoProject}
      /\ tasks[id][i] \in TaskRecord
  BY WorkAlone DEF Phases, TypeOK
<1>2. Applied(p, f)' \ {id} = Applied(p, f) \ {id}
  <2>1. Applied(p, f) \subseteq ProjectIds /\ Applied(p, f)' \subseteq ProjectIds
    BY DEF Applied
  <2> QED BY <2>1, AppliedBut, WorkAlone
<1>3. id \in Applied(p, f) <=>
        projects[id] # NoProject /\ projects[id].kind = f /\ projects[id].target = p
        /\ tasks[id][i].pc = "mark"
  BY <1>1, AppliedIs
<1>4. id \in Applied(p, f)' <=>
        projects'[id] # NoProject /\ projects'[id].kind = f /\ projects'[id].target = p
        /\ (projects'[id].status = "complete" \/ tasks'[id][i].pc = "mark")
  BY <1>1 DEF Applied, None
<1>5. CASE StartBuilding(id, i) \/ FinishUpgrade(id, i) \/ MarkComplete(id, i)
  <2>1. planet' = planet
    BY <1>5 DEF StartBuilding, FinishUpgrade, MarkComplete
  <2>2. id \in Applied(p, f)' <=> id \in Applied(p, f)
    <3>1. CASE projects[id] = NoProject
      <4>1. projects'[id] = NoProject
        BY <3>1, WorkDoes
      <4> QED BY <1>3, <1>4, <3>1, <4>1
    <3>2. CASE projects[id] # NoProject
      <4>1. \A status : LET pr == [projects[id] EXCEPT !.status = status]
                        IN  /\ pr.kind = projects[id].kind /\ pr.target = projects[id].target
                            /\ pr.status = status
        BY <1>1, <3>2 DEF Project
      <4>2. tasks[id][i].pc # "apply"
        BY <1>5 DEF StartBuilding, FinishUpgrade, MarkComplete
      <4>3. CASE /\ tasks[id][i].pc = "mark" /\ tasks'[id][i] = None
                 /\ projects'[id] = [projects[id] EXCEPT !.status = "complete"]
        <5>1. projects'[id] # NoProject
          BY <1>1, <3>2, <4>1, <4>3, ConstructionAssumption DEF Project, Statuses
        <5> QED BY <1>3, <1>4, <3>2, <4>1, <4>3, <5>1
      <4>4. CASE /\ tasks[id][i].pc \in {"transit", "upgrade"}
                 /\ tasks'[id][i] = [pc |-> "apply", project |-> projects[id]]
                 /\ projects'[id] \in {projects[id], [projects[id] EXCEPT !.status = "building"]}
        <5>1. projects'[id].status # "complete"
          BY <1>1, <3>2, <4>1, <4>4 DEF InStep
        <5> QED BY <1>3, <1>4, <4>4, <5>1
      <4> QED BY <3>2, <4>2, <4>3, <4>4, WorkDoes
    <3> QED BY <3>1, <3>2
  <2>3. Applied(p, f)' = Applied(p, f)
    BY <1>2, <2>2
  <2>4. Connected(p)' = Connected(p)
    BY <2>1 DEF Connected
  <2> QED BY <2>1, <2>3, <2>4 DEF Effect, Nothing
<1>6. CASE Apply(id, i)
  <2> DEFINE pr == tasks[id][i].project
  <2>1. pr \in Project /\ pr.target \in Planets
    BY <1>6, Working DEF Apply
  <2>2. planet' = [planet EXCEPT ![pr.target] = Built(pr)] /\ tasks[id][i].pc = "apply"
        /\ projects' = projects
    BY <1>6 DEF Apply
  <2>3. tasks'[id][i].pc = "mark"
    <3>1. tasks'[id][i] = [tasks[id][i] EXCEPT !.pc = "mark"]
      BY <1>6 DEF Apply, GotoTask, TypeOK
    <3> QED BY <1>1, <3>1 DEF TaskRecord
  <2>4. projects[id] # NoProject =>
          projects[id].kind = pr.kind /\ projects[id].target = pr.target
          /\ projects[id].status # "complete"
    BY <1>1 DEF InStep
  <2>5. id \notin Applied(p, f)
    BY <1>3, <2>2
  <2>6. id \in Applied(p, f)' <=> projects[id] # NoProject /\ pr.kind = f /\ pr.target = p
    BY <1>4, <2>2, <2>3, <2>4
  <2> HIDE DEF pr
  <2>7. p # pr.target \/ Built(pr) = planet[p] => planet'[p] = planet[p]
    BY <2>1, <2>2 DEF TypeOK
  <2>8. ASSUME planet'[p] = planet[p], id \notin Applied(p, f)' PROVE Nothing(p, f)
    BY <1>2, <2>5, <2>8 DEF Nothing, Connected
  <2>9. CASE p # pr.target
    BY <2>6, <2>7, <2>8, <2>9 DEF Effect, Nothing
  <2>10. CASE p = pr.target
    <3>1. planet'[p] = Built(pr)
      BY <2>1, <2>2, <2>10 DEF TypeOK
    <3>2. CASE Built(pr) = planet[p] /\ (pr.kind \notin Facilities \/ ~Connected(p))
      <4>1. id \notin Applied(p, f)'
        BY <2>6, <3>1, <3>2 DEF Connected
      <4> QED BY <2>7, <2>8, <3>2, <4>1 DEF Effect, Nothing
    <3>3. CASE pr.kind \notin Facilities /\ ~Connected(p) /\ Built(pr).level[f] = 1
      <4>1. \A jd \in ProjectIds : ~IsUpgradeOf(projects[jd], p)
        BY <3>3, NoneApplied
      <4>2. Applied(p, f)' = {}
        BY <2>2, <4>1 DEF Applied, IsUpgradeOf
      <4> QED BY <3>1, <3>3, <4>2 DEF Effect, Founded
    <3>4. CASE /\ pr.kind \in Facilities /\ Connected(p)
               /\ Built(pr).status = planet[p].status
               /\ Built(pr).level[f] = planet[p].level[f] + (IF f = pr.kind THEN 1 ELSE 0)
      <4>1. Connected(p)' = Connected(p)
        BY <3>1, <3>4 DEF Connected
      <4>2. CASE f # pr.kind
        <5>1. planet[p].level[f] \in Nat
          BY DEF TypeOK, PlanetRecord
        <5>2. planet'[p].level[f] = planet[p].level[f]
          BY <3>1, <3>4, <4>2, <5>1
        <5>3. Applied(p, f)' = Applied(p, f)
          BY <1>2, <2>5, <2>6, <4>2
        <5> QED BY <3>4, <4>1, <5>2, <5>3 DEF Effect, Nothing
      <4>3. CASE f = pr.kind /\ projects[id] = NoProject
        BY <1>1, <1>2, <2>5, <2>6, <3>1, <3>4, <4>3 DEF Effect, Unrecorded
      <4>4. CASE f = pr.kind /\ projects[id] # NoProject
        <5>1. Applied(p, f)' = Applied(p, f) \cup {id}
          BY <1>2, <2>5, <2>6, <2>10, <4>4
        <5> QED BY <2>5, <3>1, <3>4, <4>4, <5>1 DEF Effect, OneMore
      <4> QED BY <4>2, <4>3, <4>4
    <3> QED BY <2>1, <2>10, <3>2, <3>3, <3>4, BuiltWhat
  <2> QED BY <2>9, <2>10
<1> QED BY <1>5, <1>6 DEF Work

\* What any step does to an upgrade, unless it loads a snapshot.
LEMMA StepEffect ==
  ASSUME Typed, Phases, Standing, ~Reloaded, [Next]_vars, loads' = loads,
         NEW p \in Planets \ Removable, NEW f \in Facilities, Connected(p)'
  PROVE  Effect(p, f) /\ (Connected(p) \/ Founded(p, f)) /\ edited \subseteq edited'
<1> USE DEF Typed
<1>1. ASSUME planet'[p].status = planet[p].status, planet'[p].level = planet[p].level,
             Applied(p, f)' = Applied(p, f)
      PROVE  Effect(p, f) /\ Connected(p)
  BY <1>1 DEF Effect, Nothing, Connected
<1>2. ASSUME projects' = projects, tasks' = tasks PROVE Applied(p, f)' = Applied(p, f)
  BY <1>2 DEF Applied
<1>3. CASE UNCHANGED vars \/ NewRequest \/ Unregister \/ Save
           \/ (\E t \in Threads : Drop(t)) \/ \E q \in Planets : RemoveStation(q)
  <2>1. UNCHANGED <<projects, tasks, edited>> /\ planet'[p] = planet[p]
    BY <1>3 DEF vars, admin, NewRequest, Request, Drop, Unregister, Save, RemoveStation, TypeOK
  <2> QED BY <1>1, <1>2, <2>1
<1>4. CASE \E t \in Threads : Serve(t)
  <2>1. PICK t \in Threads : Serve(t)
    BY <1>4
  <2>2. /\ planet'[p].status = planet[p].status /\ planet'[p].level = planet[p].level
        /\ edited' = edited
    BY <2>1, ServeKeeps
  <2>3. Applied(p, f)' = Applied(p, f)
    <3>1. CASE Pay(t) \/ Supply(t)
      BY <1>2, <3>1 DEF Pay, Supply
    <3>2. CASE Record(t)
      <4>1. PICK id \in ProjectIds :
              /\ projects[id] = NoProject
              /\ projects' = [projects EXCEPT ![id] = handler[t].project]
              /\ tasks' = [tasks EXCEPT ![id][OwnSlot] = Task(handler[t].project)]
              /\ \A i \in Slots : tasks[id][i] = None
        BY <3>2 DEF Record
      <4>2. \A jd \in ProjectIds \ {id} : projects'[jd] = projects[jd] /\ tasks'[jd] = tasks[jd]
        BY <4>1 DEF TypeOK
      <4>3. /\ projects'[id] = handler[t].project
            /\ \A i \in Slots : tasks'[id][i] \in {None, Task(handler[t].project)}
        BY <4>1 DEF TypeOK
      <4>4. handler[t] \notin {Idle, Cut}
        BY <3>2 DEF Record, Idle, Cut
      <4>5. projects'[id].status # "complete"
        BY <4>3, <4>4 DEF Phases
      <4>6. id \notin Applied(p, f)' /\ id \notin Applied(p, f)
        BY <4>1, <4>3, <4>5 DEF Applied, Task, None
      <4>7. Applied(p, f)' \subseteq ProjectIds /\ Applied(p, f) \subseteq ProjectIds
        BY DEF Applied
      <4> QED BY <4>2, <4>6, <4>7, AppliedBut
    <3> QED BY <2>1, <3>1, <3>2 DEF Serve
  <2> QED BY <1>1, <2>2, <2>3
<1>5. CASE \E id \in ProjectIds, i \in Slots : Work(id, i)
  <2>1. PICK id \in ProjectIds, i \in Slots : Work(id, i)
    BY <1>5
  <2>2. edited' = edited
    BY <2>1 DEF Work, StartBuilding, FinishUpgrade, Apply, MarkComplete, admin
  <2> QED BY <2>1, <2>2, WorkEffect
<1>6. CASE \E q \in Planets, pl \in Players : PutStation(q, pl)
  <2>1. PICK q \in Planets, pl \in Players : PutStation(q, pl)
    BY <1>6
  <2>2. /\ planet' = [planet EXCEPT ![q] = Updated(q, pl)]
        /\ edited' = edited \cup {q} /\ projects' = projects /\ tasks' = tasks
    BY <2>1 DEF PutStation
  <2>3. CASE q # p
    <3>1. planet'[p] = planet[p]
      BY <2>2, <2>3
    <3> QED BY <1>1, <1>2, <2>2, <3>1
  <2>4. CASE q = p /\ Connected(p)
    <3> DEFINE levels == [g \in Facilities |-> IF g \in Fields THEN 1 ELSE planet[p].level[g]]
               new == [planet[p] EXCEPT !.owner = pl, !.level = levels]
    <3>1. planet[p] \in PlanetRecord /\ planet'[p] = Updated(p, pl)
      BY <2>2, <2>4 DEF TypeOK
    <3>2. Updated(p, pl) = new
      BY <2>4 DEF Updated
    <3>3. levels[f] = IF f \in Fields THEN 1 ELSE planet[p].level[f]
      OBVIOUS
    <3> HIDE DEF levels
    <3>4. planet'[p].status = planet[p].status /\ planet'[p].level = levels
      BY <3>1, <3>2 DEF PlanetRecord
    <3>5. CASE f \in Fields
      BY <1>2, <2>2, <2>4, <3>3, <3>4, <3>5 DEF Effect, SetBack
    <3>6. CASE f \notin Fields
      <4>1. Nothing(p, f)
        BY <1>2, <2>2, <3>3, <3>4, <3>6 DEF Nothing, Connected
      <4> QED BY <2>2, <2>4, <4>1 DEF Effect
    <3> QED BY <3>5, <3>6
  <2>5. CASE q = p /\ ~Connected(p)
    <3>1. planet'[p] = Updated(p, pl)
      BY <2>2, <2>5 DEF TypeOK
    <3>2. planet'[p].level[f] = 1
      BY <2>5, <3>1 DEF Updated, Basic
    <3>3. \A id \in ProjectIds : ~IsUpgradeOf(projects[id], p)
      BY <2>5, NoneApplied
    <3>4. Applied(p, f)' = {}
      BY <2>2, <3>3 DEF Applied, IsUpgradeOf
    <3> QED BY <2>2, <3>2, <3>4 DEF Effect, Founded
  <2> QED BY <2>3, <2>4, <2>5
<1>7. CASE \E pl \in Players : DropProjects(pl)
  <2>1. PICK pl \in Players : DropProjects(pl)
    BY <1>7
  <2>2. /\ UNCHANGED <<planet, tasks, edited>>
        /\ \A id \in ProjectIds : projects'[id] \in {projects[id], NoProject}
    BY <2>1 DEF DropProjects
  <2>3. Applied(p, f)' \subseteq Applied(p, f)
    BY <2>2 DEF Applied
  <2>4. Deleting'
    BY <2>1 DEF DropProjects, Deleting, Idle
  <2> QED BY <2>2, <2>3, <2>4 DEF Effect, Dropped, Connected
<1>8. CASE Disown
  <2>1. planet[p] \in PlanetRecord /\ UNCHANGED <<projects, tasks, edited>>
    BY <1>8 DEF Disown, TypeOK
  <2>2. [planet[p] EXCEPT !.owner = Nobody].status = planet[p].status
        /\ [planet[p] EXCEPT !.owner = Nobody].level = planet[p].level
    BY <2>1 DEF PlanetRecord
  <2>3. planet'[p] \in {planet[p], [planet[p] EXCEPT !.owner = Nobody]}
    BY <1>8 DEF Disown
  <2> QED BY <1>1, <1>2, <2>1, <2>2, <2>3
<1>9. ~Recover /\ ~Restart /\ ~Reload
  BY LoadsGrow DEF Recover, Restart, Reload, Phases
<1> QED BY <1>3, <1>4, <1>5, <1>6, <1>7, <1>8, <1>9 DEF Next

\* There are finitely many upgrades to count.
LEMMA Countable ==
  ASSUME NEW S \in SUBSET ProjectIds
  PROVE  /\ IsFiniteSet(S) /\ Cardinality(S) \in Nat
         /\ \A T \in SUBSET S : Cardinality(T) <= Cardinality(S)
         /\ \A id \in ProjectIds \ S : Cardinality(S \cup {id}) = Cardinality(S) + 1
<1>1. IsFiniteSet(S)
  BY ConstructionAssumption, FS_Subset
<1> QED BY <1>1, FS_Subset, FS_AddElement, FS_CardinalityType

\* What an effect makes of the two counts.
LEMMA EffectCounts ==
  ASSUME Typed, Typed', NEW p \in Planets, NEW f \in Facilities, Effect(p, f)
  PROVE  /\ planet[p].level[f] >= 1 + Cardinality(Applied(p, f)) =>
              planet'[p].level[f] >= 1 + Cardinality(Applied(p, f)') \/ SetBack(p, f)
         /\ Founded(p, f) =>
              planet'[p].level[f] = 1 + Cardinality(Applied(p, f)')
         /\ planet[p].level[f] <= 1 + Cardinality(Applied(p, f)) =>
              \/ planet'[p].level[f] <= 1 + Cardinality(Applied(p, f)')
              \/ Dropped(p, f) \/ Unrecorded(p, f)
<1> DEFINE before == Applied(p, f)
           after == Applied(p, f)'
<1>1. before \in SUBSET ProjectIds /\ after \in SUBSET ProjectIds
  BY DEF Applied
<1>2. planet[p].level[f] \in Nat /\ planet'[p].level[f] \in Nat
  BY DEF Typed, TypeOK, PlanetRecord
<1>3. Cardinality(before) \in Nat /\ Cardinality(after) \in Nat
  BY <1>1, Countable
<1>4. Founded(p, f) => planet'[p].level[f] = 1 + Cardinality(after)
  <2>1. Cardinality({}) = 0
    BY FS_EmptySet
  <2> QED BY <2>1 DEF Founded
<1>5. CASE Founded(p, f)
  BY <1>2, <1>3, <1>4, <1>5
<1>6. CASE Nothing(p, f)
  BY <1>4, <1>6 DEF Nothing
<1>7. CASE Dropped(p, f)
  <2>1. after \subseteq before /\ planet'[p].level[f] = planet[p].level[f]
    BY <1>7 DEF Dropped
  <2>2. Cardinality(after) <= Cardinality(before)
    BY <1>1, <2>1, Countable
  <2> QED BY <1>2, <1>3, <1>4, <1>7, <2>1, <2>2
<1>8. CASE OneMore(p, f)
  <2>1. PICK id \in ProjectIds \ before : after = before \cup {id}
    BY <1>8 DEF OneMore
  <2>2. Cardinality(after) = Cardinality(before) + 1
    BY <1>1, <2>1, Countable
  <2>3. planet'[p].level[f] = planet[p].level[f] + 1
    BY <1>8 DEF OneMore
  <2> QED BY <1>2, <1>3, <1>4, <2>2, <2>3
<1>9. CASE Unrecorded(p, f)
  <2>1. after = before /\ planet'[p].level[f] = planet[p].level[f] + 1
    BY <1>9 DEF Unrecorded
  <2> QED BY <1>2, <1>3, <1>4, <1>9, <2>1
<1>10. CASE SetBack(p, f)
  <2>1. after = before /\ planet'[p].level[f] = 1 /\ planet[p].level[f] >= 1
    BY <1>10 DEF SetBack, Typed, TypeOK, PlanetRecord
  <2> QED BY <1>2, <1>3, <1>4, <1>10, <2>1
<1> QED BY <1>5, <1>6, <1>7, <1>8, <1>9, <1>10 DEF Effect

\* At the start no facility has grown.
LEMMA CountsInit == Init => AtLeast /\ AtMost
<1> SUFFICES ASSUME Init PROVE AtLeast /\ AtMost
  OBVIOUS
<1>1. \A p \in Planets, f \in Facilities : planet[p].level[f] = 1 /\ Applied(p, f) = {}
  BY DEF Init, Basic, Applied
<1>2. Cardinality({}) = 0
  BY FS_EmptySet
<1>3. saved = NoSave /\ \A id \in ProjectIds, i \in Slots : tasks[id][i] = None
  BY DEF Init
<1>4. \A p \in Planets, f \in Facilities :
        /\ planet[p].level[f] >= 1 + Cardinality(Applied(p, f))
        /\ planet[p].level[f] <= 1 + Cardinality(Applied(p, f))
  BY <1>1, <1>2
<1> QED BY <1>3, <1>4 DEF AtLeast, AtMost

\* No step loses an upgrade.
LEMMA AtLeastStep ==
  Typed /\ Typed' /\ Phases /\ Standing /\ AtLeast /\ [Next]_vars => AtLeast'
<1> SUFFICES ASSUME Typed, Typed', Phases, Standing, AtLeast, [Next]_vars, ~Reloaded',
                    NEW p \in Planets \ Removable, NEW f \in Facilities
             PROVE  /\ (p \notin edited' \/ f \notin Fields) /\ Connected(p)' =>
                         planet'[p].level[f] >= 1 + Cardinality(Applied(p, f)')
                    /\ saved' # NoSave /\ (p \notin saved'.edited \/ f \notin Fields)
                       /\ saved'.planet[p].status = "connected" =>
                         saved'.planet[p].level[f] >= 1 + Cardinality(CompleteIn(saved'.projects, p, f))
  BY DEF AtLeast
<1>1. CASE Restart \/ Reload
  <2>1. ~Reload /\ ~Reloaded
    BY <1>1, LoadsGrow DEF Restart, Reload
  <2>2. /\ saved' = saved /\ saved # NoSave /\ projects' = saved.projects
        /\ planet' = saved.planet /\ edited' = saved.edited
        /\ \A id \in ProjectIds, i \in Slots :
             tasks'[id][i] = IF i = OwnSlot + 1 THEN Recovered(saved.projects[id]) ELSE None
    BY <1>1, <2>1 DEF Restart, Loaded
  <2>3. \A id \in ProjectIds, i \in Slots : tasks'[id][i].pc # "mark"
    <3>1. \A pr : Task(pr).pc # "mark" /\ None.pc # "mark"
      BY DEF Task, None
    <3>2. \A id \in ProjectIds, i \in Slots :
            tasks'[id][i] = None \/ tasks'[id][i] = Task(saved.projects[id])
      BY <2>2 DEF Recovered
    <3> QED BY <3>1, <3>2
  <2>4. Applied(p, f)' = CompleteIn(saved.projects, p, f)
    BY <2>2, <2>3 DEF Applied, CompleteIn
  <2> QED BY <2>1, <2>2, <2>4 DEF AtLeast, Connected
<1>2. CASE Save
  <2>1. /\ UNCHANGED <<planet, projects, tasks, edited, loads>>
        /\ saved'.planet = planet /\ saved'.projects = projects /\ saved'.edited = edited
    BY <1>2 DEF Save, admin
  <2>2. CompleteIn(projects, p, f) \subseteq Applied(p, f) /\ Applied(p, f) \in SUBSET ProjectIds
        /\ Applied(p, f)' = Applied(p, f)
    BY <2>1 DEF CompleteIn, Applied
  <2>3. Cardinality(CompleteIn(projects, p, f)) <= Cardinality(Applied(p, f))
    BY <2>2, Countable
  <2>4. Cardinality(CompleteIn(projects, p, f)) \in Nat /\ Cardinality(Applied(p, f)) \in Nat
    BY <2>2, Countable
  <2>5. (p \notin edited \/ f \notin Fields) /\ Connected(p) =>
          planet[p].level[f] >= 1 + Cardinality(Applied(p, f))
    BY <2>1 DEF AtLeast, Reloaded
  <2>6. planet[p].level[f] \in Nat
    BY DEF Typed, TypeOK, PlanetRecord
  <2>7. (p \notin edited \/ f \notin Fields) /\ Connected(p) =>
          planet[p].level[f] >= 1 + Cardinality(CompleteIn(projects, p, f))
    BY <2>3, <2>4, <2>5, <2>6
  <2> QED BY <2>1, <2>2, <2>5, <2>7 DEF Connected
<1>3. CASE ~Restart /\ ~Reload /\ ~Save
  <2>1. loads' = loads /\ saved' = saved
    <3>1. CASE \E t \in Threads : Serve(t)
      BY <3>1, ServeKeeps
    <3>2. CASE \E id \in ProjectIds, i \in Slots : Work(id, i)
      BY <3>2, WorkAlone
    <3>3. CASE ~(\E t \in Threads : Serve(t)) /\ ~(\E id \in ProjectIds, i \in Slots : Work(id, i))
      BY <1>3, <3>3 DEF Next, vars, snapshots, NewRequest, Request, Drop, RemoveStation, PutStation,
                        DropProjects, Disown, Unregister, Recover
    <3> QED BY <3>1, <3>2, <3>3
  <2>2. ~Reloaded
    BY <2>1 DEF Reloaded
  <2>3. ASSUME p \notin edited' \/ f \notin Fields, Connected(p)'
        PROVE  planet'[p].level[f] >= 1 + Cardinality(Applied(p, f)')
    <3>1. Effect(p, f) /\ (Connected(p) \/ Founded(p, f)) /\ edited \subseteq edited'
      BY <2>1, <2>2, <2>3, StepEffect
    <3>2. CASE Founded(p, f)
      <4>1. planet'[p].level[f] = 1 + Cardinality(Applied(p, f)') /\ planet'[p].level[f] \in Nat
        BY <3>1, <3>2, EffectCounts DEF Typed, TypeOK, PlanetRecord
      <4> QED BY <4>1
    <3>3. CASE Connected(p)
      <4>1. planet[p].level[f] >= 1 + Cardinality(Applied(p, f))
        BY <2>2, <2>3, <3>1, <3>3 DEF AtLeast
      <4>2. ~SetBack(p, f)
        BY <2>3 DEF SetBack
      <4> QED BY <3>1, <4>1, <4>2, EffectCounts
    <3> QED BY <3>1, <3>2, <3>3
  <2>4. /\ saved # NoSave /\ (p \notin saved.edited \/ f \notin Fields)
           /\ saved.planet[p].status = "connected" =>
             saved.planet[p].level[f] >= 1 + Cardinality(CompleteIn(saved.projects, p, f))
    BY <2>2 DEF AtLeast
  <2> QED BY <2>1, <2>3, <2>4
<1> QED BY <1>1, <1>2, <1>3

\* Before anything is loaded or deleted, no step adds an upgrade that was not
\* applied: every task has its project.
LEMMA AtMostStep ==
  Typed /\ Typed' /\ Phases /\ Standing /\ AtMost /\ [Next]_vars => AtMost'
<1> SUFFICES ASSUME Typed, Typed', Phases, Standing, AtMost, [Next]_vars, loads' = <<>>, ~Deleting'
             PROVE  AtMost'
  BY DEF AtMost
<1>1. ~Restart /\ ~Reload
  <2>1. ASSUME NEW how \in {"restart", "reload"}, Loaded(how) PROVE FALSE
    <3>1. loads' = Append(loads, how) /\ loads \in Seq({"restart", "reload"})
      BY <2>1 DEF Loaded, Typed, TypeOK
    <3>2. Len(loads') = Len(loads) + 1 /\ Len(loads) \in Nat
      BY <3>1
    <3> QED BY <3>2
  <2> QED BY <2>1 DEF Restart, Reload
<1>2. /\ loads' = loads /\ ~Deleting
      /\ ~(\E pl \in Players : DropProjects(pl)) /\ ~Disown /\ ~Unregister
  <2>1. ~(\E pl \in Players : DropProjects(pl)) /\ ~Disown /\ ~Unregister
    BY DEF DropProjects, Disown, Unregister, Deleting, Idle
  <2>2. CASE \E t \in Threads : Serve(t)
    <3>1. UNCHANGED <<gone, deletion, loads>>
      BY <2>2 DEF Serve, Pay, Supply, Record, admin, snapshots
    <3> QED BY <2>1, <3>1 DEF Deleting
  <2>3. CASE \E id \in ProjectIds, i \in Slots : Work(id, i)
    <3>1. UNCHANGED <<gone, deletion, loads>>
      BY <2>3 DEF Work, StartBuilding, FinishUpgrade, Apply, MarkComplete, admin, snapshots
    <3> QED BY <2>1, <3>1 DEF Deleting
  <2>4. CASE ~(\E t \in Threads : Serve(t)) /\ ~(\E id \in ProjectIds, i \in Slots : Work(id, i))
    <3>1. UNCHANGED <<gone, deletion, loads>>
      BY <1>1, <2>1, <2>4 DEF Next, vars, admin, snapshots, NewRequest, Request, Drop, RemoveStation,
                              PutStation, Save, Recover
    <3> QED BY <2>1, <3>1 DEF Deleting
  <2> QED BY <2>2, <2>3, <2>4
<1>3. loads = <<>> /\ ~Reloaded
  BY <1>2 DEF Reloaded
<1>4. \A id \in ProjectIds, i \in Slots : tasks[id][i] # None => projects[id] # NoProject
  BY <1>2, <1>3 DEF AtMost
<1>5. \A id \in ProjectIds, i \in Slots : tasks'[id][i] # None => projects'[id] # NoProject
  <2>1. CASE \E t \in Threads : Record(t)
    <3>1. PICK t \in Threads : Record(t)
      BY <2>1
    <3>2. handler[t].project \in Project
      BY <3>1, Served DEF Record
    <3>3. PICK id \in ProjectIds :
            /\ projects' = [projects EXCEPT ![id] = handler[t].project]
            /\ tasks' = [tasks EXCEPT ![id][OwnSlot] = Task(handler[t].project)]
      BY <3>1 DEF Record
    <3> QED BY <1>4, <3>2, <3>3, ConstructionAssumption DEF Typed, TypeOK
  <2>2. CASE \E id \in ProjectIds, i \in Slots : Work(id, i)
    <3>1. PICK id \in ProjectIds, i \in Slots : Work(id, i)
      BY <2>2
    <3>2. /\ tasks[id][i] # None /\ projects[id] # NoProject
          /\ \A jd \in ProjectIds \ {id} : projects'[jd] = projects[jd] /\ tasks'[jd] = tasks[jd]
      BY <1>4, <3>1, WorkAlone
    <3>3. projects'[id] # NoProject
      <4>1. \A status \in Statuses : [projects[id] EXCEPT !.status = status] \in Project
        BY <3>2 DEF Typed, TypeOK, Project
      <4>2. projects'[id] \in {projects[id], [projects[id] EXCEPT !.status = "building"],
                                [projects[id] EXCEPT !.status = "complete"]}
        BY <3>1, <3>2, WorkDoes
      <4> QED BY <3>2, <4>1, <4>2, ConstructionAssumption DEF Statuses
    <3> QED BY <1>4, <3>2, <3>3
  <2>3. CASE ~(\E t \in Threads : Record(t)) /\ ~(\E id \in ProjectIds, i \in Slots : Work(id, i))
    <3>1. projects' = projects /\ tasks' = tasks
      BY <1>1, <1>2, <1>3, <2>3 DEF Next, vars, NewRequest, Request, Serve, Drop, Pay, Supply,
           RemoveStation, PutStation, Save, Recover, Phases
    <3> QED BY <1>4, <3>1
  <2> QED BY <2>1, <2>2, <2>3
<1>6. ASSUME NEW p \in Planets \ Removable, NEW f \in Facilities, Connected(p)'
      PROVE  planet'[p].level[f] <= 1 + Cardinality(Applied(p, f)')
  <2>1. Effect(p, f) /\ (Connected(p) \/ Founded(p, f))
    BY <1>2, <1>3, <1>6, StepEffect
  <2>2. CASE Founded(p, f)
    <3>1. planet'[p].level[f] = 1 + Cardinality(Applied(p, f)') /\ planet'[p].level[f] \in Nat
      BY <2>1, <2>2, EffectCounts DEF Typed, TypeOK, PlanetRecord
    <3> QED BY <3>1
  <2>3. CASE Connected(p)
    <3>1. planet[p].level[f] <= 1 + Cardinality(Applied(p, f))
      BY <1>2, <1>3, <2>3 DEF AtMost
    <3>2. ~Dropped(p, f) /\ ~Unrecorded(p, f)
      BY <1>4 DEF Dropped, Unrecorded
    <3> QED BY <2>1, <3>1, <3>2, EffectCounts
  <2> QED BY <2>1, <2>2, <2>3
<1> QED BY <1>5, <1>6 DEF AtMost

IInv == Typed /\ Phases /\ Standing /\ AtLeast /\ AtMost

\* The invariant holds at the start.
LEMMA IInvInit == Init => IInv
  BY TypedInit, PhasesInit, StandingInit, CountsInit DEF IInv

\* Every step keeps it.
LEMMA IInvStep == IInv /\ [Next]_vars => IInv'
  BY TypedStep, PhasesStep, StandingStep, AtLeastStep, AtMostStep DEF IInv

\* Between any two sections of the code every facility has grown by exactly the
\* upgrades applied to it, whichever requests, tasks and updates of stations
\* interleave; the deletion of a player only drops the records of them.
THEOREM ConstructionCorrect == Spec => []ConstructionInv
<1>1. IInv => ConstructionInv
  <2> SUFFICES ASSUME IInv, loads = <<>>, NEW p \in Planets \ Removable, NEW f \in Facilities, Connected(p)
               PROVE  /\ ~Deleting => planet[p].level[f] - 1 <= Cardinality(Applied(p, f))
                      /\ (p \in edited /\ f \in Fields)
                         \/ planet[p].level[f] - 1 >= Cardinality(Applied(p, f))
    BY DEF IInv, Typed, ConstructionInv, UpgradesCounted
  <2>1. planet[p].level[f] \in Nat /\ Cardinality(Applied(p, f)) \in Nat
    <3>1. Applied(p, f) \in SUBSET ProjectIds
      BY DEF Applied
    <3> QED BY <3>1, Countable DEF IInv, Typed, TypeOK, PlanetRecord
  <2>2. ~Reloaded
    BY DEF Reloaded
  <2>3. ~Deleting => planet[p].level[f] <= 1 + Cardinality(Applied(p, f))
    BY DEF IInv, AtMost
  <2>4. (p \in edited /\ f \in Fields) \/ planet[p].level[f] >= 1 + Cardinality(Applied(p, f))
    BY <2>2 DEF IInv, AtLeast
  <2> QED BY <2>1, <2>3, <2>4
<1> QED BY <1>1, IInvInit, IInvStep, PTL DEF Spec

\* An upgrade that is reported complete is there, also after any number of
\* restarts from snapshots saved at any moment, unless a snapshot was loaded into
\* the running server.
THEOREM UpgradesNeverLostCorrect == Spec => []UpgradesNeverLost
<1>1. IInv => UpgradesNeverLost
  <2> SUFFICES ASSUME IInv, ~Reloaded, NEW p \in Planets \ (Removable \cup edited),
                      NEW f \in Facilities, Connected(p)
               PROVE  planet[p].level[f] >= 1 + Cardinality(CompleteIn(projects, p, f))
    BY DEF UpgradesNeverLost, CompleteIn
  <2>1. CompleteIn(projects, p, f) \subseteq Applied(p, f) /\ Applied(p, f) \in SUBSET ProjectIds
    BY DEF CompleteIn, Applied
  <2>2. /\ Cardinality(CompleteIn(projects, p, f)) <= Cardinality(Applied(p, f))
        /\ Cardinality(CompleteIn(projects, p, f)) \in Nat /\ Cardinality(Applied(p, f)) \in Nat
    BY <2>1, Countable
  <2>3. planet[p].level[f] >= 1 + Cardinality(Applied(p, f)) /\ planet[p].level[f] \in Nat
    BY DEF IInv, AtLeast, Typed, TypeOK, PlanetRecord
  <2> QED BY <2>2, <2>3
<1> QED BY <1>1, IInvInit, IInvStep, PTL DEF Spec
-----------------------------------------------------------------------------
(* Fees *)

Recorded == {id \in ProjectIds : projects[id] # NoProject}
Paid == {t \in Threads : handler[t].pc \in {"supply", "record"}}

\* What is recorded and what is paid for can be counted.
LEMMA FeesCounted ==
  ASSUME Typed
  PROVE  /\ IsFiniteSet(Recorded) /\ Cardinality(Recorded) \in Nat
         /\ IsFiniteSet(Paid) /\ Cardinality(Paid) \in Nat
         /\ SumFunctionOnSet(credits, Players) \in Int
<1>1. IsFiniteSet(Recorded) /\ IsFiniteSet(Paid)
  BY ConstructionAssumption, FS_Subset DEF Recorded, Paid
<1>2. \A pl \in Players : credits[pl] \in Int
  BY DEF Typed, TypeOK
<1>3. SumFunctionOnSet(credits, Players) \in Int
  BY <1>2, SumType, ConstructionAssumption
<1> QED BY <1>1, <1>3, FS_CardinalityType

\* One element more, one more in number.
LEMMA CountsMore ==
  ASSUME NEW S, IsFiniteSet(S), NEW T, NEW x, x \notin S, T = S \cup {x}
  PROVE  Cardinality(T) = Cardinality(S) + 1
  BY FS_AddElement

\* What a step of a request does to the wealth: the fee leaves the account when
\* the request is paid for, and the request when its project is recorded.
LEMMA WealthServed ==
  ASSUME Typed, NEW t \in Threads, Serve(t), ~(handler[t].pc = "supply" /\ Lacking(t))
  PROVE  Wealth' = Wealth
<1> USE DEF Typed
<1> DEFINE sum == SumFunctionOnSet(credits, Players)
<1>1. /\ IsFiniteSet(Recorded) /\ Cardinality(Recorded) \in Nat
      /\ IsFiniteSet(Paid) /\ Cardinality(Paid) \in Nat /\ sum \in Int
  BY FeesCounted
<1>2. Wealth = sum + Fee * (Cardinality(Recorded) + Cardinality(Paid))
  BY DEF Wealth, Recorded, Paid
<1>3. Wealth' = sum' + Fee * (Cardinality(Recorded') + Cardinality(Paid'))
  BY DEF Wealth, Recorded, Paid
<1>4. handler \in [Threads -> {Idle, Cut} \cup Order] /\ Fee \in Nat
  BY ConstructionAssumption DEF TypeOK
<1>5. CASE Pay(t)
  <2> DEFINE pl == handler[t].project.owner
  <2>1. pl \in Players /\ handler[t].pc = "pay" /\ projects' = projects
    BY <1>5, Served DEF Pay, Project
  <2>2. Recorded' = Recorded
    BY <2>1 DEF Recorded
  <2>3. CASE credits' = credits /\ handler' = [handler EXCEPT ![t] = Idle]
    <3>1. Paid' = Paid
      BY <1>4, <2>1, <2>3 DEF Paid, Idle, Cut
    <3> QED BY <1>2, <1>3, <2>2, <2>3, <3>1
  <2>4. CASE /\ credits' = [credits EXCEPT ![pl] = @ - Fee]
             /\ handler' = [handler EXCEPT ![t].pc = "supply"]
    <3>1. \A u \in Threads : handler'[u].pc = IF u = t THEN "supply" ELSE handler[u].pc
      <4>1. handler[t] \in Order
        BY <2>1, Served
      <4> QED BY <1>4, <2>4, <4>1 DEF Order
    <3>2. Paid' = Paid \cup {t} /\ t \notin Paid
      BY <2>1, <3>1 DEF Paid
    <3>3. Cardinality(Paid') = Cardinality(Paid) + 1
      BY <1>1, <3>2, CountsMore
    <3>4. sum' = sum - Fee
      <4>1. credits \in [Players -> Nat]
        BY DEF TypeOK
      <4>2. \A x \in Players : credits[x] \in Int /\ credits'[x] \in Int
        BY <1>4, <2>1, <2>4, <4>1
      <4>3. \A x \in Players \ {pl} : credits'[x] = credits[x]
        BY <2>4, <4>1
      <4>4. credits'[pl] = credits[pl] - Fee /\ credits[pl] \in Nat
        BY <2>1, <2>4, <4>1
      <4>5. IsFiniteSet(Players)
        BY ConstructionAssumption
      <4> HIDE DEF pl, Typed
      <4>6. sum' = sum + (credits'[pl] - credits[pl])
        BY <2>1, <4>2, <4>3, <4>5, SumChange, SMTT(30)
      <4> QED BY <1>1, <1>4, <4>4, <4>6
    <3> HIDE DEF sum
    <3>5. QED BY <1>1, <1>2, <1>3, <1>4, <2>2, <3>3, <3>4
  <2> QED BY <1>5, <2>3, <2>4 DEF Pay
<1>6. CASE Supply(t)
  <2>1. handler[t].pc = "supply" /\ handler' = [handler EXCEPT ![t].pc = "record"]
    BY <1>6 DEF Supply
  <2>2. handler[t] \in Order
    BY <2>1, Served
  <2>3. \A u \in Threads : handler'[u].pc = IF u = t THEN "record" ELSE handler[u].pc
    BY <1>4, <2>1, <2>2 DEF Order
  <2>4. Paid' = Paid
    BY <2>1, <2>3 DEF Paid
  <2>5. credits' = credits /\ projects' = projects
    BY <1>6 DEF Supply
  <2>6. Recorded' = Recorded
    BY <2>5 DEF Recorded
  <2> QED BY <1>2, <1>3, <2>4, <2>5, <2>6
<1>7. CASE Record(t)
  <2>1. PICK id \in ProjectIds : /\ projects[id] = NoProject
                                 /\ projects' = [projects EXCEPT ![id] = handler[t].project]
    BY <1>7 DEF Record
  <2>2. handler[t].pc = "record" /\ handler' = [handler EXCEPT ![t] = Idle] /\ credits' = credits
    BY <1>7 DEF Record
  <2>3. handler[t].project \in Project /\ handler[t].project # NoProject
    BY <2>2, Served, ConstructionAssumption
  <2>4. Recorded' = Recorded \cup {id} /\ id \notin Recorded
    BY <2>1, <2>3 DEF Recorded, TypeOK
  <2>5. Paid = Paid' \cup {t} /\ t \notin Paid'
    BY <1>4, <2>2 DEF Paid, Idle, Cut
  <2>6. Cardinality(Recorded') = Cardinality(Recorded) + 1
    BY <1>1, <2>4, CountsMore
  <2>7. IsFiniteSet(Paid') /\ Cardinality(Paid') \in Nat
    BY ConstructionAssumption, FS_Subset, FS_CardinalityType DEF Paid
  <2>8. Cardinality(Paid) = Cardinality(Paid') + 1
    BY <2>5, <2>7, CountsMore
  <2> HIDE DEF sum
  <2>9. sum' = sum
    BY <2>2 DEF sum
  <2> QED BY <1>1, <1>2, <1>3, <2>6, <2>7, <2>8, <2>9
<1> QED BY <1>5, <1>6, <1>7 DEF Serve

\* What leaves the credits, the number of projects and the requests past their
\* payment alone leaves the wealth alone.
LEMMA WealthSame ==
  ASSUME credits' = credits, Recorded' = Recorded, Paid' = Paid
  PROVE  Wealth' = Wealth
  BY DEF Wealth, Recorded, Paid

\* A new request, the tasks, the admin's stations and the sections of a deletion
\* after the first, a save and a recovery: none of them touches credits.
LEMMA WealthElsewhere ==
  ASSUME Typed, Next, loads' = loads, ~\E t \in Threads : Serve(t),
         ~\E t \in Threads : handler[t].pc \in {"supply", "record"} /\ handler'[t] = Cut,
         ~(deletion = Idle /\ deletion' # Idle)
  PROVE  Wealth' = Wealth
<1> USE DEF Typed
<1>1. ~Restart /\ ~Reload
  <2>1. loads \in Seq({"restart", "reload"})
    BY DEF TypeOK
  <2>2. \A how : Append(loads, how) # loads
    <3>1. \A how : Len(Append(loads, how)) = Len(loads) + 1 /\ Len(loads) \in Nat
      BY <2>1
    <3> QED BY <3>1
  <2> QED BY <2>2 DEF Restart, Reload, Loaded
<1>2. ~\E pl \in Players : DropProjects(pl)
  BY DEF DropProjects, Idle
<1>3. CASE NewRequest
  <2>1. PICK t \in Threads : \E pr : /\ handler[t] = Idle
                                     /\ handler' = [handler EXCEPT ![t] = [pc |-> "pay", project |-> pr]]
                                     /\ credits' = credits /\ projects' = projects
    BY <1>3, ZenonT(40) DEF NewRequest, Request
  <2>2. \A u \in Threads : handler'[u].pc = IF u = t THEN "pay" ELSE handler[u].pc
    BY <2>1 DEF TypeOK
  <2>3. Paid' = Paid
    BY <2>1, <2>2 DEF Paid, Idle, Cut
  <2>4. Recorded' = Recorded
    BY <2>1 DEF Recorded
  <2> QED BY <2>1, <2>3, <2>4, WealthSame
<1>4. ASSUME NEW id \in ProjectIds, NEW i \in Slots, Work(id, i) PROVE Wealth' = Wealth
  <2>1. credits' = credits /\ handler' = handler
    BY <1>4 DEF Work, StartBuilding, FinishUpgrade, Apply, MarkComplete
  <2>2. \/ projects' = projects
        \/ /\ projects[id] # NoProject
           /\ \E s \in Statuses : projects' = [projects EXCEPT ![id].status = s]
    BY <1>4 DEF Work, StartBuilding, FinishUpgrade, Apply, MarkComplete, Statuses
  <2>3. ASSUME NEW s \in Statuses, projects[id] # NoProject, projects' = [projects EXCEPT ![id].status = s]
        PROVE  projects'[id] # NoProject /\ \A jd \in ProjectIds \ {id} : projects'[jd] = projects[jd]
    <3>1. [projects[id] EXCEPT !.status = s] \in Project
      BY <2>3 DEF TypeOK, Project
    <3> QED BY <2>3, <3>1, ConstructionAssumption DEF TypeOK
  <2>4. Recorded' = Recorded
    BY <2>2, <2>3 DEF Recorded
  <2>5. Paid' = Paid
    BY <2>1 DEF Paid
  <2> QED BY <2>1, <2>4, <2>5, WealthSame
<1>5. CASE \/ \E p \in Planets : RemoveStation(p)
           \/ \E p \in Planets, pl \in Players : PutStation(p, pl)
           \/ Disown \/ Unregister \/ Save \/ Recover
  <2>1. credits' = credits /\ projects' = projects /\ handler' = handler
    BY <1>5 DEF RemoveStation, PutStation, Disown, Unregister, Save, Recover
  <2> QED BY <2>1, WealthSame DEF Recorded, Paid
<1>6. ASSUME NEW t \in Threads, Drop(t) PROVE Wealth' = Wealth
  <2>1. handler' = [handler EXCEPT ![t] = Cut] /\ credits' = credits /\ projects' = projects
    BY <1>6 DEF Drop
  <2>2. handler \in [Threads -> {Idle, Cut} \cup Order]
    BY DEF TypeOK
  <2>3. Paid' = Paid
    BY <2>1, <2>2 DEF Paid, Cut
  <2>4. Recorded' = Recorded
    BY <2>1 DEF Recorded
  <2> QED BY <2>1, <2>3, <2>4, WealthSame
<1> QED BY <1>1, <1>2, <1>3, <1>4, <1>5, <1>6 DEF Next

\* A fee buys a project: however requests, tasks and admins interleave, what
\* players have in credits, payments and projects changes only where a request
\* that has paid finds its goods missing or is dropped, or with the projects of a
\* player who is deleted.
THEOREM FeeCorrect == Spec => FeeLostOnlyForGoods
<1> DEFINE Kept ==
      loads' = loads /\ Wealth' # Wealth =>
        \/ \E t \in Threads : handler[t].pc = "supply" /\ Lacking(t)
        \/ \E t \in Threads : handler[t].pc \in {"supply", "record"} /\ handler'[t] = Cut
        \/ deletion = Idle /\ deletion' # Idle
<1>1. Typed /\ [Next]_vars => [Kept]_vars
  <2> SUFFICES ASSUME Typed, Next, loads' = loads,
                      ~\E t \in Threads : handler[t].pc = "supply" /\ Lacking(t),
                      ~\E t \in Threads : handler[t].pc \in {"supply", "record"} /\ handler'[t] = Cut,
                      ~(deletion = Idle /\ deletion' # Idle)
               PROVE  Wealth' = Wealth
    OBVIOUS
  <2>1. CASE \E t \in Threads : Serve(t)
    BY <2>1, WealthServed
  <2> QED BY <2>1, WealthElsewhere
<1> QED BY <1>1, TypedInit, TypedStep, PTL DEF Spec, FeeLostOnlyForGoods

=============================================================================
