----------------------------- MODULE Construction -----------------------------
(***************************************************************************)
(* Construction projects: the handlers of src/routes/construction.rs, the  *)
(* background tasks of src/construction_lifecycle.rs that build what was   *)
(* paid for, and the snapshots of src/persistence.rs that save projects    *)
(* and restart their tasks.                                                *)
(*                                                                         *)
(* create_project checks the planets, takes the fee, takes the goods and   *)
(* records the project, each under a lock of its own.  A task applies its  *)
(* project to the galaxy and marks it complete, again in two sections.     *)
(* Meanwhile the admin may put, update or remove stations, and delete      *)
(* players, which takes one section for each kind of thing they own.       *)
(* Saving holds every lock at once, so it is one action; so is loading,    *)
(* but the recovery of tasks comes after the locks are released.           *)
(*                                                                         *)
(* There is one good and one price list: every project costs Fee credits   *)
(* and Goods units.  How long transit and building take is left open.      *)
(***************************************************************************)
EXTENDS Integers, Sequences, FiniteSets, Functions

CONSTANTS
  Planets,
  Players,
  Nobody,        \* the owner where there is no station
  InitStatus,    \* [Planets -> PlanetStatus] at the start
  InitOwner,     \* [Planets -> Players \cup {Nobody}] at the start
  Facilities,    \* what upgrades extend: docking bays, storage, cabins, ...
  Cabins,        \* the facilities paid for from the warehouse
  Fields,        \* the facilities that are fields of Station: bays and storage
  ProjectIds,
  Threads,       \* concurrent requests; each may be dropped once
  Extras,        \* extra goods a found-settlement request may carry
  Fee, Goods,    \* the price of any project
  InitCredits, InitStock,
  Removable,     \* the planets whose station the admin may remove
  Editable,      \* the planets whose station the admin may put
  MaxEdits,      \* bound on the stations the admin puts, each once
  Deletable,     \* the players the admin may delete
  MaxLoads,      \* bound on restarts and reloads
  Loading,       \* how snapshots are loaded: by a "restart", by a "reload"
  NoProject, NoSave

Kinds    == {"install_station", "found_settlement"} \cup Facilities
Statuses == {"in_transit", "building", "complete"}

Project == [kind : Kinds, owner : Players, from : Planets, target : Planets,
            extra : Nat, status : Statuses]

ASSUME ConstructionAssumption ==
  /\ InitStatus \in [Planets -> {"uninhabited", "settled", "connected"}]
  /\ InitOwner \in [Planets -> Players \cup {Nobody}]
  /\ Nobody \notin Players
  /\ \A p \in Planets : InitStatus[p] = "connected" <=> InitOwner[p] # Nobody
  /\ Cabins \subseteq Facilities /\ Fields \subseteq Facilities \ Cabins
  /\ {"install_station", "found_settlement"} \cap Facilities = {}
  /\ IsFiniteSet(ProjectIds) /\ IsFiniteSet(Threads) /\ IsFiniteSet(Players)
  /\ Extras \subseteq Nat
  /\ Fee \in Nat /\ Goods \in Nat /\ InitStock \in Nat
  /\ InitCredits \in [Players -> Nat]
  /\ MaxLoads \in Nat /\ Removable \subseteq Planets
  /\ MaxEdits \in Nat /\ Editable \subseteq Planets /\ Deletable \subseteq Players
  /\ Loading \subseteq {"restart", "reload"}
  /\ NoProject \notin Project

VARIABLES
  planet,     \* status, owner, facilities and goods of each planet
  credits,    \* player.credits
  projects,   \* AppState::projects
  handler,    \* what each create_project request is doing
  tasks,      \* the background tasks of each project, by slot
  edited,     \* the planets whose station the admin has put
  gone,       \* the players deleted
  deletion,   \* what the deletion of a player is doing
  loads,      \* the snapshots loaded so far: by restart or by reload
  recovering, \* loaded, but tasks not recovered yet
  saved       \* the snapshot in S3

snapshots == <<loads, recovering, saved>>
admin == <<edited, gone, deletion>>
vars == <<planet, credits, projects, handler, tasks, admin, snapshots>>

Place == {"station", "warehouse"}
Empty == [place \in Place |-> 0]
Basic == [f \in Facilities |-> 1]
Idle  == [pc |-> "idle"]
Cut   == [pc |-> "cut"]
None  == [pc |-> "none"]

\* A project may have several tasks: one spawned by its request, in the slot of
\* the loads, and one recovered by each load, in the slot before.
Slots == 0..(2 * MaxLoads)
OwnSlot == 2 * Len(loads)

Init ==
  /\ planet = [p \in Planets |->
       [status |-> InitStatus[p], owner |-> InitOwner[p], level |-> Basic,
        stock |-> IF InitStatus[p] = "connected"
                  THEN [place \in Place |-> InitStock] ELSE Empty]]
  /\ credits = InitCredits
  /\ projects = [id \in ProjectIds |-> NoProject]
  /\ handler = [t \in Threads |-> Idle]
  /\ tasks = [id \in ProjectIds |-> [i \in Slots |-> None]]
  /\ edited = {}
  /\ gone = {}
  /\ deletion = Idle
  /\ loads = <<>>
  /\ recovering = FALSE
  /\ saved = NoSave

Connected(p) == planet[p].status = "connected"
TwoPhase(kind) == kind \in {"install_station", "found_settlement"}

-----------------------------------------------------------------------------
(* POST /projects *)

\* The planets are as the kind of project requires, under galaxy.read().
Allowed(pl, kind, from, target) ==
  /\ Connected(from) /\ planet[from].owner = pl
  /\ \/ kind = "install_station"  /\ from # target /\ planet[target].status = "settled"
     \/ kind = "found_settlement" /\ from # target /\ planet[target].status = "uninhabited"
     \/ kind \in Facilities /\ from = target

Request(t, pl, kind, from, target, extra) ==
  /\ handler[t] = Idle
  /\ pl \notin gone
  /\ Allowed(pl, kind, from, target)
  /\ handler' = [handler EXCEPT ![t] =
       [pc |-> "pay", project |->
          [kind |-> kind, owner |-> pl, from |-> from, target |-> target,
           extra |-> IF kind = "found_settlement" THEN extra ELSE 0,
           status |-> IF TwoPhase(kind) THEN "in_transit" ELSE "building"]]]
  /\ UNCHANGED <<planet, credits, projects, tasks, admin, snapshots>>

\* Mutant: the fee is taken before the balance is compared with it.
PayFirst(t) ==
  LET pl == handler[t].project.owner
  IN  /\ handler[t].pc = "pay"
      /\ credits' = [credits EXCEPT ![pl] = @ - Fee]
      /\ handler' = IF credits[pl] >= Fee THEN [handler EXCEPT ![t].pc = "supply"]
                    ELSE [handler EXCEPT ![t] = Idle]
      /\ UNCHANGED <<planet, projects, tasks, admin, snapshots>>

\* validate_and_deduct_credits: an owner deleted meanwhile is not found.
Pay(t) ==
  LET pl == handler[t].project.owner
  IN  /\ handler[t].pc = "pay"
      /\ IF pl \notin gone /\ credits[pl] >= Fee
         THEN /\ credits' = [credits EXCEPT ![pl] = @ - Fee]
              /\ handler' = [handler EXCEPT ![t].pc = "supply"]
         ELSE /\ handler' = [handler EXCEPT ![t] = Idle]
              /\ UNCHANGED credits
      /\ UNCHANGED <<planet, projects, tasks, admin, snapshots>>

Source(pr) == IF pr.kind \in Cabins THEN "warehouse" ELSE "station"
Supplies(pr) == Goods + pr.extra
Lacking(t) ==
  LET pr == handler[t].project
  IN  Connected(pr.from) /\ planet[pr.from].stock[Source(pr)] < Supplies(pr)

\* validate_and_deduct_station_goods and ..._warehouse_goods: the request ends
\* if goods are missing, and goes on, unpaid, if the station is gone.
Supply(t) ==
  LET pr == handler[t].project
  IN  /\ handler[t].pc = "supply"
      /\ \/ /\ Connected(pr.from) /\ ~Lacking(t)
            /\ planet' = [planet EXCEPT ![pr.from].stock[Source(pr)] = @ - Supplies(pr)]
            /\ handler' = [handler EXCEPT ![t].pc = "record"]
         \/ /\ ~Connected(pr.from)
            /\ handler' = [handler EXCEPT ![t].pc = "record"]
            /\ UNCHANGED planet
         \/ /\ Lacking(t)
            /\ handler' = [handler EXCEPT ![t] = Idle]
            /\ UNCHANGED planet
      /\ UNCHANGED <<credits, projects, tasks, admin, snapshots>>

\* The task that builds project pr: it sleeps, and finds the project later.
Task(pr) == [pc |-> IF TwoPhase(pr.kind) THEN "transit" ELSE "upgrade", project |-> pr]

\* projects.insert and the spawn after it.
Record(t) ==
  /\ handler[t].pc = "record"
  /\ \E id \in ProjectIds :
       /\ projects[id] = NoProject /\ \A i \in Slots : tasks[id][i] = None
       /\ projects' = [projects EXCEPT ![id] = handler[t].project]
       /\ tasks' = [tasks EXCEPT ![id][OwnSlot] = Task(handler[t].project)]
  /\ handler' = [handler EXCEPT ![t] = Idle]
  /\ UNCHANGED <<planet, credits, admin, snapshots>>

\* The client disconnects, and the server drops the future of the handler where
\* it waits for the lock of its next section.  Its thread is used up by that,
\* which bounds the requests dropped.
Drop(t) ==
  /\ handler[t] \notin {Idle, Cut}
  /\ handler' = [handler EXCEPT ![t] = Cut]
  /\ UNCHANGED <<planet, credits, projects, tasks, admin, snapshots>>

-----------------------------------------------------------------------------
(* The background tasks *)

SetTask(id, i, task) == tasks' = [tasks EXCEPT ![id][i] = task]
GotoTask(id, i, pc) == tasks' = [tasks EXCEPT ![id][i].pc = pc]

\* spawn_construction_project after the transit: whatever the status was.
StartBuilding(id, i) ==
  /\ tasks[id][i].pc = "transit"
  /\ IF projects[id] = NoProject
     THEN SetTask(id, i, None) /\ UNCHANGED projects
     ELSE /\ projects' = [projects EXCEPT ![id].status = "building"]
          /\ SetTask(id, i, [pc |-> "apply", project |-> projects[id]])
  /\ UNCHANGED <<planet, credits, handler, admin, snapshots>>

\* Mutant: the upgrade is marked complete before it is applied.
FinishUpgradeMarked(id, i) ==
  /\ tasks[id][i].pc = "upgrade"
  /\ IF projects[id] = NoProject
     THEN SetTask(id, i, None) /\ UNCHANGED projects
     ELSE /\ projects' = [projects EXCEPT ![id].status = "complete"]
          /\ SetTask(id, i, [pc |-> "apply", project |-> projects[id]])
  /\ UNCHANGED <<planet, credits, handler, admin, snapshots>>

\* spawn_upgrade_project after the build time.
FinishUpgrade(id, i) ==
  /\ tasks[id][i].pc = "upgrade"
  /\ SetTask(id, i, IF projects[id] = NoProject THEN None
                    ELSE [pc |-> "apply", project |-> projects[id]])
  /\ UNCHANGED <<planet, credits, projects, handler, admin, snapshots>>

Station(pr, status) ==
  [status |-> status, owner |-> pr.owner, level |-> Basic,
   stock |-> [Empty EXCEPT !["station"] = IF pr.kind = "found_settlement" THEN pr.extra ELSE 0]]

\* Mutant: the target is not looked at again.
BuiltAnyway(pr) ==
  IF TwoPhase(pr.kind) THEN Station(pr, "connected")
  ELSE [planet[pr.target] EXCEPT !.level[pr.kind] = @ + 1]

\* Mutant: an upgrade stores the level its request expected.
BuiltFresh(pr) ==
  IF pr.kind \in Facilities /\ Connected(pr.target)
  THEN [planet[pr.target] EXCEPT !.level[pr.kind] = 2]
  ELSE planet[pr.target]

\* What the project makes of its target: nothing, if the target is no longer
\* what the request found.
Built(pr) ==
  CASE pr.kind = "install_station" /\ planet[pr.target].status = "settled" ->
         Station(pr, "connected")
    [] pr.kind = "found_settlement" /\ planet[pr.target].status = "uninhabited" ->
         Station(pr, "connected")
    [] pr.kind \in Facilities /\ Connected(pr.target) ->
         [planet[pr.target] EXCEPT !.level[pr.kind] = @ + 1]
    [] OTHER -> planet[pr.target]

Apply(id, i) ==
  /\ tasks[id][i].pc = "apply"
  /\ planet' = [planet EXCEPT ![tasks[id][i].project.target] = Built(tasks[id][i].project)]
  /\ GotoTask(id, i, "mark")
  /\ UNCHANGED <<credits, projects, handler, admin, snapshots>>

\* Mark complete; the webhook that follows is sent once and changes nothing.
MarkComplete(id, i) ==
  /\ tasks[id][i].pc = "mark"
  /\ projects' = IF projects[id] = NoProject THEN projects
                 ELSE [projects EXCEPT ![id].status = "complete"]
  /\ SetTask(id, i, None)
  /\ UNCHANGED <<planet, credits, handler, admin, snapshots>>

-----------------------------------------------------------------------------
(* The admin: stations and players *)

\* DELETE .../station, the last section of admin_delete_station.
RemoveStation(p) ==
  /\ p \in Removable /\ Connected(p)
  /\ planet' = [planet EXCEPT ![p] = [status |-> "settled", owner |-> Nobody,
                                      level |-> Basic, stock |-> Empty]]
  /\ UNCHANGED <<credits, projects, handler, tasks, admin, snapshots>>

\* Mutant: the elevator is made anew as well.
UpdatedWhole(p, pl) ==
  [status |-> "connected", owner |-> pl, level |-> Basic,
   stock |-> IF Connected(p) THEN planet[p].stock ELSE Empty]

\* What admin_create_station makes of planet p: a new station, or the one there
\* with its inventory, mass driver and elevator, but bays and storage as new.
Updated(p, pl) ==
  IF Connected(p)
  THEN [planet[p] EXCEPT !.owner = pl,
                         !.level = [f \in Facilities |-> IF f \in Fields THEN 1 ELSE @[f]]]
  ELSE [status |-> "connected", owner |-> pl, level |-> Basic, stock |-> Empty]

\* PUT .../station; the owner it names is not looked up.
PutStation(p, pl) ==
  /\ p \in Editable \ edited /\ Cardinality(edited) < MaxEdits
  /\ planet[p].status # "uninhabited"
  /\ planet' = [planet EXCEPT ![p] = Updated(p, pl)]
  /\ edited' = edited \cup {p}
  /\ UNCHANGED <<credits, projects, handler, tasks, gone, deletion, snapshots>>

\* admin_delete_player drops the player's projects, then their name from their
\* stations, then the player.  Requests and tasks under way are not stopped.
DropProjects(pl) ==
  /\ pl \in Deletable \ gone
  /\ deletion = Idle
  /\ projects' = [id \in ProjectIds |->
       IF projects[id] # NoProject /\ projects[id].owner = pl THEN NoProject ELSE projects[id]]
  /\ deletion' = [pc |-> "disown", player |-> pl]
  /\ UNCHANGED <<planet, credits, handler, tasks, edited, gone, snapshots>>

Disown ==
  /\ deletion.pc = "disown"
  /\ planet' = [p \in Planets |->
       IF Connected(p) /\ planet[p].owner = deletion.player
       THEN [planet[p] EXCEPT !.owner = Nobody] ELSE planet[p]]
  /\ deletion' = [deletion EXCEPT !.pc = "unregister"]
  /\ UNCHANGED <<credits, projects, handler, tasks, edited, gone, snapshots>>

Unregister ==
  /\ deletion.pc = "unregister"
  /\ gone' = gone \cup {deletion.player}
  /\ deletion' = Idle
  /\ UNCHANGED <<planet, credits, projects, handler, tasks, edited, snapshots>>

-----------------------------------------------------------------------------
(* Snapshots *)

\* save_snapshot, by the auto-save task or the admin.
Save ==
  /\ Len(loads) < MaxLoads
  /\ saved' = [planet |-> planet, credits |-> credits, projects |-> projects,
               gone |-> gone, edited |-> edited]
  /\ UNCHANGED <<planet, credits, projects, handler, tasks, admin, loads, recovering>>

\* Mutant: only projects still in transit get their task back.
RecoveredTransit(pr) ==
  IF pr # NoProject /\ pr.status = "in_transit" THEN Task(pr) ELSE None

\* Mutant: finished projects get a task as well.
RecoveredAll(pr) == IF pr # NoProject THEN Task(pr) ELSE None

\* recover_in_flight_tasks: a task for every project not complete; a building
\* two-phase project goes through StartBuilding again, with no time to wait.
Recovered(pr) == IF pr # NoProject /\ pr.status # "complete" THEN Task(pr) ELSE None

\* load_snapshot: every lock is held while the state is replaced.
Loaded(how) ==
  /\ how \in Loading
  /\ Len(loads) < MaxLoads
  /\ saved # NoSave
  /\ planet' = saved.planet
  /\ credits' = saved.credits
  /\ projects' = saved.projects
  /\ gone' = saved.gone
  /\ edited' = saved.edited
  /\ loads' = Append(loads, how)
  /\ UNCHANGED saved

\* The server stops, and starts from the snapshot: requests and tasks are gone,
\* and tasks are recovered before the first request.
Restart ==
  /\ Loaded("restart")
  /\ handler' = [t \in Threads |-> Idle]
  /\ tasks' = [id \in ProjectIds |-> [i \in Slots |->
       IF i = OwnSlot + 1 THEN Recovered(saved.projects[id]) ELSE None]]
  /\ deletion' = Idle
  /\ recovering' = FALSE

\* POST /admin/persistence/load: requests and tasks keep running.
Reload ==
  /\ ~recovering
  /\ Loaded("reload")
  /\ recovering' = TRUE
  /\ UNCHANGED <<handler, tasks, deletion>>

\* The recovery after it sees the projects as they are by then.
Recover ==
  /\ recovering
  /\ tasks' = [id \in ProjectIds |->
       IF Recovered(projects[id]) = None THEN tasks[id]
       ELSE [tasks[id] EXCEPT ![OwnSlot - 1] = Recovered(projects[id])]]
  /\ recovering' = FALSE
  /\ UNCHANGED <<planet, credits, projects, handler, admin, loads, saved>>

-----------------------------------------------------------------------------
NewRequest == \E t \in Threads, pl \in Players, kind \in Kinds, from, target \in Planets,
                 extra \in Extras : Request(t, pl, kind, from, target, extra)

Serve(t) == Pay(t) \/ Supply(t) \/ Record(t)

Work(id, i) == \/ StartBuilding(id, i) \/ FinishUpgrade(id, i) \/ Apply(id, i)
               \/ MarkComplete(id, i)

Next ==
  \/ NewRequest
  \/ \E t \in Threads : Serve(t) \/ Drop(t)
  \/ \E id \in ProjectIds, i \in Slots : Work(id, i)
  \/ \E p \in Planets : RemoveStation(p)
  \/ \E p \in Planets, pl \in Players : PutStation(p, pl)
  \/ \E pl \in Players : DropProjects(pl)
  \/ Disown \/ Unregister
  \/ Save \/ Restart \/ Reload \/ Recover

\* tokio resumes the tasks, which are spawned, and recovery follows loading;
\* nothing forces players, admins, saves or restarts, and requests may be dropped.
Fairness == /\ \A id \in ProjectIds, i \in Slots : WF_vars(Work(id, i))
            /\ WF_vars(Recover)

Spec == Init /\ [][Next]_vars /\ Fairness

-----------------------------------------------------------------------------
(* Properties *)

PlanetRecord ==
  [status : {"uninhabited", "settled", "connected"}, owner : Players \cup {Nobody},
   level : [Facilities -> Nat \ {0}], stock : [Place -> Nat]]

Order == [pc : {"pay", "supply", "record"}, project : Project]
TaskRecord == [pc : {"transit", "upgrade", "apply", "mark"}, project : Project]

\* Every variable has the shape the Rust types give it, and only planets with a
\* station have an owner: a deletion may leave a station without one.
TypeOK ==
  /\ planet \in [Planets -> PlanetRecord]
  /\ \A p \in Planets : planet[p].owner # Nobody => Connected(p)
  /\ credits \in [Players -> Nat]
  /\ projects \in [ProjectIds -> Project \cup {NoProject}]
  /\ handler \in [Threads -> {Idle, Cut} \cup Order]
  /\ tasks \in [ProjectIds -> [Slots -> {None} \cup TaskRecord]]
  /\ edited \subseteq Editable /\ gone \subseteq Deletable
  /\ deletion \in {Idle} \cup [pc : {"disown", "unregister"}, player : Deletable \ gone]
  /\ loads \in Seq({"restart", "reload"}) /\ Len(loads) <= MaxLoads
  /\ recovering \in BOOLEAN

\* The target of a project is looked at twice, when it is paid for and when it
\* is built, so two projects, or a project and the admin, can race for it; but
\* no project gives a station that stands to another player: only the admin's
\* update does, and the deletion of its owner takes it away.
StationsKept ==
  [][loads' = loads => \A p \in Planets :
       /\ Connected(p) /\ planet'[p].status = "connected"
       /\ planet'[p].owner # planet[p].owner
       => \/ p \in edited' \ edited
          \/ /\ deletion # Idle /\ planet[p].owner = deletion.player
             /\ planet'[p].owner = Nobody]_vars

\* The upgrades of facility f at planet p that have been applied.
Applied(p, f) ==
  {id \in ProjectIds :
     /\ projects[id] # NoProject /\ projects[id].kind = f /\ projects[id].target = p
     /\ projects[id].status = "complete" \/ \E i \in Slots : tasks[id][i].pc = "mark"}

\* Has a snapshot been loaded into a running server?  The tasks of before the
\* load then work on the projects of after it.
Reloaded == \E i \in 1..Len(loads) : loads[i] = "reload"

\* Has the deletion of a player begun?  It drops the records of projects.
Deleting == deletion # Idle \/ gone # {}

\* Each upgrade project adds exactly one: a facility has grown by as many steps
\* as upgrades of it have been applied, or by more where a deletion has dropped
\* the records of them.  An update of the station sets its bays and its storage
\* back, although they were paid for, but not what belongs to its elevator and
\* its mass driver.  (A restart from a snapshot taken between application and
\* completion applies an upgrade again.)
UpgradesCounted ==
  loads = <<>> =>
    \A p \in Planets \ Removable, f \in Facilities :
      LET grown == planet[p].level[f] - 1
          applied == Cardinality(Applied(p, f))
      IN  Connected(p) => /\ ~Deleting => grown <= applied
                          /\ (p \in edited /\ f \in Fields) \/ grown >= applied

\* What holds of planets, projects and tasks between any two sections.
ConstructionInv == TypeOK /\ UpgradesCounted

\* No upgrade that was paid for and reported complete is missing, not even when
\* the server restarts from a snapshot taken while the upgrade was under way.
\* (A reload breaks this: an old task may complete what the snapshot undid.)
UpgradesNeverLost ==
  ~Reloaded =>
    \A p \in Planets \ (Removable \cup edited), f \in Facilities :
      Connected(p) => planet[p].level[f] >=
        1 + Cardinality({id \in ProjectIds :
              /\ projects[id] # NoProject /\ projects[id].status = "complete"
              /\ projects[id].kind = f /\ projects[id].target = p})

\* A project moves from in_transit to building to complete and never back, or
\* is dropped with its owner,
\* whichever tasks work on it; loading a snapshot is the only way back, and a
\* reload, which keeps the old tasks, the only way to skip a phase.
LifecycleForward ==
  [][loads' = loads /\ ~Reloaded => \A id \in ProjectIds :
       projects[id] # NoProject /\ projects'[id] \notin {projects[id], NoProject} =>
         <<projects[id].status, projects'[id].status>> \in
           {<<"in_transit", "building">>, <<"building", "complete">>}]_vars

\* What players have in credits, in projects, and in requests that have paid.
Wealth == SumFunctionOnSet(credits, Players)
          + Fee * (Cardinality({id \in ProjectIds : projects[id] # NoProject})
                   + Cardinality({t \in Threads : handler[t].pc \in {"supply", "record"}}))

\* A fee buys a project: credits are lost only by a request that finds its
\* goods missing after it has paid (the documentation has nothing deducted), or
\* that is dropped after it has paid, or with the projects of a player who is
\* deleted.
FeeLostOnlyForGoods ==
  [][loads' = loads /\ Wealth' # Wealth =>
       \/ \E t \in Threads : handler[t].pc = "supply" /\ Lacking(t)
       \/ \E t \in Threads : handler[t].pc \in {"supply", "record"} /\ handler'[t] = Cut
       \/ deletion = Idle /\ deletion' # Idle]_vars

\* Every project is completed, in a server that restarts as in one that does
\* not, by its own task or a recovered one, unless the snapshot that is loaded
\* does not have it.  (A deletion drops a project too; the run that checks this
\* has none, see StationsKept for what deletions leave behind.)
ProjectsComplete ==
  \A id \in ProjectIds :
    projects[id] # NoProject ~> (projects[id] = NoProject \/ projects[id].status = "complete")
=============================================================================
