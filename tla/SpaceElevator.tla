---------------------------- MODULE SpaceElevator ----------------------------
(***************************************************************************)
(* One planet's space elevator: the cabins of src/models/space_elevator.rs *)
(* and the blocking transfer of src/routes/space_elevator.rs.              *)
(*                                                                         *)
(* A transfer is two galaxy.write() sections with a sleep between them.    *)
(* The cabin keeps a deadline of its own (available_at), set from the same *)
(* duration as the sleep, so the cabin is free again when the sleep is     *)
(* over, before the transfer has completed.  Of the clock only the order   *)
(* of deadlines matters: a cabin's timer is the transfer it was set for,   *)
(* "alone" if nobody sleeps until then, or "expired".                      *)
(*                                                                         *)
(* Between the sections only the handler has the goods.  It ends there if  *)
(* its client disconnects, or if the server restarts from a snapshot       *)
(* (src/persistence.rs), which holds the stocks but no cabins.             *)
(*                                                                         *)
(* There is one good; of an item list only what the handler reads is kept, *)
(* as in module MassDriver: the largest quantity and the total.            *)
(***************************************************************************)
EXTENDS Integers, FiniteSets, Functions

CONSTANTS
  Threads,       \* concurrent transfer requests
  Loads,         \* what they ask for: [largest, total] of an item list
  Failing,       \* may a cabin fail (failure_rate > 0)?
  Removable,     \* may the admin remove and rebuild the station?
  InitCabins,    \* config.cabin_count of a new elevator
  MaxCabins,     \* bound on cabin upgrades
  CabinCapacity, \* config.cabin_capacity
  MaxStorage,    \* station.max_storage
  InitUnits,     \* units at the start, in orbit and on the surface
  MaxBreaks,     \* bound on the restarts and the requests dropped, together
  Word           \* 2^64: inventory quantities are u64 and wrap

ASSUME SpaceElevatorAssumption ==
  /\ IsFiniteSet(Threads)
  /\ Loads \subseteq [largest : Nat \ {0}, total : Nat \ {0}]
  /\ Failing \in BOOLEAN /\ Removable \in BOOLEAN
  /\ InitCabins \in Nat /\ MaxCabins \in Nat /\ InitCabins <= MaxCabins
  /\ CabinCapacity \in Nat /\ MaxStorage \in Nat /\ InitUnits \in Nat
  /\ Word \in Nat /\ MaxStorage < Word /\ InitUnits < Word /\ CabinCapacity < Word
  /\ MaxBreaks \in Nat
  /\ Threads \cap {"none", "alone", "expired"} = {}

VARIABLES
  connected, \* is the planet PlanetStatus::Connected?
  cabins,    \* number of cabins; their ids are 1..cabins
  cabin,     \* the state and timer of each cabin
  stock,     \* station.inventory and warehouse.inventory of the good
  transfer,  \* what each transfer request is doing
  breaks     \* restarts and dropped requests so far

elevatorVars == <<connected, cabins, cabin, stock, transfer, breaks>>

Places == {"station", "warehouse"}
Other(place) == IF place = "station" THEN "warehouse" ELSE "station"

Cabin == [state : {"available"}, timer : {"none"}]
         \cup [state : {"in_use"}, timer : Threads \cup {"alone", "expired"}]
         \cup [state : {"under_repair"}, timer : {"alone", "expired"}]

New == [state |-> "available", timer |-> "none"]

\* A handler at rest; its last transfer was answered so, or with "none" if there
\* was no transfer or no answer.
Done(answer) == [pc |-> "idle", answer |-> answer]
Idle == Done("none")

ElevatorInit ==
  /\ connected = TRUE
  /\ cabins = InitCabins
  /\ cabin = [c \in 1..MaxCabins |-> New]
  /\ stock = [place \in Places |-> InitUnits]
  /\ transfer = [t \in Threads |-> Idle]
  /\ breaks = 0

-----------------------------------------------------------------------------
(* Cabins *)

Free(c) == cabin[c].state = "available" \/ cabin[c].timer = "expired"

\* try_release on every cabin, then the first free one.
Released == [c \in 1..MaxCabins |-> IF Free(c) THEN New ELSE cabin[c]]
FirstFree(c) == c \in 1..cabins /\ Free(c) /\ \A d \in 1..(c - 1) : ~Free(d)

\* Mutant: a failed cabin gets no deadline.
CompletedUndated(failed) ==
  IF failed THEN [state |-> "under_repair", timer |-> "none"] ELSE New

\* complete_transfer: whatever the cabin is doing by now.
Completed(failed) == IF failed THEN [state |-> "under_repair", timer |-> "alone"] ELSE New

\* The deadline passes of a repair, or of a transfer that was dropped.
Expire(c) ==
  /\ cabin[c].timer = "alone"
  /\ cabin' = [cabin EXCEPT ![c].timer = "expired"]
  /\ UNCHANGED <<connected, cabins, stock, transfer, breaks>>

\* A finished upgrade_elevator_cabins project.
AddCabin ==
  /\ connected
  /\ cabins < MaxCabins
  /\ cabins' = cabins + 1
  /\ UNCHANGED <<connected, cabin, stock, transfer, breaks>>

-----------------------------------------------------------------------------
(* POST .../space-elevator/transfer *)

Deducted(n, q) == IF q <= n THEN n - q ELSE n - q + Word

\* Only a transfer to orbit asks whether there is room at its end.
Room(place, load) == place = "warehouse" \/ stock["station"] + load.total <= MaxStorage

\* Checks, deduction and cabin, under one galaxy.write().  Without a free
\* cabin the request ends in an error after the deduction.
Start(t, from, load) ==
  /\ transfer[t].pc = "idle"
  /\ connected
  /\ load.total <= CabinCapacity
  /\ Room(Other(from), load)
  /\ load.largest <= stock[from]
  /\ stock' = [stock EXCEPT ![from] = Deducted(@, load.total)]
  /\ \/ \E c \in 1..cabins :
          /\ FirstFree(c)
          /\ cabin' = [Released EXCEPT ![c] = [state |-> "in_use", timer |-> t]]
          /\ transfer' = [transfer EXCEPT
               ![t] = [pc |-> "moving", cabin |-> c, from |-> from, total |-> load.total]]
     \/ /\ \A c \in 1..cabins : ~Free(c)
        /\ UNCHANGED <<cabin, transfer>>
  /\ UNCHANGED <<connected, cabins, breaks>>

\* The cabin whose timer is t goes by another timer.
Retimed(t, timer) ==
  [c \in 1..MaxCabins |->
    IF cabin[c].timer = t THEN [cabin[c] EXCEPT !.timer = timer] ELSE cabin[c]]

\* The transfer's duration has passed: its sleep is over, and so is the timer
\* of its cabin.
Elapse(t) ==
  /\ transfer[t].pc = "moving"
  /\ transfer' = [transfer EXCEPT ![t].pc = "moved"]
  /\ cabin' = Retimed(t, "expired")
  /\ UNCHANGED <<connected, cabins, stock, breaks>>

\* Mutant: the goods of a failed transfer are not returned.
GoesToNowhere(t, failed) ==
  IF failed THEN stock
  ELSE [stock EXCEPT ![Other(transfer[t].from)] = @ + transfer[t].total]

\* Where the goods end up: back at the source if the cabin failed.
GoesTo(t, failed) ==
  LET place == IF failed THEN transfer[t].from ELSE Other(transfer[t].from)
  IN  [stock EXCEPT ![place] = @ + transfer[t].total]

\* Mutant: a failure is not reported.
AnswerHushed(failed) == "success"

\* TransferResult::success
Answer(failed) == IF failed THEN "failure" ELSE "success"

\* Mutant: the transfer waits for a station to complete at.
CompleteWaiting(t) ==
  /\ transfer[t].pc = "moved"
  /\ connected
  /\ \E failed \in {FALSE, Failing} :
       /\ cabin' = [c \in 1..MaxCabins |->
            IF c = transfer[t].cabin /\ c \in 1..cabins THEN Completed(failed) ELSE cabin[c]]
       /\ stock' = GoesTo(t, failed)
       /\ transfer' = [transfer EXCEPT ![t] = Done(Answer(failed))]
  /\ UNCHANGED <<connected, cabins, breaks>>

\* Completion, under another galaxy.write().  On a planet that has lost its
\* station the goods are gone, and the transfer is reported as a success.
Complete(t) ==
  /\ transfer[t].pc = "moved"
  /\ \/ /\ connected
        /\ \E failed \in {FALSE, Failing} :
             /\ cabin' = [c \in 1..MaxCabins |->
                  IF c = transfer[t].cabin /\ c \in 1..cabins THEN Completed(failed) ELSE cabin[c]]
             /\ stock' = GoesTo(t, failed)
             /\ transfer' = [transfer EXCEPT ![t] = Done(Answer(failed))]
     \/ /\ ~connected
        /\ transfer' = [transfer EXCEPT ![t] = Done(Answer(FALSE))]
        /\ UNCHANGED <<cabin, stock>>
  /\ UNCHANGED <<connected, cabins, breaks>>

-----------------------------------------------------------------------------
(* Transfers that are cut off: nobody has their goods any more *)

\* Mutant: only its handler would free the cabin.
DropOccupied(t) ==
  /\ breaks < MaxBreaks
  /\ breaks' = breaks + 1
  /\ transfer[t].pc # "idle"
  /\ transfer' = [transfer EXCEPT ![t] = Idle]
  /\ UNCHANGED <<connected, cabins, cabin, stock>>

\* A client disconnects, and the server drops the future of its handler where it
\* sleeps or waits for the lock.  The cabin keeps its deadline.  (A handler that
\* wakes up after the planet was deleted or its system renamed does the same: it
\* answers with an error.)
Drop(t) ==
  /\ breaks < MaxBreaks
  /\ breaks' = breaks + 1
  /\ transfer[t].pc # "idle"
  /\ transfer' = [transfer EXCEPT ![t] = Idle]
  /\ cabin' = Retimed(t, "alone")
  /\ UNCHANGED <<connected, cabins, stock>>

\* The server stops and starts from a snapshot.  What happened after the save is
\* gone, so the restart is taken at the save.  The cabins are made anew.
RestartElevator ==
  /\ breaks < MaxBreaks
  /\ breaks' = breaks + 1
  /\ transfer' = [t \in Threads |-> Idle]
  /\ cabin' = [c \in 1..MaxCabins |-> New]
  /\ UNCHANGED <<connected, cabins, stock>>

-----------------------------------------------------------------------------
(* The station is removed, and built again with a new elevator *)

Remove ==
  /\ Removable /\ connected
  /\ connected' = FALSE
  /\ stock' = [place \in Places |-> 0]
  /\ UNCHANGED <<cabins, cabin, transfer, breaks>>

Rebuild ==
  /\ ~connected
  /\ connected' = TRUE
  /\ cabins' = InitCabins
  /\ cabin' = [c \in 1..MaxCabins |-> New]
  /\ UNCHANGED <<stock, transfer, breaks>>

-----------------------------------------------------------------------------
ElevatorNext ==
  \/ AddCabin \/ Remove \/ Rebuild \/ RestartElevator
  \/ \E c \in 1..MaxCabins : Expire(c)
  \/ \E t \in Threads : \/ \E from \in Places, load \in Loads : Start(t, from, load)
                        \/ Elapse(t) \/ Complete(t) \/ Drop(t)

\* The clock runs, and tokio resumes a handler whose sleep is over, unless it has
\* been dropped by then.
Fairness == /\ \A c \in 1..MaxCabins : WF_elevatorVars(Expire(c))
            /\ \A t \in Threads : WF_elevatorVars(Elapse(t) \/ Complete(t))

ElevatorSpec == ElevatorInit /\ [][ElevatorNext]_elevatorVars /\ Fairness

-----------------------------------------------------------------------------
(* Properties *)

Moving == [pc : {"moving", "moved"}, cabin : 1..MaxCabins, from : Places, total : Nat]

Job == {Done(answer) : answer \in {"none", "success", "failure"}} \cup Moving

\* Every variable has the shape the Rust types give it, and the state and the
\* deadline of a cabin, two separate fields, fit together.
ElevatorTypeOK ==
  /\ connected \in BOOLEAN
  /\ cabins \in 0..MaxCabins
  /\ cabin \in [1..MaxCabins -> Cabin]
  /\ stock \in [Places -> Nat]
  /\ transfer \in [Threads -> Job]
  /\ breaks \in Nat

Carried(job) == IF job.pc = "idle" THEN 0 ELSE job.total

Total == stock["station"] + stock["warehouse"]
         + SumFunctionOnSet([t \in Threads |-> Carried(transfer[t])], Threads)

\* The request of transfer t ends, with this answer.
Answers(t, answer) == transfer[t].pc = "moved" /\ transfer'[t] = Done(answer)

\* Transfer t is dropped, or forgotten by a restart.
CutOff(t) ==
  transfer[t].pc # "idle" /\ transfer'[t] = Idle /\ breaks' > breaks

\* A request takes its goods and is refused: no cabin is free.
RefusedLate ==
  connected /\ UNCHANGED <<connected, transfer>> /\ \A c \in 1..cabins : ~Free(c)

\* However transfers and failures interleave, and even when transfers meet in
\* one cabin, no goods are made, and they are lost in four places only: by a
\* request that finds no cabin after they were deducted, with the stock of a
\* station that is removed, by a transfer that completes on a planet without a
\* station, and by one that is cut off.  (The documentation has every transfer
\* all-or-nothing, and no goods lost when it fails.)  A transfer that is answered
\* on a planet with a station has put its goods where the answer says.
GoodsLostOnlyWithoutCabin ==
  [][/\ Total' <= Total
     /\ Total' < Total =>
          \/ RefusedLate
          \/ connected /\ ~connected'
          \/ ~connected /\ \E t \in Threads : Answers(t, "success")
          \/ \E t \in Threads : CutOff(t)
     /\ connected => \A t \in Threads, answer \in {"success", "failure"} :
          LET from  == transfer[t].from
              place == IF answer = "success" THEN Other(from) ELSE from
          IN  Answers(t, answer) => stock'[place] = stock[place] + transfer[t].total]_elevatorVars

\* Every transfer that has started ends, answered or cut off, and no cabin is
\* lost: be its transfer dropped, failed or met by another that takes the cabin
\* over, it becomes free again.
TransfersEnd ==
  /\ \A t \in Threads : transfer[t].pc # "idle" ~> transfer[t].pc = "idle"
  /\ \A c \in 1..MaxCabins : ~Free(c) ~> Free(c)
=============================================================================
