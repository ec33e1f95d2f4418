---------------------------- MODULE ElevatorFSM ----------------------------
(***************************************************************************)
(* One elevator: the FSM thread (elevator_fsm.cpp) with its event queue,   *)
(* the door timer thread it spawns, the poller thread                      *)
(* (elevator_button_poller.cpp), the locally assigned calls kept by        *)
(* Super_container, and the car they drive.                                *)
(*                                                                         *)
(* The FSM thread pops an event and reads floor and calls in one step and  *)
(* acts on that snapshot in a later one; poller, timer and network threads *)
(* run in between.  The poller adds a call and pushes ORDER_RECEIVED in    *)
(* two steps as well, as add_call does.                                    *)
(*                                                                         *)
(* Networked = FALSE is a car with no peers: the call assigner gives it    *)
(* every call.  Networked = TRUE adds what the network threads do to the   *)
(* list of assigned calls.                                                 *)
(***************************************************************************)
EXTENDS ElevatorAlgorithm, FiniteSets

CONSTANTS DoorTicks,       \* ticks of the clock in DOOR_OPEN_TIME_MS
          Networked,       \* are there peers that take and serve calls?
          Prompt,          \* are poller and FSM fast against car and door?
          MaxOpen,         \* bound on the calls open at a time
          MaxQueue         \* bound on the queue, for pushes from outside

ASSUME FSMAssumption == /\ DoorTicks \in Nat /\ DoorTicks >= 2
                        /\ Networked \in BOOLEAN
                        /\ Prompt \in BOOLEAN
                        /\ MaxOpen \in Nat
                        /\ MaxQueue \in Nat

VARIABLES
  \* the car
  pos,          \* position in half floors: even at a floor, odd in between
  motor,        \* motor direction last set
  lamp,         \* door open lamp: the door is open
  obstructed,   \* the obstruction switch
  \* Elevator_state, shared by the threads
  floor,        \* current_floor
  state,        \* current_state
  obstruction,  \* obstruction, as last polled
  \* Elevator
  phase,        \* where start() and run_event_queue() have got to
  direction,    \* Current_direction
  handling,     \* event popped, with the floor and calls handle_event read
  opening,      \* open_door has yet to replace door_timer_thread
  timer,        \* ticks left of the door timer thread, 0 when none runs
  since,        \* history: ticks it has run since an obstruction was last seen
  \* the other threads
  queue,        \* event_queue
  open,         \* calls to be assigned, in the order of call_list
  assigned,     \* locally_assigned_calls
  called,       \* call_list, which never shrinks, has a call
  adding,       \* the poller is in add_call, its event not yet pushed
  interrupting, \* it has seen an obstruction and has yet to interrupt the timer
  polled        \* the obstruction was polled since the last tick

car     == <<pos, motor, lamp>>
door    == <<opening, timer, since>>
calls   == <<open, assigned, called>>
poller  == <<adding, interrupting, polled>>
vars    == <<car, obstructed, floor, state, obstruction, phase, direction,
             handling, door, queue, calls, poller>>

Event == {"ORDER_RECEIVED", "ARRIVED_AT_FLOOR", "DOOR_TIMEOUT", "DOOR_CLOSED"}
State == {"IDLE", "MOVING_UP", "MOVING_DOWN", "DOOR_OPEN"}
Phase == {"position", "lowering", "blocked", "settling", "run"}

\* The panel has no up button on the top floor and no down button on floor 0.
Panel == {c \in Request : /\ c # [floor |-> NFloors - 1, type |-> "UP_HALL"]
                          /\ c # [floor |-> 0, type |-> "DOWN_HALL"]}

NoEvent == [event |-> "NONE", floor |-> 0, calls |-> << >>]

Moving  == {"MOVING_UP", "MOVING_DOWN"}
AtFloor == pos % 2 = 0
Here    == pos \div 2                       \* the floor, when AtFloor

Push(e) == queue' = Append(queue, e)
HasRoom == Len(queue) < MaxQueue

\* A call list without the calls in S: the k-th call is the kept one with
\* k - 1 kept ones before it.
Without(list, S) ==
  LET kept == {i \in DOMAIN list : list[i] \notin S}
  IN  [k \in 1 .. Cardinality(kept) |->
         list[CHOOSE i \in kept : Cardinality({j \in kept : j < i}) = k - 1]]

Elements(list) == {list[i] : i \in DOMAIN list}

\* get_assigned_calls_for_elevator: the external assigner divides the hall
\* calls in a way left open here; the cab calls it is given stay with their
\* elevator.
Divisions(list) ==
  {Without(list, S) : S \in SUBSET {c \in Elements(list) : c.type # "CAB"}}

\* update_locally_assigned_calls, once the unserviced calls that every alive
\* elevator has acknowledged are list.  Alone, the car gets every call.  With
\* peers the calls are divided, and a car that is reported as obstructed may
\* be left out of the assigner's input: it then gets nothing, its cab calls
\* included.
Assignments(list) ==
  IF ~Networked THEN {list}
  ELSE Divisions(list) \cup IF obstruction THEN {<< >>} ELSE {}

Init == /\ pos \in 0 .. 2 * (NFloors - 1)
        /\ motor = 0
        /\ lamp \in BOOLEAN /\ (lamp => AtFloor)   \* as the last run left it
        /\ obstructed \in BOOLEAN
        /\ floor = 0
        /\ state = "IDLE"
        /\ obstruction = FALSE
        /\ phase = "position"
        /\ direction = 0
        /\ handling = NoEvent
        /\ opening = FALSE
        /\ timer = 0 /\ since = 0
        /\ queue = << >>
        /\ open = << >> /\ assigned = << >> /\ called = FALSE
        /\ adding = FALSE /\ interrupting = FALSE
        /\ polled = FALSE

-----------------------------------------------------------------------------
(* Start up: initialize_position, then run_event_queue up to its loop.     *)

\* The sensor sees a floor at once.
PositionKnown == /\ phase = "position" /\ AtFloor
                 /\ floor' = Here
                 /\ phase' = "blocked"
                 /\ UNCHANGED <<car, obstructed, state, obstruction, direction, handling,
                                door, queue, calls, poller>>

StartLowering == /\ phase = "position" /\ ~AtFloor
                 /\ motor' = -1
                 /\ phase' = "lowering"
                 /\ UNCHANGED <<pos, lamp, obstructed, floor, state, obstruction, direction,
                                handling, door, queue, calls, poller>>

LoweredToFloor == /\ phase = "lowering" /\ AtFloor
                  /\ floor' = Here
                  /\ motor' = 0
                  /\ phase' = "blocked"
                  /\ UNCHANGED <<pos, lamp, obstructed, state, obstruction, direction,
                                 handling, door, queue, calls, poller>>

\* One round of the loop that waits for a free doorway.
StartBlocked == /\ phase = "blocked" /\ obstructed
                /\ lamp' = TRUE
                /\ UNCHANGED <<pos, motor, obstructed, floor, state, obstruction, phase,
                               direction, handling, door, queue, calls, poller>>

StartUnblocked == /\ phase = "blocked" /\ ~obstructed
                  /\ phase' = "settling"
                  /\ UNCHANGED <<car, obstructed, floor, state, obstruction, direction,
                                 handling, door, queue, calls, poller>>

StartLoop == /\ phase = "settling"
             /\ lamp' = FALSE
             /\ Push("DOOR_CLOSED")
             /\ phase' = "run"
             /\ UNCHANGED <<pos, motor, obstructed, floor, state, obstruction, direction,
                            handling, door, calls, poller>>

Startup == \/ PositionKnown \/ StartLowering \/ LoweredToFloor
           \/ StartBlocked \/ StartUnblocked \/ StartLoop

-----------------------------------------------------------------------------
(* The FSM thread.                                                         *)

\* pop, and the reads at the top of handle_event.
Pop == /\ phase = "run" /\ handling = NoEvent /\ ~opening /\ queue # << >>
       /\ handling' = [event |-> Head(queue), floor |-> floor, calls |-> assigned]
       /\ queue' = Tail(queue)
       /\ UNCHANGED <<car, obstructed, floor, state, obstruction, phase, direction, door,
                      calls, poller>>

\* Mutant of ClearOrders: serves the whole list, not only this floor.
ClearAllOrders(d) == /\ open' = Without(open, Elements(handling.calls))
                     /\ assigned' \in Assignments(open')
                     /\ UNCHANGED called

\* clear_orders(calls, floor, d): every cleared call is marked as serviced,
\* after which the assigned calls are computed anew.
ClearOrders(d) == /\ open' = Without(open, Cleared(handling.floor, d, handling.calls))
                  /\ assigned' \in Assignments(open')
                  /\ UNCHANGED called

\* open_door: the lamp, then the interrupt of a timer still running, whose
\* sleep starts over.  The join and the new thread follow as StartTimer.
OpenDoor == /\ lamp' = TRUE
            /\ opening' = TRUE
            /\ timer' = IF timer > 0 THEN DoorTicks ELSE 0
            /\ UNCHANGED since

Stops == ShouldStop(handling.floor, direction, handling.calls)

ArriveAndStop == /\ state \in Moving /\ handling.event = "ARRIVED_AT_FLOOR" /\ Stops
                 /\ motor' = 0
                 /\ state' = "DOOR_OPEN"
                 /\ ClearOrders(direction)
                 /\ OpenDoor
                 /\ handling' = NoEvent
                 /\ UNCHANGED <<pos, obstructed, floor, obstruction, phase, direction,
                                queue, poller>>

Chosen == ChooseDirection(handling.floor, direction, handling.calls)

\* Mutant of Wakes: orders are acted on with the door open.
WakesDoorOpen == state \in {"IDLE", "DOOR_OPEN"} /\ handling.event = "ORDER_RECEIVED"

\* An idle car looks at its calls on these events only.
Wakes == state = "IDLE" /\ handling.event \in {"ORDER_RECEIVED", "DOOR_CLOSED"}

Depart == /\ Wakes /\ Chosen # 0
          /\ direction' = Chosen
          /\ motor' = Chosen
          /\ state' = IF Chosen = 1 THEN "MOVING_UP" ELSE "MOVING_DOWN"
          /\ handling' = NoEvent
          /\ UNCHANGED <<pos, lamp, obstructed, floor, obstruction, phase, door, queue,
                         calls, poller>>

OpenHere == /\ Wakes /\ Chosen = 0 /\ RequestsSameFloor(handling.floor, handling.calls)
            /\ direction' = 0
            /\ motor' = 0
            /\ state' = "DOOR_OPEN"
            /\ ClearOrders(0)
            /\ OpenDoor
            /\ handling' = NoEvent
            /\ UNCHANGED <<pos, obstructed, floor, obstruction, phase, queue, poller>>

StayIdle == /\ Wakes /\ Chosen = 0 /\ ~RequestsSameFloor(handling.floor, handling.calls)
            /\ direction' = 0
            /\ motor' = 0
            /\ handling' = NoEvent
            /\ UNCHANGED <<pos, lamp, obstructed, floor, state, obstruction, phase, door,
                           queue, calls, poller>>

\* Mutant of CloseDoor: the FSM does not tell itself.
CloseDoorQuietly == /\ state = "DOOR_OPEN" /\ handling.event = "DOOR_TIMEOUT"
                    /\ state' = "IDLE"
                    /\ lamp' = FALSE
                    /\ handling' = NoEvent
                    /\ UNCHANGED <<pos, motor, obstructed, floor, obstruction, phase,
                                   direction, door, queue, calls, poller>>

\* Mutant of CloseDoor: an order closes the door, too.
CloseDoorForOrder == /\ state = "DOOR_OPEN"
                     /\ handling.event \in {"DOOR_TIMEOUT", "ORDER_RECEIVED"}
                     /\ state' = "IDLE"
                     /\ Push("DOOR_CLOSED")
                     /\ lamp' = FALSE
                     /\ handling' = NoEvent
                     /\ UNCHANGED <<pos, motor, obstructed, floor, obstruction, phase, direction,
                                    door, calls, poller>>

CloseDoor == /\ state = "DOOR_OPEN" /\ handling.event = "DOOR_TIMEOUT"
             /\ state' = "IDLE"
             /\ Push("DOOR_CLOSED")
             /\ lamp' = FALSE
             /\ handling' = NoEvent
             /\ UNCHANGED <<pos, motor, obstructed, floor, obstruction, phase, direction,
                            door, calls, poller>>

\* Every other pair of state and event leaves the elevator as it is.
Ignore == /\ handling # NoEvent
          /\ ~Wakes
          /\ ~(state \in Moving /\ handling.event = "ARRIVED_AT_FLOOR" /\ Stops)
          /\ ~(state = "DOOR_OPEN" /\ handling.event = "DOOR_TIMEOUT")
          /\ handling' = NoEvent
          /\ UNCHANGED <<car, obstructed, floor, state, obstruction, phase, direction, door,
                         queue, calls, poller>>

Handle == ArriveAndStop \/ Depart \/ OpenHere \/ StayIdle \/ CloseDoor \/ Ignore

\* Mutant of StartTimer: starts no timer.
StartNoTimer == /\ opening /\ timer = 0
                /\ opening' = FALSE
                /\ since' = 0
                /\ UNCHANGED <<car, obstructed, floor, state, obstruction, phase, direction,
                               handling, timer, queue, calls, poller>>

\* join has seen the old timer end, and door_timer_thread becomes the new one.
StartTimer == /\ opening /\ timer = 0
              /\ timer' = DoorTicks
              /\ opening' = FALSE
              /\ since' = 0
              /\ UNCHANGED <<car, obstructed, floor, state, obstruction, phase, direction,
                             handling, queue, calls, poller>>

-----------------------------------------------------------------------------
(* The door timer thread.                                                  *)

\* Ticks are slow against the poller: a prompt poller reads the obstruction
\* at least once in each.
Tick == /\ Prompt => polled
        /\ timer' = timer - 1
        /\ since' = since + 1
        /\ polled' = FALSE
        /\ UNCHANGED <<car, obstructed, floor, state, obstruction, phase, direction,
                       handling, opening, calls, adding, interrupting>>

TimerTick == /\ timer > 1
             /\ Tick
             /\ UNCHANGED queue

TimerExpires == /\ timer = 1
                /\ Tick
                /\ Push("DOOR_TIMEOUT")

-----------------------------------------------------------------------------
(* The poller thread, started once the position is known.                  *)

Polling == phase \in {"blocked", "settling", "run"} /\ ~adding /\ ~interrupting

HasSpace == Len(open) < MaxOpen

\* A button newly pressed: add_new_call_with_elevatorId drops it when an
\* unserviced call of the same button exists, or else adds a call.  A call
\* that alive peers have yet to acknowledge is not among those to be assigned.
PressButton == /\ Polling /\ HasRoom /\ HasSpace
               /\ \E c \in Panel \ Elements(open) :
                    \/ open' = Append(open, c)
                    \/ Networked /\ open' = open
               /\ assigned' \in Assignments(open')
               /\ adding' = TRUE
               /\ called' = TRUE
               /\ UNCHANGED <<car, obstructed, floor, state, obstruction, phase, direction,
                              handling, door, queue, interrupting, polled>>

PushOrderReceived == /\ adding
                     /\ Push("ORDER_RECEIVED")
                     /\ adding' = FALSE
                     /\ UNCHANGED <<car, obstructed, floor, state, obstruction, phase,
                                    direction, handling, door, calls, interrupting, polled>>

\* Mutant of PollFloorSensors: the -1 of a car between floors is stored.
PollFloorSensorsRaw == /\ Polling
                       /\ floor' = IF AtFloor THEN Here ELSE -1
                       /\ floor' # floor
                       /\ Push("ARRIVED_AT_FLOOR")
                       /\ UNCHANGED <<car, obstructed, state, obstruction, phase, direction,
                                      handling, door, calls, poller>>

PollFloorSensors == /\ Polling /\ AtFloor /\ Here # floor
                    /\ floor' = Here
                    /\ Push("ARRIVED_AT_FLOOR")
                    /\ UNCHANGED <<car, obstructed, state, obstruction, phase, direction,
                                   handling, door, calls, poller>>

PollObstruction == /\ Polling
                   /\ obstruction' = obstructed
                   /\ interrupting' = obstructed
                   /\ polled' = ~obstructed
                   /\ since' = IF obstructed THEN 0 ELSE since
                   /\ UNCHANGED <<car, obstructed, floor, state, phase, direction, handling,
                                  opening, timer, queue, calls, adding>>

\* Mutant of Interrupt: the interrupted sleep is not started over.
InterruptOnly == /\ interrupting
                 /\ interrupting' = FALSE
                 /\ polled' = TRUE
                 /\ UNCHANGED <<car, obstructed, floor, state, obstruction, phase, direction,
                                handling, door, queue, calls, adding>>

\* on_obstruction_detected interrupts the timer thread, which starts its sleep
\* over.  It reads door_timer_thread while open_door may be replacing it: it
\* finds the thread that has ended, or none, before StartTimer and the new
\* one after it.
Interrupt == /\ interrupting
             /\ timer' = IF timer > 0 THEN DoorTicks ELSE 0
             /\ interrupting' = FALSE
             /\ polled' = TRUE
             /\ UNCHANGED <<car, obstructed, floor, state, obstruction, phase, direction,
                            handling, opening, since, queue, calls, adding>>

-----------------------------------------------------------------------------
(* The car, its doorway, and the network threads.                          *)

ArrivalPending == \/ handling.event = "ARRIVED_AT_FLOOR"
                  \/ \E i \in DOMAIN queue : queue[i] = "ARRIVED_AT_FLOOR"

\* initialize_position reads the sensor without a pause and misses no floor.
\* A prompt program polls and handles a floor before the car has left it.
Move == /\ motor # 0
        /\ pos + motor \in -1 .. 2 * NFloors - 1       \* the buffers
        /\ AtFloor => phase = "run"
        /\ Prompt /\ AtFloor => floor = Here /\ ~ArrivalPending
        /\ pos' = pos + motor
        /\ UNCHANGED <<motor, lamp, obstructed, floor, state, obstruction, phase, direction,
                       handling, door, queue, calls, poller>>

FlipObstruction == /\ obstructed' = ~obstructed
                   /\ UNCHANGED <<car, floor, state, obstruction, phase, direction,
                                  handling, door, queue, calls, poller>>

\* The receive thread merges a call message that is not identical to the
\* stored call, be it only the node's own broadcast come back late: the calls
\* are assigned anew and ORDER_RECEIVED is pushed.  So they are when a peer
\* is removed.
CallListEvent == /\ called /\ HasRoom
                 /\ assigned' \in Assignments(open)
                 /\ Push("ORDER_RECEIVED")
                 /\ UNCHANGED <<car, obstructed, floor, state, obstruction, phase,
                                direction, handling, door, open, called, poller>>

\* A call list with c at place k.
Inserted(list, k, c) ==
  [i \in 1 .. Len(list) + 1 |->
     IF i < k THEN list[i] ELSE IF i = k THEN c ELSE list[i - 1]]

\* The last alive elevator has acknowledged a call, which takes its place.
CallAcknowledged == /\ Networked /\ HasRoom /\ HasSpace
                    /\ \E c \in Panel \ Elements(open), k \in 1 .. Len(open) + 1 :
                         open' = Inserted(open, k, c)
                    /\ assigned' \in Assignments(open')
                    /\ called' = TRUE
                    /\ Push("ORDER_RECEIVED")
                    /\ UNCHANGED <<car, obstructed, floor, state, obstruction, phase,
                                   direction, handling, door, poller>>

\* A peer comes alive, without an event: calls it has not acknowledged, cab
\* calls among them, are no longer to be assigned.  They stay in the list of
\* assigned calls until that is computed anew.
PeerAppears == /\ Networked
               /\ \E S \in SUBSET Elements(open) : open' = Without(open, S)
               /\ UNCHANGED <<car, obstructed, floor, state, obstruction, phase, direction,
                              handling, door, queue, assigned, called, poller>>

\* add_elevator, of a new peer or with a known one's status: the calls are
\* assigned anew, but no event is pushed.
PeerStatus == /\ Networked
              /\ assigned' \in Assignments(open)
              /\ UNCHANGED <<car, obstructed, floor, state, obstruction, phase, direction,
                             handling, door, queue, open, called, poller>>

\* A peer has served one of the hall calls.
PeerServes == /\ Networked /\ HasRoom
              /\ \E c \in Elements(open) : /\ c.type # "CAB"
                                           /\ open' = Without(open, {c})
              /\ assigned' \in Assignments(open')
              /\ Push("ORDER_RECEIVED")
              /\ UNCHANGED <<car, obstructed, floor, state, obstruction, phase, direction,
                             handling, door, called, poller>>

Next == \/ Startup
        \/ Pop \/ Handle \/ StartTimer
        \/ TimerTick \/ TimerExpires
        \/ PressButton \/ PushOrderReceived
        \/ PollFloorSensors \/ PollObstruction \/ Interrupt
        \/ Move \/ FlipObstruction
        \/ CallListEvent \/ CallAcknowledged
        \/ PeerAppears \/ PeerStatus \/ PeerServes

Spec == Init /\ [][Next]_vars

\* Threads are scheduled and a running motor moves the car; buttons, the
\* obstruction switch and the network need never act.
Fairness == /\ WF_vars(Startup)
            /\ WF_vars(Pop) /\ WF_vars(Handle) /\ WF_vars(StartTimer)
            /\ WF_vars(TimerTick) /\ WF_vars(TimerExpires)
            /\ WF_vars(PushOrderReceived)
            /\ WF_vars(PollFloorSensors) /\ WF_vars(PollObstruction) /\ WF_vars(Interrupt)
            /\ WF_vars(Move)

FairSpec == Spec /\ Fairness
-----------------------------------------------------------------------------
(* Properties.                                                             *)

TypeOK == /\ pos \in -1 .. 2 * NFloors - 1
          /\ motor \in Direction /\ direction \in Direction
          /\ lamp \in BOOLEAN /\ obstructed \in BOOLEAN /\ obstruction \in BOOLEAN
          /\ adding \in BOOLEAN /\ interrupting \in BOOLEAN /\ polled \in BOOLEAN
          /\ called \in BOOLEAN /\ opening \in BOOLEAN
          /\ floor \in Floor
          /\ state \in State /\ phase \in Phase
          /\ handling \in [event : Event \cup {"NONE"}, floor : Floor, calls : Seq(Request)]
          /\ timer \in 0 .. DoorTicks /\ since \in Nat
          /\ queue \in Seq(Event)
          /\ open \in Seq(Request) /\ assigned \in Seq(Request)

TimeoutQueued == \E i \in DOMAIN queue : queue[i] = "DOOR_TIMEOUT"

\* An open door has exactly one way left to close: its timer is about to be
\* started or is running, or the timer's DOOR_TIMEOUT is queued once, or is
\* being handled.  A car in any other state has none, so no stale timeout can
\* close a later opening, and open_door never joins a timer that still runs
\* (open_door, door_timer and the DOOR_OPEN case of handle_event).
OneDoorTimeout ==
  /\ state = "DOOR_OPEN" <=> \/ opening
                            \/ timer > 0
                            \/ TimeoutQueued
                            \/ handling.event = "DOOR_TIMEOUT"
  /\ opening => timer = 0
  /\ opening \/ timer > 0 => ~TimeoutQueued /\ handling.event # "DOOR_TIMEOUT"
  /\ TimeoutQueued => handling.event # "DOOR_TIMEOUT"
  /\ \A i, j \in DOMAIN queue :
       queue[i] = "DOOR_TIMEOUT" /\ queue[j] = "DOOR_TIMEOUT" => i = j

\* The motor runs only with the door closed, and in the direction that state
\* and Current_direction say: the three are set by different lines of
\* handle_event and initialize_position.
MotorDoorInterlock ==
  /\ motor # 0 => ~lamp
  /\ phase = "run" => motor = CASE state = "MOVING_UP"   -> 1
                                [] state = "MOVING_DOWN" -> -1
                                [] OTHER -> 0
  /\ motor # 0 /\ phase = "run" => motor = direction

\* With prompt threads the door is open only while the car stands at the
\* floor the program believes it to be at.
DoorOpensAtFloor == lamp /\ phase = "run" => AtFloor /\ floor = Here

\* A car without peers never drives beyond its end floors: only should_stop
\* keeps it in the shaft, and it does so only if there is a call to stop for.
WithinShaft == pos \in 0 .. 2 * (NFloors - 1)

\* A floor just reached whose arrival the FSM has yet to act on.
ArrivalAhead(f) == AtFloor /\ Here = f /\ (floor # f \/ ArrivalPending)

\* Why a car without peers stays in the shaft: while it moves there is an
\* open call further on, or at the floor whose arrival it has yet to handle.
MovingTowardsCall ==
  /\ state = "MOVING_UP"   => \E c \in Elements(open) : 2 * c.floor > pos \/ ArrivalAhead(c.floor)
  /\ state = "MOVING_DOWN" => \E c \in Elements(open) : 2 * c.floor < pos \/ ArrivalAhead(c.floor)

WakeUpComing == \/ adding
                \/ handling.event \in {"ORDER_RECEIVED", "DOOR_CLOSED"}
                \/ \E i \in DOMAIN queue : queue[i] \in {"ORDER_RECEIVED", "DOOR_CLOSED"}

\* No lost wake-up: an idle car with assigned calls has an event on its way
\* that makes it look at them, although add_call changes the calls and pushes
\* the event in separate steps and the FSM reads them in yet another.
NoLostWakeup == phase = "run" /\ state = "IDLE" /\ assigned # << >> => WakeUpComing

\* The door and motor of this elevator keep the promise of Doorway: threads,
\* events and door timer together let an open door stay open until its time,
\* or the settling time at the start, is up, close it once, and drive with
\* the door closed only.
DoorwayOf == INSTANCE Doorway WITH
  door <- CASE ~lamp -> "closed"
            [] lamp /\ (opening \/ timer > 0 \/ phase \in {"position", "lowering", "blocked"}) -> "open"
            [] OTHER -> "due"

ImplementsDoorway == DoorwayOf!Spec

\* Whenever should_stop makes a car with calls stop, clear_orders serves at
\* least one of them, in the direction the car has kept since it set off and
\* with the calls as they have become (elevator_algorithm.cpp:34,
\* elevator_fsm.cpp:78).
EveryStopClears == StopClearsCall(handling.floor, direction, handling.calls)

\* A call at the floor is driven past only with another call ahead in the
\* direction of travel, even though should_stop reads only the first call of
\* the list at that floor (elevator_algorithm.cpp:46-70).
NoCallAbandoned == PassOnlyWithCallAhead(handling.floor, direction, handling.calls)

\* choose_direction sends a car with calls towards one, or opens its door
\* where clear_orders then clears the whole floor (elevator_algorithm.cpp:76).
NeverIdleWithCalls == ChoiceServes(handling.floor, direction, handling.calls)

\* A call is taken off the list only by a car that stands at its floor and
\* opens the door in the same step.
ServedAtFloor ==
  [][\A c \in Elements(open) \ Elements(open') :
       AtFloor /\ c.floor = Here /\ motor' = 0 /\ lamp' /\ state' = "DOOR_OPEN"]_vars

\* With prompt polling the timer runs out only when it has run for a full door
\* time since an obstruction was last seen, and since the door was opened,
\* even if the poller saw the obstruction while open_door was replacing the
\* thread it interrupts (on_obstruction_detected, open_door and door_timer).
ObstructionHoldsDoor == [][timer > 0 /\ timer' = 0 => ~obstruction /\ since' >= DoorTicks]_vars

\* Unless the doorway is blocked again and again, or the idle car is made to
\* open again and again where it stands, every call accepted from the panel
\* is eventually served, however many are made.
EveryCallServed ==
  <>[]~obstructed /\ <>[][~OpenHere]_vars
    => \A c \in Panel : c \in Elements(open) ~> c \notin Elements(open)

\* What call_assigner.cpp says of cab calls: they are always assigned to the
\* elevator they were called from.
CabCallsAssigned == \A c \in Elements(open) : c.type = "CAB" => c \in Elements(assigned)
=============================================================================
