------------------------- MODULE ElevatorFSMProofs -------------------------
(***************************************************************************)
(* ElevatorFSM for any number of floors, calls, events, ticks of the door  *)
(* timer and changes of the obstruction switch.                            *)
(***************************************************************************)
EXTENDS ElevatorFSM, ElevatorAlgorithmProofs

-----------------------------------------------------------------------------
(* Call lists.                                                             *)

\* The members of a finite set of naturals, numbered by how many are smaller.
Rank(kept) == [i \in kept |-> Cardinality({j \in kept : j < i}) + 1]

\* Every number up to the size of the set is the rank of exactly one member.
LEMMA RankBijection ==
  ASSUME NEW kept \in SUBSET Nat, IsFiniteSet(kept)
  PROVE  /\ Rank(kept) \in [kept -> 1 .. Cardinality(kept)]
         /\ \A i, j \in kept : Rank(kept)[i] = Rank(kept)[j] => i = j
         /\ \A k \in 1 .. Cardinality(kept) : \E i \in kept : Rank(kept)[i] = k
<1> DEFINE Below(i) == {j \in kept : j < i}
<1>1. ASSUME NEW i \in kept
      PROVE  /\ IsFiniteSet(Below(i)) /\ Cardinality(Below(i)) \in Nat
             /\ Cardinality(Below(i)) < Cardinality(kept)
             /\ Rank(kept)[i] = Cardinality(Below(i)) + 1
  <2>1. Below(i) \subseteq kept /\ Below(i) # kept
    OBVIOUS
  <2>2. /\ IsFiniteSet(Below(i))
        /\ Cardinality(Below(i)) <= Cardinality(kept)
        /\ Cardinality(Below(i)) # Cardinality(kept)
    BY <2>1, FS_Subset
  <2>3. Cardinality(Below(i)) \in Nat /\ Cardinality(kept) \in Nat
    BY <2>2, FS_CardinalityType
  <2> QED BY <2>2, <2>3 DEF Rank
<1>2. Cardinality(kept) \in Nat
  BY FS_CardinalityType
<1>3. Rank(kept) \in [kept -> 1 .. Cardinality(kept)]
  <2>1. \A i \in kept : Rank(kept)[i] \in 1 .. Cardinality(kept)
    <3> HIDE DEF Below
    <3> QED BY <1>1, <1>2
  <2> QED BY <2>1 DEF Rank
<1>4. ASSUME NEW i \in kept, NEW j \in kept, i < j
      PROVE  Rank(kept)[i] # Rank(kept)[j]
  <2>1. Below(i) \subseteq Below(j) /\ Below(i) # Below(j)
    <3>1. i \in Nat /\ j \in Nat
      OBVIOUS
    <3>2. ASSUME NEW m \in kept, m < i PROVE m < j
      <4>1. m \in Nat
        OBVIOUS
      <4> QED BY <3>1, <3>2, <4>1, <1>4
    <3>3. i \in Below(j) /\ i \notin Below(i)
      BY <3>1, <1>4
    <3> QED BY <3>2, <3>3
  <2>2. Cardinality(Below(i)) # Cardinality(Below(j))
    BY <2>1, <1>1, FS_Subset
  <2> HIDE DEF Below
  <2> QED BY <2>2, <1>1
<1>5. \A i, j \in kept : Rank(kept)[i] = Rank(kept)[j] => i = j
  <2> TAKE i, j \in kept
  <2>1. i \in Nat /\ j \in Nat
    OBVIOUS
  <2>2. i < j \/ j < i \/ i = j
    BY <2>1
  <2> QED BY <2>2, <1>4
<1>6. Rank(kept) \in Injection(kept, 1 .. Cardinality(kept))
  BY <1>3, <1>5 DEF Injection, IsInjective
<1>7. /\ IsFiniteSet(1 .. Cardinality(kept))
      /\ Cardinality(1 .. Cardinality(kept)) = Cardinality(kept)
  BY <1>2, FS_Interval
<1>8. Rank(kept) \in Surjection(kept, 1 .. Cardinality(kept))
  BY <1>6, <1>7, FS_Injection
<1> QED BY <1>3, <1>5, <1>8 DEF Surjection

\* Without takes out the calls in S and nothing else: clear_orders and the
\* assigner lose no call on the way.
LEMMA WithoutElements ==
  ASSUME NEW list \in Seq(Request), NEW S
  PROVE  /\ Without(list, S) \in Seq(Request)
         /\ Elements(Without(list, S)) = Elements(list) \ S
<1> DEFINE kept == {i \in DOMAIN list : list[i] \notin S}
           at(k) == CHOOSE i \in kept : Cardinality({j \in kept : j < i}) = k - 1
<1>1. /\ kept \in SUBSET Nat /\ IsFiniteSet(kept) /\ Cardinality(kept) \in Nat
      /\ kept \subseteq DOMAIN list
  <2>1. DOMAIN list = 1 .. Len(list) /\ Len(list) \in Nat
    OBVIOUS
  <2>2. IsFiniteSet(1 .. Len(list))
    BY <2>1, FS_Interval
  <2>3. kept \subseteq 1 .. Len(list) /\ kept \in SUBSET Nat
    BY <2>1
  <2> QED BY <2>1, <2>2, <2>3, FS_Subset, FS_CardinalityType
<1>2. Without(list, S) = [k \in 1 .. Cardinality(kept) |-> list[at(k)]]
  BY DEF Without
<1>3. \A i \in kept : list[i] \in Request \ S
  <2>1. \A i \in DOMAIN list : list[i] \in Request
    OBVIOUS
  <2> QED BY <2>1
<1> HIDE DEF kept
<1>4. ASSUME NEW k \in 1 .. Cardinality(kept)
      PROVE  at(k) \in kept /\ Rank(kept)[at(k)] = k
  <2>1. PICK i \in kept : Rank(kept)[i] = k
    BY <1>1, RankBijection
  <2>2. \A j \in kept : /\ Rank(kept)[j] = Cardinality({m \in kept : m < j}) + 1
                        /\ Cardinality({m \in kept : m < j}) \in Nat
    <3> SUFFICES ASSUME NEW j \in kept
                 PROVE  Cardinality({m \in kept : m < j}) \in Nat
      BY DEF Rank
    <3>1. {m \in kept : m < j} \subseteq kept
      OBVIOUS
    <3> QED BY <3>1, <1>1, FS_Subset, FS_CardinalityType
  <2>3. \E j \in kept : Cardinality({m \in kept : m < j}) = k - 1
    BY <2>1, <2>2
  <2>4. at(k) \in kept /\ Cardinality({j \in kept : j < at(k)}) = k - 1
    BY <2>3
  <2>5. Rank(kept)[at(k)] = (k - 1) + 1
    BY <2>2, <2>4
  <2> QED BY <2>4, <2>5
<1> HIDE DEF at
<1>5. Without(list, S) \in Seq(Request)
  <2>1. Without(list, S) \in [1 .. Cardinality(kept) -> Request]
    BY <1>2, <1>3, <1>4
  <2> QED BY <1>1, <2>1
<1>6. ASSUME NEW c \in Elements(Without(list, S))
      PROVE  c \in Elements(list) \ S
  <2>1. PICK k \in 1 .. Cardinality(kept) : c = list[at(k)]
    BY <1>2 DEF Elements
  <2> QED BY <1>1, <1>3, <1>4, <2>1 DEF Elements
<1>7. ASSUME NEW c \in Elements(list) \ S
      PROVE  c \in Elements(Without(list, S))
  <2>1. PICK i \in DOMAIN list : c = list[i]
    BY DEF Elements
  <2>2. i \in kept
    BY <2>1 DEF kept
  <2>3. Rank(kept)[i] \in 1 .. Cardinality(kept)
    BY <2>2, <1>1, RankBijection
  <2>4. at(Rank(kept)[i]) = i
    <3>1. at(Rank(kept)[i]) \in kept /\ Rank(kept)[at(Rank(kept)[i])] = Rank(kept)[i]
      BY <2>3, <1>4
    <3> QED BY <3>1, <2>2, <1>1, RankBijection
  <2> QED BY <1>2, <2>1, <2>3, <2>4 DEF Elements
<1> QED BY <1>5, <1>6, <1>7

LEMMA InsertedType ==
  ASSUME NEW list \in Seq(Request), NEW c \in Request, NEW k \in 1 .. Len(list) + 1
  PROVE  /\ Inserted(list, k, c) \in Seq(Request)
         /\ Elements(list) \subseteq Elements(Inserted(list, k, c))
<1>1. Len(list) \in Nat /\ DOMAIN list = 1 .. Len(list)
  OBVIOUS
<1>2. \A i \in 1 .. Len(list) + 1 : Inserted(list, k, c)[i] \in Request
  BY <1>1 DEF Inserted
<1>3. Inserted(list, k, c) \in Seq(Request)
  <2>1. Inserted(list, k, c) \in [1 .. Len(list) + 1 -> Request]
    BY <1>2 DEF Inserted
  <2> QED BY <1>1, <2>1
<1>4. ASSUME NEW i \in DOMAIN list
      PROVE  \E j \in DOMAIN Inserted(list, k, c) : Inserted(list, k, c)[j] = list[i]
  <2>1. CASE i < k
    <3>1. i \in 1 .. Len(list) + 1 /\ Inserted(list, k, c)[i] = list[i]
      BY <1>1, <2>1 DEF Inserted
    <3> QED BY <3>1 DEF Inserted
  <2>2. CASE ~(i < k)
    <3>1. i + 1 \in 1 .. Len(list) + 1 /\ ~(i + 1 < k) /\ i + 1 # k /\ (i + 1) - 1 = i
      BY <1>1, <2>2
    <3>2. Inserted(list, k, c)[i + 1] = list[i]
      BY <3>1 DEF Inserted
    <3> QED BY <3>1, <3>2 DEF Inserted
  <2> QED BY <2>1, <2>2
<1> QED BY <1>3, <1>4 DEF Elements

\* Whatever the assigner answers, it is made of calls of the list.
LEMMA AssignmentsElements ==
  ASSUME NEW list \in Seq(Request), NEW part \in Assignments(list)
  PROVE  part \in Seq(Request) /\ Elements(part) \subseteq Elements(list)
<1>1. CASE part = list
  BY <1>1
<1>2. CASE part \in Divisions(list)
  <2>1. PICK S : part = Without(list, S)
    BY <1>2 DEF Divisions
  <2> QED BY <2>1, WithoutElements
<1>3. CASE part = << >>
  BY <1>3 DEF Elements
<1> QED BY <1>1, <1>2, <1>3 DEF Assignments

-----------------------------------------------------------------------------
(* Types.                                                                  *)

\* The floor sensor shows a floor of the shaft, although the car may have
\* been driven into a buffer.
LEMMA HereIsFloor ==
  ASSUME pos \in -1 .. 2 * NFloors - 1, AtFloor
  PROVE  Here \in Floor /\ pos = 2 * Here
BY NFloorsAssumption DEF AtFloor, Here, Floor

LEMMA ClearOrdersType ==
  ASSUME TypeOK, NEW d, ClearOrders(d)
  PROVE  open' \in Seq(Request) /\ assigned' \in Seq(Request) /\ called' \in BOOLEAN
<1>1. open' \in Seq(Request)
  BY WithoutElements DEF TypeOK, ClearOrders
<1> QED BY <1>1, AssignmentsElements DEF ClearOrders, TypeOK

LEMMA PushType ==
  ASSUME queue \in Seq(Event), NEW e \in Event, Push(e)
  PROVE  queue' \in Seq(Event)
BY DEF Push

LEMMA NoEventType == NoEvent \in [event : Event \cup {"NONE"}, floor : Floor, calls : Seq(Request)]
<1>1. << >> \in Seq(Request)
  OBVIOUS
<1>2. 0 \in Floor
  BY NFloorsAssumption DEF Floor
<1> QED BY <1>1, <1>2 DEF NoEvent

LEMMA TypeInit == Init => TypeOK
<1> SUFFICES ASSUME Init PROVE TypeOK
  OBVIOUS
<1>1. pos \in -1 .. 2 * NFloors - 1 /\ 0 \in Floor
  BY NFloorsAssumption DEF Init, Floor
<1>2. open \in Seq(Request) /\ assigned \in Seq(Request) /\ queue \in Seq(Event)
  BY DEF Init
<1>3. timer \in 0 .. DoorTicks /\ since \in Nat
  BY FSMAssumption DEF Init
<1> QED BY <1>1, <1>2, <1>3, NoEventType DEF Init, TypeOK, Direction, State, Phase

LEMMA TypeStep == TypeOK /\ [Next]_vars => TypeOK'
<1> SUFFICES ASSUME TypeOK, [Next]_vars PROVE TypeOK'
  OBVIOUS
<1> USE NFloorsAssumption, FSMAssumption
<1>1. CASE PositionKnown
  BY <1>1, HereIsFloor DEF TypeOK, PositionKnown, Phase, car, calls, door, poller
<1>2. CASE StartLowering
  BY <1>2 DEF TypeOK, StartLowering, Phase, Direction, calls, door, poller
<1>3. CASE LoweredToFloor
  BY <1>3, HereIsFloor DEF TypeOK, LoweredToFloor, Phase, Direction, calls, door, poller
<1>4. CASE StartBlocked
  BY <1>4 DEF TypeOK, StartBlocked, calls, door, poller
<1>5. CASE StartUnblocked
  BY <1>5 DEF TypeOK, StartUnblocked, Phase, car, calls, door, poller
<1>6. CASE StartLoop
  <2>1. queue' \in Seq(Event)
    BY <1>6, PushType DEF TypeOK, StartLoop, Event
  <2> QED BY <1>6, <2>1 DEF TypeOK, StartLoop, Phase, calls, door, poller
<1>7. CASE Pop
  BY <1>7 DEF TypeOK, Pop, car, calls, door, poller
<1>8. CASE ArriveAndStop
  BY <1>8, ClearOrdersType, NoEventType DEF TypeOK, ArriveAndStop, OpenDoor, Direction, State, door, poller
<1>9. CASE Depart
  <2>1. Chosen \in Direction
    BY DEF Chosen, ChooseDirection, Direction
  <2> QED BY <1>9, <2>1, NoEventType DEF TypeOK, Depart, State, calls, door, poller
<1>10. CASE OpenHere
  BY <1>10, ClearOrdersType, NoEventType DEF TypeOK, OpenHere, OpenDoor, Direction, State, door, poller
<1>11. CASE StayIdle
  BY <1>11, NoEventType DEF TypeOK, StayIdle, Direction, calls, door, poller
<1>12. CASE CloseDoor
  <2>1. queue' \in Seq(Event)
    BY <1>12, PushType DEF TypeOK, CloseDoor, Event
  <2> QED BY <1>12, <2>1, NoEventType DEF TypeOK, CloseDoor, State, calls, door, poller
<1>13. CASE Ignore
  BY <1>13, NoEventType DEF TypeOK, Ignore, car, calls, door, poller
<1>14. CASE TimerTick
  <2>1. timer' \in 0 .. DoorTicks /\ since' \in Nat
    BY <1>14 DEF TypeOK, TimerTick, Tick
  <2> QED BY <1>14, <2>1 DEF TypeOK, TimerTick, Tick, car, calls, door, poller
<1>15. CASE TimerExpires
  <2>1. queue' \in Seq(Event)
    BY <1>15, PushType DEF TypeOK, TimerExpires, Tick, Event
  <2>2. timer' \in 0 .. DoorTicks /\ since' \in Nat
    BY <1>15 DEF TypeOK, TimerExpires, Tick
  <2> QED BY <1>15, <2>1, <2>2 DEF TypeOK, TimerExpires, Tick, car, calls, door, poller
<1>16. CASE PressButton
  <2>1. PICK c \in Panel : open' = Append(open, c) \/ open' = open
    BY <1>16 DEF PressButton
  <2>2. open' \in Seq(Request)
    <3>1. c \in Request /\ open \in Seq(Request)
      BY DEF TypeOK, Panel
    <3> QED BY <2>1, <3>1
  <2>3. assigned' \in Seq(Request)
    BY <1>16, <2>2, AssignmentsElements DEF PressButton
  <2> QED BY <1>16, <2>2, <2>3 DEF TypeOK, PressButton, car, door
<1>17. CASE PushOrderReceived
  <2>1. queue' \in Seq(Event)
    BY <1>17, PushType DEF TypeOK, PushOrderReceived, Event
  <2> QED BY <1>17, <2>1 DEF TypeOK, PushOrderReceived, car, calls, door, poller
<1>18. CASE PollFloorSensors
  <2>1. queue' \in Seq(Event)
    BY <1>18, PushType DEF TypeOK, PollFloorSensors, Event
  <2> QED BY <1>18, <2>1, HereIsFloor DEF TypeOK, PollFloorSensors, car, calls, door, poller
<1>19. CASE PollObstruction
  BY <1>19 DEF TypeOK, PollObstruction, car, calls, door, poller
<1>20. CASE Move
  BY <1>20 DEF TypeOK, Move, calls, door, poller
<1>21. CASE FlipObstruction
  BY <1>21 DEF TypeOK, FlipObstruction, car, calls, door, poller
<1>22. CASE CallListEvent
  <2>1. assigned' \in Seq(Request)
    BY <1>22, AssignmentsElements DEF TypeOK, CallListEvent
  <2>2. queue' \in Seq(Event)
    BY <1>22, PushType DEF TypeOK, CallListEvent, Event
  <2> QED BY <1>22, <2>1, <2>2 DEF TypeOK, CallListEvent, car, door, poller
<1>23. CASE PeerStatus
  <2>1. assigned' \in Seq(Request)
    BY <1>23, AssignmentsElements DEF TypeOK, PeerStatus
  <2> QED BY <1>23, <2>1 DEF TypeOK, PeerStatus, car, door, poller
<1>24. CASE PeerServes
  <2>1. open' \in Seq(Request)
    BY <1>24, WithoutElements DEF TypeOK, PeerServes
  <2>2. assigned' \in Seq(Request)
    BY <1>24, <2>1, AssignmentsElements DEF PeerServes
  <2>3. queue' \in Seq(Event)
    BY <1>24, PushType DEF TypeOK, PeerServes, Event
  <2> QED BY <1>24, <2>1, <2>2, <2>3 DEF TypeOK, PeerServes, car, door, poller
<1>25. CASE UNCHANGED vars
  BY <1>25 DEF TypeOK, vars, car, calls, door, poller
<1>26. CASE StartTimer
  <2>1. timer' \in 0 .. DoorTicks /\ since' \in Nat
    BY <1>26 DEF StartTimer
  <2> QED BY <1>26, <2>1 DEF TypeOK, StartTimer, car, calls, poller
<1>27. CASE Interrupt
  <2>1. timer' \in 0 .. DoorTicks
    BY <1>27 DEF TypeOK, Interrupt
  <2> QED BY <1>27, <2>1 DEF TypeOK, Interrupt, car, calls
<1>28. CASE CallAcknowledged
  <2>1. PICK c \in Panel \ Elements(open), k \in 1 .. Len(open) + 1 : open' = Inserted(open, k, c)
    BY <1>28 DEF CallAcknowledged
  <2>2. open' \in Seq(Request)
    BY <2>1, InsertedType DEF TypeOK, Panel
  <2>3. assigned' \in Seq(Request)
    BY <1>28, <2>2, AssignmentsElements DEF CallAcknowledged
  <2>4. queue' \in Seq(Event)
    BY <1>28, PushType DEF TypeOK, CallAcknowledged, Event
  <2> QED BY <1>28, <2>2, <2>3, <2>4 DEF TypeOK, CallAcknowledged, car, door, poller
<1>29. CASE PeerAppears
  <2>1. open' \in Seq(Request)
    BY <1>29, WithoutElements DEF TypeOK, PeerAppears
  <2> QED BY <1>29, <2>1 DEF TypeOK, PeerAppears, car, door, poller
<1> QED BY <1>1, <1>2, <1>3, <1>4, <1>5, <1>6, <1>7, <1>8, <1>9, <1>10, <1>11, <1>12, <1>13,
           <1>14, <1>15, <1>16, <1>17, <1>18, <1>19, <1>20, <1>21, <1>22, <1>23, <1>24, <1>25,
           <1>26, <1>27, <1>28, <1>29
        DEF Next, Startup, Handle

\* Types of the elevator for any number of floors, ticks and events: the FSM
\* never stores the -1 of a car between floors, and every value stays in the
\* range the code gives it.
THEOREM FSMTypeCorrect == Spec => []TypeOK
BY TypeInit, TypeStep, PTL DEF Spec

\* Whatever call list, floor and direction the threads bring about, the
\* decisions keep their promises.
THEOREM StopsAreNotInVain == Spec => []EveryStopClears
<1>1. TypeOK => EveryStopClears
  BY EveryStopServes DEF TypeOK, EveryStopClears
<1> QED BY <1>1, FSMTypeCorrect, PTL

\* The same for driving past a call ...
THEOREM PassingPostpones == Spec => []NoCallAbandoned
<1>1. TypeOK => NoCallAbandoned
  BY NoCallIsAbandoned DEF TypeOK, NoCallAbandoned
<1> QED BY <1>1, FSMTypeCorrect, PTL

\* ... and for the choice of an idle car.
THEOREM IdleOnlyWithoutCalls == Spec => []NeverIdleWithCalls
<1>1. TypeOK => NeverIdleWithCalls
  BY IdleCarServes DEF TypeOK, NeverIdleWithCalls
<1> QED BY <1>1, FSMTypeCorrect, PTL

-----------------------------------------------------------------------------
(* Door, motor and the events between them.                                *)

\* Until run_event_queue reaches its loop nothing is handled, and the motor
\* runs only to find a floor, with the door closed.
StartingUp ==
  phase # "run" => /\ state = "IDLE"
                   /\ handling.event = "NONE"
                   /\ motor = IF phase = "lowering" THEN -1 ELSE 0
                   /\ phase = "lowering" => ~lamp
                   /\ phase = "position" => (lamp => AtFloor)

\* From then on the lamp says what the state says.
LampIsState == phase = "run" => (lamp <=> state = "DOOR_OPEN")

MotorIsState ==
  phase = "run" => /\ motor = CASE state = "MOVING_UP"   -> 1
                                [] state = "MOVING_DOWN" -> -1
                                [] OTHER -> 0
                   /\ motor # 0 => motor = direction

\* The invariant behind OneDoorTimeout and MotorDoorInterlock: a car that
\* starts or moves has no timeout underway, so only the door that the timer
\* was started for is there when it comes.
DoorInv == TypeOK /\ StartingUp /\ LampIsState /\ MotorIsState /\ OneDoorTimeout

OneQueued == \A i, j \in DOMAIN queue :
               queue[i] = "DOOR_TIMEOUT" /\ queue[j] = "DOOR_TIMEOUT" => i = j

LEMMA PushOther ==
  ASSUME queue \in Seq(Event), NEW e \in Event \ {"DOOR_TIMEOUT"}, Push(e)
  PROVE  /\ TimeoutQueued' <=> TimeoutQueued
         /\ OneQueued' <=> OneQueued
<1>1. /\ Len(queue') = Len(queue) + 1 /\ Len(queue) \in Nat
      /\ DOMAIN queue = 1 .. Len(queue) /\ DOMAIN queue' = 1 .. Len(queue')
      /\ \A i \in 1 .. Len(queue) : queue'[i] = queue[i]
      /\ queue'[Len(queue) + 1] = e
  BY DEF Push
<1>2. \A i \in DOMAIN queue' : i \in DOMAIN queue \/ queue'[i] = e
  BY <1>1
<1>3. \A i \in DOMAIN queue : i \in DOMAIN queue' /\ queue'[i] = queue[i]
  BY <1>1
<1>4. TimeoutQueued' <=> TimeoutQueued
  BY <1>2, <1>3 DEF TimeoutQueued
<1>5. OneQueued' <=> OneQueued
  BY <1>2, <1>3 DEF OneQueued
<1> QED BY <1>4, <1>5

LEMMA PushTimeout ==
  ASSUME queue \in Seq(Event), Push("DOOR_TIMEOUT"), ~TimeoutQueued
  PROVE  TimeoutQueued' /\ OneQueued'
<1>1. /\ Len(queue') = Len(queue) + 1 /\ Len(queue) \in Nat
      /\ DOMAIN queue = 1 .. Len(queue) /\ DOMAIN queue' = 1 .. Len(queue')
      /\ \A i \in 1 .. Len(queue) : queue'[i] = queue[i]
      /\ queue'[Len(queue) + 1] = "DOOR_TIMEOUT"
  BY DEF Push
<1>2. \A i \in DOMAIN queue' : queue'[i] = "DOOR_TIMEOUT" <=> i = Len(queue) + 1
  BY <1>1 DEF TimeoutQueued
<1> QED BY <1>1, <1>2 DEF TimeoutQueued, OneQueued

\* Of the timeouts in the queue the one popped is gone, if there was one.
LEMMA PopQueue ==
  ASSUME queue \in Seq(Event), queue # << >>, queue' = Tail(queue)
  PROVE  /\ Head(queue) \in Event
         /\ Head(queue) # "DOOR_TIMEOUT" => (TimeoutQueued' <=> TimeoutQueued)
         /\ OneQueued => OneQueued'
         /\ OneQueued /\ Head(queue) = "DOOR_TIMEOUT" => ~TimeoutQueued'
         /\ Head(queue) = "DOOR_TIMEOUT" => TimeoutQueued
<1>1. /\ Len(queue) \in Nat /\ Len(queue) > 0 /\ Len(queue') = Len(queue) - 1
      /\ DOMAIN queue = 1 .. Len(queue) /\ DOMAIN queue' = 1 .. Len(queue')
      /\ \A i \in 1 .. Len(queue') : queue'[i] = queue[i + 1]
      /\ Head(queue) = queue[1] /\ Head(queue) \in Event
  OBVIOUS
<1>2. \A i \in DOMAIN queue' : i + 1 \in DOMAIN queue /\ queue'[i] = queue[i + 1] /\ i + 1 # 1
  BY <1>1
<1>3. \A i \in DOMAIN queue : i = 1 \/ (i - 1 \in DOMAIN queue' /\ queue'[i - 1] = queue[i])
  BY <1>1
<1>4. Head(queue) # "DOOR_TIMEOUT" => (TimeoutQueued' <=> TimeoutQueued)
  BY <1>1, <1>2, <1>3 DEF TimeoutQueued
<1>5. ASSUME OneQueued, NEW i \in DOMAIN queue', NEW j \in DOMAIN queue',
             queue'[i] = "DOOR_TIMEOUT", queue'[j] = "DOOR_TIMEOUT"
      PROVE  i = j
  <2>1. i + 1 = j + 1
    BY <1>2, <1>5 DEF OneQueued
  <2> QED BY <1>1, <2>1
<1>6. ASSUME OneQueued, Head(queue) = "DOOR_TIMEOUT", NEW i \in DOMAIN queue'
      PROVE  queue'[i] # "DOOR_TIMEOUT"
  BY <1>1, <1>2, <1>6 DEF OneQueued
<1>7. Head(queue) = "DOOR_TIMEOUT" => TimeoutQueued
  BY <1>1 DEF TimeoutQueued
<1> QED BY <1>1, <1>4, <1>5, <1>6, <1>7 DEF TimeoutQueued, OneQueued

LEMMA DoorInit == Init => DoorInv
<1> SUFFICES ASSUME Init PROVE DoorInv
  OBVIOUS
<1>1. ~TimeoutQueued /\ OneQueued
  BY DEF Init, TimeoutQueued, OneQueued
<1> QED BY <1>1, TypeInit DEF Init, DoorInv, StartingUp, LampIsState, MotorIsState,
                             OneDoorTimeout, OneQueued, NoEvent

LEMMA DoorStep == DoorInv /\ [Next]_vars => DoorInv'
<1> SUFFICES ASSUME DoorInv, [Next]_vars PROVE DoorInv'
  OBVIOUS
<1> DEFINE Rest == StartingUp /\ LampIsState /\ MotorIsState
<1>a. TypeOK /\ TypeOK' /\ Rest /\ OneDoorTimeout /\ OneQueued
  BY TypeStep DEF DoorInv, OneDoorTimeout, OneQueued
<1>n. timer \in Nat /\ timer' \in Nat
  BY <1>a, FSMAssumption DEF TypeOK
<1>b. SUFFICES Rest' /\ OneDoorTimeout'
  BY <1>a DEF DoorInv
<1> DEFINE OtherQueue == /\ TimeoutQueued' <=> TimeoutQueued
                         /\ OneQueued'
<1>q. ASSUME UNCHANGED queue PROVE OtherQueue
  BY <1>a, <1>q DEF TimeoutQueued, OneQueued
<1>p. ASSUME NEW e \in Event \ {"DOOR_TIMEOUT"}, Push(e) PROVE OtherQueue
  BY <1>a, <1>p, PushOther DEF TypeOK
<1>t. ASSUME OtherQueue, UNCHANGED <<state, handling, opening>>,
             timer' = 0 <=> timer = 0
      PROVE  OneDoorTimeout'
  BY <1>a, <1>n, <1>t DEF OneDoorTimeout, OneQueued
<1>r. ASSUME UNCHANGED <<phase, state, pos, motor, lamp, direction>>,
             phase # "run" => handling'.event = "NONE"
      PROVE  Rest'
  BY <1>a, <1>r DEF StartingUp, LampIsState, MotorIsState, AtFloor
<1> HIDE DEF OtherQueue, Rest
<1>1. CASE PositionKnown
  BY <1>1, <1>a, <1>q, <1>t DEF Rest, StartingUp, LampIsState, MotorIsState, PositionKnown, car, calls, door, poller
<1>2. CASE StartLowering
  BY <1>2, <1>a, <1>q, <1>t DEF Rest, StartingUp, LampIsState, MotorIsState, StartLowering, calls, door, poller
<1>3. CASE LoweredToFloor
  BY <1>3, <1>a, <1>q, <1>t DEF Rest, StartingUp, LampIsState, MotorIsState, LoweredToFloor, calls, door, poller
<1>4. CASE StartBlocked
  BY <1>4, <1>a, <1>q, <1>t DEF Rest, StartingUp, LampIsState, MotorIsState, StartBlocked, calls, door, poller
<1>5. CASE StartUnblocked
  BY <1>5, <1>a, <1>q, <1>t DEF Rest, StartingUp, LampIsState, MotorIsState, StartUnblocked, car, calls, door, poller
<1>6. CASE StartLoop
  BY <1>6, <1>a, <1>p, <1>t DEF Rest, StartingUp, LampIsState, MotorIsState, StartLoop, Event, calls, door, poller
<1>7. CASE Pop
  BY <1>7, <1>a, PopQueue DEF Rest, StartingUp, LampIsState, MotorIsState, Pop, OneDoorTimeout, OneQueued, NoEvent, TypeOK, Event, car, calls, door, poller
<1>8. CASE ArriveAndStop
  BY <1>8, <1>a, <1>q, FSMAssumption DEF Rest, StartingUp, LampIsState, MotorIsState, ArriveAndStop, OpenDoor, OneDoorTimeout, OneQueued, OtherQueue, Moving, NoEvent, door, poller
<1>9. CASE Depart
  BY <1>9, <1>a, <1>q DEF Rest, StartingUp, LampIsState, MotorIsState, Depart, Wakes, Chosen, ChooseDirection, OneDoorTimeout, OneQueued, OtherQueue, NoEvent, calls, door, poller
<1>10. CASE OpenHere
  BY <1>10, <1>a, <1>q, FSMAssumption DEF Rest, StartingUp, LampIsState, MotorIsState, OpenHere, Wakes, OpenDoor, OneDoorTimeout, OneQueued, OtherQueue, NoEvent, door, poller
<1>11. CASE StayIdle
  BY <1>11, <1>a, <1>q DEF Rest, StartingUp, LampIsState, MotorIsState, StayIdle, Wakes, OneDoorTimeout, OneQueued, OtherQueue, NoEvent, calls, door, poller
<1>12. CASE CloseDoor
  BY <1>12, <1>a, <1>p DEF Rest, StartingUp, LampIsState, MotorIsState, CloseDoor, OneDoorTimeout, OneQueued, OtherQueue, Event, NoEvent, calls, door, poller
<1>13. CASE Ignore
  BY <1>13, <1>a, <1>r, <1>q DEF Rest, StartingUp, Ignore, OneDoorTimeout, OneQueued, OtherQueue, NoEvent, car, calls, door, poller
<1>14. CASE TimerTick
  BY <1>14, <1>a, <1>r, <1>q, <1>t DEF Rest, StartingUp, TimerTick, Tick, TypeOK, car, calls, door, poller
<1>15. CASE TimerExpires
  BY <1>15, <1>a, <1>r, PushTimeout DEF Rest, StartingUp, TimerExpires, Tick, TypeOK, OneDoorTimeout, OneQueued, car, calls, door, poller
<1>16. CASE PressButton
  BY <1>16, <1>a, <1>r, <1>q, <1>t DEF Rest, StartingUp, PressButton, car, door
<1>17. CASE PushOrderReceived
  BY <1>17, <1>a, <1>r, <1>p, <1>t DEF Rest, StartingUp, PushOrderReceived, Event, car, calls, door, poller
<1>18. CASE PollFloorSensors
  BY <1>18, <1>a, <1>r, <1>p, <1>t DEF Rest, StartingUp, PollFloorSensors, Event, car, calls, door, poller
<1>19. CASE PollObstruction
  BY <1>19, <1>a, <1>r, <1>q, <1>t, FSMAssumption DEF Rest, StartingUp, PollObstruction, TypeOK, car, calls, door, poller
<1>20. CASE Move
  BY <1>20, <1>a, <1>q, <1>t DEF Rest, StartingUp, LampIsState, MotorIsState, Move, calls, door, poller
<1>21. CASE FlipObstruction
  BY <1>21, <1>a, <1>r, <1>q, <1>t DEF Rest, StartingUp, FlipObstruction, car, calls, door, poller
<1>22. CASE CallListEvent
  BY <1>22, <1>a, <1>r, <1>p, <1>t DEF Rest, StartingUp, CallListEvent, Event, car, door, poller
<1>23. CASE PeerStatus
  BY <1>23, <1>a, <1>r, <1>q, <1>t DEF Rest, StartingUp, PeerStatus, car, door, poller
<1>24. CASE PeerServes
  BY <1>24, <1>a, <1>r, <1>p, <1>t DEF Rest, StartingUp, PeerServes, Event, car, door, poller
<1>25. CASE UNCHANGED vars
  BY <1>25, <1>a, <1>r, <1>q, <1>t DEF Rest, StartingUp, vars, car, calls, door, poller
<1>26. CASE StartTimer
  BY <1>26, <1>a, <1>r, <1>q, FSMAssumption DEF Rest, StartingUp, StartTimer, OneDoorTimeout, OneQueued, OtherQueue, car, calls, poller
<1>27. CASE Interrupt
  BY <1>27, <1>a, <1>r, <1>q, <1>t, FSMAssumption DEF Rest, StartingUp, Interrupt, TypeOK, car, calls
<1>28. CASE CallAcknowledged
  BY <1>28, <1>a, <1>r, <1>p, <1>t DEF Rest, StartingUp, CallAcknowledged, Event, car, door, poller
<1>29. CASE PeerAppears
  BY <1>29, <1>a, <1>r, <1>q, <1>t DEF Rest, StartingUp, PeerAppears, car, door, poller
<1> QED BY <1>1, <1>2, <1>3, <1>4, <1>5, <1>6, <1>7, <1>8, <1>9, <1>10, <1>11, <1>12, <1>13,
           <1>14, <1>15, <1>16, <1>17, <1>18, <1>19, <1>20, <1>21, <1>22, <1>23, <1>24, <1>25,
           <1>26, <1>27, <1>28, <1>29
        DEF Next, Startup, Handle

LEMMA DoorInvariant == Spec => []DoorInv
BY DoorInit, DoorStep, PTL DEF Spec

\* However the threads interleave and however long the queue grows, an open
\* door has exactly one timeout underway and a car in any other state none.
THEOREM DoorHasOneTimeout == Spec => []OneDoorTimeout
<1>1. DoorInv => OneDoorTimeout
  BY DEF DoorInv
<1> QED BY <1>1, DoorInvariant, PTL

\* The motor runs only with the door closed, and as state and direction say.
THEOREM MotorOffWhileOpen == Spec => []MotorDoorInterlock
<1>1. DoorInv => MotorDoorInterlock
  <2> SUFFICES ASSUME DoorInv PROVE MotorDoorInterlock
    OBVIOUS
  <2>1. state \in State /\ phase \in Phase /\ motor \in Direction
    BY DEF DoorInv, TypeOK
  <2>2. ASSUME motor # 0, lamp PROVE FALSE
    BY <2>1, <2>2 DEF DoorInv, StartingUp, LampIsState, MotorIsState, State, Phase
  <2> QED BY <2>2 DEF DoorInv, MotorIsState, MotorDoorInterlock
<1> QED BY <1>1, DoorInvariant, PTL

-----------------------------------------------------------------------------
(* The abstract door.                                                      *)

LEMMA DoorwayInit == Init => DoorwayOf!Init
BY DEF Init, DoorwayOf!Init

LEMMA DoorwayStep == DoorInv /\ [Next]_vars => [DoorwayOf!Next]_(DoorwayOf!vars)
<1> SUFFICES ASSUME DoorInv, [Next]_vars
             PROVE  [DoorwayOf!Next]_(DoorwayOf!vars)
  OBVIOUS
<1>a. /\ lamp \in BOOLEAN /\ phase \in Phase /\ state \in State /\ motor \in -1 .. 1
      /\ timer \in Nat /\ opening \in BOOLEAN
      /\ TimeoutQueued => state = "DOOR_OPEN"
  BY FSMAssumption DEF DoorInv, TypeOK, Direction, OneDoorTimeout
<1>b. /\ lamp' \in BOOLEAN /\ phase' \in Phase /\ motor' \in -1 .. 1
      /\ timer' \in Nat /\ opening' \in BOOLEAN
  BY TypeStep, FSMAssumption DEF DoorInv, TypeOK, Direction
<1> DEFINE InStart == phase \in {"position", "lowering", "blocked"}
           Held == opening \/ timer > 0
<1>s. ASSUME UNCHANGED <<lamp, motor>>, Held' <=> Held, InStart' <=> InStart
      PROVE  UNCHANGED DoorwayOf!vars
  BY <1>s DEF DoorwayOf!vars
<1>d. ASSUME ~lamp, ~lamp' PROVE DoorwayOf!Drive
  BY <1>d, <1>a, <1>b DEF DoorwayOf!Drive
<1>o. ASSUME ~lamp, lamp', motor' = 0, Held' \/ InStart' PROVE DoorwayOf!Open
  BY <1>o DEF DoorwayOf!Open
<1>u. ASSUME lamp, lamp', UNCHANGED motor, Held \/ InStart, ~(Held' \/ InStart')
      PROVE DoorwayOf!TimeUp
  BY <1>u DEF DoorwayOf!TimeUp
<1>c. ASSUME lamp, ~(Held \/ InStart), ~lamp', UNCHANGED motor
      PROVE DoorwayOf!Close
  BY <1>c DEF DoorwayOf!Close
<1>k. ASSUME UNCHANGED <<lamp, motor, phase>>, Held' <=> Held
      PROVE  UNCHANGED DoorwayOf!vars
  BY <1>s, <1>k
<1>h. ASSUME UNCHANGED <<timer, opening>> PROVE Held' <=> Held
  BY <1>h
<1> HIDE DEF InStart, Held
<1>1. CASE PositionKnown
  BY <1>1, <1>s, <1>h DEF PositionKnown, InStart, car, door
<1>2. CASE StartLowering
  BY <1>2, <1>a, <1>d DEF StartLowering, DoorInv, StartingUp, DoorwayOf!Next
<1>3. CASE LoweredToFloor
  BY <1>3, <1>d DEF LoweredToFloor, DoorInv, StartingUp, DoorwayOf!Next
<1>4. CASE StartBlocked
  <2>1. motor = 0 /\ motor' = 0 /\ phase' = phase /\ InStart' /\ (Held' <=> Held)
    BY <1>4, <1>h DEF StartBlocked, DoorInv, StartingUp, InStart, door
  <2>2. CASE lamp
    BY <1>4, <2>1, <2>2, <1>k DEF StartBlocked
  <2>3. CASE ~lamp
    BY <1>4, <2>1, <2>3, <1>o DEF StartBlocked, DoorwayOf!Next
  <2> QED BY <1>a, <2>2, <2>3 DEF DoorwayOf!Next
<1>5. CASE StartUnblocked
  <2>1. ~Held /\ ~Held' /\ InStart /\ ~InStart' /\ UNCHANGED <<lamp, motor>>
    BY <1>5 DEF StartUnblocked, DoorInv, OneDoorTimeout, StartingUp, InStart, TypeOK, Held, car, door
  <2>2. CASE lamp
    BY <2>1, <2>2, <1>u DEF DoorwayOf!Next
  <2>3. CASE ~lamp
    BY <2>1, <2>3, <1>d DEF DoorwayOf!Next
  <2> QED BY <1>a, <2>2, <2>3 DEF DoorwayOf!Next
<1>6. CASE StartLoop
  <2>1. ~Held /\ ~InStart /\ ~lamp' /\ UNCHANGED motor
    BY <1>6 DEF StartLoop, DoorInv, OneDoorTimeout, StartingUp, InStart, TypeOK, Held
  <2>2. CASE lamp
    BY <2>1, <2>2, <1>c DEF DoorwayOf!Next
  <2>3. CASE ~lamp
    BY <2>1, <2>3, <1>d DEF DoorwayOf!Next
  <2> QED BY <1>a, <2>2, <2>3 DEF DoorwayOf!Next
<1>7. CASE Pop
  BY <1>7, <1>k, <1>h DEF Pop, car, door
<1>8. CASE ArriveAndStop
  <2>1. ~lamp /\ lamp' /\ motor' = 0 /\ Held'
    BY <1>8, <1>a, FSMAssumption
       DEF ArriveAndStop, OpenDoor, DoorInv, StartingUp, LampIsState, Moving, Held
  <2> QED BY <2>1, <1>o DEF DoorwayOf!Next
<1>9. CASE Depart
  <2>1. ~lamp /\ ~lamp'
    BY <1>9, <1>a DEF Depart, Wakes, DoorInv, StartingUp, LampIsState
  <2> QED BY <2>1, <1>d DEF DoorwayOf!Next
<1>10. CASE OpenHere
  <2>1. ~lamp /\ lamp' /\ motor' = 0 /\ Held'
    BY <1>10, <1>a, FSMAssumption
       DEF OpenHere, Wakes, OpenDoor, DoorInv, StartingUp, LampIsState, Held
  <2> QED BY <2>1, <1>o DEF DoorwayOf!Next
<1>11. CASE StayIdle
  <2>1. ~lamp /\ ~lamp'
    BY <1>11, <1>a DEF StayIdle, Wakes, DoorInv, StartingUp, LampIsState
  <2> QED BY <2>1, <1>d DEF DoorwayOf!Next
<1>12. CASE CloseDoor
  <2>1. phase = "run"
    BY <1>12 DEF CloseDoor, DoorInv, StartingUp
  <2>2. lamp /\ ~Held
    BY <1>12, <2>1 DEF CloseDoor, DoorInv, LampIsState, OneDoorTimeout, Held
  <2>3. ~lamp' /\ UNCHANGED motor /\ ~InStart
    BY <1>12, <2>1 DEF CloseDoor, InStart
  <2> QED BY <2>2, <2>3, <1>c DEF DoorwayOf!Next
<1>13. CASE Ignore
  BY <1>13, <1>k, <1>h DEF Ignore, car, door
<1>14. CASE TimerTick
  BY <1>14, <1>a, <1>k DEF TimerTick, Tick, Held, car
<1>15. CASE TimerExpires
  <2>1. phase = "run" /\ lamp /\ ~opening
    BY <1>15 DEF TimerExpires, Tick, DoorInv, StartingUp, LampIsState, OneDoorTimeout
  <2>2. Held /\ ~Held' /\ ~InStart' /\ lamp' /\ UNCHANGED motor
    BY <1>15, <2>1 DEF TimerExpires, Tick, InStart, Held, car
  <2> QED BY <2>1, <2>2, <1>u DEF DoorwayOf!Next
<1>16. CASE PressButton
  BY <1>16, <1>k, <1>h DEF PressButton, car, door
<1>17. CASE PushOrderReceived
  BY <1>17, <1>k, <1>h DEF PushOrderReceived, car, door
<1>18. CASE PollFloorSensors
  BY <1>18, <1>k, <1>h DEF PollFloorSensors, car, door
<1>19. CASE PollObstruction
  BY <1>19, <1>k, <1>h DEF PollObstruction, car
<1>20. CASE Move
  BY <1>20, <1>k, <1>h DEF Move, door
<1>21. CASE FlipObstruction
  BY <1>21, <1>k, <1>h DEF FlipObstruction, car, door
<1>22. CASE CallListEvent
  BY <1>22, <1>k, <1>h DEF CallListEvent, car, door
<1>23. CASE PeerStatus
  BY <1>23, <1>k, <1>h DEF PeerStatus, car, door
<1>24. CASE PeerServes
  BY <1>24, <1>k, <1>h DEF PeerServes, car, door
<1>25. CASE UNCHANGED vars
  BY <1>25, <1>k, <1>h DEF vars, car, door
<1>26. CASE StartTimer
  BY <1>26, <1>a, <1>k, FSMAssumption DEF StartTimer, Held, car
<1>27. CASE Interrupt
  BY <1>27, <1>a, <1>k, FSMAssumption DEF Interrupt, Held, car
<1>28. CASE CallAcknowledged
  BY <1>28, <1>k, <1>h DEF CallAcknowledged, car, door
<1>29. CASE PeerAppears
  BY <1>29, <1>k, <1>h DEF PeerAppears, car, door
<1> QED BY <1>1, <1>2, <1>3, <1>4, <1>5, <1>6, <1>7, <1>8, <1>9, <1>10, <1>11, <1>12, <1>13,
           <1>14, <1>15, <1>16, <1>17, <1>18, <1>19, <1>20, <1>21, <1>22, <1>23, <1>24, <1>25,
           <1>26, <1>27, <1>28, <1>29
        DEF Next, Startup, Handle, DoorwayOf!Next

\* Threads, queue and door timer together implement the abstract door, for
\* any number of floors, ticks, calls and peers and threads of any speed.
THEOREM DoorRefinement == Spec => ImplementsDoorway
BY DoorInvariant, DoorwayInit, DoorwayStep, PTL DEF Spec, ImplementsDoorway, DoorwayOf!Spec

-----------------------------------------------------------------------------
(* The position of the car, for a program that polls and handles a floor   *)
(* before the car has left it.                                             *)

Queued(e) == \E i \in DOMAIN queue : queue[i] = e

LEMMA PushQueued ==
  ASSUME queue \in Seq(Event), NEW e, Push(e)
  PROVE  \A x : Queued(x)' <=> Queued(x) \/ x = e
<1>1. /\ Len(queue') = Len(queue) + 1 /\ Len(queue) \in Nat
      /\ DOMAIN queue = 1 .. Len(queue) /\ DOMAIN queue' = 1 .. Len(queue')
      /\ \A i \in 1 .. Len(queue) : queue'[i] = queue[i]
      /\ queue'[Len(queue) + 1] = e
  BY DEF Push
<1>2. \A i \in DOMAIN queue' : (i \in DOMAIN queue /\ queue'[i] = queue[i]) \/ queue'[i] = e
  BY <1>1
<1>3. \A i \in DOMAIN queue : i \in DOMAIN queue' /\ queue'[i] = queue[i]
  BY <1>1
<1>4. Len(queue) + 1 \in DOMAIN queue'
  BY <1>1
<1> QED BY <1>1, <1>2, <1>3, <1>4 DEF Queued

LEMMA PopQueued ==
  ASSUME queue \in Seq(Event), queue # << >>, queue' = Tail(queue)
  PROVE  \A x : Queued(x) <=> Queued(x)' \/ x = Head(queue)
<1>1. /\ Len(queue) \in Nat /\ Len(queue) > 0 /\ Len(queue') = Len(queue) - 1
      /\ DOMAIN queue = 1 .. Len(queue) /\ DOMAIN queue' = 1 .. Len(queue')
      /\ \A i \in 1 .. Len(queue') : queue'[i] = queue[i + 1]
      /\ Head(queue) = queue[1]
  OBVIOUS
<1>2. \A i \in DOMAIN queue' : i + 1 \in DOMAIN queue /\ queue'[i] = queue[i + 1]
  BY <1>1
<1>3. \A i \in DOMAIN queue : i = 1 \/ (i - 1 \in DOMAIN queue' /\ queue'[i - 1] = queue[i])
  BY <1>1
<1>4. 1 \in DOMAIN queue
  BY <1>1
<1>5. ASSUME NEW x, Queued(x) PROVE Queued(x)' \/ x = Head(queue)
  BY <1>1, <1>3, <1>5 DEF Queued
<1>6. ASSUME NEW x, Queued(x)' \/ x = Head(queue) PROVE Queued(x)
  BY <1>1, <1>2, <1>4, <1>6 DEF Queued
<1> QED BY <1>5, <1>6

\* An arrival is acted on before the car drives on.
ArrivalIsHere == ArrivalPending => AtFloor /\ floor = Here

\* A car that stands still stands at the floor the program believes in.
StandsAtFloor == motor = 0 /\ phase # "position" => AtFloor /\ floor = Here

\* The floor handle_event read is still current where it matters.
ReadsFloor ==
  handling.event = "ARRIVED_AT_FLOOR" \/ (motor = 0 /\ handling.event # "NONE")
    => handling.floor = floor

PlaceInv == DoorInv /\ ArrivalIsHere /\ StandsAtFloor /\ ReadsFloor

\* A car without peers has every call, and none is taken off the list while
\* an event is handled.
HasEveryCall == assigned = open /\ Elements(handling.calls) \subseteq Elements(open)

WakeUpQueued == adding \/ Queued("ORDER_RECEIVED") \/ Queued("DOOR_CLOSED")

WakeInv == /\ DoorInv /\ HasEveryCall
           /\ phase = "run" /\ state = "IDLE" /\ open # << >>
              => \/ WakeUpQueued
                 \/ /\ handling.event \in {"ORDER_RECEIVED", "DOOR_CLOSED"}
                    /\ handling.calls # << >>

\* Between floors the program believes in the one the car has left.
LeftFloor == phase = "run" /\ ~AtFloor => /\ state \in Moving
                                          /\ pos = 2 * floor + direction

\* The arrival being handled was read with a call here or further on.
ArrivesForCall ==
  handling.event = "ARRIVED_AT_FLOOR" =>
    /\ state = "MOVING_UP"   => \E c \in Elements(handling.calls) : c.floor >= floor
    /\ state = "MOVING_DOWN" => \E c \in Elements(handling.calls) : c.floor <= floor

ShaftInv == PlaceInv /\ HasEveryCall /\ LeftFloor /\ ArrivesForCall
            /\ MovingTowardsCall /\ WithinShaft

\* What the running timer has left and what it has run since an obstruction
\* was last seen make up a door time, but for the moment in which the poller
\* has seen one and has yet to interrupt it.
TimeSeen == /\ interrupting => ~polled
            /\ timer > 0 => interrupting \/ timer + since >= DoorTicks
            /\ obstruction /\ polled /\ timer > 0 => timer = DoorTicks

LEMMA PlaceInit == Init => PlaceInv
BY DoorInit DEF Init, PlaceInv, ArrivalIsHere, ArrivalPending, StandsAtFloor, ReadsFloor, NoEvent

LEMMA PlaceStep ==
  ASSUME Prompt, PlaceInv, [Next]_vars
  PROVE  PlaceInv'
<1> DEFINE Rest == ArrivalIsHere /\ StandsAtFloor /\ ReadsFloor
<1>a. /\ DoorInv /\ DoorInv' /\ TypeOK /\ Rest
      /\ ArrivalPending <=> handling.event = "ARRIVED_AT_FLOOR" \/ Queued("ARRIVED_AT_FLOOR")
      /\ ArrivalPending' <=> handling'.event = "ARRIVED_AT_FLOOR" \/ Queued("ARRIVED_AT_FLOOR")'
  BY DoorStep DEF PlaceInv, DoorInv, ArrivalPending, Queued
<1>b. SUFFICES Rest'
  BY <1>a DEF PlaceInv
<1>q. ASSUME \/ UNCHANGED queue
             \/ \E e \in Event \ {"ARRIVED_AT_FLOOR"} : Push(e)
      PROVE  Queued("ARRIVED_AT_FLOOR")' <=> Queued("ARRIVED_AT_FLOOR")
  <2>1. CASE UNCHANGED queue
    BY <2>1 DEF Queued
  <2>2. CASE \E e \in Event \ {"ARRIVED_AT_FLOOR"} : Push(e)
    BY <2>2, <1>a, PushQueued DEF TypeOK
  <2> QED BY <1>q, <2>1, <2>2
<1>k. ASSUME UNCHANGED <<pos, floor, phase, motor, handling>>,
             Queued("ARRIVED_AT_FLOOR")' <=> Queued("ARRIVED_AT_FLOOR")
      PROVE  Rest'
  BY <1>a, <1>k DEF ArrivalIsHere, StandsAtFloor, ReadsFloor, AtFloor, Here
<1>h. ASSUME UNCHANGED <<pos, floor, phase>>, handling' = NoEvent,
             motor' = 0 => motor = 0 \/ handling.event = "ARRIVED_AT_FLOOR",
             Queued("ARRIVED_AT_FLOOR")' <=> Queued("ARRIVED_AT_FLOOR")
      PROVE  Rest'
  BY <1>a, <1>h DEF ArrivalIsHere, StandsAtFloor, ReadsFloor, AtFloor, Here, NoEvent
<1> HIDE DEF Rest
<1>1. CASE PositionKnown
  BY <1>1, <1>a, <1>q DEF Rest, PositionKnown, ArrivalIsHere, StandsAtFloor, ReadsFloor,
       AtFloor, Here, DoorInv, StartingUp, car, calls, door, poller
<1>2. CASE StartLowering
  BY <1>2, <1>a, <1>q DEF Rest, StartLowering, ArrivalIsHere, StandsAtFloor, ReadsFloor,
       AtFloor, Here, DoorInv, StartingUp, calls, door, poller
<1>3. CASE LoweredToFloor
  BY <1>3, <1>a, <1>q DEF Rest, LoweredToFloor, ArrivalIsHere, StandsAtFloor, ReadsFloor,
       AtFloor, Here, DoorInv, StartingUp, calls, door, poller
<1>4. CASE StartBlocked
  BY <1>4, <1>q, <1>k DEF StartBlocked, calls, door, poller
<1>5. CASE StartUnblocked
  BY <1>5, <1>a, <1>q DEF Rest, StartUnblocked, ArrivalIsHere, StandsAtFloor, ReadsFloor,
       AtFloor, Here, car, calls, door, poller
<1>6. CASE StartLoop
  BY <1>6, <1>a, <1>q DEF Rest, StartLoop, ArrivalIsHere, StandsAtFloor, ReadsFloor,
       AtFloor, Here, Event, calls, door, poller
<1>7. CASE Pop
  <2>1. Queued("ARRIVED_AT_FLOOR") <=> \/ Queued("ARRIVED_AT_FLOOR")'
                                       \/ handling'.event = "ARRIVED_AT_FLOOR"
    BY <1>7, <1>a, PopQueued DEF Pop, TypeOK
  <2>2. handling'.floor = floor /\ UNCHANGED <<pos, motor, floor, phase>>
    BY <1>7 DEF Pop, car
  <2> QED BY <2>1, <2>2, <1>a DEF Rest, ArrivalIsHere, StandsAtFloor, ReadsFloor, AtFloor, Here
<1>8. CASE ArriveAndStop
  BY <1>8, <1>q, <1>h DEF ArriveAndStop, door, poller
<1>9. CASE Depart
  BY <1>9, <1>q, <1>h DEF Depart, calls, door, poller
<1>10. CASE OpenHere
  <2>1. phase = "run" /\ motor = 0
    BY <1>10 DEF OpenHere, Wakes, DoorInv, PlaceInv, StartingUp, MotorIsState
  <2> QED BY <1>10, <2>1, <1>q, <1>h DEF OpenHere, door, poller
<1>11. CASE StayIdle
  <2>1. phase = "run" /\ motor = 0
    BY <1>11 DEF StayIdle, Wakes, DoorInv, PlaceInv, StartingUp, MotorIsState
  <2> QED BY <1>11, <2>1, <1>q, <1>h DEF StayIdle, calls, door, poller
<1>12. CASE CloseDoor
  BY <1>12, <1>q, <1>h DEF CloseDoor, Event, calls, door, poller
<1>13. CASE Ignore
  BY <1>13, <1>q, <1>h DEF Ignore, car, calls, door, poller
<1>14. CASE TimerTick
  BY <1>14, <1>q, <1>k DEF TimerTick, Tick, car, calls, door, poller
<1>15. CASE TimerExpires
  BY <1>15, <1>q, <1>k DEF TimerExpires, Tick, Event, car, calls, door, poller
<1>16. CASE PressButton
  BY <1>16, <1>q, <1>k DEF PressButton, car
<1>17. CASE PushOrderReceived
  BY <1>17, <1>q, <1>k DEF PushOrderReceived, Event, car, calls, door, poller
<1>18. CASE PollFloorSensors
  <2>1. AtFloor /\ Here # floor /\ floor' = Here /\ UNCHANGED <<pos, motor, phase, handling>>
        /\ phase # "position"
    BY <1>18 DEF PollFloorSensors, Polling, car
  <2>2. motor # 0 /\ handling.event # "ARRIVED_AT_FLOOR"
    BY <2>1, <1>a DEF Rest, ArrivalIsHere, StandsAtFloor
  <2> QED BY <2>1, <2>2, <1>a DEF Rest, ArrivalIsHere, StandsAtFloor, ReadsFloor, AtFloor, Here
<1>19. CASE PollObstruction
  BY <1>19, <1>q, <1>k DEF PollObstruction, car, calls, door, poller
<1>20. CASE Move
  <2>1. motor' = motor /\ motor # 0 /\ UNCHANGED <<floor, phase, handling, queue>>
    BY <1>20 DEF Move
  <2>2. ~ArrivalPending
    BY <1>20, <1>a DEF Rest, Move, ArrivalIsHere
  <2> QED BY <2>1, <2>2, <1>a, <1>q DEF Rest, ArrivalIsHere, StandsAtFloor, ReadsFloor
<1>21. CASE FlipObstruction
  BY <1>21, <1>q, <1>k DEF FlipObstruction, car, calls, door, poller
<1>22. CASE CallListEvent
  BY <1>22, <1>q, <1>k DEF CallListEvent, Event, car, door, poller
<1>23. CASE PeerStatus
  BY <1>23, <1>q, <1>k DEF PeerStatus, car, door, poller
<1>24. CASE PeerServes
  BY <1>24, <1>q, <1>k DEF PeerServes, Event, car, door, poller
<1>25. CASE UNCHANGED vars
  BY <1>25, <1>q, <1>k DEF vars, car, calls, door, poller
<1>26. CASE StartTimer
  BY <1>26, <1>q, <1>k DEF StartTimer, car, calls, poller
<1>27. CASE Interrupt
  BY <1>27, <1>q, <1>k DEF Interrupt, car, calls
<1>28. CASE CallAcknowledged
  BY <1>28, <1>q, <1>k DEF CallAcknowledged, Event, car, door, poller
<1>29. CASE PeerAppears
  BY <1>29, <1>q, <1>k DEF PeerAppears, car, door, poller
<1> QED BY <1>1, <1>2, <1>3, <1>4, <1>5, <1>6, <1>7, <1>8, <1>9, <1>10, <1>11, <1>12, <1>13,
           <1>14, <1>15, <1>16, <1>17, <1>18, <1>19, <1>20, <1>21, <1>22, <1>23, <1>24, <1>25,
           <1>26, <1>27, <1>28, <1>29
        DEF Next, Startup, Handle

LEMMA PlaceInvariant == ASSUME Prompt PROVE Spec => []PlaceInv
BY PlaceInit, PlaceStep, PTL DEF Spec

\* A program that is fast against its car opens the door at a floor, and at
\* the one it believes in, with or without peers.
THEOREM DoorAtFloor == ASSUME Prompt PROVE Spec => []DoorOpensAtFloor
<1>1. PlaceInv => DoorOpensAtFloor
  <2>1. DoorInv /\ lamp /\ phase = "run" => motor = 0
    BY DEF DoorInv, LampIsState, MotorIsState
  <2> QED BY <2>1 DEF PlaceInv, StandsAtFloor, DoorOpensAtFloor
<1> QED BY <1>1, PlaceInvariant, PTL

\* Clearing orders takes calls of the floor that was read off the list, and
\* no others.
LEMMA ClearOrdersElements ==
  ASSUME TypeOK, NEW d, ClearOrders(d), NEW c \in Elements(open) \ Elements(open')
  PROVE  c \in Cleared(handling.floor, d, handling.calls) /\ c.floor = handling.floor
<1>1. c \in Cleared(handling.floor, d, handling.calls)
  BY WithoutElements DEF ClearOrders, TypeOK
<1> QED BY <1>1 DEF Cleared, NormalClear, TurnaroundClear, CallsAt

LEMMA AppendElements ==
  ASSUME NEW list \in Seq(Request), NEW c
  PROVE  Elements(list) \subseteq Elements(Append(list, c)) /\ Append(list, c) # << >>
<1>1. Len(list) \in Nat /\ DOMAIN list = 1 .. Len(list)
  OBVIOUS
<1> QED BY <1>1 DEF Elements

LEMMA ServedStep ==
  ASSUME Prompt, ~Networked, PlaceInv, [Next]_vars, NEW c \in Elements(open) \ Elements(open')
  PROVE  AtFloor /\ c.floor = Here /\ motor' = 0 /\ lamp' /\ state' = "DOOR_OPEN"
<1>a. TypeOK /\ DoorInv /\ open # open'
  BY DEF PlaceInv, DoorInv
<1>1. CASE ArriveAndStop
  <2>1. c.floor = handling.floor /\ handling.event = "ARRIVED_AT_FLOOR"
    BY <1>1, <1>a, ClearOrdersElements DEF ArriveAndStop
  <2> QED BY <1>1, <2>1
          DEF ArriveAndStop, OpenDoor, PlaceInv, ArrivalIsHere, ReadsFloor, ArrivalPending
<1>2. CASE OpenHere
  <2>1. c.floor = handling.floor /\ handling.event # "NONE" /\ state = "IDLE"
    BY <1>2, <1>a, ClearOrdersElements DEF OpenHere, Wakes
  <2>2. motor = 0 /\ phase = "run"
    BY <2>1, <1>a DEF DoorInv, StartingUp, MotorIsState
  <2> QED BY <1>2, <2>1, <2>2
          DEF OpenHere, OpenDoor, PlaceInv, StandsAtFloor, ReadsFloor
<1>3. CASE PressButton
  <2>1. PICK k \in Panel : open' = Append(open, k)
    BY <1>3, <1>a DEF PressButton
  <2>2. Elements(open) \subseteq Elements(open')
    BY <2>1, <1>a, AppendElements DEF TypeOK
  <2> QED BY <2>2
<1>4. CASE CallAcknowledged \/ PeerAppears \/ PeerServes
  BY <1>4 DEF CallAcknowledged, PeerAppears, PeerServes
<1>5. CASE Startup
  BY <1>5, <1>a DEF Startup, PositionKnown, StartLowering, LoweredToFloor, StartBlocked,
       StartUnblocked, StartLoop, calls
<1>6. CASE Pop \/ Depart \/ StayIdle \/ CloseDoor \/ Ignore
  BY <1>6, <1>a DEF Pop, Depart, StayIdle, CloseDoor, Ignore, calls
<1>7. CASE \/ StartTimer \/ TimerTick \/ TimerExpires \/ PushOrderReceived
           \/ PollFloorSensors \/ PollObstruction \/ Interrupt
  BY <1>7, <1>a DEF StartTimer, TimerTick, TimerExpires, Tick, PushOrderReceived,
       PollFloorSensors, PollObstruction, Interrupt, calls
<1>8. CASE Move \/ FlipObstruction \/ CallListEvent \/ PeerStatus
  BY <1>8, <1>a DEF Move, FlipObstruction, CallListEvent, PeerStatus, calls
<1> QED BY <1>1, <1>2, <1>3, <1>4, <1>5, <1>6, <1>7, <1>8, <1>a DEF Next, Handle, vars, calls

\* A car without peers that is slow against its program serves a call only
\* by standing at its floor with the door opening.
THEOREM ServiceIsAtFloor == ASSUME Prompt, ~Networked PROVE Spec => ServedAtFloor
<1>1. PlaceInv /\ [Next]_vars
        => [\A c \in Elements(open) \ Elements(open') :
              AtFloor /\ c.floor = Here /\ motor' = 0 /\ lamp' /\ state' = "DOOR_OPEN"]_vars
  BY ServedStep
<1> QED BY <1>1, PlaceInvariant, PTL DEF Spec, ServedAtFloor

-----------------------------------------------------------------------------
(* The obstruction and the door timer.                                     *)

LEMMA TimeSeenInit == Init => TimeSeen
BY DEF Init, TimeSeen

LEMMA TimeSeenStep ==
  ASSUME Prompt, TypeOK, TimeSeen, [Next]_vars
  PROVE  TimeSeen'
<1> USE FSMAssumption DEF TimeSeen
<1>k. ASSUME UNCHANGED <<door, poller, obstruction>> PROVE TimeSeen'
  BY <1>k DEF door, poller
<1>1. CASE Startup
  BY <1>1, <1>k DEF Startup, PositionKnown, StartLowering, LoweredToFloor, StartBlocked,
       StartUnblocked, StartLoop
<1>2. CASE Pop \/ Depart \/ StayIdle \/ CloseDoor \/ Ignore
  BY <1>2, <1>k DEF Pop, Depart, StayIdle, CloseDoor, Ignore
<1>3. CASE ArriveAndStop \/ OpenHere
  BY <1>3 DEF ArriveAndStop, OpenHere, OpenDoor, TypeOK, poller
<1>4. CASE StartTimer
  BY <1>4 DEF StartTimer, poller
<1>5. CASE TimerTick \/ TimerExpires
  <2>1. timer \in Nat /\ since \in Nat /\ timer > 0
    BY <1>5 DEF TimerTick, TimerExpires, TypeOK
  <2>2. /\ polled /\ polled' = FALSE /\ interrupting' = interrupting
        /\ timer' = timer - 1 /\ since' = since + 1
    BY <1>5 DEF TimerTick, TimerExpires, Tick
  <2> QED BY <2>1, <2>2
<1>6. CASE PollObstruction
  <2>1. /\ ~interrupting /\ UNCHANGED timer
        /\ obstruction' = obstructed /\ interrupting' = obstructed /\ polled' = ~obstructed
        /\ since' = IF obstructed THEN 0 ELSE since
    BY <1>6 DEF PollObstruction, Polling
  <2>2. CASE obstructed
    BY <2>1, <2>2
  <2>3. CASE ~obstructed
    BY <2>1, <2>3
  <2> QED BY <2>2, <2>3
<1>7. CASE Interrupt
  BY <1>7 DEF Interrupt, TypeOK
<1>8. CASE PressButton \/ PushOrderReceived
  BY <1>8 DEF PressButton, PushOrderReceived, door
<1>9. CASE PollFloorSensors \/ Move \/ FlipObstruction
  BY <1>9, <1>k DEF PollFloorSensors, Move, FlipObstruction
<1>10. CASE CallListEvent \/ CallAcknowledged \/ PeerAppears \/ PeerStatus \/ PeerServes
  BY <1>10, <1>k DEF CallListEvent, CallAcknowledged, PeerAppears, PeerStatus, PeerServes
<1>11. CASE UNCHANGED vars
  BY <1>11, <1>k DEF vars
<1> QED BY <1>1, <1>2, <1>3, <1>4, <1>5, <1>6, <1>7, <1>8, <1>9, <1>10, <1>11 DEF Next, Handle

\* With the obstruction polled in every tick, however often it comes and
\* goes and wherever open_door has got to, the timer runs for a full door time
\* after the doorway was last seen blocked.
THEOREM BlockedDoorStaysOpen == ASSUME Prompt PROVE Spec => ObstructionHoldsDoor
<1>1. TypeOK /\ TimeSeen /\ [Next]_vars
        => [timer > 0 /\ timer' = 0 => ~obstruction /\ since' >= DoorTicks]_vars
  <2> SUFFICES ASSUME TypeOK, TimeSeen, Next, timer > 0, timer' = 0
               PROVE  ~obstruction /\ since' >= DoorTicks
    OBVIOUS
  <2> USE FSMAssumption
  <2>k. ASSUME UNCHANGED door PROVE FALSE
    BY <2>k DEF door
  <2>1. CASE Startup
    BY <2>1, <2>k DEF Startup, PositionKnown, StartLowering, LoweredToFloor, StartBlocked,
         StartUnblocked, StartLoop
  <2>2. CASE Pop \/ Depart \/ StayIdle \/ CloseDoor \/ Ignore
    BY <2>2, <2>k DEF Pop, Depart, StayIdle, CloseDoor, Ignore
  <2>3. CASE ArriveAndStop \/ OpenHere \/ StartTimer
    BY <2>3 DEF ArriveAndStop, OpenHere, OpenDoor, StartTimer
  <2>4. CASE TimerTick \/ TimerExpires
    BY <2>4 DEF TimerTick, TimerExpires, Tick, TimeSeen, TypeOK
  <2>5. CASE PollObstruction \/ Interrupt
    BY <2>5 DEF PollObstruction, Interrupt
  <2>6. CASE PressButton \/ PushOrderReceived \/ PollFloorSensors \/ Move \/ FlipObstruction
    BY <2>6, <2>k DEF PressButton, PushOrderReceived, PollFloorSensors, Move, FlipObstruction
  <2>7. CASE CallListEvent \/ CallAcknowledged \/ PeerAppears \/ PeerStatus \/ PeerServes
    BY <2>7, <2>k DEF CallListEvent, CallAcknowledged, PeerAppears, PeerStatus, PeerServes
  <2> QED BY <2>1, <2>2, <2>3, <2>4, <2>5, <2>6, <2>7 DEF Next, Handle
<1> QED BY <1>1, TimeSeenInit, TimeSeenStep, FSMTypeCorrect, PTL DEF Spec, ObstructionHoldsDoor

-----------------------------------------------------------------------------
(* A car without peers: no call sleeps.                                    *)

LEMMA AloneAssigns == ASSUME ~Networked, NEW list PROVE Assignments(list) = {list}
BY DEF Assignments

LEMMA HasEveryCallStep ==
  ASSUME ~Networked, TypeOK, HasEveryCall, [Next]_vars
  PROVE  HasEveryCall'
<1> USE AloneAssigns
<1>a. ASSUME UNCHANGED <<open, assigned>>, UNCHANGED handling \/ handling' = NoEvent PROVE HasEveryCall'
  BY <1>a DEF HasEveryCall, NoEvent, Elements
<1>1. CASE Startup
  BY <1>1, <1>a DEF Startup, PositionKnown, StartLowering, LoweredToFloor, StartBlocked,
       StartUnblocked, StartLoop, calls
<1>2. CASE Pop
  BY <1>2 DEF Pop, HasEveryCall, calls
<1>3. CASE Depart \/ StayIdle \/ CloseDoor \/ Ignore
  BY <1>3, <1>a DEF Depart, StayIdle, CloseDoor, Ignore, calls
<1>4. CASE ArriveAndStop \/ OpenHere
  <2>1. assigned' \in Assignments(open') /\ handling' = NoEvent
    BY <1>4 DEF ArriveAndStop, OpenHere, ClearOrders
  <2>2. Elements(NoEvent.calls) = {}
    BY DEF NoEvent, Elements
  <2> QED BY <2>1, <2>2 DEF HasEveryCall
<1>5. CASE PressButton
  <2>1. PICK k \in Panel : open' = Append(open, k)
    BY <1>5 DEF PressButton
  <2>2. Elements(open) \subseteq Elements(open')
    BY <2>1, AppendElements DEF TypeOK
  <2>3. assigned' \in Assignments(open') /\ UNCHANGED handling
    BY <1>5 DEF PressButton
  <2>4. assigned' = open'
    BY <2>3
  <2> QED BY <2>2, <2>3, <2>4 DEF HasEveryCall, Elements
<1>6. CASE \/ StartTimer \/ TimerTick \/ TimerExpires \/ PushOrderReceived
           \/ PollFloorSensors \/ PollObstruction \/ Interrupt \/ Move \/ FlipObstruction
  BY <1>6, <1>a DEF StartTimer, TimerTick, TimerExpires, Tick, PushOrderReceived,
       PollFloorSensors, PollObstruction, Interrupt, Move, FlipObstruction, calls
<1>7. CASE CallListEvent
  BY <1>7 DEF CallListEvent, HasEveryCall
<1>8. CASE CallAcknowledged \/ PeerAppears \/ PeerStatus \/ PeerServes
  BY <1>8 DEF CallAcknowledged, PeerAppears, PeerStatus, PeerServes
<1> QED BY <1>1, <1>2, <1>3, <1>4, <1>5, <1>6, <1>7, <1>8, <1>a DEF Next, Handle, vars, calls

LEMMA WakeStep ==
  ASSUME ~Networked, WakeInv, [Next]_vars
  PROVE  WakeInv'
<1> DEFINE Core == phase = "run" /\ state = "IDLE" /\ open # << >>
                     => \/ WakeUpQueued
                        \/ /\ handling.event \in {"ORDER_RECEIVED", "DOOR_CLOSED"}
                           /\ handling.calls # << >>
<1>a. DoorInv /\ DoorInv' /\ TypeOK /\ HasEveryCall /\ HasEveryCall' /\ Core
  BY DoorStep, HasEveryCallStep DEF WakeInv, DoorInv
<1>b. SUFFICES Core'
  BY <1>a DEF WakeInv
<1>q. ASSUME UNCHANGED adding, UNCHANGED queue \/ \E e \in Event : Push(e), WakeUpQueued
      PROVE  WakeUpQueued'
  <2>1. CASE UNCHANGED queue
    BY <1>q, <2>1 DEF WakeUpQueued, Queued
  <2>2. CASE \E e \in Event : Push(e)
    BY <1>a, <1>q, <2>2, PushQueued DEF WakeUpQueued, TypeOK
  <2> QED BY <1>q, <2>1, <2>2
<1>p. ASSUME NEW e \in {"ORDER_RECEIVED", "DOOR_CLOSED"}, Push(e) PROVE WakeUpQueued'
  BY <1>a, <1>p, PushQueued DEF WakeUpQueued, TypeOK
<1>k. ASSUME UNCHANGED <<phase, state, open, handling>>, WakeUpQueued => WakeUpQueued'
      PROVE  Core'
  BY <1>a, <1>k
<1>n. ASSUME WakeUpQueued' PROVE Core'
  BY <1>n
<1> HIDE DEF Core
<1>1. CASE PositionKnown \/ StartLowering \/ LoweredToFloor \/ StartBlocked \/ StartUnblocked
  BY <1>1 DEF Core, PositionKnown, StartLowering, LoweredToFloor, StartBlocked, StartUnblocked
<1>2. CASE StartLoop
  BY <1>2, <1>p, <1>n DEF StartLoop
<1>3. CASE Pop
  <2>1. /\ handling'.event = Head(queue) /\ handling'.calls = open
        /\ UNCHANGED <<phase, state, open, adding>>
    BY <1>3, <1>a DEF Pop, HasEveryCall, calls, poller
  <2>2. \A x : Queued(x) <=> Queued(x)' \/ x = Head(queue)
    BY <1>3, <1>a, PopQueued DEF Pop, TypeOK
  <2>3. handling.event = "NONE"
    BY <1>3 DEF Pop, NoEvent
  <2> QED BY <2>1, <2>2, <2>3, <1>a DEF Core, WakeUpQueued
<1>4. CASE ArriveAndStop \/ Depart \/ OpenHere
  BY <1>4, <1>a DEF Core, ArriveAndStop, Depart, OpenHere
<1>5. CASE StayIdle
  <2>1. handling.calls = << >>
    <3>1. handling.floor \in Floor /\ handling.calls \in Seq(Request)
      BY <1>a, <1>5 DEF TypeOK
    <3>2. SUFFICES ASSUME handling.calls # << >> PROVE FALSE
      OBVIOUS
    <3>3. ChoiceServes(handling.floor, direction, handling.calls)
      BY <1>a, <3>1, IdleCarServes DEF TypeOK
    <3> QED BY <3>2, <3>3, <1>5 DEF ChoiceServes, StayIdle, Chosen
  <2> QED BY <1>5, <1>a, <2>1, <1>q, <1>n DEF StayIdle, Core, calls, poller
<1>6. CASE CloseDoor
  BY <1>6, <1>p, <1>n DEF CloseDoor
<1>7. CASE Ignore
  BY <1>7, <1>a, <1>q, <1>n DEF Ignore, Wakes, Core, calls, poller
<1>8. CASE PressButton
  BY <1>8, <1>n DEF PressButton, WakeUpQueued
<1>9. CASE PushOrderReceived
  BY <1>9, <1>p, <1>n DEF PushOrderReceived
<1>10. CASE CallListEvent \/ CallAcknowledged \/ PeerServes
  BY <1>10, <1>p, <1>n DEF CallListEvent, CallAcknowledged, PeerServes
<1>11. CASE TimerExpires \/ PollFloorSensors
  BY <1>11, <1>q, <1>k DEF TimerExpires, Tick, PollFloorSensors, Event, calls, poller
<1>12. CASE \/ StartTimer \/ TimerTick \/ PollObstruction \/ Interrupt
            \/ Move \/ FlipObstruction \/ PeerStatus
  BY <1>12, <1>q, <1>k DEF StartTimer, TimerTick, Tick, PollObstruction, Interrupt, Move,
       FlipObstruction, PeerStatus, calls, poller
<1>13. CASE UNCHANGED vars
  BY <1>13, <1>q, <1>k DEF vars, calls, poller
<1>14. CASE PeerAppears
  BY <1>14 DEF PeerAppears
<1> QED BY <1>1, <1>2, <1>3, <1>4, <1>5, <1>6, <1>7, <1>8, <1>9, <1>10, <1>11, <1>12, <1>13, <1>14
        DEF Next, Startup, Handle

LEMMA WakeInit == Init => WakeInv
BY DoorInit DEF Init, WakeInv, HasEveryCall, NoEvent, Elements

\* Without peers no order is lost on its way to an idle car, however slow or
\* fast the threads are: add_call changes the calls before it pushes the
\* event, and handle_event reads them after it popped it.
THEOREM NoWakeupIsLost == ASSUME ~Networked PROVE Spec => []NoLostWakeup
<1>1. WakeInv => NoLostWakeup
  BY DEF WakeInv, HasEveryCall, WakeUpQueued, Queued, NoLostWakeup, WakeUpComing
<1> QED BY <1>1, WakeInit, WakeStep, PTL DEF Spec

-----------------------------------------------------------------------------
(* A car without peers, slow against its program: it stays in the shaft.   *)

\* A step of half a floor, upwards and downwards.
LEMMA MoveUp ==
  ASSUME pos \in Int, pos' = pos + 1, NEW f \in Int, 2 * f > pos
  PROVE  \/ 2 * f > pos'
         \/ pos' = 2 * f /\ AtFloor' /\ Here' = f
BY DEF AtFloor, Here

LEMMA MoveDown ==
  ASSUME pos \in Int, pos' = pos - 1, NEW f \in Int, 2 * f < pos
  PROVE  \/ 2 * f < pos'
         \/ pos' = 2 * f /\ AtFloor' /\ Here' = f
BY DEF AtFloor, Here

LEMMA CallFloors ==
  ASSUME NEW list \in Seq(Request), NEW c \in Elements(list)
  PROVE  c.floor \in Floor /\ c.floor \in Int /\ 0 <= c.floor /\ c.floor <= NFloors - 1
<1>1. c \in Request
  BY DEF Elements
<1> QED BY <1>1, NFloorsAssumption DEF Request, Floor

\* A car that drives past the floor it has arrived at, for a call there or
\* further on, has one further on.
LEMMA PassedForCallAhead ==
  ASSUME NEW f \in Floor, NEW d \in {-1, 1}, NEW list \in Seq(Request), ~ShouldStop(f, d, list),
         \E c \in Elements(list) : IF d = 1 THEN c.floor >= f ELSE c.floor <= f
  PROVE  \E c \in Elements(list) : IF d = 1 THEN c.floor > f ELSE c.floor < f
<1>1. PICK c \in Elements(list) : IF d = 1 THEN c.floor >= f ELSE c.floor <= f
  OBVIOUS
<1>2. c.floor \in Int /\ f \in Int
  BY CallFloors, NFloorsAssumption DEF Floor
<1>3. CASE c.floor = f
  <2>1. RequestsSameFloor(f, list)
    BY <1>3 DEF RequestsSameFloor, Elements
  <2>2. PICK i \in DOMAIN list : IsFirstAt(i, f, list)
    BY <2>1, FirstAtExists
  <2>3. RequestsAhead(f, d, list)
    BY <2>2 DEF ShouldStop
  <2> QED BY <2>3 DEF RequestsAhead, RequestsAbove, RequestsBelow, Elements
<1>4. CASE c.floor # f
  BY <1>1, <1>2, <1>4
<1> QED BY <1>3, <1>4

LEMMA ShaftStep ==
  ASSUME Prompt, ~Networked, ShaftInv, [Next]_vars
  PROVE  ShaftInv'
<1> DEFINE Core == LeftFloor /\ ArrivesForCall /\ MovingTowardsCall /\ WithinShaft
<1>a. /\ PlaceInv /\ PlaceInv' /\ DoorInv /\ DoorInv' /\ TypeOK /\ TypeOK'
      /\ HasEveryCall /\ HasEveryCall' /\ Core
  BY PlaceStep, HasEveryCallStep DEF ShaftInv, PlaceInv, DoorInv
<1>b. SUFFICES Core'
  BY <1>a DEF ShaftInv
<1>c. /\ ArrivalPending <=> handling.event = "ARRIVED_AT_FLOOR" \/ Queued("ARRIVED_AT_FLOOR")
      /\ ArrivalPending' <=> handling'.event = "ARRIVED_AT_FLOOR" \/ Queued("ARRIVED_AT_FLOOR")'
  BY DEF ArrivalPending, Queued
<1>d. /\ pos \in Int /\ floor \in Int
      /\ state \in Moving <=> motor # 0 /\ phase = "run"
      /\ state = "MOVING_UP" => motor = 1 /\ direction = 1
      /\ state = "MOVING_DOWN" => motor = -1 /\ direction = -1
  <2>1. pos \in Int /\ floor \in Int /\ state \in State
    BY <1>a, NFloorsAssumption DEF TypeOK, Floor
  <2>2. phase # "run" => state = "IDLE"
    BY <1>a DEF DoorInv, StartingUp
  <2>3. phase = "run" => /\ motor = CASE state = "MOVING_UP"   -> 1
                                     [] state = "MOVING_DOWN" -> -1
                                     [] OTHER -> 0
                         /\ motor # 0 => motor = direction
    BY <1>a DEF DoorInv, MotorIsState
  <2>4. CASE phase = "run"
    BY <2>1, <2>3, <2>4 DEF Moving, State
  <2>5. CASE phase # "run"
    BY <2>1, <2>2, <2>5 DEF Moving
  <2> QED BY <2>4, <2>5
<1>z. ASSUME state' \notin Moving, UNCHANGED pos PROVE Core'
  <2>1. phase' = "run" => AtFloor'
    BY <1>a, <1>z DEF DoorInv, PlaceInv, StandsAtFloor, MotorIsState, Moving
  <2> QED BY <1>a, <1>z, <2>1
          DEF LeftFloor, ArrivesForCall, MovingTowardsCall, WithinShaft, Moving
<1>k. ASSUME UNCHANGED <<pos, floor, state, phase, direction, handling>>,
             Elements(open) \subseteq Elements(open'),
             Queued("ARRIVED_AT_FLOOR") => Queued("ARRIVED_AT_FLOOR")'
      PROVE  Core'
  <2>1. ArrivalPending => ArrivalPending'
    BY <1>c, <1>k
  <2> QED BY <1>a, <1>k, <2>1
          DEF LeftFloor, ArrivesForCall, MovingTowardsCall, WithinShaft, ArrivalAhead, AtFloor, Here
<1>q. ASSUME UNCHANGED queue \/ \E e \in Event : Push(e), Queued("ARRIVED_AT_FLOOR")
      PROVE  Queued("ARRIVED_AT_FLOOR")'
  <2>1. CASE UNCHANGED queue
    BY <1>q, <2>1 DEF Queued
  <2>2. CASE \E e \in Event : Push(e)
    BY <1>a, <1>q, <2>2, PushQueued DEF TypeOK
  <2> QED BY <1>q, <2>1, <2>2
<1> HIDE DEF Core
<1>1. CASE Startup
  <2>1. phase # "run" /\ UNCHANGED <<pos, state>>
    BY <1>1 DEF Startup, PositionKnown, StartLowering, LoweredToFloor, StartBlocked,
         StartUnblocked, StartLoop, car
  <2>2. state \notin Moving
    BY <1>a, <2>1 DEF DoorInv, StartingUp, Moving
  <2> QED BY <2>1, <2>2, <1>z DEF Moving
<1>2. CASE Pop
  <2>1. /\ UNCHANGED <<pos, floor, state, phase, direction, open>>
        /\ handling'.event = Head(queue) /\ handling'.calls = open
        /\ handling.event = "NONE"
    BY <1>2, <1>a DEF Pop, HasEveryCall, NoEvent, car, calls
  <2>2. ArrivalPending' <=> ArrivalPending
    BY <1>2, <1>a, <1>c, <2>1, PopQueued DEF Pop, TypeOK
  <2>3. LeftFloor' /\ MovingTowardsCall' /\ WithinShaft'
    BY <1>a, <2>1, <2>2 DEF Core, LeftFloor, MovingTowardsCall, WithinShaft, ArrivalAhead, AtFloor, Here
  <2>4. ASSUME handling'.event = "ARRIVED_AT_FLOOR", state \in Moving
        PROVE  \E c \in Elements(open) : IF state = "MOVING_UP" THEN c.floor >= floor
                                                               ELSE c.floor <= floor
    <3>1. AtFloor /\ floor = Here
      BY <1>a, <1>c, <2>2, <2>4 DEF PlaceInv, ArrivalIsHere
    <3>2. pos = 2 * floor
      BY <3>1, <1>d DEF AtFloor, Here
    <3>3. PICK c \in Elements(open) :
            \/ IF state = "MOVING_UP" THEN 2 * c.floor > pos ELSE 2 * c.floor < pos
            \/ ArrivalAhead(c.floor)
      BY <1>a, <2>4 DEF Core, MovingTowardsCall, Moving
    <3>4. c.floor \in Int
      BY <1>a, CallFloors DEF TypeOK
    <3> QED BY <1>d, <3>1, <3>2, <3>3, <3>4 DEF ArrivalAhead
  <2>5. ArrivesForCall'
    BY <2>1, <2>4 DEF ArrivesForCall, Moving
  <2> QED BY <2>3, <2>5 DEF Core
<1>3. CASE ArriveAndStop \/ OpenHere
  BY <1>3, <1>z DEF ArriveAndStop, OpenHere, Moving
<1>4. CASE StayIdle \/ CloseDoor
  BY <1>4, <1>z DEF StayIdle, CloseDoor, Wakes, Moving, car
<1>5. CASE Depart
  <2>1. motor = 0 /\ phase = "run" /\ handling.event # "NONE"
    BY <1>5, <1>a DEF Depart, Wakes, DoorInv, StartingUp, MotorIsState
  <2>2. AtFloor /\ floor = Here /\ handling.floor = floor
    BY <2>1, <1>a DEF PlaceInv, StandsAtFloor, ReadsFloor
  <2>3. pos = 2 * floor
    BY <2>2, <1>d DEF AtFloor, Here
  <2>4. RequestsAhead(floor, Chosen, handling.calls)
    BY <1>5, <2>2 DEF Depart, Chosen, ChooseDirection, RequestsAhead
  <2>5. Chosen \in {-1, 1}
    BY <2>4 DEF RequestsAhead
  <2>6. \E c \in Elements(open) : IF Chosen = 1 THEN 2 * c.floor > pos ELSE 2 * c.floor < pos
    <3>1. PICK i \in DOMAIN handling.calls :
            IF Chosen = 1 THEN handling.calls[i].floor > floor ELSE handling.calls[i].floor < floor
      BY <2>4 DEF RequestsAhead, RequestsAbove, RequestsBelow
    <3>2. handling.calls[i] \in Elements(open) /\ handling.calls[i].floor \in Int
      BY <1>a, CallFloors DEF HasEveryCall, Elements, TypeOK
    <3> QED BY <1>d, <2>3, <2>5, <3>1, <3>2
  <2>7. UNCHANGED <<pos, open>> /\ handling' = NoEvent
        /\ state' = IF Chosen = 1 THEN "MOVING_UP" ELSE "MOVING_DOWN"
    BY <1>5 DEF Depart, calls
  <2> QED BY <1>a, <2>2, <2>6, <2>7
          DEF Core, LeftFloor, ArrivesForCall, MovingTowardsCall, WithinShaft, AtFloor, NoEvent
<1>6. CASE Ignore
  <2>1. UNCHANGED <<pos, floor, state, phase, direction, open, queue>> /\ handling' = NoEvent
    BY <1>6 DEF Ignore, car, calls
  <2>2. CASE state \notin Moving
    BY <2>1, <2>2, <1>z
  <2>3. CASE state \in Moving
    <3>1. LeftFloor' /\ ArrivesForCall' /\ WithinShaft'
      BY <1>a, <2>1 DEF Core, LeftFloor, ArrivesForCall, WithinShaft, AtFloor, NoEvent
    <3>2. CASE handling.event # "ARRIVED_AT_FLOOR"
      <4>1. ArrivalPending => ArrivalPending'
        BY <1>c, <1>q, <2>1, <3>2
      <4> QED BY <1>a, <2>1, <3>1, <4>1 DEF Core, MovingTowardsCall, ArrivalAhead, AtFloor, Here
    <3>3. CASE handling.event = "ARRIVED_AT_FLOOR"
      <4>1. AtFloor /\ floor = Here /\ handling.floor = floor
        BY <1>a, <1>c, <3>3 DEF PlaceInv, ArrivalIsHere, ReadsFloor
      <4>2. pos = 2 * floor
        BY <4>1, <1>d DEF AtFloor, Here
      <4>3. ~ShouldStop(floor, direction, handling.calls)
        BY <1>6, <2>3, <3>3, <4>1 DEF Ignore, Stops
      <4>4. direction \in {-1, 1} /\ (state = "MOVING_UP" <=> direction = 1)
        BY <1>d, <2>3 DEF Moving
      <4>5. \E c \in Elements(handling.calls) :
              IF direction = 1 THEN c.floor >= floor ELSE c.floor <= floor
        BY <1>a, <2>3, <3>3, <4>4 DEF Core, ArrivesForCall, Moving
      <4>6. PICK c \in Elements(handling.calls) :
              IF direction = 1 THEN c.floor > floor ELSE c.floor < floor
        BY <1>a, <4>3, <4>4, <4>5, PassedForCallAhead DEF TypeOK
      <4>7. c \in Elements(open) /\ c.floor \in Int
        BY <1>a, CallFloors DEF HasEveryCall, TypeOK
      <4>8. IF direction = 1 THEN 2 * c.floor > pos ELSE 2 * c.floor < pos
        BY <1>d, <4>2, <4>6, <4>7
      <4> QED BY <2>1, <3>1, <4>4, <4>7, <4>8 DEF Core, MovingTowardsCall
    <3> QED BY <3>2, <3>3
  <2> QED BY <2>2, <2>3
<1>7. CASE PressButton
  <2>1. PICK c \in Panel : open' = Append(open, c)
    BY <1>7 DEF PressButton
  <2>2. Elements(open) \subseteq Elements(open')
    BY <1>a, <2>1, AppendElements DEF TypeOK
  <2> QED BY <1>7, <1>k, <1>q, <2>2 DEF PressButton, car
<1>8. CASE PollFloorSensors
  <2>1. /\ AtFloor /\ Here # floor /\ floor' = Here /\ Queued("ARRIVED_AT_FLOOR")'
        /\ UNCHANGED <<pos, state, phase, handling, open>>
    BY <1>8, <1>a, PushQueued DEF PollFloorSensors, TypeOK, car, calls
  <2>2. handling.event # "ARRIVED_AT_FLOOR"
    BY <1>a, <1>c, <2>1 DEF PlaceInv, ArrivalIsHere
  <2>3. LeftFloor' /\ ArrivesForCall' /\ WithinShaft'
    BY <1>a, <2>1, <2>2 DEF Core, LeftFloor, ArrivesForCall, WithinShaft, AtFloor
  <2>4. \A f : ArrivalAhead(f) => ArrivalAhead(f)'
    BY <1>c, <2>1 DEF ArrivalAhead, AtFloor, Here
  <2> QED BY <1>a, <2>1, <2>3, <2>4 DEF Core, MovingTowardsCall
<1>9. CASE Move
  <2>1. /\ motor # 0 /\ pos' = pos + motor
        /\ AtFloor => phase = "run" /\ floor = Here /\ ~ArrivalPending
        /\ UNCHANGED <<motor, floor, state, phase, direction, handling, queue, open>>
    BY <1>9 DEF Move, calls
  <2>2. ~ArrivalPending
    BY <1>a, <2>1 DEF PlaceInv, ArrivalIsHere
  <2>3. ArrivesForCall'
    BY <1>c, <2>1, <2>2 DEF ArrivesForCall
  <2>4. AtFloor => pos = 2 * floor
    BY <1>d, <2>1 DEF AtFloor, Here
  <2>5. CASE phase # "run"
    <3>1. motor = -1 /\ state \notin Moving /\ ~AtFloor
      BY <1>a, <2>1, <2>5 DEF DoorInv, StartingUp, Moving
    <3>2. WithinShaft'
      BY <1>a, <2>1, <3>1, NFloorsAssumption DEF Core, WithinShaft, AtFloor
    <3> QED BY <2>1, <2>3, <2>5, <3>1, <3>2 DEF Core, LeftFloor, MovingTowardsCall, Moving
  <2>6. CASE phase = "run"
    <3>1. state \in Moving /\ motor = direction /\ direction \in {-1, 1}
      BY <1>d, <2>1, <2>6 DEF Moving
    <3>2. \/ pos = 2 * floor
          \/ pos = 2 * floor + direction
      BY <1>a, <2>4, <2>6 DEF Core, LeftFloor
    <3>3. LeftFloor'
      <4>1. CASE AtFloor
        BY <2>1, <2>4, <3>1, <4>1 DEF LeftFloor
      <4>2. CASE ~AtFloor
        <5>1. pos' = 2 * floor + 2 * direction
          BY <1>a, <1>d, <2>1, <2>6, <3>1, <4>2 DEF Core, LeftFloor
        <5>2. AtFloor'
          BY <1>d, <3>1, <5>1 DEF AtFloor
        <5> QED BY <5>2 DEF LeftFloor
      <4> QED BY <4>1, <4>2
    <3>4. PICK c \in Elements(open) :
            IF direction = 1 THEN 2 * c.floor > pos ELSE 2 * c.floor < pos
      <4>1. ASSUME NEW f PROVE ~ArrivalAhead(f)
        BY <2>1, <2>2 DEF ArrivalAhead
      <4> QED BY <1>a, <1>d, <3>1, <4>1 DEF Core, MovingTowardsCall, Moving
    <3>5. c.floor \in Int /\ 0 <= c.floor /\ c.floor <= NFloors - 1
      BY <1>a, CallFloors DEF TypeOK
    <3>6. \/ IF direction = 1 THEN 2 * c.floor > pos' ELSE 2 * c.floor < pos'
          \/ pos' = 2 * c.floor /\ AtFloor' /\ Here' = c.floor
      BY <1>d, <2>1, <3>1, <3>4, <3>5, MoveUp, MoveDown
    <3>7. AtFloor' => Here' # floor
      <4>1. \/ pos' = 2 * floor + direction
            \/ pos' = 2 * floor + 2 * direction
        BY <1>d, <2>1, <3>1, <3>2
      <4> QED BY <1>d, <3>1, <4>1 DEF AtFloor, Here
    <3>8. MovingTowardsCall'
      <4>1. \/ IF direction = 1 THEN 2 * c.floor > pos' ELSE 2 * c.floor < pos'
            \/ ArrivalAhead(c.floor)'
        BY <2>1, <3>6, <3>7 DEF ArrivalAhead
      <4> QED BY <1>d, <2>1, <3>1, <4>1 DEF MovingTowardsCall, Moving
    <3>9. WithinShaft'
      BY <1>a, <1>d, <2>1, <3>1, <3>4, <3>5, NFloorsAssumption DEF Core, WithinShaft
    <3> QED BY <2>3, <3>3, <3>8, <3>9 DEF Core
  <2> QED BY <2>5, <2>6
<1>10. CASE \/ StartTimer \/ TimerTick \/ TimerExpires \/ PushOrderReceived
            \/ PollObstruction \/ Interrupt \/ FlipObstruction
  BY <1>10, <1>k, <1>q DEF StartTimer, TimerTick, TimerExpires, Tick, PushOrderReceived,
       PollObstruction, Interrupt, FlipObstruction, Event, car, calls
<1>11. CASE CallListEvent \/ CallAcknowledged \/ PeerAppears \/ PeerStatus \/ PeerServes
  BY <1>11, <1>k, <1>q DEF CallListEvent, CallAcknowledged, PeerAppears, PeerStatus, PeerServes,
       Event, car
<1>12. CASE UNCHANGED vars
  BY <1>12, <1>k, <1>q DEF vars, car, calls
<1> QED BY <1>1, <1>2, <1>3, <1>4, <1>5, <1>6, <1>7, <1>8, <1>9, <1>10, <1>11, <1>12
        DEF Next, Handle

LEMMA ShaftInit == Init => ShaftInv
<1> SUFFICES ASSUME Init PROVE ShaftInv
  OBVIOUS
<1>1. HasEveryCall
  BY DEF Init, HasEveryCall, NoEvent, Elements
<1> QED BY <1>1, PlaceInit DEF Init, ShaftInv, LeftFloor, ArrivesForCall, MovingTowardsCall,
                              WithinShaft, NoEvent

LEMMA ShaftInvariant == ASSUME Prompt, ~Networked PROVE Spec => []ShaftInv
BY ShaftInit, ShaftStep, PTL DEF Spec

\* A moving car without peers always has a call to move towards ...
THEOREM NeverMovesInVain == ASSUME Prompt, ~Networked PROVE Spec => []MovingTowardsCall
<1>1. ShaftInv => MovingTowardsCall
  BY DEF ShaftInv
<1> QED BY <1>1, ShaftInvariant, PTL

\* ... and so never drives beyond its end floors, which nothing but
\* should_stop keeps it from.
THEOREM StaysInShaft == ASSUME Prompt, ~Networked PROVE Spec => []WithinShaft
<1>1. ShaftInv => WithinShaft
  BY DEF ShaftInv
<1> QED BY <1>1, ShaftInvariant, PTL
=============================================================================
