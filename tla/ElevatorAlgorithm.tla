------------------------- MODULE ElevatorAlgorithm -------------------------
(***************************************************************************)
(* The pure decisions of one elevator: where to go next, whether to stop   *)
(* at the floor just reached, and which calls a stop serves.  Translated   *)
(* from elevator_algorithm.cpp and from clear_orders in elevator_fsm.cpp.  *)
(*                                                                         *)
(* A direction is 1 (up), -1 (down) or 0 (stop), as in the code.  A call   *)
(* list is a sequence: should_stop looks at its order.                     *)
(***************************************************************************)
EXTENDS Integers, Sequences

CONSTANT NFloors           \* N_FLOORS of the driver

ASSUME NFloorsAssumption == NFloors \in Nat /\ NFloors >= 2

Floor     == 0 .. NFloors - 1
Direction == {-1, 0, 1}
Button    == {"UP_HALL", "DOWN_HALL", "CAB"}
Request   == [floor : Floor, type : Button]

-----------------------------------------------------------------------------
\* Mutant of RequestsAbove: the floor itself counts as above.
RequestsFromHereUp(f, calls) == \E i \in DOMAIN calls : calls[i].floor >= f

RequestsAbove(f, calls)     == \E i \in DOMAIN calls : calls[i].floor > f
RequestsBelow(f, calls)     == \E i \in DOMAIN calls : calls[i].floor < f
RequestsSameFloor(f, calls) == \E i \in DOMAIN calls : calls[i].floor = f

\* Calls further on in direction d.
RequestsAhead(f, d, calls) == \/ d = 1  /\ RequestsAbove(f, calls)
                              \/ d = -1 /\ RequestsBelow(f, calls)

\* The loop of should_stop returns at the first call of the list that is at
\* the floor; later calls at the same floor are never looked at.
IsFirstAt(i, f, calls) == /\ i \in DOMAIN calls
                          /\ calls[i].floor = f
                          /\ \A j \in 1 .. i - 1 : calls[j].floor # f

\* The hall button that a car moving in direction d takes along.
Along(d) == IF d = 1 THEN "UP_HALL" ELSE "DOWN_HALL"

\* Mutant of ShouldStop: a car with nothing ahead does not stop for that.
ShouldStopAlongOnly(f, d, calls) ==
  \/ calls = << >>
  \/ \E i \in DOMAIN calls : /\ IsFirstAt(i, f, calls)
                             /\ d = 0 \/ calls[i].type \in {"CAB", Along(d)}

ShouldStop(f, d, calls) ==
  \/ calls = << >>
  \/ \E i \in DOMAIN calls :
       /\ IsFirstAt(i, f, calls)
       /\ \/ d = 0
          \/ calls[i].type \in {"CAB", Along(d)}
          \/ ~RequestsAhead(f, d, calls)
          \/ f \in {0, NFloors - 1}

\* Mutant of ChooseDirection: a car that was going up never turns round.
ChooseWithoutTurning(f, d, calls) ==
  IF RequestsAbove(f, calls) /\ d # -1 THEN 1
  ELSE IF RequestsBelow(f, calls) /\ d # 1 THEN -1 ELSE 0

ChooseDirection(f, d, calls) ==
  IF d = 1
    THEN IF RequestsAbove(f, calls) THEN 1
         ELSE IF ~RequestsSameFloor(f, calls) /\ RequestsBelow(f, calls)
           THEN -1 ELSE 0
    ELSE IF RequestsBelow(f, calls) THEN -1
         ELSE IF ~RequestsSameFloor(f, calls) /\ RequestsAbove(f, calls)
           THEN 1 ELSE 0

-----------------------------------------------------------------------------
\* The calls clear_orders passes to service_call at floor f.
CallsAt(f, calls) == {calls[i] : i \in {k \in DOMAIN calls : calls[k].floor = f}}

NormalClear(f, d, calls) ==
  {c \in CallsAt(f, calls) : c.type # "CAB" /\ (d = 0 \/ c.type = Along(d))}

\* Without a normal clear the opposite hall call is served, when the car has
\* nothing more to do in its direction and so will turn around.
TurnaroundClear(f, d, calls) ==
  {c \in CallsAt(f, calls) : /\ c.type # "CAB" /\ d # 0 /\ c.type # Along(d)
                             /\ ~RequestsAhead(f, d, calls)}

\* Mutant of Cleared: the opposite hall call waits for the way back.
ClearedAlongOnly(f, d, calls) ==
  {c \in CallsAt(f, calls) : c.type = "CAB"} \cup NormalClear(f, d, calls)

Cleared(f, d, calls) ==
  {c \in CallsAt(f, calls) : c.type = "CAB"}
    \cup IF NormalClear(f, d, calls) # {} THEN NormalClear(f, d, calls)
         ELSE TurnaroundClear(f, d, calls)

-----------------------------------------------------------------------------
\* What the decisions promise, for one set of inputs.

\* Directions in which a car can arrive at floor f.
CanArrive(f, d) == d \in {-1, 1} /\ ~(d = 1 /\ f = 0) /\ ~(d = -1 /\ f = NFloors - 1)

\* A stop with a non-empty list is never in vain: it clears some call.
StopClearsCall(f, d, calls) ==
  CanArrive(f, d) /\ calls # << >> /\ ShouldStop(f, d, calls)
    => Cleared(f, d, calls) # {}

\* A car drives past a floor where it has a call only while it has another
\* call ahead, so that it comes back: a skipped call is postponed, not lost.
PassOnlyWithCallAhead(f, d, calls) ==
  CanArrive(f, d) /\ RequestsSameFloor(f, calls) /\ ~ShouldStop(f, d, calls)
    => RequestsAhead(f, d, calls)

\* With work to do an idle car sets off towards a call, or opens its door
\* for one at its floor and then clears every call there.
ChoiceServes(f, d, calls) ==
  LET next == ChooseDirection(f, d, calls) IN
  calls # << >> =>
    /\ next # 0 => RequestsAhead(f, next, calls)
    /\ next = 0 => /\ RequestsSameFloor(f, calls)
                   /\ Cleared(f, 0, calls) = CallsAt(f, calls)

\* A car never turns its back on the calls ahead of it.
KeepsDirection(f, d, calls) ==
  RequestsAhead(f, d, calls) => ChooseDirection(f, d, calls) = d
=============================================================================
