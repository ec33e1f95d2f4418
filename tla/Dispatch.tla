------------------------------ MODULE Dispatch ------------------------------
(***************************************************************************)
(* How the elevators divide the calls among themselves.  Every node keeps  *)
(* the last status it has got of every other node (Elevator_state), asks   *)
(* the same deterministic assigner with these statuses, its own and the    *)
(* calls it holds (update_locally_assigned_calls, call_assigner.cpp), and  *)
(* keeps the part of the answer that concerns itself.  Nobody compares the *)
(* parts: whether a call is somebody's rests on the statuses that arrive.  *)
(*                                                                         *)
(* A status is a snapshot that goes by UDP: it may be lost, come late, or  *)
(* after a newer one; any elevator may be silent for long enough to be     *)
(* removed.  The replication of a call is one step per node here: the      *)
(* moment that node has it acknowledged by all alive nodes                 *)
(* (CallReplication).                                                      *)
(***************************************************************************)
EXTENDS Integers, FiniteSets

CONSTANTS Node,            \* the elevators
          NFloors,
          Call,            \* calls, each made once
          FloorOf,         \* the floor of each call
          CabOf,           \* the car of a cab call, Nobody of a hall call
          Nobody,
          Divide(_, _),    \* hall_request_assigner: calls and cars to cars
          MaxCrashes,      \* bound on programs that die
          MaxFlying,       \* bound on the statuses under way at a time
          Blockable,       \* bound: the cars whose doorway is ever obstructed
          NoStatus         \* the status of an elevator that is not in the list

Floor  == 0 .. NFloors - 1
State  == {"idle", "up", "down", "open"}
Status == [floor : Floor, state : State, obstruction : BOOLEAN]
Told   == [floor : Floor, state : State]   \* what the assigner is told of a car

Hall(open) == {c \in open : CabOf[c] = Nobody}

\* The assigner is another program.  All that is known of it here is that it
\* gives each hall call to one of the cars it is told of, and the same answer
\* to the same question.
ASSUME DispatchAssumption ==
  /\ NFloors \in Nat /\ MaxCrashes \in Nat /\ MaxFlying \in Nat
  /\ Blockable \subseteq Node
  /\ FloorOf \in [Call -> Floor]
  /\ CabOf \in [Call -> Node \cup {Nobody}] /\ Nobody \notin Node
  /\ NoStatus \notin Status
  /\ \A open \in SUBSET Call, cars \in (SUBSET Node) \ {{}} :
       \A in \in [cars -> Told] : Divide(open, in) \in [Hall(open) -> cars]

VARIABLES
  car,          \* Elevator_state of each node's own car
  up,           \* the nodes whose process is running
  flying,       \* statuses under way: to each node, from each node
  view,         \* Elevator_state each node keeps of the others
  ready,        \* open calls that, as far as a node knows, all alive have
  assigned,     \* locally_assigned_calls of each node
  made, served  \* calls made, and calls a car has come for

lists == <<ready, assigned>>
calls == <<made, served>>
vars  == <<car, up, flying, view, lists, calls>>

-----------------------------------------------------------------------------
\* The cars the assigner is asked about: those that are not obstructed, or if
\* there is none, the own one.
Free(seen) == {m \in Node : seen[m] # NoStatus /\ ~seen[m].obstruction}

\* Mutant of Asked: the elevator does not add itself.
AskedOthers(n, seen) == Free(seen)

Asked(n, seen) == IF Free(seen) = {} THEN {n} ELSE Free(seen)

AssignerInput(cars, seen) ==
  [m \in cars |-> [floor |-> seen[m].floor, state |-> seen[m].state]]

\* The answer has no entry for a car that was not asked about, which then has
\* no calls at all; otherwise cab calls are the car's they come from.
Assignment(n, seen, open) ==
  LET cars == Asked(n, seen)
  IN  {c \in open : /\ n \in cars
                    /\ \/ CabOf[c] = n
                       \/ CabOf[c] = Nobody /\ Divide(open, AssignerInput(cars, seen))[c] = n}

\* update_locally_assigned_calls: of the own car, the state at the moment.
Reassign(n) ==
  assigned' = [assigned EXCEPT ![n] =
                 Assignment(n, [view'[n] EXCEPT ![n] = car'[n]], ready'[n])]

Init == /\ car \in [Node -> [floor : Floor, state : {"idle"}, obstruction : {FALSE}]]
        /\ up = Node
        /\ flying = [n \in Node |-> [m \in Node |-> {}]]
        /\ view = [n \in Node |-> [m \in Node |-> NoStatus]]
        /\ ready = [n \in Node |-> {}]
        /\ assigned = [n \in Node |-> {}]
        /\ made = {} /\ served = {}

-----------------------------------------------------------------------------
(* Calls, as the replication brings them.                                  *)

PressButton(c) == /\ c \notin made
                  /\ made' = made \cup {c}
                  /\ UNCHANGED <<car, up, flying, view, lists, served>>

\* add_call, for the acknowledgement that was missing.
LearnCall(n, c) == /\ n \in up /\ c \in made \ served /\ c \notin ready[n]
                   /\ ready' = [ready EXCEPT ![n] = @ \cup {c}]
                   /\ UNCHANGED <<car, up, flying, view, calls>>
                   /\ Reassign(n)

\* add_call, for the news that somebody has served the call.
LearnServed(n, c) == /\ n \in up /\ c \in ready[n] \cap served
                     /\ ready' = [ready EXCEPT ![n] = @ \ {c}]
                     /\ UNCHANGED <<car, up, flying, view, calls>>
                     /\ Reassign(n)

\* add_call, for a call that is not modelled, or for a copy of this one that
\* is not identical to the stored one.
OtherCall(n) == /\ n \in up
                /\ UNCHANGED <<car, up, flying, view, ready, calls>>
                /\ Reassign(n)

(* Statuses.                                                               *)

Underway == UNION {{<<n, m, status>> : status \in flying[n][m]} : n, m \in Node}

\* infinite_status_broadcast: a snapshot is under way to n.  To whom a
\* broadcast does not get, it is not sent.
SendStatus(m, n) == /\ m \in up /\ m # n
                    /\ Cardinality(Underway) < MaxFlying
                    /\ flying' = [flying EXCEPT ![n][m] = @ \cup {car[m]}]
                    /\ UNCHANGED <<car, up, view, lists, calls>>

\* infinite_status_recieve and add_elevator: the calls are assigned anew, but
\* no event is pushed.  An elevator that was not in the list has not
\* acknowledged, as far as n knows, all the calls that n took for ready.
ReceiveStatus(n, m, status) ==
  /\ n \in up /\ status \in flying[n][m]
  /\ flying' = [flying EXCEPT ![n][m] = @ \ {status}]
  /\ view' = [view EXCEPT ![n][m] = status]
  /\ \E known \in SUBSET ready[n] :
       /\ view[n][m] # NoStatus => known = ready[n]
       /\ ready' = [ready EXCEPT ![n] = known]
  /\ UNCHANGED <<car, up, calls>>
  /\ Reassign(n)


\* remove_elevator, for any elevator that has been silent, dead or not.
RemoveElevator(n, m) == /\ n \in up /\ view[n][m] # NoStatus
                        /\ view' = [view EXCEPT ![n][m] = NoStatus]
                        /\ UNCHANGED <<car, up, flying, ready, calls>>
                        /\ Reassign(n)

\* The program dies; the model forgets what it had in memory.  What it has
\* sent is still under way.
Crash(n) == /\ n \in up /\ up # {n}
            /\ Cardinality(Node \ up) < MaxCrashes
            /\ up' = up \ {n}
            /\ flying' = [flying EXCEPT ![n] = [m \in Node |-> {}]]
            /\ view' = [view EXCEPT ![n] = [m \in Node |-> NoStatus]]
            /\ ready' = [ready EXCEPT ![n] = {}]
            /\ assigned' = [assigned EXCEPT ![n] = {}]
            /\ UNCHANGED <<car, calls>>

\* poll_obstruction stores the switch and assigns nothing.
FlipObstruction(n) == /\ n \in up \cap Blockable
                      /\ car' = [car EXCEPT ![n].obstruction = ~@]
                      /\ UNCHANGED <<up, flying, view, lists, calls>>

(* The FSM thread and the car.  Which of its calls a car goes for and a     *)
(* stop serves is ElevatorAlgorithm's affair; here it may be any of them.  *)

\* The car stands at floor f with its door open, and some calls are served.
Serve(n, f) == /\ \E done \in SUBSET {c \in assigned[n] : FloorOf[c] = f} \ {{}} :
                    /\ served' = served \cup done
                    /\ ready' = [ready EXCEPT ![n] = @ \ done]
               /\ car' = [car EXCEPT ![n].floor = f, ![n].state = "open"]
               /\ UNCHANGED <<up, flying, view, made>>
               /\ Reassign(n)

Ahead(n) == {f \in Floor : \/ car[n].state = "up" /\ f > car[n].floor
                           \/ car[n].state = "down" /\ f < car[n].floor}

\* HandleEvent for an idle car with calls, whenever it is: which events wake
\* it is ElevatorFSM's affair.
OpenHere(n) == car[n].state = "idle" /\ Serve(n, car[n].floor)

SetOut(n) == /\ car[n].state = "idle"
             /\ \E c \in assigned[n] :
                  /\ FloorOf[c] # car[n].floor
                  /\ car' = [car EXCEPT ![n].state =
                               IF FloorOf[c] > car[n].floor THEN "up" ELSE "down"]
             /\ UNCHANGED <<up, flying, view, lists, calls>>

HandleEvent(n) == n \in up /\ (OpenHere(n) \/ SetOut(n))

\* ARRIVED_AT_FLOOR: the car stops for a call that it still has, or, if it has
\* none left, at once.  The floors it passes are left out.
Arrive(n) == /\ n \in up
             /\ \E f \in Ahead(n) :
                  \/ Serve(n, f)
                  \/ /\ assigned[n] = {}
                     /\ car' = [car EXCEPT ![n].floor = f, ![n].state = "open"]
                     /\ UNCHANGED <<up, flying, view, lists, calls>>

CloseDoor(n) == /\ n \in up /\ car[n].state = "open" /\ ~car[n].obstruction
                /\ car' = [car EXCEPT ![n].state = "idle"]
                /\ UNCHANGED <<up, flying, view, lists, calls>>

Next == \/ \E c \in Call : PressButton(c)
        \/ \E n \in Node :
             \/ \E c \in Call : LearnCall(n, c) \/ LearnServed(n, c)
             \/ \E m \in Node : SendStatus(m, n) \/ RemoveElevator(n, m)
             \/ \E m \in Node : \E status \in flying[n][m] : ReceiveStatus(n, m, status)
             \/ OtherCall(n) \/ Crash(n) \/ FlipObstruction(n)
             \/ HandleEvent(n) \/ Arrive(n) \/ CloseDoor(n)

Spec == Init /\ [][Next]_vars

\* The replication comes to its end, statuses are sent for ever and some come
\* through, what is under way arrives, old or new, and an elevator is removed
\* that is down.  SendStatus is strong only because MaxFlying disables it.
Fairness ==
  \A n \in Node :
    /\ WF_vars(\E c \in Call : LearnCall(n, c) \/ LearnServed(n, c))
    /\ \A m \in Node \ {n} :
         /\ SF_vars(SendStatus(m, n))
         /\ WF_vars(\E status \in flying[n][m] \cap {car[m]} : ReceiveStatus(n, m, status))
         /\ WF_vars(\E status \in flying[n][m] \ {car[m]} : ReceiveStatus(n, m, status))
         /\ WF_vars(m \notin up /\ RemoveElevator(n, m))

FairSpec == Spec /\ Fairness

-----------------------------------------------------------------------------
(* Properties.                                                             *)

Open      == made \ served
Owners(c) == {n \in up : c \in assigned[n]}
Available == {n \in up : ~car[n].obstruction}

\* Every open hall call has a car, and exactly one if some car is not
\* obstructed; a cab call has its own car, unless that is down, or obstructed
\* while another is not.
Divided ==
  \A c \in Open :
    /\ CabOf[c] = Nobody => /\ Owners(c) # {}
                            /\ Available # {} => Cardinality(Owners(c)) = 1
    /\ CabOf[c] # Nobody
         => Owners(c) = {CabOf[c]} \cap IF Available = {} THEN up ELSE Available

\* What a node assigns its calls from.
Seen(n) == [view[n] EXCEPT ![n] = car[n]]

\* A node is up to date: it has the last status of every elevator that runs,
\* none of the others, none older is under way, it has exactly the open calls,
\* and it has assigned since.
UpToDate(n) ==
  /\ \A m \in Node \ {n} :
       /\ view[n][m] = IF m \in up THEN car[m] ELSE NoStatus
       /\ flying[n][m] \subseteq IF m \in up THEN {car[m]} ELSE {}
  /\ ready[n] = Open
  /\ assigned[n] = Assignment(n, Seen(n), ready[n])

Agreed == \A n \in up : UpToDate(n)

\* No car changes its state, no program dies, no button is pressed, and no
\* elevator that runs is taken for dead.
Still == /\ UNCHANGED <<car, up, made>>
         /\ \A n, m \in up : view[n][m] # NoStatus => view'[n][m] # NoStatus

\* While this is so, nodes that are up to date have the calls divided among
\* them, and nothing that is still to happen undoes it: neither the assigner
\* nor anybody else sees the parts together (super_container.cpp:48).
DivisionLasts == [][Agreed /\ Still => Agreed' /\ Divided']_vars

=============================================================================
