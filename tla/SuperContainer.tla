--------------------------- MODULE SuperContainer ---------------------------
(***************************************************************************)
(* The data of one node, Super_container, under its five threads: the      *)
(* poller and the receive thread add calls, the status thread adds         *)
(* elevators, the remover removes them, and the FSM thread services calls. *)
(* Each changes the data under the mutex and then calls                    *)
(* update_locally_assigned_calls, which takes the mutex twice: once to     *)
(* read who is alive, and again to read everything else and to assign.     *)
(*                                                                         *)
(* What the threads do between these calls is in ElevatorFSM and           *)
(* CallReplication, where a change and the update are one step.            *)
(***************************************************************************)
EXTENDS FiniteSets

CONSTANTS Me,          \* this elevator
          Peer,        \* the others
          Call,        \* calls that may be made
          Mine,        \* calls the assigner gives this car when others are free
          Thread       \* the threads that are running

ASSUME ContainerAssumption ==
  /\ Me \notin Peer
  /\ Mine \subseteq Call
  /\ Thread \subseteq {"poller", "receive", "status", "remover", "fsm"}

Node   == Peer \cup {Me}
Nobody == "nobody"                   \* does not hold the mutex

VARIABLES
  elevators,    \* the elevators in the list, all of them alive
  obstructed,   \* those whose Elevator_state says they are obstructed
  listed,       \* calls in call_list
  ack,          \* for each, who has acknowledged it
  serviced,     \* calls with somebody on their serviced list
  assigned,     \* locally_assigned_calls
  mtx,          \* the thread in the long section of the mutex
  pc,           \* where each thread is in its update
  seen,         \* alive_elevators of each thread in its update
  todo          \* what the thread in the long section is about to assign

data == <<elevators, obstructed, listed, ack, serviced>>
update == <<mtx, seen, todo>>
vars == <<data, assigned, pc, update>>

-----------------------------------------------------------------------------
\* not_serviced_calls: open, and acknowledged by all of those alive.
Open(alive) == {c \in listed \ serviced : alive \subseteq ack[c]}

\* The elevators the assigner is told of, and this car's part of the answer:
\* nothing if it is not among them, everything if it is alone.
Input == IF elevators \subseteq obstructed THEN {Me} ELSE elevators \ obstructed

\* Mutant of Part: the answer is not held against the list of calls.
PartUnfiltered(calls, input) == IF Me \notin input THEN {}
                                ELSE IF input = {Me} THEN calls ELSE Mine

Part(calls, input) == IF Me \notin input THEN {}
                      ELSE IF input = {Me} THEN calls ELSE calls \cap Mine

Current == Part(Open(elevators), Input)

Init == /\ elevators = {Me}
        /\ obstructed = {}
        /\ listed = {} /\ serviced = {} /\ assigned = {}
        /\ ack = [c \in Call |-> {}]
        /\ mtx = Nobody
        /\ pc = [t \in Thread |-> "idle"]
        /\ seen = [t \in Thread |-> {}]
        /\ todo = {}

Idle(t)  == t \in Thread /\ pc[t] = "idle"
Free(t)  == Idle(t) /\ mtx = Nobody
Goto(t, l) == pc' = [pc EXCEPT ![t] = l]

-----------------------------------------------------------------------------
(* The operations, up to their call of update_locally_assigned_calls.      *)

\* add_new_call, for a button pressed here.
AddNewCall(c) ==
  /\ Free("poller") /\ c \notin listed
  /\ listed' = listed \cup {c}
  /\ ack' = [ack EXCEPT ![c] = {Me}]
  /\ Goto("poller", "update")
  /\ UNCHANGED <<elevators, obstructed, serviced, assigned, update>>

\* add_call, for a message with the acknowledgements in acks, and perhaps
\* with the news that the call has been serviced.
AddCall(c, acks) ==
  /\ Free("receive")
  /\ listed' = listed \cup {c}
  /\ ack' = [ack EXCEPT ![c] = @ \cup acks \cup {Me}]
  /\ serviced' \in {serviced, serviced \cup {c}}
  /\ Goto("receive", "update")
  /\ UNCHANGED <<elevators, obstructed, assigned, update>>

\* Mutant of AddElevator: a known elevator is only updated.
AddElevatorOnly(m, blocked) ==
  /\ Free("status")
  /\ elevators' = elevators \cup {m}
  /\ obstructed' = IF blocked THEN obstructed \cup {m} ELSE obstructed \ {m}
  /\ UNCHANGED <<listed, ack, serviced, assigned, pc, update>>

AddElevator(m, blocked) ==
  /\ Free("status")
  /\ elevators' = elevators \cup {m}
  /\ obstructed' = IF blocked THEN obstructed \cup {m} ELSE obstructed \ {m}
  /\ Goto("status", "update")
  /\ UNCHANGED <<listed, ack, serviced, assigned, update>>

RemoveElevator(m) ==
  /\ Free("remover") /\ m \in elevators
  /\ elevators' = elevators \ {m}
  /\ obstructed' = obstructed \ {m}
  /\ ack' = [c \in Call |-> ack[c] \ {m}]
  /\ Goto("remover", "update")
  /\ UNCHANGED <<listed, serviced, assigned, update>>

\* Mutant of ServiceCall: the call is marked, nothing is assigned anew.
ServiceCallOnly(c) ==
  /\ Idle("fsm") /\ c \in listed
  /\ serviced' = serviced \cup {c}
  /\ UNCHANGED <<elevators, obstructed, listed, ack, assigned, pc, update>>

\* service_call takes the mutex of the call only.
ServiceCall(c) ==
  /\ Idle("fsm") /\ c \in listed
  /\ serviced' = serviced \cup {c}
  /\ Goto("fsm", "update")
  /\ UNCHANGED <<elevators, obstructed, listed, ack, assigned, update>>

\* set_obstruction takes the mutex of the state only, and assigns nothing.
SetObstruction(blocked) ==
  /\ Idle("poller")
  /\ obstructed' = IF blocked THEN obstructed \cup {Me} ELSE obstructed \ {Me}
  /\ UNCHANGED <<elevators, listed, ack, serviced, assigned, pc, update>>

-----------------------------------------------------------------------------
(* update_locally_assigned_calls.                                          *)

ReadAlive(t) ==
  /\ pc[t] = "update" /\ mtx = Nobody
  /\ seen' = [seen EXCEPT ![t] = elevators]
  /\ Goto(t, "lock")
  /\ UNCHANGED <<data, assigned, mtx, todo>>

\* The calls and elevators are picked under the mutex ...
Lock(t) ==
  /\ pc[t] = "lock" /\ mtx = Nobody
  /\ mtx' = t
  /\ todo' = Part(Open(seen[t]), Input)
  /\ Goto(t, "assign")
  /\ UNCHANGED <<data, assigned, seen>>

\* ... and the answer is kept when the assigner, another program, has ended.
Assign(t) ==
  /\ pc[t] = "assign"
  /\ assigned' = todo
  /\ mtx' = Nobody
  /\ todo' = {}
  /\ seen' = [seen EXCEPT ![t] = {}]
  /\ Goto(t, "idle")
  /\ UNCHANGED data

Next == \/ \E c \in Call : \/ AddNewCall(c) \/ ServiceCall(c)
                           \/ \E acks \in SUBSET Node : AddCall(c, acks)
        \/ \E m \in Peer : \/ RemoveElevator(m)
                           \/ \E b \in BOOLEAN : AddElevator(m, b)
        \/ \E b \in BOOLEAN : SetObstruction(b)
        \/ \E t \in Thread : ReadAlive(t) \/ Lock(t) \/ Assign(t)

Spec == Init /\ [][Next]_vars

\* Every thread gets on with its update, and every elevator in the list goes
\* on sending statuses: one that stops is removed, and the list changes.
Fairness ==
  /\ \A t \in Thread : SF_vars(ReadAlive(t) \/ Lock(t))
  /\ WF_vars(\E t \in Thread : Assign(t))
  /\ SF_vars(\E m \in elevators \ {Me} : AddElevator(m, m \in obstructed))

FairSpec == Spec /\ Fairness

-----------------------------------------------------------------------------
(* Properties.                                                             *)

TypeOK == /\ elevators \subseteq Node /\ obstructed \subseteq Node
          /\ listed \subseteq Call /\ serviced \subseteq listed
          /\ assigned \subseteq listed
          /\ ack \in [Call -> SUBSET Node]
          /\ mtx \in Thread \cup {Nobody}
          /\ pc \in [Thread -> {"idle", "update", "lock", "assign"}]
          /\ seen \in [Thread -> SUBSET Node]
          /\ todo \subseteq listed

Settled == \A t \in Thread : pc[t] = "idle"

\* Whatever order the updates of the five threads come in, the last one to
\* write the assignment has seen every service: once they are through, no
\* car is left with a call that has been serviced.
ServicedCallsLeave == Settled => assigned \cap serviced = {}

\* While there are other elevators, their statuses mend an assignment that
\* was computed from an old list of them: if nothing changes any more, the
\* assigned calls come to be what the data say.
AssignmentMends ==
  <>[][UNCHANGED data]_vars /\ <>[](elevators # {Me}) => <>[](assigned = Current)
=============================================================================
