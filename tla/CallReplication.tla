-------------------------- MODULE CallReplication --------------------------
(***************************************************************************)
(* How the elevators replicate calls: Peer (peer.cpp), the call list and   *)
(* the list of alive elevators in Super_container (super_container.cpp),   *)
(* Call (call_class.cpp), and the poller and FSM thread of each node as    *)
(* far as they create and service calls.                                   *)
(*                                                                         *)
(* A call is identified by the node it originates from and a number.       *)
(* Every node keeps its own copy with two lists of nodes: those that have  *)
(* acknowledged the call, and those that know it to be serviced.  The      *)
(* copies meet in UDP broadcasts, which the network delays, duplicates,    *)
(* reorders and loses, and which also come back to their sender.           *)
(***************************************************************************)
EXTENDS Naturals, FiniteSets

CONSTANTS Node,            \* ELEVATOR_ID of each elevator
          Hall, Cab,       \* the buttons of a panel, floor and type in one
          IdSpan,          \* values of the uint8_t call_id of a message
          NoCall,          \* marks a call that is not in a call list
          MaxNum,          \* bound on call numbers
          MaxPresses,      \* bound on button presses
          MaxRemovals,     \* bound on elevators taken for dead
          MaxNet,          \* bound on the messages underway at a time
          MaxRestarts      \* bound on crashes

ASSUME ReplicationAssumption == /\ Hall \cap Cab = {}
                                /\ IdSpan \in Nat /\ IdSpan > 0
                                /\ MaxNum \in Nat
                                /\ MaxPresses \in Nat
                                /\ MaxRemovals \in Nat
                                /\ MaxNet \in Nat
                                /\ MaxRestarts \in Nat

Panel == Hall \cup Cab
Id    == [origin : Node, num : 0 .. MaxNum]     \* Call_id
Press == 1 .. MaxPresses

\* press says which press of a button the call stands for.  The program does
\* not have it; it is there to state the properties.
Call    == [button : Panel, press : Press, ack : SUBSET Node, serviced : SUBSET Node]
Message == [id : Id, call : Call]               \* call_message

ASSUME NoCallAssumption == NoCall \notin Call \cup Node

NoId == [origin |-> NoCall, num |-> 0]          \* no call is being serviced

\* Where add_new_call_with_elevatorId has got to in the poller thread: the
\* check for a similar call, the number and the insertion lock separately.
Idle   == [pc |-> "idle"]
Poller == {Idle}
            \cup [pc : {"number"}, button : Panel, press : Press]
            \cup [pc : {"add"}, button : Panel, press : Press, num : 0 .. MaxNum]

VARIABLES
  calls,        \* call_list of each node
  alive,        \* ids of the elevators each node holds to be alive
  poller,       \* progress of a button press on each node
  view,         \* alive elevators an update on each node read some time ago
  assigned,     \* locally_assigned_calls of each node, as last computed
  serving,      \* call the FSM thread of each node is about to service
  net,          \* call messages underway; one stays so until it is lost
  \* bounds and history
  pressed,      \* number of presses so far
  served,       \* presses for which a car really came
  removals, restarts

assignment == <<view, assigned>>

vars == <<calls, alive, poller, assignment, serving, net, pressed, served, removals, restarts>>

-----------------------------------------------------------------------------
Known(n) == {id \in Id : calls[n][id] # NoCall}
IsOpen(c) == c.serviced = {}

\* Mutant of SimilarCallExists: a call not yet acknowledged does not count.
AcknowledgedCallExists(n, b) ==
  \E id \in Known(n) : /\ calls[n][id].button = b
                       /\ IsOpen(calls[n][id])
                       /\ alive[n] \subseteq calls[n][id].ack

\* similar_call_exists: an unserviced call of the same button; somebody
\* else's cab calls do not count.
SimilarCallExists(n, b) ==
  \E id \in Known(n) : /\ calls[n][id].button = b
                       /\ IsOpen(calls[n][id])
                       /\ b \in Hall \/ id.origin = n

\* One more than the number get_last_call_id_originating_from_elevator
\* finds: it looks at all calls of the list, wherever they originate.
IsNextNumber(n, k) ==
  \/ k = 0 /\ Known(n) = {}
  \/ /\ \E id \in Known(n) : k = id.num + 1
     /\ \A id \in Known(n) : id.num < k

\* add_call: a call already in the list gets the new call's two lists added
\* to its own and keeps everything else, any other call is appended.
Merge(old, new) ==
  IF old = NoCall THEN new
  ELSE [old EXCEPT !.ack = @ \cup new.ack, !.serviced = @ \cup new.serviced]

AddCall(n, id, new) == calls' = [calls EXCEPT ![n][id] = Merge(@, new)]

\* Mutant of MessageOf: the number does not fit its field at all.
MessageOfNarrow(id, c) == [id |-> [id EXCEPT !.num = @ % 1], call |-> c]

\* get_call_message: the number is cut to the width of its field.
MessageOf(id, c) == [id |-> [id EXCEPT !.num = @ % IdSpan], call |-> c]

\* call_transmit: a broadcast that finds the network full is lost.
Sent(msg) == IF Cardinality(net \cup {msg}) <= MaxNet THEN net \cup {msg} ELSE net

\* Mutants of NeedsTransmit.
NeedsTransmitNever(n, c) == FALSE
NeedsTransmitUnacked(n, c) == ~(alive[n] \subseteq c.ack)

\* The condition under which both network threads transmit a call unasked.
NeedsTransmit(n, c) ==
  \/ ~(alive[n] \subseteq c.ack)
  \/ ~IsOpen(c) /\ ~(alive[n] \subseteq c.serviced)

\* A call update_locally_assigned_calls may hand to this node's elevator:
\* not serviced, acknowledged by those it read to be alive, and a hall call
\* or its own cab call.  Which of them it gets is up to the external assigner.
Assignable(n, id, others) ==
  /\ id \in Known(n)
  /\ IsOpen(calls[n][id])
  /\ others \subseteq calls[n][id].ack
  /\ calls[n][id].button \in Hall \/ id.origin = n

\* Mutant of Update: acknowledgements do not count.
UpdateUnacked(n) ==
  /\ assigned' = [assigned EXCEPT ![n] = {id \in Id : Assignable(n, id, {})'}]
  /\ UNCHANGED view

\* update_locally_assigned_calls.  It reads the alive elevators before it
\* locks the call list, and runs in several threads: what is stored in the
\* end may rest on a list of elevators that is no longer true.
Update(n) ==
  /\ \E others \in {alive'[n], view[n]} :
       assigned' = [assigned EXCEPT ![n] = {id \in Id : Assignable(n, id, others)'}]
  /\ UNCHANGED view

-----------------------------------------------------------------------------
Init == /\ calls = [n \in Node |-> [id \in Id |-> NoCall]]
        /\ alive = [n \in Node |-> {n}]
        /\ poller = [n \in Node |-> Idle]
        /\ view = [n \in Node |-> {n}]
        /\ assigned = [n \in Node |-> {}]
        /\ serving = [n \in Node |-> NoId]
        /\ net = {}
        /\ pressed = 0
        /\ served = {}
        /\ removals = 0
        /\ restarts = 0

(* A button press: add_new_call_with_elevatorId, in the poller thread.     *)

PressButton(n, b) ==
  /\ poller[n] = Idle /\ pressed < MaxPresses
  /\ ~SimilarCallExists(n, b)
  /\ pressed' = pressed + 1
  /\ poller' = [poller EXCEPT ![n] = [pc |-> "number", button |-> b, press |-> pressed']]
  /\ UNCHANGED <<calls, alive, assignment, serving, net, served, removals, restarts>>

TakeNumber(n) ==
  /\ poller[n].pc = "number"
  /\ \E k \in 0 .. MaxNum :
       /\ IsNextNumber(n, k)
       /\ poller' = [poller EXCEPT ![n] = [pc |-> "add", button |-> @.button,
                                           press |-> @.press, num |-> k]]
  /\ UNCHANGED <<calls, alive, assignment, serving, net, pressed, served, removals, restarts>>

\* Mutant of AddNewCall: acknowledged on behalf of everybody alive.
AddNewCallForAll(n) ==
  /\ poller[n].pc = "add"
  /\ AddCall(n, [origin |-> n, num |-> poller[n].num],
             [button |-> poller[n].button, press |-> poller[n].press,
              ack |-> alive[n], serviced |-> {}])
  /\ poller' = [poller EXCEPT ![n] = Idle]
  /\ UNCHANGED <<alive, serving, net, pressed, served, removals, restarts>>
  /\ Update(n)

AddNewCall(n) ==
  /\ poller[n].pc = "add"
  /\ AddCall(n, [origin |-> n, num |-> poller[n].num],
             [button |-> poller[n].button, press |-> poller[n].press,
              ack |-> {n}, serviced |-> {}])
  /\ poller' = [poller EXCEPT ![n] = Idle]
  /\ UNCHANGED <<alive, serving, net, pressed, served, removals, restarts>>
  /\ Update(n)

(* The network threads.                                                    *)

\* infinite_call_transmit: calls some alive node has not acknowledged or does
\* not know to be serviced, and now and then all unserviced calls.
Transmit(n, id) ==
  /\ id \in Known(n)
  /\ IsOpen(calls[n][id]) \/ NeedsTransmit(n, calls[n][id])
  /\ net' = Sent(MessageOf(id, calls[n][id]))
  /\ UNCHANGED <<calls, alive, poller, assignment, serving, pressed, served, removals,
                 restarts>>

\* Mutants of Received: the receiver does not join in the servicing, or it
\* always does.
ReceivedUnserviced(n, c) == [c EXCEPT !.ack = @ \cup {n}]
ReceivedServiced(n, c) == [c EXCEPT !.ack = @ \cup {n}, !.serviced = @ \cup {n}]

\* The call a receiver makes of a message: it acknowledges it, and joins in
\* when somebody knows it to be serviced.
Received(n, c) ==
  [c EXCEPT !.ack = @ \cup {n},
            !.serviced = IF IsOpen(c) THEN {} ELSE @ \cup {n}]

SameLists(old, c) == old # NoCall /\ old.ack = c.ack /\ old.serviced = c.serviced

\* infinite_call_recieve: a message identical to the stored call is dropped.
\* Whether to retransmit is decided on the lists as they came in.
Receive(n, m) ==
  /\ m \in net
  /\ ~SameLists(calls[n][m.id], m.call)
  /\ AddCall(n, m.id, Received(n, m.call))
  /\ net' = IF NeedsTransmit(n, m.call)
              THEN Sent(MessageOf(m.id, calls'[n][m.id]))
              ELSE net
  /\ UNCHANGED <<alive, poller, serving, pressed, served, removals, restarts>>
  /\ Update(n)

\* infinite_status_recieve: add_elevator, with a status of an elevator not
\* held to be alive.  The lock is then released, and the assigned calls stay
\* as they are until UpdateAfterStatus.
ReceiveStatus(n, m) ==
  /\ m # n /\ m \notin alive[n]
  /\ alive' = [alive EXCEPT ![n] = @ \cup {m}]
  /\ UNCHANGED <<calls, poller, assignment, serving, net, pressed, served, removals, restarts>>

\* The end of add_elevator, whether the elevator was known before or not.
UpdateAfterStatus(n) ==
  /\ UNCHANGED <<calls, alive, poller, serving, net, pressed, served, removals, restarts>>
  /\ Update(n)

\* An update in some thread has read the alive elevators.
ReadAliveElevators(n) ==
  /\ view' = [view EXCEPT ![n] = alive[n]]
  /\ UNCHANGED <<calls, alive, poller, assigned, serving, net, pressed, served, removals,
                 restarts>>

\* remove_elevator_data: an elevator is struck off both lists of a call.
Without(c, m) ==
  IF c = NoCall THEN c
  ELSE [c EXCEPT !.ack = @ \ {m}, !.serviced = @ \ {m}]

\* Mutant of RemoveDead: the node's own elevator, which never hears its own
\* status, is not spared.
RemoveSilent(n, m) ==
  /\ m \in alive[n] /\ removals < MaxRemovals
  /\ alive' = [alive EXCEPT ![n] = @ \ {m}]
  /\ calls' = [calls EXCEPT ![n] = [id \in Id |-> Without(@[id], m)]]
  /\ removals' = removals + 1
  /\ UNCHANGED <<poller, serving, net, pressed, served, restarts>>
  /\ Update(n)

\* dead_connection_remover: no status of m has come through for a while,
\* because m is down or because the network lost them.
RemoveDead(n, m) ==
  /\ m # n /\ m \in alive[n] /\ removals < MaxRemovals
  /\ alive' = [alive EXCEPT ![n] = @ \ {m}]
  /\ calls' = [calls EXCEPT ![n] = [id \in Id |-> Without(@[id], m)]]
  /\ removals' = removals + 1
  /\ UNCHANGED <<poller, serving, net, pressed, served, restarts>>
  /\ Update(n)

\* A datagram reaches nobody any more.
Lose(m) ==
  /\ net' = net \ {m}
  /\ UNCHANGED <<calls, alive, poller, assignment, serving, pressed, served, removals,
                 restarts>>

(* The FSM thread.                                                         *)

\* handle_event reads the assigned calls ...
PickCall(n, id) ==
  /\ serving[n] = NoId
  /\ id \in assigned[n]
  /\ serving' = [serving EXCEPT ![n] = id]
  /\ UNCHANGED <<calls, alive, poller, assignment, net, pressed, served, removals, restarts>>

\* ... and clear_orders services one later, whatever has become of it.
ServiceCall(n) ==
  LET id == serving[n] IN
  /\ id # NoId
  /\ calls' = [calls EXCEPT ![n][id].serviced = @ \cup {n}]
  /\ served' = served \cup {calls[n][id].press}
  /\ serving' = [serving EXCEPT ![n] = NoId]
  /\ UNCHANGED <<alive, poller, net, pressed, removals, restarts>>
  /\ Update(n)

(* The process dies and is started again: everything is in memory only.    *)
Restart(n) ==
  /\ restarts < MaxRestarts
  /\ restarts' = restarts + 1
  /\ calls' = [calls EXCEPT ![n] = [id \in Id |-> NoCall]]
  /\ alive' = [alive EXCEPT ![n] = {n}]
  /\ poller' = [poller EXCEPT ![n] = Idle]
  /\ view' = [view EXCEPT ![n] = {n}]
  /\ assigned' = [assigned EXCEPT ![n] = {}]
  /\ serving' = [serving EXCEPT ![n] = NoId]
  /\ UNCHANGED <<net, pressed, served, removals>>

\* What running programs and the network between them do.
Step == \/ \E m \in net : Lose(m)
        \/ \E n \in Node :
          \/ \E b \in Panel : PressButton(n, b)
          \/ TakeNumber(n)
          \/ AddNewCall(n)
          \/ \E id \in Id : Transmit(n, id)
          \/ \E m \in net : Receive(n, m)
          \/ \E m \in Node : ReceiveStatus(n, m)
          \/ UpdateAfterStatus(n) \/ ReadAliveElevators(n)
          \/ \E m \in Node : RemoveDead(n, m)
          \/ \E id \in Id : PickCall(n, id)
          \/ ServiceCall(n)

Next == Step \/ \E n \in Node : Restart(n)

Spec == Init /\ [][Next]_vars

\* Spec without crashes.
SteadySpec == Init /\ [][Step]_vars

\* n receives the call id as m has it at present.
ReceiveCopy(n, m, id) == id \in Known(m) /\ Receive(n, MessageOf(id, calls[m][id]))

\* The transmit threads keep running, and a status message comes through in
\* the end.  Call messages may be lost again and again, but of a copy that is
\* underway again and again, because the transmit thread repeats itself while
\* its condition holds, one comes through.
Fairness ==
  \A n \in Node :
    /\ \A id \in Id : WF_vars(Transmit(n, id))
    /\ \A m \in Node \ {n} : /\ WF_vars(ReceiveStatus(n, m))
                             /\ \A id \in Id : SF_vars(ReceiveCopy(n, m, id))

FairSpec == SteadySpec /\ Fairness

-----------------------------------------------------------------------------
(* Properties.                                                             *)

TypeOK == /\ calls \in [Node -> [Id -> Call \cup {NoCall}]]
          /\ alive \in [Node -> SUBSET Node] /\ \A n \in Node : n \in alive[n]
          /\ view \in [Node -> SUBSET Node]
          /\ assigned \in [Node -> SUBSET Id]
          /\ poller \in [Node -> Poller]
          /\ serving \in [Node -> Id \cup {NoId}]
          /\ net \subseteq Message
          /\ pressed \in 0 .. MaxPresses
          /\ served \subseteq Press
          /\ removals \in 0 .. MaxRemovals
          /\ restarts \in 0 .. MaxRestarts

\* Every node is itself on the lists of the calls it keeps: the only entries
\* that remove_elevator can never strike off.
ListsItself ==
  \A n \in Node : \A id \in Known(n) :
    /\ n \in calls[n][id].ack
    /\ ~IsOpen(calls[n][id]) => n \in calls[n][id].serviced

\* A call a node knows to be serviced never turns into an open one again, not
\* by removing the elevator that serviced it nor by a late message; only a
\* restart forgets it.
ServicedForGood ==
  [][\A n \in Node : \A id \in Known(n) :
       ~IsOpen(calls[n][id]) => calls'[n][id] = NoCall \/ ~IsOpen(calls'[n][id])]_vars

\* Calls are uniquely defined by their ids: two nodes with a call of the same
\* id mean the same press of the same button (inc/data/README.md:12).
CallIdAgreement ==
  \A n, m \in Node : \A id \in Known(n) \cap Known(m) :
    calls[n][id].button = calls[m][id].button /\ calls[n][id].press = calls[m][id].press

\* What the documentation says outright, without the history variable: one
\* id never stands for two different buttons.
OneButtonPerId ==
  \A n, m \in Node : \A id \in Known(n) \cap Known(m) :
    calls[n][id].button = calls[m][id].button

\* An elevator on an acknowledgement list really has the call: a lit button
\* and an assignment rest on every alive elevator having it.
AckMeansKnown ==
  \A n \in Node : \A id \in Known(n) : \A m \in calls[n][id].ack :
    id \in Known(m)

\* A call counts as serviced only if a car has come for that press.
ServicedMeansServed ==
  \A n \in Node : \A id \in Known(n) :
    ~IsOpen(calls[n][id]) => calls[n][id].press \in served

\* A node never has two open calls of its own for the same button, although
\* the check, the number and the insertion of a press are separate steps.
OneOpenOwnCall ==
  \A n \in Node : \A i, j \in Known(n) :
    /\ i.origin = n /\ j.origin = n
    /\ IsOpen(calls[n][i]) /\ IsOpen(calls[n][j])
    /\ calls[n][i].button = calls[n][j].button
    => i = j

\* The calls a node has, those it holds to be serviced, those assigned to its
\* car, and the one that is about to service, each as the press it stands for.
PressesKnown(n) == {calls[n][id].press : id \in Known(n)}
PressesDone(n)  == {calls[n][id].press : id \in {i \in Known(n) : ~IsOpen(calls[n][i])}}
PressesOffered(n) == {calls[n][id].press : id \in assigned[n]}
PressHeading(n) == IF serving[n] = NoId THEN 0 ELSE calls[n][serving[n]].press

\* The calls of a node, taken as presses, keep the promise of CallBoard: what
\* ids, merged lists, late messages and removed elevators do to the copies of
\* a call only spreads what somebody knows, no call is written off without a
\* car, and a car is sent only for calls that, when they were last assigned,
\* all elevators had that the node held to be alive, or had held to be when
\* the update read them.  One that has come alive since may lack the call.
BoardOf == INSTANCE CallBoard WITH
  NoPress <- 0,
  seen    <- view,
  offered <- [n \in Node |-> PressesOffered(n)],
  known   <- [n \in Node |-> PressesKnown(n)],
  done    <- [n \in Node |-> PressesDone(n)],
  heading <- [n \in Node |-> PressHeading(n)]

ImplementsCallBoard == BoardOf!Spec

\* Every call a node has is in the end known to and acknowledged by all, on
\* every copy, in spite of lost messages and removed elevators: the buttons
\* light up and the call can be assigned.
AckCompletes ==
  \A id \in Id :
    (\E n \in Node : id \in Known(n))
      ~> \A m \in Node : id \in Known(m) /\ calls[m][id].ack = Node

\* Every call that one node knows to be serviced is in the end serviced on
\* every copy, with everybody on the list: no light stays on, no second car
\* is sent, and the transmissions stop.
ServiceCompletes ==
  \A id \in Id :
    (\E n \in Node : id \in Known(n) /\ ~IsOpen(calls[n][id]))
      ~> \A m \in Node : id \in Known(m) /\ calls[m][id].serviced = Node
=============================================================================
