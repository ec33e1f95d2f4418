------------------------------- MODULE Lights -------------------------------
(***************************************************************************)
(* The button lamps (Light_controller, elevator_light_thread.cpp) over the *)
(* replicated calls of CallReplication.  A lamp tells a passenger that the *)
(* call is in good hands.  The light thread works it out from the list of  *)
(* alive elevators, the call list and the two lists of each call, which it *)
(* reads one after the other while the network and FSM threads change all  *)
(* of them; a round ends with the lamps that differ being written.         *)
(***************************************************************************)
EXTENDS CallReplication

CONSTANTS Watched          \* nodes whose lamps are looked at

ASSUME WatchedAssumption == Watched \subseteq Node

VARIABLES
  lamp,         \* light_matrix and the lamps: the buttons that are lit
  round,        \* how far the light thread has got in its round
  seen,         \* alive_elevators, as read in this round
  todo,         \* the calls of call_list it has yet to look at
  call,         \* the call it looks at, or NoId
  unread,       \* the elevators seen whose acknowledgement it has yet to read
  temp          \* temp_matrix: the buttons found so far

check     == <<todo, call, unread, temp>>
lights    == <<lamp, round, seen, check>>
lightVars == <<vars, lights>>

LightsInit == /\ Init
              /\ lamp = [n \in Watched |-> {}]
              /\ round = [n \in Watched |-> "alive"]
              /\ seen = [n \in Watched |-> {}]
              /\ todo = [n \in Watched |-> {}]
              /\ call = [n \in Watched |-> NoId]
              /\ unread = [n \in Watched |-> {}]
              /\ temp = [n \in Watched |-> {}]

ReadAlive(n) ==
  /\ round[n] = "alive"
  /\ seen' = [seen EXCEPT ![n] = alive[n]]
  /\ round' = [round EXCEPT ![n] = "list"]
  /\ UNCHANGED <<vars, lamp, check>>

\* Mutant of OwnButton: nobody asks whose call it is.
AnyButton(n, id) == TRUE

\* A hall call, or a cab call of this elevator.
OwnButton(n, id) == calls[n][id].button \in Hall \/ id.origin = n

\* get_call_list.  Calls that do not concern this panel are passed over.
ReadCallList(n) ==
  /\ round[n] = "list"
  /\ todo' = [todo EXCEPT ![n] = {id \in Known(n) : OwnButton(n, id)}]
  /\ round' = [round EXCEPT ![n] = "check"]
  /\ UNCHANGED <<vars, lamp, seen, call, unread, temp>>

\* For each elevator seen alive the call's acknowledgements are read anew.
TakeUpCall(n, id) ==
  /\ round[n] = "check" /\ call[n] = NoId /\ id \in todo[n]
  /\ todo' = [todo EXCEPT ![n] = @ \ {id}]
  /\ call' = [call EXCEPT ![n] = id]
  /\ unread' = [unread EXCEPT ![n] = seen[n]]
  /\ UNCHANGED <<vars, lamp, round, seen, temp>>

\* One that has acknowledged the call is counted.
CountAck(n, m) ==
  /\ call[n] # NoId /\ m \in unread[n] /\ m \in calls[n][call[n]].ack
  /\ unread' = [unread EXCEPT ![n] = @ \ {m}]
  /\ UNCHANGED <<vars, lamp, round, seen, todo, call, temp>>

\* The count can no longer reach the number of elevators.
PassOver(n, m) ==
  /\ call[n] # NoId /\ m \in unread[n] /\ m \notin calls[n][call[n]].ack
  /\ call' = [call EXCEPT ![n] = NoId]
  /\ unread' = [unread EXCEPT ![n] = {}]
  /\ UNCHANGED <<vars, lamp, round, seen, todo, temp>>

\* Mutant of Decide: it does not wait for the count.
DecideUncounted(n) ==
  /\ call[n] # NoId
  /\ temp' = [temp EXCEPT ![n] = @ \cup {calls[n][id].button : id \in {call[n]}}]
  /\ call' = [call EXCEPT ![n] = NoId]
  /\ unread' = [unread EXCEPT ![n] = {}]
  /\ UNCHANGED <<vars, lamp, round, seen, todo>>

\* Everybody has been counted: now the serviced list is read.
Decide(n) ==
  /\ call[n] # NoId /\ unread[n] = {}
  /\ temp' = [temp EXCEPT ![n] =
                @ \cup {calls[n][id].button : id \in {i \in {call[n]} : IsOpen(calls[n][i])}}]
  /\ call' = [call EXCEPT ![n] = NoId]
  /\ UNCHANGED <<vars, lamp, round, seen, todo, unread>>

\* Mutant of UpdateLamps: lamps are switched on only.
UpdateLampsOn(n) ==
  /\ round[n] = "check" /\ todo[n] = {} /\ call[n] = NoId
  /\ lamp' = [lamp EXCEPT ![n] = @ \cup temp[n]]
  /\ temp' = [temp EXCEPT ![n] = {}]
  /\ round' = [round EXCEPT ![n] = "alive"]
  /\ UNCHANGED <<vars, seen, todo, call, unread>>

UpdateLamps(n) ==
  /\ round[n] = "check" /\ todo[n] = {} /\ call[n] = NoId
  /\ lamp' = [lamp EXCEPT ![n] = temp[n]]
  /\ temp' = [temp EXCEPT ![n] = {}]
  /\ round' = [round EXCEPT ![n] = "alive"]
  /\ UNCHANGED <<vars, seen, todo, call, unread>>

\* A program that starts again begins with all lamps off.
RestartLit(n) ==
  /\ Restart(n)
  /\ lamp' = [m \in Watched |-> IF m = n THEN {} ELSE lamp[m]]
  /\ round' = [m \in Watched |-> IF m = n THEN "alive" ELSE round[m]]
  /\ seen' = [m \in Watched |-> IF m = n THEN {} ELSE seen[m]]
  /\ todo' = [m \in Watched |-> IF m = n THEN {} ELSE todo[m]]
  /\ call' = [m \in Watched |-> IF m = n THEN NoId ELSE call[m]]
  /\ unread' = [m \in Watched |-> IF m = n THEN {} ELSE unread[m]]
  /\ temp' = [m \in Watched |-> IF m = n THEN {} ELSE temp[m]]

LightStep(n) == \/ ReadAlive(n) \/ ReadCallList(n) \/ Decide(n) \/ UpdateLamps(n)
                \/ \E id \in todo[n] : TakeUpCall(n, id)
                \/ \E m \in unread[n] : CountAck(n, m) \/ PassOver(n, m)

LightsNext == \/ \E n \in Watched : LightStep(n)
              \/ \E n \in Node : RestartLit(n)
              \/ Step /\ UNCHANGED lights

LightsSpec == LightsInit /\ [][LightsNext]_lightVars

\* The light thread never waits for anybody.
LightsFair == LightsSpec /\ \A n \in Watched : WF_lightVars(LightStep(n))

-----------------------------------------------------------------------------
(* Properties.                                                             *)

\* A lamp comes on only for a call that every elevator the light thread saw
\* alive really has, not merely for an entry on a list: of all of them, each
\* one can serve it.  Only a restart can take that back.
LampMeansKnown ==
  [][restarts = 0 => \A n \in Watched : \A b \in lamp'[n] \ lamp[n] :
       \E id \in Known(n) : /\ calls[n][id].button = b
                            /\ \A m \in seen[n] : id \in Known(m)]_lightVars

\* A cab lamp is lit for a call from that cab only, although all nodes have
\* the cab calls of all.
CabLampIsOwn ==
  \A n \in Watched : \A b \in lamp[n] \cap Cab :
    \E id \in Known(n) : id.origin = n /\ calls[n][id].button = b

OpenCalls(n, b) == {id \in Known(n) : calls[n][id].button = b /\ IsOpen(calls[n][id])}

\* No lamp stays on for a button without an open call, and none stays off
\* for one with a call that can be assigned.
LampsFollow ==
  \A n \in Watched, b \in Panel :
    /\ []<>(b \in lamp[n] => OpenCalls(n, b) # {})
    /\ []<>(b \notin lamp[n] => \A id \in OpenCalls(n, b) : ~Assignable(n, id, alive[n]))
=============================================================================
