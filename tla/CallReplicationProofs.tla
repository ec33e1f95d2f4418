----------------------- MODULE CallReplicationProofs -----------------------
(***************************************************************************)
(* Theorems about CallReplication, for every set of nodes and buttons, any *)
(* number of presses, messages and removals, and any width of the id.      *)
(*                                                                         *)
(* The first part holds whatever the nodes do, restarts included: types,   *)
(* every node on its own lists, serviced calls stay serviced.  The second  *)
(* part assumes that no node restarts (SteadySpec) and that no number      *)
(* outgrows its field; without the first the run CallReplication_reuse     *)
(* finds two calls under one id, and so would a number that starts over.   *)
(* The third part shows under the same assumptions that the nodes          *)
(* implement CallBoard.                                                    *)
(***************************************************************************)
EXTENDS CallReplication, TLAPS

-----------------------------------------------------------------------------
(* Facts about the operators.                                              *)

\* Merging yields a call: the old button and press, both lists joined.
LEMMA MergeOld ==
  ASSUME NEW old \in Call, NEW new \in Call
  PROVE  /\ Merge(old, new) \in Call
         /\ Merge(old, new).button = old.button
         /\ Merge(old, new).press = old.press
         /\ Merge(old, new).ack = old.ack \cup new.ack
         /\ Merge(old, new).serviced = old.serviced \cup new.serviced
<1>1. old # NoCall
  BY NoCallAssumption
<1> QED BY <1>1 DEF Merge, Call

LEMMA MergeType ==
  ASSUME NEW old \in Call \cup {NoCall}, NEW new \in Call
  PROVE  Merge(old, new) \in Call /\ (old = NoCall => Merge(old, new) = new)
BY MergeOld DEF Merge

\* What a receiver makes of a call is again a call, with itself on the lists.
LEMMA ReceivedType ==
  ASSUME NEW n \in Node, NEW c \in Call
  PROVE  /\ Received(n, c) \in Call
         /\ Received(n, c).button = c.button
         /\ Received(n, c).press = c.press
         /\ Received(n, c).ack = c.ack \cup {n}
         /\ c.serviced = {} => Received(n, c).serviced = {}
         /\ c.serviced # {} => Received(n, c).serviced = c.serviced \cup {n}
BY DEF Received, IsOpen, Call

\* Striking an elevator off leaves the rest of a call alone.
LEMMA WithoutType ==
  ASSUME NEW c \in Call, NEW m
  PROVE  /\ Without(c, m) \in Call
         /\ Without(c, m).button = c.button
         /\ Without(c, m).press = c.press
         /\ Without(c, m).ack = c.ack \ {m}
         /\ Without(c, m).serviced = c.serviced \ {m}
         /\ Without(NoCall, m) = NoCall
<1>1. c # NoCall
  BY NoCallAssumption
<1> QED BY <1>1 DEF Without, Call

\* Cutting a number to its field stays within the numbers, and does nothing
\* to a number that fits.
LEMMA MessageOfType ==
  ASSUME NEW id \in Id, NEW c \in Call
  PROVE  /\ MessageOf(id, c) \in Message
         /\ MaxNum < IdSpan => MessageOf(id, c) = [id |-> id, call |-> c]
<1> DEFINE k == id.num % IdSpan
<1>1. id.num \in Nat /\ id.num <= MaxNum /\ id.origin \in Node
  BY ReplicationAssumption DEF Id
<1>2. k \in 0 .. MaxNum
  BY <1>1, ReplicationAssumption
<1>3. MaxNum < IdSpan => k = id.num
  BY <1>1, ReplicationAssumption
<1>4. MessageOf(id, c) = [id |-> [id EXCEPT !.num = k], call |-> c]
  BY DEF MessageOf
<1> HIDE DEF k
<1>5. [id EXCEPT !.num = k] \in Id
  BY <1>2 DEF Id
<1>6. MaxNum < IdSpan => [id EXCEPT !.num = k] = id
  BY <1>3 DEF Id
<1> QED BY <1>4, <1>5, <1>6 DEF Message

\* add_call changes one call of one list.
LEMMA AddCallEffect ==
  ASSUME calls \in [Node -> [Id -> Call \cup {NoCall}]],
         NEW n \in Node, NEW id \in Id, NEW new \in Call,
         AddCall(n, id, new)
  PROVE  /\ calls' \in [Node -> [Id -> Call \cup {NoCall}]]
         /\ calls'[n][id] = Merge(calls[n][id], new)
         /\ \A m \in Node, i \in Id : <<m, i>> # <<n, id>> => calls'[m][i] = calls[m][i]
<1>1. Merge(calls[n][id], new) \in Call
  BY MergeType
<1>2. calls' = [calls EXCEPT ![n][id] = Merge(@, new)]
  BY DEF AddCall
<1> QED BY <1>1, <1>2

-----------------------------------------------------------------------------
(* Whatever the nodes do.                                                  *)

\* What the FSM thread is about to service is in the node's list: calls are
\* never erased from it.
ServingKnown == \A n \in Node : serving[n] # NoId => serving[n] \in Known(n)

\* So is what is assigned to its elevator, however old the assignment.
AssignedKnown == \A n \in Node : assigned[n] \subseteq Known(n)

BaseInv == TypeOK /\ ServingKnown /\ AssignedKnown /\ ListsItself

LEMMA BaseInit == Init => BaseInv
BY ReplicationAssumption, NoCallAssumption
DEF Init, BaseInv, TypeOK, ServingKnown, AssignedKnown, ListsItself, Known, Poller, Idle

\* update_locally_assigned_calls stores a new assignment for one node: open
\* calls of its list, known to everybody it read to be alive.
LEMMA UpdateEffect ==
  ASSUME TypeOK, NEW n \in Node, Update(n)
  PROVE  /\ UNCHANGED view
         /\ assigned' \in [Node -> SUBSET Id]
         /\ \A m \in Node : m # n => assigned'[m] = assigned[m]
         /\ \A id \in assigned'[n] : /\ calls'[n][id] # NoCall
                                     /\ calls'[n][id].serviced = {}
         /\ \E others \in {alive'[n], view[n]} :
              \A id \in assigned'[n] : others \subseteq calls'[n][id].ack
<1>1. PICK others \in {alive'[n], view[n]} :
        assigned' = [assigned EXCEPT ![n] = {id \in Id : Assignable(n, id, others)'}]
  BY DEF Update
<1>2. assigned'[n] = {id \in Id : Assignable(n, id, others)'}
  BY <1>1 DEF TypeOK
<1>3. \A id \in assigned'[n] : /\ calls'[n][id] # NoCall
                               /\ calls'[n][id].serviced = {}
                               /\ others \subseteq calls'[n][id].ack
  BY <1>2 DEF Assignable, Known, IsOpen
<1>4. {id \in Id : Assignable(n, id, others)'} \in SUBSET Id
  OBVIOUS
<1>5. /\ assigned' \in [Node -> SUBSET Id]
      /\ \A m \in Node : m # n => assigned'[m] = assigned[m]
  BY <1>1, <1>4 DEF TypeOK
<1>6. UNCHANGED view
  BY DEF Update
<1> QED BY <1>3, <1>5, <1>6

LEMMA AssignedStays ==
  ASSUME BaseInv, NEW n \in Node, Update(n),
         \A m \in Node, i \in Id : m # n /\ calls[m][i] # NoCall => calls'[m][i] # NoCall
  PROVE  AssignedKnown'
<1>1. /\ assigned' \in [Node -> SUBSET Id]
      /\ \A m \in Node : m # n => assigned'[m] = assigned[m]
      /\ \A id \in assigned'[n] : calls'[n][id] # NoCall
  BY UpdateEffect DEF BaseInv
<1>2. ASSUME NEW m \in Node, NEW id \in assigned'[m] PROVE id \in Id /\ calls'[m][id] # NoCall
  BY <1>1 DEF BaseInv, AssignedKnown, Known
<1> QED BY <1>2 DEF AssignedKnown, Known

\* Steps that leave the lists alone keep what is said of them.
LEMMA BaseSameCalls ==
  ASSUME BaseInv, TypeOK', UNCHANGED <<calls, serving>>,
         assigned' = assigned \/ AssignedKnown'
  PROVE  BaseInv'
BY DEF BaseInv, ServingKnown, AssignedKnown, ListsItself, Known, IsOpen

\* So does adding a call that has its keeper on its lists.
LEMMA BaseAddCall ==
  ASSUME BaseInv, TypeOK', UNCHANGED serving,
         NEW n \in Node, NEW id \in Id, NEW new \in Call, AddCall(n, id, new), Update(n),
         n \in new.ack, new.serviced # {} => n \in new.serviced
  PROVE  BaseInv'
<1>1. calls \in [Node -> [Id -> Call \cup {NoCall}]]
  BY DEF BaseInv, TypeOK
<1>2. /\ calls'[n][id] = Merge(calls[n][id], new)
      /\ \A m \in Node, i \in Id : <<m, i>> # <<n, id>> => calls'[m][i] = calls[m][i]
  BY <1>1, AddCallEffect
<1>3. calls'[n][id] \in Call /\ calls'[n][id] # NoCall
  BY <1>1, <1>2, MergeType, NoCallAssumption
<1>4. ServingKnown'
  BY <1>2, <1>3 DEF BaseInv, ServingKnown, Known
<1>5. ListsItself'
  <2> SUFFICES ASSUME NEW m \in Node, NEW i \in Id, calls'[m][i] # NoCall
               PROVE  /\ m \in calls'[m][i].ack
                      /\ calls'[m][i].serviced # {} => m \in calls'[m][i].serviced
    BY DEF ListsItself, Known, IsOpen
  <2>1. CASE <<m, i>> # <<n, id>>
    BY <1>2, <2>1 DEF BaseInv, ListsItself, Known, IsOpen
  <2>2. CASE m = n /\ i = id /\ calls[n][id] = NoCall
    BY <1>2, <2>2, MergeType
  <2>3. CASE m = n /\ i = id /\ calls[n][id] # NoCall
    <3>1. calls[n][id] \in Call
      BY <1>1, <2>3
    <3>2. /\ n \in calls[n][id].ack
          /\ calls[n][id].serviced # {} => n \in calls[n][id].serviced
      BY <2>3 DEF BaseInv, ListsItself, Known, IsOpen
    <3>3. /\ calls'[n][id].ack = calls[n][id].ack \cup new.ack
          /\ calls'[n][id].serviced = calls[n][id].serviced \cup new.serviced
      BY <1>2, <3>1, MergeOld
    <3> QED BY <2>3, <3>2, <3>3
  <2> QED BY <2>1, <2>2, <2>3
<1>6. AssignedKnown'
  BY <1>2, AssignedStays
<1> QED BY <1>4, <1>5, <1>6 DEF BaseInv

\* A message sent is a message.
LEMMA SentType ==
  ASSUME NEW msg
  PROVE  Sent(msg) \subseteq net \cup {msg}
BY DEF Sent

\* Every step preserves the base invariant.  The lists change in four
\* places only: a new call, a received one, a removal and a service.
LEMMA BaseStep == BaseInv /\ [Next]_vars => BaseInv'
<1> SUFFICES ASSUME BaseInv, [Next]_vars PROVE BaseInv'
  OBVIOUS
<1> USE DEF BaseInv
<1>1. ASSUME NEW n \in Node, NEW b \in Panel, PressButton(n, b) PROVE BaseInv'
  <2>1. pressed' \in 1 .. MaxPresses
    BY <1>1, ReplicationAssumption DEF PressButton, TypeOK
  <2>2. poller' \in [Node -> Poller]
    BY <1>1, <2>1 DEF PressButton, TypeOK, Poller, Press
  <2> QED BY <1>1, <2>1, <2>2, BaseSameCalls DEF PressButton, TypeOK, assignment
<1>2. ASSUME NEW n \in Node, TakeNumber(n) PROVE BaseInv'
  <2>1. poller' \in [Node -> Poller]
    BY <1>2 DEF TakeNumber, TypeOK, Poller, Idle
  <2> QED BY <1>2, <2>1, BaseSameCalls DEF TakeNumber, TypeOK, assignment
<1>3. ASSUME NEW n \in Node, AddNewCall(n) PROVE BaseInv'
  <2> DEFINE id == [origin |-> n, num |-> poller[n].num]
             new == [button |-> poller[n].button, press |-> poller[n].press,
                     ack |-> {n}, serviced |-> {}]
  <2>1. id \in Id /\ new \in Call
    BY <1>3 DEF AddNewCall, TypeOK, Poller, Idle, Id, Call
  <2>2. AddCall(n, id, new)
    BY <1>3 DEF AddNewCall
  <2>3. calls' \in [Node -> [Id -> Call \cup {NoCall}]]
    <3> HIDE DEF id, new
    <3> QED BY <2>1, <2>2, AddCallEffect DEF TypeOK
  <2>4. TypeOK' /\ Update(n)
    <3>1. Update(n) /\ poller' \in [Node -> Poller]
      BY <1>3 DEF AddNewCall, TypeOK, Poller
    <3>2. UNCHANGED view /\ assigned' \in [Node -> SUBSET Id]
      BY <3>1, UpdateEffect
    <3> QED BY <1>3, <2>3, <3>1, <3>2 DEF AddNewCall, TypeOK
  <2>5. n \in new.ack /\ new.serviced = {}
    OBVIOUS
  <2> HIDE DEF id, new
  <2> QED BY <1>3, <2>1, <2>2, <2>4, <2>5, BaseAddCall DEF AddNewCall
<1>4. ASSUME NEW n \in Node, NEW id \in Id, Transmit(n, id) PROVE BaseInv'
  <2>1. MessageOf(id, calls[n][id]) \in Message
    BY <1>4, MessageOfType DEF Transmit, Known, TypeOK
  <2>2. net' \subseteq Message
    BY <1>4, <2>1, SentType DEF Transmit, TypeOK
  <2> QED BY <1>4, <2>2, BaseSameCalls DEF Transmit, TypeOK, assignment
<1>5. ASSUME NEW n \in Node, NEW m \in net, Receive(n, m) PROVE BaseInv'
  <2>1. m.id \in Id /\ m.call \in Call
    BY DEF TypeOK, Message
  <2>2. Received(n, m.call) \in Call
    BY <2>1, ReceivedType
  <2>3. AddCall(n, m.id, Received(n, m.call))
    BY <1>5 DEF Receive
  <2>4. /\ calls' \in [Node -> [Id -> Call \cup {NoCall}]]
        /\ calls'[n][m.id] \in Call
    <3>1. calls \in [Node -> [Id -> Call \cup {NoCall}]] /\ calls[n][m.id] \in Call \cup {NoCall}
      BY <2>1 DEF TypeOK
    <3>2. /\ calls' \in [Node -> [Id -> Call \cup {NoCall}]]
          /\ calls'[n][m.id] = Merge(calls[n][m.id], Received(n, m.call))
      BY <2>1, <2>2, <2>3, <3>1, AddCallEffect
    <3> QED BY <2>2, <3>1, <3>2, MergeType
  <2>5. net' \subseteq Message
    BY <1>5, <2>1, <2>4, MessageOfType, SentType DEF Receive, TypeOK
  <2>6. TypeOK' /\ Update(n)
    <3>1. Update(n)
      BY <1>5 DEF Receive
    <3>2. UNCHANGED view /\ assigned' \in [Node -> SUBSET Id]
      BY <3>1, UpdateEffect
    <3> QED BY <1>5, <2>4, <2>5, <3>1, <3>2 DEF Receive, TypeOK
  <2>7. /\ n \in Received(n, m.call).ack
        /\ Received(n, m.call).serviced # {} => n \in Received(n, m.call).serviced
    BY <2>1, ReceivedType
  <2> QED BY <1>5, <2>1, <2>2, <2>3, <2>6, <2>7, BaseAddCall DEF Receive
<1>6. ASSUME NEW n \in Node, NEW m \in Node, ReceiveStatus(n, m) PROVE BaseInv'
  BY <1>6, BaseSameCalls DEF ReceiveStatus, TypeOK, assignment
<1>7. ASSUME NEW n \in Node, NEW m \in Node, RemoveDead(n, m) PROVE BaseInv'
  <2>1. calls' = [calls EXCEPT ![n] = [id \in Id |-> Without(@[id], m)]]
    BY <1>7 DEF RemoveDead
  <2>2. \A id \in Id : calls'[n][id] = Without(calls[n][id], m)
    BY <2>1 DEF TypeOK
  <2>3. \A k \in Node, id \in Id : k # n => calls'[k][id] = calls[k][id]
    BY <2>1 DEF TypeOK
  <2>4. calls' \in [Node -> [Id -> Call \cup {NoCall}]]
    <3>1. [id \in Id |-> Without(calls[n][id], m)] \in [Id -> Call \cup {NoCall}]
      <4>1. ASSUME NEW id \in Id PROVE Without(calls[n][id], m) \in Call \cup {NoCall}
        <5>1. calls[n][id] \in Call \/ calls[n][id] = NoCall
          BY DEF TypeOK
        <5> QED BY <5>1, WithoutType DEF Without
      <4> QED BY <4>1
    <3> QED BY <2>1, <3>1 DEF TypeOK
  <2>5. TypeOK'
    <3>1. removals' \in 0 .. MaxRemovals
      BY <1>7, ReplicationAssumption DEF RemoveDead, TypeOK
    <3>2. alive' \in [Node -> SUBSET Node] /\ \A k \in Node : k \in alive'[k]
      BY <1>7 DEF RemoveDead, TypeOK
    <3>3. Update(n)
      BY <1>7 DEF RemoveDead
    <3>4. UNCHANGED view /\ assigned' \in [Node -> SUBSET Id]
      BY <3>3, UpdateEffect
    <3> QED BY <1>7, <2>4, <3>1, <3>2, <3>4 DEF RemoveDead, TypeOK
  <2>6. \A id \in Id : calls[n][id] # NoCall =>
          /\ calls'[n][id] # NoCall
          /\ calls'[n][id].ack = calls[n][id].ack \ {m}
          /\ calls'[n][id].serviced = calls[n][id].serviced \ {m}
    BY <2>2, WithoutType, NoCallAssumption DEF TypeOK
  <2>7. \A id \in Id : calls[n][id] = NoCall => calls'[n][id] = NoCall
    BY <2>2 DEF Without
  <2>8. ServingKnown'
    BY <1>7, <2>3, <2>6 DEF RemoveDead, ServingKnown, Known
  <2>9. m # n
    BY <1>7 DEF RemoveDead
  <2>10. ListsItself'
    BY <2>3, <2>6, <2>7, <2>9 DEF ListsItself, Known, IsOpen
  <2>11. AssignedKnown'
    BY <1>7, <2>3, AssignedStays DEF RemoveDead
  <2> QED BY <2>5, <2>8, <2>10, <2>11
<1>8. ASSUME NEW n \in Node, NEW id \in Id, PickCall(n, id) PROVE BaseInv'
  BY <1>8 DEF PickCall, TypeOK, ServingKnown, AssignedKnown, ListsItself, Known, IsOpen,
              assignment
<1>9. ASSUME NEW n \in Node, ServiceCall(n) PROVE BaseInv'
  <2> DEFINE id == serving[n]
             c == calls[n][id]
  <2>1. id \in Id /\ c \in Call /\ c # NoCall
    BY <1>9 DEF ServiceCall, TypeOK, ServingKnown, Known
  <2>2. calls' = [calls EXCEPT ![n][id] = [c EXCEPT !.serviced = @ \cup {n}]]
    BY <1>9 DEF ServiceCall
  <2> HIDE DEF id
  <2>3. /\ [c EXCEPT !.serviced = @ \cup {n}] \in Call
        /\ [c EXCEPT !.serviced = @ \cup {n}].ack = c.ack
        /\ [c EXCEPT !.serviced = @ \cup {n}].serviced = c.serviced \cup {n}
    BY <2>1 DEF Call
  <2>4. calls' \in [Node -> [Id -> Call \cup {NoCall}]]
    BY <2>1, <2>2, <2>3 DEF TypeOK
  <2>5. /\ calls'[n][id] \in Call /\ calls'[n][id] # NoCall
        /\ calls'[n][id].ack = c.ack
        /\ calls'[n][id].serviced = c.serviced \cup {n}
    BY <2>1, <2>2, <2>3, NoCallAssumption DEF TypeOK
  <2>6. \A k \in Node, i \in Id : <<k, i>> # <<n, id>> => calls'[k][i] = calls[k][i]
    BY <2>1, <2>2 DEF TypeOK
  <2>7. TypeOK'
    <3>1. c.press \in Press
      BY <2>1 DEF Call
    <3>2. served' = served \cup {c.press}
      BY <1>9 DEF ServiceCall, id
    <3>3. Update(n)
      BY <1>9 DEF ServiceCall
    <3>4. UNCHANGED view /\ assigned' \in [Node -> SUBSET Id]
      BY <3>3, UpdateEffect
    <3>5. serving' \in [Node -> Id \cup {NoId}]
      BY <1>9 DEF ServiceCall, TypeOK
    <3> QED BY <1>9, <2>4, <3>1, <3>2, <3>4, <3>5 DEF ServiceCall, TypeOK
  <2>8. ServingKnown'
    BY <1>9, <2>5, <2>6 DEF ServiceCall, ServingKnown, Known, TypeOK
  <2>9. ListsItself'
    BY <2>1, <2>5, <2>6 DEF ListsItself, Known, IsOpen
  <2>10. AssignedKnown'
    BY <1>9, <2>6, AssignedStays DEF ServiceCall
  <2> QED BY <2>7, <2>8, <2>9, <2>10
<1>10. ASSUME NEW n \in Node, Restart(n) PROVE BaseInv'
  <2>1. TypeOK'
    BY <1>10, ReplicationAssumption DEF Restart, TypeOK, Poller
  <2> QED BY <1>10, <2>1 DEF Restart, TypeOK, ServingKnown, AssignedKnown,
                            ListsItself, Known, IsOpen
<1>11. ASSUME NEW m \in net, Lose(m) PROVE BaseInv'
  BY <1>11, BaseSameCalls DEF Lose, TypeOK, assignment
<1>12. ASSUME NEW n \in Node, UpdateAfterStatus(n) PROVE BaseInv'
  <2>1. Update(n) /\ UNCHANGED <<calls, alive, poller, serving, net, pressed, served,
                                 removals, restarts>>
    BY <1>12 DEF UpdateAfterStatus
  <2>2. UNCHANGED view /\ assigned' \in [Node -> SUBSET Id]
    BY <2>1, UpdateEffect
  <2>3. AssignedKnown'
    BY <2>1, AssignedStays
  <2> QED BY <2>1, <2>2, <2>3, BaseSameCalls DEF TypeOK
<1>13. ASSUME NEW n \in Node, ReadAliveElevators(n) PROVE BaseInv'
  BY <1>13, BaseSameCalls DEF ReadAliveElevators, TypeOK
<1>14. CASE UNCHANGED vars
  BY <1>14, BaseSameCalls DEF vars, TypeOK, assignment
<1> QED
  BY <1>1, <1>2, <1>3, <1>4, <1>5, <1>6, <1>7, <1>8, <1>9, <1>10, <1>11, <1>12, <1>13,
     <1>14, SMTT(30) DEF Next, Step

LEMMA BaseInvariant == Spec => []BaseInv
BY BaseInit, BaseStep, PTL DEF Spec

\* The lists, the poller's progress, the calls underway and the messages
\* always have the form the code gives them, in particular no step services
\* a call that is not in the list.
THEOREM TypeCorrect == Spec => []TypeOK
<1>1. BaseInv => TypeOK
  BY DEF BaseInv
<1> QED BY <1>1, BaseInvariant, PTL

\* Every node stays on the lists of the calls it keeps, whatever is removed,
\* lost or restarted (remove_elevator_data in call_class.cpp).
THEOREM NodeListsItself == Spec => []ListsItself
<1>1. BaseInv => ListsItself
  BY DEF BaseInv
<1> QED BY <1>1, BaseInvariant, PTL

\* A serviced call is open again neither after a late message nor after the
\* elevator that serviced it is removed.
THEOREM ServicedStays == Spec => ServicedForGood
<1> DEFINE Stays == \A n \in Node : \A id \in Known(n) :
                      ~IsOpen(calls[n][id])
                        => calls'[n][id] = NoCall \/ ~IsOpen(calls'[n][id])
<1>1. ASSUME NEW n \in Node, NEW id \in Id, NEW new \in Call, BaseInv,
             AddCall(n, id, new)
      PROVE  Stays
  <2>1. calls \in [Node -> [Id -> Call \cup {NoCall}]]
    BY <1>1 DEF BaseInv, TypeOK
  <2>2. /\ calls'[n][id] = Merge(calls[n][id], new)
        /\ \A m \in Node, i \in Id : <<m, i>> # <<n, id>> => calls'[m][i] = calls[m][i]
    BY <1>1, <2>1, AddCallEffect
  <2>3. calls[n][id] # NoCall
          => calls'[n][id].serviced = calls[n][id].serviced \cup new.serviced
    BY <2>1, <2>2, MergeOld
  <2> QED BY <2>2, <2>3 DEF Known, IsOpen
<1>2. BaseInv /\ [Next]_vars => [Stays]_vars
  <2> SUFFICES ASSUME BaseInv, Next PROVE Stays
    OBVIOUS
  <2>1. ASSUME UNCHANGED calls PROVE Stays
    BY <2>1 DEF Known
  <2>2. ASSUME NEW n \in Node, AddNewCall(n) PROVE Stays
    <3> DEFINE id == [origin |-> n, num |-> poller[n].num]
               new == [button |-> poller[n].button, press |-> poller[n].press,
                       ack |-> {n}, serviced |-> {}]
    <3>1. id \in Id /\ new \in Call
      BY <2>2 DEF AddNewCall, BaseInv, TypeOK, Poller, Idle, Id, Call
    <3>2. AddCall(n, id, new)
      BY <2>2 DEF AddNewCall
    <3> HIDE DEF id, new
    <3> QED BY <1>1, <3>1, <3>2
  <2>3. ASSUME NEW n \in Node, NEW m \in net, Receive(n, m) PROVE Stays
    <3>1. m.id \in Id /\ m.call \in Call
      BY DEF BaseInv, TypeOK, Message
    <3>2. Received(n, m.call) \in Call
      BY <3>1, ReceivedType
    <3>3. AddCall(n, m.id, Received(n, m.call))
      BY <2>3 DEF Receive
    <3> QED BY <1>1, <3>1, <3>2, <3>3
  <2>4. ASSUME NEW n \in Node, NEW m \in Node, RemoveDead(n, m) PROVE Stays
    <3>1. m # n /\ calls' = [calls EXCEPT ![n] = [id \in Id |-> Without(@[id], m)]]
      BY <2>4 DEF RemoveDead
    <3>2. \A id \in Id : calls'[n][id] = Without(calls[n][id], m)
      BY <3>1 DEF BaseInv, TypeOK
    <3>3. \A k \in Node, id \in Id : k # n => calls'[k][id] = calls[k][id]
      BY <3>1 DEF BaseInv, TypeOK
    <3>4. \A id \in Known(n) : calls'[n][id].serviced = calls[n][id].serviced \ {m}
      BY <3>2, WithoutType DEF BaseInv, TypeOK, Known
    <3>5. \A id \in Known(n) : ~IsOpen(calls[n][id]) => n \in calls[n][id].serviced
      BY DEF BaseInv, ListsItself
    <3> QED BY <3>1, <3>3, <3>4, <3>5 DEF Known, IsOpen
  <2>5. ASSUME NEW n \in Node, ServiceCall(n) PROVE Stays
    <3>1. serving[n] \in Id /\ calls[n][serving[n]] \in Call
      BY <2>5 DEF ServiceCall, BaseInv, TypeOK, ServingKnown, Known
    <3>2. calls' = [calls EXCEPT ![n][serving[n]].serviced = @ \cup {n}]
      BY <2>5 DEF ServiceCall
    <3>3. calls'[n][serving[n]].serviced = calls[n][serving[n]].serviced \cup {n}
      BY <3>1, <3>2 DEF BaseInv, TypeOK, Call
    <3>4. \A k \in Node, i \in Id :
            <<k, i>> # <<n, serving[n]>> => calls'[k][i] = calls[k][i]
      BY <3>1, <3>2 DEF BaseInv, TypeOK
    <3> QED BY <3>3, <3>4 DEF Known, IsOpen
  <2>6. ASSUME NEW n \in Node, Restart(n) PROVE Stays
    BY <2>6 DEF Restart, BaseInv, TypeOK, Known
  <2>7. \/ \E n \in Node : AddNewCall(n) \/ ServiceCall(n) \/ Restart(n)
        \/ \E n \in Node : \E m \in net : Receive(n, m)
        \/ \E n \in Node : \E m \in Node : RemoveDead(n, m)
        \/ UNCHANGED calls
    BY DEF Next, Step, Lose, PressButton, TakeNumber, Transmit, ReceiveStatus,
           UpdateAfterStatus, ReadAliveElevators, PickCall
  <2> QED BY <2>1, <2>2, <2>3, <2>4, <2>5, <2>6, <2>7
<1> QED BY <1>2, BaseInvariant, PTL DEF Spec, ServicedForGood

-----------------------------------------------------------------------------
(* Without restarts, and with numbers that fit their field.                *)

\* What is true of every copy of a call, on a list or in a message, given
\* the lists cs and the presses sv served so far: the node the call comes
\* from has it, with the same button and press; so has everybody who is on
\* the acknowledgement list; and it is serviced only if a car came.
Sound(cs, sv, id, c) ==
  /\ cs[id.origin][id] # NoCall
  /\ c.button = cs[id.origin][id].button
  /\ c.press = cs[id.origin][id].press
  /\ \A m \in c.ack : cs[m][id] # NoCall
  /\ c.serviced # {} => c.press \in sv

ListsSound    == \A n \in Node, id \in Id :
                   calls[n][id] # NoCall => Sound(calls, served, id, calls[n][id])
MessagesSound == \A m \in net : Sound(calls, served, m.id, m.call)

\* The number the poller has taken is still free when it adds the call,
\* although the receive thread runs in between: a call of this node can only
\* be received if the node has it already.
FreshNumber ==
  \A n \in Node : poller[n].pc = "add"
                    => calls[n][[origin |-> n, num |-> poller[n].num]] = NoCall

\* The check for a similar call still holds when the call is added.
PressIsNew ==
  \A n \in Node, id \in Id :
    /\ poller[n].pc \in {"number", "add"}
    /\ id.origin = n /\ calls[n][id] # NoCall
    /\ calls[n][id].button = poller[n].button
    => calls[n][id].serviced # {}

IInv == BaseInv /\ ListsSound /\ MessagesSound /\ FreshNumber /\ PressIsNew /\ OneOpenOwnCall

LEMMA IInvInit == Init => IInv
<1> SUFFICES ASSUME Init PROVE IInv
  OBVIOUS
<1>1. BaseInv
  BY BaseInit
<1> QED
  BY <1>1 DEF Init, IInv, ListsSound, MessagesSound, FreshNumber, PressIsNew,
              OneOpenOwnCall, Known, Idle

\* Lists grow: what a node has it keeps, with its button and press.
Grows(cs, cs2) ==
  \A n \in Node, id \in Id :
    cs[n][id] # NoCall => /\ cs2[n][id] # NoCall
                          /\ cs2[n][id].button = cs[n][id].button
                          /\ cs2[n][id].press = cs[n][id].press

\* A sound copy stays sound when lists grow and presses are served.
LEMMA SoundStays ==
  ASSUME NEW cs, NEW cs2, NEW sv, NEW sv2, Grows(cs, cs2), sv \subseteq sv2,
         NEW id \in Id, NEW c \in Call, Sound(cs, sv, id, c)
  PROVE  Sound(cs2, sv2, id, c)
<1>1. id.origin \in Node /\ c.ack \subseteq Node
  BY DEF Id, Call
<1> QED BY <1>1 DEF Sound, Grows

\* Two sound copies merge into a sound one.
LEMMA SoundMerge ==
  ASSUME NEW cs, NEW sv, NEW id \in Id, NEW old \in Call, NEW new \in Call,
         Sound(cs, sv, id, old), Sound(cs, sv, id, new)
  PROVE  Sound(cs, sv, id, Merge(old, new))
BY MergeOld DEF Sound

\* A sound copy that loses entries of its lists stays sound.
LEMMA SoundLess ==
  ASSUME NEW cs, NEW sv, NEW id \in Id, NEW c, NEW d, Sound(cs, sv, id, c),
         d.button = c.button, d.press = c.press,
         d.ack \subseteq c.ack, d.serviced \subseteq c.serviced
  PROVE  Sound(cs, sv, id, d)
BY DEF Sound

LEMMA AddCallGrows ==
  ASSUME BaseInv, NEW n \in Node, NEW id \in Id, NEW new \in Call, AddCall(n, id, new)
  PROVE  Grows(calls, calls')
<1>1. calls \in [Node -> [Id -> Call \cup {NoCall}]]
  BY DEF BaseInv, TypeOK
<1>2. /\ calls'[n][id] = Merge(calls[n][id], new)
      /\ \A m \in Node, i \in Id : <<m, i>> # <<n, id>> => calls'[m][i] = calls[m][i]
  BY <1>1, AddCallEffect
<1>3. calls[n][id] # NoCall => /\ calls'[n][id] # NoCall
                               /\ calls'[n][id].button = calls[n][id].button
                               /\ calls'[n][id].press = calls[n][id].press
  BY <1>1, <1>2, MergeOld, NoCallAssumption
<1> QED BY <1>2, <1>3 DEF Grows

\* What is on the lists and underway stays sound when they grow.
LEMMA OldCopiesSound ==
  ASSUME IInv, Grows(calls, calls'), served \subseteq served'
  PROVE  /\ \A n \in Node, id \in Id :
              calls[n][id] # NoCall => Sound(calls', served', id, calls[n][id])
         /\ \A m \in net : Sound(calls', served', m.id, m.call)
<1>1. ASSUME NEW n \in Node, NEW id \in Id, calls[n][id] # NoCall
      PROVE  Sound(calls', served', id, calls[n][id])
  <2>1. calls[n][id] \in Call /\ Sound(calls, served, id, calls[n][id])
    BY <1>1 DEF IInv, BaseInv, TypeOK, ListsSound
  <2> QED BY <2>1, SoundStays
<1>2. ASSUME NEW m \in net PROVE Sound(calls', served', m.id, m.call)
  <2>1. m.id \in Id /\ m.call \in Call /\ Sound(calls, served, m.id, m.call)
    BY DEF IInv, BaseInv, TypeOK, Message, MessagesSound
  <2> QED BY <2>1, SoundStays
<1> QED BY <1>1, <1>2

\* Adding a sound call keeps every list sound.
LEMMA AddCallSound ==
  ASSUME IInv, NEW n \in Node, NEW id \in Id, NEW new \in Call, AddCall(n, id, new),
         served' = served, Sound(calls', served', id, new)
  PROVE  ListsSound'
<1>1. calls \in [Node -> [Id -> Call \cup {NoCall}]]
  BY DEF IInv, BaseInv, TypeOK
<1>2. /\ calls'[n][id] = Merge(calls[n][id], new)
      /\ \A m \in Node, i \in Id : <<m, i>> # <<n, id>> => calls'[m][i] = calls[m][i]
  BY <1>1, AddCallEffect
<1>3. \A m \in Node, i \in Id :
        calls[m][i] # NoCall => Sound(calls', served', i, calls[m][i])
  BY AddCallGrows, OldCopiesSound DEF IInv
<1>4. Sound(calls', served', id, calls'[n][id])
  <2>1. CASE calls[n][id] = NoCall
    BY <1>2, <2>1, MergeType
  <2>2. CASE calls[n][id] # NoCall
    <3>1. calls[n][id] \in Call /\ Sound(calls', served', id, calls[n][id])
      BY <1>1, <1>3, <2>2
    <3> QED BY <1>2, <3>1, SoundMerge
  <2> QED BY <2>1, <2>2
<1> QED BY <1>2, <1>3, <1>4 DEF ListsSound

\* When a node's own calls do not become more, keep their buttons and stay
\* serviced, its poller and its open calls are as consistent as before.
LEMMA OwnCallsStay ==
  ASSUME IInv, UNCHANGED poller,
         \A n \in Node, id \in Id : id.origin = n /\ calls'[n][id] # NoCall =>
           /\ calls[n][id] # NoCall
           /\ calls'[n][id].button = calls[n][id].button
           /\ calls[n][id].serviced # {} => calls'[n][id].serviced # {}
  PROVE  FreshNumber' /\ PressIsNew' /\ OneOpenOwnCall'
<1>1. FreshNumber'
  <2> SUFFICES ASSUME NEW n \in Node, poller[n].pc = "add"
               PROVE  calls'[n][[origin |-> n, num |-> poller[n].num]] = NoCall
    BY DEF FreshNumber
  <2> DEFINE id == [origin |-> n, num |-> poller[n].num]
  <2>1. id \in Id /\ id.origin = n
    BY DEF IInv, BaseInv, TypeOK, Poller, Idle, Id
  <2>2. calls[n][id] = NoCall
    BY DEF IInv, FreshNumber
  <2> HIDE DEF id
  <2>3. calls'[n][id] = NoCall
    BY <2>1, <2>2
  <2> QED BY <2>3 DEF id
<1>2. PressIsNew'
  BY DEF IInv, PressIsNew
<1>3. OneOpenOwnCall'
  <2> SUFFICES ASSUME NEW n \in Node, NEW i \in Id, NEW j \in Id,
                      calls'[n][i] # NoCall, calls'[n][j] # NoCall,
                      i.origin = n, j.origin = n,
                      calls'[n][i].serviced = {}, calls'[n][j].serviced = {},
                      calls'[n][i].button = calls'[n][j].button
               PROVE  i = j
    BY DEF OneOpenOwnCall, Known, IsOpen
  <2>1. /\ calls[n][i] # NoCall /\ calls[n][i].serviced = {}
        /\ calls[n][i].button = calls'[n][i].button
    OBVIOUS
  <2>2. /\ calls[n][j] # NoCall /\ calls[n][j].serviced = {}
        /\ calls[n][j].button = calls'[n][j].button
    OBVIOUS
  <2> QED BY <2>1, <2>2 DEF IInv, OneOpenOwnCall, Known, IsOpen
<1> QED BY <1>1, <1>2, <1>3

\* Steps that leave lists, poller and served presses alone need to be looked
\* at only for what they send.
LEMMA SameListsStep ==
  ASSUME IInv, UNCHANGED <<calls, poller, served>>, MessagesSound'
  PROVE  ListsSound' /\ MessagesSound' /\ FreshNumber' /\ PressIsNew' /\ OneOpenOwnCall'
BY DEF IInv, ListsSound, FreshNumber, PressIsNew, OneOpenOwnCall, Known, IsOpen

\* Messages that were underway before the lists grew.
LEMMA OldMessagesSound ==
  ASSUME IInv, Grows(calls, calls'), served \subseteq served', net' \subseteq net
  PROVE  MessagesSound'
BY OldCopiesSound DEF MessagesSound

\* Every step preserves the invariant, as long as nobody restarts and every
\* number fits its field.
LEMMA IInvStep ==
  ASSUME MaxNum < IdSpan
  PROVE  IInv /\ [Step]_vars => IInv'
<1> SUFFICES ASSUME IInv, [Step]_vars PROVE IInv'
  OBVIOUS
<1> DEFINE Rest == ListsSound /\ MessagesSound /\ FreshNumber /\ PressIsNew /\ OneOpenOwnCall
<1>0. BaseInv /\ BaseInv'
  BY BaseStep DEF IInv, Next
<1> SUFFICES Rest'
  BY <1>0 DEF IInv
<1>1. ASSUME NEW n \in Node, NEW b \in Panel, PressButton(n, b) PROVE Rest'
  <2>1. poller' = [poller EXCEPT ![n] = [pc |-> "number", button |-> b, press |-> pressed']]
    BY <1>1 DEF PressButton
  <2>2. poller'[n].pc = "number" /\ poller'[n].button = b
    BY <1>0, <2>1 DEF BaseInv, TypeOK
  <2>3. \A k \in Node : k # n => poller'[k] = poller[k]
    BY <1>0, <2>1 DEF BaseInv, TypeOK
  <2>4. \A id \in Id : id.origin = n /\ calls[n][id] # NoCall /\ calls[n][id].button = b
                         => calls[n][id].serviced # {}
    BY <1>1 DEF PressButton, SimilarCallExists, Known, IsOpen
  <2>5. UNCHANGED <<calls, net, served>>
    BY <1>1 DEF PressButton
  <2>6. PressIsNew'
    <3> SUFFICES ASSUME NEW k \in Node, NEW id \in Id, poller'[k].pc \in {"number", "add"},
                        id.origin = k, calls[k][id] # NoCall,
                        calls[k][id].button = poller'[k].button
                 PROVE  calls[k][id].serviced # {}
      BY <2>5 DEF PressIsNew
    <3>1. CASE k = n
      BY <2>2, <2>4, <3>1
    <3>2. CASE k # n
      BY <2>3, <3>2 DEF IInv, PressIsNew
    <3> QED BY <3>1, <3>2
  <2>7. FreshNumber'
    BY <2>2, <2>3, <2>5 DEF IInv, FreshNumber
  <2> QED
    BY <2>5, <2>6, <2>7 DEF IInv, ListsSound, MessagesSound, OneOpenOwnCall, Known, IsOpen
<1>2. ASSUME NEW n \in Node, TakeNumber(n) PROVE Rest'
  <2>1. PICK k \in 0 .. MaxNum :
          /\ IsNextNumber(n, k)
          /\ poller' = [poller EXCEPT ![n] = [pc |-> "add", button |-> @.button,
                                              press |-> @.press, num |-> k]]
    BY <1>2 DEF TakeNumber
  <2>2. /\ poller'[n].pc = "add" /\ poller'[n].num = k
        /\ poller'[n].button = poller[n].button
    BY <1>0, <2>1 DEF BaseInv, TypeOK
  <2>3. \A m \in Node : m # n => poller'[m] = poller[m]
    BY <1>0, <2>1 DEF BaseInv, TypeOK
  <2>4. poller[n].pc = "number" /\ UNCHANGED <<calls, net, served>>
    BY <1>2 DEF TakeNumber
  <2>5. calls[n][[origin |-> n, num |-> k]] = NoCall
    <3>1. [origin |-> n, num |-> k] \in Id
      BY DEF Id
    <3>2. \A id \in Known(n) : id.num < k
      BY <2>1 DEF IsNextNumber
    <3>3. k \in Nat /\ ~(k < k)
      BY ReplicationAssumption
    <3>4. [origin |-> n, num |-> k] \notin Known(n)
      BY <3>2, <3>3
    <3> QED BY <3>1, <3>4 DEF Known
  <2>6. FreshNumber'
    <3> SUFFICES ASSUME NEW m \in Node, poller'[m].pc = "add"
                 PROVE  calls[m][[origin |-> m, num |-> poller'[m].num]] = NoCall
      BY <2>4 DEF FreshNumber
    <3>1. CASE m = n
      BY <2>2, <2>5, <3>1
    <3>2. CASE m # n
      BY <2>3, <3>2 DEF IInv, FreshNumber
    <3> QED BY <3>1, <3>2
  <2>7. PressIsNew'
    <3> SUFFICES ASSUME NEW m \in Node, NEW id \in Id, poller'[m].pc \in {"number", "add"},
                        id.origin = m, calls[m][id] # NoCall,
                        calls[m][id].button = poller'[m].button
                 PROVE  calls[m][id].serviced # {}
      BY <2>4 DEF PressIsNew
    <3>1. poller[m].pc \in {"number", "add"} /\ poller'[m].button = poller[m].button
      BY <2>2, <2>3, <2>4
    <3> QED BY <3>1 DEF IInv, PressIsNew
  <2> QED
    BY <2>4, <2>6, <2>7 DEF IInv, ListsSound, MessagesSound, OneOpenOwnCall, Known, IsOpen
<1>3. ASSUME NEW n \in Node, AddNewCall(n) PROVE Rest'
  <2> DEFINE id == [origin |-> n, num |-> poller[n].num]
             new == [button |-> poller[n].button, press |-> poller[n].press,
                     ack |-> {n}, serviced |-> {}]
  <2>1. /\ id \in Id /\ id.origin = n /\ new \in Call
        /\ new.ack = {n} /\ new.serviced = {} /\ new.button = poller[n].button
    BY <1>0, <1>3 DEF AddNewCall, BaseInv, TypeOK, Poller, Idle, Id, Call
  <2>2. AddCall(n, id, new) /\ served' = served /\ net' = net
    BY <1>3 DEF AddNewCall
  <2>3. calls[n][id] = NoCall
    BY <1>3 DEF AddNewCall, IInv, FreshNumber
  <2>4. poller'[n] = Idle /\ \A k \in Node : k # n => poller'[k] = poller[k]
    BY <1>0, <1>3 DEF AddNewCall, BaseInv, TypeOK
  <2>5. \A i \in Id : i.origin = n /\ calls[n][i] # NoCall /\ calls[n][i].button = poller[n].button
                        => calls[n][i].serviced # {}
    BY <1>3 DEF AddNewCall, IInv, PressIsNew
  <2> HIDE DEF id, new
  <2>6. /\ calls'[n][id] = new /\ new # NoCall
        /\ \A m \in Node, i \in Id : <<m, i>> # <<n, id>> => calls'[m][i] = calls[m][i]
    <3>1. calls \in [Node -> [Id -> Call \cup {NoCall}]]
      BY <1>0 DEF BaseInv, TypeOK
    <3> QED BY <2>1, <2>2, <2>3, <3>1, AddCallEffect, MergeType, NoCallAssumption
  <2>7. Sound(calls', served', id, new)
    BY <2>1, <2>6 DEF Sound
  <2>8. ListsSound'
    BY <2>1, <2>2, <2>7, AddCallSound
  <2>9. MessagesSound'
    BY <1>0, <2>1, <2>2, AddCallGrows, OldMessagesSound
  <2>10. FreshNumber'
    <3> SUFFICES ASSUME NEW m \in Node, poller'[m].pc = "add"
                 PROVE  calls'[m][[origin |-> m, num |-> poller'[m].num]] = NoCall
      BY DEF FreshNumber
    <3>1. m # n /\ poller'[m] = poller[m]
      BY <2>4 DEF Idle
    <3> DEFINE i == [origin |-> m, num |-> poller[m].num]
    <3>2. i \in Id /\ <<m, i>> # <<n, id>>
      BY <1>0, <3>1 DEF BaseInv, TypeOK, Poller, Idle, Id
    <3>3. calls[m][i] = NoCall
      BY <3>1 DEF IInv, FreshNumber
    <3> HIDE DEF i
    <3>4. calls'[m][i] = NoCall
      BY <2>6, <3>2, <3>3
    <3> QED BY <3>1, <3>4 DEF i
  <2>11. PressIsNew'
    <3> SUFFICES ASSUME NEW m \in Node, NEW i \in Id, poller'[m].pc \in {"number", "add"},
                        i.origin = m, calls'[m][i] # NoCall,
                        calls'[m][i].button = poller'[m].button
                 PROVE  calls'[m][i].serviced # {}
      BY DEF PressIsNew
    <3>1. m # n /\ poller'[m] = poller[m]
      BY <2>4 DEF Idle
    <3>2. calls'[m][i] = calls[m][i]
      BY <2>6, <3>1
    <3> QED BY <3>1, <3>2 DEF IInv, PressIsNew
  <2>12. OneOpenOwnCall'
    <3> SUFFICES ASSUME NEW m \in Node, NEW i \in Id, NEW j \in Id,
                        calls'[m][i] # NoCall, calls'[m][j] # NoCall,
                        i.origin = m, j.origin = m,
                        calls'[m][i].serviced = {}, calls'[m][j].serviced = {},
                        calls'[m][i].button = calls'[m][j].button,
                        i # j
                 PROVE  FALSE
      BY DEF OneOpenOwnCall, Known, IsOpen
    <3>1. CASE m # n \/ (i # id /\ j # id)
      <4>1. calls'[m][i] = calls[m][i] /\ calls'[m][j] = calls[m][j]
        BY <2>6, <3>1
      <4> QED BY <4>1 DEF IInv, OneOpenOwnCall, Known, IsOpen
    <3>2. CASE m = n /\ i = id
      <4>1. calls'[n][j] = calls[n][j] /\ calls'[n][i] = new
        BY <2>6, <3>2
      <4> QED BY <2>1, <2>5, <3>2, <4>1
    <3>3. CASE m = n /\ j = id
      <4>1. calls'[n][i] = calls[n][i] /\ calls'[n][j] = new
        BY <2>6, <3>3
      <4> QED BY <2>1, <2>5, <3>3, <4>1
    <3> QED BY <3>1, <3>2, <3>3
  <2> QED BY <2>8, <2>9, <2>10, <2>11, <2>12
<1>4. ASSUME NEW n \in Node, NEW id \in Id, Transmit(n, id) PROVE Rest'
  <2>1. calls[n][id] \in Call /\ Sound(calls, served, id, calls[n][id])
    BY <1>0, <1>4 DEF Transmit, Known, IInv, ListsSound, BaseInv, TypeOK
  <2>2. MessageOf(id, calls[n][id]) = [id |-> id, call |-> calls[n][id]]
    BY <2>1, MessageOfType
  <2>3. net' \subseteq net \cup {[id |-> id, call |-> calls[n][id]]}
    BY <1>4, <2>2, SentType DEF Transmit
  <2>4. UNCHANGED <<calls, poller, served>>
    BY <1>4 DEF Transmit
  <2>5. MessagesSound'
    BY <2>1, <2>3, <2>4 DEF IInv, MessagesSound
  <2> QED BY <2>4, <2>5, SameListsStep
<1>5. ASSUME NEW n \in Node, NEW m \in net, Receive(n, m) PROVE Rest'
  <2> DEFINE id == m.id
             new == Received(n, m.call)
  <2>1. id \in Id /\ m.call \in Call /\ Sound(calls, served, id, m.call)
    BY <1>0 DEF BaseInv, TypeOK, Message, IInv, MessagesSound
  <2>2. AddCall(n, id, new) /\ UNCHANGED <<poller, served>>
    BY <1>5 DEF Receive
  <2>3. /\ new \in Call /\ new.button = m.call.button /\ new.press = m.call.press
        /\ new.ack = m.call.ack \cup {n}
        /\ new.serviced # {} => m.call.serviced # {}
    BY <2>1, ReceivedType
  <2>4. net' = net \/ net' = Sent(MessageOf(id, calls'[n][id]))
    BY <1>5 DEF Receive
  <2> HIDE DEF id, new
  <2>5. Grows(calls, calls')
    BY <1>0, <2>1, <2>2, <2>3, AddCallGrows
  <2>6. /\ calls'[n][id] = Merge(calls[n][id], new)
        /\ \A k \in Node, i \in Id : <<k, i>> # <<n, id>> => calls'[k][i] = calls[k][i]
    <3>1. calls \in [Node -> [Id -> Call \cup {NoCall}]]
      BY <1>0 DEF BaseInv, TypeOK
    <3> QED BY <2>1, <2>2, <2>3, <3>1, AddCallEffect
  <2>7. calls'[n][id] \in Call /\ calls'[n][id] # NoCall
    <3>1. calls[n][id] \in Call \cup {NoCall}
      BY <1>0, <2>1 DEF BaseInv, TypeOK
    <3> QED BY <2>3, <2>6, <3>1, MergeType, NoCallAssumption
  <2>8. Sound(calls', served', id, new)
    <3>1. Sound(calls', served', id, m.call)
      <4>1. served \subseteq served'
        BY <2>2
      <4> QED BY <2>1, <2>5, <4>1, SoundStays
    <3> QED BY <2>3, <2>7, <3>1 DEF Sound
  <2>9. ListsSound'
    BY <2>1, <2>2, <2>3, <2>8, AddCallSound
  <2>10. MessagesSound'
    <3>1. \A k \in net : Sound(calls', served', k.id, k.call)
      BY <2>2, <2>5, OldCopiesSound
    <3>2. Sound(calls', served', id, calls'[n][id])
      BY <2>1, <2>7, <2>9 DEF ListsSound
    <3>3. MessageOf(id, calls'[n][id]) = [id |-> id, call |-> calls'[n][id]]
      BY <2>1, <2>7, MessageOfType
    <3>4. net' \subseteq net \cup {[id |-> id, call |-> calls'[n][id]]}
      BY <2>4, <3>3, SentType
    <3> QED BY <3>1, <3>2, <3>4 DEF MessagesSound
  <2>11. ASSUME NEW k \in Node, NEW i \in Id, i.origin = k, calls'[k][i] # NoCall
         PROVE  /\ calls[k][i] # NoCall
                /\ calls'[k][i].button = calls[k][i].button
                /\ calls[k][i].serviced # {} => calls'[k][i].serviced # {}
    <3>1. CASE <<k, i>> # <<n, id>>
      BY <2>6, <2>11, <3>1
    <3>2. CASE k = n /\ i = id
      <4>1. calls[n][id] # NoCall
        BY <2>1, <2>11, <3>2 DEF Sound
      <4>2. calls[n][id] \in Call
        BY <1>0, <2>1, <4>1 DEF BaseInv, TypeOK
      <4> QED BY <2>3, <2>6, <3>2, <4>1, <4>2, MergeOld
    <3> QED BY <3>1, <3>2
  <2> QED BY <2>2, <2>9, <2>10, <2>11, OwnCallsStay
<1>6. ASSUME NEW n \in Node, NEW m \in Node, ReceiveStatus(n, m) PROVE Rest'
  <2>1. UNCHANGED <<calls, poller, served, net>>
    BY <1>6 DEF ReceiveStatus
  <2> QED BY <2>1, SameListsStep DEF IInv, MessagesSound
<1>7. ASSUME NEW n \in Node, NEW m \in Node, RemoveDead(n, m) PROVE Rest'
  <2>1. /\ m # n /\ UNCHANGED <<poller, served, net>>
        /\ calls' = [calls EXCEPT ![n] = [id \in Id |-> Without(@[id], m)]]
    BY <1>7 DEF RemoveDead
  <2>2. \A id \in Id : calls'[n][id] = Without(calls[n][id], m)
    BY <1>0, <2>1 DEF BaseInv, TypeOK
  <2>3. \A k \in Node, id \in Id : k # n => calls'[k][id] = calls[k][id]
    BY <1>0, <2>1 DEF BaseInv, TypeOK
  <2>4. ASSUME NEW id \in Id, calls[n][id] # NoCall
        PROVE  /\ calls'[n][id] # NoCall
               /\ calls'[n][id].button = calls[n][id].button
               /\ calls'[n][id].press = calls[n][id].press
               /\ calls'[n][id].ack = calls[n][id].ack \ {m}
               /\ calls'[n][id].serviced = calls[n][id].serviced \ {m}
    <3>1. calls[n][id] \in Call
      BY <1>0, <2>4 DEF BaseInv, TypeOK
    <3> QED BY <2>2, <3>1, WithoutType, NoCallAssumption
  <2>5. \A id \in Id : calls[n][id] = NoCall => calls'[n][id] = NoCall
    BY <2>2 DEF Without
  <2>6. Grows(calls, calls')
    BY <2>3, <2>4 DEF Grows
  <2>7. \A k \in Node, id \in Id :
          calls[k][id] # NoCall => Sound(calls', served', id, calls[k][id])
    BY <2>1, <2>6, OldCopiesSound
  <2>8. ListsSound'
    <3> SUFFICES ASSUME NEW k \in Node, NEW id \in Id, calls'[k][id] # NoCall
                 PROVE  Sound(calls', served', id, calls'[k][id])
      BY DEF ListsSound
    <3>1. CASE k # n
      BY <2>3, <2>7, <3>1
    <3>2. CASE k = n
      <4>1. calls[n][id] # NoCall
        BY <2>5, <3>2
      <4>2. Sound(calls', served', id, calls[n][id])
        BY <2>7, <4>1
      <4> QED BY <2>4, <3>2, <4>1, <4>2, SoundLess
    <3> QED BY <3>1, <3>2
  <2>9. MessagesSound'
    BY <2>1, <2>6, OldMessagesSound
  <2>10. ASSUME NEW k \in Node, NEW id \in Id, id.origin = k, calls'[k][id] # NoCall
         PROVE  /\ calls[k][id] # NoCall
                /\ calls'[k][id].button = calls[k][id].button
                /\ calls[k][id].serviced # {} => calls'[k][id].serviced # {}
    <3>1. CASE k # n
      BY <2>3, <2>10, <3>1
    <3>2. CASE k = n
      <4>1. calls[n][id] # NoCall
        BY <2>5, <2>10, <3>2
      <4>2. calls[n][id].serviced # {} => n \in calls[n][id].serviced
        BY <1>0, <4>1 DEF BaseInv, ListsItself, Known, IsOpen
      <4> QED BY <2>1, <2>4, <3>2, <4>1, <4>2
    <3> QED BY <3>1, <3>2
  <2> QED BY <2>1, <2>8, <2>9, <2>10, OwnCallsStay
<1>8. ASSUME NEW n \in Node, NEW id \in Id, PickCall(n, id) PROVE Rest'
  <2>1. UNCHANGED <<calls, poller, served, net>>
    BY <1>8 DEF PickCall
  <2> QED BY <2>1, SameListsStep DEF IInv, MessagesSound
<1>9. ASSUME NEW n \in Node, ServiceCall(n) PROVE Rest'
  <2> DEFINE id == serving[n]
  <2>1. id \in Id /\ calls[n][id] \in Call /\ calls[n][id] # NoCall
    BY <1>0, <1>9 DEF ServiceCall, BaseInv, TypeOK, ServingKnown, Known
  <2>2. /\ calls' = [calls EXCEPT ![n][id].serviced = @ \cup {n}]
        /\ served' = served \cup {calls[n][id].press}
        /\ UNCHANGED <<poller, net>>
    BY <1>9 DEF ServiceCall
  <2> HIDE DEF id
  <2>3. /\ calls'[n][id] \in Call /\ calls'[n][id] # NoCall
        /\ calls'[n][id].button = calls[n][id].button
        /\ calls'[n][id].press = calls[n][id].press
        /\ calls'[n][id].ack = calls[n][id].ack
        /\ calls'[n][id].serviced = calls[n][id].serviced \cup {n}
    <3>1. calls'[n][id] = [calls[n][id] EXCEPT !.serviced = @ \cup {n}]
      BY <1>0, <2>1, <2>2 DEF BaseInv, TypeOK
    <3>2. calls'[n][id] \in Call
      BY <2>1, <3>1 DEF Call
    <3> QED BY <2>1, <3>1, <3>2, NoCallAssumption DEF Call
  <2>4. \A k \in Node, i \in Id : <<k, i>> # <<n, id>> => calls'[k][i] = calls[k][i]
    BY <1>0, <2>1, <2>2 DEF BaseInv, TypeOK
  <2>5. Grows(calls, calls')
    BY <2>3, <2>4 DEF Grows
  <2>6. /\ \A k \in Node, i \in Id :
             calls[k][i] # NoCall => Sound(calls', served', i, calls[k][i])
        /\ MessagesSound'
    BY <2>2, <2>5, OldCopiesSound, OldMessagesSound
  <2>7. ListsSound'
    <3>1. Sound(calls', served', id, calls[n][id])
      BY <2>1, <2>6
    <3>2. Sound(calls', served', id, calls'[n][id])
      BY <2>2, <2>3, <3>1 DEF Sound
    <3> QED BY <2>4, <2>6, <3>2 DEF ListsSound
  <2>8. \A k \in Node, i \in Id : i.origin = k /\ calls'[k][i] # NoCall =>
          /\ calls[k][i] # NoCall
          /\ calls'[k][i].button = calls[k][i].button
          /\ calls[k][i].serviced # {} => calls'[k][i].serviced # {}
    BY <2>1, <2>3, <2>4
  <2> QED BY <2>2, <2>6, <2>7, <2>8, OwnCallsStay
<1>10. ASSUME NEW m \in net, Lose(m) PROVE Rest'
  <2>1. UNCHANGED <<calls, poller, served>> /\ net' \subseteq net
    BY <1>10 DEF Lose
  <2> QED BY <2>1, SameListsStep DEF IInv, MessagesSound
<1>11. ASSUME NEW n \in Node, UpdateAfterStatus(n) \/ ReadAliveElevators(n) PROVE Rest'
  <2>1. UNCHANGED <<calls, poller, served, net>>
    BY <1>11 DEF UpdateAfterStatus, ReadAliveElevators
  <2> QED BY <2>1, SameListsStep DEF IInv, MessagesSound
<1>12. CASE UNCHANGED vars
  <2>1. UNCHANGED <<calls, poller, served, net>>
    BY <1>12 DEF vars
  <2> QED BY <2>1, SameListsStep DEF IInv, MessagesSound
<1> QED
  BY <1>1, <1>2, <1>3, <1>4, <1>5, <1>6, <1>7, <1>8, <1>9, <1>10, <1>11, <1>12, SMTT(30)
  DEF Step

LEMMA IInvInvariant == ASSUME MaxNum < IdSpan PROVE SteadySpec => []IInv
BY IInvInit, IInvStep, PTL DEF SteadySpec

\* An id means the same button press to all nodes that have the call.
THEOREM IdsAgree ==
  ASSUME MaxNum < IdSpan
  PROVE  SteadySpec => []CallIdAgreement
<1>1. IInv => CallIdAgreement
  BY DEF IInv, ListsSound, Sound, CallIdAgreement, Known
<1> QED BY <1>1, IInvInvariant, PTL

\* Whoever is listed as having acknowledged a call has it.
THEOREM AcksAreTrue ==
  ASSUME MaxNum < IdSpan
  PROVE  SteadySpec => []AckMeansKnown
<1>1. IInv => AckMeansKnown
  <2> SUFFICES ASSUME IInv, NEW n \in Node, NEW id \in Id, calls[n][id] # NoCall,
                      NEW m \in calls[n][id].ack
               PROVE  calls[m][id] # NoCall
    BY DEF AckMeansKnown, Known
  <2> QED BY DEF IInv, ListsSound, Sound
<1> QED BY <1>1, IInvInvariant, PTL

\* No call is marked as serviced on any node before a car came for it.
THEOREM ServicedIsTrue ==
  ASSUME MaxNum < IdSpan
  PROVE  SteadySpec => []ServicedMeansServed
<1>1. IInv => ServicedMeansServed
  BY DEF IInv, ListsSound, Sound, ServicedMeansServed, Known, IsOpen
<1> QED BY <1>1, IInvInvariant, PTL

\* The three unlocked steps of a button press never produce a double.
THEOREM NoDoubleCalls ==
  ASSUME MaxNum < IdSpan
  PROVE  SteadySpec => []OneOpenOwnCall
<1>1. IInv => OneOpenOwnCall
  BY DEF IInv
<1> QED BY <1>1, IInvInvariant, PTL

-----------------------------------------------------------------------------
(* The abstract board.                                                     *)

Has(n, i) == calls[n][i] # NoCall

Pressing(n) == poller[n].pc \in {"number", "add"}

\* A press is one call: the poller carries it to one list, and from there it
\* travels under one id.
PressOnce ==
  /\ \A n, m \in Node : \A i, j \in Id :
       Has(n, i) /\ Has(m, j) /\ calls[n][i].press = calls[m][j].press => i = j
  /\ \A n, m \in Node : \A i \in Id :
       Pressing(n) /\ Has(m, i) => calls[m][i].press # poller[n].press
  /\ \A n, m \in Node :
       Pressing(n) /\ Pressing(m) /\ poller[n].press = poller[m].press => n = m

PressBounded ==
  /\ \A n \in Node : \A i \in Id : Has(n, i) => calls[n][i].press <= pressed
  /\ \A n \in Node : Pressing(n) => poller[n].press <= pressed

\* Somebody knows what a message says about a call being serviced.
ServicedSomewhere ==
  \A m \in net : m.call.serviced # {}
    => \E n \in Node : Has(n, m.id) /\ calls[n][m.id].serviced # {}

BoardInv == IInv /\ PressOnce /\ PressBounded /\ ServicedSomewhere

LEMMA BoardInit == Init => BoardInv
<1> SUFFICES ASSUME Init PROVE BoardInv
  OBVIOUS
<1>1. \A n \in Node : ~Pressing(n) /\ \A i \in Id : ~Has(n, i)
  BY DEF Init, Pressing, Has, Idle
<1> QED BY <1>1, IInvInit DEF Init, BoardInv, PressOnce, PressBounded, ServicedSomewhere

\* What the four kinds of step that touch the lists do to them.
LEMMA AddNewCallEffect ==
  ASSUME IInv, NEW n \in Node, AddNewCall(n)
  PROVE  LET id == [origin |-> n, num |-> poller[n].num] IN
         /\ id \in Id /\ Pressing(n)
         /\ \A k \in Node : ~Has(k, id)
         /\ calls'[n][id] # NoCall /\ calls'[n][id].press = poller[n].press
         /\ calls'[n][id].serviced = {}
         /\ \A k \in Node, i \in Id : <<k, i>> # <<n, id>> => calls'[k][i] = calls[k][i]
         /\ ~Pressing(n)'
         /\ \A k \in Node : k # n => poller'[k] = poller[k]
<1> DEFINE id  == [origin |-> n, num |-> poller[n].num]
           new == [button |-> poller[n].button, press |-> poller[n].press,
                   ack |-> {n}, serviced |-> {}]
<1>1. calls \in [Node -> [Id -> Call \cup {NoCall}]] /\ poller \in [Node -> Poller]
  BY DEF IInv, BaseInv, TypeOK
<1>2. id \in Id /\ id.origin = n /\ new \in Call /\ Pressing(n)
  BY <1>1 DEF AddNewCall, Poller, Idle, Id, Call, Pressing
<1>3. AddCall(n, id, new)
  BY DEF AddNewCall
<1>4. new.press = poller[n].press /\ new.serviced = {}
  OBVIOUS
<1>5. calls[n][id] = NoCall
  BY DEF IInv, FreshNumber, AddNewCall
<1>6. poller' = [poller EXCEPT ![n] = Idle]
  BY DEF AddNewCall
<1>7. ~Pressing(n)' /\ \A k \in Node : k # n => poller'[k] = poller[k]
  BY <1>1, <1>6 DEF Pressing, Idle
<1> HIDE DEF id, new
<1>8. \A k \in Node : ~Has(k, id)
  BY <1>2, <1>5 DEF IInv, ListsSound, Sound, Has
<1>9. calls'[n][id] = new
  <2>1. calls'[n][id] = Merge(calls[n][id], new)
    BY <1>1, <1>2, <1>3, AddCallEffect
  <2> QED BY <1>5, <2>1 DEF Merge
<1>10. \A k \in Node, i \in Id : <<k, i>> # <<n, id>> => calls'[k][i] = calls[k][i]
  BY <1>1, <1>2, <1>3, AddCallEffect
<1>11. calls'[n][id] # NoCall
  BY <1>2, <1>9, NoCallAssumption
<1> QED BY <1>2, <1>4, <1>7, <1>8, <1>9, <1>10, <1>11 DEF id

LEMMA ReceiveEffect ==
  ASSUME IInv, NEW n \in Node, NEW m \in net, Receive(n, m)
  PROVE  /\ m.id \in Id /\ m.id.origin \in Node /\ Has(m.id.origin, m.id)
         /\ m.call.press = calls[m.id.origin][m.id].press
         /\ Has(n, m.id)' /\ calls'[n][m.id] \in Call
         /\ calls'[n][m.id].press = calls[m.id.origin][m.id].press
         /\ calls'[n][m.id].serviced # {}
              <=> m.call.serviced # {} \/ (Has(n, m.id) /\ calls[n][m.id].serviced # {})
         /\ \A k \in Node, i \in Id : <<k, i>> # <<n, m.id>> => calls'[k][i] = calls[k][i]
<1> DEFINE id == m.id
           new == Received(n, m.call)
<1>1. calls \in [Node -> [Id -> Call \cup {NoCall}]]
  BY DEF IInv, BaseInv, TypeOK
<1>2. /\ id \in Id /\ m.call \in Call /\ id.origin \in Node
      /\ Has(id.origin, id) /\ m.call.press = calls[id.origin][id].press
  BY DEF IInv, BaseInv, TypeOK, Message, MessagesSound, Sound, Id, Has
<1>3. AddCall(n, id, new)
  BY DEF Receive
<1>4. /\ new \in Call /\ new.press = m.call.press
      /\ new.serviced # {} <=> m.call.serviced # {}
  BY <1>2, ReceivedType
<1> HIDE DEF id, new
<1>5. /\ calls'[n][id] = Merge(calls[n][id], new)
      /\ \A k \in Node, i \in Id : <<k, i>> # <<n, id>> => calls'[k][i] = calls[k][i]
  BY <1>1, <1>2, <1>3, <1>4, AddCallEffect
<1>6. CASE calls[n][id] = NoCall
  <2>1. calls'[n][id] = new
    BY <1>4, <1>5, <1>6, MergeType
  <2> QED BY <1>2, <1>4, <1>5, <1>6, <2>1, NoCallAssumption DEF Has, id
<1>7. CASE calls[n][id] # NoCall
  <2>1. calls[n][id] \in Call
    BY <1>1, <1>2, <1>7
  <2>2. /\ calls'[n][id] \in Call
        /\ calls'[n][id].press = calls[n][id].press
        /\ calls'[n][id].serviced = calls[n][id].serviced \cup new.serviced
    BY <1>4, <1>5, <2>1, MergeOld
  <2>3. calls[n][id].press = calls[id.origin][id].press
    BY <1>2, <1>7 DEF IInv, ListsSound, Sound
  <2> QED BY <1>2, <1>4, <1>5, <1>7, <2>2, <2>3, NoCallAssumption DEF Has, id
<1> QED BY <1>6, <1>7

LEMMA RemoveDeadEffect ==
  ASSUME IInv, NEW n \in Node, NEW m \in Node, RemoveDead(n, m), NEW k \in Node, NEW i \in Id
  PROVE  /\ Has(k, i)' <=> Has(k, i)
         /\ Has(k, i) => /\ calls'[k][i].press = calls[k][i].press
                         /\ calls'[k][i].serviced # {} <=> calls[k][i].serviced # {}
<1>1. /\ calls \in [Node -> [Id -> Call \cup {NoCall}]] /\ m # n
      /\ calls' = [calls EXCEPT ![n] = [id \in Id |-> Without(@[id], m)]]
  BY DEF IInv, BaseInv, TypeOK, RemoveDead
<1>2. CASE k # n
  BY <1>1, <1>2 DEF Has
<1>3. CASE k = n
  <2>1. calls'[n][i] = Without(calls[n][i], m)
    BY <1>1
  <2>2. CASE calls[n][i] = NoCall
    BY <1>3, <2>1, <2>2 DEF Without, Has
  <2>3. CASE calls[n][i] # NoCall
    <3>1. calls[n][i] \in Call
      BY <1>1, <2>3
    <3>2. /\ calls'[n][i] \in Call /\ calls'[n][i].press = calls[n][i].press
          /\ calls'[n][i].serviced = calls[n][i].serviced \ {m}
      BY <2>1, <3>1, WithoutType
    <3>3. calls[n][i].serviced # {} => n \in calls[n][i].serviced
      BY <2>3 DEF IInv, BaseInv, ListsItself, Known, IsOpen
    <3> QED BY <1>1, <1>3, <2>3, <3>2, <3>3, NoCallAssumption DEF Has
  <2> QED BY <2>2, <2>3
<1> QED BY <1>2, <1>3

LEMMA ServiceCallEffect ==
  ASSUME IInv, NEW n \in Node, ServiceCall(n)
  PROVE  /\ serving[n] \in Id /\ Has(n, serving[n]) /\ calls'[n][serving[n]] # NoCall
         /\ calls'[n][serving[n]].press = calls[n][serving[n]].press
         /\ calls'[n][serving[n]].serviced # {}
         /\ \A k \in Node, i \in Id : <<k, i>> # <<n, serving[n]>> => calls'[k][i] = calls[k][i]
<1> DEFINE id == serving[n]
<1>1. /\ calls \in [Node -> [Id -> Call \cup {NoCall}]]
      /\ id \in Id /\ calls[n][id] \in Call /\ calls[n][id] # NoCall
  BY DEF IInv, BaseInv, TypeOK, ServiceCall, ServingKnown, Known
<1>2. calls' = [calls EXCEPT ![n][id].serviced = @ \cup {n}]
  BY DEF ServiceCall
<1> HIDE DEF id
<1>3. calls'[n][id] = [calls[n][id] EXCEPT !.serviced = @ \cup {n}]
  BY <1>1, <1>2
<1>4. /\ calls'[n][id] \in Call /\ calls'[n][id].press = calls[n][id].press
      /\ calls'[n][id].serviced = calls[n][id].serviced \cup {n}
  BY <1>1, <1>3 DEF Call
<1>5. \A k \in Node, i \in Id : <<k, i>> # <<n, id>> => calls'[k][i] = calls[k][i]
  BY <1>1, <1>2
<1> QED BY <1>1, <1>4, <1>5, NoCallAssumption DEF Has, id

\* Steps that only copy calls from list to list.
LEMMA PressKept ==
  ASSUME BoardInv, pressed' = pressed,
         \A k \in Node, i \in Id :
           Has(k, i)' => \E m \in Node : Has(m, i) /\ calls'[k][i].press = calls[m][i].press,
         \A k \in Node : Pressing(k)' => Pressing(k) /\ poller'[k].press = poller[k].press
  PROVE  PressOnce' /\ PressBounded'
<1>1. PressOnce'
  <2>1. ASSUME NEW n \in Node, NEW m \in Node, NEW i \in Id, NEW j \in Id,
               Has(n, i)', Has(m, j)', calls'[n][i].press = calls'[m][j].press
        PROVE  i = j
    <3>1. PICK k \in Node : Has(k, i) /\ calls'[n][i].press = calls[k][i].press
      BY <2>1
    <3>2. PICK l \in Node : Has(l, j) /\ calls'[m][j].press = calls[l][j].press
      BY <2>1
    <3> QED BY <2>1, <3>1, <3>2 DEF BoardInv, PressOnce
  <2>2. ASSUME NEW n \in Node, NEW m \in Node, NEW i \in Id, Pressing(n)', Has(m, i)'
        PROVE  calls'[m][i].press # poller'[n].press
    <3>1. PICK k \in Node : Has(k, i) /\ calls'[m][i].press = calls[k][i].press
      BY <2>2
    <3> QED BY <2>2, <3>1 DEF BoardInv, PressOnce
  <2>3. ASSUME NEW n \in Node, NEW m \in Node, Pressing(n)', Pressing(m)',
               poller'[n].press = poller'[m].press
        PROVE  n = m
    BY <2>3 DEF BoardInv, PressOnce
  <2> QED BY <2>1, <2>2, <2>3 DEF PressOnce
<1>2. PressBounded'
  BY DEF BoardInv, PressBounded
<1> QED BY <1>1, <1>2

\* Messages are copies of calls, and what is serviced stays serviced.
LEMMA ServicedKept ==
  ASSUME ServicedSomewhere, net \subseteq Message,
         \A k \in Node, i \in Id : Has(k, i) /\ calls[k][i].serviced # {}
                                     => Has(k, i)' /\ calls'[k][i].serviced # {},
         \A m \in net' : \/ m \in net
                         \/ \E k \in Node : Has(k, m.id)' /\ m.call = calls'[k][m.id]
  PROVE  ServicedSomewhere'
<1> SUFFICES ASSUME NEW m \in net', m.call.serviced # {}
             PROVE  \E n \in Node : Has(n, m.id)' /\ calls'[n][m.id].serviced # {}
  BY DEF ServicedSomewhere
<1>1. CASE m \in net
  <2>1. m.id \in Id
    BY <1>1 DEF Message
  <2>2. PICK n \in Node : Has(n, m.id) /\ calls[n][m.id].serviced # {}
    BY <1>1 DEF ServicedSomewhere
  <2> QED BY <2>1, <2>2
<1>2. CASE \E k \in Node : Has(k, m.id)' /\ m.call = calls'[k][m.id]
  BY <1>2
<1> QED BY <1>1, <1>2

LEMMA BoardStep ==
  ASSUME MaxNum < IdSpan, BoardInv, [Step]_vars
  PROVE  BoardInv'
<1> DEFINE Rest == PressOnce /\ PressBounded /\ ServicedSomewhere
<1>a. IInv /\ IInv' /\ BaseInv /\ BaseInv' /\ Rest
  BY IInvStep DEF BoardInv, IInv
<1>b. SUFFICES Rest'
  BY <1>a DEF BoardInv
<1>t. /\ calls \in [Node -> [Id -> Call \cup {NoCall}]] /\ poller \in [Node -> Poller]
      /\ calls' \in [Node -> [Id -> Call \cup {NoCall}]]
      /\ net \subseteq Message /\ alive \in [Node -> SUBSET Node] /\ pressed \in Nat
  BY <1>a, ReplicationAssumption DEF BaseInv, TypeOK
<1>k. ASSUME UNCHANGED calls, net' \subseteq net PROVE ServicedSomewhere'
  BY <1>a, <1>k, <1>t, ServicedKept DEF Has
<1>n. ASSUME UNCHANGED <<calls, poller, pressed>> PROVE PressOnce' /\ PressBounded'
  BY <1>n, PressKept DEF Has, Pressing
<1> HIDE DEF Rest
<1>1. ASSUME NEW n \in Node, NEW b \in Panel, PressButton(n, b) PROVE Rest'
  <2>1. /\ pressed' = pressed + 1 /\ UNCHANGED <<calls, net, alive>>
        /\ poller' = [poller EXCEPT ![n] = [pc |-> "number", button |-> b, press |-> pressed']]
    BY <1>1 DEF PressButton
  <2>2. poller'[n].press = pressed + 1 /\ \A k \in Node : k # n => poller'[k] = poller[k]
    BY <1>t, <2>1
  <2>3. /\ \A k \in Node : \A i \in Id : Has(k, i) => calls[k][i].press \in Nat
                                                      /\ calls[k][i].press <= pressed
        /\ \A k \in Node : Pressing(k) => poller[k].press \in Nat /\ poller[k].press <= pressed
    BY <1>a, <1>t DEF Rest, PressBounded, Has, Call, Press, Pressing, Poller, Idle
  <2>4. PressOnce'
    <3>1. ASSUME NEW k \in Node, NEW m \in Node, NEW i \in Id, Pressing(k)', Has(m, i)'
          PROVE  calls'[m][i].press # poller'[k].press
      <4>1. CASE k = n
        BY <1>t, <2>1, <2>2, <2>3, <3>1, <4>1 DEF Has
      <4>2. CASE k # n
        BY <1>a, <2>1, <2>2, <3>1, <4>2 DEF Has, Pressing, Rest, PressOnce
      <4> QED BY <4>1, <4>2
    <3>2. ASSUME NEW k \in Node, NEW m \in Node, Pressing(k)', Pressing(m)',
                 poller'[k].press = poller'[m].press, k # m
          PROVE  FALSE
      <4>1. CASE k = n
        BY <1>t, <2>2, <2>3, <3>2, <4>1 DEF Pressing
      <4>2. CASE m = n
        BY <1>t, <2>2, <2>3, <3>2, <4>2 DEF Pressing
      <4>3. CASE k # n /\ m # n
        BY <1>a, <2>2, <3>2, <4>3 DEF Pressing, Rest, PressOnce
      <4> QED BY <4>1, <4>2, <4>3
    <3>3. \A k, m \in Node : \A i, j \in Id :
            Has(k, i)' /\ Has(m, j)' /\ calls'[k][i].press = calls'[m][j].press => i = j
      BY <1>a, <2>1 DEF Rest, PressOnce, Has
    <3> QED BY <3>1, <3>2, <3>3 DEF PressOnce
  <2>5. PressBounded'
    <3>1. \A k \in Node : \A i \in Id : Has(k, i)' => calls'[k][i].press <= pressed'
      BY <1>t, <2>1, <2>3 DEF Has
    <3>2. \A k \in Node : Pressing(k)' => poller'[k].press <= pressed'
      BY <1>t, <2>1, <2>2, <2>3 DEF Pressing
    <3> QED BY <3>1, <3>2 DEF PressBounded
  <2> QED BY <1>k, <2>1, <2>4, <2>5 DEF Rest
<1>2. ASSUME NEW n \in Node, TakeNumber(n) PROVE Rest'
  <2>1. /\ Pressing(n) /\ UNCHANGED <<calls, net, alive, pressed>>
        /\ \E k \in 0 .. MaxNum :
             poller' = [poller EXCEPT ![n] = [pc |-> "add", button |-> @.button,
                                              press |-> @.press, num |-> k]]
    BY <1>2 DEF TakeNumber, Pressing
  <2>2. poller'[n].press = poller[n].press /\ \A k \in Node : k # n => poller'[k] = poller[k]
    BY <1>t, <2>1
  <2>3. \A k \in Node : Pressing(k)' => Pressing(k) /\ poller'[k].press = poller[k].press
    BY <2>1, <2>2 DEF Pressing
  <2>4. \A k \in Node, i \in Id :
          Has(k, i)' => \E m \in Node : Has(m, i) /\ calls'[k][i].press = calls[m][i].press
    BY <2>1 DEF Has
  <2>5. PressOnce' /\ PressBounded'
    BY <2>1, <2>3, <2>4, PressKept
  <2> QED BY <1>k, <2>1, <2>5 DEF Rest
<1>3. ASSUME NEW n \in Node, AddNewCall(n) PROVE Rest'
  <2> DEFINE id == [origin |-> n, num |-> poller[n].num]
             p == poller[n].press
  <2>1. /\ id \in Id /\ Pressing(n) /\ \A k \in Node : ~Has(k, id)
        /\ calls'[n][id] # NoCall /\ calls'[n][id].press = p /\ calls'[n][id].serviced = {}
        /\ \A k \in Node, i \in Id : <<k, i>> # <<n, id>> => calls'[k][i] = calls[k][i]
        /\ ~Pressing(n)' /\ \A k \in Node : k # n => poller'[k] = poller[k]
    BY <1>a, <1>3, AddNewCallEffect
  <2>2. UNCHANGED <<net, alive, pressed>>
    BY <1>3 DEF AddNewCall
  <2>3. PICK d \in Id : d = id
    BY <2>1
  <2>4. PICK q : q = p
    OBVIOUS
  <2>5. /\ \A k \in Node : calls[k][d] = NoCall
        /\ calls'[n][d] # NoCall /\ calls'[n][d].press = q /\ calls'[n][d].serviced = {}
        /\ \A k \in Node, i \in Id : <<k, i>> # <<n, d>> => calls'[k][i] = calls[k][i]
    BY <2>1, <2>3, <2>4 DEF Has
  <2>6. /\ \A k \in Node, i \in Id : Has(k, i) => calls[k][i].press # q
        /\ \A k \in Node : Pressing(k) /\ k # n => poller[k].press # q
        /\ q <= pressed
    BY <1>a, <2>1, <2>4 DEF Rest, PressOnce, PressBounded
  <2>7. \A k \in Node, i \in Id : Has(k, i)' /\ <<k, i>> # <<n, d>> => Has(k, i)
    BY <2>5 DEF Has
  <2>8. \A k \in Node : Pressing(k)' => k # n /\ Pressing(k) /\ poller'[k] = poller[k]
    BY <2>1 DEF Pressing
  <2> HIDE DEF id, p
  <2>9. PressOnce'
    <3>1. ASSUME NEW k \in Node, NEW m \in Node, NEW i \in Id, NEW j \in Id,
                 Has(k, i)', Has(m, j)', calls'[k][i].press = calls'[m][j].press
          PROVE  i = j
      <4>1. CASE i = d /\ j = d
        BY <4>1
      <4>2. CASE i = d /\ j # d
        <5>1. k = n
          BY <2>5, <3>1, <4>2 DEF Has
        <5>2. Has(m, j) /\ calls'[m][j] = calls[m][j]
          BY <2>5, <2>7, <3>1, <4>2
        <5> QED BY <2>5, <2>6, <3>1, <4>2, <5>1, <5>2
      <4>3. CASE i # d /\ j = d
        <5>1. m = n
          BY <2>5, <3>1, <4>3 DEF Has
        <5>2. Has(k, i) /\ calls'[k][i] = calls[k][i]
          BY <2>5, <2>7, <3>1, <4>3
        <5> QED BY <2>5, <2>6, <3>1, <4>3, <5>1, <5>2
      <4>4. CASE i # d /\ j # d
        <5>1. /\ Has(k, i) /\ calls'[k][i] = calls[k][i]
              /\ Has(m, j) /\ calls'[m][j] = calls[m][j]
          BY <2>5, <2>7, <3>1, <4>4
        <5> QED BY <1>a, <3>1, <5>1 DEF Rest, PressOnce
      <4> QED BY <4>1, <4>2, <4>3, <4>4
    <3>2. ASSUME NEW k \in Node, NEW m \in Node, NEW i \in Id, Pressing(k)', Has(m, i)'
          PROVE  calls'[m][i].press # poller'[k].press
      <4>1. CASE <<m, i>> = <<n, d>>
        BY <2>5, <2>6, <2>8, <3>2, <4>1
      <4>2. CASE <<m, i>> # <<n, d>>
        BY <1>a, <2>5, <2>7, <2>8, <3>2, <4>2 DEF Rest, PressOnce
      <4> QED BY <4>1, <4>2
    <3>3. \A k, m \in Node :
            Pressing(k)' /\ Pressing(m)' /\ poller'[k].press = poller'[m].press => k = m
      BY <1>a, <2>8 DEF Rest, PressOnce
    <3> QED BY <3>1, <3>2, <3>3 DEF PressOnce
  <2>10. PressBounded'
    BY <1>a, <2>2, <2>5, <2>6, <2>7, <2>8 DEF Rest, PressBounded
  <2>11. ServicedSomewhere'
    BY <1>a, <1>t, <2>2, <2>5, ServicedKept DEF Rest, Has
  <2> QED BY <2>2, <2>9, <2>10, <2>11 DEF Rest
<1>4. ASSUME NEW n \in Node, NEW id \in Id, Transmit(n, id) PROVE Rest'
  <2>1. calls[n][id] # NoCall /\ calls[n][id] \in Call /\ UNCHANGED <<calls, poller, alive, pressed>>
    BY <1>4, <1>t DEF Transmit, Known
  <2>2. MessageOf(id, calls[n][id]) = [id |-> id, call |-> calls[n][id]]
    BY <2>1, MessageOfType
  <2>3. net' \subseteq net \cup {[id |-> id, call |-> calls[n][id]]}
    BY <1>4, <2>2, SentType DEF Transmit
  <2>4. ServicedSomewhere'
    BY <1>a, <1>t, <2>1, <2>3, ServicedKept DEF Rest, Has
  <2> QED BY <1>n, <2>1, <2>4 DEF Rest
<1>5. ASSUME NEW n \in Node, NEW m \in net, Receive(n, m) PROVE Rest'
  <2> DEFINE id == m.id
  <2>1. /\ id \in Id /\ id.origin \in Node /\ Has(id.origin, id)
        /\ calls'[n][id] # NoCall /\ calls'[n][id] \in Call
        /\ calls'[n][id].press = calls[id.origin][id].press
        /\ Has(n, id) /\ calls[n][id].serviced # {} => calls'[n][id].serviced # {}
        /\ \A k \in Node, i \in Id : <<k, i>> # <<n, id>> => calls'[k][i] = calls[k][i]
    BY <1>a, <1>5, ReceiveEffect DEF Has
  <2>2. /\ UNCHANGED <<alive, poller, pressed>>
        /\ net' = net \/ net' = Sent(MessageOf(id, calls'[n][id]))
    BY <1>5 DEF Receive
  <2> HIDE DEF id
  <2>3. PressOnce' /\ PressBounded'
    <3>1. \A k \in Node, i \in Id :
            Has(k, i)' => \E l \in Node : Has(l, i) /\ calls'[k][i].press = calls[l][i].press
      BY <2>1 DEF Has
    <3> QED BY <2>2, <3>1, PressKept DEF Pressing
  <2>4. ServicedSomewhere'
    <3>1. MessageOf(id, calls'[n][id]) = [id |-> id, call |-> calls'[n][id]]
      BY <2>1, MessageOfType
    <3>2. net' \subseteq net \cup {[id |-> id, call |-> calls'[n][id]]}
      BY <2>2, <3>1, SentType
    <3>3. \A k \in Node, i \in Id : Has(k, i) /\ calls[k][i].serviced # {}
                                      => Has(k, i)' /\ calls'[k][i].serviced # {}
      BY <2>1 DEF Has
    <3>4. \A k \in net' : k \in net \/ (calls'[n][k.id] # NoCall /\ k.call = calls'[n][k.id])
      BY <2>1, <3>2
    <3> QED BY <1>a, <1>t, <3>3, <3>4, ServicedKept DEF Rest, Has
  <2> QED BY <2>2, <2>3, <2>4 DEF Rest
<1>6. ASSUME NEW n \in Node, NEW m \in Node, ReceiveStatus(n, m) PROVE Rest'
  <2>1. UNCHANGED <<calls, poller, net, pressed>>
    BY <1>6 DEF ReceiveStatus
  <2> QED BY <1>k, <1>n, <2>1 DEF Rest
<1>7. ASSUME NEW n \in Node, NEW m \in Node, RemoveDead(n, m) PROVE Rest'
  <2>1. UNCHANGED <<poller, net, pressed>>
    BY <1>7 DEF RemoveDead
  <2>2. \A k \in Node, i \in Id :
          /\ Has(k, i)' <=> Has(k, i)
          /\ Has(k, i) => /\ calls'[k][i].press = calls[k][i].press
                          /\ calls'[k][i].serviced # {} <=> calls[k][i].serviced # {}
    BY <1>a, <1>7, RemoveDeadEffect
  <2>4. PressOnce' /\ PressBounded'
    BY <2>1, <2>2, PressKept DEF Pressing
  <2>5. ServicedSomewhere'
    BY <1>a, <1>t, <2>1, <2>2, ServicedKept DEF Rest
  <2> QED BY <2>4, <2>5 DEF Rest
<1>8. ASSUME NEW n \in Node, NEW id \in Id, PickCall(n, id) PROVE Rest'
  BY <1>8, <1>k, <1>n DEF PickCall, Rest
<1>9. ASSUME NEW n \in Node, ServiceCall(n) PROVE Rest'
  <2> DEFINE id == serving[n]
  <2>1. /\ id \in Id /\ Has(n, id) /\ calls'[n][id] # NoCall
        /\ calls'[n][id].press = calls[n][id].press
        /\ calls'[n][id].serviced # {}
        /\ \A k \in Node, i \in Id : <<k, i>> # <<n, id>> => calls'[k][i] = calls[k][i]
    BY <1>a, <1>9, ServiceCallEffect
  <2>2. UNCHANGED <<poller, net, alive, pressed>>
    BY <1>9 DEF ServiceCall
  <2>3. PICK d \in Id : d = id
    BY <2>1
  <2> HIDE DEF id
  <2>4. PressOnce' /\ PressBounded'
    BY <2>1, <2>2, <2>3, PressKept DEF Pressing, Has
  <2>5. ServicedSomewhere'
    BY <1>a, <1>t, <2>1, <2>2, <2>3, ServicedKept DEF Rest, Has
  <2> QED BY <2>2, <2>4, <2>5 DEF Rest
<1>10. ASSUME NEW m \in net, Lose(m) PROVE Rest'
  <2>1. UNCHANGED <<calls, poller, alive, pressed>> /\ net' \subseteq net
    BY <1>10 DEF Lose
  <2> QED BY <2>1, <1>k, <1>n DEF Rest
<1>11. ASSUME NEW n \in Node, UpdateAfterStatus(n) \/ ReadAliveElevators(n) PROVE Rest'
  BY <1>11, <1>k, <1>n DEF UpdateAfterStatus, ReadAliveElevators, Rest
<1>12. CASE UNCHANGED vars
  BY <1>12, <1>k, <1>n DEF vars, Rest
<1> QED
  BY <1>1, <1>2, <1>3, <1>4, <1>5, <1>6, <1>7, <1>8, <1>9, <1>10, <1>11, <1>12, SMTT(30)
  DEF Step

LEMMA BoardInvariant == ASSUME MaxNum < IdSpan PROVE SteadySpec => []BoardInv
BY BoardInit, BoardStep, PTL DEF SteadySpec

LEMMA PressSets ==
  ASSUME NEW n \in Node
  PROVE  /\ \A p : p \in PressesKnown(n) <=> \E i \in Id : Has(n, i) /\ calls[n][i].press = p
         /\ \A p : p \in PressesDone(n) <=> \E i \in Id : /\ Has(n, i) /\ calls[n][i].press = p
                                                          /\ calls[n][i].serviced # {}
BY DEF PressesKnown, PressesDone, Known, IsOpen, Has

LEMMA PressSetsNext ==
  ASSUME NEW n \in Node
  PROVE  /\ \A p : p \in PressesKnown(n)' <=> \E i \in Id : Has(n, i)' /\ calls'[n][i].press = p
         /\ \A p : p \in PressesDone(n)' <=> \E i \in Id : /\ Has(n, i)' /\ calls'[n][i].press = p
                                                           /\ calls'[n][i].serviced # {}
BY DEF PressesKnown, PressesDone, Known, IsOpen, Has

\* The abstract steps, for one node and one press.
LEMMA BoardStutter ==
  ASSUME UNCHANGED <<served, alive, view>>,
         \A k \in Node : UNCHANGED <<PressesKnown(k), PressesDone(k), PressesOffered(k),
                                    PressHeading(k)>>
  PROVE  UNCHANGED BoardOf!vars
BY DEF BoardOf!vars

\* A press more at one node.
LEMMA KnownGrows ==
  ASSUME NEW n \in Node, NEW p \in Press,
         \A k \in Node : PressesKnown(k)' = PressesKnown(k) \cup IF k = n THEN {p} ELSE {}
  PROVE  [k \in Node |-> PressesKnown(k)]'
           = [[k \in Node |-> PressesKnown(k)] EXCEPT ![n] = @ \cup {p}]
<1> DEFINE f == [k \in Node |-> PressesKnown(k)]
           g == [k \in Node |-> PressesKnown(k)']
           h == [f EXCEPT ![n] = @ \cup {p}]
<1>1. \A k \in Node : g[k] = h[k]
  OBVIOUS
<1>2. h = [k \in Node |-> h[k]] /\ g = [k \in Node |-> g[k]]
  OBVIOUS
<1>3. g = h
  <2> HIDE DEF g, h
  <2> QED BY <1>1, <1>2
<1>4. [k \in Node |-> PressesKnown(k)]' = g
  OBVIOUS
<1> QED BY <1>3, <1>4

LEMMA DoneGrows ==
  ASSUME NEW n \in Node, NEW p \in Press,
         \A k \in Node : PressesDone(k)' = PressesDone(k) \cup IF k = n THEN {p} ELSE {}
  PROVE  [k \in Node |-> PressesDone(k)]'
           = [[k \in Node |-> PressesDone(k)] EXCEPT ![n] = @ \cup {p}]
<1> DEFINE f == [k \in Node |-> PressesDone(k)]
           g == [k \in Node |-> PressesDone(k)']
           h == [f EXCEPT ![n] = @ \cup {p}]
<1>1. \A k \in Node : g[k] = h[k]
  OBVIOUS
<1>2. h = [k \in Node |-> h[k]] /\ g = [k \in Node |-> g[k]]
  OBVIOUS
<1>3. g = h
  <2> HIDE DEF g, h
  <2> QED BY <1>1, <1>2
<1>4. [k \in Node |-> PressesDone(k)]' = g
  OBVIOUS
<1> QED BY <1>3, <1>4

LEMMA BoardPost ==
  ASSUME NEW n \in Node, NEW p \in Press, \A k \in Node : p \notin PressesKnown(k),
         UNCHANGED <<served, alive, view>>, BoardOf!Offers(n),
         \A k \in Node : /\ UNCHANGED <<PressesDone(k), PressHeading(k)>>
                         /\ PressesKnown(k)' = PressesKnown(k) \cup IF k = n THEN {p} ELSE {}
  PROVE  BoardOf!Next
<1>1. BoardOf!Post(n, p)
  BY DEF BoardOf!Post
<1> QED BY <1>1 DEF BoardOf!Next

LEMMA BoardLearn ==
  ASSUME NEW n \in Node, NEW p \in Press, \E k \in Node : p \in PressesKnown(k),
         UNCHANGED <<served, alive, view>>, BoardOf!Offers(n),
         \A k \in Node : /\ UNCHANGED <<PressesDone(k), PressHeading(k)>>
                         /\ PressesKnown(k)' = PressesKnown(k) \cup IF k = n THEN {p} ELSE {}
  PROVE  BoardOf!Next
<1>1. BoardOf!Learn(n, p)
  BY DEF BoardOf!Learn
<1> QED BY <1>1 DEF BoardOf!Next

LEMMA BoardLearnDone ==
  ASSUME NEW n \in Node, NEW p \in Press, \E k \in Node : p \in PressesDone(k),
         UNCHANGED <<served, alive, view>>, BoardOf!Offers(n),
         \A k \in Node : /\ UNCHANGED PressHeading(k)
                         /\ PressesKnown(k)' = PressesKnown(k) \cup IF k = n THEN {p} ELSE {}
                         /\ PressesDone(k)' = PressesDone(k) \cup IF k = n THEN {p} ELSE {}
  PROVE  BoardOf!Next
<1>1. UNCHANGED <<served, [k \in Node |-> PressHeading(k)], alive, view>>
  OBVIOUS
<1>2. \E k \in Node : p \in [j \in Node |-> PressesDone(j)][k]
  OBVIOUS
<1>3. [k \in Node |-> PressesKnown(k)]'
        = [[k \in Node |-> PressesKnown(k)] EXCEPT ![n] = @ \cup {p}]
  BY KnownGrows
<1>4. [k \in Node |-> PressesDone(k)]'
        = [[k \in Node |-> PressesDone(k)] EXCEPT ![n] = @ \cup {p}]
  BY DoneGrows
<1>5. BoardOf!LearnDone(n, p)
  BY <1>1, <1>2, <1>3, <1>4, Zenon DEF BoardOf!LearnDone
<1> QED BY <1>5 DEF BoardOf!Next

LEMMA BoardSetOut ==
  ASSUME NEW n \in Node, NEW p \in Press, PressHeading(n) = 0, PressHeading(n)' = p,
         p \in PressesOffered(n), UNCHANGED <<served, alive, view>>,
         \A k \in Node : /\ UNCHANGED <<PressesKnown(k), PressesDone(k), PressesOffered(k)>>
                         /\ k # n => UNCHANGED PressHeading(k)
  PROVE  BoardOf!Next
<1>1. BoardOf!SetOut(n, p)
  BY DEF BoardOf!SetOut
<1> QED BY <1>1 DEF BoardOf!Next

LEMMA BoardServe ==
  ASSUME NEW n \in Node, PressHeading(n) # 0, PressHeading(n)' = 0,
         served' = served \cup {PressHeading(n)}, UNCHANGED <<alive, view>>,
         BoardOf!Offers(n),
         \A k \in Node : /\ UNCHANGED PressesKnown(k)
                         /\ k # n => UNCHANGED PressHeading(k)
                         /\ PressesDone(k)' = PressesDone(k)
                              \cup IF k = n THEN {PressHeading(n)} ELSE {}
  PROVE  BoardOf!Next
<1>1. BoardOf!Serve(n)
  BY DEF BoardOf!Serve
<1> QED BY <1>1 DEF BoardOf!Next

LEMMA BoardAppear ==
  ASSUME NEW n \in Node, NEW m \in Node, m # n,
         alive' = [alive EXCEPT ![n] = @ \cup {m}], UNCHANGED <<served, view>>,
         \A k \in Node : UNCHANGED <<PressesKnown(k), PressesDone(k), PressesOffered(k),
                                    PressHeading(k)>>
  PROVE  BoardOf!Next
<1>1. BoardOf!Appear(n, m)
  BY DEF BoardOf!Appear
<1> QED BY <1>1 DEF BoardOf!Next

LEMMA BoardVanish ==
  ASSUME NEW n \in Node, NEW m \in Node, m # n, BoardOf!Offers(n),
         alive' = [alive EXCEPT ![n] = @ \ {m}], UNCHANGED <<served, view>>,
         \A k \in Node : UNCHANGED <<PressesKnown(k), PressesDone(k), PressHeading(k)>>
  PROVE  BoardOf!Next
<1>1. BoardOf!Vanish(n, m)
  BY DEF BoardOf!Vanish
<1> QED BY <1>1 DEF BoardOf!Next

LEMMA BoardLook ==
  ASSUME NEW n \in Node, view' = [view EXCEPT ![n] = alive[n]], UNCHANGED <<served, alive>>,
         \A k \in Node : UNCHANGED <<PressesKnown(k), PressesDone(k), PressesOffered(k),
                                    PressHeading(k)>>
  PROVE  BoardOf!Next
<1>1. BoardOf!Look(n)
  BY DEF BoardOf!Look
<1> QED BY <1>1 DEF BoardOf!Next

LEMMA BoardRenew ==
  ASSUME NEW n \in Node, BoardOf!Offers(n), UNCHANGED <<served, alive, view>>,
         \A k \in Node : UNCHANGED <<PressesKnown(k), PressesDone(k), PressHeading(k)>>
  PROVE  BoardOf!Next
<1>1. BoardOf!Renew(n)
  BY DEF BoardOf!Renew
<1> QED BY <1>1 DEF BoardOf!Next

\* The offer of a node, from sets of presses.
LEMMA BoardOffers ==
  ASSUME NEW n \in Node, alive'[n] \subseteq Node, view[n] \subseteq Node,
         \A k \in Node : k # n => PressesOffered(k)' = PressesOffered(k),
         PressesOffered(n)' \subseteq PressesKnown(n)' \ PressesDone(n)',
         \E others \in {alive'[n], view[n]} :
           \A m \in others : PressesOffered(n)' \subseteq PressesKnown(m)'
  PROVE  BoardOf!Offers(n)
BY DEF BoardOf!Offers

\* What a new assignment offers is open, and known to all it was made for:
\* they have acknowledged it, and those who have acknowledged have it.
LEMMA UpdateOffers ==
  ASSUME BoardInv, BoardInv', NEW n \in Node, Update(n),
         \A k \in Node, i \in Id : k # n => calls'[k][i] = calls[k][i]
  PROVE  BoardOf!Offers(n)
<1>t. /\ TypeOK /\ AssignedKnown /\ TypeOK' /\ ListsSound' /\ PressOnce'
  BY DEF BoardInv, IInv, BaseInv
<1>u. /\ assigned' \in [Node -> SUBSET Id]
      /\ \A m \in Node : m # n => assigned'[m] = assigned[m]
      /\ \A id \in assigned'[n] : calls'[n][id] # NoCall /\ calls'[n][id].serviced = {}
  BY <1>t, UpdateEffect
<1>o. PICK others \in {alive'[n], view[n]} :
        \A id \in assigned'[n] : others \subseteq calls'[n][id].ack
  BY <1>t, UpdateEffect
<1>1. alive'[n] \subseteq Node /\ view[n] \subseteq Node
  BY <1>t DEF TypeOK
<1>2. ASSUME NEW k \in Node, k # n PROVE PressesOffered(k)' = PressesOffered(k)
  <2>1. assigned'[k] = assigned[k] /\ assigned[k] \subseteq Id
    BY <1>t, <1>u, <1>2 DEF TypeOK
  <2>2. \A i \in assigned[k] : calls'[k][i].press = calls[k][i].press
    BY <1>2, <2>1
  <2> QED BY <2>1, <2>2 DEF PressesOffered
<1>3. ASSUME NEW p \in PressesOffered(n)'
      PROVE  p \in PressesKnown(n)' \ PressesDone(n)' /\ \A m \in others : p \in PressesKnown(m)'
  <2>1. PICK id \in assigned'[n] : p = calls'[n][id].press
    BY DEF PressesOffered
  <2>2. id \in Id /\ Has(n, id)' /\ calls'[n][id].serviced = {}
    BY <1>u DEF Has
  <2>3. p \in PressesKnown(n)'
    BY <2>1, <2>2, PressSetsNext
  <2>4. ASSUME p \in PressesDone(n)' PROVE FALSE
    <3>1. PICK i \in Id : Has(n, i)' /\ calls'[n][i].press = p /\ calls'[n][i].serviced # {}
      BY <2>4, PressSetsNext
    <3>2. i = id
      BY <1>t, <2>1, <2>2, <3>1 DEF PressOnce
    <3> QED BY <2>2, <3>1, <3>2
  <2>5. ASSUME NEW m \in others PROVE p \in PressesKnown(m)'
    <3>1. m \in Node /\ m \in calls'[n][id].ack
      BY <1>1, <1>o
    <3>2. Has(m, id)'
      BY <1>t, <2>2, <3>1 DEF ListsSound, Sound, Has
    <3>3. calls'[m][id].press = p
      BY <1>t, <2>1, <2>2, <3>1, <3>2 DEF ListsSound, Sound, Has
    <3> QED BY <2>2, <3>1, <3>2, <3>3, PressSetsNext
  <2> QED BY <2>3, <2>4, <2>5
<1>4. PressesOffered(n)' \subseteq PressesKnown(n)' \ PressesDone(n)'
  BY <1>3
<1>5. \A m \in others : PressesOffered(n)' \subseteq PressesKnown(m)'
  BY <1>3
<1> QED BY <1>1, <1>2, <1>4, <1>5, BoardOffers

\* Sets of presses follow the lists.
LEMMA PressSetsKept ==
  ASSUME NEW k \in Node,
         \A i \in Id : /\ Has(k, i)' <=> Has(k, i)
                       /\ Has(k, i) => /\ calls'[k][i].press = calls[k][i].press
                                       /\ calls'[k][i].serviced # {} <=> calls[k][i].serviced # {}
  PROVE  PressesKnown(k)' = PressesKnown(k) /\ PressesDone(k)' = PressesDone(k)
<1>1. \A p : p \in PressesKnown(k)' <=> p \in PressesKnown(k)
  BY PressSets, PressSetsNext
<1>2. \A p : p \in PressesDone(k)' <=> p \in PressesDone(k)
  BY PressSets, PressSetsNext
<1> QED BY <1>1, <1>2

LEMMA HeadingKept ==
  ASSUME BaseInv, UNCHANGED serving, NEW k \in Node,
         \A i \in Id : Has(k, i) => calls'[k][i].press = calls[k][i].press
  PROVE  UNCHANGED PressHeading(k)
BY DEF BaseInv, TypeOK, ServingKnown, Known, Has, PressHeading

LEMMA BoardInitMaps == Init => BoardOf!Init
<1> SUFFICES ASSUME Init PROVE BoardOf!Init
  OBVIOUS
<1>1. ASSUME NEW n \in Node
      PROVE  /\ PressesKnown(n) = {} /\ PressesDone(n) = {}
             /\ PressesOffered(n) = {} /\ PressHeading(n) = 0
  BY PressSets DEF Init, Has, PressesOffered, PressHeading
<1> QED BY <1>1 DEF Init, BoardOf!Init

LEMMA BoardStepMaps ==
  ASSUME MaxNum < IdSpan, BoardInv, [Step]_vars
  PROVE  [BoardOf!Next]_(BoardOf!vars)
<1>a. IInv /\ BaseInv /\ PressOnce /\ ServicedSomewhere
  BY DEF BoardInv, IInv
<1>b. BoardInv'
  BY BoardStep
<1>t. /\ calls \in [Node -> [Id -> Call \cup {NoCall}]] /\ poller \in [Node -> Poller]
      /\ alive \in [Node -> SUBSET Node] /\ serving \in [Node -> Id \cup {NoId}]
  BY <1>a DEF BaseInv, TypeOK
<1>s. ASSUME UNCHANGED <<calls, serving, served, alive, assignment>>
      PROVE  UNCHANGED BoardOf!vars
  BY <1>s, BoardStutter
  DEF assignment, PressesKnown, PressesDone, PressesOffered, PressHeading, Known
<1>1. ASSUME NEW n \in Node, AddNewCall(n) PROVE BoardOf!Next
  <2> DEFINE id == [origin |-> n, num |-> poller[n].num]
  <2>1. PICK d \in Id :
          /\ \A k \in Node : calls[k][d] = NoCall
          /\ calls'[n][d] # NoCall /\ calls'[n][d].press = poller[n].press
          /\ calls'[n][d].serviced = {} /\ Pressing(n)
          /\ \A k \in Node, i \in Id : <<k, i>> # <<n, d>> => calls'[k][i] = calls[k][i]
    <3> HIDE DEF id
    <3>1. /\ id \in Id /\ \A k \in Node : calls[k][id] = NoCall
          /\ calls'[n][id] # NoCall /\ calls'[n][id].press = poller[n].press
          /\ calls'[n][id].serviced = {} /\ Pressing(n)
          /\ \A k \in Node, i \in Id : <<k, i>> # <<n, id>> => calls'[k][i] = calls[k][i]
      BY <1>1, <1>a, AddNewCallEffect DEF Has, id
    <3> QED BY <3>1
  <2>2. poller[n].press \in Press
    BY <1>t, <2>1 DEF Pressing, Poller, Idle
  <2>3. UNCHANGED <<serving, served, alive>>
    BY <1>1 DEF AddNewCall
  <2>o. BoardOf!Offers(n) /\ UNCHANGED view
    <3>1. Update(n)
      BY <1>1 DEF AddNewCall
    <3> QED BY <1>a, <1>b, <2>1, <3>1, UpdateOffers, UpdateEffect DEF BaseInv
  <2>4. \A k \in Node : poller[n].press \notin PressesKnown(k)
    BY <1>a, <2>1, PressSets DEF PressOnce
  <2>5. ASSUME NEW k \in Node
        PROVE  /\ PressesKnown(k)' = PressesKnown(k) \cup IF k = n THEN {poller[n].press} ELSE {}
               /\ PressesDone(k)' = PressesDone(k)
               /\ UNCHANGED PressHeading(k)
    <3>1. UNCHANGED PressHeading(k)
      BY <1>a, <2>1, <2>3, HeadingKept DEF Has
    <3>2. CASE k # n
      BY <2>1, <3>1, <3>2, PressSetsKept DEF Has
    <3>3. CASE k = n
      <4>1. \A p : p \in PressesKnown(n)' <=> p \in PressesKnown(n) \/ p = poller[n].press
        BY <2>1, PressSets, PressSetsNext DEF Has
      <4>2. \A p : p \in PressesDone(n)' <=> p \in PressesDone(n)
        BY <2>1, PressSets, PressSetsNext DEF Has
      <4> QED BY <3>1, <3>3, <4>1, <4>2
    <3> QED BY <3>2, <3>3
  <2> QED BY <2>2, <2>3, <2>4, <2>5, <2>o, BoardPost
<1>2. ASSUME NEW n \in Node, NEW m \in net, Receive(n, m) PROVE BoardOf!Next
  <2>1. PICK d \in Id, o \in Node, p \in Press :
          /\ d = m.id /\ Has(o, d) /\ calls[o][d].press = p
          /\ calls'[n][d] # NoCall /\ calls'[n][d].press = p
          /\ calls'[n][d].serviced # {}
               <=> m.call.serviced # {} \/ (Has(n, d) /\ calls[n][d].serviced # {})
          /\ \A k \in Node, i \in Id : <<k, i>> # <<n, d>> => calls'[k][i] = calls[k][i]
    <3>1. m.id \in Id /\ m.id.origin \in Node
      BY <1>2, <1>a, ReceiveEffect
    <3>2. Has(m.id.origin, m.id) /\ calls[m.id.origin][m.id].press \in Press
      <4>1. Has(m.id.origin, m.id)
        BY <1>2, <1>a, ReceiveEffect
      <4> QED BY <1>t, <3>1, <4>1 DEF Has, Call
    <3>3. /\ calls'[n][m.id] # NoCall
          /\ calls'[n][m.id].press = calls[m.id.origin][m.id].press
          /\ calls'[n][m.id].serviced # {}
               <=> m.call.serviced # {} \/ (Has(n, m.id) /\ calls[n][m.id].serviced # {})
          /\ \A k \in Node, i \in Id : <<k, i>> # <<n, m.id>> => calls'[k][i] = calls[k][i]
      BY <1>2, <1>a, ReceiveEffect DEF Has
    <3> QED BY <3>1, <3>2, <3>3
  <2>2. UNCHANGED <<serving, served, alive>>
    BY <1>2 DEF Receive
  <2>o. BoardOf!Offers(n) /\ UNCHANGED view
    <3>1. Update(n)
      BY <1>2 DEF Receive
    <3> QED BY <1>a, <1>b, <2>1, <3>1, UpdateOffers, UpdateEffect DEF BaseInv
  <2>3. Has(n, d) => calls[n][d].press = p
    BY <1>t, <1>a, <2>1 DEF IInv, ListsSound, Sound, Has, Id
  <2>4. p \in PressesKnown(o)
    BY <2>1, PressSets
  <2>5. ASSUME NEW k \in Node
        PROVE  /\ PressesKnown(k)' = PressesKnown(k) \cup IF k = n THEN {p} ELSE {}
               /\ UNCHANGED PressHeading(k)
               /\ k # n => PressesDone(k)' = PressesDone(k)
    <3>1. UNCHANGED PressHeading(k)
      BY <1>a, <2>1, <2>2, <2>3, HeadingKept DEF Has
    <3>2. CASE k # n
      BY <2>1, <3>1, <3>2, PressSetsKept DEF Has
    <3>3. CASE k = n
      <4>1. \A q : q \in PressesKnown(n)' <=> q \in PressesKnown(n) \/ q = p
        BY <2>1, <2>3, PressSets, PressSetsNext DEF Has
      <4> QED BY <3>1, <3>3, <4>1
    <3> QED BY <3>2, <3>3
  <2>6. CASE calls'[n][d].serviced = {}
    <3>1. \A q : q \in PressesDone(n)' <=> q \in PressesDone(n)
      BY <2>1, <2>3, <2>6, PressSets, PressSetsNext DEF Has
    <3>2. PressesDone(n)' = PressesDone(n)
      BY <3>1
    <3> QED BY <2>2, <2>4, <2>5, <2>o, <3>2, BoardLearn
  <2>7. CASE calls'[n][d].serviced # {}
    <3>1. PICK k \in Node : Has(k, d) /\ calls[k][d].serviced # {}
      BY <1>a, <2>1, <2>7 DEF ServicedSomewhere
    <3>2. calls[k][d].press = p
      BY <1>a, <2>1, <3>1 DEF IInv, ListsSound, Sound, Has
    <3>3. p \in PressesDone(k)
      BY <3>1, <3>2, PressSets
    <3>4. \A q : q \in PressesDone(n)' <=> q \in PressesDone(n) \/ q = p
      BY <2>1, <2>3, <2>7, PressSets, PressSetsNext DEF Has
    <3>5. PressesDone(n)' = PressesDone(n) \cup {p}
      BY <3>4
    <3> QED BY <2>2, <2>5, <2>o, <3>3, <3>5, BoardLearnDone
  <2> QED BY <2>6, <2>7
<1>3. ASSUME NEW n \in Node, NEW m \in Node, ReceiveStatus(n, m) PROVE BoardOf!Next
  <2>1. /\ UNCHANGED <<calls, assignment, serving, served>> /\ m # n
        /\ alive' = [alive EXCEPT ![n] = @ \cup {m}]
    BY <1>3 DEF ReceiveStatus
  <2>2. /\ UNCHANGED view
        /\ \A k \in Node : UNCHANGED <<PressesKnown(k), PressesDone(k), PressesOffered(k),
                                       PressHeading(k)>>
    BY <2>1 DEF assignment, PressesKnown, PressesDone, PressesOffered, PressHeading, Known
  <2> QED BY <2>1, <2>2, BoardAppear
<1>4. ASSUME NEW n \in Node, NEW m \in Node, RemoveDead(n, m) PROVE BoardOf!Next
  <2>1. /\ UNCHANGED <<serving, served>> /\ m # n
        /\ alive' = [alive EXCEPT ![n] = @ \ {m}]
    BY <1>4 DEF RemoveDead
  <2>2. \A k \in Node : UNCHANGED <<PressesKnown(k), PressesDone(k), PressHeading(k)>>
    <3> SUFFICES ASSUME NEW k \in Node
                 PROVE  UNCHANGED <<PressesKnown(k), PressesDone(k), PressHeading(k)>>
      OBVIOUS
    <3>1. \A i \in Id : /\ Has(k, i)' <=> Has(k, i)
                        /\ Has(k, i) =>
                             /\ calls'[k][i].press = calls[k][i].press
                             /\ calls'[k][i].serviced # {} <=> calls[k][i].serviced # {}
      BY <1>a, <1>4, RemoveDeadEffect
    <3>2. UNCHANGED PressHeading(k)
      BY <1>a, <2>1, <3>1, HeadingKept
    <3> QED BY <3>1, <3>2, PressSetsKept
  <2>3. \A k \in Node, i \in Id : k # n => calls'[k][i] = calls[k][i]
    BY <1>4, <1>t DEF RemoveDead
  <2>o. BoardOf!Offers(n) /\ UNCHANGED view
    <3>1. Update(n)
      BY <1>4 DEF RemoveDead
    <3> QED BY <1>a, <1>b, <2>3, <3>1, UpdateOffers, UpdateEffect DEF BaseInv
  <2> QED BY <2>1, <2>2, <2>o, BoardVanish
<1>5. ASSUME NEW n \in Node, NEW id \in Id, PickCall(n, id) PROVE BoardOf!Next
  <2> DEFINE p == calls[n][id].press
  <2>1. /\ serving[n] = NoId /\ serving' = [serving EXCEPT ![n] = id]
        /\ id \in assigned[n] /\ Has(n, id)
        /\ UNCHANGED <<calls, assignment, served, alive>>
    BY <1>5, <1>a DEF PickCall, BaseInv, AssignedKnown, Known, Has
  <2>2. p \in Press
    BY <1>t, <2>1 DEF Has, Call
  <2>3. id # NoId
    BY NoCallAssumption DEF Id, NoId
  <2>4. PressHeading(n) = 0 /\ PressHeading(n)' = p
    BY <1>t, <2>1, <2>3 DEF PressHeading
  <2>5. p \in PressesOffered(n)
    BY <2>1 DEF PressesOffered
  <2>6. \A k \in Node : /\ UNCHANGED <<PressesKnown(k), PressesDone(k), PressesOffered(k)>>
                        /\ k # n => UNCHANGED PressHeading(k)
    BY <1>t, <2>1 DEF assignment, PressesKnown, PressesDone, PressesOffered, PressHeading, Known
  <2>7. UNCHANGED <<served, alive, view>>
    BY <2>1 DEF assignment
  <2> QED BY <2>2, <2>4, <2>5, <2>6, <2>7, BoardSetOut
<1>6. ASSUME NEW n \in Node, ServiceCall(n) PROVE BoardOf!Next
  <2>1. PICK d \in Id :
          /\ d = serving[n] /\ Has(n, d) /\ calls'[n][d] # NoCall
          /\ calls'[n][d].press = calls[n][d].press /\ calls'[n][d].serviced # {}
          /\ \A k \in Node, i \in Id : <<k, i>> # <<n, d>> => calls'[k][i] = calls[k][i]
    BY <1>6, <1>a, ServiceCallEffect
  <2>2. /\ d # NoId /\ served' = served \cup {calls[n][d].press}
        /\ serving' = [serving EXCEPT ![n] = NoId] /\ UNCHANGED alive
    BY <1>6, <2>1 DEF ServiceCall
  <2>o. BoardOf!Offers(n) /\ UNCHANGED view
    <3>1. Update(n)
      BY <1>6 DEF ServiceCall
    <3> QED BY <1>a, <1>b, <2>1, <3>1, UpdateOffers, UpdateEffect DEF BaseInv
  <2>3. PressHeading(n) = calls[n][d].press /\ PressHeading(n)' = 0
    BY <1>t, <2>1, <2>2 DEF PressHeading
  <2>4. calls[n][d].press # 0
    BY <1>t, <2>1 DEF Has, Call, Press
  <2>5. ASSUME NEW k \in Node
        PROVE  /\ UNCHANGED PressesKnown(k)
               /\ k # n => UNCHANGED PressHeading(k)
               /\ PressesDone(k)' = PressesDone(k)
                    \cup IF k = n THEN {PressHeading(n)} ELSE {}
    <3>1. CASE k # n
      <4>1. UNCHANGED PressHeading(k)
        BY <1>a, <1>t, <2>1, <2>2, <3>1 DEF PressHeading, BaseInv, ServingKnown, Known
      <4> QED BY <2>1, <3>1, <4>1, PressSetsKept DEF Has
    <3>2. CASE k = n
      <4>1. \A q : q \in PressesKnown(n)' <=> q \in PressesKnown(n)
        BY <2>1, PressSets, PressSetsNext DEF Has
      <4>2. \A q : q \in PressesDone(n)' <=> q \in PressesDone(n) \/ q = calls[n][d].press
        BY <2>1, PressSets, PressSetsNext DEF Has
      <4> QED BY <2>3, <3>2, <4>1, <4>2
    <3> QED BY <3>1, <3>2
  <2> QED BY <2>2, <2>3, <2>4, <2>5, <2>o, BoardServe
<1>7. ASSUME NEW n \in Node, NEW b \in Panel, PressButton(n, b) PROVE UNCHANGED BoardOf!vars
  BY <1>7, <1>s DEF PressButton
<1>8. ASSUME NEW n \in Node, TakeNumber(n) PROVE UNCHANGED BoardOf!vars
  BY <1>8, <1>s DEF TakeNumber
<1>9. ASSUME NEW n \in Node, NEW id \in Id, Transmit(n, id) PROVE UNCHANGED BoardOf!vars
  BY <1>9, <1>s DEF Transmit
<1>10. ASSUME NEW m \in net, Lose(m) PROVE UNCHANGED BoardOf!vars
  BY <1>10, <1>s DEF Lose
<1>11. ASSUME NEW n \in Node, UpdateAfterStatus(n) PROVE BoardOf!Next
  <2>1. Update(n) /\ UNCHANGED <<calls, alive, serving, served>>
    BY <1>11 DEF UpdateAfterStatus
  <2>2. BoardOf!Offers(n) /\ UNCHANGED view
    BY <1>a, <1>b, <2>1, UpdateOffers, UpdateEffect DEF BaseInv
  <2>3. \A k \in Node : UNCHANGED <<PressesKnown(k), PressesDone(k), PressHeading(k)>>
    BY <2>1 DEF PressesKnown, PressesDone, PressHeading, Known
  <2> QED BY <2>1, <2>2, <2>3, BoardRenew
<1>12. ASSUME NEW n \in Node, ReadAliveElevators(n) PROVE BoardOf!Next
  <2>1. /\ view' = [view EXCEPT ![n] = alive[n]]
        /\ UNCHANGED <<calls, alive, assigned, serving, served>>
    BY <1>12 DEF ReadAliveElevators
  <2>2. \A k \in Node : UNCHANGED <<PressesKnown(k), PressesDone(k), PressesOffered(k),
                                    PressHeading(k)>>
    BY <2>1 DEF PressesKnown, PressesDone, PressesOffered, PressHeading, Known
  <2> QED BY <2>1, <2>2, BoardLook
<1>13. CASE UNCHANGED vars
  BY <1>13, <1>s DEF vars
<1> QED
  BY <1>1, <1>2, <1>3, <1>4, <1>5, <1>6, <1>7, <1>8, <1>9, <1>10, <1>11, <1>12, <1>13,
     SMTT(30) DEF Step

\* For any number of nodes, buttons and presses: what messages, merged lists,
\* removed elevators and stale assignments do to the copies of a call and to
\* the cars is what CallBoard allows.
THEOREM BoardRefinement ==
  ASSUME MaxNum < IdSpan
  PROVE  SteadySpec => ImplementsCallBoard
<1>1. BoardInv /\ [Step]_vars => [BoardOf!Next]_(BoardOf!vars)
  BY BoardStepMaps
<1> QED BY <1>1, BoardInvariant, BoardInitMaps, PTL
        DEF SteadySpec, ImplementsCallBoard, BoardOf!Spec
=============================================================================
