----------------------------- MODULE LightsProofs -----------------------------
(***************************************************************************)
(* What is proved of Lights.  The light thread only reads, and it reads    *)
(* the list of elevators, the call list and each call at different times.  *)
(* What a round has found stays true nevertheless until the lamps are      *)
(* written, because a running program never forgets a call or changes its  *)
(* button, and nor does any elevator it has seen alive.                    *)
(***************************************************************************)
EXTENDS Lights, CallReplicationProofs

LightTypes == /\ lamp \in [Watched -> SUBSET Panel]
              /\ round \in [Watched -> {"alive", "list", "check"}]
              /\ seen \in [Watched -> SUBSET Node]
              /\ todo \in [Watched -> SUBSET Id]
              /\ call \in [Watched -> Id \cup {NoId}]
              /\ unread \in [Watched -> SUBSET Node]
              /\ temp \in [Watched -> SUBSET Panel]

\* A round begins with nothing found and no call looked at.
RoundBegins == \A n \in Watched : round[n] # "check" => temp[n] = {} /\ call[n] = NoId

\* The calls of a round stay in the list, and they concern the panel.
InRound(n) == todo[n] \cup ({call[n]} \ {NoId})

ListedIsKnown ==
  \A n \in Watched : \A id \in InRound(n) : Has(n, id) /\ OwnButton(n, id)

\* A cab lamp that is lit, or about to be, has a call from this cab.
OwnCabCalls ==
  \A n \in Watched : \A b \in (lamp[n] \cup temp[n]) \cap Cab :
    \E id \in Id : Has(n, id) /\ id.origin = n /\ calls[n][id].button = b

\* As in CallReplicationProofs: no program has started again, and no number
\* outgrows its field.
Steady == restarts = 0 /\ MaxNum < IdSpan

\* Whoever has been counted for the call looked at has it.
CountedKnow ==
  Steady =>
    \A n \in Watched : call[n] # NoId => \A m \in seen[n] \ unread[n] : Has(m, call[n])

\* What a round has found, every elevator has that was alive at its start.
FoundIsKnown ==
  Steady =>
    \A n \in Watched : \A b \in temp[n] :
      \E id \in Id : Has(n, id) /\ calls[n][id].button = b /\ \A m \in seen[n] : Has(m, id)

LightInv == /\ BaseInv /\ LightTypes /\ RoundBegins /\ ListedIsKnown /\ OwnCabCalls
            /\ (Steady => IInv) /\ CountedKnow /\ FoundIsKnown

-----------------------------------------------------------------------------
LEMMA StepFromLights ==
  ASSUME [LightsNext]_lightVars
  PROVE  [Next]_vars
BY DEF LightsNext, lightVars, lights, RestartLit, LightStep, ReadAlive, ReadCallList, TakeUpCall,
       CountAck, PassOver, Decide, UpdateLamps, Next

\* The lamps are a window on the replicated calls: whatever is proved of
\* those with restarts holds of them here.
THEOREM LampsOnlyShow == LightsSpec => Spec
<1>1. LightsInit => Init
  BY DEF LightsInit
<1> QED
  BY <1>1, StepFromLights, PTL DEF LightsSpec, Spec

LEMMA LightInit == LightsInit => LightInv
<1> SUFFICES ASSUME LightsInit PROVE LightInv
  OBVIOUS
<1>1. Init /\ restarts = 0
  BY DEF LightsInit, Init
<1>2. BaseInv /\ IInv
  BY <1>1, BaseInit, IInvInit
<1>3. LightTypes /\ RoundBegins /\ ListedIsKnown /\ OwnCabCalls /\ CountedKnow /\ FoundIsKnown
  BY DEF LightsInit, LightTypes, RoundBegins, ListedIsKnown, InRound, OwnCabCalls, CountedKnow,
         FoundIsKnown
<1> QED
  BY <1>2, <1>3 DEF LightInv

-----------------------------------------------------------------------------
\* Steps of running programs keep every call, and the button of every call.
LEMMA CallsKept ==
  ASSUME BaseInv, [Step]_vars, NEW k \in Node, NEW i \in Id, Has(k, i)
  PROVE  Has(k, i)' /\ calls'[k][i].button = calls[k][i].button
<1>0. /\ calls \in [Node -> [Id -> Call \cup {NoCall}]] /\ net \subseteq Message
      /\ calls[k][i] \in Call /\ calls[k][i] # NoCall
  BY DEF BaseInv, TypeOK, Has
<1> DEFINE Kept == calls'[k][i] # NoCall /\ calls'[k][i].button = calls[k][i].button
<1>s. Kept => Has(k, i)' /\ calls'[k][i].button = calls[k][i].button
  BY DEF Has
<1>1. ASSUME UNCHANGED calls PROVE Kept
  BY <1>0, <1>1
<1>2. ASSUME NEW n \in Node, NEW id \in Id, NEW new \in Call, AddCall(n, id, new) PROVE Kept
  <2>1. /\ calls'[n][id] = Merge(calls[n][id], new)
        /\ \A m \in Node, j \in Id : <<m, j>> # <<n, id>> => calls'[m][j] = calls[m][j]
    BY <1>0, <1>2, AddCallEffect
  <2>2. CASE <<k, i>> = <<n, id>>
    BY <1>0, <2>1, <2>2, MergeOld, NoCallAssumption
  <2>3. CASE <<k, i>> # <<n, id>>
    BY <1>0, <2>1, <2>3
  <2> QED
    BY <2>2, <2>3
<1>3. ASSUME NEW n \in Node, AddNewCall(n) PROVE Kept
  <2> DEFINE id  == [origin |-> n, num |-> poller[n].num]
             new == [button |-> poller[n].button, press |-> poller[n].press,
                     ack |-> {n}, serviced |-> {}]
  <2>1. poller[n] \in Poller
    BY DEF BaseInv, TypeOK
  <2>2. id \in Id /\ new \in Call
    BY <1>3, <2>1 DEF AddNewCall, Poller, Idle, Id, Call
  <2>3. AddCall(n, id, new)
    BY <1>3 DEF AddNewCall
  <2> HIDE DEF id, new
  <2> QED
    BY <1>2, <2>2, <2>3
<1>4. ASSUME NEW n \in Node, NEW m \in net, Receive(n, m) PROVE Kept
  <2>1. m.id \in Id /\ m.call \in Call
    BY <1>0 DEF Message
  <2>2. Received(n, m.call) \in Call /\ AddCall(n, m.id, Received(n, m.call))
    BY <1>4, <2>1, ReceivedType DEF Receive
  <2> QED
    BY <1>2, <2>1, <2>2
<1>5. ASSUME NEW n \in Node, NEW m \in Node, RemoveDead(n, m) PROVE Kept
  <2>1. calls'[k][i] \in {calls[k][i], Without(calls[k][i], m)}
    BY <1>0, <1>5 DEF RemoveDead
  <2> QED
    BY <1>0, <2>1, WithoutType, NoCallAssumption
<1>6. ASSUME NEW n \in Node, ServiceCall(n) PROVE Kept
  <2>1. calls'[k][i] \in {calls[k][i], [calls[k][i] EXCEPT !.serviced = @ \cup {n}]}
    BY <1>0, <1>6 DEF ServiceCall
  <2>2. /\ [calls[k][i] EXCEPT !.serviced = @ \cup {n}] \in Call
        /\ [calls[k][i] EXCEPT !.serviced = @ \cup {n}].button = calls[k][i].button
    BY <1>0 DEF Call
  <2> QED
    BY <1>0, <2>1, <2>2, NoCallAssumption
<1> HIDE DEF Kept
<1>7. ASSUME NEW n \in Node,
             \/ \E b \in Panel : PressButton(n, b)
             \/ TakeNumber(n) \/ \E id \in Id : Transmit(n, id) \/ PickCall(n, id)
             \/ \E m \in Node : ReceiveStatus(n, m)
             \/ UpdateAfterStatus(n) \/ ReadAliveElevators(n)
      PROVE  Kept
  BY <1>1, <1>7 DEF PressButton, TakeNumber, Transmit, PickCall, ReceiveStatus,
                    UpdateAfterStatus, ReadAliveElevators
<1>8. ASSUME (\E m \in net : Lose(m)) \/ UNCHANGED vars PROVE Kept
  BY <1>1, <1>8 DEF Lose, vars
<1>9. ASSUME Step, ~\E m \in net : Lose(m) PROVE Kept
  <2>1. PICK n \in Node :
          \/ \E b \in Panel : PressButton(n, b)
          \/ TakeNumber(n)
          \/ AddNewCall(n)
          \/ \E id \in Id : Transmit(n, id)
          \/ \E m \in net : Receive(n, m)
          \/ \E m \in Node : ReceiveStatus(n, m)
          \/ UpdateAfterStatus(n) \/ ReadAliveElevators(n)
          \/ \E m \in Node : RemoveDead(n, m)
          \/ \E id \in Id : PickCall(n, id)
          \/ ServiceCall(n)
    BY <1>9 DEF Step
  <2> QED
    BY <2>1, <1>3, <1>4, <1>5, <1>6, <1>7
<1> QED
  BY <1>s, <1>8, <1>9

\* No step but a crash is counted as one.
LEMMA RestartsCounted ==
  ASSUME BaseInv, [Next]_vars
  PROVE  /\ [Step]_vars => restarts' = restarts
         /\ \A n \in Node : Restart(n) => restarts' # 0
<1>1. restarts \in Nat
  BY ReplicationAssumption DEF BaseInv, TypeOK
<1>2. Step => restarts' = restarts
  BY DEF Step, Lose, PressButton, TakeNumber, AddNewCall, Transmit, Receive,
         ReceiveStatus, UpdateAfterStatus, ReadAliveElevators, RemoveDead, PickCall,
         ServiceCall
<1>3. \A n \in Node : Restart(n) => restarts' # 0
  BY <1>1 DEF Restart
<1> QED
  BY <1>2, <1>3 DEF vars

-----------------------------------------------------------------------------
LEMMA StepKeepsLights ==
  ASSUME LightInv, [Step]_vars, UNCHANGED lights
  PROVE  LightInv'
<1>n. [Next]_vars
  BY DEF Next
<1>0. UNCHANGED <<lamp, round, seen, todo, call, unread, temp>> /\ Watched \subseteq Node
  BY WatchedAssumption DEF lights, check
<1>1. BaseInv' /\ restarts' = restarts
  BY <1>n, BaseStep, RestartsCounted DEF LightInv
<1>2. Steady => IInv'
  BY IInvStep DEF LightInv, Steady
<1>3. LightTypes' /\ RoundBegins'
  BY <1>0 DEF LightInv, LightTypes, RoundBegins
<1>l. ListedIsKnown'
  <2> SUFFICES ASSUME NEW n \in Watched, NEW id \in InRound(n)
               PROVE  Has(n, id)' /\ OwnButton(n, id)'
    BY <1>0 DEF ListedIsKnown, InRound
  <2>1. id \in Id /\ Has(n, id) /\ OwnButton(n, id)
    BY DEF LightInv, LightTypes, ListedIsKnown, InRound
  <2> QED
    BY <1>0, <2>1, CallsKept DEF LightInv, OwnButton
<1>c. CountedKnow'
  <2> SUFFICES ASSUME Steady, NEW n \in Watched, call[n] # NoId, NEW m \in seen[n] \ unread[n]
               PROVE  Has(m, call[n])'
    BY <1>0, <1>1 DEF CountedKnow, Steady
  <2>1. m \in Node /\ call[n] \in Id /\ Has(m, call[n])
    BY DEF LightInv, LightTypes, CountedKnow
  <2>2. PICK i \in Id : i = call[n]
    BY <2>1
  <2>3. Has(m, i)'
    BY <2>1, <2>2, CallsKept DEF LightInv
  <2> QED
    BY <1>0, <2>2, <2>3 DEF Has
<1>4. OwnCabCalls'
  <2> SUFFICES ASSUME NEW n \in Watched, NEW b \in (lamp[n] \cup temp[n]) \cap Cab
               PROVE  \E id \in Id : Has(n, id)' /\ id.origin = n /\ calls'[n][id].button = b
    BY <1>0 DEF OwnCabCalls
  <2>1. PICK id \in Id : Has(n, id) /\ id.origin = n /\ calls[n][id].button = b
    BY DEF LightInv, OwnCabCalls
  <2> QED
    BY <1>0, <2>1, CallsKept DEF LightInv
<1>5. FoundIsKnown'
  <2> SUFFICES ASSUME Steady, NEW n \in Watched, NEW b \in temp[n]
               PROVE  \E id \in Id : /\ Has(n, id)' /\ calls'[n][id].button = b
                                     /\ \A m \in seen[n] : Has(m, id)'
    BY <1>0, <1>1 DEF FoundIsKnown, Steady
  <2>1. PICK id \in Id : /\ Has(n, id) /\ calls[n][id].button = b
                         /\ \A m \in seen[n] : Has(m, id)
    BY DEF LightInv, FoundIsKnown
  <2>2. seen[n] \subseteq Node
    BY DEF LightInv, LightTypes
  <2>3. \A m \in seen[n] : Has(m, id)'
    BY <2>1, <2>2, CallsKept DEF LightInv
  <2> QED
    BY <1>0, <2>1, <2>3, CallsKept DEF LightInv
<1> QED
  BY <1>1, <1>2, <1>3, <1>l, <1>c, <1>4, <1>5 DEF LightInv, Steady

LEMMA RestartKeepsLights ==
  ASSUME LightInv, NEW r \in Node, RestartLit(r)
  PROVE  LightInv'
<1>n. Restart(r) /\ [Next]_vars
  BY DEF RestartLit, Next
<1>1. BaseInv' /\ restarts' # 0
  BY <1>n, BaseStep, RestartsCounted DEF LightInv
<1>2. \A n \in Watched :
        /\ n = r => lamp'[n] = {} /\ temp'[n] = {} /\ todo'[n] = {} /\ call'[n] = NoId
        /\ n # r => /\ lamp'[n] = lamp[n] /\ temp'[n] = temp[n] /\ todo'[n] = todo[n]
                    /\ round'[n] = round[n] /\ call'[n] = call[n]
  BY DEF RestartLit
<1>3. LightTypes'
  BY DEF RestartLit, LightInv, LightTypes
<1>4. RoundBegins'
  BY <1>2 DEF LightInv, RoundBegins
<1>5. \A n \in Node : n # r => calls'[n] = calls[n]
  BY <1>n DEF Restart, LightInv, BaseInv, TypeOK
<1>6. OwnCabCalls'
  <2> SUFFICES ASSUME NEW n \in Watched, NEW b \in (lamp'[n] \cup temp'[n]) \cap Cab
               PROVE  \E id \in Id : Has(n, id)' /\ id.origin = n /\ calls'[n][id].button = b
    BY DEF OwnCabCalls
  <2>1. n # r /\ n \in Node /\ b \in (lamp[n] \cup temp[n]) \cap Cab
    BY <1>2, WatchedAssumption
  <2>2. PICK id \in Id : Has(n, id) /\ id.origin = n /\ calls[n][id].button = b
    BY <2>1 DEF LightInv, OwnCabCalls
  <2> QED
    BY <1>5, <2>1, <2>2 DEF Has
<1>7. ListedIsKnown'
  BY <1>2, <1>5, WatchedAssumption DEF LightInv, ListedIsKnown, InRound, Has, OwnButton
<1> QED
  BY <1>1, <1>3, <1>4, <1>6, <1>7 DEF LightInv, CountedKnow, FoundIsKnown, Steady

-----------------------------------------------------------------------------
(* The light thread.                                                       *)

\* It changes nothing of the calls, and so what holds of them.
LEMMA LightReads ==
  ASSUME LightInv, NEW n \in Watched, LightStep(n)
  PROVE  /\ UNCHANGED vars /\ BaseInv' /\ (Steady => IInv') /\ (Steady' <=> Steady)
         /\ calls' = calls
<1>1. UNCHANGED vars
  BY DEF LightStep, ReadAlive, ReadCallList, TakeUpCall, CountAck, PassOver, Decide, UpdateLamps
<1>2. BaseInv' /\ calls' = calls /\ restarts' = restarts
  BY <1>1, BaseStep DEF LightInv, vars
<1>3. Steady => IInv'
  BY <1>1, <1>2 DEF LightInv, vars, IInv, ListsSound, MessagesSound, FreshNumber, PressIsNew,
                    OneOpenOwnCall, Sound, Known
<1> QED
  BY <1>1, <1>2, <1>3 DEF Steady

LEMMA ReadAliveKeeps ==
  ASSUME LightInv, NEW n \in Watched, LightStep(n), ReadAlive(n)
  PROVE  LightInv'
<1>0. LightTypes /\ n \in Node /\ BaseInv' /\ (Steady => IInv') /\ (Steady' <=> Steady)
      /\ calls' = calls
  BY LightReads, WatchedAssumption DEF LightInv
<1>1. /\ seen' = [seen EXCEPT ![n] = alive[n]] /\ round' = [round EXCEPT ![n] = "list"]
      /\ UNCHANGED <<lamp, todo, call, unread, temp>> /\ round[n] = "alive"
  BY DEF ReadAlive, check
<1>2. alive[n] \subseteq Node /\ temp[n] = {} /\ call[n] = NoId
  BY <1>0, <1>1 DEF LightInv, BaseInv, TypeOK, RoundBegins
<1>3. LightTypes'
  BY <1>0, <1>1, <1>2 DEF LightTypes
<1>4. RoundBegins'
  BY <1>0, <1>1, <1>2 DEF LightInv, LightTypes, RoundBegins
<1>5. OwnCabCalls'
  BY <1>0, <1>1 DEF LightInv, OwnCabCalls, Has
<1>6. FoundIsKnown' /\ CountedKnow'
  BY <1>0, <1>1, <1>2 DEF LightInv, LightTypes, FoundIsKnown, CountedKnow, Has
<1>7. ListedIsKnown'
  BY <1>0, <1>1 DEF LightInv, ListedIsKnown, InRound, OwnButton, Has
<1> QED
  BY <1>0, <1>3, <1>4, <1>5, <1>6, <1>7 DEF LightInv

LEMMA ReadCallListKeeps ==
  ASSUME LightInv, NEW n \in Watched, LightStep(n), ReadCallList(n)
  PROVE  LightInv'
<1>0. LightTypes /\ n \in Node /\ BaseInv' /\ (Steady => IInv') /\ (Steady' <=> Steady)
      /\ calls' = calls
  BY LightReads, WatchedAssumption DEF LightInv
<1>1. /\ todo' = [todo EXCEPT ![n] = {id \in Known(n) : OwnButton(n, id)}]
      /\ round' = [round EXCEPT ![n] = "check"]
      /\ UNCHANGED <<lamp, seen, call, unread, temp>>
  BY DEF ReadCallList
<1>2. Known(n) \subseteq Id
  BY DEF Known
<1>3. LightTypes'
  BY <1>0, <1>1, <1>2 DEF LightTypes
<1>4. RoundBegins'
  BY <1>0, <1>1 DEF LightInv, LightTypes, RoundBegins
<1>5. OwnCabCalls' /\ FoundIsKnown' /\ CountedKnow'
  BY <1>0, <1>1 DEF LightInv, OwnCabCalls, FoundIsKnown, CountedKnow, Has
<1>6. \A m \in Watched : todo'[m] = IF m = n THEN {id \in Known(n) : OwnButton(n, id)} ELSE todo[m]
  BY <1>0, <1>1 DEF LightTypes
<1>7. ListedIsKnown'
  <2> SUFFICES ASSUME NEW m \in Watched, NEW id \in InRound(m)'
               PROVE  Has(m, id) /\ OwnButton(m, id)
    BY <1>0 DEF ListedIsKnown, Has, OwnButton
  <2>1. CASE id \in InRound(m)
    BY <2>1 DEF LightInv, ListedIsKnown
  <2>2. CASE m = n /\ id \in Known(n) /\ OwnButton(n, id)
    BY <2>2 DEF Known, Has
  <2> QED
    BY <1>1, <1>6, <2>1, <2>2 DEF InRound
<1> QED
  BY <1>0, <1>3, <1>4, <1>5, <1>7 DEF LightInv

LEMMA TakeUpCallKeeps ==
  ASSUME LightInv, NEW n \in Watched, LightStep(n), NEW id \in todo[n], TakeUpCall(n, id)
  PROVE  LightInv'
<1>0. LightTypes /\ n \in Node /\ BaseInv' /\ (Steady => IInv') /\ (Steady' <=> Steady)
      /\ calls' = calls
  BY LightReads, WatchedAssumption DEF LightInv
<1>1. /\ round[n] = "check"
      /\ todo' = [todo EXCEPT ![n] = @ \ {id}] /\ call' = [call EXCEPT ![n] = id]
      /\ unread' = [unread EXCEPT ![n] = seen[n]] /\ UNCHANGED <<lamp, round, seen, temp>>
  BY DEF TakeUpCall
<1>2. id \in Id /\ seen[n] \in SUBSET Node
  BY <1>0 DEF LightTypes
<1>3. LightTypes'
  <2>1. todo' \in [Watched -> SUBSET Id]
    BY <1>0, <1>1 DEF LightTypes
  <2>2. call' \in [Watched -> Id \cup {NoId}]
    BY <1>0, <1>1, <1>2 DEF LightTypes
  <2>3. unread' \in [Watched -> SUBSET Node]
    BY <1>0, <1>1, <1>2 DEF LightTypes
  <2> QED
    BY <1>0, <1>1, <2>1, <2>2, <2>3 DEF LightTypes
<1>4. RoundBegins'
  BY <1>0, <1>1 DEF LightInv, LightTypes, RoundBegins
<1>5. OwnCabCalls' /\ FoundIsKnown'
  BY <1>0, <1>1 DEF LightInv, OwnCabCalls, FoundIsKnown, Has
<1>6. CountedKnow'
  <2>1. \A m \in Watched : \/ m # n /\ call'[m] = call[m] /\ unread'[m] = unread[m]
                           \/ m = n /\ unread'[m] = seen[m]
    BY <1>0, <1>1 DEF LightTypes
  <2> QED
    BY <1>0, <1>1, <2>1 DEF LightInv, CountedKnow, Has
<1>7. ListedIsKnown'
  <2>1. \A m \in Watched : InRound(m)' \subseteq InRound(m)
    BY <1>0, <1>1 DEF InRound, LightTypes
  <2> QED
    BY <1>0, <2>1 DEF LightInv, ListedIsKnown, OwnButton, Has
<1> QED
  BY <1>0, <1>3, <1>4, <1>5, <1>6, <1>7 DEF LightInv

\* Who is counted is on the acknowledgement list, and therefore has the call.
LEMMA CountAckKeeps ==
  ASSUME LightInv, NEW n \in Watched, LightStep(n), NEW m \in unread[n], CountAck(n, m)
  PROVE  LightInv'
<1>0. LightTypes /\ n \in Node /\ BaseInv' /\ (Steady => IInv') /\ (Steady' <=> Steady)
      /\ calls' = calls
  BY LightReads, WatchedAssumption DEF LightInv
<1>1. /\ call[n] # NoId /\ m \in calls[n][call[n]].ack
      /\ unread' = [unread EXCEPT ![n] = @ \ {m}]
      /\ UNCHANGED <<lamp, round, seen, todo, call, temp>>
  BY DEF CountAck
<1>2. LightTypes'
  BY <1>0, <1>1 DEF LightTypes
<1>3. RoundBegins' /\ OwnCabCalls' /\ FoundIsKnown' /\ ListedIsKnown'
  BY <1>0, <1>1 DEF LightInv, RoundBegins, OwnCabCalls, FoundIsKnown, ListedIsKnown, InRound,
                    OwnButton, Has
<1>4. Steady => Has(m, call[n])
  <2>1. call[n] \in Id /\ Has(n, call[n])
    BY <1>0, <1>1 DEF LightTypes, LightInv, ListedIsKnown, InRound
  <2> QED
    BY <1>0, <1>1, <2>1 DEF LightInv, IInv, ListsSound, Sound, Has
<1>5. CountedKnow'
  <2>1. \A k \in Watched : unread'[k] = IF k = n THEN unread[k] \ {m} ELSE unread[k]
    BY <1>0, <1>1 DEF LightTypes
  <2> QED
    BY <1>0, <1>1, <1>4, <2>1 DEF LightInv, CountedKnow, Has
<1> QED
  BY <1>0, <1>2, <1>3, <1>5 DEF LightInv

LEMMA PassOverKeeps ==
  ASSUME LightInv, NEW n \in Watched, LightStep(n), NEW m \in unread[n], PassOver(n, m)
  PROVE  LightInv'
<1>0. LightTypes /\ n \in Node /\ BaseInv' /\ (Steady => IInv') /\ (Steady' <=> Steady)
      /\ calls' = calls
  BY LightReads, WatchedAssumption DEF LightInv
<1>1. /\ call' = [call EXCEPT ![n] = NoId] /\ unread' = [unread EXCEPT ![n] = {}]
      /\ UNCHANGED <<lamp, round, seen, todo, temp>>
  BY DEF PassOver
<1>2. LightTypes'
  BY <1>0, <1>1 DEF LightTypes
<1>3. /\ \A k \in Watched : k # n => call'[k] = call[k] /\ unread'[k] = unread[k]
      /\ call'[n] = NoId
  BY <1>0, <1>1 DEF LightTypes
<1>4. RoundBegins' /\ OwnCabCalls' /\ FoundIsKnown'
  BY <1>0, <1>1, <1>3 DEF LightInv, RoundBegins, OwnCabCalls, FoundIsKnown, Has
<1>5. CountedKnow' /\ ListedIsKnown'
  BY <1>0, <1>1, <1>3 DEF LightInv, CountedKnow, ListedIsKnown, InRound, OwnButton, Has
<1> QED
  BY <1>0, <1>2, <1>4, <1>5 DEF LightInv

\* Everybody has been counted when the call is decided on.
LEMMA DecideKeeps ==
  ASSUME LightInv, NEW n \in Watched, LightStep(n), Decide(n)
  PROVE  LightInv'
<1>0. LightTypes /\ n \in Node /\ BaseInv' /\ (Steady => IInv') /\ (Steady' <=> Steady)
      /\ calls' = calls
  BY LightReads, WatchedAssumption DEF LightInv
<1>1. /\ call[n] # NoId /\ unread[n] = {}
      /\ temp' = [temp EXCEPT ![n] = @ \cup {calls[n][id].button :
                                             id \in {i \in {call[n]} : IsOpen(calls[n][i])}}]
      /\ call' = [call EXCEPT ![n] = NoId] /\ UNCHANGED <<lamp, round, seen, todo, unread>>
  BY DEF Decide
<1>2. PICK id \in Id : id = call[n] /\ Has(n, id) /\ OwnButton(n, id)
  BY <1>0, <1>1 DEF LightTypes, LightInv, ListedIsKnown, InRound
<1>3. calls[n][id].button \in Panel
  BY <1>0, <1>2 DEF LightInv, BaseInv, TypeOK, Has, Call
<1>4. LightTypes'
  <2>1. {calls[n][i].button : i \in {j \in {call[n]} : IsOpen(calls[n][j])}} \subseteq Panel
    BY <1>2, <1>3
  <2>2. temp' \in [Watched -> SUBSET Panel]
    BY <1>0, <1>1, <2>1 DEF LightTypes
  <2>3. call' \in [Watched -> Id \cup {NoId}]
    BY <1>0, <1>1 DEF LightTypes
  <2> QED
    BY <1>0, <1>1, <2>2, <2>3 DEF LightTypes
<1>5. /\ \A k \in Watched : k # n => call'[k] = call[k] /\ temp'[k] = temp[k]
      /\ call'[n] = NoId
      /\ temp'[n] \subseteq temp[n] \cup {calls[n][id].button}
  BY <1>0, <1>1, <1>2 DEF LightTypes
<1>6. RoundBegins'
  BY <1>1, <1>5 DEF LightInv, RoundBegins
<1>7. CountedKnow' /\ ListedIsKnown'
  BY <1>0, <1>1, <1>5 DEF LightInv, CountedKnow, ListedIsKnown, InRound, OwnButton, Has
<1>8. OwnCabCalls'
  <2> SUFFICES ASSUME NEW m \in Watched, NEW b \in (lamp'[m] \cup temp'[m]) \cap Cab
               PROVE  \E i \in Id : Has(m, i) /\ i.origin = m /\ calls[m][i].button = b
    BY <1>0 DEF OwnCabCalls, Has
  <2>1. CASE b \in lamp[m] \cup temp[m]
    BY <2>1 DEF LightInv, OwnCabCalls
  <2>2. CASE m = n /\ b = calls[n][id].button
    BY <1>2, <2>2, ReplicationAssumption DEF OwnButton
  <2> QED
    BY <1>1, <1>5, <2>1, <2>2
<1>9. FoundIsKnown'
  <2> SUFFICES ASSUME Steady, NEW m \in Watched, NEW b \in temp'[m]
               PROVE  \E i \in Id : /\ Has(m, i) /\ calls[m][i].button = b
                                    /\ \A k \in seen[m] : Has(k, i)
    BY <1>0, <1>1 DEF FoundIsKnown, Has
  <2>1. CASE b \in temp[m]
    BY <2>1 DEF LightInv, FoundIsKnown
  <2>2. CASE m = n /\ b = calls[n][id].button
    BY <1>1, <1>2, <2>2 DEF LightInv, CountedKnow
  <2> QED
    BY <1>5, <2>1, <2>2
<1> QED
  BY <1>0, <1>4, <1>6, <1>7, <1>8, <1>9 DEF LightInv

LEMMA UpdateLampsKeeps ==
  ASSUME LightInv, NEW n \in Watched, LightStep(n), UpdateLamps(n)
  PROVE  LightInv'
<1>0. LightTypes /\ n \in Node /\ BaseInv' /\ (Steady => IInv') /\ (Steady' <=> Steady)
      /\ calls' = calls
  BY LightReads, WatchedAssumption DEF LightInv
<1>1. /\ lamp' = [lamp EXCEPT ![n] = temp[n]] /\ temp' = [temp EXCEPT ![n] = {}]
      /\ round' = [round EXCEPT ![n] = "alive"] /\ UNCHANGED <<seen, todo, call, unread>>
      /\ call[n] = NoId
  BY DEF UpdateLamps
<1>2. LightTypes'
  BY <1>0, <1>1 DEF LightTypes
<1>3. RoundBegins'
  BY <1>0, <1>1 DEF LightInv, LightTypes, RoundBegins
<1>4. \A m \in Watched : /\ temp'[m] \subseteq temp[m]
                         /\ lamp'[m] \cup temp'[m] \subseteq lamp[m] \cup temp[m]
  BY <1>0, <1>1 DEF LightTypes
<1>5. OwnCabCalls' /\ FoundIsKnown'
  BY <1>0, <1>1, <1>4 DEF LightInv, OwnCabCalls, FoundIsKnown, Has
<1>6. ListedIsKnown' /\ CountedKnow'
  BY <1>0, <1>1 DEF LightInv, ListedIsKnown, InRound, CountedKnow, OwnButton, Has
<1> QED
  BY <1>0, <1>2, <1>3, <1>5, <1>6 DEF LightInv

LEMMA LightStepKeeps ==
  ASSUME LightInv, NEW n \in Watched, LightStep(n)
  PROVE  LightInv'
<1>1. CASE ReadAlive(n) \/ ReadCallList(n) \/ Decide(n) \/ UpdateLamps(n)
  BY <1>1, ReadAliveKeeps, ReadCallListKeeps, DecideKeeps, UpdateLampsKeeps
<1>2. CASE \E id \in todo[n] : TakeUpCall(n, id)
  BY <1>2, TakeUpCallKeeps
<1>3. CASE \E m \in unread[n] : CountAck(n, m) \/ PassOver(n, m)
  BY <1>3, CountAckKeeps, PassOverKeeps
<1> QED
  BY <1>1, <1>2, <1>3 DEF LightStep

LEMMA LightInvStep == LightInv /\ [LightsNext]_lightVars => LightInv'
<1> SUFFICES ASSUME LightInv, [LightsNext]_lightVars PROVE LightInv'
  OBVIOUS
<1>1. CASE \E n \in Watched : LightStep(n)
  BY <1>1, LightStepKeeps
<1>2. CASE \E n \in Node : RestartLit(n)
  BY <1>2, RestartKeepsLights
<1>3. CASE Step /\ UNCHANGED lights
  BY <1>3, StepKeepsLights
<1>4. CASE UNCHANGED lightVars
  BY <1>4, StepKeepsLights DEF lightVars
<1> QED
  BY <1>1, <1>2, <1>3, <1>4 DEF LightsNext

\* A lit cab lamp has a call from this cab, whatever restarts and however
\* numbers are reused: the originator is part of a call's id.
THEOREM CabLampsAreOwn == LightsSpec => []CabLampIsOwn
<1>1. LightInv => CabLampIsOwn
  BY DEF LightInv, OwnCabCalls, CabLampIsOwn, Known, Has
<1> QED
  BY <1>1, LightInit, LightInvStep, PTL DEF LightsSpec

\* Until a program restarts, a lamp comes on only for a call that every
\* elevator seen alive has, though each list was read at another time.
THEOREM LampsAreTrue ==
  ASSUME MaxNum < IdSpan
  PROVE  LightsSpec => LampMeansKnown
<1> DEFINE LitIsKnown == \A n \in Watched : \A b \in lamp'[n] \ lamp[n] :
                       \E id \in Known(n) : /\ calls[n][id].button = b
                                            /\ \A m \in seen[n] : id \in Known(m)
<1>1. ASSUME LightInv, [LightsNext]_lightVars PROVE [restarts = 0 => LitIsKnown]_lightVars
  <2> SUFFICES ASSUME LightsNext, restarts = 0, NEW n \in Watched, NEW b \in lamp'[n] \ lamp[n]
               PROVE  \E id \in Known(n) : /\ calls[n][id].button = b
                                           /\ \A m \in seen[n] : id \in Known(m)
    BY <1>1
  <2>0. lamp \in [Watched -> SUBSET Panel]
    BY <1>1 DEF LightInv, LightTypes
  <2>1. b \in temp[n]
    <3>1. ASSUME NEW r \in Node, RestartLit(r) PROVE FALSE
      BY <3>1 DEF RestartLit
    <3>2. PICK w \in Watched : LightStep(w)
      BY <3>1 DEF LightsNext, lights
    <3>3. UpdateLamps(w)
      BY <3>2 DEF LightStep, ReadAlive, ReadCallList, TakeUpCall, CountAck, PassOver, Decide
    <3>4. w = n /\ lamp'[n] = temp[n]
      BY <2>0, <3>3 DEF UpdateLamps
    <3> QED
      BY <3>4
  <2>2. PICK id \in Id : /\ Has(n, id) /\ calls[n][id].button = b
                         /\ \A m \in seen[n] : Has(m, id)
    BY <1>1, <2>1 DEF LightInv, FoundIsKnown, Steady
  <2> QED
    BY <2>2 DEF Known, Has
<1> QED
  BY <1>1, LightInit, LightInvStep, PTL DEF LightsSpec, LampMeansKnown
=============================================================================
