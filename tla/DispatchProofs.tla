---------------------------- MODULE DispatchProofs ----------------------------
(***************************************************************************)
(* What is proved of Dispatch, for any elevators, floors, calls, crashes   *)
(* and statuses under way, and for any assigner that answers the same      *)
(* question in the same way: nodes that know the same divide the calls,    *)
(* although none of them looks at what the others have assigned, and as    *)
(* long as the cars stand still nothing that happens undoes it.  That the  *)
(* nodes come to know the same is a matter of fairness and stays with TLC. *)
(***************************************************************************)
EXTENDS Dispatch, FiniteSetTheorems, TLAPS

Typed == /\ car \in [Node -> Status]
         /\ up \in SUBSET Node /\ up # {}
         /\ flying \in [Node -> [Node -> SUBSET Status]]
         /\ \A n \in Node : flying[n][n] = {}
         /\ view \in [Node -> [Node -> Status \cup {NoStatus}]]
         /\ ready \in [Node -> SUBSET Call]
         /\ assigned \in [Node -> SUBSET Call]
         /\ made \in SUBSET Call

\* What nodes that are up to date see: the cars of all programs that run.
Running == [m \in Node |-> IF m \in up THEN car[m] ELSE NoStatus]

-----------------------------------------------------------------------------
(* Nodes that are up to date divide the calls.                             *)

LEMMA SeesRunning ==
  ASSUME Typed, Agreed, NEW n \in up
  PROVE  /\ Seen(n) = Running
         /\ ready[n] = Open
         /\ assigned[n] = Assignment(n, Running, Open)
<1>1. n \in Node /\ UpToDate(n) /\ view[n] \in [Node -> Status \cup {NoStatus}]
  BY DEF Typed, Agreed
<1>2. \A m \in Node : Seen(n)[m] = Running[m]
  BY <1>1 DEF Seen, Running, UpToDate
<1>3. DOMAIN Seen(n) = Node /\ DOMAIN Running = Node
  BY <1>1 DEF Seen, Running
<1>4. Seen(n) = Running
  BY <1>1, <1>2, <1>3 DEF Seen, Running
<1> QED BY <1>1, <1>4 DEF UpToDate

LEMMA FreeOfRunning == ASSUME Typed PROVE Free(Running) = Available
<1>1. \A m \in up : m \in Node /\ car[m] # NoStatus
  BY DispatchAssumption DEF Typed
<1>2. \A m \in Node : (Running[m] # NoStatus /\ ~Running[m].obstruction)
                        <=> (m \in up /\ ~car[m].obstruction)
  BY <1>1 DEF Running
<1> QED BY <1>1, <1>2 DEF Free, Available

\* The assigner gives each open hall call to one of the cars it is told of.
LEMMA DivideRunning ==
  ASSUME Typed, NEW cars \in SUBSET up, cars # {}, Open \in SUBSET Call
  PROVE  Divide(Open, AssignerInput(cars, Running)) \in [Hall(Open) -> cars]
<1>1. \A m \in cars : /\ Running[m].floor \in Floor
                      /\ Running[m].state \in State
  BY DEF Running, Typed, Status
<1>2. AssignerInput(cars, Running) \in [cars -> Told]
  BY <1>1 DEF AssignerInput, Told
<1>3. cars \in (SUBSET Node) \ {{}}
  BY DEF Typed
<1> HIDE DEF Open
<1> QED BY <1>2, <1>3, DispatchAssumption

\* With no car free, everybody is told of itself alone and takes every hall
\* call and its own cab calls.
LEMMA DividesWithNoCarFree ==
  ASSUME Typed, Agreed, Available = {}, NEW c \in Open
  PROVE  /\ CabOf[c] = Nobody => Owners(c) = up
         /\ CabOf[c] # Nobody => Owners(c) = {CabOf[c]} \cap up
<1>1. Open \in SUBSET Call
  BY DEF Open, Typed
<1>2. ASSUME NEW n \in up
      PROVE  n \in Owners(c) <=> CabOf[c] = n \/ CabOf[c] = Nobody
  <2>1. Asked(n, Running) = {n} /\ {n} \in SUBSET up /\ n \in Node
    BY FreeOfRunning DEF Asked, Typed
  <2>2. Divide(Open, AssignerInput({n}, Running)) \in [Hall(Open) -> {n}]
    BY <1>1, <2>1, DivideRunning
  <2>3. CabOf[c] = Nobody => Divide(Open, AssignerInput({n}, Running))[c] = n
    BY <2>2 DEF Hall
  <2>4. c \in assigned[n] <=> CabOf[c] = n \/ CabOf[c] = Nobody
    BY <2>1, <2>3, SeesRunning DEF Assignment
  <2> QED BY <2>4 DEF Owners
<1>3. Owners(c) \subseteq up /\ Nobody \notin up
  BY DispatchAssumption DEF Owners, Typed
<1> QED BY <1>2, <1>3

\* With a car free, all ask the same question, and the car that the answer
\* names takes the call.
LEMMA DividesAmongFree ==
  ASSUME Typed, Agreed, Available # {}, NEW c \in Open
  PROVE  /\ CabOf[c] = Nobody => \E k \in up : Owners(c) = {k}
         /\ CabOf[c] # Nobody => Owners(c) = {CabOf[c]} \cap Available
<1> DEFINE D == Divide(Open, AssignerInput(Available, Running))
<1>1. Open \in SUBSET Call /\ Available \in SUBSET up
  BY DEF Open, Typed, Available
<1>2. D \in [Hall(Open) -> Available]
  BY <1>1, DivideRunning
<1>3. ASSUME NEW n \in up
      PROVE  n \in Owners(c) <=> /\ n \in Available
                                 /\ CabOf[c] = n \/ (CabOf[c] = Nobody /\ D[c] = n)
  <2>1. Asked(n, Running) = Available
    BY FreeOfRunning DEF Asked
  <2>2. assigned[n] = Assignment(n, Running, Open)
    BY SeesRunning
  <2> HIDE DEF D
  <2>3. c \in assigned[n] <=> /\ n \in Available
                              /\ CabOf[c] = n \/ (CabOf[c] = Nobody /\ D[c] = n)
    BY <2>1, <2>2 DEF Assignment, D
  <2> QED BY <2>3 DEF Owners
<1>4. Owners(c) \subseteq up /\ Nobody \notin up
  BY DispatchAssumption DEF Owners, Typed
<1>5. ASSUME CabOf[c] = Nobody PROVE \E k \in up : Owners(c) = {k}
  <2>1. D[c] \in Available
    BY <1>2, <1>5 DEF Hall
  <2> HIDE DEF D
  <2>2. D[c] \in up /\ Owners(c) = {D[c]}
    BY <1>1, <1>3, <1>4, <1>5, <2>1
  <2> QED BY <2>2
<1>6. ASSUME CabOf[c] # Nobody PROVE Owners(c) = {CabOf[c]} \cap Available
  <2> HIDE DEF D
  <2>1. \A n \in up : n \in Owners(c) <=> n \in Available /\ CabOf[c] = n
    BY <1>3, <1>6
  <2> QED BY <1>1, <1>4, <2>1
<1> QED BY <1>5, <1>6

LEMMA AgreedDivides == Typed /\ Agreed => Divided
<1> SUFFICES ASSUME Typed, Agreed, NEW c \in Open
             PROVE  /\ CabOf[c] = Nobody
                         => /\ Owners(c) # {}
                            /\ Available # {} => Cardinality(Owners(c)) = 1
                    /\ CabOf[c] # Nobody
                         => Owners(c) = {CabOf[c]} \cap IF Available = {} THEN up ELSE Available
  BY DEF Divided
<1>1. CASE Available = {}
  <2>1. up # {}
    BY DEF Typed
  <2> QED BY <1>1, <2>1, DividesWithNoCarFree
<1>2. CASE Available # {}
  <2>1. \A k \in up : Cardinality({k}) = 1
    BY FS_Singleton
  <2>2. CabOf[c] = Nobody => Owners(c) # {} /\ Cardinality(Owners(c)) = 1
    BY <1>2, <2>1, DividesAmongFree
  <2> QED BY <1>2, <2>2, DividesAmongFree
<1> QED BY <1>1, <1>2

-----------------------------------------------------------------------------
(* The types, and that somebody is up.                                     *)

LEMMA TypedReassign ==
  ASSUME Typed, ready' \in [Node -> SUBSET Call], NEW n \in Node, Reassign(n)
  PROVE  assigned' \in [Node -> SUBSET Call]
<1>1. Assignment(n, [view'[n] EXCEPT ![n] = car'[n]], ready'[n]) \subseteq ready'[n]
  BY DEF Assignment
<1> QED BY <1>1 DEF Reassign, Typed

\* The actions of the FSM thread: a car may change, and its calls.
LEMMA TypedCar ==
  ASSUME Typed, NEW n \in Node,
         HandleEvent(n) \/ Arrive(n) \/ CloseDoor(n) \/ FlipObstruction(n)
  PROVE  Typed'
<1>0. \A f \in Floor :
        [car EXCEPT ![n].floor = f, ![n].state = "open"] \in [Node -> Status]
  BY DEF Typed, Status, State
<1>1. ASSUME NEW f \in Floor, Serve(n, f) PROVE Typed'
  <2>1. car' \in [Node -> Status]
    BY <1>0, <1>1 DEF Serve
  <2>2. ready' \in [Node -> SUBSET Call] /\ Reassign(n)
    BY <1>1 DEF Serve, Typed
  <2>3. assigned' \in [Node -> SUBSET Call]
    BY <2>2, TypedReassign
  <2> QED BY <1>1, <2>1, <2>2, <2>3 DEF Serve, Typed
<1>2. ASSUME car' \in [Node -> Status], UNCHANGED <<up, flying, view, lists, calls>>
      PROVE  Typed'
  BY <1>2 DEF Typed, lists, calls
<1>3. car[n] \in Status
  BY DEF Typed
<1>4. CASE HandleEvent(n)
  <2>1. CASE OpenHere(n)
    BY <1>1, <1>3, <2>1 DEF OpenHere, Status
  <2>2. CASE SetOut(n)
    <3>1. PICK s \in State : car' = [car EXCEPT ![n].state = s]
      BY <2>2 DEF SetOut, State
    <3>2. car' \in [Node -> Status]
      BY <3>1 DEF Typed, Status
    <3> QED BY <1>2, <2>2, <3>2 DEF SetOut
  <2> QED BY <1>4, <2>1, <2>2 DEF HandleEvent
<1>5. CASE Arrive(n)
  <2>1. PICK f \in Floor :
          \/ Serve(n, f)
          \/ /\ car' = [car EXCEPT ![n].floor = f, ![n].state = "open"]
             /\ UNCHANGED <<up, flying, view, lists, calls>>
    BY <1>5 DEF Arrive, Ahead
  <2> QED BY <1>0, <1>1, <1>2, <2>1
<1>6. CASE CloseDoor(n)
  <2>1. car' \in [Node -> Status]
    BY <1>6 DEF CloseDoor, Typed, Status, State
  <2> QED BY <1>2, <1>6, <2>1 DEF CloseDoor
<1>7. CASE FlipObstruction(n)
  <2>1. car' \in [Node -> Status]
    BY <1>7 DEF FlipObstruction, Typed, Status
  <2> QED BY <1>2, <1>7, <2>1 DEF FlipObstruction
<1> QED BY <1>4, <1>5, <1>6, <1>7

LEMMA TypedStep == Typed /\ [Next]_vars => Typed'
<1> SUFFICES ASSUME Typed, [Next]_vars PROVE Typed'
  OBVIOUS
<1>1. ASSUME NEW n \in Node, Reassign(n), ready' \in [Node -> SUBSET Call],
             view' \in [Node -> [Node -> Status \cup {NoStatus}]],
             flying' \in [Node -> [Node -> SUBSET Status]],
             \A k \in Node : flying'[k][k] = {},
             UNCHANGED <<car, up, calls>>
      PROVE  Typed'
  BY <1>1, TypedReassign DEF Typed, calls
<1>2. ASSUME NEW c \in Call, PressButton(c) PROVE Typed'
  BY <1>2 DEF PressButton, Typed, lists
<1>3. ASSUME NEW n \in Node, NEW c \in Call, LearnCall(n, c) \/ LearnServed(n, c)
      PROVE  Typed'
  <2>1. ready' \in [Node -> SUBSET Call]
    BY <1>3 DEF LearnCall, LearnServed, Typed
  <2> QED BY <1>1, <1>3, <2>1 DEF LearnCall, LearnServed, Typed
<1>4. ASSUME NEW n \in Node, OtherCall(n) PROVE Typed'
  BY <1>1, <1>4 DEF OtherCall, Typed
<1>5. ASSUME NEW n \in Node, NEW m \in Node, SendStatus(m, n) PROVE Typed'
  <2>1. car[m] \in Status
    BY DEF Typed
  <2>2. flying' \in [Node -> [Node -> SUBSET Status]]
    BY <1>5, <2>1 DEF SendStatus, Typed
  <2>3. \A k \in Node : flying'[k][k] = {}
    BY <1>5 DEF SendStatus, Typed
  <2> QED BY <1>5, <2>2, <2>3 DEF SendStatus, Typed, lists, calls
<1>6. ASSUME NEW n \in Node, NEW m \in Node, NEW status \in flying[n][m],
             ReceiveStatus(n, m, status)
      PROVE  Typed'
  <2>1. flying[n][m] \in SUBSET Status
    BY DEF Typed
  <2>2. flying' \in [Node -> [Node -> SUBSET Status]]
    BY <1>6, <2>1 DEF ReceiveStatus, Typed
  <2>3. view' \in [Node -> [Node -> Status \cup {NoStatus}]]
    BY <1>6, <2>1 DEF ReceiveStatus, Typed
  <2>4. ready' \in [Node -> SUBSET Call]
    BY <1>6 DEF ReceiveStatus, Typed
  <2>5. \A k \in Node : flying'[k][k] = {}
    BY <1>6 DEF ReceiveStatus, Typed
  <2> QED BY <1>1, <1>6, <2>2, <2>3, <2>4, <2>5 DEF ReceiveStatus
<1>7. ASSUME NEW n \in Node, NEW m \in Node, RemoveElevator(n, m) PROVE Typed'
  <2>1. view' \in [Node -> [Node -> Status \cup {NoStatus}]]
    BY <1>7 DEF RemoveElevator, Typed
  <2> QED BY <1>1, <1>7, <2>1 DEF RemoveElevator, Typed
<1>8. ASSUME NEW n \in Node, Crash(n) PROVE Typed'
  <2>1. up' # {} /\ up' \in SUBSET Node
    BY <1>8 DEF Crash, Typed
  <2>2. view' \in [Node -> [Node -> Status \cup {NoStatus}]]
    BY <1>8 DEF Crash, Typed
  <2>3. flying' \in [Node -> [Node -> SUBSET Status]]
    BY <1>8 DEF Crash, Typed
  <2>4. ready' \in [Node -> SUBSET Call] /\ assigned' \in [Node -> SUBSET Call]
    BY <1>8 DEF Crash, Typed
  <2>5. \A k \in Node : flying'[k][k] = {}
    BY <1>8 DEF Crash, Typed
  <2> QED BY <1>8, <2>1, <2>2, <2>3, <2>4, <2>5 DEF Crash, Typed, calls
<1>9. ASSUME NEW n \in Node,
             HandleEvent(n) \/ Arrive(n) \/ CloseDoor(n) \/ FlipObstruction(n)
      PROVE  Typed'
  BY <1>9, TypedCar
<1>10. CASE UNCHANGED vars
  BY <1>10 DEF vars, lists, calls, Typed
<1> QED BY <1>2, <1>3, <1>4, <1>5, <1>6, <1>7, <1>8, <1>9, <1>10 DEF Next

\* Types, and at least one program that runs.  Of a set of nodes that is not
\* empty, Crash leaves one.
THEOREM AlwaysTyped == ASSUME Node # {} PROVE Spec => []Typed
<1>1. Init => Typed
  <2> SUFFICES ASSUME Init PROVE Typed
    OBVIOUS
  <2>1. car \in [Node -> Status]
    BY DEF Init, Status, State
  <2> QED BY <2>1 DEF Init, Typed
<1> QED BY <1>1, TypedStep, PTL DEF Spec

-----------------------------------------------------------------------------
(* What happens while the cars stand still.                                *)

LEMMA StaysUpToDate ==
  ASSUME Still, served' = served, NEW n, UpToDate(n),
         UNCHANGED <<view[n], ready[n], assigned[n]>>,
         \A m \in Node \ {n} : flying'[n][m] \subseteq flying[n][m] \cup {car[m]},
         \A m \in Node \ up : flying'[n][m] \subseteq flying[n][m]
  PROVE  UpToDate(n)'
<1>1. Open' = Open /\ Seen(n)' = Seen(n)
  BY DEF Open, Seen, Still
<1>2. ASSUME NEW m \in Node \ {n}
      PROVE  flying'[n][m] \subseteq IF m \in up THEN {car[m]} ELSE {}
  BY DEF UpToDate
<1> QED BY <1>1, <1>2 DEF UpToDate, Still

\* A node that is up to date and assigns again comes to the same result.
LEMMA ReassignsTheSame ==
  ASSUME Typed, NEW n \in up, UpToDate(n), Reassign(n),
         view'[n] = view[n], ready'[n] = ready[n], car' = car
  PROVE  assigned' = assigned
<1>1. assigned' = [assigned EXCEPT ![n] = Assignment(n, Seen(n), ready[n])]
  BY DEF Reassign, Seen
<1>2. assigned[n] = Assignment(n, Seen(n), ready[n])
  BY DEF UpToDate
<1> QED BY <1>1, <1>2 DEF Typed

\* Every action of an FSM thread and of its car changes the status.
LEMMA CarChanges ==
  ASSUME Typed, NEW n \in Node,
         HandleEvent(n) \/ Arrive(n) \/ CloseDoor(n) \/ FlipObstruction(n)
  PROVE  car' # car
<1>1. car[n] \in Status
  BY DEF Typed
<1>2. \A f, s : [car EXCEPT ![n].floor = f, ![n].state = s][n].state = s
  BY <1>1 DEF Typed, Status
<1>3. \A s : [car EXCEPT ![n].state = s][n].state = s
  BY <1>1 DEF Typed, Status
<1>5. CASE HandleEvent(n)
  <2>1. CASE OpenHere(n)
    <3>1. \A f : Serve(n, f) => car'[n].state = "open"
      BY <1>2 DEF Serve
    <3> QED BY <2>1, <3>1 DEF OpenHere
  <2>2. CASE SetOut(n)
    BY <1>3, <2>2 DEF SetOut
  <2> QED BY <1>5, <2>1, <2>2 DEF HandleEvent
<1>6. CASE Arrive(n)
  <2>1. PICK f \in Floor : /\ f \in Ahead(n)
                           /\ car' = [car EXCEPT ![n].floor = f, ![n].state = "open"]
    BY <1>6 DEF Arrive, Serve, Ahead
  <2>2. car[n].state # "open"
    BY <2>1 DEF Ahead
  <2> QED BY <1>2, <2>1, <2>2
<1>7. CASE CloseDoor(n)
  BY <1>3, <1>7 DEF CloseDoor
<1>8. CASE FlipObstruction(n)
  <2>1. car'[n].obstruction = ~car[n].obstruction /\ car[n].obstruction \in BOOLEAN
    BY <1>1, <1>8 DEF FlipObstruction, Typed, Status
  <2> QED BY <2>1
<1> QED BY <1>5, <1>6, <1>7, <1>8

LEMMA AgreedStep ==
  ASSUME Typed, Agreed, [Next]_vars, Still
  PROVE  Agreed'
<1>1. \A n \in up : /\ n \in Node /\ ready[n] = Open /\ UpToDate(n)
                    /\ \A m \in Node \ {n} :
                         /\ view[n][m] = IF m \in up THEN car[m] ELSE NoStatus
                         /\ flying[n][m] \subseteq IF m \in up THEN {car[m]} ELSE {}
  BY DEF Agreed, UpToDate, Typed
<1>2. car' = car /\ up' = up /\ made' = made
  BY DEF Still
<1>3. ASSUME UNCHANGED <<view, ready, assigned, served>>,
             \A k, m \in Node : flying'[k][m] \subseteq flying[k][m] \cup {car[m]},
             \A k \in Node, m \in Node \ up : flying'[k][m] \subseteq flying[k][m]
      PROVE  Agreed'
  <2>1. ASSUME NEW k \in up PROVE UpToDate(k)'
    <3>1. k \in Node /\ UpToDate(k)
      BY <1>1
    <3> QED BY <1>3, <3>1, StaysUpToDate
  <2> QED BY <1>2, <2>1 DEF Agreed
<1>4. ASSUME NEW c \in Call, PressButton(c) PROVE FALSE
  BY <1>2, <1>4 DEF PressButton
<1>5. ASSUME NEW n \in Node, NEW c \in Call, LearnCall(n, c) \/ LearnServed(n, c)
      PROVE  FALSE
  BY <1>1, <1>5 DEF LearnCall, LearnServed, Open
<1>6. ASSUME NEW n \in Node, OtherCall(n) PROVE Agreed'
  <2>1. assigned' = assigned
    BY <1>1, <1>2, <1>6, ReassignsTheSame DEF OtherCall
  <2> QED BY <1>3, <1>6, <2>1 DEF OtherCall, calls
<1>7. ASSUME NEW n \in Node, NEW m \in Node, SendStatus(m, n) PROVE Agreed'
  <2>1. \A k, j \in Node : flying'[k][j] = IF k = n /\ j = m THEN flying[k][j] \cup {car[m]}
                                                              ELSE flying[k][j]
    BY <1>7 DEF SendStatus, Typed
  <2>2. m \in up
    BY <1>7 DEF SendStatus
  <2> QED BY <1>3, <1>7, <2>1, <2>2 DEF SendStatus, lists, calls
<1>8. ASSUME NEW n \in Node, NEW m \in Node, NEW status \in flying[n][m],
             ReceiveStatus(n, m, status)
      PROVE  Agreed'
  <2>1. n \in up /\ m # n
    BY <1>8 DEF ReceiveStatus, Typed
  <2>2. m \in up /\ status = car[m] /\ view[n][m] = car[m]
    BY <1>1, <2>1
  <2>3. view[n][m] # NoStatus
    BY <2>2, DispatchAssumption DEF Typed
  <2>4. ready' = ready
    <3>1. ready' = [ready EXCEPT ![n] = ready[n]]
      BY <1>8, <2>3 DEF ReceiveStatus
    <3> QED BY <3>1 DEF Typed
  <2>5. view' = view
    <3>1. view' = [view EXCEPT ![n][m] = view[n][m]]
      BY <1>8, <2>2 DEF ReceiveStatus
    <3> QED BY <3>1 DEF Typed
  <2>6. assigned' = assigned
    BY <1>1, <1>2, <1>8, <2>1, <2>4, <2>5, ReassignsTheSame DEF ReceiveStatus
  <2>7. \A k, j \in Node : flying'[k][j] \subseteq flying[k][j]
    BY <1>8 DEF ReceiveStatus, Typed
  <2> QED BY <1>3, <1>8, <2>4, <2>5, <2>6, <2>7 DEF ReceiveStatus, calls
<1>9. ASSUME NEW n \in Node, NEW m \in Node, RemoveElevator(n, m) PROVE FALSE
  <2>1. n \in up /\ view[n][m] # NoStatus
    BY <1>9 DEF RemoveElevator
  <2>2. m \in up
    BY <1>1, <2>1
  <2>3. view'[n][m] = NoStatus
    BY <1>9 DEF RemoveElevator, Typed
  <2> QED BY <2>1, <2>2, <2>3 DEF Still
<1>10. ASSUME NEW n \in Node, Crash(n) PROVE FALSE
  BY <1>2, <1>10 DEF Crash
<1>11. ASSUME NEW n \in Node,
              HandleEvent(n) \/ Arrive(n) \/ CloseDoor(n) \/ FlipObstruction(n)
       PROVE  FALSE
  BY <1>2, <1>11, CarChanges
<1>12. CASE UNCHANGED vars
  BY <1>3, <1>12 DEF vars, lists, calls
<1> QED BY <1>4, <1>5, <1>6, <1>7, <1>8, <1>9, <1>10, <1>11, <1>12 DEF Next

\* Whenever the nodes are up to date the open calls are divided, each hall call
\* to one car if some car is free and each cab call to its own
\* (update_locally_assigned_calls, super_container.cpp:48), although the answer
\* for one call depends on all the calls and all the statuses a node has.
THEOREM AgreedIsDivided == ASSUME Node # {} PROVE Spec => [](Agreed => Divided)
<1>1. Typed => (Agreed => Divided)
  BY AgreedDivides
<1> QED BY <1>1, AlwaysTyped, PTL

\* While the cars stand still, nobody starts or dies, no button is pressed and
\* no elevator that runs is removed, nodes that are up to date stay so and keep
\* the calls divided: the safety half of CallsGetDivided.  A late status is
\* what could undo it, which is why UpToDate speaks of those under way.
THEOREM DivisionIsLasting == ASSUME Node # {} PROVE Spec => DivisionLasts
<1>1. Typed /\ [Next]_vars => [Agreed /\ Still => Agreed']_vars
  BY AgreedStep
<1>2. Typed /\ Agreed => Divided
  BY AgreedDivides
<1> QED BY <1>1, <1>2, AlwaysTyped, PTL DEF Spec, DivisionLasts

\* So of CallsGetDivided only this is left to fairness: that the nodes, while
\* the cars stand still, are up to date at some moment.
THEOREM DividedForGood ==
  ASSUME Node # {}
  PROVE  Spec => (<>[][Still]_vars /\ []<>Agreed => <>[]Divided)
<1>1. Agreed /\ UNCHANGED vars => Agreed'
  BY DEF vars, lists, calls, Agreed, UpToDate, Seen, Open
<1>2. Typed /\ Agreed => Divided
  BY AgreedDivides
<1> QED BY <1>1, <1>2, AlwaysTyped, DivisionIsLasting, PTL DEF DivisionLasts
=============================================================================
