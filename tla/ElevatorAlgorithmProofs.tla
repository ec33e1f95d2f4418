---------------------- MODULE ElevatorAlgorithmProofs ----------------------
(***************************************************************************)
(* The promises of ElevatorAlgorithm, for every number of floors and every *)
(* call list, whatever its length and order.                               *)
(***************************************************************************)
EXTENDS ElevatorAlgorithm, FiniteSetTheorems, TLAPS

\* A non-empty set of naturals has a least element.  Otherwise the numbers
\* below all of its members would be closed under successor, and k |-> k + 1
\* would map a finite set into the set without its zero.
LEMMA LeastExists ==
  ASSUME NEW A \in SUBSET Nat, A # {}
  PROVE  \E m \in A : \A k \in A : m <= k
<1> DEFINE Below == {k \in Nat : \A a \in A : k < a}
           succ == [k \in Below |-> k + 1]
<1> SUFFICES ASSUME \A m \in A : \E k \in A : k < m PROVE FALSE
  <2>1. ASSUME NEW m \in A, NEW k \in A, ~(m <= k) PROVE k < m
    <3>1. m \in Nat /\ k \in Nat
      OBVIOUS
    <3> QED BY <3>1, <2>1
  <2> QED BY <2>1
<1>1. 0 \in Below
  OBVIOUS
<1>2. ASSUME NEW k \in Below PROVE k + 1 \in Below
  <2> SUFFICES ASSUME NEW a \in A PROVE k + 1 < a
    OBVIOUS
  <2>1. PICK b \in A : b < a
    OBVIOUS
  <2>2. k \in Nat /\ k < b /\ a \in Nat /\ b \in Nat
    OBVIOUS
  <2> QED BY <2>1, <2>2
<1>3. IsFiniteSet(Below)
  <2>1. PICK a \in A : TRUE
    OBVIOUS
  <2>2. Below \in SUBSET Nat /\ \A k \in Below : k <= a
    OBVIOUS
  <2> QED BY <2>1, <2>2, FS_BoundedSetOfNaturals
<1>4. succ \in Injection(Below, Below \ {0})
  <2>1. succ \in [Below -> Below \ {0}]
    BY <1>2
  <2>2. \A i, j \in Below : succ[i] = succ[j] => i = j
    OBVIOUS
  <2> QED BY <2>1, <2>2 DEF Injection, IsInjective
<1>5. /\ IsFiniteSet(Below \ {0})
      /\ Cardinality(Below \ {0}) = Cardinality(Below) - 1
  BY <1>1, <1>3, FS_RemoveElement
<1>6. Cardinality(Below) <= Cardinality(Below \ {0})
  <2> HIDE DEF Below, succ
  <2> QED BY <1>4, <1>5, FS_Injection
<1>7. Cardinality(Below) \in Nat
  <2> HIDE DEF Below
  <2> QED BY <1>3, FS_CardinalityType
<1> HIDE DEF Below
<1> QED BY <1>5, <1>6, <1>7

\* A list with a call at floor f has a first one there.  The loop of
\* should_stop looks for it.
LEMMA FirstAtExists ==
  ASSUME NEW f, NEW calls \in Seq(Request), RequestsSameFloor(f, calls)
  PROVE  \E i \in DOMAIN calls : IsFirstAt(i, f, calls)
<1> DEFINE At == {i \in DOMAIN calls : calls[i].floor = f}
<1>1. At # {} /\ At \subseteq Nat /\ DOMAIN calls = 1 .. Len(calls) /\ Len(calls) \in Nat
  BY DEF RequestsSameFloor
<1>2. PICK i \in At : \A k \in At : i <= k
  <2> HIDE DEF At
  <2> QED BY <1>1, LeastExists
<1>3. ASSUME NEW j \in 1 .. i - 1, calls[j].floor = f PROVE FALSE
  <2>1. i \in 1 .. Len(calls) /\ Len(calls) \in Nat
    BY <1>1
  <2>2. j \in At /\ j < i /\ i \in Nat /\ j \in Nat
    BY <1>1, <1>3, <2>1
  <2>3. i <= j
    BY <1>2, <2>2
  <2> QED BY <2>2, <2>3
<1> QED BY <1>2, <1>3 DEF IsFirstAt

-----------------------------------------------------------------------------
\* The car drives past a floor where it has a call only with another call
\* ahead (should_stop), although it looks at one call of the floor only.
THEOREM NoCallIsAbandoned ==
  ASSUME NEW f \in Floor, NEW d \in Direction, NEW calls \in Seq(Request)
  PROVE  PassOnlyWithCallAhead(f, d, calls)
<1> SUFFICES ASSUME CanArrive(f, d), RequestsSameFloor(f, calls), ~ShouldStop(f, d, calls)
             PROVE  RequestsAhead(f, d, calls)
  BY DEF PassOnlyWithCallAhead
<1>1. PICK i \in DOMAIN calls : IsFirstAt(i, f, calls)
  BY FirstAtExists
<1> QED BY <1>1 DEF ShouldStop

\* A stop of a car that has calls serves at least one of them: the two
\* readings of the call list, in should_stop and in clear_orders, agree.
THEOREM EveryStopServes ==
  ASSUME NEW f \in Floor, NEW d \in Direction, NEW calls \in Seq(Request)
  PROVE  StopClearsCall(f, d, calls)
<1> SUFFICES ASSUME CanArrive(f, d), calls # << >>, ShouldStop(f, d, calls)
             PROVE  Cleared(f, d, calls) # {}
  BY DEF StopClearsCall
<1>1. PICK i \in DOMAIN calls :
        /\ calls[i].floor = f
        /\ \/ d = 0
           \/ calls[i].type \in {"CAB", Along(d)}
           \/ ~RequestsAhead(f, d, calls)
           \/ f \in {0, NFloors - 1}
  BY DEF ShouldStop, IsFirstAt
<1>2. calls[i] \in CallsAt(f, calls) /\ calls[i] \in Request
  BY <1>1 DEF CallsAt
<1>3. CASE calls[i].type = "CAB"
  BY <1>2, <1>3 DEF Cleared
<1>4. CASE calls[i].type # "CAB" /\ calls[i].type = Along(d)
  BY <1>2, <1>4 DEF Cleared, NormalClear
<1>5. CASE calls[i].type # "CAB" /\ calls[i].type # Along(d)
  <2>1. d \in {-1, 1}
    BY DEF CanArrive
  <2>2. ~RequestsAhead(f, d, calls)
    <3>1. SUFFICES ASSUME f \in {0, NFloors - 1} PROVE ~RequestsAhead(f, d, calls)
      BY <1>1, <1>5, <2>1
    <3>2. \A k \in DOMAIN calls : calls[k].floor \in 0 .. NFloors - 1
      <4>1. \A k \in DOMAIN calls : calls[k] \in Request
        OBVIOUS
      <4> QED BY <4>1 DEF Request, Floor
    <3>3. CASE d = 1
      <4>1. f = NFloors - 1
        BY <3>1, <3>3 DEF CanArrive
      <4> QED BY <3>2, <3>3, <4>1, NFloorsAssumption DEF RequestsAhead, RequestsAbove
    <3>4. CASE d = -1
      <4>1. f = 0
        BY <3>1, <3>4 DEF CanArrive
      <4> QED BY <3>2, <3>4, <4>1, NFloorsAssumption DEF RequestsAhead, RequestsBelow
    <3> QED BY <2>1, <3>3, <3>4
  <2>3. calls[i] \in TurnaroundClear(f, d, calls)
    BY <1>2, <1>5, <2>1, <2>2 DEF TurnaroundClear
  <2> QED BY <2>3 DEF Cleared
<1> QED BY <1>3, <1>4, <1>5

\* An idle car with calls sets off towards one of them, or opens its door
\* where every call of the floor is served (choose_direction, handle_event).
THEOREM IdleCarServes ==
  ASSUME NEW f \in Floor, NEW d \in Direction, NEW calls \in Seq(Request)
  PROVE  ChoiceServes(f, d, calls)
<1> SUFFICES ASSUME calls # << >>
             PROVE  LET next == ChooseDirection(f, d, calls)
                    IN  /\ next # 0 => RequestsAhead(f, next, calls)
                        /\ next = 0 => /\ RequestsSameFloor(f, calls)
                                       /\ Cleared(f, 0, calls) = CallsAt(f, calls)
  BY DEF ChoiceServes
<1>1. ChooseDirection(f, d, calls) # 0
        => RequestsAhead(f, ChooseDirection(f, d, calls), calls)
  BY DEF ChooseDirection, RequestsAhead
<1>2. \/ RequestsAbove(f, calls) \/ RequestsBelow(f, calls) \/ RequestsSameFloor(f, calls)
  <2>1. 1 \in DOMAIN calls /\ calls[1] \in Request
    OBVIOUS
  <2>2. calls[1].floor \in Int /\ f \in Int
    BY <2>1, NFloorsAssumption DEF Request, Floor
  <2>3. calls[1].floor > f \/ calls[1].floor < f \/ calls[1].floor = f
    BY <2>2
  <2> QED BY <2>1, <2>3 DEF RequestsAbove, RequestsBelow, RequestsSameFloor
<1>3. ChooseDirection(f, d, calls) = 0 => RequestsSameFloor(f, calls)
  BY <1>2 DEF ChooseDirection
<1>4. Cleared(f, 0, calls) = CallsAt(f, calls)
  BY DEF Cleared, NormalClear, TurnaroundClear
<1> QED BY <1>1, <1>3, <1>4

\* The car turns round only when no call is left ahead (choose_direction).
THEOREM NoEarlyTurn ==
  ASSUME NEW f \in Floor, NEW d \in Direction, NEW calls \in Seq(Request)
  PROVE  KeepsDirection(f, d, calls)
BY DEF KeepsDirection, RequestsAhead, ChooseDirection
=============================================================================
