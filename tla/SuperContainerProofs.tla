------------------------- MODULE SuperContainerProofs -------------------------
(***************************************************************************)
(* What is proved of SuperContainer, for any number of elevators and calls *)
(* and whichever of the threads are running.                               *)
(*                                                                         *)
(* A thread that services a call does not take the mutex of the data, so   *)
(* the call may go while another thread waits for the assigner with an     *)
(* answer that still holds it.  The invariant says who mends that: as long *)
(* as a serviced call is assigned, or about to be, somebody has yet to     *)
(* read the lists, or waits for the answer to lists that were without it.  *)
(***************************************************************************)
EXTENDS SuperContainer, TLAPS

YetToRead == \E t \in Thread : pc[t] \in {"update", "lock"}

\* The long section belongs to the thread that waits for the assigner, and
\* only such a thread has something to assign.
OneAssigns == /\ \A t \in Thread : pc[t] = "assign" <=> mtx = t
              /\ mtx = Nobody => todo = {}

\* An answer with a serviced call in it is going to be replaced ...
AnswerMended == todo \cap serviced # {} => YetToRead

\* ... and so is an assignment with one.
AssignedMended ==
  assigned \cap serviced # {} => YetToRead \/ (mtx # Nobody /\ todo \cap serviced = {})

IInv == TypeOK /\ OneAssigns /\ AnswerMended /\ AssignedMended

-----------------------------------------------------------------------------
LEMMA NobodyIsNoThread == Nobody \notin Thread
  BY ContainerAssumption DEF Nobody

\* What is assigned is taken from the calls that are open.
LEMMA PartIsOpen == \A alive, input : Part(Open(alive), input) \subseteq listed \ serviced
  BY DEF Part, Open

LEMMA InitOK == Init => IInv
<1> SUFFICES ASSUME Init PROVE IInv
  OBVIOUS
<1>1. TypeOK
  BY DEF Init, TypeOK, Node
<1>2. OneAssigns
  BY NobodyIsNoThread DEF Init, OneAssigns
<1>3. AnswerMended /\ AssignedMended
  BY DEF Init, AnswerMended, AssignedMended
<1> QED
  BY <1>1, <1>2, <1>3 DEF IInv

-----------------------------------------------------------------------------
\* The four operations end alike: a thread that was idle has the lists yet to
\* read, and the long section is as it was.
LEMMA ChangeKeeps ==
  ASSUME IInv, NEW t \in Thread, Idle(t), Goto(t, "update"), TypeOK',
         UNCHANGED <<assigned, update>>
  PROVE  IInv'
<1>1. pc \in [Thread -> {"idle", "update", "lock", "assign"}]
  BY DEF IInv, TypeOK
<1>2. pc'[t] = "update" /\ YetToRead'
  BY <1>1 DEF Goto, YetToRead
<1>3. \A u \in Thread : pc'[u] = "assign" <=> pc[u] = "assign"
  BY <1>1 DEF Goto, Idle
<1>4. OneAssigns'
  BY <1>3 DEF IInv, OneAssigns, update
<1> QED
  BY <1>2, <1>4 DEF IInv, AnswerMended, AssignedMended

\* A change of the elevators alone leaves the calls alone.
LEMMA SameCallsKeep ==
  ASSUME IInv, TypeOK', UNCHANGED <<listed, serviced, assigned, pc, update>>
  PROVE  IInv'
  BY DEF IInv, OneAssigns, AnswerMended, AssignedMended, YetToRead, update

LEMMA PcTyped ==
  TypeOK => \A t, l : Idle(t) /\ Goto(t, l) /\ l \in {"idle", "update", "lock", "assign"}
                      => pc' \in [Thread -> {"idle", "update", "lock", "assign"}]
  BY DEF Goto, Idle, TypeOK

LEMMA CallOperationKeeps ==
  ASSUME IInv, NEW c \in Call,
         \/ AddNewCall(c) \/ ServiceCall(c)
         \/ \E acks \in SUBSET Node : AddCall(c, acks)
  PROVE  IInv'
<1> USE DEF IInv
<1>1. CASE AddNewCall(c)
  <2>1. ack' \in [Call -> SUBSET Node]
    BY <1>1 DEF AddNewCall, TypeOK, Node
  <2>2. TypeOK'
    BY <1>1, PcTyped, <2>1 DEF AddNewCall, Free, TypeOK, update
  <2> QED
    BY <1>1, <2>2, ChangeKeeps DEF AddNewCall, Free, Idle
<1>2. CASE ServiceCall(c)
  <2>1. TypeOK'
    BY <1>2, PcTyped DEF ServiceCall, TypeOK, update
  <2> QED
    BY <1>2, <2>1, ChangeKeeps DEF ServiceCall, Idle
<1>3. CASE \E acks \in SUBSET Node : AddCall(c, acks)
  <2>0. PICK acks \in SUBSET Node : AddCall(c, acks)
    BY <1>3
  <2>1. ack' \in [Call -> SUBSET Node]
    BY <2>0 DEF AddCall, TypeOK, Node
  <2>2. serviced' \subseteq listed' /\ listed' \subseteq Call /\ listed \subseteq listed'
    BY <2>0 DEF AddCall, TypeOK
  <2>3. TypeOK'
    BY <2>0, PcTyped, <2>1, <2>2 DEF AddCall, Free, TypeOK, update
  <2> QED
    BY <2>0, <2>3, ChangeKeeps DEF AddCall, Free, Idle
<1> QED
  BY <1>1, <1>2, <1>3

LEMMA ElevatorOperationKeeps ==
  ASSUME IInv, NEW m \in Peer,
         RemoveElevator(m) \/ \E b \in BOOLEAN : AddElevator(m, b)
  PROVE  IInv'
<1> USE DEF IInv
<1>1. CASE RemoveElevator(m)
  <2>1. ack' \in [Call -> SUBSET Node]
    BY <1>1 DEF RemoveElevator, TypeOK
  <2>2. TypeOK'
    BY <1>1, PcTyped, <2>1 DEF RemoveElevator, Free, TypeOK, update
  <2> QED
    BY <1>1, <2>2, ChangeKeeps DEF RemoveElevator, Free, Idle
<1>2. CASE \E b \in BOOLEAN : AddElevator(m, b)
  <2>0. PICK b \in BOOLEAN : AddElevator(m, b)
    BY <1>2
  <2>1. obstructed' \subseteq Node /\ elevators' \subseteq Node
    BY <2>0 DEF AddElevator, TypeOK, Node
  <2>2. TypeOK'
    BY <2>0, PcTyped, <2>1 DEF AddElevator, Free, TypeOK, update
  <2> QED
    BY <2>0, <2>2, ChangeKeeps DEF AddElevator, Free, Idle
<1> QED
  BY <1>1, <1>2

LEMMA SetObstructionKeeps ==
  ASSUME IInv, NEW b \in BOOLEAN, SetObstruction(b)
  PROVE  IInv'
<1> USE DEF IInv
<1>1. obstructed' \subseteq Node
  BY DEF SetObstruction, TypeOK, Node
<1>2. TypeOK'
  BY <1>1 DEF SetObstruction, TypeOK, update
<1> QED
  BY <1>2, SameCallsKeep DEF SetObstruction

-----------------------------------------------------------------------------
LEMMA ReadAliveKeeps ==
  ASSUME IInv, NEW t \in Thread, ReadAlive(t)
  PROVE  IInv'
<1> USE DEF IInv
<1>1. TypeOK'
  BY DEF ReadAlive, Goto, data, TypeOK
<1>2. \A u \in Thread : pc'[u] = "assign" <=> pc[u] = "assign"
  BY DEF ReadAlive, Goto, TypeOK
<1>3. OneAssigns'
  BY <1>2 DEF ReadAlive, OneAssigns
<1>4. YetToRead'
  BY DEF ReadAlive, Goto, TypeOK, YetToRead
<1> QED
  BY <1>1, <1>3, <1>4 DEF AnswerMended, AssignedMended

\* The answer is to lists that hold no serviced call.
LEMMA LockKeeps ==
  ASSUME IInv, NEW t \in Thread, Lock(t)
  PROVE  IInv'
<1> USE DEF IInv
<1>1. todo' \subseteq listed \ serviced
  BY PartIsOpen DEF Lock
<1>2. TypeOK'
  BY <1>1 DEF Lock, Goto, data, TypeOK
<1>3. \A u \in Thread : pc[u] # "assign"
  BY NobodyIsNoThread DEF Lock, OneAssigns
<1>4. OneAssigns'
  BY <1>3, NobodyIsNoThread DEF Lock, Goto, TypeOK, OneAssigns
<1>5. todo' \cap serviced' = {} /\ mtx' # Nobody
  BY <1>1, NobodyIsNoThread DEF Lock, data
<1> QED
  BY <1>2, <1>4, <1>5 DEF AnswerMended, AssignedMended

\* An answer that has been overtaken is kept, and mended by another thread.
LEMMA AssignKeeps ==
  ASSUME IInv, NEW t \in Thread, Assign(t)
  PROVE  IInv'
<1> USE DEF IInv
<1>1. TypeOK'
  BY DEF Assign, Goto, data, TypeOK
<1>2. mtx = t /\ \A u \in Thread : pc'[u] # "assign"
  BY DEF Assign, Goto, TypeOK, OneAssigns
<1>3. OneAssigns'
  BY <1>2, NobodyIsNoThread DEF Assign, OneAssigns
<1>4. AnswerMended'
  BY DEF Assign, AnswerMended
<1>5. YetToRead => YetToRead'
  BY DEF Assign, Goto, TypeOK, YetToRead
<1>6. AssignedMended'
  BY <1>5 DEF Assign, data, AnswerMended, AssignedMended
<1> QED
  BY <1>1, <1>3, <1>4, <1>6

LEMMA IInvStep == IInv /\ [Next]_vars => IInv'
<1> SUFFICES ASSUME IInv, [Next]_vars PROVE IInv'
  OBVIOUS
<1>1. CASE UNCHANGED vars
  BY <1>1 DEF vars, data, update, IInv, TypeOK, OneAssigns, AnswerMended, AssignedMended,
              YetToRead
<1>2. ASSUME NEW c \in Call,
             \/ AddNewCall(c) \/ ServiceCall(c)
             \/ \E acks \in SUBSET Node : AddCall(c, acks)
      PROVE  IInv'
  BY <1>2, CallOperationKeeps
<1>3. ASSUME NEW m \in Peer, RemoveElevator(m) \/ \E b \in BOOLEAN : AddElevator(m, b)
      PROVE  IInv'
  BY <1>3, ElevatorOperationKeeps
<1>4. ASSUME NEW b \in BOOLEAN, SetObstruction(b)
      PROVE  IInv'
  BY <1>4, SetObstructionKeeps
<1>5. ASSUME NEW t \in Thread, ReadAlive(t) \/ Lock(t) \/ Assign(t)
      PROVE  IInv'
  BY <1>5, ReadAliveKeeps, LockKeeps, AssignKeeps
<1> QED
  BY <1>1, <1>2, <1>3, <1>4, <1>5 DEF Next

-----------------------------------------------------------------------------
\* The invariant holds throughout, with no assumption but on the names.
LEMMA Invariance == Spec => []IInv
<1> QED
  BY InitOK, IInvStep, PTL DEF Spec

\* All lists stay lists of calls and elevators there are: in particular an
\* assigned call is always one of the list (super_container.cpp: the answer is
\* held against call_list), whatever has happened while the assigner ran.
THEOREM ContainerTypeCorrect == Spec => []TypeOK
<1>1. IInv => TypeOK
  BY DEF IInv
<1> QED
  BY <1>1, Invariance, PTL

\* When no thread is in its update, no serviced call is assigned, whatever
\* order the updates came in.
THEOREM ServicedCallsGo == Spec => []ServicedCallsLeave
<1>1. IInv => ServicedCallsLeave
  <2> SUFFICES ASSUME IInv, Settled PROVE assigned \cap serviced = {}
    BY DEF ServicedCallsLeave
  <2>1. ~YetToRead
    BY DEF Settled, YetToRead
  <2>2. mtx = Nobody
    BY DEF IInv, TypeOK, OneAssigns, Settled
  <2> QED
    BY <2>1, <2>2 DEF IInv, AssignedMended
<1> QED
  BY <1>1, Invariance, PTL
=============================================================================
