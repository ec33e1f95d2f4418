--------------------------- MODULE ElevatorDriver ---------------------------
(***************************************************************************)
(* The driver (elevator_driver.cpp): the FSM, poller and light threads     *)
(* share one TCP connection to the car.  A command is one message; a       *)
(* question is a message and an answer, which says nothing of who asked,   *)
(* and the mutex is all that leads it to the right thread.                 *)
(***************************************************************************)
EXTENDS Naturals, Sequences

CONSTANTS Thread,        \* threads that use the driver
          Command,       \* set_motor_direction, set_button_lamp, ...
          Query,         \* get_button_signal, get_floor_sensor_signal, ...
          Value,         \* of outputs and signals
          MaxTries,      \* bound on failing connects
          MaxFlips,      \* bound on changes of signals
          MaxCalls       \* bound on the calls of each thread

Nobody == "nobody"

ASSUME DriverAssumption == /\ Command \cap Query = {} /\ Query # {}
                           /\ Value # {}
                           /\ Nobody \notin Thread
                           /\ MaxTries \in Nat /\ MaxFlips \in Nat /\ MaxCalls \in Nat

VARIABLES
  connected, tries,
  mtx,             \* the thread that holds the mutex
  pc,              \* where each thread is in its call
  call,            \* what it has called: an operation and a value
  toCar, toUs,     \* the two directions of the connection
  output, signal,  \* the car's
  since,           \* history: the values a call may have seen
  flips, calls

vars == <<connected, tries, mtx, pc, call, toCar, toUs, output, signal, since,
          flips, calls>>

AnyValue  == CHOOSE v \in Value : TRUE
Message   == [op : Command, val : Value] \cup [op : Query, val : {AnyValue}]

Init == /\ connected = FALSE /\ tries = 0
        /\ mtx = Nobody
        /\ pc = [t \in Thread |-> "idle"]
        /\ call = [t \in Thread |-> CHOOSE m \in Message : TRUE]
        /\ toCar = <<>> /\ toUs = <<>>
        /\ output \in [Command -> Value]
        /\ signal \in [Query -> Value]
        /\ since = [t \in Thread |-> {}]
        /\ flips = 0
        /\ calls = [t \in Thread |-> 0]

Goto(t, l) == pc' = [pc EXCEPT ![t] = l]

\* connect tries until it succeeds; the threads are started after that.
ConnectFails == /\ ~connected /\ tries < MaxTries
                /\ tries' = tries + 1
                /\ UNCHANGED <<connected, mtx, pc, call, toCar, toUs, output, signal,
                               since, flips, calls>>

Connect == /\ ~connected
           /\ connected' = TRUE
           /\ UNCHANGED <<tries, mtx, pc, call, toCar, toUs, output, signal, since,
                          flips, calls>>

Call(t, m) ==
  /\ connected /\ pc[t] = "idle" /\ calls[t] < MaxCalls
  /\ call' = [call EXCEPT ![t] = m]
  /\ since' = [since EXCEPT ![t] = IF m.op \in Query THEN {signal[m.op]} ELSE {}]
  /\ calls' = [calls EXCEPT ![t] = @ + 1]
  /\ Goto(t, "lock")
  /\ UNCHANGED <<connected, tries, mtx, toCar, toUs, output, signal, flips>>

\* Mutant of Lock: the mutex is not taken.
LockNot(t) == /\ pc[t] = "lock"
              /\ Goto(t, "write")
              /\ UNCHANGED <<connected, tries, mtx, call, toCar, toUs, output, signal,
                             since, flips, calls>>

Lock(t) == /\ pc[t] = "lock" /\ mtx = Nobody
           /\ mtx' = t
           /\ Goto(t, "write")
           /\ UNCHANGED <<connected, tries, call, toCar, toUs, output, signal, since,
                          flips, calls>>

\* Mutant of Write: the lock_guard of a question ends before its answer.
WriteUnlocked(t) ==
  /\ pc[t] = "write"
  /\ toCar' = Append(toCar, call[t])
  /\ Goto(t, IF call[t].op \in Query THEN "read" ELSE "idle")
  /\ mtx' = Nobody
  /\ UNCHANGED <<connected, tries, call, toUs, output, signal, since, flips, calls>>

\* A command is through when it is written; its lock_guard ends.
Write(t) ==
  /\ pc[t] = "write"
  /\ toCar' = Append(toCar, call[t])
  /\ IF call[t].op \in Query THEN Goto(t, "read") /\ UNCHANGED mtx
                             ELSE Goto(t, "idle") /\ mtx' = Nobody
  /\ UNCHANGED <<connected, tries, call, toUs, output, signal, since, flips, calls>>

\* The answer is taken as it comes.
Read(t) ==
  /\ pc[t] = "read" /\ toUs # <<>>
  /\ toUs' = Tail(toUs)
  /\ mtx' = Nobody
  /\ Goto(t, "idle")
  /\ UNCHANGED <<connected, tries, call, toCar, output, signal, since, flips, calls>>

\* The car takes the messages in order, and answers questions.
CarServes ==
  /\ toCar # <<>>
  /\ LET m == Head(toCar)
     IN  IF m.op \in Query
           THEN /\ toUs' = Append(toUs, [op |-> m.op, val |-> signal[m.op]])
                /\ UNCHANGED output
           ELSE /\ output' = [output EXCEPT ![m.op] = m.val]
                /\ UNCHANGED toUs
  /\ toCar' = Tail(toCar)
  /\ UNCHANGED <<connected, tries, mtx, pc, call, signal, since, flips, calls>>

\* A button, sensor or switch changes.
Flip(q, v) ==
  /\ connected /\ flips < MaxFlips /\ v # signal[q]
  /\ signal' = [signal EXCEPT ![q] = v]
  /\ since' = [t \in Thread |-> IF pc[t] # "idle" /\ call[t].op = q
                                  THEN since[t] \cup {v} ELSE since[t]]
  /\ flips' = flips + 1
  /\ UNCHANGED <<connected, tries, mtx, pc, call, toCar, toUs, output, calls>>

Next == \/ Connect \/ ConnectFails \/ CarServes
        \/ \E t \in Thread : \/ Lock(t) \/ Write(t) \/ Read(t)
                             \/ \E m \in Message : Call(t, m)
        \/ \E q \in Query, v \in Value : Flip(q, v)

Spec == Init /\ [][Next]_vars

-----------------------------------------------------------------------------
(* Properties.                                                             *)

\* Whoever reads an answer reads the one to its own question, with a value
\* the signal had during its call: nothing is left over from another thread
\* or an earlier call.
AnswersAreOwn ==
  [][\A t \in Thread : pc[t] = "read" /\ pc'[t] = "idle" =>
       Head(toUs).op = call[t].op /\ Head(toUs).val \in since[t]]_vars

\* A command may still be underway when its call returns, but a thread that
\* has its answer knows that the car has carried out everything written
\* before, by whatever thread.
AnswerMeansDone ==
  [][\A t \in Thread : pc[t] = "read" /\ pc'[t] = "idle" => toCar = <<>>]_vars
=============================================================================
