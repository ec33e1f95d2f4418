------------------------- MODULE ElevatorDriverProofs -------------------------
(***************************************************************************)
(* What is proved of ElevatorDriver, for any number of threads, commands   *)
(* and questions.  An answer carries no sender, so the proof follows it    *)
(* all the way: as long as its thread waits, the question is the last      *)
(* message on the way to the car, or its answer is the only one on the way *)
(* back and nothing at all is on the way there.                            *)
(***************************************************************************)
EXTENDS ElevatorDriver, TLAPS

Types == /\ mtx \in Thread \cup {Nobody}
         /\ pc \in [Thread -> {"idle", "lock", "write", "read"}]
         /\ call \in [Thread -> Message]
         /\ since \in [Thread -> SUBSET Value]
         /\ toCar \in Seq(Message)
         /\ toUs \in Seq([op : Query, val : Value])
         /\ signal \in [Query -> Value]

\* The mutex belongs to the thread that writes or waits for an answer.
OneTalks == \A t \in Thread : pc[t] \in {"write", "read"} => mtx = t

\* The signal a thread asks for has its present value since the call began.
SinceIsCurrent ==
  \A t \in Thread : pc[t] # "idle" /\ call[t].op \in Query => signal[call[t].op] \in since[t]

Reads(t) == pc[t] = "read"

\* Where the question of a thread can be ...
Asked(t) == /\ toUs = <<>>
            /\ toCar # <<>> /\ toCar[Len(toCar)] = call[t]
            /\ \A i \in 1 .. Len(toCar) - 1 : toCar[i].op \in Command

\* ... and its answer.
Answered(t) == /\ toCar = <<>>
               /\ Len(toUs) = 1
               /\ toUs[1].op = call[t].op /\ toUs[1].val \in since[t]

\* With nobody waiting, nothing comes back and only commands are under way.
OnlyCommands == toUs = <<>> /\ \A i \in 1 .. Len(toCar) : toCar[i].op \in Command

InTransit == /\ \A t \in Thread : Reads(t) => /\ call[t].op \in Query
                                              /\ Asked(t) \/ Answered(t)
             /\ (\A t \in Thread : ~Reads(t)) => OnlyCommands

DriverInv == Types /\ OneTalks /\ SinceIsCurrent /\ InTransit

-----------------------------------------------------------------------------
LEMMA MessageIs ==
  /\ \A m \in Message : m.op \in Command \/ m.op \in Query
  /\ Message # {}
<1>1. PICK q \in Query : TRUE
  BY DriverAssumption
<1>2. [op |-> q, val |-> AnyValue] \in Message
  BY DEF Message
<1> QED
  BY <1>2 DEF Message

LEMMA DriverInit == Init => DriverInv
<1> SUFFICES ASSUME Init PROVE DriverInv
  OBVIOUS
<1>1. (CHOOSE m \in Message : TRUE) \in Message
  BY MessageIs
<1>2. call \in [Thread -> Message]
  BY <1>1 DEF Init
<1>3. Types
  BY <1>2 DEF Init, Types
<1>4. OnlyCommands
  BY DEF Init, OnlyCommands
<1> QED
  BY <1>3, <1>4 DEF Init, DriverInv, OneTalks, SinceIsCurrent, InTransit, Reads

\* Only one thread can wait for an answer.
LEMMA OneReads ==
  DriverInv => \A t, u \in Thread : pc[t] \in {"write", "read"} /\ pc[u] \in {"write", "read"} => t = u
  BY DEF DriverInv, OneTalks

-----------------------------------------------------------------------------
\* Steps that touch neither the connection nor what is waited for.
LEMMA SameTransit ==
  ASSUME DriverInv, UNCHANGED <<toCar, toUs>>,
         \A t \in Thread : /\ Reads(t)' <=> Reads(t)
                           /\ Reads(t) => call'[t] = call[t] /\ since[t] \subseteq since'[t]
  PROVE  InTransit'
<1>1. ASSUME NEW t \in Thread, Reads(t)' PROVE call'[t].op \in Query /\ (Asked(t) \/ Answered(t))'
  <2>1. Reads(t) /\ call'[t] = call[t] /\ since[t] \subseteq since'[t]
    BY <1>1
  <2>2. call[t].op \in Query /\ (Asked(t) \/ Answered(t))
    BY <2>1 DEF DriverInv, InTransit
  <2> QED
    BY <2>1, <2>2 DEF Asked, Answered
<1>2. (\A t \in Thread : ~Reads(t)') => OnlyCommands'
  BY DEF DriverInv, InTransit, OnlyCommands
<1> QED
  BY <1>1, <1>2 DEF InTransit

LEMMA CallKeeps ==
  ASSUME DriverInv, NEW t \in Thread, NEW m \in Message, Call(t, m)
  PROVE  DriverInv'
<1>0. /\ pc \in [Thread -> {"idle", "lock", "write", "read"}] /\ call \in [Thread -> Message]
      /\ since \in [Thread -> SUBSET Value] /\ signal \in [Query -> Value]
  BY DEF DriverInv, Types
<1>1. /\ pc[t] = "idle" /\ pc'[t] = "lock" /\ call'[t] = m
      /\ since'[t] = IF m.op \in Query THEN {signal[m.op]} ELSE {}
      /\ \A u \in Thread : u # t => pc'[u] = pc[u] /\ call'[u] = call[u] /\ since'[u] = since[u]
      /\ UNCHANGED <<mtx, toCar, toUs, signal>>
  BY <1>0 DEF Call, Goto
<1>2. Types'
  <2>1. pc' \in [Thread -> {"idle", "lock", "write", "read"}] /\ call' \in [Thread -> Message]
    BY <1>0 DEF Call, Goto
  <2>2. since' \in [Thread -> SUBSET Value]
    BY <1>0 DEF Call
  <2> QED
    BY <1>1, <2>1, <2>2 DEF DriverInv, Types
<1>3. OneTalks'
  BY <1>1 DEF DriverInv, OneTalks
<1>4. SinceIsCurrent'
  BY <1>1 DEF DriverInv, SinceIsCurrent
<1>5. InTransit'
  BY <1>1, SameTransit DEF Reads
<1> QED
  BY <1>2, <1>3, <1>4, <1>5 DEF DriverInv

LEMMA LockKeeps ==
  ASSUME DriverInv, NEW t \in Thread, Lock(t)
  PROVE  DriverInv'
<1>0. pc \in [Thread -> {"idle", "lock", "write", "read"}]
  BY DEF DriverInv, Types
<1>1. /\ pc[t] = "lock" /\ mtx = Nobody /\ pc'[t] = "write" /\ mtx' = t
      /\ \A u \in Thread : u # t => pc'[u] = pc[u]
      /\ UNCHANGED <<call, since, toCar, toUs, signal>>
  BY <1>0 DEF Lock, Goto
<1>2. Types'
  BY <1>0, <1>1 DEF Lock, Goto, DriverInv, Types
<1>3. OneTalks'
  BY <1>1, DriverAssumption DEF DriverInv, OneTalks
<1>4. SinceIsCurrent'
  BY <1>1 DEF DriverInv, SinceIsCurrent
<1>5. InTransit'
  BY <1>1, SameTransit DEF Reads
<1> QED
  BY <1>2, <1>3, <1>4, <1>5 DEF DriverInv

\* Whoever writes has the connection to itself: at most commands are under way.
LEMMA WriteKeeps ==
  ASSUME DriverInv, NEW t \in Thread, Write(t)
  PROVE  DriverInv'
<1>0. /\ pc \in [Thread -> {"idle", "lock", "write", "read"}] /\ call[t] \in Message
      /\ toCar \in Seq(Message)
  BY DEF DriverInv, Types
<1>1. /\ pc[t] = "write" /\ toCar' = Append(toCar, call[t])
      /\ UNCHANGED <<call, since, toUs, signal>>
      /\ \A u \in Thread : u # t => pc'[u] = pc[u]
  BY <1>0 DEF Write, Goto
<1>2. \/ call[t].op \in Query /\ pc'[t] = "read" /\ mtx' = mtx
      \/ call[t].op \in Command /\ call[t].op \notin Query /\ pc'[t] = "idle" /\ mtx' = Nobody
  BY <1>0, MessageIs DEF Write, Goto
<1>3. OnlyCommands /\ \A u \in Thread : pc[u] \in {"write", "read"} => u = t
  <2>1. \A u \in Thread : pc[u] \in {"write", "read"} => u = t
    BY <1>1, OneReads
  <2>2. \A u \in Thread : ~Reads(u)
    BY <1>1, <2>1 DEF Reads
  <2> QED
    BY <2>1, <2>2 DEF DriverInv, InTransit
<1>4. /\ toCar' \in Seq(Message) /\ Len(toCar') = Len(toCar) + 1 /\ Len(toCar) \in Nat
      /\ toCar'[Len(toCar')] = call[t] /\ toCar' # <<>>
      /\ \A i \in 1 .. Len(toCar) : toCar'[i] = toCar[i]
  BY <1>0, <1>1
<1>5. Types'
  <2>1. pc' \in [Thread -> {"idle", "lock", "write", "read"}]
    BY <1>0, <1>2 DEF Write, Goto
  <2> QED
    BY <1>1, <1>2, <1>4, <2>1 DEF DriverInv, Types
<1>6. OneTalks'
  BY <1>1, <1>2, <1>3 DEF DriverInv, OneTalks
<1>7. SinceIsCurrent'
  BY <1>1, <1>2 DEF DriverInv, SinceIsCurrent
<1>8. InTransit'
  <2>1. CASE call[t].op \in Query /\ pc'[t] = "read"
    <3>1. Asked(t)'
      BY <1>1, <1>3, <1>4 DEF Asked, OnlyCommands
    <3> QED
      BY <1>1, <1>3, <2>1, <3>1 DEF InTransit, Reads
  <2>2. CASE call[t].op \in Command /\ pc'[t] = "idle"
    <3>1. OnlyCommands'
      <4>1. \A i \in 1 .. Len(toCar') : i \in 1 .. Len(toCar) \/ i = Len(toCar')
        BY <1>4
      <4> QED
        BY <1>1, <1>3, <1>4, <2>2, <4>1 DEF OnlyCommands
    <3> QED
      BY <1>1, <1>3, <2>2, <3>1 DEF InTransit, Reads
  <2> QED
    BY <1>2, <2>1, <2>2
<1> QED
  BY <1>5, <1>6, <1>7, <1>8 DEF DriverInv

\* The answer a thread finds is its own, and the last thing under way.
LEMMA ReadIsOwn ==
  ASSUME DriverInv, NEW t \in Thread, pc[t] = "read", toUs # <<>>
  PROVE  Answered(t)
  BY DEF DriverInv, InTransit, Reads, Asked

LEMMA ReadKeeps ==
  ASSUME DriverInv, NEW t \in Thread, Read(t)
  PROVE  DriverInv'
<1>0. /\ pc \in [Thread -> {"idle", "lock", "write", "read"}]
      /\ toUs \in Seq([op : Query, val : Value])
  BY DEF DriverInv, Types
<1>1. /\ pc[t] = "read" /\ toUs # <<>> /\ toUs' = Tail(toUs) /\ mtx' = Nobody /\ pc'[t] = "idle"
      /\ UNCHANGED <<call, since, toCar, signal>>
      /\ \A u \in Thread : u # t => pc'[u] = pc[u]
  BY <1>0 DEF Read, Goto
<1>2. \A u \in Thread : pc[u] \in {"write", "read"} => u = t
  BY <1>1, OneReads
<1>3. toCar = <<>> /\ Len(toUs) = 1
  BY <1>1, ReadIsOwn DEF Answered
<1>4. toUs' = <<>>
  BY <1>0, <1>1, <1>3
<1>5. Types'
  BY <1>0, <1>1, <1>4 DEF Read, Goto, DriverInv, Types
<1>6. OneTalks'
  BY <1>1, <1>2 DEF OneTalks
<1>7. SinceIsCurrent'
  BY <1>1 DEF DriverInv, SinceIsCurrent
<1>8. OnlyCommands'
  BY <1>1, <1>3, <1>4 DEF OnlyCommands
<1>9. InTransit'
  BY <1>1, <1>2, <1>8 DEF InTransit, Reads
<1> QED
  BY <1>5, <1>6, <1>7, <1>9 DEF DriverInv

LEMMA CarServesKeeps ==
  ASSUME DriverInv, CarServes
  PROVE  DriverInv'
<1>0. /\ toCar \in Seq(Message) /\ toUs \in Seq([op : Query, val : Value])
      /\ signal \in [Query -> Value]
  BY DEF DriverInv, Types
<1> DEFINE m == Head(toCar)
<1>1. /\ toCar # <<>> /\ toCar' = Tail(toCar) /\ UNCHANGED <<mtx, pc, call, since, signal>>
      /\ toUs' = IF m.op \in Query THEN Append(toUs, [op |-> m.op, val |-> signal[m.op]]) ELSE toUs
  BY DEF CarServes
<1>2. /\ m = toCar[1] /\ m \in Message /\ Len(toCar) \in Nat /\ Len(toCar) > 0
      /\ toCar' \in Seq(Message) /\ Len(toCar') = Len(toCar) - 1
      /\ \A i \in 1 .. Len(toCar') : toCar'[i] = toCar[i + 1]
  BY <1>0, <1>1
<1> HIDE DEF m
<1>3. toUs' \in Seq([op : Query, val : Value])
  <2>1. CASE m.op \in Query
    <3>1. [op |-> m.op, val |-> signal[m.op]] \in [op : Query, val : Value]
      BY <1>0, <2>1
    <3>2. toUs' = Append(toUs, [op |-> m.op, val |-> signal[m.op]])
      BY <1>1, <2>1
    <3> QED
      BY <1>0, <3>1, <3>2
  <2>2. CASE m.op \notin Query
    BY <1>0, <1>1, <2>2
  <2> QED
    BY <2>1, <2>2
<1>4. Types'
  BY <1>1, <1>2, <1>3 DEF DriverInv, Types
<1>5. OneTalks' /\ SinceIsCurrent'
  BY <1>1 DEF DriverInv, OneTalks, SinceIsCurrent
\* A command that another thread has left, or left itself, before its question.
<1>6. ASSUME NEW t \in Thread, Reads(t) PROVE (Asked(t) \/ Answered(t))'
  <2>1. Asked(t) /\ call[t].op \in Query /\ call[t].op \notin Command
    BY <1>1, <1>6, DriverAssumption DEF DriverInv, InTransit, Answered
  <2>2. CASE Len(toCar) = 1
    <3>1. m = call[t] /\ toUs = <<>>
      BY <1>2, <2>1, <2>2 DEF Asked
    <3>2. toUs' = <<[op |-> call[t].op, val |-> signal[call[t].op]]>>
      BY <1>1, <2>1, <3>1
    <3>3. toCar' = <<>>
      BY <1>2, <2>2
    <3>4. signal[call[t].op] \in since[t]
      BY <1>6, <2>1 DEF DriverInv, SinceIsCurrent, Reads
    <3> QED
      BY <1>1, <3>2, <3>3, <3>4 DEF Answered
  <2>3. CASE Len(toCar) > 1
    <3>1. m.op \in Command
      BY <1>2, <2>1, <2>3 DEF Asked
    <3>2. toUs' = <<>>
      BY <1>1, <2>1, <3>1, DriverAssumption DEF Asked
    <3>3. toCar'[Len(toCar')] = call[t] /\ toCar' # <<>>
      BY <1>2, <2>1, <2>3 DEF Asked
    <3>4. \A i \in 1 .. Len(toCar') - 1 : toCar'[i].op \in Command
      BY <1>2, <2>1, <2>3 DEF Asked
    <3> QED
      BY <1>1, <3>2, <3>3, <3>4 DEF Asked
  <2> QED
    BY <1>2, <2>2, <2>3
<1>7. ASSUME \A t \in Thread : ~Reads(t) PROVE OnlyCommands'
  <2>1. OnlyCommands
    BY <1>7 DEF DriverInv, InTransit
  <2>2. m.op \in Command /\ m.op \notin Query
    BY <1>2, <2>1, DriverAssumption DEF OnlyCommands
  <2> QED
    BY <1>1, <1>2, <2>1, <2>2 DEF OnlyCommands
<1>8. InTransit'
  BY <1>1, <1>6, <1>7 DEF DriverInv, InTransit, Reads
<1> QED
  BY <1>4, <1>5, <1>8 DEF DriverInv

LEMMA FlipKeeps ==
  ASSUME DriverInv, NEW q \in Query, NEW v \in Value, Flip(q, v)
  PROVE  DriverInv'
<1>0. /\ since \in [Thread -> SUBSET Value] /\ signal \in [Query -> Value]
  BY DEF DriverInv, Types
<1>1. /\ UNCHANGED <<mtx, pc, call, toCar, toUs>>
      /\ signal' = [signal EXCEPT ![q] = v]
      /\ \A t \in Thread : since'[t] = IF pc[t] # "idle" /\ call[t].op = q
                                         THEN since[t] \cup {v} ELSE since[t]
  BY DEF Flip
<1>2. Types'
  <2>1. since' \in [Thread -> SUBSET Value]
    BY <1>0 DEF Flip
  <2>2. signal' \in [Query -> Value]
    BY <1>0, <1>1
  <2> QED
    BY <1>1, <2>1, <2>2 DEF DriverInv, Types
<1>3. OneTalks'
  BY <1>1 DEF DriverInv, OneTalks
<1>4. SinceIsCurrent'
  BY <1>0, <1>1 DEF DriverInv, SinceIsCurrent
<1>5. InTransit'
  BY <1>1, SameTransit DEF Reads
<1> QED
  BY <1>2, <1>3, <1>4, <1>5 DEF DriverInv

LEMMA DriverStep == DriverInv /\ [Next]_vars => DriverInv'
<1> SUFFICES ASSUME DriverInv, [Next]_vars PROVE DriverInv'
  OBVIOUS
<1>1. CASE UNCHANGED <<mtx, pc, call, since, toCar, toUs, signal>>
  <2>1. InTransit'
    BY <1>1, SameTransit DEF Reads
  <2> QED
    BY <1>1, <2>1 DEF DriverInv, Types, OneTalks, SinceIsCurrent
<1>2. CASE Connect \/ ConnectFails \/ UNCHANGED vars
  BY <1>1, <1>2 DEF Connect, ConnectFails, vars
<1> QED
  BY <1>2, CallKeeps, LockKeeps, WriteKeeps, ReadKeeps, CarServesKeeps, FlipKeeps DEF Next

-----------------------------------------------------------------------------
\* The only step in which a thread gets its answer.
LEMMA AnswerIsRead ==
  ASSUME DriverInv, Next, NEW t \in Thread, pc[t] = "read", pc'[t] = "idle"
  PROVE  Read(t)
<1>0. pc \in [Thread -> {"idle", "lock", "write", "read"}]
  BY DEF DriverInv, Types
<1>1. ASSUME NEW u \in Thread, Lock(u) \/ Write(u) \/ \E m \in Message : Call(u, m) PROVE FALSE
  BY <1>0, <1>1 DEF Lock, Write, Call, Goto
<1>2. ASSUME NEW u \in Thread, Read(u) PROVE u = t
  BY <1>0, <1>2 DEF Read, Goto
<1> QED
  BY <1>1, <1>2 DEF Next, Connect, ConnectFails, CarServes, Flip

\* Whoever reads an answer reads the one to its own question, with a value
\* the signal had during its call.
THEOREM NoForeignAnswers == Spec => AnswersAreOwn
<1>1. DriverInv /\ [Next]_vars
      => [\A t \in Thread : pc[t] = "read" /\ pc'[t] = "idle" =>
            Head(toUs).op = call[t].op /\ Head(toUs).val \in since[t]]_vars
  <2> SUFFICES ASSUME DriverInv, Next, NEW t \in Thread, pc[t] = "read", pc'[t] = "idle"
               PROVE  Head(toUs).op = call[t].op /\ Head(toUs).val \in since[t]
    OBVIOUS
  <2>1. Answered(t)
    BY AnswerIsRead, ReadIsOwn DEF Read
  <2>2. Head(toUs) = toUs[1]
    BY <2>1 DEF DriverInv, Types, Answered
  <2> QED
    BY <2>1, <2>2 DEF Answered
<1> QED
  BY DriverInit, DriverStep, <1>1, PTL DEF Spec, AnswersAreOwn

\* A thread that has its answer knows that the car has carried out every
\* command written before, by whatever thread.
THEOREM NothingUnderWay == Spec => AnswerMeansDone
<1>1. DriverInv /\ [Next]_vars
      => [\A t \in Thread : pc[t] = "read" /\ pc'[t] = "idle" => toCar = <<>>]_vars
  <2> SUFFICES ASSUME DriverInv, Next, NEW t \in Thread, pc[t] = "read", pc'[t] = "idle"
               PROVE  toCar = <<>>
    OBVIOUS
  <2> QED
    BY AnswerIsRead, ReadIsOwn DEF Read, Answered
<1> QED
  BY DriverInit, DriverStep, <1>1, PTL DEF Spec, AnswerMeansDone
=============================================================================
