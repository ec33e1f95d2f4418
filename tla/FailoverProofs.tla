---------------------------- MODULE FailoverProofs ----------------------------
(***************************************************************************)
(* What is proved of ProcessPair and of Failover, for any number of        *)
(* processes and crashes and for every value of the five times.  The times *)
(* stand in three files of the program and are chosen independently; each  *)
(* theorem names the inequality between them that it needs.                *)
(***************************************************************************)
EXTENDS Failover, TLAPS

\* A backup waits longer than the one tick by which a heartbeat may be late.
Patient == 1 < Timeout

-----------------------------------------------------------------------------
(* The invariant of the pair.                                              *)

ActedInTime == \A p \in Process : p \in acted /\ role[p] = "backup" => silent[p] <= Timeout

TypeInv == TypeOK /\ ActedInTime

Leads(p)    == role[p] \in {"starting", "primary"}
Succeeds(p) == role[p] \in {"booting", "backup"}

OneSucceeds == \A p, q \in Process : Succeeds(p) /\ Succeeds(q) => p = q

BootsInTime == \A p \in Process : role[p] = "booting" => left[p] <= BootMax

\* From its first heartbeat on a primary sends one in every tick.
HeartbeatsCome ==
  \A p \in beating, q \in Process :
    role[q] = "backup" /\ ~mail => silent[q] <= IF p \in acted THEN 0 ELSE 1

SeatInv == TypeInv /\ OneSucceeds /\ BootsInTime /\ HeartbeatsCome

Headless == \A p \in Process : ~Leads(p)

\* With nobody in charge, the backup is booting, or has not read its last
\* heartbeat, or counts.
CountsDown ==
  \A q \in Process : Headless =>
    /\ role[q] = "booting" => alone + left[q] <= BootMax
    /\ role[q] = "backup" /\ mail => alone <= IF q \in acted THEN 0 ELSE 1
    /\ role[q] = "backup" /\ ~mail => alone <= BootMax + silent[q]

AloneInv == /\ TakesOverInTime /\ CountsDown
            /\ ~Headless => alone = 0
            /\ (\A p \in Process : role[p] = "none") => alone = 0

PairInv == SeatInv /\ AloneInv

-----------------------------------------------------------------------------
\* What run_primary does to the processes: p starts, and at most one process
\* that was not yet there is launched.
LEMMA LeadEffect ==
  ASSUME role \in [Process -> Role], left \in [Process -> Nat],
         NEW p \in Process, Lead(p)
  PROVE  \E L \in SUBSET Process :
           /\ \A q, r \in L : q = r
           /\ p \notin L
           /\ \A q \in L : role[q] = "none" /\ role'[q] = "booting" /\ left'[q] \in 0 .. BootMax
           /\ \A q \in Process \ (L \cup {p}) : role'[q] = role[q] /\ left'[q] = left[q]
           /\ role'[p] = "starting" /\ left'[p] = StartMin
           /\ role' \in [Process -> Role] /\ left' \in [Process -> Nat]
<1>1. CASE role' = [role EXCEPT ![p] = "starting"] /\ left' = [left EXCEPT ![p] = StartMin]
  <2>1. role' \in [Process -> Role] /\ left' \in [Process -> Nat]
    BY <1>1, PairAssumption DEF Role
  <2>2. /\ role'[p] = "starting" /\ left'[p] = StartMin
        /\ \A q \in Process \ {p} : role'[q] = role[q] /\ left'[q] = left[q]
    BY <1>1
  <2>3. PICK L \in SUBSET Process : L = {}
    OBVIOUS
  <2> QED
    BY <2>1, <2>2, <2>3
<1>2. CASE \E q \in Process, boot \in 0 .. BootMax :
             /\ role[q] = "none" /\ q # p
             /\ role' = [role EXCEPT ![p] = "starting", ![q] = "booting"]
             /\ left' = [left EXCEPT ![p] = StartMin, ![q] = boot]
  <2>1. PICK q \in Process, boot \in 0 .. BootMax :
             /\ role[q] = "none" /\ q # p
             /\ role' = [role EXCEPT ![p] = "starting", ![q] = "booting"]
             /\ left' = [left EXCEPT ![p] = StartMin, ![q] = boot]
    BY <1>2
  <2>2. role' \in [Process -> Role] /\ left' \in [Process -> Nat]
    BY <2>1, PairAssumption DEF Role
  <2>3. /\ role'[q] = "booting" /\ left'[q] = boot
        /\ role'[p] = "starting" /\ left'[p] = StartMin
        /\ \A r \in Process \ {q, p} : role'[r] = role[r] /\ left'[r] = left[r]
    BY <2>1
  <2>4. PICK L \in SUBSET Process : L = {q}
    OBVIOUS
  <2>5. \A r \in Process \ (L \cup {p}) : role'[r] = role[r] /\ left'[r] = left[r]
    BY <2>3, <2>4
  <2>6. \A r \in L : role[r] = "none" /\ role'[r] = "booting" /\ left'[r] \in 0 .. BootMax
    BY <2>1, <2>3, <2>4
  <2>7. p \notin L /\ \A r, t \in L : r = t
    BY <2>1, <2>4
  <2>8. role'[p] = "starting" /\ left'[p] = StartMin
    BY <2>3
  <2> QED
    BY <2>2, <2>5, <2>6, <2>7, <2>8
<1>3. \/ role' = [role EXCEPT ![p] = "starting"] /\ left' = [left EXCEPT ![p] = StartMin]
      \/ \E q \in Process, boot \in 0 .. BootMax :
           /\ role[q] = "none" /\ q # p
           /\ role' = [role EXCEPT ![p] = "starting", ![q] = "booting"]
           /\ left' = [left EXCEPT ![p] = StartMin, ![q] = boot]
  BY Zenon DEF Lead
<1> QED
  BY <1>1, <1>2, <1>3

-----------------------------------------------------------------------------
(* Types.                                                                  *)

LEMMA TypeInit == Init => TypeInv
<1> SUFFICES ASSUME Init PROVE TypeInv
  OBVIOUS
<1>1. 0 \in 0 .. Timeout + 1 /\ 0 \in 0 .. MaxCrashes /\ 0 \in Nat
  BY PairAssumption
<1> QED
  BY <1>1 DEF Init, TypeInv, TypeOK, ActedInTime, Role

LEMMA TypeStep == TypeInv /\ [Next]_vars => TypeInv'
<1> SUFFICES ASSUME TypeInv, [Next]_vars PROVE TypeInv'
  OBVIOUS
<1> USE DEF TypeInv
<1>0. /\ role \in [Process -> Role] /\ left \in [Process -> Nat]
      /\ silent \in [Process -> 0 .. Timeout + 1] /\ Timeout \in Nat /\ MaxCrashes \in Nat
      /\ acted \subseteq Process /\ 0 \in 0 .. Timeout + 1
  BY PairAssumption DEF TypeOK, Looping, In
\* A new leader is no longer a backup, and was not one that had acted.
<1>l. ASSUME NEW p \in Process, Lead(p), p \notin acted, ~mail, role[p] # "primary",
             UNCHANGED <<acted, mail, crashes, beating>>, alone' \in Nat,
             silent' \in [Process -> 0 .. Timeout + 1],
             \A q \in acted : silent'[q] = silent[q]
      PROVE  TypeInv'
  <2>1. PICK L \in SUBSET Process :
           /\ p \notin L
           /\ \A q \in L : role[q] = "none" /\ role'[q] = "booting"
           /\ \A q \in Process \ (L \cup {p}) : role'[q] = role[q]
           /\ role'[p] = "starting"
           /\ role' \in [Process -> Role] /\ left' \in [Process -> Nat]
    BY <1>0, <1>l, LeadEffect
  <2>2. \A q \in acted : q \in Process /\ role'[q] = role[q]
    BY <1>0, <1>l, <2>1 DEF TypeOK, Looping, In
  <2>3. acted' \subseteq Looping'
    BY <1>l, <2>2 DEF TypeOK, Looping, In
  <2>4. beating' \subseteq (In({"primary"}))'
    <3>1. ASSUME NEW q \in beating PROVE q \in Process /\ role[q] = "primary"
      BY DEF TypeOK, In
    <3>2. ASSUME NEW q \in beating PROVE role'[q] = "primary"
      <4>1. role[q] = "primary" /\ q \in Process
        BY <3>1
      <4>2. q # p
        BY <1>l, <4>1
      <4> QED
        BY <2>1, <4>1, <4>2
    <3> QED
      BY <1>l, <3>1, <3>2 DEF In
  <2> QED
    BY <1>l, <2>1, <2>2, <2>3, <2>4 DEF TypeOK, ActedInTime
<1>1. CASE Main
  <2>1. PICK p \in Process : Lead(p)
    BY <1>1 DEF Main
  <2>2. p \notin acted /\ ~mail /\ role[p] # "primary"
    BY <1>1 DEF Main, TypeOK, Looping, Bound, In
  <2> QED
    BY <1>0, <1>1, <2>1, <2>2, <1>l DEF Main, TypeOK
<1>2. ASSUME NEW p \in Process, Boot(p) PROVE TypeInv'
  <2>1. role' \in [Process -> Role]
    BY <1>0, <1>2 DEF Boot, Role
  <2>2. p \notin acted
    BY <1>2 DEF Boot, TypeOK, Looping, In
  <2>3. \A q \in Process : q # p => role'[q] = role[q] /\ silent'[q] = silent[q]
    BY <1>0, <1>2 DEF Boot
  <2>4. acted' \subseteq Looping' /\ (mail' => Bound' # {})
    BY <1>0, <1>2, <2>2, <2>3 DEF Boot, TypeOK, Looping, Bound, In
  <2>5. silent' \in [Process -> 0 .. Timeout + 1]
    BY <1>0, <1>2 DEF Boot
  <2>6. beating' \subseteq (In({"primary"}))'
    BY <1>0, <1>2, <2>3 DEF Boot, TypeOK, In
  <2> QED
    BY <1>2, <2>1, <2>2, <2>3, <2>4, <2>5, <2>6 DEF Boot, TypeOK, ActedInTime
<1>3. ASSUME NEW p \in Process, HearHeartbeat(p) PROVE TypeInv'
  <2>1. silent' \in [Process -> 0 .. Timeout + 1]
    BY <1>0, <1>3 DEF HearHeartbeat
  <2>2. acted' \subseteq Looping'
    BY <1>3 DEF HearHeartbeat, TypeOK, Looping, In
  <2>3. ActedInTime'
    BY <1>0, <1>3 DEF HearHeartbeat, ActedInTime
  <2>4. beating' \subseteq (In({"primary"}))'
    BY <1>3 DEF HearHeartbeat, TypeOK, In
  <2> QED
    BY <1>3, <2>1, <2>2, <2>3, <2>4 DEF HearHeartbeat, TypeOK
<1>4. ASSUME NEW p \in Process, HearNothing(p) PROVE TypeInv'
  <2>1. acted' \subseteq Looping' /\ (mail' => Bound' # {})
    BY <1>4 DEF HearNothing, TypeOK, Looping, Bound, In
  <2>2. ActedInTime'
    BY <1>0, <1>4 DEF HearNothing, ActedInTime
  <2>3. beating' \subseteq (In({"primary"}))'
    BY <1>4 DEF HearNothing, TypeOK, In
  <2> QED
    BY <1>4, <2>1, <2>2, <2>3 DEF HearNothing, TypeOK
<1>5. ASSUME NEW p \in Process, TakeOver(p) PROVE TypeInv'
  <2>1. silent' \in [Process -> 0 .. Timeout + 1]
    BY <1>0, <1>5 DEF TakeOver
  <2>2. \A q \in acted : silent'[q] = silent[q]
    BY <1>0, <1>5 DEF TakeOver
  <2> QED
    BY <1>5, <2>1, <2>2, <1>l DEF TakeOver
<1>6. ASSUME NEW p \in Process, Started(p) PROVE TypeInv'
  <2>1. role' \in [Process -> Role]
    BY <1>0, <1>6 DEF Started, Role
  <2>2. \A q \in Process : q # p => role'[q] = role[q]
    BY <1>0, <1>6 DEF Started
  <2>3. role'[p] = "primary" /\ role[p] = "starting"
    BY <1>0, <1>6 DEF Started
  <2>4. acted' \subseteq Looping' /\ (mail' => Bound' # {})
    BY <1>6, <2>2, <2>3 DEF Started, TypeOK, Looping, Bound, In
  <2>5. beating' \subseteq (In({"primary"}))'
    BY <1>6, <2>2, <2>3 DEF Started, TypeOK, In
  <2> QED
    BY <1>6, <2>1, <2>2, <2>3, <2>4, <2>5 DEF Started, TypeOK, ActedInTime
<1>7. ASSUME NEW p \in Process, SendHeartbeat(p) PROVE TypeInv'
  <2>1. acted' \subseteq Looping' /\ (mail' => Bound' # {}) /\ mail' \in BOOLEAN
    BY <1>7 DEF SendHeartbeat, TypeOK, Looping, Bound, In
  <2>2. ActedInTime'
    BY <1>0, <1>7 DEF SendHeartbeat, ActedInTime
  <2>3. beating' \subseteq (In({"primary"}))'
    BY <1>7 DEF SendHeartbeat, TypeOK, In
  <2> QED
    BY <1>7, <2>1, <2>2, <2>3 DEF SendHeartbeat, TypeOK
<1>8. ASSUME NEW p \in Process, Crash(p) PROVE TypeInv'
  <2>1. role' \in [Process -> Role]
    BY <1>0, <1>8 DEF Crash, Role
  <2>2. \A q \in Process : q # p => role'[q] = role[q] /\ silent'[q] = silent[q]
    BY <1>0, <1>8 DEF Crash
  <2>3. mail' => mail /\ role[p] # "backup"
    BY <1>8 DEF Crash
  <2>4. acted' \subseteq Looping'
    BY <1>8, <2>2 DEF Crash, TypeOK, Looping, In
  <2>5. mail' => Bound' # {}
    <3> SUFFICES ASSUME mail' PROVE Bound' # {}
      OBVIOUS
    <3>1. PICK q \in Process : role[q] = "backup"
      BY <2>3 DEF TypeOK, Bound, In
    <3>2. role'[q] = "backup"
      BY <2>2, <2>3, <3>1
    <3> QED
      BY <3>2 DEF Bound, In
  <2>6. silent' \in [Process -> 0 .. Timeout + 1] /\ left' \in [Process -> Nat]
    BY <1>0, <1>8 DEF Crash
  <2>7. crashes' \in 0 .. MaxCrashes
    BY <1>0, <1>8 DEF Crash, TypeOK
  <2>8. mail' \in BOOLEAN
    BY <1>8 DEF Crash, TypeOK
  <2>9. ActedInTime'
    BY <1>8, <2>2 DEF Crash, ActedInTime
  <2>10. beating' \subseteq (In({"primary"}))'
    BY <1>8, <2>2 DEF Crash, TypeOK, In
  <2> QED
    BY <1>8, <2>1, <2>4, <2>5, <2>6, <2>7, <2>8, <2>9, <2>10 DEF Crash, TypeOK
<1>9. CASE Tick
  <2>1. left' \in [Process -> Nat]
    BY <1>0, <1>9 DEF Tick
  <2>2. \A p \in Process : p \in Bound => silent[p] <= Timeout
    BY <1>9 DEF Tick, ActedInTime, Looping, Bound, In
  <2>3. \A p \in Process : (IF p \in Bound THEN silent[p] + 1 ELSE silent[p]) \in 0 .. Timeout + 1
    BY <1>0, <2>2
  <2>4. silent' \in [Process -> 0 .. Timeout + 1]
    BY <1>9, <2>3 DEF Tick
  <2>5. alone' \in Nat
    BY <1>9 DEF Tick, TypeOK
  <2>6. mail' => Bound' # {}
    BY <1>9 DEF Tick, TypeOK, Bound, In
  <2>7. beating' \subseteq (In({"primary"}))'
    BY <1>9 DEF Tick, TypeOK, In
  <2> QED
    BY <1>9, <2>1, <2>4, <2>5, <2>6, <2>7 DEF Tick, TypeOK, ActedInTime
<1>10. CASE UNCHANGED vars
  BY <1>10 DEF vars, TypeOK, ActedInTime, Looping, Bound, In
<1> QED
  BY <1>1, <1>2, <1>3, <1>4, <1>5, <1>6, <1>7, <1>8, <1>9, <1>10 DEF Next

\* The roles, clocks and heartbeats of any number of processes stay what they
\* are: only processes with a loop have done a round, heartbeats wait only
\* where a backup holds the port, and no backup counts past its timeout.
THEOREM PairTypeCorrect == Spec => []TypeOK
<1>1. TypeInv => TypeOK
  BY DEF TypeInv
<1> QED
  BY TypeInit, TypeStep, <1>1, PTL DEF Spec

-----------------------------------------------------------------------------
(* Who takes over.                                                         *)

\* A backup whose timeout has run out with no heartbeat waiting hears of
\* nobody.
LEMMA TakeOverIsDue ==
  ASSUME Patient, SeatInv, NEW p \in Process, TakeOver(p)
  PROVE  beating = {}
<1> SUFFICES ASSUME NEW q \in beating PROVE FALSE
  OBVIOUS
<1>1. /\ role[p] = "backup" /\ ~mail /\ silent[p] >= Timeout
      /\ silent[p] \in Nat /\ Timeout \in Nat
  BY PairAssumption DEF TakeOver, SeatInv, TypeInv, TypeOK
<1>2. silent[p] <= 1
  BY <1>1 DEF SeatInv, HeartbeatsCome
<1> QED
  BY <1>1, <1>2 DEF Patient

LEMMA SeatInit == Init => SeatInv
<1> SUFFICES ASSUME Init PROVE SeatInv
  OBVIOUS
<1>1. \A p \in Process : role[p] = "none"
  BY DEF Init
<1> QED
  BY <1>1, TypeInit DEF SeatInv, OneSucceeds, BootsInTime, HeartbeatsCome, Succeeds, Init

\* Somebody takes the lead: the one launched is the only successor.
LEMMA LeadKeepsSeats ==
  ASSUME SeatInv, TypeInv', NEW p \in Process, Lead(p),
         \A q \in Process : ~Succeeds(q) \/ q = p
  PROVE  SeatInv'
<1>1. PICK L \in SUBSET Process :
         /\ \A q, r \in L : q = r
         /\ p \notin L
         /\ \A q \in L : role[q] = "none" /\ role'[q] = "booting" /\ left'[q] \in 0 .. BootMax
         /\ \A q \in Process \ (L \cup {p}) : role'[q] = role[q] /\ left'[q] = left[q]
         /\ role'[p] = "starting"
  BY LeadEffect DEF SeatInv, TypeInv, TypeOK
<1>2. \A q \in Process : /\ role'[q] \in {"booting", "backup"} => q \in L
                         /\ role'[q] # "backup"
  BY <1>1 DEF Succeeds
<1>3. OneSucceeds'
  BY <1>1, <1>2 DEF OneSucceeds, Succeeds
<1>4. BootsInTime'
  BY <1>1, <1>2, PairAssumption DEF BootsInTime
<1>5. HeartbeatsCome'
  BY <1>2 DEF HeartbeatsCome
<1> QED
  BY <1>3, <1>4, <1>5 DEF SeatInv

LEMMA SeatStep == SeatInv /\ [Next]_vars => SeatInv'
<1> SUFFICES ASSUME SeatInv, [Next]_vars PROVE SeatInv'
  OBVIOUS
<1>t. TypeInv'
  BY TypeStep DEF SeatInv
<1>0. /\ role \in [Process -> Role] /\ left \in [Process -> Nat]
      /\ silent \in [Process -> Nat] /\ acted \subseteq Process /\ beating \subseteq Process
      /\ Timeout \in Nat /\ BootMax \in Nat
  <2>1. \A p \in Process : silent[p] \in Nat
    BY PairAssumption DEF SeatInv, TypeInv, TypeOK
  <2> QED
    BY <2>1, PairAssumption DEF SeatInv, TypeInv, TypeOK, Looping, In
<1>b. \A p \in beating : role[p] = "primary"
  BY DEF SeatInv, TypeInv, TypeOK, In
<1>1. CASE Main
  <2>1. PICK p \in Process : Lead(p)
    BY <1>1 DEF Main
  <2>2. \A q \in Process : ~Succeeds(q)
    BY <1>1 DEF Main, Succeeds
  <2> QED
    BY <1>t, <2>1, <2>2, LeadKeepsSeats
<1>2. ASSUME NEW p \in Process, Boot(p) PROVE SeatInv'
  <2>1. \A q \in Process : q # p => role'[q] = role[q] /\ silent'[q] = silent[q]
    BY <1>0, <1>2 DEF Boot
  <2>2. /\ role'[p] \in {"backup", "dead"} /\ silent'[p] = 0 /\ Succeeds(p)
        /\ UNCHANGED <<left, acted, mail, beating>>
    BY <1>0, <1>2 DEF Boot, Succeeds
  <2>3. OneSucceeds'
    BY <2>1, <2>2 DEF SeatInv, OneSucceeds, Succeeds
  <2>4. BootsInTime'
    BY <2>1, <2>2 DEF SeatInv, BootsInTime
  <2>5. \A q \in Process : q # p => role[q] # "backup"
    BY <2>2 DEF SeatInv, OneSucceeds, Succeeds
  <2>6. HeartbeatsCome'
    BY <2>1, <2>2, <2>5 DEF HeartbeatsCome
  <2> QED
    BY <1>t, <2>3, <2>4, <2>6 DEF SeatInv
<1>3. ASSUME NEW p \in Process, HearHeartbeat(p) PROVE SeatInv'
  <2>1. /\ role' = role /\ left' = left /\ silent'[p] = 0 /\ role[p] = "backup"
        /\ beating' = beating
    BY <1>0, <1>3 DEF HearHeartbeat
  <2>2. \A q \in Process : role[q] = "backup" => q = p
    BY <2>1 DEF SeatInv, OneSucceeds, Succeeds
  <2>3. HeartbeatsCome'
    BY <1>0, <2>1, <2>2 DEF HeartbeatsCome
  <2> QED
    BY <1>t, <2>1, <2>3 DEF SeatInv, OneSucceeds, BootsInTime, Succeeds
<1>4. ASSUME NEW p \in Process, HearNothing(p) PROVE SeatInv'
  <2>1. /\ UNCHANGED <<role, left, silent, mail, beating>> /\ role[p] = "backup"
        /\ acted' = acted \cup {p}
    BY <1>4 DEF HearNothing
  <2>2. \A q \in beating : q # p
    BY <1>b, <2>1
  <2>3. HeartbeatsCome'
    BY <2>1, <2>2 DEF SeatInv, HeartbeatsCome
  <2> QED
    BY <1>t, <2>1, <2>3 DEF SeatInv, OneSucceeds, BootsInTime, Succeeds
<1>5. ASSUME NEW p \in Process, TakeOver(p) PROVE SeatInv'
  <2>1. role[p] = "backup" /\ Lead(p)
    BY <1>5 DEF TakeOver
  <2>2. \A q \in Process : ~Succeeds(q) \/ q = p
    BY <2>1 DEF SeatInv, OneSucceeds, Succeeds
  <2> QED
    BY <1>t, <2>1, <2>2, LeadKeepsSeats
<1>6. ASSUME NEW p \in Process, Started(p) PROVE SeatInv'
  <2>1. \A q \in Process : q # p => role'[q] = role[q]
    BY <1>0, <1>6 DEF Started
  <2>2. /\ role'[p] = "primary" /\ role[p] = "starting"
        /\ UNCHANGED <<left, silent, acted, mail, beating>>
    BY <1>0, <1>6 DEF Started
  <2>3. OneSucceeds' /\ BootsInTime'
    BY <2>1, <2>2 DEF SeatInv, OneSucceeds, BootsInTime, Succeeds
  <2>4. HeartbeatsCome'
    BY <2>1, <2>2 DEF SeatInv, HeartbeatsCome
  <2> QED
    BY <1>t, <2>3, <2>4 DEF SeatInv
<1>7. ASSUME NEW p \in Process, SendHeartbeat(p) PROVE SeatInv'
  <2>1. UNCHANGED <<role, left, silent>> /\ mail' = (Bound # {})
    BY <1>7 DEF SendHeartbeat
  <2>2. \A q \in Process : role[q] = "backup" => mail'
    BY <2>1 DEF Bound, In
  <2> QED
    BY <1>t, <2>1, <2>2 DEF SeatInv, OneSucceeds, BootsInTime, Succeeds, HeartbeatsCome
<1>8. ASSUME NEW p \in Process, Crash(p) PROVE SeatInv'
  <2>1. \A q \in Process : q # p => /\ role'[q] = role[q] /\ silent'[q] = silent[q]
                                    /\ left'[q] = left[q] /\ (q \in acted' <=> q \in acted)
    BY <1>0, <1>8 DEF Crash
  <2>2. role'[p] = "dead" /\ mail' = (mail /\ role[p] # "backup") /\ beating' = beating \ {p}
    BY <1>0, <1>8 DEF Crash
  <2>3. OneSucceeds' /\ BootsInTime'
    BY <2>1, <2>2 DEF SeatInv, OneSucceeds, BootsInTime, Succeeds
  <2>4. \A q \in Process : role'[q] = "backup" => mail' = mail
    BY <2>1, <2>2 DEF SeatInv, OneSucceeds, Succeeds, TypeInv, TypeOK
  <2>5. HeartbeatsCome'
    BY <1>0, <2>1, <2>2, <2>4 DEF SeatInv, HeartbeatsCome
  <2> QED
    BY <1>t, <2>3, <2>5 DEF SeatInv
<1>9. CASE Tick
  <2>1. UNCHANGED <<role, mail, beating>> /\ acted' = {}
    BY <1>9 DEF Tick
  <2>2. \A p \in Process : /\ role[p] = "booting" => left'[p] = left[p] - 1
                           /\ role[p] = "backup" => silent'[p] = silent[p] + 1
                           /\ role[p] = "primary" => p \in acted
    BY <1>9 DEF Tick, Booting, Bound, Looping, In
  <2>3. OneSucceeds'
    BY <2>1 DEF SeatInv, OneSucceeds, Succeeds
  <2>4. BootsInTime'
    BY <1>0, <2>1, <2>2 DEF SeatInv, BootsInTime
  <2>5. HeartbeatsCome'
    <3> SUFFICES ASSUME NEW p \in beating, NEW q \in Process, role[q] = "backup", ~mail
                 PROVE  silent'[q] <= 1
      BY <2>1 DEF HeartbeatsCome
    <3>1. p \in acted
      BY <1>0, <1>b, <2>2
    <3>2. silent[q] <= 0
      BY <3>1 DEF SeatInv, HeartbeatsCome
    <3> QED
      BY <1>0, <2>2, <3>2
  <2> QED
    BY <1>t, <2>3, <2>4, <2>5 DEF SeatInv
<1>10. CASE UNCHANGED vars
  BY <1>t, <1>10 DEF vars, SeatInv, OneSucceeds, BootsInTime, HeartbeatsCome, Succeeds
<1> QED
  BY <1>1, <1>2, <1>3, <1>4, <1>5, <1>6, <1>7, <1>8, <1>9, <1>10 DEF Next

\* Only one step makes a starting process of a backup: the takeover.
LEMMA OnlyTakeOver ==
  ASSUME SeatInv, Next, NEW p \in Process, role[p] = "backup", role'[p] = "starting"
  PROVE  TakeOver(p)
<1>1. role \in [Process -> Role]
  BY DEF SeatInv, TypeInv, TypeOK
<1>2. ASSUME NEW q \in Process, Boot(q) \/ Started(q) \/ Crash(q) PROVE FALSE
  BY <1>1, <1>2 DEF Boot, Started, Crash
<1>3. ASSUME NEW q \in Process, TakeOver(q) PROVE q = p
  <2>1. role[q] = "backup"
    BY <1>3 DEF TakeOver
  <2> QED
    BY <2>1 DEF SeatInv, OneSucceeds, Succeeds
<1> QED
  BY <1>2, <1>3 DEF Next, Main, HearHeartbeat, HearNothing, SendHeartbeat, Tick

\* However long starts and boots take and whichever processes die, no backup
\* takes over beside a primary that has begun to send heartbeats, if the
\* timeout is more than a tick.  Nothing of the kind holds of a primary that
\* is still in launch_primary.
THEOREM TakeOverIsSafe ==
  ASSUME Patient
  PROVE  Spec => TakesOverFromTheSilent
<1>1. Init => SeatInv
  BY SeatInit
<1>2. SeatInv /\ [Next]_vars => SeatInv'
  BY SeatStep
<1>3. SeatInv /\ [Next]_vars
      => [\A p \in Process : role[p] = "backup" /\ role'[p] = "starting" => beating = {}]_vars
  BY OnlyTakeOver, TakeOverIsDue
<1> QED
  BY <1>1, <1>2, <1>3, PTL DEF Spec, TakesOverFromTheSilent

-----------------------------------------------------------------------------
(* How long nobody is in charge.                                           *)

LEMMA AloneInit == Init => AloneInv
<1> SUFFICES ASSUME Init PROVE AloneInv
  OBVIOUS
<1>1. alone = 0 /\ \A p \in Process : role[p] = "none"
  BY DEF Init
<1>2. alone <= BootMax + Timeout + 1
  BY <1>1, PairAssumption
<1> QED
  BY <1>1, <1>2 DEF AloneInv, TakesOverInTime, CountsDown

\* With somebody in charge nothing is counted.
LEMMA LedIsNotAlone ==
  ASSUME alone' = 0, \E p \in Process : Leads(p)'
  PROVE  AloneInv'
<1>1. alone' <= BootMax + Timeout + 1
  BY PairAssumption
<1> QED
  BY <1>1 DEF AloneInv, TakesOverInTime, CountsDown, Headless, Leads

LEMMA AloneStep ==
  ASSUME 0 < BootMax, SeatInv, SeatInv', AloneInv, [Next]_vars
  PROVE  AloneInv'
<1>0. /\ role \in [Process -> Role] /\ left \in [Process -> Nat]
      /\ silent \in [Process -> Nat] /\ acted \subseteq Process
      /\ Timeout \in Nat /\ BootMax \in Nat /\ alone \in Nat
  <2>1. \A p \in Process : silent[p] \in Nat
    BY PairAssumption DEF SeatInv, TypeInv, TypeOK
  <2> QED
    BY <2>1, PairAssumption DEF SeatInv, TypeInv, TypeOK, Looping, In
<1>1. ASSUME NEW p \in Process, Lead(p), alone' = 0
      PROVE  AloneInv'
  <2>1. role'[p] = "starting"
    BY <1>0, <1>1, LeadEffect
  <2> QED
    BY <1>1, <2>1, LedIsNotAlone DEF Leads
<1>2. ASSUME NEW p \in Process, Boot(p) PROVE AloneInv'
  <2>1. \A q \in Process : q # p => role'[q] = role[q] /\ silent'[q] = silent[q]
    BY <1>0, <1>2 DEF Boot
  <2>2. /\ role[p] = "booting" /\ left[p] = 0 /\ role'[p] \in {"backup", "dead"} /\ silent'[p] = 0
        /\ left' = left /\ acted' = acted /\ mail' = mail /\ alone' = alone
        /\ role'[p] = "backup" => Bound = {}
    BY <1>0, <1>2 DEF Boot
  <2>3. Headless' <=> Headless
    BY <2>1, <2>2 DEF Headless, Leads
  <2>4. \A q \in Process : q # p => role'[q] \notin {"booting", "backup"}
    BY <2>1, <2>2 DEF SeatInv, OneSucceeds, Succeeds
  <2>5. role'[p] = "backup" => ~mail
    BY <2>2 DEF SeatInv, TypeInv, TypeOK
  <2>6. Headless => alone <= BootMax + 0
    BY <1>0, <2>2 DEF AloneInv, CountsDown
  <2>7. CountsDown'
    BY <2>2, <2>3, <2>4, <2>5, <2>6 DEF CountsDown
  <2>8. ~\A q \in Process : role'[q] = "none"
    BY <2>2
  <2> QED
    BY <2>2, <2>3, <2>7, <2>8 DEF AloneInv, TakesOverInTime
<1>3. ASSUME NEW p \in Process, HearHeartbeat(p) PROVE AloneInv'
  <2>1. /\ UNCHANGED <<role, left, alone>> /\ ~mail' /\ silent'[p] = 0 /\ mail
        /\ role[p] = "backup" /\ p \notin acted
    BY <1>0, <1>3 DEF HearHeartbeat
  <2>2. \A q \in Process : role[q] \in {"booting", "backup"} => q = p
    BY <2>1 DEF SeatInv, OneSucceeds, Succeeds
  <2>3. Headless => alone <= 1
    BY <2>1 DEF AloneInv, CountsDown
  <2>4. Headless => alone <= BootMax + 0
    BY <1>0, <2>3
  <2>5. CountsDown'
    BY <2>1, <2>2, <2>4 DEF CountsDown, Headless, Leads
  <2> QED
    BY <2>1, <2>5 DEF AloneInv, TakesOverInTime, Headless, Leads
<1>4. ASSUME NEW p \in Process, HearNothing(p) PROVE AloneInv'
  BY <1>4 DEF HearNothing, AloneInv, TakesOverInTime, CountsDown, Headless, Leads
<1>5. ASSUME NEW p \in Process, Started(p) PROVE AloneInv'
  <2>1. role'[p] = "primary" /\ Leads(p) /\ alone' = alone
    BY <1>0, <1>5 DEF Started, Leads
  <2>2. alone = 0
    BY <2>1 DEF AloneInv, Headless
  <2> QED
    BY <2>1, <2>2, LedIsNotAlone DEF Leads
<1>6. ASSUME NEW p \in Process, SendHeartbeat(p) PROVE AloneInv'
  <2>1. role'[p] = "primary" /\ Leads(p) /\ alone' = alone
    BY <1>0, <1>6 DEF SendHeartbeat, Leads
  <2>2. alone = 0
    BY <2>1 DEF AloneInv, Headless
  <2> QED
    BY <2>1, <2>2, LedIsNotAlone DEF Leads
\* The primary dies and the countdown starts, or the backup dies.
<1>7. ASSUME NEW p \in Process, Crash(p) PROVE AloneInv'
  <2>1. \A q \in Process : q # p => /\ role'[q] = role[q] /\ silent'[q] = silent[q]
                                    /\ left'[q] = left[q] /\ (q \in acted' <=> q \in acted)
    BY <1>0, <1>7 DEF Crash
  <2>2. role'[p] = "dead" /\ mail' = (mail /\ role[p] # "backup") /\ alone' = alone
    BY <1>0, <1>7 DEF Crash
  <2>3. CASE ~Leads(p)
    <3>1. Headless' <=> Headless
      BY <2>1, <2>2, <2>3 DEF Headless, Leads
    <3>2. \A q \in Process : role'[q] = "backup" => mail' = mail
      BY <2>1, <2>2 DEF SeatInv, OneSucceeds, Succeeds, TypeInv, TypeOK
    <3>3. CountsDown'
      BY <2>1, <2>2, <3>1, <3>2 DEF AloneInv, CountsDown
    <3> QED
      BY <2>2, <3>1, <3>3 DEF AloneInv, TakesOverInTime
  <2>4. CASE Leads(p)
    <3>1. alone' = 0
      BY <2>2, <2>4 DEF AloneInv, Headless
    <3>2. \A q \in Process : /\ role'[q] = "booting" => 0 + left'[q] <= BootMax
                             /\ 0 <= (IF q \in acted' THEN 0 ELSE 1)
                             /\ role'[q] = "backup" => 0 <= BootMax + silent'[q]
      <4> SUFFICES ASSUME NEW q \in Process
                   PROVE  /\ role'[q] = "booting" => 0 + left'[q] <= BootMax
                          /\ role'[q] = "backup" => 0 <= BootMax + silent'[q]
        OBVIOUS
      <4>1. role'[q] = "booting" => left'[q] <= BootMax
        BY DEF SeatInv, BootsInTime
      <4>2. silent'[q] \in Nat /\ left'[q] \in Nat
        BY PairAssumption DEF SeatInv, TypeInv, TypeOK
      <4> QED
        BY <1>0, <4>1, <4>2
    <3>3. CountsDown'
      BY <3>1, <3>2 DEF CountsDown
    <3>4. alone' <= BootMax + Timeout + 1
      BY <1>0, <3>1
    <3> QED
      BY <3>1, <3>3, <3>4 DEF AloneInv, TakesOverInTime
  <2> QED
    BY <2>3, <2>4
<1>8. CASE Tick
  <2>1. /\ role' = role /\ mail' = mail /\ acted' = {}
        /\ alone' = IF InCharge = {} /\ (Bound \cup Booting) # {} THEN alone + 1 ELSE 0
    BY <1>8 DEF Tick
  <2>2. \A p \in Process : /\ role[p] = "booting" => left[p] > 0 /\ left'[p] = left[p] - 1
                           /\ role[p] = "backup" => silent'[p] = silent[p] + 1
                           /\ role[p] \in {"backup", "primary"} => p \in acted
    BY <1>8 DEF Tick, Booting, Bound, Looping, In
  <2>3. Headless' <=> Headless
    BY <2>1 DEF Headless, Leads
  <2>4. ~Headless => alone' = 0
    BY <2>1 DEF Headless, Leads, InCharge, In
  <2>5. alone' = 0 \/ alone' = alone + 1
    BY <2>1
  <2>6. CountsDown'
    <3> SUFFICES ASSUME NEW q \in Process, Headless
                 PROVE  /\ role[q] = "booting" => alone' + left'[q] <= BootMax
                        /\ role[q] = "backup" /\ mail => alone' <= 1
                        /\ role[q] = "backup" /\ ~mail => alone' <= BootMax + silent'[q]
      BY <2>1, <2>3 DEF CountsDown
    <3>1. ASSUME role[q] = "booting" PROVE alone' + left'[q] <= BootMax
      <4>1. alone + left[q] <= BootMax
        BY <3>1 DEF AloneInv, CountsDown
      <4>2. left[q] > 0 /\ left'[q] = left[q] - 1 /\ left[q] \in Nat
        BY <1>0, <2>2, <3>1
      <4> QED
        BY <1>0, <2>5, <4>1, <4>2
    <3>2. ASSUME role[q] = "backup", mail PROVE alone' <= 1
      <4>1. alone <= 0
        BY <2>2, <3>2 DEF AloneInv, CountsDown
      <4> QED
        BY <1>0, <2>5, <4>1
    <3>3. ASSUME role[q] = "backup", ~mail PROVE alone' <= BootMax + silent'[q]
      <4>1. alone <= BootMax + silent[q]
        BY <3>3 DEF AloneInv, CountsDown
      <4>2. silent'[q] = silent[q] + 1 /\ silent[q] \in Nat
        BY <1>0, <2>2, <3>3
      <4> QED
        BY <1>0, <2>5, <4>1, <4>2
    <3> QED
      BY <3>1, <3>2, <3>3
  <2>7. TakesOverInTime'
    <3>1. CASE alone' = 0
      BY <1>0, <3>1 DEF TakesOverInTime
    <3>2. CASE alone' # 0
      <4>1. Headless /\ (Bound \cup Booting) # {}
        BY <3>2, <2>1, <2>4
      <4>2. PICK q \in Process : role[q] \in {"booting", "backup"}
        BY <4>1 DEF Bound, Booting, In
      <4>3. CASE role[q] = "booting"
        <5>1. alone' + left'[q] <= BootMax
          BY <2>1, <2>3, <2>6, <4>1, <4>3 DEF CountsDown
        <5>2. left'[q] \in Nat /\ alone' \in Nat
          BY DEF SeatInv, TypeInv, TypeOK
        <5> QED
          BY <1>0, <5>1, <5>2 DEF TakesOverInTime
      <4>4. CASE role[q] = "backup"
        <5>1. alone' <= BootMax + silent'[q] \/ alone' <= 1
          BY <2>1, <2>3, <2>6, <4>1, <4>4 DEF CountsDown
        <5>2. silent'[q] \in 0 .. Timeout + 1 /\ alone' \in Nat
          BY DEF SeatInv, TypeInv, TypeOK
        <5> QED
          BY <1>0, <5>1, <5>2 DEF TakesOverInTime
      <4> QED
        BY <4>2, <4>3, <4>4
    <3> QED
      BY <3>1, <3>2
  <2>8. (\A p \in Process : role[p] = "none") => alone' = 0
    BY <1>8 DEF Tick, In
  <2> QED
    BY <2>1, <2>3, <2>4, <2>6, <2>7, <2>8 DEF AloneInv
<1>9. CASE UNCHANGED vars
  BY <1>9 DEF vars, AloneInv, TakesOverInTime, CountsDown, Headless, Leads
<1>10. ASSUME Main PROVE AloneInv'
  <2>1. alone' = 0
    BY <1>10 DEF Main, AloneInv
  <2> QED
    BY <1>1, <1>10, <2>1 DEF Main
<1>11. ASSUME NEW p \in Process, TakeOver(p) PROVE AloneInv'
  BY <1>1, <1>11 DEF TakeOver
<1> QED
  BY <1>2, <1>3, <1>4, <1>5, <1>6, <1>7, <1>8, <1>9, <1>10, <1>11 DEF Next

\* If a backup takes time to boot, an elevator whose primary has died is
\* without one for no longer than a backup needs to boot and the timeout to
\* run out, as long as a backup is left: a heartbeat that was still under way
\* when the primary died costs no more than booting does.
THEOREM TakeOverIsTimely ==
  ASSUME 0 < BootMax
  PROVE  Spec => []TakesOverInTime
<1>1. Init => SeatInv /\ AloneInv
  BY SeatInit, AloneInit
<1>2. SeatInv /\ AloneInv /\ [Next]_vars => (SeatInv /\ AloneInv)'
  BY SeatStep, AloneStep
<1>3. AloneInv => TakesOverInTime
  BY DEF AloneInv
<1> QED
  BY <1>1, <1>2, <1>3, PTL DEF Spec

-----------------------------------------------------------------------------
(* The pair as another elevator sees it.                                   *)

ClockTypes == /\ clock \in Nat /\ clock < Second
              /\ known \in BOOLEAN /\ checking \in BOOLEAN
              /\ elapsed \in Nat /\ quiet \in Nat

\* The seconds that are compared are the ticks since the last status, cut off
\* at the seconds of the other node's clock ...
SecondsAgree == known => /\ quiet <= elapsed * Second + clock
                         /\ elapsed * Second + clock < quiet + Second

\* ... and the remover looks at them before another tick has passed.
StopsAtDead == known => \/ elapsed <= RemovalTime
                        \/ elapsed = RemovalTime + 1 /\ clock = 0

WatchInv == ClockTypes /\ SecondsAgree /\ StopsAtDead

HasSent(p) == p \in Process /\ role[p] \in {"primary", "dead"}

\* Statuses and heartbeats come from processes that have started, and a
\* heartbeat that waits is not older than the primary there is.
SendersStarted == /\ from # Nobody => HasSent(from)
                  /\ mail => HasSent(mailFrom)
                  /\ \A p \in noticed : HasSent(p)
                  /\ \A p \in Process : Leads(p) /\ mail => mailFrom = p

\* Whose heartbeats have been heard, and who lives, goes on sending them ...
HeardBeats == /\ mail /\ role[mailFrom] = "primary" => mailFrom \in beating
              /\ \A p \in noticed : role[p] = "primary" => p \in beating

\* ... so the backup has not counted more than the other node, give or take a
\* tick ...
QuietAsSilent ==
  known /\ from \in noticed /\ ~mail
  => \A q \in Process : role[q] = "backup" => silent[q] <= quiet + 1

\* ... and the other node has counted the timeout and the time to start when
\* the next primary has started.
QuietSinceTakeOver ==
  known /\ from \in noticed
  => \A q \in Process : /\ role[q] = "starting" => quiet + left[q] + 1 >= Timeout + StartMin
                        /\ role[q] = "primary" /\ from # q => quiet + 1 >= Timeout + StartMin

OneLeads == \A p, q \in Process : Leads(p) /\ Leads(q) => p = q

MemoryInv == SendersStarted /\ HeardBeats /\ QuietAsSilent /\ QuietSinceTakeOver

\* All this is so until two processes have been in charge side by side.
OwnInv == ~shared => OneLeads /\ MemoryInv

FailoverInv == SeatInv /\ WatchInv /\ OwnInv

LEMMA StepIsPairStep == [FailoverNext]_failoverVars => [Next]_vars
  BY DEF FailoverNext, failoverVars, PairStep, TimePasses, ReceiveStatus, LoseStatus, FindDead,
         RemoveElevator, Next

\* The pair that the other elevator watches is the process pair: nothing the
\* other node does or notes changes what the processes may do.
THEOREM FailoverIsPair == FailoverSpec => Spec
<1>1. FailoverInit => Init
  BY DEF FailoverInit
<1> QED
  BY <1>1, StepIsPairStep, PTL DEF FailoverSpec, Spec

-----------------------------------------------------------------------------
(* When an elevator is found dead.                                         *)

LEMMA WatchInit == FailoverInit => WatchInv
<1> SUFFICES ASSUME FailoverInit PROVE WatchInv
  OBVIOUS
<1>1. clock \in 0 .. Second - 1 /\ known = FALSE /\ checking = FALSE /\ elapsed = 0 /\ quiet = 0
  BY DEF FailoverInit
<1>2. clock \in Nat /\ clock < Second
  BY <1>1, FailoverAssumption
<1> QED
  BY <1>1, <1>2 DEF WatchInv, ClockTypes, SecondsAgree, StopsAtDead

LEMMA WatchStep == WatchInv /\ [FailoverNext]_failoverVars => WatchInv'
<1> SUFFICES ASSUME WatchInv, [FailoverNext]_failoverVars PROVE WatchInv'
  OBVIOUS
<1> USE DEF WatchInv
<1>0. /\ Second \in Nat /\ Second > 0 /\ RemovalTime \in Nat
      /\ clock \in Nat /\ elapsed \in Nat /\ quiet \in Nat /\ clock < Second
  BY FailoverAssumption DEF ClockTypes
<1>1. CASE UNCHANGED <<clock, known, elapsed, quiet>> /\ checking' \in BOOLEAN
  BY <1>1 DEF ClockTypes, SecondsAgree, StopsAtDead
<1>2. ASSUME NEW p \in Process, ReceiveStatus(p) PROVE WatchInv'
  <2>1. elapsed' = 0 /\ quiet' = 0 /\ clock' = clock /\ checking' = checking
    BY <1>2 DEF ReceiveStatus
  <2>2. known' = TRUE
    BY <1>2 DEF ReceiveStatus
  <2>3. 0 <= 0 * Second + clock /\ 0 * Second + clock < 0 + Second
    BY <1>0
  <2> QED
    BY <1>0, <2>1, <2>2, <2>3 DEF ClockTypes, SecondsAgree, StopsAtDead
<1>3. CASE RemoveElevator
  BY <1>0, <1>3 DEF RemoveElevator, ClockTypes, SecondsAgree, StopsAtDead
<1>4. CASE TimePasses
  <2>1. /\ clock' = (clock + 1) % Second /\ known' = known /\ checking' = checking
        /\ elapsed' = IF known /\ clock' = 0 THEN elapsed + 1 ELSE elapsed
        /\ quiet' = IF known THEN quiet + 1 ELSE quiet
        /\ ~(known /\ Dead)
    BY <1>4 DEF TimePasses
  <2>2. \/ clock + 1 < Second /\ clock' = clock + 1
        \/ clock + 1 = Second /\ clock' = 0
    BY <1>0, <2>1
  <2>3. ClockTypes'
    BY <1>0, <2>1, <2>2 DEF ClockTypes
  <2>4. known => elapsed <= RemovalTime
    BY <1>0, <2>1 DEF Dead
  <2>5. StopsAtDead'
    BY <1>0, <2>1, <2>2, <2>4 DEF StopsAtDead
  <2>6. SecondsAgree'
    <3> SUFFICES ASSUME known
                 PROVE  /\ quiet' <= elapsed' * Second + clock'
                        /\ elapsed' * Second + clock' < quiet' + Second
      BY <2>1 DEF SecondsAgree
    <3>1. quiet' = quiet + 1
      BY <2>1
    <3>2. elapsed' * Second + clock' = elapsed * Second + clock + 1
      <4>1. CASE clock' = clock + 1 /\ clock + 1 < Second
        <5>1. elapsed' = elapsed
          BY <1>0, <2>1, <4>1
        <5>2. elapsed * Second \in Nat
          BY <1>0
        <5> QED
          BY <1>0, <4>1, <5>1, <5>2
      <4>2. CASE clock' = 0 /\ clock + 1 = Second
        <5>1. elapsed' = elapsed + 1
          BY <2>1, <4>2
        <5>2. (elapsed + 1) * Second = elapsed * Second + Second /\ elapsed * Second \in Nat
          BY <1>0
        <5> QED
          BY <1>0, <4>2, <5>1, <5>2
      <4> QED
        BY <2>2, <4>1, <4>2
    <3>3. quiet <= elapsed * Second + clock /\ elapsed * Second + clock < quiet + Second
      BY DEF SecondsAgree
    <3>4. elapsed * Second + clock \in Nat
      BY <1>0
    <3> DEFINE run == elapsed * Second + clock
    <3>5. run \in Nat /\ quiet <= run /\ run < quiet + Second
      BY <3>3, <3>4
    <3>6. quiet' <= run + 1 /\ run + 1 < quiet' + Second
      <4> HIDE DEF run
      <4> QED
        BY <1>0, <3>1, <3>5
    <3> QED
      BY <3>2, <3>6
  <2> QED
    BY <2>3, <2>5, <2>6
<1>5. CASE PairStep \/ FindDead \/ \E p \in Process : LoseStatus(p)
  BY <1>1, <1>5 DEF PairStep, FindDead, LoseStatus, peerView, ClockTypes
<1>6. CASE UNCHANGED failoverVars
  BY <1>1, <1>6 DEF failoverVars, peerView, ClockTypes
<1> QED
  BY <1>2, <1>3, <1>4, <1>5, <1>6 DEF FailoverNext

\* An elevator is found dead only after more than the removal time without a
\* status, though truncated seconds are compared.
THEOREM DeadIsLongSilent == FailoverSpec => DeadOnlyAfterLosses
<1>1. WatchInv /\ [FailoverNext]_failoverVars
      => [checking' /\ ~checking => quiet > RemovalTime * Second]_failoverVars
  <2> SUFFICES ASSUME WatchInv, FailoverNext, checking', ~checking
               PROVE  quiet > RemovalTime * Second
    OBVIOUS
  <2>0. /\ Second \in Nat /\ Second > 0 /\ RemovalTime \in Nat
        /\ clock \in Nat /\ elapsed \in Nat /\ quiet \in Nat
    BY FailoverAssumption DEF WatchInv, ClockTypes
  <2>1. FindDead
    BY DEF FailoverNext, PairStep, peerView, TimePasses, ReceiveStatus, LoseStatus, RemoveElevator
  <2>2. known /\ elapsed > RemovalTime
    BY <2>1 DEF FindDead, Dead
  <2>3. elapsed = RemovalTime + 1 /\ clock = 0
    BY <2>0, <2>2 DEF WatchInv, StopsAtDead
  <2>4. elapsed * Second = RemovalTime * Second + Second /\ RemovalTime * Second \in Nat
    BY <2>0, <2>3
  <2>5. elapsed * Second + clock < quiet + Second
    BY <2>2 DEF WatchInv, SecondsAgree
  <2> QED
    BY <2>0, <2>3, <2>4, <2>5
<1> QED
  BY WatchInit, WatchStep, <1>1, PTL DEF FailoverSpec, DeadOnlyAfterLosses

LEMMA WatchedIsHeard == WatchInv => GoneInTime
<1> SUFFICES ASSUME WatchInv, known PROVE quiet <= (RemovalTime + 1) * Second
  BY DEF GoneInTime
<1>0. /\ Second \in Nat /\ Second > 0 /\ RemovalTime \in Nat
      /\ clock \in Nat /\ clock < Second /\ elapsed \in Nat /\ quiet \in Nat
  BY FailoverAssumption DEF WatchInv, ClockTypes
<1>1. quiet <= elapsed * Second + clock
  BY DEF WatchInv, SecondsAgree
<1>2. (RemovalTime + 1) * Second = RemovalTime * Second + Second /\ RemovalTime * Second \in Nat
  BY <1>0
<1>3. CASE elapsed = RemovalTime + 1 /\ clock = 0
  BY <1>0, <1>1, <1>2, <1>3
<1>4. CASE elapsed <= RemovalTime
  <2>1. PICK rest \in Nat : RemovalTime = elapsed + rest
    <3>1. RemovalTime - elapsed \in Nat /\ RemovalTime = elapsed + (RemovalTime - elapsed)
      BY <1>0, <1>4
    <3> QED
      BY <3>1
  <2>2. RemovalTime * Second = elapsed * Second + rest * Second
    BY <1>0, <2>1
  <2>3. elapsed * Second \in Nat /\ rest * Second \in Nat
    BY <1>0, <2>1
  <2> QED
    BY <1>0, <1>1, <1>2, <2>2, <2>3
<1> QED
  BY <1>3, <1>4 DEF WatchInv, StopsAtDead

\* An elevator that falls silent is off the list at most a second after the
\* removal time.
THEOREM SilentIsRemoved == FailoverSpec => []GoneInTime
  BY WatchInit, WatchStep, WatchedIsHeard, PTL DEF FailoverSpec

-----------------------------------------------------------------------------
(* Who is forgotten before he is back.                                     *)

LEMMA MemoryInit == FailoverInit => MemoryInv
<1> SUFFICES ASSUME FailoverInit PROVE MemoryInv
  OBVIOUS
<1>1. from = Nobody /\ mail = FALSE /\ noticed = {} /\ known = FALSE
  BY DEF FailoverInit, Init
<1> QED
  BY <1>1 DEF MemoryInv, SendersStarted, HeardBeats, QuietAsSilent, QuietSinceTakeOver

\* Whoever has sent has started, and goes on having.
LEMMA SendersStay ==
  ASSUME SeatInv, [Next]_vars, NEW p, HasSent(p)
  PROVE  HasSent(p)'
<1>0. role \in [Process -> Role]
  BY DEF SeatInv, TypeInv, TypeOK
<1>1. ASSUME NEW q \in Process, Lead(q), role[q] \in {"none", "backup"}
      PROVE  HasSent(p)'
  BY <1>0, <1>1, LeadEffect DEF HasSent, SeatInv, TypeInv, TypeOK
<1>2. CASE Main
  BY <1>2 DEF Main, HasSent
<1>3. ASSUME NEW q \in Process, Boot(q) \/ Started(q) \/ Crash(q) PROVE HasSent(p)'
  BY <1>0, <1>3 DEF Boot, Started, Crash, HasSent
<1>4. ASSUME NEW q \in Process, TakeOver(q) PROVE HasSent(p)'
  BY <1>1, <1>4 DEF TakeOver
<1>5. CASE UNCHANGED role
  BY <1>5 DEF HasSent
<1>6. ASSUME NEW q \in Process, HearHeartbeat(q) \/ HearNothing(q) \/ SendHeartbeat(q)
      PROVE  HasSent(p)'
  BY <1>5, <1>6 DEF HearHeartbeat, HearNothing, SendHeartbeat
<1> QED
  BY <1>2, <1>3, <1>4, <1>5, <1>6 DEF Next, Tick, vars

LEMMA SendersKept ==
  ASSUME SeatInv, SendersStarted, [Next]_vars, UNCHANGED <<from, mailFrom, noticed>>,
         mail' => mail /\ \A p \in Process : Leads(p)' => Leads(p)
  PROVE  SendersStarted'
<1>1. \A p : HasSent(p) => HasSent(p)'
  BY SendersStay
<1>2. from' # Nobody => HasSent(from)'
  BY <1>1 DEF SendersStarted
<1> QED
  BY <1>1 DEF SendersStarted

\* Whose heartbeats are noted is beating as long as he lives.
LEMMA BeatsKept ==
  ASSUME HeardBeats, UNCHANGED <<mailFrom, noticed>>, mail' => mail,
         \A p : p \in beating /\ role'[p] = "primary" => p \in beating',
         \A p : (mail /\ p = mailFrom) \/ p \in noticed
               => (role'[p] = "primary" => role[p] = "primary")
  PROVE  HeardBeats'
BY DEF HeardBeats

\* A backup whose heartbeat does not wait has not counted more than a tick
\* since it heard one.
LEMMA HearsInTick ==
  ASSUME SeatInv, HeardBeats, ~mail, NEW p \in noticed, role[p] = "primary",
         NEW q \in Process, role[q] = "backup"
  PROVE  silent[q] <= 1
<1>1. p \in beating
  BY DEF HeardBeats
<1>2. silent[q] <= 0 \/ silent[q] <= 1
  BY <1>1 DEF SeatInv, HeartbeatsCome
<1>3. silent[q] \in Nat
  BY PairAssumption DEF SeatInv, TypeInv, TypeOK
<1> QED
  BY <1>2, <1>3

\* Steps of the pair that leave the other node's view and the noted
\* heartbeats alone.
Unwatched == UNCHANGED <<known, quiet, from, mailFrom, noticed>>

\* Somebody takes the lead, and it is long since the last one has been heard.
LEMMA LeadKeepsMemory ==
  ASSUME SeatInv, WatchInv, MemoryInv, Unwatched, [Next]_vars, OneLeads', ~mail, ~mail',
         beating' = beating, NEW p \in Process, Lead(p), ~Leads(p), role[p] # "dead",
         known /\ from \in noticed => quiet + 1 >= Timeout,
         \A q \in Process : role[q] = "backup" => q = p
  PROVE  MemoryInv'
<1>1. PICK L \in SUBSET Process :
         /\ p \notin L
         /\ \A q \in L : role[q] = "none" /\ role'[q] = "booting"
         /\ \A q \in Process \ (L \cup {p}) : role'[q] = role[q]
         /\ role'[p] = "starting" /\ left'[p] = StartMin
  BY LeadEffect DEF SeatInv, TypeInv, TypeOK
<1>2. \A q \in Process : Leads(q)' => q = p
  BY <1>1 DEF OneLeads, Leads
<1>3. \A q \in Process : role'[q] # "backup" /\ role'[q] # "primary"
  BY <1>1, <1>2 DEF Leads
<1>4. SendersStarted'
  <2>1. \A q : HasSent(q) => HasSent(q)'
    BY SendersStay
  <2> QED
    BY <2>1 DEF MemoryInv, SendersStarted, Unwatched
<1>5. HeardBeats'
  <2>1. \A q \in noticed : q \in Process
    BY DEF MemoryInv, SendersStarted, HasSent
  <2> QED
    BY <1>3, <2>1 DEF HeardBeats, Unwatched
<1>6. QuietAsSilent'
  BY <1>3 DEF QuietAsSilent
<1>7. known /\ from \in noticed => quiet + left'[p] + 1 >= Timeout + StartMin
  <2>1. quiet \in Nat /\ Timeout \in Nat /\ StartMin \in Nat
    BY PairAssumption DEF WatchInv, ClockTypes
  <2> QED
    BY <1>1, <2>1
<1>8. QuietSinceTakeOver'
  BY <1>2, <1>3, <1>7 DEF QuietSinceTakeOver, Unwatched, Leads
<1> QED
  BY <1>4, <1>5, <1>6, <1>8 DEF MemoryInv

LEMMA Numbers ==
  SeatInv => /\ role \in [Process -> Role] /\ left \in [Process -> Nat]
             /\ silent \in [Process -> Nat] /\ Timeout \in Nat /\ StartMin \in Nat
<1> SUFFICES ASSUME SeatInv PROVE silent \in [Process -> Nat]
  BY PairAssumption DEF SeatInv, TypeInv, TypeOK
<1>1. \A p \in Process : silent[p] \in Nat
  BY PairAssumption DEF SeatInv, TypeInv, TypeOK
<1> QED
  BY <1>1 DEF SeatInv, TypeInv, TypeOK

LEMMA UnwatchedStep ==
  ASSUME SeatInv, WatchInv, MemoryInv, OneLeads', Unwatched,
         \/ Main
         \/ \E p \in Process : Boot(p) \/ HearNothing(p) \/ TakeOver(p) \/ Started(p) \/ Crash(p)
  PROVE  MemoryInv'
<1>n. Next
  BY DEF Next
<1>0. /\ role \in [Process -> Role] /\ left \in [Process -> Nat]
      /\ silent \in [Process -> Nat] /\ quiet \in Nat /\ Timeout \in Nat /\ StartMin \in Nat
  BY Numbers DEF WatchInv, ClockTypes
<1>s. \A p : (mail /\ p = mailFrom) \/ p \in noticed => HasSent(p)
  BY DEF MemoryInv, SendersStarted
<1>1. CASE Main
  <2>1. PICK p \in Process : Lead(p)
    BY <1>1 DEF Main
  <2>2. ~mail /\ ~mail' /\ beating' = beating /\ \A q \in Process : role[q] = "none"
    BY <1>1 DEF Main, SeatInv, TypeInv, TypeOK, Bound, In
  <2>3. from \notin noticed
    BY <1>s, <2>2 DEF HasSent
  <2> QED
    BY <1>n, <2>1, <2>2, <2>3, LeadKeepsMemory DEF Leads
<1>2. ASSUME NEW p \in Process, Boot(p) PROVE MemoryInv'
  <2>1. \A q \in Process : q # p => role'[q] = role[q] /\ silent'[q] = silent[q]
    BY <1>0, <1>2 DEF Boot
  <2>2. /\ role'[p] \in {"backup", "dead"} /\ silent'[p] = 0
        /\ UNCHANGED <<left, mail, acted, beating>> /\ role[p] = "booting"
    BY <1>0, <1>2 DEF Boot
  <2>3. SendersStarted'
    BY <1>n, <2>1, <2>2, SendersKept DEF MemoryInv, Unwatched, Leads
  <2>4. HeardBeats'
    BY <1>s, <2>1, <2>2, BeatsKept DEF MemoryInv, Unwatched, HasSent
  <2>5. 0 <= quiet + 1
    BY <1>0
  <2>6. QuietAsSilent'
    BY <2>1, <2>2, <2>5 DEF MemoryInv, QuietAsSilent, Unwatched
  <2>7. QuietSinceTakeOver'
    BY <2>1, <2>2 DEF MemoryInv, QuietSinceTakeOver, Unwatched
  <2> QED
    BY <2>3, <2>4, <2>6, <2>7 DEF MemoryInv
<1>3. ASSUME NEW p \in Process, HearNothing(p) PROVE MemoryInv'
  <2>1. UNCHANGED <<role, left, silent, mail, beating>>
    BY <1>3 DEF HearNothing
  <2>2. SendersStarted'
    BY <1>n, <2>1, SendersKept DEF MemoryInv, Unwatched, Leads
  <2> QED
    BY <2>1, <2>2 DEF MemoryInv, HeardBeats, QuietAsSilent, QuietSinceTakeOver, Unwatched
<1>4. ASSUME NEW p \in Process, TakeOver(p) PROVE MemoryInv'
  <2>1. /\ role[p] = "backup" /\ ~mail /\ ~mail' /\ Lead(p) /\ silent[p] >= Timeout
        /\ beating' = beating
    BY <1>4 DEF TakeOver
  <2>2. \A q \in Process : role[q] = "backup" => q = p
    BY <2>1 DEF SeatInv, OneSucceeds, Succeeds
  <2>3. known /\ from \in noticed => silent[p] <= quiet + 1
    BY <2>1 DEF MemoryInv, QuietAsSilent
  <2>4. known /\ from \in noticed => quiet + 1 >= Timeout
    BY <1>0, <2>1, <2>3
  <2> QED
    BY <1>n, <2>1, <2>2, <2>4, LeadKeepsMemory DEF Leads
<1>5. ASSUME NEW p \in Process, Started(p) PROVE MemoryInv'
  <2>1. \A q \in Process : q # p => role'[q] = role[q]
    BY <1>0, <1>5 DEF Started
  <2>2. /\ role'[p] = "primary" /\ role[p] = "starting" /\ left[p] = 0
        /\ UNCHANGED <<left, silent, mail, beating>>
    BY <1>0, <1>5 DEF Started
  <2>3. SendersStarted'
    BY <1>n, <2>1, <2>2, SendersKept DEF MemoryInv, Unwatched, Leads
  <2>4. \A q : (mail /\ q = mailFrom) \/ q \in noticed => q # p /\ q \in Process
    BY <1>s, <2>2 DEF HasSent
  <2>5. HeardBeats'
    BY <2>1, <2>2, <2>4, BeatsKept DEF MemoryInv, Unwatched
  <2>6. QuietAsSilent'
    BY <2>1, <2>2 DEF MemoryInv, QuietAsSilent, Unwatched
  <2>7. known /\ from \in noticed => quiet + 1 >= Timeout + StartMin
    BY <1>0, <2>2 DEF MemoryInv, QuietSinceTakeOver
  <2>8. QuietSinceTakeOver'
    BY <2>1, <2>2, <2>7 DEF MemoryInv, QuietSinceTakeOver, Unwatched
  <2> QED
    BY <2>3, <2>5, <2>6, <2>8 DEF MemoryInv
<1>6. ASSUME NEW p \in Process, Crash(p) PROVE MemoryInv'
  <2>1. \A q \in Process : q # p => /\ role'[q] = role[q] /\ silent'[q] = silent[q]
                                    /\ left'[q] = left[q]
    BY <1>0, <1>6 DEF Crash
  <2>2. /\ role'[p] = "dead" /\ mail' = (mail /\ role[p] # "backup")
        /\ beating' = beating \ {p}
    BY <1>0, <1>6 DEF Crash
  <2>3. SendersStarted'
    BY <1>n, <2>1, <2>2, SendersKept DEF MemoryInv, Unwatched, Leads
  <2>4. \A q \in Process : role'[q] = "backup" => mail' = mail
    BY <2>1, <2>2 DEF SeatInv, OneSucceeds, Succeeds, TypeInv, TypeOK
  <2>5. HeardBeats'
    BY <1>s, <2>1, <2>2, BeatsKept DEF MemoryInv, Unwatched, HasSent
  <2>6. QuietAsSilent'
    BY <2>1, <2>2, <2>4 DEF MemoryInv, QuietAsSilent, Unwatched
  <2>7. QuietSinceTakeOver'
    BY <2>1, <2>2 DEF MemoryInv, QuietSinceTakeOver, Unwatched
  <2> QED
    BY <2>3, <2>5, <2>6, <2>7 DEF MemoryInv
<1> QED
  BY <1>1, <1>2, <1>3, <1>4, <1>5, <1>6

\* Heartbeats are sent and heard.
LEMMA HeartbeatStep ==
  ASSUME SeatInv, WatchInv, MemoryInv, OneLeads, UNCHANGED <<known, quiet, from>>,
         NEW p \in Process,
         \/ SendHeartbeat(p) /\ mailFrom' = p /\ noticed' = noticed
         \/ HearHeartbeat(p) /\ noticed' = noticed \cup {mailFrom} /\ mailFrom' = mailFrom
  PROVE  MemoryInv'
<1>0. /\ silent \in [Process -> 0 .. Timeout + 1] /\ quiet \in Nat
  BY DEF SeatInv, TypeInv, TypeOK, WatchInv, ClockTypes
<1>1. ASSUME SendHeartbeat(p), mailFrom' = p, noticed' = noticed PROVE MemoryInv'
  <2>1. /\ role[p] = "primary" /\ UNCHANGED <<role, left, silent>> /\ mail' = (Bound # {})
        /\ beating' = beating \cup {p}
    BY <1>1 DEF SendHeartbeat
  <2>2. \A q \in Process : role[q] = "backup" => mail'
    BY <2>1 DEF Bound, In
  <2>3. \A q \in Process : Leads(q) => q = p
    BY <2>1 DEF OneLeads, Leads
  <2>4. SendersStarted'
    BY <1>1, <2>1, <2>3 DEF MemoryInv, SendersStarted, HasSent, Leads
  <2>5. HeardBeats'
    BY <1>1, <2>1 DEF MemoryInv, HeardBeats
  <2> QED
    BY <1>1, <2>1, <2>2, <2>4, <2>5 DEF MemoryInv, QuietAsSilent, QuietSinceTakeOver
<1>2. ASSUME HearHeartbeat(p), noticed' = noticed \cup {mailFrom}, mailFrom' = mailFrom
      PROVE  MemoryInv'
  <2>1. /\ role[p] = "backup" /\ mail /\ ~mail' /\ silent'[p] = 0
        /\ UNCHANGED <<role, left, beating>>
    BY <1>0, <1>2 DEF HearHeartbeat
  <2>2. \A q \in Process : role[q] = "backup" => q = p
    BY <2>1 DEF SeatInv, OneSucceeds, Succeeds
  <2>3. SendersStarted'
    BY <1>2, <2>1 DEF MemoryInv, SendersStarted, HasSent, Leads
  <2>4. HeardBeats'
    BY <1>2, <2>1 DEF MemoryInv, HeardBeats
  <2>5. 0 <= quiet + 1
    BY <1>0
  <2>6. QuietAsSilent'
    BY <2>1, <2>2, <2>5 DEF QuietAsSilent
\* If the last status is from whoever sent this heartbeat, he is in charge.
  <2>7. ASSUME from = mailFrom, NEW q \in Process, Leads(q)
        PROVE  from = q /\ role[q] = "primary"
    <3>1. from = q
      BY <2>1, <2>7 DEF MemoryInv, SendersStarted
    <3>2. HasSent(q)
      BY <2>1, <2>7, <3>1 DEF MemoryInv, SendersStarted
    <3> QED
      BY <2>7, <3>1, <3>2 DEF HasSent, Leads
  <2>8. QuietSinceTakeOver'
    BY <1>2, <2>1, <2>7 DEF MemoryInv, QuietSinceTakeOver, Leads
  <2> QED
    BY <2>3, <2>4, <2>6, <2>8 DEF MemoryInv
<1> QED
  BY <1>1, <1>2

\* A tick counts for the backup and for the other node.
LEMMA TickKeepsMemory ==
  ASSUME SeatInv, WatchInv, MemoryInv, TimePasses
  PROVE  MemoryInv'
<1>0. /\ left \in [Process -> Nat] /\ silent \in [Process -> Nat] /\ quiet \in Nat
      /\ Timeout \in Nat /\ StartMin \in Nat
  BY Numbers DEF WatchInv, ClockTypes
<1>1. /\ UNCHANGED <<role, mail, known, from, mailFrom, noticed, beating>>
      /\ known => quiet' = quiet + 1
  BY DEF TimePasses, Tick
<1>2. \A p \in Process : /\ left'[p] = IF left[p] > 0 THEN left[p] - 1 ELSE 0
                         /\ role[p] = "backup" => silent'[p] = silent[p] + 1
  BY DEF TimePasses, Tick, Bound, In
<1>3. SendersStarted' /\ HeardBeats'
  BY <1>1 DEF MemoryInv, SendersStarted, HeardBeats, HasSent, Leads
<1>4. QuietAsSilent'
  <2> SUFFICES ASSUME known, from \in noticed, ~mail, NEW q \in Process, role[q] = "backup"
               PROVE  silent'[q] <= quiet' + 1
    BY <1>1 DEF QuietAsSilent
  <2>1. silent[q] <= quiet + 1
    BY DEF MemoryInv, QuietAsSilent
  <2> QED
    BY <1>0, <1>1, <1>2, <2>1
<1>5. QuietSinceTakeOver'
  <2> SUFFICES ASSUME known, from \in noticed, NEW q \in Process
               PROVE  /\ role[q] = "starting" => quiet' + left'[q] + 1 >= Timeout + StartMin
                      /\ role[q] = "primary" /\ from # q => quiet' + 1 >= Timeout + StartMin
    BY <1>1 DEF QuietSinceTakeOver
  <2>1. /\ role[q] = "starting" => quiet + left[q] + 1 >= Timeout + StartMin
        /\ role[q] = "primary" /\ from # q => quiet + 1 >= Timeout + StartMin
    BY DEF MemoryInv, QuietSinceTakeOver
  <2>2. left[q] \in Nat /\ quiet' = quiet + 1
    BY <1>0, <1>1
  <2> QED
    BY <1>0, <1>2, <2>1, <2>2
<1> QED
  BY <1>3, <1>4, <1>5 DEF MemoryInv

\* A status comes in: the other node counts from there, and so, give or take
\* a tick, does the backup.
LEMMA StatusKeepsMemory ==
  ASSUME SeatInv, MemoryInv, OneLeads, NEW p \in Process, ReceiveStatus(p)
  PROVE  MemoryInv'
<1>1. /\ role[p] = "primary" /\ from' = p /\ quiet' = 0
      /\ UNCHANGED <<role, left, silent, mail, beating, mailFrom, noticed>>
  BY DEF ReceiveStatus, ToSend, In, vars
<1>2. \A q \in Process : role[q] # "starting" /\ (role[q] = "primary" => q = p)
  BY <1>1 DEF OneLeads, Leads
<1>3. SendersStarted' /\ HeardBeats'
  BY <1>1 DEF MemoryInv, SendersStarted, HeardBeats, HasSent, Leads
<1>4. QuietAsSilent'
  BY <1>1, HearsInTick DEF MemoryInv, QuietAsSilent
<1>5. QuietSinceTakeOver'
  BY <1>1, <1>2 DEF QuietSinceTakeOver
<1> QED
  BY <1>3, <1>4, <1>5 DEF MemoryInv

LEMMA MemoryStep ==
  ASSUME SeatInv, WatchInv, MemoryInv, OneLeads, OneLeads', [FailoverNext]_failoverVars
  PROVE  MemoryInv'
<1>1. ASSUME UNCHANGED <<vars, from, mailFrom, noticed>>, known' => known, known' => quiet' = quiet
      PROVE  MemoryInv'
  <2>1. UNCHANGED <<role, left, silent, mail, beating>>
    BY <1>1 DEF vars
  <2>2. SendersStarted' /\ HeardBeats'
    BY <1>1, <2>1 DEF MemoryInv, SendersStarted, HeardBeats, HasSent, Leads
  <2> QED
    BY <1>1, <2>1, <2>2 DEF MemoryInv, QuietAsSilent, QuietSinceTakeOver
<1>2. CASE RemoveElevator \/ FindDead \/ \E p \in Process : LoseStatus(p)
  BY <1>1, <1>2 DEF RemoveElevator, FindDead, LoseStatus
<1>3. CASE UNCHANGED failoverVars
  BY <1>1, <1>3 DEF failoverVars, peerView
<1>4. CASE PairStep
  <2>1. CASE /\ Main \/ \E p \in Process : Boot(p) \/ HearNothing(p) \/ TakeOver(p)
                                         \/ Started(p) \/ Crash(p)
             /\ UNCHANGED <<mailFrom, noticed>>
    BY <1>4, <2>1, UnwatchedStep DEF PairStep, Unwatched, peerView
  <2>2. CASE \E p \in Process : SendHeartbeat(p) /\ mailFrom' = p /\ UNCHANGED noticed
    BY <1>4, <2>2, HeartbeatStep DEF PairStep, peerView
  <2>3. CASE \E p \in Process : /\ HearHeartbeat(p) /\ noticed' = noticed \cup {mailFrom}
                                /\ UNCHANGED mailFrom
    BY <1>4, <2>3, HeartbeatStep DEF PairStep, peerView
  <2> QED
    BY <1>4, <2>1, <2>2, <2>3 DEF PairStep
<1>5. ASSUME NEW p \in Process, ReceiveStatus(p) PROVE MemoryInv'
  BY <1>5, StatusKeepsMemory
<1> QED
  BY <1>2, <1>3, <1>4, <1>5, TickKeepsMemory DEF FailoverNext

\* Whoever has ever been in charge beside another is noted.
LEMMA OwnStep ==
  ASSUME SeatInv, WatchInv, OwnInv, [FailoverNext]_failoverVars
  PROVE  OwnInv'
<1> SUFFICES ASSUME ~shared' PROVE (OneLeads /\ MemoryInv)'
  BY DEF OwnInv
<1>1. CASE PairStep
  <2>1. ~shared /\ ~\E p, q \in InCharge' : p # q
    BY <1>1 DEF PairStep
  <2>2. OneLeads'
    BY <2>1 DEF OneLeads, Leads, InCharge, In
  <2> QED
    BY <2>1, <2>2, MemoryStep DEF OwnInv
<1>2. CASE ~PairStep
  <2>1. ~shared /\ role' = role
    BY <1>2 DEF FailoverNext, failoverVars, TimePasses, Tick, ReceiveStatus, LoseStatus, FindDead,
                RemoveElevator, vars
  <2>2. OneLeads'
    BY <2>1 DEF OwnInv, OneLeads, Leads
  <2> QED
    BY <2>1, <2>2, MemoryStep DEF OwnInv
<1> QED
  BY <1>1, <1>2

\* A program that takes over has been forgotten when its first status comes
\* in, if the timeout and the shortest start are longer than the removal time
\* and the second that truncation adds to it, with a tick to spare by which
\* the last heartbeat may be older than the last status; and if no two
\* processes have been in charge side by side.
THEOREM BackAfterForgotten ==
  ASSUME (RemovalTime + 1) * Second + 1 < Timeout + StartMin
  PROVE  FailoverSpec => ForgottenBeforeBack
<1>1. FailoverInit => FailoverInv
  BY SeatInit, WatchInit, MemoryInit
     DEF FailoverInit, FailoverInv, OwnInv, OneLeads, Leads, Init
<1>2. FailoverInv /\ [FailoverNext]_failoverVars => FailoverInv'
  BY StepIsPairStep, SeatStep, WatchStep, OwnStep DEF FailoverInv
<1>3. FailoverInv /\ [FailoverNext]_failoverVars
      => [from' # from /\ from \in noticed /\ ~shared => ~known]_failoverVars
  <2> SUFFICES ASSUME FailoverInv, FailoverNext, from' # from, from \in noticed, ~shared, known
               PROVE  FALSE
    OBVIOUS
  <2>1. PICK p \in Process : ReceiveStatus(p)
    BY DEF FailoverNext, PairStep, peerView, TimePasses, LoseStatus, FindDead, RemoveElevator
  <2>2. role[p] = "primary" /\ from # p
    BY <2>1 DEF ReceiveStatus, ToSend, In
  <2>3. quiet + 1 >= Timeout + StartMin
    BY <2>2 DEF FailoverInv, OwnInv, MemoryInv, QuietSinceTakeOver
  <2>4. quiet <= (RemovalTime + 1) * Second
    BY WatchedIsHeard DEF FailoverInv, GoneInTime
  <2>5. /\ quiet \in Nat /\ Timeout \in Nat /\ StartMin \in Nat
        /\ (RemovalTime + 1) * Second \in Nat
    BY PairAssumption, FailoverAssumption DEF FailoverInv, WatchInv, ClockTypes
  <2> QED
    BY <2>3, <2>4, <2>5
<1> QED
  BY <1>1, <1>2, <1>3, PTL DEF FailoverSpec, ForgottenBeforeBack
=============================================================================
