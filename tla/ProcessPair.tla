---------------------------- MODULE ProcessPair ----------------------------
(***************************************************************************)
(* The process pair of one elevator (process_pair.cpp, main.cpp): a        *)
(* primary runs the elevator and sends heartbeats, a backup waits for them *)
(* on a UDP port and becomes primary when none has come for longer than    *)
(* the timeout.  A primary first launches a new backup, then waits for the *)
(* elevator to start up (launch_primary), and only then sends heartbeats.  *)
(* Nothing bounds that wait: the connection is retried for ever, and the   *)
(* car is awaited between floors.  The backup counts meanwhile.            *)
(*                                                                         *)
(* Time passes in ticks of HEARTBEAT_RATE_MS, in each of which every       *)
(* running process does one round of its loop.                             *)
(***************************************************************************)
EXTENDS Naturals

CONSTANTS Process,        \* processes that may be started, one after the other
          Timeout,        \* HEARTBEAT_TIMEOUT_DURATION_MS, in ticks
          StartMin,       \* ticks that launch_primary takes at least
          BootMax,        \* ticks until a launched backup is up
          MaxCrashes      \* bound on processes that die

ASSUME PairAssumption == /\ Timeout \in Nat /\ Timeout > 0
                         /\ StartMin \in Nat /\ BootMax \in Nat
                         /\ MaxCrashes \in Nat

VARIABLES
  role,      \* what each process is doing
  left,      \* ticks left of its booting, or of the shortest start
  silent,    \* ticks since a backup's last_receive_time
  acted,     \* processes that have done their round of this tick
  mail,      \* heartbeats wait at the port of the backup
  crashes,
  \* history
  alone,     \* ticks with nobody in charge
  beating    \* processes that have sent a heartbeat, and live

vars == <<role, left, silent, acted, mail, crashes, alone, beating>>

Role == {"none", "booting", "backup", "starting", "primary", "dead"}

In(roles) == {p \in Process : role[p] \in roles}
Booting   == In({"booting"})
Bound     == In({"backup"})                  \* holds the port
InCharge  == In({"starting", "primary"})     \* runs the elevator
Looping   == In({"backup", "primary"})

\* run_primary, up to and into launch_primary: process p is starting, and a
\* new process has been launched as its backup, if there is one left.
Lead(p) ==
  LET fresh == {q \in Process : role[q] = "none" /\ q # p}
  IN  \/ /\ fresh = {}
         /\ role' = [role EXCEPT ![p] = "starting"]
         /\ left' = [left EXCEPT ![p] = StartMin]
      \/ \E q \in fresh, boot \in 0 .. BootMax :
           /\ role' = [role EXCEPT ![p] = "starting", ![q] = "booting"]
           /\ left' = [left EXCEPT ![p] = StartMin, ![q] = boot]

Init == /\ role = [p \in Process |-> "none"]
        /\ left = [p \in Process |-> 0]
        /\ silent = [p \in Process |-> 0]
        /\ acted = {}
        /\ mail = FALSE
        /\ crashes = 0
        /\ alone = 0
        /\ beating = {}

\* main, started by hand.
Main == /\ \A p \in Process : role[p] = "none"
        /\ \E p \in Process : Lead(p)
        /\ UNCHANGED <<silent, acted, mail, crashes, alone, beating>>

-----------------------------------------------------------------------------
\* A launched backup is up: it takes the port, or dies if that is taken.
Boot(p) ==
  /\ role[p] = "booting" /\ left[p] = 0
  /\ role' = [role EXCEPT ![p] = IF Bound = {} THEN "backup" ELSE "dead"]
  /\ silent' = [silent EXCEPT ![p] = 0]
  /\ UNCHANGED <<left, acted, mail, crashes, alone, beating>>

\* Rounds of run_backup: heartbeats have come ...
HearHeartbeat(p) ==
  /\ role[p] = "backup" /\ p \notin acted /\ mail
  /\ mail' = FALSE
  /\ silent' = [silent EXCEPT ![p] = 0]
  /\ acted' = acted \cup {p}
  /\ UNCHANGED <<role, left, crashes, alone, beating>>

\* Mutant of HearNothing: the wait is not ended when the timeout is over.
HearNothingLonger(p) ==
  /\ role[p] = "backup" /\ p \notin acted /\ ~mail
  /\ acted' = acted \cup {p}
  /\ UNCHANGED <<role, left, silent, mail, crashes, alone, beating>>

\* ... or not, but not for long enough ...
HearNothing(p) ==
  /\ role[p] = "backup" /\ p \notin acted /\ ~mail
  /\ silent[p] <= Timeout
  /\ acted' = acted \cup {p}
  /\ UNCHANGED <<role, left, silent, mail, crashes, alone, beating>>

\* Mutants of TakeOver: an impatient backup; one that keeps the port.
TakeOverEarly(p) ==
  /\ role[p] = "backup" /\ p \notin acted /\ ~mail
  /\ silent[p] >= 1
  /\ silent' = [silent EXCEPT ![p] = 0]
  /\ Lead(p)
  /\ alone' = 0
  /\ UNCHANGED <<acted, mail, crashes, beating>>

TakeOverNever(p) ==
  /\ role[p] = "backup" /\ p \notin acted /\ ~mail
  /\ silent[p] > Timeout
  /\ silent' = [silent EXCEPT ![p] = 0]
  /\ UNCHANGED <<role, left, acted, mail, crashes, alone, beating>>

\* ... or for longer than the timeout: a little longer than a whole number
\* of ticks has passed when that number has been counted.
TakeOver(p) ==
  /\ role[p] = "backup" /\ p \notin acted /\ ~mail
  /\ silent[p] >= Timeout
  /\ silent' = [silent EXCEPT ![p] = 0]
  /\ Lead(p)
  /\ alone' = 0
  /\ UNCHANGED <<acted, mail, crashes, beating>>

\* launch_primary returns, if ever.
Started(p) ==
  /\ role[p] = "starting" /\ left[p] = 0
  /\ role' = [role EXCEPT ![p] = "primary"]
  /\ UNCHANGED <<left, silent, acted, mail, crashes, alone, beating>>

\* A heartbeat reaches the process that has the port, if there is one.
SendHeartbeat(p) ==
  /\ role[p] = "primary" /\ p \notin acted
  /\ mail' = (Bound # {})
  /\ acted' = acted \cup {p}
  /\ beating' = beating \cup {p}
  /\ UNCHANGED <<role, left, silent, crashes, alone>>

Crash(p) ==
  /\ role[p] \in Role \ {"none", "dead"} /\ crashes < MaxCrashes
  /\ role' = [role EXCEPT ![p] = "dead"]
  /\ mail' = (mail /\ role[p] # "backup")
  /\ left' = [left EXCEPT ![p] = 0]
  /\ silent' = [silent EXCEPT ![p] = 0]
  /\ acted' = acted \ {p}
  /\ crashes' = crashes + 1
  /\ beating' = beating \ {p}
  /\ UNCHANGED alone

\* Time passes once everybody has done what falls into this tick.  A launched
\* process is up in time; one that starts may go on starting.
Tick ==
  /\ In({"none"}) # Process
  /\ Looping \subseteq acted
  /\ \A p \in Booting : left[p] > 0
  /\ left' = [p \in Process |-> IF left[p] > 0 THEN left[p] - 1 ELSE 0]
  /\ silent' = [p \in Process |-> IF p \in Bound THEN silent[p] + 1 ELSE silent[p]]
  /\ acted' = {}
  /\ alone' = IF InCharge = {} /\ (Bound \cup Booting) # {} THEN alone + 1 ELSE 0
  /\ UNCHANGED <<role, mail, crashes, beating>>

Next == \/ Main \/ Tick
        \/ \E p \in Process :
             \/ Boot(p) \/ HearHeartbeat(p) \/ HearNothing(p) \/ TakeOver(p)
             \/ Started(p) \/ SendHeartbeat(p) \/ Crash(p)

Spec == Init /\ [][Next]_vars

-----------------------------------------------------------------------------
(* Properties.                                                             *)

TypeOK == /\ role \in [Process -> Role]
          /\ left \in [Process -> Nat]
          /\ silent \in [Process -> 0 .. Timeout + 1]
          /\ acted \subseteq Looping
          /\ mail \in BOOLEAN /\ (mail => Bound # {})
          /\ crashes \in 0 .. MaxCrashes
          /\ alone \in Nat
          /\ beating \subseteq In({"primary"})

\* A primary that has begun to send heartbeats keeps its elevator for as long
\* as it lives: no backup, whenever it came up, finds "no heartbeats"
\* (process_pair.cpp:40) beside it.  One that has not may lose it: while
\* launch_primary lasts nothing is sent, and the check of line 65 whether "the
\* primary is still alive" (line 62) cannot tell a long start from a death.
TakesOverFromTheSilent ==
  [][\A p \in Process : role[p] = "backup" /\ role'[p] = "starting" => beating = {}]_vars

\* An elevator whose primary has died is without one for no longer than the
\* new backup needs to boot and the timeout to run out, as long as a backup
\* is left.
TakesOverInTime == alone <= BootMax + Timeout + 1
=============================================================================
