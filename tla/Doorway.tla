------------------------------ MODULE Doorway ------------------------------
(***************************************************************************)
(* What an elevator promises at its door, without saying how: the motor    *)
(* runs only while the door is closed, an open door stays open until its   *)
(* time is up, and it closes once for every time it has been opened.       *)
(***************************************************************************)
EXTENDS Integers

VARIABLES door,      \* "closed", "open", or "due": its time is up
          motor      \* direction of the motor

vars == <<door, motor>>

Init == /\ door \in {"closed", "open"}
        /\ motor = 0

Drive == /\ door = "closed"
         /\ motor' \in -1 .. 1
         /\ UNCHANGED door

\* The car stops, if it was moving, and opens.
Open == /\ door = "closed"
        /\ door' = "open"
        /\ motor' = 0

TimeUp == /\ door = "open"
          /\ door' = "due"
          /\ UNCHANGED motor

Close == /\ door = "due"
         /\ door' = "closed"
         /\ UNCHANGED motor

Next == Drive \/ Open \/ TimeUp \/ Close

Spec == Init /\ [][Next]_vars
=============================================================================
