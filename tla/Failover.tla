------------------------------ MODULE Failover ------------------------------
(***************************************************************************)
(* A process pair that fails over, as another elevator sees it.  The       *)
(* primary broadcasts statuses from the moment it has started; the other   *)
(* node notes the second the last one came in (set_last_seen), and its     *)
(* dead_connection_remover compares that with the present second over and  *)
(* over.  CallReplication lets removals and restarts happen at any moment; *)
(* this module says when they do, and in which order.                      *)
(*                                                                         *)
(* A tick of ProcessPair holds HEARTBEAT_RATE_MS / BROADCAST_RATE_MS       *)
(* statuses; they count as one, which comes through or is lost.            *)
(***************************************************************************)
EXTENDS ProcessPair

CONSTANTS Second,        \* in ticks: 1000 ms / HEARTBEAT_RATE_MS
          RemovalTime,   \* DEAD_CONNECTION_REMOVAL_TIME_S
          Nobody         \* no process

ASSUME FailoverAssumption == /\ Second \in Nat \ {0}
                             /\ RemovalTime \in Nat
                             /\ Nobody \notin Process

VARIABLES
  clock,        \* how far the other node's present second has run
  known,        \* the elevator is in the other node's list
  elapsed,      \* time(NULL) - last_seen, while it is
  checking,     \* the remover has found it dead and is about to remove it
  sent,         \* primaries that have sent the status of this tick
  \* history
  quiet,        \* ticks since a status came in, while it is known
  from,         \* process the last status came from
  mailFrom,     \* process the last heartbeat came from
  noticed,      \* processes of which a backup has heard a heartbeat
  shared        \* two processes have been in charge at the same time

peerView     == <<clock, known, elapsed, checking, quiet, from, sent>>
failoverVars == <<vars, peerView, mailFrom, noticed, shared>>

FailoverInit == /\ Init
                /\ clock \in 0 .. Second - 1      \* the clocks are not in step
                /\ known = FALSE /\ elapsed = 0 /\ checking = FALSE /\ quiet = 0
                /\ from = Nobody /\ mailFrom = Nobody
                /\ sent = {} /\ noticed = {} /\ shared = FALSE

ToSend == In({"primary"}) \ sent

\* infinite_status_recieve and add_elevator, which also sets last_seen.
ReceiveStatus(p) == /\ p \in ToSend
                    /\ sent' = sent \cup {p}
                    /\ known' = TRUE
                    /\ elapsed' = 0
                    /\ quiet' = 0
                    /\ from' = p
                    /\ UNCHANGED <<vars, clock, checking, mailFrom, noticed, shared>>

LoseStatus(p) == /\ p \in ToSend
                 /\ sent' = sent \cup {p}
                 /\ UNCHANGED <<vars, clock, known, elapsed, checking, quiet, from,
                                mailFrom, noticed, shared>>

\* Mutants of Dead: seconds compared the other way; one second more.
DeadEarly == elapsed >= RemovalTime
DeadLate  == elapsed > RemovalTime + 1

Dead == elapsed > RemovalTime

FindDead == /\ known /\ ~checking /\ Dead
            /\ checking' = TRUE
            /\ UNCHANGED <<vars, clock, known, elapsed, quiet, from, sent, mailFrom, noticed,
                           shared>>

\* remove_elevator, whatever has come in since.
RemoveElevator == /\ checking
                  /\ checking' = FALSE
                  /\ known' = FALSE
                  /\ elapsed' = 0
                  /\ quiet' = 0
                  /\ UNCHANGED <<vars, clock, from, sent, mailFrom, noticed, shared>>

\* The remover does not pause at all and finds a dead elevator within a tick.
TimePasses == /\ Tick
              /\ ToSend = {} /\ ~checking /\ ~(known /\ Dead)
              /\ clock' = (clock + 1) % Second
              /\ elapsed' = IF known /\ clock' = 0 THEN elapsed + 1 ELSE elapsed
              /\ quiet' = IF known THEN quiet + 1 ELSE quiet
              /\ sent' = {}
              /\ UNCHANGED <<known, checking, from, mailFrom, noticed, shared>>

\* The steps of the pair, with what the histories note of them.
PairStep == /\ \/ /\ Main \/ \E p \in Process : Boot(p) \/ HearNothing(p) \/ TakeOver(p)
                                                \/ Started(p) \/ Crash(p)
                  /\ UNCHANGED <<mailFrom, noticed>>
               \/ \E p \in Process : /\ SendHeartbeat(p)
                                     /\ mailFrom' = p
                                     /\ UNCHANGED noticed
               \/ \E p \in Process : /\ HearHeartbeat(p)
                                     /\ noticed' = noticed \cup {mailFrom}
                                     /\ UNCHANGED mailFrom
            /\ shared' = (shared \/ \E p, q \in InCharge' : p # q)
            /\ UNCHANGED peerView

FailoverNext == \/ PairStep \/ TimePasses
                \/ \E p \in Process : ReceiveStatus(p) \/ LoseStatus(p)
                \/ FindDead \/ RemoveElevator

FailoverSpec == FailoverInit /\ [][FailoverNext]_failoverVars

-----------------------------------------------------------------------------
(* Properties.                                                             *)

\* The seconds that are compared are truncated, and yet an elevator is taken
\* for dead only if nothing has come in for longer than the removal time: one
\* that is up stays, as long as not all statuses of that time are lost
\* (peer.cpp:75).
DeadOnlyAfterLosses ==
  [][checking' /\ ~checking => quiet > RemovalTime * Second]_failoverVars

\* An elevator that falls silent is off the list at most a second after
\* DEAD_CONNECTION_REMOVAL_TIME_S, two seconds: by then its calls can be
\* divided among the others.
GoneInTime == known => quiet <= (RemovalTime + 1) * Second

\* The comment of dead_connection_remover says otherwise: "Removes connections
\* after they have been dead for 5 seconds" (peer.cpp:71).
DeadForFiveSeconds ==
  [][checking' /\ ~checking => quiet >= 5 * Second]_failoverVars

\* A program that takes over starts with an empty memory under the name of
\* the one that died.  By the time its first status comes in, every other
\* elevator has struck that name off its lists of acknowledgements, if the
\* dead primary had got as far as being heard by its backup: removal time,
\* heartbeat timeout and the time to start are in three files and fit.  They
\* do so only where no start has outlasted the timeout: two programs that
\* have been in charge side by side (shared) are one elevator to the others.
ForgottenBeforeBack ==
  [][from' # from /\ from \in noticed /\ ~shared => ~known]_failoverVars
=============================================================================
