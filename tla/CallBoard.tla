----------------------------- MODULE CallBoard -----------------------------
(***************************************************************************)
(* What the replication of calls promises, without messages, lists of      *)
(* acknowledgements and call ids: which presses every elevator knows of,   *)
(* which of them it holds to be served, and which are offered to its car.  *)
(* Knowledge spreads only from those who have it; a press is offered only  *)
(* when everybody is known to know of it whom the elevator holds to be     *)
(* alive, or held to be when it last looked; a car sets out only for what  *)
(* is on offer; and a press is held to be served only once a car has come. *)
(*                                                                         *)
(* Offers are not taken back when somebody new appears: that elevator may  *)
(* not know of a press a car sets out for.                                 *)
(***************************************************************************)
CONSTANTS Node,      \* the elevators
          Press,     \* presses of buttons
          NoPress    \* no press: an elevator has not set out for one

VARIABLES known,     \* presses each node knows of
          done,      \* presses each node holds to be served
          served,    \* presses a car has come for
          offered,   \* presses the car of each node may set out for
          heading,   \* press the car of each node has set out for
          alive,     \* nodes each node holds to be alive
          seen       \* nodes it held to be alive when it last looked

vars == <<known, done, served, offered, heading, alive, seen>>

Init == /\ known = [n \in Node |-> {}]
        /\ done = [n \in Node |-> {}]
        /\ served = {}
        /\ offered = [n \in Node |-> {}]
        /\ heading = [n \in Node |-> NoPress]
        /\ alive = [n \in Node |-> {n}]
        /\ seen = [n \in Node |-> {n}]

\* A new offer, after what else a step does.
Offers(n) ==
  /\ \A m \in Node \ {n} : offered'[m] = offered[m]
  /\ offered'[n] \subseteq known'[n] \ done'[n]
  /\ \E others \in {alive'[n], seen[n]} : \A m \in others : offered'[n] \subseteq known'[m]

\* A press nobody has heard of.
Post(n, p) == /\ UNCHANGED <<served, alive, seen, heading, done>>
              /\ \A m \in Node : p \notin known[m]
              /\ known' = [known EXCEPT ![n] = @ \cup {p}]
              /\ Offers(n)

Learn(n, p) == /\ UNCHANGED <<served, alive, seen, heading, done>>
               /\ \E m \in Node : p \in known[m]
               /\ known' = [known EXCEPT ![n] = @ \cup {p}]
               /\ Offers(n)

\* That it has been served is learned together with the press, if need be.
LearnDone(n, p) == /\ UNCHANGED <<served, alive, seen, heading>>
                   /\ \E m \in Node : p \in done[m]
                   /\ known' = [known EXCEPT ![n] = @ \cup {p}]
                   /\ done' = [done EXCEPT ![n] = @ \cup {p}]
                   /\ Offers(n)

SetOut(n, p) == /\ UNCHANGED <<served, alive, seen, known, done, offered>>
                /\ heading[n] = NoPress
                /\ p \in offered[n]
                /\ heading' = [heading EXCEPT ![n] = p]

Serve(n) == /\ UNCHANGED <<alive, seen, known>>
            /\ heading[n] # NoPress
            /\ served' = served \cup {heading[n]}
            /\ done' = [done EXCEPT ![n] = @ \cup {heading[n]}]
            /\ heading' = [heading EXCEPT ![n] = NoPress]
            /\ Offers(n)

\* Somebody appears; what is on offer stays.
Appear(n, m) == /\ UNCHANGED <<served, seen, known, done, offered, heading>>
                /\ m # n
                /\ alive' = [alive EXCEPT ![n] = @ \cup {m}]

Vanish(n, m) == /\ UNCHANGED <<served, seen, known, done, heading>>
                /\ m # n
                /\ alive' = [alive EXCEPT ![n] = @ \ {m}]
                /\ Offers(n)

Look(n) == /\ UNCHANGED <<served, alive, known, done, offered, heading>>
           /\ seen' = [seen EXCEPT ![n] = alive[n]]

Renew(n) == /\ UNCHANGED <<served, alive, seen, known, done, heading>>
            /\ Offers(n)

Next == \E n \in Node :
          \/ Renew(n) \/ Look(n) \/ Serve(n)
          \/ \E m \in Node : Appear(n, m) \/ Vanish(n, m)
          \/ \E p \in Press : Post(n, p) \/ Learn(n, p) \/ LearnDone(n, p) \/ SetOut(n, p)

Spec == Init /\ [][Next]_vars
=============================================================================
