----------------------------- MODULE MCDispatch -----------------------------
(***************************************************************************)
(* A small instance of Dispatch for TLC: call 0 is a hall call, and call 1 *)
(* a cab call of the car that may be obstructed, both at the top floor.    *)
(***************************************************************************)
EXTENDS Dispatch

MCFloorOf == [c \in Call |-> NFloors - 1]
MCCabOf   == [c \in Call |-> IF c = 0 THEN Nobody ELSE CHOOSE n \in Blockable : TRUE]

\* The nearest car, with something added for one that is busy, has been told
\* to serve a cab call.
MCDivide(open, in) ==
  LET Far(n, c)  == IF in[n].floor = FloorOf[c] THEN 0 ELSE 1
      Load(n)    == Cardinality({c \in open : CabOf[c] = n})
                      + IF in[n].state = "idle" THEN 0 ELSE 1
      Cost(n, c) == Far(n, c) + Load(n)
  IN  [c \in Hall(open) |->
         CHOOSE n \in DOMAIN in : \A m \in DOMAIN in : Cost(n, c) <= Cost(m, c)]
=============================================================================
