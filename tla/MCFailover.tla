----------------------------- MODULE MCFailover -----------------------------
(* Failover for TLC: the processes of a pair are alike.                    *)
EXTENDS Failover, TLC

Alike == Permutations(Process)
=============================================================================
