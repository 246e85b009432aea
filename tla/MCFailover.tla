----------------------------- MODULE MCFailover -----------------------------
(* Two targets, the first of them served by Codex's adapter.               *)
EXTENDS Failover

CONSTANTS t1, t2

TwoTargets == <<t1, t2>>

RequestSymmetry == Permutations(Request)
=============================================================================
