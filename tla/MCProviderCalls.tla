--------------------------- MODULE MCProviderCalls ---------------------------
(***************************************************************************)
(* The symmetry of ProviderCalls for TLC: callers are interchangeable, and *)
(* no property of the runs is a liveness property.                         *)
(***************************************************************************)
EXTENDS ProviderCalls, TLC

CallerSymmetry == Permutations(Callers)
=============================================================================
