-------------------------- MODULE MCConfigMutation --------------------------
(* Instances of ConfigMutation for TLC.                                    *)
EXTENDS ConfigMutation, TLC

ClientSymmetry == Permutations(Client)
=============================================================================
