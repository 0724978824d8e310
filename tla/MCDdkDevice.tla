---------------------------- MODULE MCDdkDevice ----------------------------
(* Instances of DdkDevice for TLC.                                           *)
EXTENDS DdkDevice, TLC

OneLong == {0, 1}
FileSymmetry == Permutations(Writers)
=============================================================================
