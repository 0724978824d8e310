------------------------------ MODULE MCDdkMem ------------------------------
(* Instances of DdkMem for TLC: small boards and buffers.                    *)
EXTENDS DdkMem, TLC

FileSymmetry == Permutations(Files)
SeekBack == {-1}
NoSeeks == {}
=============================================================================
