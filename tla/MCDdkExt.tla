------------------------------ MODULE MCDdkExt ------------------------------
(* Instances of DdkExt for TLC.                                              *)
EXTENDS DdkExt, TLC

\* Arguments a command line really has, and the type of an int with values
\* -3 .. 2 to hold them all.
SmallLongs == {0, 1, 2}
OneLong == {0, 1}

WriterSymmetry == Permutations(Writers)
=============================================================================
