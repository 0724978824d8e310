---------------------------- MODULE MCScullPipe ----------------------------
(* Instances of ScullPipe for TLC.                                           *)
EXTENDS ScullPipe
=============================================================================
