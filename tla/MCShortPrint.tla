---------------------------- MODULE MCShortPrint ----------------------------
(* ShortPrint for TLC.                                                       *)
EXTENDS ShortPrint
=============================================================================
