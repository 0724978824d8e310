--------------------------- MODULE MCScullDevices ---------------------------
(* Instances of ScullDevices for TLC.                                        *)
EXTENDS ScullDevices

\* A quantum of two bytes, or one page of two.
Units == [d \in Devices |-> IF d \in {"scull", "scullc"} THEN 2 ELSE 0]
=============================================================================
