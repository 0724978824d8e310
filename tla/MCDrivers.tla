------------------------------ MODULE MCDrivers -----------------------------
(* The small drivers, which have nothing to do with each other, in one run:  *)
(* each behaviour is of one of them, and leaves the others in their first    *)
(* initial state.                                                            *)
EXTENDS ScullAccess, Snull, Sbull, UsbSkel, TinyTty, Short, Jiq, Sleepy, TLC

VARIABLE driver

McOthers == <<acVars, snVars, sbVars, skVars, tyVars, shVars, jqVars, slVars>>

McInit ==
    /\ driver \in {"access", "snull", "sbull", "skel", "tty", "short", "jiq", "sleepy"}
    /\ AcInit /\ (driver # "access" => acDev = "single")
    /\ SnInit /\ (driver # "snull" => snNapi)
    /\ SbInit /\ (driver # "sbull" => sbMode = "full")
    /\ SkInit /\ TyInit /\ ShInit /\ JqInit /\ SlInit

McAccess == driver = "access" /\ AcNext /\ UNCHANGED <<driver, snVars, sbVars, skVars, tyVars, shVars, jqVars, slVars>>
McSnull  == driver = "snull" /\ SnNext /\ UNCHANGED <<driver, acVars, sbVars, skVars, tyVars, shVars, jqVars, slVars>>
McSbull  == driver = "sbull" /\ SbNext /\ UNCHANGED <<driver, acVars, snVars, skVars, tyVars, shVars, jqVars, slVars>>
McSkel   == driver = "skel" /\ SkNext /\ UNCHANGED <<driver, acVars, snVars, sbVars, tyVars, shVars, jqVars, slVars>>
McTty    == driver = "tty" /\ TyNext /\ UNCHANGED <<driver, acVars, snVars, sbVars, skVars, shVars, jqVars, slVars>>
McShort  == driver = "short" /\ ShNext /\ UNCHANGED <<driver, acVars, snVars, sbVars, skVars, tyVars, jqVars, slVars>>
McJiq    == driver = "jiq" /\ JqNext /\ UNCHANGED <<driver, acVars, snVars, sbVars, skVars, tyVars, shVars, slVars>>
McSleepy == driver = "sleepy" /\ SlNext /\ UNCHANGED <<driver, acVars, snVars, sbVars, skVars, tyVars, shVars, jqVars>>

McNext == McAccess \/ McSnull \/ McSbull \/ McSkel \/ McTty \/ McShort \/ McJiq \/ McSleepy

McSpec == McInit /\ [][McNext]_<<driver, McOthers>>

\* Processes of two users on two terminals; p3 has become b's with su.
McUid  == [p1 |-> "a", p2 |-> "b", p3 |-> "b", p4 |-> "b"]
McEuid == [p1 |-> "a", p2 |-> "b", p3 |-> "a", p4 |-> "b"]
McTtyOf == [p1 |-> "t", p2 |-> "u", p3 |-> "t", p4 |-> "u"]

McTwin == [sn0 |-> "sn1", sn1 |-> "sn0"]
CONSTANTS a1, a2, b1
McHome == [p \in {a1, a2, b1} |-> IF p = b1 THEN "sn1" ELSE "sn0"]
McSymmetry == Permutations({a1, a2})

McSegments == {<<0>>, <<0, 2>>}
=============================================================================
