------------------------------ MODULE TinyTty -------------------------------
(***************************************************************************)
(* The two terminal drivers of tty/, which make their input up with a timer *)
(* that arms itself again:                                                  *)
(*                                                                          *)
(*   tty      tiny_tty.c: counts the opens of a port itself                 *)
(*   serial   tiny_serial.c: the serial core counts, and calls startup for  *)
(*            the first open and shutdown for the last close                *)
(*                                                                          *)
(* One port.  The terminal layer calls open and close one after the other,  *)
(* and calls close after an open that fails; only the timer runs beside     *)
(* them, and del_timer() does not wait for it.  A timer function that finds *)
(* its port freed, or a NULL timer that is used, ends in tyOops.  The line  *)
(* settings, which are only logged, and the counters that nothing changes   *)
(* are left out.  Definitions introduced as a slip serve to test the        *)
(* properties only.                                                         *)
(***************************************************************************)
EXTENDS Integers, FiniteSets

CONSTANTS
    TyFiles,
    TyChars    \* characters a write of the serial port leaves to be sent, at most

ASSUME TyAssumption == IsFiniteSet(TyFiles) /\ TyChars \in Nat

VARIABLES
    tyDriver,  \* none, tty, serial: the module that is loaded
    tyPort,    \* is there a port structure (tiny_table[0])?
    tyCount,   \* open_count, or the count of the serial core
    tyTimer,   \* none (not allocated), idle, pending
    tyRunning, \* the timer function: none, starts, rearms
    tyOpen,    \* files that are open
    tyFailed,  \* files whose open has failed, before they are closed
    tyMcr,     \* the mcr shadow
    tyXmit,    \* characters in the circular buffer of the serial core
    tyXchar,   \* port->x_char
    tyOops     \* history

tyLine == <<tyMcr, tyXmit, tyXchar>>
tyVars == <<tyDriver, tyPort, tyCount, tyTimer, tyRunning, tyOpen, tyFailed, tyLine, tyOops>>

TyInit ==
    /\ tyDriver = "none" /\ tyPort = FALSE /\ tyCount = 0
    /\ tyTimer = "none" /\ tyRunning = "none"
    /\ tyOpen = {} /\ tyFailed = {}
    /\ tyMcr = {} /\ tyXmit = 0 /\ tyXchar = FALSE /\ tyOops = FALSE

\* add_timer() of a timer that is pending already leaves it pending.
TyAdds == tyTimer' = "pending"
TyDeletes == IF tyTimer = "none" THEN tyOops' = TRUE /\ UNCHANGED tyTimer
                                 ELSE tyTimer' = "idle" /\ UNCHANGED tyOops

-----------------------------------------------------------------------------
(* tiny_tty                                                                  *)

tiny_init ==
    /\ tyDriver = "none" /\ tyDriver' = "tty"
    /\ UNCHANGED <<tyPort, tyCount, tyTimer, tyRunning, tyOpen, tyFailed, tyLine, tyOops>>

\* The timer is kept from one opening of the port to the next.
tiny_open(f) ==
    /\ tyDriver = "tty" /\ f \notin tyOpen \cup tyFailed
    /\ tyPort' = TRUE
    /\ tyCount' = tyCount + 1
    /\ \/ tyCount # 0 /\ tyOpen' = tyOpen \cup {f} /\ UNCHANGED <<tyTimer, tyFailed>>
       \/ tyCount = 0 /\ TyAdds /\ tyOpen' = tyOpen \cup {f} /\ UNCHANGED tyFailed
       \/ /\ tyCount = 0 /\ tyTimer = "none"    \* no memory for it
          /\ tyFailed' = tyFailed \cup {f} /\ UNCHANGED <<tyTimer, tyOpen>>
    /\ UNCHANGED <<tyDriver, tyRunning, tyLine, tyOops>>

\* Slip: the last user but one is taken for the last.
TyLastButOne == tyCount <= 2

\* tyCount is the count of before.
TyLastUser == tyCount <= 1

do_close ==
    IF tyCount = 0 THEN UNCHANGED <<tyCount, tyTimer, tyOops>>
    ELSE /\ tyCount' = tyCount - 1
         /\ IF TyLastUser THEN TyDeletes ELSE UNCHANGED <<tyTimer, tyOops>>

tiny_close(f) ==
    /\ tyDriver = "tty" /\ f \in tyOpen \cup tyFailed
    /\ do_close
    /\ tyOpen' = tyOpen \ {f} /\ tyFailed' = tyFailed \ {f}
    /\ UNCHANGED <<tyDriver, tyPort, tyRunning, tyLine>>

\* DTR goes where RTS goes.
TyMcrBits(lines) == IF lines \cap {"RTS", "DTR"} # {} THEN {"RTS"} ELSE {}

tiny_tiocmset(f) ==
    /\ tyDriver = "tty" /\ f \in tyOpen
    /\ \E set, clear \in SUBSET {"RTS", "DTR"} :
          tyMcr' = (tyMcr \cup TyMcrBits(set)) \ TyMcrBits(clear)
    /\ UNCHANGED <<tyDriver, tyPort, tyCount, tyTimer, tyRunning, tyOpen, tyFailed, tyXmit, tyXchar, tyOops>>

\* No file is open; the timer function may be running.
tiny_exit ==
    /\ tyDriver = "tty" /\ tyOpen = {} /\ tyFailed = {}
    /\ tyDriver' = "none"
    /\ tyOops' = (tyOops \/ tyRunning # "none" \/ (tyPort /\ tyTimer = "none"))
    /\ tyPort' = FALSE /\ tyTimer' = "none" /\ tyRunning' = "none" /\ tyMcr' = {}
    /\ UNCHANGED <<tyCount, tyOpen, tyFailed, tyXmit, tyXchar>>

TyTimerFires ==
    /\ tyTimer = "pending" /\ tyRunning = "none"
    /\ tyTimer' = "idle" /\ tyRunning' = "starts"
    /\ UNCHANGED <<tyDriver, tyPort, tyCount, tyOpen, tyFailed, tyLine, tyOops>>

\* The character goes to the terminal, whether it is open or not.
tiny_timer ==
    /\ tyDriver = "tty"
    /\ \/ /\ tyRunning = "starts" /\ tyRunning' = "rearms"
          /\ tyOops' = (tyOops \/ tyCount = 0) /\ UNCHANGED tyTimer
       \/ tyRunning = "rearms" /\ tyRunning' = "none" /\ TyAdds /\ UNCHANGED tyOops
    /\ UNCHANGED <<tyDriver, tyPort, tyCount, tyOpen, tyFailed, tyLine>>

-----------------------------------------------------------------------------
(* tiny_serial; it has no exit                                               *)

TsInit ==
    /\ tyDriver = "none" /\ tyDriver' = "serial"
    /\ tyPort' = TRUE
    /\ UNCHANGED <<tyCount, tyTimer, tyRunning, tyOpen, tyFailed, tyLine, tyOops>>

\* tiny_startup(); without memory for the timer the open fails.
tiny_startup(f) ==
    /\ tyDriver = "serial" /\ f \notin tyOpen
    /\ IF tyCount = 0 THEN TyAdds ELSE UNCHANGED tyTimer
    /\ tyCount' = tyCount + 1 /\ tyOpen' = tyOpen \cup {f}
    /\ UNCHANGED <<tyDriver, tyPort, tyRunning, tyFailed, tyLine, tyOops>>

\* tiny_shutdown(); the core drops what has not been sent.
tiny_shutdown(f) ==
    /\ tyDriver = "serial" /\ f \in tyOpen
    /\ IF TyLastUser THEN TyDeletes /\ tyXmit' = 0 ELSE UNCHANGED <<tyTimer, tyXmit, tyOops>>
    /\ tyCount' = tyCount - 1 /\ tyOpen' = tyOpen \ {f}
    /\ UNCHANGED <<tyDriver, tyPort, tyRunning, tyFailed, tyMcr, tyXchar>>

\* A write, or an XON or XOFF of the line discipline; tiny_start_tx() does nothing.
TsWrite(f) ==
    /\ tyDriver = "serial" /\ f \in tyOpen
    /\ \/ tyXmit < TyChars /\ tyXmit' = tyXmit + 1 /\ UNCHANGED tyXchar
       \/ ~ tyXchar /\ tyXchar' = TRUE /\ UNCHANGED tyXmit
    /\ UNCHANGED <<tyDriver, tyPort, tyCount, tyTimer, tyRunning, tyOpen, tyFailed, tyMcr, tyOops>>

\* fifosize is 0: one character each time.
tiny_tx_chars ==
    \/ tyXchar /\ tyXchar' = FALSE /\ UNCHANGED tyXmit
    \/ ~ tyXchar /\ tyXmit' = (IF tyXmit = 0 THEN 0 ELSE tyXmit - 1) /\ UNCHANGED tyXchar

\* It gives up when the port has no terminal.
TsTimer ==
    /\ tyDriver = "serial"
    /\ \/ /\ tyRunning = "starts" /\ tyRunning' = (IF tyCount = 0 THEN "none" ELSE "rearms")
          /\ UNCHANGED <<tyTimer, tyXmit, tyXchar>>
       \/ tyRunning = "rearms" /\ tyRunning' = "none" /\ TyAdds /\ tiny_tx_chars
    /\ UNCHANGED <<tyDriver, tyPort, tyCount, tyOpen, tyFailed, tyMcr, tyOops>>

-----------------------------------------------------------------------------
TyNext ==
    \/ tiny_init \/ tiny_exit \/ TyTimerFires \/ tiny_timer \/ TsInit \/ TsTimer
    \/ \E f \in TyFiles : \/ tiny_open(f) \/ tiny_close(f) \/ tiny_tiocmset(f)
                          \/ tiny_startup(f) \/ tiny_shutdown(f) \/ TsWrite(f)

TySpec == TyInit /\ [][TyNext]_tyVars

-----------------------------------------------------------------------------
(* The count is the number of files to be closed, and characters keep coming  *)
(* while one is open: the timer is pending or its function is going to arm    *)
(* it, whatever a close before did to it while it ran (tiny_tty.c:63-164,     *)
(* tiny_serial.c:95-122, :191-216).                                           *)
PortRuns ==
    /\ tyCount = Cardinality(tyOpen) + Cardinality(tyFailed)
    /\ tyCount > 0 /\ tyTimer # "none" => tyTimer = "pending" \/ tyRunning # "none"
=============================================================================
