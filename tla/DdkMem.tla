------------------------------- MODULE DdkMem -------------------------------
(***************************************************************************)
(* misc-modules/ddk_mem.c, the file operations of the USB memory device:    *)
(* open, close, write, read, llseek and ioctl, one step per USB message.    *)
(*                                                                          *)
(* The board keeps a read and a write offset of its own, shared by every    *)
(* open file; it serves a transfer from its offset and moves it on.  The    *)
(* driver has no lock around an operation ("need mutex protection", :158,   *)
(* :217, :223): the messages of operations on two files may alternate,      *)
(* unless Serial.                                                           *)
(*                                                                          *)
(* Bytes are identified by the address on the board they were read from: a  *)
(* run of bytes is [at, len].                                               *)
(*                                                                          *)
(* Definitions introduced as a slip serve to test the properties only.      *)
(***************************************************************************)
EXTENDS Integers

CONSTANTS
    Files,         \* open file descriptions, each used by one thread
    Size,          \* bytes of memory on the board
    InBuf, OutBuf, \* in_buf_size, out_buf_size
    ReadCounts, WriteCounts,  \* cnt of ddk_read, ddk_write
    SeekOffsets,   \* offset arguments of ddk_llseek
    IoctlOffsets,  \* arguments of DDK_RD_OFF_SET and DDK_WR_OFF_SET
    Faults,        \* may messages and user copies fail?
    Serial         \* TRUE: callers serialize their operations

ASSUME DdkMemAssumption ==
    /\ Size \in Nat
    /\ InBuf \in Nat \ {0}
    /\ OutBuf \in Nat \ {0}
    /\ ReadCounts \subseteq Nat
    /\ WriteCounts \subseteq Nat
    /\ SeekOffsets \subseteq Int
    /\ IoctlOffsets \subseteq 0 .. Size
    /\ Faults \in BOOLEAN
    /\ Serial \in BOOLEAN

VARIABLES
    rdOff, wrOff,  \* the board's offsets
    pos,           \* f_pos of each file
    held,          \* in_buf[0 .. in_buf_left_over - 1] of each file
    op,            \* the operation in progress on each file
    last           \* how the last call on each file ended,
                   \* none while one is in progress

vars == <<rdOff, wrOff, pos, held, op, last>>

Min(a, b) == IF a < b THEN a ELSE b

NoBytes == [at |-> 0, len |-> 0]

\* op[f].pc: the message due next; n: cnt, or the target of a seek; done:
\* wrote_cnt; got: the bytes an IN transfer has put into in_buf.
Op(pc, n, done, got) == [pc |-> pc, n |-> n, done |-> done, got |-> got]
Idle   == Op("idle", 0, 0, NoBytes)
Closed == Op("closed", 0, 0, NoBytes)

\* The end of a call: its result, and what ddk_ext has been told.
End(result, reported) == [result |-> result, reported |-> reported]
NoCall == End("none", "none")

Init ==
    /\ rdOff = 0 /\ wrOff = 0
    /\ pos = [f \in Files |-> 0]
    /\ held = [f \in Files |-> NoBytes]
    /\ op = [f \in Files |-> Closed]
    /\ last = [f \in Files |-> NoCall]

Busy(f) == op[f].pc \notin {"idle", "closed"}

\* f is at rest in state pc, and may begin an operation.
Begins(f, pc) == op[f].pc = pc /\ (Serial => \A g \in Files : ~Busy(g))

Goto(f, o) == op' = [op EXCEPT ![f] = o]

Enters(f, o)    == Goto(f, o) /\ last' = [last EXCEPT ![f] = NoCall]
Returns(f, end) == Goto(f, Idle) /\ last' = [last EXCEPT ![f] = end]

\* A read or a seek on f ends with an error before it has changed anything.
Fails(f) == Faults /\ Returns(f, End("failed", "none")) /\ UNCHANGED <<rdOff, wrOff, pos, held>>

\* A ddk_write on f ends with an error.
WriteFails(f, reported) ==
    /\ Returns(f, End("notWritten", reported))
    /\ UNCHANGED <<rdOff, wrOff, pos, held>>

-----------------------------------------------------------------------------
(* ddk_open, after the locked section: both offsets of the board go to 0.    *)
(* ddk_close frees the file.  One that is closed has the values a new one    *)
(* gets: f_pos 0, in_buf_left_over 0.                                        *)

OpenRd(f) ==
    /\ Begins(f, "closed")
    /\ rdOff' = 0
    /\ Goto(f, Op("openWr", 0, 0, NoBytes))
    /\ UNCHANGED <<wrOff, pos, held, last>>

OpenWr(f) ==
    /\ op[f].pc = "openWr"
    /\ \/ /\ wrOff' = 0
          /\ Goto(f, Idle)
          /\ UNCHANGED <<rdOff, pos, held, last>>
       \/ /\ Faults
          /\ Goto(f, Closed)
          /\ UNCHANGED <<rdOff, wrOff, pos, held, last>>

Close(f) ==
    /\ Begins(f, "idle")
    /\ Goto(f, Closed)
    /\ pos' = [pos EXCEPT ![f] = 0]
    /\ held' = [held EXCEPT ![f] = NoBytes]
    /\ last' = [last EXCEPT ![f] = NoCall]
    /\ UNCHANGED <<rdOff, wrOff>>

-----------------------------------------------------------------------------
(* ddk_write: set_off, the OUT transfers, set_off of the other offset.       *)

\* Slip: the success is not reported.
WrittenSilently(f, done) ==
    /\ pos' = [pos EXCEPT ![f] = @ + done]
    /\ last' = [last EXCEPT ![f] = NoCall]
    /\ Goto(f, Op("wrSync", 0, done, NoBytes))

\* The loop is over: *off += wrote_cnt; ddk_ext_on_write_success().
Written(f, done) ==
    /\ pos' = [pos EXCEPT ![f] = @ + done]
    /\ last' = [last EXCEPT ![f] = End("none", "success")]
    /\ Goto(f, Op("wrSync", 0, done, NoBytes))

\* Slip: the offset is taken as the last operation has left it.
WriteBeginsUnset(f, n) ==
    /\ Begins(f, "idle")
    /\ IF n = 0
       THEN Written(f, 0)
       ELSE Enters(f, Op("wrMsg", n, 0, NoBytes)) /\ UNCHANGED pos
    /\ UNCHANGED <<rdOff, wrOff, held>>

WriteBegins(f, n) ==
    /\ Begins(f, "idle")
    /\ \/ /\ wrOff' = pos[f]
          /\ IF n = 0
             THEN Written(f, 0)
             ELSE Enters(f, Op("wrMsg", n, 0, NoBytes)) /\ UNCHANGED pos
          /\ UNCHANGED <<rdOff, held>>
       \/ Faults /\ WriteFails(f, "none")

\* One round of the loop; the board refuses what does not fit into its memory.
WriteChunk(f) ==
    LET size == Min(OutBuf, op[f].n - op[f].done)
        done == op[f].done + size
    IN  /\ op[f].pc = "wrMsg"
        /\ \/ /\ wrOff + size <= Size
              /\ wrOff' = wrOff + size
              /\ IF done < op[f].n
                 THEN Goto(f, [op[f] EXCEPT !.done = done]) /\ UNCHANGED <<pos, last>>
                 ELSE Written(f, done)
              /\ UNCHANGED <<rdOff, held>>
           \/ (Faults \/ wrOff + size > Size) /\ WriteFails(f, "fail")
           \/ Faults /\ WriteFails(f, "none")          \* copy_from_user

\* Slip: no set_off() of the read offset after a write.
WriteNoSync(f) ==
    /\ op[f].pc = "wrSync"
    /\ Returns(f, End("written", last[f].reported))
    /\ UNCHANGED <<rdOff, wrOff, pos, held>>

WriteSync(f) ==
    /\ op[f].pc = "wrSync"
    /\ \/ /\ rdOff' = pos[f]
          /\ Returns(f, End("written", last[f].reported))
          /\ UNCHANGED <<wrOff, pos, held>>
       \/ Faults /\ WriteFails(f, last[f].reported)

-----------------------------------------------------------------------------
(* ddk_read: left-over bytes first, else set_off, the IN transfer, set_off.  *)

\* Slip: in_buf_left_over is not reduced by what was sent.
DeliverKeepsCount(f, bytes, n) ==
    /\ pos' = [pos EXCEPT ![f] = @ + Min(n, bytes.len)]
    /\ held' = [held EXCEPT ![f] = bytes]
    /\ Returns(f, End("done", "none"))

\* copy_to_user() of the first n of the bytes; the rest is left over, all of
\* them when the copy fails.
Deliver(f, bytes, n) ==
    LET sent == Min(n, bytes.len)
    IN  \/ /\ pos' = [pos EXCEPT ![f] = @ + sent]
           /\ held' = [held EXCEPT ![f] =
                           IF sent = bytes.len THEN NoBytes
                           ELSE [at |-> bytes.at + sent, len |-> bytes.len - sent]]
           /\ Returns(f, End("done", "none"))
        \/ /\ Faults
           /\ held' = [held EXCEPT ![f] = bytes]
           /\ Returns(f, End("failed", "none"))
           /\ UNCHANGED pos

ReadLeftOver(f, n) ==
    /\ Begins(f, "idle")
    /\ held[f].len > 0
    /\ Deliver(f, held[f], n)
    /\ UNCHANGED <<rdOff, wrOff>>

ReadBegins(f, n) ==
    /\ Begins(f, "idle")
    /\ held[f].len = 0
    /\ \/ /\ rdOff' = pos[f]
          /\ Enters(f, Op("rdMsg", n, 0, NoBytes))
          /\ UNCHANGED <<wrOff, pos, held>>
       \/ Fails(f)

ReadTransfer(f) ==
    LET size == IF rdOff < Size THEN Min(InBuf, Size - rdOff) ELSE 0
    IN  /\ op[f].pc = "rdMsg"
        /\ \/ /\ rdOff' = rdOff + size
              /\ Goto(f, Op("rdSync", op[f].n, 0, [at |-> rdOff, len |-> size]))
              /\ UNCHANGED <<wrOff, pos, held, last>>
           \/ Fails(f)

ReadSync(f) ==
    /\ op[f].pc = "rdSync"
    /\ \/ /\ wrOff' = pos[f] + op[f].got.len
          /\ Deliver(f, op[f].got, op[f].n)
          /\ UNCHANGED rdOff
       \/ Fails(f)

-----------------------------------------------------------------------------
(* ddk_llseek and the set commands of ddk_ioctl; the get commands change     *)
(* nothing.  SEEK_CUR starts from the board's read offset.                   *)

SeekBegins(f, offset, base) ==
    LET to == offset + base
    IN  /\ Begins(f, "idle")
        /\ Enters(f, Op("skRd", IF to < 0 THEN 0 ELSE Min(to, Size), 0, NoBytes))
        /\ UNCHANGED <<rdOff, wrOff, pos, held>>

Seek(f) == \E offset \in SeekOffsets : \/ SeekBegins(f, offset, 0)
                                       \/ SeekBegins(f, offset, rdOff)
                                       \/ SeekBegins(f, offset, Size)

SeekRd(f) ==
    /\ op[f].pc = "skRd"
    /\ \/ /\ rdOff' = op[f].n
          /\ Goto(f, [op[f] EXCEPT !.pc = "skWr"])
          /\ UNCHANGED <<wrOff, pos, held, last>>
       \/ Fails(f)

SeekWr(f) ==
    /\ op[f].pc = "skWr"
    /\ \/ /\ wrOff' = op[f].n
          /\ pos' = [pos EXCEPT ![f] = op[f].n]
          /\ Returns(f, End("done", "none"))
          /\ UNCHANGED <<rdOff, held>>
       \/ Fails(f)

IoctlSet(f, v) ==
    /\ Begins(f, "idle")
    /\ \/ rdOff' = v /\ UNCHANGED wrOff
       \/ wrOff' = v /\ UNCHANGED rdOff
    /\ UNCHANGED <<pos, held, op, last>>

-----------------------------------------------------------------------------
Step(f) ==
    \/ OpenRd(f) \/ OpenWr(f) \/ Close(f)
    \/ \E n \in WriteCounts : WriteBegins(f, n)
    \/ WriteChunk(f) \/ WriteSync(f)
    \/ \E n \in ReadCounts : ReadLeftOver(f, n) \/ ReadBegins(f, n)
    \/ ReadTransfer(f) \/ ReadSync(f)
    \/ Seek(f) \/ SeekRd(f) \/ SeekWr(f)
    \/ \E v \in IoctlOffsets : IoctlSet(f, v)

Next == \E f \in Files : Step(f)

Spec == Init /\ [][Next]_vars

-----------------------------------------------------------------------------
\* Left-over bytes read after a seek to the end carry f_pos past it.
Offsets == 0 .. Size + InBuf
Bytes   == [at : Offsets, len : 0 .. InBuf]

(* Callers serialized, offsets and positions stay within InBuf of the memory; *)
(* left-over bytes always fit into in_buf.                                    *)
TypeOK ==
    /\ rdOff \in Offsets /\ wrOff \in Offsets
    /\ pos \in [Files -> Offsets]
    /\ held \in [Files -> Bytes]
    /\ op \in [Files -> [pc : {"closed", "idle", "openWr", "wrMsg", "wrSync", "rdMsg",
                               "rdSync", "skRd", "skWr"},
                         n : Nat, done : Nat, got : Bytes]]
    /\ last \in [Files -> [result : {"none", "written", "notWritten", "done", "failed"},
                           reported : {"none", "success", "fail"}]]

(* When a transfer is due, the board's offset is where the driver thinks it   *)
(* is, whatever other files, ioctls and failed operations did to it before:   *)
(* the set_off() at :159 and :218 re-establishes it for this file.            *)
TransferAtPosition ==
    \A f \in Files :
        /\ op[f].pc = "wrMsg" => wrOff = pos[f] + op[f].done
        /\ op[f].pc = "rdMsg" => rdOff = pos[f]
        /\ op[f].pc = "rdSync" => op[f].got.at = pos[f]

(* A call that ends well, a short read excepted, leaves both offsets of the   *)
(* board at f_pos ("Syncing the read & write offsets on the device", :192 and *)
(* :232): the next transfer of this file would need no set_off() at all.      *)
OffsetsSynced ==
    [][\A f \in Files :
          Busy(f) /\ last'[f].result \in {"written", "done"} /\ held'[f].len = 0
              /\ op'[f].pc = "idle"
          => rdOff' = pos'[f] /\ wrOff' = pos'[f]]_vars

(* Reads deliver the bytes of a packet in order, none twice and none lost,    *)
(* through any pattern of short reads and failing copies (:246-262): left-    *)
(* over bytes keep their distance to f_pos, zero when they were transferred.  *)
LeftOverInOrder ==
    [][\A f \in Files :
          held'[f] # held[f] /\ held'[f].len > 0 =>
              held'[f].at - pos'[f] = IF held[f].len = 0 THEN 0 ELSE held[f].at - pos[f]]_vars

(* A write that returns a count has been reported to ddk_ext as a success and *)
(* none that was reported as a failure returns one (:178, :185).              *)
SuccessReported ==
    \A f \in Files :
        /\ last[f].result = "written" => last[f].reported = "success"
        /\ last[f].reported = "fail" => last[f].result = "notWritten"

-----------------------------------------------------------------------------
(* What the comments say of the code.                                        *)

(* The bytes a read delivers are those at the file's position: left-over      *)
(* bytes do not survive a write or a seek that moves it (:192, :232).         *)
LeftOverAtPosition ==
    \A f \in Files : held[f].len > 0 => held[f].at = pos[f]
=============================================================================
