----------------------------- MODULE UsbStorage -----------------------------
(***************************************************************************)
(* USB mass storage over the bulk-only transport (common/usb_storage.c).   *)
(* A call of usb_stor_read, usb_stor_write or usb_stor_get_info issues     *)
(* SCSI commands; each one is a command wrapper (CBW) out, data, and a     *)
(* status wrapper (CSW) in, with stalls, time-outs and reset recovery.     *)
(* One action is one USB message: what the host does with its outcome, and *)
(* what the device, which is external and modelled from the protocol the   *)
(* code speaks, makes of it.  Each side keeps a data toggle per endpoint:  *)
(* a packet with the wrong toggle is acknowledged and dropped.             *)
(*                                                                         *)
(* Blocks are numbered from the first block of the call.  `moved' is the   *)
(* set of blocks that are where they belong: in the buffer for a read, on  *)
(* the medium for a write.                                                 *)
(***************************************************************************)
EXTENDS Integers

CONSTANTS
  USB_MAX_XFER_BLK,   \* most blocks of one READ or WRITE command
  Counts,             \* numbers of blocks the callers ask for
  PacketsPerBlock,    \* a block is this many USB packets
  TagMod,             \* CBWTag counts modulo this (2^32)
  INQUIRY_TRIES,      \* 5, of usb_inquiry
  READY_TRIES,        \* 11, of usb_test_unit_ready
  CAPACITY_TRIES,     \* 4, of usb_read_capacity
  RW_TRIES,           \* 3, of usb_stor_read and usb_stor_write
  MaxCalls,           \* bound: calls
  MaxFaults           \* bound: faults of the bus or the device

ASSUME SizeAssumption == USB_MAX_XFER_BLK \in Nat \ {0} /\ Counts \subseteq Nat \ {0}
ASSUME PacketAssumption == PacketsPerBlock \in Nat \ {0} /\ TagMod \in Nat \ {0, 1}
ASSUME TriesAssumption ==
  {INQUIRY_TRIES, READY_TRIES, CAPACITY_TRIES, RW_TRIES} \subseteq Nat \ {0}

VARIABLES
  \* the caller: usb_stor_read, usb_stor_write, usb_stor_get_info
  cmd, sensing, retry, start, blks, blkcnt, ret, sense,
  \* the transport: usb_stor_BBB_transport and usb_stor_BBB_reset
  pc, CBWTag, again, hostTog,
  \* the device
  dphase, dtag, dstat, devTog, halted, stale, sameNumber, medium,
  \* history: what the properties compare with
  moved, calls, faults, callFaults, cut, hides, senseFresh

caller  == <<cmd, sensing, retry, start, blks, blkcnt, ret, sense>>
host    == <<pc, CBWTag, again, hostTog>>
device  == <<dphase, dtag, dstat, devTog, halted, stale, sameNumber, medium>>
history == <<moved, calls, faults, callFaults, cut, hides, senseFresh>>
vars    == <<caller, host, device, history>>

Ends     == {"in", "out"}
Tags     == 0 .. TagMod - 1
InOps    == {"read", "sense", "inquiry", "capacity"}
BlockOps == {"read", "write"}

\* The command in progress, its direction and length, the latter in blocks
\* or, for the short answers of the other commands, in packets.
Op        == IF sensing = 1 THEN "sense" ELSE cmd
smallblks == IF blks > USB_MAX_XFER_BLK THEN USB_MAX_XFER_BLK ELSE blks
Direction(op) == IF op \in InOps THEN "in" ELSE "out"
Length(op) ==
  IF op \in BlockOps THEN smallblks ELSE IF op = "ready" THEN 0 ELSE 1
Chunk == start .. start + smallblks - 1

Packets(op) == IF op \in BlockOps THEN PacketsPerBlock ELSE 1

\* The toggle of endpoint e after n more units of command op, and k packets.
FlipBy(tog, e, op, n, k) == [tog EXCEPT ![e] = (@ + (n * Packets(op) + k)) % 2]
Flip(tog, e, op, n) == FlipBy(tog, e, op, n, 0)
FlipOne(tog, e) == [tog EXCEPT ![e] = 1 - @]

Init ==
  /\ cmd = "inquiry" /\ sensing = 0 /\ retry = 0 /\ start = 0 /\ blks = 0
  /\ blkcnt = 0 /\ ret = 0 /\ sense = "other"
  /\ pc = "idle" /\ CBWTag = 0 /\ again = 0 /\ hostTog = [e \in Ends |-> 0]
  /\ dphase = "idle" /\ dtag = 0 /\ dstat = "passed" /\ devTog = [e \in Ends |-> 0]
  /\ halted = {} /\ stale = 0 /\ sameNumber \in {0, 1}
  /\ medium = "ready"
  /\ moved = {} /\ calls = 0 /\ faults = 0 /\ callFaults = 0 /\ cut = 0
  /\ hides = -1 /\ senseFresh = 0

-----------------------------------------------------------------------------
(* Faults are counted; everything else costs nothing.                      *)

Fault == /\ faults < MaxFaults
         /\ faults' = faults + 1
         /\ callFaults' = callFaults + 1
NoFault == UNCHANGED <<faults, callFaults>>

Same(e) == hostTog[e] = devTog[e]

\* The device has no command; the tag and status of the last one are forgotten.
Forget == dphase' = "idle" /\ dtag' = 0 /\ dstat' = "passed"

\* The medium is changed between calls; a drive becomes ready then, or while
\* usb_test_unit_ready waits for it.
MediumChanges ==
  /\ \/ pc = "idle" /\ medium = "ready" /\ medium' = "absent"
     \/ pc = "idle" /\ medium = "absent" /\ medium' = "becoming"
     \/ pc \in {"idle", "failed"} /\ medium = "becoming" /\ medium' = "ready"
  /\ UNCHANGED <<caller, host, dphase, dtag, dstat, devTog, halted, stale, sameNumber, history>>

-----------------------------------------------------------------------------
(* COMMAND phase: usb_stor_BBB_comdat sends the CBW; any error is followed *)
(* by reset recovery.                                                      *)

\* The device takes the command.  One that moves no data has its status now.
Accept ==
  /\ dphase' = IF Length(Op) = 0 THEN "csw" ELSE Direction(Op)
  /\ dtag' = CBWTag
  /\ dstat' = IF Op \in {"inquiry", "sense"} \/ medium = "ready" THEN "passed" ELSE "failed"
  /\ devTog' = FlipOne(devTog, "out")

\* Mutant of NextTag: no wrap-around.
NextTagNoWrap == CBWTag + 1

NextTag == (CBWTag + 1) % TagMod

CbwSent ==
  /\ hostTog' = FlipOne(hostTog, "out")
  /\ pc' = IF Length(Op) = 0 THEN "csw" ELSE "data"

usb_stor_BBB_comdat ==
  /\ pc = "cbw"
  /\ CBWTag' = NextTag
  /\ again' = 0
  /\ \/ /\ dphase = "idle" /\ "out" \notin halted /\ Same("out")
        /\ Accept /\ CbwSent /\ NoFault
     \/ \* wrong toggle: acknowledged and dropped
        /\ dphase = "idle" /\ "out" \notin halted /\ ~Same("out")
        /\ CbwSent /\ NoFault /\ UNCHANGED <<dphase, dtag, dstat, devTog>>
     \/ \* stalled, or not acknowledged until the time-out
        /\ dphase # "idle" \/ "out" \in halted
        /\ pc' = "reset" /\ NoFault /\ UNCHANGED <<dphase, dtag, dstat, devTog, hostTog>>
     \/ \* an error on the bus, before or after the device has the command
        /\ Fault /\ pc' = "reset" /\ UNCHANGED hostTog
        /\ \/ dphase = "idle" /\ "out" \notin halted /\ Same("out") /\ Accept
           \/ UNCHANGED <<dphase, dtag, dstat, devTog>>
  /\ UNCHANGED <<caller, halted, stale, sameNumber, medium,
                 moved, calls, cut, hides, senseFresh>>

-----------------------------------------------------------------------------
(* DATA phase, device to host.  The device sends n of the units asked for, *)
(* all of them, or fewer and then a short packet or a stall.  If the first *)
(* packet has the wrong toggle it is lost and the rest is shifted.         *)
(*                                                                         *)
(* ehci_submit_async reports a transaction error, three failures in a row  *)
(* of one packet, as USB_ST_STALLED too: the transport takes it for a      *)
(* stall although no endpoint is halted.  After a time-out, babble or      *)
(* buffer error it resets.                                                 *)

Unable == dstat = "failed"

\* The status the device will give; `cut' notes a command that moved less
\* than it was asked to and passes all the same.
Status(st, all) ==
  /\ dphase' = "csw" /\ dstat' = st /\ dtag' = dtag
  /\ cut' = IF st = "passed" /\ ~all /\ Op \in BlockOps THEN 1 ELSE cut

\* Mutant of SenseOf: the additional sense code is not looked at.
SenseKeyOnly(m) == IF m = "ready" THEN "other" ELSE "absent"

\* Of the sense data, usb_test_unit_ready tells apart "medium not present".
SenseOf(m) == IF m = "absent" THEN "absent" ELSE "other"

\* What n units from the device do to the buffer of the command.
Arrive(n) ==
  /\ moved' = IF Op # "read" THEN moved
              ELSE IF Same("in") THEN moved \cup (start .. start + n - 1)
              ELSE moved \ Chunk
  /\ LET whole == Op = "sense" /\ Same("in") /\ n = Length(Op)
     IN  /\ senseFresh' = IF whole THEN 1 ELSE senseFresh
         /\ sense' = IF whole THEN SenseOf(medium) ELSE sense

\* The device has sent n units and, if last = 1, one more packet that ends the
\* transfer.  The host saves its toggle only when a transfer ends well.
Sent(n, last) ==
  LET dev == Flip(devTog, "in", Op, n)
  IN  devTog' = IF last = 1 THEN FlipOne(dev, "in") ELSE dev

DataInAll ==
  /\ Same("in")
  /\ \/ NoFault /\ ~Unable /\ Status("passed", TRUE)
     \/ Fault /\ \E st \in {"failed", "phase"} : Status(st, TRUE)
  /\ Arrive(Length(Op)) /\ Sent(Length(Op), 0)
  /\ hostTog' = [hostTog EXCEPT !["in"] = devTog'["in"]]
  /\ pc' = "csw" /\ UNCHANGED halted

\* The first packet is lost, so that the host takes the CSW, which follows the
\* last one, for the end of the data.
DataInShifted ==
  /\ ~Same("in") /\ ~Unable /\ NoFault
  /\ Arrive(Length(Op)) /\ Sent(Length(Op), 1) /\ Forget
  /\ hostTog' = [hostTog EXCEPT !["in"] = devTog'["in"]]
  /\ pc' = "csw" /\ UNCHANGED <<halted, cut>>

DataInShort(n) ==
  /\ Same("in") \/ n > 0
  /\ \/ NoFault /\ Unable /\ n = 0 /\ Status("failed", FALSE)
     \/ Fault /\ \E st \in {"passed", "failed"} : Status(st, FALSE)
  /\ Arrive(n) /\ Sent(n, 1)
  /\ hostTog' = [hostTog EXCEPT !["in"] = devTog'["in"]]
  /\ pc' = "csw" /\ UNCHANGED halted

DataInStall(n) ==
  /\ \/ NoFault /\ Unable /\ n = 0 /\ Status("failed", FALSE)
     \/ Fault /\ \E st \in {"passed", "failed"} : Status(st, FALSE)
  /\ Arrive(n) /\ Sent(n, 0)
  /\ halted' = halted \cup {"in"}
  /\ pc' = "stallData" /\ UNCHANGED hostTog

\* An error on the bus after n units and k packets: the device keeps the next
\* packet, which may be the last one, or the CSW if the first one was dropped.
DataInError(n, k) ==
  /\ Fault
  /\ n = Length(Op) => k = 0 /\ ~Same("in")
  /\ Unable => n = 0 /\ k = 0
  /\ Arrive(n) /\ devTog' = FlipBy(devTog, "in", Op, n, k)
  /\ dphase' = IF n = Length(Op) THEN "csw"
               ELSE IF n = Length(Op) - 1 /\ k = Packets(Op) - 1 /\ ~Unable THEN "last" ELSE "in"
  /\ pc' \in {"stallData", "reset"}
  /\ cut' = IF n = Length(Op) /\ Op \in BlockOps THEN 1 ELSE cut
  /\ UNCHANGED <<halted, hostTog, dtag, dstat>>

\* An answer to an earlier command, left over in the device, comes first.
DataInStale ==
  /\ stale' = 0
  /\ devTog' = FlipOne(devTog, "in")
  /\ IF Same("in")
     THEN /\ hostTog' = FlipOne(hostTog, "in") /\ pc' = "csw"
          /\ moved' = IF Op = "read" THEN moved \ Chunk ELSE moved
          /\ sense' = IF Op = "sense" THEN "other" ELSE sense
     ELSE UNCHANGED <<hostTog, pc, moved, sense>>
  /\ NoFault /\ UNCHANGED <<dphase, dtag, dstat, halted, cut, senseFresh>>

DataIn ==
  /\ pc = "data" /\ Direction(Op) = "in"
  /\ \/ /\ "in" \in halted /\ pc' = "stallData" /\ NoFault
        /\ UNCHANGED <<dphase, dtag, dstat, devTog, halted, stale, hostTog, moved, cut, sense, senseFresh>>
     \/ "in" \notin halted /\ stale = 1 /\ DataInStale
     \/ /\ "in" \notin halted /\ stale = 0 /\ dphase = "in" /\ UNCHANGED stale
        /\ \/ DataInAll \/ DataInShifted
           \/ \E n \in 0 .. Length(Op) - 1 : DataInShort(n) \/ DataInStall(n)
           \/ \E n \in 0 .. Length(Op), k \in 0 .. Packets(Op) - 1 : DataInError(n, k)
     \/ \* the device never got the command: time-out
        /\ "in" \notin halted /\ stale = 0 /\ dphase = "idle" /\ pc' = "reset" /\ NoFault
        /\ UNCHANGED <<dphase, dtag, dstat, devTog, halted, stale, hostTog, moved, cut, sense, senseFresh>>
  /\ UNCHANGED <<cmd, sensing, retry, start, blks, blkcnt, ret, CBWTag, again,
                 sameNumber, medium, calls, hides>>

-----------------------------------------------------------------------------
(* DATA phase, host to device.                                             *)

Taken(n) ==
  /\ moved' = moved \cup (start .. start + n - 1)
  /\ devTog' = Flip(devTog, "out", Op, n)

\* All data is taken; n blocks of it are processed.
DataOutAll(n) ==
  /\ \/ NoFault /\ ~Unable /\ n = smallblks /\ Status("passed", TRUE)
     \/ NoFault /\ Unable /\ n = 0 /\ Status("failed", FALSE)
     \/ Fault /\ \E st \in {"passed", "failed", "phase"} : Status(st, n = smallblks)
  /\ moved' = moved \cup (start .. start + n - 1)
  /\ devTog' = Flip(devTog, "out", Op, smallblks)
  /\ hostTog' = Flip(hostTog, "out", Op, smallblks)
  /\ pc' = "csw" /\ UNCHANGED halted

DataOutStall(n) ==
  /\ \/ NoFault /\ Unable /\ n = 0 /\ Status("failed", FALSE)
     \/ Fault /\ \E st \in {"passed", "failed"} : Status(st, FALSE)
  /\ Taken(n)
  /\ halted' = halted \cup {"out"}
  /\ pc' = "stallData" /\ UNCHANGED hostTog

\* An error on the bus: the host does not know how much the device has taken,
\* which may be all if only an acknowledgement was lost.
DataOutError(n, k) ==
  /\ Fault
  /\ n = smallblks => k = 0
  /\ moved' = IF Unable THEN moved ELSE moved \cup (start .. start + n - 1)
  /\ devTog' = FlipBy(devTog, "out", Op, n, k)
  /\ dphase' = IF n = smallblks THEN "csw" ELSE "out"
  /\ pc' \in {"stallData", "reset"}
  /\ UNCHANGED <<halted, hostTog, dtag, dstat, cut>>

\* The device has dropped the CBW and takes the first packet of data for one:
\* both endpoints are halted until a reset.
DataOutNoCommand ==
  /\ dphase' = "dead" /\ halted' = Ends
  /\ devTog' = FlipOne(devTog, "out")
  /\ IF smallblks * PacketsPerBlock = 1
     THEN pc' = "csw" /\ hostTog' = FlipOne(hostTog, "out")
     ELSE pc' = "stallData" /\ UNCHANGED hostTog
  /\ NoFault /\ UNCHANGED <<dtag, dstat, cut, moved>>

DataOut ==
  /\ pc = "data" /\ Direction(Op) = "out"
  /\ \/ /\ dphase = "out"
        /\ \/ \E n \in 0 .. smallblks : DataOutAll(n)
           \/ \E n \in 0 .. smallblks, k \in 0 .. PacketsPerBlock - 1 : DataOutError(n, k)
           \/ \E n \in 0 .. smallblks - 1 : DataOutStall(n)
     \/ dphase = "idle" /\ DataOutNoCommand
  /\ UNCHANGED <<caller, CBWTag, again, stale, sameNumber, medium,
                 calls, hides, senseFresh>>

-----------------------------------------------------------------------------
(* A stalled endpoint.  usb_stor_BBB_clear_endpt_stall names it by its     *)
(* number alone, and the number without the direction bit is that of an    *)
(* OUT endpoint: for the IN endpoint the device clears the OUT endpoint of *)
(* the same number, or refuses if it has none.                             *)

Cleared(e) ==
  /\ halted' = IF dphase = "dead" THEN halted ELSE halted \ {e}
  /\ devTog' = [devTog EXCEPT ![e] = 0]

usb_stor_BBB_clear_endpt_stall ==
  /\ pc \in {"stallData", "stallCsw"}
  /\ LET end == IF pc = "stallData" THEN Direction(Op) ELSE "in"
     IN  \/ /\ end = "out" \/ sameNumber = 1
            /\ Cleared("out") /\ NoFault
            /\ pc' = "csw"
            /\ again' = IF pc = "stallCsw" THEN 1 ELSE 0
         \/ /\ end = "in" /\ sameNumber = 0
            /\ pc' = "reset" /\ NoFault /\ UNCHANGED <<halted, devTog, again>>
         \/ /\ Fault /\ pc' = "reset" /\ UNCHANGED again
            /\ \/ (end = "out" \/ sameNumber = 1) /\ Cleared("out")
               \/ UNCHANGED <<halted, devTog>>
  /\ UNCHANGED <<caller, CBWTag, hostTog, dphase, dtag, dstat, stale, sameNumber, medium,
                 moved, calls, cut, hides, senseFresh>>

-----------------------------------------------------------------------------
(* STATUS phase.                                                           *)

\* Mutant of CheckCsw: the tag is not compared.
CheckCswAnyTag(valid, tag, st) ==
  IF valid = 0 \/ st = "phase" THEN "reset" ELSE IF st = "failed" THEN "failed" ELSE "good"

\* What the transport makes of a CSW with this tag and status.
CheckCsw(valid, tag, st) ==
  IF valid = 0 \/ tag # (CBWTag - 1) % TagMod \/ st = "phase" THEN "reset"
  ELSE IF st = "failed" THEN "failed" ELSE "good"

\* A stall in the STATUS phase is cleared once.
CswStalled == pc' = IF again = 0 THEN "stallCsw" ELSE "reset"

\* The device still has data of the command.  A packet with the right toggle is
\* too long for a CSW, or has no signature; one with the wrong toggle is
\* dropped, and after the last one the CSW follows.
CswData ==
  \/ /\ dphase = "in" /\ Unable /\ CswStalled
     /\ dphase' = "csw" /\ halted' = halted \cup {"in"} /\ UNCHANGED <<devTog, cut>>
  \/ /\ dphase = "in" /\ ~Unable /\ pc' = "reset"
     /\ devTog' = IF Same("in") THEN devTog ELSE FlipOne(devTog, "in")
     /\ UNCHANGED <<dphase, halted, cut>>
  \/ /\ dphase = "last" /\ Same("in") /\ pc' = "reset"
     /\ UNCHANGED <<dphase, halted, devTog, cut>>
  \/ /\ dphase = "last" /\ ~Same("in") /\ dphase' = "csw"
     /\ devTog' = FlipOne(devTog, "in")
     /\ cut' = IF Op \in BlockOps THEN 1 ELSE cut
     /\ UNCHANGED <<pc, halted>>

\* A packet arrives, or is dropped for its toggle.
CswPacket(result) ==
  /\ devTog' = FlipOne(devTog, "in")
  /\ IF Same("in") THEN hostTog' = FlipOne(hostTog, "in") /\ pc' = result
                   ELSE hostTog' = hostTog /\ pc' = "reset"

Csw ==
  /\ pc = "csw"
  /\ \/ /\ "in" \in halted /\ CswStalled /\ NoFault
        /\ UNCHANGED <<dphase, dtag, dstat, devTog, halted, stale, hostTog, cut>>
     \/ \* left over from an earlier command: its tag is another one
        /\ "in" \notin halted /\ stale = 1 /\ stale' = 0 /\ NoFault
        /\ \/ Same("in") /\ \E t \in Tags \ {(CBWTag - 1) % TagMod}, st \in {"passed", "failed"} :
                CswPacket(CheckCsw(1, t, st))
           \/ ~Same("in") /\ devTog' = FlipOne(devTog, "in") /\ UNCHANGED <<pc, hostTog>>
        /\ UNCHANGED <<dphase, dtag, dstat, halted, cut>>
     \/ /\ "in" \notin halted /\ stale = 0 /\ dphase = "csw" /\ UNCHANGED <<stale, cut>>
        /\ \/ /\ CswPacket(CheckCsw(1, dtag, dstat)) /\ NoFault
              /\ Forget /\ UNCHANGED halted
           \/ /\ CswPacket(CheckCsw(0, dtag, dstat)) /\ Fault
              /\ Forget /\ UNCHANGED halted
           \/ \* a stall, or a transaction error that looks like one
              /\ Fault /\ CswStalled /\ halted' \in {halted, halted \cup {"in"}}
              /\ UNCHANGED <<dphase, dtag, dstat, devTog, hostTog>>
           \/ /\ Fault /\ pc' = "reset" /\ (Forget \/ UNCHANGED <<dphase, dtag, dstat>>)
              /\ UNCHANGED <<devTog, halted, hostTog>>
     \/ /\ "in" \notin halted /\ stale = 0 /\ CswData /\ NoFault
        /\ UNCHANGED <<dtag, dstat, stale, hostTog>>
     \/ \* nothing to send
        /\ "in" \notin halted /\ stale = 0 /\ dphase \in {"idle", "out", "dead"}
        /\ pc' = "reset" /\ NoFault
        /\ UNCHANGED <<dphase, dtag, dstat, devTog, halted, stale, hostTog, cut>>
  /\ UNCHANGED <<caller, CBWTag, again, sameNumber, medium,
                 moved, calls, hides, senseFresh>>

-----------------------------------------------------------------------------
(* Reset recovery: usb_stor_BBB_reset.                                     *)

\* The mass storage reset ends the command but not the halts.  A stalled reset
\* gives up; after any other error the endpoints are cleared all the same.
BBB_reset ==
  /\ pc = "reset"
  /\ \/ Forget /\ stale' = 0 /\ pc' = "clearIn" /\ NoFault
     \/ \* the device is reset but keeps the answer it had ready
        dphase = "csw" /\ Forget /\ stale' = 1 /\ pc' = "clearIn" /\ Fault
     \/ pc' \in {"clearIn", "failed"} /\ Fault /\ UNCHANGED <<dphase, dtag, dstat, stale>>
  /\ UNCHANGED <<caller, CBWTag, again, hostTog, devTog, halted, sameNumber, medium,
                 moved, calls, cut, hides, senseFresh>>

\* Mutant of ToggleReset: the host keeps its toggle.
ToggleKept(e) == hostTog

ToggleReset(e) == [hostTog EXCEPT ![e] = 0]

\* usb_clear_halt resets the host's toggle unless the message fails, which it
\* may do before or after the device has acted on it.
usb_clear_halt(e) ==
  /\ \/ Cleared(e) /\ hostTog' = ToggleReset(e) /\ NoFault
     \/ Cleared(e) /\ UNCHANGED hostTog /\ Fault
     \/ UNCHANGED <<halted, devTog, hostTog>> /\ Fault
  /\ UNCHANGED <<caller, CBWTag, again, dphase, dtag, dstat, stale, sameNumber, medium,
                 moved, calls, cut, hides, senseFresh>>

ClearIn  == pc = "clearIn" /\ usb_clear_halt("in") /\ pc' = "clearOut"
ClearOut == pc = "clearOut" /\ usb_clear_halt("out") /\ pc' = "failed"

-----------------------------------------------------------------------------
(* The callers of the transport.                                           *)

Issue(c, s, r) == cmd' = c /\ sensing' = s /\ retry' = r /\ pc' = "cbw"
Finish(r)      == ret' = r /\ pc' = "idle" /\ UNCHANGED <<cmd, sensing, retry>>

\* The device waits for a command, as the host believes.
InStep == dphase = "idle" /\ halted = {} /\ stale = 0 /\ devTog = hostTog

Call(c, count) ==
  /\ pc = "idle" /\ calls < MaxCalls
  /\ Issue(c, 0, IF c = "inquiry" THEN INQUIRY_TRIES ELSE RW_TRIES - 1)
  /\ start' = 0 /\ blks' = count /\ blkcnt' = count /\ ret' = 0
  /\ calls' = calls + 1 /\ moved' = {} /\ callFaults' = 0 /\ cut' = 0
  /\ senseFresh' = 0
  /\ hides' = IF medium # "ready" THEN -1 ELSE IF InStep THEN RW_TRIES - 1 ELSE RW_TRIES - 2
  /\ UNCHANGED <<sense, CBWTag, again, hostTog, device, faults>>

usb_stor_read  == \E n \in Counts : Call("read", n)
usb_stor_write == \E n \in Counts : Call("write", n)
usb_stor_get_info == Call("inquiry", 0)

\* usb_stor_read and usb_stor_write: a chunk is done, on to the next one.
ChunkDone ==
  /\ pc = "good" /\ sensing = 0 /\ cmd \in BlockOps
  /\ start' = start + smallblks
  /\ blks' = blks - smallblks
  /\ IF blks' = 0 THEN Finish(blkcnt) ELSE Issue(cmd, 0, RW_TRIES - 1) /\ UNCHANGED ret
  /\ UNCHANGED <<blkcnt, senseFresh>>

\* usb_request_sense after a failed READ, WRITE or TEST UNIT READY.
AskSense ==
  /\ pc = "failed" /\ sensing = 0 /\ cmd \in BlockOps \cup {"ready"}
  /\ Issue(cmd, 1, retry)
  /\ senseFresh' = 0
  /\ UNCHANGED <<start, blks, blkcnt, ret>>

\* Mutant of TransferAgain: the retry is not counted.
TransferForever ==
  /\ pc \in {"good", "failed"} /\ sensing = 1 /\ cmd \in BlockOps
  /\ IF retry > 0 THEN Issue(cmd, 0, retry) /\ UNCHANGED ret ELSE Finish(blkcnt - blks)
  /\ UNCHANGED <<start, blks, blkcnt, senseFresh>>

\* The sense data, or the lack of them, does not end the retries of a transfer.
TransferAgain ==
  /\ pc \in {"good", "failed"} /\ sensing = 1 /\ cmd \in BlockOps
  /\ IF retry > 0 THEN Issue(cmd, 0, retry - 1) /\ UNCHANGED ret
                  ELSE Finish(blkcnt - blks)
  /\ UNCHANGED <<start, blks, blkcnt, senseFresh>>

\* usb_test_unit_ready gives up at once when the sense says "no medium".
ReadyAgain ==
  /\ pc \in {"good", "failed"} /\ sensing = 1 /\ cmd = "ready"
  /\ IF sense # "absent" /\ retry > 0 THEN Issue(cmd, 0, retry - 1) /\ UNCHANGED ret
                                      ELSE Finish(0)
  /\ UNCHANGED <<start, blks, blkcnt, senseFresh>>

\* usb_inquiry, then usb_test_unit_ready, then usb_read_capacity, whose failure
\* is answered by a default.  A device of unknown type is skipped.  ret = 0:
\* no capacity is known (removable drives are kept in the list even so).
InfoGood ==
  /\ pc = "good" /\ sensing = 0
  /\ \/ cmd = "inquiry" /\ Finish(0)
     \/ cmd = "inquiry" /\ Issue("ready", 0, READY_TRIES - 1) /\ UNCHANGED ret
     \/ cmd = "ready" /\ Issue("capacity", 0, CAPACITY_TRIES - 1) /\ UNCHANGED ret
     \/ cmd = "capacity" /\ Finish(1)
  /\ UNCHANGED <<start, blks, blkcnt, senseFresh>>

\* usb_inquiry and usb_read_capacity try again.
InquiryFailed ==
  /\ cmd = "inquiry"
  /\ IF retry > 1 THEN Issue(cmd, 0, retry - 1) /\ UNCHANGED ret ELSE Finish(-1)
CapacityFailed ==
  /\ cmd = "capacity"
  /\ IF retry > 0 THEN Issue(cmd, 0, retry - 1) /\ UNCHANGED ret ELSE Finish(1)

InfoFailed ==
  /\ pc = "failed" /\ sensing = 0
  /\ InquiryFailed \/ CapacityFailed
  /\ UNCHANGED <<start, blks, blkcnt, senseFresh>>

Caller ==
  /\ ChunkDone \/ AskSense \/ TransferAgain \/ ReadyAgain \/ InfoGood \/ InfoFailed
  /\ UNCHANGED <<sense, CBWTag, again, hostTog, device,
                 moved, calls, faults, callFaults, cut, hides>>

Step ==
  \/ usb_stor_BBB_comdat \/ DataIn \/ DataOut \/ usb_stor_BBB_clear_endpt_stall
  \/ Csw \/ BBB_reset \/ ClearIn \/ ClearOut \/ Caller

Next == usb_stor_read \/ usb_stor_write \/ usb_stor_get_info \/ Step \/ MediumChanges

Spec == Init /\ [][Next]_vars

-----------------------------------------------------------------------------
CallerType ==
  /\ cmd \in {"read", "write", "inquiry", "ready", "capacity"} /\ sensing \in {0, 1}
  /\ retry \in Nat /\ start \in Nat /\ blks \in Nat /\ blkcnt \in Nat /\ ret \in Int
  /\ sense \in {"absent", "other"} /\ senseFresh \in {0, 1}
HostType ==
  /\ pc \in {"idle", "cbw", "data", "stallData", "csw", "stallCsw", "reset",
             "clearIn", "clearOut", "good", "failed"}
  /\ CBWTag \in Tags /\ again \in {0, 1}
TogType == hostTog \in [Ends -> {0, 1}] /\ devTog \in [Ends -> {0, 1}]
DeviceType ==
  /\ dphase \in {"idle", "in", "last", "out", "csw", "dead"} /\ dtag \in Tags
  /\ dstat \in {"passed", "failed", "phase"} /\ halted \subseteq Ends
  /\ stale \in {0, 1} /\ sameNumber \in {0, 1}
  /\ medium \in {"ready", "becoming", "absent"}
HistoryType ==
  /\ moved \subseteq Nat /\ calls \in Nat /\ faults \in Nat /\ callFaults \in Nat
  /\ cut \in {0, 1} /\ hides \in Int
TypeOK == CallerType /\ HostType /\ TogType /\ DeviceType /\ HistoryType

\* A read or write that returns k has moved the first k blocks, whatever went
\* wrong and however often commands were repeated, unless a command passed that
\* moved less: because the device said so, or because a transaction error in a
\* read was taken for a stall and the wait for the CSW dropped the last packet of
\* data.  Neither the residue in the CSW nor data_actlen is looked at.
CountIsTrue ==
  pc = "idle" /\ cmd \in BlockOps /\ cut = 0 => 0 .. ret - 1 \subseteq moved

\* The retries of a transfer hide RW_TRIES - 1 = 2 faults of any kind, if it
\* starts with host and device in step, and still one if earlier calls have
\* left toggles, halts or the device itself in disorder: the call returns the
\* full count (that the blocks are there is CountIsTrue).
FaultsHidden ==
  pc = "idle" /\ cmd \in BlockOps /\ callFaults <= hides => ret = blkcnt

\* usb_test_unit_ready gives up early only if there is no medium, or if the
\* REQUEST SENSE failed: its result is ignored and old sense data is looked at.
NoMediumIsTrue ==
  pc \in {"good", "failed"} /\ sensing = 1 /\ cmd = "ready" /\ sense = "absent"
    => medium = "absent" \/ senseFresh = 0

\* The commands a call may still issue, times 16, and the messages the present
\* command may still take.
CommandsLeft ==
  IF cmd \in BlockOps THEN 2 * (RW_TRIES * blks) + 2 * retry + (1 - sensing)
  ELSE IF cmd = "inquiry" THEN 2 * (CAPACITY_TRIES + READY_TRIES + retry)
  ELSE IF cmd = "ready" THEN 2 * (CAPACITY_TRIES + retry) + (1 - sensing)
  ELSE retry
MessagesLeft ==
  IF pc = "cbw" THEN 14
  ELSE IF pc = "data" THEN 12 + stale
  ELSE IF pc = "stallData" THEN 11
  ELSE IF pc = "csw" THEN (IF again = 0 THEN 8 ELSE 4) + stale + (IF dphase = "last" THEN 1 ELSE 0)
  ELSE IF pc = "stallCsw" THEN 7
  ELSE IF pc = "reset" THEN 3
  ELSE IF pc = "clearIn" THEN 2
  ELSE IF pc = "clearOut" THEN 1
  ELSE 0
Measure == 16 * CommandsLeft + MessagesLeft

\* Every call ends: whatever the device does, each step of the transport and
\* its callers brings the call nearer to its end.
Closer ==
  [][pc # "idle" /\ pc' # "idle" /\ medium' = medium => Measure' < Measure]_vars

\* The inductive invariant: the count of blocks and the set of moved blocks
\* agree between commands, and in the STATUS phase the only answer that can be
\* taken for success is that of the present command.
Accounting ==
  cmd \in BlockOps =>
    /\ start + blks = blkcnt
    /\ pc # "idle" => blks > 0
    /\ pc = "idle" => ret = start
    /\ cut = 0 => 0 .. start - 1 \subseteq moved
InCommand ==
  /\ pc = "data" => dphase \in {"idle", Direction(Op)}
  /\ cmd \in BlockOps /\ sensing = 0 /\ cut = 0 =>
       /\ pc \in {"stallData", "csw", "stallCsw"} /\ dphase = "csw" /\ dstat = "passed"
            => Chunk \subseteq moved
       /\ pc = "good" => Chunk \subseteq moved

\* Why faults stay hidden.  Unpaid counts the faults of the call that no retry
\* has paid for yet; a start out of step counts as one.  With none the transfer
\* goes by the book.  With one the recovery leaves the device fit to be asked
\* for its sense data, and that in turn leaves it in step.  The stall that is
\* cleared by number alone may have put the OUT toggles apart by then.
Unpaid == callFaults - hides + retry
Going(phase) ==
  /\ dphase = phase /\ dtag = (CBWTag - 1) % TagMod /\ dstat = "passed"
  /\ halted = {} /\ stale = 0 /\ devTog = hostTog
Silent == dphase = "idle" /\ halted = {} /\ stale = 0
SenseReady == Silent /\ Same("in")
ByTheBook ==
  /\ pc \in {"cbw", "data", "csw", "good"}
  /\ pc \in {"cbw", "good"} => InStep
  /\ pc = "data" => Going(Direction(Op))
  /\ pc = "csw" => Going("csw")
Recovering ==
  /\ pc = "clearIn" => dphase = "idle" /\ stale = 0
  /\ pc = "clearOut" => dphase = "idle" /\ stale = 0 /\ "in" \notin halted /\ Same("in")
  /\ pc = "failed" => IF sensing = 1 THEN InStep ELSE SenseReady
  /\ sensing = 1 => /\ pc \notin {"stallData", "stallCsw"}
                    /\ pc = "cbw" => SenseReady
                    /\ pc = "data" => Going("in") \/ Silent
                    /\ pc = "csw" => Going("csw")
                    /\ pc = "good" => InStep
Hiding ==
  cmd \in BlockOps /\ pc # "idle" /\ hides >= 0 =>
    /\ medium = "ready" /\ retry <= RW_TRIES - 1 /\ Unpaid >= sensing
    /\ Unpaid = 0 => ByTheBook
    /\ Unpaid = 1 => Recovering
    /\ pc \in {"data", "csw", "stallCsw"} => dphase = "dead" \/ "out" \notin halted
IInv == TypeOK /\ Accounting /\ InCommand /\ Hiding /\ FaultsHidden

\* The comment at both calls of usb_stor_BBB_clear_endpt_stall: "clear the STALL
\* on the endpoint".  When it reports success the endpoint is not halted.
StallCleared ==
  [][/\ pc = "stallCsw" /\ pc' = "csw" => "in" \notin halted'
     /\ pc = "stallData" /\ pc' = "csw" /\ dphase # "dead" => Direction(Op) \notin halted']_vars
=============================================================================
