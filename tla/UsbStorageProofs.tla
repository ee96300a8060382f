-------------------------- MODULE UsbStorageProofs --------------------------
(***************************************************************************)
(* Proofs about UsbStorage, for any sizes, numbers of tries, calls and     *)
(* faults: IInv is inductive, the count that a read or write returns is    *)
(* true, the retries hide as many faults as there are of them, and every   *)
(* step of a call brings it nearer to its end.                             *)
(***************************************************************************)
EXTENDS UsbStorage, TLAPS

\* The next tag is a tag.
LEMMA TagRange == TypeOK => NextTag \in Tags /\ 0 \in Tags
BY PacketAssumption DEF NextTag, Tags, TypeOK, HostType

\* A chunk is a positive part of what is left.
LEMMA ChunkSize ==
  TypeOK /\ blks > 0 => smallblks \in Nat /\ 0 < smallblks /\ smallblks <= blks
BY SizeAssumption DEF smallblks, TypeOK, CallerType

\* The chunk and the length of a command are numbers.
LEMMA SmallNat == TypeOK => smallblks \in Nat /\ Length(Op) \in Nat
BY Zenon, SizeAssumption DEF smallblks, TypeOK, CallerType, Length

\* Flipping keeps toggles toggles.
LEMMA FlipType ==
  ASSUME NEW t \in [Ends -> {0, 1}], NEW e \in Ends, NEW op, NEW n \in Nat, NEW k \in Nat
  PROVE  FlipBy(t, e, op, n, k) \in [Ends -> {0, 1}] /\ FlipOne(t, e) \in [Ends -> {0, 1}]
<1>0. Packets(op) \in Nat
  BY PacketAssumption DEF Packets
<1> DEFINE m == n * Packets(op) + k
<1>1. m \in Nat
  BY <1>0, SMT
<1>2. (t[e] + m) % 2 \in {0, 1}
  <2> HIDE DEF m
  <2> QED BY <1>1
<1>3. 1 - t[e] \in {0, 1}
  OBVIOUS
<1> HIDE DEF m
<1>4. FlipBy(t, e, op, n, k) = [t EXCEPT ![e] = (@ + m) % 2]
  BY Zenon DEF FlipBy, m
<1> QED BY <1>2, <1>3, <1>4 DEF FlipOne

\* The toggles stay toggles.
LEMMA ToggleStep == TypeOK /\ [Next]_vars => TogType'
<1> SUFFICES ASSUME TypeOK, [Next]_vars PROVE TogType'
  BY Zenon
<1> USE DEF TypeOK, TogType
<1>a. \A e \in Ends, n \in Nat, k \in Nat :
        /\ FlipBy(hostTog, e, Op, n, k) \in [Ends -> {0, 1}]
        /\ FlipBy(devTog, e, Op, n, k) \in [Ends -> {0, 1}]
  BY Zenon, FlipType
<1>9. 0 \in Nat
  OBVIOUS
<1>0. \A e \in Ends, n \in Nat :
        /\ Flip(hostTog, e, Op, n) \in [Ends -> {0, 1}]
        /\ Flip(devTog, e, Op, n) \in [Ends -> {0, 1}]
  BY Zenon, <1>a, <1>9 DEF Flip
<1>1. \A e \in Ends :
        /\ FlipOne(hostTog, e) \in [Ends -> {0, 1}]
        /\ FlipOne(devTog, e) \in [Ends -> {0, 1}]
  BY Zenon, <1>9, FlipType
<1>2. \A t \in [Ends -> {0, 1}], e \in Ends : [t EXCEPT ![e] = 0] \in [Ends -> {0, 1}]
  BY Zenon
<1>3. "in" \in Ends /\ "out" \in Ends
  BY Zenon DEF Ends
<1>4. smallblks \in Nat /\ Length(Op) \in Nat
  BY Zenon, SmallNat
<1>5. \A n \in Nat, l \in {0, 1} : Sent(n, l) => devTog' \in [Ends -> {0, 1}]
  <2> SUFFICES ASSUME NEW n \in Nat, NEW l \in {0, 1}, Sent(n, l) PROVE devTog' \in [Ends -> {0, 1}]
    BY Zenon
  <2>1. Flip(devTog, "in", Op, n) \in [Ends -> {0, 1}]
    BY Zenon, <1>0, <1>3
  <2>2. FlipOne(Flip(devTog, "in", Op, n), "in") \in [Ends -> {0, 1}]
    BY Zenon, <2>1, <1>3, <1>9, FlipType
  <2> QED BY <2>1, <2>2 DEF Sent
<1>6. \A t \in [Ends -> {0, 1}], d \in [Ends -> {0, 1}] : [t EXCEPT !["in"] = d["in"]] \in [Ends -> {0, 1}]
  BY Zenon, <1>3
<1> HIDE DEF TypeOK
<1>7. CASE UNCHANGED vars \/ MediumChanges \/ usb_stor_read \/ usb_stor_write \/ usb_stor_get_info
  BY Zenon, <1>7 DEF TypeOK, vars, MediumChanges, usb_stor_read, usb_stor_write, usb_stor_get_info, Call, host, device
<1>b. CASE usb_stor_BBB_comdat
  BY Zenon, <1>b, <1>1, <1>3 DEF TypeOK, usb_stor_BBB_comdat, Accept, CbwSent
<1>c. CASE DataIn
  <2> DEFINE T == [Ends -> {0, 1}]
  <2>0. hostTog \in T /\ devTog \in T
    BY Zenon DEF TypeOK
  <2>1. ASSUME devTog' \in T, hostTog' = [hostTog EXCEPT !["in"] = devTog'["in"]] PROVE TogType'
    BY Zenon, <2>0, <2>1, <1>6
  <2>2. CASE DataInAll
    BY Zenon, <2>1, <2>2, <1>4, <1>5 DEF DataInAll
  <2>3. CASE DataInShifted
    BY Zenon, <2>1, <2>3, <1>4, <1>5 DEF DataInShifted
  <2>4. ASSUME NEW n \in Nat, DataInShort(n) PROVE TogType'
    BY Zenon, <2>1, <2>4, <1>5 DEF DataInShort
  <2>5. ASSUME NEW n \in Nat, DataInStall(n) PROVE TogType'
    BY Zenon, <2>0, <2>5, <1>5 DEF DataInStall
  <2>9. ASSUME NEW n \in Nat, NEW k \in Nat, DataInError(n, k) PROVE TogType'
    BY Zenon, <2>0, <2>9, <1>a, <1>3 DEF DataInError
  <2>6. CASE DataInStale
    BY Zenon, <2>0, <2>6, <1>1, <1>3 DEF DataInStale
  <2>7. CASE UNCHANGED <<hostTog, devTog>>
    BY Zenon, <2>0, <2>7
  <2>8. /\ 0 .. Length(Op) - 1 \subseteq Nat /\ 0 .. Length(Op) \subseteq Nat
        /\ 0 .. Packets(Op) - 1 \subseteq Nat
    BY <1>4, PacketAssumption DEF Packets
  <2> QED BY <1>c, <2>2, <2>3, <2>4, <2>5, <2>6, <2>7, <2>8, <2>9, Zenon DEF DataIn
<1>d. CASE DataOut
  <2>1. ASSUME NEW n \in Nat, DataOutAll(n) \/ DataOutStall(n) PROVE TogType'
    <3>1. /\ Flip(devTog, "out", Op, n) \in [Ends -> {0, 1}]
          /\ Flip(devTog, "out", Op, smallblks) \in [Ends -> {0, 1}]
          /\ Flip(hostTog, "out", Op, smallblks) \in [Ends -> {0, 1}]
      BY Zenon, <1>0, <1>3, <1>4
    <3>2. hostTog \in [Ends -> {0, 1}]
      BY Zenon DEF TypeOK
    <3>3. CASE DataOutAll(n)
      BY Zenon, <3>1, <3>3 DEF DataOutAll
    <3>4. CASE DataOutStall(n)
      BY Zenon, <3>1, <3>2, <3>4 DEF DataOutStall, Taken
    <3> QED BY <2>1, <3>3, <3>4
  <2>2. CASE DataOutNoCommand
    BY Zenon, <2>2, <1>1, <1>3 DEF TypeOK, DataOutNoCommand
  <2>3. /\ 0 .. smallblks - 1 \subseteq Nat /\ 0 .. smallblks \subseteq Nat
        /\ 0 .. PacketsPerBlock - 1 \subseteq Nat
    BY <1>4, PacketAssumption
  <2>4. ASSUME NEW n \in Nat, NEW k \in Nat, DataOutError(n, k) PROVE TogType'
    BY Zenon, <2>4, <1>a, <1>3 DEF TypeOK, DataOutError
  <2> QED BY <1>d, <2>1, <2>2, <2>3, <2>4, Zenon DEF DataOut
<1>e. CASE usb_stor_BBB_clear_endpt_stall
  BY Zenon, <1>e, <1>2, <1>3 DEF TypeOK, usb_stor_BBB_clear_endpt_stall, Cleared
<1>f. CASE Csw
  BY Zenon, <1>f, <1>1, <1>3 DEF TypeOK, Csw, CswPacket, CswData
<1>g. CASE BBB_reset \/ Caller
  BY Zenon, <1>g DEF TypeOK, BBB_reset, Caller, device
<1>h. CASE ClearIn \/ ClearOut
  BY Zenon, <1>h, <1>2, <1>3 DEF TypeOK, ClearIn, ClearOut, usb_clear_halt, Cleared, ToggleReset
<1> QED BY <1>7, <1>b, <1>c, <1>d, <1>e, <1>f, <1>g, <1>h DEF Next, Step

\* The caller's variables keep their types.
LEMMA CallerStep == TypeOK /\ [Next]_vars => CallerType'
<1> SUFFICES ASSUME TypeOK, [Next]_vars PROVE CallerType'
  BY Zenon
<1>0. CallerType
  BY Zenon DEF TypeOK
<1>1. CASE UNCHANGED vars \/ MediumChanges
  BY Zenon, <1>0, <1>1 DEF vars, caller, history, MediumChanges, CallerType
<1>2. CASE usb_stor_read \/ usb_stor_write \/ usb_stor_get_info
  BY <1>0, <1>2, SizeAssumption, TriesAssumption
  DEF usb_stor_read, usb_stor_write, usb_stor_get_info, Call, Issue, CallerType
<1>3. CASE usb_stor_BBB_comdat \/ DataOut \/ usb_stor_BBB_clear_endpt_stall \/ Csw \/ BBB_reset
  BY Zenon, <1>0, <1>3 DEF usb_stor_BBB_comdat, DataOut, usb_stor_BBB_clear_endpt_stall, Csw, BBB_reset,
     caller, CallerType
<1>4. CASE ClearIn \/ ClearOut
  BY Zenon, <1>0, <1>4 DEF ClearIn, ClearOut, usb_clear_halt, caller, CallerType
<1>5. CASE DataIn
  <2>1. ASSUME NEW n, Arrive(n) PROVE sense' \in {"absent", "other"} /\ senseFresh' \in {0, 1}
    BY Zenon, <1>0, <2>1 DEF Arrive, SenseOf, CallerType
  <2>2. sense' \in {"absent", "other"} /\ senseFresh' \in {0, 1}
    BY Zenon, <1>0, <1>5, <2>1 DEF DataIn, DataInAll, DataInShifted, DataInShort, DataInStall, DataInError,
       DataInStale, CallerType
  <2> QED BY <1>0, <1>5, <2>2 DEF DataIn, CallerType
<1>6. CASE Caller
  <2>1. smallblks \in Nat /\ smallblks <= blks
    BY SizeAssumption, <1>0 DEF smallblks, CallerType
  <2>2. CASE ChunkDone
    BY <1>0, <1>6, <2>1, <2>2, TriesAssumption DEF Caller, ChunkDone, Finish, Issue, CallerType
  <2>3. CASE AskSense \/ TransferAgain \/ ReadyAgain
    BY <1>0, <1>6, <2>3 DEF Caller, AskSense, TransferAgain, ReadyAgain, Finish, Issue, CallerType
  <2>4. CASE InfoGood \/ InfoFailed
    BY <1>0, <1>6, <2>4, TriesAssumption DEF Caller, InfoGood, InfoFailed, InquiryFailed, CapacityFailed, Finish, Issue, CallerType
  <2> QED BY <1>6, <2>2, <2>3, <2>4 DEF Caller
<1> QED BY <1>1, <1>2, <1>3, <1>4, <1>5, <1>6 DEF Next, Step

\* The variables of the transport keep their types.
LEMMA HostStep == TypeOK /\ [Next]_vars => HostType'
<1> SUFFICES ASSUME TypeOK, [Next]_vars PROVE HostType'
  BY Zenon
<1>0. HostType
  BY Zenon DEF TypeOK
<1>1. CASE UNCHANGED vars \/ MediumChanges
  BY Zenon, <1>0, <1>1 DEF vars, host, MediumChanges, HostType
<1>2. CASE usb_stor_read \/ usb_stor_write \/ usb_stor_get_info
  BY Zenon, <1>0, <1>2 DEF usb_stor_read, usb_stor_write, usb_stor_get_info, Call, Issue, HostType
<1>3. CASE usb_stor_BBB_comdat
  BY Zenon, <1>0, <1>3, TagRange DEF usb_stor_BBB_comdat, CbwSent, HostType
<1>4. CASE DataIn
  BY Zenon, <1>0, <1>4 DEF DataIn, DataInAll, DataInShifted, DataInShort, DataInStall, DataInError,
     DataInStale, HostType
<1>5. CASE DataOut
  BY Zenon, <1>0, <1>5 DEF DataOut, DataOutAll, DataOutStall, DataOutError, DataOutNoCommand, HostType
<1>6. CASE usb_stor_BBB_clear_endpt_stall \/ BBB_reset
  BY Zenon, <1>0, <1>6 DEF usb_stor_BBB_clear_endpt_stall, BBB_reset, HostType
<1>7. CASE Csw
  BY Zenon, <1>0, <1>7 DEF Csw, CswStalled, CswPacket, CswData, CheckCsw, HostType
<1>8. CASE ClearIn \/ ClearOut
  BY Zenon, <1>0, <1>8 DEF ClearIn, ClearOut, usb_clear_halt, HostType
<1>9. CASE Caller
  BY Zenon, <1>0, <1>9 DEF Caller, ChunkDone, AskSense, TransferAgain, ReadyAgain, InfoGood, InfoFailed, InquiryFailed, CapacityFailed,
     Finish, Issue, HostType
<1> QED BY <1>1, <1>2, <1>3, <1>4, <1>5, <1>6, <1>7, <1>8, <1>9 DEF Next, Step

\* The device's variables keep their types.
LEMMA DeviceStep == TypeOK /\ [Next]_vars => DeviceType'
<1> SUFFICES ASSUME TypeOK, [Next]_vars PROVE DeviceType'
  BY Zenon
<1>0. DeviceType /\ 0 \in Tags /\ CBWTag \in Tags
  BY Zenon, TagRange DEF TypeOK, HostType
<1>1. CASE UNCHANGED vars \/ MediumChanges
  BY Zenon, <1>0, <1>1 DEF vars, device, MediumChanges, DeviceType
<1>2. CASE usb_stor_read \/ usb_stor_write \/ usb_stor_get_info \/ Caller
  BY Zenon, <1>0, <1>2 DEF usb_stor_read, usb_stor_write, usb_stor_get_info, Call, Caller, device, DeviceType
<1>3. CASE usb_stor_BBB_comdat
  BY Zenon, <1>0, <1>3 DEF usb_stor_BBB_comdat, Accept, Direction, DeviceType
<1>4. CASE DataIn
  BY <1>0, <1>4 DEF DataIn, DataInAll, DataInShifted, DataInShort, DataInStall, DataInError,
     DataInStale, Status, Forget, Ends, DeviceType
<1>5. CASE DataOut
  BY Zenon, <1>0, <1>5 DEF DataOut, DataOutAll, DataOutStall, DataOutError, DataOutNoCommand, Status, Ends,
     DeviceType
<1>6. CASE usb_stor_BBB_clear_endpt_stall \/ ClearIn \/ ClearOut
  BY Zenon, <1>0, <1>6 DEF usb_stor_BBB_clear_endpt_stall, ClearIn, ClearOut, usb_clear_halt, Cleared, DeviceType
<1>7. CASE Csw \/ BBB_reset
  BY Zenon, <1>0, <1>7 DEF Csw, CswData, BBB_reset, Forget, Ends, DeviceType
<1> QED BY <1>1, <1>2, <1>3, <1>4, <1>5, <1>6, <1>7 DEF Next, Step

\* Fault and NoFault keep the counts of faults natural.
LEMMA FaultType == TypeOK /\ (Fault \/ NoFault) => faults' \in Nat /\ callFaults' \in Nat
BY DEF TypeOK, HistoryType, Fault, NoFault

\* The history variables keep their types.
LEMMA HistoryStep == TypeOK /\ [Next]_vars => HistoryType'
<1> SUFFICES ASSUME TypeOK, [Next]_vars PROVE HistoryType'
  BY Zenon
<1>0. HistoryType /\ start \in Nat /\ smallblks \in Nat /\ RW_TRIES \in Nat
  BY Zenon, SmallNat, TriesAssumption DEF TypeOK, CallerType
<1>1. CASE UNCHANGED vars \/ MediumChanges
  BY Zenon, <1>0, <1>1 DEF vars, history, MediumChanges, HistoryType
<1>2. CASE Caller
  BY Zenon, <1>0, <1>2 DEF Caller, HistoryType
<1>9. CASE usb_stor_read \/ usb_stor_write \/ usb_stor_get_info
  <2>1. PICK c, n : Call(c, n)
    BY Zenon, <1>9 DEF usb_stor_read, usb_stor_write, usb_stor_get_info
  <2>2. hides' \in {-1, RW_TRIES - 1, RW_TRIES - 2}
    BY Zenon, <2>1 DEF Call
  <2>3. moved' = {} /\ callFaults' = 0 /\ cut' = 0 /\ faults' = faults /\ calls' = calls + 1
    BY Zenon, <2>1 DEF Call
  <2> QED BY <1>0, <2>2, <2>3 DEF HistoryType
<1>3. CASE usb_stor_BBB_comdat \/ usb_stor_BBB_clear_endpt_stall \/ Csw \/ BBB_reset
  <2>1. (Fault \/ NoFault) /\ UNCHANGED <<moved, calls, hides>> /\ (cut' = cut \/ cut' = 1)
    BY Zenon, <1>3 DEF usb_stor_BBB_comdat, usb_stor_BBB_clear_endpt_stall, Csw, CswData, BBB_reset
  <2> QED BY <1>0, <2>1, FaultType DEF HistoryType
<1>4. CASE ClearIn \/ ClearOut
  BY Zenon, <1>0, <1>4, FaultType DEF ClearIn, ClearOut, usb_clear_halt, HistoryType
<1>5. CASE DataIn
  <2>1. ASSUME NEW n \in Nat, Arrive(n) PROVE moved' \subseteq Nat
    <3>1. start .. start + n - 1 \subseteq Nat /\ moved \subseteq Nat
      BY <1>0 DEF HistoryType
    <3>2. moved' \in {moved, moved \cup (start .. start + n - 1), moved \ Chunk}
      BY Zenon, <2>1 DEF Arrive
    <3> QED BY <3>1, <3>2
  <2>2. Length(Op) \in Nat /\ 0 .. Length(Op) - 1 \subseteq Nat /\ 0 .. Length(Op) \subseteq Nat
    BY SmallNat
  <2>3. moved' \subseteq Nat
    <3>1. (\E n \in Nat : Arrive(n)) \/ DataInStale \/ UNCHANGED moved
      BY Zenon, <1>5, <2>2 DEF DataIn, DataInAll, DataInShifted, DataInShort, DataInStall, DataInError
    <3> QED BY Zenon, <1>0, <2>1, <3>1 DEF DataInStale, HistoryType
  <2>4. (Fault \/ NoFault) /\ cut' \in {0, 1}
    BY Zenon, <1>0, <1>5 DEF DataIn, DataInAll, DataInShifted, DataInShort, DataInStall,
       DataInError, DataInStale, Status, HistoryType
  <2> QED BY <1>0, <1>5, <2>3, <2>4, FaultType DEF DataIn, HistoryType
<1>6. CASE DataOut
  <2>1. (Fault \/ NoFault) /\ cut' \in {0, 1}
    BY Zenon, <1>0, <1>6 DEF DataOut, DataOutAll, DataOutStall, DataOutError, DataOutNoCommand, Status, HistoryType
  <2>2. \A n \in Nat : moved \cup (start .. start + n - 1) \subseteq Nat
    BY <1>0 DEF HistoryType
  <2>3. 0 .. smallblks - 1 \subseteq Nat /\ 0 .. smallblks \subseteq Nat
    BY <1>0
  <2>4. moved' \subseteq Nat
    BY Zenon, <1>0, <1>6, <2>2, <2>3 DEF DataOut, DataOutAll, DataOutStall, DataOutError, DataOutNoCommand,
       Taken, HistoryType
  <2> QED BY <1>0, <1>6, <2>1, <2>4, FaultType DEF DataOut, HistoryType
<1> QED BY <1>1, <1>2, <1>3, <1>4, <1>5, <1>6, <1>9 DEF Next, Step

\* The steps of the transport, as opposed to its callers.
Transport ==
  \/ usb_stor_BBB_comdat \/ DataIn \/ DataOut \/ usb_stor_BBB_clear_endpt_stall
  \/ Csw \/ BBB_reset \/ ClearIn \/ ClearOut

\* The transport leaves its caller's count alone and does not end the call.
LEMMA TransportFrame ==
  TypeOK /\ Transport =>
    UNCHANGED <<cmd, sensing, retry, start, blks, blkcnt, ret, medium>> /\ pc # "idle" /\ pc' # "idle"
<1> SUFFICES ASSUME TypeOK, Transport
             PROVE UNCHANGED <<cmd, sensing, retry, start, blks, blkcnt, ret, medium>>
                   /\ pc # "idle" /\ pc' # "idle"
  BY Zenon
<1>1. CASE usb_stor_BBB_comdat \/ usb_stor_BBB_clear_endpt_stall \/ BBB_reset
  BY Zenon, <1>1 DEF usb_stor_BBB_comdat, CbwSent, usb_stor_BBB_clear_endpt_stall, BBB_reset, caller
<1>2. CASE DataIn
  BY Zenon, <1>2 DEF DataIn, DataInAll, DataInShifted, DataInShort, DataInStall, DataInError, DataInStale
<1>3. CASE DataOut
  BY Zenon, <1>3 DEF DataOut, DataOutAll, DataOutStall, DataOutError, DataOutNoCommand, caller
<1>4. CASE Csw
  BY Zenon, <1>4 DEF Csw, CswStalled, CswPacket, CswData, CheckCsw, caller
<1>5. CASE ClearIn \/ ClearOut
  BY Zenon, <1>5 DEF ClearIn, ClearOut, usb_clear_halt, caller
<1> QED BY <1>1, <1>2, <1>3, <1>4, <1>5 DEF Transport

\* A step of the transport harms no block of an earlier chunk, and a command
\* once cut short is not forgotten.
LEMMA EarlierBlocks ==
  TypeOK /\ Transport =>
    /\ \A i \in 0 .. start - 1 : i \in moved => i \in moved'
    /\ cut' = 0 => cut = 0
<1> SUFFICES ASSUME TypeOK, Transport
             PROVE /\ \A i \in 0 .. start - 1 : i \in moved => i \in moved'
                   /\ cut' = 0 => cut = 0
  BY Zenon
<1>0. \A i \in 0 .. start - 1 : i \notin Chunk
  BY SmallNat DEF TypeOK, CallerType, Chunk
<1>1. CASE usb_stor_BBB_comdat \/ usb_stor_BBB_clear_endpt_stall \/ BBB_reset
  BY Zenon, <1>1 DEF usb_stor_BBB_comdat, usb_stor_BBB_clear_endpt_stall, BBB_reset
<1>5. CASE Csw
  <2>1. UNCHANGED moved /\ (cut' = cut \/ cut' = 1)
    BY Zenon, <1>5 DEF Csw, CswData
  <2> QED BY <2>1
<1>2. CASE ClearIn \/ ClearOut
  BY Zenon, <1>2 DEF ClearIn, ClearOut, usb_clear_halt
<1>3. CASE DataIn
  <2>1. ASSUME NEW n, Arrive(n) PROVE \A i \in 0 .. start - 1 : i \in moved => i \in moved'
    BY Zenon, <2>1, <1>0 DEF Arrive
  <2>2. (\E n : Arrive(n)) \/ DataInStale \/ UNCHANGED moved
    BY Zenon, <1>3 DEF DataIn, DataInAll, DataInShifted, DataInShort, DataInStall, DataInError
  <2>3. \A i \in 0 .. start - 1 : i \in moved => i \in moved'
    BY Zenon, <1>0, <2>1, <2>2 DEF DataInStale
  <2>4. cut' = 0 => cut = 0
    BY <1>3 DEF DataIn, DataInAll, DataInShifted, DataInShort, DataInStall, DataInError, DataInStale, Status
  <2> QED BY <2>3, <2>4
<1>4. CASE DataOut
  BY <1>4 DEF DataOut, DataOutAll, DataOutStall, DataOutError, DataOutNoCommand, Taken, Status
<1> QED BY <1>1, <1>2, <1>3, <1>4, <1>5 DEF Transport

\* The accounts of a call stay right.
LEMMA AccountingStep ==
  TypeOK /\ Accounting /\ InCommand /\ [Next]_vars => Accounting'
<1> SUFFICES ASSUME TypeOK, Accounting, InCommand, [Next]_vars PROVE Accounting'
  BY Zenon
<1>0. CallerType
  BY Zenon DEF TypeOK
<1>1. CASE UNCHANGED vars \/ MediumChanges
  BY Zenon, <1>1 DEF vars, caller, host, history, MediumChanges, Accounting, BlockOps
<1>2. CASE usb_stor_read \/ usb_stor_write \/ usb_stor_get_info
  BY <1>2, SizeAssumption DEF usb_stor_read, usb_stor_write, usb_stor_get_info, Call, Issue, Accounting, BlockOps
<1>3. CASE Transport
  BY Zenon, <1>3, TransportFrame, EarlierBlocks DEF Accounting
<1>4. CASE Caller
  <2>1. UNCHANGED <<moved, cut>>
    BY Zenon, <1>4 DEF Caller
  <2>2. CASE ChunkDone
    <3>1. smallblks \in Nat /\ 0 < smallblks /\ smallblks <= blks
      BY Zenon, <2>2, ChunkSize DEF ChunkDone, Accounting
    <3>2. cmd' = cmd /\ start' = start + smallblks /\ blks' = blks - smallblks /\ blkcnt' = blkcnt
      BY Zenon, <2>2 DEF ChunkDone, Finish, Issue
    <3>3. cut' = 0 => 0 .. start' - 1 \subseteq moved'
      <4> SUFFICES ASSUME cut' = 0, NEW i \in 0 .. start' - 1 PROVE i \in moved'
        BY Zenon
      <4>1. i \in 0 .. start - 1 \/ i \in Chunk
        BY <1>0, <3>1, <3>2 DEF Chunk, CallerType
      <4> QED BY <2>1, <2>2, <4>1 DEF ChunkDone, Accounting, InCommand
    <3>4. blks' > 0 \/ blks' = 0
      BY <1>0, <3>1, <3>2 DEF CallerType
    <3>5. start' + blks' = blkcnt' /\ (blks' = 0 => start' = blkcnt')
      BY <1>0, <2>2, <3>1, <3>2 DEF CallerType, Accounting, ChunkDone
    <3>6. (pc' # "idle" => blks' # 0) /\ (pc' = "idle" => blks' = 0 /\ ret' = blkcnt)
      BY Zenon, <2>2 DEF ChunkDone, Finish, Issue
    <3> QED BY <3>2, <3>3, <3>4, <3>5, <3>6 DEF Accounting
  <2>3. CASE AskSense \/ TransferAgain \/ ReadyAgain
    BY <1>0, <2>1, <2>3 DEF AskSense, TransferAgain, ReadyAgain, Finish, Issue, Accounting, CallerType, BlockOps
  <2>4. CASE InfoGood \/ InfoFailed
    BY Zenon, <2>4 DEF InfoGood, InfoFailed, InquiryFailed, CapacityFailed, Finish, Issue, Accounting, BlockOps
  <2> QED BY <1>4, <2>2, <2>3, <2>4 DEF Caller
<1> QED BY <1>1, <1>2, <1>3, <1>4 DEF Next, Step, Transport

\* In the STATUS phase only the answer to the present command counts.
LEMMA InCommandStep ==
  TypeOK /\ Accounting /\ InCommand /\ [Next]_vars => InCommand'
<1> SUFFICES ASSUME TypeOK, Accounting, InCommand, [Next]_vars PROVE InCommand'
  BY Zenon
<1>0. CallerType /\ DeviceType
  BY Zenon DEF TypeOK
<1>1. CASE UNCHANGED vars \/ MediumChanges
  BY Zenon, <1>1 DEF vars, caller, host, device, history, MediumChanges, InCommand, Chunk, smallblks, Op
<1>2. CASE usb_stor_read \/ usb_stor_write \/ usb_stor_get_info
  BY Zenon, <1>2 DEF usb_stor_read, usb_stor_write, usb_stor_get_info, Call, Issue, InCommand
<1>3. CASE Caller
  <2>1. pc' \in {"cbw", "idle"}
    BY Zenon, <1>3 DEF Caller, ChunkDone, AskSense, TransferAgain, ReadyAgain, InfoGood, InfoFailed, InquiryFailed, CapacityFailed, Finish, Issue
  <2> QED BY <2>1 DEF InCommand
<1>4. CASE Transport
  <2>1. UNCHANGED <<cmd, sensing, start, blks>>
    BY Zenon, <1>4, TransportFrame
  <2>2. Op' = Op /\ Chunk' = Chunk /\ smallblks' = smallblks
    BY Zenon, <2>1 DEF Op, Chunk, smallblks
  <2>3. cut' = 0 => cut = 0
    BY Zenon, <1>4, EarlierBlocks
  <2> DEFINE Present == cmd \in BlockOps /\ sensing = 0 /\ cut' = 0
             Answer == dphase' = "csw" /\ dstat' = "passed"
  <2> SUFFICES /\ pc' = "data" => dphase' \in {"idle", Direction(Op)}
               /\ Present /\ pc' \in {"stallData", "csw", "stallCsw"} /\ Answer => Chunk \subseteq moved'
               /\ Present /\ pc' = "good" => Chunk \subseteq moved'
    <3> HIDE DEF Present, Answer
    <3>1. Direction(Op)' = Direction(Op)
      BY Zenon, <2>2 DEF Direction
    <3>2. Present = (cmd \in BlockOps /\ sensing = 0 /\ cut = 0)' /\ Answer = (dphase = "csw" /\ dstat = "passed")'
      BY Zenon, <2>1 DEF Present, Answer
    <3> QED BY Zenon, <2>2, <3>1, <3>2 DEF InCommand
  <2>4. CASE BBB_reset \/ ClearIn \/ ClearOut
    BY Zenon, <2>4 DEF BBB_reset, ClearIn, ClearOut
  <2>5. CASE usb_stor_BBB_comdat
    <3>1. Present => Length(Op) # 0
      BY <2>5, <1>0, ChunkSize DEF usb_stor_BBB_comdat, Accounting, Length, Op, BlockOps
    <3> QED BY <2>5, <3>1 DEF usb_stor_BBB_comdat, CbwSent, Accept
  <2>6. CASE usb_stor_BBB_clear_endpt_stall
    BY Zenon, <2>3, <2>6 DEF usb_stor_BBB_clear_endpt_stall, InCommand
  <2>7. CASE Csw
    <3>1. \A t \in Tags \ {(CBWTag - 1) % TagMod} : \A st : CheckCsw(1, t, st) = "reset"
      BY Zenon DEF CheckCsw
    <3>2. \A v, t, st : /\ CheckCsw(v, t, st) \in {"reset", "failed", "good"}
                        /\ CheckCsw(v, t, st) = "good" => st \notin {"phase", "failed"}
      BY Zenon DEF CheckCsw
    <3>3. UNCHANGED moved /\ pc = "csw" /\ pc' # "data"
      BY <2>7, <3>2 DEF Csw, CswPacket, CswStalled, CswData
    <3>4. pc' = "good" => dphase = "csw" /\ dstat = "passed"
      BY <1>0, <2>7, <3>1, <3>2 DEF Csw, CswPacket, CswStalled, CswData, DeviceType
    <3>6. Present => Op \in BlockOps
      BY DEF Op
    <3>5. Present /\ Answer => dphase = "csw" /\ dstat = "passed"
      <4>1. CASE CswData /\ UNCHANGED dstat
        BY <3>6, <4>1 DEF CswData, Unable
      <4>2. CASE ~(CswData /\ UNCHANGED dstat)
        BY Zenon, <2>7, <4>2 DEF Csw, Forget
      <4> QED BY <4>1, <4>2
    <3>7. Present /\ pc' \in {"csw", "stallCsw", "stallData"} /\ Answer => Chunk \subseteq moved
      BY <2>3, <3>3, <3>5 DEF InCommand
    <3>8. Present /\ pc' = "good" => Chunk \subseteq moved
      BY <2>3, <3>3, <3>4 DEF InCommand
    <3> QED BY <3>3, <3>7, <3>8
  <2>8. CASE DataIn
    <3>1. /\ pc = "data" /\ dphase \in {"idle", "in"} /\ pc' # "good"
          /\ Direction(Op) = "in" /\ Op # "write"
      BY Zenon, <2>8 DEF DataIn, DataInAll, DataInShifted, DataInShort, DataInStall, DataInError, DataInStale,
         InCommand, Direction, InOps
    <3>2. pc' = "data" => dphase' = dphase
      BY Zenon, <2>8 DEF DataIn, DataInAll, DataInShifted, DataInShort, DataInStall, DataInError, DataInStale
    <3>3. Answer => DataInAll \/ (\E n : DataInShort(n) \/ DataInStall(n)) \/ (\E n, k : DataInError(n, k))
      BY Zenon, <2>8, <3>1 DEF DataIn, DataInShifted, DataInStale, Forget
    <3>4. Present => Op = "read"
      BY <3>1 DEF Op, BlockOps
    <3>5. ASSUME Present, Answer, DataInAll PROVE Chunk \subseteq moved'
      <4>1. Length(Op) = smallblks
        BY Zenon, <3>4, <3>5 DEF Length, BlockOps
      <4> QED BY <3>4, <3>5, <4>1 DEF DataInAll, Arrive, Chunk
    <3>6. ASSUME Present, Answer, NEW n, DataInShort(n) \/ DataInStall(n) PROVE FALSE
      BY <3>4, <3>6 DEF DataInShort, DataInStall, Status, BlockOps
    <3>7. ASSUME Present, Answer, NEW n, NEW k, DataInError(n, k) PROVE FALSE
      <4>1. Op \in BlockOps
        BY <3>4, <3>7 DEF BlockOps
      <4> QED BY <3>7, <4>1 DEF DataInError
    <3> QED BY <3>1, <3>2, <3>3, <3>5, <3>6, <3>7
  <2>9. CASE DataOut
    <3>1. pc' \notin {"data", "good"}
      BY Zenon, <2>9 DEF DataOut, DataOutAll, DataOutStall, DataOutError, DataOutNoCommand
    <3>2. Answer => (\E n : DataOutAll(n) \/ DataOutStall(n)) \/ (\E n, k : DataOutError(n, k))
      BY Zenon, <2>9 DEF DataOut, DataOutNoCommand
    <3>3. ASSUME Present, Answer, NEW n, DataOutAll(n) PROVE Chunk \subseteq moved'
      <4>1. n = smallblks
        BY <3>3 DEF DataOutAll, Status, Op
      <4> QED BY <3>3, <4>1 DEF DataOutAll, Chunk
    <3>4. ASSUME Present, Answer, NEW n, DataOutStall(n) PROVE FALSE
      BY <3>4 DEF DataOutStall, Status, Op
    <3>5. ASSUME Present, Answer, NEW n, NEW k, DataOutError(n, k) PROVE Chunk \subseteq moved'
      <4>1. n = smallblks /\ dstat = "passed"
        BY <3>5 DEF DataOutError
      <4> QED BY <3>5, <4>1 DEF DataOutError, Chunk, Unable
    <3> QED BY <3>1, <3>2, <3>3, <3>4, <3>5
  <2> HIDE DEF Present, Answer
  <2> QED BY <1>4, <2>4, <2>5, <2>6, <2>7, <2>8, <2>9 DEF Transport
<1> QED BY <1>1, <1>2, <1>3, <1>4 DEF Next, Step, Transport

\* A step of the transport has a fault or has none, and counts it.
LEMMA FaultOrNot ==
  TypeOK /\ Transport => /\ hides' = hides
                         /\ \/ callFaults' = callFaults /\ NoFault /\ ~Fault
                            \/ callFaults' = callFaults + 1 /\ Fault /\ ~NoFault
<1> SUFFICES ASSUME TypeOK, Transport
             PROVE hides' = hides /\ (Fault \/ NoFault)
  BY DEF TypeOK, HistoryType, Fault, NoFault
<1>1. CASE usb_stor_BBB_comdat \/ usb_stor_BBB_clear_endpt_stall \/ BBB_reset \/ Csw
  BY Zenon, <1>1 DEF usb_stor_BBB_comdat, usb_stor_BBB_clear_endpt_stall, BBB_reset, Csw, CswData
<1>2. CASE ClearIn \/ ClearOut
  BY Zenon, <1>2 DEF ClearIn, ClearOut, usb_clear_halt
<1>3. CASE DataIn
  BY <1>3, Zenon DEF DataIn, DataInAll, DataInShifted, DataInShort, DataInStall, DataInError, DataInStale
<1>4. CASE DataOut
  BY <1>4, Zenon DEF DataOut, DataOutAll, DataOutStall, DataOutError, DataOutNoCommand
<1> QED BY <1>1, <1>2, <1>3, <1>4 DEF Transport

\* What a CSW is taken for.
LEMMA CswMeaning ==
  /\ \A t, st : CheckCsw(0, t, st) = "reset"
  /\ \A v, t, st : CheckCsw(v, t, st) \in {"reset", "failed", "good"}
  /\ \A t, st : t # (CBWTag - 1) % TagMod => CheckCsw(1, t, st) = "reset"
  /\ CheckCsw(1, (CBWTag - 1) % TagMod, "passed") = "good"
BY DEF CheckCsw

\* Taking a command off the host's hands keeps the tags of both sides together.
LEMMA SameTag == TypeOK => (NextTag - 1) % TagMod = CBWTag
BY PacketAssumption DEF TypeOK, HostType, Tags, NextTag

\* Outside reset recovery the OUT endpoint is not halted once the command is
\* sent, unless the device is dead.
LEMMA OutNotHalted ==
  ASSUME TypeOK, Transport,
         pc \in {"data", "csw", "stallCsw"} => dphase = "dead" \/ "out" \notin halted
  PROVE  pc' \in {"data", "csw", "stallCsw"} => dphase' = "dead" \/ "out" \notin halted'
<1>1. CASE usb_stor_BBB_comdat \/ BBB_reset \/ ClearIn \/ ClearOut
  BY Zenon, <1>1 DEF usb_stor_BBB_comdat, CbwSent, BBB_reset, ClearIn, ClearOut
<1>2. CASE usb_stor_BBB_clear_endpt_stall
  BY Zenon, <1>2 DEF usb_stor_BBB_clear_endpt_stall, Cleared
<1>3. CASE Csw
  BY <1>3, CswMeaning DEF Csw, CswStalled, CswPacket, CswData
<1>4. CASE DataIn
  BY <1>4, Zenon DEF DataIn, DataInAll, DataInShifted, DataInShort, DataInStall, DataInError, DataInStale
<1>5. CASE DataOut
  BY <1>5, Zenon DEF DataOut, DataOutAll, DataOutStall, DataOutError, DataOutNoCommand
<1> QED BY <1>1, <1>2, <1>3, <1>4, <1>5, Transport DEF Transport

\* A command in progress on both sides, with a ready medium and no fault, has
\* its data moved in full and passes.
LEMMA DataGoes ==
  ASSUME TypeOK, medium = "ready", NoFault, ~Fault, DataIn \/ DataOut, Going(Direction(Op))
  PROVE  pc' = "csw" /\ dphase' = "csw" /\ dtag' = dtag /\ dstat' = "passed"
         /\ CBWTag' = CBWTag /\ halted' = {} /\ stale' = 0 /\ devTog' = hostTog'
<1> USE DEF Going
<1>1. CASE DataIn
  <2>0. /\ dphase # "idle" /\ "in" \notin halted /\ stale # 1 /\ Same("in") /\ ~Unable
        /\ Direction(Op) = "in"
    BY <1>1 DEF DataIn, Unable, Same
  <2>1. DataInAll /\ stale' = stale /\ CBWTag' = CBWTag
    <3>1. DataInAll /\ stale' = stale
      BY <1>1, <2>0, Zenon DEF DataIn, DataInShifted, DataInShort, DataInStall, DataInError
    <3> QED BY <1>1, <3>1 DEF DataIn
  <2>2. devTog' = hostTog'
    BY <2>1 DEF DataInAll, Sent, Flip, FlipBy, TypeOK, TogType, Ends
  <2> QED BY <2>0, <2>1, <2>2 DEF DataInAll, Status
<1>2. CASE DataOut
  <2>1. /\ \E n \in 0 .. smallblks : DataOutAll(n)
        /\ UNCHANGED <<stale, CBWTag>> /\ Direction(Op) = "out"
    BY <1>2, Zenon DEF DataOut, DataOutStall, DataOutError, DataOutNoCommand, Unable
  <2> QED BY <2>1 DEF DataOutAll, Status, Unable
<1> QED BY <1>1, <1>2

\* The answer to such a command is taken for a success, and ends in step.
LEMMA CswGoes ==
  ASSUME TypeOK, NoFault, ~Fault, Csw, Going("csw")
  PROVE  pc' = "good" /\ InStep'
<1>1. /\ CswPacket("good") /\ Forget /\ UNCHANGED <<halted, stale>>
  BY Zenon, CswMeaning DEF Csw, CswData, Going
<1> QED BY <1>1 DEF CswPacket, Forget, InStep, Going, Same, FlipOne

\* A device that waits, in step, takes the command; one whose OUT toggle is off
\* drops it, and is then in step.
LEMMA CbwGoes ==
  ASSUME TypeOK, medium = "ready", NoFault, ~Fault, usb_stor_BBB_comdat, SenseReady
  PROVE  /\ pc' = IF Length(Op) = 0 THEN "csw" ELSE "data"
         /\ Same("out") => /\ dphase' = IF Length(Op) = 0 THEN "csw" ELSE Direction(Op)
                           /\ dtag' = (CBWTag' - 1) % TagMod /\ dstat' = "passed"
                           /\ halted' = {} /\ stale' = 0 /\ devTog' = hostTog'
         /\ ~Same("out") => dphase' = "idle" /\ halted' = {} /\ stale' = 0
<1>1. CASE Same("out")
  <2>1. Accept /\ CbwSent /\ UNCHANGED <<halted, stale>> /\ CBWTag' = NextTag
    BY Zenon, <1>1 DEF usb_stor_BBB_comdat, SenseReady, Silent
  <2>2. devTog' = hostTog'
    <3>1. devTog = hostTog
      BY <1>1 DEF SenseReady, Same, TypeOK, TogType, Ends
    <3> QED BY <2>1, <3>1 DEF Accept, CbwSent
  <2> QED BY <1>1, <2>1, <2>2, SameTag DEF Accept, CbwSent, SenseReady, Silent
<1>2. CASE ~Same("out")
  BY Zenon, <1>2 DEF usb_stor_BBB_comdat, SenseReady, Silent, CbwSent
<1> QED BY <1>1, <1>2

\* Without a fault a transfer that goes by the book keeps to it.
LEMMA KeepsToTheBook ==
  ASSUME TypeOK, medium = "ready", NoFault, ~Fault, Transport, ByTheBook
  PROVE  ByTheBook'
<1>1. UNCHANGED <<cmd, sensing, blks>> /\ Direction(Op)' = Direction(Op)
  BY Zenon, TransportFrame DEF Direction, Op
<1>2. usb_stor_BBB_comdat \/ DataIn \/ DataOut \/ Csw
  BY Zenon DEF ByTheBook, Transport, usb_stor_BBB_clear_endpt_stall, BBB_reset, ClearIn, ClearOut
<1>3. CASE usb_stor_BBB_comdat
  <2>1. SenseReady /\ Same("out")
    BY Zenon, <1>3 DEF ByTheBook, usb_stor_BBB_comdat, InStep, SenseReady, Silent, Same
  <2> QED BY <1>1, <1>3, <2>1, CbwGoes DEF ByTheBook, Going
<1>4. CASE DataIn \/ DataOut
  <2>1. Going(Direction(Op))
    BY Zenon, <1>4 DEF ByTheBook, DataIn, DataOut
  <2> QED BY <1>4, <2>1, DataGoes DEF ByTheBook, Going
<1>5. CASE Csw
  <2>1. Going("csw")
    BY Zenon, <1>5 DEF ByTheBook, Csw
  <2> QED BY <1>5, <2>1, CswGoes DEF ByTheBook
<1> QED BY <1>2, <1>3, <1>4, <1>5

\* A fault strikes such a transfer before any recovery.
LEMMA FirstFault ==
  ASSUME TypeOK, Fault, ~NoFault, Transport, ByTheBook, sensing = 0
  PROVE  Recovering'
<1>1. sensing' = 0
  BY Zenon, TransportFrame
<1>2. pc' \notin {"clearIn", "clearOut", "failed"}
  <2>1. usb_stor_BBB_comdat \/ DataIn \/ DataOut \/ Csw
    BY Zenon DEF ByTheBook, Transport, usb_stor_BBB_clear_endpt_stall, BBB_reset, ClearIn, ClearOut
  <2>2. CASE usb_stor_BBB_comdat
    BY Zenon, <2>2 DEF usb_stor_BBB_comdat, CbwSent
  <2>3. CASE DataIn
    BY <2>3, Zenon DEF DataIn, DataInAll, DataInShifted, DataInShort, DataInStall, DataInError, DataInStale
  <2>4. CASE DataOut
    BY <2>4, Zenon DEF DataOut, DataOutAll, DataOutStall, DataOutError, DataOutNoCommand
  <2>5. CASE Csw
    BY <2>5, CswMeaning DEF Csw, CswStalled, CswPacket, CswData
  <2> QED BY <2>1, <2>2, <2>3, <2>4, <2>5
<1> QED BY <1>1, <1>2 DEF Recovering

\* Without a further fault the recovery, and the REQUEST SENSE after it, bring
\* the device back in step.
LEMMA KeepsRecovering ==
  ASSUME TypeOK, medium = "ready", NoFault, ~Fault, Transport, Recovering,
         pc \in {"data", "csw", "stallCsw"} => dphase = "dead" \/ "out" \notin halted
  PROVE  Recovering'
<1>1. UNCHANGED <<cmd, sensing, blks>> /\ Direction(Op)' = Direction(Op)
  BY Zenon, TransportFrame DEF Direction, Op
<1>2. CASE BBB_reset
  BY Zenon, <1>2 DEF BBB_reset, Recovering, Forget
<1>3. CASE ClearIn
  <2>1. /\ pc' = "clearOut" /\ dphase' = dphase /\ stale' = stale
        /\ Cleared("in") /\ hostTog' = ToggleReset("in") /\ dphase = "idle" /\ stale = 0
    BY Zenon, <1>3 DEF ClearIn, usb_clear_halt, Recovering
  <2>2. "in" \notin halted' /\ Same("in")'
    BY Zenon, <2>1 DEF Cleared, ToggleReset, Same, TypeOK, TogType, Ends
  <2> QED BY <2>1, <2>2 DEF Recovering
<1>4. CASE ClearOut
  <2>1. /\ pc' = "failed" /\ dphase' = dphase /\ stale' = stale
        /\ Cleared("out") /\ hostTog' = ToggleReset("out") /\ dphase = "idle" /\ stale = 0
        /\ "in" \notin halted /\ Same("in")
    BY Zenon, <1>4 DEF ClearOut, usb_clear_halt, Recovering
  <2>2. halted' = {} /\ devTog' = hostTog'
    BY <2>1, Zenon DEF Cleared, ToggleReset, Same, TypeOK, TogType, DeviceType, Ends
  <2> QED BY <2>1, <2>2 DEF Recovering, InStep, SenseReady, Silent, Same
<1>5. CASE usb_stor_BBB_clear_endpt_stall
  BY Zenon, <1>1, <1>5 DEF usb_stor_BBB_clear_endpt_stall, Recovering
<1>6. CASE usb_stor_BBB_comdat
  <2>1. CASE sensing = 1
    <3>1. SenseReady /\ Op = "sense" /\ Length(Op) = 1 /\ Direction(Op) = "in"
      BY Zenon, <1>6, <2>1 DEF usb_stor_BBB_comdat, Recovering, Op, Length, Direction, InOps, BlockOps
    <3> QED BY <1>1, <1>6, <2>1, <3>1, CbwGoes DEF Recovering, Going, Silent
  <2>2. CASE sensing # 1
    BY Zenon, <1>1, <1>6, <2>2 DEF usb_stor_BBB_comdat, CbwSent, Recovering
  <2> QED BY <2>1, <2>2
<1>7. CASE DataIn \/ DataOut
  <2>1. CASE sensing = 1
    <3>1. Direction(Op) = "in" /\ pc = "data"
      BY Zenon, <1>7, <2>1 DEF Op, Direction, InOps, DataIn, DataOut
    <3>2. CASE Going("in")
      BY Zenon, <1>1, <1>7, <2>1, <3>1, <3>2, DataGoes DEF Recovering, Going
    <3>3. CASE Silent
      <4>1. pc' = "reset"
        BY <1>7, <3>1, <3>3 DEF Silent, DataIn, DataOut
      <4> QED BY <1>1, <4>1 DEF Recovering
    <3> QED BY <2>1, <3>1, <3>2, <3>3 DEF Recovering
  <2>2. CASE sensing # 1
    <3>1. pc' \notin {"clearIn", "clearOut", "failed"}
      BY <1>7, Zenon DEF DataIn, DataInAll, DataInShifted, DataInShort, DataInStall, DataInError, DataInStale,
         DataOut, DataOutAll, DataOutStall, DataOutError, DataOutNoCommand
    <3> QED BY <1>1, <2>2, <3>1 DEF Recovering
  <2> QED BY <2>1, <2>2
<1>8. CASE Csw
  <2>1. CASE sensing = 1
    <3>1. Going("csw")
      BY Zenon, <1>8, <2>1 DEF Csw, Recovering
    <3> QED BY <1>1, <1>8, <2>1, <3>1, CswGoes DEF Recovering
  <2>2. CASE sensing # 1
    <3>1. pc' \notin {"clearIn", "clearOut"}
      BY <1>8, CswMeaning, SMTT(30) DEF Csw, CswStalled, CswPacket, CswData
    <3>2. ASSUME pc' = "failed" PROVE SenseReady'
      <4>1. /\ "in" \notin halted /\ stale = 0 /\ dphase = "csw" /\ UNCHANGED <<stale, halted>> /\ Forget
            /\ Same("in") /\ devTog' = FlipOne(devTog, "in") /\ hostTog' = FlipOne(hostTog, "in")
        BY Zenon, <1>8, <3>2, CswMeaning DEF Csw, CswStalled, CswPacket, CswData
      <4>2. halted = {}
        BY Zenon, <1>8, <4>1 DEF Csw, TypeOK, DeviceType, Ends
      <4> QED BY <4>1, <4>2 DEF SenseReady, Silent, Forget, Same, FlipOne, TypeOK, TogType, Ends
    <3> QED BY <1>1, <2>2, <3>1, <3>2 DEF Recovering
  <2> QED BY <2>1, <2>2
<1> QED BY <1>2, <1>3, <1>4, <1>5, <1>6, <1>7, <1>8, Transport DEF Transport

\* Hiding is kept, and a transfer gives up only after more faults than it hides.
LEMMA HidingStep ==
  TypeOK /\ Hiding /\ FaultsHidden /\ [Next]_vars => Hiding' /\ FaultsHidden'
<1> SUFFICES ASSUME TypeOK, Hiding, FaultsHidden, [Next]_vars PROVE Hiding' /\ FaultsHidden'
  BY Zenon
<1>0. /\ callFaults \in Nat /\ hides \in Int /\ retry \in Nat /\ sensing \in {0, 1}
      /\ RW_TRIES \in Nat \ {0}
  BY Zenon, TriesAssumption DEF TypeOK, CallerType, HistoryType
<1>1. CASE UNCHANGED vars
  <2>1. UNCHANGED <<cmd, pc, hides, medium, retry, callFaults, sensing, dphase, dtag, dstat,
                    halted, stale, devTog, hostTog, CBWTag, ret, blkcnt>>
    BY Zenon, <1>1 DEF vars, caller, host, device, history
  <2> QED BY <2>1 DEF Hiding, FaultsHidden, Unpaid, ByTheBook, Recovering, Going, SenseReady, Silent,
                      Same, InStep, Direction, Op
<1>2. CASE MediumChanges
  <2>1. /\ UNCHANGED <<cmd, pc, hides, callFaults, ret, blkcnt>>
        /\ pc \notin {"idle", "failed"} => FALSE
        /\ pc = "failed" => medium # "ready"
    BY Zenon, <1>2 DEF MediumChanges, caller, host, history
  <2> QED BY <2>1 DEF Hiding, FaultsHidden
<1>3. CASE usb_stor_read \/ usb_stor_write \/ usb_stor_get_info
  <2>1. PICK c, n : Call(c, n)
    BY Zenon, <1>3 DEF usb_stor_read, usb_stor_write, usb_stor_get_info
  <2>2. /\ pc' = "cbw" /\ cmd' = c /\ sensing' = 0 /\ callFaults' = 0 /\ medium' = medium
        /\ cmd' \in BlockOps => retry' = RW_TRIES - 1
        /\ hides' = IF medium # "ready" THEN -1 ELSE IF InStep THEN RW_TRIES - 1 ELSE RW_TRIES - 2
        /\ UNCHANGED <<dphase, halted, stale, devTog, hostTog>>
    BY Zenon, <2>1 DEF Call, Issue, device, BlockOps
  <2>3. InStep' = InStep
    BY Zenon, <2>2 DEF InStep
  <2>4. ASSUME cmd' \in BlockOps, hides' >= 0
        PROVE  /\ medium' = "ready" /\ retry' <= RW_TRIES - 1
               /\ (Unpaid' = 0 /\ InStep') \/ Unpaid' = 1
    BY <1>0, <2>2, <2>3, <2>4 DEF Unpaid
  <2> QED BY <2>2, <2>4 DEF Hiding, FaultsHidden, ByTheBook, Recovering
<1>4. CASE Transport
  <2>1. UNCHANGED <<cmd, sensing, retry, medium, hides>> /\ pc # "idle" /\ pc' # "idle"
    BY Zenon, <1>4, TransportFrame, FaultOrNot
  <2>2. FaultsHidden'
    BY Zenon, <2>1 DEF FaultsHidden
  <2>3. ASSUME cmd \in BlockOps, hides >= 0
        PROVE  /\ Unpaid' >= sensing
               /\ Unpaid' = 0 => ByTheBook'
               /\ Unpaid' = 1 => Recovering'
    <3>1. /\ medium = "ready" /\ Unpaid >= sensing /\ Unpaid \in Int
          /\ Unpaid = 0 => ByTheBook
          /\ Unpaid = 1 => Recovering
          /\ pc \in {"data", "csw", "stallCsw"} => dphase = "dead" \/ "out" \notin halted
      BY <1>0, <2>1, <2>3 DEF Hiding, Unpaid
    <3>2. CASE NoFault /\ ~Fault
      <4>1. Unpaid' = Unpaid
        BY Zenon, <2>1, <3>2 DEF Unpaid, NoFault
      <4> QED BY <1>4, <3>1, <3>2, <4>1, KeepsToTheBook, KeepsRecovering
    <3>3. CASE Fault /\ ~NoFault
      <4>1. Unpaid' = Unpaid + 1
        BY <1>0, <2>1, <3>3 DEF Unpaid, Fault
      <4>2. Unpaid' >= sensing /\ Unpaid' # 0 /\ (Unpaid' = 1 => Unpaid = 0 /\ sensing = 0)
        BY <1>0, <3>1, <4>1
      <4> QED BY <1>4, <3>1, <3>3, <4>2, FirstFault
    <3> QED BY <1>4, <3>2, <3>3, FaultOrNot
  <2>4. pc' \in {"data", "csw", "stallCsw"} /\ cmd \in BlockOps /\ hides >= 0
          => dphase' = "dead" \/ "out" \notin halted'
    BY Zenon, <1>4, <2>1, OutNotHalted DEF Hiding
  <2> QED BY <2>1, <2>2, <2>3, <2>4 DEF Hiding
<1>5. CASE Caller
  <2>1. UNCHANGED <<callFaults, hides, medium, dphase, halted, stale, devTog, hostTog, CBWTag>>
    BY Zenon, <1>5 DEF Caller, device
  <2>2. InStep' = InStep /\ SenseReady' = SenseReady
    BY Zenon, <2>1 DEF InStep, SenseReady, Silent, Same
  <2>3. CASE ChunkDone
    <3>1. cmd' = cmd /\ sensing' = 0 /\ sensing = 0 /\ pc = "good"
      BY Zenon, <2>3 DEF ChunkDone, Finish, Issue
    <3>2. CASE pc' = "idle"
      BY Zenon, <2>3, <3>2 DEF ChunkDone, Finish, Issue, Hiding, FaultsHidden
    <3>3. CASE pc' # "idle"
      <4>1. pc' = "cbw" /\ retry' = RW_TRIES - 1
        BY Zenon, <2>3, <3>3 DEF ChunkDone, Finish, Issue
      <4>2. ASSUME cmd \in BlockOps, hides >= 0
            PROVE  medium = "ready" /\ Unpaid' >= 0 /\ (Unpaid' = 0 => InStep)
        BY <1>0, <2>1, <3>1, <4>1, <4>2 DEF Hiding, Unpaid, ByTheBook
      <4> QED BY <1>0, <2>1, <2>2, <3>1, <4>1, <4>2 DEF Hiding, FaultsHidden, ByTheBook, Recovering
    <3> QED BY <3>2, <3>3
  <2>4. CASE AskSense
    <3>1. /\ UNCHANGED <<cmd, retry>> /\ pc' = "cbw" /\ sensing' = 1 /\ pc = "failed" /\ sensing = 0
          /\ Unpaid' = Unpaid
      BY Zenon, <2>1, <2>4 DEF AskSense, Issue, Unpaid
    <3>2. ASSUME cmd \in BlockOps, hides >= 0
          PROVE  medium = "ready" /\ retry <= RW_TRIES - 1 /\ Unpaid >= 1 /\ (Unpaid = 1 => SenseReady)
      BY <1>0, <3>1, <3>2 DEF Hiding, Unpaid, ByTheBook, Recovering
    <3> QED BY <2>1, <2>2, <3>1, <3>2 DEF Hiding, FaultsHidden, Recovering
  <2>5. CASE TransferAgain
    <3>1. cmd' = cmd /\ sensing = 1 /\ pc \in {"good", "failed"}
      BY Zenon, <2>5 DEF TransferAgain, Finish, Issue
    <3>2. ASSUME cmd \in BlockOps, hides >= 0
          PROVE  medium = "ready" /\ retry <= RW_TRIES - 1 /\ Unpaid >= 1 /\ (Unpaid = 1 => InStep)
      BY Zenon, <1>0, <3>1, <3>2 DEF Hiding, Unpaid, Recovering
    <3>3. CASE retry > 0
      <4>1. pc' = "cbw" /\ sensing' = 0 /\ retry' = retry - 1 /\ Unpaid' = Unpaid - 1
        BY <1>0, <2>1, <2>5, <3>3 DEF TransferAgain, Issue, Unpaid
      <4>2. Unpaid \in Int
        BY <1>0 DEF Unpaid
      <4>3. ASSUME cmd \in BlockOps, hides >= 0
            PROVE  retry' <= RW_TRIES - 1 /\ Unpaid' >= 0 /\ (Unpaid' = 0 => InStep)
        BY <1>0, <3>2, <4>1, <4>2, <4>3
      <4> QED BY <2>1, <2>2, <3>1, <3>2, <4>1, <4>3 DEF Hiding, FaultsHidden, ByTheBook, Recovering
    <3>4. CASE ~(retry > 0)
      <4>1. pc' = "idle"
        BY Zenon, <2>5, <3>4 DEF TransferAgain, Finish
      <4>2. cmd \in BlockOps => callFaults > hides
        BY <1>0, <3>2, <3>4 DEF Unpaid
      <4> QED BY <2>1, <3>1, <4>1, <4>2, <1>0 DEF Hiding, FaultsHidden
    <3> QED BY <3>3, <3>4
  <2>6. CASE ReadyAgain \/ InfoGood \/ InfoFailed
    <3>1. cmd' \notin BlockOps
      <4>1. ReadyAgain => cmd' = "ready"
        BY Zenon DEF ReadyAgain, Issue, Finish
      <4>2. InfoFailed => cmd' \in {"inquiry", "capacity"}
        BY Zenon DEF InfoFailed, InquiryFailed, CapacityFailed, Issue, Finish
      <4>3. InfoGood => cmd' \in {"inquiry", "ready", "capacity"}
        BY Zenon DEF InfoGood, Issue, Finish
      <4> QED BY <2>6, <4>1, <4>2, <4>3 DEF BlockOps
    <3> QED BY <3>1 DEF Hiding, FaultsHidden
  <2> QED BY <1>5, <2>3, <2>4, <2>5, <2>6 DEF Caller
<1> QED BY <1>1, <1>2, <1>3, <1>4, <1>5 DEF Next, Step, Transport

\* IInv is an invariant of every behaviour: of any number of calls and faults.
THEOREM Invariance == Spec => []IInv
<1>1. Init => IInv
  <2> SUFFICES ASSUME Init PROVE IInv
    BY Zenon
  <2>1. TypeOK
    BY PacketAssumption DEF Init, TypeOK, CallerType, HostType, TogType, DeviceType, HistoryType, Tags, Ends
  <2>2. Accounting /\ InCommand /\ Hiding /\ FaultsHidden
    BY Zenon DEF Init, Accounting, InCommand, Hiding, FaultsHidden, BlockOps
  <2> QED BY <2>1, <2>2 DEF IInv
<1>2. IInv /\ [Next]_vars => IInv'
  BY Zenon, CallerStep, HostStep, ToggleStep, DeviceStep, HistoryStep, AccountingStep, InCommandStep,
     HidingStep DEF IInv, TypeOK
<1> QED BY <1>1, <1>2, PTL DEF Spec

\* For all sizes, tries and faults: the number of blocks that usb_stor_read or
\* usb_stor_write returns have been moved, unless the device passed a command
\* that moved less, or the wait for the CSW dropped data after a transaction
\* error that was taken for a stall.
THEOREM TrueCount == Spec => []CountIsTrue
<1>1. IInv => CountIsTrue
  BY Zenon DEF IInv, Accounting, CountIsTrue
<1> QED BY <1>1, Invariance, PTL

\* For all sizes, tries and faults: a transfer that starts with host and device
\* in step returns the full count in spite of RW_TRIES - 1 faults of any kind,
\* and in spite of RW_TRIES - 2 from any state that earlier calls can leave
\* behind.
THEOREM RetriesHideFaults == Spec => []FaultsHidden
<1>1. IInv => FaultsHidden
  BY Zenon DEF IInv
<1> QED BY <1>1, Invariance, PTL

\* A product shrinks by at least one factor.
LEMMA Shrinks ==
  ASSUME NEW r \in Nat, NEW b \in Nat, NEW k \in Nat, 0 < k, k <= b
  PROVE  r * (b - k) \in Nat /\ r * b \in Nat /\ r * (b - k) + r <= r * b
<1>1. r * b = r * (b - k) + r * k
  BY SMT
<1>2. r * k = r * (k - 1) + r
  BY SMT
<1>3. r * (b - k) \in Nat /\ r * (k - 1) \in Nat /\ r * b \in Nat
  BY SMT
<1> QED BY <1>1, <1>2, <1>3

\* The messages left, phase by phase.
MessageTable ==
  /\ pc = "cbw" => MessagesLeft = 14
  /\ pc = "data" => MessagesLeft = 12 + stale
  /\ pc = "stallData" => MessagesLeft = 11
  /\ pc = "csw" /\ again = 0 => MessagesLeft = 8 + stale + (IF dphase = "last" THEN 1 ELSE 0)
  /\ pc = "csw" /\ again # 0 => MessagesLeft = 4 + stale + (IF dphase = "last" THEN 1 ELSE 0)
  /\ pc = "stallCsw" => MessagesLeft = 7
  /\ pc = "reset" => MessagesLeft = 3
  /\ pc = "clearIn" => MessagesLeft = 2
  /\ pc = "clearOut" => MessagesLeft = 1
  /\ pc \in {"idle", "good", "failed"} => MessagesLeft = 0

\* The table is what MessagesLeft defines.
LEMMA Messages == MessageTable
BY Zenon DEF MessageTable, MessagesLeft

\* Within a command, every step of the transport leaves fewer messages.
LEMMA FewerMessages ==
  IInv /\ Transport => MessagesLeft' < MessagesLeft /\ MessagesLeft' \in Nat /\ MessagesLeft \in Nat
<1> SUFFICES ASSUME IInv, Transport
             PROVE MessagesLeft' < MessagesLeft /\ MessagesLeft' \in Nat /\ MessagesLeft \in Nat
  BY Zenon
<1>0. (stale = 0 \/ stale = 1) /\ (stale' = 0 \/ stale' = 1)
  <2>1. [Next]_vars
    BY Zenon DEF Transport, Next, Step
  <2> QED BY <2>1, DeviceStep DEF IInv, TypeOK, DeviceType
<1>7. MessageTable /\ MessageTable'
  <2>1. MessageTable
    BY Zenon, Messages
  <2>2. MessageTable'
    BY Zenon DEF MessageTable, MessagesLeft
  <2> QED BY <2>1, <2>2
<1>1. CASE usb_stor_BBB_comdat
  <2>1. pc = "cbw" /\ pc' \in {"csw", "data", "reset"}
    BY Zenon, <1>1 DEF usb_stor_BBB_comdat, CbwSent
  <2> QED BY <1>0, <1>7, <2>1 DEF MessageTable
<1>2. CASE DataIn
  <2>1. pc = "data"
    BY Zenon, <1>2 DEF DataIn
  <2>2. pc' \in {"csw", "stallData", "reset"} \/ (pc' = "data" /\ stale = 1 /\ stale' = 0)
    BY Zenon, <1>2 DEF DataIn, DataInAll, DataInShifted, DataInShort, DataInStall, DataInError, DataInStale
  <2> QED BY <1>0, <1>7, <2>1, <2>2 DEF MessageTable
<1>3. CASE DataOut
  <2>1. pc = "data" /\ pc' \in {"csw", "stallData", "reset"}
    BY Zenon, <1>3 DEF DataOut, DataOutAll, DataOutStall, DataOutError, DataOutNoCommand
  <2> QED BY <1>0, <1>7, <2>1 DEF MessageTable
<1>4. CASE usb_stor_BBB_clear_endpt_stall
  <2>1. \/ pc = "stallData" /\ pc' \in {"csw", "reset"}
        \/ pc = "stallCsw" /\ pc' = "reset"
        \/ pc = "stallCsw" /\ pc' = "csw" /\ again' = 1
    <3>1. pc \in {"stallData", "stallCsw"} /\ pc' \in {"csw", "reset"}
      BY <1>4, Zenon DEF usb_stor_BBB_clear_endpt_stall
    <3>2. pc = "stallCsw" /\ pc' = "csw" => again' = 1
      BY <1>4, Zenon DEF usb_stor_BBB_clear_endpt_stall
    <3> QED BY <3>1, <3>2
  <2> QED BY <1>0, <1>7, <2>1 DEF MessageTable
<1>5. CASE Csw
  <2>1. pc = "csw" /\ again' = again
    BY Zenon, <1>5 DEF Csw
  <2>2. \/ pc' \in {"reset", "good", "failed"}
        \/ pc' = "stallCsw" /\ again = 0
        \/ pc' = "csw" /\ stale = 1 /\ stale' = 0 /\ dphase' = dphase
        \/ pc' = "csw" /\ stale' = stale /\ dphase = "last" /\ dphase' = "csw"
    BY Zenon, <1>5 DEF Csw, CswStalled, CswPacket, CswData, CheckCsw
  <2> QED BY <1>0, <1>7, <2>1, <2>2 DEF MessageTable
<1>6. CASE BBB_reset \/ ClearIn \/ ClearOut
  <2>1. \/ pc = "reset" /\ pc' \in {"clearIn", "failed"}
        \/ pc = "clearIn" /\ pc' = "clearOut"
        \/ pc = "clearOut" /\ pc' = "failed"
    BY Zenon, <1>6 DEF BBB_reset, ClearIn, ClearOut
  <2> QED BY <1>7, <2>1 DEF MessageTable
<1> QED BY <1>1, <1>2, <1>3, <1>4, <1>5, <1>6 DEF Transport

\* The commands left are a number.
LEMMA CommandsNat == TypeOK => CommandsLeft \in Nat
<1> SUFFICES ASSUME TypeOK PROVE CommandsLeft \in Nat
  BY Zenon
<1>1. /\ RW_TRIES \in Nat /\ CAPACITY_TRIES \in Nat /\ READY_TRIES \in Nat
      /\ blks \in Nat /\ retry \in Nat /\ sensing \in {0, 1}
  BY Zenon, TriesAssumption DEF TypeOK, CallerType
<1>2. RW_TRIES * blks \in Nat
  BY <1>1, SMT
<1> DEFINE p == RW_TRIES * blks
<1>3. p \in Nat /\ CommandsLeft = (IF cmd \in BlockOps THEN 2 * p + 2 * retry + (1 - sensing)
        ELSE IF cmd = "inquiry" THEN 2 * (CAPACITY_TRIES + READY_TRIES + retry)
        ELSE IF cmd = "ready" THEN 2 * (CAPACITY_TRIES + retry) + (1 - sensing)
        ELSE retry)
  BY Zenon, <1>2 DEF CommandsLeft
<1> HIDE DEF p
<1> QED BY <1>1, <1>3

\* Between commands, every command issued leaves fewer to come.
LEMMA FewerCommands ==
  IInv /\ Caller /\ pc' # "idle" => CommandsLeft' < CommandsLeft /\ CommandsLeft \in Nat /\ CommandsLeft' \in Nat
<1> SUFFICES ASSUME IInv, Caller, pc' # "idle"
             PROVE CommandsLeft' < CommandsLeft /\ CommandsLeft \in Nat /\ CommandsLeft' \in Nat
  BY Zenon
<1>0. CallerType /\ TypeOK
  BY Zenon DEF IInv, TypeOK
<1>1. \A b \in Nat : RW_TRIES * b \in Nat
  BY TriesAssumption, SMT
<1>2. CASE ChunkDone
  <2>1. smallblks \in Nat /\ 0 < smallblks /\ smallblks <= blks
    BY Zenon, <1>0, <1>2, ChunkSize DEF ChunkDone, IInv, Accounting
  <2>2. /\ RW_TRIES * (blks - smallblks) \in Nat /\ RW_TRIES * blks \in Nat
        /\ RW_TRIES * (blks - smallblks) + RW_TRIES <= RW_TRIES * blks
    BY Zenon, <2>1, <1>0, TriesAssumption, Shrinks DEF CallerType
  <2>3. /\ sensing = 0 /\ sensing' = 0 /\ retry' = RW_TRIES - 1 /\ cmd \in BlockOps /\ cmd' = cmd
        /\ RW_TRIES * blks' = RW_TRIES * (blks - smallblks)
    BY Zenon, <1>2 DEF ChunkDone, Finish, Issue
  <2>4. CommandsLeft = 2 * (RW_TRIES * blks) + 2 * retry + 1
    BY <2>3 DEF CommandsLeft
  <2>5. CommandsLeft' = 2 * (RW_TRIES * blks') + 2 * (RW_TRIES - 1) + 1
    BY <2>3 DEF CommandsLeft
  <2> QED BY <1>0, <2>2, <2>3, <2>4, <2>5, TriesAssumption DEF CallerType
<1>3. CASE AskSense \/ TransferAgain \/ ReadyAgain
  <2>1. blks' = blks /\ cmd' = cmd
    BY Zenon, <1>3 DEF AskSense, TransferAgain, ReadyAgain, Finish, Issue
  <2>2. RW_TRIES * blks \in Nat /\ RW_TRIES * blks' = RW_TRIES * blks
    BY Zenon, <1>0, <1>1, <2>1 DEF CallerType
  <2>3. \/ sensing = 0 /\ sensing' = 1 /\ retry' = retry
        \/ sensing = 1 /\ sensing' = 0 /\ retry > 0 /\ retry' = retry - 1
    BY Zenon, <1>3 DEF AskSense, TransferAgain, ReadyAgain, Finish, Issue
  <2>4. cmd \in BlockOps \cup {"ready"} /\ "ready" \notin BlockOps
    BY Zenon, <1>3 DEF AskSense, TransferAgain, ReadyAgain, BlockOps
  <2> QED BY <1>0, <2>1, <2>2, <2>3, <2>4, TriesAssumption DEF CommandsLeft, CallerType
<1>4. CASE InfoGood \/ InfoFailed
  BY <1>0, <1>4, TriesAssumption DEF InfoGood, InfoFailed, InquiryFailed, CapacityFailed, Finish, Issue, CommandsLeft, CallerType, BlockOps
<1> QED BY <1>2, <1>3, <1>4 DEF Caller

\* A command weighs more than all of its messages.
LEMMA Weighs ==
  ASSUME NEW c \in Nat, NEW d \in Nat, NEW m \in Nat, NEW n \in Nat
  PROVE  /\ m < n => 16 * c + m < 16 * c + n
         /\ d < c => 16 * d + 14 < 16 * c + 0
OBVIOUS

\* For all sizes, tries and faults: each step of a call brings it nearer to its
\* end, so that usb_stor_read, usb_stor_write and usb_stor_get_info return.
THEOREM CallsEnd == Spec => Closer
<1>1. ASSUME IInv, [Next]_vars
      PROVE [pc # "idle" /\ pc' # "idle" /\ medium' = medium => Measure' < Measure]_vars
  <2>1. CASE UNCHANGED vars
    BY Zenon, <2>1
  <2>2. CASE usb_stor_read \/ usb_stor_write \/ usb_stor_get_info
    BY Zenon, <2>2 DEF usb_stor_read, usb_stor_write, usb_stor_get_info, Call
  <2>3. CASE MediumChanges
    BY Zenon, <2>3 DEF MediumChanges
  <2>4. CASE Transport
    <3>1. CommandsLeft' = CommandsLeft
      BY Zenon, <1>1, <2>4, TransportFrame DEF CommandsLeft, IInv
    <3>2. CommandsLeft \in Nat
      BY Zenon, <1>1, CommandsNat DEF IInv
    <3>3. MessagesLeft' < MessagesLeft /\ MessagesLeft' \in Nat /\ MessagesLeft \in Nat
      BY Zenon, <1>1, <2>4, FewerMessages
    <3>4. Measure = 16 * CommandsLeft + MessagesLeft /\ Measure' = 16 * CommandsLeft' + MessagesLeft'
      BY Zenon DEF Measure
    <3>5. 16 * CommandsLeft + MessagesLeft' < 16 * CommandsLeft + MessagesLeft
      BY Zenon, <3>2, <3>3, Weighs
    <3>6. Measure' < Measure
      BY <3>1, <3>4, <3>5, Zenon
    <3> QED BY <3>6
  <2>5. CASE Caller /\ pc' # "idle"
    <3>1. MessagesLeft = 0 /\ MessagesLeft' = 14
      BY Zenon, <2>5 DEF Caller, ChunkDone, AskSense, TransferAgain, ReadyAgain, InfoGood, InfoFailed, InquiryFailed, CapacityFailed, Finish, Issue, MessagesLeft
    <3>2. CommandsLeft' < CommandsLeft /\ CommandsLeft \in Nat /\ CommandsLeft' \in Nat
      BY Zenon, <1>1, <2>5, FewerCommands
    <3>3. Measure = 16 * CommandsLeft + 0 /\ Measure' = 16 * CommandsLeft' + 14
      BY <3>1, Zenon DEF Measure
    <3>4. 16 * CommandsLeft' + 14 < 16 * CommandsLeft + 0
      BY Zenon, <3>2, Weighs
    <3>5. Measure' < Measure
      BY <3>3, <3>4, Zenon
    <3> QED BY <3>5
  <2> QED BY <1>1, <2>1, <2>2, <2>3, <2>4, <2>5 DEF Next, Step, Transport
<1> QED BY <1>1, Invariance, PTL DEF Spec, Closer

\* Sense data read for the present command is about the medium, which does not
\* go away within a call.
FreshSense == senseFresh = 1 /\ sense = "absent" /\ pc # "idle" => medium = "absent"

\* Only a REQUEST SENSE that delivers all of its answer makes the sense fresh.
LEMMA FreshSenseStep == TypeOK /\ FreshSense /\ [Next]_vars => FreshSense'
<1> SUFFICES ASSUME TypeOK, FreshSense, [Next]_vars PROVE FreshSense'
  BY Zenon
<1>1. CASE UNCHANGED vars
  BY Zenon, <1>1 DEF vars, caller, host, device, history, FreshSense
<1>2. CASE usb_stor_read \/ usb_stor_write \/ usb_stor_get_info
  BY <1>2 DEF usb_stor_read, usb_stor_write, usb_stor_get_info, Call, FreshSense
<1>3. CASE MediumChanges
  BY Zenon, <1>3 DEF MediumChanges, FreshSense, caller, host, history
<1>4. CASE Caller
  <2>1. pc # "idle" /\ UNCHANGED <<sense, medium>> /\ (senseFresh' = senseFresh \/ senseFresh' = 0)
    BY Zenon, <1>4 DEF Caller, ChunkDone, AskSense, TransferAgain, ReadyAgain, InfoGood, InfoFailed, InquiryFailed, CapacityFailed, device
  <2> QED BY <2>1 DEF FreshSense
<1>5. CASE Transport
  <2>1. pc # "idle" /\ medium' = medium
    BY Zenon, <1>5, TransportFrame
  <2>2. \/ UNCHANGED <<sense, senseFresh>>
        \/ senseFresh' = senseFresh /\ sense' = "other"
        \/ senseFresh' = 1 /\ sense' = SenseOf(medium)
    <3>1. CASE DataIn
      <4>1. ASSUME NEW n, Arrive(n)
            PROVE  \/ UNCHANGED <<sense, senseFresh>>
                   \/ senseFresh' = 1 /\ sense' = SenseOf(medium)
        <5>1. CASE Op = "sense" /\ Same("in") /\ n = Length(Op)
          BY <4>1, <5>1, Zenon DEF Arrive
        <5>2. CASE ~(Op = "sense" /\ Same("in") /\ n = Length(Op))
          BY <4>1, <5>2, Zenon DEF Arrive
        <5> QED BY <5>1, <5>2
      <4>2. \/ UNCHANGED <<sense, senseFresh>>
            \/ DataInStale
            \/ \E n : Arrive(n)
        BY <3>1, Zenon DEF DataIn, DataInAll, DataInShifted, DataInShort, DataInStall, DataInError
      <4>3. DataInStale => \/ UNCHANGED <<sense, senseFresh>>
                           \/ senseFresh' = senseFresh /\ sense' = "other"
        BY Zenon DEF DataInStale
      <4> QED BY <4>1, <4>2, <4>3
    <3>2. CASE ~DataIn
      BY Zenon, <1>5, <3>2 DEF Transport, usb_stor_BBB_comdat, DataOut, usb_stor_BBB_clear_endpt_stall, Csw,
         BBB_reset, ClearIn, ClearOut, usb_clear_halt, caller
    <3> QED BY <3>1, <3>2
  <2> QED BY <2>1, <2>2 DEF FreshSense, SenseOf
<1> QED BY <1>1, <1>2, <1>3, <1>4, <1>5 DEF Next, Step, Transport

\* For all sizes, tries and faults: usb_test_unit_ready gives up early only for
\* want of a medium, or when its REQUEST SENSE failed.
THEOREM NoMedium == Spec => []NoMediumIsTrue
<1>1. Init => FreshSense
  BY Zenon DEF Init, FreshSense
<1>2. IInv /\ FreshSense /\ [Next]_vars => FreshSense'
  BY Zenon, FreshSenseStep DEF IInv
<1>3. IInv /\ FreshSense => NoMediumIsTrue
  BY Zenon DEF FreshSense, NoMediumIsTrue, IInv, TypeOK, CallerType
<1> QED BY <1>1, <1>2, <1>3, Invariance, PTL DEF Spec
=============================================================================
