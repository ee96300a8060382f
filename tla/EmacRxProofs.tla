--------------------------- MODULE EmacRxProofs ---------------------------
(***************************************************************************)
(* Proofs about the receive ring, for every ring size and every bound.     *)
(***************************************************************************)
EXTENDS EmacRx, TLAPS

LEMMA BumpType == \A i \in Slots : Bump(i) \in Slots
  BY RingAssumption DEF Slots, Bump

\* What an initialisation leaves behind has the right types.
LEMMA ResetType ==
  ASSUME TypeOK, RingReset
  PROVE  /\ full' = {} /\ bad' = {} /\ buf' = buf
         /\ mal' \in Slots /\ up' \in BOOLEAN
         /\ rx_slot' \in Slots /\ rx_i_index' \in Slots /\ rx_u_index' \in Slots
         /\ rx_ready' \in [Slots -> Slots \cup {-1}]
         /\ base' \in Nat /\ inits' \in Nat
         /\ pkts_rx' \in Nat /\ pkts_handled' \in Nat /\ handed' \in Seq(Nat)
  BY SMTT(30), RingAssumption DEF TypeOK, RingReset, Slots

LEMMA TypeStep == TypeOK /\ [Next]_vars => TypeOK'
<1> SUFFICES ASSUME TypeOK, [Next]_vars PROVE TypeOK'
  BY Zenon
<1> USE RingAssumption DEF TypeOK, FaultKinds, hwVars, isrVars, userVars
<1>1. ASSUME NEW ok \in BOOLEAN, MalReceive(ok) PROVE TypeOK'
  BY <1>1, BumpType DEF MalReceive
<1>2. CASE MalDescError
  BY Zenon, <1>2 DEF MalDescError
<1>3. CASE mal_err
  BY ZenonT(40), <1>3, ResetType DEF mal_err
<1>4. CASE EnterRcv
  <2>1. loop_count' \in 0 .. NUM_RX_BUFF
    BY <1>4 DEF EnterRcv
  <2> QED
    BY <1>4, <2>1, Zenon DEF EnterRcv
<1>5. CASE RcvBad
  BY <1>5 DEF RcvBad, MoreToDo
<1>6. CASE RcvGood
  BY <1>6, BumpType DEF RcvGood, MoreToDo
<1>7. CASE RcvDone
  BY <1>7 DEF RcvDone
<1>8. CASE RxEnter
  BY Zenon, <1>8 DEF RxEnter
<1>9. CASE RxPoll
  BY Zenon, <1>9 DEF RxPoll
<1>10. CASE RxNetReceive
  BY <1>10 DEF RxNetReceive
<1>11. CASE RxFree
  BY <1>11, BumpType DEF RxFree
<1>12. CASE RxRestart
  BY Zenon, <1>12, ResetType DEF RxRestart
<1>13. CASE RxHalt
  BY ZenonT(40), <1>13 DEF RxHalt
<1>14. CASE EthInit
  BY Zenon, <1>14, ResetType DEF EthInit
<1>15. CASE EthHalt
  BY ZenonT(40), <1>15 DEF EthHalt
<1>16. CASE UNCHANGED vars
  BY Zenon, <1>16 DEF vars
<1> QED
  BY ZenonT(40), <1>1, <1>2, <1>3, <1>4, <1>5, <1>6, <1>7, <1>8, <1>9, <1>10, <1>11,
     <1>12, <1>13, <1>14, <1>15, <1>16 DEF Next, Isr, EthRx

LEMMA TypeInit == Init => TypeOK
<1> SUFFICES ASSUME Init PROVE TypeOK
  BY Zenon
<1>1. 0 \in Slots /\ 0 \in Nat /\ 0 \in 0 .. NUM_RX_BUFF
  BY RingAssumption DEF Slots
<1>2. buf \in [Slots -> Nat] /\ rx_ready \in [Slots -> Slots \cup {-1}]
  BY Zenon DEF Init
<1>3. handed \in Seq(Nat) /\ faults \subseteq FaultKinds
  BY DEF Init
<1> QED
  BY <1>1, <1>2, <1>3, Zenon DEF Init, TypeOK

\* The variables of the ring keep their types, whatever faults occur.
THEOREM TypeCorrect == Spec => []TypeOK
  BY TypeInit, TypeStep, PTL DEF Spec

-----------------------------------------------------------------------------------------------------------------------------------------------
\* No buffer is ever queued twice, whatever faults occur: rx_slot and
\* rx_i_index move together.
THEOREM NeverQueuedTwice == Spec => []QueuedOnce
<1> USE DEF QueuedOnce, TypeOK, hwVars, isrVars, userVars
<1>1. Init => QueuedOnce
  BY Zenon DEF Init
<1>2. TypeOK /\ QueuedOnce /\ [Next]_vars => QueuedOnce'
  <2> SUFFICES ASSUME TypeOK, QueuedOnce, [Next]_vars PROVE QueuedOnce'
    BY Zenon
  <2>1. CASE RingReset
    BY Zenon, <2>1 DEF RingReset
  <2>2. CASE RcvGood
    BY Zenon, <2>2 DEF RcvGood
  <2>3. CASE RxFree
    BY Zenon, <2>3 DEF RxFree
  <2>4. CASE UNCHANGED <<rx_ready, rx_slot, rx_i_index>>
    BY Zenon, <2>4
  <2> QED
    BY Zenon, <2>1, <2>2, <2>3, <2>4 DEF Next, Isr, EthRx, MalReceive, MalDescError, mal_err, EnterRcv,
       RcvBad, RcvDone, RxEnter, RxPoll, RxNetReceive, RxRestart, RxHalt, EthInit, EthHalt, vars
<1> QED
  BY <1>1, <1>2, TypeCorrect, PTL DEF Spec

-----------
\* Even when frames are flagged bad, the buffer in the hands of eth_rx and
\* NetReceive is never given to the MAL: enet_rcv frees only descriptors that
\* are not in rx_ready (it looks at rx_ready before it queues a second time).
LEMMA OwnStep ==
  ASSUME TypeOK, TypeOK', [Next]_vars,
         faults \subseteq {"badFrame"} => OwnInv, faults' \subseteq {"badFrame"}
  PROVE  OwnInv'
<1> USE RingAssumption DEF OwnInv, hwVars, isrVars, userVars
<1>1. ASSUME NEW ok \in BOOLEAN, MalReceive(ok) PROVE OwnInv'
  BY Zenon, <1>1 DEF MalReceive, TypeOK
<1>2. CASE MalDescError
  BY Zenon, <1>2 DEF MalDescError
<1>3. CASE mal_err
  BY Zenon, <1>3 DEF mal_err, RingReset, Interruptible, TypeOK
<1>4. CASE EnterRcv
  BY Zenon, <1>4 DEF EnterRcv
<1>5. CASE RcvBad
  BY Zenon, <1>5 DEF RcvBad, TypeOK
<1>6. CASE RcvGood
  BY <1>6 DEF RcvGood, MoreToDo, TypeOK
<1>7. CASE RcvDone
  BY Zenon, <1>7 DEF RcvDone
<1>8. CASE RxEnter
  BY Zenon, <1>8 DEF RxEnter
<1>9. CASE RxPoll
  BY Zenon, <1>9 DEF RxPoll, TypeOK
<1>10. CASE RxNetReceive
  BY Zenon, <1>10 DEF RxNetReceive
<1>11. CASE RxFree
  BY SMTT(30), <1>11 DEF RxFree, TypeOK
<1>12. CASE RxRestart
  BY Zenon, <1>12 DEF RxRestart
<1>13. CASE RxHalt
  BY Zenon, <1>13 DEF RxHalt
<1>14. CASE EthInit
  BY Zenon, <1>14 DEF EthInit, RingReset, TypeOK
<1>15. CASE EthHalt
  BY Zenon, <1>15 DEF EthHalt
<1>16. CASE UNCHANGED vars
  BY Zenon, <1>16 DEF vars
<1> QED
  BY Zenon, <1>1, <1>2, <1>3, <1>4, <1>5, <1>6, <1>7, <1>8, <1>9, <1>10, <1>11,
     <1>12, <1>13, <1>14, <1>15, <1>16 DEF Next, Isr, EthRx

-----------------------------------------------------------------------------
\* With neither bad frames nor an initialisation under eth_rx, the ring is a
\* queue.  The proof follows the descriptors by their distance from rx_u_index.
LEMMA OffSlotAt ==
  ASSUME rx_u_index \in Slots
  PROVE  /\ \A d \in 0 .. NUM_RX_BUFF - 1 : SlotAt(d) \in Slots /\ Off(SlotAt(d)) = d
         /\ SlotAt(NUM_RX_BUFF) = rx_u_index
         /\ \A i \in Slots : Off(i) \in 0 .. NUM_RX_BUFF - 1 /\ SlotAt(Off(i)) = i
  BY RingAssumption DEF Slots, Off, SlotAt

LEMMA BumpSlotAt ==
  ASSUME rx_u_index \in Slots
  PROVE  \A d \in 0 .. NUM_RX_BUFF - 1 : Bump(SlotAt(d)) = SlotAt(d + 1)
  BY RingAssumption DEF Slots, Bump, SlotAt

\* The counts of queued and of pending frames are integers.
LEMMA CountType == TypeOK => Queued \in Int /\ Pending \in Int
  BY DEF TypeOK, Queued, Pending

\* An initialised ring satisfies the invariant.
LEMMA ResetRing ==
  ASSUME TypeOK, TypeOK', RingReset, arrived' = arrived,
         pc' \in {"idle", "poll"}, irq' = "none"
  PROVE  RingInv'
<1> USE RingAssumption
<1>1. Queued' = 0 /\ Pending' = 0 /\ rx_u_index' = 0
  BY DEF RingReset, Queued, Pending, TypeOK
<1>2. IndexInv'
  BY <1>1 DEF IndexInv, SlotAt, RingReset
<1>3. QueueInv'
  BY <1>1 DEF QueueInv, RingReset, Off, Slots
<1>4. DescInv'
  BY <1>1 DEF DescInv, RingReset, Off, Slots
<1>5. UserInv' /\ HandedInv' /\ WakeInv'
  BY <1>1 DEF UserInv, HandedInv, FifoSinceInit, WakeInv, RingReset
<1> QED
  BY Zenon, <1>2, <1>3, <1>4, <1>5 DEF RingInv

LEMMA RingStep ==
  ASSUME TypeOK, TypeOK', [Next]_vars, faults = {} => RingInv, faults' = {}
  PROVE  RingInv'
<1> USE RingAssumption
<1>a. /\ rx_u_index \in Slots /\ Queued \in Int /\ Pending \in Int
      /\ pkts_rx \in Nat /\ pkts_handled \in Nat /\ arrived \in Nat /\ base \in Nat
  BY ZenonT(40), CountType DEF TypeOK
<1>1. ASSUME NEW ok \in BOOLEAN, MalReceive(ok) PROVE RingInv'
  <2> USE DEF MalReceive, hwVars, isrVars, userVars
  <2>0. RingInv
    BY Zenon, <1>1
  <2> USE <2>0
  <2>1. ok
    BY Zenon, <1>1
  <2>2. Queued' = Queued /\ Pending' = Pending + 1
    BY <1>1, <1>a DEF Queued, Pending
  <2>3. \A i : Off(i)' = Off(i) /\ \A d : SlotAt(d)' = SlotAt(d)
    BY Zenon, <1>1 DEF Off, SlotAt
  <2>4. Queued + Pending < NUM_RX_BUFF /\ Off(mal) = Queued + Pending
    BY <1>1, <1>a, OffSlotAt DEF RingInv, IndexInv, DescInv
  <2>5. IndexInv'
    BY <1>1, <1>a, <2>2, <2>3, <2>4, BumpSlotAt DEF RingInv, IndexInv
  <2>6. QueueInv'
    BY Zenon, <1>1, <2>2, <2>3 DEF RingInv, QueueInv
  <2>7. DescInv'
    <3> SUFFICES ASSUME NEW i \in Slots
                 PROVE  /\ i \in full' <=> Off(i) < Queued + Pending + 1
                        /\ i \in full' =>
                             /\ i \notin bad'
                             /\ buf'[i] = base + pkts_handled + Off(i) + 1
      BY <1>1, <1>a, <2>2, <2>3 DEF DescInv
    <3>1. CASE i = mal
      <4>1. buf'[i] = arrived + 1
        BY Zenon, <1>1, <3>1 DEF TypeOK
      <4> QED
        BY <1>1, <1>a, <2>1, <2>4, <3>1, <4>1 DEF Queued, Pending
    <3>2. CASE i # mal
      <4>1. Off(i) # Queued + Pending
        BY Zenon, <1>a, <2>4, <3>2, OffSlotAt DEF RingInv, IndexInv
      <4>2. buf'[i] = buf[i] /\ (i \in full' <=> i \in full) /\ bad' = bad \ {mal}
        BY Zenon, <1>1, <2>1, <3>2 DEF TypeOK
      <4>3. Off(i) \in Int
        BY <1>a, OffSlotAt
      <4> QED
        BY <1>a, <4>1, <4>2, <4>3 DEF RingInv, DescInv
    <3> QED
      BY Zenon, <3>1, <3>2
  <2>8. UserInv' /\ HandedInv' /\ WakeInv'
    BY Zenon, <1>1, <2>2 DEF RingInv, UserInv, HandedInv, FifoSinceInit, WakeInv
  <2> QED
    BY Zenon, <2>5, <2>6, <2>7, <2>8 DEF RingInv
<1>2. CASE MalDescError \/ RxHalt \/ EthHalt \/ RxEnter
  BY <1>2 DEF MalDescError, RxHalt, EthHalt, RxEnter, RingInv, IndexInv, QueueInv,
     DescInv, UserInv, HandedInv, FifoSinceInit, WakeInv, Queued, Pending, Off, SlotAt,
     hwVars, isrVars, userVars
<1>3. CASE mal_err
  BY ZenonT(40), <1>3, ResetRing DEF mal_err, Interruptible, TypeOK
<1>4. CASE EnterRcv
  <2> USE DEF EnterRcv, hwVars, isrVars, userVars
  <2>0. RingInv
    BY Zenon, <1>4
  <2> USE <2>0
  <2>1. IndexInv' /\ QueueInv' /\ DescInv' /\ UserInv' /\ HandedInv'
    BY Zenon, <1>4 DEF Interruptible, RingInv, IndexInv, QueueInv, DescInv, UserInv, HandedInv,
       FifoSinceInit, Queued, Pending, Off, SlotAt
  <2>2. WakeInv'
    BY Zenon, <1>4, <1>a DEF RingInv, WakeInv, IndexInv, Queued, Pending
  <2> QED
    BY Zenon, <2>1, <2>2 DEF RingInv
<1>5. CASE RcvBad
  BY Zenon, <1>5, <1>a DEF RcvBad, MoreToDo, RingInv, DescInv, TypeOK
<1>6. CASE RcvGood
  <2> USE DEF RcvGood, hwVars, isrVars, userVars
  <2>0. RingInv
    BY Zenon, <1>6
  <2> USE <2>0
  <2>1. Queued' = Queued + 1 /\ Pending' = Pending - 1
    BY <1>6, <1>a DEF Queued, Pending
  <2>2. \A i : Off(i)' = Off(i) /\ \A d : SlotAt(d)' = SlotAt(d)
    BY Zenon, <1>6 DEF Off, SlotAt
  <2>3. Queued < NUM_RX_BUFF /\ Off(rx_slot) = Queued /\ Pending > 0
    <3>1. Queued < NUM_RX_BUFF
      <4> SUFFICES ASSUME Queued = NUM_RX_BUFF PROVE FALSE
        BY <1>a DEF RingInv, IndexInv
      <4> QED
        BY <1>6, <1>a, OffSlotAt DEF RingInv, IndexInv, QueueInv, Slots
    <3> QED
      BY <1>6, <1>a, <3>1, OffSlotAt DEF RingInv, IndexInv, DescInv, MoreToDo
  <2>4. IndexInv'
    BY <1>6, <1>a, <2>1, <2>2, <2>3, BumpSlotAt DEF RingInv, IndexInv
  <2>5. QueueInv'
    <3> SUFFICES ASSUME NEW i \in Slots
                 PROVE  rx_ready'[i] = IF Off(i) < Queued + 1 THEN i ELSE -1
      BY Zenon, <1>a, <2>1, <2>2 DEF QueueInv
    <3>1. CASE i = rx_slot
      BY <1>6, <1>a, <2>3, <3>1 DEF RingInv, IndexInv, TypeOK
    <3>2. CASE i # rx_slot
      <4>1. Off(i) # Queued /\ Off(i) \in Int
        BY SMTT(30), <1>a, <2>3, <3>2, OffSlotAt DEF RingInv, IndexInv
      <4>2. rx_ready'[i] = rx_ready[i]
        BY Zenon, <1>6, <3>2 DEF RingInv, IndexInv, TypeOK
      <4> QED
        BY <1>a, <4>1, <4>2 DEF RingInv, QueueInv
    <3> QED
      BY Zenon, <3>1, <3>2
  <2>6. DescInv'
    BY <1>6, <1>a, <2>1, <2>2 DEF RingInv, DescInv
  <2>7. UserInv' /\ HandedInv'
    BY SMTT(30), <1>6, <1>a, <2>1 DEF RingInv, UserInv, HandedInv, FifoSinceInit
  <2>8. WakeInv'
    BY <1>6, <1>a, <2>1 DEF RingInv, WakeInv, TypeOK
  <2> QED
    BY Zenon, <2>4, <2>5, <2>6, <2>7, <2>8 DEF RingInv
<1>7. CASE RcvDone
  <2> USE DEF RcvDone, hwVars, isrVars, userVars
  <2>0. RingInv
    BY Zenon, <1>7
  <2> USE <2>0
  <2>1. IndexInv' /\ QueueInv' /\ DescInv' /\ UserInv' /\ HandedInv'
    BY Zenon, <1>7 DEF RingInv, IndexInv, QueueInv, DescInv, UserInv, HandedInv,
       FifoSinceInit, Queued, Pending, Off, SlotAt
  <2>2. Pending = 0
    <3>1. CASE Queued = NUM_RX_BUFF
      BY <1>a, <3>1 DEF RingInv, IndexInv
    <3>2. CASE Queued # NUM_RX_BUFF
      <4>1. Queued \in 0 .. NUM_RX_BUFF - 1
        BY <1>a, <3>2 DEF RingInv, IndexInv
      <4>2. Off(rx_slot) = Queued /\ rx_ready[rx_i_index] = -1 /\ rx_slot \in Slots
        BY SMTT(30), <1>a, <4>1, OffSlotAt DEF RingInv, IndexInv, QueueInv
      <4>3. loop_count < NUM_RX_BUFF
        BY <1>7, <1>a, <4>1 DEF RingInv, WakeInv, TypeOK
      <4> QED
        BY <1>7, <1>a, <4>1, <4>2, <4>3 DEF RingInv, IndexInv, DescInv, MoreToDo
    <3> QED
      BY Zenon, <3>1, <3>2
  <2>3. WakeInv'
    BY <1>7, <2>2 DEF WakeInv, Pending
  <2> QED
    BY Zenon, <2>1, <2>3 DEF RingInv
<1>9. CASE RxPoll
  <2> USE DEF RxPoll, hwVars, isrVars, userVars
  <2>0. RingInv
    BY Zenon, <1>9
  <2> USE <2>0
  <2>1. IndexInv' /\ QueueInv' /\ DescInv' /\ HandedInv' /\ WakeInv'
    BY Zenon, <1>9 DEF RingInv, IndexInv, QueueInv, DescInv, HandedInv, WakeInv,
       FifoSinceInit, Queued, Pending, Off, SlotAt
  <2>2. UserInv'
    <3>1. user_index' # -1 => user_index' = rx_u_index /\ Queued > 0
      BY <1>9, <1>a, OffSlotAt DEF RingInv, QueueInv, Off, Slots
    <3> QED
      BY Zenon, <1>9, <3>1 DEF UserInv, Queued
  <2> QED
    BY Zenon, <2>1, <2>2 DEF RingInv
<1>10. CASE RxNetReceive
  <2> USE DEF RxNetReceive, hwVars, isrVars, userVars
  <2>0. RingInv
    BY Zenon, <1>10
  <2> USE <2>0
  <2>1. IndexInv' /\ QueueInv' /\ DescInv' /\ UserInv' /\ WakeInv'
    BY Zenon, <1>10 DEF RingInv, IndexInv, QueueInv, DescInv, UserInv, WakeInv,
       Queued, Pending, Off, SlotAt
  <2>2. HandedInv'
    <3>1. buf[user_index] = base + pkts_handled + 1
      BY SMTT(30), <1>10, <1>a DEF RingInv, UserInv, DescInv, IndexInv, Off, Slots
    <3>2. Len(handed) = pkts_handled /\ handed \in Seq(Nat) /\ buf[user_index] \in Nat
      BY <1>10, <1>a, <3>1 DEF RingInv, HandedInv, TypeOK
    <3>3. /\ Len(handed') = pkts_handled + 1
          /\ handed'[pkts_handled + 1] = base + pkts_handled + 1
          /\ \A k \in 1 .. pkts_handled : handed'[k] = handed[k]
      BY <1>10, <3>1, <3>2
    <3>4. \A k \in 1 .. pkts_handled : handed[k] = base + k
      BY Zenon, <3>2 DEF RingInv, HandedInv, FifoSinceInit
    <3>5. pc' = "net" /\ base' = base /\ pkts_handled' = pkts_handled
      BY Zenon, <1>10
    <3> QED
      BY SMTT(30), <1>a, <3>3, <3>4, <3>5 DEF HandedInv, FifoSinceInit
  <2> QED
    BY Zenon, <2>1, <2>2 DEF RingInv
<1>11. CASE RxFree
  <2> USE DEF RxFree, hwVars, isrVars, userVars
  <2>0. RingInv
    BY Zenon, <1>11
  <2> USE <2>0
  <2>1. user_index = rx_u_index /\ Queued > 0
    BY Zenon, <1>11 DEF RingInv, UserInv
  <2>2. Queued' = Queued - 1 /\ Pending' = Pending
    BY <1>11, <1>a DEF Queued, Pending
  <2>3. \A i \in Slots : Off(i)' = IF i = rx_u_index THEN NUM_RX_BUFF - 1 ELSE Off(i) - 1
    BY <1>11, <1>a DEF Off, Bump, Slots
  <2>4. \A d \in 1 .. NUM_RX_BUFF : SlotAt(d - 1)' = SlotAt(d)
    BY <1>11, <1>a DEF SlotAt, Bump, Slots
  <2>5. IndexInv'
    BY <1>11, <1>a, <2>1, <2>2, <2>4 DEF RingInv, IndexInv
  <2>6. QueueInv'
    <3> SUFFICES ASSUME NEW i \in Slots
                 PROVE  rx_ready'[i] = IF Off(i)' < Queued - 1 THEN i ELSE -1
      BY Zenon, <1>a, <2>2 DEF QueueInv
    <3>1. CASE i = rx_u_index
      BY SMTT(30), <1>11, <1>a, <2>3, <3>1 DEF RingInv, IndexInv, TypeOK
    <3>2. CASE i # rx_u_index
      <4>1. rx_ready'[i] = rx_ready[i] /\ Off(i) \in Int /\ Off(i)' = Off(i) - 1
        BY <1>11, <1>a, <2>3, <3>2, OffSlotAt DEF TypeOK
      <4> QED
        BY <1>a, <4>1 DEF RingInv, QueueInv
    <3> QED
      BY Zenon, <3>1, <3>2
  <2>7. DescInv'
    <3> SUFFICES ASSUME NEW i \in Slots
                 PROVE  /\ i \in full' <=> Off(i)' < Queued - 1 + Pending
                        /\ i \in full' =>
                             /\ i \notin bad
                             /\ buf[i] = base + (pkts_handled + 1) + Off(i)' + 1
      BY Zenon, <1>11, <1>a, <2>2 DEF DescInv
    <3>1. CASE i = rx_u_index
      BY SMTT(30), <1>11, <1>a, <2>1, <2>3, <3>1 DEF RingInv, IndexInv
    <3>2. CASE i # rx_u_index
      <4>1. (i \in full' <=> i \in full) /\ Off(i) \in Int /\ Off(i)' = Off(i) - 1
        BY <1>11, <1>a, <2>1, <2>3, <3>2, OffSlotAt
      <4> QED
        BY SMTT(30), <1>a, <4>1 DEF RingInv, DescInv
    <3> QED
      BY Zenon, <3>1, <3>2
  <2>8. UserInv' /\ HandedInv'
    BY <1>11, <1>a DEF RingInv, UserInv, HandedInv, FifoSinceInit
  <2>9. WakeInv'
    BY Zenon, <1>11, <1>a, <2>2 DEF RingInv, WakeInv, UserInv
  <2> QED
    BY Zenon, <2>5, <2>6, <2>7, <2>8, <2>9 DEF RingInv
<1>12. CASE RxRestart
  BY Zenon, <1>12 DEF RxRestart
<1>14. CASE EthInit
  BY Zenon, <1>14, ResetRing DEF EthInit
<1>16. CASE UNCHANGED vars
  BY Zenon, <1>16 DEF vars, RingInv, IndexInv, QueueInv, DescInv, UserInv, HandedInv,
     FifoSinceInit, WakeInv, Queued, Pending, Off, SlotAt, hwVars, isrVars, userVars
<1> QED
  BY Zenon, <1>1, <1>2, <1>3, <1>4, <1>5, <1>6, <1>7, <1>9, <1>10, <1>11,
     <1>12, <1>14, <1>16 DEF Next, Isr, EthRx

LEMMA RingInit == Init => RingInv
<1> SUFFICES ASSUME Init PROVE RingInv
  BY Zenon
<1> USE RingAssumption
<1>1. TypeOK
  BY Zenon, TypeInit
<1>2. IndexInv /\ QueueInv
  BY DEF Init, IndexInv, QueueInv, Queued, Pending, Off, SlotAt, Slots
<1>3. DescInv
  BY DEF Init, DescInv, Queued, Pending, Off, Slots
<1>4. UserInv /\ HandedInv /\ WakeInv
  BY DEF Init, UserInv, HandedInv, FifoSinceInit, WakeInv, Queued, Pending
<1> QED
  BY Zenon, <1>1, <1>2, <1>3, <1>4 DEF RingInv

\* The inductive invariant of the ring: a queue while undisturbed, ownership of
\* the buffers with bad frames.
THEOREM Invariance == Spec => []IInv
<1>1. Init => IInv
  BY Zenon, TypeInit, RingInit DEF Init, IInv, OwnInv
<1>2. IInv /\ [Next]_vars => IInv'
  BY Zenon, TypeStep, OwnStep, RingStep DEF IInv
<1> QED
  BY <1>1, <1>2, PTL DEF Spec

\* As long as the ring is not initialised inside of eth_rx, the MAL never gets
\* the buffer that eth_rx and NetReceive work on.
THEOREM OwnedBuffer == Spec => []BufferOwned
<1>1. IInv => BufferOwned
  BY Zenon DEF IInv, OwnInv, BufferOwned, TypeOK
<1> QED
  BY <1>1, Invariance, PTL

\* Frames are handed to NetReceive in order, each once and without a gap,
\* until the ring is disturbed, and again after the next initialisation.
THEOREM Fifo == Spec => []FifoSinceInit
<1>1. IInv => FifoSinceInit
  BY Zenon DEF IInv, RingInv, HandedInv, FifoSinceInit
<1> QED
  BY <1>1, Invariance, PTL

\* enet_rcv never misses a filled descriptor while no frame is bad.
THEOREM NoLostWakeup == Spec => []AllQueued
<1>1. IInv => AllQueued
  <2> SUFFICES ASSUME RingInv, ~eob, irq = "none", NEW i \in full
               PROVE  rx_ready[i] # -1
    BY Zenon DEF AllQueued, IInv
  <2>1. Queued \in Int /\ Pending = 0
    BY CountType DEF RingInv, WakeInv, IndexInv
  <2>2. i \in Slots /\ Off(i) < Queued
    BY <2>1 DEF RingInv, TypeOK, DescInv
  <2> QED
    BY <2>2 DEF RingInv, QueueInv, Slots
<1> QED
  BY <1>1, Invariance, PTL

-----------------------------------------------------------------------------
(* The refinement of RxQueue. *)

\* m frames from number f on.
FramesFrom(f, m) == [k \in 1 .. m |-> f + k]

\* What waits in the ring are the frames stored but not yet handed over.
WaitingInv ==
  /\ arrived - base - Len(handed) \in Nat
  /\ Waiting = FramesFrom(base + Len(handed), arrived - base - Len(handed))

\* That follows from the invariant of the ring.
LEMMA WaitingIs == RingInv => WaitingInv
<1> SUFFICES ASSUME RingInv PROVE WaitingInv
  BY Zenon
<1> DEFINE m == arrived - base - Len(handed)
<1>1. Len(handed) \in Nat /\ arrived \in Nat /\ base \in Nat /\ pkts_handled \in Nat
  BY DEF RingInv, TypeOK
<1>2. Queued \in Int /\ Pending \in Int /\ Queued + Pending = arrived - base - pkts_handled
  BY CountType DEF RingInv, TypeOK, Queued, Pending
<1>3. InNet \in {0, 1} /\ Len(handed) = pkts_handled + InNet
  BY Zenon DEF InNet, RingInv, HandedInv
<1>4. m = Queued + Pending - InNet /\ m \in Nat
  BY <1>1, <1>2, <1>3 DEF RingInv, IndexInv, UserInv, InNet
<1>5. ASSUME NEW k \in 1 .. m
      PROVE  buf[SlotAt(k - 1 + InNet)] = base + Len(handed) + k
  <2>1. k - 1 + InNet \in 0 .. NUM_RX_BUFF - 1 /\ k - 1 + InNet < Queued + Pending
    BY <1>2, <1>3, <1>4, <1>5, RingAssumption DEF RingInv, IndexInv
  <2>2. SlotAt(k - 1 + InNet) \in Slots /\ Off(SlotAt(k - 1 + InNet)) = k - 1 + InNet
    BY Zenon, <2>1, OffSlotAt DEF RingInv, TypeOK
  <2>3. buf[SlotAt(k - 1 + InNet)] = base + pkts_handled + (k - 1 + InNet) + 1
    BY Zenon, <2>1, <2>2 DEF RingInv, DescInv
  <2> QED
    BY <1>1, <1>3, <2>3
<1> QED
  BY Zenon, <1>4, <1>5 DEF WaitingInv, Waiting, FramesFrom

\* A frame more at the end, and one less at the front.
LEMMA FramesAppend ==
  ASSUME NEW f \in Nat, NEW m \in Nat
  PROVE  /\ FramesFrom(f, m) \in Seq(Nat) /\ Len(FramesFrom(f, m)) = m
         /\ FramesFrom(f, m + 1) = Append(FramesFrom(f, m), f + m + 1)
         /\ FramesFrom(f, m + 1) # <<>>
         /\ Head(FramesFrom(f, m + 1)) = f + 1
         /\ Tail(FramesFrom(f, m + 1)) = FramesFrom(f + 1, m)
         /\ FramesFrom(f, 0) = <<>>
<1>1. FramesFrom(f, m) \in Seq(Nat) /\ Len(FramesFrom(f, m)) = m
  BY DEF FramesFrom
<1>2. FramesFrom(f, m + 1) \in Seq(Nat) /\ Len(FramesFrom(f, m + 1)) = m + 1
  BY DEF FramesFrom
<1>3. FramesFrom(f, m + 1) = Append(FramesFrom(f, m), f + m + 1)
  BY DEF FramesFrom
<1>4. FramesFrom(f, m + 1) # <<>> /\ Head(FramesFrom(f, m + 1)) = f + 1
  BY <1>2 DEF FramesFrom
<1>5. Tail(FramesFrom(f, m + 1)) = FramesFrom(f + 1, m)
  <2> DEFINE s == FramesFrom(f, m + 1)
  <2>1. s \in Seq(Nat) /\ Len(s) = m + 1 /\ \A k \in 1 .. m : s[k + 1] = f + 1 + k
    BY <1>2 DEF FramesFrom
  <2> HIDE DEF s
  <2> DEFINE t == Tail(s)
  <2>2. t \in Seq(Nat) /\ Len(t) = m /\ \A k \in 1 .. m : t[k] = s[k + 1]
    BY <2>1
  <2> HIDE DEF t
  <2>3. t = [k \in 1 .. m |-> t[k]]
    BY <2>2
  <2>4. FramesFrom(f + 1, m) = [k \in 1 .. m |-> t[k]]
    BY Zenon, <2>1, <2>2 DEF FramesFrom
  <2> QED
    BY Zenon, <2>3, <2>4 DEF s, t
<1>6. FramesFrom(f, 0) = <<>>
  <2>1. FramesFrom(f, 0) \in Seq(Nat) /\ Len(FramesFrom(f, 0)) = 0
    BY DEF FramesFrom
  <2> QED
    BY <2>1
<1> QED
  BY Zenon, <1>1, <1>3, <1>4, <1>5, <1>6

\* While undisturbed, a step that neither stores nor hands over a frame leaves
\* the queue as it is.
LEMMA SameWaiting ==
  ASSUME RingInv, RingInv', UNCHANGED <<arrived, base, handed>>
  PROVE  Waiting' = Waiting
<1>1. WaitingInv
  BY Zenon, WaitingIs
<1>2. WaitingInv'
  BY WaitingIs, PTL
<1> QED
  BY Zenon, <1>1, <1>2 DEF WaitingInv, FramesFrom

\* An initialised ring is an empty queue.
LEMMA ResetQueue ==
  ASSUME IInv', faults' = {}, arrived' = arrived, RingReset, pc' # "net"
  PROVE  Queue!Next
<1>1. WaitingInv'
  <2>1. RingInv'
    BY Zenon DEF IInv
  <2> QED
    BY <2>1, WaitingIs, PTL
<1>2. base' = arrived /\ handed' = <<>> /\ arrived' \in Nat
  BY Zenon DEF RingReset, IInv, TypeOK
<1>3. Waiting' = FramesFrom(arrived, 0)
  BY <1>1, <1>2 DEF WaitingInv, FramesFrom
<1>4. Waiting' = <<>>
  BY Zenon, <1>2, <1>3, FramesAppend
<1> QED
  BY Zenon, <1>2, <1>4 DEF Queue!Next, Queue!Reset, Queue!Empty, InNet

\* Every step of the ring is a step of the queue, or none: frames are put in
\* by MalReceive, taken by RxNetReceive and done with by RxFree.
LEMMA QueueStep ==
  ASSUME IInv, IInv', [Next]_vars
  PROVE  [Queue!Next]_(Queue!vars)
<1>1. CASE faults' # {}
  <2>1. arrived' \in {arrived, arrived + 1}
    BY Zenon DEF Next, vars, Isr, EthRx, MalReceive, MalDescError, mal_err, EnterRcv, RcvBad, RcvGood,
       RcvDone, RxEnter, RxPoll, RxNetReceive, RxFree, RxRestart, RxHalt, EthInit, EthHalt, hwVars
  <2> QED
    BY Zenon, <1>1, <2>1 DEF Queue!Next, Queue!Disturb, Queue!Empty
<1>2. CASE faults # {} /\ faults' = {}
  <2>1. mal_err \/ EthInit
    BY Zenon, <1>2 DEF Next, vars, Isr, EthRx, MalReceive, MalDescError, EnterRcv, RcvBad, RcvGood,
       RcvDone, RxEnter, RxPoll, RxNetReceive, RxFree, RxRestart, RxHalt, EthHalt
  <2>2. RingReset /\ arrived' = arrived /\ pc' # "net"
    BY Zenon, <2>1 DEF mal_err, EthInit, Interruptible
  <2> QED
    BY Zenon, <1>2, <2>2, ResetQueue
<1>3. CASE faults = {} /\ faults' = {}
  <2> DEFINE f == base + Len(handed)
             m == arrived - base - Len(handed)
  <2>1. RingInv /\ RingInv' /\ TypeOK /\ TypeOK'
    BY Zenon, <1>3 DEF IInv
  <2>2. WaitingInv /\ WaitingInv'
    BY <2>1, WaitingIs, PTL
  <2>3. f \in Nat /\ m \in Nat /\ arrived = f + m
    BY <2>1, <2>2 DEF WaitingInv, TypeOK
  <2>4. ASSUME UNCHANGED <<arrived, base, handed>>, InNet' = InNet
        PROVE  UNCHANGED Queue!vars
    BY Zenon, <1>3, <2>1, <2>4, SameWaiting DEF Queue!vars
  <2>5. CASE \E ok \in BOOLEAN : MalReceive(ok)
    <3>1. /\ mal \notin full /\ arrived' = arrived + 1
          /\ UNCHANGED <<base, handed, pc, pkts_handled>>
      BY Zenon, <2>5 DEF MalReceive, userVars
    <3>2. Waiting' = FramesFrom(f, m + 1)
      BY <2>1, <2>2, <2>3, <3>1 DEF WaitingInv, TypeOK
    <3>3. Waiting = FramesFrom(f, m)
      BY Zenon, <2>2 DEF WaitingInv
    <3>4. Waiting' = Append(Waiting, arrived') /\ Len(Waiting) = m
      <4> HIDE DEF f, m
      <4>1. /\ FramesFrom(f, m + 1) = Append(FramesFrom(f, m), f + m + 1)
            /\ Len(FramesFrom(f, m)) = m
        BY Zenon, <2>3, FramesAppend
      <4> QED
        BY Zenon, <2>3, <3>1, <3>2, <3>3, <4>1
    <3>5. m + InNet < NUM_RX_BUFF
      <4>1. Queued \in Int /\ Pending \in Int /\ Queued + Pending = arrived - base - pkts_handled
        BY <2>1, CountType DEF TypeOK, Queued, Pending
      <4>2. Queued + Pending # NUM_RX_BUFF
        <5> SUFFICES ASSUME Queued + Pending = NUM_RX_BUFF PROVE FALSE
          BY Zenon
        <5>1. mal = rx_u_index
          BY Zenon, <2>1, OffSlotAt DEF RingInv, IndexInv, TypeOK
        <5>2. Off(mal) = 0
          BY <2>1, <5>1 DEF Off, TypeOK, Slots
        <5> QED
          BY <2>1, <3>1, <5>2, RingAssumption DEF RingInv, DescInv, TypeOK
      <4>3. m + InNet = arrived - base - pkts_handled
        BY <2>1 DEF RingInv, HandedInv, InNet, TypeOK
      <4>4. Queued + Pending <= NUM_RX_BUFF
        BY Zenon, <2>1 DEF RingInv, IndexInv
      <4> HIDE DEF m
      <4> QED
        BY <4>1, <4>2, <4>3, <4>4, RingAssumption
    <3> QED
      BY Zenon, <1>3, <3>1, <3>4, <3>5 DEF Queue!Next, Queue!Put, InNet
  <2>6. CASE RxNetReceive
    <3>1. pc = "got" /\ pc' = "net" /\ handed' = Append(handed, buf[user_index])
          /\ UNCHANGED <<arrived, base>>
      BY Zenon, <2>6 DEF RxNetReceive, hwVars
    <3>2. Len(handed') = Len(handed) + 1
      BY <2>1, <3>1 DEF TypeOK
    <3>3. m - 1 \in Nat /\ Waiting' = FramesFrom(f + 1, m - 1)
      BY <2>1, <2>2, <2>3, <3>1, <3>2 DEF WaitingInv, TypeOK
    <3>4. Waiting = FramesFrom(f, (m - 1) + 1)
      BY <2>2, <2>3 DEF WaitingInv, FramesFrom
    <3>5. /\ Waiting # <<>> /\ Head(Waiting) = f + 1
          /\ Tail(Waiting) = Waiting'
      <4> DEFINE r == m - 1
      <4>1. r \in Nat /\ Waiting = FramesFrom(f, r + 1) /\ Waiting' = FramesFrom(f + 1, r)
        BY Zenon, <3>3, <3>4
      <4> HIDE DEF f, m, r
      <4>2. /\ FramesFrom(f, r + 1) # <<>> /\ Head(FramesFrom(f, r + 1)) = f + 1
            /\ Tail(FramesFrom(f, r + 1)) = FramesFrom(f + 1, r)
        BY Zenon, <2>3, <4>1, FramesAppend
      <4> QED
        BY Zenon, <4>1, <4>2
    <3>6. buf[user_index] = f + 1
      <4>1. handed \in Seq(Nat) /\ buf[user_index] \in Nat /\ base \in Nat
        BY Zenon, <2>1, <3>1 DEF TypeOK
      <4>2. handed'[Len(handed) + 1] = buf[user_index]
        BY <3>1, <4>1
      <4>3. \A k \in 1 .. Len(handed') : handed'[k] = base' + k
        BY Zenon, <2>1 DEF RingInv, HandedInv
      <4>4. handed'[Len(handed) + 1] = base + (Len(handed) + 1)
        BY <3>1, <3>2, <4>1, <4>3
      <4> QED
        BY <4>1, <4>2, <4>4
    <3> QED
      BY Zenon, <1>3, <3>1, <3>5, <3>6 DEF Queue!Next, Queue!Take, InNet
  <2>7. CASE RxFree
    <3>1. pc = "net" /\ pc' = "poll" /\ UNCHANGED <<arrived, base, handed>>
      BY Zenon, <2>7 DEF RxFree
    <3>2. Waiting' = Waiting
      BY Zenon, <2>1, <3>1, SameWaiting
    <3> QED
      BY Zenon, <1>3, <3>1, <3>2 DEF Queue!Next, Queue!Done, InNet
  <2>8. CASE mal_err \/ EthInit
    <3>1. RingReset /\ arrived' = arrived /\ pc' # "net"
      BY Zenon, <2>8 DEF mal_err, EthInit, Interruptible
    <3> QED
      BY Zenon, <1>3, <3>1, ResetQueue
  <2>9. CASE RxRestart
    BY Zenon, <1>3, <2>9 DEF RxRestart
  <2>10. CASE EnterRcv \/ RcvBad \/ RcvGood \/ RcvDone
    BY Zenon, <2>4, <2>10 DEF EnterRcv, RcvBad, RcvGood, RcvDone, hwVars, userVars, InNet
  <2>11. CASE RxEnter \/ RxPoll
    BY Zenon, <2>4, <2>11 DEF RxEnter, RxPoll, hwVars, InNet
  <2>12. CASE MalDescError \/ RxHalt \/ EthHalt \/ UNCHANGED vars
    BY Zenon, <2>4, <2>12 DEF MalDescError, RxHalt, EthHalt, vars, hwVars, userVars, InNet
  <2> QED
    BY Zenon, <2>5, <2>6, <2>7, <2>8, <2>9, <2>10, <2>11, <2>12 DEF Next, Isr, EthRx
<1> QED
  BY Zenon, <1>1, <1>2, <1>3

\* For every size of the ring, the descriptors, rx_ready and the indices that
\* MAL, enet_rcv and ppc_4xx_eth_rx share implement the queue of RxQueue.
THEOREM RingIsQueue == Spec => ImplementsQueue
<1>1. Init => Queue!Init
  <2> SUFFICES ASSUME Init PROVE Queue!Init
    BY Zenon
  <2>1. WaitingInv
    BY Zenon, RingInit, WaitingIs
  <2>2. Waiting = FramesFrom(0, 0)
    BY <2>1 DEF WaitingInv, Init, FramesFrom
  <2>3. Waiting = <<>>
    BY Zenon, <2>2, FramesAppend
  <2> QED
    BY Zenon, <2>3 DEF Init, Queue!Init, InNet
<1>2. IInv /\ IInv' /\ [Next]_vars => [Queue!Next]_(Queue!vars)
  BY Zenon, QueueStep
<1> QED
  BY <1>1, <1>2, Invariance, PTL DEF Spec, ImplementsQueue, Queue!Spec

-----------------------------------------------------------------------------
(* The statistics, with bad frames. *)

\* The queue rx_ready by itself, whatever the MAL does to the descriptors: the
\* entries from rx_u_index on that are in use are as many as the statistics say.
StatInv ==
  /\ Queued \in 0 .. NUM_RX_BUFF
  /\ rx_i_index = SlotAt(Queued) /\ rx_slot = rx_i_index
  /\ QueueInv
  /\ pc \in {"got", "net"} => user_index = rx_u_index /\ Queued > 0

\* enet_rcv appends to rx_ready and eth_rx removes from it, one entry for one
\* count; nothing else touches either.
LEMMA StatStep ==
  ASSUME TypeOK, TypeOK', [Next]_vars,
         faults \subseteq {"badFrame"} => StatInv, faults' \subseteq {"badFrame"}
  PROVE  StatInv'
<1> USE RingAssumption
<1>a. rx_u_index \in Slots /\ Queued \in Int /\ pkts_rx \in Nat /\ pkts_handled \in Nat
  BY ZenonT(40), CountType DEF TypeOK
<1>1. CASE RcvGood
  <2>0. StatInv
    BY Zenon, <1>1 DEF RcvGood
  <2>1. Queued' = Queued + 1
    BY <1>1, <1>a DEF RcvGood, userVars, Queued
  <2>2. \A i : Off(i)' = Off(i) /\ \A d : SlotAt(d)' = SlotAt(d)
    BY Zenon, <1>1 DEF RcvGood, userVars, Off, SlotAt
  <2>3. Queued < NUM_RX_BUFF
    <3> SUFFICES ASSUME Queued = NUM_RX_BUFF PROVE FALSE
      BY <1>a, <2>0 DEF StatInv
    <3> QED
      BY <1>1, <1>a, <2>0, OffSlotAt DEF RcvGood, StatInv, QueueInv, Slots
  <2>4. rx_i_index' = SlotAt(Queued)' /\ rx_slot' = rx_i_index'
    <3>1. rx_i_index' = SlotAt(Queued + 1) /\ rx_slot' = rx_i_index'
      BY <1>1, <1>a, <2>0, <2>3, BumpSlotAt DEF RcvGood, StatInv
    <3>2. SlotAt(Queued)' = SlotAt(Queued + 1)
      BY Zenon, <1>1, <2>1 DEF RcvGood, userVars, SlotAt
    <3> QED
      BY Zenon, <3>1, <3>2
  <2>5. QueueInv'
    <3>0. rx_slot = rx_i_index
      BY Zenon, <2>0 DEF StatInv
    <3> SUFFICES ASSUME NEW i \in Slots
                 PROVE  rx_ready'[i] = IF Off(i) < Queued + 1 THEN i ELSE -1
      BY Zenon, <2>1, <2>2 DEF QueueInv
    <3>1. CASE i = rx_i_index
      BY <1>1, <1>a, <2>0, <2>3, <3>0, <3>1, OffSlotAt DEF RcvGood, StatInv, TypeOK
    <3>2. CASE i # rx_i_index
      <4>1. Off(i) # Queued /\ Off(i) \in Int
        BY <1>a, <2>0, <2>3, <3>2, OffSlotAt DEF StatInv
      <4>2. rx_ready'[i] = rx_ready[i]
        BY Zenon, <1>1, <3>2 DEF RcvGood, TypeOK
      <4> QED
        BY <1>a, <2>0, <4>1, <4>2 DEF StatInv, QueueInv
    <3> QED
      BY Zenon, <3>1, <3>2
  <2> QED
    BY <1>1, <1>a, <2>0, <2>1, <2>3, <2>4, <2>5 DEF RcvGood, userVars, StatInv
<1>2. CASE RxFree
  <2>0. StatInv /\ pc = "net"
    BY Zenon, <1>2 DEF RxFree
  <2>1. user_index = rx_u_index /\ Queued > 0
    BY Zenon, <2>0 DEF StatInv
  <2>2. Queued' = Queued - 1
    BY <1>2, <1>a DEF RxFree, isrVars, Queued
  <2>3. \A i \in Slots : Off(i)' = IF i = rx_u_index THEN NUM_RX_BUFF - 1 ELSE Off(i) - 1
    BY <1>2, <1>a DEF RxFree, Off, Bump, Slots
  <2>4. \A d \in 1 .. NUM_RX_BUFF : SlotAt(d - 1)' = SlotAt(d)
    BY <1>2, <1>a DEF RxFree, SlotAt, Bump, Slots
  <2>5. QueueInv'
    <3> SUFFICES ASSUME NEW i \in Slots
                 PROVE  rx_ready'[i] = IF Off(i)' < Queued - 1 THEN i ELSE -1
      BY Zenon, <1>a, <2>2 DEF QueueInv
    <3>1. CASE i = rx_u_index
      BY SMTT(30), <1>2, <1>a, <2>0, <2>3, <3>1 DEF RxFree, StatInv, TypeOK
    <3>2. CASE i # rx_u_index
      <4>1. rx_ready'[i] = rx_ready[i] /\ Off(i) \in Int /\ Off(i)' = Off(i) - 1
        BY <1>2, <1>a, <2>3, <3>2, OffSlotAt DEF RxFree, TypeOK
      <4> QED
        BY <1>a, <2>0, <4>1 DEF StatInv, QueueInv
    <3> QED
      BY Zenon, <3>1, <3>2
  <2> QED
    BY <1>2, <1>a, <2>0, <2>1, <2>2, <2>4, <2>5 DEF RxFree, isrVars, StatInv
<1>3. CASE mal_err \/ EthInit
  <2>1. RingReset /\ pc' \in {"idle", "poll"}
    BY Zenon, <1>3 DEF mal_err, EthInit, Interruptible, TypeOK
  <2>2. Queued' = 0 /\ rx_u_index' = 0
    BY <2>1 DEF RingReset, Queued
  <2> QED
    BY <2>1, <2>2 DEF RingReset, StatInv, QueueInv, SlotAt, Off, Slots
<1>4. CASE RxRestart
  BY Zenon, <1>4 DEF RxRestart
<1>5. CASE RxPoll
  <2>0. StatInv
    BY Zenon, <1>5 DEF RxPoll
  <2>1. Off(rx_u_index) = 0
    BY <1>a DEF Off, Slots
  <2>2. UNCHANGED <<Queued, QueueInv, SlotAt(Queued), rx_slot, rx_i_index, rx_u_index>>
    BY Zenon, <1>5 DEF RxPoll, isrVars, Queued, QueueInv, SlotAt, Off
  <2> QED
    BY Zenon, <1>5, <1>a, <2>0, <2>1, <2>2 DEF RxPoll, StatInv, QueueInv
<1>6. CASE RxNetReceive
  BY Zenon, <1>6, <1>a DEF RxNetReceive, isrVars, StatInv, QueueInv, Queued, SlotAt, Off
<1>7. ASSUME UNCHANGED <<pkts_rx, pkts_handled, rx_slot, rx_i_index, rx_u_index, rx_ready, user_index>>,
             pc' = pc \/ pc' = "poll", faults \subseteq {"badFrame"}
      PROVE  StatInv'
  BY Zenon, <1>7 DEF StatInv, QueueInv, Queued, SlotAt, Off
<1>8. CASE \E ok \in BOOLEAN : MalReceive(ok)
  BY Zenon, <1>7, <1>8 DEF MalReceive, isrVars, userVars
<1>9. CASE MalDescError \/ EnterRcv \/ RcvBad \/ RcvDone
  BY Zenon, <1>7, <1>9 DEF MalDescError, EnterRcv, RcvBad, RcvDone, isrVars, userVars
<1>10. CASE RxEnter \/ RxHalt \/ EthHalt \/ UNCHANGED vars
  BY Zenon, <1>7, <1>10 DEF RxEnter, RxHalt, EthHalt, vars, isrVars, userVars
<1> QED
  BY Zenon, <1>1, <1>2, <1>3, <1>4, <1>5, <1>6, <1>8, <1>9, <1>10 DEF Next, Isr, EthRx

\* The relation in the comment of ppc_4xx_eth_init holds with bad frames at any
\* time, until the ring is initialised inside of eth_rx.
THEOREM Statistics == Spec => []PktStats
<1> DEFINE S == TypeOK /\ (faults \subseteq {"badFrame"} => StatInv)
<1>1. Init => S
  BY TypeInit, RingAssumption DEF Init, StatInv, QueueInv, Queued, SlotAt, Off, Slots
<1>2. S /\ [Next]_vars => S'
  BY Zenon, TypeStep, StatStep
<1>3. S => PktStats
  BY RingAssumption DEF StatInv, PktStats, Queued, TypeOK
<1> QED
  BY <1>1, <1>2, <1>3, PTL DEF Spec
=============================================================================
