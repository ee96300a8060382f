------------------------------ MODULE EmacRx ------------------------------
(***************************************************************************)
(* The receive ring of the PPC4xx EMAC driver (drivers/net/4xx_enet.c).    *)
(*                                                                         *)
(* Three actors share the ring: the MAL hardware fills empty descriptors,  *)
(* the interrupt handler enetInt/enet_rcv queues filled ones in rx_ready,  *)
(* and ppc_4xx_eth_rx, called from NetLoop, hands queued buffers to        *)
(* NetReceive and frees them.  The interrupt may arrive between any two    *)
(* steps of eth_rx except while MSR_EE is off, which is around NetReceive. *)
(*                                                                         *)
(* A frame is its number in the order in which the MAL stored the frames;  *)
(* "base" is the number of the last one before the ring was initialised.   *)
(***************************************************************************)
EXTENDS Integers, Sequences

CONSTANTS
  NUM_RX_BUFF, \* descriptors in the ring (CONFIG_SYS_RX_ETH_BUFFER)
  MaxFrames,   \* bound: frames the MAL stores in a behaviour
  MaxInits     \* bound: initialisations after which none is provoked

\* What may disturb the ring until the next initialisation outside of eth_rx:
\* "badFrame": the EMAC flags a frame with an error or an illegal length.
\* "restart":  NetReceive runs NetStartAgain, which initialises this device.
\* "malErr":   a descriptor error interrupts eth_rx after it read rx_ready.
FaultKinds == {"badFrame", "restart", "malErr"}

ASSUME RingAssumption == NUM_RX_BUFF \in Nat \ {0}
ASSUME BoundAssumption == MaxFrames \in Nat /\ MaxInits \in Nat

VARIABLES
  full,         \* the descriptors whose EMPTY bit is clear
  bad,          \* those of them with an error status or an illegal length
  buf,          \* the frame in each buffer
  mal,          \* the descriptor the MAL fills next
  eob,          \* MAL0_RXEOBISR: a frame was received
  rxde,         \* MAL descriptor error pending
  up,           \* the MAL receive channel is enabled
  rx_slot,      \* next descriptor enet_rcv looks at
  rx_i_index,   \* next entry of rx_ready enet_rcv writes
  rx_u_index,   \* next entry of rx_ready eth_rx reads
  rx_ready,     \* queue of filled descriptors, -1 for a free entry
  irq,          \* "none", or "rcv" inside the loop of enet_rcv
  loop_count,   \* local of enet_rcv
  pc,           \* where ppc_4xx_eth_rx is; "idle" outside of it
  user_index,   \* local of ppc_4xx_eth_rx
  arrived,      \* frames stored so far
  base,         \* frames stored before the last initialisation
  inits,        \* initialisations so far
  pkts_rx,      \* frames queued since the last initialisation
  pkts_handled, \* buffers freed by eth_rx since the last initialisation
  handed,       \* frames given to NetReceive since the last initialisation
  faults        \* which of FaultKinds have occurred since then

hwVars   == <<full, bad, buf, mal, eob, rxde, up, arrived>>
isrVars  == <<rx_slot, rx_i_index, irq, loop_count, pkts_rx>>
userVars == <<rx_u_index, pc, user_index, pkts_handled, handed>>
vars == <<hwVars, isrVars, userVars, rx_ready, base, inits, faults>>

Slots == 0 .. NUM_RX_BUFF - 1

\* Mutant of Bump: the wrap test comes one too late.
BumpLate(i) == IF i = NUM_RX_BUFF THEN 0 ELSE i + 1

\* The wrap of every ring index: i++; if (NUM_RX_BUFF == i) i = 0.
Bump(i) == IF i + 1 = NUM_RX_BUFF THEN 0 ELSE i + 1

TypeOK ==
  /\ full \subseteq Slots /\ bad \subseteq Slots /\ buf \in [Slots -> Nat]
  /\ mal \in Slots /\ rx_slot \in Slots
  /\ rx_i_index \in Slots /\ rx_u_index \in Slots
  /\ eob \in BOOLEAN /\ rxde \in BOOLEAN /\ up \in BOOLEAN
  /\ rx_ready \in [Slots -> Slots \cup {-1}]
  /\ irq \in {"none", "rcv"} /\ loop_count \in 0 .. NUM_RX_BUFF
  /\ pc \in {"idle", "poll", "got", "net"}
  /\ user_index \in Slots \cup {-1}
  /\ pc \in {"got", "net"} => user_index \in Slots
  /\ arrived \in Nat /\ base \in Nat /\ inits \in Nat
  /\ pkts_rx \in Nat /\ pkts_handled \in Nat
  /\ handed \in Seq(Nat) /\ faults \subseteq FaultKinds

Init ==
  /\ full = {} /\ bad = {} /\ buf = [i \in Slots |-> 0]
  /\ mal = 0 /\ eob = FALSE /\ rxde = FALSE /\ up = TRUE
  /\ rx_slot = 0 /\ rx_i_index = 0 /\ rx_u_index = 0
  /\ rx_ready = [i \in Slots |-> -1]
  /\ irq = "none" /\ loop_count = 0
  /\ pc = "idle" /\ user_index = -1
  /\ arrived = 0 /\ base = 0 /\ inits = 0
  /\ pkts_rx = 0 /\ pkts_handled = 0 /\ handed = <<>> /\ faults = {}

-----------------------------------------------------------------------------
(* The MAL hardware, as the driver uses it. *)

\* A frame arrives and the next descriptor is EMPTY.
MalReceive(ok) ==
  /\ up /\ arrived < MaxFrames
  /\ mal \notin full
  /\ full' = full \cup {mal}
  /\ bad' = IF ok THEN bad \ {mal} ELSE bad \cup {mal}
  /\ buf' = [buf EXCEPT ![mal] = arrived + 1]
  /\ mal' = Bump(mal)
  /\ eob' = TRUE
  /\ arrived' = arrived + 1
  /\ faults' = IF ok THEN faults ELSE faults \cup {"badFrame"}
  /\ UNCHANGED <<rxde, up, isrVars, userVars, rx_ready, base, inits>>

\* A frame arrives and the next descriptor is still in use: the frame is lost
\* and a descriptor error is raised.
MalDescError ==
  /\ up /\ inits < MaxInits
  /\ mal \in full
  /\ rxde' = TRUE
  /\ UNCHANGED <<full, bad, buf, mal, eob, up, arrived, isrVars, userVars, rx_ready, base, inits, faults>>

-----------------------------------------------------------------------------
\* What ppc_4xx_eth_init does to the ring and to the statistics.  It does not
\* fail once it has begun to: the PHY of this board is not a fixed one,
\* miiphy_speed knows no speeds but the three that are looked for, and the
\* descriptors are allocated before the ring is first used.
RingReset ==
  /\ full' = {} /\ bad' = {} /\ buf' = buf
  /\ mal' = 0 /\ up' = TRUE
  /\ rx_slot' = 0 /\ rx_i_index' = 0 /\ rx_u_index' = 0
  /\ rx_ready' = [i \in Slots |-> -1]
  /\ base' = arrived /\ inits' = inits + 1
  /\ pkts_rx' = 0 /\ pkts_handled' = 0 /\ handed' = <<>>

\* The MSR_EE bit: interrupts are taken.
Interruptible == irq = "none" /\ pc # "net"

\* enetInt sees an error of the MAL: mal_err clears it and calls eth_init.
mal_err ==
  /\ Interruptible /\ rxde
  /\ rxde' = FALSE
  /\ RingReset
  /\ faults' = IF pc = "got" THEN {"malErr"} ELSE {}
  /\ UNCHANGED <<eob, arrived, irq, loop_count, pc, user_index>>

\* enetInt sees RXEOB: enet_rcv acknowledges it before it looks at the ring.
EnterRcv ==
  /\ Interruptible /\ ~rxde /\ eob
  /\ eob' = FALSE
  /\ irq' = "rcv" /\ loop_count' = 0
  /\ UNCHANGED <<full, bad, buf, mal, rxde, up, arrived, rx_slot, rx_i_index, pkts_rx,
                 userVars, rx_ready, base, inits, faults>>

\* The loop of enet_rcv has something to look at.
MoreToDo == rx_slot \in full /\ loop_count < NUM_RX_BUFF

\* No usable data: the descriptor is freed and rx_slot stays where it is.
RcvBad ==
  /\ irq = "rcv" /\ MoreToDo
  /\ rx_slot \in bad
  /\ full' = full \ {rx_slot}
  /\ loop_count' = loop_count + 1
  /\ UNCHANGED <<bad, buf, mal, eob, rxde, up, arrived, rx_slot, rx_i_index, irq, pkts_rx,
                 userVars, rx_ready, base, inits, faults>>

\* Mutant of RcvGood: the buffer is freed when it is queued, as the line that
\* is commented out at the end of the loop did.
RcvGoodFreesAtOnce ==
  /\ irq = "rcv" /\ MoreToDo
  /\ rx_slot \notin bad
  /\ rx_ready[rx_i_index] = -1
  /\ rx_ready' = [rx_ready EXCEPT ![rx_i_index] = rx_slot]
  /\ full' = full \ {rx_slot}
  /\ rx_i_index' = Bump(rx_i_index)
  /\ rx_slot' = Bump(rx_slot)
  /\ pkts_rx' = pkts_rx + 1
  /\ loop_count' = loop_count + 1
  /\ UNCHANGED <<bad, buf, mal, eob, rxde, up, arrived, irq, userVars, base, inits, faults>>

\* Mutant of RcvGood: rx_slot is left behind.
RcvGoodSlotStays ==
  /\ irq = "rcv" /\ MoreToDo
  /\ rx_slot \notin bad
  /\ rx_ready[rx_i_index] = -1
  /\ rx_ready' = [rx_ready EXCEPT ![rx_i_index] = rx_slot]
  /\ rx_i_index' = Bump(rx_i_index)
  /\ pkts_rx' = pkts_rx + 1
  /\ loop_count' = loop_count + 1
  /\ UNCHANGED <<hwVars, rx_slot, irq, userVars, base, inits, faults>>

\* A good frame: queue the descriptor for eth_rx.
RcvGood ==
  /\ irq = "rcv" /\ MoreToDo
  /\ rx_slot \notin bad
  /\ rx_ready[rx_i_index] = -1
  /\ rx_ready' = [rx_ready EXCEPT ![rx_i_index] = rx_slot]
  /\ rx_i_index' = Bump(rx_i_index)
  /\ rx_slot' = Bump(rx_slot)
  /\ pkts_rx' = pkts_rx + 1
  /\ loop_count' = loop_count + 1
  /\ UNCHANGED <<hwVars, irq, userVars, base, inits, faults>>

\* Mutant of RcvDone: one frame per interrupt, without the loop.
RcvDoneAfterOne ==
  /\ irq = "rcv"
  /\ MoreToDo => loop_count > 0
  /\ irq' = "none" /\ loop_count' = 0
  /\ UNCHANGED <<hwVars, rx_slot, rx_i_index, pkts_rx, userVars, rx_ready, base, inits, faults>>

\* The loop ends: nothing filled, all looked at, or the queue is full.
RcvDone ==
  /\ irq = "rcv"
  /\ MoreToDo => rx_slot \notin bad /\ rx_ready[rx_i_index] # -1
  /\ irq' = "none" /\ loop_count' = 0
  /\ UNCHANGED <<hwVars, rx_slot, rx_i_index, pkts_rx, userVars, rx_ready, base, inits, faults>>

-----------------------------------------------------------------------------
(* ppc_4xx_eth_rx, called by NetLoop on every round. *)

RxEnter ==
  /\ irq = "none" /\ pc = "idle" /\ up
  /\ pc' = "poll"
  /\ UNCHANGED <<hwVars, isrVars, rx_u_index, user_index, pkts_handled, handed,
                 rx_ready, base, inits, faults>>

\* user_index = rx_ready[rx_u_index], with interrupts still enabled.
RxPoll ==
  /\ irq = "none" /\ pc = "poll"
  /\ user_index' = rx_ready[rx_u_index]
  /\ pc' = IF user_index' = -1 THEN "idle" ELSE "got"
  /\ UNCHANGED <<hwVars, isrVars, rx_u_index, pkts_handled, handed, rx_ready, base, inits, faults>>

\* Interrupts off; the buffer goes to NetReceive.
RxNetReceive ==
  /\ irq = "none" /\ pc = "got"
  /\ pc' = "net"
  /\ handed' = Append(handed, buf[user_index])
  /\ UNCHANGED <<hwVars, isrVars, rx_u_index, user_index, pkts_handled, rx_ready, base, inits, faults>>

\* NetReceive gives up the transfer: eth_halt, eth_init of the same device.
RxRestart ==
  /\ pc = "net" /\ inits < MaxInits
  /\ RingReset /\ faults' = {"restart"}
  /\ UNCHANGED <<eob, rxde, arrived, irq, loop_count, pc, user_index>>

\* NetReceive ends the transfer with an error: eth_halt.
RxHalt ==
  /\ pc = "net" /\ up
  /\ up' = FALSE
  /\ UNCHANGED <<full, bad, buf, mal, eob, rxde, arrived, isrVars, userVars, rx_ready, base, inits, faults>>

\* Mutant of RxFree: the entry of rx_ready is not cleared.
RxFreeKeepsEntry ==
  /\ pc = "net"
  /\ full' = full \ {user_index}
  /\ rx_u_index' = Bump(rx_u_index)
  /\ pkts_handled' = pkts_handled + 1
  /\ pc' = "poll" /\ user_index' = -1
  /\ UNCHANGED <<bad, buf, mal, eob, rxde, up, arrived, isrVars, rx_ready, handed,
                 base, inits, faults>>

\* NetReceive returned: free the buffer and its entry, interrupts on.
RxFree ==
  /\ pc = "net"
  /\ full' = full \ {user_index}
  /\ rx_ready' = [rx_ready EXCEPT ![rx_u_index] = -1]
  /\ rx_u_index' = Bump(rx_u_index)
  /\ pkts_handled' = pkts_handled + 1
  /\ pc' = "poll" /\ user_index' = -1
  /\ UNCHANGED <<bad, buf, mal, eob, rxde, up, arrived, isrVars, handed, base, inits, faults>>

\* NetLoop starts a transfer: eth_init outside of eth_rx.
EthInit ==
  /\ irq = "none" /\ pc = "idle" /\ inits < MaxInits
  /\ RingReset /\ faults' = {}
  /\ UNCHANGED <<eob, rxde, arrived, irq, loop_count, pc, user_index>>

\* NetLoop ends a transfer.
EthHalt ==
  /\ irq = "none" /\ pc = "idle" /\ up
  /\ up' = FALSE
  /\ UNCHANGED <<full, bad, buf, mal, eob, rxde, arrived, isrVars, userVars, rx_ready, base, inits, faults>>

-----------------------------------------------------------------------------
Isr == mal_err \/ EnterRcv \/ RcvBad \/ RcvGood \/ RcvDone
EthRx == RxEnter \/ RxPoll \/ RxNetReceive \/ RxFree

Next ==
  \/ \E ok \in BOOLEAN : MalReceive(ok)
  \/ MalDescError
  \/ Isr
  \/ EthRx \/ RxRestart \/ RxHalt
  \/ EthInit \/ EthHalt

Spec == Init /\ [][Next]_vars

\* The processor takes a pending interrupt and leaves the handler; NetLoop
\* calls eth_rx again and again and eth_rx runs on.
FairSpec == Spec /\ WF_vars(Isr) /\ WF_vars(EthRx)

-----------------------------------------------------------------------------
(* Properties. *)

\* Frames reach NetReceive in the order the MAL stored them, none twice and
\* none skipped, counted from the last initialisation of the ring and as long
\* as nothing has disturbed it (enet_rcv queues the buffers, ppc_4xx_eth_rx
\* hands them over).
FifoSinceInit == faults = {} => \A k \in 1 .. Len(handed) : handed[k] = base + k

\* A buffer that ppc_4xx_eth_rx is about to hand to NetReceive, or is handing
\* over, belongs to the driver: its EMPTY bit is clear, the MAL leaves it
\* alone.  Bad frames do not change that, initialisations inside of eth_rx do.
BufferOwned ==
  faults \subseteq {"badFrame"} /\ pc \in {"got", "net"} => user_index \in full

\* While no receive interrupt is pending or running, every filled descriptor
\* is in the queue of ppc_4xx_eth_rx (no lost wake-up), unless a bad frame has
\* left enet_rcv behind the MAL.
AllQueued ==
  faults = {} /\ ~eob /\ irq = "none" => \A i \in full : rx_ready[i] # -1

\* The loop of enet_rcv says "do all": after it no filled descriptor is left
\* that is not queued, whatever the state of the frames.
RcvDoesAll ==
  faults \subseteq {"badFrame"} /\ ~eob /\ irq = "none" => \A i \in full : rx_ready[i] # -1

\* Whatever faults occur, no buffer is queued twice: an entry of rx_ready is
\* free or names the descriptor of its own index, since enet_rcv moves rx_slot
\* and rx_i_index together and every initialisation resets both.
QueuedOnce ==
  /\ rx_i_index = rx_slot
  /\ \A i \in Slots : rx_ready[i] \in {-1, i}

\* The relation the comment in ppc_4xx_eth_init gives for the statistics,
\* pkts_handled <= pkts_rx <= pkts_handled + PKTBUFSRX, with bad frames but
\* without an initialisation inside of eth_rx.
PktStats ==
  faults \subseteq {"badFrame"} =>
    pkts_handled <= pkts_rx /\ pkts_rx <= pkts_handled + NUM_RX_BUFF

\* A frame the MAL has stored is handed to NetReceive in the end, unless the
\* ring is disturbed or initialised again first or the device is halted.
FrameHandled ==
  \A n \in 1 .. MaxFrames :
    (up /\ arrived >= n /\ base < n)
      ~> (\/ \E k \in 1 .. Len(handed) : handed[k] = n
          \/ base >= n \/ faults # {}
          \/ ~up)

-----------------------------------------------------------------------------
(* The inductive invariants behind the properties.                         *)
(* Counted from rx_u_index, the ring holds the queued descriptors, then    *)
(* the filled ones that enet_rcv has still to queue, then the empty ones.  *)

Queued  == pkts_rx - pkts_handled
Pending == arrived - base - pkts_rx

\* Distance of descriptor i from rx_u_index, and the descriptor at distance d.
Off(i)  == IF i >= rx_u_index THEN i - rx_u_index ELSE i - rx_u_index + NUM_RX_BUFF
SlotAt(d) == IF rx_u_index + d >= NUM_RX_BUFF
             THEN rx_u_index + d - NUM_RX_BUFF
             ELSE rx_u_index + d

IndexInv ==
  /\ Queued >= 0 /\ Pending >= 0 /\ Queued + Pending <= NUM_RX_BUFF
  /\ rx_slot = SlotAt(Queued) /\ rx_i_index = rx_slot
  /\ mal = SlotAt(Queued + Pending)

QueueInv == \A i \in Slots : rx_ready[i] = IF Off(i) < Queued THEN i ELSE -1

DescInv ==
  \A i \in Slots :
    /\ i \in full <=> Off(i) < Queued + Pending
    /\ i \in full => i \notin bad /\ buf[i] = base + pkts_handled + Off(i) + 1

UserInv ==
  /\ pc \in {"got", "net"} => user_index = rx_u_index /\ Queued > 0
  /\ pc = "net" => irq = "none"

HandedInv ==
  /\ Len(handed) = pkts_handled + (IF pc = "net" THEN 1 ELSE 0)
  /\ \A k \in 1 .. Len(handed) : handed[k] = base + k

WakeInv ==
  /\ Pending > 0 => eob \/ irq = "rcv"
  /\ irq = "rcv" => loop_count <= Queued

\* The queue described above.
RingInv ==
  TypeOK /\ IndexInv /\ QueueInv /\ DescInv /\ UserInv /\ HandedInv /\ WakeInv

\* What remains of it when frames may be flagged bad: an entry of rx_ready
\* names its own index, and a filled and good descriptor.
OwnInv ==
  /\ rx_i_index = rx_slot
  /\ \A i \in Slots : rx_ready[i] # -1 => rx_ready[i] = i /\ i \in full \ bad
  /\ pc \in {"got", "net"} => user_index = rx_u_index /\ rx_ready[rx_u_index] # -1

\* While no frame is flagged bad and the ring is not initialised under the
\* feet of eth_rx it is that queue, and with bad frames the rest holds; an
\* initialisation outside of eth_rx makes up for whatever came before.
IInv ==
  /\ TypeOK
  /\ faults = {} => RingInv
  /\ faults \subseteq {"badFrame"} => OwnInv

-----------------------------------------------------------------------------
(* The ring implements the queue of module RxQueue. *)

InNet == IF pc = "net" THEN 1 ELSE 0

\* The buffers behind the one NetReceive works on, in the order of the ring.
Waiting == [k \in 1 .. Queued + Pending - InNet |-> buf[SlotAt(k - 1 + InNet)]]

Queue == INSTANCE RxQueue WITH
  Capacity <- NUM_RX_BUFF,
  live     <- IF faults = {} THEN 1 ELSE 0,
  queue    <- IF faults = {} THEN Waiting ELSE <<>>,
  taken    <- IF faults = {} THEN handed ELSE <<>>,
  busy     <- IF faults = {} THEN InNet ELSE 0,
  stored   <- arrived

\* The MAL, enet_rcv and ppc_4xx_eth_rx together are that queue: what lies in
\* the buffers changes only at the ends, and every step on the indices, the
\* descriptors and rx_ready is one step of the queue or none.
ImplementsQueue == Queue!Spec
=============================================================================
