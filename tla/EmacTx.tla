------------------------------ MODULE EmacTx ------------------------------
(***************************************************************************)
(* The transmit side of the PPC4xx EMAC driver (drivers/net/4xx_enet.c),   *)
(* the interrupt enable bit MSR_EE that the driver saves and restores, and *)
(* the millisecond count that every time-out is measured with              *)
(* (arch/powerpc/lib/interrupts.c), which only an interrupt advances.      *)
(*                                                                         *)
(* ppc_4xx_eth_send is called by NetLoop and its time-out handlers, with   *)
(* interrupts on, and by the packet handlers under NetReceive, which       *)
(* ppc_4xx_eth_rx calls with interrupts off.  There is one descriptor and  *)
(* one buffer: a frame is the number of the call of send that copied it.   *)
(* Flags are 0 or 1 as in the registers.                                   *)
(***************************************************************************)
EXTENDS Integers

CONSTANTS
  TMOD,      \* the width of ulong: timestamp counts modulo TMOD (2^32)
  TMO,       \* how long send waits (3000)
  MaxLag,    \* timer interrupts between two turns of the loop in send
  MaxFrames, \* bound: calls of send
  MaxInits   \* bound: initialisations

ASSUME TimeAssumption ==
  /\ TMO \in Nat /\ MaxLag \in Nat \ {0} /\ TMOD \in Nat
  /\ TMO + MaxLag < TMOD
ASSUME TxBoundAssumption == MaxFrames \in Nat /\ MaxInits \in Nat

VARIABLES
  ee,         \* MSR_EE
  timestamp,  \* interrupts.c
  pc,         \* "loop" in NetLoop, "net" in NetReceive, the others in send
  ret,        \* where send returns to: "loop" or "net"
  rxmsr,      \* local msr of ppc_4xx_eth_rx
  time_start, \* local of send
  result,     \* what the last send returned: "none", "len" or "-1"
  ready,      \* MAL_TX_CTRL_READY of tx[0]
  gnp0,       \* EMAC_TMR0_GNP0
  txbuf,      \* the frame in txbuf_ptr
  up,         \* the transmit channel of the MAL is enabled
  hw,         \* the frame the MAL is reading, 0 for none
  txde,       \* a MAL error interrupt is pending
  n,          \* calls of send so far
  inits,      \* initialisations so far
  out,        \* the frames that left the EMAC as they were copied
  lost,       \* the frames whose transmission the EMAC ended with an error
  waited,     \* timer interrupts since time_start was read, counted to TMO + 1
  lag,        \* timer interrupts since the last turn of the loop
  late,       \* a send has timed out since the last initialisation
  spoilt,     \* the last send found a late frame, or was cut by an initialisation
  stopped     \* an initialisation in NetLoop failed with interrupts off

cpuVars  == <<ee, timestamp, rxmsr, stopped>>
sendVars == <<pc, ret, time_start, result, n, waited, lag>>
hwVars   == <<ready, gnp0, txbuf, up, hw, txde, out, lost>>
vars == <<cpuVars, sendVars, hwVars, inits, late, spoilt>>

Flag == {0, 1}
Sending == {"copied", "armed", "poll"}

\* Type invariant.
TypeOK ==
  /\ ee \in Flag /\ rxmsr \in Flag /\ stopped \in Flag
  /\ timestamp \in 0 .. TMOD - 1 /\ time_start \in 0 .. TMOD - 1
  /\ pc \in {"loop", "net"} \cup Sending /\ ret \in {"loop", "net"}
  /\ result \in {"none", "len", "-1"}
  /\ ready \in Flag /\ gnp0 \in Flag /\ up \in Flag /\ txde \in Flag
  /\ n \in Nat /\ txbuf \in 0 .. n /\ hw \in 0 .. n
  /\ inits \in Nat /\ out \subseteq 1 .. n /\ lost \subseteq 1 .. n
  /\ waited \in 0 .. TMO + 1 /\ lag \in 0 .. MaxLag
  /\ late \in Flag /\ spoilt \in Flag

\* NetLoop has initialised the device; interrupt_init turned interrupts on.
Init ==
  /\ ee = 1 /\ timestamp = 0 /\ rxmsr = 1 /\ stopped = 0
  /\ pc = "loop" /\ ret = "loop" /\ time_start = 0 /\ result = "none"
  /\ ready = 0 /\ gnp0 = 0 /\ txbuf = 0 /\ up = 1 /\ hw = 0 /\ txde = 0
  /\ n = 0 /\ inits = 0 /\ out = {} /\ lost = {}
  /\ waited = 0 /\ lag = 0 /\ late = 0 /\ spoilt = 0

-----------------------------------------------------------------------------
(* Interrupts. *)

\* Mutant of timer_interrupt: the count is not kept.
timer_interrupt_idle ==
  /\ ee = 1
  /\ pc \in Sending => lag < MaxLag
  /\ lag' = IF pc \in Sending THEN lag + 1 ELSE 0
  /\ waited' = IF pc = "poll" /\ waited <= TMO THEN waited + 1 ELSE waited
  /\ UNCHANGED <<timestamp, ee, rxmsr, stopped, pc, ret, time_start, result, n, hwVars, inits, late, spoilt>>

\* The decrementer interrupt counts a millisecond.  The loop of send turns many
\* times in one: at most MaxLag interrupts fall between two of its turns.
timer_interrupt ==
  /\ ee = 1
  /\ pc \in Sending => lag < MaxLag
  /\ timestamp' = (timestamp + 1) % TMOD
  /\ lag' = IF pc \in Sending THEN lag + 1 ELSE 0
  /\ waited' = IF pc = "poll" /\ waited <= TMO THEN waited + 1 ELSE waited
  /\ UNCHANGED <<ee, rxmsr, stopped, pc, ret, time_start, result, n, hwVars, inits, late, spoilt>>

\* get_timer(0) - base in unsigned arithmetic.
Elapsed(base) == (timestamp - base) % TMOD

\* What a successful ppc_4xx_eth_init does to the transmitter: EMAC and MAL
\* are reset, the descriptor is cleared, EMAC0_TMR0 is written.
TxReset ==
  /\ ready' = 0 /\ gnp0' = 0 /\ hw' = 0 /\ up' = 1 /\ late' = 0

\* What one that fails, or eth_halt, leaves: the EMAC is reset and stopped.
TxStop ==
  /\ gnp0' = 0 /\ hw' = 0 /\ up' = 0
  /\ UNCHANGED <<ready, late>>

\* enetInt finds a MAL error (the transmitter's or, spontaneously, the
\* receiver's): mal_err calls eth_init.  Returning from the interrupt restores
\* MSR_EE whatever eth_init did to it.
mal_err(ok) ==
  /\ ee = 1 /\ inits < MaxInits
  /\ IF ok THEN TxReset ELSE TxStop
  /\ txde' = 0 /\ inits' = inits + 1
  /\ spoilt' = IF pc \in Sending THEN 1 ELSE spoilt
  /\ UNCHANGED <<cpuVars, sendVars, txbuf, out, lost>>

-----------------------------------------------------------------------------
(* The MAL and EMAC hardware, as the driver uses it. *)

\* A new packet is announced and the descriptor is READY.
MalFetch ==
  /\ up = 1 /\ gnp0 = 1 /\ ready = 1 /\ hw = 0
  /\ hw' = txbuf
  /\ UNCHANGED <<cpuVars, sendVars, ready, gnp0, txbuf, up, txde, out, lost, inits, late, spoilt>>

\* The frame is out; it is garbled if the buffer was overwritten meanwhile.
MalSent ==
  /\ hw # 0
  /\ out' = IF hw = txbuf THEN out \cup {hw} ELSE out
  /\ hw' = 0 /\ ready' = 0 /\ gnp0' = 0
  /\ UNCHANGED <<cpuVars, sendVars, txbuf, up, txde, lost, inits, late, spoilt>>

\* A loss of carrier, too many or late collisions, an underrun ...: an
\* EMAC_TX_ST_ bit in the status of the descriptor tells, and nobody reads it.
\* The interrupts that EMAC0_IER enables are those of the receiver.
MalTxError ==
  /\ hw # 0
  /\ lost' = lost \cup {hw}
  /\ hw' = 0 /\ ready' = 0 /\ gnp0' = 0
  /\ UNCHANGED <<cpuVars, sendVars, txbuf, up, txde, out, inits, late, spoilt>>

\* A new packet is announced and the descriptor is not READY.
MalTxDescError ==
  /\ up = 1 /\ gnp0 = 1 /\ ready = 0 /\ hw = 0
  /\ txde = 0
  /\ txde' = 1
  /\ UNCHANGED <<cpuVars, sendVars, ready, gnp0, txbuf, up, hw, out, lost, inits, late, spoilt>>

-----------------------------------------------------------------------------
(* ppc_4xx_eth_send *)

\* The frame is copied into the buffer of the driver.  What is longer than
\* ENET_MAX_MTU would be cut; the callers' buffers have no more (PKTSIZE).
SendCopy ==
  /\ pc \in {"loop", "net"} /\ n < MaxFrames
  /\ txbuf' = n + 1 /\ n' = n + 1
  /\ pc' = "copied" /\ ret' = pc /\ result' = "none"
  /\ waited' = 0 /\ lag' = 0 /\ spoilt' = late
  /\ UNCHANGED <<cpuVars, time_start, ready, gnp0, up, hw, txde, out, lost, inits, late>>

\* The descriptor is made READY.
SendArm ==
  /\ pc = "copied"
  /\ ready' = 1
  /\ pc' = "armed" /\ lag' = 0
  /\ UNCHANGED <<cpuVars, ret, time_start, result, n, waited,
                 gnp0, txbuf, up, hw, txde, out, lost, inits, late, spoilt>>

\* Mutant of SendStart: the packet is not announced before the wait.
SendStartNoGNP ==
  /\ pc = "armed"
  /\ time_start' = timestamp
  /\ pc' = "poll" /\ lag' = 0
  /\ UNCHANGED <<gnp0, cpuVars, ret, result, n, waited,
                 ready, txbuf, up, hw, txde, out, lost, inits, late, spoilt>>

\* EMAC0_TMR0 |= EMAC_TMR0_GNP0, and the wait begins.
SendStart ==
  /\ pc = "armed"
  /\ gnp0' = 1
  /\ time_start' = timestamp
  /\ pc' = "poll" /\ lag' = 0
  /\ UNCHANGED <<cpuVars, ret, result, n, waited,
                 ready, txbuf, up, hw, txde, out, lost, inits, late, spoilt>>

SendReturn(r) ==
  /\ pc' = ret /\ result' = r /\ lag' = 0
  /\ late' = IF r = "-1" THEN 1 ELSE late
  /\ UNCHANGED <<cpuVars, ret, time_start, n, waited, hwVars, inits, spoilt>>

\* Mutant of PollSent: send does not wait for the transmitter.
PollSentAtOnce ==
  /\ pc = "poll"
  /\ SendReturn("len")

\* One turn of the loop: sent.
PollSent ==
  /\ pc = "poll" /\ gnp0 = 0
  /\ SendReturn("len")

\* Mutant of PollTimeout: instants are compared instead of their difference.
PollTimeoutInstants ==
  /\ pc = "poll" /\ gnp0 = 1
  /\ timestamp > (time_start + TMO) % TMOD
  /\ SendReturn("-1")

\* One turn of the loop: three seconds have passed.
PollTimeout ==
  /\ pc = "poll" /\ gnp0 = 1
  /\ Elapsed(time_start) > TMO
  /\ SendReturn("-1")

\* One turn of the loop: go on waiting.
PollAgain ==
  /\ pc = "poll" /\ gnp0 = 1
  /\ Elapsed(time_start) <= TMO
  /\ lag' = 0
  /\ UNCHANGED <<cpuVars, pc, ret, time_start, result, n, waited, hwVars, inits, late, spoilt>>

-----------------------------------------------------------------------------
(* What the network code calls besides send. *)

\* ppc_4xx_eth_rx takes a packet: interrupts off, NetReceive.
RxEnter ==
  /\ pc = "loop"
  /\ rxmsr' = ee /\ ee' = 0
  /\ pc' = "net"
  /\ UNCHANGED <<timestamp, stopped, ret, time_start, result, n, waited, lag, hwVars, inits, late, spoilt>>

\* NetReceive returned: mtmsr(msr).
RxLeave ==
  /\ pc = "net"
  /\ ee' = rxmsr
  /\ pc' = "loop"
  /\ UNCHANGED <<timestamp, rxmsr, stopped, ret, time_start, result, n, waited, lag, hwVars, inits, late, spoilt>>

\* Mutants of MsrAfterInit: the end of ppc_4xx_eth_init turns interrupts on;
\* the bit is taken off by a subtraction.
MsrAfterInitOn(broken) == IF broken THEN 0 ELSE 1
MsrAfterInitMinus(broken) == IF broken THEN ee - 1 ELSE ee

\* MSR_EE after eth_init has tried its devices: each ppc_4xx_eth_init saves it
\* and turns interrupts off, success restores it, an error return after that
\* ("broken") does not.  A device without a MAC address fails before that.
MsrAfterInit(broken) == IF broken THEN 0 ELSE ee

\* NetLoop, or NetStartAgain in a handler, halts the device and calls eth_init.
Restart(broken, ok) ==
  /\ pc \in {"loop", "net"} /\ inits < MaxInits
  /\ ee' = MsrAfterInit(broken)
  /\ stopped' = IF broken /\ pc = "loop" THEN 1 ELSE stopped
  /\ IF ok THEN TxReset ELSE TxStop
  /\ inits' = inits + 1
  /\ UNCHANGED <<timestamp, rxmsr, sendVars, txbuf, txde, out, lost, spoilt>>

Hardware == MalFetch \/ MalSent \/ MalTxError \/ MalTxDescError
SendStep == SendArm \/ SendStart \/ PollSent \/ PollTimeout \/ PollAgain

Next ==
  \/ timer_interrupt
  \/ \E ok \in BOOLEAN : mal_err(ok)
  \/ Hardware
  \/ SendCopy \/ SendStep
  \/ RxEnter \/ RxLeave
  \/ \E broken, ok \in BOOLEAN : Restart(broken, ok)

Spec == Init /\ [][Next]_vars

\* The processor runs; the decrementer interrupts while MSR_EE is on.
FairSpec == Spec /\ WF_vars(SendStep) /\ WF_vars(timer_interrupt)

-----------------------------------------------------------------------------
(* Properties *)

InLoop == pc = "loop" \/ (pc \in Sending /\ ret = "loop")

\* The saved and restored copies of MSR_EE nest (ppc_4xx_eth_init in the
\* handler of ppc_4xx_eth_rx, in NetLoop, in an interrupt): packet handlers,
\* and what they send, are never interrupted, and NetLoop always runs with
\* interrupts on, so that its time-outs can expire, until an initialisation
\* called by NetLoop itself ends in an error.
InterruptState ==
  /\ ~InLoop => ee = 0
  /\ InLoop => ee = 1 - stopped

\* The single transmit buffer is not overwritten while the MAL reads it, and
\* no later frame is armed behind it, until a send has timed out.
BufferStable == hw # 0 /\ late = 0 => hw = txbuf

\* When ppc_4xx_eth_send returns the length, the transmitter has done with that
\* very frame, as it was given: it has left, or the EMAC has ended it with an
\* error.  The length does not tell which: of "make sure it is OK" only the
\* wait is in the code.  Not even this much holds if the device was initialised
\* under it by an interrupt or an earlier send that timed out left its frame.
LenMeansDone == result = "len" /\ spoilt = 0 => n \in out \cup lost

\* ppc_4xx_eth_send gives up only after more than TMO milliseconds, also when
\* timestamp wraps around in between.
TimeoutIsLate == result = "-1" => waited > TMO

\* What makes the four above inductive: the saved MSR_EE, the state of the
\* transmitter when no send waits for it, and the time that has passed since
\* time_start.
IInv ==
  /\ TypeOK /\ InterruptState /\ BufferStable /\ LenMeansDone /\ TimeoutIsLate
  /\ ~InLoop => rxmsr = 1 - stopped
  /\ txbuf = n
  /\ hw # 0 => gnp0 = 1
  /\ pc # "poll" /\ late = 0 => gnp0 = 0
  /\ pc \in Sending /\ spoilt = 0 => late = 0
  /\ pc = "poll" /\ spoilt = 0 /\ gnp0 = 0 => n \in out \cup lost
  /\ pc \in Sending => result = "none"
  /\ pc \in {"copied", "armed"} => waited = 0
  /\ pc = "poll" /\ waited <= TMO => timestamp = (time_start + waited) % TMOD

\* A send that can be interrupted ends: the transmitter finishes or the timer
\* interrupt lets the wait expire.
SendEnds == (pc \in Sending /\ ee = 1) ~> (pc \in {"loop", "net"})

=============================================================================
