--------------------------- MODULE EmacTxProofs ---------------------------
(***************************************************************************)
(* What holds of the transmit side for every width of the millisecond      *)
(* count, every time-out shorter than it, any number of frames and         *)
(* initialisations.  IInv is the inductive invariant.                      *)
(***************************************************************************)
EXTENDS EmacTx, TLAPS

\* One more tick, in the arithmetic of ulong.
LEMMA NextTick ==
  ASSUME NEW a \in 0 .. TMOD - 1, NEW k \in 0 .. TMO
  PROVE  (((a + k) % TMOD) + 1) % TMOD = (a + (k + 1)) % TMOD
  BY TimeAssumption, SMT

\* What Elapsed computes while the wait is shorter than the time-out.
LEMMA ElapsedTicks ==
  ASSUME NEW a \in 0 .. TMOD - 1, NEW k \in 0 .. TMO
  PROVE  (((a + k) % TMOD) - a) % TMOD = k
  BY TimeAssumption, SMT

\* timestamp stays in the range of ulong.
LEMMA InRange ==
  ASSUME NEW a \in Int
  PROVE  a % TMOD \in 0 .. TMOD - 1
  BY TimeAssumption, SMT

-----------------------------------------------------------------------------
(* IInv in the groups that the proofs treat one after the other. *)

\* MSR_EE and its saved copy.
MsrInv ==
  /\ InterruptState
  /\ ~InLoop => rxmsr = 1 - stopped

\* The transmitter.
TxInv ==
  /\ BufferStable /\ LenMeansDone
  /\ txbuf = n
  /\ hw # 0 => gnp0 = 1
  /\ pc # "poll" /\ late = 0 => gnp0 = 0
  /\ pc \in Sending /\ spoilt = 0 => late = 0
  /\ pc = "poll" /\ spoilt = 0 /\ gnp0 = 0 => n \in out \cup lost
  /\ pc \in Sending => result = "none"

\* The time since time_start.
TimeInv ==
  /\ TimeoutIsLate
  /\ pc \in {"copied", "armed"} => waited = 0
  /\ pc = "poll" /\ waited <= TMO => timestamp = (time_start + waited) % TMOD

\* IInv is the conjunction of its groups.
LEMMA Groups == IInv <=> TypeOK /\ MsrInv /\ TxInv /\ TimeInv
  BY DEF IInv, MsrInv, TxInv, TimeInv

\* Every step keeps the types.
LEMMA StepType ==
  ASSUME IInv, [Next]_vars
  PROVE  TypeOK'
<1> TypeOK /\ MsrInv /\ TxInv /\ TimeInv
  BY Groups
<1>1. ASSUME timer_interrupt PROVE TypeOK'
  <2>1. timestamp' \in 0 .. TMOD - 1
    <3>1. timestamp + 1 \in Int
      BY TimeAssumption DEF TypeOK
    <3> QED
      BY <1>1, <3>1, InRange DEF timer_interrupt
  <2>2. lag' \in 0 .. MaxLag /\ waited' \in 0 .. TMO + 1
    BY <1>1, TimeAssumption, SMT DEF timer_interrupt, TypeOK
  <2> QED
    BY <1>1, <2>1, <2>2 DEF timer_interrupt, TypeOK, hwVars
<1>2. ASSUME NEW ok \in BOOLEAN, mal_err(ok) PROVE TypeOK'
  BY <1>2, TimeAssumption, SMT DEF mal_err, TxReset, TxStop, TypeOK, Flag, Sending, cpuVars, sendVars, hwVars
<1>3. ASSUME MalFetch PROVE TypeOK'
  BY <1>3, TimeAssumption, SMT DEF MalFetch, TypeOK, Flag, Sending, cpuVars, sendVars, hwVars
<1>4. ASSUME MalSent PROVE TypeOK'
  BY <1>4, TimeAssumption, SMT DEF MalSent, TypeOK, Flag, Sending, cpuVars, sendVars, hwVars
<1>5. ASSUME MalTxError PROVE TypeOK'
  BY <1>5, TimeAssumption, SMT DEF MalTxError, TypeOK, Flag, Sending, cpuVars, sendVars, hwVars
<1>6. ASSUME MalTxDescError PROVE TypeOK'
  BY <1>6, TimeAssumption, SMT DEF MalTxDescError, TypeOK, Flag, Sending, cpuVars, sendVars, hwVars
<1>7. ASSUME SendCopy PROVE TypeOK'
  BY <1>7, TimeAssumption, SMT DEF SendCopy, TypeOK, Flag, Sending, cpuVars, sendVars, hwVars
<1>8. ASSUME SendArm PROVE TypeOK'
  BY <1>8, TimeAssumption, SMT DEF SendArm, TypeOK, Flag, Sending, cpuVars, sendVars, hwVars
<1>9. ASSUME SendStart PROVE TypeOK'
  BY <1>9, TimeAssumption, SMT DEF SendStart, TypeOK, Flag, Sending, cpuVars, sendVars, hwVars
<1>10. ASSUME PollSent PROVE TypeOK'
  BY <1>10, TimeAssumption, SMT DEF PollSent, SendReturn, TypeOK, Flag, Sending, cpuVars, sendVars, hwVars
<1>11. ASSUME PollTimeout PROVE TypeOK'
  BY <1>11, TimeAssumption, SMT DEF PollTimeout, SendReturn, Elapsed, TypeOK, Flag, Sending, cpuVars, sendVars, hwVars
<1>12. ASSUME PollAgain PROVE TypeOK'
  BY <1>12, TimeAssumption, SMT DEF PollAgain, TypeOK, Flag, Sending, cpuVars, sendVars, hwVars
<1>13. ASSUME RxEnter PROVE TypeOK'
  BY <1>13, TimeAssumption, SMT DEF RxEnter, TypeOK, Flag, Sending, cpuVars, sendVars, hwVars
<1>14. ASSUME RxLeave PROVE TypeOK'
  BY <1>14, TimeAssumption, SMT DEF RxLeave, TypeOK, Flag, Sending, cpuVars, sendVars, hwVars
<1>15. ASSUME NEW broken \in BOOLEAN, NEW ok \in BOOLEAN, Restart(broken, ok) PROVE TypeOK'
  BY <1>15, TimeAssumption, SMT DEF Restart, MsrAfterInit, TxReset, TxStop, TypeOK, Flag, Sending, cpuVars, sendVars, hwVars
<1>16. CASE UNCHANGED vars
  BY <1>16 DEF vars, TypeOK, Flag, Sending, cpuVars, sendVars, hwVars
<1> QED
  BY <1>1, <1>2, <1>3, <1>4, <1>5, <1>6, <1>7, <1>8, <1>9, <1>10, <1>11, <1>12, <1>13, <1>14, <1>15, <1>16 DEF Next, Hardware, SendStep

\* Every step keeps MSR_EE and its saved copy in order.
LEMMA StepMsr ==
  ASSUME IInv, [Next]_vars
  PROVE  MsrInv'
<1> TypeOK /\ MsrInv /\ TxInv /\ TimeInv
  BY Groups
<1>1. ASSUME timer_interrupt PROVE MsrInv'
  BY <1>1, TimeAssumption, SMT DEF timer_interrupt, MsrInv, InterruptState, InLoop, Sending, TypeOK, Flag, cpuVars, sendVars, hwVars
<1>2. ASSUME NEW ok \in BOOLEAN, mal_err(ok) PROVE MsrInv'
  BY <1>2, TimeAssumption, SMT DEF mal_err, TxReset, TxStop, MsrInv, InterruptState, InLoop, Sending, TypeOK, Flag, cpuVars, sendVars, hwVars
<1>3. ASSUME MalFetch PROVE MsrInv'
  BY <1>3, TimeAssumption, SMT DEF MalFetch, MsrInv, InterruptState, InLoop, Sending, TypeOK, Flag, cpuVars, sendVars, hwVars
<1>4. ASSUME MalSent PROVE MsrInv'
  BY <1>4, TimeAssumption, SMT DEF MalSent, MsrInv, InterruptState, InLoop, Sending, TypeOK, Flag, cpuVars, sendVars, hwVars
<1>5. ASSUME MalTxError PROVE MsrInv'
  BY <1>5, TimeAssumption, SMT DEF MalTxError, MsrInv, InterruptState, InLoop, Sending, TypeOK, Flag, cpuVars, sendVars, hwVars
<1>6. ASSUME MalTxDescError PROVE MsrInv'
  BY <1>6, TimeAssumption, SMT DEF MalTxDescError, MsrInv, InterruptState, InLoop, Sending, TypeOK, Flag, cpuVars, sendVars, hwVars
<1>7. ASSUME SendCopy PROVE MsrInv'
  BY <1>7, TimeAssumption, SMT DEF SendCopy, MsrInv, InterruptState, InLoop, Sending, TypeOK, Flag, cpuVars, sendVars, hwVars
<1>8. ASSUME SendArm PROVE MsrInv'
  BY <1>8, TimeAssumption, SMT DEF SendArm, MsrInv, InterruptState, InLoop, Sending, TypeOK, Flag, cpuVars, sendVars, hwVars
<1>9. ASSUME SendStart PROVE MsrInv'
  BY <1>9, TimeAssumption, SMT DEF SendStart, MsrInv, InterruptState, InLoop, Sending, TypeOK, Flag, cpuVars, sendVars, hwVars
<1>10. ASSUME PollSent PROVE MsrInv'
  BY <1>10, TimeAssumption, SMT DEF PollSent, SendReturn, MsrInv, InterruptState, InLoop, Sending, TypeOK, Flag, cpuVars, sendVars, hwVars
<1>11. ASSUME PollTimeout PROVE MsrInv'
  BY <1>11, TimeAssumption, SMT DEF PollTimeout, SendReturn, Elapsed, MsrInv, InterruptState, InLoop, Sending, TypeOK, Flag, cpuVars, sendVars, hwVars
<1>12. ASSUME PollAgain PROVE MsrInv'
  BY <1>12, TimeAssumption, SMT DEF PollAgain, MsrInv, InterruptState, InLoop, Sending, TypeOK, Flag, cpuVars, sendVars, hwVars
<1>13. ASSUME RxEnter PROVE MsrInv'
  BY <1>13, TimeAssumption, SMT DEF RxEnter, MsrInv, InterruptState, InLoop, Sending, TypeOK, Flag, cpuVars, sendVars, hwVars
<1>14. ASSUME RxLeave PROVE MsrInv'
  BY <1>14, TimeAssumption, SMT DEF RxLeave, MsrInv, InterruptState, InLoop, Sending, TypeOK, Flag, cpuVars, sendVars, hwVars
<1>15. ASSUME NEW broken \in BOOLEAN, NEW ok \in BOOLEAN, Restart(broken, ok) PROVE MsrInv'
  BY <1>15, TimeAssumption, SMT DEF Restart, MsrAfterInit, TxReset, TxStop, MsrInv, InterruptState, InLoop, Sending, TypeOK, Flag, cpuVars, sendVars, hwVars
<1>16. CASE UNCHANGED vars
  BY <1>16 DEF vars, MsrInv, InterruptState, InLoop, Sending, TypeOK, Flag, cpuVars, sendVars, hwVars
<1> QED
  BY <1>1, <1>2, <1>3, <1>4, <1>5, <1>6, <1>7, <1>8, <1>9, <1>10, <1>11, <1>12, <1>13, <1>14, <1>15, <1>16 DEF Next, Hardware, SendStep

\* Every step keeps the facts about the transmitter: one case per action.
LEMMA StepTx ==
  ASSUME IInv, [Next]_vars
  PROVE  TxInv'
<1> TypeOK /\ MsrInv /\ TxInv /\ TimeInv
  BY Groups
<1>1. ASSUME timer_interrupt PROVE TxInv'
  BY <1>1, TimeAssumption, SMT DEF timer_interrupt, TxInv, BufferStable, LenMeansDone, Sending, TypeOK, Flag, cpuVars, sendVars, hwVars
<1>2. ASSUME NEW ok \in BOOLEAN, mal_err(ok) PROVE TxInv'
  BY <1>2, TimeAssumption, SMT DEF mal_err, TxReset, TxStop, TxInv, BufferStable, LenMeansDone, Sending, TypeOK, Flag, cpuVars, sendVars, hwVars
<1>3. ASSUME MalFetch PROVE TxInv'
  BY <1>3, TimeAssumption, SMT DEF MalFetch, TxInv, BufferStable, LenMeansDone, Sending, TypeOK, Flag, cpuVars, sendVars, hwVars
<1>4. ASSUME MalSent PROVE TxInv'
  BY <1>4, TimeAssumption, SMT DEF MalSent, TxInv, BufferStable, LenMeansDone, Sending, TypeOK, Flag, cpuVars, sendVars, hwVars
<1>5. ASSUME MalTxError PROVE TxInv'
  BY <1>5, TimeAssumption, SMT DEF MalTxError, TxInv, BufferStable, LenMeansDone, Sending, TypeOK, Flag, cpuVars, sendVars, hwVars
<1>6. ASSUME MalTxDescError PROVE TxInv'
  BY <1>6, TimeAssumption, SMT DEF MalTxDescError, TxInv, BufferStable, LenMeansDone, Sending, TypeOK, Flag, cpuVars, sendVars, hwVars
<1>7. ASSUME SendCopy PROVE TxInv'
  BY <1>7, TimeAssumption, SMT DEF SendCopy, TxInv, BufferStable, LenMeansDone, Sending, TypeOK, Flag, cpuVars, sendVars, hwVars
<1>8. ASSUME SendArm PROVE TxInv'
  BY <1>8, TimeAssumption, SMT DEF SendArm, TxInv, BufferStable, LenMeansDone, Sending, TypeOK, Flag, cpuVars, sendVars, hwVars
<1>9. ASSUME SendStart PROVE TxInv'
  BY <1>9, TimeAssumption, SMT DEF SendStart, TxInv, BufferStable, LenMeansDone, Sending, TypeOK, Flag, cpuVars, sendVars, hwVars
<1>10. ASSUME PollSent PROVE TxInv'
  BY <1>10, TimeAssumption, SMT DEF PollSent, SendReturn, TxInv, BufferStable, LenMeansDone, Sending, TypeOK, Flag, cpuVars, sendVars, hwVars
<1>11. ASSUME PollTimeout PROVE TxInv'
  BY <1>11, TimeAssumption, SMT DEF PollTimeout, SendReturn, Elapsed, TxInv, BufferStable, LenMeansDone, Sending, TypeOK, Flag, cpuVars, sendVars, hwVars
<1>12. ASSUME PollAgain PROVE TxInv'
  BY <1>12, TimeAssumption, SMT DEF PollAgain, TxInv, BufferStable, LenMeansDone, Sending, TypeOK, Flag, cpuVars, sendVars, hwVars
<1>13. ASSUME RxEnter PROVE TxInv'
  BY <1>13, TimeAssumption, SMT DEF RxEnter, TxInv, BufferStable, LenMeansDone, Sending, TypeOK, Flag, cpuVars, sendVars, hwVars
<1>14. ASSUME RxLeave PROVE TxInv'
  BY <1>14, TimeAssumption, SMT DEF RxLeave, TxInv, BufferStable, LenMeansDone, Sending, TypeOK, Flag, cpuVars, sendVars, hwVars
<1>15. ASSUME NEW broken \in BOOLEAN, NEW ok \in BOOLEAN, Restart(broken, ok) PROVE TxInv'
  BY <1>15, TimeAssumption, SMT DEF Restart, MsrAfterInit, TxReset, TxStop, TxInv, BufferStable, LenMeansDone, Sending, TypeOK, Flag, cpuVars, sendVars, hwVars
<1>16. CASE UNCHANGED vars
  BY <1>16 DEF vars, TxInv, BufferStable, LenMeansDone, Sending, TypeOK, Flag, cpuVars, sendVars, hwVars
<1> QED
  BY <1>1, <1>2, <1>3, <1>4, <1>5, <1>6, <1>7, <1>8, <1>9, <1>10, <1>11, <1>12, <1>13, <1>14, <1>15, <1>16 DEF Next, Hardware, SendStep

\* Every step keeps waited in line with timestamp.
LEMMA StepTime ==
  ASSUME IInv, [Next]_vars
  PROVE  TimeInv'
<1> TypeOK /\ MsrInv /\ TxInv /\ TimeInv
  BY Groups
<1>1. ASSUME timer_interrupt PROVE TimeInv'
  <2>1. TimeoutIsLate'
    BY <1>1, TimeAssumption, SMT DEF timer_interrupt, TypeOK, TimeInv, TimeoutIsLate
  <2>2. pc' \in {"copied", "armed"} => waited' = 0
    BY <1>1, TimeAssumption, SMT DEF timer_interrupt, TypeOK, TimeInv
  <2>3. ASSUME pc' = "poll", waited' <= TMO
        PROVE  timestamp' = (time_start' + waited') % TMOD
    <3>1. pc = "poll" /\ waited \in 0 .. TMO /\ waited' = waited + 1 /\ time_start' = time_start
      BY <1>1, <2>3, TimeAssumption, SMT DEF timer_interrupt, TypeOK
    <3>2. timestamp = (time_start + waited) % TMOD /\ time_start \in 0 .. TMOD - 1
      BY <3>1 DEF TimeInv, TypeOK
    <3>3. (((time_start + waited) % TMOD) + 1) % TMOD = (time_start + (waited + 1)) % TMOD
      BY <3>1, <3>2, NextTick
    <3> QED
      BY <1>1, <3>1, <3>2, <3>3 DEF timer_interrupt
  <2> QED
    BY <2>1, <2>2, <2>3 DEF TimeInv
<1>2. ASSUME NEW ok \in BOOLEAN, mal_err(ok) PROVE TimeInv'
  BY <1>2, TimeAssumption, SMT DEF mal_err, TxReset, TxStop, TimeInv, TimeoutIsLate, Sending, TypeOK, Flag, cpuVars, sendVars, hwVars
<1>3. ASSUME MalFetch PROVE TimeInv'
  BY <1>3, TimeAssumption, SMT DEF MalFetch, TimeInv, TimeoutIsLate, Sending, TypeOK, Flag, cpuVars, sendVars, hwVars
<1>4. ASSUME MalSent PROVE TimeInv'
  BY <1>4, TimeAssumption, SMT DEF MalSent, TimeInv, TimeoutIsLate, Sending, TypeOK, Flag, cpuVars, sendVars, hwVars
<1>5. ASSUME MalTxError PROVE TimeInv'
  BY <1>5, TimeAssumption, SMT DEF MalTxError, TimeInv, TimeoutIsLate, Sending, TypeOK, Flag, cpuVars, sendVars, hwVars
<1>6. ASSUME MalTxDescError PROVE TimeInv'
  BY <1>6, TimeAssumption, SMT DEF MalTxDescError, TimeInv, TimeoutIsLate, Sending, TypeOK, Flag, cpuVars, sendVars, hwVars
<1>7. ASSUME SendCopy PROVE TimeInv'
  BY <1>7, TimeAssumption, SMT DEF SendCopy, TimeInv, TimeoutIsLate, Sending, TypeOK, Flag, cpuVars, sendVars, hwVars
<1>8. ASSUME SendArm PROVE TimeInv'
  BY <1>8, TimeAssumption, SMT DEF SendArm, TimeInv, TimeoutIsLate, Sending, TypeOK, Flag, cpuVars, sendVars, hwVars
<1>9. ASSUME SendStart PROVE TimeInv'
  BY <1>9, TimeAssumption, SMT DEF SendStart, TimeInv, TimeoutIsLate, Sending, TypeOK, Flag, cpuVars, sendVars, hwVars
<1>10. ASSUME PollSent PROVE TimeInv'
  BY <1>10, TimeAssumption, SMT DEF PollSent, SendReturn, TimeInv, TimeoutIsLate, Sending, TypeOK, Flag, cpuVars, sendVars, hwVars
<1>11. ASSUME PollTimeout PROVE TimeInv'
  BY <1>11, TimeAssumption, ElapsedTicks, SMT DEF PollTimeout, SendReturn, Elapsed, TimeInv, TimeoutIsLate, Sending, TypeOK, Flag, cpuVars, sendVars, hwVars
<1>12. ASSUME PollAgain PROVE TimeInv'
  BY <1>12, TimeAssumption, SMT DEF PollAgain, TimeInv, TimeoutIsLate, Sending, TypeOK, Flag, cpuVars, sendVars, hwVars
<1>13. ASSUME RxEnter PROVE TimeInv'
  BY <1>13, TimeAssumption, SMT DEF RxEnter, TimeInv, TimeoutIsLate, Sending, TypeOK, Flag, cpuVars, sendVars, hwVars
<1>14. ASSUME RxLeave PROVE TimeInv'
  BY <1>14, TimeAssumption, SMT DEF RxLeave, TimeInv, TimeoutIsLate, Sending, TypeOK, Flag, cpuVars, sendVars, hwVars
<1>15. ASSUME NEW broken \in BOOLEAN, NEW ok \in BOOLEAN, Restart(broken, ok) PROVE TimeInv'
  BY <1>15, TimeAssumption, SMT DEF Restart, MsrAfterInit, TxReset, TxStop, TimeInv, TimeoutIsLate, Sending, TypeOK, Flag, cpuVars, sendVars, hwVars
<1>16. CASE UNCHANGED vars
  BY <1>16 DEF vars, TimeInv, TimeoutIsLate, Sending, TypeOK, Flag, cpuVars, sendVars, hwVars
<1> QED
  BY <1>1, <1>2, <1>3, <1>4, <1>5, <1>6, <1>7, <1>8, <1>9, <1>10, <1>11, <1>12, <1>13, <1>14, <1>15, <1>16 DEF Next, Hardware, SendStep

-----------------------------------------------------------------------------
\* The inductive invariant of the transmit side.
THEOREM Invariance == Spec => []IInv
<1>1. Init => IInv
  BY TimeAssumption, SMT DEF Init, IInv, TypeOK, Flag, Sending, InterruptState, InLoop,
     BufferStable, LenMeansDone, TimeoutIsLate
<1>2. IInv /\ [Next]_vars => IInv'
  <2> SUFFICES ASSUME IInv, [Next]_vars PROVE IInv'
    OBVIOUS
  <2>1. TypeOK' /\ MsrInv' /\ TxInv' /\ TimeInv'
    BY StepType, StepMsr, StepTx, StepTime
  <2> QED
    BY <2>1 DEF IInv, MsrInv, TxInv, TimeInv
<1> QED
  BY <1>1, <1>2, PTL DEF Spec

\* MSR_EE nests: handlers are never interrupted, NetLoop always is, until an
\* initialisation in NetLoop fails (ppc_4xx_eth_init, ppc_4xx_eth_rx).
THEOREM MsrNests == Spec => []InterruptState
<1>1. IInv => InterruptState
  BY DEF IInv
<1> QED
  BY <1>1, Invariance, PTL

\* The buffer of ppc_4xx_eth_send is not overwritten under the MAL until a
\* send has timed out.
THEOREM StableBuffer == Spec => []BufferStable
<1>1. IInv => BufferStable
  BY DEF IInv
<1> QED
  BY <1>1, Invariance, PTL

\* A length returned by ppc_4xx_eth_send means that the transmitter has done
\* with this frame, whether it left or ended with an error, unless an
\* initialisation or a late frame came in between.
THEOREM LenIsDone == Spec => []LenMeansDone
<1>1. IInv => LenMeansDone
  BY DEF IInv
<1> QED
  BY <1>1, Invariance, PTL

\* ppc_4xx_eth_send never gives up early, wherever timestamp wraps around.
THEOREM NoEarlyTimeout == Spec => []TimeoutIsLate
<1>1. IInv => TimeoutIsLate
  BY DEF IInv
<1> QED
  BY <1>1, Invariance, PTL

=============================================================================
