------------------------------- MODULE Tftp -------------------------------
(***************************************************************************)
(* The TFTP client (net/tftp.c) inside NetLoop, against a server that      *)
(* follows RFC 1350 and RFC 2347, over a network that loses packets and,   *)
(* as Network says, duplicates and delays them.                            *)
(*                                                                         *)
(* Memory and the file are counted in units; a block of the default size   *)
(* is BLK units, one of the negotiated size OPT units.  The unit at file   *)
(* offset u has the value u + 1, and 0 is what memory holds before.  A     *)
(* packet is a triple: <<"RRQ", port, 0>> and <<"ACK", s, block>> to the   *)
(* server, <<"OACK", s, 0>>, <<"DATA", s, n>> and <<"ERROR", s, c>> to the *)
(* client, s being the server's transfer identifier (its port) and n the   *)
(* number of the block in the file; n % SEQ is what the packet says.       *)
(***************************************************************************)
EXTENDS Integers

CONSTANTS
  FILE,          \* length of the file, in units
  BLK, OPT,      \* TFTP_BLOCK_SIZE and the size the server offers, in units
  SEQ,           \* TFTP_SEQUENCE_SIZE
  Sid,           \* bound: the transfers the server can start
  TIMEOUT_COUNT, \* time-outs before the client starts again
  retrycnt,      \* netretry, a number
  PortReuse,     \* TftpOurPort comes out the same in every attempt
  Wraps,         \* the values NetRestartWrap may have after eth_try_another
  Network,       \* "once", "repeat" or "reorder"
  MemTop         \* bound: memory cells the model keeps

ASSUME SizeAssumption == FILE \in Nat /\ BLK \in Nat \ {0} /\ OPT \in Nat \ {0}
ASSUME SeqAssumption == SEQ \in Nat \ {0, 1}
ASSUME SidAssumption == Sid \subseteq Nat \ {0}
ASSUME RetryAssumption == TIMEOUT_COUNT \in Nat /\ retrycnt \in Nat
ASSUME SwitchAssumption == PortReuse \in BOOLEAN /\ Wraps \subseteq BOOLEAN
ASSUME NetworkAssumption == Network \in {"once", "repeat", "reorder"}
ASSUME MemAssumption == MemTop \in Nat /\ FILE <= MemTop

VARIABLES
  NetState,            \* "CONTINUE", "RESTART", "SUCCESS" or "FAIL"
  loop,                \* NetLoop: "rx" in eth_rx, "state" at the switch, "end"
  handler,             \* packetHandler: "tftp" or "ignore" (startAgainHandler)
  timer,               \* timeHandler: "none", "tftp" or "again" (startAgainTimeout)
  up,                  \* the Ethernet device: eth_init, eth_halt
  NetTryCount,
  TftpState,           \* "RRQ", "OACK" or "DATA"
  TftpServerPort,      \* the transfer the client talks to; 0 is port 69
  TftpOurPort,
  TftpBlock, TftpLastBlock,
  TftpBlockWrapOffset,
  TftpBlkSize,
  TftpTimeoutCount,
  mem,                 \* memory from load_addr on
  NetBootFileXferSize,
  sess,                \* the server's transfers
  closed,              \* those it has ended with an error
  toServer, toClient   \* packets that may still arrive

netVars == <<NetState, handler, timer, up, NetTryCount>>
blockVars == <<TftpBlock, TftpLastBlock, TftpBlockWrapOffset>>
fileVars == <<mem, NetBootFileXferSize>>
serverVars == <<sess, closed>>
vars == <<netVars, loop, TftpState, TftpServerPort, TftpOurPort, blockVars, TftpBlkSize,
          TftpTimeoutCount, fileVars, sess, closed, toServer, toClient>>

Cells == 0 .. MemTop - 1

\* A transfer of the server: its client's port, the block size it uses and the
\* number of the block it has sent last (0 while its OACK waits for the ACK).
Free == [port |-> 0, size |-> BLK, block |-> 0]

\* File offset and length of block n of transfer s; the last block is shorter
\* than the others, and empty when the file is a multiple of the block size.
BlockOff(s, n) == (n - 1) * sess[s].size
BlockLen(s, n) == IF sess[s].size <= FILE - BlockOff(s, n)
                  THEN sess[s].size
                  ELSE FILE - BlockOff(s, n)

TypeOK ==
  /\ NetState \in {"CONTINUE", "RESTART", "SUCCESS", "FAIL"}
  /\ loop \in {"rx", "state", "end"}
  /\ handler \in {"tftp", "ignore"} /\ timer \in {"none", "tftp", "again"}
  /\ up \in BOOLEAN /\ NetTryCount \in Nat \ {0}
  /\ TftpState \in {"RRQ", "OACK", "DATA"}
  /\ TftpServerPort \in Sid \cup {0} /\ TftpOurPort \in Nat \ {0}
  /\ TftpBlock \in 0 .. SEQ - 1 /\ TftpLastBlock \in 0 .. SEQ - 1
  /\ TftpBlockWrapOffset \in Nat /\ TftpBlkSize \in {BLK, OPT}
  /\ TftpTimeoutCount \in Nat
  /\ mem \in [Cells -> Int] /\ NetBootFileXferSize \in Nat
  /\ sess \in [Sid -> [port : Nat, size : {BLK, OPT}, block : Nat]]
  /\ closed \subseteq Sid
  /\ toServer \subseteq ({"RRQ"} \X (Nat \ {0}) \X {0})
                          \cup ({"ACK"} \X Sid \X (0 .. SEQ - 1))
  /\ toClient \subseteq ({"OACK"} \X Sid \X {0})
                          \cup ({"DATA"} \X Sid \X (Nat \ {0}))
                          \cup ({"ERROR"} \X Sid \X {0, 1})

\* The network keeps every packet ("reorder"), or the latest of a direction
\* until another follows ("repeat"), or until it is received ("once").
Put(ch, p) == IF Network = "reorder" THEN ch \cup {p} ELSE {p}
Take(ch, p) == IF Network = "once" THEN ch \ {p} ELSE ch

\* A halted device neither sends nor receives; what it has received already
\* is still handled.
Deliver(p) == toClient' = IF up THEN Put(toClient, p) ELSE toClient

\* TftpSend: the packet of the state the client is in.
TftpSend(state, port, server, block) ==
  toServer' = IF up THEN Put(toServer, IF state = "RRQ" THEN <<"RRQ", port, 0>>
                                       ELSE <<"ACK", server, block>>)
              ELSE toServer

\* Mutant: a restart is not counted.
NetStartAgainUncounted(t) ==
  \/ /\ NetTryCount >= retrycnt
     /\ NetState' = "FAIL" /\ up' = FALSE /\ timer' = t
     /\ UNCHANGED <<handler, NetTryCount>>
  \/ /\ NetTryCount < retrycnt
     /\ up' = TRUE /\ handler' = "ignore" /\ timer' = "again"
     /\ UNCHANGED <<NetState, NetTryCount>>

\* NetStartAgain with the handlers as they are when it is called: give up,
\* pause for ten seconds when every interface has been tried, or go on at once.
NetStartAgain(t) ==
  \/ /\ NetTryCount >= retrycnt
     /\ NetState' = "FAIL" /\ up' = FALSE /\ timer' = t
     /\ UNCHANGED <<handler, NetTryCount>>
  \/ /\ NetTryCount < retrycnt
     /\ NetTryCount' = NetTryCount + 1 /\ up' = TRUE
     /\ \/ TRUE \in Wraps /\ handler' = "ignore" /\ timer' = "again" /\ UNCHANGED NetState
        \/ FALSE \in Wraps /\ NetState' = "RESTART" /\ timer' = t /\ UNCHANGED handler

Init ==
  /\ NetState = "CONTINUE" /\ loop = "rx" /\ handler = "tftp" /\ timer = "tftp"
  /\ up = TRUE /\ NetTryCount = 1
  /\ TftpState = "RRQ" /\ TftpServerPort = 0 /\ TftpOurPort = 1
  /\ TftpBlock = 0 /\ TftpLastBlock = 0 /\ TftpBlockWrapOffset = 0
  /\ TftpBlkSize = BLK /\ TftpTimeoutCount = 0
  /\ mem = [u \in Cells |-> 0] /\ NetBootFileXferSize = 0
  /\ sess = [s \in Sid |-> Free] /\ closed = {}
  /\ toServer = {<<"RRQ", 1, 0>>} /\ toClient = {}

-----------------------------------------------------------------------------
(* TftpHandler, called by NetReceive for every packet that eth_rx delivers. *)

\* Mutant: packets of any transfer are accepted, once there is one.
ReceiveAnyServer(type, s, n) ==
  /\ loop = "rx" /\ handler = "tftp"
  /\ <<type, s, n>> \in toClient
  /\ toClient' = Take(toClient, <<type, s, n>>)
  /\ sess[s].port = TftpOurPort

\* A packet from transfer s passes the checks of the ports at its head.
Receive(type, s, n) ==
  /\ loop = "rx" /\ handler = "tftp"
  /\ <<type, s, n>> \in toClient
  /\ toClient' = Take(toClient, <<type, s, n>>)
  /\ sess[s].port = TftpOurPort
  /\ TftpState = "RRQ" \/ s = TftpServerPort

\* The size of the blocks is what the OACK says, if it names that option, or
\* else stays as it is: the server may have accepted the time-out only.
OnOack(s) ==
  /\ Receive("OACK", s, 0)
  /\ TftpState' = "OACK" /\ TftpServerPort' = s
  /\ TftpBlkSize' = IF sess[s].size = OPT THEN OPT ELSE TftpBlkSize
  /\ TftpSend("OACK", TftpOurPort, s, TftpBlock)
  /\ UNCHANGED <<netVars, loop, TftpOurPort, blockVars, TftpTimeoutCount, fileVars, serverVars>>

\* A data packet: the wrap of the 16 bit counter is noted before anything else.
BlockNo(n) == n % SEQ

\* Mutant: the wrap is not noted.
WrapOffsetKept(n) == TftpBlockWrapOffset

WrapOffset(n) == TftpBlockWrapOffset + (IF BlockNo(n) = 0 THEN TftpBlkSize * SEQ ELSE 0)
FirstBlock == TftpState \in {"RRQ", "OACK"}

\* The first block of the transfer is not block 1.
OnDataNotFirst(s, n) ==
  /\ Receive("DATA", s, n)
  /\ FirstBlock /\ BlockNo(n) # 1
  /\ TftpBlock' = BlockNo(n) /\ TftpLastBlock' = 0 /\ TftpBlockWrapOffset' = 0
  /\ TftpState' = "DATA" /\ TftpServerPort' = s
  /\ NetStartAgain(timer)
  /\ UNCHANGED <<loop, TftpOurPort, TftpBlkSize, TftpTimeoutCount, fileVars, serverVars, toServer>>

\* The same block again.
OnDataSame(s, n) ==
  /\ Receive("DATA", s, n)
  /\ ~FirstBlock /\ BlockNo(n) = TftpLastBlock
  /\ TftpBlock' = BlockNo(n) /\ TftpBlockWrapOffset' = WrapOffset(n)
  /\ UNCHANGED <<netVars, loop, TftpState, TftpServerPort, TftpOurPort, TftpLastBlock,
                 TftpBlkSize, TftpTimeoutCount, fileVars, serverVars, toServer>>

\* store_block: copy the block to memory and note the highest address.
store_block(offset, s, n) ==
  /\ mem' = [u \in Cells |->
               IF u >= offset /\ u < offset + BlockLen(s, n)
               THEN BlockOff(s, n) + (u - offset) + 1
               ELSE mem[u]]
  /\ NetBootFileXferSize' = IF NetBootFileXferSize < offset + BlockLen(s, n)
                            THEN offset + BlockLen(s, n)
                            ELSE NetBootFileXferSize

\* A new block: store it, acknowledge it, and finish if it is a short one.
OnDataNew(s, n) ==
  /\ Receive("DATA", s, n)
  /\ IF FirstBlock THEN BlockNo(n) = 1 ELSE BlockNo(n) # TftpLastBlock
  /\ TftpBlock' = BlockNo(n) /\ TftpLastBlock' = BlockNo(n)
  /\ TftpBlockWrapOffset' = IF FirstBlock THEN 0 ELSE WrapOffset(n)
  /\ TftpState' = "DATA" /\ TftpServerPort' = s
  /\ timer' = "tftp"
  /\ store_block((BlockNo(n) - 1) * TftpBlkSize + TftpBlockWrapOffset', s, n)
  /\ TftpSend("DATA", TftpOurPort, s, BlockNo(n))
  /\ NetState' = IF BlockLen(s, n) < TftpBlkSize THEN "SUCCESS" ELSE NetState
  /\ UNCHANGED <<handler, up, NetTryCount, loop, TftpOurPort, TftpBlkSize,
                 TftpTimeoutCount, serverVars>>

\* An error packet: code 1 stands for those that are not retried.
OnError(s, c) ==
  /\ Receive("ERROR", s, c)
  /\ IF c = 1 THEN NetState' = "FAIL" /\ up' = FALSE /\ UNCHANGED <<handler, timer, NetTryCount>>
              ELSE NetStartAgain(timer)
  /\ UNCHANGED <<loop, TftpState, TftpServerPort, TftpOurPort, blockVars, TftpBlkSize,
                 TftpTimeoutCount, fileVars, serverVars, toServer>>

-----------------------------------------------------------------------------
(* NetLoop: after eth_rx the timer is looked at, then NetState. *)

clientVars == <<TftpState, TftpServerPort, TftpOurPort, blockVars, TftpBlkSize, fileVars>>

NoTimeout ==
  /\ loop = "rx" /\ loop' = "state"
  /\ UNCHANGED <<netVars, clientVars, TftpTimeoutCount, serverVars, toServer, toClient>>

\* ctrl-c: NetLoop returns -1.
Abort ==
  /\ loop = "rx" /\ loop' = "end"
  /\ UNCHANGED <<netVars, clientVars, TftpTimeoutCount, serverVars, toServer, toClient>>

\* Mutant: the time-out is not set again.
TftpTimeoutOnce ==
  /\ loop = "rx" /\ timer = "tftp"
  /\ loop' = "state"
  /\ TftpTimeoutCount' = TftpTimeoutCount + 1
  /\ IF TftpTimeoutCount' > TIMEOUT_COUNT
     THEN NetStartAgain("none") /\ UNCHANGED toServer
     ELSE /\ TftpSend(TftpState, TftpOurPort, TftpServerPort, TftpBlock)
          /\ timer' = "none" /\ UNCHANGED <<NetState, handler, up, NetTryCount>>
  /\ UNCHANGED <<clientVars, serverVars, toClient>>

\* NetLoop clears timeHandler and calls it.
TftpTimeout ==
  /\ loop = "rx" /\ timer = "tftp"
  /\ loop' = "state"
  /\ TftpTimeoutCount' = TftpTimeoutCount + 1
  /\ IF TftpTimeoutCount' > TIMEOUT_COUNT
     THEN NetStartAgain("none") /\ UNCHANGED toServer
     ELSE /\ TftpSend(TftpState, TftpOurPort, TftpServerPort, TftpBlock)
          /\ timer' = "tftp" /\ UNCHANGED <<NetState, handler, up, NetTryCount>>
  /\ UNCHANGED <<clientVars, serverVars, toClient>>

startAgainTimeout ==
  /\ loop = "rx" /\ timer = "again"
  /\ loop' = "state"
  /\ NetState' = "RESTART" /\ timer' = "none"
  /\ UNCHANGED <<handler, up, NetTryCount, clientVars, TftpTimeoutCount, serverVars,
                 toServer, toClient>>

\* Mutant: TftpBlock is not reset.
TftpStartKeepsBlock ==
  /\ loop = "state" /\ NetState = "RESTART"
  /\ loop' = "rx" /\ NetState' = "CONTINUE"
  /\ handler' = "tftp" /\ timer' = "tftp"
  /\ TftpServerPort' = 0 /\ TftpTimeoutCount' = 0 /\ TftpState' = "RRQ"
  /\ TftpOurPort' = NetTryCount
  /\ TftpBlkSize' = BLK
  /\ NetBootFileXferSize' = 0
  /\ TftpSend("RRQ", TftpOurPort', 0, 0)
  /\ UNCHANGED <<up, NetTryCount, blockVars, mem, serverVars, toClient>>

\* Mutant: TftpBlkSize is not reverted to the default.
TftpStartKeepsSize ==
  /\ loop = "state" /\ NetState = "RESTART"
  /\ loop' = "rx" /\ NetState' = "CONTINUE"
  /\ handler' = "tftp" /\ timer' = "tftp"
  /\ TftpServerPort' = 0 /\ TftpTimeoutCount' = 0 /\ TftpState' = "RRQ"
  /\ TftpOurPort' = NetTryCount
  /\ TftpBlock' = 0
  /\ NetBootFileXferSize' = 0
  /\ TftpSend("RRQ", TftpOurPort', 0, 0)
  /\ UNCHANGED <<up, NetTryCount, TftpLastBlock, TftpBlockWrapOffset, TftpBlkSize, mem,
                 serverVars, toClient>>

\* goto restart, where NetLoop calls TftpStart.
TftpStart ==
  /\ loop = "state" /\ NetState = "RESTART"
  /\ loop' = "rx" /\ NetState' = "CONTINUE"
  /\ handler' = "tftp" /\ timer' = "tftp"
  /\ TftpServerPort' = 0 /\ TftpTimeoutCount' = 0 /\ TftpState' = "RRQ"
  /\ TftpOurPort' = IF PortReuse THEN 1 ELSE NetTryCount
  /\ TftpBlock' = 0 /\ TftpBlkSize' = BLK
  /\ NetBootFileXferSize' = 0
  /\ TftpSend("RRQ", TftpOurPort', 0, 0)
  /\ UNCHANGED <<up, NetTryCount, TftpLastBlock, TftpBlockWrapOffset, mem, serverVars, toClient>>

NetLoopGoesOn ==
  /\ loop = "state" /\ NetState = "CONTINUE"
  /\ loop' = "rx"
  /\ UNCHANGED <<netVars, clientVars, TftpTimeoutCount, serverVars, toServer, toClient>>

NetLoopReturns ==
  /\ loop = "state" /\ NetState \in {"SUCCESS", "FAIL"}
  /\ loop' = "end"
  /\ UNCHANGED <<netVars, clientVars, TftpTimeoutCount, serverVars, toServer, toClient>>

-----------------------------------------------------------------------------
(* The server. *)

serverStep == UNCHANGED <<netVars, loop, clientVars, TftpTimeoutCount>>

\* A read request starts a transfer, with an OACK for the options that are
\* accepted, of which the block size need not be one, or without.
ServeRequest(s, p, size) ==
  /\ <<"RRQ", p, 0>> \in toServer /\ toServer' = Take(toServer, <<"RRQ", p, 0>>)
  /\ sess[s] = Free
  /\ \/ /\ sess' = [sess EXCEPT ![s] = [port |-> p, size |-> size, block |-> 0]]
        /\ Deliver(<<"OACK", s, 0>>)
     \/ /\ size = BLK
        /\ sess' = [sess EXCEPT ![s] = [port |-> p, size |-> BLK, block |-> 1]]
        /\ Deliver(<<"DATA", s, 1>>)
  /\ UNCHANGED closed /\ serverStep

\* The block sent last is acknowledged and it was not the last of the file.
ServeAck(s, k) ==
  /\ <<"ACK", s, k>> \in toServer /\ toServer' = Take(toServer, <<"ACK", s, k>>)
  /\ k = BlockNo(sess[s].block) /\ s \notin closed
  /\ sess[s].block = 0 \/ BlockLen(s, sess[s].block) = sess[s].size
  /\ sess' = [sess EXCEPT ![s].block = @ + 1]
  /\ Deliver(<<"DATA", s, sess[s].block + 1>>)
  /\ UNCHANGED closed /\ serverStep

\* The server retransmits the packet it sent last, or reports an error.
Resend(s) ==
  /\ sess[s].port # 0 /\ s \notin closed /\ Network # "once"
  /\ Deliver(IF sess[s].block = 0 THEN <<"OACK", s, 0>> ELSE <<"DATA", s, sess[s].block>>)
  /\ UNCHANGED <<serverVars, toServer>> /\ serverStep

SendError(s, c) ==
  /\ sess[s].port # 0 /\ s \notin closed
  /\ closed' = closed \cup {s}
  /\ Deliver(<<"ERROR", s, c>>)
  /\ UNCHANGED <<sess, toServer>> /\ serverStep

-----------------------------------------------------------------------------
Blocks(s) == 1 .. sess[s].block

TftpHandler ==
  \E s \in Sid : \/ OnOack(s)
                 \/ \E n \in Blocks(s) : OnDataNotFirst(s, n) \/ OnDataSame(s, n) \/ OnDataNew(s, n)
                 \/ \E c \in {0, 1} : OnError(s, c)

TimerStep == NoTimeout \/ TftpTimeout \/ startAgainTimeout
StateStep == TftpStart \/ NetLoopGoesOn \/ NetLoopReturns

Server ==
  \E s \in Sid : \/ \E p \in 1 .. NetTryCount, size \in {BLK, OPT} : ServeRequest(s, p, size)
                 \/ \E k \in 0 .. SEQ - 1 : ServeAck(s, k)
                 \/ Resend(s)
                 \/ \E c \in {0, 1} : SendError(s, c)

Next == TftpHandler \/ TimerStep \/ Abort \/ StateStep \/ Server
Spec == Init /\ [][Next]_vars

\* eth_rx returns, NetLoop keeps going round, and a time-out that stays set
\* is eventually found to have expired.
FairSpec ==
  /\ Spec
  /\ WF_vars(TimerStep) /\ WF_vars(StateStep)
  /\ SF_vars(TftpTimeout) /\ SF_vars(startAgainTimeout)

-----------------------------------------------------------------------------
\* Memory m holds the file up to offset x.
Holds(m, x) == \A u \in 0 .. FILE - 1 : u < x => m[u] = u + 1

\* When the client reports success, memory holds the file, all of it, and
\* filesize is its length (OnDataNew, "We received the whole thing").
Integrity ==
  NetState = "SUCCESS" =>
    NetBootFileXferSize = FILE /\ Holds(mem, FILE)

\* A block is acknowledged only when it and all before it are in memory: the
\* server forgets what it has been acknowledged (TftpSend).
AckedStored ==
  \A s \in Sid, k \in 0 .. SEQ - 1 :
    <<"ACK", s, k>> \in toServer /\ sess[s].port = TftpOurPort
      => Holds(mem, k * sess[s].size)

\* NetLoop never waits with no time-out pending: every handler that ran
\* either set one again or decided the outcome (NetSetTimeout).
Watched == loop = "rx" /\ NetState = "CONTINUE" => timer # "none"

\* With a bound on the retries, NetLoop returns, whatever the server does and
\* whichever packets the network loses, for a file of finite length that the
\* server does not send again and again (TftpTimeout, NetStartAgain).
Terminates == <>(loop = "end")

-----------------------------------------------------------------------------
(* What makes Integrity and AckedStored inductive, when ports are not reused, *)
(* the counter does not wrap and a restart silences the handler.              *)

Ours(s) == sess[s].port = TftpOurPort

\* A restart is for a port that no transfer and no request has used.
PortInv ==
  /\ TftpOurPort <= NetTryCount
  /\ NetState = "RESTART" \/ handler = "ignore" => TftpOurPort < NetTryCount
  /\ timer = "again" => handler = "ignore"
  /\ timer = "tftp" => handler = "tftp"
  /\ \A s \in Sid : sess[s].port <= TftpOurPort
  /\ \A m \in toServer : m[1] = "RRQ" => m[2] <= TftpOurPort
  /\ \A s \in Sid, k \in 0 .. SEQ - 1 : <<"ACK", s, k>> \in toServer => sess[s].port # 0

\* The client knows the block size of the transfer it is bound to, and the
\* other transfers of its port have not been answered.
BoundInv ==
  /\ TftpState = "RRQ" => TftpServerPort = 0 /\ TftpBlkSize = BLK /\ TftpBlock = 0
  /\ TftpState # "RRQ" => /\ TftpServerPort \in Sid
                          /\ Ours(TftpServerPort)
                          /\ TftpBlkSize = sess[TftpServerPort].size
  /\ TftpState = "DATA" => TftpBlockWrapOffset = 0
  /\ \A s \in Sid : Ours(s) /\ s # TftpServerPort =>
       /\ \A k \in 0 .. SEQ - 1 : <<"ACK", s, k>> \notin toServer
       /\ sess[s].block = 0 \/ (sess[s].block = 1 /\ sess[s].size = BLK)

\* What the server has moved past, and what the client would acknowledge again,
\* is in memory.
StoredInv ==
  /\ \A s \in Sid : (sess[s].block - 1) * sess[s].size <= FILE
  /\ \A s \in Sid : Ours(s) => Holds(mem, (sess[s].block - 1) * sess[s].size)
  /\ TftpState # "RRQ" /\ up /\ handler = "tftp" => Holds(mem, TftpBlock * TftpBlkSize)
  /\ TftpState = "DATA" => Holds(mem, TftpLastBlock * TftpBlkSize)
  /\ NetBootFileXferSize <= FILE

\* The inductive invariant of the transfer: the port is fresh, the block size
\* is the server's, and all that was acknowledged has been stored.
IInv == TypeOK /\ PortInv /\ BoundInv /\ StoredInv /\ AckedStored /\ Integrity
=============================================================================
