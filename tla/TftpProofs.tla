----------------------------- MODULE TftpProofs -----------------------------
(***************************************************************************)
(* The TFTP client stores the file it was sent.  Integrity and AckedStored *)
(* for every file shorter than the block counter, block size, number of    *)
(* transfers and of retries, and every behaviour of the network; then      *)
(* Integrity for every length of the file, in a network that repeats no    *)
(* packet.                                                                 *)
(***************************************************************************)
EXTENDS TftpPacketProofs

-----------------------------------------------------------------------------
\* A new block is stored before it is acknowledged.
LEMMA NewStep ==
  ASSUME Setting, IInv, NEW s \in Sid, NEW n \in Blocks(s), OnDataNew(s, n)
  PROVE  IInv'
<1> USE DEF IInv
<1>1. /\ sess[s].port = TftpOurPort /\ (TftpState = "RRQ" \/ s = TftpServerPort)
      /\ handler = "tftp" /\ toClient' \subseteq toClient
      /\ Receive("DATA", s, n)
  BY Zenon, Channels DEF OnDataNew, Receive
<1>2. /\ TftpBlkSize = sess[s].size
      /\ n \in Nat /\ n < SEQ /\ BlockNo(n) = n
      /\ sess[s].size \in Nat \ {0} /\ n * sess[s].size \in Nat
  BY Zenon, <1>1, SameSize, BlockFacts
<1>3. /\ TftpState' = "DATA" /\ TftpServerPort' = s
      /\ TftpBlock' = n /\ TftpLastBlock' = n /\ timer' = "tftp"
      /\ NetState' = IF BlockLen(s, n) < sess[s].size THEN "SUCCESS" ELSE NetState
      /\ UNCHANGED <<handler, up, NetTryCount, loop, TftpOurPort, TftpBlkSize,
                     TftpTimeoutCount, sess, closed>>
  BY Zenon, <1>2 DEF OnDataNew, serverVars
<1>4. /\ TftpBlockWrapOffset' = 0
      /\ mem' \in [Cells -> Int]
      /\ NetBootFileXferSize' \in Nat /\ NetBootFileXferSize' <= FILE
      /\ NetBootFileXferSize <= NetBootFileXferSize'
      /\ BlockLen(s, n) < sess[s].size => NetBootFileXferSize' = FILE
      /\ \A x \in Int : Holds(mem, x) => Holds(mem', x)
      /\ Holds(mem', n * sess[s].size)
      /\ BlockLen(s, n) < sess[s].size => Holds(mem', FILE)
  BY Zenon, StoreFacts
<1>5. /\ toServer' \subseteq toServer \cup {<<"ACK", s, n>>}
      /\ \A m \in toServer' : m[1] = "RRQ" => m \in toServer
      /\ \A t, k : <<"ACK", t, k>> \in toServer'
                     => <<"ACK", t, k>> \in toServer \/ (t = s /\ k = n)
  <2>1. TftpSend("DATA", TftpOurPort, s, n)
    BY Zenon, <1>2 DEF OnDataNew
  <2>q. QED
    BY Zenon, <2>1, AckAdds
<1>6. TypeOK'
  <2>1. n \in 0 .. SEQ - 1
    BY SMTT(30), <1>2, SeqAssumption
  <2>2. NetState' \in {"CONTINUE", "RESTART", "SUCCESS", "FAIL"}
    BY Zenon, <1>3 DEF TypeOK
  <2>3. toServer' \subseteq ({"RRQ"} \X (Nat \ {0}) \X {0}) \cup ({"ACK"} \X Sid \X (0 .. SEQ - 1))
    BY SMTT(30), <1>5, <2>1 DEF TypeOK
  <2>q. QED
    BY Zenon, <1>1, <1>3, <1>4, <2>1, <2>2, <2>3 DEF TypeOK
<1>7. PortInv'
  BY Zenon, <1>1, <1>3, <1>5 DEF PortInv, TypeOK
<1>8. BoundInv'
  <2>1. ASSUME NEW t \in Sid, sess[t].port = TftpOurPort, t # s
        PROVE  /\ \A k \in 0 .. SEQ - 1 : <<"ACK", t, k>> \notin toServer'
               /\ sess[t].block = 0 \/ (sess[t].block = 1 /\ sess[t].size = BLK)
    <3>1. t # TftpServerPort
      BY Zenon, <1>1, <2>1, SidAssumption DEF BoundInv
    <3>q. QED
      BY Zenon, <1>5, <2>1, <3>1 DEF BoundInv, Ours
  <2>q. QED
    BY Zenon, <1>1, <1>2, <1>3, <1>4, <2>1 DEF BoundInv, Ours
<1>9. \A t \in Sid : (sess[t].block - 1) * sess[t].size \in Int
  BY SMTT(30), SizeAssumption, TimesNext DEF TypeOK
<1>10. StoredInv'
  BY Zenon, <1>2, <1>3, <1>4, <1>9 DEF StoredInv, Ours
<1>11. AckedStored'
  <2>1. SUFFICES ASSUME NEW t \in Sid, NEW k \in 0 .. SEQ - 1,
                        <<"ACK", t, k>> \in toServer', sess[t].port = TftpOurPort
                 PROVE  Holds(mem', k * sess[t].size)
    BY Zenon, <1>3 DEF AckedStored
  <2>2. CASE <<"ACK", t, k>> \in toServer
    <3>1. Holds(mem, k * sess[t].size)
      BY Zenon, <2>1, <2>2 DEF AckedStored
    <3>2. k * sess[t].size \in Int
      BY SizeAssumption, SeqAssumption, TimesNext DEF TypeOK
    <3>q. QED
      BY Zenon, <1>4, <3>1, <3>2
  <2>3. CASE t = s /\ k = n
    BY Zenon, <1>4, <2>3
  <2>q. QED
    BY Zenon, <1>5, <2>1, <2>2, <2>3
<1>12. Integrity'
  <2>1. CASE BlockLen(s, n) < sess[s].size
    BY Zenon, <1>4, <2>1 DEF Integrity
  <2>2. CASE ~(BlockLen(s, n) < sess[s].size)
    <3>1. NetState' = NetState
      BY Zenon, <1>3, <2>2
    <3>2. NetState = "SUCCESS" => NetBootFileXferSize = FILE /\ Holds(mem', FILE)
      BY <1>4, SizeAssumption DEF Integrity
    <3>3. NetState = "SUCCESS" => NetBootFileXferSize' = FILE
      BY <1>4, <3>2, SizeAssumption
    <3>q. QED
      BY Zenon, <3>1, <3>2, <3>3 DEF Integrity
  <2>q. QED
    BY Zenon, <2>1, <2>2
<1>q. QED
  BY Zenon, <1>6, <1>7, <1>8, <1>10, <1>11, <1>12

\* An error packet ends the transfer or starts it again.
LEMMA ErrorStep ==
  ASSUME Setting, IInv, NEW s \in Sid, NEW c \in {0, 1}, OnError(s, c)
  PROVE  IInv'
<1> USE DEF IInv
<1>1. toClient' \subseteq toClient
  BY Zenon, Channels DEF OnError, Receive
<1>2. UNCHANGED <<loop, TftpState, TftpServerPort, TftpOurPort, TftpBlock, TftpLastBlock,
                  TftpBlockWrapOffset, TftpBlkSize, TftpTimeoutCount, mem,
                  NetBootFileXferSize, sess, closed, toServer>>
  BY Zenon DEF OnError, blockVars, fileVars, serverVars
<1>3. /\ NetState' \in {NetState, "FAIL"}
      /\ handler' \in {"tftp", "ignore"} /\ timer' \in {"none", "tftp", "again"}
      /\ up' \in BOOLEAN /\ ~(up' /\ handler' = "tftp")
      /\ NetTryCount' \in Nat \ {0} /\ TftpOurPort <= NetTryCount'
      /\ NetState' = "RESTART" \/ handler' = "ignore" => TftpOurPort < NetTryCount'
      /\ timer' = "again" => handler' = "ignore"
      /\ timer' = "tftp" => handler' = "tftp"
  <2>1. CASE c = 1
    <3>1. NetState' = "FAIL" /\ up' = FALSE /\ UNCHANGED <<handler, timer, NetTryCount>>
      BY <2>1, Zenon DEF OnError
    <3>q. QED
      BY ZenonT(40), <3>1 DEF TypeOK, PortInv
  <2>2. CASE c # 1
    <3>1. NetStartAgain(timer) /\ timer \in {"none", "tftp", "again"}
      BY Zenon, <2>2 DEF OnError, TypeOK
    <3>2. (timer = "again" => handler = "ignore") /\ (timer = "tftp" => handler = "tftp")
      BY Zenon DEF PortInv
    <3>q. QED
      BY Zenon, <3>1, <3>2, StartAgainFacts
  <2>q. QED
    BY Zenon, <2>1, <2>2
<1>4. TypeOK'
  <2>1. NetState' \in {"CONTINUE", "RESTART", "SUCCESS", "FAIL"}
    BY Zenon, <1>3 DEF TypeOK
  <2>q. QED
    BY Zenon, <1>1, <1>2, <1>3, <2>1 DEF TypeOK
<1>5. PortInv'
  BY Zenon, <1>2, <1>3 DEF PortInv
<1>6. BoundInv'
  BY Zenon, <1>2 DEF BoundInv, Ours
<1>7. StoredInv'
  BY Zenon, <1>2, <1>3 DEF StoredInv, Ours
<1>8. AckedStored'
  BY Zenon, <1>2 DEF AckedStored
<1>9. Integrity'
  BY Zenon, <1>2, <1>3 DEF Integrity
<1>q. QED
  BY Zenon, <1>4, <1>5, <1>6, <1>7, <1>8, <1>9

\* A time-out repeats the request or the acknowledgement, or starts again.
LEMMA TimeoutStep ==
  ASSUME Setting, IInv, TftpTimeout
  PROVE  IInv'
<1> USE DEF IInv
<1>1. /\ loop' = "state" /\ timer = "tftp" /\ TftpTimeoutCount' \in Nat
      /\ UNCHANGED <<TftpState, TftpServerPort, TftpOurPort, TftpBlock, TftpLastBlock,
                     TftpBlockWrapOffset, TftpBlkSize, mem, NetBootFileXferSize, sess,
                     closed, toClient>>
  BY DEF TftpTimeout, clientVars, blockVars, fileVars, serverVars, TypeOK
<1>2. CASE TftpTimeoutCount' > TIMEOUT_COUNT
  <2>1. NetStartAgain("none") /\ toServer' = toServer
    BY Zenon, <1>2 DEF TftpTimeout
  <2>2. /\ NetState' \in {NetState, "FAIL"}
        /\ handler' \in {"tftp", "ignore"} /\ timer' \in {"none", "tftp", "again"}
        /\ up' \in BOOLEAN /\ ~(up' /\ handler' = "tftp")
        /\ NetTryCount' \in Nat \ {0} /\ TftpOurPort <= NetTryCount'
        /\ NetState' = "RESTART" \/ handler' = "ignore" => TftpOurPort < NetTryCount'
        /\ timer' = "again" => handler' = "ignore"
        /\ timer' = "tftp" => handler' = "tftp"
    BY Zenon, <2>1, StartAgainFacts
  <2>3. TypeOK'
    <3>1. NetState' \in {"CONTINUE", "RESTART", "SUCCESS", "FAIL"}
      BY Zenon, <2>2 DEF TypeOK
    <3>q. QED
      BY Zenon, <1>1, <2>1, <2>2, <3>1 DEF TypeOK
  <2>4. PortInv'
    BY Zenon, <1>1, <2>1, <2>2 DEF PortInv
  <2>5. BoundInv'
    BY Zenon, <1>1, <2>1 DEF BoundInv, Ours
  <2>6. StoredInv'
    BY Zenon, <1>1, <2>2 DEF StoredInv, Ours
  <2>7. AckedStored'
    BY Zenon, <1>1, <2>1 DEF AckedStored
  <2>8. Integrity'
    BY Zenon, <1>1, <2>2 DEF Integrity
  <2>q. QED
    BY Zenon, <2>3, <2>4, <2>5, <2>6, <2>7, <2>8
<1>3. CASE ~(TftpTimeoutCount' > TIMEOUT_COUNT)
  <2>1. /\ TftpSend(TftpState, TftpOurPort, TftpServerPort, TftpBlock)
        /\ timer' = "tftp" /\ UNCHANGED <<NetState, handler, up, NetTryCount>>
    BY Zenon, <1>3 DEF TftpTimeout
  <2>2. CASE TftpState = "RRQ"
    <3>1. /\ toServer' \subseteq toServer \cup {<<"RRQ", TftpOurPort, 0>>}
          /\ \A m \in toServer' : m[1] = "RRQ" => m \in toServer \/ m[2] = TftpOurPort
          /\ \A s, k : <<"ACK", s, k>> \in toServer' => <<"ACK", s, k>> \in toServer
      BY Zenon, <2>1, <2>2, RequestAdds
    <3>2. TypeOK'
      BY SMTT(30), <1>1, <2>1, <3>1 DEF TypeOK
    <3>3. PortInv'
      BY SMTT(30), <1>1, <2>1, <3>1 DEF PortInv, TypeOK
    <3>4. BoundInv'
      BY Zenon, <1>1, <3>1 DEF BoundInv, Ours
    <3>5. StoredInv'
      BY Zenon, <1>1, <2>1 DEF StoredInv, Ours
    <3>6. AckedStored'
      BY Zenon, <1>1, <3>1 DEF AckedStored
    <3>7. Integrity'
      BY Zenon, <1>1, <2>1 DEF Integrity
    <3>q. QED
      BY Zenon, <3>2, <3>3, <3>4, <3>5, <3>6, <3>7
  <2>3. CASE TftpState # "RRQ"
    <3>1. TftpState \in {"OACK", "DATA"}
      BY Zenon, <2>3 DEF TypeOK
    <3>2. /\ toServer' \subseteq toServer \cup {<<"ACK", TftpServerPort, TftpBlock>>}
          /\ toServer' = toServer \/ up
          /\ \A m \in toServer' : m[1] = "RRQ" => m \in toServer
          /\ \A s, k : <<"ACK", s, k>> \in toServer'
               => <<"ACK", s, k>> \in toServer \/ (s = TftpServerPort /\ k = TftpBlock)
      BY <2>1, <3>1, AckAdds
    <3>3. TftpServerPort \in Sid /\ sess[TftpServerPort].port = TftpOurPort
          /\ TftpBlkSize = sess[TftpServerPort].size
      BY Zenon, <2>3 DEF BoundInv, Ours
    <3>5. handler = "tftp"
      BY Zenon, <1>1 DEF PortInv
    <3>6. TypeOK'
      BY SMTT(30), <1>1, <2>1, <3>2, <3>3 DEF TypeOK
    <3>7. PortInv'
      BY Zenon, <1>1, <2>1, <3>2, <3>3 DEF PortInv, TypeOK
    <3>8. BoundInv'
      BY Zenon, <1>1, <3>2 DEF BoundInv, Ours
    <3>9. StoredInv'
      BY Zenon, <1>1, <2>1 DEF StoredInv, Ours
    <3>10. AckedStored'
      BY Zenon, <1>1, <2>3, <3>2, <3>3, <3>5 DEF AckedStored, StoredInv
    <3>11. Integrity'
      BY Zenon, <1>1, <2>1 DEF Integrity
    <3>q. QED
      BY Zenon, <3>6, <3>7, <3>8, <3>9, <3>10, <3>11
  <2>q. QED
    BY Zenon, <2>2, <2>3
<1>q. QED
  BY Zenon, <1>2, <1>3

\* The pause is over.
LEMMA AgainStep ==
  ASSUME Setting, IInv, startAgainTimeout
  PROVE  IInv'
<1> USE DEF IInv
<1>1. /\ timer = "again" /\ loop' = "state" /\ NetState' = "RESTART" /\ timer' = "none"
      /\ UNCHANGED <<handler, up, NetTryCount>>
      /\ UNCHANGED <<TftpState, TftpServerPort, TftpOurPort, TftpBlock, TftpLastBlock,
                     TftpBlockWrapOffset, TftpBlkSize, TftpTimeoutCount, mem,
                     NetBootFileXferSize, sess, closed, toServer, toClient>>
  BY Zenon DEF startAgainTimeout, clientVars, blockVars, fileVars, serverVars
<1>2. TypeOK'
  BY Zenon, <1>1 DEF TypeOK
<1>3. PortInv'
  BY Zenon, <1>1 DEF PortInv
<1>4. BoundInv'
  BY Zenon, <1>1 DEF BoundInv, Ours
<1>5. StoredInv'
  BY Zenon, <1>1 DEF StoredInv, Ours
<1>6. AckedStored' /\ Integrity'
  BY Zenon, <1>1 DEF AckedStored, Integrity
<1>q. QED
  BY Zenon, <1>2, <1>3, <1>4, <1>5, <1>6

\* A new attempt has a port that no transfer knows.
LEMMA StartStep ==
  ASSUME Setting, IInv, TftpStart
  PROVE  IInv'
<1> USE DEF IInv
<1>1. /\ NetState = "RESTART"
      /\ loop' = "rx" /\ NetState' = "CONTINUE" /\ handler' = "tftp" /\ timer' = "tftp"
      /\ TftpServerPort' = 0 /\ TftpTimeoutCount' = 0 /\ TftpState' = "RRQ"
      /\ TftpBlock' = 0 /\ TftpBlkSize' = BLK /\ NetBootFileXferSize' = 0
      /\ UNCHANGED <<up, NetTryCount>>
      /\ UNCHANGED <<TftpLastBlock, TftpBlockWrapOffset, mem, sess, closed, toClient>>
  BY Zenon DEF TftpStart, serverVars
<1>2. TftpOurPort' = NetTryCount /\ TftpSend("RRQ", NetTryCount, 0, 0)
  BY Zenon DEF TftpStart, Setting
<1>3. /\ TftpOurPort < NetTryCount
      /\ TftpOurPort \in Nat \ {0} /\ NetTryCount \in Nat \ {0}
  BY Zenon, <1>1 DEF PortInv, TypeOK
<1>4. /\ toServer' \subseteq toServer \cup {<<"RRQ", NetTryCount, 0>>}
      /\ \A m \in toServer' : m[1] = "RRQ" => m \in toServer \/ m[2] = NetTryCount
      /\ \A s, k : <<"ACK", s, k>> \in toServer' => <<"ACK", s, k>> \in toServer
  BY Zenon, <1>2, RequestAdds
<1>5. \A s \in Sid : sess[s].port \in Nat /\ sess[s].port < NetTryCount
  BY SMTT(30), <1>3 DEF PortInv, TypeOK
<1>6. TypeOK'
  <2>1. BLK \in {BLK, OPT} /\ 0 \in 0 .. SEQ - 1
    BY SMTT(30), SeqAssumption
  <2>2. toServer' \subseteq ({"RRQ"} \X (Nat \ {0}) \X {0}) \cup ({"ACK"} \X Sid \X (0 .. SEQ - 1))
    BY SMTT(30), <1>3, <1>4 DEF TypeOK
  <2>q. QED
    BY Zenon, <1>1, <1>2, <1>3, <2>1, <2>2 DEF TypeOK
<1>7. PortInv'
  <2>1. \A m \in toServer' : m[1] = "RRQ" => m[2] <= NetTryCount
    <3>1. ASSUME NEW m \in toServer, m[1] = "RRQ" PROVE m[2] <= NetTryCount
      <4>1. m[2] \in Nat /\ m[2] <= TftpOurPort
        BY Zenon, <3>1 DEF PortInv, TypeOK
      <4>q. QED
        BY SMTT(30), <1>3, <4>1
    <3>q. QED
      BY <1>3, <1>4, <3>1
  <2>q. QED
    BY SMTT(30), <1>1, <1>2, <1>3, <1>4, <1>5, <2>1 DEF PortInv
<1>8. BoundInv'
  BY SMTT(30), <1>1, <1>2, <1>5 DEF BoundInv, Ours
<1>9. StoredInv'
  BY SMTT(30), <1>1, <1>2, <1>5, SizeAssumption DEF StoredInv, Ours
<1>10. AckedStored' /\ Integrity'
  BY <1>1, <1>2, <1>5 DEF AckedStored, Integrity
<1>q. QED
  BY Zenon, <1>6, <1>7, <1>8, <1>9, <1>10

\* NetLoop's other steps only move on.
LEMMA LoopStep ==
  ASSUME IInv, NoTimeout \/ Abort \/ NetLoopGoesOn \/ NetLoopReturns
  PROVE  IInv'
<1> USE DEF IInv
<1>1. /\ loop' \in {"rx", "state", "end"}
      /\ UNCHANGED <<NetState, handler, timer, up, NetTryCount>>
      /\ UNCHANGED <<TftpState, TftpServerPort, TftpOurPort, TftpBlock, TftpLastBlock,
                     TftpBlockWrapOffset, TftpBlkSize, TftpTimeoutCount, mem,
                     NetBootFileXferSize, sess, closed, toServer, toClient>>
  BY Zenon DEF NoTimeout, Abort, NetLoopGoesOn, NetLoopReturns, netVars, clientVars, blockVars,
         fileVars, serverVars
<1>2. TypeOK'
  BY SMTT(30), <1>1 DEF TypeOK
<1>3. PortInv'
  BY Zenon, <1>1 DEF PortInv
<1>4. BoundInv'
  BY Zenon, <1>1 DEF BoundInv, Ours
<1>5. StoredInv'
  BY Zenon, <1>1 DEF StoredInv, Ours
<1>6. AckedStored' /\ Integrity'
  BY Zenon, <1>1 DEF AckedStored, Integrity
<1>q. QED
  BY Zenon, <1>2, <1>3, <1>4, <1>5, <1>6

-----------------------------------------------------------------------------
\* A new transfer has not been answered.
LEMMA RequestStep ==
  ASSUME Setting, IInv, NEW s \in Sid, NEW p \in 1 .. NetTryCount, NEW size \in {BLK, OPT},
         ServeRequest(s, p, size)
  PROVE  IInv'
<1> USE DEF IInv
<1>1. /\ sess[s] = Free /\ <<"RRQ", p, 0>> \in toServer /\ toServer' \subseteq toServer
      /\ UNCHANGED <<NetState, handler, timer, up, NetTryCount>>
      /\ UNCHANGED <<loop, TftpState, TftpServerPort, TftpOurPort, TftpBlock, TftpLastBlock,
                     TftpBlockWrapOffset, TftpBlkSize, TftpTimeoutCount, mem,
                     NetBootFileXferSize, closed>>
  BY Zenon, Channels DEF ServeRequest, serverStep, netVars, clientVars, blockVars, fileVars
<1>2. PICK b \in {0, 1} :
        /\ sess' = [sess EXCEPT ![s] = [port |-> p, size |-> size, block |-> b]]
        /\ b = 1 => size = BLK
        /\ toClient' \subseteq toClient \cup {<<"OACK", s, 0>>, <<"DATA", s, 1>>}
  <2>1. CASE /\ sess' = [sess EXCEPT ![s] = [port |-> p, size |-> size, block |-> 0]]
             /\ Deliver(<<"OACK", s, 0>>)
    BY <2>1, DeliverAdds
  <2>2. CASE /\ sess' = [sess EXCEPT ![s] = [port |-> p, size |-> size, block |-> 1]]
             /\ Deliver(<<"DATA", s, 1>>) /\ size = BLK
    BY Zenon, <2>2, DeliverAdds
  <2>q. QED
    BY Zenon, <2>1, <2>2 DEF ServeRequest
<1>3. /\ p \in Nat \ {0} /\ p <= TftpOurPort /\ sess[s].port = 0 /\ TftpOurPort # 0
  <2>1. <<"RRQ", p, 0>>[1] = "RRQ" /\ <<"RRQ", p, 0>>[2] = p
    BY Zenon
  <2>2. p \in Nat \ {0}
    BY SMTT(30) DEF TypeOK
  <2>q. QED
    BY <1>1, <2>1, <2>2 DEF PortInv, Free, TypeOK
<1>4. \A k \in 0 .. SEQ - 1 : <<"ACK", s, k>> \notin toServer
  <2>1. \A t \in Sid, k \in 0 .. SEQ - 1 : <<"ACK", t, k>> \in toServer => sess[t].port # 0
    BY Zenon DEF PortInv
  <2>2. sess[s].port = 0
    BY Zenon, <1>3
  <2>q. QED
    BY <2>1, <2>2, Zenon
<1>5. /\ sess'[s].port = p /\ sess'[s].size = size /\ sess'[s].block = b
      /\ \A t \in Sid \ {s} : sess'[t] = sess[t]
      /\ sess' \in [Sid -> [port : Nat, size : {BLK, OPT}, block : Nat]]
  BY SMTT(30), <1>2, <1>3 DEF TypeOK
<1>6. TypeOK'
  <2>1. toClient' \subseteq ({"OACK"} \X Sid \X {0}) \cup ({"DATA"} \X Sid \X (Nat \ {0}))
                              \cup ({"ERROR"} \X Sid \X {0, 1})
    BY SMTT(30), <1>2 DEF TypeOK
  <2>2. toServer' \subseteq ({"RRQ"} \X (Nat \ {0}) \X {0}) \cup ({"ACK"} \X Sid \X (0 .. SEQ - 1))
    BY Zenon, <1>1 DEF TypeOK
  <2>q. QED
    BY SMTT(30), <1>1, <1>5, <2>1, <2>2 DEF TypeOK
<1>7. PortInv'
  BY Zenon, <1>1, <1>3, <1>4, <1>5 DEF PortInv
<1>8. BoundInv'
  <2>1. TftpState # "RRQ" => TftpServerPort # s
    BY Zenon, <1>3 DEF BoundInv, Ours
  <2>2. ASSUME NEW t \in Sid, sess'[t].port = TftpOurPort, t # TftpServerPort
        PROVE  /\ \A k \in 0 .. SEQ - 1 : <<"ACK", t, k>> \notin toServer'
               /\ sess'[t].block = 0 \/ (sess'[t].block = 1 /\ sess'[t].size = BLK)
    <3>1. CASE t = s
      BY Zenon, <1>1, <1>2, <1>4, <1>5, <3>1
    <3>2. CASE t # s
      BY Zenon, <1>1, <1>5, <2>2, <3>2 DEF BoundInv, Ours
    <3>q. QED
      BY Zenon, <3>1, <3>2
  <2>q. QED
    BY Zenon, <1>1, <1>5, <2>1, <2>2 DEF BoundInv, Ours
<1>9. StoredInv'
  <2>1. (b - 1) * size <= 0 /\ (b - 1) * size \in Int /\ FILE \in Nat
    <3>1. size \in Nat
      BY Zenon, SizeAssumption
    <3>2. (b - 1) * size <= 0 * size
      BY <3>1, TimesMono
    <3>q. QED
      BY <3>1, <3>2, SizeAssumption
  <2>2. Holds(mem, (b - 1) * size) /\ (b - 1) * size <= FILE
    BY SMTT(30), <2>1 DEF Holds
  <2>q. QED
    BY Zenon, <1>1, <1>5, <2>2 DEF StoredInv, Ours
<1>10. AckedStored'
  BY Zenon, <1>1, <1>4, <1>5 DEF AckedStored
<1>11. Integrity'
  BY Zenon, <1>1 DEF Integrity
<1>q. QED
  BY Zenon, <1>6, <1>7, <1>8, <1>9, <1>10, <1>11

\* The server moves on past a block that is stored.
LEMMA AckStep ==
  ASSUME Setting, IInv, NEW s \in Sid, NEW k \in 0 .. SEQ - 1, ServeAck(s, k)
  PROVE  IInv'
<1> USE DEF IInv
<1> DEFINE b == sess[s].block
           z == sess[s].size
<1>1. /\ <<"ACK", s, k>> \in toServer /\ toServer' \subseteq toServer
      /\ k = BlockNo(b) /\ (b = 0 \/ BlockLen(s, b) = z)
      /\ sess' = [sess EXCEPT ![s].block = @ + 1]
      /\ UNCHANGED <<NetState, handler, timer, up, NetTryCount>>
      /\ UNCHANGED <<loop, TftpState, TftpServerPort, TftpOurPort, TftpBlock, TftpLastBlock,
                     TftpBlockWrapOffset, TftpBlkSize, TftpTimeoutCount, mem,
                     NetBootFileXferSize, closed>>
  BY Zenon, Channels DEF ServeAck, serverStep, netVars, clientVars, blockVars, fileVars
<1>2. b \in Nat /\ z \in Nat \ {0} /\ FILE \in Nat
  BY Zenon, SizeAssumption DEF TypeOK
<1>3. /\ sess'[s].block = b + 1 /\ sess'[s].size = z /\ sess'[s].port = sess[s].port
      /\ \A t \in Sid \ {s} : sess'[t] = sess[t]
      /\ sess' \in [Sid -> [port : Nat, size : {BLK, OPT}, block : Nat]]
  BY <1>1 DEF TypeOK
<1>4. toClient' \subseteq toClient \cup {<<"DATA", s, b + 1>>}
  BY Zenon, DeliverAdds DEF ServeAck
<1>5. k = b /\ b * z <= FILE
  <2>1. CASE b = 0
    <3>1. 0 * z = 0 /\ BlockNo(0) = 0
      BY <1>2, SeqAssumption DEF BlockNo
    <3>q. QED
      BY <1>1, <1>2, <2>1, <3>1
  <2>2. CASE b # 0
    <3>1. b \in Blocks(s)
      BY <1>2, <2>2 DEF Blocks
    <3>q. QED
      BY Zenon, <1>1, <2>2, <3>1, BlockFacts
  <2>q. QED
    BY Zenon, <2>1, <2>2
<1>6. (b + 1 - 1) * z = b * z
  BY <1>2
<1> HIDE DEF b, z
<1>7. TypeOK'
  <2>1. b + 1 \in Nat \ {0}
    BY SMTT(30), <1>2
  <2>2. toClient' \subseteq ({"OACK"} \X Sid \X {0}) \cup ({"DATA"} \X Sid \X (Nat \ {0}))
                              \cup ({"ERROR"} \X Sid \X {0, 1})
    BY <1>4, <2>1 DEF TypeOK
  <2>3. toServer' \subseteq ({"RRQ"} \X (Nat \ {0}) \X {0}) \cup ({"ACK"} \X Sid \X (0 .. SEQ - 1))
    BY Zenon, <1>1 DEF TypeOK
  <2>q. QED
    BY <1>1, <1>3, <2>2, <2>3 DEF TypeOK
<1>8. \A t \in Sid : sess'[t].port = sess[t].port /\ sess'[t].size = sess[t].size
  BY Zenon, <1>3 DEF z
<1>9. PortInv'
  BY Zenon, <1>1, <1>8 DEF PortInv
<1>10. BoundInv'
  <2>1. sess[s].port = TftpOurPort => s = TftpServerPort
    BY Zenon, <1>1 DEF BoundInv, Ours
  <2>q. QED
    BY Zenon, <1>1, <1>3, <1>8, <2>1 DEF BoundInv, Ours
<1>11. StoredInv'
  <2>1. sess[s].port = TftpOurPort => Holds(mem, b * z)
    BY Zenon, <1>1, <1>5 DEF AckedStored, z
  <2>q. QED
    BY <1>1, <1>3, <1>5, <1>6, <1>8, <2>1 DEF StoredInv, Ours
<1>12. AckedStored'
  BY Zenon, <1>1, <1>8 DEF AckedStored
<1>13. Integrity'
  BY Zenon, <1>1 DEF Integrity
<1>q. QED
  BY Zenon, <1>7, <1>9, <1>10, <1>11, <1>12, <1>13

\* A retransmission, or an error, from the server.
LEMMA ResendStep ==
  ASSUME Setting, IInv, NEW s \in Sid, Resend(s) \/ \E c \in {0, 1} : SendError(s, c)
  PROVE  IInv'
<1> USE DEF IInv
<1>1. /\ UNCHANGED <<NetState, handler, timer, up, NetTryCount>>
      /\ UNCHANGED <<loop, TftpState, TftpServerPort, TftpOurPort, TftpBlock, TftpLastBlock,
                     TftpBlockWrapOffset, TftpBlkSize, TftpTimeoutCount, mem,
                     NetBootFileXferSize, sess, toServer>>
      /\ closed' \in {closed, closed \cup {s}}
  BY Zenon DEF Resend, SendError, serverStep, serverVars, netVars, clientVars, blockVars, fileVars
<1>2. toClient' \subseteq ({"OACK"} \X Sid \X {0}) \cup ({"DATA"} \X Sid \X (Nat \ {0}))
                            \cup ({"ERROR"} \X Sid \X {0, 1})
  <2>1. CASE Resend(s)
    <3>1. toClient' \subseteq toClient \cup
            {IF sess[s].block = 0 THEN <<"OACK", s, 0>> ELSE <<"DATA", s, sess[s].block>>}
      BY Zenon, <2>1, DeliverAdds DEF Resend
    <3>2. sess[s].block \in Nat
      BY Zenon DEF TypeOK
    <3>q. QED
      BY SMTT(30), <3>1, <3>2 DEF TypeOK
  <2>2. CASE \E c \in {0, 1} : SendError(s, c)
    <3>1. PICK c \in {0, 1} : SendError(s, c)
      BY Zenon, <2>2
    <3>2. toClient' \subseteq toClient \cup {<<"ERROR", s, c>>}
      BY Zenon, <3>1, DeliverAdds DEF SendError
    <3>q. QED
      BY <3>2 DEF TypeOK
  <2>q. QED
    BY Zenon, <2>1, <2>2
<1>3. TypeOK'
  BY SMTT(30), <1>1, <1>2 DEF TypeOK
<1>4. PortInv'
  BY ZenonT(40), <1>1 DEF PortInv
<1>5. BoundInv'
  BY Zenon, <1>1 DEF BoundInv, Ours
<1>6. StoredInv'
  BY Zenon, <1>1 DEF StoredInv, Ours
<1>7. AckedStored' /\ Integrity'
  BY Zenon, <1>1 DEF AckedStored, Integrity
<1>q. QED
  BY Zenon, <1>3, <1>4, <1>5, <1>6, <1>7

LEMMA InvNext == ASSUME Setting PROVE IInv /\ [Next]_vars => IInv'
<1> SUFFICES ASSUME IInv, [Next]_vars PROVE IInv'
  BY Zenon
<1>1. CASE TftpHandler
  <2>1. PICK s \in Sid :
          \/ OnOack(s)
          \/ \E n \in Blocks(s) : OnDataNotFirst(s, n) \/ OnDataSame(s, n) \/ OnDataNew(s, n)
          \/ \E c \in {0, 1} : OnError(s, c)
    BY Zenon, <1>1 DEF TftpHandler
  <2>q. QED
    BY Zenon, <2>1, OackStep, NotFirstStep, SameStep, NewStep, ErrorStep
<1>2. CASE TimerStep \/ Abort \/ StateStep
  BY Zenon, <1>2, TimeoutStep, AgainStep, StartStep, LoopStep DEF TimerStep, StateStep
<1>3. CASE Server
  <2>1. PICK s \in Sid :
          \/ \E p \in 1 .. NetTryCount, size \in {BLK, OPT} : ServeRequest(s, p, size)
          \/ \E k \in 0 .. SEQ - 1 : ServeAck(s, k)
          \/ Resend(s)
          \/ \E c \in {0, 1} : SendError(s, c)
    BY Zenon, <1>3 DEF Server
  <2>q. QED
    BY Zenon, <2>1, RequestStep, AckStep, ResendStep
<1>4. CASE UNCHANGED vars
  <2>1. /\ UNCHANGED <<NetState, handler, timer, up, NetTryCount>>
        /\ UNCHANGED <<loop, TftpState, TftpServerPort, TftpOurPort, TftpBlock, TftpLastBlock,
                       TftpBlockWrapOffset, TftpBlkSize, TftpTimeoutCount, mem,
                       NetBootFileXferSize, sess, closed, toServer, toClient>>
    BY Zenon, <1>4 DEF vars, netVars, blockVars, fileVars
  <2>2. TypeOK'
    BY SMTT(30), <2>1 DEF IInv, TypeOK
  <2>5. PortInv'
    BY Zenon, <2>1 DEF IInv, PortInv
  <2>3. BoundInv' /\ StoredInv'
    BY Zenon, <2>1 DEF IInv, BoundInv, StoredInv, Ours
  <2>4. AckedStored' /\ Integrity'
    BY ZenonT(40), <2>1 DEF IInv, AckedStored, Integrity
  <2>q. QED
    BY Zenon, <2>2, <2>3, <2>4, <2>5 DEF IInv
<1>q. QED
  BY Zenon, <1>1, <1>2, <1>3, <1>4 DEF Next

\* The inductive invariant of the transfer holds throughout.
THEOREM TransferInv == ASSUME Setting PROVE Spec => []IInv
<1>1. Init => IInv
  BY Zenon, InvInit
<1>2. IInv /\ [Next]_vars => IInv'
  BY Zenon, InvNext
<1>q. QED
  BY <1>1, <1>2, PTL DEF Spec

\* When TftpHandler reports success, memory holds the file and filesize is its
\* length, whatever the network loses, repeats or reorders.
THEOREM TransferIntegrity == ASSUME Setting PROVE Spec => []Integrity
<1>1. Spec => []IInv
  BY Zenon, TransferInv
<1>2. IInv => Integrity
  BY Zenon DEF IInv
<1>q. QED
  BY <1>1, <1>2, PTL

\* TftpSend acknowledges only what is in memory.
THEOREM AckAfterStore == ASSUME Setting PROVE Spec => []AckedStored
<1>1. Spec => []IInv
  BY Zenon, TransferInv
<1>2. IInv => AckedStored
  BY Zenon DEF IInv
<1>q. QED
  BY <1>1, <1>2, PTL

-----------------------------------------------------------------------------
TimerInv == NetState = "CONTINUE" => timer # "none"

\* NetLoop never waits without a time-out, for every value of the constants:
\* every path through the handlers sets one or ends the wait.
THEOREM AlwaysWatched == Spec => []Watched
<1>1. Init => TimerInv
  BY Zenon DEF Init, TimerInv
<1>2. TimerInv /\ [Next]_vars => TimerInv'
  <2> SUFFICES ASSUME TimerInv, [Next]_vars PROVE TimerInv'
    BY Zenon
  <2> USE DEF TimerInv
  <2>1. ASSUME NetStartAgain(timer) \/ NetStartAgain("none") PROVE TimerInv'
    BY ZenonT(40), <2>1 DEF NetStartAgain
  <2>2. CASE TftpHandler
    BY ZenonT(40), <2>1, <2>2 DEF TftpHandler, OnOack, OnDataNotFirst, OnDataSame, OnDataNew, OnError, netVars
  <2>3. CASE TimerStep \/ Abort \/ StateStep
    BY Zenon, <2>1, <2>3 DEF TimerStep, StateStep, NoTimeout, Abort, TftpTimeout, startAgainTimeout,
       TftpStart, NetLoopGoesOn, NetLoopReturns, netVars
  <2>4. CASE Server
    BY ZenonT(40), <2>4 DEF Server, ServeRequest, ServeAck, Resend, SendError, serverStep, netVars
  <2>5. CASE UNCHANGED vars
    BY Zenon, <2>5 DEF vars, netVars
  <2>q. QED
    BY Zenon, <2>2, <2>3, <2>4, <2>5 DEF Next
<1>3. TimerInv => Watched
  BY Zenon DEF TimerInv, Watched
<1>q. QED
  BY <1>1, <1>2, <1>3, PTL DEF Spec

-----------------------------------------------------------------------------
(* The 16 bit block counter may wrap.                                     *)

\* A new block: the client is one block further.
LEMMA WrapNew ==
  ASSUME WrapSetting, WrapInv, NEW s \in Sid, NEW n \in Blocks(s), OnDataNew(s, n)
  PROVE  WrapInv'
<1> USE DEF WrapInv
<1> DEFINE z == sess[s].size
<1>1. /\ n \in Nat \ {0} /\ sess[s].block = n /\ TftpBlkSize = z
      /\ TftpBlockWrapOffset' = (n - BlockNo(n)) * z /\ TftpBlockWrapOffset' \in Nat
      /\ BlockNo(n) \in 0 .. SEQ - 1
  BY Zenon, WrapStore
<1>2. /\ mem' \in [Cells -> Int]
      /\ NetBootFileXferSize' \in Nat /\ NetBootFileXferSize' <= FILE
      /\ NetBootFileXferSize <= NetBootFileXferSize'
      /\ BlockLen(s, n) < z => NetBootFileXferSize' = FILE
      /\ \A x \in Int : Holds(mem, x) => Holds(mem', x)
      /\ Holds(mem', n * z)
      /\ BlockLen(s, n) < z => Holds(mem', FILE)
  BY Zenon, WrapStore, StoreAt DEF FileInv
<1>3. /\ sess[s].port = TftpOurPort /\ (TftpState = "RRQ" \/ s = TftpServerPort)
      /\ handler = "tftp" /\ <<"DATA", s, n>> \in toClient
      /\ toClient' = toClient \ {<<"DATA", s, n>>}
  BY Zenon DEF OnDataNew, Receive, Take, WrapSetting
<1>4. /\ TftpState' = "DATA" /\ TftpServerPort' = s
      /\ TftpBlock' = BlockNo(n) /\ TftpLastBlock' = BlockNo(n) /\ timer' = "tftp"
      /\ NetState' = IF BlockLen(s, n) < z THEN "SUCCESS" ELSE NetState
      /\ UNCHANGED <<handler, up, NetTryCount, loop, TftpOurPort, TftpBlkSize,
                     TftpTimeoutCount, sess, closed>>
  BY Zenon, <1>1 DEF OnDataNew, serverVars
<1>5. /\ TftpSend("DATA", TftpOurPort, s, BlockNo(n))
      /\ \A p, q \in toServer' : p = q
  BY Zenon, OneOnItsWay DEF OnDataNew
<1>6. /\ toServer' \subseteq toServer \cup {<<"ACK", s, BlockNo(n)>>}
      /\ \A m \in toServer' : m[1] = "RRQ" => m \in toServer
      /\ \A t, k : <<"ACK", t, k>> \in toServer'
                     => <<"ACK", t, k>> \in toServer \/ (t = s /\ k = BlockNo(n))
  BY Zenon, <1>5, AckAdds
<1>7. TypeOK'
  <2>1. NetState' \in {"CONTINUE", "RESTART", "SUCCESS", "FAIL"}
    BY Zenon, <1>4 DEF TypeOK
  <2>2. toServer' \subseteq ({"RRQ"} \X (Nat \ {0}) \X {0}) \cup ({"ACK"} \X Sid \X (0 .. SEQ - 1))
    BY <1>1, <1>6 DEF TypeOK
  <2>q. QED
    BY Zenon, <1>1, <1>2, <1>3, <1>4, <2>1, <2>2 DEF TypeOK
<1>8. PortInv'
  BY Zenon, <1>3, <1>4, <1>6 DEF PortInv, TypeOK
<1>9. SentInv'
  <2>1. \A t \in Sid : <<"OACK", t, 0>> \in toClient' /\ sess[t].port = TftpOurPort
                         => sess[t].block = 0 /\ t # s
    BY Zenon, <1>1, <1>3 DEF SentInv, Ours
  <2>q. QED
    BY Zenon, <1>3, <1>4, <1>5, <2>1 DEF SentInv, Ours
<1>10. InStep(n)'
  <2>1. \A m \in Nat : <<"DATA", s, m>> \notin toClient'
    <3>1. SUFFICES ASSUME NEW m \in Nat, <<"DATA", s, m>> \in toClient PROVE m = n
      BY Zenon, <1>3
    <3>2. CASE TftpState = "RRQ"
      <4>1. m <= n /\ m # 0
        BY Zenon, <1>1, <3>1 DEF SentInv, TypeOK
      <4>2. n = 1
        BY Zenon, <1>1, <1>3, <3>2, SidAssumption DEF StepInv, Ours
      <4>q. QED
        BY <4>1, <4>2
    <3>3. CASE TftpState # "RRQ"
      BY Zenon, <1>1, <1>3, <3>1, <3>3 DEF StepInv, InStep
    <3>q. QED
      BY Zenon, <3>2, <3>3
  <2>2. n # 0 /\ sess'[s].block = n /\ sess'[s].size = z
    BY Zenon, <1>1, <1>4
  <2>q. QED
    BY Zenon, <1>1, <1>2, <1>4, <2>1, <2>2 DEF InStep, BlockNo
<1>11. StepInv'
  <2>1. ASSUME NEW t \in Sid, sess[t].port = TftpOurPort, t # s
        PROVE  /\ \A k \in 0 .. SEQ - 1 : <<"ACK", t, k>> \notin toServer'
               /\ sess[t].block = 0 \/ (sess[t].block = 1 /\ sess[t].size = BLK)
    <3>1. t # TftpServerPort
      BY Zenon, <1>3, <2>1, SidAssumption DEF StepInv
    <3>q. QED
      BY Zenon, <1>6, <2>1, <3>1 DEF StepInv, Ours
  <2>2. \E c \in Nat : InStep(c)'
    BY Zenon, <1>1, <1>10
  <2>q. QED
    BY Zenon, <1>1, <1>3, <1>4, <2>1, <2>2 DEF StepInv, Ours
<1>12. FileInv'
  BY Zenon, <1>2, <1>4 DEF FileInv
<1>13. Integrity'
  <2>1. CASE BlockLen(s, n) < z
    BY Zenon, <1>2, <2>1 DEF Integrity
  <2>2. CASE ~(BlockLen(s, n) < z)
    <3>1. NetState' = NetState
      BY Zenon, <1>4, <2>2
    <3>2. NetState = "SUCCESS" => NetBootFileXferSize = FILE /\ Holds(mem', FILE)
      BY <1>2, SizeAssumption DEF Integrity
    <3>3. NetState = "SUCCESS" => NetBootFileXferSize' = FILE
      BY <1>2, <3>2, SizeAssumption
    <3>q. QED
      BY Zenon, <3>1, <3>2, <3>3 DEF Integrity
  <2>q. QED
    BY Zenon, <2>1, <2>2
<1>q. QED
  BY Zenon, <1>7, <1>8, <1>9, <1>11, <1>12, <1>13

\* An options packet comes once, to a client that is not bound.
LEMMA WrapOack ==
  ASSUME WrapSetting, WrapInv, NEW s \in Sid, OnOack(s)
  PROVE  WrapInv'
<1> USE DEF WrapInv
<1>1. /\ sess[s].port = TftpOurPort /\ (TftpState = "RRQ" \/ s = TftpServerPort)
      /\ handler = "tftp" /\ <<"OACK", s, 0>> \in toClient
      /\ toClient' = toClient \ {<<"OACK", s, 0>>}
  BY Zenon DEF OnOack, Receive, Take, WrapSetting
<1>2. /\ sess[s].block = 0 /\ s # TftpServerPort /\ sess[s].size \in Nat
      /\ TftpState = "RRQ" /\ TftpBlock = 0 /\ TftpServerPort = 0
  BY Zenon, <1>1, SizeAssumption DEF SentInv, StepInv, Ours, TypeOK
<1>3. /\ TftpState' = "OACK" /\ TftpServerPort' = s /\ TftpBlkSize' = sess[s].size
      /\ UNCHANGED <<NetState, handler, timer, up, NetTryCount>>
      /\ UNCHANGED <<loop, TftpOurPort, TftpBlock, TftpLastBlock, TftpBlockWrapOffset,
                     TftpTimeoutCount, mem, NetBootFileXferSize, sess, closed>>
  <2>1. sess[s].size = OPT \/ TftpBlkSize = sess[s].size
    <3>1. sess[s].size \in {BLK, OPT}
      BY Zenon DEF TypeOK
    <3>q. QED
      BY Zenon, <1>2, <3>1 DEF StepInv
  <2>2. TftpBlkSize' = IF sess[s].size = OPT THEN OPT ELSE TftpBlkSize
    BY Zenon DEF OnOack
  <2>q. QED
    BY Zenon, <2>1, <2>2 DEF OnOack, netVars, blockVars, fileVars, serverVars
<1>4. /\ toServer' \subseteq toServer \cup {<<"ACK", s, TftpBlock>>}
      /\ \A m \in toServer' : m[1] = "RRQ" => m \in toServer
      /\ \A t, k : <<"ACK", t, k>> \in toServer'
                     => <<"ACK", t, k>> \in toServer \/ (t = s /\ k = TftpBlock)
      /\ \A p, q \in toServer' : p = q
  BY Zenon, AckAdds, OneOnItsWay DEF OnOack
<1>5. TypeOK'
  BY SMTT(30), <1>1, <1>3, <1>4 DEF TypeOK
<1>6. PortInv'
  BY Zenon, <1>1, <1>3, <1>4 DEF TypeOK, PortInv
<1>7. SentInv'
  <2>1. \A t \in Sid : <<"OACK", t, 0>> \in toClient' /\ sess[t].port = TftpOurPort
                         => sess[t].block = 0 /\ t # s
    BY Zenon, <1>1 DEF SentInv, Ours
  <2>q. QED
    BY Zenon, <1>1, <1>3, <1>4, <2>1 DEF SentInv, Ours
<1>8. InStep(0)'
  <2>1. BlockNo(0) = 0 /\ 0 * sess[s].size = 0
    BY <1>2, SeqAssumption DEF BlockNo
  <2>2. Holds(mem, 0 * sess[s].size)
    BY <2>1 DEF Holds
  <2>3. \A n \in Nat : <<"DATA", s, n>> \notin toClient'
    <3>1. \A n \in Nat : <<"DATA", s, n>> \in toClient => n = 0
      BY <1>2 DEF SentInv
    <3>q. QED
      BY Zenon, <1>1, <3>1 DEF TypeOK
  <2>q. QED
    BY Zenon, <1>2, <1>3, <2>1, <2>2, <2>3 DEF InStep, BlockNo, Holds
<1>9. StepInv'
  <2>1. ASSUME NEW t \in Sid, sess[t].port = TftpOurPort, t # s
        PROVE  /\ \A k \in 0 .. SEQ - 1 : <<"ACK", t, k>> \notin toServer'
               /\ sess[t].block = 0 \/ (sess[t].block = 1 /\ sess[t].size = BLK)
    <3>1. t # TftpServerPort
      BY Zenon, <1>2, SidAssumption
    <3>q. QED
      BY Zenon, <1>4, <2>1, <3>1 DEF StepInv, Ours
  <2>2. \E c \in Nat : InStep(c)'
    BY Zenon, <1>8
  <2>q. QED
    BY Zenon, <1>1, <1>3, <2>1, <2>2 DEF StepInv, Ours
<1>10. FileInv' /\ Integrity'
  BY Zenon, <1>3 DEF FileInv, Integrity
<1>q. QED
  BY Zenon, <1>5, <1>6, <1>7, <1>9, <1>10

\* An error packet.
LEMMA WrapError ==
  ASSUME WrapSetting, WrapInv, NEW s \in Sid, NEW c \in {0, 1}, OnError(s, c)
  PROVE  WrapInv'
<1> USE DEF WrapInv
<1>1. toClient' \subseteq toClient
  BY Zenon, Channels DEF OnError, Receive
<1>2. UNCHANGED <<loop, TftpState, TftpServerPort, TftpOurPort, TftpBlock, TftpLastBlock,
                  TftpBlockWrapOffset, TftpBlkSize, TftpTimeoutCount, mem,
                  NetBootFileXferSize, sess, closed, toServer>>
  BY Zenon DEF OnError, blockVars, fileVars, serverVars
<1>3. /\ NetState' \in {NetState, "FAIL", "RESTART"}
      /\ handler' \in {"tftp", "ignore"} /\ timer' \in {"none", "tftp", "again"}
      /\ up' \in BOOLEAN
      /\ NetTryCount' \in Nat \ {0} /\ TftpOurPort <= NetTryCount'
      /\ NetState' = "RESTART" \/ handler' = "ignore" => TftpOurPort < NetTryCount'
      /\ timer' = "again" => handler' = "ignore"
      /\ timer' = "tftp" => handler' = "tftp"
  <2>1. CASE c = 1
    <3>1. NetState' = "FAIL" /\ up' = FALSE /\ UNCHANGED <<handler, timer, NetTryCount>>
      BY <2>1, Zenon DEF OnError
    <3>q. QED
      BY ZenonT(40), <3>1 DEF TypeOK, PortInv
  <2>2. CASE c # 1
    <3>1. NetStartAgain(timer) /\ timer \in {"none", "tftp", "again"}
      BY Zenon, <2>2 DEF OnError, TypeOK
    <3>2. (timer = "again" => handler = "ignore") /\ (timer = "tftp" => handler = "tftp")
      BY Zenon DEF PortInv
    <3>q. QED
      BY Zenon, <3>1, <3>2, AnyStartAgain
  <2>q. QED
    BY Zenon, <2>1, <2>2
<1>4. TypeOK'
  <2>1. NetState' \in {"CONTINUE", "RESTART", "SUCCESS", "FAIL"}
    BY Zenon, <1>3 DEF TypeOK
  <2>q. QED
    BY Zenon, <1>1, <1>2, <1>3, <2>1 DEF TypeOK
<1>5. PortInv'
  BY Zenon, <1>2, <1>3 DEF PortInv
<1>6. SentInv'
  BY Zenon, <1>1, <1>2, SentKept DEF SentInv
<1>7. StepInv'
  BY Zenon, <1>1, <1>2, StepKept
<1>8. FileInv' /\ Integrity'
  BY Zenon, <1>2, <1>3 DEF FileInv, Integrity
<1>q. QED
  BY Zenon, <1>4, <1>5, <1>6, <1>7, <1>8

\* A time-out repeats an acknowledgement; the server has moved past it, or
\* the block is stored.
LEMMA WrapTimeout ==
  ASSUME WrapSetting, WrapInv, TftpTimeout
  PROVE  WrapInv'
<1> USE DEF WrapInv
<1>1. /\ loop' = "state" /\ timer = "tftp" /\ TftpTimeoutCount' \in Nat
      /\ UNCHANGED <<TftpState, TftpServerPort, TftpOurPort, TftpBlock, TftpLastBlock,
                     TftpBlockWrapOffset, TftpBlkSize, mem, NetBootFileXferSize, sess,
                     closed, toClient>>
  BY DEF TftpTimeout, clientVars, blockVars, fileVars, serverVars, TypeOK
<1>2. CASE TftpTimeoutCount' > TIMEOUT_COUNT
  <2>1. NetStartAgain("none") /\ toServer' = toServer
    BY Zenon, <1>2 DEF TftpTimeout
  <2>2. /\ NetState' \in {NetState, "FAIL", "RESTART"}
        /\ handler' \in {"tftp", "ignore"} /\ timer' \in {"none", "tftp", "again"}
        /\ up' \in BOOLEAN
        /\ NetTryCount' \in Nat \ {0} /\ TftpOurPort <= NetTryCount'
        /\ NetState' = "RESTART" \/ handler' = "ignore" => TftpOurPort < NetTryCount'
        /\ timer' = "again" => handler' = "ignore"
        /\ timer' = "tftp" => handler' = "tftp"
    BY Zenon, <2>1, AnyStartAgain
  <2>3. TypeOK'
    <3>1. NetState' \in {"CONTINUE", "RESTART", "SUCCESS", "FAIL"}
      BY Zenon, <2>2 DEF TypeOK
    <3>q. QED
      BY Zenon, <1>1, <2>1, <2>2, <3>1 DEF TypeOK
  <2>4. PortInv'
    BY Zenon, <1>1, <2>1, <2>2 DEF PortInv
  <2>5. SentInv'
    BY Zenon, <1>1, <2>1, SentKept DEF SentInv
  <2>6. StepInv'
    BY Zenon, <1>1, <2>1, StepKept
  <2>7. FileInv' /\ Integrity'
    BY Zenon, <1>1, <2>2 DEF FileInv, Integrity
  <2>q. QED
    BY Zenon, <2>3, <2>4, <2>5, <2>6, <2>7
<1>3. CASE ~(TftpTimeoutCount' > TIMEOUT_COUNT)
  <2>1. /\ TftpSend(TftpState, TftpOurPort, TftpServerPort, TftpBlock)
        /\ timer' = "tftp" /\ UNCHANGED <<NetState, handler, up, NetTryCount>>
    BY Zenon, <1>3 DEF TftpTimeout
  <2>2. SentInv' /\ FileInv' /\ Integrity'
    <3>1. \A p, q \in toServer' : p = q
      BY Zenon, <2>1, OneOnItsWay
    <3>2. SentInv'
      BY Zenon, <1>1, <3>1, SentKept
    <3>q. QED
      BY Zenon, <1>1, <2>1, <3>2 DEF FileInv, Integrity
  <2>3. CASE TftpState = "RRQ"
    <3>1. /\ toServer' \subseteq toServer \cup {<<"RRQ", TftpOurPort, 0>>}
          /\ \A m \in toServer' : m[1] = "RRQ" => m \in toServer \/ m[2] = TftpOurPort
          /\ \A s, k : <<"ACK", s, k>> \in toServer' => <<"ACK", s, k>> \in toServer
      BY Zenon, <2>1, <2>3, RequestAdds
    <3>2. TypeOK'
      BY SMTT(30), <1>1, <2>1, <3>1 DEF TypeOK
    <3>3. PortInv'
      BY SMTT(30), <1>1, <2>1, <3>1 DEF PortInv, TypeOK
    <3>4. StepInv'
      BY Zenon, <1>1, <3>1, StepKept
    <3>q. QED
      BY Zenon, <2>2, <3>2, <3>3, <3>4
  <2>4. CASE TftpState # "RRQ"
    <3>1. TftpState \in {"OACK", "DATA"}
      BY Zenon, <2>4 DEF TypeOK
    <3>2. /\ toServer' \subseteq toServer \cup {<<"ACK", TftpServerPort, TftpBlock>>}
          /\ \A m \in toServer' : m[1] = "RRQ" => m \in toServer
          /\ \A s, k : <<"ACK", s, k>> \in toServer'
               => <<"ACK", s, k>> \in toServer \/ (s = TftpServerPort /\ k = TftpBlock)
      BY <2>1, <3>1, AckAdds
    <3>3. /\ TftpServerPort \in Sid /\ sess[TftpServerPort].port = TftpOurPort
          /\ TftpBlkSize = sess[TftpServerPort].size
      BY Zenon, <2>4 DEF StepInv, Ours
    <3>4. TypeOK'
      BY SMTT(30), <1>1, <2>1, <3>2, <3>3 DEF TypeOK
    <3>5. PortInv'
      BY Zenon, <1>1, <2>1, <3>2, <3>3 DEF PortInv, TypeOK
    <3>6. PICK c \in Nat : InStep(c)
      BY Zenon, <2>4 DEF StepInv
    <3>7. InStep(c)'
      <4> DEFINE b == sess[TftpServerPort].block
      <4>1. (b = c \/ b = c + 1) /\ TftpBlock = BlockNo(c)
        BY Zenon, <3>6 DEF InStep
      <4>2. BlockNo(b) = BlockNo(c) => b = c
        BY Zenon, <4>1, NextNumber
      <4>3. <<"ACK", TftpServerPort, BlockNo(b)>> \in toServer' => b = c
        BY Zenon, <3>2, <3>6, <4>1, <4>2 DEF InStep
      <4>q. QED
        BY <1>1, <3>6, <4>3, Zenon DEF InStep, BlockNo, Holds
    <3>8. StepInv'
      <4>1. \E d \in Nat : InStep(d)'
        BY Zenon, <3>6, <3>7
      <4>q. QED
        BY Zenon, <1>1, <2>4, <3>2, <3>3, <4>1 DEF StepInv, Ours
    <3>q. QED
      BY Zenon, <2>2, <3>4, <3>5, <3>8
  <2>q. QED
    BY Zenon, <2>3, <2>4
<1>q. QED
  BY Zenon, <1>2, <1>3

\* The pause is over.
LEMMA WrapAgain ==
  ASSUME WrapInv, startAgainTimeout
  PROVE  WrapInv'
<1> USE DEF WrapInv
<1>1. /\ timer = "again" /\ loop' = "state" /\ NetState' = "RESTART" /\ timer' = "none"
      /\ UNCHANGED <<handler, up, NetTryCount>>
      /\ UNCHANGED <<TftpState, TftpServerPort, TftpOurPort, TftpBlock, TftpLastBlock,
                     TftpBlockWrapOffset, TftpBlkSize, TftpTimeoutCount, mem,
                     NetBootFileXferSize, sess, closed, toServer, toClient>>
  BY Zenon DEF startAgainTimeout, clientVars, blockVars, fileVars, serverVars
<1>2. TypeOK'
  BY Zenon, <1>1 DEF TypeOK
<1>3. PortInv'
  BY Zenon, <1>1 DEF PortInv
<1>4. SentInv'
  BY Zenon, <1>1, SentKept DEF SentInv
<1>5. StepInv'
  BY Zenon, <1>1, StepKept
<1>6. FileInv' /\ Integrity'
  BY Zenon, <1>1 DEF FileInv, Integrity
<1>q. QED
  BY Zenon, <1>2, <1>3, <1>4, <1>5, <1>6

\* A new attempt has a port that no transfer knows.
LEMMA WrapStart ==
  ASSUME WrapSetting, WrapInv, TftpStart
  PROVE  WrapInv'
<1> USE DEF WrapInv
<1>1. /\ NetState = "RESTART"
      /\ loop' = "rx" /\ NetState' = "CONTINUE" /\ handler' = "tftp" /\ timer' = "tftp"
      /\ TftpServerPort' = 0 /\ TftpTimeoutCount' = 0 /\ TftpState' = "RRQ"
      /\ TftpBlock' = 0 /\ TftpBlkSize' = BLK /\ NetBootFileXferSize' = 0
      /\ UNCHANGED <<up, NetTryCount>>
      /\ UNCHANGED <<TftpLastBlock, TftpBlockWrapOffset, mem, sess, closed, toClient>>
  BY Zenon DEF TftpStart, serverVars
<1>2. TftpOurPort' = NetTryCount /\ TftpSend("RRQ", NetTryCount, 0, 0)
  BY Zenon DEF TftpStart, WrapSetting
<1>3. /\ TftpOurPort < NetTryCount
      /\ TftpOurPort \in Nat \ {0} /\ NetTryCount \in Nat \ {0}
  BY Zenon, <1>1 DEF PortInv, TypeOK
<1>4. /\ toServer' \subseteq toServer \cup {<<"RRQ", NetTryCount, 0>>}
      /\ \A m \in toServer' : m[1] = "RRQ" => m \in toServer \/ m[2] = NetTryCount
      /\ \A s, k : <<"ACK", s, k>> \in toServer' => <<"ACK", s, k>> \in toServer
  BY Zenon, <1>2, RequestAdds
<1>5. \A s \in Sid : sess[s].port \in Nat /\ sess[s].port < NetTryCount
  BY SMTT(30), <1>3 DEF PortInv, TypeOK
<1>6. TypeOK'
  <2>1. BLK \in {BLK, OPT} /\ 0 \in 0 .. SEQ - 1
    BY SMTT(30), SeqAssumption
  <2>2. toServer' \subseteq ({"RRQ"} \X (Nat \ {0}) \X {0}) \cup ({"ACK"} \X Sid \X (0 .. SEQ - 1))
    BY SMTT(30), <1>3, <1>4 DEF TypeOK
  <2>q. QED
    BY Zenon, <1>1, <1>2, <1>3, <2>1, <2>2 DEF TypeOK
<1>7. PortInv'
  <2>1. \A m \in toServer' : m[1] = "RRQ" => m[2] <= NetTryCount
    <3>1. ASSUME NEW m \in toServer, m[1] = "RRQ" PROVE m[2] <= NetTryCount
      <4>1. m[2] \in Nat /\ m[2] <= TftpOurPort
        BY Zenon, <3>1 DEF PortInv, TypeOK
      <4>q. QED
        BY SMTT(30), <1>3, <4>1
    <3>q. QED
      BY <1>3, <1>4, <3>1
  <2>q. QED
    BY SMTT(30), <1>1, <1>2, <1>3, <1>4, <1>5, <2>1 DEF PortInv
<1>8. \A s \in Sid : sess[s].port # NetTryCount
  BY <1>3, <1>5
<1>9. SentInv'
  <2>1. \A p, q \in toServer' : p = q
    BY Zenon, <1>2, OneOnItsWay
  <2>q. QED
    BY Zenon, <1>1, <1>2, <1>8, <2>1 DEF SentInv, Ours
<1>10. StepInv'
  BY Zenon, <1>1, <1>2, <1>8 DEF StepInv, Ours
<1>11. FileInv' /\ Integrity'
  BY <1>1, SizeAssumption DEF FileInv, Integrity
<1>q. QED
  BY Zenon, <1>6, <1>7, <1>9, <1>10, <1>11

\* NetLoop's other steps, and stuttering.
LEMMA WrapLoop ==
  ASSUME WrapInv, NoTimeout \/ Abort \/ NetLoopGoesOn \/ NetLoopReturns \/ UNCHANGED vars
  PROVE  WrapInv'
<1> USE DEF WrapInv
<1>1. /\ loop' \in {"rx", "state", "end"}
      /\ UNCHANGED <<NetState, handler, timer, up, NetTryCount>>
      /\ UNCHANGED <<TftpState, TftpServerPort, TftpOurPort, TftpBlock, TftpLastBlock,
                     TftpBlockWrapOffset, TftpBlkSize, TftpTimeoutCount, mem,
                     NetBootFileXferSize, sess, closed, toServer, toClient>>
  BY Zenon DEF NoTimeout, Abort, NetLoopGoesOn, NetLoopReturns, vars, netVars, clientVars,
         blockVars, fileVars, serverVars, TypeOK
<1>2. TypeOK'
  BY SMTT(30), <1>1 DEF TypeOK
<1>3. PortInv'
  BY Zenon, <1>1 DEF PortInv
<1>4. SentInv'
  BY Zenon, <1>1, SentKept DEF SentInv
<1>5. StepInv'
  BY Zenon, <1>1, StepKept
<1>6. FileInv' /\ Integrity'
  BY Zenon, <1>1 DEF FileInv, Integrity
<1>q. QED
  BY Zenon, <1>2, <1>3, <1>4, <1>5, <1>6

\* A new transfer has not been answered.
LEMMA WrapRequest ==
  ASSUME WrapSetting, WrapInv, NEW s \in Sid, NEW p \in 1 .. NetTryCount,
         NEW size \in {BLK, OPT}, ServeRequest(s, p, size)
  PROVE  WrapInv'
<1> USE DEF WrapInv
<1>1. /\ sess[s] = Free /\ <<"RRQ", p, 0>> \in toServer /\ toServer' \subseteq toServer
      /\ UNCHANGED <<NetState, handler, timer, up, NetTryCount>>
      /\ UNCHANGED <<loop, TftpState, TftpServerPort, TftpOurPort, TftpBlock, TftpLastBlock,
                     TftpBlockWrapOffset, TftpBlkSize, TftpTimeoutCount, mem,
                     NetBootFileXferSize, closed>>
  BY Zenon, Channels DEF ServeRequest, serverStep, netVars, clientVars, blockVars, fileVars
<1>2. PICK b \in {0, 1} :
        /\ sess' = [sess EXCEPT ![s] = [port |-> p, size |-> size, block |-> b]]
        /\ b = 1 => size = BLK
        /\ toClient' \subseteq toClient \cup
             {IF b = 0 THEN <<"OACK", s, 0>> ELSE <<"DATA", s, 1>>}
  <2>1. CASE /\ sess' = [sess EXCEPT ![s] = [port |-> p, size |-> size, block |-> 0]]
             /\ Deliver(<<"OACK", s, 0>>)
    BY SMTT(30), <2>1, DeliverAdds
  <2>2. CASE /\ sess' = [sess EXCEPT ![s] = [port |-> p, size |-> size, block |-> 1]]
             /\ Deliver(<<"DATA", s, 1>>) /\ size = BLK
    BY SMTT(30), <2>2, DeliverAdds
  <2>q. QED
    BY Zenon, <2>1, <2>2 DEF ServeRequest
<1>3. /\ p \in Nat \ {0} /\ p <= TftpOurPort /\ sess[s].port = 0 /\ TftpOurPort # 0
  <2>1. <<"RRQ", p, 0>>[1] = "RRQ" /\ <<"RRQ", p, 0>>[2] = p
    BY Zenon
  <2>2. p \in Nat \ {0}
    BY SMTT(30) DEF TypeOK
  <2>q. QED
    BY SMTT(30), <1>1, <2>1, <2>2 DEF PortInv, Free, TypeOK
<1>4. \A k \in 0 .. SEQ - 1 : <<"ACK", s, k>> \notin toServer
  <2>1. \A t \in Sid, k \in 0 .. SEQ - 1 : <<"ACK", t, k>> \in toServer => sess[t].port # 0
    BY Zenon DEF PortInv
  <2>2. sess[s].port = 0
    BY Zenon, <1>3
  <2>q. QED
    BY <2>1, <2>2, Zenon
<1>5. /\ sess'[s].port = p /\ sess'[s].size = size /\ sess'[s].block = b
      /\ \A t \in Sid \ {s} : sess'[t] = sess[t]
      /\ sess' \in [Sid -> [port : Nat, size : {BLK, OPT}, block : Nat]]
  BY SMTT(30), <1>2, <1>3 DEF TypeOK
<1>6. s # TftpServerPort
  BY Zenon, <1>3, SidAssumption DEF StepInv, Ours, TypeOK
<1>7. /\ \A t \in Sid, n \in Nat : <<"DATA", t, n>> \in toClient' =>
           <<"DATA", t, n>> \in toClient \/ (t = s /\ n = 1 /\ b = 1)
      /\ \A t \in Sid : <<"OACK", t, 0>> \in toClient' =>
           <<"OACK", t, 0>> \in toClient \/ (t = s /\ b = 0)
  BY Zenon, <1>2
<1>8. TypeOK'
  <2>1. toClient' \subseteq ({"OACK"} \X Sid \X {0}) \cup ({"DATA"} \X Sid \X (Nat \ {0}))
                              \cup ({"ERROR"} \X Sid \X {0, 1})
    BY SMTT(30), <1>2 DEF TypeOK
  <2>2. toServer' \subseteq ({"RRQ"} \X (Nat \ {0}) \X {0}) \cup ({"ACK"} \X Sid \X (0 .. SEQ - 1))
    BY Zenon, <1>1 DEF TypeOK
  <2>q. QED
    BY SMTT(30), <1>1, <1>5, <2>1, <2>2 DEF TypeOK
<1>9. PortInv'
  BY Zenon, <1>1, <1>3, <1>4, <1>5 DEF PortInv
<1>10. SentInv'
  <2>1. \A q, r \in toServer' : q = r
    BY Zenon, <1>1 DEF SentInv
  <2>2. ASSUME NEW t \in Sid, NEW n \in Nat, <<"DATA", t, n>> \in toClient'
        PROVE  sess'[t].port # 0 /\ n <= sess'[t].block
    <3>1. CASE t = s
      BY SMTT(30), <1>3, <1>5, <1>7, <2>2, <3>1 DEF SentInv
    <3>2. CASE t # s
      BY Zenon, <1>5, <1>7, <2>2, <3>2 DEF SentInv
    <3>q. QED
      BY <3>1, <3>2, Zenon
  <2>3. ASSUME NEW t \in Sid, <<"OACK", t, 0>> \in toClient'
        PROVE  sess'[t].port # 0 /\ (sess'[t].port = TftpOurPort => sess'[t].block = 0 /\ t # TftpServerPort)
    <3>1. CASE t = s
      BY Zenon, <1>3, <1>5, <1>6, <1>7, <2>3, <3>1 DEF SentInv
    <3>2. CASE t # s
      BY Zenon, <1>5, <1>7, <2>3, <3>2 DEF SentInv, Ours
    <3>q. QED
      BY <3>1, <3>2, Zenon
  <2>q. QED
    BY Zenon, <1>1, <2>1, <2>2, <2>3 DEF SentInv, Ours
<1>11. StepInv'
  <2>1. ASSUME TftpState # "RRQ"
        PROVE  /\ TftpServerPort \in Sid /\ sess'[TftpServerPort] = sess[TftpServerPort]
               /\ \E c \in Nat : InStep(c)'
    <3>1. TftpServerPort \in Sid /\ sess'[TftpServerPort] = sess[TftpServerPort]
      BY Zenon, <1>5, <1>6, <2>1 DEF StepInv
    <3>2. PICK c \in Nat : InStep(c)
      BY Zenon, <2>1 DEF StepInv
    <3>3. /\ \A n \in Nat : <<"DATA", TftpServerPort, n>> \in toClient'
               => <<"DATA", TftpServerPort, n>> \in toClient
          /\ \A k : <<"ACK", TftpServerPort, k>> \in toServer'
               => <<"ACK", TftpServerPort, k>> \in toServer
      BY Zenon, <1>1, <1>6, <1>7, <3>1
    <3>4. InStep(c)'
      BY <1>1, <3>1, <3>2, <3>3, ZenonT(30) DEF InStep, BlockNo, Holds
    <3>q. QED
      BY <3>1, <3>4, Zenon
  <2>2. ASSUME NEW t \in Sid, sess'[t].port = TftpOurPort, t # TftpServerPort
        PROVE  /\ \A k \in 0 .. SEQ - 1 : <<"ACK", t, k>> \notin toServer'
               /\ sess'[t].block = 0 \/ (sess'[t].block = 1 /\ sess'[t].size = BLK)
    <3>1. CASE t = s
      BY Zenon, <1>1, <1>2, <1>4, <1>5, <3>1
    <3>2. CASE t # s
      BY Zenon, <1>1, <1>5, <2>2, <3>2 DEF StepInv, Ours
    <3>q. QED
      BY Zenon, <3>1, <3>2
  <2>q. QED
    BY Zenon, <1>1, <2>1, <2>2 DEF StepInv, Ours
<1>12. FileInv'
  <2>1. (b - 1) * size <= 0 /\ (b - 1) * size \in Int /\ FILE \in Nat
    <3>1. size \in Nat
      BY Zenon, SizeAssumption
    <3>2. (b - 1) * size <= 0 * size
      BY <3>1, TimesMono
    <3>q. QED
      BY <3>1, <3>2, SizeAssumption
  <2>2. (b - 1) * size <= FILE
    BY SMTT(30), <2>1
  <2>q. QED
    BY Zenon, <1>1, <1>5, <2>2 DEF FileInv
<1>13. Integrity'
  BY Zenon, <1>1 DEF Integrity
<1>q. QED
  BY Zenon, <1>8, <1>9, <1>10, <1>11, <1>12, <1>13

\* The server moves on past a block that is stored.
LEMMA WrapAck ==
  ASSUME WrapSetting, WrapInv, NEW s \in Sid, NEW k \in 0 .. SEQ - 1, ServeAck(s, k)
  PROVE  WrapInv'
<1> USE DEF WrapInv
<1> DEFINE b == sess[s].block
           z == sess[s].size
<1>1. /\ <<"ACK", s, k>> \in toServer /\ toServer' = {}
      /\ k = BlockNo(b) /\ (b = 0 \/ BlockLen(s, b) = z)
      /\ sess' = [sess EXCEPT ![s].block = @ + 1]
      /\ UNCHANGED <<NetState, handler, timer, up, NetTryCount>>
      /\ UNCHANGED <<loop, TftpState, TftpServerPort, TftpOurPort, TftpBlock, TftpLastBlock,
                     TftpBlockWrapOffset, TftpBlkSize, TftpTimeoutCount, mem,
                     NetBootFileXferSize, closed>>
  BY Zenon, OneOnItsWay DEF ServeAck, serverStep, netVars, clientVars, blockVars, fileVars
<1>2. b \in Nat /\ z \in Nat \ {0} /\ FILE \in Nat
  BY Zenon, SizeAssumption DEF TypeOK
<1>3. /\ sess'[s].block = b + 1 /\ sess'[s].size = z /\ sess'[s].port = sess[s].port
      /\ \A t \in Sid \ {s} : sess'[t] = sess[t]
      /\ sess' \in [Sid -> [port : Nat, size : {BLK, OPT}, block : Nat]]
  BY SMTT(30), <1>1 DEF TypeOK
<1>4. toClient' \subseteq toClient \cup {<<"DATA", s, b + 1>>}
  BY Zenon, DeliverAdds DEF ServeAck
<1>5. ((b + 1) - 1) * z <= FILE
  <2>1. CASE b = 0
    <3>1. 0 * z = 0 /\ (b + 1) - 1 = 0
      BY <1>2, <2>1
    <3>q. QED
      BY <1>2, <3>1
  <2>2. CASE b # 0
    <3>1. b \in Nat \ {0} /\ (b - 1) * sess[s].size <= FILE
      BY Zenon, <1>2, <2>2 DEF FileInv
    <3>2. b * z <= FILE
      BY Zenon, <1>1, <2>2, <3>1, InFile
    <3>3. (b + 1) - 1 = b
      BY <1>2
    <3>q. QED
      BY <3>2, <3>3, Zenon
  <2>q. QED
    BY Zenon, <2>1, <2>2
<1>6. sess[s].port # 0
  BY Zenon, <1>1 DEF PortInv
<1>7. Ours(s) => s = TftpServerPort /\ TftpState # "RRQ"
  BY Zenon, <1>1, SidAssumption DEF StepInv
<1>8. TftpState # "RRQ" => /\ TftpServerPort \in Sid /\ Ours(TftpServerPort)
                           /\ TftpBlkSize = sess[TftpServerPort].size
                           /\ \E c \in Nat : InStep(c)
  BY Zenon DEF StepInv
<1>9. /\ \A t \in Sid, n \in Nat : <<"DATA", t, n>> \in toClient' =>
           <<"DATA", t, n>> \in toClient \/ (t = s /\ n = b + 1)
      /\ \A t \in Sid : <<"OACK", t, 0>> \in toClient' => <<"OACK", t, 0>> \in toClient
  BY Zenon, <1>4
<1>10. \A t \in Sid : sess'[t].port = sess[t].port /\ sess'[t].size = sess[t].size
  BY Zenon, <1>3
<1>11. TypeOK'
  <2>1. b + 1 \in Nat \ {0}
    BY SMTT(30), <1>2
  <2> HIDE DEF b, z
  <2>2. toClient' \subseteq ({"OACK"} \X Sid \X {0}) \cup ({"DATA"} \X Sid \X (Nat \ {0}))
                              \cup ({"ERROR"} \X Sid \X {0, 1})
    BY SMTT(30), <1>4, <2>1 DEF TypeOK
  <2>q. QED
    BY SMTT(30), <1>1, <1>3, <2>2 DEF TypeOK
<1>12. PortInv'
  BY Zenon, <1>1, <1>10 DEF PortInv
<1>13. SentInv'
  <2>1. ASSUME NEW t \in Sid, NEW n \in Nat, <<"DATA", t, n>> \in toClient'
        PROVE  sess'[t].port # 0 /\ n <= sess'[t].block
    <3>1. CASE t = s
      BY SMTT(30), <1>2, <1>3, <1>6, <1>9, <2>1, <3>1 DEF SentInv
    <3>2. CASE t # s
      BY Zenon, <1>3, <1>9, <2>1, <3>2 DEF SentInv
    <3>q. QED
      BY <3>1, <3>2, Zenon
  <2>2. ASSUME NEW t \in Sid, <<"OACK", t, 0>> \in toClient'
        PROVE  /\ sess[t].port # 0
               /\ sess[t].port = TftpOurPort => sess'[t].block = 0 /\ t # TftpServerPort
    <3>1. <<"OACK", t, 0>> \in toClient
      BY <1>9, <2>2, Zenon
    <3>2. Ours(t) => sess[t].block = 0 /\ t # TftpServerPort
      BY Zenon, <3>1 DEF SentInv
    <3>3. Ours(t) => t # s
      BY <1>7, <3>2, Zenon
    <3>q. QED
      BY Zenon, <1>3, <3>1, <3>2, <3>3 DEF SentInv, Ours
  <2>q. QED
    BY Zenon, <1>1, <1>10, <2>1, <2>2 DEF SentInv, Ours
<1>14. ASSUME NEW c \in Nat, InStep(c), TftpState # "RRQ" PROVE InStep(c)'
  <2>1. TftpServerPort \in Sid
    BY <1>8, <1>14, Zenon
  <2>2. CASE s = TftpServerPort
    <3>1. b = c
      BY Zenon, <1>1, <1>14, <2>2 DEF InStep
    <3>2. \A n \in Nat : <<"DATA", TftpServerPort, n>> \in toClient' => n = c + 1
      BY Zenon, <1>9, <1>14, <2>2, <3>1 DEF InStep
    <3>3. sess'[TftpServerPort].block = c + 1 /\ sess'[TftpServerPort].size = sess[TftpServerPort].size
      BY Zenon, <1>3, <2>2, <3>1
    <3>q. QED
      BY SMTT(30), <1>1, <1>14, <3>2, <3>3 DEF InStep, BlockNo, Holds
  <2>3. CASE s # TftpServerPort
    <3>1. sess'[TftpServerPort] = sess[TftpServerPort]
      BY Zenon, <1>3, <2>1, <2>3
    <3>2. \A n \in Nat : <<"DATA", TftpServerPort, n>> \in toClient' => n = c + 1
      BY Zenon, <1>9, <1>14, <2>1, <2>3 DEF InStep
    <3>q. QED
      BY SMTT(30), <1>1, <1>14, <3>1, <3>2 DEF InStep, BlockNo, Holds
  <2>q. QED
    BY Zenon, <2>2, <2>3
<1>15. StepInv'
  <2>1. TftpState # "RRQ" => \E c \in Nat : InStep(c)'
    BY <1>8, <1>14, Zenon
  <2>2. ASSUME NEW t \in Sid, sess[t].port = TftpOurPort, t # TftpServerPort
        PROVE  sess'[t].block = 0 \/ (sess'[t].block = 1 /\ sess'[t].size = BLK)
    <3>1. t # s
      BY <1>7, <2>2, Zenon DEF Ours
    <3>q. QED
      BY Zenon, <1>3, <2>2, <3>1 DEF StepInv, Ours
  <2>q. QED
    BY SMTT(30), <1>1, <1>8, <1>10, <2>1, <2>2 DEF StepInv, Ours
<1>16. FileInv'
  <2>1. (sess'[s].block - 1) * sess'[s].size <= FILE
    BY <1>3, <1>5, Zenon
  <2>q. QED
    BY Zenon, <1>1, <1>3, <2>1 DEF FileInv
<1>17. Integrity'
  BY Zenon, <1>1 DEF Integrity
<1>q. QED
  BY Zenon, <1>11, <1>12, <1>13, <1>15, <1>16, <1>17

\* An error from the server; it does not retransmit here.
LEMMA WrapServerError ==
  ASSUME WrapSetting, WrapInv, NEW s \in Sid, Resend(s) \/ \E c \in {0, 1} : SendError(s, c)
  PROVE  WrapInv'
<1> USE DEF WrapInv
<1>1. PICK c \in {0, 1} : SendError(s, c)
  BY Zenon DEF WrapSetting, Resend
<1>2. /\ UNCHANGED <<NetState, handler, timer, up, NetTryCount>>
      /\ UNCHANGED <<loop, TftpState, TftpServerPort, TftpOurPort, TftpBlock, TftpLastBlock,
                     TftpBlockWrapOffset, TftpBlkSize, TftpTimeoutCount, mem,
                     NetBootFileXferSize, sess, toServer>>
      /\ closed' = closed \cup {s}
      /\ toClient' \subseteq toClient \cup {<<"ERROR", s, c>>}
  BY Zenon, <1>1, DeliverAdds DEF SendError, serverStep, netVars, clientVars, blockVars, fileVars
<1>3. /\ \A t, n : <<"DATA", t, n>> \in toClient' => <<"DATA", t, n>> \in toClient
      /\ \A t : <<"OACK", t, 0>> \in toClient' => <<"OACK", t, 0>> \in toClient
  BY Zenon, <1>2
<1>4. TypeOK'
  <2>1. toClient' \subseteq ({"OACK"} \X Sid \X {0}) \cup ({"DATA"} \X Sid \X (Nat \ {0}))
                              \cup ({"ERROR"} \X Sid \X {0, 1})
    BY SMTT(30), <1>2 DEF TypeOK
  <2>q. QED
    BY SMTT(30), <1>2, <2>1 DEF TypeOK
<1>5. PortInv'
  BY Zenon, <1>2 DEF PortInv
<1>6. SentInv'
  BY Zenon, <1>2, <1>3, SentKept DEF SentInv
<1>7. StepInv'
  BY Zenon, <1>2, <1>3, StepKept
<1>8. FileInv' /\ Integrity'
  BY Zenon, <1>2 DEF FileInv, Integrity
<1>q. QED
  BY Zenon, <1>4, <1>5, <1>6, <1>7, <1>8

LEMMA WrapInit == Init => WrapInv
<1> SUFFICES ASSUME Init PROVE WrapInv
  BY Zenon
<1>1. TypeOK
  BY Zenon, TypeInit
<1>2. PortInv
  BY SMTT(30), SeqAssumption DEF Init, PortInv, Free
<1>3. SentInv
  BY Zenon DEF Init, SentInv
<1>4. StepInv
  BY Zenon DEF Init, StepInv, Ours, Free
<1>5. FileInv
  <2>1. (0 - 1) * BLK <= FILE
    <3>1. (0 - 1) * BLK <= 0 * BLK /\ 0 * BLK = 0 /\ (0 - 1) * BLK \in Int
      BY SizeAssumption, TimesMono
    <3>q. QED
      BY <3>1, SizeAssumption
  <2>2. \A s \in Sid : sess[s].block = 0 /\ sess[s].size = BLK
    BY Zenon DEF Init, Free
  <2>q. QED
    BY SMTT(30), <2>1, <2>2, SizeAssumption DEF Init, FileInv
<1>6. Integrity
  BY Zenon DEF Init, Integrity
<1>q. QED
  BY Zenon, <1>1, <1>2, <1>3, <1>4, <1>5, <1>6 DEF WrapInv

LEMMA WrapNext == ASSUME WrapSetting PROVE WrapInv /\ [Next]_vars => WrapInv'
<1> SUFFICES ASSUME WrapInv, [Next]_vars PROVE WrapInv'
  BY Zenon
<1>1. CASE TftpHandler
  <2>1. PICK s \in Sid :
          \/ OnOack(s)
          \/ \E n \in Blocks(s) : OnDataNotFirst(s, n) \/ OnDataSame(s, n) \/ OnDataNew(s, n)
          \/ \E c \in {0, 1} : OnError(s, c)
    BY Zenon, <1>1 DEF TftpHandler
  <2>q. QED
    BY Zenon, <2>1, WrapOack, NeverOther, WrapNew, WrapError
<1>2. CASE TimerStep \/ Abort \/ StateStep
  BY Zenon, <1>2, WrapTimeout, WrapAgain, WrapStart, WrapLoop DEF TimerStep, StateStep
<1>3. CASE Server
  <2>1. PICK s \in Sid :
          \/ \E p \in 1 .. NetTryCount, size \in {BLK, OPT} : ServeRequest(s, p, size)
          \/ \E k \in 0 .. SEQ - 1 : ServeAck(s, k)
          \/ Resend(s)
          \/ \E c \in {0, 1} : SendError(s, c)
    BY Zenon, <1>3 DEF Server
  <2>q. QED
    BY Zenon, <2>1, WrapRequest, WrapAck, WrapServerError
<1>4. CASE UNCHANGED vars
  BY Zenon, <1>4, WrapLoop
<1>q. QED
  BY Zenon, <1>1, <1>2, <1>3, <1>4 DEF Next

\* The invariant of a transfer whose counter may wrap holds throughout.
THEOREM WrapTransferInv == ASSUME WrapSetting PROVE Spec => []WrapInv
<1>1. Init => WrapInv
  BY Zenon, WrapInit
<1>2. WrapInv /\ [Next]_vars => WrapInv'
  BY Zenon, WrapNext
<1>q. QED
  BY <1>1, <1>2, PTL DEF Spec

\* However often the 16 bit counter wraps, whatever is lost and wherever
\* NetStartAgain restarts, TftpHandler reports success with the whole file in
\* memory, as long as the network repeats no packet.
THEOREM WrapIntegrity == ASSUME WrapSetting PROVE Spec => []Integrity
<1>1. Spec => []WrapInv
  BY Zenon, WrapTransferInv
<1>2. WrapInv => Integrity
  BY Zenon DEF WrapInv
<1>q. QED
  BY <1>1, <1>2, PTL
=============================================================================
