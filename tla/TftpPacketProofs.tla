-------------------------- MODULE TftpPacketProofs --------------------------
(***************************************************************************)
(* The client's half of the TFTP proof: arithmetic of blocks, what         *)
(* store_block does to memory, and that handling a packet preserves the    *)
(* inductive invariant of module Tftp; and, for a counter that wraps, the  *)
(* invariant and the arithmetic of the wrap offset.                        *)
(***************************************************************************)
EXTENDS Tftp, TLAPS

\* The setting of the theorems: a fresh port for every attempt, one interface
\* (so that NetStartAgain pauses), and a file of fewer than SEQ blocks.
Setting ==
  /\ ~PortReuse
  /\ Wraps = {TRUE}
  /\ FILE < (SEQ - 1) * BLK /\ FILE < (SEQ - 1) * OPT

-----------------------------------------------------------------------------
\* Multiplication is monotonic, and a factor can be cancelled.
LEMMA TimesMono ==
  ASSUME NEW a \in Int, NEW b \in Int, NEW c \in Nat, a <= b
  PROVE  a * c <= b * c
OBVIOUS

LEMMA TimesCancel ==
  ASSUME NEW a \in Int, NEW b \in Int, NEW c \in Nat, a * c < b * c
  PROVE  a < b
<1>1. SUFFICES ASSUME b <= a PROVE FALSE
  OBVIOUS
<1>2. b * c <= a * c
  BY Zenon, <1>1, TimesMono
<1>q. QED
  BY <1>2

LEMMA TimesNext ==
  ASSUME NEW n \in Int, NEW c \in Nat
  PROVE  (n - 1) * c + c = n * c /\ (n - 1) * c \in Int /\ n * c \in Int
OBVIOUS

\* A block that begins in the file ends in it, and the short one at its end.
LEMMA InFile ==
  ASSUME TypeOK, NEW s \in Sid, NEW n \in Nat \ {0}, (n - 1) * sess[s].size <= FILE
  PROVE  /\ sess[s].size \in Nat \ {0}
         /\ (n - 1) * sess[s].size \in Nat /\ n * sess[s].size \in Nat
         /\ n * sess[s].size = (n - 1) * sess[s].size + sess[s].size
         /\ BlockOff(s, n) = (n - 1) * sess[s].size
         /\ BlockLen(s, n) \in Nat
         /\ BlockLen(s, n) = sess[s].size => n * sess[s].size <= FILE
         /\ BlockLen(s, n) <= sess[s].size
         /\ BlockLen(s, n) < sess[s].size => BlockOff(s, n) + BlockLen(s, n) = FILE
         /\ BlockOff(s, n) + BlockLen(s, n) <= FILE
<1> DEFINE z == sess[s].size
<1>1. z \in Nat \ {0} /\ FILE \in Nat
  BY Zenon, SizeAssumption DEF TypeOK
<1>2. (n - 1) * z \in Nat /\ n * z \in Nat /\ n * z = (n - 1) * z + z
  <2> HIDE DEF z
  <2>1. 0 * z <= (n - 1) * z /\ 0 * z <= n * z /\ 0 * z = 0
    BY <1>1, TimesMono
  <2>q. QED
    BY <1>1, <2>1, TimesNext
<1>3. BlockOff(s, n) = (n - 1) * z
  BY Zenon DEF BlockOff
<1>4. BlockLen(s, n) = IF z <= FILE - (n - 1) * z THEN z ELSE FILE - (n - 1) * z
  BY Zenon, <1>3 DEF BlockLen
<1>5. /\ BlockLen(s, n) \in Nat
      /\ BlockLen(s, n) = z => n * z <= FILE
      /\ BlockLen(s, n) <= z
      /\ BlockLen(s, n) < z => BlockOff(s, n) + BlockLen(s, n) = FILE
      /\ BlockOff(s, n) + BlockLen(s, n) <= FILE
  <2> DEFINE o == (n - 1) * z
             m == n * z
  <2>1. o \in Nat /\ m = o + z /\ o <= FILE
    BY Zenon, <1>2
  <2>2. BlockOff(s, n) = o /\ BlockLen(s, n) = IF z <= FILE - o THEN z ELSE FILE - o
    BY Zenon, <1>3, <1>4
  <2> HIDE DEF z, o
  <2>q. QED
    BY <1>1, <2>1, <2>2
<1>q. QED
  BY Zenon, <1>1, <1>2, <1>3, <1>5

\* The blocks of a transfer: their numbers do not wrap, they lie in the file
\* one after the other, and the short one is at its end.
LEMMA BlockFacts ==
  ASSUME Setting, TypeOK, StoredInv, NEW s \in Sid, NEW n \in Blocks(s)
  PROVE  /\ n \in Nat \ {0} /\ n < SEQ /\ BlockNo(n) = n
         /\ n <= sess[s].block
         /\ sess[s].size \in Nat \ {0}
         /\ (n - 1) * sess[s].size \in Nat /\ n * sess[s].size \in Nat
         /\ (n - 1) * sess[s].size <= (sess[s].block - 1) * sess[s].size
         /\ (n - 1) * sess[s].size <= FILE
         /\ BlockOff(s, n) = (n - 1) * sess[s].size
         /\ BlockLen(s, n) \in Nat
         /\ BlockLen(s, n) = sess[s].size => n * sess[s].size <= FILE
         /\ BlockLen(s, n) <= sess[s].size
         /\ BlockLen(s, n) < sess[s].size => BlockOff(s, n) + BlockLen(s, n) = FILE
         /\ BlockOff(s, n) + BlockLen(s, n) <= FILE
<1> DEFINE z == sess[s].size
           b == sess[s].block
<1>1. z \in {BLK, OPT} /\ b \in Nat
  BY Zenon DEF TypeOK
<1>2. z \in Nat \ {0} /\ b \in Nat /\ FILE \in Nat /\ SEQ \in Nat \ {0, 1}
  BY Zenon, <1>1, SizeAssumption, SeqAssumption
<1>3. n \in Nat \ {0} /\ n <= b
  BY <1>2 DEF Blocks
<1>4. (b - 1) * z <= FILE
  BY Zenon DEF StoredInv
<1>5. (n - 1) * z <= (b - 1) * z
  BY <1>2, <1>3, TimesMono
<1>6. (n - 1) * z <= FILE
  <2> HIDE DEF z, b
  <2>1. (n - 1) * z \in Int /\ (b - 1) * z \in Int
    BY <1>2, <1>3, TimesNext
  <2>q. QED
    BY <1>2, <1>4, <1>5, <2>1
<1>7. FILE < (SEQ - 1) * z
  BY Zenon, <1>1 DEF Setting
<1>8. n < SEQ
  <2> HIDE DEF z, b
  <2>1. (n - 1) * z \in Int /\ (SEQ - 1) * z \in Int
    BY <1>2, <1>3, TimesNext
  <2>2. (n - 1) * z < (SEQ - 1) * z
    BY <1>2, <1>6, <1>7, <2>1
  <2>3. n - 1 < SEQ - 1
    BY <1>2, <1>3, <2>2, TimesCancel
  <2>q. QED
    BY <1>2, <1>3, <2>3
<1>9. BlockNo(n) = n
  BY <1>2, <1>3, <1>8 DEF BlockNo
<1>q. QED
  BY Zenon, <1>2, <1>3, <1>5, <1>6, <1>8, <1>9, InFile

-----------------------------------------------------------------------------
\* A data packet the client takes is from the transfer it is bound to, or is
\* the first of one without options: the two agree on the block size.
LEMMA SameSize ==
  ASSUME Setting, TypeOK, BoundInv, StoredInv, NEW s \in Sid, NEW n \in Blocks(s),
         Receive("DATA", s, n)
  PROVE  /\ Ours(s)
         /\ TftpBlkSize = sess[s].size
         /\ TftpState = "RRQ" => n = 1
         /\ TftpState # "RRQ" => s = TftpServerPort
<1>1. Ours(s) /\ (TftpState = "RRQ" \/ s = TftpServerPort)
  BY Zenon DEF Receive, Ours
<1>2. CASE TftpState = "RRQ"
  <2>1. s # TftpServerPort /\ TftpBlkSize = BLK
    BY Zenon, <1>2, SidAssumption DEF BoundInv
  <2>2. sess[s].block = 0 \/ (sess[s].block = 1 /\ sess[s].size = BLK)
    BY Zenon, <1>1, <2>1 DEF BoundInv
  <2>3. n \in Nat \ {0} /\ n <= sess[s].block
    BY Zenon, BlockFacts
  <2>q. QED
    BY <1>1, <1>2, <2>1, <2>2, <2>3
<1>3. CASE TftpState # "RRQ"
  BY Zenon, <1>1, <1>3 DEF BoundInv
<1>q. QED
  BY Zenon, <1>2, <1>3

\* A block stored at its place in the file completes what is before it.
LEMMA StoreAt ==
  ASSUME TypeOK, NEW s \in Sid, NEW n \in Nat \ {0},
         (n - 1) * sess[s].size <= FILE, Holds(mem, (n - 1) * sess[s].size),
         NetBootFileXferSize <= FILE, store_block((n - 1) * sess[s].size, s, n)
  PROVE  /\ mem' \in [Cells -> Int]
         /\ NetBootFileXferSize' \in Nat /\ NetBootFileXferSize' <= FILE
         /\ NetBootFileXferSize <= NetBootFileXferSize'
         /\ BlockLen(s, n) < sess[s].size => NetBootFileXferSize' = FILE
         /\ \A x \in Int : Holds(mem, x) => Holds(mem', x)
         /\ Holds(mem', n * sess[s].size)
         /\ BlockLen(s, n) < sess[s].size => Holds(mem', FILE)
<1> DEFINE z == sess[s].size
           o == (n - 1) * z
           len == BlockLen(s, n)
<1>1. /\ z \in Nat \ {0} /\ o \in Nat /\ n * z \in Nat /\ o <= FILE
      /\ BlockOff(s, n) = o /\ len \in Nat /\ o + len <= FILE
      /\ len < z => o + len = FILE
      /\ len <= z
  BY Zenon, InFile
<1>2. store_block(o, s, n)
  BY Zenon
<1>3. FILE \in Nat /\ MemTop \in Nat /\ FILE <= MemTop
  BY Zenon, SizeAssumption, MemAssumption
<1>4. n * z = o + z
  BY Zenon, InFile
<1> HIDE DEF z, o, len
<1>5. mem' = [u \in Cells |-> IF u >= o /\ u < o + len THEN o + (u - o) + 1 ELSE mem[u]]
  BY Zenon, <1>1, <1>2 DEF store_block, len
<1>6. mem' \in [Cells -> Int]
  BY <1>1, <1>5 DEF TypeOK, Cells
<1>7. /\ NetBootFileXferSize' \in Nat /\ NetBootFileXferSize' <= FILE
      /\ NetBootFileXferSize <= NetBootFileXferSize'
      /\ len < z => NetBootFileXferSize' = FILE
  <2>1. NetBootFileXferSize \in Nat /\ NetBootFileXferSize <= FILE
    BY Zenon DEF TypeOK
  <2>2. NetBootFileXferSize' = IF NetBootFileXferSize < o + len THEN o + len
                               ELSE NetBootFileXferSize
    BY Zenon, <1>2 DEF store_block, len
  <2>q. QED
    BY <1>1, <1>3, <2>1, <2>2
<1>8. \A u \in 0 .. FILE - 1 : /\ u \in Cells
                               /\ mem[u] = u + 1 => mem'[u] = u + 1
                               /\ u >= o /\ u < o + len => mem'[u] = u + 1
  BY <1>1, <1>3, <1>5 DEF Cells
<1>9. \A x \in Int : Holds(mem, x) => Holds(mem', x)
  BY Zenon, <1>8 DEF Holds
<1>10. Holds(mem', o)
  BY <1>1, <1>9 DEF o, z
<1>11. Holds(mem', n * z)
  <2>1. SUFFICES ASSUME NEW u \in 0 .. FILE - 1, u < o + z PROVE mem'[u] = u + 1
    BY Zenon, <1>4 DEF Holds
  <2>2. CASE u < o
    BY Zenon, <1>10, <2>2 DEF Holds
  <2>3. CASE u >= o
    <3>1. u < o + len
      BY <1>1, <1>3, <2>1, <2>3
    <3>q. QED
      BY Zenon, <1>8, <2>3, <3>1
  <2>q. QED
    BY <1>1, <2>2, <2>3
<1>12. len < z => Holds(mem', FILE)
  <2>1. SUFFICES ASSUME len < z, NEW u \in 0 .. FILE - 1 PROVE mem'[u] = u + 1
    BY Zenon DEF Holds
  <2>2. CASE u < o
    BY Zenon, <1>10, <2>2 DEF Holds
  <2>3. CASE u >= o
    BY <1>1, <1>3, <1>8, <2>1, <2>3
  <2>q. QED
    BY <1>1, <2>2, <2>3
<1>q. QED
  BY Zenon, <1>6, <1>7, <1>9, <1>11, <1>12 DEF z, len

\* A new block goes to its place in the file and completes what is before it.
LEMMA StoreFacts ==
  ASSUME Setting, TypeOK, BoundInv, StoredInv, NEW s \in Sid, NEW n \in Blocks(s),
         OnDataNew(s, n)
  PROVE  /\ TftpBlockWrapOffset' = 0
         /\ mem' \in [Cells -> Int]
         /\ NetBootFileXferSize' \in Nat /\ NetBootFileXferSize' <= FILE
         /\ NetBootFileXferSize <= NetBootFileXferSize'
         /\ BlockLen(s, n) < sess[s].size => NetBootFileXferSize' = FILE
         /\ \A x \in Int : Holds(mem, x) => Holds(mem', x)
         /\ Holds(mem', n * sess[s].size)
         /\ BlockLen(s, n) < sess[s].size => Holds(mem', FILE)
<1> DEFINE z == sess[s].size
           o == (n - 1) * z
<1>1. Receive("DATA", s, n)
  BY Zenon DEF OnDataNew
<1>2. Ours(s) /\ TftpBlkSize = z
  BY Zenon, <1>1, SameSize
<1>3. /\ n \in Nat \ {0} /\ BlockNo(n) = n /\ z \in Nat \ {0}
      /\ o \in Nat /\ n * z \in Nat /\ o <= FILE
  BY Zenon, BlockFacts
<1>4. TftpBlockWrapOffset' = 0
  <2>1. ~FirstBlock => TftpState = "DATA"
    BY Zenon DEF TypeOK, FirstBlock
  <2>2. ~FirstBlock => TftpBlockWrapOffset = 0
    BY Zenon, <2>1 DEF BoundInv
  <2>3. BlockNo(n) # 0
    BY Zenon, <1>3
  <2>q. QED
    BY <2>2, <2>3 DEF OnDataNew, WrapOffset
<1>5. store_block(o, s, n)
  <2>1. (BlockNo(n) - 1) * TftpBlkSize + TftpBlockWrapOffset' = o
    BY <1>2, <1>3, <1>4
  <2>q. QED
    BY Zenon, <2>1 DEF OnDataNew
<1>6. Holds(mem, o)
  <2>1. Holds(mem, (sess[s].block - 1) * z)
    BY Zenon, <1>2 DEF StoredInv, Ours
  <2>2. (sess[s].block - 1) * z \in Int /\ o <= (sess[s].block - 1) * z
    <3>1. sess[s].block \in Nat
      BY Zenon DEF TypeOK
    <3>q. QED
      BY <3>1, <1>3, BlockFacts, TimesNext
  <2> HIDE DEF o, z
  <2>q. QED
    BY <1>3, <2>1, <2>2 DEF Holds
<1>q. QED
  BY Zenon, <1>3, <1>4, <1>5, <1>6, StoreAt DEF StoredInv

-----------------------------------------------------------------------------
\* What the network operators can add to a channel.
LEMMA Channels ==
  ASSUME NEW ch, NEW p
  PROVE  Put(ch, p) \subseteq ch \cup {p} /\ Take(ch, p) \subseteq ch
BY Zenon DEF Put, Take

LEMMA AckAdds ==
  ASSUME NEW state \in {"OACK", "DATA"}, NEW port, NEW server, NEW block,
         TftpSend(state, port, server, block)
  PROVE  /\ toServer' \subseteq toServer \cup {<<"ACK", server, block>>}
         /\ toServer' = toServer \/ up
         /\ \A m \in toServer' : m[1] = "RRQ" => m \in toServer
         /\ \A s, k : <<"ACK", s, k>> \in toServer'
                        => <<"ACK", s, k>> \in toServer \/ (s = server /\ k = block)
<1>1. toServer' \subseteq toServer \cup {<<"ACK", server, block>>}
  BY Zenon, Channels DEF TftpSend
<1>2. toServer' = toServer \/ up
  BY Zenon DEF TftpSend
<1>3. \A m \in toServer' : m[1] = "RRQ" => m \in toServer
  BY <1>1
<1>4. \A s, k : <<"ACK", s, k>> \in toServer'
                  => <<"ACK", s, k>> \in toServer \/ (s = server /\ k = block)
  BY Zenon, <1>1
<1>q. QED
  BY Zenon, <1>1, <1>2, <1>3, <1>4

LEMMA RequestAdds ==
  ASSUME NEW port, NEW server, NEW block, TftpSend("RRQ", port, server, block)
  PROVE  /\ toServer' \subseteq toServer \cup {<<"RRQ", port, 0>>}
         /\ \A m \in toServer' : m[1] = "RRQ" => m \in toServer \/ m[2] = port
         /\ \A s, k : <<"ACK", s, k>> \in toServer' => <<"ACK", s, k>> \in toServer
<1>1. toServer' \subseteq toServer \cup {<<"RRQ", port, 0>>}
  BY Zenon, Channels DEF TftpSend
<1>2. \A m \in toServer' : m[1] = "RRQ" => m \in toServer \/ m[2] = port
  BY <1>1
<1>3. \A s, k : <<"ACK", s, k>> \in toServer' => <<"ACK", s, k>> \in toServer
  BY Zenon, <1>1
<1>q. QED
  BY Zenon, <1>1, <1>2, <1>3

LEMMA DeliverAdds ==
  ASSUME NEW p, Deliver(p)
  PROVE  toClient' \subseteq toClient \cup {p}
BY Zenon, Channels DEF Deliver

\* With one interface NetStartAgain gives up or pauses.
LEMMA StartAgainFacts ==
  ASSUME Setting, TypeOK, PortInv, NEW t \in {"none", "tftp", "again"},
         t = "again" => handler = "ignore", t = "tftp" => handler = "tftp",
         NetStartAgain(t)
  PROVE  /\ NetState' \in {NetState, "FAIL"}
         /\ handler' \in {"tftp", "ignore"} /\ timer' \in {"none", "tftp", "again"}
         /\ up' \in BOOLEAN /\ ~(up' /\ handler' = "tftp")
         /\ NetTryCount' \in Nat \ {0} /\ TftpOurPort <= NetTryCount'
         /\ NetState' = "RESTART" \/ handler' = "ignore" => TftpOurPort < NetTryCount'
         /\ timer' = "again" => handler' = "ignore"
         /\ timer' = "tftp" => handler' = "tftp"
<1>1. NetTryCount \in Nat \ {0} /\ TftpOurPort \in Nat \ {0} /\ retrycnt \in Nat
  BY Zenon, RetryAssumption DEF TypeOK
<1>2. CASE NetTryCount >= retrycnt
  <2>1. NetState' = "FAIL" /\ up' = FALSE /\ timer' = t /\ UNCHANGED <<handler, NetTryCount>>
    <3>1. ~(NetTryCount < retrycnt)
      BY <1>1, <1>2
    <3>q. QED
      BY <3>1, Zenon DEF NetStartAgain
  <2>q. QED
    BY ZenonT(40), <2>1, <1>1 DEF TypeOK, PortInv
<1>3. CASE NetTryCount < retrycnt
  <2>1. /\ NetTryCount' = NetTryCount + 1 /\ up' = TRUE
        /\ handler' = "ignore" /\ timer' = "again" /\ UNCHANGED NetState
    <3>1. ~(NetTryCount >= retrycnt)
      BY <1>1, <1>3
    <3>2. FALSE \notin Wraps
      BY Zenon DEF Setting
    <3>q. QED
      BY <3>1, <3>2, Zenon DEF NetStartAgain
  <2>2. TftpOurPort <= NetTryCount
    BY Zenon DEF PortInv
  <2>q. QED
    BY <2>1, <2>2, <1>1
<1>q. QED
  BY <1>1, <1>2, <1>3

-----------------------------------------------------------------------------
LEMMA TypeInit == Init => TypeOK
<1> SUFFICES ASSUME Init PROVE TypeOK
  BY Zenon
<1>1. /\ BLK \in Nat /\ 0 \in 0 .. SEQ - 1
      /\ sess \in [Sid -> [port : Nat, size : {BLK, OPT}, block : Nat]]
      /\ mem \in [Cells -> Int]
      /\ toServer \subseteq ({"RRQ"} \X (Nat \ {0}) \X {0})
  BY SizeAssumption, SeqAssumption DEF Init, Free
<1>q. QED
  BY Zenon, <1>1 DEF Init, TypeOK

LEMMA InvInit == ASSUME Setting PROVE Init => IInv
<1> SUFFICES ASSUME Init PROVE IInv
  BY Zenon
<1>1. TypeOK
  BY Zenon, TypeInit
<1>2. \A s \in Sid : sess[s].port = 0 /\ sess[s].block = 0 /\ sess[s].size = BLK
  BY Zenon DEF Init, Free
<1>3. PortInv
  BY <1>2 DEF Init, PortInv
<1>4. BoundInv
  BY Zenon, <1>2 DEF Init, BoundInv, Ours
<1>5. StoredInv
  BY <1>2, SizeAssumption DEF Init, StoredInv, Ours
<1>6. AckedStored
  BY Zenon, <1>2 DEF Init, AckedStored
<1>7. Integrity
  BY Zenon DEF Init, Integrity
<1>q. QED
  BY Zenon, <1>1, <1>3, <1>4, <1>5, <1>6, <1>7 DEF IInv

-----------------------------------------------------------------------------
\* An options packet binds the client to its transfer.
LEMMA OackStep ==
  ASSUME Setting, IInv, NEW s \in Sid, OnOack(s)
  PROVE  IInv'
<1> USE DEF IInv
<1>1. /\ sess[s].port = TftpOurPort /\ (TftpState = "RRQ" \/ s = TftpServerPort)
      /\ handler = "tftp" /\ toClient' \subseteq toClient
  BY Zenon, Channels DEF OnOack, Receive
<1>2. /\ TftpState' = "OACK" /\ TftpServerPort' = s /\ TftpBlkSize' = sess[s].size
      /\ UNCHANGED <<NetState, handler, timer, up, NetTryCount>>
      /\ UNCHANGED <<loop, TftpOurPort, TftpBlock, TftpLastBlock, TftpBlockWrapOffset,
                     TftpTimeoutCount, mem, NetBootFileXferSize, sess, closed>>
  <2>1. sess[s].size = OPT \/ TftpBlkSize = sess[s].size
    <3>1. sess[s].size \in {BLK, OPT}
      BY Zenon DEF TypeOK
    <3>2. CASE TftpState = "RRQ"
      BY Zenon, <3>1, <3>2 DEF BoundInv
    <3>3. CASE TftpState # "RRQ"
      BY Zenon, <1>1, <3>3 DEF BoundInv
    <3>q. QED
      BY Zenon, <3>2, <3>3
  <2>2. TftpBlkSize' = IF sess[s].size = OPT THEN OPT ELSE TftpBlkSize
    BY Zenon DEF OnOack
  <2>q. QED
    BY Zenon, <2>1, <2>2 DEF OnOack, netVars, blockVars, fileVars, serverVars
<1>3. /\ toServer' \subseteq toServer \cup {<<"ACK", s, TftpBlock>>}
      /\ toServer' = toServer \/ up
      /\ \A m \in toServer' : m[1] = "RRQ" => m \in toServer
      /\ \A t, k : <<"ACK", t, k>> \in toServer'
                     => <<"ACK", t, k>> \in toServer \/ (t = s /\ k = TftpBlock)
  BY Zenon, AckAdds DEF OnOack
<1>4. up => Holds(mem, TftpBlock * sess[s].size)
  <2>1. CASE TftpState = "RRQ"
    <3>1. TftpBlock = 0 /\ sess[s].size \in Nat
      BY Zenon, <2>1, SizeAssumption DEF BoundInv, TypeOK
    <3>2. TftpBlock * sess[s].size = 0
      BY <3>1
    <3>q. QED
      BY <3>2 DEF Holds
  <2>2. CASE TftpState # "RRQ"
    BY Zenon, <1>1, <2>2 DEF BoundInv, StoredInv
  <2>q. QED
    BY Zenon, <2>1, <2>2
<1>6. TypeOK'
  BY SMTT(30), <1>1, <1>2, <1>3 DEF TypeOK
<1>7. PortInv'
  BY Zenon, <1>1, <1>2, <1>3 DEF TypeOK, PortInv
<1>8. BoundInv'
  <2>1. ASSUME NEW t \in Sid, sess[t].port = TftpOurPort, t # s
        PROVE  /\ \A k \in 0 .. SEQ - 1 : <<"ACK", t, k>> \notin toServer'
               /\ sess[t].block = 0 \/ (sess[t].block = 1 /\ sess[t].size = BLK)
    <3>1. t # TftpServerPort
      BY Zenon, <1>1, <2>1, SidAssumption DEF BoundInv
    <3>q. QED
      BY Zenon, <1>3, <2>1, <3>1 DEF BoundInv, Ours
  <2>q. QED
    BY Zenon, <1>1, <1>2, <2>1 DEF BoundInv, Ours
<1>9. StoredInv'
  BY Zenon, <1>1, <1>2, <1>4 DEF StoredInv, Ours
<1>10. AckedStored'
  BY Zenon, <1>1, <1>2, <1>3, <1>4 DEF AckedStored
<1>11. Integrity'
  BY Zenon, <1>2 DEF Integrity
<1>q. QED
  BY Zenon, <1>6, <1>7, <1>8, <1>9, <1>10, <1>11

\* A first block that is not block 1: the client will not answer any more.
LEMMA NotFirstStep ==
  ASSUME Setting, IInv, NEW s \in Sid, NEW n \in Blocks(s), OnDataNotFirst(s, n)
  PROVE  IInv'
<1> USE DEF IInv
<1>1. /\ sess[s].port = TftpOurPort /\ (TftpState = "RRQ" \/ s = TftpServerPort)
      /\ toClient' \subseteq toClient
  BY Zenon, Channels DEF OnDataNotFirst, Receive
<1>2. /\ TftpBlkSize = sess[s].size /\ s = TftpServerPort
      /\ n \in Nat /\ n < SEQ /\ BlockNo(n) = n
  <2>1. Receive("DATA", s, n) /\ BlockNo(n) # 1
    BY Zenon DEF OnDataNotFirst
  <2>q. QED
    BY Zenon, <2>1, SameSize, BlockFacts
<1>3. /\ TftpState' = "DATA" /\ TftpServerPort' = s
      /\ TftpBlock' = n /\ TftpLastBlock' = 0 /\ TftpBlockWrapOffset' = 0
      /\ UNCHANGED <<loop, TftpOurPort, TftpBlkSize, TftpTimeoutCount, mem,
                     NetBootFileXferSize, sess, closed, toServer>>
  BY Zenon, <1>2 DEF OnDataNotFirst, fileVars, serverVars
<1>4. /\ NetState' \in {NetState, "FAIL"}
      /\ handler' \in {"tftp", "ignore"} /\ timer' \in {"none", "tftp", "again"}
      /\ up' \in BOOLEAN /\ ~(up' /\ handler' = "tftp")
      /\ NetTryCount' \in Nat \ {0} /\ TftpOurPort <= NetTryCount'
      /\ NetState' = "RESTART" \/ handler' = "ignore" => TftpOurPort < NetTryCount'
      /\ timer' = "again" => handler' = "ignore"
      /\ timer' = "tftp" => handler' = "tftp"
  <2>1. NetStartAgain(timer) /\ timer \in {"none", "tftp", "again"}
    BY Zenon DEF OnDataNotFirst, TypeOK
  <2>2. (timer = "again" => handler = "ignore") /\ (timer = "tftp" => handler = "tftp")
    BY Zenon DEF PortInv
  <2>q. QED
    BY Zenon, <2>1, <2>2, StartAgainFacts
<1>5. TypeOK'
  <2>1. n \in 0 .. SEQ - 1 /\ 0 \in 0 .. SEQ - 1
    BY <1>2, SeqAssumption
  <2>2. NetState' \in {"CONTINUE", "RESTART", "SUCCESS", "FAIL"}
    BY Zenon, <1>4 DEF TypeOK
  <2>q. QED
    BY Zenon, <1>1, <1>3, <1>4, <2>1, <2>2 DEF TypeOK
<1>6. PortInv'
  BY Zenon, <1>3, <1>4 DEF PortInv
<1>7. BoundInv'
  BY Zenon, <1>1, <1>2, <1>3 DEF BoundInv, Ours
<1>8. StoredInv'
  <2>1. Holds(mem, 0 * TftpBlkSize)
    <3>1. 0 * TftpBlkSize = 0
      BY SMTT(30), SizeAssumption DEF TypeOK
    <3>q. QED
      BY <3>1 DEF Holds
  <2>q. QED
    BY Zenon, <1>3, <1>4, <2>1 DEF StoredInv, Ours
<1>9. AckedStored'
  BY Zenon, <1>3 DEF AckedStored
<1>10. Integrity'
  BY Zenon, <1>3, <1>4 DEF Integrity
<1>q. QED
  BY Zenon, <1>5, <1>6, <1>7, <1>8, <1>9, <1>10

\* A repeated block is in memory already.
LEMMA SameStep ==
  ASSUME Setting, IInv, NEW s \in Sid, NEW n \in Blocks(s), OnDataSame(s, n)
  PROVE  IInv'
<1> USE DEF IInv
<1>1. toClient' \subseteq toClient
  BY Zenon, Channels DEF OnDataSame, Receive
<1>2. n \in Nat \ {0} /\ n < SEQ /\ BlockNo(n) = n
  BY Zenon, BlockFacts
<1>3. TftpState = "DATA" /\ n = TftpLastBlock
  BY Zenon, <1>2 DEF OnDataSame, FirstBlock, TypeOK
<1>4. /\ TftpBlock' = n /\ TftpBlockWrapOffset' = TftpBlockWrapOffset
      /\ UNCHANGED <<NetState, handler, timer, up, NetTryCount>>
      /\ UNCHANGED <<loop, TftpState, TftpServerPort, TftpOurPort, TftpLastBlock, TftpBlkSize,
                     TftpTimeoutCount, mem, NetBootFileXferSize, sess, closed, toServer>>
  BY SMTT(30), <1>2, <1>3 DEF OnDataSame, WrapOffset, netVars, fileVars, serverVars, TypeOK
<1>5. TypeOK'
  <2>1. n \in 0 .. SEQ - 1
    BY SMTT(30), <1>2, SeqAssumption
  <2>q. QED
    BY <1>1, <1>4, <2>1 DEF TypeOK
<1>6. PortInv'
  BY Zenon, <1>4 DEF PortInv
<1>7. BoundInv'
  BY Zenon, <1>3, <1>4 DEF BoundInv, Ours
<1>8. StoredInv'
  BY Zenon, <1>3, <1>4 DEF StoredInv, Ours
<1>9. AckedStored'
  BY Zenon, <1>4 DEF AckedStored
<1>10. Integrity'
  BY Zenon, <1>4 DEF Integrity
<1>q. QED
  BY Zenon, <1>5, <1>6, <1>7, <1>8, <1>9, <1>10

-----------------------------------------------------------------------------
(* The 16 bit block counter may wrap.                                     *)

\* The setting in which the counter may wrap: a fresh port for every attempt,
\* and a network that loses packets and does not repeat them.
WrapSetting == ~PortReuse /\ Network = "once"

\* The client has stored c blocks of the transfer it is bound to: the server
\* has sent block c or c + 1 last, only block c + 1 is on its way, and an
\* acknowledgement that moves the server on is for a block that is stored.
InStep(c) ==
  LET b == sess[TftpServerPort].block
      z == sess[TftpServerPort].size
  IN  /\ b = c \/ b = c + 1
      /\ TftpBlock = BlockNo(c)
      /\ TftpState = "OACK" => c = 0
      /\ TftpState = "DATA" => /\ c # 0 /\ TftpLastBlock = TftpBlock
                               /\ TftpBlockWrapOffset = (c - TftpBlock) * z
      /\ \A n \in Nat : <<"DATA", TftpServerPort, n>> \in toClient => n = c + 1
      /\ <<"ACK", TftpServerPort, BlockNo(b)>> \in toServer => b = c
      /\ Holds(mem, c * z)

\* A request or an acknowledgement is alone on its way; what is on its way to
\* the client is from a transfer that exists.
SentInv ==
  /\ \A p, q \in toServer : p = q
  /\ \A s \in Sid, n \in Nat : <<"DATA", s, n>> \in toClient => sess[s].port # 0 /\ n <= sess[s].block
  /\ \A s \in Sid : <<"OACK", s, 0>> \in toClient => sess[s].port # 0
  /\ \A s \in Sid : <<"OACK", s, 0>> \in toClient /\ Ours(s)
                      => sess[s].block = 0 /\ s # TftpServerPort

\* The client is in step with the transfer it is bound to, and no other
\* transfer of its port has been answered.
StepInv ==
  /\ TftpState = "RRQ" => TftpServerPort = 0 /\ TftpBlkSize = BLK /\ TftpBlock = 0
  /\ TftpState # "RRQ" => /\ TftpServerPort \in Sid
                          /\ Ours(TftpServerPort)
                          /\ TftpBlkSize = sess[TftpServerPort].size
                          /\ \E c \in Nat : InStep(c)
  /\ \A s \in Sid : Ours(s) /\ s # TftpServerPort =>
       /\ \A k \in 0 .. SEQ - 1 : <<"ACK", s, k>> \notin toServer
       /\ sess[s].block = 0 \/ (sess[s].block = 1 /\ sess[s].size = BLK)

\* The blocks the server sends, and the size the client counts, are within the file.
FileInv ==
  /\ \A s \in Sid : (sess[s].block - 1) * sess[s].size <= FILE
  /\ NetBootFileXferSize <= FILE

\* The inductive invariant of a transfer whose block counter may wrap.
WrapInv == TypeOK /\ PortInv /\ SentInv /\ StepInv /\ FileInv /\ Integrity

-----------------------------------------------------------------------------
\* A remainder is what the name says.
LEMMA Remainder ==
  ASSUME NEW p \in Nat \ {0}, NEW q \in Int, NEW r \in 0 .. p - 1
  PROVE  (p * q + r) % p = r
<1> DEFINE u == (p * q + r) \div p
           w == (p * q + r) % p
<1>1. u \in Int /\ w \in 0 .. p - 1 /\ p * q + r = p * u + w /\ p * q \in Int /\ p * u \in Int
  OBVIOUS
<1> HIDE DEF u, w
<1>2. ASSUME u >= q + 1 PROVE FALSE
  <2>1. p * u >= p * (q + 1)
    BY <1>1, <1>2
  <2>2. p * (q + 1) = p * q + p
    OBVIOUS
  <2>q. QED
    BY <1>1, <2>1, <2>2
<1>3. ASSUME q >= u + 1 PROVE FALSE
  <2>1. p * q >= p * (u + 1)
    BY <1>1, <1>3
  <2>2. p * (u + 1) = p * u + p
    BY <1>1
  <2>q. QED
    BY <1>1, <2>1, <2>2
<1>4. u = q
  BY <1>1, <1>2, <1>3
<1>q. QED
  BY <1>1, <1>4 DEF w

\* The 16 bit number of the block after block c.
LEMMA NextNumber ==
  ASSUME NEW c \in Nat
  PROVE  /\ BlockNo(c) \in 0 .. SEQ - 1 /\ BlockNo(c) <= c
         /\ BlockNo(c + 1) # BlockNo(c)
         /\ BlockNo(c + 1) = IF BlockNo(c) = SEQ - 1 THEN 0 ELSE BlockNo(c) + 1
<1>1. SEQ \in Nat /\ SEQ > 1
  BY SeqAssumption
<1> DEFINE q == c \div SEQ
           r == c % SEQ
<1>2. c = SEQ * q + r /\ q \in Nat /\ r \in 0 .. SEQ - 1
  BY <1>1
<1>3. SEQ * q \in Nat
  BY <1>1, <1>2
<1>4. r <= c
  <2> HIDE DEF q, r
  <2>q. QED
    BY <1>2, <1>3
<1>5. (c + 1) % SEQ = IF r = SEQ - 1 THEN 0 ELSE r + 1
  <2> HIDE DEF q, r
  <2>1. CASE r = SEQ - 1
    <3>1. c + 1 = SEQ * (q + 1) + 0 /\ q + 1 \in Int /\ 0 \in 0 .. SEQ - 1
      BY <1>1, <1>2, <2>1
    <3>2. (SEQ * (q + 1) + 0) % SEQ = 0
      BY <1>1, <3>1, Remainder
    <3>q. QED
      BY Zenon, <2>1, <3>1, <3>2
  <2>2. CASE r # SEQ - 1
    <3>1. c + 1 = SEQ * q + (r + 1) /\ r + 1 \in 0 .. SEQ - 1
      BY <1>1, <1>2, <1>3, <2>2
    <3>2. (SEQ * q + (r + 1)) % SEQ = r + 1
      BY <1>1, <1>2, <3>1, Remainder
    <3>q. QED
      BY Zenon, <2>2, <3>1, <3>2
  <2>q. QED
    BY Zenon, <2>1, <2>2
<1>q. QED
  <2> HIDE DEF q
  <2>1. BlockNo(c) = r /\ BlockNo(c + 1) = (c + 1) % SEQ
    BY Zenon DEF BlockNo
  <2> HIDE DEF r
  <2>q. QED
    BY <1>1, <1>2, <1>4, <1>5, <2>1

\* The wrap offset puts the block after block c at its place in the file.
LEMMA NextOffset ==
  ASSUME NEW c \in Nat, NEW z \in Nat
  PROVE  LET t == BlockNo(c + 1)
         IN  /\ (c - BlockNo(c)) * z + (IF t = 0 THEN z * SEQ ELSE 0) = ((c + 1) - t) * z
             /\ ((c + 1) - t) * z \in Nat
             /\ (t - 1) * z + ((c + 1) - t) * z = c * z
<1> DEFINE r == BlockNo(c)
           t == BlockNo(c + 1)
<1>1. /\ r \in 0 .. SEQ - 1 /\ r <= c /\ SEQ \in Nat
      /\ t = IF r = SEQ - 1 THEN 0 ELSE r + 1
  BY Zenon, NextNumber, SeqAssumption
<1> HIDE DEF r, t
<1>2. t \in Nat /\ t <= c + 1
  BY <1>1
<1>3. (c - r) * z + (IF t = 0 THEN z * SEQ ELSE 0) = ((c + 1) - t) * z
  <2>1. CASE t = 0
    <3>1. r = SEQ - 1
      BY <1>1, <2>1
    <3>q. QED
      BY <1>1, <2>1, <3>1
  <2>2. CASE t # 0
    <3>1. r = t - 1
      BY <1>1, <2>2
    <3>2. c - r = (c + 1) - t
      BY <1>1, <1>2, <3>1
    <3>3. (c - r) * z \in Int
      BY <1>1
    <3>q. QED
      BY <2>2, <3>2, <3>3
  <2>q. QED
    BY Zenon, <2>1, <2>2
<1>4. ((c + 1) - t) * z \in Nat
  <2>1. (c + 1) - t \in Nat
    BY <1>2
  <2>q. QED
    BY <2>1
<1>5. (t - 1) * z + ((c + 1) - t) * z = c * z
  BY <1>2
<1>q. QED
  BY Zenon, <1>3, <1>4, <1>5 DEF r, t

-----------------------------------------------------------------------------
\* In a network that does not repeat packets one is on its way at most.
LEMMA OneOnItsWay ==
  ASSUME WrapSetting, SentInv
  PROVE  /\ \A p : \A q, r \in Take(toServer, p) : q = r
         /\ \A p : p \in toServer => Take(toServer, p) = {}
         /\ \A state, port, server, block :
              TftpSend(state, port, server, block) => \A q, r \in toServer' : q = r
<1>1. \A q, r \in toServer : q = r
  BY Zenon DEF SentInv
<1>2. \A p : Put(toServer, p) = {p} /\ Take(toServer, p) = toServer \ {p}
  BY Zenon DEF WrapSetting, Put, Take
<1>q. QED
  BY <1>1, <1>2 DEF TftpSend

\* Giving up and starting again leave the transfer alone.
LEMMA AnyStartAgain ==
  ASSUME TypeOK, PortInv, NEW t \in {"none", "tftp", "again"},
         t = "again" => handler = "ignore", t = "tftp" => handler = "tftp",
         NetStartAgain(t)
  PROVE  /\ NetState' \in {NetState, "FAIL", "RESTART"}
         /\ handler' \in {"tftp", "ignore"} /\ timer' \in {"none", "tftp", "again"}
         /\ up' \in BOOLEAN
         /\ NetTryCount' \in Nat \ {0} /\ TftpOurPort <= NetTryCount'
         /\ NetState' = "RESTART" \/ handler' = "ignore" => TftpOurPort < NetTryCount'
         /\ timer' = "again" => handler' = "ignore"
         /\ timer' = "tftp" => handler' = "tftp"
<1>1. NetTryCount \in Nat \ {0} /\ TftpOurPort \in Nat \ {0} /\ retrycnt \in Nat
  BY Zenon, RetryAssumption DEF TypeOK
<1>2. CASE NetTryCount >= retrycnt
  <2>1. NetState' = "FAIL" /\ up' = FALSE /\ timer' = t /\ UNCHANGED <<handler, NetTryCount>>
    <3>1. ~(NetTryCount < retrycnt)
      BY <1>1, <1>2
    <3>q. QED
      BY <3>1, Zenon DEF NetStartAgain
  <2>q. QED
    BY ZenonT(40), <2>1, <1>1 DEF TypeOK, PortInv
<1>3. CASE NetTryCount < retrycnt
  <2>1. /\ NetTryCount' = NetTryCount + 1 /\ up' = TRUE
        /\ \/ handler' = "ignore" /\ timer' = "again" /\ NetState' = NetState
           \/ NetState' = "RESTART" /\ timer' = t /\ handler' = handler
    <3>1. ~(NetTryCount >= retrycnt)
      BY <1>1, <1>3
    <3>q. QED
      BY <3>1, Zenon DEF NetStartAgain
  <2>2. TftpOurPort <= NetTryCount /\ handler \in {"tftp", "ignore"}
    BY Zenon DEF PortInv, TypeOK
  <2>3. TftpOurPort < NetTryCount'
    BY <1>1, <2>1, <2>2
  <2>4. NetTryCount' \in Nat \ {0} /\ TftpOurPort <= NetTryCount'
    BY <1>1, <2>1, <2>2
  <2>q. QED
    BY <2>1, <2>2, <2>3, <2>4, Zenon
<1>q. QED
  BY <1>1, <1>2, <1>3

\* The client stays in step while the transfer rests and packets only vanish.
LEMMA StepKept ==
  ASSUME StepInv,
         UNCHANGED <<TftpState, TftpServerPort, TftpOurPort, TftpBlock, TftpLastBlock,
                     TftpBlockWrapOffset, TftpBlkSize, mem, sess>>,
         \A s, n : <<"DATA", s, n>> \in toClient' => <<"DATA", s, n>> \in toClient,
         \A s, k : <<"ACK", s, k>> \in toServer' => <<"ACK", s, k>> \in toServer
  PROVE  StepInv'
<1>1. ASSUME NEW c \in Nat, InStep(c) PROVE InStep(c)'
  BY <1>1, Zenon DEF InStep, BlockNo, Holds
<1>2. /\ TftpState = "RRQ" => TftpServerPort = 0 /\ TftpBlkSize = BLK /\ TftpBlock = 0
      /\ TftpState # "RRQ" => /\ TftpServerPort \in Sid
                              /\ Ours(TftpServerPort)
                              /\ TftpBlkSize = sess[TftpServerPort].size
                              /\ \E c \in Nat : InStep(c)
  BY Zenon DEF StepInv
<1>3. (\E c \in Nat : InStep(c)) => (\E c \in Nat : InStep(c)')
  BY Zenon, <1>1
<1>4. \A s \in Sid : Ours(s)' /\ s # TftpServerPort =>
        /\ \A k \in 0 .. SEQ - 1 : <<"ACK", s, k>> \notin toServer'
        /\ sess[s].block = 0 \/ (sess[s].block = 1 /\ sess[s].size = BLK)
  BY Zenon DEF StepInv, Ours
<1>q. QED
  BY Zenon, <1>2, <1>3, <1>4 DEF StepInv, Ours

\* The same for the packets.
LEMMA SentKept ==
  ASSUME SentInv, UNCHANGED <<TftpServerPort, TftpOurPort, sess>>,
         \A s, n : <<"DATA", s, n>> \in toClient' => <<"DATA", s, n>> \in toClient,
         \A s : <<"OACK", s, 0>> \in toClient' => <<"OACK", s, 0>> \in toClient,
         \A p, q \in toServer' : p = q
  PROVE  SentInv'
BY Zenon DEF SentInv, Ours

-----------------------------------------------------------------------------
\* A data packet the client takes is the block after the c it has stored.
LEMMA Expected ==
  ASSUME WrapSetting, WrapInv, NEW s \in Sid, NEW n \in Blocks(s), Receive("DATA", s, n)
  PROVE  \E c \in Nat :
           /\ n = c + 1 /\ sess[s].block = n /\ TftpBlkSize = sess[s].size
           /\ Holds(mem, c * sess[s].size)
           /\ FirstBlock => c = 0
           /\ ~FirstBlock => /\ TftpLastBlock = BlockNo(c)
                             /\ TftpBlockWrapOffset = (c - BlockNo(c)) * sess[s].size
<1> USE DEF WrapInv
<1>1. /\ <<"DATA", s, n>> \in toClient /\ Ours(s)
      /\ TftpState = "RRQ" \/ s = TftpServerPort
  BY Zenon DEF Receive, Ours
<1>2. sess[s].block \in Nat /\ n \in Nat \ {0} /\ n <= sess[s].block /\ sess[s].size \in Nat
  BY SizeAssumption DEF TypeOK, Blocks
<1>3. CASE TftpState = "RRQ"
  <2>1. s # TftpServerPort /\ TftpBlkSize = BLK
    BY Zenon, <1>3, SidAssumption DEF StepInv
  <2>2. sess[s].block = 0 \/ (sess[s].block = 1 /\ sess[s].size = BLK)
    BY Zenon, <1>1, <2>1 DEF StepInv
  <2>3. n = 0 + 1 /\ sess[s].block = n /\ sess[s].size = BLK
    BY <1>2, <2>2
  <2>4. 0 * sess[s].size = 0
    BY <1>2
  <2>5. Holds(mem, 0 * sess[s].size)
    BY <2>4 DEF Holds
  <2>6. FirstBlock
    BY Zenon, <1>3 DEF FirstBlock
  <2>q. QED
    BY Zenon, <2>1, <2>3, <2>5, <2>6
<1>4. CASE TftpState # "RRQ"
  <2>1. s = TftpServerPort /\ TftpBlkSize = sess[s].size
    BY Zenon, <1>1, <1>4 DEF StepInv
  <2>2. PICK c \in Nat : InStep(c)
    BY Zenon, <1>4 DEF StepInv
  <2>3. /\ sess[s].block = c \/ sess[s].block = c + 1
        /\ n = c + 1 /\ Holds(mem, c * sess[s].size)
        /\ TftpState = "OACK" => c = 0
        /\ TftpState = "DATA" => /\ TftpLastBlock = BlockNo(c)
                                 /\ TftpBlockWrapOffset = (c - BlockNo(c)) * sess[s].size
    BY Zenon, <1>1, <1>2, <2>1, <2>2 DEF InStep
  <2>4. sess[s].block = n
    BY <1>2, <2>3
  <2>5. TftpState \in {"OACK", "DATA"}
    BY Zenon, <1>4 DEF TypeOK
  <2>6. (FirstBlock => TftpState = "OACK") /\ (~FirstBlock => TftpState = "DATA")
    BY Zenon, <2>5 DEF FirstBlock
  <2>q. QED
    BY Zenon, <2>1, <2>3, <2>4, <2>6
<1>q. QED
  BY Zenon, <1>3, <1>4

\* The first block is block 1, and no block comes twice.
LEMMA NeverOther ==
  ASSUME WrapSetting, WrapInv, NEW s \in Sid, NEW n \in Blocks(s)
  PROVE  ~OnDataNotFirst(s, n) /\ ~OnDataSame(s, n)
<1>1. SUFFICES ASSUME OnDataNotFirst(s, n) \/ OnDataSame(s, n) PROVE FALSE
  BY Zenon
<1>2. Receive("DATA", s, n)
  BY Zenon, <1>1 DEF OnDataNotFirst, OnDataSame
<1>3. PICK c \in Nat : /\ n = c + 1
                       /\ FirstBlock => c = 0
                       /\ ~FirstBlock => TftpLastBlock = BlockNo(c)
  BY Zenon, <1>2, Expected
<1>4. BlockNo(1) = 1
  BY SeqAssumption DEF BlockNo
<1>5. BlockNo(c + 1) # BlockNo(c)
  BY Zenon, NextNumber
<1>q. QED
  BY <1>1, <1>3, <1>4, <1>5 DEF OnDataNotFirst, OnDataSame

\* A new block goes to its place, on either side of a wrap of the counter.
LEMMA WrapStore ==
  ASSUME WrapSetting, WrapInv, NEW s \in Sid, NEW n \in Blocks(s), OnDataNew(s, n)
  PROVE  /\ n \in Nat \ {0} /\ sess[s].block = n /\ TftpBlkSize = sess[s].size
         /\ (n - 1) * sess[s].size <= FILE
         /\ TftpBlockWrapOffset' = (n - BlockNo(n)) * sess[s].size
         /\ TftpBlockWrapOffset' \in Nat
         /\ BlockNo(n) \in 0 .. SEQ - 1
         /\ Holds(mem, (n - 1) * sess[s].size)
         /\ store_block((n - 1) * sess[s].size, s, n)
<1> DEFINE z == sess[s].size
           w == TftpBlockWrapOffset'
<1>1. PICK c \in Nat :
        /\ n = c + 1 /\ sess[s].block = n /\ TftpBlkSize = z
        /\ Holds(mem, c * z)
        /\ FirstBlock => c = 0
        /\ ~FirstBlock => TftpBlockWrapOffset = (c - BlockNo(c)) * z
  BY Zenon, Expected DEF OnDataNew
<1>2. z \in Nat /\ n - 1 = c
  BY <1>1, SizeAssumption DEF TypeOK, WrapInv
<1>3. (n - 1) * z <= FILE
  BY Zenon, <1>1 DEF WrapInv, FileInv
<1>4. w = IF FirstBlock THEN 0 ELSE WrapOffset(n)
  BY Zenon DEF OnDataNew
<1>5. w = (n - BlockNo(n)) * z /\ w \in Nat /\ (BlockNo(n) - 1) * z + w = c * z
  <2>1. CASE FirstBlock
    <3>1. n = 1 /\ BlockNo(1) = 1 /\ w = 0 /\ c = 0
      BY <1>1, <1>4, <2>1, SeqAssumption DEF BlockNo
    <3>q. QED
      BY <1>2, <3>1
  <2>2. CASE ~FirstBlock
    <3>1. w = (c - BlockNo(c)) * z + (IF BlockNo(c + 1) = 0 THEN z * SEQ ELSE 0)
      BY Zenon, <1>1, <1>4, <2>2 DEF WrapOffset
    <3>2. /\ w = ((c + 1) - BlockNo(c + 1)) * z
          /\ ((c + 1) - BlockNo(c + 1)) * z \in Nat
          /\ (BlockNo(c + 1) - 1) * z + ((c + 1) - BlockNo(c + 1)) * z = c * z
      BY Zenon, <1>2, <3>1, NextOffset
    <3>q. QED
      BY <1>1, <3>2, Zenon
  <2>q. QED
    BY Zenon, <2>1, <2>2
<1>6. BlockNo(n) \in 0 .. SEQ - 1
  BY <1>1, NextNumber, SeqAssumption
<1>7. store_block(c * z, s, n)
  <2>1. store_block((BlockNo(n) - 1) * TftpBlkSize + w, s, n)
    BY Zenon DEF OnDataNew
  <2>q. QED
    BY Zenon, <1>1, <1>5, <2>1
<1>8. n \in Nat \ {0}
  BY <1>1
<1>9. Holds(mem, (n - 1) * z) /\ store_block((n - 1) * z, s, n)
  BY <1>1, <1>2, <1>7, Zenon
<1>q. QED
  BY <1>1, <1>3, <1>5, <1>6, <1>8, <1>9, Zenon
=============================================================================
