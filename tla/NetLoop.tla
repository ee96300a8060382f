------------------------------ MODULE NetLoop ------------------------------
(***************************************************************************)
(* NetLoop (net/net.c) over several Ethernet devices (net/eth.c): which    *)
(* device is tried when, which is left running, which packet handler and   *)
(* which time-out are installed, and when the command gives up.            *)
(*                                                                         *)
(* A behaviour is a sequence of network commands.  What the protocols do   *)
(* with their packets is left out, except for its effect on NetLoop: the   *)
(* transfer goes on, succeeds, fails, or calls NetStartAgain (module Tftp  *)
(* has the rest).  Flags of the code are 0 or 1, as there.                 *)
(***************************************************************************)
EXTENDS Integers, FiniteSetsExt

CONSTANTS
  NDev,              \* registered devices, a ring
  ethrotate,         \* 1, or 0 when the variable is "no"
  retrycnt,          \* netretry: 0 for "no", 1 for "once", or a number
  Protocols,         \* commands that are used: TFTP, PING, BOOTP, RARP
  InitFails,         \* devices whose init function may fail
  NoMac,             \* devices that come up without an Ethernet address
  TIMEOUT_COUNT,     \* time-outs before a protocol starts again
  ARP_TIMEOUT_COUNT, \* the same for ARP
  SlowTimer,         \* the time-out of TFTP (tftptimeout) is ten seconds or more
  RxBurst,           \* eth_rx may deliver several packets in one call
  Errors,            \* the TFTP server may send errors, or a wrong first block
  MaxCommands        \* bound: commands in a behaviour

Devs == 0 .. NDev - 1

ASSUME DevAssumption == NDev \in Nat \ {0} /\ InitFails \subseteq Devs /\ NoMac \subseteq Devs
ASSUME CountAssumption == retrycnt \in Nat /\ TIMEOUT_COUNT \in Nat /\ MaxCommands \in Nat
ASSUME ArpAssumption == ARP_TIMEOUT_COUNT \in Nat \ {0, 1}
ASSUME ProtocolAssumption == Protocols \subseteq {"TFTP", "PING", "BOOTP", "RARP"}
ASSUME FlagAssumption == ethrotate \in 0 .. 1 /\ SlowTimer \in 0 .. 1 /\ RxBurst \in 0 .. 1
                           /\ Errors \in 0 .. 1

VARIABLES
  loop,               \* "cmd" outside of NetLoop, "restart", "rx", "burst", "timer", "state"
  protocol,           \* the command that runs
  NetState,
  packetHandler,      \* a protocol, "ignore" (startAgainHandler) or "none"
  timeHandler,        \* a protocol, "again" (startAgainTimeout) or "none"
  tries,              \* BootpTry, RarpTry or TftpTimeoutCount
  NetArpWaitPacketIP, \* 1 while a packet waits for an Ethernet address
  NetArpWaitTry,
  NetTryCount, NetRestarted, NetDevExists, NetRestartWrap,
  eth_current,        \* the device in use
  first_failed,       \* static of eth_try_another; -1 is NULL
  active,             \* devices in ETH_STATE_ACTIVE
  tried,              \* devices the command has tried
  round,              \* devices it has tried since its last pause
  gaveup,             \* the command has run out of retries
  skipped,            \* 1: a second restart in one round, or one in the pause, has skipped a device
  initFailed,         \* 1: some init function has failed, in this command or before
  commands            \* commands so far

loopVars == <<loop, protocol, commands>>
protoVars == <<packetHandler, timeHandler, tries>>
arpVars == <<NetArpWaitPacketIP, NetArpWaitTry>>
againVars == <<NetTryCount, NetRestarted, NetDevExists, NetRestartWrap>>
devVars == <<eth_current, first_failed, active>>
history == <<tried, round, gaveup, skipped, initFailed>>
vars == <<loopVars, NetState, protoVars, arpVars, againVars, devVars, history>>

TypeOK ==
  /\ loop \in {"cmd", "restart", "rx", "burst", "timer", "state"}
  /\ protocol \in Protocols \cup {"none"}
  /\ NetState \in {"CONTINUE", "RESTART", "SUCCESS", "FAIL"}
  /\ packetHandler \in {"TFTP", "PING", "BOOTP", "RARP", "ignore", "none"}
  /\ timeHandler \in {"TFTP", "PING", "BOOTP", "RARP", "again", "none"}
  /\ tries \in Nat /\ NetTryCount \in Nat
  /\ NetArpWaitPacketIP \in 0 .. 1 /\ NetArpWaitTry \in 0 .. ARP_TIMEOUT_COUNT - 1
  /\ NetRestarted \in 0 .. 1 /\ NetDevExists \in 0 .. 1 /\ NetRestartWrap \in 0 .. 1
  /\ eth_current \in Devs /\ first_failed \in Devs \cup {-1} /\ active \subseteq Devs
  /\ tried \subseteq Devs /\ round \subseteq Devs /\ gaveup \in 0 .. 1
  /\ skipped \in 0 .. 1 /\ initFailed \in 0 .. 1
  /\ commands \in Nat

Init ==
  /\ loop = "cmd" /\ protocol = "none" /\ commands = 0 /\ NetState = "CONTINUE"
  /\ packetHandler = "none" /\ timeHandler = "none" /\ tries = 0
  /\ NetArpWaitPacketIP = 0 /\ NetArpWaitTry = 0
  /\ NetTryCount = 0 /\ NetRestarted = 0 /\ NetDevExists = 0 /\ NetRestartWrap = 0
  /\ eth_current = 0 /\ first_failed = -1 /\ active = {}
  /\ tried = {} /\ round = {} /\ gaveup = 0 /\ skipped = 0 /\ initFailed = 0

-----------------------------------------------------------------------------
(* net/eth.c *)

\* Mutant: the device registered last is not linked into the ring.
FwdWithoutLast(d, i) == IF d + i >= NDev - 1 THEN 0 ELSE d + i

\* The device i places after d in the ring.
Fwd(d, i) == IF d + i >= NDev THEN d + i - NDev ELSE d + i

\* How often eth_init calls eth_try_another(0) when it starts at c and the init
\* function of the devices in fails fails; without rotation it tries only c.
Steps(c, fails) ==
  LET reach == IF ethrotate = 1 THEN NDev ELSE 0
      good  == {i \in 0 .. reach : Fwd(c, i) \notin fails}
  IN IF good = {} THEN reach ELSE Min(good)
Passed(c, fails) == {Fwd(c, i) : i \in 1 .. Steps(c, fails)}

\* eth_init with eth_current = c: the first device that comes up is active.
\* It meets first_failed again if that is among the devices it moved on to.
EthInit(c, others, fails) ==
  /\ eth_current' = Fwd(c, Steps(c, fails))
  /\ active' = others \cup ({eth_current'} \ fails)
InitWrap(c, ff, fails) == ff \in Passed(c, fails)
Failed(c, fails) == ({c} \cup Passed(c, fails)) \cap fails

Halted == active \ {eth_current}

-----------------------------------------------------------------------------
(* NetStartAgain, with the time-out and the state when it is called. *)

GiveUp(t) ==
  /\ NetTryCount >= retrycnt
  /\ NetState' = "FAIL" /\ active' = Halted /\ gaveup' = 1 /\ timeHandler' = t
  /\ UNCHANGED <<packetHandler, againVars, eth_current, first_failed, tried, round, skipped, initFailed>>

\* The device in use was selected and never started: the restart is the second
\* one of its round, or it comes in the pause.
Skips(state) == state # "CONTINUE" \/ (timeHandler = "again" /\ loop # "restart")

\* Mutant: first_failed is noted after eth_current has moved on.
TryAnotherLateMark(t, state) ==
  /\ NetTryCount < retrycnt
  /\ NetTryCount' = NetTryCount + 1
  /\ first_failed' = IF ethrotate = 1 /\ NetRestarted = 0 THEN Fwd(eth_current, 1) ELSE first_failed
  /\ \E fails \in SUBSET InitFails :
       LET c == IF ethrotate = 1 THEN Fwd(eth_current, 1) ELSE eth_current
           wrap == \/ NetRestartWrap = 1
                   \/ ethrotate = 1 /\ c = first_failed'
                   \/ InitWrap(c, first_failed', fails)
       IN /\ EthInit(c, Halted, fails)
          /\ NetRestartWrap' = 0
          /\ \/ ~wrap /\ NetState' = "RESTART" /\ timeHandler' = t /\ UNCHANGED packetHandler
             \/ wrap /\ NetDevExists = 1
                /\ timeHandler' = "again" /\ packetHandler' = "ignore" /\ NetState' = state
             \/ wrap /\ NetDevExists = 0
                /\ NetState' = "FAIL" /\ timeHandler' = t /\ UNCHANGED packetHandler
          /\ tried' = tried \cup Failed(c, fails)
          /\ round' = round \cup Failed(c, fails)
          /\ initFailed' = IF Failed(c, fails) = {} THEN initFailed ELSE 1
  /\ skipped' = IF Skips(state) THEN 1 ELSE skipped
  /\ UNCHANGED <<NetRestarted, NetDevExists, gaveup>>

TryAnother(t, state) ==
  /\ NetTryCount < retrycnt
  /\ NetTryCount' = NetTryCount + 1
  /\ first_failed' = IF ethrotate = 1 /\ NetRestarted = 0 THEN eth_current ELSE first_failed
  /\ \E fails \in SUBSET InitFails :
       LET c == IF ethrotate = 1 THEN Fwd(eth_current, 1) ELSE eth_current
           wrap == \/ NetRestartWrap = 1
                   \/ ethrotate = 1 /\ c = first_failed'
                   \/ InitWrap(c, first_failed', fails)
       IN /\ EthInit(c, Halted, fails)
          /\ NetRestartWrap' = 0
          /\ \/ ~wrap /\ NetState' = "RESTART" /\ timeHandler' = t /\ UNCHANGED packetHandler
             \/ wrap /\ NetDevExists = 1
                /\ timeHandler' = "again" /\ packetHandler' = "ignore" /\ NetState' = state
             \/ wrap /\ NetDevExists = 0
                /\ NetState' = "FAIL" /\ timeHandler' = t /\ UNCHANGED packetHandler
          /\ tried' = tried \cup Failed(c, fails)
          /\ round' = round \cup Failed(c, fails)
          /\ initFailed' = IF Failed(c, fails) = {} THEN initFailed ELSE 1
  /\ skipped' = IF Skips(state) THEN 1 ELSE skipped
  /\ UNCHANGED <<NetRestarted, NetDevExists, gaveup>>

NetStartAgain(t, state) == GiveUp(t) \/ TryAnother(t, state)

-----------------------------------------------------------------------------
(* The start of NetLoop and its label restart. *)

\* Mutant: the device in use is not halted before ethact selects another.
NetLoopStartNoHalt(p, d) ==
  /\ loop = "cmd" /\ commands < MaxCommands
  /\ protocol' = p /\ commands' = commands + 1
  /\ NetRestarted' = 0 /\ NetDevExists' = 0 /\ NetTryCount' = 1
  /\ NetArpWaitPacketIP' = 0
  /\ \E fails \in SUBSET InitFails :
       /\ EthInit(d, active, fails)
       /\ NetRestartWrap' = IF InitWrap(d, first_failed, fails) THEN 1 ELSE NetRestartWrap
       /\ loop' = IF eth_current' \in fails THEN "cmd" ELSE "restart"
       /\ tried' = Failed(d, fails) /\ round' = Failed(d, fails)
       /\ initFailed' = IF Failed(d, fails) = {} THEN initFailed ELSE 1
  /\ gaveup' = 0 /\ skipped' = 0
  /\ UNCHANGED <<NetState, protoVars, NetArpWaitTry, first_failed>>

\* A command: halt the device, take the one ethact names, and initialise.
NetLoopStart(p, d) ==
  /\ loop = "cmd" /\ commands < MaxCommands
  /\ protocol' = p /\ commands' = commands + 1
  /\ NetRestarted' = 0 /\ NetDevExists' = 0 /\ NetTryCount' = 1
  /\ NetArpWaitPacketIP' = 0
  /\ \E fails \in SUBSET InitFails :
       /\ EthInit(d, Halted, fails)
       /\ NetRestartWrap' = IF InitWrap(d, first_failed, fails) THEN 1 ELSE NetRestartWrap
       /\ loop' = IF eth_current' \in fails THEN "cmd" ELSE "restart"
       /\ tried' = Failed(d, fails) /\ round' = Failed(d, fails)
       /\ initFailed' = IF Failed(d, fails) = {} THEN initFailed ELSE 1
  /\ gaveup' = 0 /\ skipped' = 0
  /\ UNCHANGED <<NetState, protoVars, NetArpWaitTry, first_failed>>

\* net_check_prereq finds an IP address missing: at the start of the command,
\* or at a restart, where NetInitLoop reads the environment again because
\* eth_try_another has set ethact.
NotConfigured ==
  /\ loop = "restart" /\ loop' = "cmd"
  /\ protocol \in {"TFTP", "PING"}
  /\ NetState' = "CONTINUE" /\ active' = Halted
  /\ UNCHANGED <<protocol, commands, protoVars, arpVars, againVars, eth_current, first_failed, history>>

\* net_check_prereq finds that the device has no Ethernet address.
DeviceNotConfigured ==
  /\ loop = "restart" /\ loop' = "rx"
  /\ eth_current \in NoMac
  /\ NetStartAgain(timeHandler, "CONTINUE")
  /\ UNCHANGED <<protocol, commands, tries, arpVars>>

\* TftpStart and PingStart ask for the Ethernet address of the other side
\* first, BootpRequest and RarpRequest broadcast.
StartProtocol(p, count) ==
  /\ packetHandler' = p /\ timeHandler' = p /\ tries' = count
  /\ NetArpWaitPacketIP' = IF p \in {"TFTP", "PING"} THEN 1 ELSE NetArpWaitPacketIP
  /\ NetArpWaitTry' = IF p \in {"TFTP", "PING"} THEN 1 ELSE NetArpWaitTry

Start ==
  /\ loop = "restart" /\ loop' = "rx"
  /\ eth_current \notin NoMac
  /\ NetState' = "CONTINUE" /\ NetDevExists' = 1
  /\ StartProtocol(protocol, IF protocol \in {"BOOTP", "RARP"} THEN 1 ELSE 0)
  /\ tried' = tried \cup {eth_current} /\ round' = round \cup {eth_current}
  /\ UNCHANGED <<protocol, commands, NetTryCount, NetRestarted, NetRestartWrap, devVars, gaveup, skipped, initFailed>>

-----------------------------------------------------------------------------
(* eth_rx: NetReceive calls packetHandler. *)

\* A packet of kind k from a running device, or a further one of the same call.
Receive(k) ==
  /\ packetHandler = k
  /\ \/ loop = "rx" /\ eth_current \in active
     \/ loop = "burst" /\ RxBurst = 1
  /\ loop' = "burst"
  /\ UNCHANGED <<protocol, commands>>

\* The answer to an ARP request: the waiting packet is sent.  While BOOTP or
\* RARP runs, NetOurIP is 0 and no ARP packet is looked at.
ArpReply ==
  /\ \E k \in {"TFTP", "PING", "ignore"} : Receive(k)
  /\ NetArpWaitPacketIP = 1 /\ NetArpWaitPacketIP' = 0
  /\ UNCHANGED <<NetState, protoVars, NetArpWaitTry, againVars, devVars, history>>

\* BootpHandler, RarpHandler: done, or go on with TFTP.
ConfigReply(k) ==
  /\ Receive(k)
  /\ \/ /\ NetState' = "SUCCESS"
        /\ timeHandler' = IF k = "BOOTP" THEN "none" ELSE timeHandler
        /\ UNCHANGED <<packetHandler, tries, arpVars>>
     \/ StartProtocol("TFTP", 0) /\ UNCHANGED NetState
  /\ UNCHANGED <<againVars, devVars, history>>

\* PingHandler looks only at the sender: a late answer to an earlier ping counts.
PingReply ==
  /\ Receive("PING")
  /\ NetState' = "SUCCESS"
  /\ UNCHANGED <<protoVars, arpVars, againVars, devVars, history>>

\* TftpHandler: a block is stored; it may be the last one.
TftpBlock(last) ==
  /\ Receive("TFTP") /\ NetArpWaitPacketIP = 0
  /\ timeHandler' = "TFTP"
  /\ NetState' = IF last THEN "SUCCESS" ELSE NetState
  /\ UNCHANGED <<packetHandler, tries, arpVars, againVars, devVars, history>>

\* TftpHandler: an error that is not retried.
TftpFails ==
  /\ Errors = 1
  /\ Receive("TFTP") /\ NetArpWaitPacketIP = 0
  /\ NetState' = "FAIL" /\ active' = Halted
  /\ UNCHANGED <<protoVars, arpVars, againVars, eth_current, first_failed, history>>

\* TftpHandler: an error that is retried, or a transfer that starts amiss.
TftpAgain ==
  /\ Errors = 1
  /\ Receive("TFTP") /\ NetArpWaitPacketIP = 0
  /\ NetStartAgain(timeHandler, NetState)
  /\ UNCHANGED <<tries, arpVars>>

-----------------------------------------------------------------------------
(* The rest of a round of NetLoop. *)

\* ctrl-c.
Abort ==
  /\ loop \in {"rx", "burst"} /\ loop' = "cmd"
  /\ active' = Halted
  /\ UNCHANGED <<protocol, commands, NetState, protoVars, arpVars, againVars, eth_current,
                 first_failed, history>>

\* ArpTimeoutCheck finds nothing to do.
NoArpTimeout ==
  /\ loop \in {"rx", "burst"} /\ loop' = "timer"
  /\ UNCHANGED <<protocol, commands, NetState, protoVars, arpVars, againVars, devVars, history>>

\* Mutant: one request too many.
ArpRunsOutLate == NetArpWaitTry + 1 > ARP_TIMEOUT_COUNT

\* A time-out of TFTP sends the packet again, which starts the ARP requests
\* afresh: they run out only when that time-out is long, under TFTP or in the
\* pause of ten seconds after it.  A ping fails before they do.  A packet that
\* waits since before the restart keeps its counter running while BOOTP or
\* RARP is at work.
ArpRunsOut == NetArpWaitTry + 1 >= ARP_TIMEOUT_COUNT

ArpTimeout ==
  /\ loop \in {"rx", "burst"} /\ loop' = "timer"
  /\ NetArpWaitPacketIP = 1
  /\ \/ /\ ~ArpRunsOut
        /\ NetArpWaitTry' = NetArpWaitTry + 1
        /\ UNCHANGED <<NetState, packetHandler, timeHandler, againVars, devVars, history>>
     \/ /\ ArpRunsOut
        /\ packetHandler \in {"BOOTP", "RARP"} \/ (packetHandler \in {"TFTP", "ignore"} /\ SlowTimer = 1)
        /\ NetArpWaitTry' = 0
        /\ NetStartAgain(timeHandler, NetState)
  /\ UNCHANGED <<protocol, commands, tries, NetArpWaitPacketIP>>

NoTimeout ==
  /\ loop = "timer" /\ loop' = "state"
  /\ UNCHANGED <<protocol, commands, NetState, protoVars, arpVars, againVars, devVars, history>>

\* timeHandler is cleared and called.
Expires(h) ==
  /\ loop = "timer" /\ loop' = "state"
  /\ timeHandler = h
  /\ UNCHANGED <<protocol, commands>>

\* Mutant: the last time-out does not end the ping.
PingTimeoutKeepsState ==
  /\ Expires("PING")
  /\ timeHandler' = "none" /\ active' = Halted
  /\ UNCHANGED <<NetState, packetHandler, tries, arpVars, againVars, eth_current, first_failed, history>>

PingTimeout ==
  /\ Expires("PING")
  /\ timeHandler' = "none" /\ NetState' = "FAIL" /\ active' = Halted
  /\ UNCHANGED <<packetHandler, tries, arpVars, againVars, eth_current, first_failed, history>>

\* Mutant: the time-out is not installed again.
RequestTimeoutOnce(k) ==
  /\ Expires(k)
  /\ \/ /\ tries >= TIMEOUT_COUNT
        /\ NetStartAgain("none", NetState) /\ UNCHANGED tries
     \/ /\ tries < TIMEOUT_COUNT
        /\ timeHandler' = "none" /\ packetHandler' = k /\ tries' = tries + 1
        /\ UNCHANGED <<NetState, againVars, devVars, history>>
  /\ UNCHANGED arpVars

\* BootpTimeout and RarpTimeout count requests.
RequestTimeout(k) ==
  /\ Expires(k)
  /\ \/ /\ tries >= TIMEOUT_COUNT
        /\ NetStartAgain("none", NetState) /\ UNCHANGED tries
     \/ /\ tries < TIMEOUT_COUNT
        /\ timeHandler' = k /\ packetHandler' = k /\ tries' = tries + 1
        /\ UNCHANGED <<NetState, againVars, devVars, history>>
  /\ UNCHANGED arpVars

\* TftpTimeout counts time-outs; the packet waits for the Ethernet address
\* again if that is still unknown.
TftpTimeout ==
  /\ Expires("TFTP")
  /\ tries' = tries + 1
  /\ \/ /\ tries' > TIMEOUT_COUNT
        /\ NetStartAgain("none", NetState) /\ UNCHANGED arpVars
     \/ /\ tries' <= TIMEOUT_COUNT
        /\ timeHandler' = "TFTP"
        /\ NetArpWaitTry' = IF NetArpWaitPacketIP = 1 THEN 1 ELSE NetArpWaitTry
        /\ UNCHANGED <<NetState, packetHandler, NetArpWaitPacketIP, againVars, devVars, history>>

startAgainTimeout ==
  /\ Expires("again")
  /\ timeHandler' = "none" /\ NetState' = "RESTART"
  /\ round' = {}
  /\ UNCHANGED <<packetHandler, tries, arpVars, againVars, devVars, tried, gaveup, skipped, initFailed>>

GoOn ==
  /\ loop = "state" /\ NetState = "CONTINUE" /\ loop' = "rx"
  /\ UNCHANGED <<protocol, commands, NetState, protoVars, arpVars, againVars, devVars, history>>

Restart ==
  /\ loop = "state" /\ NetState = "RESTART" /\ loop' = "restart"
  /\ NetRestarted' = 1
  /\ UNCHANGED <<protocol, commands, NetState, protoVars, arpVars, NetTryCount, NetDevExists,
                 NetRestartWrap, devVars, history>>

\* Mutant: no eth_halt at the end of a transfer.
ReturnRunning ==
  /\ loop = "state" /\ NetState \in {"SUCCESS", "FAIL"} /\ loop' = "cmd"
  /\ UNCHANGED <<protocol, commands, NetState, protoVars, arpVars, againVars, devVars, history>>

\* NetLoop returns; the device is halted only after a success.
Return ==
  /\ loop = "state" /\ NetState \in {"SUCCESS", "FAIL"} /\ loop' = "cmd"
  /\ active' = IF NetState = "SUCCESS" THEN Halted ELSE active
  /\ UNCHANGED <<protocol, commands, NetState, protoVars, arpVars, againVars, eth_current,
                 first_failed, history>>

-----------------------------------------------------------------------------
Begin == NotConfigured \/ DeviceNotConfigured \/ Start
Packet ==
  \/ ArpReply \/ ConfigReply("BOOTP") \/ ConfigReply("RARP") \/ PingReply
  \/ TftpBlock(TRUE) \/ TftpBlock(FALSE) \/ TftpFails \/ TftpAgain
ArpCheck == NoArpTimeout \/ ArpTimeout
Timeout == PingTimeout \/ RequestTimeout("BOOTP") \/ RequestTimeout("RARP") \/ TftpTimeout
             \/ startAgainTimeout
Switch == GoOn \/ Restart \/ Return

Next ==
  \/ \E p \in Protocols, d \in Devs : NetLoopStart(p, d)
  \/ Begin \/ Packet \/ Abort \/ ArpCheck \/ NoTimeout \/ Timeout \/ Switch

Spec == Init /\ [][Next]_vars

\* Each block but the last starts the time-out of TFTP afresh (NetSetTimeout).
BlocksForEver == []<><<TftpBlock(FALSE)>>_vars

\* NetLoop keeps going round, and a time-out that stays installed expires;
\* one that blocks start afresh again and again need not.
FairSpec ==
  /\ Spec
  /\ WF_vars(Begin) /\ WF_vars(ArpCheck) /\ WF_vars(NoTimeout \/ Timeout) /\ WF_vars(Switch)
  /\ BlocksForEver \/ SF_vars(Timeout)

-----------------------------------------------------------------------------
(* Properties. *)

\* No device runs except the one in use: all of them receive into the same
\* buffers NetRxPackets (eth_halt before every change of eth_current).
OnlyCurrentRuns == active \subseteq {eth_current}

\* After a command that succeeded, was aborted or could not start, no device
\* is left running: each of these exits of NetLoop calls eth_halt.  A command
\* that fails relies on the handler that decided so, and a second handler of
\* the same round may have initialised the device again.
HaltedAtReturn == loop = "cmd" /\ NetState # "FAIL" => active = {}

\* A command that gives up has tried every device that has an address
\* (NetStartAgain), as the description of netretry=once promises, unless two
\* restarts in one round, or a restart in the pause, have skipped one.
GaveUpAfterAll == gaveup = 1 /\ skipped = 0 => Devs \ NoMac \subseteq tried

\* The pause of ten seconds, and so NetRestartWrap, means that all devices with
\* an address have been tried since the last pause.  A skipped device breaks
\* this, and so does the mark that a failed initialisation leaves behind.
PauseAfterAll ==
  loop = "rx" /\ NetState = "CONTINUE" /\ timeHandler = "again" /\ skipped = 0 /\ initFailed = 0
    => Devs \ NoMac \subseteq round

\* Every command ends when the number of retries is limited, unless the server
\* goes on sending blocks for ever: restarts, pauses, ARP waits and further
\* requests cannot keep NetLoop going without end.
CommandEnds == BlocksForEver \/ ((loop # "cmd") ~> (loop = "cmd"))

\* NetLoop waits for packets only with a time-out to end the wait.
Watched == loop = "rx" /\ NetState = "CONTINUE" => timeHandler # "none"
=============================================================================
