--------------------------- MODULE NetLoopProofs ---------------------------
(***************************************************************************)
(* What holds of NetLoop for every number of devices, every set of devices *)
(* that fail, every setting of ethrotate and netretry, with and without    *)
(* bursts of packets and errors of the server.                             *)
(***************************************************************************)
EXTENDS NetLoop, WellFoundedInduction, TLAPS

\* NetStartAgain leaves at most the device in use running, because eth_halt
\* comes before eth_try_another.
LEMMA AgainRuns ==
  ASSUME OnlyCurrentRuns, NEW t, NEW s, NetStartAgain(t, s)
  PROVE  OnlyCurrentRuns'
<1>1. CASE GiveUp(t)
  BY Zenon, <1>1 DEF GiveUp, OnlyCurrentRuns, Halted
<1>2. CASE TryAnother(t, s)
  BY Zenon, <1>2 DEF TryAnother, EthInit, OnlyCurrentRuns, Halted
<1> QED
  BY Zenon, <1>1, <1>2 DEF NetStartAgain

\* All devices receive into the same buffers, and at no time is any of them
\* running except the one in use (eth_halt, eth_init, eth_set_current).
THEOREM OneDeviceRuns == Spec => []OnlyCurrentRuns
<1>1. Init => OnlyCurrentRuns
  BY Zenon DEF Init, OnlyCurrentRuns
<1>2. OnlyCurrentRuns /\ [Next]_vars => OnlyCurrentRuns'
  <2> SUFFICES ASSUME OnlyCurrentRuns, [Next]_vars PROVE OnlyCurrentRuns'
    BY Zenon
  <2>1. CASE UNCHANGED vars
    BY Zenon, <2>1 DEF OnlyCurrentRuns, vars, devVars
  <2>2. ASSUME NEW p \in Protocols, NEW d \in Devs, NetLoopStart(p, d)
        PROVE  OnlyCurrentRuns'
    BY Zenon, <2>2 DEF NetLoopStart, EthInit, OnlyCurrentRuns, Halted
  <2>3. CASE Begin
    BY Zenon, <2>3, AgainRuns DEF Begin, NotConfigured, DeviceNotConfigured, Start, devVars,
                           OnlyCurrentRuns, Halted
  <2>4. CASE Packet
    <3>1. CASE TftpAgain
      BY Zenon, <3>1, AgainRuns DEF TftpAgain
    <3>2. CASE TftpFails
      BY Zenon, <3>2 DEF TftpFails, OnlyCurrentRuns, Halted
    <3>3. UNCHANGED devVars => OnlyCurrentRuns'
      BY Zenon DEF OnlyCurrentRuns, devVars
    <3> QED
      BY Zenon, <2>4, <3>1, <3>2, <3>3 DEF Packet, ArpReply, ConfigReply, PingReply, TftpBlock
  <2>5. CASE Abort
    BY Zenon, <2>5 DEF Abort, OnlyCurrentRuns, Halted
  <2>6. CASE ArpCheck \/ NoTimeout
    <3>1. UNCHANGED devVars => OnlyCurrentRuns'
      BY Zenon DEF OnlyCurrentRuns, devVars
    <3> QED
      BY Zenon, <2>6, <3>1, AgainRuns DEF ArpCheck, NoArpTimeout, ArpTimeout, NoTimeout
  <2>7. CASE Timeout
    <3>1. UNCHANGED devVars => OnlyCurrentRuns'
      BY Zenon DEF OnlyCurrentRuns, devVars
    <3>2. CASE PingTimeout
      BY Zenon, <3>2 DEF PingTimeout, OnlyCurrentRuns, Halted
    <3> QED
      BY Zenon, <2>7, <3>1, <3>2, AgainRuns DEF Timeout, RequestTimeout, TftpTimeout, startAgainTimeout
  <2>8. CASE Switch
    BY Zenon, <2>8 DEF Switch, GoOn, Restart, Return, OnlyCurrentRuns, Halted, devVars
  <2> QED
    BY Zenon, <2>1, <2>2, <2>3, <2>4, <2>5, <2>6, <2>7, <2>8 DEF Next
<1> QED
  BY <1>1, <1>2, PTL DEF Spec

-----------------------------------------------------------------------------
\* Inside of NetLoop there is a command, and while the outcome is open there
\* is a time-out, except at the label restart.
WatchedInv ==
  /\ loop # "cmd" => protocol \in Protocols
  /\ loop \in {"rx", "burst", "timer", "state"} /\ NetState = "CONTINUE" => timeHandler # "none"

\* NetStartAgain decides the outcome or installs its own time-out.
LEMMA AgainWatched ==
  ASSUME NEW t, NEW s, NetStartAgain(t, s)
  PROVE  NetState' = "CONTINUE" => timeHandler' # "none"
<1>1. CASE GiveUp(t)
  BY Zenon, <1>1 DEF GiveUp
<1>2. CASE TryAnother(t, s)
  BY Zenon, <1>2 DEF TryAnother
<1> QED
  BY Zenon, <1>1, <1>2 DEF NetStartAgain

\* NetLoop clears timeHandler before it calls it; whatever the handlers and
\* the packets do, it never waits for a packet without a time-out.
THEOREM AlwaysWatched == Spec => []Watched
<1>1. Init => WatchedInv
  BY Zenon DEF Init, WatchedInv
<1>2. WatchedInv /\ [Next]_vars => WatchedInv'
  <2> SUFFICES ASSUME WatchedInv, [Next]_vars PROVE WatchedInv'
    BY Zenon
  <2>1. CASE UNCHANGED vars
    BY Zenon, <2>1 DEF WatchedInv, vars, loopVars, protoVars
  <2>2. ASSUME NEW p \in Protocols, NEW d \in Devs, NetLoopStart(p, d)
        PROVE  WatchedInv'
    BY Zenon, <2>2 DEF NetLoopStart, WatchedInv
  <2>3. CASE Begin
    <3>1. CASE Start
      <4>1. timeHandler' = protocol /\ protocol' = protocol /\ protocol \in Protocols
        BY Zenon, <3>1 DEF Start, StartProtocol, WatchedInv
      <4> QED
        BY Zenon, <3>1, <4>1, ProtocolAssumption DEF WatchedInv
    <3>2. CASE NotConfigured
      BY Zenon, <3>2 DEF NotConfigured, WatchedInv
    <3>3. CASE DeviceNotConfigured
      BY Zenon, <3>3, AgainWatched DEF DeviceNotConfigured, WatchedInv
    <3> QED
      BY Zenon, <2>3, <3>1, <3>2, <3>3 DEF Begin
  <2>4. CASE Packet
    <3>1. protocol' = protocol /\ loop \in {"rx", "burst"}
      BY Zenon, <2>4 DEF Packet, ArpReply, ConfigReply, PingReply, TftpBlock, TftpFails, TftpAgain, Receive
    <3>2. NetState' = "CONTINUE" => timeHandler' # "none"
      <4>1. CASE TftpAgain
        BY Zenon, <4>1, AgainWatched DEF TftpAgain
      <4>2. CASE \E k \in {"BOOTP", "RARP"} : ConfigReply(k)
        BY Zenon, <4>2 DEF ConfigReply, StartProtocol
      <4> QED
        BY Zenon, <2>4, <3>1, <4>1, <4>2 DEF Packet, ArpReply, PingReply, TftpBlock, TftpFails, protoVars,
                                      WatchedInv
    <3> QED
      BY Zenon, <3>1, <3>2 DEF WatchedInv
  <2>5. CASE Abort
    BY Zenon, <2>5 DEF Abort, WatchedInv
  <2>6. CASE ArpCheck \/ NoTimeout
    BY Zenon, <2>6, AgainWatched DEF ArpCheck, NoArpTimeout, ArpTimeout, NoTimeout, protoVars, WatchedInv
  <2>7. CASE Timeout
    <3>1. protocol' = protocol /\ loop = "timer"
      BY Zenon, <2>7 DEF Timeout, PingTimeout, RequestTimeout, TftpTimeout, startAgainTimeout, Expires
    <3>2. NetState' = "CONTINUE" => timeHandler' # "none"
      BY Zenon, <2>7, AgainWatched DEF Timeout, PingTimeout, RequestTimeout, TftpTimeout, startAgainTimeout
    <3> QED
      BY Zenon, <3>1, <3>2 DEF WatchedInv
  <2>8. CASE Switch
    BY Zenon, <2>8 DEF Switch, GoOn, Restart, Return, protoVars, WatchedInv
  <2> QED
    BY Zenon, <2>1, <2>2, <2>3, <2>4, <2>5, <2>6, <2>7, <2>8 DEF Next
<1>3. WatchedInv => Watched
  BY Zenon DEF WatchedInv, Watched
<1> QED
  BY <1>1, <1>2, <1>3, PTL DEF Spec

-----------------------------------------------------------------------------
\* After a command that succeeded, was aborted or could not start, no device
\* is left running (eth_halt at these exits of NetLoop).
THEOREM NoneLeftRunning == Spec => []HaltedAtReturn
<1>1. Init => HaltedAtReturn
  BY Zenon DEF Init, HaltedAtReturn
<1>2. OnlyCurrentRuns /\ HaltedAtReturn /\ [Next]_vars => HaltedAtReturn'
  <2> SUFFICES ASSUME OnlyCurrentRuns, HaltedAtReturn, [Next]_vars, loop' = "cmd", NetState' # "FAIL"
               PROVE  active' = {}
    BY Zenon DEF HaltedAtReturn
  <2>0. Halted = {}
    BY Zenon DEF OnlyCurrentRuns, Halted
  <2>1. CASE UNCHANGED vars
    BY Zenon, <2>1 DEF HaltedAtReturn, vars, loopVars, devVars
  <2>2. ASSUME NEW p \in Protocols, NEW d \in Devs, NetLoopStart(p, d)
        PROVE  active' = {}
    BY Zenon, <2>0, <2>2 DEF NetLoopStart, EthInit
  <2>3. CASE Begin
    BY Zenon, <2>0, <2>3 DEF Begin, NotConfigured, DeviceNotConfigured, Start
  <2>4. CASE Packet
    BY Zenon, <2>4 DEF Packet, ArpReply, ConfigReply, PingReply, TftpBlock, TftpFails, TftpAgain, Receive
  <2>5. CASE Abort
    BY Zenon, <2>0, <2>5 DEF Abort
  <2>6. CASE ArpCheck \/ NoTimeout
    BY Zenon, <2>6 DEF ArpCheck, NoArpTimeout, ArpTimeout, NoTimeout
  <2>7. CASE Timeout
    BY Zenon, <2>7 DEF Timeout, PingTimeout, RequestTimeout, TftpTimeout, startAgainTimeout, Expires
  <2>8. CASE Switch
    BY Zenon, <2>0, <2>8 DEF Switch, GoOn, Restart, Return
  <2> QED
    BY Zenon, <2>1, <2>2, <2>3, <2>4, <2>5, <2>6, <2>7, <2>8 DEF Next
<1> QED
  BY <1>1, <1>2, OneDeviceRuns, PTL DEF Spec

-----------------------------------------------------------------------------
(* The order in which eth_try_another goes round.                          *)

\* How far d is from the device ff in the ring.
Place(ff, d) == IF d >= ff THEN d - ff ELSE d - ff + NDev

\* All devices with an address from ff up to, and without, e are in S.
Before(ff, e, S) ==
  ff \in Devs /\ \A x \in Devs \ NoMac : Place(ff, x) < Place(ff, e) => x \in S

InLoop == loop \in {"rx", "burst", "timer", "state"}
Rotates == ethrotate = 1 /\ gaveup = 0

\* What the rotation rests on; while no init function has failed, NetRestartWrap
\* is set and used up within NetStartAgain.
Marks ==
  /\ gaveup \in {0, 1} /\ NetRestarted \in {0, 1} /\ NetTryCount \in Nat
  /\ gaveup = 1 => NetTryCount >= retrycnt
  /\ timeHandler = "again" => packetHandler = "ignore"
  /\ loop # "cmd" => protocol \in Protocols
  /\ initFailed = 0 =>
       NetRestartWrap = 0 /\ eth_current \in Devs /\ first_failed \in Devs \cup {-1}

\* Passed over so far: the devices from first_failed to the one in use.  The
\* time-out of a pause that an earlier command was in may still be installed;
\* then no device that was passed over has an address.
PassedOver ==
  /\ Before(first_failed, eth_current, round)
  /\ timeHandler = "again" => Before(first_failed, eth_current, {})

Rounds ==
  initFailed = 0 /\ skipped = 0 =>
    /\ loop = "restart" /\ NetRestarted = 1 /\ Rotates => PassedOver
    /\ InLoop /\ NetState = "RESTART" /\ Rotates => PassedOver
    /\ InLoop /\ NetState = "CONTINUE" /\ timeHandler # "again" /\ Rotates =>
         eth_current \in round /\ (NetRestarted = 1 => Before(first_failed, eth_current, round))
    /\ InLoop /\ NetState \notin {"CONTINUE", "RESTART"} /\ timeHandler = "again" /\ Rotates =>
         NetState = "FAIL" /\ eth_current = first_failed
    /\ InLoop /\ NetState = "CONTINUE" /\ timeHandler = "again" =>
         Rotates /\ eth_current = first_failed /\ Devs \ NoMac \subseteq round

\* One step along the ring, from anywhere.
LEMMA StepAlong ==
  ASSUME NEW ff \in Devs, NEW e \in Devs
  PROVE  /\ Fwd(e, 1) \in Devs /\ Place(ff, e) \in Nat /\ Place(ff, ff) = 0
         /\ Fwd(e, 1) # ff => Place(ff, Fwd(e, 1)) = Place(ff, e) + 1
         /\ Fwd(e, 1) = ff => \A x \in Devs : Place(ff, x) <= Place(ff, e)
         /\ \A x \in Devs : Place(ff, x) = Place(ff, e) => x = e
  BY DevAssumption DEF Devs, Fwd, Place

\* The device that is left has been tried or has no address: either those
\* before the next one are done, or all of them are.
LEMMA OneMore ==
  ASSUME NEW ff \in Devs, NEW e \in Devs, NEW S, Before(ff, e, S), e \in S \cup NoMac
  PROVE  /\ Fwd(e, 1) # ff => Before(ff, Fwd(e, 1), S)
         /\ Fwd(e, 1) = ff => Devs \ NoMac \subseteq S
<1>1. ASSUME NEW x \in Devs \ NoMac, Place(ff, x) <= Place(ff, e) PROVE x \in S
  <2>1. Place(ff, x) \in Nat /\ Place(ff, e) \in Nat
    BY Zenon, StepAlong
  <2>2. CASE Place(ff, x) = Place(ff, e)
    BY <2>2, StepAlong
  <2>3. CASE Place(ff, x) < Place(ff, e)
    BY Zenon, <2>3 DEF Before
  <2> QED
    BY <1>1, <2>1, <2>2, <2>3
<1>2. ASSUME Fwd(e, 1) # ff PROVE Before(ff, Fwd(e, 1), S)
  <2> SUFFICES ASSUME NEW x \in Devs \ NoMac, Place(ff, x) < Place(ff, Fwd(e, 1)) PROVE x \in S
    BY Zenon DEF Before
  <2>1. Place(ff, x) \in Nat /\ Place(ff, e) \in Nat /\ Place(ff, Fwd(e, 1)) = Place(ff, e) + 1
    BY Zenon, <1>2, StepAlong
  <2> QED
    BY <1>1, <2>1
<1>3. ASSUME Fwd(e, 1) = ff PROVE Devs \ NoMac \subseteq S
  BY Zenon, <1>1, <1>3, StepAlong
<1> QED
  BY Zenon, <1>2, <1>3

\* Before the first device there is none.
LEMMA AtFirst == ASSUME NEW ff \in Devs, NEW S PROVE Before(ff, ff, S)
<1>1. \A x \in Devs : Place(ff, x) \in Nat /\ Place(ff, ff) = 0
  BY Zenon, StepAlong
<1> QED
  BY <1>1 DEF Before

(* Moving on.                                                              *)

\* eth_init stays where it is when no init function fails.
LEMMA NoFailure ==
  ASSUME NEW c \in Devs, NEW fails, Failed(c, fails) = {}
  PROVE  /\ Fwd(c, Steps(c, fails)) = c /\ Passed(c, fails) = {}
<1> DEFINE reach == IF ethrotate = 1 THEN NDev ELSE 0
           good == {i \in 0 .. reach : Fwd(c, i) \notin fails}
<1>1. Fwd(c, 0) = c /\ 0 \in 0 .. reach
  BY DevAssumption DEF Fwd, Devs
<1>2. 0 \in good
  BY Zenon, <1>1 DEF Failed
<1>3. Min(good) = 0
  <2>1. \A i \in good : i \in Int /\ 0 <= i
    BY DevAssumption
  <2> QED
    BY <1>2, <2>1 DEF Min
<1>4. Steps(c, fails) = 0
  BY Zenon, <1>2, <1>3 DEF Steps
<1> QED
  BY <1>1, <1>4 DEF Passed

\* NetStartAgain without failing init functions.
LEMMA TryFacts ==
  ASSUME Marks, NEW t, NEW s, TryAnother(t, s), initFailed' = 0
  PROVE  /\ initFailed = 0 /\ NetRestartWrap' = 0
         /\ round' = round /\ UNCHANGED <<NetRestarted, gaveup>>
         /\ gaveup = 0 /\ NetTryCount' = NetTryCount + 1
         /\ skipped' = (IF Skips(s) THEN 1 ELSE skipped)
         /\ ethrotate # 1 => /\ eth_current' = eth_current /\ first_failed' = first_failed
                             /\ NetState' = "RESTART" /\ timeHandler' = t /\ packetHandler' = packetHandler
         /\ ethrotate = 1 =>
              /\ eth_current' = Fwd(eth_current, 1)
              /\ first_failed' = (IF NetRestarted = 0 THEN eth_current ELSE first_failed)
              /\ eth_current' # first_failed' =>
                   NetState' = "RESTART" /\ timeHandler' = t /\ packetHandler' = packetHandler
              /\ eth_current' = first_failed' =>
                   \/ timeHandler' = "again" /\ packetHandler' = "ignore" /\ NetState' = s
                   \/ NetState' = "FAIL" /\ timeHandler' = t /\ packetHandler' = packetHandler
<1> DEFINE c == IF ethrotate = 1 THEN Fwd(eth_current, 1) ELSE eth_current
           W(fails) == \/ NetRestartWrap = 1
                       \/ ethrotate = 1 /\ c = first_failed'
                       \/ InitWrap(c, first_failed', fails)
<1>1. PICK fails \in SUBSET InitFails :
        /\ EthInit(c, Halted, fails)
        /\ NetRestartWrap' = 0
        /\ \/ ~W(fails) /\ NetState' = "RESTART" /\ timeHandler' = t /\ UNCHANGED packetHandler
           \/ W(fails) /\ NetDevExists = 1
              /\ timeHandler' = "again" /\ packetHandler' = "ignore" /\ NetState' = s
           \/ W(fails) /\ NetDevExists = 0
              /\ NetState' = "FAIL" /\ timeHandler' = t /\ UNCHANGED packetHandler
        /\ round' = round \cup Failed(c, fails)
        /\ initFailed' = IF Failed(c, fails) = {} THEN initFailed ELSE 1
  BY Zenon DEF TryAnother
<1>2. Failed(c, fails) = {} /\ initFailed = 0
  BY <1>1
<1>3. eth_current \in Devs /\ first_failed \in Devs \cup {-1} /\ NetRestartWrap = 0
  BY Zenon, <1>2 DEF Marks
<1>4. c \in Devs
  BY Zenon, <1>3, StepAlong
<1>5. eth_current' = c /\ Passed(c, fails) = {}
  BY Zenon, <1>1, <1>2, <1>4, NoFailure DEF EthInit
<1>6. W(fails) <=> ethrotate = 1 /\ c = first_failed'
  BY <1>3, <1>5 DEF InitWrap
<1>7. /\ NetTryCount < retrycnt /\ NetTryCount' = NetTryCount + 1
      /\ first_failed' = IF ethrotate = 1 /\ NetRestarted = 0 THEN eth_current ELSE first_failed
      /\ skipped' = IF Skips(s) THEN 1 ELSE skipped
      /\ UNCHANGED <<NetRestarted, gaveup>>
  BY Zenon DEF TryAnother
<1>8. gaveup = 0
  BY <1>7, CountAssumption DEF Marks
<1> HIDE DEF W
<1>9. ethrotate # 1 => NetState' = "RESTART" /\ timeHandler' = t /\ packetHandler' = packetHandler
  BY Zenon, <1>1, <1>6
<1>10. ethrotate = 1 /\ c # first_failed' =>
          NetState' = "RESTART" /\ timeHandler' = t /\ packetHandler' = packetHandler
  BY Zenon, <1>1, <1>6
<1>11. ethrotate = 1 /\ c = first_failed' =>
         \/ timeHandler' = "again" /\ packetHandler' = "ignore" /\ NetState' = s
         \/ NetState' = "FAIL" /\ timeHandler' = t /\ packetHandler' = packetHandler
  BY Zenon, <1>1, <1>6
<1> QED
  BY Zenon, <1>1, <1>2, <1>5, <1>7, <1>8, <1>9, <1>10, <1>11

\* Marks, over NetStartAgain with a time-out that is not newly "again".
LEMMA AgainMarks ==
  ASSUME Marks, NEW t, t \in {timeHandler, "none"}, NEW s, NetStartAgain(t, s),
         loop' # "cmd" => protocol' \in Protocols
  PROVE  Marks'
<1>1. CASE GiveUp(t)
  BY Zenon, <1>1, CountAssumption DEF GiveUp, Marks, againVars
<1>2. CASE TryAnother(t, s)
  <2>1. /\ NetTryCount' = NetTryCount + 1 /\ UNCHANGED <<NetRestarted, gaveup>>
        /\ timeHandler' = "again" => packetHandler' = "ignore"
    BY Zenon, <1>2 DEF TryAnother, Marks
  <2>2. ASSUME initFailed' = 0
        PROVE  NetRestartWrap' = 0 /\ eth_current' \in Devs /\ first_failed' \in Devs \cup {-1}
    <3>1. eth_current \in Devs /\ first_failed \in Devs \cup {-1}
      BY Zenon, <1>2, <2>2, TryFacts DEF Marks
    <3>2. Fwd(eth_current, 1) \in Devs
      BY Zenon, <3>1, StepAlong
    <3> QED
      BY Zenon, <1>2, <2>2, <3>1, <3>2, TryFacts
  <2> QED
    BY <2>1, <2>2, CountAssumption DEF Marks
<1> QED
  BY Zenon, <1>1, <1>2 DEF NetStartAgain

\* NetStartAgain moves on by one device, or has come round.
LEMMA AgainRounds ==
  ASSUME Marks, NEW t, NEW s, NetStartAgain(t, s), InLoop',
         initFailed = 0 /\ skipped = 0 /\ Rotates /\ ~Skips(s) =>
           /\ eth_current \in round \cup NoMac
           /\ NetRestarted = 1 => Before(first_failed, eth_current, round)
           /\ t = "again" => /\ eth_current \in NoMac
                             /\ NetRestarted = 1 => Before(first_failed, eth_current, {})
  PROVE  Rounds'
<1>0. loop' # "restart"
  BY Zenon DEF InLoop
<1>1. CASE GiveUp(t)
  BY <1>0, <1>1 DEF GiveUp, Rounds, Rotates
<1>2. CASE TryAnother(t, s)
  <2> SUFFICES ASSUME initFailed' = 0, skipped' = 0
               PROVE  /\ NetState' = "RESTART" /\ Rotates' => PassedOver'
                      /\ NetState' = "CONTINUE" => timeHandler' = "again"
                      /\ NetState' \notin {"CONTINUE", "RESTART"} /\ timeHandler' = "again" /\ Rotates' =>
                           NetState' = "FAIL" /\ eth_current' = first_failed'
                      /\ NetState' = "CONTINUE" /\ timeHandler' = "again" =>
                           Rotates' /\ eth_current' = first_failed' /\ Devs \ NoMac \subseteq round'
    BY <1>0, Zenon DEF Rounds
  <2>1. /\ initFailed = 0 /\ skipped = 0 /\ ~Skips(s) /\ s = "CONTINUE" /\ gaveup = 0
        /\ round' = round /\ gaveup' = 0
    BY <1>2, TryFacts DEF Skips
  <2>2. CASE ethrotate # 1
    BY Zenon, <1>2, <2>1, <2>2, TryFacts DEF Rotates
  <2>3. CASE ethrotate = 1
    <3>1. /\ eth_current' = Fwd(eth_current, 1)
          /\ first_failed' = (IF NetRestarted = 0 THEN eth_current ELSE first_failed)
          /\ eth_current' # first_failed' => NetState' = "RESTART" /\ timeHandler' = t
          /\ eth_current' = first_failed' =>
               \/ timeHandler' = "again" /\ NetState' = s
               \/ NetState' = "FAIL" /\ timeHandler' = t
      BY <1>2, <2>3, TryFacts
    <3>2. eth_current \in Devs /\ NetRestarted \in {0, 1}
      BY Zenon, <2>1 DEF Marks
    <3>3. /\ eth_current \in round \cup NoMac
          /\ NetRestarted = 1 => Before(first_failed, eth_current, round)
          /\ t = "again" => /\ eth_current \in NoMac
                            /\ NetRestarted = 1 => Before(first_failed, eth_current, {})
      BY Zenon, <2>1, <2>3 DEF Rotates
    <3>4. /\ Before(first_failed', eth_current, round)
          /\ t = "again" => Before(first_failed', eth_current, {})
          /\ first_failed' \in Devs
      <4>1. CASE NetRestarted = 0
        BY Zenon, <3>1, <3>2, <4>1, AtFirst
      <4>2. CASE NetRestarted = 1
        BY <3>1, <3>3, <4>2 DEF Before
      <4> QED
        BY Zenon, <3>2, <4>1, <4>2
    <3>5. /\ eth_current' # first_failed' => Before(first_failed', eth_current', round)
          /\ eth_current' = first_failed' => Devs \ NoMac \subseteq round
      BY Zenon, <3>1, <3>2, <3>3, <3>4, OneMore
    <3>6. t = "again" /\ eth_current' # first_failed' => Before(first_failed', eth_current', {})
      BY Zenon, <3>1, <3>2, <3>3, <3>4, OneMore
    <3>7. CASE eth_current' # first_failed'
      BY Zenon, <2>1, <3>1, <3>5, <3>6, <3>7 DEF PassedOver
    <3>8. CASE eth_current' = first_failed'
      BY Zenon, <2>1, <2>3, <3>1, <3>5, <3>8 DEF Rotates
    <3> QED
      BY Zenon, <3>7, <3>8
  <2> QED
    BY Zenon, <2>2, <2>3
<1> QED
  BY Zenon, <1>1, <1>2 DEF NetStartAgain

\* Marks is kept by every step.
LEMMA MarksNext == Marks /\ [Next]_vars => Marks'
<1> SUFFICES ASSUME Marks, [Next]_vars PROVE Marks'
  BY Zenon
<1>1. CASE UNCHANGED vars
  BY Zenon, <1>1 DEF Marks, vars, loopVars, protoVars, againVars, devVars, history
<1>2. ASSUME NEW p \in Protocols, NEW d \in Devs, NetLoopStart(p, d)
      PROVE  Marks'
  <2>1. PICK fails \in SUBSET InitFails :
          /\ EthInit(d, Halted, fails)
          /\ NetRestartWrap' = IF InitWrap(d, first_failed, fails) THEN 1 ELSE NetRestartWrap
          /\ initFailed' = IF Failed(d, fails) = {} THEN initFailed ELSE 1
    BY Zenon, <1>2 DEF NetLoopStart
  <2>2. ASSUME initFailed' = 0
        PROVE  NetRestartWrap' = 0 /\ eth_current' \in Devs
    <3>1. Failed(d, fails) = {} /\ initFailed = 0
      BY <2>1, <2>2
    <3> QED
      BY Zenon, <2>1, <3>1, NoFailure DEF EthInit, InitWrap, Marks
  <2>3. initFailed' = 0 => first_failed' \in Devs \cup {-1}
    BY <1>2, <2>1 DEF NetLoopStart, Marks
  <2> QED
    BY <1>2, <2>2, <2>3, CountAssumption DEF NetLoopStart, Marks, protoVars
<1>3. CASE Begin
  <2>1. CASE DeviceNotConfigured
    BY Zenon, <2>1, AgainMarks DEF DeviceNotConfigured, Marks
  <2>2. CASE NotConfigured
    BY Zenon, <2>2 DEF NotConfigured, Marks, protoVars, againVars, history
  <2>3. CASE Start
    <3>1. protocol # "again" /\ protocol \in Protocols
      BY Zenon, <2>3, ProtocolAssumption DEF Start, Marks
    <3> QED
      BY Zenon, <2>3, <3>1 DEF Start, StartProtocol, Marks, devVars
  <2> QED
    BY Zenon, <1>3, <2>1, <2>2, <2>3 DEF Begin
<1>4. CASE Packet
  <2>1. loop # "cmd" /\ protocol' = protocol
    BY Zenon, <1>4 DEF Packet, ArpReply, ConfigReply, PingReply, TftpBlock, TftpFails, TftpAgain, Receive
  <2>2. CASE TftpAgain
    BY Zenon, <2>1, <2>2, AgainMarks DEF TftpAgain, Marks
  <2>3. ASSUME UNCHANGED <<againVars, eth_current, first_failed, history>>,
               timeHandler' = "again" => packetHandler' = "ignore"
        PROVE  Marks'
    BY Zenon, <2>1, <2>3 DEF Marks, againVars, history
  <2>4. ASSUME NEW k \in {"BOOTP", "RARP"}, ConfigReply(k) PROVE Marks'
    BY Zenon, <2>3, <2>4 DEF ConfigReply, StartProtocol, Receive, devVars, Marks
  <2>5. CASE ArpReply \/ PingReply \/ TftpBlock(TRUE) \/ TftpBlock(FALSE) \/ TftpFails
    BY Zenon, <2>3, <2>5 DEF ArpReply, PingReply, TftpBlock, TftpFails, devVars, protoVars, Marks
  <2> QED
    BY Zenon, <1>4, <2>2, <2>4, <2>5 DEF Packet
<1>5. CASE Abort
  BY Zenon, <1>5 DEF Abort, Marks, protoVars, againVars, history
<1>6. CASE ArpCheck \/ NoTimeout
  <2>1. CASE NoArpTimeout \/ NoTimeout
    BY Zenon, <2>1 DEF NoArpTimeout, NoTimeout, Marks, protoVars, againVars, devVars, history
  <2>2. CASE ArpTimeout
    <3>1. loop # "cmd" /\ protocol' = protocol
      BY Zenon, <2>2 DEF ArpTimeout
    <3>2. CASE UNCHANGED <<NetState, packetHandler, timeHandler, againVars, devVars, history>>
      BY Zenon, <3>1, <3>2 DEF Marks, againVars, devVars, history
    <3>3. CASE NetStartAgain(timeHandler, NetState)
      BY Zenon, <3>1, <3>3, AgainMarks DEF Marks
    <3> QED
      BY Zenon, <2>2, <3>2, <3>3 DEF ArpTimeout
  <2> QED
    BY Zenon, <1>6, <2>1, <2>2 DEF ArpCheck
<1>7. CASE Timeout
  <2>1. loop # "cmd" /\ protocol' = protocol
    BY Zenon, <1>7 DEF Timeout, PingTimeout, RequestTimeout, TftpTimeout, startAgainTimeout, Expires
  <2>2. CASE NetStartAgain("none", NetState)
    BY Zenon, <2>1, <2>2, AgainMarks DEF Marks
  <2>3. ASSUME UNCHANGED <<againVars, eth_current, first_failed, gaveup, initFailed>>, timeHandler' # "again"
        PROVE  Marks'
    BY Zenon, <2>1, <2>3 DEF Marks, againVars
  <2>4. CASE PingTimeout \/ startAgainTimeout
    BY Zenon, <2>3, <2>4 DEF PingTimeout, startAgainTimeout, devVars, history
  <2>5. ASSUME NEW k \in {"BOOTP", "RARP"}, RequestTimeout(k) PROVE Marks'
    BY Zenon, <2>2, <2>3, <2>5 DEF RequestTimeout, devVars, history
  <2>6. CASE TftpTimeout
    BY Zenon, <2>2, <2>3, <2>6 DEF TftpTimeout, devVars, history
  <2> QED
    BY Zenon, <1>7, <2>4, <2>5, <2>6 DEF Timeout
<1>8. CASE Switch
  BY Zenon, <1>8 DEF Switch, GoOn, Restart, Return, Marks, protoVars, againVars, devVars, history
<1> QED
  BY Zenon, <1>1, <1>2, <1>3, <1>4, <1>5, <1>6, <1>7, <1>8 DEF Next

\* Rounds is kept by every step.
LEMMA RoundsNext == Marks /\ Rounds /\ [Next]_vars => Rounds'
<1> SUFFICES ASSUME Marks, Rounds, [Next]_vars PROVE Rounds'
  BY Zenon
<1>1. CASE UNCHANGED vars
  BY Zenon, <1>1 DEF Rounds, PassedOver, Rotates, InLoop, vars, loopVars, protoVars, againVars, devVars, history
<1>2. ASSUME NEW p \in Protocols, NEW d \in Devs, NetLoopStart(p, d)
      PROVE  Rounds'
  <2>1. loop' \in {"cmd", "restart"} /\ NetRestarted' = 0
    BY Zenon, <1>2 DEF NetLoopStart
  <2> QED
    BY <2>1 DEF Rounds, InLoop
<1>3. CASE Begin
  <2>1. CASE DeviceNotConfigured
    <3>1. loop = "restart" /\ InLoop' /\ eth_current \in NoMac /\ NetStartAgain(timeHandler, "CONTINUE")
      BY Zenon, <2>1 DEF DeviceNotConfigured, InLoop
    <3>2. initFailed = 0 /\ skipped = 0 /\ Rotates /\ NetRestarted = 1 => PassedOver
      BY Zenon, <3>1 DEF Rounds
    <3> QED
      BY Zenon, <3>1, <3>2, AgainRounds DEF PassedOver
  <2>2. CASE NotConfigured
    BY Zenon, <2>2 DEF NotConfigured, Rounds, InLoop
  <2>3. CASE Start
    <3>1. /\ loop = "restart" /\ loop' = "rx" /\ NetState' = "CONTINUE"
          /\ timeHandler' = protocol /\ round' = round \cup {eth_current}
          /\ UNCHANGED <<eth_current, first_failed, NetRestarted, gaveup, skipped, initFailed>>
      BY Zenon, <2>3 DEF Start, StartProtocol, devVars
    <3>2. timeHandler' # "again"
      BY Zenon, <3>1, ProtocolAssumption DEF Marks
    <3>3. initFailed = 0 /\ skipped = 0 /\ NetRestarted = 1 /\ Rotates =>
            Before(first_failed, eth_current, round')
      BY Zenon, <3>1 DEF Rounds, PassedOver, Before
    <3> QED
      BY Zenon, <3>1, <3>2, <3>3 DEF Rounds, Rotates
  <2> QED
    BY Zenon, <1>3, <2>1, <2>2, <2>3 DEF Begin
\* Steps within a round that leave the devices alone.
<1>4. ASSUME InLoop, InLoop', UNCHANGED <<eth_current, first_failed, NetRestarted, history>>,
             \/ UNCHANGED <<NetState, timeHandler>>
             \/ timeHandler # "again" /\ timeHandler' # "again" /\ NetState' \in {NetState, "SUCCESS", "FAIL"}
      PROVE  Rounds'
  <2>1. loop' # "restart"
    BY Zenon, <1>4 DEF InLoop
  <2>2. UNCHANGED <<round, gaveup, skipped, initFailed>> /\ (Rotates' <=> Rotates)
    BY Zenon, <1>4 DEF history, Rotates
  <2>3. CASE UNCHANGED <<NetState, timeHandler>>
    BY Zenon, <1>4, <2>1, <2>2, <2>3 DEF Rounds, PassedOver
  <2>4. CASE timeHandler # "again" /\ timeHandler' # "again" /\ NetState' \in {NetState, "SUCCESS", "FAIL"}
    BY Zenon, <1>4, <2>1, <2>2, <2>4 DEF Rounds, PassedOver
  <2> QED
    BY Zenon, <1>4, <2>3, <2>4
\* NetStartAgain within a round, from a device that was started.
<1>5. ASSUME InLoop, InLoop', NEW t, t \in {timeHandler, "none"}, NetStartAgain(t, NetState)
      PROVE  Rounds'
  <2>1. initFailed = 0 /\ skipped = 0 /\ Rotates /\ ~Skips(NetState) =>
          /\ eth_current \in round /\ (NetRestarted = 1 => Before(first_failed, eth_current, round))
          /\ t # "again"
    BY Zenon, <1>5 DEF Rounds, Skips, InLoop
  <2> QED
    BY Zenon, <1>5, <2>1, AgainRounds
<1>6. CASE Packet
  <2>1. InLoop /\ InLoop'
    BY Zenon, <1>6 DEF Packet, ArpReply, ConfigReply, PingReply, TftpBlock, TftpFails, TftpAgain, Receive, InLoop
  <2>2. CASE ArpReply
    BY Zenon, <1>4, <2>1, <2>2 DEF ArpReply, protoVars, againVars, devVars
  <2>3. CASE TftpAgain
    <3>1. timeHandler # "again" /\ NetStartAgain(timeHandler, NetState)
      BY Zenon, <2>3 DEF TftpAgain, Receive, Marks
    <3> QED
      BY Zenon, <1>5, <2>1, <3>1
  <2>4. ASSUME NEW k \in {"BOOTP", "RARP"}, ConfigReply(k) PROVE Rounds'
    <3>1. timeHandler # "again"
      BY Zenon, <2>4 DEF ConfigReply, Receive, Marks
    <3> QED
      BY Zenon, <1>4, <2>1, <2>4, <3>1 DEF ConfigReply, StartProtocol, againVars, devVars
  <2>5. CASE PingReply \/ TftpBlock(TRUE) \/ TftpBlock(FALSE) \/ TftpFails
    <3>1. timeHandler # "again"
      BY Zenon, <2>5 DEF PingReply, TftpBlock, TftpFails, Receive, Marks
    <3> QED
      BY Zenon, <1>4, <2>1, <2>5, <3>1 DEF PingReply, TftpBlock, TftpFails, protoVars, againVars, devVars
  <2> QED
    BY Zenon, <1>6, <2>2, <2>3, <2>4, <2>5 DEF Packet
<1>7. CASE Abort
  BY Zenon, <1>7 DEF Abort, Rounds, InLoop
<1>8. CASE ArpCheck \/ NoTimeout
  <2>1. InLoop /\ InLoop'
    BY Zenon, <1>8 DEF ArpCheck, NoArpTimeout, ArpTimeout, NoTimeout, InLoop
  <2>2. CASE NoArpTimeout \/ NoTimeout
    BY Zenon, <1>4, <2>1, <2>2 DEF NoArpTimeout, NoTimeout, protoVars, againVars, devVars
  <2>3. CASE ArpTimeout /\ ~ArpRunsOut
    BY Zenon, <1>4, <2>1, <2>3 DEF ArpTimeout, againVars, devVars
  <2>4. CASE ArpTimeout /\ ArpRunsOut
    <3>1. NetStartAgain(timeHandler, NetState)
      BY Zenon, <2>4 DEF ArpTimeout
    <3> QED
      BY Zenon, <1>5, <2>1, <3>1
  <2> QED
    BY Zenon, <1>8, <2>2, <2>3, <2>4 DEF ArpCheck
<1>9. CASE Timeout
  <2>1. InLoop /\ InLoop'
    BY Zenon, <1>9 DEF Timeout, PingTimeout, RequestTimeout, TftpTimeout, startAgainTimeout, Expires, InLoop
  <2>2. CASE PingTimeout
    BY Zenon, <1>4, <2>1, <2>2 DEF PingTimeout, Expires, againVars
  <2>3. ASSUME NEW k \in {"BOOTP", "RARP"}, RequestTimeout(k) PROVE Rounds'
    <3>1. timeHandler = k
      BY Zenon, <2>3 DEF RequestTimeout, Expires
    <3> QED
      BY Zenon, <1>4, <1>5, <2>1, <2>3, <3>1 DEF RequestTimeout, againVars, devVars
  <2>4. CASE TftpTimeout
    <3>1. timeHandler = "TFTP"
      BY Zenon, <2>4 DEF TftpTimeout, Expires
    <3> QED
      BY Zenon, <1>4, <1>5, <2>1, <2>4, <3>1 DEF TftpTimeout, againVars, devVars
  <2>5. CASE startAgainTimeout
    <3>1. /\ timeHandler = "again" /\ timeHandler' = "none" /\ NetState' = "RESTART" /\ round' = {}
          /\ loop' = "state"
          /\ UNCHANGED <<eth_current, first_failed, gaveup, skipped, initFailed>>
      BY Zenon, <2>5 DEF startAgainTimeout, Expires, devVars
    <3>2. ASSUME initFailed = 0, skipped = 0, Rotates PROVE Before(first_failed, eth_current, {})
      <4>1. eth_current \in Devs
        BY Zenon, <3>2 DEF Marks
      <4>2. CASE NetState = "RESTART"
        BY Zenon, <2>1, <3>1, <3>2, <4>2 DEF Rounds, PassedOver
      <4>3. CASE NetState # "RESTART"
        <5>1. eth_current = first_failed
          BY Zenon, <2>1, <3>1, <3>2, <4>3 DEF Rounds
        <5> QED
          BY Zenon, <4>1, <5>1, AtFirst
      <4> QED
        BY Zenon, <4>2, <4>3
    <3> QED
      BY Zenon, <3>1, <3>2 DEF Rounds, PassedOver, Rotates
  <2> QED
    BY Zenon, <1>9, <2>2, <2>3, <2>4, <2>5 DEF Timeout
<1>10. CASE Switch
  <2>1. CASE GoOn
    BY Zenon, <1>4, <2>1 DEF GoOn, InLoop, protoVars, againVars, devVars
  <2>2. CASE Restart
    <3>1. /\ InLoop /\ NetState = "RESTART" /\ loop' = "restart"
          /\ UNCHANGED <<timeHandler, eth_current, first_failed, round, gaveup, skipped, initFailed>>
      BY Zenon, <2>2 DEF Restart, InLoop, protoVars, devVars, history
    <3> QED
      BY Zenon, <3>1 DEF Rounds, PassedOver, Rotates, InLoop
  <2>3. CASE Return
    BY Zenon, <2>3 DEF Return, Rounds, InLoop
  <2> QED
    BY Zenon, <1>10, <2>1, <2>2, <2>3 DEF Switch
<1> QED
  BY Zenon, <1>1, <1>2, <1>3, <1>6, <1>7, <1>8, <1>9, <1>10 DEF Next

\* NetStartAgain pauses only when every device with an address has been tried
\* since the last pause, unless a second restart of one round or one in the
\* pause has skipped a device or an init function has failed: for every number of devices and
\* retries, any server and any sequence of commands.
THEOREM PauseMeansAll == Spec => []PauseAfterAll
<1>1. Init => Marks /\ Rounds
  BY DevAssumption DEF Init, Marks, Rounds, InLoop, Devs
<1>2. Marks /\ Rounds /\ [Next]_vars => Marks' /\ Rounds'
  BY Zenon, MarksNext, RoundsNext
<1>3. Rounds => PauseAfterAll
  BY Zenon DEF Rounds, PauseAfterAll, InLoop
<1> QED
  BY <1>1, <1>2, <1>3, PTL DEF Spec

-----------------------------------------------------------------------------
(* Type correctness, with init functions that may fail.                    *)

Below == {pair \in Nat \X Nat : pair[1] < pair[2]}

\* A set of natural numbers that is not empty has a least element, and Min is it.
LEMMA Least ==
  ASSUME NEW S \in SUBSET Nat, S # {}
  PROVE  Min(S) \in S /\ \A y \in S : Min(S) <= y
<1>1. IsWellFoundedOn(Below, Nat)
  <2>1. OpToRel(<, Nat) = Below
    BY Zenon DEF OpToRel, Below
  <2> QED
    BY <2>1, NatLessThanWellFounded, Zenon
<1>2. \E x \in S : \A y \in S : ~(<<y, x>> \in Below)
  BY <1>1, WFMin, Zenon
<1>3. ASSUME NEW x \in Nat, NEW y \in Nat, ~(<<y, x>> \in Below) PROVE x <= y
  BY <1>3 DEF Below
<1>4. \E x \in S : \A y \in S : x <= y
  BY Zenon, <1>2, <1>3
<1> QED
  BY Zenon, <1>4 DEF Min

\* eth_init goes along the ring at most once.  Every device that it leaves
\* behind has failed, and the one it stops at has not, unless all of them have.
LEMMA InitSteps ==
  ASSUME NEW c \in Devs, NEW fails
  PROVE  /\ Steps(c, fails) \in 0 .. NDev
         /\ ethrotate = 1 => \A i \in 0 .. Steps(c, fails) - 1 : Fwd(c, i) \in fails
         /\ ethrotate = 1 => Fwd(c, Steps(c, fails)) \notin fails \/ Steps(c, fails) = NDev
         /\ \A i \in 0 .. NDev : Fwd(c, i) \in Devs
<1> DEFINE reach == IF ethrotate = 1 THEN NDev ELSE 0
           good == {i \in 0 .. reach : Fwd(c, i) \notin fails}
<1>1. reach \in 0 .. NDev /\ (ethrotate = 1 => reach = NDev)
  BY DevAssumption
<1>2. \A i \in 0 .. NDev : Fwd(c, i) \in Devs
  BY DevAssumption DEF Fwd, Devs
<1>3. good \in SUBSET Nat
  BY <1>1, DevAssumption
<1>4. Steps(c, fails) = IF good = {} THEN reach ELSE Min(good)
  BY Zenon DEF Steps
<1> HIDE DEF reach
<1>5. CASE good = {}
  <2>1. Steps(c, fails) = reach /\ \A i \in 0 .. reach : Fwd(c, i) \in fails
    BY Zenon, <1>4, <1>5
  <2> QED
    BY <1>1, <1>2, <2>1, DevAssumption
<1>6. CASE good # {}
  <2>1. Min(good) \in good /\ \A y \in good : Min(good) <= y
    BY Zenon, <1>3, <1>6, Least
  <2>2. Steps(c, fails) = Min(good)
    BY Zenon, <1>4, <1>6
  <2>3. Steps(c, fails) \in 0 .. reach /\ Fwd(c, Steps(c, fails)) \notin fails
    BY Zenon, <2>1, <2>2
  <2>4. \A i \in 0 .. Steps(c, fails) - 1 : Fwd(c, i) \in fails
    <3> SUFFICES ASSUME NEW i \in 0 .. Steps(c, fails) - 1, Fwd(c, i) \notin fails PROVE FALSE
      BY Zenon
    <3>1. i \in 0 .. reach /\ i < Steps(c, fails) /\ Steps(c, fails) \in Int
      BY <1>1, <2>3, DevAssumption
    <3>2. i \in good
      BY Zenon, <3>1
    <3> QED
      BY <2>1, <2>2, <3>1, <3>2
  <2> QED
    BY <1>1, <1>2, <2>3, <2>4, DevAssumption
<1> QED
  BY Zenon, <1>5, <1>6

\* What eth_init does to the state, in types.
LEMMA InitType ==
  ASSUME NEW c \in Devs, NEW fails
  PROVE  /\ Fwd(c, Steps(c, fails)) \in Devs
         /\ Passed(c, fails) \subseteq Devs /\ Failed(c, fails) \subseteq Devs
<1>1. Steps(c, fails) \in 0 .. NDev /\ \A i \in 0 .. NDev : Fwd(c, i) \in Devs
  BY Zenon, InitSteps
<1>2. Passed(c, fails) \subseteq Devs
  BY <1>1, DevAssumption DEF Passed
<1> QED
  BY Zenon, <1>1, <1>2 DEF Failed

\* NetStartAgain keeps the types of what it may change.
LEMMA AgainType ==
  ASSUME TypeOK, NEW t, t \in {timeHandler, "none"}, NEW s, s \in {"CONTINUE", NetState},
         NetStartAgain(t, s)
  PROVE  /\ NetState' \in {"CONTINUE", "RESTART", "SUCCESS", "FAIL"}
         /\ packetHandler' \in {"TFTP", "PING", "BOOTP", "RARP", "ignore", "none"}
         /\ timeHandler' \in {"TFTP", "PING", "BOOTP", "RARP", "again", "none"}
         /\ NetTryCount' \in Nat /\ NetRestarted' \in 0 .. 1 /\ NetDevExists' \in 0 .. 1
         /\ NetRestartWrap' \in 0 .. 1
         /\ eth_current' \in Devs /\ first_failed' \in Devs \cup {-1} /\ active' \subseteq Devs
         /\ tried' \subseteq Devs /\ round' \subseteq Devs /\ gaveup' \in 0 .. 1
         /\ skipped' \in 0 .. 1 /\ initFailed' \in 0 .. 1
<1>0. /\ NetState \in {"CONTINUE", "RESTART", "SUCCESS", "FAIL"}
      /\ packetHandler \in {"TFTP", "PING", "BOOTP", "RARP", "ignore", "none"}
      /\ timeHandler \in {"TFTP", "PING", "BOOTP", "RARP", "again", "none"}
      /\ NetTryCount \in Nat /\ NetRestarted \in 0 .. 1 /\ NetDevExists \in 0 .. 1
      /\ NetRestartWrap \in 0 .. 1
      /\ eth_current \in Devs /\ first_failed \in Devs \cup {-1} /\ active \subseteq Devs
      /\ tried \subseteq Devs /\ round \subseteq Devs /\ gaveup \in 0 .. 1
      /\ skipped \in 0 .. 1 /\ initFailed \in 0 .. 1
  BY Zenon DEF TypeOK
<1>1. CASE GiveUp(t)
  BY <1>0, <1>1 DEF GiveUp, againVars, Halted
<1>2. CASE TryAnother(t, s)
  <2> DEFINE c == IF ethrotate = 1 THEN Fwd(eth_current, 1) ELSE eth_current
  <2>1. c \in Devs
    BY Zenon, <1>0, StepAlong
  <2> HIDE DEF c
  <2>2. PICK fails \in SUBSET InitFails :
          /\ EthInit(c, Halted, fails)
          /\ tried' = tried \cup Failed(c, fails)
          /\ round' = round \cup Failed(c, fails)
          /\ initFailed' = IF Failed(c, fails) = {} THEN initFailed ELSE 1
    BY Zenon, <1>2 DEF TryAnother, c
  <2>3. /\ eth_current' \in Devs /\ active' \subseteq Devs
        /\ tried' \subseteq Devs /\ round' \subseteq Devs /\ initFailed' \in 0 .. 1
    BY <1>0, <2>1, <2>2, InitType DEF EthInit, Halted
  <2>4. /\ NetState' \in {"RESTART", "FAIL", s}
        /\ packetHandler' \in {packetHandler, "ignore"} /\ timeHandler' \in {t, "again"}
        /\ NetRestartWrap' = 0
    BY Zenon, <1>2 DEF TryAnother
  <2>5. /\ NetTryCount' = NetTryCount + 1 /\ UNCHANGED <<NetRestarted, NetDevExists, gaveup>>
        /\ first_failed' \in {eth_current, first_failed} /\ skipped' \in {skipped, 1}
    BY Zenon, <1>2 DEF TryAnother
  <2> QED
    BY <1>0, <2>3, <2>4, <2>5
<1> QED
  BY Zenon, <1>1, <1>2 DEF NetStartAgain

\* The types, over a step that ends with NetStartAgain.
LEMMA AgainStepType ==
  ASSUME TypeOK, NEW t, t \in {timeHandler, "none"}, NEW s, s \in {"CONTINUE", NetState},
         NetStartAgain(t, s), UNCHANGED <<protocol, commands, NetArpWaitPacketIP>>,
         loop' \in {"rx", "burst", "timer", "state"}, tries' \in Nat,
         NetArpWaitTry' \in 0 .. ARP_TIMEOUT_COUNT - 1
  PROVE  TypeOK'
<1>1. /\ protocol' \in Protocols \cup {"none"} /\ commands' \in Nat
      /\ NetArpWaitPacketIP' \in 0 .. 1
  BY Zenon DEF TypeOK
<1> QED
  BY Zenon, <1>1, AgainType DEF TypeOK

\* Type correctness.
THEOREM Types == Spec => []TypeOK
<1>1. Init => TypeOK
  BY DevAssumption, ArpAssumption DEF Init, TypeOK, Devs
<1>2. TypeOK /\ Marks /\ [Next]_vars => TypeOK'
  <2> SUFFICES ASSUME TypeOK, Marks, [Next]_vars PROVE TypeOK'
    BY Zenon
  <2>1. CASE UNCHANGED vars
    BY <2>1 DEF TypeOK, vars, loopVars, protoVars, arpVars, againVars, devVars, history
  <2>2. ASSUME NEW p \in Protocols, NEW d \in Devs, NetLoopStart(p, d)
        PROVE  TypeOK'
    <3>1. PICK fails \in SUBSET InitFails :
            /\ EthInit(d, Halted, fails)
            /\ NetRestartWrap' = IF InitWrap(d, first_failed, fails) THEN 1 ELSE NetRestartWrap
            /\ loop' = IF eth_current' \in fails THEN "cmd" ELSE "restart"
            /\ tried' = Failed(d, fails) /\ round' = Failed(d, fails)
            /\ initFailed' = IF Failed(d, fails) = {} THEN initFailed ELSE 1
      BY Zenon, <2>2 DEF NetLoopStart
    <3>2. /\ eth_current' \in Devs /\ active' \subseteq Devs
          /\ tried' \subseteq Devs /\ round' \subseteq Devs /\ initFailed' \in 0 .. 1
          /\ NetRestartWrap' \in 0 .. 1 /\ loop' \in {"cmd", "restart"}
      BY <3>1, InitType DEF EthInit, Halted, TypeOK
    <3>3. /\ protocol' \in Protocols /\ commands' \in Nat /\ NetRestarted' = 0 /\ NetDevExists' = 0
          /\ NetTryCount' = 1 /\ NetArpWaitPacketIP' = 0 /\ gaveup' = 0 /\ skipped' = 0
          /\ UNCHANGED <<NetState, packetHandler, timeHandler, tries, NetArpWaitTry, first_failed>>
      BY <2>2 DEF NetLoopStart, protoVars, TypeOK
    <3> QED
      BY <3>2, <3>3 DEF TypeOK
  <2>3. CASE Begin
    <3>1. CASE NotConfigured
      BY Zenon, <3>1 DEF NotConfigured, TypeOK, Halted, protoVars, arpVars, againVars, history
    <3>2. CASE DeviceNotConfigured
      <4>1. /\ tries' \in Nat /\ NetArpWaitTry' \in 0 .. ARP_TIMEOUT_COUNT - 1 /\ loop' = "rx"
            /\ UNCHANGED <<protocol, commands, NetArpWaitPacketIP>>
        BY Zenon, <3>2 DEF DeviceNotConfigured, arpVars, TypeOK
      <4> QED
        BY Zenon, <3>2, <4>1, AgainStepType DEF DeviceNotConfigured
    <3>3. CASE Start
      <4>1. protocol \in {"TFTP", "PING", "BOOTP", "RARP"}
        BY Zenon, <3>3, ProtocolAssumption DEF Start, Marks
      <4> QED
        BY <3>3, <4>1, ArpAssumption DEF Start, StartProtocol, TypeOK, devVars
    <3> QED
      BY Zenon, <2>3, <3>1, <3>2, <3>3 DEF Begin
  <2>4. CASE Packet
    <3>1. loop' = "burst" /\ UNCHANGED <<protocol, commands>>
      BY Zenon, <2>4 DEF Packet, ArpReply, ConfigReply, PingReply, TftpBlock, TftpFails, TftpAgain, Receive
    <3>2. CASE ArpReply \/ PingReply
      BY <3>1, <3>2 DEF ArpReply, PingReply, TypeOK, protoVars, arpVars, againVars, devVars, history
    <3>3. CASE TftpBlock(TRUE) \/ TftpBlock(FALSE)
      BY Zenon, <3>1, <3>3 DEF TftpBlock, TypeOK, arpVars, againVars, devVars, history
    <3>4. CASE TftpFails
      BY Zenon, <3>1, <3>4 DEF TftpFails, TypeOK, Halted, protoVars, arpVars, againVars, history
    <3>5. CASE TftpAgain
      <4>1. /\ tries' \in Nat /\ NetArpWaitTry' \in 0 .. ARP_TIMEOUT_COUNT - 1
            /\ NetArpWaitPacketIP' = NetArpWaitPacketIP
        BY Zenon, <3>5 DEF TftpAgain, arpVars, TypeOK
      <4> QED
        BY Zenon, <3>1, <3>5, <4>1, AgainStepType DEF TftpAgain
    <3>6. ASSUME NEW k \in {"BOOTP", "RARP"}, ConfigReply(k) PROVE TypeOK'
      BY <3>1, <3>6, ArpAssumption DEF ConfigReply, StartProtocol, TypeOK, arpVars, againVars, devVars, history
    <3> QED
      BY Zenon, <2>4, <3>2, <3>3, <3>4, <3>5, <3>6 DEF Packet
  <2>5. CASE Abort
    BY <2>5 DEF Abort, TypeOK, Halted, protoVars, arpVars, againVars, history
  <2>6. CASE ArpCheck \/ NoTimeout
    <3>1. CASE NoArpTimeout \/ NoTimeout
      BY Zenon, <3>1 DEF NoArpTimeout, NoTimeout, TypeOK, protoVars, arpVars, againVars, devVars, history
    <3>2. CASE ArpTimeout /\ ~ArpRunsOut
      BY <3>2, ArpAssumption DEF ArpTimeout, ArpRunsOut, TypeOK, againVars, devVars, history
    <3>3. CASE ArpTimeout /\ ArpRunsOut
      <4>1. /\ tries' \in Nat /\ NetArpWaitTry' \in 0 .. ARP_TIMEOUT_COUNT - 1 /\ loop' = "timer"
            /\ UNCHANGED <<protocol, commands, NetArpWaitPacketIP>> /\ NetStartAgain(timeHandler, NetState)
        BY <3>3, ArpAssumption DEF ArpTimeout, TypeOK
      <4> QED
        BY Zenon, <4>1, AgainStepType
    <3> QED
      BY Zenon, <2>6, <3>1, <3>2, <3>3 DEF ArpCheck
  <2>7. CASE Timeout
    <3>1. loop' = "state" /\ UNCHANGED <<protocol, commands>>
      BY Zenon, <2>7 DEF Timeout, PingTimeout, RequestTimeout, TftpTimeout, startAgainTimeout, Expires
    <3>2. CASE PingTimeout
      BY Zenon, <3>1, <3>2 DEF PingTimeout, TypeOK, Halted, arpVars, againVars, history
    <3>3. CASE startAgainTimeout
      BY Zenon, <3>1, <3>3 DEF startAgainTimeout, TypeOK, arpVars, againVars, devVars
    <3>4. ASSUME NEW k \in {"BOOTP", "RARP"}, RequestTimeout(k) PROVE TypeOK'
      <4>0. NetArpWaitTry' \in 0 .. ARP_TIMEOUT_COUNT - 1 /\ NetArpWaitPacketIP' = NetArpWaitPacketIP
        BY Zenon, <3>4 DEF RequestTimeout, arpVars, TypeOK
      <4>1. CASE NetStartAgain("none", NetState) /\ tries' = tries
        <5>1. tries' \in Nat
          BY Zenon, <4>1 DEF TypeOK
        <5> QED
          BY Zenon, <3>1, <4>0, <4>1, <5>1, AgainStepType
      <4>2. CASE /\ timeHandler' = k /\ packetHandler' = k /\ tries' = tries + 1
                 /\ UNCHANGED <<NetState, againVars, devVars, history>>
        BY <3>1, <4>0, <4>2 DEF TypeOK, againVars, devVars, history
      <4> QED
        BY Zenon, <3>4, <4>1, <4>2 DEF RequestTimeout
    <3>5. CASE TftpTimeout
      <4>1. tries' \in Nat
        BY <3>5 DEF TftpTimeout, TypeOK
      <4>2. CASE NetStartAgain("none", NetState) /\ UNCHANGED arpVars
        <5>1. NetArpWaitTry' \in 0 .. ARP_TIMEOUT_COUNT - 1 /\ NetArpWaitPacketIP' = NetArpWaitPacketIP
          BY Zenon, <4>2 DEF arpVars, TypeOK
        <5> QED
          BY Zenon, <3>1, <4>1, <4>2, <5>1, AgainStepType
      <4>3. CASE ~(NetStartAgain("none", NetState) /\ UNCHANGED arpVars)
        BY <3>1, <3>5, <4>1, <4>3, ArpAssumption DEF TftpTimeout, TypeOK, againVars, devVars, history
      <4> QED
        BY Zenon, <4>2, <4>3
    <3> QED
      BY Zenon, <2>7, <3>2, <3>3, <3>4, <3>5 DEF Timeout
  <2>8. CASE Switch
    BY <2>8 DEF Switch, GoOn, Restart, Return, TypeOK, Halted, protoVars, arpVars, againVars, devVars, history
  <2> QED
    BY Zenon, <2>1, <2>2, <2>3, <2>4, <2>5, <2>6, <2>7, <2>8 DEF Next
<1>3. Init => Marks
  BY DevAssumption DEF Init, Marks, Devs
<1> QED
  BY <1>1, <1>2, <1>3, MarksNext, PTL DEF Spec

-----------------------------------------------------------------------------
(* Giving up.  NetTryCount counts the devices that NetStartAgain moved on  *)
(* to, and eth_init may have moved further.                                *)

\* The device x need not have been tried: the command has not come this far,
\* or it is just about to try it for the first time.
Ahead(x) == Place(x, eth_current) >= NetTryCount \/ (x = eth_current /\ NetTryCount <= NDev)

Tries ==
  skipped = 0 /\ loop # "cmd" =>
    /\ \A x \in Devs \ NoMac : x \in tried \/ Ahead(x)
    /\ InLoop /\ NetState = "CONTINUE" /\ timeHandler # "again" => eth_current \in tried

\* Where x is, seen from a device k + 1 places further on, if it is not one of
\* those in between.
LEMMA MoveOn ==
  ASSUME NEW e \in Devs, NEW x \in Devs, x # e, NEW k \in 0 .. NDev - 1,
         \A i \in 0 .. k - 1 : x # Fwd(Fwd(e, 1), i)
  PROVE  /\ x # Fwd(Fwd(e, 1), k) => Place(x, Fwd(Fwd(e, 1), k)) = Place(x, e) + k + 1
         /\ Place(x, e) \in 0 .. NDev - 1
<1>1. Place(x, e) \in 1 .. NDev - 1
  BY DevAssumption DEF Place, Devs
<1>2. NDev - Place(x, e) - 1 >= k
  <2> SUFFICES ASSUME NDev - Place(x, e) - 1 < k PROVE FALSE
    BY <1>1, DevAssumption
  <2>1. NDev - Place(x, e) - 1 \in 0 .. k - 1
    BY <1>1, DevAssumption
  <2>2. x = Fwd(Fwd(e, 1), NDev - Place(x, e) - 1)
    BY DevAssumption DEF Place, Fwd, Devs
  <2> QED
    BY Zenon, <2>1, <2>2
<1>3. x # Fwd(Fwd(e, 1), k) => Place(x, Fwd(Fwd(e, 1), k)) = Place(x, e) + k + 1
  BY <1>1, <1>2, DevAssumption DEF Place, Fwd, Devs
<1> QED
  BY <1>1, <1>3, DevAssumption

\* A device is no further away than the ring is long, and only itself is near.
LEMMA PlaceRange ==
  ASSUME NEW x \in Devs, NEW e \in Devs
  PROVE  Place(x, e) \in 0 .. NDev - 1 /\ (Place(x, e) = 0 => x = e)
BY DevAssumption DEF Place, Devs

\* With every device failing, all of them are tried.
LEMMA AllFail ==
  ASSUME NEW c \in Devs, NEW x \in Devs
  PROVE  \E i \in 0 .. NDev - 1 : x = Fwd(c, i)
<1>1. CASE x >= c
  <2>1. x - c \in 0 .. NDev - 1 /\ x = Fwd(c, x - c)
    BY <1>1, DevAssumption DEF Fwd, Devs
  <2> QED
    BY Zenon, <2>1
<1>2. CASE x < c
  <2>1. x - c + NDev \in 0 .. NDev - 1 /\ x = Fwd(c, x - c + NDev)
    BY <1>2, DevAssumption DEF Fwd, Devs
  <2> QED
    BY Zenon, <2>1
<1> QED
  BY <1>1, <1>2, DevAssumption DEF Devs

\* The devices that eth_init leaves behind are among those that failed.
LEMMA LeftBehind ==
  ASSUME ethrotate = 1, NEW c \in Devs, NEW fails
  PROVE  \A i \in 0 .. Steps(c, fails) - 1 : Fwd(c, i) \in Failed(c, fails)
<1> SUFFICES ASSUME NEW i \in 0 .. Steps(c, fails) - 1 PROVE Fwd(c, i) \in Failed(c, fails)
  BY Zenon
<1>1. Steps(c, fails) \in Nat /\ Fwd(c, i) \in fails
  BY InitSteps, DevAssumption
<1>2. CASE i = 0
  <2>1. Fwd(c, i) = c
    BY <1>2, DevAssumption DEF Fwd, Devs
  <2> QED
    BY Zenon, <1>1, <2>1 DEF Failed
<1>3. CASE i # 0
  <2>1. i \in 1 .. Steps(c, fails)
    BY <1>1, <1>3
  <2>2. Fwd(c, i) \in Passed(c, fails)
    BY Zenon, <2>1 DEF Passed
  <2> QED
    BY Zenon, <1>1, <2>2 DEF Failed
<1> QED
  BY Zenon, <1>2, <1>3

\* NetStartAgain moves on past devices that have been tried.
LEMMA AgainTries ==
  ASSUME ethrotate = 1, TypeOK, NEW t, NEW s, TryAnother(t, s), skipped = 0,
         eth_current \in tried \cup NoMac,
         \A x \in Devs \ NoMac : x \in tried \/ Ahead(x)
  PROVE  \A x \in Devs \ NoMac : x \in tried' \/ Ahead(x)'
<1> SUFFICES ASSUME NEW x \in Devs \ NoMac, x \notin tried' PROVE Ahead(x)'
  BY Zenon
<1> DEFINE c == Fwd(eth_current, 1)
<1>1. PICK fails \in SUBSET InitFails :
        EthInit(c, Halted, fails) /\ tried' = tried \cup Failed(c, fails)
  BY Zenon DEF TryAnother
<1>2. eth_current \in Devs /\ c \in Devs /\ NetTryCount \in Nat /\ NetTryCount' = NetTryCount + 1
  BY Zenon, StepAlong DEF TypeOK, TryAnother
<1> DEFINE k == Steps(c, fails)
<1>3. /\ k \in 0 .. NDev /\ eth_current' = Fwd(c, k)
      /\ \A i \in 0 .. k - 1 : Fwd(c, i) \in Failed(c, fails)
  BY Zenon, <1>1, <1>2, InitSteps, LeftBehind DEF EthInit
<1>4. x \notin Failed(c, fails) /\ x \notin tried /\ x # eth_current
  BY Zenon, <1>1
<1> HIDE DEF k
<1>5. k # NDev
  BY <1>2, <1>3, <1>4, AllFail
<1>6. k \in 0 .. NDev - 1 /\ \A i \in 0 .. k - 1 : x # Fwd(c, i)
  BY <1>3, <1>4, <1>5, DevAssumption
<1>7. /\ x # eth_current' => Place(x, eth_current') = Place(x, eth_current) + k + 1
      /\ Place(x, eth_current) \in 0 .. NDev - 1
  BY Zenon, <1>2, <1>3, <1>4, <1>6, MoveOn
<1>8. Place(x, eth_current) >= NetTryCount
  BY Zenon, <1>4 DEF Ahead
<1>9. CASE x = eth_current'
  BY <1>2, <1>7, <1>8, <1>9, DevAssumption DEF Ahead
<1>10. CASE x # eth_current'
  <2>1. Place(x, eth_current') >= NetTryCount'
    BY <1>2, <1>6, <1>7, <1>8, <1>10
  <2>2. Place(x, eth_current)' = Place(x, eth_current')
    BY Zenon DEF Place
  <2> QED
    BY Zenon, <2>1, <2>2 DEF Ahead
<1> QED
  BY Zenon, <1>9, <1>10

\* Tries and GaveUpAfterAll, over a step that ends with NetStartAgain.
LEMMA AgainGaveUp ==
  ASSUME ethrotate = 1, retrycnt > NDev, TypeOK, Tries, GaveUpAfterAll, loop # "cmd",
         NEW t, NEW s, NetStartAgain(t, s), InLoop',
         ~Skips(s) /\ skipped = 0 => eth_current \in tried \cup NoMac
  PROVE  Tries' /\ GaveUpAfterAll'
<1>0. NetTryCount \in Nat /\ eth_current \in Devs
  BY Zenon DEF TypeOK
<1>1. CASE GiveUp(t)
  <2>1. /\ NetState' = "FAIL" /\ gaveup' = 1 /\ NetTryCount >= retrycnt
        /\ UNCHANGED <<NetTryCount, eth_current, tried, skipped>>
    BY Zenon, <1>1 DEF GiveUp, againVars
  <2>2. ASSUME skipped = 0 PROVE Devs \ NoMac \subseteq tried
    <3> SUFFICES ASSUME NEW x \in Devs \ NoMac, x \notin tried PROVE FALSE
      BY Zenon
    <3>1. Ahead(x) /\ Place(x, eth_current) \in 0 .. NDev - 1
      BY Zenon, <1>0, <2>2, PlaceRange DEF Tries
    <3> QED
      BY <1>0, <2>1, <3>1, DevAssumption, CountAssumption DEF Ahead
  <2> QED
    BY Zenon, <2>1, <2>2 DEF Tries, GaveUpAfterAll
<1>2. CASE TryAnother(t, s)
  <2>1. gaveup' = gaveup /\ (skipped' = 0 => ~Skips(s) /\ s = "CONTINUE" /\ skipped = 0)
    BY <1>2 DEF TryAnother, Skips
  <2>2. NetState' = "CONTINUE" /\ s = "CONTINUE" => timeHandler' = "again"
    BY Zenon, <1>2 DEF TryAnother
  <2>3. tried \subseteq tried'
    BY Zenon, <1>2 DEF TryAnother
  <2>4. skipped' = 0 => \A x \in Devs \ NoMac : x \in tried' \/ Ahead(x)'
    BY Zenon, <1>2, <2>1, AgainTries DEF Tries
  <2>5. Tries'
    BY Zenon, <2>1, <2>2, <2>4 DEF Tries
  <2>6. GaveUpAfterAll'
    BY Zenon, <2>1, <2>3 DEF GaveUpAfterAll
  <2> QED
    BY Zenon, <2>5, <2>6
<1> QED
  BY Zenon, <1>1, <1>2 DEF NetStartAgain

\* Tries is kept by every step, and no command gives up too early.
LEMMA TriesNext ==
  ASSUME ethrotate = 1, retrycnt > NDev, TypeOK, Marks, Tries, GaveUpAfterAll, [Next]_vars
  PROVE  Tries' /\ GaveUpAfterAll'
<1>0. /\ NetTryCount \in Nat /\ eth_current \in Devs
      /\ timeHandler = "again" => packetHandler = "ignore"
  BY Zenon DEF TypeOK, Marks
\* A step within NetLoop that changes neither devices nor counters.
<1>1. ASSUME UNCHANGED <<eth_current, NetTryCount, tried, gaveup, skipped>>, loop # "cmd",
             InLoop' /\ NetState' = "CONTINUE" /\ timeHandler' # "again" /\ skipped = 0
               => eth_current \in tried
      PROVE  Tries' /\ GaveUpAfterAll'
  <2>1. \A x : Ahead(x)' = Ahead(x)
    BY Zenon, <1>1 DEF Ahead, Place
  <2> QED
    BY Zenon, <1>1, <2>1 DEF Tries, GaveUpAfterAll
<1>2. CASE UNCHANGED vars
  <2>1. UNCHANGED <<eth_current, NetTryCount, tried, gaveup, skipped, loop, NetState, timeHandler>>
    BY Zenon, <1>2 DEF vars, loopVars, protoVars, againVars, devVars, history
  <2>2. \A x : Ahead(x)' = Ahead(x)
    BY Zenon, <2>1 DEF Ahead, Place
  <2> QED
    BY Zenon, <2>1, <2>2 DEF Tries, GaveUpAfterAll, InLoop
<1>3. ASSUME NEW p \in Protocols, NEW d \in Devs, NetLoopStart(p, d)
      PROVE  Tries' /\ GaveUpAfterAll'
  <2>1. /\ NetTryCount' = 1 /\ gaveup' = 0 /\ loop' \in {"cmd", "restart"}
        /\ \E fails : eth_current' = Fwd(d, Steps(d, fails))
    BY Zenon, <1>3 DEF NetLoopStart, EthInit
  <2>2. eth_current' \in Devs
    BY Zenon, <2>1, InitType
  <2>3. ASSUME NEW x \in Devs PROVE Ahead(x)'
    <3>1. Place(x, eth_current') \in 0 .. NDev - 1 /\ (Place(x, eth_current') = 0 => x = eth_current')
      BY Zenon, <2>2, <2>3, PlaceRange
    <3>2. Place(x, eth_current') = Place(x, eth_current)'
      BY Zenon DEF Place
    <3> QED
      BY <2>1, <3>1, <3>2, DevAssumption DEF Ahead
  <2> QED
    BY <2>1, <2>3 DEF Tries, GaveUpAfterAll, InLoop
<1>4. CASE Begin
  <2>1. CASE NotConfigured
    BY Zenon, <2>1 DEF NotConfigured, Tries, GaveUpAfterAll, history
  <2>2. CASE DeviceNotConfigured
    BY Zenon, <2>2, AgainGaveUp DEF DeviceNotConfigured, InLoop
  <2>3. CASE Start
    <3>1. /\ loop = "restart" /\ loop' = "rx" /\ tried' = tried \cup {eth_current}
          /\ UNCHANGED <<eth_current, NetTryCount, gaveup, skipped>>
      BY Zenon, <2>3 DEF Start, devVars
    <3>2. \A x : Ahead(x)' = Ahead(x)
      BY Zenon, <3>1 DEF Ahead, Place
    <3> QED
      BY Zenon, <3>1, <3>2 DEF Tries, GaveUpAfterAll
  <2> QED
    BY Zenon, <1>4, <2>1, <2>2, <2>3 DEF Begin
<1>5. CASE Packet
  <2>1. InLoop /\ InLoop' /\ loop # "cmd"
    BY Zenon, <1>5 DEF Packet, ArpReply, ConfigReply, PingReply, TftpBlock, TftpFails, TftpAgain, Receive, InLoop
  <2>2. CASE ArpReply
    BY Zenon, <1>1, <2>1, <2>2 DEF ArpReply, protoVars, againVars, devVars, history, Tries
  <2>3. ASSUME NEW k \in {"BOOTP", "RARP"}, ConfigReply(k) PROVE Tries' /\ GaveUpAfterAll'
    <3>1. timeHandler # "again" /\ NetState' \in {"SUCCESS", NetState}
      BY Zenon, <1>0, <2>3 DEF ConfigReply, Receive
    <3> QED
      BY Zenon, <1>1, <2>1, <2>3, <3>1 DEF ConfigReply, againVars, devVars, history, Tries
  <2>4. CASE PingReply \/ TftpBlock(TRUE) \/ TftpBlock(FALSE) \/ TftpFails
    <3>1. timeHandler # "again" /\ NetState' \in {"SUCCESS", "FAIL", NetState}
      BY Zenon, <1>0, <2>4 DEF PingReply, TftpBlock, TftpFails, Receive
    <3>2. UNCHANGED <<eth_current, NetTryCount, tried, gaveup, skipped>>
      BY Zenon, <2>4 DEF PingReply, TftpBlock, TftpFails, againVars, devVars, history
    <3> QED
      BY Zenon, <1>1, <2>1, <3>1, <3>2 DEF Tries
  <2>5. CASE TftpAgain
    <3>1. timeHandler # "again" /\ NetStartAgain(timeHandler, NetState)
      BY Zenon, <1>0, <2>5 DEF TftpAgain, Receive
    <3> QED
      BY Zenon, <2>1, <3>1, AgainGaveUp DEF Tries, Skips
  <2> QED
    BY Zenon, <1>5, <2>2, <2>3, <2>4, <2>5 DEF Packet
<1>6. CASE Abort
  BY Zenon, <1>6 DEF Abort, Tries, GaveUpAfterAll, history
<1>7. CASE ArpCheck \/ NoTimeout
  <2>1. InLoop /\ InLoop' /\ loop # "cmd"
    BY Zenon, <1>7 DEF ArpCheck, NoArpTimeout, ArpTimeout, NoTimeout, InLoop
  <2>2. CASE NoArpTimeout \/ NoTimeout \/ (ArpTimeout /\ ~ArpRunsOut)
    <3>1. UNCHANGED <<eth_current, NetTryCount, tried, gaveup, skipped, NetState, timeHandler>>
      BY Zenon, <2>2 DEF NoArpTimeout, NoTimeout, ArpTimeout, protoVars, againVars, devVars, history
    <3> QED
      BY Zenon, <1>1, <2>1, <3>1 DEF Tries
  <2>3. CASE ArpTimeout /\ ArpRunsOut
    <3>1. NetStartAgain(timeHandler, NetState)
      BY Zenon, <1>0, <2>3 DEF ArpTimeout
    <3> QED
      BY Zenon, <2>1, <3>1, AgainGaveUp DEF Tries, Skips, InLoop
  <2> QED
    BY Zenon, <1>7, <2>2, <2>3 DEF ArpCheck
<1>8. CASE Timeout
  <2>1. InLoop /\ InLoop' /\ loop # "cmd"
    BY Zenon, <1>8 DEF Timeout, PingTimeout, RequestTimeout, TftpTimeout, startAgainTimeout, Expires, InLoop
  <2>2. CASE PingTimeout \/ startAgainTimeout
    BY Zenon, <1>1, <2>1, <2>2 DEF PingTimeout, startAgainTimeout, againVars, devVars, history
  <2>3. CASE RequestTimeout("BOOTP") \/ RequestTimeout("RARP") \/ TftpTimeout
    <3>1. timeHandler # "again"
      BY Zenon, <2>3 DEF RequestTimeout, TftpTimeout, Expires
    <3>2. \/ NetStartAgain("none", NetState)
          \/ UNCHANGED <<NetState, eth_current, NetTryCount, tried, gaveup, skipped>>
      BY Zenon, <2>3 DEF RequestTimeout, TftpTimeout, againVars, devVars, history
    <3>3. CASE NetStartAgain("none", NetState)
      BY Zenon, <2>1, <3>1, <3>3, AgainGaveUp DEF Tries, Skips
    <3>4. CASE UNCHANGED <<NetState, eth_current, NetTryCount, tried, gaveup, skipped>>
      BY Zenon, <1>1, <2>1, <3>1, <3>4 DEF Tries
    <3> QED
      BY Zenon, <3>2, <3>3, <3>4
  <2> QED
    BY Zenon, <1>8, <2>2, <2>3 DEF Timeout
<1>9. CASE Switch
  <2>1. loop # "cmd" /\ UNCHANGED <<eth_current, NetTryCount, tried, gaveup, skipped, NetState, timeHandler>>
    BY Zenon, <1>9 DEF Switch, GoOn, Restart, Return, protoVars, againVars, devVars, history
  <2>2. InLoop' => InLoop
    BY Zenon, <1>9 DEF Switch, GoOn, Restart, Return, InLoop
  <2> QED
    BY Zenon, <1>1, <2>1, <2>2 DEF Tries
<1> QED
  BY Zenon, <1>2, <1>3, <1>4, <1>5, <1>6, <1>7, <1>8, <1>9 DEF Next

\* With rotation, and more retries than there are devices, a command that gives
\* up has tried every device that has an address, whichever init functions fail
\* and however often, unless a second restart of one round, or one in the pause,
\* has skipped one.
\* As many retries as devices are not enough: the second restart of a round may
\* then be the one that gives up.
THEOREM GivesUpLast ==
  ASSUME ethrotate = 1, retrycnt > NDev
  PROVE  Spec => []GaveUpAfterAll
<1>1. Init => Marks /\ Tries /\ GaveUpAfterAll
  BY DevAssumption DEF Init, Marks, Tries, GaveUpAfterAll, Devs
<1>2. TypeOK /\ Marks /\ Tries /\ GaveUpAfterAll /\ [Next]_vars
        => Marks' /\ Tries' /\ GaveUpAfterAll'
  BY Zenon, MarksNext, TriesNext, ethrotate = 1, retrycnt > NDev
<1> QED
  BY <1>1, <1>2, Types, PTL DEF Spec
=============================================================================
