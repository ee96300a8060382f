# A TLA+ verification of U-Boot for the Sam460ex

The repository is the boot loader of the ACube Sam460ex (AMCC PPC460EX): U-Boot
with the board's own menu, boot commands and drivers.  The program runs
on one processor without threads.  What makes it hard is what happens around
and underneath the one flow of control: interrupts and DMA, packets that are
lost, repeated or late, time-outs, call-backs that restart the operation they
were called from, and power that fails in the middle of a write.

The modules here model six parts of it: the receive and the transmit side of the
Ethernet driver, the latter with the timer, the TFTP client, the loop that drives
all network commands, the environment with its EEPROM, and USB mass storage.  Each
is checked with TLC on a small instance, and its main invariants are proved with
TLAPS for all values of the constants (for TFTP, in the two settings section 4 names).

## 1. Inventory

The lines from the Ethernet driver to USB mass storage are modelled, the rest is
listed with the reason in section 5.  `PROJECT.json` has the same list with all
file names.

| part | state | operations | what is hard |
|---|---|---|---|
| EMAC driver, receive (`drivers/net/4xx_enet.c`) | descriptor ring, `rx_slot`, `rx_i_index`, `rx_u_index`, `rx_ready` | `enetInt`, `enet_rcv`, `mal_err`, `ppc_4xx_eth_rx`, `_init`, `_halt` | DMA and interrupt handler run between the steps of `eth_rx`; re-initialisation from inside of it |
| EMAC driver, transmit | the descriptor, its buffer, `EMAC0_TMR0` | `ppc_4xx_eth_send`, `mal_err`, `_init` | a wait for a clock that stands still while interrupts are off |
| Timer and interrupts (`interrupts.c`, `lib/time.c`) | `timestamp`, `MSR_EE` | `timer_interrupt`, `enable_`/`disable_interrupts` | nesting; every time-out depends on it |
| Device list (`net/eth.c`) | ring of devices, `eth_current`, `NetRestartWrap` | `eth_register`, `eth_init`, `eth_halt`, `eth_try_another` | rotation while a transfer is running |
| Network loop (`net/net.c`) | `NetState`, `packetHandler`, `timeHandler`, ARP wait | `NetLoop`, `NetReceive`, `ArpTimeoutCheck`, `NetStartAgain`, ping | three places in one round may restart the command |
| BOOTP, RARP (`net/bootp.c`, `net/rarp.c`) | `BootpTry`, `RarpTry` | request, reply, time-out | chain to the TFTP transfer |
| TFTP (`net/tftp.c`) | state, ports, block, wrap offset, block size | `TftpStart`, `TftpSend`, `TftpHandler`, `TftpTimeout`, `store_block` | lost, repeated, late packets; 16-bit block counter |
| Environment (`common/cmd_nvedit.c`, `env_common.c`, `env_eeprom.c`) | data and CRC in RAM and EEPROM, copies in `bd_t` and `net.c` | `setenv`, `saveenv`, `env_init`, `env_relocate`, `NetInitLoop` | overflow half way, stale copies, power failure |
| EEPROM command (`common/cmd_eeprom.c`) | page writes | `eeprom_write` | page wrap, failing pages |
| USB mass storage (`common/usb_storage.c`, parts of `usb.c`, `ehci-hcd.c`) | `CBWTag`, retries, data toggles, halted endpoints | `usb_stor_BBB_transport`, `_reset`, `usb_stor_read`, `_write`, `_get_info` | an error or a stall at any message, recovery in several messages, retries in every caller |
| Console, stdio, iomux | registered devices, `stdio_devices[3]` | register, deregister, assign | sequential |
| Shell, autoboot, boot menu (`board/ACube/menu/`) | stack of menus, countdown | key handling, save on exit | sequential |
| `boota`/`bootu`, `bootm`, `lmb.c` | boot devices, reserved memory | try the devices, load, reserve | sequential |
| IDE, SATA (`sam_ide.c`, `sata_dwc.c`) | command state | issue, poll, reset | register polling |
| USB enumeration, hubs, keyboard | device table | enumerate, poll | descriptor parsing |
| PCI, video and BIOS emulator, file systems, board set-up | | | straight-line hardware set-up or sequential data processing |

How they interact: a network command calls `NetLoop`, which initialises a
device through `eth.c`, starts the protocol and goes round: `eth_rx` (which
calls `NetReceive` for each queued buffer, which calls the protocol's handler),
the ARP check, the time-out, and a switch on `NetState`.  Handlers and time-outs
may call `NetStartAgain`, which halts the device and initialises the next one.
The protocols send through `ppc_4xx_eth_send`, from time-outs with interrupts on
and from packet handlers with interrupts off.  The settings come from the
environment through `NetInitLoop`.

## 2. Modules

| module | models | extended by |
|---|---|---|
| `EmacRx` | receive side of `4xx_enet.c` | `EmacRxProofs` |
| `RxQueue` | what the receive side promises: a bounded queue (abstract) | instantiated by `EmacRx` |
| `EmacTx` | transmit side of `4xx_enet.c`, `MSR_EE`, `interrupts.c` | `EmacTxProofs` |
| `Tftp` | `tftp.c` in `NetLoop`, with a server and a network | `TftpPacketProofs`, `TftpProofs` |
| `NetLoop` | `net.c`, `eth.c`, and of `tftp.c`, `bootp.c`, `rarp.c` what they do to the loop | `NetLoopProofs` |
| `Env` | `cmd_nvedit.c`, `env_common.c`, `env_eeprom.c`, `cmd_eeprom.c`, `NetInitLoop` | `MCEnv`, `EnvProofs`, `EnvLayoutProofs` |
| `UsbStorage` | bulk-only transport and its callers in `usb_storage.c`, toggles of `usb.c` and `ehci-hcd.c`, the device | `UsbStorageProofs` |

Constants are numbers and small sets given in the `.cfg` files; `MCEnv` defines
the functions and sequences `Env` needs.  Definitions whose comment begins with
"Mutant" are not part of the specifications: each is a plausible slip in the
code that one of the properties is known to catch.

### EmacRx

Variables have the names of the driver's (`rx_slot`, `rx_ready`, `pkts_rx`...).
`full` is the set of descriptors whose EMPTY bit is clear, `mal` the descriptor
the DMA engine (MAL) will fill, `eob` and `rxde` its interrupt requests.  The MAL
is external hardware: it fills the ring in order and stops at a descriptor that
is not EMPTY.  `ppc_4xx_eth_rx` is cut where an interrupt can change what it
reads next; the loop of `enet_rcv` is one action per descriptor, because the MAL
goes on meanwhile.  `NetReceive` runs with `MSR_EE` off, so no interrupt comes
between its beginning and the point where the code restores it.

The variable `faults` records what has disturbed the ring since the last
initialisation outside of `eth_rx`: a frame with an error, a restart from inside
`NetReceive`, or a descriptor error that interrupts `eth_rx` after it has read
`rx_ready`.  The properties say which of these they tolerate; all of them occur
in the run.  `RingReset` does not fail half-way.  Of the returns of `ppc_4xx_eth_init`
with an error behind the point where it begins to reset the ring, those for a fixed PHY
and for an unknown speed cannot happen on this board (its PHYs are at addresses 0 and 1;
`miiphy_speed` returns 10, 100 or 1000 whatever it reads), and the one for a `malloc` that
fails is met only in the first initialisation of a device, before it has a ring.

`RxQueue` is the abstract view: `Put`, `Take`, `Done` and `Reset` on a sequence of
frames with `Capacity` places, and `Disturb`, after which nothing is promised until
the next `Reset`.  The refinement mapping in `EmacRx` reads the queue
off the ring, from the descriptor `eth_rx` looks at next to the one the MAL fills
next, whether the interrupt handler has queued them or not; `live` is 0 while
`faults` is not empty.  Interrupts, indices and `rx_ready` are invisible there.

### EmacTx

There is one descriptor and one buffer, and a frame is the number of the call that
copied it.  `ppc_4xx_eth_send` is cut between the copy, the READY bit and `GNP0`, and
each turn of its wait is an action.  The MAL and the EMAC (external) may fetch a frame,
send it, end it with an error, report a descriptor error or be stuck.  A frame that ended
with an error (collisions, no carrier, an underrun) is in `lost`: READY and `GNP0` are
cleared as for a good one, the status bits of the descriptor are not read by `send`, and
`EMAC0_IER` enables no interrupt for them.  `ee` is `MSR_EE`; interrupts (`timer_interrupt`, `mal_err`) need it, and
functions that save and restore it (`eth_rx`, `eth_init`) nest as they do in the
code.  `timestamp` counts modulo `TMOD` and only `timer_interrupt` advances it.
`Restart` is an initialisation from NetLoop or from a handler, and may fail at the
three returns that leave interrupts off; the module lets that happen in every
initialisation, which covers the one case that is left on this board (see `EmacRx`).  `late`, `spoilt` and `stopped` record
time-outs, sends that were disturbed, and such a return.

### Tftp

A unit of memory stands for some bytes, the unit at file offset `u` has the
value `u + 1`; block sizes are in units.  A packet is a triple.  The client's
actions are the branches of `TftpHandler`, `TftpTimeout`, `startAgainTimeout` and
the switch of `NetLoop`.  The server follows RFC 1350 and 2347 (external): it may
answer a repeated request with a second transfer, accept the block size, or only the
time-out, or no option, repeat any block, and send an error.  `Network` says what can happen to packets besides loss: with "once"
and "repeat" each direction holds the packet sent last, which is delivered at
most once or any number of times; with "reorder" all packets sent so far may
arrive in any order and any number of times.

`PortReuse` and `Wraps` select the environment of the client: whether two
attempts can draw the same local port (the code takes it from the millisecond
counter), and whether `NetRestartWrap` is set after `eth_try_another`, which
is always so with one interface.

### NetLoop

One action per step of a round of `NetLoop`, for the commands TFTP, ping, BOOTP
and RARP, over a ring of `NDev` devices.  `eth_init` and its calls of
`eth_try_another` are one step that ends at the first device whose init function
does not fail.  `Errors = 1` lets the server send errors and wrong first blocks,
which make a handler call `NetStartAgain`.  `tried`, `round`, `gaveup`, `skipped` and
`initFailed` are history: which devices have been used in this command and since the
last pause, whether it gave up, whether a device was selected and never started (by a
second restart in a round, or by one in the pause: the ARP wait of the abandoned attempt
goes on and may run out there, `Skips`), and whether an init function has ever failed.
`SlowTimer = 1` is a `tftptimeout` of ten seconds or more, with which the ARP wait can run
out before the pause is over.  A restart may also end at `net_check_prereq`:
`eth_try_another` sets `ethact`, so that `NetInitLoop` reads the addresses again.

### Env

The environment is an array of cells in which a variable takes `Size[n][v]`
cells and one for its NUL, with a closing NUL behind the last one.  Scans for a name
look at the cell at the beginning and at each cell behind a NUL (`Starts`), and the end
is the first double NUL (`Used`); `_do_setenv` deletes by moving the rest down and
appends at the end, as the code does.  `Sound` says what an environment is: closed
inside the buffer, every definition complete, none twice.  The default environment is
assumed to be one (`DefaultAssumption`), as that of `include/configs/Sam460ex.h` is.  The
checksum is modelled by the data it was computed for: it fits exactly if it is
equal to the data (collisions are left out).  `saveenv` and the `eeprom` command
run `eeprom_write`, one action per page chunk; each chunk may fail, and a reset
may come between any two.

`cache` is what `setenv` copies elsewhere (`bi_ip_addr`, `load_addr`, `BootFile`), `net` what
`NetInitLoop` has read.  `setenv` is not the only writer of these: a loader notes where it
put a file (`Load`), a network command takes its load address and its file from the
environment or from its arguments (`netboot_common`), and BOOTP and RARP clear `NetOurIP` and
set it and others from the reply (`Lease`), which reaches the environment only if the whole
command succeeds.  `told` and `leased` are history: the copies that were written in this way
since they were last taken from their variable.  `promise` and `saved` are history: what a `saveenv`
that returned 0 was called with, and all that was handed to it since.

### UsbStorage

One action is one USB message with what the host makes of its outcome.  The callers
(`usb_stor_read` and `_write` with chunks of `USB_MAX_XFER_BLK` blocks, `_get_info`
with `usb_inquiry`, `usb_test_unit_ready` and `usb_read_capacity`) decide at the end
of a command (`pc` "good" or "failed") what comes next.  The device (external) takes a
command only when it has none, answers with the tag it was given, may stall, move
less than it was asked to, keep an old status, die, or lose its medium.  A transaction
error may strike after any packet.  `ehci_submit_async` reports one as CRC error and stall
together, so that `usb_stor_BBB_transport` may take it for a stall and go on to the STATUS
phase while the device still has data to send (`CswData`): `pc' \in {"stallData", "reset"}`.
Host and
device keep a toggle per endpoint, and a packet with the wrong one is acknowledged and
dropped, as the standard says.  `sameNumber` is 1 for devices whose two endpoints have
the same number: there a CLEAR FEATURE that is meant for IN clears OUT; other devices
refuse it.  Every error of the bus and every misbehaviour of the device is a fault and
counted.  `hides` says how many of them a call must hide, from the state it started in.

## 3. Runs

The numbers are distinct states; the longest run takes about two minutes.

| run | config | asks | result |
|---|---|---|---|
| `emac_rx` | 4 descriptors, 6 frames, 2 provoked initialisations, fair | is the ring a queue under all interleavings and faults; is every frame handed over (liveness); does it implement `RxQueue` | holds, 87,181 states |
| `emac_rx_bad_frame_strands` | same | does `enet_rcv` "do all" after a bad frame | **violated** |
| `emac_tx` | counter modulo 5, time-out 2, 3 frames, 2 initialisations, fair | does `MSR_EE` nest, is the buffer stable, what does the returned length mean, is a time-out never early, does `send` end | holds, 566,415 states |
| `tftp` | 3 units, blocks of 1 or 2, counter of 8, 2 transfers, "reorder" | is a successful transfer complete, is an acknowledged block stored | holds, 1,590,384 states |
| `tftp_wrap` | 5 units, counter of 4, "once", fair | the same for a file longer than the counter; does `NetLoop` always return | holds, 146,216 states |
| `tftp_wrap_repeat` | same with "repeat" | the same with repeated packets | **violated** |
| `netloop` | 3 devices, 4 protocols, 2 commands, 5 retries, one device that may fail and one without address, fair | which device runs, is there always a time-out, are all devices tried before a pause and before giving up, does every command end | holds, 276,610 states |
| `netloop_once` | 2 devices, `netretry=once` | is "once" once per device | **violated** |
| `env` | 5 cells, pages of 4, 3 operations | `setenv`, the copies, `eeprom_write`, and what a start finds after any reset | holds, 69,214 states |
| `env_overflow_save` | same | does a saved environment come back, also after an overflow | **violated** |
| `usb_storage` | 2 calls of 3 blocks in chunks of 2, 3 faults, tags modulo 2 | is the count that is returned true, how many faults are hidden, does every call end | holds, 2,758,499 states |
| `usb_stall` | same | is a stalled endpoint cleared | **violated** |

The type invariant of `EmacRx`, `EmacTx`, `Tftp` and `UsbStorage` is a conjunct of the
inductive invariant `IInv`, which `emac_rx`, `emac_tx`, `tftp` and `usb_storage` check.

`CHECK_DEADLOCK FALSE` is used where the system stops: a command that has
returned, or a bound that is used up.

### What the violations show

* `enet_rcv` (`4xx_enet.c:1815`) gives a bad frame's descriptor back without
  stepping past it.  The MAL has moved on, so later frames lie in the ring and
  are queued only after the MAL has gone all the way round.  The comment on the
  loop says "do all".
* `TftpHandler` (`tftp.c:362`) adds to the wrap offset for every packet with
  block number 0, before it looks whether the packet is a repetition.  After a
  repeated block 0 all later blocks are stored 65536 blocks too far, and the
  transfer is reported as complete.
* `NetStartAgain` (`net.c:578`) counts from 1, so that `netretry=once` gives up
  after the first interface.  `README.u-boot:3162` says that it fails "when all
  the available network interfaces are tried once without success".
* `_do_setenv` (`cmd_nvedit.c:338`) returns from an overflow after it has deleted
  the old value and without updating the checksum.  A `saveenv` that follows
  returns 0, and the next start discards the whole environment.
* `usb_stor_BBB_clear_endpt_stall` (`usb_storage.c:650`) sends CLEAR FEATURE with the
  bare number of the endpoint, without the direction bit that `usb_clear_halt` adds.
  For the IN endpoint this clears the OUT endpoint of the same number, if there is
  one, and reports success; the comment says "clear the STALL on the endpoint".
  Reset recovery and a retry follow, so that `FaultsHidden` holds all the same.

### Where properties are restricted, and why

Each restriction stands in the property or in a constant, and in the `hazards` of
`PROJECT.json`.  Lifting it makes TLC find a counterexample.

* `EmacRx`: `FifoSinceInit` and `AllQueued` hold until the ring is disturbed, and
  `BufferOwned` as long as no initialisation happens inside of `eth_rx`: then the
  code goes on with an index into a ring that has been reset.
* `EmacTx`: `InterruptState` until an initialisation called from NetLoop ends in an
  error, which leaves interrupts off for good; `BufferStable` and `LenMeansDone`
  until a send has timed out or was disturbed by an initialisation; `LenMeansDone` does not
  say that the frame has left, since an error of the EMAC ends the wait as well; `SendEnds` only
  while interrupts are on: a send from a packet handler waits for a clock that stands
  still, and without `ee = 1` in the property TLC finds that wait.
* `Tftp`: fresh ports (`PortReuse = FALSE`); a reused one accepts the data of the
  transfer before it.  `Wraps = {TRUE}` where packets are repeated: otherwise the
  handler goes on running after it asked for a restart.
* `NetLoop`: `GaveUpAfterAll` and `PauseAfterAll` except after a second restart in one
  round or one in the pause (`skipped`), which move on from a device that was not used;
  `CommandEnds` except when blocks keep coming for ever, each starting the time-out afresh; `PauseAfterAll` also only while no init
  function has failed (`initFailed`), since `first_failed` and `NetRestartWrap` are left
  over from earlier commands.  `HaltedAtReturn` does not speak of commands that failed.
* `Env`: a variable with a copy elsewhere that is no longer defined keeps that copy
  until the next reset, and one whose copy another command has written may differ from it
  until it is read again (`told` in `CacheCurrent`, `leased` in `NetCurrent`): after a BOOTP
  request that failed, `NetOurIP` is 0 although `ipaddr` is set.  `FreshComesBack` speaks of
  environments whose checksum fits when they are saved; `env_overflow_save` of all.
* `UsbStorage`: `CountIsTrue` excepts calls in which a command passed that moved less than
  it was asked for (`cut`), since neither the residue nor `data_actlen` is looked at: the
  device said so, or a transaction error in a read was taken for a stall and the last packet
  of data, sent again, was dropped for its toggle before the CSW.
  `NoMediumIsTrue` excepts a REQUEST SENSE that failed (`senseFresh`): its result is
  ignored and old sense data is used.  `FaultsHidden` promises one fault less to a call
  that starts with host and device out of step, and nothing without a medium; it promises
  the full count, and `CountIsTrue` says when the blocks are there.

### Why the bounds are enough

* A ring of 4 with 6 frames wraps each index, has queued, pending and empty
  descriptors at once, and lets a frame be bad at any position; 2 provoked
  initialisations are one that disturbs and one that repairs.
* Two server transfers are the least number for a packet of the wrong one; 3
  units with blocks of 1 and 2 give a file that ends with an empty block and
  one that ends with a short one.  A counter of 4 with 5 units wraps once
  and goes on behind the wrap.
* Three devices are the least number for which a device can be skipped without
  the one before or after it being the first; 2 commands let state of one command
  reach the next.  Three ARP tries are one that is repeated and one that runs out.
* A counter modulo 5 with a time-out of 2 wraps inside a wait; 3 frames are one that
  times out, one that finds its remains and one after both.
* Three blocks in chunks of 2 give a full and a short chunk; 3 faults are one more than
  a call has to hide; tags modulo 2 wrap within a chunk and its retry; the second call
  starts from any disorder that the first one can leave.
* Five retries go once round three devices, pause, and start on the second round.
* Five cells hold two short variables or one long one, so that overflow, an
  exactly full environment, and deletion of the first, last and only variable
  occur; a page of 4 splits the EEPROM inside the data.  Three operations (writes to the
  environment, to its copies or to the EEPROM; starts, resets and `NetInitLoop` are not
  counted) are an overflow, the `saveenv` after it and one more.

### Fairness

* `EmacRx`: weak fairness of the interrupt handler and of the steps of `eth_rx`.
  Interrupts are level-triggered and `NetLoop` calls `eth_rx` in an endless loop.
  The MAL has none: frames need not arrive.
* `EmacTx`: weak fairness of the steps of `send` and of the timer interrupt, which is
  only enabled while `ee` is 1.  At most `MaxLag` timer interrupts come between two
  turns of the wait: the loop reads the clock more often than the counter wraps.
  The transmitter has none: it may be stuck.
* `Tftp`, `NetLoop`: weak fairness of the steps of the loop, and strong fairness
  of an expiring time-out: rounds without expiry disable it for a moment, but a
  time-out that stays installed is compared with the clock in every round.  A data block
  starts the time-out of TFTP afresh, so it need not expire while blocks keep coming:
  in `NetLoop`, where a transfer has no length, strong fairness is assumed only of behaviours
  without blocks for ever (`BlocksForEver`); in `tftp_wrap` the file is finite and no block
  comes twice, so there are finitely many.  The ARP wait has no fairness of its own.  The
  server and the network have none.  That the clock runs is assumed; the two
  places where the code stops it are what `EmacTx` is about.
* `UsbStorage` needs none: by `Closer` each step of a call, other than a drive becoming
  ready, lowers a natural number.

## 4. Proofs

| theorem | for all | states |
|---|---|---|
| `EmacRxProofs!TypeCorrect`, `NeverQueuedTwice` | ring sizes, all faults | `TypeOK`, `QueuedOnce` |
| `EmacRxProofs!OwnedBuffer`, `Fifo`, `NoLostWakeup`, `Statistics` | ring sizes | `BufferOwned`, `FifoSinceInit`, `AllQueued`, `PktStats` |
| `EmacRxProofs!RingIsQueue` | ring sizes, all faults | `EmacRx` implements `RxQueue` (`ImplementsQueue`) |
| `EmacTxProofs!MsrNests`, `StableBuffer`, `LenIsDone`, `NoEarlyTimeout` | numbers of frames, faults, width of the counter, time-out | `InterruptState`, `BufferStable`, `LenMeansDone`, `TimeoutIsLate` |
| `TftpProofs!TransferIntegrity`, `AckAfterStore` | files, block sizes, transfers, retries, networks, in the first setting below | `Integrity`, `AckedStored` |
| `TftpProofs!WrapIntegrity`, `WrapTransferInv` | files of any length, block sizes, transfers, retries, rotations, in the second setting below | `Integrity`, `WrapInv` |
| `TftpProofs!AlwaysWatched` | all constants | `Watched` |
| `NetLoopProofs!OneDeviceRuns`, `AlwaysWatched`, `NoneLeftRunning`, `PauseMeansAll`, `Types` | all constants | `OnlyCurrentRuns`, `Watched`, `HaltedAtReturn`, `PauseAfterAll`, `TypeOK` |
| `NetLoopProofs!GivesUpLast` | numbers of devices, rotated, and of retries greater than that | `GaveUpAfterAll` |
| `EnvProofs!EepromInv`, `WritesExactly`, `NothingElseBoots`, `SaveIsDurable` | sizes of environment, page, I2C buffer, all commands | its `IInv`, `WriteExact`, `OnlySaved`, `FreshComesBack` |
| `EnvProofs!EnvironmentInv`, `Types`, `StaysWellFormed`, `SetenvDoesWhatItSays`, `CopiesAgree`, `NetAgrees` | sets of variables and values, their sizes, all commands and resets | `RamInv`, `TypeOK`, `WellFormed`, `SetenvMeaning`, `CacheCurrent`, `NetCurrent` |
| `UsbStorageProofs!TrueCount`, `RetriesHideFaults`, `NoMedium`, `CallsEnd` | numbers of blocks, tries, packets and faults, width of the tag | `CountIsTrue`, `FaultsHidden`, `NoMediumIsTrue`, `Closer` |
| `Invariance` of `EmacRxProofs`, `EmacTxProofs`, `UsbStorageProofs`; `TftpProofs!TransferInv` | as above | `IInv` |

**EmacRx.**  `FifoSinceInit` is not inductive, since it says nothing about frames
that are still in the ring.  `RingInv` does: counted from `rx_u_index` there are
first `Queued = pkts_rx - pkts_handled` queued descriptors, then `Pending` filled
ones, then empty ones; the frame at distance `d` is number
`base + pkts_handled + d + 1`; and pending ones have an interrupt on its way.  `OwnInv`
is what is left of it with bad frames.  `IInv` guards the two by `faults`, so that
an initialisation establishes them again.  The bounds `MaxFrames` and `MaxInits`
are arbitrary in the proofs.  The refinement follows from it action by action: the MAL's
store is `Put`, `eth_rx`'s step into `NetReceive` is `Take`, freeing the entry is
`Done`, and the interrupt handler's steps do not change the mapped queue.

**EmacTx.**  `IInv` ties the registers to the frame that is on its way: while `send`
works undisturbed, nothing older is in the transmitter, and a cleared `GNP0` means that
this frame is out or was ended with an error; and the wait that was counted is the difference of the two
readings of the counter modulo its width, which makes `TimeoutIsLate` arithmetic.

**Tftp.**  The first setting is `Setting` in `TftpPacketProofs`: fresh ports, one
interface, fewer blocks than the counter has values.  `IInv` adds to the two
properties `PortInv` (a restart uses a port that no packet on its way has),
`BoundInv` (once bound, the client uses its server's block size, and the other
transfers of the port have not been answered) and `StoredInv` (what the server has
moved past, and what the client would acknowledge again, is stored).
`TftpPacketProofs` has arithmetic, `store_block` and the branches that store nothing
new; `TftpProofs` has the branch of a new block, the other actions and the theorems.

The second setting, `WrapSetting`, lets the block counter wrap and `eth_try_another` rotate
the devices: fresh ports, and a network that loses packets and repeats none
(`Network = "once"`).  `tftp_wrap_repeat` shows why the last part is needed.  Block numbers say
little there, so the argument is that client and server are in step.  `InStep(c)` says that the
client has stored `c` blocks, the server has sent block `c` or `c + 1`, only block `c + 1` can
be on its way, an acknowledgement that would move the server on is for a block that is stored,
and the wrap offset is `c - c % SEQ` blocks.  `SentInv` says that one packet is on its way to
the server at most, and which packets to the client are from a live transfer.  Then no block
comes twice (`NeverOther`), and the next one is stored at its place on either side of a wrap
(`NextNumber`, `NextOffset`, `WrapStore`).

**NetLoop.**  `OnlyCurrentRuns` is inductive: each action that moves `eth_current`
halts first.  `HaltedAtReturn` is inductive relative to it.  `Watched` needs
`WatchedInv`, which follows the time-out through the places of a round where it is
cleared and set again.  `PauseAfterAll` needs `Rounds`: with places counted from
`first_failed`, all devices with an address before the one in use are in `round` whenever
a restart is due, the one in use is when it has been started, and all of them are where
the loop waits in a pause.  A pause's time-out that is still installed when a restart is
due goes with no device passed over that has an address.  `StepAlong` and `OneMore` are the
arithmetic of the ring; `Marks` holds the facts that need no history.

`GaveUpAfterAll` needs `Tries`: as long as no device was skipped, each device with an
address is in `tried`, or it is `Ahead`: the way along the ring from it to the device in use
is not shorter than `NetTryCount`, or it is in use and about to be tried.  A restart that
moves on by one adds one to both, and `eth_init` moves further only past devices that fail,
which are tried by that.  When `NetTryCount` exceeds `NDev` no device is `Ahead`.  The theorem supposes
`retrycnt > NDev`.  With `retrycnt = NDev` TLC finds a counterexample: the second restart
of a round gives up, and the device the first one has chosen has not been used.  (Without
rotation one device is used, and the property is not meant.)  That `eth_init` stops at the
first device that does not fail is `InitSteps`; it rests on `Least`: a set of naturals that
is not empty has a least element.

**Env.**  The invariant `IInv` (`EnvProofs`) says how far a running write has come,
that the EEPROM's checksum cell is junk or one that was handed to `saveenv`, and
that `promise`, when it is set, is what the EEPROM holds.  Chunks are proved to stay
inside one page, so that the device's wrap-around never happens.

The environment in RAM is the second half of `EnvProofs`.  `WellFormed` is not inductive: a start may take
its data from the EEPROM, and the checksum in RAM lags behind the data after an overflow.
`RamInv` therefore says of `data`, of `crc` and of everything in `saved` that it is an
environment, and `NothingElseBoots` closes the circle.  What `_do_setenv` does to the characters
is in `EnvLayoutProofs`, without a variable of the system.  `Layout(d, u)` says what `Sound` says
with the end `u` as a parameter, and without `Min`: the two are equivalent
(`LayoutSound`, `SoundLayout`).  `DeleteCuts` and `AppendCells` translate the sequences of
`Delete` and `Append1` into single cells; from there on everything is first-order.  Two
definitions do not overlap (`Apart`), so those before the deleted one stay and those behind it
move up together (`CutBegins`, `CutLayout`), which gives values and order
(`DeleteMeans`, `AppendMeans`); `CacheCurrent` and `NetCurrent` follow from those.

**UsbStorage.**  `IInv` says that `start`, `blks` and `ret` account for the blocks of the
call, that all before `start` are moved, and that in the STATUS phase a CSW that would be
accepted belongs to a command that has moved its whole chunk; an answer left over from an
earlier command (`stale`) is refused for its tag.  `Closer` is
proved with the weight `Measure`: 16 for each command the retries still allow, and
the number of messages the present one can still take.  A message
lowers the second part (`FewerMessages`), a caller's decision the first (`FewerCommands`).
`NoMedium` needs in addition that fresh sense data agrees with the medium.

`FaultsHidden` speaks of the end of a call only.  `Hiding` says at each message how things
stand.  `Unpaid` counts the faults of the call that no retry has paid for yet; a start out of
step counts as one.  With none, host and device keep to the protocol (`ByTheBook`: toggles
agree, no endpoint is halted, the device is in the phase the host thinks it is in).  With one,
reset recovery leaves the device fit to be asked for its sense data, and the REQUEST SENSE
leaves both in step (`Recovering`); then the retry pays.  `KeepsToTheBook`, `FirstFault` and
`KeepsRecovering` are the three kinds of steps.

The named `ASSUME`s of the modules are the only assumptions: sizes are positive
numbers, sets of names fit together, the junk cell differs from all others, the default
environment is one.

Only model-checked: liveness (`FrameHandled`, `SendEnds`, `Terminates`, `CommandEnds`),
which TLAPS does not reach.  `AckedStored` reads an acknowledgement's number as the number of a
block of the file, so it is stated for files shorter than the counter only; behind a wrap its part is
taken by `InStep`.  Theorems that take a predicate as a parameter, such as the library's
induction principles, cannot be used with the provers at hand; where an argument needs
induction on numbers (`Least`), it goes through a smallest element of a set.

## 5. Not modelled

* Console and stdio devices, shell, menus, `boota` and `bootu`, `bootm` with `lmb.c`:
  one thread of control, lists and tables that nothing else touches meanwhile.  Where
  they act on a modelled part they do so through its actions (`setenv`, `saveenv`, a
  network command, a read from a USB disk).
* IDE and SATA: polling of registers whose hardware the repository does not describe.
* USB enumeration, hubs, keyboard, the queues of the host controller, and the CB and
  CBI transports.
* File systems, partitions, images, video, the BIOS emulator: sequential processing
  of data.  PCI, clocks, PHY, DDR: register writes at start-up.
* Inside the modelled parts: PHY, clocks and bridge of the EMAC; multicast TFTP, NFS,
  DNS, SNTP, CDP and DHCP (not configured for this board); IP reassembly and checksums;
  `printenv` and the line editor of `askenv`; a second EEPROM read that fails after
  the first one succeeded; ports that two TFTP attempts share; data-cache maintenance
  around descriptors, which the models take to be right.

The repository is a whole U-Boot tree of more than half a million lines, nearly all of
it for other boards and processors, host tools, libraries and parsers.  What is
modelled is the part of the Sam460ex's program in which several actors meet.
