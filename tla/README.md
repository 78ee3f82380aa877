# A TLA+ verification of the RTL8812AU mesh driver

The repository is an out-of-tree build of the Linux `rtw88` driver reduced to
the RTL8812AU over USB, with changes for 802.11s mesh.  This directory holds
TLA+ specifications of its concurrent and stateful parts, TLC configurations
that check them on small instances, and TLAPS proofs of the results that matter
most for every instance.

    tlc -config UsbRxSafety.cfg MCUsbRx     checks one configuration
    tlapm UsbTxProofs.tla                   checks the proofs of a module

## 1. Inventory

| Component | State it keeps | Operations | What makes it correct |
|---|---|---|---|
| USB receive path (`usb.c`) | free queue, RX queue, `rx_cb[]` (URB + `rx_skb`), delayed resubmit work, RX work | URB completion, resubmit, retry worker, handler, probe, disconnect | a buffer has one owner; an empty slot is retried; teardown leaves nothing running |
| USB transmit path (`usb.c`) | `tx_queue[]`, `tx_work`, anchored URBs, callback contexts | `tx_write`, kick-off, handler, aggregation, completion, teardown | each frame is reported or freed exactly once; no completion after teardown |
| USB control transfers (`usb.c`, `hci.h`) | one buffer, one mutex, counters | register read and write, read-modify-write | a transaction is not mixed with another; only reads are retried, a bounded number of times |
| TX reports (`tx.c`) | queue of frames waiting for a firmware report, sequence counter, purge timer | enqueue, report, purge | a report is credited to the frame it is about |
| Core life cycle (`main.c`, `mac80211.c`), power save (`ps.c`) | device mutex, flags, works, LPS state | start, stop, IPS, LPS, watchdog, scan | powered iff not idle; no work runs on a stopped device; firmware and driver agree on the mode |
| Stations, ports, keys (`main.c`, `mac80211.c`, `sec.c`) | `mac_id_map`, `hw_port`, CAM map | add, remove, change, set key | no id, port or CAM entry used twice, none leaked |
| Firmware interface (`fw.c`, `mac.c`) | program memory, H2C boxes, reserved pages | download, H2C box write, page download, beacon update | a download can be repaired; commands arrive once and in order; a location holds the frame it is said to hold |
| Probe and disconnect (`usb.c`, `main.c`) | what has been acquired | probe, failure paths, mode switch, disconnect | everything acquired is released once, in order |
| Queues and frames (`tx.c`, `usb.c`, `mac80211.c`) | list of software queues, block ack sessions, queue mapping | wake, empty, aggregate, choice of queue, rate and endpoint | no frame is forgotten; every queue is served; group frames and handshakes keep their place |
| Coexistence (`coex.c`) | facts about WLAN and Bluetooth, seven delayed works | notifications, reports, decision | a passing condition ends; the last decision is on the facts of now |
| Receiver gain, CCK threshold (`phy.c`, `rtw88xxa.c`) | IGI history, damping, CCK level | periodic algorithms | what is written is what is believed, in range, and the weakest peer is heard |
| TX power (`phy.c`, `rtw88xxa.c`), domain (`regd.c`), SAR (`sar.c`) | limits, domain, swing | notifier, SAR, channel, tracking | no rate above what board, domain and SAR allow |
| Rates (`main.c`, `phy.c`) | mask and level of each peer, response rates | join, watchdog, user's mask, report | what the firmware was told catches up; a rate is left |
| Power sequences (`rtw88xxa.c`, `mac.c`, `rtw8812a_table.c`) | the registers that switch things on | power on, power off, the probe's pair | silent when off, complete when on, whatever times out |
| Channel and band (`rtw88xxa.c`) | fields of the RF and BB registers | `set_channel` | the registers depend on the channel, not on the way there |
| Calibration (`rtw8812a.c`) | registers set aside, measurements | IQK, LCK | everything is put back; results two measurements agree on |
| Efuse (`efuse.c`, `main.c`, `rtw88xxa.c`) | physical and logical map, fields | dump, decode, defaults | the map is what was programmed last; one front end |
| Tables (`rtw8812a_table.c`, `phy.c`) | - | conditional load, power by rate | the branch meant for the board; a power for every rate |
| RX descriptors (`rx.c`) | averages, counters | status, statistics | mac80211 accepts it; a signal counts for its peer |
| Beamforming (`bf.c`), WoWLAN (`wow.c`), LED, debugfs, helpers | - | - | not modelled, see 9 |

Interaction: mac80211 calls the operations of `mac80211.c` under
`rtwdev->mutex` (most of them); these write registers through the USB control
path and H2C commands; data frames go through `tx.c` to the USB transmit path;
completions and firmware reports come back asynchronously and are turned into
TX status; received data goes from the USB receive path through `rx.c` to
mac80211, or, for firmware events, to `c2h_work`, which feeds `Coex`,
`RateAdapt` and `TxReport`.  Two delayed works come back by themselves: the
watchdog, which runs the periodic algorithms, and the retry of the receive path.

## 2. Plan

Written, in this order, each with its map to the code:

1. `UsbRx`; `FrameCustody` and `UsbTx`, which implements it; `TxReport`;
   `StaKeys`; `Core`.
2. The host's side of the bus: `UsbCtrl`, `Probe`.
3. The chip: `Firmware`, `RsvdPages`, `TxQueues`, `TxDesc`, `CoexCases` and
   `Coex`, `Dig`, `CckPd`, `TxPower`, `RateAdapt`, `PowerSeq`, `Channel`, `Iqk`,
   `Efuse`, `PhyTables`, `RxStatus`.
4. Proofs.  Of 1 and 2 every invariant and every action property that a run
   checks has its theorem: `UsbRxProofs`, `UsbTxProofs`, `StaKeysProofs`,
   `CoreProofs`, and `HostProofs` for the parts of *HostRun*.
5. Of the chip: `FirmwareProofs` (`Firmware`, `PowerSeq`), `CoexProofs` (`Coex`,
   `CoexCases`, `TxPower`), `RadioProofs` (`Dig`, `CckPd`, `TxQueues`, `RateAdapt`,
   `Channel`, `Iqk`).  `Chip` puts together the parts that have proofs.

Left, most important first:

6. Abstract specifications for the two that have none: a pool whose buffers have
   one owner, implemented by `UsbRx`; a device that is off, starting, on or
   stopping, implemented by `Core`.
7. Compositions of the chip's parts that meet in one register: `Channel` with
   `TxPower` and `Iqk`, `Core` with `Coex`.

## 3. Conventions

An action is named for the function it models, or for the part of it between two
points where another context can see a difference: a lock taken or released, a
queue operation, a timer set, a wait.  Everything between two such points is one
step.  Definitions whose comment starts with "Mutant" are variants of the code
that are never part of a specification; they document, property by property, a
plausible mistake that the property excludes.

The kernel is modelled by its contract: a work item queued once runs once later
and not concurrently with itself; `cancel_work_sync` returns when the work
neither is queued nor runs; `destroy_workqueue` drains; `usb_kill_urb` refuses
new submissions and waits for the completion; when the driver is unbound the USB
core disables the endpoints and gives every URB back before `disconnect` is
called.  mac80211 calls one operation at a time, and its own state changes before
the call that tells the driver.

## 4. The modules

### UsbRx (`usb.c` 737-1000, 1166-1228, 1579-1602)

| State | Code |
|---|---|
| `heap`, `rx_free_queue`, `rx_queue` | the allocator, `rtwusb->rx_free_queue`, `rtwusb->rx_queue` |
| `rx_skb`, `urb` | `rx_cb[i].rx_skb`; is `rx_cb[i].rx_urb` with the controller? |
| `pc`, `at`, `buf`, `retry` | the locals of `rtw_usb_rx_resubmit`, for every context that may be in it: the completion of a slot, the worker, the probe thread |
| `rx_urb_work`, `working`, `todo` | the delayed work, its handler, the loops over the slots |
| `rx_work`, `hpc`, `hbuf`, `hcnt` | the RX handler |
| `phase`, `killing`, `ep_enabled` | probe and disconnect |

`rtw_usb_rx_resubmit` is modelled step by step (`ResubmitTake` to
`ResubmitLater`) because completion, worker and probe thread share no lock: the
only arbitration is `rx_skb == NULL`.  Contents and order of buffers are not kept.

*UsbRxSafety* (two slots, three buffers, one fault, batches of one) checks that
no two contexts fill one slot (`OneFiller`, `UrbBufferExclusive`), a buffer has
one place and is never lost (`OneOwner`), an empty slot is always remembered by
someone who will refill it (`EmptySlotRemembered`), and that disconnect leaves
nothing running and nothing leaked (`CleanTeardown`).  *UsbRxLive* (one slot,
three faults, a queue that overflows) checks that the handler is not left asleep
(`NoStrandedPacket`, for a backlog that one run of the handler can take: with more
than 200 buffers in a queue that may hold 512 the rest waits for the next URB),
that an emptied slot is with the hardware again, and that disconnect ends.

Constants that select a build or a hypothesis: `RETRY_IN_SETUP` allows the 10 ms
retry delay to expire before `rtw_usb_setup_rx` has visited every slot.  With it
*UsbRxSetupRace* shows two contexts in one slot (`usb.c:1213`).  `RX_TASKLET`
models kernels before 6.9, where the handler is a tasklet that nothing kills;
with `TRUE`, `NoPostFreeWork` does not hold.

### UsbTx (`usb.c` 393-640, 706-736, 1229-1262; `tx.c` 195-230, 700-726; `mac80211.c` 34-53)

Frames are numbered in the order they are written.  `tx_queue`, `urbs`, `tx_report`
and `outcome` are the places a frame can be; `head` and `ack` are the locals of
the handler (`skb_head`, `txcb->tx_ack_queue`), `hpc`, `hq`, `hlimit` its place.
Whether another frame fits the aggregate is left open, an aggregate buffer is the
model value `AGG`.  The report of the firmware is abstracted to "a report, or the
timer"; `TxReport` has the rest.

`FrameCustody` is what mac80211 may rely on, without queues, transfers or
threads: a frame is accepted, may go on air once, is given back once, and
"acknowledged" is said only of one that was on air.  `UsbTx` implements it with
`accepted` the frames written so far and `on_air` those that a transfer carried.

*UsbTxRun* (three frames, two endpoints, frame 3 asking for a status, aggregates
of two, one transfer, submission, aggregate or `txcb` that fails) checks that
implementation, and what it does not say: every frame is in exactly one place, the
frames of an endpoint stay in order, none is left without someone who will send
it, none is sent again, all is quiet before the state is freed, and disconnect
ends with every frame given back.

*UsbTxEarlyPurge* (`EARLY_PURGE`, the build for kernels before 6.13, which
includes the 6.12 of `docs/RELEASE_GATES.md`) finds the handler dereferencing NULL after the purge.
*UsbTxLateWork* (`LATE_TX_WORK`: `rtwdev->tx_work` still pending at
unregistration) finds work queued on a destroyed queue.

### TxReport (`tx.c` 158-285, `fw.c` 300-385, `main.c` 319-340, `usb.c` 404-440)

The completion of a transfer and the firmware's report are independent and come
in either order.  `ReportEnqueue` and `ModTimer` are two steps, as are the two of
the timer's handler and the three of `c2h_work` (successor read, unlink, handle):
the report may arrive between any two.

*HostRun*'s "report" part (two frames and two numbers, one stop) checks
that a waiting frame is always covered by the purge timer, waits once and
only while it has no outcome, that a report is not
forgotten, and that an ACK is told only of a frame that had one, as long as no
number was used twice: with 6 bits and no generation the code gives no more
(`ReportsSettle`); and that every frame is given back whatever the firmware does,
across a stop (`FrameSettles`).

### StaKeys (`mac80211.c` 118-330, 560-700; `main.c` 341-420, 2440-2570; `sec.c`)

Each operation is one action, as it runs under `rtwdev->mutex` from start to end;
the exception is `rtw_sta_remove`, split at `cancel_work_sync`.  `reg` is what
the registers of a port hold, so that a port switch that forgot one would show.
The swap at `main.c:2545` leaves the AID register of the two ports where it is;
nothing in the code reads that register back, and it is not part of `reg`.

*StaKeysSafety* (two interfaces, two stations, three MAC ids, two ports, four CAM
entries of which two are for group keys, so that ids and CAM run out) checks that
ids, ports and entries are those of their owners and no more, and that the default
port follows an interface whose port is switched.  One group key index is used by
both interfaces, as by a station with an AP beside it: its entry goes to whoever
set a key last and is cleared by whoever takes one away ("multiple interfaces?",
`mac80211.c:644`), so of a shared index `CamExact` says no more than that the entry
is empty or holds a key that is uploaded.  *StaKeysDeadlock* shows
`rtw_sta_remove` waiting, under the mutex, for a work that waits for it.

### Core (`main.c` 220-316, 1555-1666; `mac80211.c` 55-116, 191-266, 405-490; `ps.c`; `rtw88xxa.c` 709-763, 1015-1251)

| State | Code |
|---|---|
| `running`, `poweron`, `scanning`, `lps` | the bits of `rtwdev->flags` |
| `ps_enabled` | `rtwdev->ps_enabled` |
| `hw`, `fw_lps` | has the chip power; the power save mode its firmware was told |
| `mutex`, `op`, `cancel` | holder of `rtwdev->mutex`; the call in progress; the works `rtw_core_stop` has yet to cancel |
| `pending`, `cur` | mac80211's ordered work queue |
| `started`, `idle`, `type`, `assoc`, `ps` | what mac80211 has told, or is about to tell, the driver |

`rtw_core_stop` is the interesting part: it clears RUNNING, gives up the mutex,
cancels the works one after the other, takes the mutex again and powers off; all
works run in between.  `"coex"` stands for the eight delayed works of
`rtw_coex`.  `PowerOnFails` leaves the chip with power or without;
`PowerOff` may return early because `REG_CR` could not be read, and then leaves
POWERON set (the device then stays without RUNNING until the next
`rtw_core_start`, which the properties do not exclude).

*CoreSafety* (two interfaces; nothing else bounds it) checks that RUNNING never
outlives the power, that the watchdog is queued or running exactly while the device
runs, that a work reaches the registers only while the chip has power, that LPS
is used for a lone associated interface outside of a scan and that driver and
firmware agree on it, that `rtw_core_stop` returns, and that the watchdog comes
round.  `failed` is a history variable: mac80211 ignores an error of
`rtw_ops_config`, so after a failed `rtw_leave_ips` the `update_beacon` work,
which has no RUNNING check, may run on an unpowered chip; `NoIoWhenOff` excepts it.

Left out of `Core`: firmware recovery and hardware scans, which this chip never
starts, and with the latter `ips_work`, which only their end queues; suspend; deep power save, which
USB does not have.

### UsbCtrl (`usb.c` 73-227, 1279-1290; `hci.h` 133-272), in *HostRun*

`reg` is the chip, `usb_data` the one transfer buffer; `pc`, `attempt`, `ret` and
`val` are the locals of each caller.  A read is tried again after an error that
may pass, a write never is, and a caller is told of no failure: it gets what the
buffer holds.  Two threads, two registers, three attempts.  `RegisterIntegrity`:
a register never gets another's bits, though one buffer serves all and failed
reads are written back, and without a failure holds what the calls made of it.

### Probe (`usb.c` 1166-1604; `main.c` 1911-2486), in *HostRun*

`probe_pc` is a stage of the probe, a label of its unwinding or a step of the
disconnect; `held` what has been acquired.  The firmware file arrives
asynchronously, a transfer may fail at any stage, the device may be pulled out
anywhere, and a USB 2 device switches itself to USB 3 and is probed again.
`ProbeUnwinds`: everything is given back once and only what was held.  One way
out is excepted, and is the code's: a failed `regulatory_hint` leaves the hardware
registered (`main.c:2469`).

### Firmware, RsvdPages (`mac.c` 835-988, `usb.c` 228-281, `fw.c`), in *ChipRun*

`Firmware` has the download, page by page with transfers that fail, and the
four mailboxes with a firmware that takes its time; `RsvdPages` the frames in
the reserved pages, how they are laid out, downloaded and told of, while
mac80211 changes the beacon.  `FirmwareFaithful`: a try without a failure leaves
the whole image, whatever the failed ones left; no command is executed twice,
and until a transfer fails the firmware gets those sent, whole and in order,
without waiting at one box for a command in another.  Of `RsvdPages` (part of
`AnswersSound`): at each location told is a frame of that kind, and the chip's
beacon is mac80211's or is about to be.  What the models also show of the code: a station
together with a P2P client needs 11 of 9 pages, so the download always fails and
the locations are told all the same (`mac80211.c:415`); the beacon is read twice
and may be longer the second time, and then overwrites the next page until the
update that is already queued runs (`fw.c:1775`, `fw.c:1829`).

### TxQueues, TxDesc (`mac80211.c`, `tx.c`, `usb.c` 282-704, `mac.c` 1018-1197), in *ChipRun*

`TxQueues`: who empties a software queue, and the block ack sessions it asks
for, with `tx_work`, voice queues emptied by their waker, and mac80211's side of
the session (external).  `TxDesc`: the queue, endpoint, rate and flags of every
kind of frame, the division of the buffer, asked over all kinds of frames.
`TransmitSound`: no frame is forgotten, no session mistaken.  Of `TxDesc` (part of
`AnswersSound`): every queue is served, mesh group frames stay in turn, AP group
frames wait for the DTIM, handshakes go at the robust rate.  One bulk-out endpoint passes `rtw_usb_parse` and is
then refused by `rtw88xxau_init_queue_priority`.

### Coex, CoexCases (`coex.c`), in *ChipRun*

`CoexCases` is what `rtw_coex_run_coex` decides of the facts, `Coex` how facts
come and go: notifications, reports and seven delayed works, taken and run in two
steps.  `CoexSound`: a passing condition always has the work that ends it on its
way, the work that cancels another never waits for it, and the decision in force is
that of what is known; each of the 14040 decisions asked for is one the antennas
can do (part of `AnswersSound`).  Two facts may change without a decision, and are excepted: a report that
repeats the last one although Bluetooth was off (`coex.c:3094`) and the end of
`multi_link_remain`.

### Dig, CckPd (`phy.c` 149-599, `rtw88xxa.c` 1965-2005), in *ChipRun*

The gain's history, bounds and damping, the peers' signals as the watchdog
averages them; the CCK threshold and its register.  `GainSound`: the register is
what the driver believes, in range, and hears the weakest peer.  While damping
freezes the gain it may stay above what a weak peer allows for up to 20 periods
(`phy.c:404`, `phy.c:448`), which the property excepts.

### TxPower (`phy.c` 1639-2487, `regd.c`, `sar.c`, `rtw88xxa.c` 651-1962), in *ChipRun*

Limits by domain, width and section with their fallbacks, the notifier's state
machine, SAR, the index of every rate, and temperature tracking.  `PowerSound`: no
rate is sent with more than board, domain and SAR allow, after any sequence of
channels, scans, restarts, requests and temperatures; the user's domain stays.
Registers that the code itself leaves behind are excepted by `Current`: HT and VHT
after a change during a scan (`rtw88xxa.c:1660`), what `pwrtrack_init` does
not reset (`rtw88xxa.c:686`), the default swing taken from the band before power-on
(`rtw88xxa.c:676`).  CCK's registers are behind for longer: the powers are written
again when a remnant of OFDM has changed, and CCK's is not looked at
(`rtw88xxa.c:1952`); `left.cck` remembers that.  And the shift of CCK counts from 24
whatever the swing of the efuse (`rtw88xxa.c:1877`), so CCK may be sent with up to
24 - `SWING` half dBm more than the bound, which `PowerBounded` allows.  mac80211
scans in 20 MHz.  The u8 wrap of an index below 0 (`phy.c:2316`) is excepted too and
is what *SarHeld* shows.

### RateAdapt (`main.c` 340-1425, `phy.c` 291-648, `fw.c`, `mac80211.c` 829-1042), in *ChipRun*

The mask and level of each peer, what the firmware was told of it, the rates of
responses.  `RatesSound`: what was told is stale for less than four periods of the
watchdog, leaves a rate, fits the firmware's table; 6 Mbit/s stays among the
rates of responses; levels settle.  A user's mask of low rates with a strong
signal does give an empty mask, because it is applied after the recovery of an
empty one; a peer that joins after `set_bitrate_mask` gets none.

### PowerSeq (`rtw88xxa.c` 283-1258, `mac.c`, `rtw8812a_table.c` 2259-2614), in *ChipRun*

The commands of the power sequences as the driver carries them out, any poll
of which may time out, and the probe's own pair of functions.  `PowerSequenced`:
silent when off, complete when on, the MAC never brought up over a running one,
and a power-on fails only by a timeout.  After a power-off whose poll timed out,
TXPAUSE is not restored, and a failure after the LLT leaves the chip powered.  So
does a probe that finds no firmware (`main.c:2049`, label `err`, where a failed
download goes to `err_off`); the next probe switches the MAC off first.

### Channel, Iqk (`rtw88xxa.c` 830-1829, `rtw8812a.c` 81-838), in *ChipRun*

`Channel` keeps the fields `set_channel` writes.  `ChannelAgrees`: after any
tunings they are those of a first tuning.  When REG_CCK_CHECK cannot be read the
switch to 2.4 GHz is skipped until the next tuning; that tuning is excepted.  `Iqk`
keeps which registers were changed, on which page, and the measurements.
`CalibrationSound`: everything is put back, arrays are not overrun, results are
ones that two measurements agree on.  RF registers of the mode table and two
fields are not put back (`Own`); the unsigned comparison of `rx_fill` lets a
strongly negative `rx_y` pass.  `rtw8812a_do_lck` sets the channel aside only; bit 14
of RF_LCK and TXPAUSE it clears, which is what they were (`AtRest`: the RF table
leaves the bit 0, and TXPAUSE is 0 but for a power-off that timed out, whose
value does not survive it).

### Efuse, PhyTables, RxStatus (`efuse.c`, `main.c` 2026-2182, `rtw88xxa.c` 18-281; `phy.c` 1107-1600; `rx.c`), in *ChipRun*

`Efuse`: a log of packets in both header forms, its dump and decoding, the fields
and their defaults.  `BoardSound`: a byte is what was programmed last; the front end
by two bits and by one agree where the bytes are unambiguous; the MAC is off
again, except where `rtw_chip_efuse_enable` goes to its label `err` (a MAC that
did not come up, or no firmware), which leaves it on; of a table the branch meant for the board is taken, and every rate has
one power.  With nothing protected, a full log has one byte read behind the
array (`efuse.c:54`), of no consequence.  Blank amplifier bytes make the option
that of an external front end and the flags say none.  `RxStatus` (part of `AnswersSound`):
mac80211 accepts rate, MCS and streams, also of a CCK frame looked at after the
switch to 5 GHz (reported as index 0), and a signal counts for its sender only; a
beacon counts twice with two interfaces of one BSS.

## 5. Bounds, symmetry, deadlock

The parts that share no variables are checked by one configuration each for the
host's side (`MCHost`, which extends `UsbCtrl`, `TxReport` and `Probe`) and the
chip's (`MCChip`, which extends `Firmware` and `Chip`): a variable `track`, chosen at the start, says which part a
behaviour plays, the others keep their initial state, and the state spaces add up.

| Constant | Value | Why it is enough |
|---|---|---|
| `Slots`, `Skbs` | 2, 3 | two slots give every pair of contexts in one and in two slots; with three buffers the free queue, an URB and the RX queue compete |
| `RX_SKB_NUM`, `MAX_RXQ_LEN`, `BATCH` | 1, 2, 1 or 3 | the limits are met: the free queue drops, the RX queue overflows, the handler ends a batch early |
| `MAX_FAULTS` (`UsbRx`) | 1 to 3 | a second fault during the recovery of the first is reached with 2 |
| `N`, `Eps`, `AGG_NUM` | 3, 2, 2 | an aggregate, a frame behind it and one on another endpoint |
| `LIMIT` | 4 | above `N`: a run of the handler empties its queues (200 transfers in the code, the hypothesis of `NoFrameStranded`) |
| `SNS`, `N`, `MAX_STOPS` (`TxReport`) | 2, 2, 1 | a stop and a start at every point |
| `MAC_ID_NUM`, `PORT_NUM`, `CAM_NUM`, `DEFAULT_KEYS` | 3, 2, 4, 2 | two interfaces and two stations run out of each |
| `GROUP` (`StaKeys`) | index 0 of both, 1 of one | an index that is shared and one that is not |
| `Vifs` (`Core`) | 2 | alone and not alone is what LPS tells apart |
| `Threads`, `Regs`, `MAX_ATTEMPTS`, `MAX_ERRORS` (`UsbCtrl`) | 2, 2, 3, 1 | one buffer, two users, the code's own three attempts; failures are counted up to one, not limited |
| `MAX_FAILURES`, `MAX_PLUGS` (`Probe`) | 2, 2 | a failure in the probe and one after the mode switch, which takes the second plug |
| `NPAGES`, `BLOCKS`, `DOWNLOAD_TRIES` | 2, 2, 3 | a page begun and one not; a try that spoils what one before wrote (the code has five) |
| `NBOXES`, `MAX_CMDS` (`Firmware`) | 4, 6 | the boxes of the chip, filled once and gone round |
| `DRV_PAGES`, `MAX_EVENTS` (`RsvdPages`) | 9, 5 | the chip's; an interface, a beacon and three changes of them during a download |
| `MAX_FRAMES`, `MAX_SESSIONS` (`TxQueues`) | 3, 1 | two queues, one of voice, and a session from its request to its end |
| `DISABLE_AFTER`, `CNT_RANGE` (`Coex`) | 2, 4 | Bluetooth counts as off, and the counter wraps (10 and 256 in the code) |
| `MAX_EVENTS` (`Coex`, `Dig`, `TxPower`, `RateAdapt`, named `MAX_COEX_EVENTS` and so on in `Chip`) | 3, 4, 3, 6 | events from outside; works, watchdogs and reports do not count in `Coex` and `Dig` |
| `Tables`, `SWING`, `Chandefs` (`TxPower`) | 3, swings of 18 and 12, 4 channels | a table with the limits of the domains asked for, one with those of FCC only and one of a single limit; swings below 24, where CCK and OFDM differ; a change of band, and of width within each |
| `Deltas`, `SwingLimits` (`TxPower`) | 0, 14, -12; one | shifts that the swing takes and ones that leave a remnant, up and down |
| `DAMPING_TICKS`, `AVG_CAP` | 1, 2000 | the freeze begins and ends (20 in the code); the average stays bounded |
| `MAX_CALLS`, `MAX_TIMEOUTS` (`PowerSeq`) | 4, 2 | the probe, on, off and on again with a timeout before and one during |
| `MAX_TUNES`, `MAX_FAILS`, `rfe` (`Channel`) | 3, 1, 0..3 | there, away and back; every front end that has a definition |
| `RxBases`, `Offsets` (`Iqk`) | 2, 2 in every try but the first | measurements of one path that agree and ones that drift apart, with a second path of either sign |
| `MAX_CALS` (`Iqk`) | 1 | a second calibration starts from nothing the first left |
| `PHYSICAL`, `MAX_PACKETS` (`Efuse`) | 14, 3 | three packets fill the memory to its last byte; the map has the chip's 512 bytes |

Buffers and slots (*UsbRxSafety*), and stations (*StaKeysSafety*), are
interchangeable and symmetric; runs with liveness use no symmetry.

Deadlock is not checked in *HostRun* and *ChipRun*, whose parts come to an end
(all frames settled, all events used, a question asked), and in `StaKeys`, where
the deadlock of `rtw_sta_remove` is real and has a run of its own.  In `UsbRx` and
`UsbTx` a finished disconnect stutters explicitly.

## 6. Fairness

`UsbRx`, `UsbTx`, `TxReport`: weak fairness of the works, the timers, the
callbacks and of the disconnecting thread, because the kernel runs what is queued
or due; of the completion of an URB only once it is unlinked, because a device may
keep a transfer for ever.  The firmware is never supposed to report.

`UsbCtrl`: strong fairness of each caller's step, because the kernel's mutex hands
over to its first waiter; callers elsewhere may come for ever.  `Probe`: weak
fairness of the driver's own steps and of the loader of the firmware file, which
answers in any case.

`Core`: strong fairness of the operations, of each `cancel_work_sync`, of the
power-off, of each work's turn and of the mutex.  The work queue is ordered and
first in first out, and the kernel's mutex hands over to its first waiter, so
neither a queued work nor a waiter is passed over for ever, though both are
disabled again and again by others.  Weak fairness would not express that.

`StaKeys`: weak fairness of the work and of the removal, and still the removal
does not end.

The parts of *ChipRun* state no liveness: "a passing condition has the work that
ends it on its way" (`Coex`) and "stale for less than four periods"
(`RateAdapt`) say by what and how soon, which is more.

## 7. What is proved

For every value of the constants that the named assumptions admit; TLC has the
same statements, where noted in `PROJECT.json`, on the instances of section 5.
Each proof goes by an inductive invariant, which TLC checked first, and has one
lemma per action or group of actions that change the same things.

`UsbRxProofs`: any number of slots and buffers and any number of faults, when
the retry cannot expire during `rtw_usb_setup_rx` (`~RETRY_IN_SETUP`: without it
*UsbRxSetupRace* refutes the statements).

* `TypesKept`, `OneFillerOnly`: no two contexts refill the same slot and none a slot
  whose URB is active.  `OneFiller` alone is not inductive: that the completion of a
  slot cannot meet the worker there rests on where each context may be (`Places`),
  on the probe loop coming once to each slot (`SetupLoop`), on an empty slot being
  idle (`EmptySlots`) and on the local `rx_skb` being a buffer in hand (`InHand`).
* `BufferOwnership`, `EachBufferOnce`: the buffer of an URB is nobody else's, none
  is in two places, none is lost.  The invariant adds the partition of the buffers
  into heap, queues, slots and hands (`Owned`).
* `TeardownIsClean`: disconnect leaves nothing running and nothing leaked, if the
  handler is a work of `rxwq` (`~RX_TASKLET`, kernels from 6.9: a tasklet is not
  waited for).  `Stages` says, for each phase of the teardown, what is gone by then:
  after the flush no URB is active again, a killed slot has no callback left, after
  the second cancellation nobody is left who could arm the retry.
* `EmptySlotsRemembered`: each empty slot of a running device has somebody who will
  come to it (`Retried`; until disconnect, failed submissions are transient).
* `NoPacketStranded`: as long as the RX queue is not longer than a batch
  (`ShortBacklog`), the handler is not left asleep: a run counts what it takes,
  and what was put in since has another run due (`Backlog`).

`UsbTxProofs`: any number of frames, endpoints and faults, when the queues are
purged after the work queue is drained (`~EARLY_PURGE`, kernels from 6.13;
*UsbTxEarlyPurge* refutes the other).  The invariant is `Types`, what the handler
has in its hands at each place (`Hands`), the order itself, that a frame stays with
its endpoint (`OwnEndpoint`), that the frames written are those in the driver,
those that wait for a report and those settled, apart from each other
(`Accounted`), and what has been on air according to where a frame is (`OnAir`).
The lemma for each action says where frames move; `Forward` collects what all of
them have in common.

* `CustodyKept`: `UsbTx` implements `FrameCustody`: an outcome is final, no frame is
  on air twice, an acknowledgement is of a frame that was.
* `FramesInOrder`, `NeverReplayed` (an action property), `QuiescedFirst`.
* `EachFrameOnce`: a frame has one place from writing to being given back.  A
  place is a queue or list with a position, so that this is the cardinality of a
  set of places, and that positions are different follows from the order.
* `NoFrameStranded`: as long as no queue is longer than the 200 transfers of one
  run (`ShortQueues`), a written frame is kicked or reached.  The invariant
  (`Limits`) says that, unless another run is due, every kicked frame of the
  queue in work is close enough to its head for this run.

`HostProofs`, TX reports: any number of frames, sequence numbers and stops.

* `ReportsSettleOnce`: `ReportsSettle`.  The invariant adds what the firmware can
  know (`Sent`), that a report says it (`Truthful`), that the work finds a report
  wherever it goes on to one (`Walk`) and that one that came in after it had looked
  ahead has it scheduled (`LateReport`).  That a report settles its own frame
  while no number was used twice is `NumbersDiffer`.

`StaKeysProofs`: any stations, finitely many interfaces, any number of MAC ids, at
least two ports (the code has five).

* `IdsOwned`, `PortsOwnedAndShown`: `MacIdsExact` and `PortsFollowSwitch`.  The
  invariant is the two with the types they need and with `remover` being a station
  that is still there.  The argument needs what `Combination` says of mac80211: at
  most one interface is beside the one added (`OneOther`), so a port is free
  whenever an id is (`PortFree`), and it is no AP if the one added is (`NoTwoAps`),
  so after `rtw_core_port_switch` no AP has been moved off port 0.  That the first
  zero bit is a free one (`FirstZeroFree`) rests on the natural numbers being
  well-founded.
* `DefaultPortGoesAlong`: an action property; a linked interface has been added
  (`LinkedAdded`), hence is the one that the switch moves (`AddDefault`).
* `CamIsExact`, for any indices that the interfaces use, shared or not.  A free entry
  is one of the pairwise ones and none of a key (`FreeEntry`); a group key that is
  set or taken away touches only entries of its index.

`CoreProofs`, for any set of interfaces:

* `RunningIsTrue`, `WatchDogIsExact`.  The invariant says besides that RUNNING is
  clear from the first step of a stop to its last (`Power`), that the mutex is held
  across steps by a work only (`Locks`), and, for a stopped device, that the
  watchdog is gone or its cancellation still ahead (`Dog`), for which the list of
  works left to cancel is one of six (`Tails`).
* `IoOnlyWithPower`, `LpsIsAgreed`: a work with the mutex has found RUNNING set, but
  for `update_beacon`, and this one is gone before a stop takes the power away
  (`Io`); which call is in progress says what mac80211 may still have to tell
  (`Mac`); LPS is on for a lone interface only, unless a call that will see to it
  has not returned (`Lps`).

`HostProofs`, control transfers, for any threads, registers and number of attempts, when at least
one failure is counted (`MAX_ERRORS` >= 1, so that "without a failure" means so):

* `RegistersKept`: `RegisterIntegrity`.  The invariant says which calls may be
  in progress (`Progress`), that a transfer holds the mutex of the shared buffer
  and a read-modify-write the driver's (`Locked`), that registers, buffer and the
  value to write back hold a register's own bits only (`OwnBits`), and that a read
  which succeeded returns what the register holds, and until a failure is counted
  every register what was asked for (`Faithful`).

`HostProofs`, probe, for any number of failures and plugs:

* `EverythingGivenBack`: `ProbeUnwinds`.  Three tables, of the stages, of the labels
  of a failed probe and of those of a disconnect, say what is held at each place
  (`Held`); a stage fits if the next one holds what it acquires more and its label
  what it found (`StageHeld`).  With `Agrees`, what the file's callback and the RX
  path go by, and `Switching`, what bounds the mode switches.

`FirmwareProofs`, for an image of any size, any number of boxes, commands, loads and
failures:

* `FirmwareIsFaithful`: `FirmwareFaithful`.  A try without a failure has written the
  pages it has come past with what belongs there (`Written`), whatever was in
  memory.  For the mailboxes the invariant numbers the commands (`NumberedOnce`)
  and, until a transfer fails, says that what waits lies in the boxes ahead of the
  firmware's, the driver's box being the one behind them (`InStep`); that they
  do not meet when a box is found free rests on these boxes being different ones
  (`Ring`).

`FirmwareProofs`, power, for any number of calls, failures and timeouts:

* `PowerIsSequenced`: `PowerSequenced`.  What the commands of a call may be is
  found once, by looking at every one of them in its place (`OffCmds`, `OnCmds`,
  `SwitchOffCmds`, `ProbeCmds`); after that a command is known only by this.  A
  `Goal` is a place in a call with bits it sets and clears; no later command of the
  call undoes a goal (`OnSuits` and its like), so whatever place a call has got to,
  the goals before it are reached (`Reached`).  That the MAC is not brought up
  twice needs `Telltale`: a chip that still sends and receives, left so by a
  sequence that timed out or by whoever used it before, has a firmware that says
  so, and then `HwReset` is not passed over.  A MAC that is on behind a switch-off
  has cost a timeout (`MacOff`).

`CoexProofs`, for any reports of Bluetooth and any number of events:

* `CoexIsSound`: `CoexSound`.  The invariant (`CoexInv`) says of the device, with the
  works pending or executing, that each passing condition has the one that ends
  it among them (`Settled`), and that the decision in force is the one of what is
  known, up to the two reports that do not take one (`Fresh`, `Supposing`), and is
  one for the band in use (`RightBand`).  What a run of the decisions settles is one
  lemma (`RunCoexGood`), from which those of the notifications follow.
* `DecisionAlwaysSound`: the decisions are ones the antennas can do in every
  situation, not only in the 14040 that *ChipRun* asks for; one lemma per case.

`CoexProofs`, power, for any tables of limits, efuses, channels and temperatures:

* `PowerIsSound`: `PowerSound`.  `PowerAssumption` says of the constants what the code
  and the tables do: limits are what parsing clamps them to, the powers of the board
  and the shifts are up to 63, the swing is at most 24, SAR is not below -32 dBm and
  the efuse has a power for every channel.  `ChandefAssumption` says that a channel is
  in a block of its width, as cfg80211 checks.  The statement is first brought to
  three sets: what `phy.c` looks up in a domain with its fallbacks is the least of
  the limits that apply (`LimitsAre`, `TxPwrLimitIs`, `GetLimitIs`, `OfferIs`); the
  centres it looks them up for are those of the blocks (`BlocksAre`, `CenterOfIs`).
  The invariant (`PowerInv`) then says that hal is that of the channel in use, or in a
  scan of one of 20 MHz (`Where`), that swing and remnant make up the shift
  (`Shifted`) and CCK's remnant is at most 24 less the swing above that of OFDM
  (`CckShifted`), and that the registers hold the index that is due: of OFDM always,
  of HT and VHT that of the operating channel, of CCK with a remnant that may be an
  earlier one (`OfdmWritten`, `HtWritten`, `CckWritten`).  That CCK's may be an
  earlier one was found by this proof.

`RadioProofs`:

* `GainIsSound`: `GainSound`, for any stations with signals up to 100 and any false
  alarms (`GainAssumption`: what the receiver reports is a percentage).  The last
  gain is one the hardware has (`InRange`) and hears the weakest peer unless it is
  frozen (`PeerHeard`).
* `TransmitIsSound`: `TransmitSound`, for any queues, frames and sessions.  The
  invariant adds that a pass has counted the frames it found, or those that came
  since wake the queue (`CountsAgree`).
* `RatesIsSound`: `RatesSound`, for any peers, masks of a user, signals, scans, and
  reports.  `RatesAssumption` says what mac80211 gives: rates without HT are 0 to 11,
  a peer has some, and HT has the MCS that the chip has streams for.  The bound of
  four periods is inductive when it is told by the watchdog's counter: `since` is
  at most `(watch_dog_cnt + 3) % 4` (`PeerSound`).
* `ChannelIsSound`: `ChannelAgrees`, for any boards and tunings.  Whatever came before,
  the fields that only a switch of the band writes are those of the band that
  REG_CCK_CHECK shows (`BandSet`), which is why it may be passed over.
* `CalibrationIsSound`: `CalibrationSound`, for any measurements of 11 bits
  (`CalibrationAssumption`) and any number of calibrations.  Of the registers the
  invariant says which page is chosen and that only what `Backup` put aside
  (`PutAside`), less what was restored, and the calibration's own may be dirty (`At`,
  `ChipKept`); of the measurements, that what is finished is the mean of two that
  agree, and that retries and measurements together are at most the tries (`Kept`).

Only model-checked:

* liveness, which is out of the prover's reach: `RxProgress`, `TeardownSettles`,
  `FrameSettles`, `HostAnswers`, `NothingStuck`.  The invariants that say who will
  come (`EmptySlotsRemembered`, `NoFrameStranded`, `WatchDogIsExact`) are proved;
* `BoardSound` and the part of `AnswersSound` about `RsvdPages`:
  what they say of the efuse's log and of the
  layout of pages is computed by folds, of which nothing can be proved without
  induction over data.  The rest of `AnswersSound` asks finitely many questions of
  functions without state;
* the builds for older kernels, which have runs that refute what is proved here
  for newer ones.

## 8. Findings

| Run | Code | Stated by |
|---|---|---|
| UsbRxSetupRace | `usb.c:1213` | `docs/RELEASE_GATES.md` |
| UsbTxEarlyPurge | `usb.c:1255` | `docs/UPSTREAMING.md` |
| UsbTxLateWork | `usb.c:1257` | `docs/UPSTREAMING.md` |
| StaKeysDeadlock | `main.c:393` | `docs/RELEASE_GATES.md` |
| SarHeld | `phy.c:2318` | `sar.c:93` |

Each is a behaviour TLC prints under the configuration named; the statement it
contradicts is quoted in `PROJECT.json`.

## 9. Not modelled

* Beamforming (`bf.c`): `config_bfee` is NULL for this chip, what remains counts
  capabilities.  WoWLAN and suspend (`wow.c`): there is no RTL8812A image for it.
* Firmware recovery, hardware scans, deep power save, H2C packets, game HID and
  MIMO power save of `coex.c`, CFO tracking, antenna diversity: code of the
  common `rtw88` core that this chip or bus never enters; likewise what is
  written for the RTL8821A only.
* The values in the register tables, the decibels of the physical status, the
  bits of descriptors and of H2C commands: data, which no property could state
  other than by repeating it.
* Channel flags, DFS and the adaptivity mode of `regd.c`.
* debugfs, LED and the iteration helpers have no state that other parts depend
  on; packaging, scripts, the fault-injection modules and the series sent
  upstream are not the program.
