------------------------------- MODULE Probe -------------------------------
(***************************************************************************)
(* Probe and disconnect of the USB device (usb.c, main.c): what is         *)
(* acquired in which order, how a failure at any point gives it back, the  *)
(* firmware file that arrives asynchronously meanwhile, and the mode       *)
(* switch, by which the probe makes the device leave the bus and come back *)
(* as a USB 3 device, to be probed again.                                  *)
(***************************************************************************)
EXTENDS Integers, FiniteSets

CONSTANTS
  MAX_FAILURES, (* bound: control transfers that fail                      *)
  MAX_PLUGS    (* bound: times the device is plugged in                    *)

VARIABLES
  probe_pc,     (* a stage of the probe, a label of its unwinding, a step   *)
                (* of the disconnect, or where the device is between them   *)
  held,         (* what has been acquired and not given back                *)
  misused,      (* history: something was given back that was not held      *)
  unregistered, (* history: regulatory_hint failed after registration       *)
  rx_running,   (* the RX URBs have been submitted                          *)
  intfdata,     (* usb_get_intfdata is set                                  *)
  file,         (* the firmware file: "none", "pending", "loaded", "failed" *)
  bus_state,    (* the device is "on" the bus, "away" for the mode switch,  *)
                (* or "off"                                                 *)
  speed, port3, (* "high" or "super"; whether the port can do "super"       *)
  hci_opt,      (* BIT(3) of REG_HCI_OPT_CTRL, which the switch leaves set  *)
  switches, probe_errors, plugs

probe_vars == <<probe_pc, held, misused, unregistered, rx_running, intfdata, file, bus_state,
                speed, port3, hci_opt, switches, probe_errors, plugs>>

ProbeInit ==
  /\ probe_pc = "unplugged" /\ held = {} /\ misused = FALSE /\ unregistered = FALSE
  /\ rx_running = FALSE /\ intfdata = FALSE /\ file = "none"
  /\ bus_state = "off" /\ speed = "high" /\ port3 \in BOOLEAN /\ hci_opt = FALSE
  /\ switches = 0 /\ probe_errors = 0 /\ plugs = 0

bus == <<bus_state, speed, port3, hci_opt, switches, plugs>>
history == <<misused, unregistered>>

Acquire(R) == held' = held \union R /\ UNCHANGED misused

Release(R) == held' = held \ R /\ misused' = (misused \/ ~(R \subseteq held))

(* A register access, which fails for certain when the device is gone      *)
attached == bus_state = "on"
AccessOk == attached /\ UNCHANGED probe_errors
AccessFails == /\ probe_errors < MAX_FAILURES \/ ~attached
               /\ probe_errors' = IF probe_errors < MAX_FAILURES THEN probe_errors + 1
                                  ELSE probe_errors

----------------------------------------------------------------------------
(* The user plugs the device in or pulls it out; the firmware loader       *)
(* calls rtw_load_firmware_cb.                                             *)
Plug ==
  /\ probe_pc = "unplugged" /\ plugs < MAX_PLUGS
  /\ bus_state' = "on" /\ plugs' = plugs + 1 /\ speed' = "high"
  /\ hci_opt' = FALSE /\ switches' = 0 /\ probe_errors' = 0
  /\ probe_pc' = "alloc_hw"
  /\ UNCHANGED <<held, history, rx_running, intfdata, file, port3>>

Unplug ==
  /\ bus_state # "off" /\ bus_state' = "off"
  /\ UNCHANGED <<probe_pc, held, history, rx_running, intfdata, file, speed, port3, hci_opt,
                 switches, plugs, probe_errors>>

FileArrives ==
  /\ file = "pending" /\ file' \in {"loaded", "failed"}
  /\ UNCHANGED <<probe_pc, held, history, rx_running, intfdata, bus, probe_errors>>

----------------------------------------------------------------------------
(* rtw_usb_probe: stage s acquires R and goes on to t, or fails and goes   *)
(* to the label that gives back what the stages before it have acquired.   *)
Stage(s, R, t, label) ==
  /\ probe_pc = s
  /\ \/ probe_pc' = t /\ Acquire(R)
     \/ probe_pc' = label /\ UNCHANGED <<held, misused>>
  /\ UNCHANGED <<unregistered, rx_running, bus, probe_errors>>

AllocHw ==
  /\ Stage("alloc_hw", {"hw"}, "alloc_rx_bufs", "failed")
  /\ UNCHANGED <<intfdata, file>>

AllocRxBufs ==
  /\ Stage("alloc_rx_bufs", {"rx_urbs"}, "core_init", "err_release_hw")
  /\ UNCHANGED <<intfdata, file>>

(* rtw_core_init: the work queue, then the request of the file, whose      *)
(* failure gives back the queue                                            *)
CoreInit ==
  /\ Stage("core_init", {"tx_wq"}, "intf_init", "err_free_rx_bufs")
  /\ file' = IF probe_pc' = "intf_init" THEN "pending" ELSE "none"
  /\ UNCHANGED intfdata

IntfInit ==
  /\ Stage("intf_init", {"usb_data"}, "init_tx", "err_deinit_core")
  /\ intfdata' = (probe_pc' = "init_tx")
  /\ UNCHANGED file

InitTx ==
  /\ Stage("init_tx", {"txwq"}, "init_rx", "err_destroy_usb")
  /\ UNCHANGED <<intfdata, file>>

(* Mutant: the wrong label.                                                *)
InitRxLabel ==
  /\ Stage("init_rx", {"rxwq"}, "chip_info_setup", "err_destroy_rxwq")
  /\ UNCHANGED <<intfdata, file>>

InitRx ==
  /\ Stage("init_rx", {"rxwq"}, "chip_info_setup", "err_destroy_txwq")
  /\ UNCHANGED <<intfdata, file>>

(* rtw_chip_info_setup fails before it waits for the file (the MAC does    *)
(* not power on), because the file is not there, or later.                 *)
ChipInfoSetup ==
  /\ probe_pc = "chip_info_setup"
  /\ \/ attached /\ file = "loaded" /\ probe_pc' = "switch_mode"
     \/ probe_pc' = "err_destroy_rxwq"
  /\ UNCHANGED <<held, history, rx_running, intfdata, file, bus, probe_errors>>

(* rtw_usb_switch_mode_old tells by HCI_OPT_CTRL, which keeps its value    *)
(* while the device comes back, that the switch has been tried; a read     *)
(* that fails returns 0.                                                   *)
WantsSwitch(opt) == speed = "high" /\ ~opt

NoSwitch ==
  /\ probe_pc = "switch_mode"
  /\ ~WantsSwitch(hci_opt) /\ (speed = "high" => attached)
  /\ probe_pc' = "register_hw"
  /\ UNCHANGED <<held, history, rx_running, intfdata, file, bus, probe_errors>>

(* The write to HCI_OPT_CTRL and the last one may each fail; that the last *)
(* one, which takes the device off the bus, is not acknowledged is expected*)
(* and not counted.  Probe returns 0 and has given everything back.        *)
SwitchMode ==
  /\ probe_pc = "switch_mode" /\ speed = "high"
  /\ \/ WantsSwitch(hci_opt) /\ AccessOk /\ hci_opt' = TRUE
     \/ AccessFails /\ UNCHANGED hci_opt
  /\ probe_pc' = "err_destroy_rxwq_0"
  /\ switches' = IF attached THEN switches + 1 ELSE switches
  /\ bus_state' \in {bus_state, IF attached THEN "away" ELSE bus_state}
  /\ UNCHANGED <<held, history, rx_running, intfdata, file, speed, port3, plugs>>

(* rtw_register_hw: regulatory set-up, the LED, ieee80211_register_hw,     *)
(* regulatory_hint.  When the last fails the hardware stays registered.    *)
RegisterHw ==
  /\ probe_pc = "register_hw"
  /\ \/ Acquire({"registered"}) /\ probe_pc' = "setup_rx" /\ UNCHANGED unregistered
     \/ UNCHANGED <<held, history>> /\ probe_pc' = "err_destroy_rxwq"
     \/ Acquire({"registered"}) /\ probe_pc' = "err_destroy_rxwq" /\ unregistered' = TRUE
  /\ UNCHANGED <<rx_running, intfdata, file, bus, probe_errors>>

SetupRx ==
  /\ probe_pc = "setup_rx" /\ probe_pc' = "bound" /\ rx_running' = TRUE
  /\ UNCHANGED <<held, history, intfdata, file, bus, probe_errors>>

----------------------------------------------------------------------------
(* What each label or step of the disconnect gives back, and what follows: *)
(* the labels of the probe, ret = 0 or not, and rtw_usb_disconnect.        *)
Unwind ==
  [err_destroy_rxwq  |-> <<{"rxwq"}, "err_destroy_txwq">>,
   err_destroy_txwq  |-> <<{"txwq"}, "err_destroy_usb">>,
   err_destroy_usb   |-> <<{"usb_data"}, "err_deinit_core">>,
   err_deinit_core   |-> <<{"tx_wq"}, "err_free_rx_bufs">>,
   err_free_rx_bufs  |-> <<{"rx_urbs"}, "err_release_hw">>,
   err_release_hw    |-> <<{"hw"}, "failed">>,
   err_destroy_rxwq_0 |-> <<{"rxwq"}, "err_destroy_txwq_0">>,
   err_destroy_txwq_0 |-> <<{"txwq"}, "err_destroy_usb_0">>,
   err_destroy_usb_0  |-> <<{"usb_data"}, "err_deinit_core_0">>,
   err_deinit_core_0  |-> <<{"tx_wq"}, "err_free_rx_bufs_0">>,
   err_free_rx_bufs_0 |-> <<{"rx_urbs"}, "err_release_hw_0">>,
   err_release_hw_0   |-> <<{"hw"}, "bound">>,
   cancel_rx   |-> <<{}, "unregister">>,
   unregister  |-> <<{"registered"}, "deinit_tx">>,
   deinit_tx   |-> <<{"txwq"}, "deinit_rx">>,
   deinit_rx   |-> <<{"rxwq"}, "free_rx_bufs">>,
   free_rx_bufs |-> <<{"rx_urbs"}, "intf_deinit">>,
   intf_deinit |-> <<{"usb_data"}, "core_deinit">>,
   core_deinit |-> <<{"tx_wq"}, "free_hw">>,
   free_hw     |-> <<{"hw"}, "gone">>]

Intf == {"err_destroy_usb", "err_destroy_usb_0", "intf_deinit"}
CoreDeinit == {"err_deinit_core", "err_deinit_core_0", "core_deinit"}

(* rtw_core_deinit waits until the file has arrived.                       *)
FileSettled == file # "pending"

GiveBack ==
  /\ probe_pc \in DOMAIN Unwind
  /\ probe_pc \in CoreDeinit => FileSettled
  /\ Release(Unwind[probe_pc][1])
  /\ probe_pc' = Unwind[probe_pc][2]
  /\ file' = IF probe_pc \in CoreDeinit THEN "none" ELSE file
  /\ intfdata' = (intfdata /\ probe_pc \notin Intf)
  /\ rx_running' = (rx_running /\ probe_pc # "cancel_rx")
  /\ UNCHANGED <<unregistered, bus, probe_errors>>

(* The device leaves the bus, or the driver is removed: usb_get_intfdata   *)
(* tells whether there is anything to take down.                           *)
Disconnect ==
  /\ probe_pc = "bound"
  /\ probe_pc' = IF intfdata THEN "cancel_rx" ELSE "gone"
  /\ UNCHANGED <<held, history, rx_running, intfdata, file, bus, probe_errors>>

(* A device that left the bus for the switch comes back by itself, another *)
(* is plugged in again; what a failed regulatory_hint left is not followed. *)
ReEnumerate ==
  /\ probe_pc \in {"failed", "gone"} /\ ~attached
  /\ IF bus_state = "away"
     THEN /\ bus_state' = "on" /\ probe_pc' = "alloc_hw"
          /\ speed' = IF port3 THEN "super" ELSE "high"
     ELSE probe_pc' = "unplugged" /\ UNCHANGED <<bus_state, speed>>
  /\ held' = {} /\ unregistered' = FALSE
  /\ UNCHANGED <<misused, rx_running, intfdata, file, port3, hci_opt, switches, plugs,
                 probe_errors>>

Driver ==
  \/ AllocHw \/ AllocRxBufs \/ CoreInit \/ IntfInit \/ InitTx \/ InitRx
  \/ ChipInfoSetup \/ NoSwitch \/ SwitchMode \/ RegisterHw \/ SetupRx \/ GiveBack

ProbeNext == Driver \/ Plug \/ Unplug \/ FileArrives \/ Disconnect \/ ReEnumerate

ProbeSpec == ProbeInit /\ [][ProbeNext]_probe_vars

ProbeFairness == WF_probe_vars(Driver) /\ WF_probe_vars(FileArrives)

----------------------------------------------------------------------------
Everything == {"hw", "rx_urbs", "tx_wq", "usb_data", "txwq", "rxwq", "registered"}
Between == {"unplugged", "bound", "failed", "gone"}

(* Whatever fails, and whenever the device goes away, everything acquired  *)
(* is given back once: a bound device has all of it or nothing, and what   *)
(* the disconnect goes by agrees; any other has nothing, except that a     *)
(* failed regulatory_hint leaves the hardware registered (main.c:2469).    *)
(* The file never arrives for a device that has been freed.  The mode      *)
(* switch is not repeated unless a transfer failed (usb.c:1310).           *)
ProbeUnwinds ==
  /\ ~misused
  /\ probe_pc \in Between /\ ~unregistered =>
       held = IF probe_pc = "bound" /\ intfdata THEN Everything ELSE {}
  /\ file = "pending" => "hw" \in held
  /\ rx_running => {"rx_urbs", "rxwq", "hw"} \subseteq held
  /\ switches <= 1 + probe_errors

(* Probe and disconnect return.                                            *)
ProbeReturns == probe_pc \notin Between ~> probe_pc \in Between

============================================================================
