-------------------------------- MODULE Core --------------------------------
(***************************************************************************)
(* The life cycle of the core (main.c, mac80211.c, ps.c, rtw88xxa.c):      *)
(* start and stop, leaving and entering the idle state (IPS), the leisure  *)
(* power save of an associated interface (LPS), software scans, and the    *)
(* works that run meanwhile, around rtwdev->mutex.                         *)
(*                                                                         *)
(* mac80211 calls one operation at a time.  It sets what it tells the      *)
(* driver (vif->cfg, conf.flags) before the call, hence op: the call       *)
(* waits for the mutex.  All works are on mac80211's ordered work queue,   *)
(* one runs at a time.  rtw_core_stop gives up the mutex to cancel them.   *)
(***************************************************************************)
EXTENDS Integers, Sequences, FiniteSets

CONSTANTS Vifs, NULL

(* "coex" stands for the eight delayed works of rtw_coex.                  *)
Works == {"c2h", "update_beacon", "watch_dog", "coex"}
Types == {"sta", "mesh"}
Calls == {"start", "stop", "leave_ips", "enter_ips", "add", "remove",
          "assoc", "disassoc", "ps", "prepare_tx", "scan_start", "scan_complete"}

ASSUME CoreAssumption ==
  /\ IsFiniteSet(Vifs) /\ NULL \notin Vifs \union Works \union Types \union {"op", "work"}
  /\ NULL \notin [call : Calls, v : Vifs \union {NULL}]

VARIABLES
  mutex,        (* NULL, or who holds it between steps: "op", "work"       *)
  running, poweron, scanning, lps, (* the flags, lps being LEISURE_PS      *)
  ps_enabled,
  hw,           (* the chip has power                                      *)
  fw_lps,       (* the mode its firmware was told, reset with the power    *)
  op,           (* NULL, or [call, v]: mac80211's call                     *)
  cancel,       (* the works rtw_core_stop has still to cancel             *)
  pending, cur, (* the work queue: what is queued, what runs               *)
  started, idle, type, assoc, ps, (* mac80211: device up, IEEE80211_CONF_- *)
                (* IDLE, the interfaces, which are associated, cfg.ps      *)
  failed        (* history: the last rtw_leave_ips failed                  *)

flags == <<running, poweron, scanning, lps, ps_enabled>>
chip == <<hw, fw_lps>>
mac == <<started, idle, type, assoc, ps>>
rest == <<mac, failed>>
vars == <<mutex, flags, chip, op, cancel, pending, cur, rest>>

Init ==
  /\ mutex = NULL /\ op = NULL /\ cancel = <<>>
  /\ running = FALSE /\ poweron = FALSE /\ scanning = FALSE /\ lps = FALSE
  /\ ps_enabled = FALSE /\ hw = FALSE /\ fw_lps = FALSE
  /\ pending = {} /\ cur = NULL
  /\ started = FALSE /\ idle = TRUE /\ failed = FALSE
  /\ type = [v \in Vifs |-> NULL] /\ assoc = {} /\ ps = {}

----------------------------------------------------------------------------
(* Power                                                                   *)

(* rtw88xxa_power_on: nothing to do if POWERON is set; on an error the     *)
(* chip may be left with power (err) or not (err_off).                     *)
PowerOnSucceeds == hw' = TRUE /\ poweron' = TRUE /\ fw_lps' = (poweron /\ fw_lps)

PowerOnFails ==
  /\ ~poweron /\ hw' \in BOOLEAN /\ fw_lps' = FALSE
  /\ UNCHANGED poweron

(* rtw88xxa_power_off: REG_CR reads 0 when the chip has no power, and when *)
(* the read failed; either way "Already powered off".                      *)
PowerOff ==
  \/ hw /\ hw' = FALSE /\ poweron' = FALSE /\ fw_lps' = FALSE
  \/ UNCHANGED <<hw, poweron, fw_lps>>

(* Mutant: RUNNING is set though the chip is not powered.                  *)
CoreStartIgnoresError ==
  /\ PowerOnSucceeds \/ PowerOnFails
  /\ running' = TRUE /\ pending' = pending \union {"watch_dog"}

(* rtw_core_start                                                          *)
CoreStart ==
  \/ PowerOnSucceeds /\ running' = TRUE /\ pending' = pending \union {"watch_dog"}
  \/ PowerOnFails /\ UNCHANGED <<running, pending>>

(* Mutant: the watchdog is not cancelled.                                  *)
CoreStopDog ==
  /\ running' = FALSE /\ mutex' = NULL
  /\ cancel' = <<"c2h", "update_beacon", "coex">>
  /\ UNCHANGED <<poweron, hw, fw_lps>>

(* rtw_core_stop as far as mutex_unlock                                    *)
CoreStop ==
  /\ running' = FALSE /\ mutex' = NULL
  /\ cancel' = <<"c2h", "update_beacon", "watch_dog", "coex">>
  /\ UNCHANGED <<poweron, hw, fw_lps>>

InStop == cancel # <<>>

----------------------------------------------------------------------------
(* Leisure power save                                                      *)

(* rtw_leave_lps, here of the driver's flag and the firmware               *)
LeaveLps == lps' = FALSE /\ fw_lps' = (fw_lps /\ ~lps)

Added(t) == {v \in Vifs : t[v] # NULL}

(* Mutant: as if only the new interface counted.                           *)
RecalcNew(t) ==
  /\ ps_enabled' = (\E v \in ps : t[v] = "sta")
  /\ IF ps_enabled' THEN UNCHANGED <<lps, fw_lps>> ELSE LeaveLps

(* rtw_recalc_lps: LPS is for a lone STATION interface with cfg.ps.        *)
RecalcLps(t) ==
  /\ ps_enabled' = (\E v \in ps : Added(t) = {v} /\ t[v] = "sta")
  /\ IF ps_enabled' THEN UNCHANGED <<lps, fw_lps>> ELSE LeaveLps

----------------------------------------------------------------------------
(* mac80211's calls.  The guards are its side of the contract.             *)

Call(c, v) ==
  /\ op = NULL
  /\ op' = [call |-> c, v |-> v]
  /\ UNCHANGED <<mutex, flags, chip, cancel, pending, cur, failed>>

MacStart ==
  /\ ~started /\ Call("start", NULL) /\ UNCHANGED mac

MacStop ==
  /\ started /\ idle /\ ~scanning /\ Added(type) = {}
  /\ Call("stop", NULL) /\ started' = FALSE /\ UNCHANGED <<idle, type, assoc, ps>>

MacIdle(i) ==
  /\ started /\ idle # i
  /\ i => ~scanning /\ assoc = {}
  /\ Call(IF i THEN "enter_ips" ELSE "leave_ips", NULL)
  /\ idle' = i /\ UNCHANGED <<started, type, assoc, ps>>

(* The interface is not iterated over until drv_add_interface returns.     *)
MacAdd(v) ==
  /\ started /\ type[v] = NULL
  /\ Call("add", v) /\ UNCHANGED mac

MacRemove(v) ==
  /\ started /\ type[v] # NULL /\ v \notin assoc /\ ~scanning
  /\ idle \/ Cardinality(Added(type)) > 1
  /\ Call("remove", v)
  /\ type' = [type EXCEPT ![v] = NULL] /\ ps' = ps \ {v}
  /\ UNCHANGED <<started, idle, assoc>>

MacAssoc(v) ==
  /\ ~idle /\ type[v] = "sta" /\ v \notin assoc
  /\ Call("assoc", v)
  /\ assoc' = assoc \union {v} /\ UNCHANGED <<started, idle, type, ps>>

MacDisassoc(v) ==
  /\ v \in assoc /\ v \notin ps
  /\ Call("disassoc", v)
  /\ assoc' = assoc \ {v} /\ UNCHANGED <<started, idle, type, ps>>

(* ieee80211_recalc_ps                                                     *)
MacPs(v) ==
  /\ v \in assoc
  /\ Call("ps", v)
  /\ ps' = (IF v \in ps THEN ps \ {v} ELSE ps \union {v})
  /\ UNCHANGED <<started, idle, type, assoc>>

MacPrepareTx(v) ==
  /\ ~idle /\ type[v] = "sta" /\ v \notin assoc
  /\ Call("prepare_tx", v) /\ UNCHANGED mac

MacScan(v) ==
  /\ ~idle /\ ~scanning /\ type[v] # NULL
  /\ Call("scan_start", v) /\ UNCHANGED mac

MacScanComplete(v) ==
  /\ scanning /\ type[v] # NULL
  /\ Call("scan_complete", v) /\ UNCHANGED mac

MacCall ==
  \/ MacStart \/ MacStop \/ \E i \in BOOLEAN : MacIdle(i)
  \/ \E v \in Vifs : MacAdd(v) \/ MacRemove(v) \/ MacAssoc(v) \/ MacDisassoc(v)
  \/ \E v \in Vifs : MacPs(v) \/ MacPrepareTx(v) \/ MacScan(v) \/ MacScanComplete(v)

----------------------------------------------------------------------------
(* The operations, once they have the mutex                                *)

Enter(c) == op # NULL /\ op.call = c /\ ~InStop /\ mutex = NULL

Return == op' = NULL /\ UNCHANGED <<mutex, cancel, cur>>

OpsStart ==
  /\ Enter("start") /\ CoreStart /\ Return
  /\ started' = running' /\ failed' = FALSE
  /\ UNCHANGED <<scanning, lps, ps_enabled, idle, type, assoc, ps>>

OpsStop ==
  /\ Enter("stop") /\ CoreStop
  /\ UNCHANGED <<scanning, lps, ps_enabled, op, pending, cur, rest>>

(* rtw_ops_config, not idle: rtw_leave_ips; mac80211 goes on if it fails.  *)
LeaveIps ==
  /\ Enter("leave_ips") /\ Return
  /\ IF poweron THEN UNCHANGED <<running, poweron, chip, pending, failed>>
     ELSE CoreStart /\ failed' = ~poweron'
  /\ UNCHANGED <<scanning, lps, ps_enabled, mac>>

(* rtw_ops_config, idle: rtw_enter_ips                                     *)
EnterIps ==
  /\ Enter("enter_ips")
  /\ IF poweron /\ ~scanning THEN CoreStop /\ UNCHANGED <<op, cur>>
     ELSE Return /\ UNCHANGED <<running, poweron, chip>>
  /\ UNCHANGED <<scanning, lps, ps_enabled, pending, rest>>

(* Mutant: the work is flushed and not cancelled.                          *)
FlushWork ==
  /\ InStop /\ cancel # <<"power_off">>
  /\ Head(cancel) \notin pending \union {cur}
  /\ cancel' = IF Len(cancel) = 1 THEN <<"power_off">> ELSE Tail(cancel)
  /\ UNCHANGED <<mutex, flags, chip, op, pending, cur, rest>>

(* rtw_core_stop: the next cancel_work_sync returns.                       *)
CancelWork ==
  /\ InStop /\ cancel # <<"power_off">> /\ cur # Head(cancel)
  /\ pending' = pending \ {Head(cancel)}
  /\ cancel' = IF Len(cancel) = 1 THEN <<"power_off">> ELSE Tail(cancel)
  /\ UNCHANGED <<mutex, flags, chip, op, cur, rest>>

(* rtw_core_stop: the mutex is taken again, and the chip powered off.      *)
StopPowerOff ==
  /\ cancel = <<"power_off">> /\ mutex \in {NULL, "op"}
  /\ PowerOff
  /\ cancel' = <<>> /\ op' = NULL /\ mutex' = NULL
  /\ UNCHANGED <<running, scanning, lps, ps_enabled, pending, cur, rest>>

(* rtw_ops_add_interface, rtw_ops_remove_interface                         *)
AddInterface ==
  /\ Enter("add") /\ Return
  /\ \E t \in Types : type' = [type EXCEPT ![op.v] = t]
  /\ RecalcLps(type')
  /\ UNCHANGED <<running, poweron, scanning, hw, pending, started, idle, assoc, ps, failed>>

RemoveInterface ==
  /\ Enter("remove") /\ Return
  /\ RecalcLps(type)
  /\ UNCHANGED <<running, poweron, scanning, hw, pending, rest>>

(* rtw_ops_bss_info_changed: BSS_CHANGED_ASSOC and BSS_CHANGED_PS; coex    *)
(* may queue its works (rtw_coex_run_coex, only if RUNNING).               *)
RunCoex(p) == pending' = p \/ (running /\ pending' = p \union {"coex"})

Assoc ==
  /\ Enter("assoc") /\ Return /\ RunCoex(pending)
  /\ UNCHANGED <<flags, chip, rest>>

Disassoc ==
  /\ Enter("disassoc") /\ Return /\ LeaveLps
  /\ UNCHANGED <<running, poweron, scanning, ps_enabled, hw, pending, rest>>

PsChanged ==
  /\ Enter("ps") /\ Return /\ RecalcLps(type)
  /\ UNCHANGED <<running, poweron, scanning, hw, pending, rest>>

(* rtw_ops_mgd_prepare_tx: rtw_coex_connect_notify queues its works in any *)
(* case.                                                                   *)
PrepareTx ==
  /\ Enter("prepare_tx") /\ Return
  /\ pending' = pending \union {"coex"}
  /\ UNCHANGED <<flags, chip, rest>>

(* rtw_core_scan_start, rtw_core_scan_complete                             *)
ScanStart ==
  /\ Enter("scan_start") /\ Return /\ LeaveLps /\ RunCoex(pending)
  /\ scanning' = TRUE
  /\ UNCHANGED <<running, poweron, ps_enabled, hw, rest>>

ScanComplete ==
  /\ Enter("scan_complete") /\ Return /\ RunCoex(pending)
  /\ scanning' = FALSE
  /\ UNCHANGED <<running, poweron, lps, ps_enabled, chip, rest>>

Operation ==
  \/ OpsStart \/ OpsStop \/ LeaveIps \/ EnterIps
  \/ AddInterface \/ RemoveInterface \/ Assoc \/ Disassoc \/ PsChanged
  \/ PrepareTx \/ ScanStart \/ ScanComplete

----------------------------------------------------------------------------
(* The works                                                               *)

(* rtw_fw_c2h_cmd_rx_irqsafe: URBs are out, so reports come at any time.   *)
C2hArrives ==
  /\ hw /\ pending' = pending \union {"c2h"}
  /\ UNCHANGED <<mutex, flags, chip, op, cancel, cur, rest>>

(* rtw_ops_set_tim, for the stations of an interface that beacons          *)
SetTim ==
  /\ ~idle /\ (op # NULL => op.call # "leave_ips")
  /\ \E v \in Vifs : type[v] = "mesh"
  /\ pending' = pending \union {"update_beacon"}
  /\ UNCHANGED <<mutex, flags, chip, op, cancel, cur, rest>>

WorkStart(w) ==
  /\ cur = NULL /\ w \in pending
  /\ cur' = w /\ pending' = pending \ {w}
  /\ UNCHANGED <<mutex, flags, chip, op, cancel, rest>>

(* Mutant: RUNNING is not looked at.                                       *)
ChecksNothing(w) == FALSE

(* The works that return if RUNNING is clear                               *)
ChecksRunning(w) == w \in {"c2h", "watch_dog", "coex"}

(* The work gets the mutex; the watchdog queues itself first of all, and   *)
(* leaves LPS unless a scan is on.                                         *)
WorkLock ==
  /\ cur # NULL /\ mutex = NULL
  /\ IF ChecksRunning(cur) /\ ~running
     THEN mutex' = NULL /\ cur' = NULL /\ UNCHANGED <<pending, lps, fw_lps>>
     ELSE /\ mutex' = "work" /\ cur' = cur
          /\ pending' = pending \union ({cur} \intersect {"watch_dog"})
          /\ IF cur = "watch_dog" /\ ~scanning THEN LeaveLps
             ELSE UNCHANGED <<lps, fw_lps>>
  /\ UNCHANGED <<running, poweron, scanning, ps_enabled, hw, op, cancel, rest>>

(* The watchdog's conditions on entering LPS, less the traffic             *)
MayEnterLps == ps_enabled /\ assoc # {} /\ ~scanning

(* The rest of the work.  The coex works and the reports of BT may leave   *)
(* LPS, and queue coex works.                                              *)
WorkEnd ==
  /\ mutex = "work" /\ mutex' = NULL /\ cur' = NULL
  /\ \/ /\ cur = "watch_dog" /\ MayEnterLps
        /\ lps' = TRUE /\ fw_lps' = TRUE /\ UNCHANGED pending
     \/ /\ cur \in {"watch_dog", "coex", "c2h"}
        /\ LeaveLps \/ UNCHANGED <<lps, fw_lps>>
        /\ RunCoex(pending)
     \/ /\ cur = "update_beacon"
        /\ UNCHANGED <<lps, fw_lps, pending>>
  /\ UNCHANGED <<running, poweron, scanning, ps_enabled, hw, op, cancel, rest>>

Stopping == CancelWork \/ StopPowerOff
Worker == (\E w \in Works : WorkStart(w)) \/ WorkLock \/ WorkEnd

Next == MacCall \/ Operation \/ Stopping \/ C2hArrives \/ SetTim \/ Worker

Spec == Init /\ [][Next]_vars

(* A call goes on, and the work queue comes to the watchdog in its turn;   *)
(* the mutex is fair: who waits gets it though others take it again and    *)
(* again.                                                                  *)
FairSpec ==
  /\ Spec /\ SF_vars(Operation) /\ SF_vars(Stopping)
  /\ SF_vars(WorkStart("watch_dog")) /\ SF_vars(WorkLock) /\ WF_vars(WorkEnd)

----------------------------------------------------------------------------
(* Every variable has its type.                                            *)
TypeOK ==
  /\ mutex \in {NULL, "op", "work"} /\ cur \in Works \union {NULL}
  /\ {running, poweron, scanning, lps, ps_enabled, hw, fw_lps, started, idle,
       failed}
       \subseteq BOOLEAN
  /\ op \in [call : Calls, v : Vifs \union {NULL}] \union {NULL}
  /\ cancel \in Seq(Works \union {"power_off"})
  /\ \A i, j \in DOMAIN cancel : cancel[i] = cancel[j] => i = j
  /\ pending \subseteq Works
  /\ type \in [Vifs -> Types \union {NULL}]
  /\ assoc \subseteq Vifs /\ ps \subseteq Vifs

(* RUNNING means the chip has power and POWERON says so: at every moment,  *)
(* also while rtw_core_stop is without the mutex.                          *)
RunningMeansPowered == running => poweron /\ hw

(* While the device runs, and only then, the watchdog is queued or runs,   *)
(* once a stop has returned: none is left behind and none is lost.         *)
WatchDogExact ==
  ~InStop /\ mutex = NULL /\ cur # "watch_dog"
    => (("watch_dog" \in pending) <=> running)

(* A work gets to the registers of the chip only while it has power; the   *)
(* update_beacon work, which has no check, can do otherwise only if        *)
(* mac80211 goes on after a failed rtw_leave_ips.                          *)
NoIoWhenOff == mutex = "work" => hw \/ (cur = "update_beacon" /\ failed)

(* Between operations, LPS is on only for a lone, associated STATION       *)
(* interface outside of a scan; driver and firmware agree on it whenever   *)
(* nobody holds the mutex.                                                 *)
LpsAgrees ==
  /\ mutex = NULL => lps = fw_lps
  /\ lps /\ op = NULL => ~scanning /\ \E v \in assoc : Added(type) = {v}

(* Nothing gets stuck around the mutex: rtw_core_stop returns whatever work*)
(* it meets, and the watchdog of a device that keeps running comes round.  *)
StopReturns == InStop ~> ~InStop
WatchDogRuns == []<>(cur = "watch_dog" \/ ~running)
NothingStuck == StopReturns /\ WatchDogRuns

============================================================================
