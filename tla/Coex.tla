-------------------------------- MODULE Coex --------------------------------
(***************************************************************************)
(* The state machine of coex.c: what the notifications of WLAN (mac80211   *)
(* and the watch dog), the reports of Bluetooth and seven delayed works    *)
(* make of the facts the decisions of CoexCases are taken on, and when a   *)
(* decision is taken.                                                      *)
(*                                                                         *)
(* The handlers run under rtwdev->mutex and are atomic here.  The works    *)
(* run one at a time on mac80211's ordered workqueue; one that has been    *)
(* taken off the queue may wait for the mutex, so taking and running are   *)
(* two steps.  rtw_core_stop gives the mutex back and cancels the works    *)
(* one after the other.  efuse->btcoex is set; manual_control (debugfs) is *)
(* not, and stop_dm is FALSE once the hardware is configured.              *)
(***************************************************************************)
EXTENDS CoexCases, Sequences

CONSTANTS
  BtInfos,        (* reports of Bluetooth, [lb2, setup_link, multi_link]   *)
  DISABLE_AFTER,  (* runs without activity until it counts as off (10)     *)
  CNT_RANGE,      (* values of the u8 bt_disable_cnt (256)                 *)
  MAX_EVENTS      (* bound on the events from outside                      *)

VARIABLES
  rtwdev,         (* flags of rtw_dev, and rtw_coex: see Zero, Init        *)
  pending,        (* delayed works queued                                  *)
  executing,      (* works taken off the queue                             *)
  c2h,            (* the report of Bluetooth rtw_c2h_work has, if any       *)
  stop_at,        (* rtw_core_stop: next work to cancel, 0 outside         *)
  events

coex_vars == <<rtwdev, pending, executing, c2h, stop_at, events>>

CancelOrder == <<"c2h", "relink", "reenable", "defreeze", "wl_remain", "bt_remain",
                 "connecting", "multi_remain">>

NoInfo == [lb2 |-> {}, setup_link |-> FALSE, multi_link |-> FALSE]

(* struct rtw_coex_stat and rtw_coex_dm, all zero.  heard: the activity    *)
(* counters of Bluetooth last read were neither all 0 nor all 0xffff       *)
Zero == [setup_link |-> FALSE, inq_page |-> FALSE, inq_remain |-> FALSE,
         multi_remain |-> FALSE, reenable |-> FALSE, connecting |-> FALSE,
         hi_pri_task1 |-> FALSE, hi_pri_task2 |-> FALSE, gl_busy |-> FALSE,
         linkscan |-> FALSE, under_lps |-> FALSE, under_ips |-> FALSE,
         bt_disabled |-> FALSE, disable_cnt |-> 0, heard |-> FALSE, connected |-> FALSE,
         info |-> NoInfo, path |-> "POWERON", table |-> 0, tdma |-> 0]

Outside == [share_ant : BOOLEAN, running : {FALSE}, freeze : {FALSE}, under_5g : {FALSE},
            band : {"2G", "5G"}, scanning : {FALSE}, busy : {FALSE}, stations : {FALSE},
            queue : {{}}]

(* g @@ f for the records used here: the fields of f, and those of g       *)
Over(f, g) == [k \in DOMAIN f \cup DOMAIN g |-> IF k \in DOMAIN f THEN f[k] ELSE g[k]]

Init == /\ rtwdev \in {Over(o, Zero) : o \in Outside}
        /\ pending = {} /\ executing = {} /\ c2h = {} /\ stop_at = 0 /\ events = 0

----------------------------------------------------------------------------
(* What run_coex decides on.  What depends on rates, counters and RSSI is  *)
(* left out here (CoexCases has all of it).                                *)
Known(d) ==
  [k \in {"hid_pair", "hid_pairs", "rssi_high", "lo_pri", "ble_scan", "page", "slave",
          "slow_rate", "ble", "many_aps", "a2dp_active", "hid_418", "ble_hid", "noisy",
          "a2dp_sink", "whck", "share_ant", "under_5g", "bt_disabled", "connected",
          "under_lps", "setup_link", "inq_page", "status", "linkscan", "gl_busy",
          "profiles", "multi_link", "hi_pri_task1", "hi_pri_task2", "multi_link_remain",
          "connecting"}
   |-> CASE k = "status" -> BtStatus(d.info.lb2)
         [] k = "profiles" -> BtProfiles(d.info.lb2)
         [] k = "multi_link" -> d.info.multi_link
         [] k = "multi_link_remain" -> d.multi_remain
         [] k \in DOMAIN d -> d[k]
         [] OTHER -> FALSE]

(* "queue" collects the works a handler queues                             *)
Queue(d, work) == [d EXCEPT !.queue = @ \cup {work}]

(* rtw_coex_monitor_bt_enable, for a chip without scoreboard               *)
MonitorBtEnable(d) ==
  LET count == IF d.heard THEN 0 ELSE (d.disable_cnt + 1) % CNT_RANGE
      off == ~d.heard /\ count >= DISABLE_AFTER
      counted == [d EXCEPT !.disable_cnt = count]
  IN  CASE off <=> d.bt_disabled -> counted
        [] off /\ ~d.bt_disabled ->
             [counted EXCEPT !.bt_disabled = TRUE, !.reenable = FALSE]
        [] OTHER -> Queue([counted EXCEPT !.bt_disabled = FALSE, !.reenable = TRUE],
                          "reenable")

Reasons2G == {"2GSCANSTART", "2GSWITCHBAND", "2GCONSTART"}
Reasons5G == {"5GSCANSTART", "5GSWITCHBAND", "5GCONSTART"}

UpdateWlLinkInfo(d, reason) ==
  LET u == [d EXCEPT !.connected = d.stations,
                     !.gl_busy = d.gl_busy \/ d.busy,
                     !.linkscan = d.scanning \/ reason \in Reasons2G,
                     !.under_5g = \/ reason \in Reasons5G
                                  \/ reason \notin Reasons2G /\ d.band = "5G"]
  IN  IF d.gl_busy /\ ~d.busy THEN Queue(u, "wl_remain") ELSE u

RunCoex(d, reason) ==
  LET u == MonitorBtEnable(UpdateWlLinkInfo(d, reason))
      c == Decision(Known(u))
  IN  CASE ~d.running -> d
        [] d.running /\ (u.under_ips \/ (u.freeze /\ reason = "BTINFO" /\ ~u.setup_link)) -> u
        [] OTHER -> [u EXCEPT !.path = c.path, !.table = c.table, !.tdma = c.tdma]

InitHwConfig(d) ==
  [MonitorBtEnable(Over(Zero, d)) EXCEPT
     !.path = "INIT", !.freeze = TRUE, !.table = 1, !.tdma = 0]

(* rtw88xxa_power_on: rtw_coex_power_on_setting, rtw_coex_init_hw_config   *)
PowerOnSetting(d) == [MonitorBtEnable(d) EXCEPT !.path = "POWERON", !.table = 1]
CoreStart(d) == [InitHwConfig(PowerOnSetting(d)) EXCEPT !.running = TRUE]

ScanStart2G(d) ==
  RunCoex([d EXCEPT !.freeze = FALSE, !.hi_pri_task2 = TRUE, !.path = "2G"], "2GSCANSTART")

ScanFinish(d) == RunCoex([d EXCEPT !.freeze = FALSE, !.hi_pri_task2 = FALSE], "SCANFINISH")

SwitchBand(d) ==
  CASE d.band = "5G" -> RunCoex(d, "5GSWITCHBAND")
    [] d.band = "2G" /\ d.scanning -> ScanStart2G(d)
    [] OTHER -> RunCoex(d, "2GSWITCHBAND")

LeaveLps(d) ==
  IF d.under_lps THEN RunCoex([d EXCEPT !.under_lps = FALSE], "LPS") ELSE d

EnterLps(d) == RunCoex([d EXCEPT !.under_lps = TRUE], "LPS")

ConnectStart(d) ==
  LET e == [d EXCEPT !.hi_pri_task1 = TRUE, !.connecting = TRUE, !.path = "2G"]
  IN  Queue([RunCoex(Queue(e, "connecting"), "2GCONSTART") EXCEPT !.freeze = TRUE],
            "defreeze")

ConnectFinish(d) ==
  RunCoex([d EXCEPT !.hi_pri_task1 = FALSE, !.freeze = FALSE, !.connecting = FALSE],
          "2GCONFINISH")

MediaConnect(d) == RunCoex([d EXCEPT !.connecting = FALSE, !.path = "2G"], "2GMEDIA")

----------------------------------------------------------------------------
(* rtw_coex_bt_info_notify                                                 *)
Heard(d) ==
  IF d.bt_disabled
  THEN Queue([d EXCEPT !.bt_disabled = FALSE, !.reenable = TRUE], "reenable") ELSE d

InqPage(b) == "INQ_PAGE" \in b.lb2

Page(d, b) ==
  CASE InqPage(b) <=> d.inq_page -> d
    [] InqPage(b) /\ ~d.inq_page -> [d EXCEPT !.inq_page = TRUE, !.inq_remain = TRUE]
    [] OTHER -> Queue([d EXCEPT !.inq_page = FALSE], "bt_remain")

SetupLink(d, b) ==
  IF b.setup_link THEN Queue([d EXCEPT !.setup_link = TRUE], "relink") ELSE d

(* Mutant: the work that ends the remaining time is not queued.            *)
MultiLinkForever(d, b) ==
  [d EXCEPT !.multi_remain = @ \/ (d.info.multi_link /\ ~b.multi_link)]

MultiLink(d, b) ==
  IF d.info.multi_link /\ ~b.multi_link
  THEN Queue([d EXCEPT !.multi_remain = TRUE], "multi_remain") ELSE d

(* rtw_coex_update_bt_link_info                                            *)
LinkInfo(d, b) ==
  [d EXCEPT !.info = b, !.multi_remain = @ /\ BtStatus(b.lb2) # "NCON_IDLE"]

(* Mutant: a decision is not taken again when a link is being set up.      *)
BtInfoUnlessSetup(d, b) ==
  LET h == Heard(d)
      i == LinkInfo(MultiLink(SetupLink(Page(h, b), b), b), b)
  IN  IF b = d.info THEN h ELSE IF b.setup_link THEN i ELSE RunCoex(i, "BTINFO")

BtInfo(d, b) ==
  LET h == Heard(d)
  IN  IF b = d.info THEN h
      ELSE RunCoex(LinkInfo(MultiLink(SetupLink(Page(h, b), b), b), b), "BTINFO")

(* The page or inquiry of Bluetooth begins or ends: bt_remain_work is      *)
(* cancelled, and waited for, with the mutex held.                         *)
CancelsRemain(b) == b # rtwdev.info /\ ~(InqPage(b) <=> rtwdev.inq_page)

----------------------------------------------------------------------------
(* The works                                                               *)
Work(d, w) ==
  CASE w = "relink" -> RunCoex([d EXCEPT !.setup_link = FALSE], "WLSTATUS")
    [] w = "reenable" -> [d EXCEPT !.reenable = FALSE]
    [] w = "defreeze" ->
         RunCoex([d EXCEPT !.freeze = FALSE, !.hi_pri_task1 = FALSE], "WLSTATUS")
    [] w = "wl_remain" -> RunCoex([d EXCEPT !.gl_busy = d.busy], "WLSTATUS")
    [] w = "bt_remain" -> RunCoex([d EXCEPT !.inq_remain = d.inq_page], "BTSTATUS")
    [] w = "connecting" -> RunCoex([d EXCEPT !.connecting = FALSE], "WLSTATUS")
    [] w = "multi_remain" -> [d EXCEPT !.multi_remain = FALSE]

(* A handler has made d of rtwdev, with the works it queued                *)
Becomes(d) == rtwdev' = [d EXCEPT !.queue = {}]

Take(w) ==
  /\ w \in pending /\ executing = {}
  /\ pending' = pending \ {w} /\ executing' = {w}
  /\ UNCHANGED <<rtwdev, c2h, stop_at, events>>

RunWork(w) ==
  /\ w \in executing /\ w # "c2h"
  /\ LET d == Work(rtwdev, w) IN Becomes(d) /\ pending' = pending \cup d.queue
  /\ executing' = executing \ {w}
  /\ UNCHANGED <<c2h, stop_at, events>>

C2hWork ==
  /\ "c2h" \in executing
  /\ \E b \in c2h :
       LET d == BtInfo(rtwdev, b)
           cancelled == IF CancelsRemain(b) THEN {"bt_remain"} ELSE {}
       IN  /\ executing \intersect cancelled = {}
           /\ Becomes(d) /\ pending' = (pending \ cancelled) \cup d.queue
  /\ executing' = executing \ {"c2h"} /\ c2h' = {}
  /\ UNCHANGED <<stop_at, events>>

----------------------------------------------------------------------------
(* Events from outside                                                     *)
Event == events < MAX_EVENTS /\ events' = events + 1

(* A handler of mac80211 or the watch dog, with the mutex.  One that ends  *)
(* what another began is not counted among the events.                     *)
Completes(d) == /\ stop_at = 0
                /\ Becomes(d) /\ pending' = pending \cup d.queue
                /\ UNCHANGED <<executing, c2h, stop_at>>

Handler(d) == Event /\ Completes(d)

Start == /\ ~rtwdev.running /\ ~rtwdev.under_ips
         /\ Completes(CoreStart(rtwdev)) /\ UNCHANGED events

(* rtw_leave_ips: rtw_core_start, rtw_coex_ips_notify, rtw_set_channel     *)
LeaveIps == /\ ~rtwdev.running /\ rtwdev.under_ips
            /\ Completes(SwitchBand(InitHwConfig(CoreStart(rtwdev)))) /\ UNCHANGED events

SetChannel(band) ==
  /\ rtwdev.running
  /\ Handler(SwitchBand([rtwdev EXCEPT !.band = band]))

ScanStart == /\ rtwdev.running /\ ~rtwdev.scanning
             /\ Handler([ScanStart2G(LeaveLps(rtwdev)) EXCEPT !.scanning = TRUE])

ScanComplete == /\ rtwdev.running /\ rtwdev.scanning
                /\ Completes(ScanFinish([rtwdev EXCEPT !.scanning = FALSE]))
                /\ UNCHANGED events

(* rtw_ops_mgd_prepare_tx                                                  *)
PrepareTx == /\ rtwdev.running /\ ~rtwdev.scanning
             /\ Handler(ConnectStart(rtwdev))

(* rtw_ops_sta_add, and rtw_ops_bss_info_changed with assoc                *)
Associate == /\ rtwdev.running /\ ~rtwdev.scanning /\ ~rtwdev.stations
             /\ Handler(MediaConnect(ConnectFinish([rtwdev EXCEPT !.stations = TRUE])))

(* rtw_ops_bss_info_changed without, and rtw_ops_sta_remove: no coex call  *)
(* but the one of leaving LPS                                              *)
Disassociate == /\ rtwdev.running /\ rtwdev.stations
                /\ Handler([LeaveLps(rtwdev) EXCEPT !.stations = FALSE])

(* rtw_watch_dog_work: it leaves LPS, reads the counters of Bluetooth, and *)
(* may enter LPS again                                                     *)
WatchDog(busy, heard, lps) ==
  LET b == [rtwdev EXCEPT !.busy = busy]
      changed == IF busy # rtwdev.busy THEN RunCoex(b, "WLSTATUS") ELSE b
      awake == [LeaveLps(changed) EXCEPT !.heard = heard]
  IN  /\ rtwdev.running /\ executing = {}
      /\ lps => ~busy /\ rtwdev.stations
      /\ Handler(CASE rtwdev.scanning -> changed
                   [] ~rtwdev.scanning /\ lps -> EnterLps(awake)
                   [] OTHER -> awake)

(* The firmware forwards a report; rtw_fw_c2h_cmd_rx_irqsafe queues it     *)
Report(b) ==
  /\ Event /\ c2h = {} /\ (rtwdev.running \/ stop_at > 0)
  /\ c2h' = {b} /\ pending' = pending \cup {"c2h"}
  /\ UNCHANGED <<rtwdev, executing, stop_at>>

(* rtw_core_stop, after rtw_coex_ips_notify when the device goes idle      *)
StopBegin(ips) ==
  /\ Event /\ stop_at = 0 /\ rtwdev.running /\ ~rtwdev.scanning
  /\ ~rtwdev.stations /\ ~rtwdev.under_lps
  /\ LET off == [rtwdev EXCEPT !.under_ips = TRUE, !.path = "WOFF",
                               !.table = IF rtwdev.share_ant THEN 2 ELSE 100,
                               !.tdma = IF rtwdev.share_ant THEN 0 ELSE 100]
     IN  rtwdev' = [(IF ips THEN off ELSE rtwdev) EXCEPT !.running = FALSE]
  /\ stop_at' = 1
  /\ UNCHANGED <<pending, executing, c2h>>

CancelWork ==
  /\ stop_at > 0
  /\ LET w == CancelOrder[stop_at]
     IN  /\ w \notin executing
         /\ pending' = pending \ {w}
         /\ c2h' = IF w = "c2h" THEN {} ELSE c2h
  /\ stop_at' = IF stop_at = Len(CancelOrder) THEN 0 ELSE stop_at + 1
  /\ UNCHANGED <<rtwdev, executing, events>>

Next ==
  \/ \E w \in {CancelOrder[i] : i \in 1..Len(CancelOrder)} : Take(w) \/ RunWork(w)
  \/ C2hWork \/ CancelWork
  \/ Start \/ LeaveIps \/ ScanStart \/ ScanComplete \/ PrepareTx
  \/ Associate \/ Disassociate
  \/ \E band \in {"2G", "5G"} : SetChannel(band)
  \/ \E busy, heard, lps \in BOOLEAN : WatchDog(busy, heard, lps)
  \/ \E b \in BtInfos : Report(b)
  \/ \E ips \in BOOLEAN : StopBegin(ips)

Spec == Init /\ [][Next]_coex_vars

----------------------------------------------------------------------------
(* While the device runs, no passing condition stays: each has the work    *)
(* that ends it on its way, however starts, stops, reports and works are   *)
(* interleaved (coex.c:3037, coex.c:3134, main.c:1642).  And the report    *)
(* that cancels bt_remain_work with the mutex held never waits for one     *)
(* that waits for the mutex.                                               *)
Coming(w) == w \in pending \cup executing

CoexSettles ==
  /\ rtwdev.running =>
       /\ rtwdev.setup_link => Coming("relink")
       /\ rtwdev.inq_page => rtwdev.inq_remain
       /\ rtwdev.inq_remain => rtwdev.inq_page \/ Coming("bt_remain")
       /\ rtwdev.multi_remain => Coming("multi_remain")
       /\ rtwdev.reenable => Coming("reenable")
       /\ rtwdev.connecting => Coming("connecting")
       /\ rtwdev.hi_pri_task1 => Coming("defreeze")
       /\ rtwdev.hi_pri_task2 => rtwdev.scanning
       /\ rtwdev.gl_busy /\ ~rtwdev.busy => Coming("wl_remain")
  /\ ~({"c2h", "bt_remain"} \subseteq executing /\ \E b \in c2h : CancelsRemain(b))

(* Unless the decisions are frozen, the one in force is that of what is    *)
(* known now: no notification leaves a stale one (coex.c:2548).  Two facts *)
(* may have changed since: a report that is only a repetition can say that *)
(* Bluetooth is back, and the end of multi_link_remain decides nothing.    *)
CoexFresh ==
  rtwdev.running /\ ~rtwdev.under_ips /\ ~rtwdev.freeze =>
    /\ \E off, remain \in BOOLEAN :
         LET c == Decision(Known([rtwdev EXCEPT !.bt_disabled = @ \/ off,
                                                !.multi_remain = @ \/ remain]))
         IN  rtwdev.table = c.table /\ rtwdev.tdma = c.tdma /\ rtwdev.path = c.path
    /\ ~rtwdev.scanning => (rtwdev.path = "5G" <=> rtwdev.band = "5G")

============================================================================
