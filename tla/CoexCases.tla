----------------------------- MODULE CoexCases -----------------------------
(***************************************************************************)
(* The decisions of coex.c: which coexistence table, which TDMA case and   *)
(* which antenna path the device uses, as functions of what is known of    *)
(* the WLAN and the Bluetooth side.  Cases below 100 are those of a shared *)
(* antenna, the others those of separate antennas.                         *)
(*                                                                         *)
(* q is what is known, a record; what a decision needs of RSSI, rates and  *)
(* counters are BOOLEAN fields of it.                                      *)
(***************************************************************************)
EXTENDS Integers, FiniteSets

(* A decision: table, TDMA case, whether the slots are 4, antenna path     *)
Is(table, tdma) == [table |-> table, tdma |-> tdma, slot4 |-> FALSE, path |-> "2G"]
Is4(table, tdma) == [Is(table, tdma) EXCEPT !.slot4 = TRUE]

Profiles == {"HFP", "HID", "A2DP", "PAN"}

----------------------------------------------------------------------------
(* rtw_coex_update_bt_link_info: the status, from the flags of BT info     *)
BtStatus(lb2) ==
  CASE "INQ_PAGE" \in lb2 -> "INQ_PAGE"
    [] "INQ_PAGE" \notin lb2 /\ "CONNECTION" \notin lb2 -> "NCON_IDLE"
    [] lb2 = {"CONNECTION"} -> "CON_IDLE"
    [] OTHER ->
         IF lb2 \intersect {"SCO_ESCO", "SCO_BUSY"} # {}
         THEN IF "ACL_BUSY" \in lb2 THEN "ACL_SCO_BUSY" ELSE "SCO_BUSY"
         ELSE IF "ACL_BUSY" \in lb2 THEN "ACL_BUSY" ELSE "MAX"

BtProfiles(lb2) ==
  IF "CONNECTION" \notin lb2 THEN {}
  ELSE {p \in Profiles : CASE p = "HFP" -> "SCO_ESCO" \in lb2
                           [] p = "HID" -> "HID" \in lb2
                           [] p = "A2DP" -> "A2DP" \in lb2
                           [] p = "PAN" -> "FTP" \in lb2}

(* rtw_coex_algorithm                                                      *)
Algorithm(q) ==
  LET hands == q.profiles \intersect {"HFP", "HID"} # {}
      music == "A2DP" \in q.profiles
      data == "PAN" \in q.profiles
  IN  CASE q.profiles = {"HFP"} -> "HFP"
        [] q.profiles # {"HFP"} /\ hands /\ ~music /\ ~data -> "HID"
        [] hands /\ music /\ ~data -> "A2DP_HID"
        [] hands /\ ~music /\ data -> "PAN_HID"
        [] hands /\ music /\ data -> "A2DP_PAN_HID"
        [] ~hands /\ ~music /\ data -> "PAN"
        [] ~hands /\ music /\ data -> "A2DP_PAN"
        [] q.profiles = {"A2DP"} ->
             IF ~q.multi_link THEN "A2DP" ELSE IF q.hid_pair THEN "A2DP_HID" ELSE "A2DP_PAN"
        [] OTHER -> "NOPROFILE"

(* rtw_coex_freerun_check, whose ant_distance is 10                        *)
FreerunCheck(q) ==
  /\ ~q.bt_disabled /\ ~q.share_ant /\ q.gl_busy
  /\ q.hid_pairs \/ q.rssi_high

----------------------------------------------------------------------------
Freerun == [Is(100, 100) EXCEPT !.path = "2G_FREERUN"]

Relink(q) ==
  CASE ~q.share_ant -> Is(IF q.gl_busy THEN 115 ELSE 100, 100)
    [] q.share_ant /\ ~q.gl_busy -> Is(1, 0)
    [] OTHER -> IF q.profiles = {"HID"} THEN Is4(26, 20) ELSE Is(26, 20)

(* The antenna switch is not one "with_bt" (no rfe type of this chip is).  *)
BtIdle(q) ==
  IF q.share_ant
  THEN CASE ~q.gl_busy -> Is(10, 3)
         [] q.gl_busy /\ q.status = "NCON_IDLE" -> Is(11, IF q.lo_pri THEN 17 ELSE 7)
         [] OTHER -> Is(12, 7)
  ELSE CASE ~q.gl_busy -> Is(112, 104)
         [] q.gl_busy /\ q.ble_scan /\ q.status = "NCON_IDLE" -> Is(114, 103)
         [] OTHER -> Is(112, 103)

Inquiry(q) ==
  LET hi_pri == q.linkscan \/ q.hi_pri_task1 \/ q.hi_pri_task2
      base == IF q.share_ant THEN 0 ELSE 100
      hi_case == CASE q.profiles # {} -> 10
                   [] q.profiles = {} /\ q.hi_pri_task1 -> 6
                   [] OTHER -> IF q.page THEN 9 ELSE 8
  IN  CASE hi_pri -> Is(IF q.share_ant THEN 15 ELSE 114, base + hi_case)
        [] ~hi_pri /\ ~q.share_ant -> IF q.gl_busy THEN Is(114, 121) ELSE Is(101, 100)
        [] OTHER ->
             IF q.gl_busy
             THEN CASE q.profiles = {} -> Is(12, 18)
                    [] Cardinality(q.profiles) = 1 /\ "A2DP" \notin q.profiles -> Is4(12, 20)
                    [] OTHER -> Is4(12, 26)
             ELSE IF q.connected THEN Is(9, 27) ELSE Is(1, 0)

Hfp(q) ==
  CASE q.share_ant -> Is(10, 5)
    [] ~q.share_ant /\ q.multi_link -> Is(112, 117)
    [] OTHER -> Is(105, 100)

Hid(q) ==
  LET links == /\ Cardinality(q.profiles) = 1 /\ q.multi_link
               /\ q.lo_pri \/ q.slave \/ q.multi_link_remain
      slow == q.gl_busy /\ q.slow_rate
  IN  IF q.share_ant
      THEN CASE q.ble -> IF q.many_aps THEN Is(26, 2) ELSE Is(27, 9)
             [] ~q.ble /\ q.a2dp_active -> Is(9, 18)
             [] ~q.ble /\ ~q.a2dp_active /\ links -> Is(IF slow THEN 13 ELSE 12, 26)
             [] OTHER -> CASE q.hid_418 /\ q.gl_busy -> Is4(32, 27)
                           [] ~q.hid_418 /\ q.ble_hid /\ q.gl_busy -> Is(36, 0)
                           [] OTHER -> Is(9, 9)
      ELSE CASE q.ble -> IF q.many_aps THEN Is(121, 102) ELSE Is(122, 109)
             [] ~q.ble /\ q.a2dp_active -> Is(113, 118)
             [] OTHER -> Is(113, 104)

Strong(q) == IF q.rssi_high THEN 112 ELSE 113

A2dp(q) ==
  IF q.share_ant
  THEN Is4(IF q.gl_busy /\ ~q.noisy THEN 12 ELSE 9,
           IF q.connecting \/ ~q.gl_busy THEN 14 ELSE 13)
  ELSE Is4(112, Strong(q))

A2dpSink(q) ==
  IF q.share_ant THEN Is(28, IF q.gl_busy THEN 20 ELSE 26) ELSE Is(119, 120)

(* PAN, A2DP with PAN, PAN with HID, all three: the table when the traffic *)
(* is heavy on a clean channel and otherwise, and the TDMA case when the   *)
(* traffic is heavy and otherwise                                          *)
Busy(q, clean, table, busy, idle) ==
  Is(IF q.gl_busy /\ ~q.noisy THEN clean ELSE table, IF q.gl_busy THEN busy ELSE idle)

Pan(q) == IF q.share_ant THEN Busy(q, 14, 10, 17, 20) ELSE Busy(q, 112, 112, 117, 119)
A2dpPan(q) == IF q.share_ant THEN Busy(q, 14, 10, 15, 20) ELSE Busy(q, 112, 112, 115, 120)
PanHid(q) == IF q.share_ant THEN Busy(q, 9, 9, 18, 19) ELSE Busy(q, 113, 113, 117, 119)
A2dpPanHid(q) == IF q.share_ant THEN Busy(q, 10, 10, 15, 20) ELSE Busy(q, 113, 113, 115, 120)

A2dpHid(q) ==
  IF q.share_ant
  THEN Is4(IF q.ble THEN 26 ELSE 9,
           CASE q.connecting \/ ~q.gl_busy -> 14
             [] ~q.connecting /\ q.gl_busy /\ q.hid_418 -> 23
             [] OTHER -> 13)
  ELSE Is4(IF q.ble THEN 121 ELSE 113, Strong(q))

(* Mutant: the case of the other antenna.                                  *)
Under5gShared(q) == [Is(0, 0) EXCEPT !.path = "5G"]

Under5g(q) == [(IF q.share_ant THEN Is(0, 0) ELSE Is(100, 100)) EXCEPT !.path = "5G"]
WlOnly(q) == IF q.share_ant THEN Is(2, 0) ELSE Is(100, 100)
NotConnected(q) == IF q.share_ant THEN Is(1, 0) ELSE Is(100, 100)
NativeLps(q) == IF q.share_ant THEN Is(28, 0) ELSE Is(100, 100)

LinkScan(q) ==
  IF q.share_ant
  THEN IF "A2DP" \in q.profiles THEN Is4(IF q.gl_busy THEN 26 ELSE 9, 11) ELSE Is(9, 7)
  ELSE IF "A2DP" \in q.profiles THEN Is4(112, 111) ELSE Is(112, 107)

(* rtw_coex_action_wl_connected                                            *)
WlConnected(q) ==
  LET a == Algorithm(q)
      free == a \in {"HID", "A2DP", "A2DP_HID"} /\ FreerunCheck(q)
  IN  CASE free -> Freerun
        [] a = "HFP" -> Hfp(q)
        [] a = "HID" /\ ~free -> Hid(q)
        [] a = "A2DP" /\ ~free -> IF q.a2dp_sink THEN A2dpSink(q) ELSE A2dp(q)
        [] a = "PAN" -> Pan(q)
        [] a = "A2DP_HID" /\ ~free -> A2dpHid(q)
        [] a = "A2DP_PAN" -> A2dpPan(q)
        [] a = "PAN_HID" -> PanHid(q)
        [] a = "A2DP_PAN_HID" -> A2dpPanHid(q)
        [] a = "NOPROFILE" -> BtIdle(q)

(* The cascade of rtw_coex_run_coex.  No game HID is ever known (its       *)
(* reports need wl_mimo_ps_support, hid_info_notify), and rf4ce_en is      *)
(* FALSE.                                                                  *)
Decision(q) ==
  IF q.under_5g THEN Under5g(q)
  ELSE IF q.bt_disabled THEN IF q.connected THEN WlOnly(q) ELSE NotConnected(q)
  ELSE IF q.under_lps THEN NativeLps(q)
  ELSE IF q.whck THEN WlOnly(q)
  ELSE IF q.setup_link THEN Relink(q)
  ELSE IF q.inq_page THEN Inquiry(q)
  ELSE IF q.status \in {"NCON_IDLE", "CON_IDLE"} /\ q.connected THEN BtIdle(q)
  ELSE IF q.linkscan THEN LinkScan(q)
  ELSE IF q.connected THEN WlConnected(q) ELSE NotConnected(q)

----------------------------------------------------------------------------
Off(c) == c.tdma \in {0, 100}

(* Table and TDMA case belong to the antenna the device has.  Time is      *)
(* divided only where Bluetooth may be on the air, and never in the 5 GHz  *)
(* band; while Bluetooth plays, or does nothing but a call, and WLAN has   *)
(* associated and is busy, it always is, if they share the antenna.  Only  *)
(* separate antennas run free.                                             *)
DecisionSound(q) ==
  LET c == Decision(q)
  IN  /\ c.table >= 100 <=> ~q.share_ant
      /\ c.tdma >= 100 <=> ~q.share_ant
      /\ q.under_5g \/ q.bt_disabled => Off(c)
      /\ c.slot4 => ~Off(c)
      /\ /\ q.share_ant /\ q.connected /\ q.gl_busy
         /\ ~q.under_5g /\ ~q.bt_disabled /\ ~q.under_lps /\ ~q.whck
         /\ "A2DP" \in q.profiles \/ q.profiles = {"HFP"}
         => ~Off(c)
      /\ c.path = "5G" <=> q.under_5g
      /\ c.path = "2G_FREERUN" => ~q.share_ant /\ q.gl_busy /\ q.connected

============================================================================
