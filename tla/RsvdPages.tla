----------------------------- MODULE RsvdPages -----------------------------
(***************************************************************************)
(* The reserved pages: frames the firmware sends on its own, at the end of *)
(* the chip's TX buffer (fw.c).  Every interface lists its frames; the     *)
(* driver lays them out in pages, the beacon first, downloads the whole as *)
(* if it were one frame, downloads the beacon once more to get a           *)
(* descriptor of its own, and tells the firmware where the others are.     *)
(*                                                                         *)
(* All of it runs with rtwdev->mutex held, but mac80211 changes the beacon *)
(* and its TIM meanwhile.  An interface is named by its kind; one that     *)
(* beacons never meets another.  IBSS is handled as mesh is.               *)
(***************************************************************************)
EXTENDS Integers, Sequences, SequencesExt

CONSTANTS
  Beacons,      (* beacons mac80211 may hand out                             *)
  LEN,          (* [Beacons -> its length in bytes]                          *)
  PAGE_SIZE, DESC_SZ,   (* page_size and tx_pkt_desc_sz of the chip          *)
  DRV_PAGES,    (* rsvd_drv_pg_num                                           *)
  MAX_EVENTS,   (* bound: calls of mac80211 in a behaviour                   *)
  MAX_FAULTS    (* bound: allocations and transfers that fail                *)

Kinds == {"STATION", "P2P_CLIENT", "AP", "MESH_POINT"}
StationTypes == <<"PS_POLL", "QOS_NULL", "NULL", "LPS_PG_DPK", "LPS_PG_INFO">>
Told == {"PROBE_RESP", "PS_POLL", "NULL", "QOS_NULL"}
Dummy == <<"none", "DUMMY">>
NOTHING == "none"

VARIABLES
  vifs,             (* the interfaces, in mac80211's order                   *)
  beacon,           (* what ieee80211_beacon_get_tim returns now             *)
  notify,           (* BSS_CHANGED_BEACON is on its way                      *)
  update_beacon_work, (* queued                                              *)
  ap_active,
  rsvd_page_list,   (* the build list: <<interface, type>>                   *)
  pkt_page,         (* rsvd_pkt->page, which outlives a build                *)
  rs_pc, buf,       (* where the holder of the mutex is, and its buffer      *)
  good,             (* history: the last download succeeded                  *)
  area, head,       (* the chip: its pages, and what page 0's descriptor says*)
  told,             (* the locations the firmware was sent                   *)
  rs_events, rs_faults

env_vars == <<vifs, beacon, notify, update_beacon_work, ap_active, rs_events>>
IsStation(k) == k \in {"STATION", "P2P_CLIENT"}
Packets == ({"STATION", "P2P_CLIENT"} \X ToSet(StationTypes))
           \cup ({"AP", "MESH_POINT"} \X {"BEACON"}) \cup {Dummy}

Init ==
  /\ vifs = <<>> /\ beacon = NOTHING /\ notify = FALSE /\ update_beacon_work = FALSE
  /\ ap_active = FALSE
  /\ rsvd_page_list = <<>> /\ pkt_page = [p \in Packets |-> 0]
  /\ rs_pc = "idle" /\ buf = <<>> /\ good = FALSE
  /\ area = [i \in 0 .. DRV_PAGES - 1 |-> <<>>] /\ head = NOTHING
  /\ told = [t \in Told |-> 0] /\ rs_events = 0 /\ rs_faults = 0

Event == rs_events < MAX_EVENTS /\ rs_events' = rs_events + 1
Fault == rs_faults < MAX_FAULTS /\ rs_faults' = rs_faults + 1
Quiet == UNCHANGED <<rsvd_page_list, pkt_page, buf, good, area, head, told, rs_faults>>

----------------------------------------------------------------------------
(* rtw_iface_combs: a station beside an AP or a P2P client (an interface   *)
(* of type STATION too); anything else is alone.                           *)
Combines(kinds) ==
  kinds \in SUBSET {"STATION", "AP"} \cup SUBSET {"STATION", "P2P_CLIENT"} \cup {{"MESH_POINT"}}

PacketsOf(k) ==
  IF IsStation(k) THEN [i \in 1 .. Len(StationTypes) |-> <<k, StationTypes[i]>>]
                  ELSE <<<<k, "BEACON">>>>

(* rtw_ops_add_interface and rtw_ops_remove_interface, as far as the       *)
(* reserved pages go: the frames of an interface are allocated with page 0,*)
(* and leave the build list when they are freed.                           *)
AddInterface(k) ==
  /\ rs_pc = "idle" /\ Event
  /\ k \notin ToSet(vifs) /\ Combines(ToSet(vifs) \cup {k})
  /\ vifs' = Append(vifs, k)
  /\ pkt_page' = [p \in Packets |-> IF p[1] = k THEN 0 ELSE pkt_page[p]]
  /\ UNCHANGED <<beacon, notify, update_beacon_work, ap_active, rsvd_page_list, rs_pc, buf,
                 good, area, head, told, rs_faults>>

RemoveInterface(k) ==
  /\ rs_pc = "idle" /\ Event
  /\ k \in ToSet(vifs) /\ (~IsStation(k) => beacon = NOTHING /\ ~ap_active)
  /\ vifs' = SelectSeq(vifs, LAMBDA v : v # k)
  /\ rsvd_page_list' = SelectSeq(rsvd_page_list, LAMBDA p : p[1] # k)
  /\ UNCHANGED <<beacon, notify, update_beacon_work, ap_active, pkt_page, rs_pc, buf, good,
                 area, head, told, rs_faults>>

----------------------------------------------------------------------------
(* mac80211.  A beacon is set before the driver hears of it: an AP's       *)
(* rtw_ops_start_ap first, then, as for a mesh that is joined and for any  *)
(* change, BSS_CHANGED_BEACON.  When it ends the beacon goes first, too.   *)
StartAp ==
  /\ rs_pc = "idle" /\ Event
  /\ "AP" \in ToSet(vifs) /\ beacon = NOTHING /\ ~ap_active
  /\ beacon' \in Beacons /\ ap_active' = TRUE /\ notify' = TRUE
  /\ UNCHANGED <<vifs, update_beacon_work, rs_pc>> /\ Quiet

JoinMesh ==
  /\ Event /\ "MESH_POINT" \in ToSet(vifs) /\ beacon = NOTHING
  /\ beacon' \in Beacons /\ notify' = TRUE
  /\ UNCHANGED <<vifs, ap_active, update_beacon_work, rs_pc>> /\ Quiet

ChangeBeacon ==
  /\ Event /\ beacon # NOTHING /\ ~notify
  /\ beacon' \in Beacons \ {beacon} /\ notify' = TRUE
  /\ UNCHANGED <<vifs, ap_active, update_beacon_work, rs_pc>> /\ Quiet

DropBeacon ==
  /\ Event /\ beacon # NOTHING /\ ~notify
  /\ beacon' = NOTHING
  /\ UNCHANGED <<vifs, ap_active, notify, update_beacon_work, rs_pc>> /\ Quiet

StopAp ==
  /\ rs_pc = "idle" /\ ap_active /\ beacon = NOTHING
  /\ ap_active' = FALSE
  /\ UNCHANGED <<vifs, beacon, notify, update_beacon_work, rs_pc, rs_events>> /\ Quiet

(* rtw_ops_set_tim, with mac80211's tim_lock held, which reading the       *)
(* beacon takes as well.                                                   *)
SetTim ==
  /\ Event /\ beacon # NOTHING
  /\ beacon' \in Beacons \ {beacon} /\ update_beacon_work' = TRUE
  /\ UNCHANGED <<vifs, ap_active, notify, rs_pc>> /\ Quiet

----------------------------------------------------------------------------
(* What downloads the pages: rtw_ops_bss_info_changed for an association   *)
(* or a beacon, and rtw_fw_update_beacon_work.                             *)
Start == rs_pc = "idle" /\ rs_pc' = "build" /\ Quiet

Associate ==
  /\ Start /\ Event /\ \E k \in ToSet(vifs) : IsStation(k)
  /\ UNCHANGED <<vifs, beacon, notify, update_beacon_work, ap_active>>

BeaconChanged ==
  /\ Start /\ notify /\ notify' = FALSE
  /\ UNCHANGED <<vifs, beacon, update_beacon_work, ap_active, rs_events>>

UpdateBeaconWork ==
  /\ Start /\ update_beacon_work /\ update_beacon_work' = FALSE
  /\ UNCHANGED <<vifs, beacon, notify, ap_active, rs_events>>

(* __rtw_build_rsvd_page_from_vifs: a beacon goes to the front; without one*)
(* a dummy takes its place.                                                *)
GatherAll(seq) ==
  FoldLeft(LAMBDA list, k : IF k = "AP" /\ ~ap_active THEN list
                            ELSE IF IsStation(k) THEN list \o PacketsOf(k)
                            ELSE PacketsOf(k) \o list,
           <<>>, seq)

Gather == GatherAll(vifs)
Complete(list) == IF list[1][2] = "BEACON" THEN list ELSE <<Dummy>> \o list

(* Every frame has a descriptor in front, from the driver or, the first,   *)
(* from the TX path; with it, all but beacons fit in a page.               *)
LenToPage(len) == (len + PAGE_SIZE - 1) \div PAGE_SIZE
PagesFor(p) == IF p[2] = "BEACON" THEN LenToPage(LEN[beacon] + DESC_SZ) ELSE 1

FirstPageNoDesc(list, n) ==
  FoldLeft(LAMBDA sum, p : sum + (IF p[2] = "BEACON" THEN LenToPage(LEN[beacon]) ELSE 1),
           0, SubSeq(list, 1, n - 1))
FirstPage(list, n) == FoldLeft(LAMBDA sum, p : sum + PagesFor(p), 0, SubSeq(list, 1, n - 1))

(* What a packet looks like in the chip, page by page.                     *)
Bytes(p) ==
  [i \in 1 .. PagesFor(p) |-> IF p[2] = "BEACON" THEN <<p, beacon, i>> ELSE <<p>>]

(* rtw_build_rsvd_page.  The packets up to the n-th are made, and know     *)
(* their pages, when one cannot be had: no memory, or a beacon dropped.    *)
(* Too many pages are found out when all are made.                         *)
Build ==
  /\ rs_pc = "build"
  /\ LET list == Complete(Gather)
         total == FirstPage(list, Len(list) + 1)
         Known(n) == pkt_page' = [p \in Packets |->
                       IF \E i \in 1 .. n : list[i] = p
                       THEN FirstPage(list, CHOOSE i \in 1 .. n : list[i] = p) ELSE pkt_page[p]]
         Available == list[1][2] = "BEACON" => beacon # NOTHING
         Fails == rs_pc' = "tell" /\ good' = FALSE /\ UNCHANGED buf
     IN  \/ /\ Gather = <<>> /\ Fails
            /\ rsvd_page_list' = <<>> /\ UNCHANGED <<pkt_page, rs_faults>>
         \/ /\ Gather # <<>> /\ list[1] = Dummy /\ Fault /\ Fails
            /\ rsvd_page_list' = Gather /\ UNCHANGED pkt_page
         \/ /\ Gather # <<>> /\ rsvd_page_list' = list
            /\ \/ ~Available /\ Known(0) /\ Fails /\ UNCHANGED rs_faults
               \/ /\ Available /\ Fault /\ Fails
                  /\ \E n \in {0, Len(list) - 1, Len(list)} : Known(n)
               \/ /\ Available /\ total > DRV_PAGES
                  /\ Known(Len(list)) /\ Fails /\ UNCHANGED rs_faults
               \/ /\ Available /\ total <= DRV_PAGES /\ Known(Len(list))
                  /\ buf' = FlattenSeq([i \in 1 .. Len(list) |-> Bytes(list[i])])
                  /\ rs_pc' = "write" /\ UNCHANGED <<good, rs_faults>>
  /\ UNCHANGED <<env_vars, area, head, told>>

(* rtw_fw_write_data_rsvd_page: the transfer fails, or the chip does not   *)
(* say in time that it has it all, or it does.                             *)
Write(what, next) ==
  /\ \/ Fault /\ UNCHANGED <<area, head>> /\ rs_pc' = "tell" /\ good' = FALSE
     \/ /\ area' = [i \in DOMAIN area |-> IF i < Len(buf) THEN buf[i + 1] ELSE area[i]]
        /\ head' = what
        /\ \/ UNCHANGED rs_faults /\ rs_pc' = next /\ good' = (good \/ next = "tell")
           \/ Fault /\ rs_pc' = "tell" /\ good' = FALSE
  /\ UNCHANGED <<env_vars, rsvd_page_list, pkt_page, buf, told>>

WritePages == rs_pc = "write" /\ Write("all", "beacon")

(* rtw_download_beacon reads the beacon once more.                         *)
GetBeacon ==
  /\ rs_pc = "beacon"
  /\ \/ /\ rsvd_page_list[1][2] = "BEACON" => beacon # NOTHING
        /\ buf' = Bytes(rsvd_page_list[1])
        /\ rs_pc' = "rewrite" /\ UNCHANGED <<good, rs_faults>>
     \/ /\ rs_pc' = "tell" /\ good' = FALSE /\ UNCHANGED buf
        /\ Fault \/ (rsvd_page_list[1][2] = "BEACON" /\ beacon = NOTHING /\ UNCHANGED rs_faults)
  /\ UNCHANGED <<env_vars, rsvd_page_list, pkt_page, area, head, told>>

WriteBeacon == rs_pc = "rewrite" /\ Write("beacon", "tell")

(* rtw_get_rsvd_page_location: the last of the type, page 0 if none.       *)
Location(t) ==
  FoldLeft(LAMBDA loc, p : IF p[2] = t THEN pkt_page[p] ELSE loc, 0, rsvd_page_list)

(* rtw_send_rsvd_page_h2c, whatever became of the download.                *)
Tell ==
  /\ rs_pc = "tell" /\ rs_pc' = "idle"
  /\ told' = [t \in Told |-> Location(t)] /\ buf' = <<>>
  /\ UNCHANGED <<env_vars, rsvd_page_list, pkt_page, good, area, head, rs_faults>>

Next ==
  \/ \E k \in Kinds : AddInterface(k) \/ RemoveInterface(k)
  \/ StartAp \/ JoinMesh \/ ChangeBeacon \/ DropBeacon \/ StopAp \/ SetTim
  \/ Associate \/ BeaconChanged \/ UpdateBeaconWork
  \/ Build \/ WritePages \/ GetBeacon \/ WriteBeacon \/ Tell

----------------------------------------------------------------------------
(* After a download that succeeded the firmware finds at every location it *)
(* was told a frame of that type, unless the beacon grew between the two   *)
(* times it was read and pushed the frames aside: then the next update is  *)
(* already queued (fw.c:1704, fw.c:1817, mac80211.c:586).                  *)
PagesTrue ==
  (rs_pc = "idle" /\ good) =>
    \/ \A t \in Told : told[t] # 0 =>
         told[t] \in DOMAIN area /\ area[told[t]] # <<>> /\ area[told[t]][1][2] = t
    \/ update_beacon_work \/ notify

(* After a download that succeeded with an interface that beacons the chip *)
(* holds all of mac80211's beacon, under a descriptor of its own, or is    *)
(* about to be given it (fw.c:1812, mac80211.c:586).                       *)
BeaconFresh ==
  (rs_pc = "idle" /\ good /\ beacon # NOTHING /\ (ap_active \/ "MESH_POINT" \in ToSet(vifs))) =>
    \/ /\ head = "beacon"
       /\ \A i \in 1 .. LenToPage(LEN[beacon] + DESC_SZ) : area[i - 1] # <<>> /\ Len(area[i - 1]) = 3
                                        /\ area[i - 1][2] = beacon /\ area[i - 1][3] = i
    \/ update_beacon_work \/ notify

============================================================================
