----------------------------- MODULE RateAdapt -----------------------------
(***************************************************************************)
(* The rates a peer is sent to with (main.c, rtw_update_sta_info) and the  *)
(* rates of responses (phy.c, rtw_phy_rrsr_update).  The driver computes a *)
(* mask of rates from the capabilities of the peer, the band the radio is  *)
(* on, the strength of its signal and what the user asked for, and tells   *)
(* the firmware: when the peer joins, when its bandwidth or the user's mask*)
(* changes, and at each fourth effective period of the watchdog.           *)
(*                                                                         *)
(* A mask is a set of the rates 0..31, as numbered in the descriptors: CCK *)
(* 0..3, OFDM 4..11, then HT (8 for each stream) or VHT (10 for each).     *)
(***************************************************************************)
EXTENDS Integers, FiniteSetsExt, Functions

CONSTANTS
  Stas,        \* stations of one interface
  Caps,        \* capabilities of a peer: [kind, legacy, mcs, bw]
  UserMasks,   \* masks of the user: [legacy, ht, vht], each by band
  Rssis,       \* signal strengths
  NSS,         \* efuse.hw_cap.nss
  MAX_EVENTS

VARIABLES
  oper,        \* the band the interface is on
  rate_band,   \* hal.current_band_type; another one only during a scan
  rate_scan,   \* RTW_FLAG_SCANNING
  peer,        \* by station that has joined: its capabilities now
  si,          \* by station: [rssi_level, mask, desc_rate], mask of the user or {}
  told_ra,     \* by station: what H2C_CMD_RA_INFO said last
  rc_work,     \* the stations whose rc_work is queued
  c2h_rate,    \* reports of the firmware on their way: <<station, rate>>
  watch_dog_cnt, rrsr_val_init, rrsr,
  since,       \* by station: effective periods since its info became stale
  rate_events

rates_vars == <<oper, rate_band, rate_scan, peer, si, told_ra, rc_work, c2h_rate, watch_dog_cnt,
                rrsr_val_init, rrsr, since, rate_events>>

(* The function f with v for s.                                            *)
With(f, s, v) == [t \in DOMAIN f \cup {s} |-> IF t = s THEN v ELSE f[t]]

----------------------------------------------------------------------------
Cck == 0..3
Ofdm == 4..11
HtRates(nss) == 12 .. 11 + 8 * nss
VhtRates(nss) == 12 .. 11 + 10 * nss

(* The MCS map of VHT has the highest MCS of each stream, 7, 8, 9 or none  *)
(* (here -1).                                                              *)
GetVhtRaMask(map) == UNION {12 + 10 * (n - 1) .. 12 + 10 * (n - 1) + map[n] : n \in DOMAIN map}

Mcs(cap) ==
  CASE cap.kind = "VHT" -> GetVhtRaMask(cap.mcs) \cap VhtRates(NSS)
    [] cap.kind = "HT" -> {12 + m : m \in cap.mcs} \cap (HtRates(NSS) \cup VhtRates(NSS))
    [] OTHER -> {}

(* What mac80211 has in supp_rates: nothing for a foreign band.            *)
Legacy(cap, band) == IF band = oper THEN cap.legacy ELSE {}

WirelessSet(cap, band) ==
  (IF band = "2G" THEN {"CCK"} ELSE {}) \cup
  CASE cap.kind = "VHT" -> {"OFDM", "VHT"} \cup (IF band = "2G" THEN {"HT"} ELSE {})
    [] cap.kind = "HT" -> {"OFDM", "HT"}
    [] cap.kind = "legacy" /\ band = "2G" /\ Legacy(cap, band) \subseteq Cck -> {}
    [] OTHER -> {"OFDM"}

(* The legacy rates kept beside HT or VHT, and of those without.           *)
KeptLegacy(set, band) ==
  CASE set = {"CCK"} -> Cck
    [] "VHT" \in set -> IF band = "2G" THEN {0, 2, 4} ELSE {4}
    [] "HT" \in set -> IF band = "2G" THEN {0, 2, 4} ELSE {4, 5}
    [] OTHER -> Ofdm \cup (IF band = "2G" THEN {0, 2} ELSE {})

(* The rates table the firmware is to use.                                 *)
RateId(set, bw, nss) ==
  CASE set = {"CCK"} -> "B_20M"
    [] set = {"OFDM"} -> "G"
    [] set = {"CCK", "OFDM"} -> "BG"
    [] set = {"OFDM", "HT"} -> IF nss = 1 THEN "GN_N1SS" ELSE "GN_N2SS"
    [] set = {"CCK", "OFDM", "HT"} /\ bw = 40 -> IF nss = 1 THEN "BGN_40M_1SS" ELSE "BGN_40M_2SS"
    [] set = {"CCK", "OFDM", "HT"} /\ bw # 40 -> IF nss = 1 THEN "BGN_20M_1SS" ELSE "BGN_20M_2SS"
    [] set = {"OFDM", "VHT"} -> IF nss = 1 THEN "ARFR1_AC_1SS" ELSE "ARFR0_AC_2SS"
    [] OTHER -> "BGN_40M_2SS"      \* rate_id 0: no case for VHT on 2.4 GHz

(* A strong signal drops the lowest rates.                                 *)
Dropped(level) ==
  CASE level = 0 -> {} [] level = 1 -> 0..3 [] level = 2 -> 0..4 \cup {12}
    [] level = 3 -> 0..5 \cup 12..13 [] level = 4 -> 0..6 \cup 12..14
    [] OTHER -> 0..7 \cup 12..15

MaskRssi(mask, level, set) == IF set = {"CCK"} THEN mask ELSE mask \ Dropped(level)

RecoverNever(mask, bak) == mask

MaskRecover(mask, bak) ==
  LET legacy == Cck \cup Ofdm
      high == IF mask \subseteq legacy THEN mask \cup (bak \ legacy) ELSE mask
  IN  IF high = {} THEN bak \cap legacy ELSE high

(* The mask of the user applies last, by the band the radio is on.         *)
Allowed(user, band, vht) == user[band].legacy \cup (IF vht THEN user[band].vht ELSE user[band].ht)

MaskCfg(mask, user, band, vht) ==
  IF user = {} THEN mask ELSE mask \cap Allowed(CHOOSE u \in user : TRUE, band, vht)

(* All of rtw_update_sta_info that the firmware hears of.                  *)
Info(cap, sta) ==
  LET set == WirelessSet(cap, rate_band)
      bak == Mcs(cap) \cup Legacy(cap, rate_band)
      plain == bak \ ((Cck \cup Ofdm) \ KeptLegacy(set, rate_band))
      recovered == MaskRecover(MaskRssi(plain, sta.rssi_level, set), bak)
  IN  [mask |-> MaskCfg(recovered, sta.mask, rate_band, cap.kind = "VHT"),
       rate_id |-> RateId(set, cap.bw, IF cap.kind = "legacy" THEN 1 ELSE NSS),
       bw |-> cap.bw, vht |-> cap.kind = "VHT", band |-> rate_band]

ValInit == IF rate_band = "5G" THEN {4, 6, 8} ELSE 0..4 \cup {6, 8}

(* What a switch of the radio to a band leaves in REG_RRSR.                *)
BasicRates(band) == IF band = "5G" THEN {4, 6, 8} ELSE 0..4 \cup {6, 8}

(* Whether the firmware is to begin anew with its rates (NO_UPDATE) is left *)
(* out: the mask counts either way.                                        *)
Tell(stas, peers, sis) ==
  /\ told_ra' = [s \in DOMAIN peers |->
                   IF s \in stas THEN Info(peers[s], sis[s]) ELSE told_ra[s]]
  /\ rrsr_val_init' = IF stas = {} THEN rrsr_val_init ELSE ValInit

Event == rate_events < MAX_EVENTS /\ rate_events' = rate_events + 1

(* The info of a station is stale when it is not what rtw_update_sta_info  *)
(* would say now on the interface's band.  Periods are counted to bound it.*)
Wanted(cap, sta) ==
  LET set == WirelessSet(cap, oper)
      bak == Mcs(cap) \cup cap.legacy
      plain == bak \ ((Cck \cup Ofdm) \ KeptLegacy(set, oper))
      recovered == MaskRecover(MaskRssi(plain, sta.rssi_level, set), bak)
  IN  MaskCfg(recovered, sta.mask, oper, cap.kind = "VHT")

StaleFor(ra, cap, sta) == ra.mask # Wanted(cap, sta) \/ ra.bw # cap.bw
Stale(s) == StaleFor(told_ra[s], peer[s], si[s])

Count(periods) ==
  since' = [s \in DOMAIN peer' |->
              IF ~StaleFor(told_ra'[s], peer'[s], si'[s]) THEN 0
              ELSE periods + (IF s \in DOMAIN since THEN since[s] ELSE 0)]

----------------------------------------------------------------------------
Init ==
  /\ oper \in {"2G", "5G"} /\ rate_band = oper /\ rate_scan = FALSE
  /\ peer = <<>> /\ si = <<>> /\ told_ra = <<>> /\ since = <<>>
  /\ rc_work = {} /\ c2h_rate = {} /\ watch_dog_cnt = 0
  /\ rrsr_val_init = {} /\ rrsr = BasicRates(oper) /\ rate_events = 0

(* rtw_sta_add: mac80211 gives the station zeroed.  mac80211 lets no       *)
(* station in while it scans.                                              *)
Join(s) ==
  /\ Event /\ s \notin DOMAIN peer /\ ~rate_scan
  /\ \E cap \in Caps :
       /\ oper = "5G" => cap.legacy \cap Cck = {}
       /\ oper = "2G" => cap.kind # "VHT"
       /\ peer' = With(peer, s, cap)
  /\ si' = With(si, s, [rssi_level |-> 0, mask |-> {}, desc_rate |-> 0])
  /\ Tell({s}, peer', si')
  /\ UNCHANGED <<oper, rate_band, rate_scan, rc_work, c2h_rate, watch_dog_cnt, rrsr>>
  /\ Count(0)

Leave(s) ==
  /\ Event /\ s \in DOMAIN peer
  /\ LET rest == DOMAIN peer \ {s}
     IN  peer' = Restrict(peer, rest) /\ si' = Restrict(si, rest)
         /\ told_ra' = Restrict(told_ra, rest) /\ since' = Restrict(since, rest)
  /\ rc_work' = rc_work \ {s}
  /\ UNCHANGED <<oper, rate_band, rate_scan, c2h_rate, watch_dog_cnt, rrsr_val_init, rrsr>>

(* The peer is found to have other capabilities (mesh) or a bandwidth; only*)
(* a change of the bandwidth is passed on (sta_rc_update).                 *)
RcUpdate(s) ==
  /\ Event /\ s \in DOMAIN peer
  /\ \E cap \in Caps :
       /\ cap # peer[s] /\ (oper = "5G" => cap.legacy \cap Cck = {})
       /\ oper = "2G" => cap.kind # "VHT"
       /\ peer' = [peer EXCEPT ![s] = cap]
       /\ rc_work' = IF cap.bw # peer[s].bw THEN rc_work \cup {s} ELSE rc_work
  /\ UNCHANGED <<oper, rate_band, rate_scan, si, told_ra, c2h_rate, watch_dog_cnt, rrsr_val_init,
                 rrsr>>
  /\ Count(0)

(* rtw_sta_rc_work does not look whether a scan has the radio on another   *)
(* band.                                                                   *)
RcWork(s) ==
  /\ s \in rc_work /\ rc_work' = rc_work \ {s}
  /\ Tell({s}, peer, si)
  /\ UNCHANGED <<oper, rate_band, rate_scan, peer, si, c2h_rate, watch_dog_cnt, rrsr, rate_events>>
  /\ Count(0)

(* rtw_ops_set_bitrate_mask: the copy of the mask fails for some stations, *)
(* which are then without a mask and not told.                             *)
SetBitrateMask ==
  /\ Event /\ DOMAIN peer # {}
  /\ \E user \in UserMasks, failed \in SUBSET DOMAIN peer :
       /\ si' = [s \in DOMAIN si |-> [si[s] EXCEPT !.mask = IF s \in failed THEN {} ELSE {user}]]
       /\ Tell(DOMAIN peer \ failed, peer, si')
  /\ UNCHANGED <<oper, rate_band, rate_scan, peer, rc_work, c2h_rate, watch_dog_cnt, rrsr>>
  /\ Count(0)

(* The firmware picks a rate of the mask, the lowest or the highest, and   *)
(* reports it by its number in descriptors, where those of VHT begin at 44.*)
DescRate(rate, vht) == IF vht /\ rate >= 12 THEN rate + 32 ELSE rate

Report(s) ==
  /\ s \in DOMAIN peer /\ c2h_rate = {}
  /\ \E rate \in told_ra[s].mask :
       /\ \/ \A q \in told_ra[s].mask : q >= rate
          \/ \A q \in told_ra[s].mask : q <= rate
       /\ c2h_rate' = {<<s, DescRate(rate, told_ra[s].vht)>>}
  /\ Event
  /\ UNCHANGED <<oper, rate_band, rate_scan, peer, si, told_ra, rc_work, watch_dog_cnt,
                 rrsr_val_init, rrsr, since>>

HandleReport ==
  /\ \E r \in c2h_rate :
       /\ si' = IF r[1] \in DOMAIN si THEN [si EXCEPT ![r[1]].desc_rate = r[2]] ELSE si
       /\ c2h_rate' = {}
  /\ UNCHANGED <<oper, rate_band, rate_scan, peer, told_ra, rc_work, watch_dog_cnt,
                 rrsr_val_init, rrsr, since, rate_events>>

----------------------------------------------------------------------------
(* The watchdog (rtw_phy_stat_rssi, rtw_phy_ra_track).                     *)
Floors == <<20, 34, 38, 42, 46, 50, 100>>

RssiLevel(old, rssi) ==
  LET floor(i) == Floors[i + 1] + (IF i >= old THEN 3 ELSE 0)
      above == {i \in 0..6 : rssi < floor(i)}
  IN  IF above = {} THEN 0 ELSE CHOOSE i \in above : \A j \in above : i <= j

(* The rates of responses end with that of the slowest peer: its place     *)
(* among the rates of its kind and stream, counted from the four of CCK.   *)
GroupsOfRates == {0, 4, 12, 20, 44, 54}

OrderFromZero(rate) == rate - Max({g \in GroupsOfRates : g <= rate})

RateOrder(rate) ==
  LET order == OrderFromZero(rate) IN  IF rate >= 12 \/ order = 0 THEN order + 1 ELSE order

RrsrMask(rate) == 0 .. RateOrder(rate) + 3

WatchDog ==
  /\ Event /\ ~rate_scan
  /\ \E rssi \in [DOMAIN si -> Rssis] :
       si' = [s \in DOMAIN si |->
                [si[s] EXCEPT !.rssi_level = RssiLevel(si[s].rssi_level, rssi[s])]]
  /\ Tell(IF watch_dog_cnt = 0 THEN DOMAIN peer ELSE {}, peer, si')
  /\ rrsr' = {r \in rrsr_val_init' : \A s \in DOMAIN si : r \in RrsrMask(si[s].desc_rate)}
  /\ watch_dog_cnt' = (watch_dog_cnt + 1) % 4
  /\ UNCHANGED <<oper, rate_band, rate_scan, peer, rc_work, c2h_rate>>
  /\ Count(1)

(* A scan takes the radio to either band and brings it back before it ends.*)
ScanStart ==
  /\ Event /\ ~rate_scan /\ rate_scan' = TRUE
  /\ UNCHANGED <<oper, rate_band, peer, si, told_ra, rc_work, c2h_rate, watch_dog_cnt,
                 rrsr_val_init, rrsr, since>>

ToBand(band) ==
  /\ rate_band' = band /\ rrsr' = IF band = rate_band THEN rrsr ELSE BasicRates(band)

ScanChannel ==
  /\ rate_scan /\ \E band \in {"2G", "5G"} \ {rate_band} : ToBand(band)
  /\ UNCHANGED <<oper, rate_scan, peer, si, told_ra, rc_work, c2h_rate, watch_dog_cnt,
                 rrsr_val_init, since, rate_events>>

ScanComplete ==
  /\ rate_scan /\ rate_scan' = FALSE /\ ToBand(oper)
  /\ UNCHANGED <<oper, peer, si, told_ra, rc_work, c2h_rate, watch_dog_cnt, rrsr_val_init,
                 since, rate_events>>

(* The interface without peers goes to a channel of the other band.        *)
ChangeBand ==
  /\ Event /\ peer = <<>> /\ ~rate_scan
  /\ \E band \in {"2G", "5G"} \ {oper} : oper' = band /\ ToBand(band)
  /\ UNCHANGED <<rate_scan, peer, si, told_ra, rc_work, c2h_rate, watch_dog_cnt, rrsr_val_init,
                 since>>

Next ==
  \/ \E s \in Stas : Join(s) \/ Leave(s) \/ RcUpdate(s) \/ RcWork(s) \/ Report(s)
  \/ SetBitrateMask \/ HandleReport \/ WatchDog \/ ScanStart \/ ScanChannel \/ ScanComplete
  \/ ChangeBand

Spec == Init /\ [][Next]_rates_vars

----------------------------------------------------------------------------
(* What the firmware was told of a peer disagrees with what the driver has *)
(* for four periods of the watchdog at most, whatever scans, failed        *)
(* allocations and changes that are not passed on come between.            *)
RatesCatchUp == \A s \in DOMAIN since : since[s] < 4

(* A peer without a mask of the user is always left a rate, and only rates *)
(* that it, the chip and the firmware's table have, unless they were       *)
(* computed while a scan had the radio on another band.                    *)
TableRates(id) ==
  CASE id = "B_20M" -> Cck [] id = "G" -> Ofdm [] id = "BG" -> Cck \cup Ofdm
    [] id \in {"GN_N1SS"} -> Ofdm \cup HtRates(1) [] id = "GN_N2SS" -> Ofdm \cup HtRates(2)
    [] id \in {"BGN_20M_1SS", "BGN_40M_1SS"} -> Cck \cup Ofdm \cup HtRates(1)
    [] id \in {"BGN_20M_2SS", "BGN_40M_2SS"} -> Cck \cup Ofdm \cup HtRates(2)
    [] id = "ARFR1_AC_1SS" -> Ofdm \cup VhtRates(1)
    [] OTHER -> Ofdm \cup VhtRates(2)

NeverMute ==
  \A s \in DOMAIN told_ra :
    LET ra == told_ra[s]
    IN  ra.band = oper => /\ si[s].mask = {} /\ ~Stale(s) => ra.mask # {}
                          /\ ra.mask \subseteq TableRates(ra.rate_id)
                          /\ oper = "5G" => ra.mask \cap Cck = {}

(* However low the rate a peer is at, 6 Mbit/s, which every band has, stays*)
(* among the rates of responses.  (They are none from the first watchdog   *)
(* until the first after a peer has joined: rrsr_val_init is 0 till then.) *)
ResponsesHeard == rrsr # {} => 4 \in rrsr

(* A peer's level keeps still for a signal that does, and is not higher for *)
(* a weaker one.                                                           *)
LevelsSettle ==
  \A s \in DOMAIN si, weak, strong \in Rssis :
    LET level(rssi) == RssiLevel(si[s].rssi_level, rssi)
    IN  /\ RssiLevel(level(weak), weak) = level(weak)
        /\ weak <= strong => level(weak) <= level(strong)
=============================================================================
