--------------------------------- MODULE Dig ---------------------------------
(***************************************************************************)
(* Dynamic initial gain (phy.c).  Every two seconds the watchdog lowers    *)
(* the gain register (IGI: the higher, the deafer) by two or raises it     *)
(* according to the false alarms it counted, within bounds set by the      *)
(* weakest peer.  A scan forces the register to full coverage and puts it  *)
(* back, lost beacons force it without recording it, and a gain that       *)
(* oscillates is frozen.                                                   *)
(***************************************************************************)
EXTENDS Integers, Sequences, FiniteSets, FiniteSetsExt

CONSTANTS
  Stas,           \* the stations
  Rssis,          \* averages of the signal of a station, 0 when nothing was received
  FalseAlarms,    \* counts of false alarms in one period
  DAMPING_TICKS,  \* periods after which a frozen gain is released, 20 in the code
  MAX_EVENTS      \* bound on what happens besides the watchdog

VARIABLES
  power,          \* "off", "on" or "scan": RTW_FLAG_POWERON, RTW_FLAG_SCANNING, RTW_FLAG_DIG_DISABLE
  joined,         \* stations of rtw_sta_add, counted by sta_cnt
  uploaded,       \* those mac80211 iterates over, with the signal of each
  beacon_loss,
  dm_info,        \* igi_history, fa_history and trend, newest first; the signal and the damping
  igi,            \* the gain register of the chip
  events          \* counts for the bound

dig_vars == <<power, joined, uploaded, beacon_loss, dm_info, igi, events>>

U8_MAX == 255
DIG_PERF_MAX == 90
DIG_PERF_MID == 64
DIG_CVRG_MAX == 42
DIG_CVRG_MID == 38
DIG_CVRG_MIN == 28
DIG_RSSI_GAIN_OFFSET == 15
DAMPING_RSSI == 3
dig_min == 32                 \* of the RTL8812A, and what its AGC table leaves in the register

U8(n) == n % 256
Clamp(n, lo, hi) == IF n < lo THEN lo ELSE IF n > hi THEN hi ELSE n
Diff(a, b) == IF a > b THEN a - b ELSE b - a

TypeOK ==
  /\ power \in {"off", "on", "scan"}
  /\ joined \subseteq Stas
  /\ uploaded \in [DOMAIN uploaded -> Rssis] /\ DOMAIN uploaded \subseteq joined
  /\ beacon_loss \in BOOLEAN
  /\ dm_info \in [igi_history : [1..4 -> 0..U8_MAX], fa_history : [1..4 -> Nat],
                  trend : [1..4 -> BOOLEAN], min_rssi : 0..U8_MAX, pre_min_rssi : 0..U8_MAX,
                  damping : BOOLEAN, damping_rssi : 0..U8_MAX, damping_cnt : Nat]
  /\ igi \in 0..U8_MAX /\ events \in 0..MAX_EVENTS

Fresh(d) == [d EXCEPT !.igi_history = <<dig_min, 0, 0, 0>>, !.fa_history = <<0, 0, 0, 0>>,
                      !.trend = <<FALSE, FALSE, FALSE, FALSE>>]

Init ==
  /\ power = "off" /\ joined = {} /\ uploaded = <<>> /\ beacon_loss = FALSE
  /\ igi = 0 /\ events = 0
  /\ dm_info = Fresh([igi_history |-> <<>>, fa_history |-> <<>>, trend |-> <<>>, min_rssi |-> 0,
                      pre_min_rssi |-> 0, damping |-> FALSE, damping_rssi |-> 0,
                      damping_cnt |-> 0])

----------------------------------------------------------------------------
(* rtw_phy_init after the tables were loaded: the history restarts from    *)
(* the register; the damping and the signal are left as they were.         *)
PowerOn ==
  /\ power = "off" /\ power' = "on"
  /\ igi' = dig_min
  /\ dm_info' = Fresh(dm_info)
  /\ UNCHANGED <<joined, uploaded, beacon_loss>>

PowerOff ==
  /\ power = "on" /\ joined = {} /\ power' = "off"
  /\ UNCHANGED <<joined, uploaded, beacon_loss, dm_info, igi>>

StaAdd(s) ==
  /\ power = "on" /\ s \notin joined
  /\ joined' = joined \union {s} /\ beacon_loss' = FALSE
  /\ UNCHANGED <<power, uploaded, dm_info, igi>>

(* mac80211 marks a station uploaded after the driver has returned: a      *)
(* watchdog in between counts the station and does not see it.             *)
Upload(s) ==
  /\ s \in joined \ DOMAIN uploaded
  /\ uploaded' = [t \in DOMAIN uploaded \union {s} |-> IF t = s THEN 0 ELSE uploaded[t]]
  /\ UNCHANGED <<power, joined, beacon_loss, dm_info, igi>>

StaRemove(s) ==
  /\ s \in DOMAIN uploaded /\ power = "on"
  /\ joined' = joined \ {s}
  /\ uploaded' = [t \in DOMAIN uploaded \ {s} |-> uploaded[t]]
  /\ UNCHANGED <<power, beacon_loss, dm_info, igi>>

SignalChanges(s, rssi) ==
  /\ s \in DOMAIN uploaded /\ uploaded[s] # rssi
  /\ uploaded' = [uploaded EXCEPT ![s] = rssi]
  /\ UNCHANGED <<power, joined, beacon_loss, dm_info, igi>>

(* rtw_core_scan_start and rtw_core_scan_complete. *)
ScanStart ==
  /\ power = "on" /\ power' = "scan"
  /\ igi' = DIG_CVRG_MIN
  /\ UNCHANGED <<joined, uploaded, beacon_loss, dm_info>>

ResetGain(d) == d.igi_history[1]

ScanComplete ==
  /\ power = "scan" /\ power' = "on"
  /\ igi' = ResetGain(dm_info)
  /\ UNCHANGED <<joined, uploaded, beacon_loss, dm_info>>

----------------------------------------------------------------------------
(* The watchdog of a device that is on and not scanning.                   *)

(* rtw_phy_stat_rssi: the weakest station that is iterated over.           *)
StatRssi(d) ==
  [d EXCEPT !.pre_min_rssi = d.min_rssi,
            !.min_rssi = Min({uploaded[s] : s \in DOMAIN uploaded} \union {U8_MAX})]

(* The two shapes of an oscillation that rtw_phy_dig_check_damping knows,  *)
(* as rise and fall of the gain and of the false alarms that caused it.    *)
Oscillates(d) ==
  LET g == d.igi_history
      high(i) == d.fa_history[i] > 500
      low(i)  == d.fa_history[i] < 250
  IN  \/ /\ d.trend = <<TRUE, FALSE, TRUE, FALSE>>
         /\ g[1] - g[2] >= 2 /\ g[3] - g[4] >= 2
         /\ high(1) /\ low(2) /\ high(3) /\ low(4)
      \/ /\ d.trend = <<TRUE, FALSE, FALSE, TRUE>>
         /\ g[1] - g[2] >= 4 /\ g[4] - g[3] >= 2
         /\ high(1) /\ low(2) /\ low(3) /\ high(4)

Release(d) == Diff(d.min_rssi, d.damping_rssi) > DAMPING_RSSI \/ d.damping_cnt > DAMPING_TICKS

(* rtw_phy_dig_check_damping: the gain stays frozen for a while, or until  *)
(* the signal moves.                                                       *)
CheckDamping(d) ==
  IF d.damping
  THEN IF Release(d)
       THEN [d EXCEPT !.damping = FALSE, !.damping_cnt =
              IF Diff(d.min_rssi, d.damping_rssi) > DAMPING_RSSI THEN @ ELSE @ + 1]
       ELSE [d EXCEPT !.damping_cnt = @ + 1]
  ELSE IF Oscillates(d)
       THEN [d EXCEPT !.damping = TRUE, !.damping_cnt = 0, !.damping_rssi = d.min_rssi]
       ELSE d

(* rtw_phy_dig_get_threshold: by how much the gain rises, less two.        *)
Linked == joined # {}
Step(d, fa) ==
  LET step == IF Linked /\ d.pre_min_rssi > d.min_rssi THEN <<6, 4, 2>> ELSE <<4, 3, 2>>
      fa_th == IF Linked THEN <<750, 500, 250>> ELSE <<5000, 4000, 2000>>
      over == {level \in 1..3 : fa > fa_th[level]}
  IN  (IF over = {} THEN 0 ELSE step[Min(over)]) - 2

(* rtw_phy_dig_get_boundary, in the arithmetic of u8. *)
Boundary(d) ==
  LET lo  == IF Linked THEN dig_min ELSE DIG_CVRG_MIN
      mid == IF Linked THEN DIG_PERF_MID ELSE DIG_CVRG_MID
      min_rssi == IF Linked THEN Max({d.min_rssi, dig_min}) ELSE lo
      hi  == Min({IF Linked THEN DIG_PERF_MAX ELSE DIG_CVRG_MAX,
                  U8(min_rssi + DIG_RSSI_GAIN_OFFSET)})
      lower == Clamp(min_rssi, lo, mid)
  IN  [lower |-> lower, upper |-> Clamp(U8(lower + DIG_RSSI_GAIN_OFFSET), lo, hi)]

(* Mutant: the bound of the weakest peer is left out.                      *)
NextGainUnbounded(d, fa) ==
  Clamp(U8(d.igi_history[1] + Step(d, fa)), Boundary(d).lower, DIG_PERF_MAX)

NextGain(d, fa) == Clamp(U8(d.igi_history[1] + Step(d, fa)), Boundary(d).lower, Boundary(d).upper)

Record(d, gain, fa) ==
  [d EXCEPT !.trend = <<gain > d.igi_history[1]>> \o SubSeq(@, 1, 3),
            !.igi_history = <<gain>> \o SubSeq(@, 1, 3),
            !.fa_history = <<fa>> \o SubSeq(@, 1, 3)]

(* The gain that is written: beacons that get lost without many false      *)
(* alarms ask for coverage, which is not recorded.                         *)
Wanted(gain, fa) == IF beacon_loss /\ Linked /\ fa < 750 THEN DIG_CVRG_MIN ELSE gain

(* rtw_phy_statistics and rtw_phy_dig of rtw_phy_dynamic_mechanism, then   *)
(* rtw_sw_beacon_loss_check.                                               *)
WatchDog(fa, lost) ==
  LET d == CheckDamping(StatRssi(dm_info))
      gain == NextGain(d, fa)
      wanted == Wanted(gain, fa)
  IN  /\ power = "on"
      /\ beacon_loss' = IF uploaded # <<>> THEN lost ELSE beacon_loss
      /\ UNCHANGED <<power, joined, uploaded, events>>
      /\ IF d.damping
         THEN dm_info' = d /\ UNCHANGED igi
         ELSE /\ dm_info' = Record(d, gain, fa)
              /\ igi' = IF wanted # dm_info.igi_history[1] THEN wanted ELSE igi

Event ==
  \/ PowerOn \/ PowerOff \/ ScanStart \/ ScanComplete
  \/ \E s \in Stas : StaAdd(s) \/ Upload(s) \/ StaRemove(s) \/ \E r \in Rssis : SignalChanges(s, r)

Next ==
  \/ Event /\ events < MAX_EVENTS /\ events' = events + 1
  \/ \E fa \in FalseAlarms, lost \in BOOLEAN : WatchDog(fa, lost)

Spec == Init /\ [][Next]_dig_vars

----------------------------------------------------------------------------
(* The register is what the history says or asks for full coverage, and    *)
(* does so throughout a scan (phy.c:386, phy.c:588).                       *)
GainKnown ==
  power # "off" => /\ igi \in {dm_info.igi_history[1], DIG_CVRG_MIN}
                   /\ power = "scan" => igi = DIG_CVRG_MIN

(* "The minimum rssi we have among the peers connected with us" bounds the *)
(* gain (phy.c:573): a peer that is seen is heard.                         *)
WeakPeerHeard ==
  power # "off" /\ dm_info.min_rssi < U8_MAX =>
     igi <= Max({dm_info.min_rssi, dig_min}) + DIG_RSSI_GAIN_OFFSET

(* That bound holds unless the gain is frozen, which ends after a number   *)
(* of periods (phy.c:398).                                                 *)
HeardUnlessFrozen ==
  WeakPeerHeard \/ (dm_info.damping /\ dm_info.damping_cnt <= DAMPING_TICKS + 1)

(* The gain is one the hardware knows, but for a watchdog that ran between *)
(* the count of the first station and its appearance (phy.c:478).          *)
GainInRange ==
  power # "off" => \/ igi \in DIG_CVRG_MIN..DIG_PERF_MAX
                   \/ dm_info.min_rssi = U8_MAX
==============================================================================
