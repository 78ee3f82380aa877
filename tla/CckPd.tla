-------------------------------- MODULE CckPd --------------------------------
(***************************************************************************)
(* The CCK power detection threshold (phy.c, rtw88xxa.c): how strong a     *)
(* 2.4 GHz frame must be to be looked at.  The driver remembers a level    *)
(* and writes the register only when the level changes.                    *)
(***************************************************************************)
EXTENDS Integers, Sequences

CONSTANTS
  CckFas,     \* CCK false alarms counted in a period
  Rssis,      \* signals of the weakest peer
  Igis,       \* recorded gains
  AVG_CAP     \* bound: averages above it are not followed further

VARIABLES
  cck_on,         \* the device is powered on
  assoc,          \* a station has joined (rtw_is_assoc)
  band,           \* the band of the channel
  cck_fa_avg,     \* running average, RESET when there is none
  cck_pd_lv,      \* the level the driver remembers
  cck_pd_th       \* REG_CCK_PD_TH, as the level whose value it holds

cck_vars == <<cck_on, assoc, band, cck_fa_avg, cck_pd_lv, cck_pd_th>>

RESET == -1
NO_LEVEL == 5      \* CCK_PD_LV_MAX: leave the level alone

(* The BB table leaves 0x83 in the register, the value of level 1, and     *)
(* rtw_phy_cck_pd_init remembers level 0.                                  *)
TABLE_LEVEL == 1

Init ==
  /\ cck_on = FALSE /\ assoc = FALSE /\ band = "2G"
  /\ cck_fa_avg = RESET /\ cck_pd_lv = 0 /\ cck_pd_th = TABLE_LEVEL

PowerOn ==
  /\ ~cck_on /\ cck_on' = TRUE
  /\ cck_fa_avg' = RESET /\ cck_pd_lv' = 0 /\ cck_pd_th' = TABLE_LEVEL
  /\ band' = "2G"
  /\ UNCHANGED assoc

PowerOff == /\ cck_on /\ ~assoc /\ cck_on' = FALSE
            /\ UNCHANGED <<assoc, band, cck_fa_avg, cck_pd_lv, cck_pd_th>>

JoinOrLeave == /\ cck_on /\ assoc' = ~assoc
               /\ UNCHANGED <<cck_on, band, cck_fa_avg, cck_pd_lv, cck_pd_th>>

SwitchBand == /\ cck_on /\ band' = (IF band = "2G" THEN "5G" ELSE "2G")
              /\ UNCHANGED <<cck_on, assoc, cck_fa_avg, cck_pd_lv, cck_pd_th>>

----------------------------------------------------------------------------
Average(fa) == IF cck_fa_avg = RESET THEN fa ELSE (cck_fa_avg * 3 + fa) \div 4

LevelUnlink(avg) == IF avg > 1000 THEN 1 ELSE IF avg < 500 THEN 0 ELSE NO_LEVEL

LevelLink(avg, igi, rssi) ==
  CASE igi > 56 /\ rssi > 32 -> 4
    [] igi \in 43..56 /\ rssi > 32 -> 3
    [] ~(igi > 42 /\ rssi > 32) /\ (igi > 36 \/ rssi > 24) -> 2
    [] OTHER -> LevelUnlink(avg)

(* rtw88xxa_phy_cck_pd_set decides anew for a device with a peer.          *)
Override(avg, rssi, level) ==
  CASE ~assoc -> level
    [] assoc /\ rssi > 60 -> 3
    [] assoc /\ rssi \in 36..60 -> 2
    [] assoc /\ rssi \in 21..35 -> IF avg > 500 THEN 2 ELSE IF avg < 250 THEN 1 ELSE NO_LEVEL
    [] assoc /\ rssi <= 20 -> 1

(* Once a level is set, the average starts anew.                           *)
SetLevel(avg, level) ==
  IF level = NO_LEVEL \/ level = cck_pd_lv
  THEN cck_fa_avg' = avg /\ UNCHANGED <<cck_pd_lv, cck_pd_th>>
  ELSE cck_fa_avg' = RESET /\ cck_pd_lv' = level /\ cck_pd_th' = level

(* rtw_phy_cck_pd, run by the watchdog. *)
WatchDog(fa, rssi, igi) ==
  LET avg == Average(fa)
      level == IF assoc THEN LevelLink(avg, igi, rssi) ELSE LevelUnlink(avg)
  IN  /\ cck_on /\ band = "2G" /\ avg <= AVG_CAP
      /\ IF level = NO_LEVEL
         THEN cck_fa_avg' = avg /\ UNCHANGED <<cck_pd_lv, cck_pd_th>>
         ELSE SetLevel(avg, Override(avg, rssi, level))
      /\ UNCHANGED <<cck_on, assoc, band>>

Next ==
  \/ PowerOn \/ PowerOff \/ JoinOrLeave \/ SwitchBand
  \/ \E fa \in CckFas, rssi \in Rssis, igi \in Igis : WatchDog(fa, rssi, igi)

Spec == Init /\ [][Next]_cck_vars

----------------------------------------------------------------------------
(* The threshold in force is that of the level the driver remembers, or    *)
(* the table's, which is that of level 1, while level 0 is remembered,     *)
(* over every power cycle and band switch (phy.c:154, rtw88xxa.c:1994).    *)
ThresholdKnown ==
  cck_on => \/ cck_pd_th = cck_pd_lv
            \/ cck_pd_th = TABLE_LEVEL /\ cck_pd_lv = 0
==============================================================================
