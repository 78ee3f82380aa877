-------------------------------- MODULE Chip --------------------------------
(***************************************************************************)
(* Parts of what the driver has the chip do that share no variables: the   *)
(* coexistence with Bluetooth (Coex), the gain of the receiver (Dig) and   *)
(* its threshold for CCK (CckPd), the software queues (TxQueues), the rates*)
(* of peers (RateAdapt), the power that is sent with (TxPower), the tuning *)
(* (Channel), the calibration (Iqk) and the chip's power (PowerSeq).       *)
(* Each is a module of its own, instantiated here, with what it promises;  *)
(* CoexProofs, RadioProofs and FirmwareProofs prove that it does so.       *)
(***************************************************************************)
EXTENDS Integers

CONSTANTS
  BtInfos, DISABLE_AFTER, CNT_RANGE, MAX_COEX_EVENTS,        \* of Coex
  GainStas, GainRssis, FalseAlarms, DAMPING_TICKS, MAX_GAIN_EVENTS,  \* of Dig
  CckFas, CckRssis, Igis, AVG_CAP,                           \* of CckPd
  Txqs, Voice, MAX_FRAMES, MAX_SESSIONS,                     \* of TxQueues
  RateStas, Caps, UserMasks, RateRssis, NSS, MAX_RATE_EVENTS,  \* of RateAdapt
  Boards, Tunings, MAX_TUNES, MAX_FAILS,                     \* of Channel
  MAX_POWER_CALLS, MAX_TIMEOUTS,                             \* of PowerSeq
  Tables, TxRates, PG, EFUSE, SWING, REGULATORY, Programmed, Chandefs, Requests, Sars, Deltas,
  SwingLimits, MAX_POWER_EVENTS,                             \* of TxPower
  RxBases, Offsets, MAX_CALS                                 \* of Iqk

(* ewma_rssi averages what the receiver reports, which is at most 100.     *)
ASSUME GainAssumption == GainRssis \subseteq 0..100 /\ DAMPING_TICKS \in Nat

(* The chip has one stream or two.  A peer has rates without HT, 0..11, and*)
(* of the MCS of HT those that the chip has too: mac80211 gives no others. *)
ASSUME RatesAssumption ==
  /\ NSS \in {1, 2} /\ RateRssis \subseteq 0..100
  /\ \A cap \in Caps : /\ cap.kind \in {"legacy", "HT", "VHT"}
                       /\ cap.legacy # {} /\ cap.legacy \subseteq 0..11
                       /\ cap.kind = "HT" => cap.mcs \subseteq 0 .. 8 * NSS - 1

VARIABLES
  rtwdev, pending, executing, c2h, stop_at, events,
  power, joined, uploaded, beacon_loss, dm_info, igi, dig_events,
  cck_on, assoc, band, cck_fa_avg, cck_pd_lv, cck_pd_th,
  depth, waking, held_back, txqs, tx_work, lock, walk, frame_cnt, direct, ampdu, block_ba,
  tid_ba, ba_work, session, arrived, sessions,
  oper, rate_band, rate_scan, peer, si, told_ra, rc_work, c2h_rate, watch_dog_cnt, rrsr_val_init,
  rrsr, since, rate_events,
  board, regs, tuned, misread, tunes, fails,
  reg, mac, call, flow, step, down, flag, probed, calls, timeouts, in_call,
  limits, regd, hal, op, pw_scan, sar, agc, swing, pwrtrk, pw_left, power_events,
  iqk_pc, chip, cal, tx, ready, filled, cals

Cx == INSTANCE Coex WITH MAX_EVENTS <- MAX_COEX_EVENTS

Dg == INSTANCE Dig WITH
  Stas <- GainStas, Rssis <- GainRssis, MAX_EVENTS <- MAX_GAIN_EVENTS, events <- dig_events

Pd == INSTANCE CckPd WITH Rssis <- CckRssis

Tq == INSTANCE TxQueues

Ra == INSTANCE RateAdapt WITH
  Stas <- RateStas, Rssis <- RateRssis, MAX_EVENTS <- MAX_RATE_EVENTS

Ch == INSTANCE Channel

Ps == INSTANCE PowerSeq WITH MAX_CALLS <- MAX_POWER_CALLS

Pw == INSTANCE TxPower WITH
  Rates <- TxRates, MAX_EVENTS <- MAX_POWER_EVENTS, table <- limits, scanning <- pw_scan,
  dm_info <- pwrtrk, left <- pw_left

Iq == INSTANCE Iqk

(* Limits are what parsing a table leaves (phy.c:1648), 63 for none; powers*)
(* of the board are half dBm up to that; the efuse has a swing of at most  *)
(* 24 (rtw88xxa.c:653) and a power for every channel; the shifts are those *)
(* of the tables (rtw8812a_table.c:2616), and SAR is not below -32 dBm.    *)
ASSUME PowerAssumption ==
  /\ \A t \in Tables : \A e \in t : e.lmt \in -63..63 /\ e.regd # "WW"
  /\ \A b \in {"2G", "5G"}, rate \in TxRates :
       PG[b][rate] \in 0..63 /\ PG[b][Pw!BaseRate(rate[1])] \in 0..63
  /\ \A b \in {"2G", "5G"} : SWING[b] \in 0..24
  /\ Deltas \subseteq -63..63 /\ SwingLimits \subseteq 0..63
  /\ \A spec \in Sars : \A b \in DOMAIN spec : spec[b] \in Int /\ spec[b] >= -128
  /\ \A c \in Chandefs, p \in Pw!Paths, rate \in TxRates :
       Pw!Base([channel |-> Pw!CenterChan(c), bw |-> c.width], p, rate[1]) \in Nat

(* A channel is in one block of 20, 40 or 80 MHz, which in 5 GHz begin at  *)
(* 36 or 149, and the block is in the band of the channel (cfg80211).      *)
ASSUME ChandefAssumption ==
  \A c \in Chandefs :
    LET center == Pw!CenterChan(c)
        off == c.primary_freq - c.center_freq
        place == (c.primary - (IF c.primary >= 149 THEN 149 ELSE 36)) \div 4
        n == c.width \div 20
    IN  /\ c.width \in {20, 40, 80} /\ c.primary \in 1..177
        /\ c.primary_freq \in Nat /\ c.center_freq \in Nat
        /\ \/ c.primary \in 1..14 /\ center \in 1..14 /\ c.width # 80
           \/ /\ c.primary \in 36..177 /\ (c.primary - (IF c.primary >= 149 THEN 149 ELSE 36)) % 4 = 0
              /\ center \in 36..64 \cup 100..144 \cup 149..177
              /\ off = 20 * (place % n) - 10 * (n - 1)

(* What a path may measure is a measurement, in each of the ten tries.     *)
ASSUME CalibrationAssumption ==
  /\ RxBases \subseteq [Iq!Paths -> Int \X Int]
  /\ \A n \in 0..9 : Offsets[n] \subseteq Int \X Int
  /\ \A b \in {<<512, 0>>} \cup {q[p] : q \in RxBases, p \in Iq!Paths}, n \in 0..9 :
       \A o \in Offsets[n] : <<b[1] + o[1], b[2] + o[2]>> \in Iq!Measures

----------------------------------------------------------------------------
(* Coex.  The passing conditions end, however starts, stops, reports and   *)
(* works are interleaved (coex.c:3037), and the decision in force is that  *)
(* of what is known now (coex.c:2548).                                     *)
CoexSound == Cx!CoexSettles /\ Cx!CoexFresh

(* Dig and CckPd.  What is written to the receiver is what the driver      *)
(* thinks, in the range of the hardware, and hears the weakest peer unless *)
(* frozen (phy.c:386, phy.c:398, phy.c:588, phy.c:154).                    *)
GainSound ==
  Dg!GainKnown /\ Dg!GainInRange /\ Dg!HeardUnlessFrozen /\ Pd!ThresholdKnown

(* The software queues forget no frame and mistake no session              *)
(* (mac80211.c:43, main.c:708).                                            *)
TransmitSound == Tq!NoneForgotten /\ Tq!SessionsAgree

(* What the firmware is told of a peer's rates catches up with the driver, *)
(* leaves it a rate, and responses stay audible (main.c:340, phy.c:617).   *)
RatesSound == Ra!RatesCatchUp /\ Ra!NeverMute /\ Ra!ResponsesHeard /\ Ra!LevelsSettle

(* A channel is set up the same whatever came before (rtw88xxa.c:1506), and *)
(* with the spur of channels 13 and 14 avoided (rtw88xxa.c:1319).           *)
ChannelAgrees == Ch!TunedAsFirst /\ Ch!SpurAvoided

(* The power sequences: silent when off, all there when on, never brought  *)
(* up twice, whatever times out (rtw88xxa.c:1051, rtw88xxa.c:745).         *)
PowerSequenced ==
  Ps!SilentWhenOff /\ Ps!ReadyWhenOn /\ Ps!NoDoubleInit /\ Ps!OnUnlessTimeout

(* No rate is sent with more than the board, the domain and SAR allow      *)
(* (phy.c:2212), and the domain that the user or the efuse set stays       *)
(* (regd.c:400), in any order of channels, scans, restarts, requests and   *)
(* temperatures.                                                           *)
PowerSound == Pw!PowerBounded /\ Pw!RegdKept

(* A calibration ends with all registers as they were and results that two *)
(* measurements agree on, within its arrays (rtw8812a.c:775).              *)
CalibrationSound == Iq!NothingLeftBehind /\ Iq!WithinArrays /\ Iq!FilledSoundly

============================================================================
