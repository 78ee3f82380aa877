------------------------------ MODULE RxStatus ------------------------------
(***************************************************************************)
(* What mac80211 is told of a received frame, and what the driver counts   *)
(* of it (rx.c), from the descriptor that precedes the frame in a transfer *)
(* (module UsbRx).  The frame may have come in on another channel than the *)
(* one that is set when it is looked at.                                   *)
(*                                                                         *)
(* A frame d: rate and bw of its descriptor, its flags, its kind, and whom *)
(* it is to and from.  The world w: the band of the channel, the number of *)
(* paths, and the interfaces, each [addr, bssid, stas].                    *)
(***************************************************************************)
EXTENDS Integers, FiniteSets

(* enum rtw_trx_desc_rate                                                  *)
OFDM == 4
MCS == 12
VHT == 44
RATE_MAX == 84
EVM_NUM == 7
SNR_NUM == 16

(* rtw_rx_query_rx_desc: a rate that does not exist is taken for 1M, and   *)
(* rtw88xxa_query_phy_status knows that CCK is 20 MHz wide.                *)
Rate(d) == IF d.rate >= RATE_MAX THEN 0 ELSE d.rate
Width(d) == IF d.rate >= RATE_MAX \/ (d.phy_status /\ d.rate < OFDM) THEN 20 ELSE d.bw
Decrypted(d) == ~d.swdec /\ d.enc

(* rtw_desc_to_mcsrate                                                     *)
Streams(rate) == IF rate >= VHT THEN ((rate - VHT) \div 10) + 1 ELSE 0
McsOf(rate) == IF rate >= VHT THEN (rate - VHT) % 10 ELSE rate - MCS

(* Mutant: the rate counts from 1M in both bands.                          *)
RateIdxOneTable(rate, band) == IF rate >= MCS THEN McsOf(rate) ELSE rate

(* A CCK rate has no place in the table of the 5 GHz band: index 0 stays.  *)
RateIdx(rate, band) ==
  CASE band = "5G" /\ rate \in OFDM..MCS - 1 -> rate - OFDM
    [] band = "2G" /\ rate < MCS -> rate
    [] rate >= MCS -> McsOf(rate)
    [] OTHER -> 0

(* rtw_rx_fill_rx_status                                                   *)
Status(d, w) ==
  LET rate == Rate(d)
  IN  [band |-> w.band, bw |-> Width(d),
       encoding |-> CASE rate >= VHT -> "VHT" [] rate \in MCS..VHT - 1 -> "HT" [] OTHER -> "legacy",
       rate_idx |-> RateIdx(rate, w.band), nss |-> Streams(rate),
       flag |-> {f \in {"FAILED_FCS_CRC", "DECRYPTED", "NO_SIGNAL_VAL"} :
                   CASE f = "FAILED_FCS_CRC" -> d.crc_err [] f = "DECRYPTED" -> Decrypted(d)
                     [] f = "NO_SIGNAL_VAL" -> ~d.phy_status},
       chains |-> IF d.phy_status THEN 0..w.paths - 1 ELSE {}]

(* rtw_rx_addr_match: the interfaces that a frame counts for               *)
Matching(d, w) ==
  IF d.crc_err \/ d.icv_err \/ ~d.phy_status \/ d.kind = "ctl" THEN {}
  ELSE {v \in w.vifs : v.bssid = d.bssid /\ (v.addr = d.to \/ d.kind = "beacon")}

(* rtw_rx_addr_match_iter: whose average of the signal it is added to      *)
Heard(d, w) == {<<v.addr, d.from>> : v \in {x \in Matching(d, w) : d.from \in x.stas}}

(* rtw_rx_phy_stat: the number of streams, and from where on the arrays of *)
(* EVM and of SNR hold them                                                *)
SpatialStreams(rate) ==
  CASE rate < MCS -> 0
    [] rate \in MCS..VHT - 1 -> ((rate - MCS) \div 8) + 1
    [] OTHER -> Streams(rate)

Evm(rate) ==
  CASE rate < OFDM \/ SpatialStreams(rate) = 4 -> {}
    [] rate \in OFDM..MCS - 1 -> {0}
    [] SpatialStreams(rate) = 1 -> {1}
    [] SpatialStreams(rate) = 2 -> {2, 3}
    [] SpatialStreams(rate) = 3 -> {4, 5, 6}

Snr(rate, paths) ==
  IF Evm(rate) = {} THEN {} ELSE {4 * SpatialStreams(rate) + i : i \in 0..paths - 1}

----------------------------------------------------------------------------
(* mac80211 takes what it is told: an index within the band's rates, or an *)
(* MCS and streams that exist, also when the channel has changed since and *)
(* whatever rate the descriptor holds (rx.c:227, rx.c:323).                *)
Reportable(d, w) ==
  LET s == Status(d, w)
  IN  CASE s.encoding = "legacy" -> s.rate_idx < (IF s.band = "2G" THEN 12 ELSE 8)
        [] s.encoding = "HT" -> s.rate_idx \in 0..31 /\ s.nss = 0
        [] s.encoding = "VHT" -> s.rate_idx \in 0..9 /\ s.nss \in 1..4

(* Two rates of a band are never reported as the same.                     *)
RatesTold(band, rates) ==
  LET of(rate) == <<rate >= MCS, rate >= VHT, RateIdx(rate, band), Streams(rate)>>
  IN  \A r, s \in rates : of(r) = of(s) => r = s

(* The averages of one kind of frame are not mixed with another's, and all *)
(* are within their arrays (rx.c:83).                                      *)
AveragesApart(rates, paths) ==
  \A r, s \in rates :
    /\ Evm(r) \subseteq 0..EVM_NUM - 1 /\ Snr(r, paths) \subseteq 0..SNR_NUM - 1
    /\ Evm(r) \cap Evm(s) # {} => Evm(r) = Evm(s)
    /\ Evm(r) # Evm(s) => Snr(r, paths) \cap Snr(s, paths) = {}

(* The signal of a peer, which decides on its rates and on the gain, is    *)
(* known from frames without errors only, that it sent to this device or   *)
(* as the beacon of its BSS (rx.c:104).  A frame counts once, unless two   *)
(* interfaces are of the same BSS.                                         *)
SignalOwn(d, w) ==
  /\ \A h \in Heard(d, w) :
       /\ ~d.crc_err /\ ~d.icv_err /\ d.kind # "ctl" /\ h[2] = d.from
       /\ d.to = h[1] \/ (d.kind = "beacon" /\ \E v \in w.vifs : v.addr = h[1] /\ v.bssid = d.bssid)
  /\ Cardinality(Matching(d, w)) > 1 =>
       \E u, v \in w.vifs : u # v /\ u.bssid = v.bssid

============================================================================
