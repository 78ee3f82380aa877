------------------------------ MODULE TxPower ------------------------------
(***************************************************************************)
(* How strong the device sends (phy.c, regd.c, sar.c, rtw88xxa.c).  The    *)
(* power of a rate is the least of what the board's table by rate, the     *)
(* regulatory domain's limits and SAR allow, made an index into what the   *)
(* efuse was calibrated for; tracking of the temperature shifts it between *)
(* the swing of the baseband and a remnant of the index.                   *)
(*                                                                         *)
(* Powers are in half dBm, SAR in quarter dBm.                             *)
(***************************************************************************)
EXTENDS Integers, FiniteSetsExt

CONSTANTS
  Tables,         (* tables of limits: sets of [regd, bw, rs, ch, lmt]     *)
  Rates,          (* rates, as <<rate section, number in it>>              *)
  PG,             (* board's power by rate: [band -> [Rates -> power]],    *)
                  (* the same for both paths (rtw8812a_bb_pg)              *)
  EFUSE,          (* by path and band: see Base                            *)
  SWING,          (* index of the efuse's swing, by band                   *)
  REGULATORY,     (* domain of each country, by band; "00" is among them   *)
  Programmed,     (* countries an efuse may have, "00" for none            *)
  Chandefs,       (* channels mac80211 asks for                            *)
  Requests,       (* regulatory requests: [initiator, alpha2]              *)
  Sars,           (* SAR specifications: functions from bands to power     *)
  Deltas,         (* shifts that temperatures ask for                      *)
  SwingLimits,    (* highest swing, by the rate last sent with             *)
  MAX_EVENTS

VARIABLES
  table,          (* the table of limits of this device                    *)
  regd,           (* rtwdev->regd, and REGULATORY_COUNTRY_IE_IGNORE        *)
  hal,            (* channel state of rtw_hal                              *)
  op,             (* channel in use outside of a scan                      *)
  scanning,
  sar,
  agc,            (* the TX AGC registers, by path and rate                *)
  swing,          (* the swing registers, by path                          *)
  dm_info,        (* tracking: default index, delta and remnant by path    *)
  left,           (* history: the remnants that are stale, by path and for *)
                  (* CCK (cck: in CCK's registers); HT and VHT changed in  *)
                  (* a scan; the user's domain                             *)
  power_events

power_vars == <<table, regd, hal, op, scanning, sar, agc, swing, dm_info, left, power_events>>

Paths == {"A", "B"}
MAX == 63         (* max_power_index *)
U8(n) == n % 256
S8(n) == IF n % 256 < 128 THEN n % 256 ELSE (n % 256) - 256
Clamp(n, lo, hi) == IF n < lo THEN lo ELSE IF n > hi THEN hi ELSE n

Legacy == {"CCK", "OFDM"}
Band(ch) == IF ch <= 14 THEN "2G" ELSE "5G"

----------------------------------------------------------------------------
(* Channels.  rtw_get_channel_params: the centre, from the primary channel *)
(* and on which side of the centre frequency it lies.                      *)
CenterChan(c) ==
  CASE c.width = 20 -> c.primary
    [] c.width = 40 -> IF c.primary_freq > c.center_freq THEN c.primary - 2 ELSE c.primary + 2
    [] c.width = 80 ->
         LET near == c.primary_freq - c.center_freq \in {10, -10}
             off == IF near THEN 2 ELSE 6
         IN  IF c.primary_freq > c.center_freq THEN c.primary - off ELSE c.primary + off

SarBand(center) ==
  CASE center \in 1..14 -> 0 [] center \in 36..64 -> 1
    [] center \in 100..144 -> 3 [] center \in 149..177 -> 4

(* rtw_update_channel; cch_by_bw keeps the centre of widths not in use     *)
UpdateChannel(h, c) ==
  LET center == CenterChan(c)
      narrow == [h.cch_by_bw EXCEPT ![20] = c.primary]
      wide == [narrow EXCEPT ![c.width] = center]
      below == IF c.primary_freq > c.center_freq THEN center + 4 ELSE center - 4
  IN  [bw |-> c.width, channel |-> center, sar_band |-> SarBand(center),
       cch_by_bw |-> IF c.width = 80 THEN [wide EXCEPT ![40] = below] ELSE wide]

----------------------------------------------------------------------------
(* The regulatory domain (regd.c).                                         *)
Alternative ==
  LET fcc == {"IC", "CHILE", "MEXICO"}
      etsi == {"KCC", "ACMA", "UKRAINE", "CN", "QATAR", "UK"}
  IN  [r \in fcc \cup etsi |-> IF r \in fcc THEN "FCC" ELSE "ETSI"]

Country(alpha2) == IF alpha2 \in DOMAIN REGULATORY THEN alpha2 ELSE "00"

(* rtw_regd_init *)
RegdInit(efuse) ==
  [country |-> "00", country_code |-> efuse, ie_ignore |-> Country(efuse) # "00",
   state |-> IF Country(efuse) # "00" THEN "PROGRAMMED" ELSE "WORLDWIDE"]

(* Mutant: the countries of beacons change what the user has set.          *)
HandlesIe(r, req) ==
  CASE r.state = "WORLDWIDE" -> TRUE
    [] r.state = "PROGRAMMED" -> req.initiator = "DRIVER" /\ req.alpha2 = r.country_code
    [] r.state = "SETTING" -> req.initiator \in {"USER", "COUNTRY_IE"}

(* rtw_regd_state_hdl: is the request followed, and what becomes of regd?  *)
Handles(r, req) ==
  CASE r.state = "WORLDWIDE" -> TRUE
    [] r.state = "PROGRAMMED" -> req.initiator = "DRIVER" /\ req.alpha2 = r.country_code
    [] r.state = "SETTING" -> req.initiator = "USER"

NextRegd(r, req) ==
  LET c == Country(req.alpha2)
  IN  CASE r.state = "WORLDWIDE" /\ req.initiator = "USER" /\ c # "00" ->
             [r EXCEPT !.country = c, !.state = "SETTING", !.ie_ignore = TRUE]
        [] r.state = "SETTING" /\ c = "00" ->
             [r EXCEPT !.country = c, !.state = "WORLDWIDE", !.ie_ignore = FALSE]
        [] OTHER -> [r EXCEPT !.country = c]

----------------------------------------------------------------------------
(* Limits by table (rtw_parse_tbl_txpwr_lmt): the domain of the table that *)
(* stands for a domain, WW for the least of all.                           *)
Configured == {e.regd : e \in table}

Source(domain) ==
  CASE domain \in Configured -> domain
    [] domain \notin Configured /\ domain \in DOMAIN Alternative ->
         IF Alternative[domain] \in Configured THEN Alternative[domain] ELSE "WW"
    [] OTHER -> "WW"

Limits(domain, bw, rs, ch) ==
  LET source == Source(domain)
      entries == {e \in table : <<e.bw, e.rs, e.ch>> = <<bw, rs, ch>> /\ source \in {e.regd, "WW"}}
  IN  {Clamp(e.lmt, -MAX, MAX) : e \in entries}

(* HT and VHT of as many streams stand for each other, in 5 GHz and for    *)
(* 20 and 40 MHz (rtw_xref_txpwr_lmt).                                     *)
Twin == [HT_1S |-> "VHT_1S", VHT_1S |-> "HT_1S", HT_2S |-> "VHT_2S", VHT_2S |-> "HT_2S"]

Stored(domain, bw, rs, ch) == Min(Limits(domain, bw, rs, ch) \cup {MAX})

TxPwrLimit(domain, bw, rs, ch) ==
  LET own == Stored(domain, bw, rs, ch)
  IN  IF own = MAX /\ ch > 14 /\ bw <= 40 /\ rs \in DOMAIN Twin
      THEN Stored(domain, bw, Twin[rs], ch) ELSE own

(* rtw_phy_tx_power_by_rate_config: powers count from that of a rate of    *)
(* the section.                                                            *)
BaseRate(rs) == <<rs, IF rs = "CCK" THEN 3 ELSE 7>>
PgBase(band, rs) == PG[band][BaseRate(rs)]
Offset(band, rate) == PG[band][rate] - PgBase(band, rate[1])

Widths(rs, bw) ==
  {w \in {20, 40, 80} : /\ w <= bw
                        /\ rs \in Legacy => w = 20
                        /\ rs \in {"HT_1S", "HT_2S"} => w <= 40}

(* Mutant: only the limit of the width in use is looked up.                *)
GetLimitOwnWidth(h, domain, rs) ==
  LET w == Max(Widths(rs, h.bw))
  IN  Min({MAX, TxPwrLimit(domain, w, rs, h.cch_by_bw[w]) - PgBase(Band(h.channel), rs)})

(* rtw_phy_get_tx_power_limit: the least of the widths up to the one used  *)
GetLimit(h, domain, rs) ==
  Min({MAX} \cup {TxPwrLimit(domain, w, rs, h.cch_by_bw[w]) - PgBase(Band(h.channel), rs) :
                    w \in Widths(rs, h.bw)})

(* rtw_sar_to_phy, rtw_query_sar.  SAR not given for a band is no limit.   *)
SarToPhy(power, band, rs) ==
  Clamp(power \div 2, -MAX - 1, MAX) - PgBase(IF band = 0 THEN "2G" ELSE "5G", rs)

GetSar(spec, band, rs) == IF band \in DOMAIN spec THEN SarToPhy(spec[band], band, rs) ELSE MAX

----------------------------------------------------------------------------
(* rtw_get_channel_group: of the channels used here                        *)
Group(ch, rs) ==
  CASE ch \in {1, 2, 36, 38, 40, 42} -> 0
    [] ch \in {3, 4, 5, 44, 46, 48, 50} -> 1
    [] ch \in {6, 7, 8} \cup {52, 54, 56, 58} -> 2
    [] ch \in {9, 10, 11} \cup {60, 62, 64} -> 3
    [] ch \in {12, 13} \cup {100, 102, 104, 106} -> 4
    [] ch = 14 -> IF rs = "CCK" THEN 5 ELSE 4
    [] ch \in {108, 110, 112, 114} -> 5
    [] ch \in {116, 118, 120, 122} -> 6
    [] ch \in {124, 126, 128, 130} -> 7
    [] ch \in {132, 134, 136, 138} -> 8
    [] ch \in {140, 142, 144} -> 9
    [] ch \in {149, 151, 153, 155} -> 10
    [] ch \in {157, 159, 161} -> 11
    [] ch \in {165, 167, 169, 171} -> 12
    [] ch \in {173, 175, 177} -> 13

Diff(e, bw, rs) ==
  e.diff[bw][1] + (IF rs \in {"HT_1S", "VHT_1S"} THEN 0 ELSE e.diff[bw][2])

(* rtw_phy_get_2g_tx_power_index, rtw_phy_get_5g_tx_power_index: the index *)
(* of the calibrated power.  80 MHz takes the mean of two groups.          *)
Base(h, path, rs) ==
  LET e == EFUSE[path][Band(h.channel)]
      g == Group(h.channel, rs)
      mean == (e.bw40_base[g] + e.bw40_base[g + 1]) \div 2
  IN  CASE rs = "CCK" -> e.cck_base[g]
        [] rs = "OFDM" -> U8(e.bw40_base[g] + e.ofdm)
        [] OTHER -> U8((IF h.bw = 80 THEN mean ELSE e.bw40_base[g])
                       + Diff(e, h.bw, rs))

Remnant(dm, path, rs) == IF rs = "CCK" THEN dm.remnant_cck ELSE dm.remnant[path]

(* rtw_phy_get_tx_power_index, in u8: a sum below zero is a large one.     *)
Index(h, domain, spec, dm, path, rate) ==
  LET rs == rate[1]
      sum == Base(h, path, rs)
             + Min({Offset(Band(h.channel), rate), GetLimit(h, domain, rs),
                    GetSar(spec, h.sar_band, rs)})
             + Remnant(dm, path, rs)
  IN  Min({U8(sum), MAX})

Domain(r, h) == REGULATORY[r.country][Band(h.channel)]

Written(h, scan) == {r \in Rates : /\ h.channel > 14 => r[1] # "CCK"
                                   /\ scan => r[1] \in Legacy}

(* rtw_phy_set_tx_power_level, rtw88xxa_set_tx_power_index: the registers  *)
(* that are written, from the channel, regd, SAR and tracking              *)
PowerLevel(registers, h, r, spec, dm) ==
  [p \in Paths |-> [rate \in Rates |->
     IF rate \in Written(h, scanning)
     THEN Index(h, Domain(r, h), spec, dm, p, rate) ELSE registers[p][rate]]]

----------------------------------------------------------------------------
(* Tracking.  rtw88xxa_pwrtrack_init leaves the remnants as they are; the  *)
(* default index is that of the band hal has now.                          *)
PwrtrackInit(dm, band) ==
  [dm EXCEPT !.default = SWING[band], !.delta = [p \in Paths |-> 0]]

(* rtw88xxa_pwrtrack_set: what the register cannot take is the remnant     *)
PwrtrackSet(d, path, delta, limit) ==
  LET ofdm == U8(delta + d.dm.default)
      cck == U8(delta + 24)
      rest == CASE ofdm > limit -> S8(ofdm - limit) [] OTHER -> 0
      cck_rest == CASE ofdm > limit -> S8(cck - limit) [] ofdm = 0 -> S8(cck) [] OTHER -> 0
  IN  IF d.dm.delta[path] = delta THEN d
      ELSE [swing |-> [d.swing EXCEPT ![path] = IF ofdm > limit THEN limit ELSE ofdm],
            dm |-> [default |-> d.dm.default,
                    delta |-> [d.dm.delta EXCEPT ![path] = delta],
                    remnant |-> [d.dm.remnant EXCEPT ![path] = rest],
                    remnant_cck |-> IF path = "A" THEN cck_rest ELSE d.dm.remnant_cck],
            left |-> [d.left EXCEPT !.remnant = @ \ (IF path = "A" THEN {"A", "CCK"} ELSE {path})]]

(* Only the remnants of OFDM are looked at.                                *)
LevelNeeded(before, after) == before.remnant # after.remnant

----------------------------------------------------------------------------
NoPower == [p \in Paths |-> [r \in Rates |-> 0]]

Init ==
  /\ table \in Tables /\ regd \in {RegdInit(c) : c \in Programmed} /\ sar = <<>> /\ scanning = FALSE
  /\ op \in {c \in Chandefs : c.width = 20 /\ c.primary <= 14}
  /\ hal = UpdateChannel([cch_by_bw |-> [w \in {20, 40, 80} |-> 1]], op)
  /\ swing = [p \in Paths |-> SWING["2G"]]
  /\ dm_info = [default |-> SWING["2G"], delta |-> [p \in Paths |-> 0],
                remnant |-> [p \in Paths |-> 0], remnant_cck |-> 0]
  /\ left = [remnant |-> {}, cck |-> FALSE, scan |-> FALSE, user |-> "00"]
  /\ agc = PowerLevel(NoPower, hal, regd, sar, dm_info)
  /\ power_events = 0

Here == [band |-> Band(hal.channel), dm |-> dm_info, agc |-> agc, swing |-> swing]

(* The chip comes up in 2.4 GHz while hal has still the band it had.       *)
PoweredOn ==
  [band |-> "2G", dm |-> PwrtrackInit(dm_info, Band(hal.channel)), agc |-> NoPower,
   swing |-> [p \in Paths |-> SWING["2G"]]]

(* What pwrtrack_init leaves as it was                                     *)
LeftOver(dm) ==
  {p \in Paths : dm.remnant[p] # 0}
  \cup {n \in {"CCK"} : dm.remnant["A"] # 0 \/ dm.remnant_cck # 0}

(* rtw_set_channel: a change of the hardware's band starts tracking anew   *)
ToChannel(c, from) ==
  LET h == UpdateChannel(hal, c)
      switch == Band(h.channel) # from.band
      dm == IF switch THEN PwrtrackInit(from.dm, Band(h.channel)) ELSE from.dm
      remnant == left.remnant \cup (IF switch \/ from # Here THEN LeftOver(dm) ELSE {})
  IN  /\ hal' = h /\ dm_info' = dm
      /\ swing' = IF switch THEN [p \in Paths |-> SWING[Band(h.channel)]] ELSE from.swing
      /\ agc' = PowerLevel(from.agc, h, regd, sar, dm)
      /\ left' = [user |-> left.user, scan |-> left.scan /\ scanning,
                  remnant |-> remnant, cck |-> "CCK" \in remnant]
      /\ UNCHANGED <<table, regd, sar>>

SetChannel(c) ==
  /\ ~scanning /\ op' = c
  /\ ToChannel(c, Here)
  /\ UNCHANGED scanning

ScanStart ==
  /\ ~scanning /\ scanning' = TRUE
  /\ UNCHANGED <<table, regd, hal, op, sar, agc, swing, dm_info, left>>

(* mac80211 scans in 20 MHz.                                               *)
ScanChannel(c) ==
  /\ scanning /\ (c = op \/ c.width = 20)
  /\ ToChannel(c, Here)
  /\ UNCHANGED <<op, scanning>>

OnOperating == hal.channel = CenterChan(op) /\ hal.bw = op.width

ScanComplete ==
  /\ scanning /\ OnOperating /\ scanning' = FALSE
  /\ UNCHANGED <<table, regd, hal, op, sar, agc, swing, dm_info, left>>

(* rtw_core_stop, rtw_core_start and the channel set afterwards            *)
Restart(c) ==
  /\ ~scanning /\ op' = c
  /\ ToChannel(c, PoweredOn)
  /\ UNCHANGED scanning

(* rtw_regd_notifier *)
RegdNotify(req) ==
  /\ Handles(regd, req)
  /\ regd' = NextRegd(regd, req)
  /\ agc' = PowerLevel(agc, hal, regd', sar, dm_info)
  /\ left' = [left EXCEPT !.scan = scanning, !.cck = "CCK" \in left.remnant,
                         !.user = IF req.initiator = "USER" THEN Country(req.alpha2) ELSE @]
  /\ UNCHANGED <<table, hal, op, scanning, sar, swing, dm_info>>

(* rtw_set_sar_specs *)
SetSar(spec) ==
  /\ sar' = spec
  /\ agc' = PowerLevel(agc, hal, regd, spec, dm_info)
  /\ left' = [left EXCEPT !.scan = scanning, !.cck = "CCK" \in left.remnant]
  /\ UNCHANGED <<table, regd, hal, op, scanning, swing, dm_info>>

(* rtw88xxa_phy_pwrtrack, by the watch dog, which does nothing in a scan   *)
Track(a, b, limit) ==
  LET old == [dm |-> dm_info, swing |-> swing, left |-> left]
      new == PwrtrackSet(PwrtrackSet(old, "A", a, limit), "B", b, limit)
      level == LevelNeeded(dm_info, new.dm)
  IN  /\ ~scanning
      /\ dm_info' = new.dm /\ swing' = new.swing
      /\ left' = [new.left EXCEPT !.scan = @ /\ ~level,
                                  !.cck = IF level THEN "CCK" \in new.left.remnant ELSE @]
      /\ agc' = IF level THEN PowerLevel(agc, hal, regd, sar, new.dm) ELSE agc
      /\ UNCHANGED <<table, regd, hal, op, scanning, sar>>

Next ==
  /\ power_events < MAX_EVENTS /\ power_events' = power_events + 1
  /\ \/ ScanStart \/ ScanComplete
     \/ \E c \in Chandefs : SetChannel(c) \/ ScanChannel(c) \/ Restart(c)
     \/ \E req \in Requests : RegdNotify(req)
     \/ \E spec \in Sars : SetSar(spec)
     \/ \E a, b \in Deltas, limit \in SwingLimits : Track(a, b, limit)

Spec == Init /\ [][Next]_power_vars

----------------------------------------------------------------------------
(* What a rate is sent with, in half dBm: the register and the swing count *)
(* from what the efuse is calibrated for, and the shift makes up for the   *)
(* temperature.                                                            *)
Radiated(p, rate) ==
  LET band == Band(hal.channel)
  IN  agc[p][rate] - Base(hal, p, rate[1]) + PgBase(band, rate[1])
      + swing[p] - SWING[band] - dm_info.delta[p]

(* The centre of the channel of that width the primary channel is part of  *)
CenterOf(w) ==
  LET from == IF op.primary >= 149 THEN 149 ELSE 36
      chan == hal.cch_by_bw[20]
      n == w \div 5
  IN  CASE w = 20 -> chan
        [] w # 20 /\ chan > 14 -> ((chan - from) \div n) * n + from + n \div 2 - 2
        [] OTHER -> hal.channel

(* The limits that apply to a rate in a width: the domain's own ones, else *)
(* those of its alternative, else all; else those of the twin section.     *)
Lawful(domain) ==
  LET of(d) == {e \in table : e.regd = d}
      alternative == UNION {of(Alternative[d]) : d \in {domain} \cap DOMAIN Alternative}
  IN  CASE of(domain) # {} -> of(domain)
        [] of(domain) = {} /\ alternative # {} -> alternative
        [] OTHER -> table

Bounds(rs, w) ==
  LET center == CenterOf(w)
      of == {e \in Lawful(Domain(regd, hal)) : <<e.bw, e.rs, e.ch>> = <<w, rs, center>>}
  IN  {e.lmt : e \in of} \ {MAX}

TableBounds(rate) ==
  {PG[Band(hal.channel)][rate]} \cup
  UNION {IF Bounds(rate[1], w) = {} /\ hal.channel > 14 /\ w <= 40 /\ rate[1] \in DOMAIN Twin
         THEN Bounds(Twin[rate[1]], w) ELSE Bounds(rate[1], w) : w \in Widths(rate[1], hal.bw)}

SarBounds == IF hal.sar_band \in DOMAIN sar THEN {sar[hal.sar_band] \div 2} ELSE {}

(* The registers of a rate are those of the channel and what applies to it *)
Current(p, rate) ==
  /\ hal.channel > 14 => rate[1] # "CCK"
  /\ rate[1] = "CCK" => p = "A" /\ ~left.cck
  /\ rate[1] \in Legacy \/ (OnOperating /\ ~left.scan)
  /\ p \notin left.remnant /\ dm_info.default = SWING[Band(hal.channel)]

(* Whatever the sequence of channels, scans, restarts, regulatory and SAR  *)
(* requests and temperatures: no rate is sent with more than the board, a  *)
(* limit of the domain in force for the width used or a narrower one, or   *)
(* SAR allows (phy.c:2212), unless less than index 0 is allowed; the shift *)
(* of CCK counts from 24, whatever the swing (rtw88xxa.c:1877).            *)
PowerBounded ==
  \A p \in Paths, rate \in Rates : Current(p, rate) =>
    LET bound == Min(TableBounds(rate) \cup SarBounds)
        lowest == PgBase(Band(hal.channel), rate[1]) - Base(hal, p, rate[1])
                  - dm_info.remnant[p]
        more == IF rate[1] = "CCK" THEN 24 - SWING["2G"] ELSE 0
    IN  bound >= lowest => Radiated(p, rate) <= bound + more

(* The same of SAR without that exception (sar.c:93, phy.c:2316).          *)
SarHeld ==
  \A p \in Paths, rate \in Rates : Current(p, rate) =>
    \A s \in SarBounds : Radiated(p, rate) <= s

(* What the user asked for last stays, whatever other users of the medium  *)
(* announce, and so does what the efuse says, whatever the user asks for;  *)
(* cfg80211 is told to ignore beacons as long (regd.c:346, regd.c:400).    *)
RegdKept ==
  /\ regd.ie_ignore <=> regd.state # "WORLDWIDE"
  /\ regd.state = "PROGRAMMED" => regd.country \in {"00", regd.country_code}
  /\ regd.state = "SETTING" => regd.country = left.user
  /\ Country(regd.country_code) # "00" => regd.state = "PROGRAMMED"
  /\ left.user # "00" /\ regd.state # "PROGRAMMED" => regd.state = "SETTING"

=============================================================================
