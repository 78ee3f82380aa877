------------------------------- MODULE MCChip -------------------------------
(***************************************************************************)
(* What the driver has the chip do: its firmware, its queues and its radio,*)
(* in parts that share no variables.  A behaviour plays one of them, chosen*)
(* at the start, and leaves the others in their initial state, so that the *)
(* state spaces add up.  It extends Firmware and Chip, the parts with      *)
(* proofs, and instantiates the others.                                    *)
(***************************************************************************)
EXTENDS Firmware, Chip, Integers, Sequences, FiniteSets, TLC

VARIABLES
  track,
  question,
  vifs, beacon, notify, update_beacon_work, ap_active, rsvd_page_list, pkt_page, rs_pc, buf,
  good, area, head, told, rs_events, rs_faults,
  ef_pc, burnt, phy_map, otp, phy_idx, log_map, efuse, ret, mac_on, granted

coex_vars == <<rtwdev, pending, executing, c2h, stop_at, events>>
dig_vars == <<power, joined, uploaded, beacon_loss, dm_info, igi, dig_events>>
cck_vars == <<cck_on, assoc, band, cck_fa_avg, cck_pd_lv, cck_pd_th>>
power_vars ==
  <<limits, regd, hal, op, pw_scan, sar, agc, swing, pwrtrk, pw_left, power_events>>
rsvd_vars == <<vifs, beacon, notify, update_beacon_work, ap_active, rsvd_page_list, pkt_page,
               rs_pc, buf, good, area, head, told, rs_events, rs_faults>>
txq_vars == <<depth, waking, held_back, txqs, tx_work, lock, walk, frame_cnt, direct, ampdu,
              block_ba, tid_ba, ba_work, session, arrived, sessions>>
rates_vars == <<oper, rate_band, rate_scan, peer, si, told_ra, rc_work, c2h_rate, watch_dog_cnt,
                rrsr_val_init, rrsr, since, rate_events>>
start_vars == <<reg, mac, call, flow, step, down, flag, probed, calls, timeouts, in_call>>
channel_vars == <<board, regs, tuned, misread, tunes, fails>>
iqk_vars == <<iqk_pc, chip, cal, tx, ready, filled, cals>>
efuse_vars == <<ef_pc, burnt, phy_map, otp, phy_idx, log_map, efuse, ret, mac_on, granted>>

(* Reports of Bluetooth: a connection without a profile, an inquiry, a     *)
(* headset with a mouse, and a mouse that is being set up.                 *)
Info(lb2, setup, multi) == [lb2 |-> lb2, setup_link |-> setup, multi_link |-> multi]

SomeBtInfos ==
  {Info({"CONNECTION"}, FALSE, FALSE), Info({"INQ_PAGE"}, FALSE, FALSE),
   Info({"CONNECTION", "A2DP", "HID", "ACL_BUSY"}, FALSE, TRUE),
   Info({"CONNECTION", "HID", "ACL_BUSY"}, TRUE, FALSE)}

Pt == INSTANCE PhyTables

(* Power.  Half dBm.  The table names a width or a section of its own in    *)
(* some domains only, and a domain with an alternative (AU is of ACMA) that *)
(* is or is not in the table; one table leaves most rates without a limit. *)
SomeRates == {<<"CCK", 0>>, <<"CCK", 3>>, <<"OFDM", 7>>, <<"HT_2S", 7>>, <<"VHT_1S", 7>>,
              <<"VHT_1S", 9>>}

Limit(domain, bw, rs, ch, lmt) == [regd |-> domain, bw |-> bw, rs |-> rs, ch |-> ch, lmt |-> lmt]

FullTable ==
  UNION {{Limit("FCC", 20, rs, 6, 30), Limit("ETSI", 20, rs, 6, 26),
          Limit("FCC", 20, rs, 44, 32), Limit("ETSI", 20, rs, 44, 30)} : rs \in {"CCK", "OFDM", "HT_2S"}}
  \cup {Limit("FCC", 40, "HT_2S", 8, 20), Limit("ETSI", 40, "HT_2S", 8, 24),
        Limit("FCC", 40, "HT_2S", 46, 18), Limit("ETSI", 40, "HT_2S", 46, 28),
        Limit("FCC", 20, "HT_1S", 44, 16), Limit("FCC", 40, "HT_1S", 46, 16),
        Limit("FCC", 80, "VHT_1S", 42, 22), Limit("ETSI", 80, "VHT_1S", 42, 14)}

Calibrated(base) ==
  [bw40_base |-> [g \in 0..13 |-> base + g], cck_base |-> [g \in 0..5 |-> base + 2], ofdm |-> 2,
   diff |-> (20 :> <<1, -1>>) @@ (40 :> <<0, -1>>) @@ (80 :> <<-2, 1>>)]

Chan(primary, width, above) ==
  [primary |-> primary, width |-> width, primary_freq |-> 5 * primary,
   center_freq |-> 5 * (primary + above)]

Everywhere(domain) == [b \in {"2G", "5G"} |-> domain]
Request(initiator, alpha2) == [initiator |-> initiator, alpha2 |-> alpha2]

(* What rtw8812a_bb_pg has for these rates, in both bands (BoardSound).     *)
PgRates ==
  (<<"CCK", 0>> :> 40) @@ (<<"CCK", 3>> :> 34) @@ (<<"OFDM", 7>> :> 30) @@ (<<"HT_2S", 7>> :> 26)
  @@ (<<"VHT_1S", 7>> :> 28) @@ (<<"VHT_1S", 9>> :> 24)
PgPower == [b \in {"2G", "5G"} |-> PgRates]
EfusePower ==
  [path \in {"A", "B"} |-> [b \in {"2G", "5G"} |-> Calibrated(IF path = "A" THEN 42 ELSE 40)]]
Countries ==
  ("00" :> Everywhere("WW")) @@ ("US" :> Everywhere("FCC")) @@ ("AU" :> Everywhere("ACMA"))
Swings == [b \in {"2G", "5G"} |-> IF b = "2G" THEN 18 ELSE 12]
BriefTable == {Limit("FCC", 20, "OFDM", 6, 30)}
SomeTables == {FullTable, {e \in FullTable : e.regd = "FCC"}, BriefTable}
SomeChandefs == {Chan(6, 20, 0), Chan(6, 40, 2), Chan(44, 80, -2), Chan(44, 20, 0)}
SomeRequests ==
  {Request("USER", "US"), Request("USER", "00"), Request("COUNTRY_IE", "AU"),
   Request("DRIVER", "US")}
SomeSars == {0 :> 40, (0 :> -60) @@ (1 :> 30)}
SomeDeltas == {0, 14, -12}

(* The third beacon is so long that it takes two pages.                    *)
Rs == INSTANCE RsvdPages WITH
  Beacons <- {"a", "b", "c"}, LEN <- [b \in {"a", "b", "c"} |-> IF b = "c" THEN 480 ELSE 300],
  PAGE_SIZE <- 512, DESC_SZ <- 40, DRV_PAGES <- 9, MAX_EVENTS <- 5, MAX_FAULTS <- 1

Td == INSTANCE TxDesc

(* Peers of CCK only, set to the lowest OFDM rates only, of HT with two    *)
(* streams and with one, of VHT; a user that asks for the lowest rates.    *)
Cap(kind, legacy, mcs, bw) == [kind |-> kind, legacy |-> legacy, mcs |-> mcs, bw |-> bw]
SomeCaps == {Cap("legacy", 0..3, {}, 20), Cap("legacy", 4..6, {}, 20),
             Cap("HT", {0, 4, 5, 6, 8, 10}, 0..15, 20), Cap("HT", 4..11, 0..7, 40),
             Cap("VHT", 4..11, <<9, 7, -1, -1>>, 80)}
SomeMasks == {[b \in {"2G", "5G"} |-> [legacy |-> {4}, ht |-> {12}, vht |-> {12}]]}

(* Every front end, with one path and two, of cut C and another.           *)
SomeBoards ==
  {[cut_c |-> c, paths |-> paths, rfe |-> rfe, btcoex |-> rfe = 1, ext_lna |-> FALSE, afe |-> c] :
     c \in BOOLEAN, paths \in {{"A"}, {"A", "B"}}, rfe \in 0..3}
Tuning(channel, bw, idx) == [channel |-> channel, bw |-> bw, idx |-> idx]
SomeTunings == {Tuning(6, 20, 0), Tuning(13, 20, 0), Tuning(11, 40, 1), Tuning(44, 20, 0),
                Tuning(54, 40, 2), Tuning(106, 80, 3), Tuning(155, 80, 4)}

SomeBases == {[A |-> <<512, 0>>, B |-> <<700, 0>>], [A |-> <<480, 40>>, B |-> <<480, -40>>]}
SomeOffsets == [n \in 0..9 |-> IF n = 0 THEN {<<0, 0>>} ELSE {<<4 * n, 0>>, <<2, -1>>}]

(* Packets in both forms: an external front end with amplifiers of kind 5, *)
(* one that has a bit of a pair only, options that are a front end or the  *)
(* amplifiers', a Bluetooth board, data that looks like a header, none, a  *)
(* word that says nothing and a block that does not exist.                 *)
Packet(blk, words) == [blk |-> blk, words |-> words]
EfusePackets ==
  {Packet(23, (2 :> <<51, 136>>) @@ (3 :> <<255, 217>>)), Packet(23, (2 :> <<16, 255>>)),
   Packet(23, (3 :> <<0, 8>>)), Packet(25, 1 :> <<132, 0>>), Packet(25, 1 :> <<4, 255>>),
   Packet(24, 0 :> <<255, 33>>), Packet(0, 3 :> <<15, 14>>), Packet(1, <<>>),
   Packet(2, (0 :> <<255, 255>>)), Packet(64, 0 :> <<0, 0>>)}
Otp(bytes) == [a \in 1018..1021 |-> bytes[1022 - a]]
SomeOtps == {Otp(<<0, 0, 32, 0>>), Otp(<<8, 0, 0, 4>>), Otp(<<12, 0, 64, 0>>)}

Ef == INSTANCE Efuse WITH
  PHYSICAL <- 14, LOGICAL <- 512, RFE_DEFS <- 4, Packets <- EfusePackets, MAX_PACKETS <- 3,
  Otps <- SomeOtps, Beyond <- {0, 15, 255}

(* Boards by their amplifiers, of kind 0 and the kinds that tables ask for. *)
TableBoards ==
  {[ext |-> ext, btcoex |-> bt, intf |-> intf,
    type |-> [a \in Pt!AMPLIFIERS |-> IF a \in ext \cap {"lna_2g", "pa_5g"} THEN kind ELSE 0]] :
     ext \in SUBSET Pt!AMPLIFIERS, bt \in BOOLEAN, intf \in {"usb", "pcie"}, kind \in {0, 5}}

Rx == INSTANCE RxStatus

(* One initial state of each part for the tracks of the others.            *)
Plain ==
  /\ track # "power" => limits = BriefTable /\ regd.country_code = "00"
  /\ track = "power" /\ regd.country_code = "US" => limits = FullTable
  /\ track # "coex" => rtwdev.share_ant /\ rtwdev.band = "5G"
  /\ track # "rates" => oper = "2G"
  /\ track # "start" => ~mac /\ reg[Ps!APS] = {3}
  /\ track # "efuse" => otp = Otp(<<12, 0, 64, 0>>)
  /\ track # "channel" => board.cut_c /\ board.paths = {"A"} /\ board.rfe = 0

Init == /\ track \in {"coex", "cases", "dig", "cck", "power", "firmware", "rsvd", "txq",
                    "frames", "rates", "start", "channel", "iqk", "efuse", "tables", "received"}
        /\ Cx!Init /\ question = {} /\ Dg!Init /\ Pd!Init /\ Pw!Init /\ FirmwareInit /\ Rs!Init
        /\ Tq!Init /\ Ra!Init /\ Ps!Init /\ Ch!Init /\ Iq!Init /\ Ef!Init
        /\ Plain

----------------------------------------------------------------------------
(* A question to the decisions of Coex: every report of Bluetooth, the     *)
(* antenna, the traffic and the association in every combination, and of   *)
(* everything else at most one.                                            *)
Flags == {"CONNECTION", "SCO_ESCO", "INQ_PAGE", "ACL_BUSY", "SCO_BUSY", "HID", "A2DP", "FTP"}
Always == {"share_ant", "gl_busy", "connected"}
Rare == {"under_5g", "bt_disabled", "under_lps", "whck", "setup_link", "linkscan",
         "multi_link", "hid_pair", "hid_pairs", "rssi_high", "lo_pri", "ble_scan",
         "hi_pri_task1", "hi_pri_task2", "page", "slave", "multi_link_remain",
         "slow_rate", "ble", "many_aps", "a2dp_active", "hid_418", "ble_hid", "noisy",
         "connecting", "a2dp_sink"}

Question(lb2, set) ==
  [k \in Always \cup Rare \cup {"status", "profiles", "inq_page"} |->
     CASE k = "status" -> Cx!BtStatus(lb2)
       [] k = "profiles" -> Cx!BtProfiles(lb2)
       [] k = "inq_page" -> "INQ_PAGE" \in lb2
       [] OTHER -> k \in set]

Ask == /\ question = {}
       /\ \E lb2 \in SUBSET Flags, set \in SUBSET Always, rare \in {{}} \cup {{r} : r \in Rare} :
            question' = {Question(lb2, set \cup rare)}

(* Every kind of frame that mac80211 hands to the driver, in every world.  *)
Sta(ht, vht, map, cck_only) ==
  [ht |-> ht, vht |-> vht, two_streams |-> TRUE, map |-> map, cck_only |-> cck_only]

Peers == {Sta(TRUE, TRUE, <<9>>, FALSE), Sta(TRUE, FALSE, <<>>, FALSE),
          Sta(FALSE, FALSE, <<>>, TRUE)}

Frames ==
  {f \in [type : {"mgmt", "ctl", "nullfunc", "data"}, bmc : BOOLEAN,
          vif : {"STATION", "AP", "MESH_POINT"}, has_sta : BOOLEAN, priority : {0, 6},
          eapol : BOOLEAN, ampdu : BOOLEAN, long : BOOLEAN, status : BOOLEAN] :
     /\ f.type # "data" => ~f.eapol /\ ~f.ampdu
     /\ f.bmc => ~f.has_sta /\ ~f.eapol /\ ~f.ampdu}

Worlds == [band : {"2G", "5G"}, fix_rate : {"none", "MCS3"}, basic : {"none", "24M"},
           force_lowest : BOOLEAN, nss : {1, 2}]

AskFrame ==
       /\ question = {}
       /\ \E f \in Frames, sta \in Peers, w \in Worlds :
            question' = {<<[type |-> f.type, bmc |-> f.bmc, vif |-> f.vif, priority |-> f.priority,
                        eapol |-> f.eapol, ampdu |-> f.ampdu, long |-> f.long,
                        status |-> f.status, key |-> IF f.bmc THEN "TKIP" ELSE "CCMP",
                        has_sta |-> f.has_sta, sta |-> sta], w>>}

(* Every frame that a descriptor can be of, from an access point, a        *)
(* neighbour and a stranger, with two interfaces of which one serves a BSS.*)
SomeVifs == {[addr |-> "sta", bssid |-> "ap", stas |-> {"ap"}],
             [addr |-> "own", bssid |-> "own", stas |-> {"peer"}]}

AskReceived ==
  /\ question = {}
  /\ \E b \in {"2G", "5G"}, paths \in {1, 2}, bad \in {{}, {"crc"}, {"icv"}},
       kind \in {"data", "beacon", "ctl"}, route \in {<<"ap", "sta">>, <<"peer", "own">>, <<"ap", "all">>,
       <<"ap", "own">>, <<"peer", "sta">>}, bssid \in {"ap", "own"}, phy_status \in BOOLEAN :
     \E rate \in IF route = <<"ap", "sta">> /\ kind = "data" THEN 0..127 ELSE {2, 50} :
       question' = {<<[rate |-> rate, bw |-> 40, crc_err |-> "crc" \in bad, icv_err |-> "icv" \in bad,
                     phy_status |-> phy_status, swdec |-> FALSE, enc |-> TRUE, kind |-> kind,
                     from |-> route[1], to |-> route[2], bssid |-> bssid],
                   [band |-> b, paths |-> paths, vifs |-> SomeVifs]>>}

Keep(t) ==
  /\ IF t = "coex" THEN TRUE ELSE UNCHANGED coex_vars
  /\ IF t = "question" THEN TRUE ELSE UNCHANGED question
  /\ IF t = "dig" THEN TRUE ELSE UNCHANGED dig_vars
  /\ IF t = "cck" THEN TRUE ELSE UNCHANGED cck_vars
  /\ IF t = "power" THEN TRUE ELSE UNCHANGED power_vars
  /\ IF t = "firmware" THEN TRUE ELSE UNCHANGED fw_vars
  /\ IF t = "rsvd" THEN TRUE ELSE UNCHANGED rsvd_vars
  /\ IF t = "txq" THEN TRUE ELSE UNCHANGED txq_vars
  /\ IF t = "rates" THEN TRUE ELSE UNCHANGED rates_vars
  /\ IF t = "start" THEN TRUE ELSE UNCHANGED start_vars
  /\ IF t = "channel" THEN TRUE ELSE UNCHANGED channel_vars
  /\ IF t = "iqk" THEN TRUE ELSE UNCHANGED iqk_vars
  /\ IF t = "efuse" THEN TRUE ELSE UNCHANGED efuse_vars
  /\ UNCHANGED track

Next ==
  \/ track = "coex" /\ Cx!Next /\ Keep("coex")
  \/ track = "cases" /\ Ask /\ Keep("question")
  \/ track = "dig" /\ Dg!Next /\ Keep("dig")
  \/ track = "cck" /\ Pd!Next /\ Keep("cck")
  \/ track = "power" /\ Pw!Next /\ Keep("power")
  \/ track = "firmware" /\ FirmwareNext /\ Keep("firmware")
  \/ track = "rsvd" /\ Rs!Next /\ Keep("rsvd")
  \/ track = "txq" /\ Tq!Next /\ Keep("txq")
  \/ track = "frames" /\ AskFrame /\ Keep("question")
  \/ track = "rates" /\ Ra!Next /\ Keep("rates")
  \/ track = "start" /\ Ps!Next /\ Keep("start")
  \/ track = "channel" /\ Ch!Next /\ Keep("channel")
  \/ track = "iqk" /\ Iq!Next /\ Keep("iqk")
  \/ track = "efuse" /\ Ef!Next /\ Keep("efuse")
  \/ track = "received" /\ AskReceived /\ Keep("question")

vars == <<track, coex_vars, question, dig_vars, cck_vars, power_vars, fw_vars, rsvd_vars,
          txq_vars, rates_vars, start_vars, channel_vars, iqk_vars, efuse_vars>>

Spec == Init /\ [][Next]_vars

----------------------------------------------------------------------------
(* SAR holds however low it is (sar.c:96), which is not so.                *)
SarHeld == track = "power" => Pw!SarHeld

(* What the probe takes from the efuse is what was programmed last, and one *)
(* front end for the option and the tables (efuse.c:42, main.c:2158); of    *)
(* the tables a board takes the branch that is meant for it, and every      *)
(* rate's power (phy.c:1196, phy.c:1256).                                   *)
BoardSound ==
  /\ track = "efuse" =>
       Ef!LogReplayed /\ Ef!NeverRefused /\ Ef!AmplifiersAgree /\ Ef!Released
  /\ track = "tables" =>
       /\ Pt!TablesRead(Pt!ChipBlocks, TableBoards)
       /\ \A b \in {"2G", "5G"} :
            Pt!PowersComplete(Pt!BbPg(b), b) /\ Pt!PowersComplete(Pt!BbPgRfe3(b), b)
       /\ \A rate \in SomeRates : PgRates[rate] = Pt!ByRate(Pt!BbPg("2G"), rate)

(* What the driver answers: a decision of the coexistence is one that the  *)
(* antennas can do (coex.c:148); a frame's queue is served by an endpoint  *)
(* and pages, group addressed frames keep their place and handshakes their *)
(* rate (usb.c:684, tx.c:429); the firmware finds at each location of its  *)
(* reserved pages a frame of that kind, and the chip's beacon is           *)
(* mac80211's (fw.c:1625, fw.c:1758); mac80211 accepts what it is told of  *)
(* a frame, and a peer's signal is its own (rx.c:205, rx.c:104).           *)
AnswersSound ==
  /\ track = "cases" => \A q \in question : Cx!DecisionSound(q)
  /\ track = "frames" =>
       /\ question = {} => Td!QueuesServed(Td!Fifo(256, 9))
       /\ \A q \in question : Td!GroupDelivery(q[1], q[2]) /\ Td!HandshakeRobust(q[1], q[2])
  /\ track = "rsvd" => Rs!PagesTrue /\ Rs!BeaconFresh
  /\ track = "received" =>
       /\ question = {} =>
            /\ Rx!RatesTold("2G", 0..83) /\ Rx!RatesTold("5G", 4..83)
            /\ \A paths \in {1, 2} : Rx!AveragesApart(0..83, paths)
       /\ \A q \in question : Rx!Reportable(q[1], q[2]) /\ Rx!SignalOwn(q[1], q[2])

============================================================================
