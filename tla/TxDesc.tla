------------------------------- MODULE TxDesc -------------------------------
(***************************************************************************)
(* Where a frame goes and how it is sent: what the descriptor says of it   *)
(* (tx.c), the queue of the chip it is for and the bulk endpoint that      *)
(* leads there (usb.c), and how the chip's buffer and its DMA channels are *)
(* divided among the queues (mac.c, rtw8812a.c).                           *)
(*                                                                         *)
(* A frame f is a record: type ("mgmt", "ctl", "nullfunc" or "data"), bmc  *)
(* (group addressed), vif, has_sta and sta, priority, eapol, ampdu, status *)
(* (a TX status is requested), key, long; a station's fields are ht, vht,  *)
(* two_streams, map (its VHT limit by stream), cck_only.  The world w is    *)
(* band, fix_rate (or "none"), basic ("none" or a rate), force_lowest, nss.*)
(***************************************************************************)
EXTENDS Integers, Sequences, FiniteSets

(* enum rtw_tx_desc_queue_select; TIDs 8 to 15 lead nowhere.               *)
Tids == 0 .. 7
BEACON == 16
HIGH == 17
MGMT == 18
H2C == 19
Qsels == Tids \cup {BEACON, HIGH, MGMT, H2C}

----------------------------------------------------------------------------
(* rqpn_table_8812a and page_table_8812a, for the numbers of bulk out      *)
(* endpoints with which the chip can be started; rtw_usb_parse takes one,  *)
(* too, and rtw88xxau_init_queue_priority then refuses.                    *)
Bulkouts == 2 .. 4

Rqpn == [n \in Bulkouts |->
  CASE n = 2 -> [vo |-> "H", vi |-> "H", be |-> "N", bk |-> "N", mg |-> "H", hi |-> "H"]
    [] n = 3 -> [vo |-> "H", vi |-> "N", be |-> "L", bk |-> "L", mg |-> "H", hi |-> "H"]
    [] n = 4 -> [vo |-> "N", vi |-> "N", be |-> "L", bk |-> "L", mg |-> "X", hi |-> "H"]]

PageTable == [n \in Bulkouts |->
  [hq |-> 16, nq |-> 0, lq |-> IF n = 2 THEN 0 ELSE 16, exq |-> 0, gapq |-> 1]]

(* rtw_usb_parse: a queue's endpoint is that of its DMA channel.           *)
DmaMappingToEp(dma) == CASE dma = "H" -> 0 [] dma = "N" -> 1 [] dma = "L" -> 2 [] dma = "X" -> 3

AcOfTid(tid) ==
  CASE tid \in {0, 3} -> "be" [] tid \in {1, 2} -> "bk"
    [] tid \in {4, 5} -> "vi" [] tid \in {6, 7} -> "vo"

DmaOfQsel(q, n) ==
  CASE q \in Tids -> Rqpn[n][AcOfTid(q)]
    [] q = MGMT -> Rqpn[n].mg
    [] q \in {BEACON, HIGH, H2C} -> Rqpn[n].hi

QselToEp(q, n) == DmaMappingToEp(DmaOfQsel(q, n))

(* rtw_usb_tx_queue_mapping_to_qsel                                        *)
QselAlwaysHigh(f) ==
  CASE f.type \in {"mgmt", "ctl"} -> MGMT [] f.bmc -> HIGH [] OTHER -> f.priority

Qsel(f) ==
  CASE f.type \in {"mgmt", "ctl"} -> MGMT
    [] f.type \notin {"mgmt", "ctl"} /\ f.bmc ->
         IF f.vif = "MESH_POINT" THEN f.priority ELSE HIGH
    [] OTHER -> f.priority

(* rtw_set_trx_fifo_info and rtw88xxau_init_queue_reserved_page: the       *)
(* driver's reserved pages at the end, the rest shared out, and what       *)
(* remains for everybody.                                                  *)
Fifo(txff, rsvd) == [txff |-> txff, rsvd |-> rsvd, boundary |-> txff - rsvd]
PubqNum(fifo, n) ==
  LET t == PageTable[n] IN fifo.boundary - t.hq - t.lq - t.nq - t.exq - t.gapq

(* rtw88xxa_llt_init: the link list of pages                               *)
Llt(boundary) ==
  [i \in 0 .. 255 |-> CASE i = boundary - 1 -> 255 [] i = 255 -> boundary [] OTHER -> i + 1]

(* rtw_mac_flush_queues: the DMA channels whose queues are waited for.     *)
Flushed(acs, n) ==
  IF acs = {"vo", "vi", "be", "bk"} THEN {"X", "L", "N", "H"}
  ELSE {Rqpn[n][ac] : ac \in acs}

----------------------------------------------------------------------------
(* rtw_tx_pkt_info_update_rate and rtw_get_mgmt_rate                       *)
LowRate(f, w, ignore_rate) ==
  LET lowest == IF w.band = "2G" THEN "1M" ELSE "6M"
  IN  [rate |-> IF f.vif = "none" \/ w.basic = "none" \/ ignore_rate \/ w.force_lowest
                THEN lowest ELSE w.basic,
       rate_id |-> IF w.band = "2G" THEN "B_20M" ELSE "G",
       use_rate |-> TRUE, dis_rate_fallback |-> TRUE]

SecType(f) ==
  CASE f.key \in {"WEP40", "WEP104", "TKIP"} -> 1 [] f.key = "CCMP" -> 3 [] OTHER -> 0

(* get_highest_vht_tx_rate: the limit of the last stream the chip has.  A  *)
(* station with fewer counts as one without a limit.                       *)
HighestVht(sta, w) ==
  <<"VHT", w.nss, IF Len(sta.map) < w.nss THEN 9 ELSE sta.map[w.nss]>>

HighestRate(sta, w) ==
  CASE sta.vht -> HighestVht(sta, w)
    [] ~sta.vht /\ sta.ht -> IF sta.two_streams /\ w.nss = 2 THEN "MCS15" ELSE "MCS7"
    [] OTHER -> IF sta.cck_only THEN "11M" ELSE "54M"

(* rtw_tx_data_pkt_info_update: the firmware's choice, from the highest    *)
(* rate down, but for keys on their way and what debugfs has fixed.        *)
DataInfo(f, w) ==
  LET chosen == [rate |-> IF ~f.has_sta THEN "6M" ELSE HighestRate(f.sta, w),
                 rate_id |-> IF ~f.has_sta THEN "G" ELSE "of the station",
                 use_rate |-> FALSE, dis_rate_fallback |-> FALSE]
      safe == IF f.eapol THEN LowRate(f, w, TRUE) ELSE chosen
  IN  IF w.fix_rate = "none" THEN safe
      ELSE [safe EXCEPT !.rate = w.fix_rate, !.use_rate = TRUE, !.dis_rate_fallback = TRUE]

(* rtw_tx_pkt_info_update: management and null frames by                   *)
(* rtw_tx_mgmt_pkt_info_update; a control frame has the zeroes the record  *)
(* starts with.                                                            *)
PktInfo(f, w) ==
  LET managed == f.type \in {"mgmt", "nullfunc"}
      with_sta == f.type = "data" /\ f.has_sta
  IN  [rates |-> CASE managed -> LowRate(f, w, FALSE)
                   [] f.type = "data" -> DataInfo(f, w)
                   [] OTHER -> [rate |-> "1M", rate_id |-> "zero", use_rate |-> FALSE,
                                dis_rate_fallback |-> FALSE],
       en_hwseq |-> managed, ampdu_en |-> with_sta /\ f.ampdu, rts |-> with_sta /\ f.long,
       report |-> f.status, sec_type |-> SecType(f), bmc |-> f.bmc]

(* rtw_tx_fill_tx_desc, of the queue rtw_usb_tx_write finds                *)
Descriptor(f, w) ==
  [info |-> PktInfo(f, w), qsel |-> Qsel(f), more_data |-> Qsel(f) = HIGH]

----------------------------------------------------------------------------
(* Every queue has an endpoint the device has, which carries the channel   *)
(* that a flush of the frame's access category waits for (usb.c:351,       *)
(* mac.c:1018); there are pages to draw on (rtw88xxa.c:451), linked in one *)
(* list that leads through all of them to its end mark, and those reserved *)
(* in a ring of their own (rtw88xxa.c:402).                                *)
QueuesServed(fifo) ==
  \A n \in Bulkouts :
    /\ \A q \in Qsels : QselToEp(q, n) \in 0 .. n - 1
    /\ \A tid \in Tids :
         \A acs \in SUBSET {"vo", "vi", "be", "bk"} :
           AcOfTid(tid) \in acs => DmaOfQsel(tid, n) \in Flushed(acs, n)
    /\ PubqNum(fifo, n) > 0
    /\ LET llt == Llt(fifo.boundary)
           free == 0 .. fifo.boundary - 1
       IN  /\ {llt[i] : i \in free} = (free \ {0}) \cup {255} /\ \A i \in free : llt[i] > i
           /\ {llt[i] : i \in fifo.boundary .. 255} = fifo.boundary .. 255
           /\ 256 - fifo.boundary = fifo.rsvd

(* Group addressed data of a mesh takes the queue of its priority, in turn *)
(* with what the same sender sends to one peer, and promises no more data; *)
(* that of an AP waits for the DTIM (usb.c:687).                           *)
GroupDelivery(f, w) ==
  LET desc == Descriptor(f, w)
      alone == Descriptor([f EXCEPT !.bmc = FALSE], w)
  IN  /\ (f.bmc /\ f.type = "data" /\ f.vif = "MESH_POINT") =>
           ~desc.more_data /\ \A n \in Bulkouts : QselToEp(desc.qsel, n) = QselToEp(alone.qsel, n)
      /\ (f.bmc /\ f.type = "data" /\ f.vif = "AP") => desc.qsel = HIGH
      /\ desc.info.bmc => ~desc.info.ampdu_en

(* The keys of a handshake go at the most robust rate, whatever rate the   *)
(* interface is set to (tx.c:429).  Whether their queue is aggregated is   *)
(* another question (tx.c:619), which this leaves open.                    *)
HandshakeRobust(f, w) ==
  (f.type = "data" /\ f.eapol /\ w.fix_rate = "none") =>
    LET r == Descriptor(f, w).info.rates IN r.use_rate /\ r.rate = (IF w.band = "2G" THEN "1M" ELSE "6M")

============================================================================
