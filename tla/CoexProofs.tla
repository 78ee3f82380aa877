----------------------------- MODULE CoexProofs -----------------------------
(***************************************************************************)
(* Coexistence with Bluetooth (Coex, CoexCases), for any reports of        *)
(* Bluetooth and any number of events, and the power that is sent with     *)
(* (TxPower), for any tables of limits, boards, efuses and temperatures.   *)
(*                                                                         *)
(* The decisions: for every situation, without bound, the table and the    *)
(* TDMA case are ones that the device's antennas can do.                   *)
(*                                                                         *)
(* The machine: CoexInv says of the device (Good) that each passing        *)
(* condition keeps the work that ends it pending or executing (Settled),   *)
(* and that the decision in force is that of what is known (InForce), up   *)
(* to the two reports that do not take one (Supposing); and of each        *)
(* notification in the middle of a start or a scan what it leaves behind.  *)
(*                                                                         *)
(* The power: PowerInv says that the registers hold the index of the       *)
(* channel (OfdmWritten, HtWritten, CckWritten) and that swing and remnant *)
(* make up what the temperature asks for (Shifted, CckShifted).            *)
(***************************************************************************)
EXTENDS Chip, SequenceTheorems, WellFoundedInduction, NaturalsInduction, TLAPS

(***************************************************************************)
(* The decisions.                                                          *)
(***************************************************************************)

(* A decision for the antenna the device has, in the 2.4 GHz band.         *)
Apt(c, q) ==
  /\ (c.table >= 100 <=> ~q.share_ant) /\ (c.tdma >= 100 <=> ~q.share_ant)
  /\ c.slot4 => ~Cx!Off(c)
  /\ c.path = "2G"
Divides(c, q) == q.share_ant /\ q.gl_busy => ~Cx!Off(c)

LEMMA Decided ==
  ASSUME NEW t \in Nat, NEW n \in Nat
  PROVE  /\ Cx!Is(t, n).table = t /\ Cx!Is(t, n).tdma = n /\ Cx!Is(t, n).slot4 = FALSE
    /\ Cx!Is(t, n).path = "2G"
         /\ Cx!Is4(t, n).table = t /\ Cx!Is4(t, n).tdma = n /\ Cx!Is4(t, n).slot4 = TRUE
              /\ Cx!Is4(t, n).path = "2G"
  BY DEF Cx!Is, Cx!Is4

LEMMA RelinkApt ==
  ASSUME NEW q
  PROVE  Apt(Cx!Relink(q), q) /\ Divides(Cx!Relink(q), q)
  BY DEF Cx!Relink, Cx!Is, Cx!Is4, Apt, Divides, Cx!Off

LEMMA BtIdleApt ==
  ASSUME NEW q
  PROVE  Apt(Cx!BtIdle(q), q) /\ Divides(Cx!BtIdle(q), q)
  BY DEF Cx!BtIdle, Cx!Is, Cx!Is4, Apt, Divides, Cx!Off

LEMMA InquiryApt ==
  ASSUME NEW q
  PROVE  Apt(Cx!Inquiry(q), q) /\ Divides(Cx!Inquiry(q), q)
  BY DEF Cx!Inquiry, Cx!Is, Cx!Is4, Apt, Divides, Cx!Off

LEMMA HfpApt ==
  ASSUME NEW q
  PROVE  Apt(Cx!Hfp(q), q) /\ Divides(Cx!Hfp(q), q)
  BY DEF Cx!Hfp, Cx!Is, Cx!Is4, Apt, Divides, Cx!Off

LEMMA HidApt ==
  ASSUME NEW q
  PROVE  Apt(Cx!Hid(q), q)
  BY DEF Cx!Hid, Cx!Is, Cx!Is4, Apt, Divides, Cx!Off

LEMMA A2dpApt ==
  ASSUME NEW q
  PROVE  Apt(Cx!A2dp(q), q) /\ Divides(Cx!A2dp(q), q)
  BY DEF Cx!A2dp, Cx!Strong, Cx!Is, Cx!Is4, Apt, Divides, Cx!Off

LEMMA A2dpSinkApt ==
  ASSUME NEW q
  PROVE  Apt(Cx!A2dpSink(q), q) /\ Divides(Cx!A2dpSink(q), q)
  BY DEF Cx!A2dpSink, Cx!Is, Cx!Is4, Apt, Divides, Cx!Off

LEMMA PanApt ==
  ASSUME NEW q
  PROVE  Apt(Cx!Pan(q), q)
  BY DEF Cx!Pan, Cx!Busy, Cx!Is, Cx!Is4, Apt, Divides, Cx!Off

LEMMA A2dpPanApt ==
  ASSUME NEW q
  PROVE  Apt(Cx!A2dpPan(q), q) /\ Divides(Cx!A2dpPan(q), q)
  BY DEF Cx!A2dpPan, Cx!Busy, Cx!Is, Cx!Is4, Apt, Divides, Cx!Off

LEMMA PanHidApt ==
  ASSUME NEW q
  PROVE  Apt(Cx!PanHid(q), q)
  BY DEF Cx!PanHid, Cx!Busy, Cx!Is, Cx!Is4, Apt, Divides, Cx!Off

LEMMA A2dpPanHidApt ==
  ASSUME NEW q
  PROVE  Apt(Cx!A2dpPanHid(q), q) /\ Divides(Cx!A2dpPanHid(q), q)
  BY DEF Cx!A2dpPanHid, Cx!Busy, Cx!Is, Cx!Is4, Apt, Divides, Cx!Off

LEMMA A2dpHidApt ==
  ASSUME NEW q
  PROVE  Apt(Cx!A2dpHid(q), q) /\ Divides(Cx!A2dpHid(q), q)
  BY DEF Cx!A2dpHid, Cx!Strong, Cx!Is, Cx!Is4, Apt, Divides, Cx!Off

LEMMA WlOnlyApt ==
  ASSUME NEW q
  PROVE  Apt(Cx!WlOnly(q), q)
  BY DEF Cx!WlOnly, Cx!Is, Cx!Is4, Apt, Divides, Cx!Off

LEMMA NotConnectedApt ==
  ASSUME NEW q
  PROVE  Apt(Cx!NotConnected(q), q)
  BY DEF Cx!NotConnected, Cx!Is, Cx!Is4, Apt, Divides, Cx!Off

LEMMA NativeLpsApt ==
  ASSUME NEW q
  PROVE  Apt(Cx!NativeLps(q), q)
  BY DEF Cx!NativeLps, Cx!Is, Cx!Is4, Apt, Divides, Cx!Off

LEMMA LinkScanApt ==
  ASSUME NEW q
  PROVE  Apt(Cx!LinkScan(q), q) /\ Divides(Cx!LinkScan(q), q)
  BY DEF Cx!LinkScan, Cx!Is, Cx!Is4, Apt, Divides, Cx!Off

Sound(c, q) ==
  /\ (c.table >= 100 <=> ~q.share_ant) /\ (c.tdma >= 100 <=> ~q.share_ant)
  /\ c.slot4 => ~Cx!Off(c)
  /\ c.path = "2G" \/ (c.path = "2G_FREERUN" /\ ~q.share_ant /\ q.gl_busy)

Plays(q) == "A2DP" \in q.profiles \/ q.profiles = {"HFP"}

LEMMA WlConnectedSound ==
  ASSUME NEW q
  PROVE  /\ Sound(Cx!WlConnected(q), q)
         /\ Plays(q) => Divides(Cx!WlConnected(q), q)
<1> DEFINE a == Cx!Algorithm(q)
           free == a \in {"HID", "A2DP", "A2DP_HID"} /\ Cx!FreerunCheck(q)
           Right(c) == Sound(c, q) /\ (Plays(q) => Divides(c, q))
<1>1. \/ a = "HFP" \/ a = "PAN" \/ a = "A2DP_PAN" \/ a = "PAN_HID" \/ a = "A2DP_PAN_HID"
      \/ a = "NOPROFILE" \/ a = "HID" \/ a = "A2DP" \/ a = "A2DP_HID"
  <2>1. CASE q.profiles = {"HFP"}
    BY <2>1 DEF Cx!Algorithm
  <2>2. CASE q.profiles # {"HFP"} /\ "A2DP" \in q.profiles
    BY <2>2 DEF Cx!Algorithm
  <2>3. CASE q.profiles # {"HFP"} /\ "A2DP" \notin q.profiles /\ "PAN" \in q.profiles
    BY <2>3 DEF Cx!Algorithm
  <2>4. CASE q.profiles # {"HFP"} /\ "A2DP" \notin q.profiles /\ "PAN" \notin q.profiles
    BY <2>4 DEF Cx!Algorithm
  <2> QED
    BY <2>1, <2>2, <2>3, <2>4
<1>2. a \in {"HID", "PAN", "PAN_HID"} => ~Plays(q)
  <2>1. CASE q.profiles = {"HFP"}
    BY <2>1 DEF Cx!Algorithm
  <2>2. CASE q.profiles # {"HFP"} /\ "A2DP" \in q.profiles
    <3>1. a \in {"A2DP_HID", "A2DP_PAN_HID", "A2DP_PAN", "A2DP", "NOPROFILE"}
      BY <2>2 DEF Cx!Algorithm
    <3> QED
      BY <3>1
  <2> QED
    BY <2>1, <2>2 DEF Plays
<1>3. /\ a = "HFP" => Cx!WlConnected(q) = Cx!Hfp(q)
      /\ a = "PAN" => Cx!WlConnected(q) = Cx!Pan(q)
      /\ a = "A2DP_PAN" => Cx!WlConnected(q) = Cx!A2dpPan(q)
      /\ a = "PAN_HID" => Cx!WlConnected(q) = Cx!PanHid(q)
      /\ a = "A2DP_PAN_HID" => Cx!WlConnected(q) = Cx!A2dpPanHid(q)
      /\ a = "NOPROFILE" => Cx!WlConnected(q) = Cx!BtIdle(q)
      /\ free => Cx!WlConnected(q) = Cx!Freerun
      /\ a = "HID" /\ ~free => Cx!WlConnected(q) = Cx!Hid(q)
      /\ a = "A2DP" /\ ~free => Cx!WlConnected(q) \in {Cx!A2dp(q), Cx!A2dpSink(q)}
      /\ a = "A2DP_HID" /\ ~free => Cx!WlConnected(q) = Cx!A2dpHid(q)
  <2> HIDE DEF a
  <2>1. Cx!WlConnected(q) =
          CASE free -> Cx!Freerun
            [] a = "HFP" -> Cx!Hfp(q)
            [] a = "HID" /\ ~free -> Cx!Hid(q)
            [] a = "A2DP" /\ ~free -> IF q.a2dp_sink THEN Cx!A2dpSink(q) ELSE Cx!A2dp(q)
            [] a = "PAN" -> Cx!Pan(q)
            [] a = "A2DP_HID" /\ ~free -> Cx!A2dpHid(q)
            [] a = "A2DP_PAN" -> Cx!A2dpPan(q)
            [] a = "PAN_HID" -> Cx!PanHid(q)
            [] a = "A2DP_PAN_HID" -> Cx!A2dpPanHid(q)
            [] a = "NOPROFILE" -> Cx!BtIdle(q)
    BY Zenon DEF Cx!WlConnected, a
  <2> QED
    BY <2>1
<1> HIDE DEF a, free
<1>4. CASE free
  <2>1. ~q.share_ant /\ q.gl_busy
    BY <1>4 DEF free, Cx!FreerunCheck
  <2>2. Right(Cx!Freerun)
    BY <2>1 DEF Cx!Freerun, Cx!Is, Sound, Divides, Cx!Off
  <2> QED
    BY <1>3, <1>4, <2>2
<1>5. CASE ~free
  <2>1. \A c : Apt(c, q) => Sound(c, q)
    BY DEF Apt, Sound
  <2> QED
    BY <1>1, <1>2, <1>3, <1>5, <2>1, HfpApt, PanApt, A2dpPanApt, PanHidApt, A2dpPanHidApt,
         BtIdleApt,
       HidApt, A2dpApt, A2dpSinkApt, A2dpHidApt
<1> QED
  BY <1>4, <1>5

(* Every decision is one for the antenna, gives Bluetooth its time, and is *)
(* that of the band.                                                       *)
(* For every situation, whatever Bluetooth reported, the decision is one   *)
(* that the antennas can do, and a single antenna is not given to one side *)
(* for good while both are busy (coex.c:148, coex.c:2575).                 *)
THEOREM DecisionAlwaysSound ==
  ASSUME NEW q
  PROVE  Cx!DecisionSound(q)
<1> DEFINE c == Cx!Decision(q)
<1>1. CASE q.under_5g
  <2>1. c = Cx!Under5g(q)
    BY <1>1 DEF Cx!Decision
  <2> QED
    BY <1>1, <2>1 DEF Cx!DecisionSound, Cx!Under5g, Cx!Is, Cx!Off
<1>2. CASE ~q.under_5g
  <2>1. \/ c \in {Cx!WlOnly(q), Cx!NotConnected(q)}
          /\ (q.bt_disabled \/ q.whck \/ ~q.connected)
        \/ c = Cx!NativeLps(q) /\ q.under_lps
        \/ c \in {Cx!Relink(q), Cx!Inquiry(q), Cx!BtIdle(q), Cx!LinkScan(q)}
          /\ ~q.bt_disabled
        \/ c = Cx!WlConnected(q) /\ ~q.bt_disabled /\ q.connected
    BY <1>2 DEF Cx!Decision
  <2> HIDE DEF c
  <2>2. \A x : Apt(x, q) => Sound(x, q) /\ x.path = "2G"
    BY DEF Apt, Sound
  <2>3. Sound(c, q) /\ (c.path # "2G_FREERUN" \/ q.connected)
    BY <2>1, <2>2, WlOnlyApt, NotConnectedApt, NativeLpsApt, RelinkApt, InquiryApt,
         BtIdleApt,
       LinkScanApt, WlConnectedSound
  <2>4. q.bt_disabled => Cx!Off(c)
    <3>1. q.bt_disabled => c \in {Cx!WlOnly(q), Cx!NotConnected(q)}
      BY <1>2 DEF c, Cx!Decision
    <3> QED
      BY <3>1 DEF Cx!WlOnly, Cx!NotConnected, Cx!Is, Cx!Off
  <2>5. q.share_ant /\ q.connected /\ q.gl_busy /\ ~q.bt_disabled /\ ~q.under_lps
          /\ ~q.whck /\ Plays(q)
        => ~Cx!Off(c)
    BY <2>1, RelinkApt, InquiryApt, BtIdleApt, LinkScanApt, WlConnectedSound DEF Divides
  <2>6. (c.table >= 100 <=> ~q.share_ant) /\ (c.tdma >= 100 <=> ~q.share_ant)
          /\ (c.slot4 => ~Cx!Off(c))
    BY <2>3 DEF Sound
  <2>7. c.path # "5G" /\ (c.path = "2G_FREERUN" => ~q.share_ant /\ q.gl_busy /\ q.connected)
    BY <2>3 DEF Sound
  <2> QED
    BY <1>2, <2>4, <2>5, <2>6, <2>7 DEF Cx!DecisionSound, Plays, c
<1> QED
  BY <1>1, <1>2

----------------------------------------------------------------------------
(* The machine.                                                            *)
LEMMA DecisionPath ==
  ASSUME NEW q
  PROVE  Cx!Decision(q).path = "5G" <=> q.under_5g
  BY DecisionAlwaysSound DEF Cx!DecisionSound

CoexFields == {"setup_link", "inq_page", "inq_remain", "multi_remain", "reenable",
  "connecting",
  "hi_pri_task1", "hi_pri_task2", "gl_busy", "linkscan", "under_lps", "under_ips",
    "bt_disabled",
  "disable_cnt", "heard", "connected", "info", "path", "table", "tdma", "share_ant",
    "running",
  "freeze", "under_5g", "band", "scanning", "busy", "stations", "queue"}

(* What no decision touches. *)
Untouched == {"setup_link", "inq_page", "inq_remain", "multi_remain", "connecting",
  "hi_pri_task1",
  "hi_pri_task2", "under_lps", "under_ips", "heard", "info", "share_ant", "running",
    "freeze",
  "band", "scanning", "busy", "stations"}

CoexTypes(d) ==
  /\ d = [k \in CoexFields |-> d[k]]
  /\ d.bt_disabled \in BOOLEAN /\ d.multi_remain \in BOOLEAN

Same(d, e) == \A k \in Untouched : e[k] = d[k]

(* A passing condition has one of the works of C to end it.                *)
Settled(d, C) ==
  /\ d.setup_link => "relink" \in C
  /\ d.inq_page => d.inq_remain
  /\ d.inq_remain => d.inq_page \/ "bt_remain" \in C
  /\ d.multi_remain => "multi_remain" \in C
  /\ d.reenable => "reenable" \in C
  /\ d.connecting => "connecting" \in C
  /\ d.hi_pri_task1 => "defreeze" \in C
  /\ d.gl_busy /\ ~d.busy => "wl_remain" \in C

LEMMA Counted ==
  ASSUME NEW d, CoexTypes(d), NEW m, m = Cx!MonitorBtEnable(d)
  PROVE  /\ CoexTypes(m) /\ Same(d, m)
         /\ \A k \in {"path", "table", "tdma", "connected", "gl_busy", "linkscan",
              "under_5g"} : m[k] = d[k]
         /\ d.queue \subseteq m.queue
         /\ m.reenable => d.reenable \/ "reenable" \in m.queue
<1> DEFINE count == IF d.heard THEN 0 ELSE (d.disable_cnt + 1) % CNT_RANGE
           off == ~d.heard /\ count >= DISABLE_AFTER
<1> HIDE DEF count
<1>1. CASE off <=> d.bt_disabled
  <2>1. m = [d EXCEPT !.disable_cnt = count]
    BY <1>1 DEF Cx!MonitorBtEnable, count
  <2> QED
    BY <2>1 DEF CoexTypes, CoexFields, Same, Untouched
<1>2. CASE off /\ ~d.bt_disabled
  <2>1. m = [d EXCEPT !.disable_cnt = count, !.bt_disabled = TRUE, !.reenable = FALSE]
    BY <1>2 DEF Cx!MonitorBtEnable, count, CoexTypes, CoexFields
  <2> QED
    BY <2>1 DEF CoexTypes, CoexFields, Same, Untouched
<1>3. CASE ~off /\ d.bt_disabled
  <2>1. m = [d EXCEPT !.disable_cnt = count, !.bt_disabled = FALSE, !.reenable = TRUE,
                      !.queue = d.queue \cup {"reenable"}]
    BY <1>3 DEF Cx!MonitorBtEnable, count, Cx!Queue, CoexTypes, CoexFields
  <2> QED
    BY <2>1 DEF CoexTypes, CoexFields, Same, Untouched
<1> QED
  BY <1>1, <1>2, <1>3

LEMMA Linked ==
  ASSUME NEW d, CoexTypes(d), NEW reason, NEW u, u = Cx!UpdateWlLinkInfo(d, reason)
  PROVE  /\ CoexTypes(u) /\ Same(d, u)
         /\ u.reenable = d.reenable
         /\ d.queue \subseteq u.queue
         /\ u.gl_busy /\ ~u.busy => "wl_remain" \in u.queue
         /\ u.under_5g <=> (reason \in Cx!Reasons5G \/ (reason \notin Cx!Reasons2G
              /\ d.band = "5G"))
<1> DEFINE five == reason \in Cx!Reasons5G \/ (reason \notin Cx!Reasons2G /\ d.band = "5G")
           scan == d.scanning \/ reason \in Cx!Reasons2G
           v == [d EXCEPT !.connected = d.stations, !.gl_busy = d.gl_busy \/ d.busy,
                          !.linkscan = scan, !.under_5g = five]
<1>1. u = IF d.gl_busy /\ ~d.busy THEN Cx!Queue(v, "wl_remain") ELSE v
  BY Zenon DEF Cx!UpdateWlLinkInfo, five, scan
<1> HIDE DEF five, scan
<1>2. /\ CoexTypes(v) /\ Same(d, v) /\ v.reenable = d.reenable /\ v.queue = d.queue
      /\ v.gl_busy <=> (d.gl_busy \/ d.busy)
      /\ v.under_5g = five
  BY DEF CoexTypes, CoexFields, Same, Untouched
<1>3. v.busy = d.busy
  BY <1>2 DEF Same, Untouched
<1> HIDE DEF v
<1>4. CASE d.gl_busy /\ ~d.busy
  <2>1. u = [v EXCEPT !.queue = v.queue \cup {"wl_remain"}]
    BY <1>1, <1>4 DEF Cx!Queue
  <2>2. /\ CoexTypes(u) /\ Same(v, u) /\ u.reenable = v.reenable
             /\ u.queue = v.queue \cup {"wl_remain"}
        /\ u.under_5g = v.under_5g
    BY <1>2, <2>1 DEF CoexTypes, CoexFields, Same, Untouched
  <2>3. Same(d, u)
    BY <1>2, <2>2 DEF Same
  <2> QED
    <3>1. u.under_5g = five
      BY <1>2, <2>2, Zenon
    <3>2. u.under_5g <=> five
      BY <3>1, Zenon
    <3>3. d.queue \subseteq u.queue /\ "wl_remain" \in u.queue
      BY <1>2, <2>2
    <3> QED
      BY <1>2, <2>2, <2>3, <3>2, <3>3, Zenon DEF five
<1>5. CASE ~(d.gl_busy /\ ~d.busy)
  <2>1. u = v
    BY <1>1, <1>5, Zenon
  <2>2. u.under_5g <=> five
    BY <1>2, <2>1, Zenon
  <2>3. ~(u.gl_busy /\ ~u.busy)
    BY <1>2, <1>3, <1>5, <2>1
  <2>4. d.queue \subseteq u.queue
    BY <1>2, <2>1
  <2> QED
    BY <1>2, <2>1, <2>2, <2>3, <2>4, Zenon DEF five
<1> QED
  BY <1>4, <1>5

Relevant == {"share_ant", "under_5g", "bt_disabled", "connected", "under_lps", "setup_link",
  "inq_page", "linkscan", "gl_busy", "hi_pri_task1", "hi_pri_task2", "connecting", "info",
  "multi_remain"}

LEMMA SameKnown ==
  ASSUME NEW d, NEW e, CoexTypes(d), CoexTypes(e), \A k \in Relevant : e[k] = d[k]
  PROVE  Cx!Known(e) = Cx!Known(d)
<1>1. DOMAIN d = CoexFields /\ DOMAIN e = CoexFields
  BY DEF CoexTypes
<1>2. d.info = e.info /\ d.multi_remain = e.multi_remain
  BY DEF Relevant
<1>3. ASSUME NEW k \in {"share_ant", "under_5g", "bt_disabled", "connected", "under_lps",
        "setup_link",
                        "inq_page", "linkscan", "gl_busy", "hi_pri_task1", "hi_pri_task2",
                          "connecting"}
      PROVE  d[k] = e[k] /\ k \in CoexFields
  BY DEF Relevant, CoexFields
<1> HIDE DEF CoexFields
<1> QED
  BY <1>1, <1>2, <1>3 DEF Cx!Known

(* The decision in force is that of d, but for two facts.                  *)
Supposing(d, off, remain) ==
  [d EXCEPT !.bt_disabled = @ \/ off, !.multi_remain = @ \/ remain]
InForce(d, c) == d.table = c.table /\ d.tdma = c.tdma /\ d.path = c.path
Fresh(d) == \E off, remain \in BOOLEAN : InForce(d, Cx!Decision(Cx!Known(Supposing(d, off,
  remain))))

SupposedOf(s, d, off, remain) ==
  /\ CoexTypes(s) /\ \A k \in Relevant \ {"bt_disabled", "multi_remain"} : s[k] = d[k]
  /\ s.bt_disabled = (d.bt_disabled \/ off) /\ s.multi_remain = (d.multi_remain \/ remain)

LEMMA Supposed ==
  ASSUME NEW d, CoexTypes(d), NEW off \in BOOLEAN, NEW remain \in BOOLEAN
  PROVE  SupposedOf(Supposing(d, off, remain), d, off, remain)
  BY DEF CoexTypes, CoexFields, Supposing, Relevant, SupposedOf

(* It stays in force when Bluetooth is heard again or the work ends the    *)
(* remaining time of links.                                                *)
LEMMA FreshKept ==
  ASSUME NEW d, NEW e, CoexTypes(d), CoexTypes(e), Fresh(d),
         \A k \in (Relevant \ {"bt_disabled", "multi_remain"})
           \cup {"table", "tdma", "path"} : e[k] = d[k],
         e.bt_disabled => d.bt_disabled, e.multi_remain => d.multi_remain
  PROVE  Fresh(e)
<1>1. PICK off \in BOOLEAN, remain \in BOOLEAN :
             InForce(d, Cx!Decision(Cx!Known(Supposing(d, off, remain))))
  BY DEF Fresh
<1> DEFINE o == d.bt_disabled \/ off
           r == d.multi_remain \/ remain
           f == Supposing(d, off, remain)
           g == Supposing(e, o, r)
<1>2. o \in BOOLEAN /\ r \in BOOLEAN
  OBVIOUS
<1>3. /\ CoexTypes(f) /\ \A k \in Relevant \ {"bt_disabled", "multi_remain"} : f[k] = d[k]
      /\ f.bt_disabled = o /\ f.multi_remain = r
  <2>1. SupposedOf(f, d, off, remain)
    BY Supposed, Zenon
  <2> HIDE DEF f
  <2> QED
    BY <2>1, Zenon DEF SupposedOf
<1>4. /\ CoexTypes(g) /\ \A k \in Relevant \ {"bt_disabled", "multi_remain"} : g[k] = e[k]
      /\ g.bt_disabled = (e.bt_disabled \/ o) /\ g.multi_remain = (e.multi_remain \/ r)
  <2> HIDE DEF o, r
  <2> QED
    <3>1. SupposedOf(g, e, o, r)
      BY <1>2, Supposed, Zenon
    <3> HIDE DEF g
    <3> QED
      BY <3>1, Zenon DEF SupposedOf
<1>5. (e.bt_disabled \/ o) <=> o
  BY DEF CoexTypes
<1>6. (e.multi_remain \/ r) <=> r
  BY DEF CoexTypes
<1>7. g.bt_disabled = f.bt_disabled /\ g.multi_remain = f.multi_remain
  <2> HIDE DEF f, g, o, r
  <2>1. (e.bt_disabled \/ o) = o /\ (e.multi_remain \/ r) = r
    BY <1>2, <1>5, <1>6
  <2> QED
    BY <1>3, <1>4, <2>1, Zenon
<1>8. \A k \in Relevant : g[k] = f[k]
  <2> HIDE DEF f, g
  <2> QED
    BY <1>3, <1>4, <1>7 DEF Relevant
<1>9. Cx!Known(g) = Cx!Known(f)
  <2> HIDE DEF f, g
  <2> QED
    BY <1>3, <1>4, <1>8, SameKnown, Zenon
<1>10. InForce(e, Cx!Decision(Cx!Known(g)))
  <2>1. e.table = d.table /\ e.tdma = d.tdma /\ e.path = d.path
    OBVIOUS
  <2> HIDE DEF f, g
  <2>2. InForce(d, Cx!Decision(Cx!Known(f)))
    BY <1>1 DEF f
  <2> QED
    BY <1>9, <2>1, <2>2, Zenon DEF InForce
<1> HIDE DEF o, r
<1> QED
  BY <1>2, <1>10, Zenon DEF Fresh

(* Whether a decision binds, and the band it must be one for.              *)
Binds(d) == d.running /\ ~d.under_ips /\ ~d.freeze
RightBand(d) == d.path = "5G" <=> d.band = "5G"
Up(d, C) ==
  /\ CoexTypes(d)
  /\ d.running => Settled(d, C \cup d.queue)
  /\ d.hi_pri_task2 => d.scanning \/ ~d.running
Agrees(d) == Binds(d) => Fresh(d) /\ (~d.scanning => RightBand(d))
Good(d, C) == Up(d, C) /\ Agrees(d)

Fits(reason, on) ==
  /\ reason \in Cx!Reasons5G => on = "5G"
  /\ reason \in Cx!Reasons2G => on # "5G"

(* A run of the decisions settles what they touch and leaves a decision    *)
(* that is fresh; it is for the band unless the reason is of another one.  *)
LEMMA RunCoexGood ==
  ASSUME NEW d, CoexTypes(d), NEW reason, NEW C, NEW r, r = Cx!RunCoex(d, reason),
         d.running => Settled(d, C \cup d.queue)
  PROVE  /\ CoexTypes(r) /\ Same(d, r)
         /\ d.queue \subseteq r.queue
         /\ r.running => Settled(r, C \cup r.queue)
         /\ Binds(r) => Fresh(r)
         /\ Fits(reason, d.band) /\ Binds(r) => RightBand(r)
         /\ r.running /\ r.gl_busy /\ ~r.busy => "wl_remain" \in r.queue
<1> DEFINE u == Cx!UpdateWlLinkInfo(d, reason)
           m == Cx!MonitorBtEnable(u)
           c == Cx!Decision(Cx!Known(m))
<1>1. /\ CoexTypes(u) /\ Same(d, u) /\ u.reenable = d.reenable /\ d.queue \subseteq u.queue
      /\ u.gl_busy /\ ~u.busy => "wl_remain" \in u.queue
      /\ u.under_5g <=> (reason \in Cx!Reasons5G \/ (reason \notin Cx!Reasons2G
           /\ d.band = "5G"))
  BY Linked, Zenon
<1>2. /\ CoexTypes(m) /\ Same(u, m)
      /\ \A k \in {"path", "table", "tdma", "connected", "gl_busy", "linkscan",
           "under_5g"} : m[k] = u[k]
      /\ u.queue \subseteq m.queue
      /\ m.reenable => u.reenable \/ "reenable" \in m.queue
  <2> HIDE DEF u
  <2> QED
    BY <1>1, Counted, Zenon
<1>3. r = CASE ~d.running -> d
            [] d.running /\ (m.under_ips \/ (m.freeze /\ reason = "BTINFO"
              /\ ~m.setup_link)) -> m
            [] OTHER -> [m EXCEPT !.path = c.path, !.table = c.table, !.tdma = c.tdma]
  BY Zenon DEF Cx!RunCoex
<1> HIDE DEF u, m
<1>4. Same(d, m) /\ d.queue \subseteq m.queue
  BY <1>1, <1>2 DEF Same
<1>5. d.running => Settled(m, C \cup m.queue)
  BY <1>1, <1>2, <1>4 DEF Settled, Same, Untouched
<1>6. m.under_5g <=> (reason \in Cx!Reasons5G \/ (reason \notin Cx!Reasons2G
        /\ d.band = "5G"))
  BY <1>1, <1>2
<1>10. m.gl_busy /\ ~m.busy => "wl_remain" \in m.queue
  BY <1>1, <1>2 DEF Same, Untouched
<1>7. CASE ~d.running
  <2>1. r = d
    BY <1>3, <1>7
  <2> QED
    BY <1>7, <2>1 DEF Same, Binds
<1>8. CASE d.running /\ (m.under_ips \/ (m.freeze /\ reason = "BTINFO" /\ ~m.setup_link))
  <2>1. r = m
    BY <1>3, <1>8
  <2>2. ~Binds(r)
    BY <1>8, <2>1 DEF Binds
  <2> QED
    BY <1>2, <1>4, <1>5, <1>8, <1>10, <2>1, <2>2
<1>9. CASE d.running /\ ~(m.under_ips \/ (m.freeze /\ reason = "BTINFO" /\ ~m.setup_link))
  <2> HIDE DEF c
  <2>1. r = [m EXCEPT !.path = c.path, !.table = c.table, !.tdma = c.tdma]
    BY <1>3, <1>9
  <2>2. /\ CoexTypes(r) /\ Same(m, r)
        /\ \A k \in {"reenable", "gl_busy", "under_5g", "queue"} : r[k] = m[k]
        /\ r.path = c.path /\ r.table = c.table /\ r.tdma = c.tdma
        /\ \A k \in Relevant : r[k] = m[k]
    <3>1. /\ CoexTypes(r) /\ r.path = c.path /\ r.table = c.table /\ r.tdma = c.tdma
      BY <1>2, <2>1 DEF CoexTypes, CoexFields
    <3>2. \A k \in CoexFields \ {"path", "table", "tdma"} : r[k] = m[k]
      BY <1>2, <2>1 DEF CoexTypes, CoexFields
    <3>3. Same(m, r)
      BY <3>2 DEF Same, Untouched, CoexFields
    <3>4. \A k \in Relevant : r[k] = m[k]
      BY <3>2 DEF Relevant, CoexFields
    <3>5. \A k \in {"reenable", "gl_busy", "under_5g", "queue"} : r[k] = m[k]
      BY <3>2 DEF CoexFields
    <3> QED
      BY <3>1, <3>3, <3>4, <3>5
  <2>3. Cx!Known(r) = Cx!Known(m)
    BY <1>2, <2>2, SameKnown, Zenon
  <2>4. Fresh(r)
    <3> DEFINE s == Supposing(r, FALSE, FALSE)
    <3>1. FALSE \in BOOLEAN
      OBVIOUS
    <3>2. SupposedOf(s, r, FALSE, FALSE)
      BY <2>2, <3>1, Supposed, Zenon
    <3> HIDE DEF s
    <3>3. \A k \in Relevant : s[k] = r[k]
      <4>1. s.bt_disabled = r.bt_disabled /\ s.multi_remain = r.multi_remain
        BY <2>2, <3>2 DEF SupposedOf, CoexTypes
      <4> QED
        BY <3>2, <4>1 DEF SupposedOf, Relevant
    <3>4. Cx!Known(s) = Cx!Known(r)
      BY <2>2, <3>2, <3>3, SameKnown, Zenon DEF SupposedOf
    <3>5. InForce(r, Cx!Decision(Cx!Known(s)))
      BY <2>2, <2>3, <3>4, Zenon DEF InForce, c
    <3> QED
      BY <3>1, <3>5, Zenon DEF Fresh, s
  <2>5. Fits(reason, d.band) => RightBand(r)
    <3>1. Cx!Known(m).under_5g = m.under_5g
      BY <1>2 DEF Cx!Known, CoexTypes, CoexFields
    <3>2. r.path = "5G" <=> m.under_5g
      BY <2>2, <3>1, DecisionPath DEF c
    <3>3. r.band = d.band
      BY <1>4, <2>2 DEF Same, Untouched
    <3> QED
      BY <1>6, <3>2, <3>3 DEF RightBand, Fits
  <2>6. Same(d, r) /\ d.queue \subseteq r.queue
    BY <1>4, <2>2 DEF Same
  <2>7. Settled(r, C \cup r.queue)
    BY <1>5, <1>9, <2>2 DEF Settled, Same, Untouched
  <2>8. r.gl_busy /\ ~r.busy => "wl_remain" \in r.queue
    BY <1>10, <2>2 DEF Same, Untouched
  <2> QED
    BY <2>2, <2>4, <2>5, <2>6, <2>7, <2>8
<1> QED
  BY <1>7, <1>8, <1>9

----------------------------------------------------------------------------
(* Handlers. Each keeps the record good, what it queues being on its way.  *)
CoexGood(C) == Good(rtwdev, C) /\ rtwdev.queue = {}

(* A run of the decisions for a reason of the band there is.               *)
LEMMA RunGood ==
  ASSUME NEW e, NEW C, Up(e, C), NEW reason, Fits(reason, e.band), NEW r, r = Cx!RunCoex(e,
    reason)
  PROVE  Good(r, C) /\ e.queue \subseteq r.queue /\ Same(e, r)
<1>1. /\ CoexTypes(r) /\ Same(e, r) /\ e.queue \subseteq r.queue
      /\ r.running => Settled(r, C \cup r.queue)
      /\ Binds(r) => Fresh(r)
      /\ Fits(reason, e.band) /\ Binds(r) => RightBand(r)
  BY RunCoexGood DEF Up
<1>2. r.running = e.running /\ r.hi_pri_task2 = e.hi_pri_task2 /\ r.scanning = e.scanning
  BY <1>1 DEF Same, Untouched
<1> QED
  BY <1>1, <1>2 DEF Good, Up, Agrees

LEMMA ScanStart2GFacts ==
  ASSUME NEW d, NEW C, CoexTypes(d), d.running => Settled(d, C \cup d.queue),
         NEW r, r = Cx!ScanStart2G(d)
  PROVE  /\ CoexTypes(r) /\ d.queue \subseteq r.queue
         /\ r.running => Settled(r, C \cup r.queue)
         /\ Binds(r) => Fresh(r)
         /\ r.running = d.running /\ r.scanning = d.scanning
<1> DEFINE e == [d EXCEPT !.freeze = FALSE, !.hi_pri_task2 = TRUE, !.path = "2G"]
<1>1. /\ CoexTypes(e) /\ e.queue = d.queue /\ e.running = d.running
           /\ e.scanning = d.scanning
      /\ d.running => Settled(e, C \cup e.queue)
  <2>1. /\ CoexTypes(e)
             /\ \A k \in CoexFields \ {"freeze", "hi_pri_task2", "path"} : e[k] = d[k]
    BY DEF CoexTypes, CoexFields
  <2> HIDE DEF e
  <2> QED
    BY <2>1 DEF CoexFields, Settled
<1>2. r = Cx!RunCoex(e, "2GSCANSTART")
  BY Zenon DEF Cx!ScanStart2G
<1> HIDE DEF e
<1>3. /\ CoexTypes(r) /\ Same(e, r) /\ e.queue \subseteq r.queue
      /\ r.running => Settled(r, C \cup r.queue)
      /\ Binds(r) => Fresh(r)
  BY <1>1, <1>2, RunCoexGood
<1>4. r.running = e.running /\ r.scanning = e.scanning
  BY <1>3 DEF Same, Untouched
<1> QED
  BY <1>1, <1>3, <1>4

(* A change of what no decision rests on.                                  *)
LEMMA SameFresh ==
  ASSUME NEW d, NEW e, CoexTypes(d), CoexTypes(e),
         \A k \in Relevant \cup {"table", "tdma", "path"} : e[k] = d[k]
  PROVE  Fresh(d) => Fresh(e)
<1>1. \A k \in (Relevant \ {"bt_disabled", "multi_remain"})
        \cup {"table", "tdma", "path"} : e[k] = d[k]
  OBVIOUS
<1>2. e.bt_disabled = d.bt_disabled /\ e.multi_remain = d.multi_remain
  BY DEF Relevant
<1> QED
  BY <1>1, <1>2, FreshKept

LEMMA ScanStartGood ==
  ASSUME NEW d, NEW C, Good(d, C), NEW r, r = [Cx!ScanStart2G(d) EXCEPT !.scanning = TRUE]
  PROVE  Good(r, C) /\ d.queue \subseteq r.queue
<1> DEFINE s == Cx!ScanStart2G(d)
<1>1. /\ CoexTypes(s) /\ d.queue \subseteq s.queue
      /\ s.running => Settled(s, C \cup s.queue)
      /\ Binds(s) => Fresh(s)
  BY ScanStart2GFacts DEF Good, Up
<1> HIDE DEF s
<1>2. /\ CoexTypes(r) /\ \A k \in CoexFields \ {"scanning"} : r[k] = s[k]
      /\ r.scanning
  <2>1. r = [s EXCEPT !.scanning = TRUE]
    BY Zenon DEF s
  <2> QED
    BY <1>1, <2>1 DEF CoexTypes, CoexFields
<1>3. r.running => Settled(r, C \cup r.queue)
  BY <1>1, <1>2 DEF Settled, CoexFields
<1>4. Binds(r) => Binds(s)
  BY <1>2 DEF Binds, CoexFields
<1>5. Fresh(s) => Fresh(r)
  <2>1. \A k \in Relevant \cup {"table", "tdma", "path"} : r[k] = s[k]
    BY <1>2 DEF Relevant, CoexFields
  <2> QED
    BY <1>1, <1>2, <2>1, SameFresh
<1>6. r.queue = s.queue
  BY <1>2 DEF CoexFields
<1> QED
  BY <1>1, <1>2, <1>3, <1>4, <1>5, <1>6 DEF Good, Up, Agrees

LEMMA SwitchBandGood ==
  ASSUME NEW d, NEW C, Up(d, C), NEW r, r = Cx!SwitchBand(d)
  PROVE  Good(r, C) /\ d.queue \subseteq r.queue
<1>1. CASE d.band = "5G"
  <2>1. r = Cx!RunCoex(d, "5GSWITCHBAND")
    BY <1>1 DEF Cx!SwitchBand
  <2>2. Fits("5GSWITCHBAND", d.band)
    BY <1>1 DEF Fits, Cx!Reasons2G, Cx!Reasons5G
  <2> QED
    BY <2>1, <2>2, RunGood
<1>2. CASE d.band # "5G" /\ d.band = "2G" /\ d.scanning
  <2>1. r = Cx!ScanStart2G(d)
    BY <1>2 DEF Cx!SwitchBand
  <2>2. /\ CoexTypes(r) /\ d.queue \subseteq r.queue
        /\ r.running => Settled(r, C \cup r.queue)
        /\ Binds(r) => Fresh(r)
        /\ r.running = d.running /\ r.scanning = d.scanning
    BY <2>1, ScanStart2GFacts DEF Up
  <2> QED
    BY <1>2, <2>2 DEF Good, Up, Agrees
<1>3. CASE d.band # "5G" /\ ~(d.band = "2G" /\ d.scanning)
  <2>1. r = Cx!RunCoex(d, "2GSWITCHBAND")
    BY <1>3 DEF Cx!SwitchBand
  <2>2. Fits("2GSWITCHBAND", d.band)
    BY <1>3 DEF Fits, Cx!Reasons2G, Cx!Reasons5G
  <2> QED
    BY <2>1, <2>2, RunGood
<1> QED
  BY <1>1, <1>2, <1>3

LEMMA ScanFinishGood ==
  ASSUME NEW d, NEW C, Good(d, C), NEW r, r = Cx!ScanFinish([d EXCEPT !.scanning = FALSE])
  PROVE  Good(r, C) /\ d.queue \subseteq r.queue
<1> DEFINE f == [d EXCEPT !.scanning = FALSE]
           e == [f EXCEPT !.freeze = FALSE, !.hi_pri_task2 = FALSE]
<1>1. /\ CoexTypes(e) /\ e.hi_pri_task2 = FALSE
      /\ \A k \in CoexFields \ {"freeze", "hi_pri_task2", "scanning"} : e[k] = d[k]
  BY DEF Good, Up, CoexTypes, CoexFields
<1>2. r = Cx!RunCoex(e, "SCANFINISH")
  BY Zenon DEF Cx!ScanFinish
<1> HIDE DEF e
<1>3. Up(e, C) /\ e.queue = d.queue
  BY <1>1 DEF Good, Up, Settled, CoexFields
<1>4. Fits("SCANFINISH", e.band)
  BY DEF Fits, Cx!Reasons2G, Cx!Reasons5G
<1> QED
  BY <1>2, <1>3, <1>4, RunGood

LEMMA ConnectStartGood ==
  ASSUME NEW d, NEW C, Good(d, C), NEW r, r = Cx!ConnectStart(d)
  PROVE  Good(r, C) /\ d.queue \subseteq r.queue
<1> DEFINE f == [d EXCEPT !.hi_pri_task1 = TRUE, !.connecting = TRUE, !.path = "2G"]
           e == Cx!Queue(f, "connecting")
           s == Cx!RunCoex(e, "2GCONSTART")
<1>1. /\ CoexTypes(e) /\ e.queue = d.queue \cup {"connecting"}
      /\ \A k \in CoexFields \ {"hi_pri_task1", "connecting", "path", "queue"} : e[k] = d[k]
  BY DEF Good, Up, CoexTypes, CoexFields, Cx!Queue
<1>2. r = Cx!Queue([s EXCEPT !.freeze = TRUE], "defreeze")
  BY Zenon DEF Cx!ConnectStart
<1> HIDE DEF e
<1>3. e.running => Settled(e, (C \cup {"defreeze"}) \cup e.queue)
  BY <1>1 DEF Good, Up, Settled, CoexFields
<1>4. /\ CoexTypes(s) /\ Same(e, s) /\ e.queue \subseteq s.queue
      /\ s.running => Settled(s, (C \cup {"defreeze"}) \cup s.queue)
  BY <1>1, <1>3, RunCoexGood
<1> HIDE DEF s
<1>5. /\ CoexTypes(r) /\ r.queue = s.queue \cup {"defreeze"} /\ r.freeze = TRUE
      /\ \A k \in CoexFields \ {"freeze", "queue"} : r[k] = s[k]
  BY <1>2, <1>4 DEF CoexTypes, CoexFields, Cx!Queue
<1>6. r.running => Settled(r, C \cup r.queue)
  BY <1>4, <1>5 DEF Settled, CoexFields
<1>7. r.running = d.running /\ r.scanning = d.scanning /\ r.hi_pri_task2 = d.hi_pri_task2
  BY <1>1, <1>4, <1>5 DEF Same, Untouched, CoexFields
<1> QED
  BY <1>1, <1>4, <1>5, <1>6, <1>7 DEF Good, Up, Agrees, Binds

LEMMA AssociateGood ==
  ASSUME NEW d, NEW C, Good(d, C), NEW r,
    r = Cx!MediaConnect(Cx!ConnectFinish([d EXCEPT !.stations = TRUE]))
  PROVE  Good(r, C) /\ d.queue \subseteq r.queue
<1> DEFINE f == [d EXCEPT !.stations = TRUE]
           e == [f EXCEPT !.hi_pri_task1 = FALSE, !.freeze = FALSE, !.connecting = FALSE]
           s == Cx!RunCoex(e, "2GCONFINISH")
           g == [s EXCEPT !.connecting = FALSE, !.path = "2G"]
<1>1. /\ CoexTypes(e) /\ e.hi_pri_task1 = FALSE /\ e.connecting = FALSE
      /\ \A k \in CoexFields \ {"freeze", "hi_pri_task1", "connecting",
           "stations"} : e[k] = d[k]
  BY DEF Good, Up, CoexTypes, CoexFields
<1>2. r = Cx!RunCoex(g, "2GMEDIA")
  BY Zenon DEF Cx!ConnectFinish, Cx!MediaConnect
<1> HIDE DEF e
<1>3. Up(e, C) /\ e.queue = d.queue
  BY <1>1 DEF Good, Up, Settled, CoexFields
<1>4. Fits("2GCONFINISH", e.band) /\ Fits("2GMEDIA", g.band)
  BY DEF Fits, Cx!Reasons2G, Cx!Reasons5G
<1>5. Good(s, C) /\ e.queue \subseteq s.queue
  BY <1>3, <1>4, RunGood
<1> HIDE DEF s
<1>6. /\ CoexTypes(g) /\ g.connecting = FALSE
      /\ \A k \in CoexFields \ {"connecting", "path"} : g[k] = s[k]
  BY <1>5 DEF Good, Up, CoexTypes, CoexFields
<1> HIDE DEF g
<1>7. Up(g, C) /\ g.queue = s.queue
  BY <1>5, <1>6 DEF Good, Up, Settled, CoexFields
<1>8. Good(r, C) /\ g.queue \subseteq r.queue
  BY <1>2, <1>4, <1>7, RunGood
<1> QED
  BY <1>3, <1>5, <1>7, <1>8

LEMMA EnterLpsGood ==
  ASSUME NEW d, NEW C, Good(d, C), NEW r, r = Cx!EnterLps(d)
  PROVE  Good(r, C) /\ d.queue \subseteq r.queue
<1> DEFINE e == [d EXCEPT !.under_lps = TRUE]
<1>1. CoexTypes(e) /\ \A k \in CoexFields \ {"under_lps"} : e[k] = d[k]
  BY DEF Good, Up, CoexTypes, CoexFields
<1>2. r = Cx!RunCoex(e, "LPS")
  BY Zenon DEF Cx!EnterLps
<1> HIDE DEF e
<1>3. Up(e, C) /\ e.queue = d.queue
  BY <1>1 DEF Good, Up, Settled, CoexFields
<1>4. Fits("LPS", e.band)
  BY DEF Fits, Cx!Reasons2G, Cx!Reasons5G
<1> QED
  BY <1>2, <1>3, <1>4, RunGood

(* A handler that changes none of what decisions and conditions are about. *)
LEMMA AsideGood ==
  ASSUME NEW d, NEW e, NEW C, Good(d, C), CoexTypes(e),
         \A k \in CoexFields \ {"stations", "heard"} : e[k] = d[k]
  PROVE  Good(e, C) /\ e.queue = d.queue
<1>1. \A k \in Relevant \cup {"table", "tdma", "path"} : e[k] = d[k]
  BY DEF Relevant, CoexFields
<1>2. Fresh(d) => Fresh(e)
  BY <1>1, SameFresh DEF Good, Up
<1> QED
  BY <1>2 DEF Good, Up, Agrees, Binds, RightBand, Settled, CoexFields

LEMMA LeaveLpsGood ==
  ASSUME NEW d, NEW C, Good(d, C), NEW r, r = Cx!LeaveLps(d)
  PROVE  Good(r, C) /\ d.queue \subseteq r.queue /\ (r.running <=> d.running)
         /\ r.scanning = d.scanning /\ r.stations = d.stations
<1>1. CASE ~d.under_lps
  BY <1>1 DEF Cx!LeaveLps
<1>2. CASE d.under_lps
  <2> DEFINE e == [d EXCEPT !.under_lps = FALSE]
  <2>1. CoexTypes(e) /\ e.queue = d.queue /\ (e.running <=> d.running)
          /\ (e.running => Settled(e, C \cup e.queue))
        /\ e.scanning = d.scanning /\ e.hi_pri_task2 = d.hi_pri_task2
             /\ e.stations = d.stations
    <3>1. CoexTypes(e) /\ \A k \in CoexFields \ {"under_lps"} : e[k] = d[k]
      BY DEF Good, Up, CoexTypes, CoexFields
    <3> HIDE DEF e
    <3> QED
      BY <3>1 DEF Good, Up, CoexFields, Settled
  <2>2. r = Cx!RunCoex(e, "LPS")
    BY <1>2 DEF Cx!LeaveLps
  <2> HIDE DEF e
  <2>3. Fits("LPS", e.band)
    BY DEF Fits, Cx!Reasons2G, Cx!Reasons5G
  <2>4. /\ CoexTypes(r) /\ Same(e, r) /\ e.queue \subseteq r.queue
        /\ r.running => Settled(r, C \cup r.queue)
        /\ Binds(r) => Fresh(r) /\ RightBand(r)
    BY <2>1, <2>2, <2>3, RunCoexGood
  <2>5. r.running = e.running /\ r.scanning = e.scanning /\ r.hi_pri_task2 = e.hi_pri_task2
        /\ r.stations = e.stations
    BY <2>4 DEF Same, Untouched
  <2> QED
    BY <2>1, <2>4, <2>5 DEF Good, Up, Agrees
<1> QED
  BY <1>1, <1>2

(* The configuration of the hardware, which forgets and freezes.           *)
LEMMA InitHwConfigGood ==
  ASSUME NEW d, NEW C, CoexTypes(d), NEW r, r = Cx!InitHwConfig(d)
  PROVE  Good(r, C) /\ d.queue \subseteq r.queue /\ ~r.hi_pri_task2 /\ r.running = d.running
         /\ Settled(r, C \cup r.queue) /\ r.freeze = TRUE
<1> DEFINE o == Cx!Over(Cx!Zero, d)
           m == Cx!MonitorBtEnable(o)
<1>1. DOMAIN Cx!Zero \cup DOMAIN d = CoexFields
  BY DEF Cx!Zero, CoexTypes, CoexFields
<1>2. /\ \A k \in DOMAIN Cx!Zero : k \in CoexFields /\ o[k] = Cx!Zero[k]
      /\ \A k \in CoexFields \ DOMAIN Cx!Zero : o[k] = d[k]
      /\ o = [k \in CoexFields |-> o[k]]
  <2>1. o = [k \in CoexFields |-> IF k \in DOMAIN Cx!Zero THEN Cx!Zero[k] ELSE d[k]]
    BY <1>1 DEF Cx!Over
  <2> HIDE DEF o, CoexFields
  <2> QED
    BY <1>1, <2>1
<1>3. /\ o.setup_link = FALSE /\ o.inq_page = FALSE /\ o.inq_remain = FALSE
           /\ o.multi_remain = FALSE
      /\ o.reenable = FALSE /\ o.connecting = FALSE /\ o.hi_pri_task1 = FALSE
           /\ o.hi_pri_task2 = FALSE
      /\ o.gl_busy = FALSE /\ o.bt_disabled = FALSE
  <2> HIDE DEF o
  <2> QED
    BY <1>2 DEF Cx!Zero
<1>4. o.queue = d.queue /\ o.running = d.running
  <2> HIDE DEF o
  <2>1. {"queue", "running"} \subseteq CoexFields \ DOMAIN Cx!Zero
    BY DEF Cx!Zero, CoexFields
  <2> QED
    BY <1>2, <2>1
<1> HIDE DEF o
<1>5. CoexTypes(o)
  BY <1>2, <1>3 DEF CoexTypes
<1>6. /\ CoexTypes(m) /\ Same(o, m) /\ m.gl_busy = o.gl_busy
      /\ o.queue \subseteq m.queue
      /\ m.reenable => o.reenable \/ "reenable" \in m.queue
  <2>1. /\ CoexTypes(m) /\ Same(o, m)
        /\ \A k \in {"path", "table", "tdma", "connected", "gl_busy", "linkscan",
             "under_5g"} : m[k] = o[k]
        /\ o.queue \subseteq m.queue
        /\ m.reenable => o.reenable \/ "reenable" \in m.queue
    BY <1>5, Counted, Zenon
  <2> HIDE DEF m
  <2> QED
    BY <2>1
<1>7. r = [m EXCEPT !.path = "INIT", !.freeze = TRUE, !.table = 1, !.tdma = 0]
  BY Zenon DEF Cx!InitHwConfig, o
<1> HIDE DEF m
<1>8. /\ CoexTypes(r) /\ r.freeze = TRUE
      /\ \A k \in CoexFields \ {"path", "freeze", "table", "tdma"} : r[k] = m[k]
  BY <1>6, <1>7 DEF CoexTypes, CoexFields
<1>9. \A k \in Untouched \ {"freeze"} : r[k] = o[k]
  BY <1>6, <1>8 DEF Same, Untouched, CoexFields
<1>10. Settled(r, C \cup r.queue)
  BY <1>3, <1>6, <1>8, <1>9 DEF Settled, Untouched, CoexFields
<1>11. ~r.hi_pri_task2 /\ r.running = d.running /\ d.queue \subseteq r.queue
  BY <1>3, <1>4, <1>6, <1>8, <1>9 DEF Untouched, CoexFields
<1> QED
  BY <1>8, <1>10, <1>11 DEF Good, Up, Agrees, Binds

LEMMA CoreStartGood ==
  ASSUME NEW d, NEW C, CoexTypes(d), NEW r, r = Cx!CoreStart(d)
  PROVE  Good(r, C) /\ d.queue \subseteq r.queue
<1> DEFINE m == Cx!MonitorBtEnable(d)
           e == [m EXCEPT !.path = "POWERON", !.table = 1]
           i == Cx!InitHwConfig(e)
<1>1. CoexTypes(m) /\ d.queue \subseteq m.queue
  BY Counted, Zenon
<1>2. CoexTypes(e) /\ e.queue = m.queue
  <2> HIDE DEF m
  <2> QED
    BY <1>1 DEF CoexTypes, CoexFields
<1>3. r = [i EXCEPT !.running = TRUE]
  BY Zenon DEF Cx!CoreStart, Cx!PowerOnSetting
<1> HIDE DEF e
<1>4. /\ CoexTypes(i) /\ e.queue \subseteq i.queue /\ ~i.hi_pri_task2
      /\ Settled(i, C \cup i.queue) /\ i.freeze = TRUE
  BY <1>2, InitHwConfigGood DEF Good, Up
<1> HIDE DEF i
<1>5. CoexTypes(r) /\ \A k \in CoexFields \ {"running"} : r[k] = i[k]
  BY <1>3, <1>4 DEF CoexTypes, CoexFields
<1>6. Settled(r, C \cup r.queue)
  BY <1>4, <1>5 DEF Settled, CoexFields
<1>7. ~r.hi_pri_task2 /\ r.freeze = TRUE /\ r.queue = i.queue
  BY <1>4, <1>5 DEF CoexFields
<1> QED
  BY <1>1, <1>2, <1>4, <1>5, <1>6, <1>7 DEF Good, Up, Agrees, Binds

LEMMA LeaveIpsGood ==
  ASSUME NEW d, NEW C, CoexTypes(d), NEW r,
    r = Cx!SwitchBand(Cx!InitHwConfig(Cx!CoreStart(d)))
  PROVE  Good(r, C) /\ d.queue \subseteq r.queue
<1> DEFINE s == Cx!CoreStart(d)
           i == Cx!InitHwConfig(s)
<1>1. Good(s, C) /\ d.queue \subseteq s.queue
  BY CoreStartGood
<1> HIDE DEF s
<1>2. Good(i, C) /\ s.queue \subseteq i.queue
  BY <1>1, InitHwConfigGood DEF Good, Up
<1>3. r = Cx!SwitchBand(i)
  BY DEF s
<1> HIDE DEF i
<1>4. Good(r, C) /\ i.queue \subseteq r.queue
  BY <1>2, <1>3, SwitchBandGood DEF Good
<1> QED
  BY <1>1, <1>2, <1>4

(* The watchdog: the traffic may change, LPS be left and entered again.    *)
LEMMA BusyGood ==
  ASSUME NEW d, NEW C, Good(d, C), NEW busy \in BOOLEAN, NEW r,
         r = IF busy # d.busy THEN Cx!RunCoex([d EXCEPT !.busy = busy], "WLSTATUS")
                              ELSE [d EXCEPT !.busy = busy]
  PROVE  Good(r, C) /\ d.queue \subseteq r.queue
<1> DEFINE e == [d EXCEPT !.busy = busy]
<1>1. /\ CoexTypes(e) /\ e.busy = busy
      /\ \A k \in CoexFields \ {"busy"} : e[k] = d[k]
  BY DEF Good, Up, CoexTypes, CoexFields
<1> HIDE DEF e
<1>2. CASE busy # d.busy
  <2>1. r = Cx!RunCoex(e, "WLSTATUS")
    BY <1>2, Zenon DEF e
  <2>2. e.running => Settled(e, (C \cup {"wl_remain"}) \cup e.queue)
    BY <1>1 DEF Good, Up, Settled, CoexFields
  <2>3. /\ CoexTypes(r) /\ Same(e, r) /\ e.queue \subseteq r.queue
        /\ r.running => Settled(r, (C \cup {"wl_remain"}) \cup r.queue)
        /\ Binds(r) => Fresh(r)
        /\ Fits("WLSTATUS", e.band) /\ Binds(r) => RightBand(r)
        /\ r.running /\ r.gl_busy /\ ~r.busy => "wl_remain" \in r.queue
    BY <1>1, <2>1, <2>2, RunCoexGood
  <2>4. r.running => Settled(r, C \cup r.queue)
    BY <2>3 DEF Settled
  <2>5. Fits("WLSTATUS", e.band)
    BY DEF Fits, Cx!Reasons2G, Cx!Reasons5G
  <2>6. /\ r.running = e.running /\ r.hi_pri_task2 = e.hi_pri_task2
             /\ r.scanning = e.scanning
        /\ e.running = d.running /\ e.hi_pri_task2 = d.hi_pri_task2
             /\ e.scanning = d.scanning
        /\ e.queue = d.queue
    BY <1>1, <2>3 DEF Same, Untouched, CoexFields
  <2> QED
    BY <2>3, <2>4, <2>5, <2>6 DEF Good, Up, Agrees
<1>3. CASE busy = d.busy
  <2>1. r = d
    BY <1>3 DEF Good, Up, CoexTypes, CoexFields
  <2> QED
    BY <2>1
<1> QED
  BY <1>2, <1>3

LEMMA WatchDogGood ==
  ASSUME NEW d, NEW C, Good(d, C), NEW busy \in BOOLEAN, NEW heard \in BOOLEAN,
    NEW lps \in BOOLEAN,
         NEW changed, NEW awake, NEW r,
         changed = IF busy # d.busy THEN Cx!RunCoex([d EXCEPT !.busy = busy], "WLSTATUS")
                                    ELSE [d EXCEPT !.busy = busy],
         awake = [Cx!LeaveLps(changed) EXCEPT !.heard = heard],
         r = CASE d.scanning -> changed
               [] ~d.scanning /\ lps -> Cx!EnterLps(awake)
               [] OTHER -> awake
  PROVE  Good(r, C) /\ d.queue \subseteq r.queue
<1> DEFINE l == Cx!LeaveLps(changed)
<1>1. Good(changed, C) /\ d.queue \subseteq changed.queue
  BY BusyGood
<1>2. Good(l, C) /\ changed.queue \subseteq l.queue
  BY <1>1, LeaveLpsGood
<1> HIDE DEF l
<1>3. CoexTypes(awake) /\ \A k \in CoexFields \ {"stations", "heard"} : awake[k] = l[k]
  BY <1>2 DEF Good, Up, CoexTypes, CoexFields, l
<1>4. Good(awake, C) /\ awake.queue = l.queue
  BY <1>2, <1>3, AsideGood
<1>5. Good(Cx!EnterLps(awake), C) /\ awake.queue \subseteq Cx!EnterLps(awake).queue
  BY <1>4, EnterLpsGood
<1>6. r = changed \/ r = awake \/ r = Cx!EnterLps(awake)
  OBVIOUS
<1> QED
  BY <1>1, <1>2, <1>4, <1>5, <1>6

LEMMA DisassociateGood ==
  ASSUME NEW d, NEW C, Good(d, C), NEW r, r = [Cx!LeaveLps(d) EXCEPT !.stations = FALSE]
  PROVE  Good(r, C) /\ d.queue \subseteq r.queue
<1> DEFINE l == Cx!LeaveLps(d)
<1>1. Good(l, C) /\ d.queue \subseteq l.queue
  BY LeaveLpsGood
<1> HIDE DEF l
<1>2. CoexTypes(r) /\ \A k \in CoexFields \ {"stations", "heard"} : r[k] = l[k]
  BY <1>1 DEF Good, Up, CoexTypes, CoexFields, l
<1>3. Good(r, C) /\ r.queue = l.queue
  BY <1>1, <1>2, AsideGood
<1> QED
  BY <1>1, <1>3

----------------------------------------------------------------------------
(* The works: what each ends need no longer come.                          *)
LEMMA StatusRunGood ==
  ASSUME NEW d, NEW e, NEW C, NEW w, Good(d, C \cup {w}), CoexTypes(e),
         e.running = d.running, e.queue = d.queue, e.scanning = d.scanning,
         e.hi_pri_task2 = d.hi_pri_task2,
         e.running => Settled(e, C \cup e.queue),
         NEW reason \in {"WLSTATUS", "BTSTATUS"}, NEW r, r = Cx!RunCoex(e, reason)
  PROVE  Good(r, C) /\ d.queue \subseteq r.queue
<1>1. Fits(reason, e.band)
  BY DEF Fits, Cx!Reasons2G, Cx!Reasons5G
<1>2. Up(e, C)
  BY DEF Good, Up
<1> QED
  BY <1>1, <1>2, RunGood

LEMMA WorkGood ==
  ASSUME NEW d, NEW C, NEW w \in {Cx!CancelOrder[i] : i \in 1..Len(Cx!CancelOrder)},
    w # "c2h",
         Good(d, C \cup {w}), NEW r, r = Cx!Work(d, w)
  PROVE  Good(r, C) /\ d.queue \subseteq r.queue
<1>1. w \in {"relink", "reenable", "defreeze", "wl_remain", "bt_remain", "connecting",
        "multi_remain"}
  BY DEF Cx!CancelOrder
<1>2. CoexTypes(d)
  BY DEF Good, Up
<1>3. CASE w = "relink"
  <2> DEFINE e == [d EXCEPT !.setup_link = FALSE]
  <2>1. CoexTypes(e) /\ e.setup_link = FALSE
          /\ \A k \in CoexFields \ {"setup_link"} : e[k] = d[k]
    BY <1>2 DEF CoexTypes, CoexFields
  <2>2. r = Cx!RunCoex(e, "WLSTATUS")
    BY <1>3 DEF Cx!Work
  <2> HIDE DEF e
  <2>3. /\ e.running = d.running /\ e.queue = d.queue /\ e.scanning = d.scanning
        /\ e.hi_pri_task2 = d.hi_pri_task2
    BY <2>1 DEF CoexFields
  <2>4. e.running => Settled(e, C \cup e.queue)
    BY <1>3, <2>1 DEF Good, Up, Settled, CoexFields
  <2> QED
    BY <2>1, <2>2, <2>3, <2>4, StatusRunGood
<1>4. CASE w = "reenable"
  <2>1. r = [d EXCEPT !.reenable = FALSE]
    BY <1>4 DEF Cx!Work
  <2>2. CoexTypes(r) /\ r.reenable = FALSE
          /\ \A k \in CoexFields \ {"reenable"} : r[k] = d[k]
    BY <1>2, <2>1 DEF CoexTypes, CoexFields
  <2>3. Fresh(d) => Fresh(r)
    <3>1. \A k \in Relevant \cup {"table", "tdma", "path"} : r[k] = d[k]
      BY <2>2 DEF Relevant, CoexFields
    <3> QED
      BY <1>2, <2>2, <3>1, SameFresh
  <2>4. r.running => Settled(r, C \cup r.queue)
    BY <1>4, <2>2 DEF Good, Up, Settled, CoexFields
  <2> QED
    BY <2>2, <2>3, <2>4 DEF Good, Up, Agrees, Binds, RightBand, CoexFields
<1>5. CASE w = "defreeze"
  <2> DEFINE e == [d EXCEPT !.freeze = FALSE, !.hi_pri_task1 = FALSE]
  <2>1. CoexTypes(e) /\ e.hi_pri_task1 = FALSE
          /\ \A k \in CoexFields \ {"freeze", "hi_pri_task1"} : e[k] = d[k]
    BY <1>2 DEF CoexTypes, CoexFields
  <2>2. r = Cx!RunCoex(e, "WLSTATUS")
    BY <1>5 DEF Cx!Work
  <2> HIDE DEF e
  <2>3. /\ e.running = d.running /\ e.queue = d.queue /\ e.scanning = d.scanning
        /\ e.hi_pri_task2 = d.hi_pri_task2
    BY <2>1 DEF CoexFields
  <2>4. e.running => Settled(e, C \cup e.queue)
    BY <1>5, <2>1 DEF Good, Up, Settled, CoexFields
  <2> QED
    BY <2>1, <2>2, <2>3, <2>4, StatusRunGood
<1>6. CASE w = "wl_remain"
  <2> DEFINE e == [d EXCEPT !.gl_busy = d.busy]
  <2>1. CoexTypes(e) /\ e.gl_busy = d.busy
          /\ \A k \in CoexFields \ {"gl_busy"} : e[k] = d[k]
    BY <1>2 DEF CoexTypes, CoexFields
  <2>2. r = Cx!RunCoex(e, "WLSTATUS")
    BY <1>6 DEF Cx!Work
  <2> HIDE DEF e
  <2>3. /\ e.running = d.running /\ e.queue = d.queue /\ e.scanning = d.scanning
        /\ e.hi_pri_task2 = d.hi_pri_task2
    BY <2>1 DEF CoexFields
  <2>4. e.running => Settled(e, C \cup e.queue)
    BY <1>6, <2>1 DEF Good, Up, Settled, CoexFields
  <2> QED
    BY <2>1, <2>2, <2>3, <2>4, StatusRunGood
<1>7. CASE w = "bt_remain"
  <2> DEFINE e == [d EXCEPT !.inq_remain = d.inq_page]
  <2>1. CoexTypes(e) /\ e.inq_remain = d.inq_page
          /\ \A k \in CoexFields \ {"inq_remain"} : e[k] = d[k]
    BY <1>2 DEF CoexTypes, CoexFields
  <2>2. r = Cx!RunCoex(e, "BTSTATUS")
    BY <1>7 DEF Cx!Work
  <2> HIDE DEF e
  <2>3. /\ e.running = d.running /\ e.queue = d.queue /\ e.scanning = d.scanning
        /\ e.hi_pri_task2 = d.hi_pri_task2
    BY <2>1 DEF CoexFields
  <2>4. e.running => Settled(e, C \cup e.queue)
    BY <1>7, <2>1 DEF Good, Up, Settled, CoexFields
  <2> QED
    BY <2>1, <2>2, <2>3, <2>4, StatusRunGood
<1>8. CASE w = "connecting"
  <2> DEFINE e == [d EXCEPT !.connecting = FALSE]
  <2>1. CoexTypes(e) /\ e.connecting = FALSE
          /\ \A k \in CoexFields \ {"connecting"} : e[k] = d[k]
    BY <1>2 DEF CoexTypes, CoexFields
  <2>2. r = Cx!RunCoex(e, "WLSTATUS")
    BY <1>8 DEF Cx!Work
  <2> HIDE DEF e
  <2>3. /\ e.running = d.running /\ e.queue = d.queue /\ e.scanning = d.scanning
        /\ e.hi_pri_task2 = d.hi_pri_task2
    BY <2>1 DEF CoexFields
  <2>4. e.running => Settled(e, C \cup e.queue)
    BY <1>8, <2>1 DEF Good, Up, Settled, CoexFields
  <2> QED
    BY <2>1, <2>2, <2>3, <2>4, StatusRunGood
<1>9. CASE w = "multi_remain"
  <2>1. r = [d EXCEPT !.multi_remain = FALSE]
    BY <1>9 DEF Cx!Work
  <2>2. CoexTypes(r) /\ r.multi_remain = FALSE
          /\ \A k \in CoexFields \ {"multi_remain"} : r[k] = d[k]
    BY <1>2, <2>1 DEF CoexTypes, CoexFields
  <2>3. Fresh(d) => Fresh(r)
    <3>1. /\ \A k \in (Relevant \ {"bt_disabled", "multi_remain"})
               \cup {"table", "tdma", "path"} : r[k] = d[k]
          /\ r.bt_disabled = d.bt_disabled
      BY <2>2 DEF Relevant, CoexFields
    <3> QED
      BY <1>2, <2>2, <3>1, FreshKept
  <2>4. r.running => Settled(r, C \cup r.queue)
    BY <1>9, <2>2 DEF Good, Up, Settled, CoexFields
  <2> QED
    BY <2>2, <2>3, <2>4 DEF Good, Up, Agrees, Binds, RightBand, CoexFields
<1> QED
  BY <1>1, <1>3, <1>4, <1>5, <1>6, <1>7, <1>8, <1>9

----------------------------------------------------------------------------
(* A report of Bluetooth, which may cancel bt_remain.                      *)
LEMMA HeardGood ==
  ASSUME NEW d, NEW C, Good(d, C), NEW h, h = Cx!Heard(d)
  PROVE  /\ Good(h, C) /\ d.queue \subseteq h.queue
         /\ \A k \in CoexFields \ {"bt_disabled", "reenable", "queue"} : h[k] = d[k]
<1>1. CoexTypes(d)
  BY DEF Good, Up
<1>2. CASE ~d.bt_disabled
  <2>1. h = d
    BY <1>2 DEF Cx!Heard
  <2> QED
    BY <2>1
<1>3. CASE d.bt_disabled
  <2>1. h = [d EXCEPT !.bt_disabled = FALSE, !.reenable = TRUE, !.queue = d.queue
          \cup {"reenable"}]
    BY <1>1, <1>3 DEF Cx!Heard, Cx!Queue, CoexTypes, CoexFields
  <2>2. /\ CoexTypes(h) /\ h.bt_disabled = FALSE /\ h.reenable
             /\ h.queue = d.queue \cup {"reenable"}
        /\ \A k \in CoexFields \ {"bt_disabled", "reenable", "queue"} : h[k] = d[k]
    BY <1>1, <2>1 DEF CoexTypes, CoexFields
  <2>3. Fresh(d) => Fresh(h)
    <3>1. /\ \A k \in (Relevant \ {"bt_disabled", "multi_remain"})
               \cup {"table", "tdma", "path"} : h[k] = d[k]
          /\ h.multi_remain = d.multi_remain
      BY <2>2 DEF Relevant, CoexFields
    <3> QED
      BY <1>1, <2>2, <3>1, FreshKept
  <2>4. h.running => Settled(h, C \cup h.queue)
    BY <2>2 DEF Good, Up, Settled, CoexFields
  <2> QED
    BY <2>2, <2>3, <2>4 DEF Good, Up, Agrees, Binds, RightBand, CoexFields
<1> QED
  BY <1>2, <1>3

(* The page or inquiry, a link being set up, and several links.            *)
Reported(d, e, fields) ==
  /\ CoexTypes(e) /\ d.queue \subseteq e.queue
  /\ \A k \in CoexFields \ (fields \cup {"queue"}) : e[k] = d[k]

LEMMA PageReported ==
  ASSUME NEW d, CoexTypes(d), NEW b, NEW e, e = Cx!Page(d, b)
  PROVE  /\ Reported(d, e, {"inq_page", "inq_remain"})
         /\ (Cx!InqPage(b) <=> d.inq_page) => e = d
         /\ ~(Cx!InqPage(b) <=> d.inq_page) =>
              /\ e.inq_page => e.inq_remain
              /\ e.inq_page \/ "bt_remain" \in e.queue
<1>1. CASE Cx!InqPage(b) <=> d.inq_page
  <2>1. e = d
    BY <1>1 DEF Cx!Page
  <2> QED
    BY <1>1, <2>1 DEF Reported
<1>2. CASE Cx!InqPage(b) /\ ~d.inq_page
  <2>1. e = [d EXCEPT !.inq_page = TRUE, !.inq_remain = TRUE]
    BY <1>2 DEF Cx!Page
  <2> QED
    BY <1>2, <2>1 DEF Reported, CoexTypes, CoexFields
<1>3. CASE ~Cx!InqPage(b) /\ d.inq_page
  <2>1. e = [d EXCEPT !.inq_page = FALSE, !.queue = d.queue \cup {"bt_remain"}]
    BY <1>3 DEF Cx!Page, Cx!Queue, CoexTypes, CoexFields
  <2> QED
    BY <1>3, <2>1 DEF Reported, CoexTypes, CoexFields
<1> QED
  BY <1>1, <1>2, <1>3

LEMMA SetupReported ==
  ASSUME NEW d, CoexTypes(d), NEW b, NEW e, e = Cx!SetupLink(d, b)
  PROVE  /\ Reported(d, e, {"setup_link"})
         /\ e.setup_link => d.setup_link \/ "relink" \in e.queue
<1>1. CASE ~b.setup_link
  <2>1. e = d
    BY <1>1 DEF Cx!SetupLink
  <2> QED
    BY <2>1 DEF Reported
<1>2. CASE b.setup_link
  <2>1. e = [d EXCEPT !.setup_link = TRUE, !.queue = d.queue \cup {"relink"}]
    BY <1>2 DEF Cx!SetupLink, Cx!Queue, CoexTypes, CoexFields
  <2> QED
    BY <2>1 DEF Reported, CoexTypes, CoexFields
<1> QED
  BY <1>1, <1>2

LEMMA MultiReported ==
  ASSUME NEW d, CoexTypes(d), NEW b, NEW e, e = Cx!MultiLink(d, b)
  PROVE  /\ Reported(d, e, {"multi_remain"})
         /\ e.multi_remain => d.multi_remain \/ "multi_remain" \in e.queue
<1>1. CASE ~(d.info.multi_link /\ ~b.multi_link)
  <2>1. e = d
    BY <1>1 DEF Cx!MultiLink
  <2> QED
    BY <2>1 DEF Reported
<1>2. CASE d.info.multi_link /\ ~b.multi_link
  <2>1. e = [d EXCEPT !.multi_remain = TRUE, !.queue = d.queue \cup {"multi_remain"}]
    BY <1>2 DEF Cx!MultiLink, Cx!Queue, CoexTypes, CoexFields
  <2> QED
    BY <2>1 DEF Reported, CoexTypes, CoexFields
<1> QED
  BY <1>1, <1>2

LEMMA LinkReported ==
  ASSUME NEW d, CoexTypes(d), NEW b, NEW e, e = Cx!LinkInfo(d, b)
  PROVE  /\ Reported(d, e, {"multi_remain", "info"})
         /\ e.multi_remain => d.multi_remain
<1> DEFINE keep == d.multi_remain /\ Cx!BtStatus(b.lb2) # "NCON_IDLE"
<1>1. keep \in BOOLEAN /\ (keep => d.multi_remain)
  OBVIOUS
<1>2. e = [d EXCEPT !.info = b, !.multi_remain = keep]
  BY DEF Cx!LinkInfo, CoexTypes, CoexFields
<1> HIDE DEF keep
<1> QED
  BY <1>1, <1>2 DEF Reported, CoexTypes, CoexFields

LEMMA BtInfoGood ==
  ASSUME NEW d, NEW C, NEW b, NEW cancelled,
         Good(d, C \cup cancelled),
         cancelled = IF b # d.info
           /\ ~(Cx!InqPage(b) <=> d.inq_page) THEN {"bt_remain"} ELSE {},
         NEW r, r = Cx!BtInfo(d, b)
  PROVE  Good(r, C)
<1> DEFINE h == Cx!Heard(d)
           p == Cx!Page(h, b)
           s == Cx!SetupLink(p, b)
           m == Cx!MultiLink(s, b)
           i == Cx!LinkInfo(m, b)
<1>1. /\ Good(h, C \cup cancelled) /\ d.queue \subseteq h.queue
      /\ \A k \in CoexFields \ {"bt_disabled", "reenable", "queue"} : h[k] = d[k]
  BY HeardGood, Zenon
<1>2. r = IF b = d.info THEN h ELSE Cx!RunCoex(i, "BTINFO")
  BY Zenon DEF Cx!BtInfo
<1> HIDE DEF h
<1>3. CASE b = d.info
  BY <1>1, <1>2, <1>3
<1>4. CASE b # d.info
  <2>1. /\ Reported(h, p, {"inq_page", "inq_remain"})
        /\ (Cx!InqPage(b) <=> h.inq_page) => p = h
        /\ ~(Cx!InqPage(b) <=> h.inq_page) =>
             /\ p.inq_page => p.inq_remain
             /\ p.inq_page \/ "bt_remain" \in p.queue
    <3>1. CoexTypes(h)
      BY <1>1 DEF Good, Up
    <3> QED
      BY <3>1, PageReported, Zenon
  <2> HIDE DEF p
  <2>2. /\ Reported(p, s, {"setup_link"})
        /\ s.setup_link => p.setup_link \/ "relink" \in s.queue
    <3>1. CoexTypes(p)
      BY <2>1 DEF Reported
    <3> QED
      BY <3>1, SetupReported, Zenon
  <2> HIDE DEF s
  <2>3. /\ Reported(s, m, {"multi_remain"})
        /\ m.multi_remain => s.multi_remain \/ "multi_remain" \in m.queue
    <3>1. CoexTypes(s)
      BY <2>2 DEF Reported
    <3> QED
      BY <3>1, MultiReported, Zenon
  <2> HIDE DEF m
  <2>4. /\ Reported(m, i, {"multi_remain", "info"})
        /\ i.multi_remain => m.multi_remain
    <3>1. CoexTypes(m)
      BY <2>3 DEF Reported
    <3> QED
      BY <3>1, LinkReported, Zenon
  <2> HIDE DEF i
  <2>5. h.inq_page = d.inq_page
    BY <1>1 DEF CoexFields
  <2>6. p.running => Settled(p, C \cup p.queue)
    <3>1. CASE Cx!InqPage(b) <=> h.inq_page
      <4>1. cancelled = {}
        BY <2>5, <3>1
      <4> QED
        BY <1>1, <2>1, <3>1, <4>1 DEF Good, Up
    <3>2. CASE ~(Cx!InqPage(b) <=> h.inq_page)
      <4>1. cancelled = {"bt_remain"}
        BY <1>4, <2>5, <3>2
      <4> QED
        BY <1>1, <2>1, <3>2, <4>1 DEF Good, Up, Settled, Reported, CoexFields
    <3> QED
      BY <3>1, <3>2
  <2>7. s.running => Settled(s, C \cup s.queue)
    BY <2>2, <2>6 DEF Settled, Reported, CoexFields
  <2>8. m.running => Settled(m, C \cup m.queue)
    BY <2>3, <2>7 DEF Settled, Reported, CoexFields
  <2>9. i.running => Settled(i, C \cup i.queue)
    BY <2>4, <2>8 DEF Settled, Reported, CoexFields
  <2>10. i.hi_pri_task2 = d.hi_pri_task2 /\ i.scanning = d.scanning /\ i.running = d.running
    BY <1>1, <2>1, <2>2, <2>3, <2>4 DEF Reported, CoexFields
  <2>11. Up(i, C)
    BY <2>4, <2>9, <2>10 DEF Good, Up, Reported
  <2>12. Fits("BTINFO", i.band)
    BY DEF Fits, Cx!Reasons2G, Cx!Reasons5G
  <2> QED
    BY <1>2, <1>4, <2>11, <2>12, RunGood
<1> QED
  BY <1>3, <1>4

(* Neither a work nor a report starts the device.                          *)
LEMMA WorkStopped ==
  ASSUME NEW d, NEW w, CoexTypes(d), NEW i \in 1..Len(Cx!CancelOrder),
    w = Cx!CancelOrder[i], w # "c2h",
         ~d.running
  PROVE  ~Cx!Work(d, w).running
<1>1. w \in {"relink", "reenable", "defreeze", "wl_remain", "bt_remain", "connecting",
        "multi_remain"}
  BY DEF Cx!CancelOrder
<1>2. CASE w = "relink"
  BY <1>2 DEF Cx!Work, Cx!RunCoex, CoexTypes, CoexFields
<1>3. CASE w = "reenable"
  BY <1>3 DEF Cx!Work, CoexTypes, CoexFields
<1>4. CASE w = "defreeze"
  BY <1>4 DEF Cx!Work, Cx!RunCoex, CoexTypes, CoexFields
<1>5. CASE w = "wl_remain"
  BY <1>5 DEF Cx!Work, Cx!RunCoex, CoexTypes, CoexFields
<1>6. CASE w = "bt_remain"
  BY <1>6 DEF Cx!Work, Cx!RunCoex, CoexTypes, CoexFields
<1>7. CASE w = "connecting"
  BY <1>7 DEF Cx!Work, Cx!RunCoex, CoexTypes, CoexFields
<1>8. CASE w = "multi_remain"
  BY <1>8 DEF Cx!Work, CoexTypes, CoexFields
<1> QED
  BY <1>1, <1>2, <1>3, <1>4, <1>5, <1>6, <1>7, <1>8

LEMMA BtInfoStopped ==
  ASSUME NEW d, NEW C, Good(d, C), NEW b, ~d.running
  PROVE  ~Cx!BtInfo(d, b).running
<1> DEFINE h == Cx!Heard(d)
           p == Cx!Page(h, b)
           s == Cx!SetupLink(p, b)
           m == Cx!MultiLink(s, b)
           i == Cx!LinkInfo(m, b)
<1>1. CoexTypes(h)
        /\ \A k \in CoexFields \ {"bt_disabled", "reenable", "queue"} : h[k] = d[k]
  <2>1. /\ Good(h, C)
        /\ \A k \in CoexFields \ {"bt_disabled", "reenable", "queue"} : h[k] = d[k]
    BY HeardGood, Zenon
  <2> HIDE DEF h
  <2> QED
    BY <2>1 DEF Good, Up
<1>2. Cx!BtInfo(d, b) = IF b = d.info THEN h ELSE Cx!RunCoex(i, "BTINFO")
  BY Zenon DEF Cx!BtInfo
<1> HIDE DEF h
<1>3. Reported(h, p, {"inq_page", "inq_remain"})
  BY <1>1, PageReported, Zenon
<1> HIDE DEF p
<1>4. Reported(p, s, {"setup_link"})
  <2>1. CoexTypes(p)
    BY <1>3 DEF Reported
  <2> QED
    BY <2>1, SetupReported, Zenon
<1> HIDE DEF s
<1>5. Reported(s, m, {"multi_remain"})
  <2>1. CoexTypes(s)
    BY <1>4 DEF Reported
  <2> QED
    BY <2>1, MultiReported, Zenon
<1> HIDE DEF m
<1>6. Reported(m, i, {"multi_remain", "info"})
  <2>1. CoexTypes(m)
    BY <1>5 DEF Reported
  <2> QED
    BY <2>1, LinkReported, Zenon
<1> HIDE DEF i
<1>7. h.running = d.running /\ i.running = d.running
  BY <1>1, <1>3, <1>4, <1>5, <1>6 DEF Reported, CoexFields
<1> QED
  BY <1>2, <1>7 DEF Cx!RunCoex

----------------------------------------------------------------------------
(* The inductive invariant.                                                *)
CoexInv ==
  /\ rtwdev.queue = {}
  /\ \A v, w \in executing : v = w
  /\ stop_at > 0 => ~rtwdev.running
  /\ Good(rtwdev, pending \cup executing)

LEMMA GoodMoves ==
  ASSUME NEW d, NEW A, NEW B, Good(d, A), A \subseteq B \cup {"c2h"}
  PROVE  Good(d, B)
  BY DEF Good, Up, Settled

LEMMA BecomesGood ==
  ASSUME NEW d, NEW C, NEW D, Good(d, C), C \cup d.queue \subseteq D,
         NEW r, r = [d EXCEPT !.queue = {}]
  PROVE  Good(r, D) /\ r.queue = {} /\ (r.running <=> d.running)
<1>1. CoexTypes(r) /\ r.queue = {} /\ \A k \in CoexFields \ {"queue"} : r[k] = d[k]
  BY DEF Good, Up, CoexTypes, CoexFields
<1>2. Fresh(d) => Fresh(r)
  <2>1. \A k \in Relevant \cup {"table", "tdma", "path"} : r[k] = d[k]
    BY <1>1 DEF Relevant, CoexFields
  <2> QED
    BY <1>1, <2>1, SameFresh DEF Good, Up
<1>3. r.running => Settled(r, D \cup r.queue)
  BY <1>1 DEF Good, Up, Settled, CoexFields
<1> QED
  BY <1>1, <1>2, <1>3 DEF Good, Up, Agrees, Binds, RightBand, CoexFields

(* A handler with the mutex.                                               *)
LEMMA CompletesGood ==
  ASSUME CoexInv, NEW d, Good(d, pending \cup executing), Cx!Completes(d)
  PROVE  CoexInv'
<1>1. /\ stop_at = 0 /\ rtwdev' = [d EXCEPT !.queue = {}] /\ pending' = pending \cup d.queue
      /\ executing' = executing /\ stop_at' = stop_at
  BY DEF Cx!Completes, Cx!Becomes
<1>2. Good(rtwdev', (pending \cup executing)') /\ rtwdev'.queue = {}
  <2>1. (pending \cup executing) \cup d.queue \subseteq pending' \cup executing'
    BY <1>1
  <2> QED
    BY <1>1, <2>1, BecomesGood
<1> QED
  BY <1>1, <1>2 DEF CoexInv

LEMMA CoexInit == Cx!Init => CoexInv
<1> SUFFICES ASSUME Cx!Init PROVE CoexInv
  OBVIOUS
<1>1. PICK o \in Cx!Outside : rtwdev = Cx!Over(o, Cx!Zero)
  BY DEF Cx!Init
<1>2. DOMAIN o \cup DOMAIN Cx!Zero = CoexFields
  BY DEF Cx!Outside, Cx!Zero, CoexFields
<1>3. rtwdev = [k \in CoexFields |-> IF k \in DOMAIN o THEN o[k] ELSE Cx!Zero[k]]
  BY <1>1, <1>2 DEF Cx!Over
<1>4. DOMAIN o = {"share_ant", "running", "freeze", "under_5g", "band", "scanning", "busy",
                  "stations", "queue"} /\ o.running = FALSE /\ o.queue = {}
  BY DEF Cx!Outside
<1>5. /\ rtwdev.running = FALSE /\ rtwdev.queue = {}
      /\ rtwdev.bt_disabled = Cx!Zero.bt_disabled
           /\ rtwdev.multi_remain = Cx!Zero.multi_remain
  BY <1>3, <1>4 DEF CoexFields
<1>6. CoexTypes(rtwdev)
  <2>1. Cx!Zero.bt_disabled = FALSE /\ Cx!Zero.multi_remain = FALSE
    BY DEF Cx!Zero
  <2>2. rtwdev = [k \in CoexFields |-> rtwdev[k]]
    <3> HIDE DEF CoexFields
    <3> QED
      BY <1>3
  <2> QED
    BY <1>5, <2>1, <2>2 DEF CoexTypes
<1>7. executing = {} /\ stop_at = 0
  BY DEF Cx!Init
<1> QED
  BY <1>5, <1>6, <1>7 DEF CoexInv, Good, Up, Agrees, Binds

LEMMA CoexNext == CoexInv /\ [Cx!Next]_(Cx!coex_vars) => CoexInv'
<1> SUFFICES ASSUME CoexInv, [Cx!Next]_(Cx!coex_vars) PROVE CoexInv'
  OBVIOUS
<1> DEFINE C == pending \cup executing
<1>1. Good(rtwdev, C) /\ CoexTypes(rtwdev) /\ rtwdev.queue = {}
  BY DEF CoexInv, Good, Up
<1>2. ASSUME NEW w \in {Cx!CancelOrder[i] : i \in 1..Len(Cx!CancelOrder)}, Cx!Take(w)
      PROVE  CoexInv'
  <2>1. /\ w \in pending /\ executing = {} /\ pending' = pending \ {w} /\ executing' = {w}
        /\ rtwdev' = rtwdev /\ stop_at' = stop_at
    BY <1>2 DEF Cx!Take
  <2>2. pending' \cup executing' = C
    BY <2>1
  <2> QED
    BY <1>1, <2>1, <2>2 DEF CoexInv
<1>3. ASSUME NEW w \in {Cx!CancelOrder[i] : i \in 1..Len(Cx!CancelOrder)}, Cx!RunWork(w)
      PROVE  CoexInv'
  <2> DEFINE d == Cx!Work(rtwdev, w)
             K == pending \cup (executing \ {w})
  <2>1. /\ w \in executing /\ w # "c2h"
        /\ rtwdev' = [d EXCEPT !.queue = {}] /\ pending' = pending \cup d.queue
        /\ executing' = executing \ {w} /\ stop_at' = stop_at
    BY <1>3 DEF Cx!RunWork, Cx!Becomes
  <2>2. Good(rtwdev, K \cup {w})
    BY <1>1, GoodMoves
  <2>3. Good(d, K)
    BY <2>1, <2>2, WorkGood
  <2>4. ~rtwdev.running => ~d.running
    <3>1. PICK i \in 1..Len(Cx!CancelOrder) : w = Cx!CancelOrder[i]
      OBVIOUS
    <3> QED
      BY <1>1, <2>1, <3>1, WorkStopped, Zenon
  <2> HIDE DEF d
  <2>5. K \cup d.queue \subseteq pending' \cup executing'
    BY <2>1
  <2>6. Good(rtwdev', pending' \cup executing') /\ rtwdev'.queue = {}
          /\ (rtwdev'.running <=> d.running)
    BY <2>1, <2>3, <2>5, BecomesGood
  <2> QED
    BY <2>1, <2>4, <2>6 DEF CoexInv
<1>4. CASE Cx!C2hWork
  <2>1. PICK b \in c2h :
          LET d == Cx!BtInfo(rtwdev, b)
              cancelled == IF Cx!CancelsRemain(b) THEN {"bt_remain"} ELSE {}
          IN  /\ executing \intersect cancelled = {}
              /\ Cx!Becomes(d) /\ pending' = (pending \ cancelled) \cup d.queue
    BY <1>4 DEF Cx!C2hWork
  <2> DEFINE d == Cx!BtInfo(rtwdev, b)
             cancelled == IF Cx!CancelsRemain(b) THEN {"bt_remain"} ELSE {}
             K == (pending \ cancelled) \cup (executing \ {"c2h"})
  <2>2. /\ executing \intersect cancelled = {}
        /\ rtwdev' = [d EXCEPT !.queue = {}]
             /\ pending' = (pending \ cancelled) \cup d.queue
        /\ executing' = executing \ {"c2h"} /\ stop_at' = stop_at
    BY <1>4, <2>1 DEF Cx!C2hWork, Cx!Becomes
  <2>3. cancelled = IF b # rtwdev.info
          /\ ~(Cx!InqPage(b) <=> rtwdev.inq_page) THEN {"bt_remain"} ELSE {}
    BY DEF Cx!CancelsRemain
  <2> HIDE DEF cancelled
  <2>4. Good(rtwdev, K \cup cancelled)
    BY <1>1, GoodMoves
  <2>5. Good(d, K)
    BY <2>3, <2>4, BtInfoGood
  <2>6. ~rtwdev.running => ~d.running
    BY <1>1, BtInfoStopped, Zenon
  <2> HIDE DEF d
  <2>7. K \cup d.queue \subseteq pending' \cup executing'
    BY <2>2
  <2>8. Good(rtwdev', pending' \cup executing') /\ rtwdev'.queue = {}
          /\ (rtwdev'.running <=> d.running)
    BY <2>2, <2>5, <2>7, BecomesGood
  <2> QED
    BY <2>2, <2>6, <2>8 DEF CoexInv
<1>5. CASE Cx!CancelWork
  <2>1. stop_at > 0 /\ rtwdev' = rtwdev /\ executing' = executing /\ ~rtwdev.running
    BY <1>5 DEF Cx!CancelWork, CoexInv
  <2> QED
    BY <1>1, <2>1 DEF CoexInv, Good, Up, Agrees, Binds
<1>6. CASE Cx!Start
  <2>1. Cx!Completes(Cx!CoreStart(rtwdev))
    BY <1>6 DEF Cx!Start
  <2> QED
    BY <1>1, <2>1, CoreStartGood, CompletesGood
<1>7. CASE Cx!LeaveIps
  <2>1. Cx!Completes(Cx!SwitchBand(Cx!InitHwConfig(Cx!CoreStart(rtwdev))))
    BY <1>7 DEF Cx!LeaveIps
  <2> QED
    BY <1>1, <2>1, LeaveIpsGood, CompletesGood
<1>8. CASE Cx!ScanStart
  <2>1. Cx!Completes([Cx!ScanStart2G(Cx!LeaveLps(rtwdev)) EXCEPT !.scanning = TRUE])
    BY <1>8 DEF Cx!ScanStart, Cx!Handler
  <2>2. Good(Cx!LeaveLps(rtwdev), C)
    BY <1>1, LeaveLpsGood
  <2>3. Good([Cx!ScanStart2G(Cx!LeaveLps(rtwdev)) EXCEPT !.scanning = TRUE], C)
    BY <2>2, ScanStartGood
  <2> QED
    BY <2>1, <2>3, CompletesGood
<1>9. CASE Cx!ScanComplete
  <2>1. Cx!Completes(Cx!ScanFinish([rtwdev EXCEPT !.scanning = FALSE]))
    BY <1>9 DEF Cx!ScanComplete
  <2> QED
    BY <1>1, <2>1, ScanFinishGood, CompletesGood
<1>10. CASE Cx!PrepareTx
  <2>1. Cx!Completes(Cx!ConnectStart(rtwdev))
    BY <1>10 DEF Cx!PrepareTx, Cx!Handler
  <2> QED
    BY <1>1, <2>1, ConnectStartGood, CompletesGood
<1>11. CASE Cx!Associate
  <2>1. Cx!Completes(Cx!MediaConnect(Cx!ConnectFinish([rtwdev EXCEPT !.stations = TRUE])))
    BY <1>11 DEF Cx!Associate, Cx!Handler
  <2> QED
    BY <1>1, <2>1, AssociateGood, CompletesGood
<1>12. CASE Cx!Disassociate
  <2>1. Cx!Completes([Cx!LeaveLps(rtwdev) EXCEPT !.stations = FALSE])
    BY <1>12 DEF Cx!Disassociate, Cx!Handler
  <2> QED
    BY <1>1, <2>1, DisassociateGood, CompletesGood
<1>13. ASSUME NEW on \in {"2G", "5G"}, Cx!SetChannel(on)
       PROVE  CoexInv'
  <2> DEFINE e == [rtwdev EXCEPT !.band = on]
  <2>1. Cx!Completes(Cx!SwitchBand(e))
    BY <1>13 DEF Cx!SetChannel, Cx!Handler
  <2>2. CoexTypes(e) /\ \A k \in CoexFields \ {"band"} : e[k] = rtwdev[k]
    BY <1>1 DEF CoexTypes, CoexFields
  <2> HIDE DEF e
  <2>3. Up(e, C)
    BY <1>1, <2>2 DEF Good, Up, Settled, CoexFields
  <2> QED
    BY <2>1, <2>3, SwitchBandGood, CompletesGood
<1>14. ASSUME NEW busy \in BOOLEAN, NEW heard \in BOOLEAN, NEW lps \in BOOLEAN,
              Cx!WatchDog(busy, heard, lps)
       PROVE  CoexInv'
  <2> DEFINE b == [rtwdev EXCEPT !.busy = busy]
             changed == IF busy # rtwdev.busy THEN Cx!RunCoex(b, "WLSTATUS") ELSE b
             awake == [Cx!LeaveLps(changed) EXCEPT !.heard = heard]
             r == CASE rtwdev.scanning -> changed
                    [] ~rtwdev.scanning /\ lps -> Cx!EnterLps(awake)
                    [] OTHER -> awake
  <2>1. Cx!Completes(r)
    BY <1>14, Zenon DEF Cx!WatchDog, Cx!Handler
  <2>2. Good(r, C)
    <3>1. /\ changed = IF busy # rtwdev.busy
               THEN Cx!RunCoex([rtwdev EXCEPT !.busy = busy], "WLSTATUS")
                                             ELSE [rtwdev EXCEPT !.busy = busy]
          /\ awake = [Cx!LeaveLps(changed) EXCEPT !.heard = heard]
          /\ r = CASE rtwdev.scanning -> changed
                    [] ~rtwdev.scanning /\ lps -> Cx!EnterLps(awake)
                    [] OTHER -> awake
      OBVIOUS
    <3> HIDE DEF changed, awake, r
    <3> QED
      BY <1>1, <3>1, WatchDogGood
  <2> HIDE DEF r
  <2> QED
    BY <2>1, <2>2, CompletesGood
<1>15. ASSUME NEW b \in BtInfos, Cx!Report(b)
       PROVE  CoexInv'
  <2>1. /\ pending' = pending \cup {"c2h"} /\ rtwdev' = rtwdev /\ executing' = executing
        /\ stop_at' = stop_at
    BY <1>15 DEF Cx!Report
  <2>2. Good(rtwdev', pending' \cup executing')
    BY <1>1, <2>1, GoodMoves
  <2> QED
    BY <1>1, <2>1, <2>2 DEF CoexInv
<1>16. ASSUME NEW ips \in BOOLEAN, Cx!StopBegin(ips)
       PROVE  CoexInv'
  <2> DEFINE table == IF rtwdev.share_ant THEN 2 ELSE 100
             tdma == IF rtwdev.share_ant THEN 0 ELSE 100
             off == [rtwdev EXCEPT !.under_ips = TRUE, !.path = "WOFF", !.table = table,
               !.tdma = tdma]
             d == IF ips THEN off ELSE rtwdev
  <2>1. rtwdev' = [d EXCEPT !.running = FALSE] /\ executing' = executing
    BY <1>16, Zenon DEF Cx!StopBegin
  <2> HIDE DEF table, tdma
  <2>2. CoexTypes(off) /\ off.queue = {}
    BY <1>1 DEF CoexTypes, CoexFields
  <2>3. CoexTypes(d) /\ d.queue = {}
    BY <1>1, <2>2
  <2> HIDE DEF d
  <2>4. CoexTypes(rtwdev') /\ rtwdev'.queue = {} /\ rtwdev'.running = FALSE
    BY <2>1, <2>3 DEF CoexTypes, CoexFields
  <2> QED
    BY <2>1, <2>4 DEF CoexInv, Good, Up, Agrees, Binds
<1>17. CASE UNCHANGED Cx!coex_vars
  BY <1>17 DEF Cx!coex_vars, CoexInv
<1> QED
  BY <1>2, <1>3, <1>4, <1>5, <1>6, <1>7, <1>8, <1>9, <1>10, <1>11, <1>12, <1>13, <1>14,
       <1>15,
     <1>16, <1>17 DEF Cx!Next

LEMMA CoexMeans == CoexInv => Cx!CoexSettles /\ Cx!CoexFresh
<1> SUFFICES ASSUME CoexInv PROVE Cx!CoexSettles /\ Cx!CoexFresh
  OBVIOUS
<1>1. Cx!CoexSettles
  BY DEF CoexInv, Cx!CoexSettles, Cx!Coming, Good, Up, Settled
<1>2. Cx!CoexFresh
  BY Zenon DEF CoexInv, Cx!CoexFresh, Good, Agrees, Binds, Fresh, InForce, Supposing,
       RightBand
<1> QED
  BY <1>1, <1>2

(* However starts, stops, scans, reports of Bluetooth and delayed works    *)
(* are interleaved, a passing condition of a running device keeps the work *)
(* that ends it (coex.c:3037), and the decision in force is that of what is*)
(* known now (coex.c:2548).                                                *)
THEOREM CoexIsSound == Cx!Spec => []CoexSound
<1>1. Cx!Spec => []CoexInv
  BY CoexInit, CoexNext, PTL DEF Cx!Spec
<1>2. CoexInv => CoexSound
  BY CoexMeans DEF CoexSound
<1> QED
  BY <1>1, <1>2, PTL

(***************************************************************************)
(* The power.  What is allowed, and what index it makes.                   *)
(***************************************************************************)

(* A set of integers that is bounded below.                                *)
Bounded(S) == S \subseteq Int /\ S # {} /\ \E b \in Int : \A x \in S : x >= b

(* It has a least one.                                                     *)
LEMMA LeastInt ==
  ASSUME NEW S, Bounded(S)
  PROVE  Pw!Min(S) \in S /\ \A y \in S : Pw!Min(S) <= y
<1>0. PICK b \in Int : \A x \in S : x >= b
  BY DEF Bounded
<1> DEFINE T == {x - b : x \in S}
<1>1. T \subseteq Nat /\ T # {}
  <2>1. \A x \in S : x \in Int /\ x - b \in Nat
    BY <1>0 DEF Bounded
  <2>2. PICK s \in S : TRUE
    BY DEF Bounded
  <2>3. s - b \in T
    OBVIOUS
  <2> QED
    BY <2>1, <2>3
<1>2. PICK t \in T : \A u \in T : t <= u
  <2> HIDE DEF T
  <2>1. PICK t \in T : \A u \in T : ~(<<u, t>> \in {p \in Nat \X Nat : p[1] < p[2]})
    BY <1>1, NatLessThanWellFounded, WFMin DEF OpToRel
  <2>2. ASSUME NEW u \in T PROVE t <= u
    <3>1. t \in Nat /\ u \in Nat /\ <<u, t>> \in Nat \X Nat
      BY <1>1
    <3>2. ~(u < t)
      BY <2>1, <3>1
    <3> QED
      BY <3>1, <3>2
  <2> QED
    BY <2>2
<1>3. PICK x \in S : t = x - b
  BY <1>2
<1>4. \A y \in S : x <= y
  <2> USE DEF Bounded
  <2> SUFFICES ASSUME NEW y \in S PROVE x <= y
    OBVIOUS
  <2>1. y - b \in T
    OBVIOUS
  <2>2. t <= y - b
    BY <1>2, <2>1
  <2> HIDE DEF T
  <2> QED
    BY <1>3, <2>2
<1> HIDE DEF T
<1> QED
  BY <1>3, <1>4 DEF Pw!Min, Bounded

(* What the limits of a domain are: the least of the lawful ones, 63 if    *)
(* none.                                                                   *)
Entries(d, w, rs, ch) == {e \in Pw!Lawful(d) : <<e.bw, e.rs, e.ch>> = <<w, rs, ch>>}

(* What is parsed of a domain's limits are those that Lawful gives it.     *)
LEMMA LimitsAre ==
  ASSUME limits \in Tables, NEW d, NEW w, NEW rs, NEW ch
  PROVE  Pw!Limits(d, w, rs, ch) = {e.lmt : e \in Entries(d, w, rs, ch)}
         /\ Entries(d, w, rs, ch) \subseteq limits
<1>1. \A e \in limits : e.lmt \in -63..63 /\ e.regd # "WW"
  BY PowerAssumption
<1>2. \A e \in limits : Pw!Clamp(e.lmt, -Pw!MAX, Pw!MAX) = e.lmt
  BY <1>1 DEF Pw!Clamp, Pw!MAX
<1> DEFINE source == Pw!Source(d)
<1>3. Pw!Lawful(d) = {e \in limits : source \in {e.regd, "WW"}}
  <2>1. CASE d \in Pw!Configured
    <3>1. source = d /\ d # "WW"
      BY <1>1, <2>1 DEF Pw!Source, Pw!Configured
    <3>2. {e \in limits : e.regd = d} # {}
      BY <2>1 DEF Pw!Configured
    <3>3. Pw!Lawful(d) = {e \in limits : e.regd = d}
      BY <3>2 DEF Pw!Lawful
    <3> QED
      BY <3>1, <3>3
  <2>2. CASE d \notin Pw!Configured
    <3>1. {e \in limits : e.regd = d} = {}
      BY <2>2 DEF Pw!Configured
    <3>2. CASE d \in DOMAIN Pw!Alternative /\ Pw!Alternative[d] \in Pw!Configured
      <4>1. source = Pw!Alternative[d] /\ Pw!Alternative[d] # "WW"
        BY <1>1, <2>2, <3>2 DEF Pw!Source, Pw!Configured
      <4>2. {e \in limits : e.regd = Pw!Alternative[d]} # {}
        BY <3>2 DEF Pw!Configured
      <4>3. {d} \cap DOMAIN Pw!Alternative = {d}
        BY <3>2
      <4>4. Pw!Lawful(d) = {e \in limits : e.regd = Pw!Alternative[d]}
        BY <3>1, <4>2, <4>3 DEF Pw!Lawful
      <4> QED
        BY <4>1, <4>4
    <3>3. CASE ~(d \in DOMAIN Pw!Alternative /\ Pw!Alternative[d] \in Pw!Configured)
      <4>1. source = "WW"
        BY <2>2, <3>3 DEF Pw!Source
      <4>2. \A a \in {d} \cap DOMAIN Pw!Alternative :
              {e \in limits : e.regd = Pw!Alternative[a]} = {}
        BY <3>3 DEF Pw!Configured
      <4>3. UNION {{e \in limits : e.regd = Pw!Alternative[a]} :
                     a \in {d} \cap DOMAIN Pw!Alternative} = {}
        BY <4>2
      <4>4. Pw!Lawful(d) = limits
        BY <3>1, <4>3 DEF Pw!Lawful
      <4> QED
        BY <4>1, <4>4
    <3> QED
      BY <3>2, <3>3
  <2> QED
    BY <2>1, <2>2
<1>4. Entries(d, w, rs, ch)
        = {e \in limits : <<e.bw, e.rs, e.ch>> = <<w, rs, ch>> /\ source \in {e.regd, "WW"}}
  BY <1>3 DEF Entries
<1>5. Pw!Limits(d, w, rs, ch) = {Pw!Clamp(e.lmt, -Pw!MAX, Pw!MAX) : e \in Entries(d, w, rs, ch)}
  BY <1>4 DEF Pw!Limits
<1> QED
  BY <1>2, <1>4, <1>5

Least(L, n) == /\ n \in -63..63 /\ (L = {} => n = 63)
               /\ L # {} => n \in L /\ n # 63 /\ \A l \in L : n <= l

(* The limit stored is the least of them, 63 if there is none.             *)
LEMMA StoredIs ==
  ASSUME limits \in Tables, NEW d, NEW w, NEW rs, NEW ch
  PROVE  /\ {e.lmt : e \in Entries(d, w, rs, ch)} \subseteq -63..63
         /\ Least({e.lmt : e \in Entries(d, w, rs, ch)} \ {63}, Pw!Stored(d, w, rs, ch))
<1> DEFINE L == {e.lmt : e \in Entries(d, w, rs, ch)}
<1>1. L \subseteq -63..63
  BY LimitsAre, PowerAssumption
<1>2. Pw!Stored(d, w, rs, ch) = Pw!Min(L \cup {63})
  BY LimitsAre DEF Pw!Stored, Pw!MAX
<1> HIDE DEF L
<1>3. /\ Pw!Min(L \cup {63}) \in L \cup {63}
      /\ \A y \in L \cup {63} : Pw!Min(L \cup {63}) <= y
  <2>1. \A x \in L \cup {63} : x \in Int /\ x >= -63
    BY <1>1
  <2>2. Bounded(L \cup {63})
    BY <2>1 DEF Bounded
  <2> QED
    BY <2>2, LeastInt
<1>4. Least(L \ {63}, Pw!Stored(d, w, rs, ch))
  <2> DEFINE n == Pw!Min(L \cup {63})
  <2>0. n \in L \cup {63}
    BY <1>3
  <2> HIDE DEF n
  <2>1. n \in -63..63 /\ (n # 63 => n \in L)
    BY <1>1, <2>0
  <2> USE DEF n
  <2>2. ASSUME NEW l \in L \ {63} PROVE n <= l /\ n # 63
    <3>1. l \in -63..62
      BY <1>1
    <3>2. n <= l
      BY <1>3
    <3> HIDE DEF n
    <3> QED
      BY <2>1, <3>1, <3>2
  <2>3. L \ {63} = {} => n = 63
    BY <1>3
  <2> HIDE DEF n
  <2>4. Least(L \ {63}, n)
    BY <2>1, <2>2, <2>3 DEF Least
  <2> QED
    BY <1>2, <2>4 DEF n
<1> QED
  BY <1>1, <1>4 DEF L

Own(d, w, rs, ch) == {e.lmt : e \in Entries(d, w, rs, ch)} \ {63}

Applying(d, w, rs, ch) ==
  IF Own(d, w, rs, ch) = {} /\ ch > 14 /\ w <= 40 /\ rs \in DOMAIN Pw!Twin
  THEN Own(d, w, Pw!Twin[rs], ch) ELSE Own(d, w, rs, ch)

(* The limit looked up is the least that applies, of the section or of its *)
(* twin.                                                                   *)
LEMMA TxPwrLimitIs ==
  ASSUME limits \in Tables, NEW d, NEW w, NEW rs, NEW ch
  PROVE  /\ Applying(d, w, rs, ch) \subseteq -63..63
         /\ Least(Applying(d, w, rs, ch), Pw!TxPwrLimit(d, w, rs, ch))
<1>1. Least(Own(d, w, rs, ch), Pw!Stored(d, w, rs, ch)) /\ Own(d, w, rs, ch) \subseteq -63..63
  BY StoredIs DEF Own
<1>2. Pw!Stored(d, w, rs, ch) = Pw!MAX <=> Own(d, w, rs, ch) = {}
  BY <1>1 DEF Least, Pw!MAX
<1>3. CASE Own(d, w, rs, ch) = {} /\ ch > 14 /\ w <= 40 /\ rs \in DOMAIN Pw!Twin
  <2>1. /\ Least(Own(d, w, Pw!Twin[rs], ch), Pw!Stored(d, w, Pw!Twin[rs], ch))
        /\ Own(d, w, Pw!Twin[rs], ch) \subseteq -63..63
    BY StoredIs DEF Own
  <2>2. /\ Applying(d, w, rs, ch) = Own(d, w, Pw!Twin[rs], ch)
        /\ Pw!TxPwrLimit(d, w, rs, ch) = Pw!Stored(d, w, Pw!Twin[rs], ch)
    BY <1>2, <1>3 DEF Applying, Pw!TxPwrLimit
  <2> QED
    BY <2>1, <2>2
<1>4. CASE ~(Own(d, w, rs, ch) = {} /\ ch > 14 /\ w <= 40 /\ rs \in DOMAIN Pw!Twin)
  <2>2. /\ Applying(d, w, rs, ch) = Own(d, w, rs, ch)
        /\ Pw!TxPwrLimit(d, w, rs, ch) = Pw!Stored(d, w, rs, ch)
    BY <1>2, <1>4 DEF Applying, Pw!TxPwrLimit
  <2> QED
    BY <1>1, <2>2
<1> QED
  BY <1>3, <1>4

(* The channel state of a channel mac80211 asked for.                      *)
Cch(c, w) ==
  CASE w = 20 -> c.primary
    [] w # 20 /\ w = c.width -> Pw!CenterChan(c)
    [] w # 20 /\ w # c.width -> IF c.primary_freq > c.center_freq THEN Pw!CenterChan(c) + 4
                               ELSE Pw!CenterChan(c) - 4

Tuned(h, c) ==
  /\ h.channel = Pw!CenterChan(c) /\ h.bw = c.width
  /\ h.sar_band = Pw!SarBand(Pw!CenterChan(c))
  /\ \A w \in {20, 40, 80} : w <= c.width => h.cch_by_bw[w] = Cch(c, w)

Bands == {"2G", "5G"}

(* What rate may be sent with, in half dBm, by all that applies.           *)
ByRegd(h, d, rate) ==
  UNION {Applying(d, w, rate[1], h.cch_by_bw[w]) : w \in Pw!Widths(rate[1], h.bw)}

BySar(h, spec) == IF h.sar_band \in DOMAIN spec THEN {spec[h.sar_band] \div 2} ELSE {}

Allowed(h, d, spec, rate) ==
  {PG[Pw!Band(h.channel)][rate]} \cup ByRegd(h, d, rate) \cup BySar(h, spec)

(* Where a rate's powers count from.                                       *)
From(h, rate) == Pw!PgBase(Pw!Band(h.channel), rate[1])

Offer(h, d, spec, rate) ==
  Pw!Min({Pw!Offset(Pw!Band(h.channel), rate), Pw!GetLimit(h, d, rate[1]),
          Pw!GetSar(spec, h.sar_band, rate[1])})

(* The powers of the board, and what they count from, are up to 63.        *)
LEMMA PgAre ==
  ASSUME NEW rate \in TxRates, NEW n
  PROVE  /\ Pw!Band(n) \in Bands
         /\ PG[Pw!Band(n)][rate] \in 0..63 /\ Pw!PgBase(Pw!Band(n), rate[1]) \in 0..63
         /\ Pw!Offset(Pw!Band(n), rate)
              = PG[Pw!Band(n)][rate] - Pw!PgBase(Pw!Band(n), rate[1])
<1>1. Pw!Band(n) \in Bands
  BY DEF Pw!Band, Bands
<1> QED
  BY <1>1, PowerAssumption DEF Bands, Pw!PgBase, Pw!Offset

(* The limit of a channel counts from the section's power, and is the      *)
(* least of what applies in its widths.                                    *)
LEMMA GetLimitIs ==
  ASSUME limits \in Tables, NEW h, NEW d, NEW rate \in TxRates
  PROVE  /\ Pw!GetLimit(h, d, rate[1]) \in -126..63 /\ ByRegd(h, d, rate) \subseteq -63..63
         /\ \A l \in ByRegd(h, d, rate) : Pw!GetLimit(h, d, rate[1]) <= l - From(h, rate)
         /\ \/ Pw!GetLimit(h, d, rate[1]) >= 63 - From(h, rate)
            \/ (Pw!GetLimit(h, d, rate[1]) + From(h, rate)) \in ByRegd(h, d, rate)
<1> DEFINE base == From(h, rate)
           W == Pw!Widths(rate[1], h.bw)
           At(w) == Applying(d, w, rate[1], h.cch_by_bw[w])
           lim(w) == Pw!TxPwrLimit(d, w, rate[1], h.cch_by_bw[w])
           G == {63} \cup {lim(w) - base : w \in W}
           g == Pw!GetLimit(h, d, rate[1])
           L == UNION {At(w) : w \in W}
<1>1. base \in 0..63
  BY PgAre DEF From
<1>2. \A w \in W : At(w) \subseteq -63..63 /\ Least(At(w), lim(w))
  BY TxPwrLimitIs
<1>3. \A w \in W : lim(w) \in -63..63
  BY <1>2 DEF Least
<1>4. g = Pw!Min(G)
  BY DEF Pw!GetLimit, Pw!MAX, From
<1>0. L = ByRegd(h, d, rate)
  BY DEF ByRegd
<1> HIDE DEF base, W, At, lim, g
<1>5. G \subseteq -126..63 /\ G # {}
  BY <1>1, <1>3
<1>6. g \in G /\ \A y \in G : g <= y
  <2> HIDE DEF G
  <2>0. \A x \in G : x \in Int /\ x >= -126
    BY <1>5
  <2>1. Bounded(G)
    BY <1>5, <2>0 DEF Bounded
  <2>2. Pw!Min(G) \in G /\ \A y \in G : Pw!Min(G) <= y
    BY <2>1, LeastInt
  <2> QED
    BY <1>4, <2>2
<1>7. ASSUME NEW l \in L PROVE g <= l - base
  <2>1. PICK w \in W : l \in At(w)
    OBVIOUS
  <2>2. lim(w) <= l /\ l \in -63..63
    BY <1>2, <2>1 DEF Least
  <2>3. g <= lim(w) - base
    BY <1>6
  <2> QED
    BY <1>1, <1>3, <1>5, <1>6, <2>2, <2>3
<1>8. g >= 63 - base \/ (g + base) \in L
  <2>1. CASE g = 63
    BY <1>1, <2>1
  <2>2. CASE g # 63
    <3>1. PICK w \in W : g = lim(w) - base
      BY <1>6, <2>2
    <3>2. g + base = lim(w)
      BY <1>1, <1>3, <3>1
    <3>3. lim(w) = 63 \/ lim(w) \in At(w)
      BY <1>2 DEF Least
    <3>4. lim(w) \in At(w) => lim(w) \in L
      OBVIOUS
    <3>5. CASE lim(w) = 63
      BY <1>1, <3>1, <3>5
    <3> QED
      BY <3>2, <3>3, <3>4, <3>5
  <2> QED
    BY <2>1, <2>2
<1>9. L \subseteq -63..63
  BY <1>2
<1>10. g \in -126..63
  BY <1>5, <1>6
<1> HIDE DEF L
<1> QED
  BY <1>0, <1>7, <1>8, <1>9, <1>10 DEF base, g

(* So is that of SAR, which is none for a band not given.                  *)
LEMMA GetSarIs ==
  ASSUME NEW h, NEW spec \in Sars \cup {<<>>}, NEW rate \in TxRates,
         (h.sar_band = 0) <=> (h.channel <= 14)
  PROVE  /\ Pw!GetSar(spec, h.sar_band, rate[1]) \in -127..63 /\ BySar(h, spec) \subseteq Int
         /\ \A l \in BySar(h, spec) : Pw!GetSar(spec, h.sar_band, rate[1]) <= l - From(h, rate)
         /\ \/ Pw!GetSar(spec, h.sar_band, rate[1]) >= 63 - From(h, rate)
            \/ (Pw!GetSar(spec, h.sar_band, rate[1]) + From(h, rate)) \in BySar(h, spec)
<1> DEFINE base == From(h, rate)
           v == Pw!GetSar(spec, h.sar_band, rate[1])
<1>1. base \in 0..63
  BY PgAre DEF From
<1>2. CASE h.sar_band \notin DOMAIN spec
  <2>1. v = 63 /\ BySar(h, spec) = {}
    BY <1>2 DEF Pw!GetSar, Pw!MAX, BySar
  <2> HIDE DEF base, v
  <2>2. v \in -127..63 /\ v >= 63 - base
    BY <1>1, <2>1
  <2>3. BySar(h, spec) \subseteq Int /\ \A l \in BySar(h, spec) : v <= l - base
    BY <2>1
  <2> QED
    BY <2>2, <2>3 DEF base, v
<1>3. CASE h.sar_band \in DOMAIN spec
  <2> DEFINE given == spec[h.sar_band]
             half == given \div 2
  <2>1. spec \in Sars
    BY <1>3
  <2>2. given \in Int /\ given >= -128
    BY <1>3, <2>1, PowerAssumption
  <2> HIDE DEF given
  <2>3. half \in Int /\ half >= -64
    BY <2>2
  <2>4. (IF h.sar_band = 0 THEN "2G" ELSE "5G") = Pw!Band(h.channel)
    BY DEF Pw!Band
  <2>5. v = Pw!Clamp(half, -64, 63) - base
    BY <1>3, <2>4 DEF Pw!GetSar, Pw!SarToPhy, Pw!MAX, given, From
  <2> HIDE DEF half, base, v
  <2>6. v = (IF half > 63 THEN 63 ELSE half) - base
    BY <2>3, <2>5 DEF Pw!Clamp
  <2>7. v \in -127..63 /\ v <= half - base /\ (v >= 63 - base \/ v + base = half)
    BY <1>1, <2>3, <2>6
  <2>8. BySar(h, spec) = {half}
    BY <1>3 DEF BySar, half, given
  <2> QED
    BY <2>3, <2>7, <2>8 DEF base, v
<1> QED
  BY <1>2, <1>3

(* What a rate is offered is the least that is allowed.                    *)
LEMMA OfferIs ==
  ASSUME limits \in Tables, NEW h, NEW d, NEW spec \in Sars \cup {<<>>}, NEW rate \in TxRates,
         (h.sar_band = 0) <=> (h.channel <= 14)
  PROVE  /\ Offer(h, d, spec, rate) \in Int
         /\ Pw!Min(Allowed(h, d, spec, rate)) \in Int
         /\ Pw!Min(Allowed(h, d, spec, rate))
              = Offer(h, d, spec, rate) + From(h, rate)
<1> DEFINE base == From(h, rate)
           pg == PG[Pw!Band(h.channel)][rate]
           o == Pw!Offset(Pw!Band(h.channel), rate)
           g == Pw!GetLimit(h, d, rate[1])
           v == Pw!GetSar(spec, h.sar_band, rate[1])
           L == ByRegd(h, d, rate)
           S == BySar(h, spec)
           B == {pg} \cup L \cup S
           m == Offer(h, d, spec, rate)
<1>1. base \in 0..63 /\ pg \in 0..63 /\ o = pg - base
  BY PgAre DEF From
<1>2. /\ g \in -126..63 /\ L \subseteq -63..63 /\ \A l \in L : g <= l - base
      /\ g >= 63 - base \/ (g + base) \in L
  BY GetLimitIs
<1>3. /\ v \in -127..63 /\ S \subseteq Int /\ \A l \in S : v <= l - base
      /\ v >= 63 - base \/ (v + base) \in S
  BY GetSarIs
<1>4. m = Pw!Min({o, g, v}) /\ Allowed(h, d, spec, rate) = B
  BY DEF Offer, Allowed
<1> HIDE DEF base, pg, o, g, v, L, S, m
<1>5. m \in {o, g, v} /\ m <= o /\ m <= g /\ m <= v
  <2>0. \A x \in {o, g, v} : x \in Int /\ x >= -127
    BY <1>1, <1>2, <1>3
  <2>1. Bounded({o, g, v})
    BY <2>0 DEF Bounded
  <2>2. Pw!Min({o, g, v}) \in {o, g, v} /\ \A y \in {o, g, v} : Pw!Min({o, g, v}) <= y
    BY <2>1, LeastInt
  <2> QED
    BY <1>4, <2>2
<1>6. m \in -127..63
  BY <1>1, <1>2, <1>3, <1>5
<1>7. \A l \in B : m + base <= l /\ l \in Int
  BY <1>1, <1>2, <1>3, <1>5, <1>6
<1>8. m + base \in B
  <2>1. m + base <= pg
    BY <1>1, <1>5, <1>6
  <2>2. CASE m = o
    BY <1>1, <2>2
  <2>3. CASE m = g
    BY <1>1, <1>2, <2>1, <2>3
  <2>4. CASE m = v
    BY <1>1, <1>3, <2>1, <2>4
  <2> QED
    BY <1>5, <2>2, <2>3, <2>4
<1>9. Pw!Min(B) = m + base
  <2> HIDE DEF B
  <2>1. Pw!Min(B) \in B /\ \A y \in B : Pw!Min(B) <= y
    <3>0. m + base \in Int /\ \A x \in B : x \in Int /\ x >= m + base
      BY <1>1, <1>6, <1>7, <1>8
    <3>1. Bounded(B)
      BY <1>8, <3>0 DEF Bounded
    <3> QED
      BY <3>1, LeastInt
  <2>2. Pw!Min(B) <= m + base /\ m + base <= Pw!Min(B) /\ Pw!Min(B) \in Int
    BY <1>7, <1>8, <2>1
  <2> QED
    BY <1>1, <1>6, <2>2
<1>10. Pw!Min(Allowed(h, d, spec, rate)) = m + base
  BY <1>4, <1>9
<1>11. m + base \in Int /\ m \in Int
  BY <1>1, <1>6
<1> QED
  BY <1>10, <1>11 DEF base, m

(* The channels mac80211 asks for.                                         *)
LEMMA CentersAre ==
  ASSUME NEW c \in Chandefs
  PROVE  /\ Pw!CenterChan(c) \in 1..14 \cup 36..64 \cup 100..144 \cup 149..177
         /\ c.width \in {20, 40, 80} /\ c.primary \in Int
         /\ (Pw!SarBand(Pw!CenterChan(c)) = 0) <=> (Pw!CenterChan(c) <= 14)
<1>1. /\ Pw!CenterChan(c) \in 1..14 \cup 36..64 \cup 100..144 \cup 149..177
      /\ c.width \in {20, 40, 80} /\ c.primary \in Int
  BY ChandefAssumption
<1>2. \A n \in 1..14 \cup 36..64 \cup 100..144 \cup 149..177 : Pw!SarBand(n) = 0 <=> n <= 14
  BY DEF Pw!SarBand
<1> QED
  BY <1>1, <1>2

(* SAR's band 0 is that of 2.4 GHz.                                        *)
LEMMA TunedSar ==
  ASSUME NEW h, NEW c \in Chandefs, Tuned(h, c)
  PROVE  (h.sar_band = 0) <=> (h.channel <= 14)
  BY CentersAre DEF Tuned

(* The index of the calibrated power depends on the channel alone.         *)
LEMMA BaseIs ==
  ASSUME NEW h, NEW c \in Chandefs, Tuned(h, c), NEW p \in Pw!Paths, NEW rate \in TxRates
  PROVE  /\ Pw!Base(h, p, rate[1]) \in Nat
         /\ Pw!Base(h, p, rate[1])
              = Pw!Base([channel |-> Pw!CenterChan(c), bw |-> c.width], p, rate[1])
<1> DEFINE k == [channel |-> Pw!CenterChan(c), bw |-> c.width]
<1>1. h.channel = k.channel /\ h.bw = k.bw
  BY DEF Tuned
<1>2. Pw!Base(k, p, rate[1]) \in Nat
  BY PowerAssumption
<1> HIDE DEF k
<1>3. Pw!Base(h, p, rate[1]) = Pw!Base(k, p, rate[1])
  BY <1>1 DEF Pw!Base
<1> QED
  BY <1>2, <1>3 DEF k

(* The index is the sum, capped at 63, unless the sum is below zero.       *)
LEMMA IndexIs ==
  ASSUME NEW h, NEW d, NEW spec, NEW dm, NEW p, NEW rate, Pw!Base(h, p, rate[1]) \in Nat,
         Offer(h, d, spec, rate) \in Int, Pw!Remnant(dm, p, rate[1]) \in Int
  PROVE  LET sum == Pw!Base(h, p, rate[1]) + Offer(h, d, spec, rate) + Pw!Remnant(dm, p, rate[1])
         IN  /\ Pw!Index(h, d, spec, dm, p, rate) \in 0..63
             /\ sum >= 0 => Pw!Index(h, d, spec, dm, p, rate) <= sum
<1> DEFINE sum == Pw!Base(h, p, rate[1]) + Offer(h, d, spec, rate) + Pw!Remnant(dm, p, rate[1])
           byte == Pw!U8(sum)
<1>1. sum \in Int
  OBVIOUS
<1> HIDE DEF sum
<1>2. byte \in 0..255 /\ (sum >= 0 => byte <= sum)
  BY <1>1 DEF Pw!U8
<1>3. Pw!Index(h, d, spec, dm, p, rate) = Pw!Min({byte, 63})
  BY DEF Pw!Index, Offer, Pw!MAX, sum
<1> HIDE DEF byte
<1>4. Pw!Min({byte, 63}) \in {byte, 63} /\ \A y \in {byte, 63} : Pw!Min({byte, 63}) <= y
  <2>1. \A x \in {byte, 63} : x \in Int /\ x >= 0
    BY <1>2
  <2>2. Bounded({byte, 63})
    BY <2>1 DEF Bounded
  <2> QED
    BY <2>2, LeastInt
<1>5. Pw!Min({byte, 63}) \in 0..63 /\ (sum >= 0 => Pw!Min({byte, 63}) <= sum)
  BY <1>1, <1>2, <1>4
<1> QED
  BY <1>3, <1>5 DEF sum

(* The widths looked up are those up to the one in use.                    *)
LEMMA WidthsAre ==
  ASSUME NEW rs, NEW bw \in {20, 40, 80}
  PROVE  \A w \in Pw!Widths(rs, bw) : w \in {20, 40, 80} /\ w <= bw /\ (rs \in Pw!Legacy => w = 20)
  BY DEF Pw!Widths

(* The index of a rate is the same wherever the device came from.          *)
LEMMA IndexAt ==
  ASSUME NEW h, NEW k, NEW c \in Chandefs, Tuned(h, c), Tuned(k, c), NEW d, NEW spec, NEW dm,
         NEW p \in Pw!Paths, NEW rate \in TxRates
  PROVE  /\ Pw!Index(h, d, spec, dm, p, rate) = Pw!Index(k, d, spec, dm, p, rate)
         /\ \A r : Pw!Domain(r, h) = Pw!Domain(r, k)
<1>1. Pw!Base(h, p, rate[1]) = Pw!Base(k, p, rate[1])
  BY BaseIs
<1>2. h.channel = k.channel /\ h.bw = k.bw /\ h.sar_band = k.sar_band
  BY DEF Tuned
<1>3. \A w \in Pw!Widths(rate[1], h.bw) : h.cch_by_bw[w] = k.cch_by_bw[w]
  BY WidthsAre, CentersAre DEF Tuned
<1>4. Pw!GetLimit(h, d, rate[1]) = Pw!GetLimit(k, d, rate[1])
  <2> DEFINE lim(i, w) == Pw!TxPwrLimit(d, w, rate[1], i.cch_by_bw[w])
                            - Pw!PgBase(Pw!Band(i.channel), rate[1])
  <2>1. \A w \in Pw!Widths(rate[1], h.bw) : lim(h, w) = lim(k, w)
    BY <1>2, <1>3
  <2> HIDE DEF lim
  <2>2. {lim(h, w) : w \in Pw!Widths(rate[1], h.bw)} = {lim(k, w) : w \in Pw!Widths(rate[1], k.bw)}
    BY <1>2, <2>1
  <2> QED
    BY <2>2 DEF Pw!GetLimit, lim
<1>5. Pw!Index(h, d, spec, dm, p, rate) = Pw!Index(k, d, spec, dm, p, rate)
  BY <1>1, <1>2, <1>4 DEF Pw!Index
<1>6. \A r : Pw!Domain(r, h) = Pw!Domain(r, k)
  BY <1>2 DEF Pw!Domain
<1> QED
  BY <1>5, <1>6

(* The index depends on tracking by the remnant alone.                     *)
LEMMA IndexOfRemnant ==
  ASSUME NEW h, NEW d, NEW spec, NEW dm, NEW dn, NEW p, NEW rate,
         Pw!Remnant(dm, p, rate[1]) = Pw!Remnant(dn, p, rate[1])
  PROVE  Pw!Index(h, d, spec, dm, p, rate) = Pw!Index(h, d, spec, dn, p, rate)
  BY DEF Pw!Index

(* The table of limits does not change.                                    *)
LEMMA IndexStays ==
  ASSUME limits' = limits, NEW h, NEW d, NEW spec, NEW dm, NEW p, NEW rate
  PROVE  Pw!Index(h, d, spec, dm, p, rate)' = Pw!Index(h, d, spec, dm, p, rate)
  BY DEF Pw!Index, Pw!GetLimit, Pw!TxPwrLimit, Pw!Stored, Pw!Limits, Pw!Source, Pw!Configured

(***************************************************************************)
(* The invariant.  hal is that of the channel in use, or, in a scan, of one*)
(* of 20 MHz (Where).  Swing and remnant make up the shift (Shifted), and  *)
(* CCK's remnant exceeds that of OFDM by no more than it counts higher     *)
(* (CckShifted).  The registers hold the index of the channel: of OFDM     *)
(* always, of HT and VHT that of the operating channel, of CCK with a      *)
(* remnant that may be an earlier one.                                     *)
(***************************************************************************)
Users == {"00"} \cup {Pw!Country(q.alpha2) : q \in Requests}

PowerTypes ==
  /\ limits \in Tables /\ op \in Chandefs /\ sar \in Sars \cup {<<>>} /\ pw_scan \in BOOLEAN
  /\ hal.cch_by_bw \in [{20, 40, 80} -> Int]
  /\ pwrtrk \in [default : {SWING["2G"], SWING["5G"]}, delta : [Pw!Paths -> Int],
                 remnant : [Pw!Paths -> Int], remnant_cck : Int]
  /\ swing \in [Pw!Paths -> Int]
  /\ pw_left \in [remnant : SUBSET {"A", "B", "CCK"}, cck : BOOLEAN, scan : BOOLEAN, user : Users]

Where == \E c \in Chandefs : Tuned(hal, c) /\ (c = op \/ (pw_scan /\ c.width = 20))

Shifted ==
  \A p \in Pw!Paths :
    p \notin pw_left.remnant /\ pwrtrk.default = SWING[Pw!Band(hal.channel)]
      => swing[p] + pwrtrk.remnant[p] = pwrtrk.default + pwrtrk.delta[p]

CckRemnants == pwrtrk.remnant["A"] .. pwrtrk.remnant["A"] + 24 - pwrtrk.default

CckShifted == "CCK" \notin pw_left.remnant => pwrtrk.remnant_cck \in CckRemnants

(* The index of a rate as things are, and what hal is on a channel.        *)
Due(h, dm, p, rate) == Pw!Index(h, Pw!Domain(regd, h), sar, dm, p, rate)

HalOf(c) ==
  [bw |-> c.width, channel |-> Pw!CenterChan(c), sar_band |-> Pw!SarBand(Pw!CenterChan(c)),
   cch_by_bw |-> [w \in {20, 40, 80} |-> Cch(c, w)]]

OfdmWritten ==
  \A p \in Pw!Paths, rate \in TxRates :
    rate[1] = "OFDM" => agc[p][rate] = Due(hal, pwrtrk, p, rate)

HtWritten ==
  ~pw_left.scan =>
    \A p \in Pw!Paths, rate \in TxRates :
      rate[1] \notin Pw!Legacy => agc[p][rate] = Due(HalOf(op), pwrtrk, p, rate)

CckWritten ==
  hal.channel <= 14 /\ ~pw_left.cck =>
    \A rate \in TxRates : rate[1] = "CCK" =>
      \E n \in CckRemnants : agc["A"][rate] = Due(hal, [remnant_cck |-> n], "A", rate)

PowerInv ==
  /\ PowerTypes /\ Where /\ Shifted /\ CckShifted /\ OfdmWritten /\ HtWritten /\ CckWritten

(* rtw_update_channel leaves the state of the channel it is given.         *)
LEMMA UpdateIs ==
  ASSUME NEW h, h.cch_by_bw \in [{20, 40, 80} -> Int], NEW c \in Chandefs
  PROVE  /\ Tuned(Pw!UpdateChannel(h, c), c)
         /\ Pw!UpdateChannel(h, c).cch_by_bw \in [{20, 40, 80} -> Int]
<1> DEFINE k == Pw!UpdateChannel(h, c)
           center == Pw!CenterChan(c)
           narrow == [h.cch_by_bw EXCEPT ![20] = c.primary]
           wide == [narrow EXCEPT ![c.width] = center]
           below == IF c.primary_freq > c.center_freq THEN center + 4 ELSE center - 4
           both == [wide EXCEPT ![40] = below]
<1>1. center \in Int /\ c.width \in {20, 40, 80} /\ c.primary \in Int
  BY CentersAre
<1>2. c.width = 20 => center = c.primary
  BY DEF Pw!CenterChan
<1>3. /\ k.channel = center /\ k.bw = c.width /\ k.sar_band = Pw!SarBand(center)
      /\ k.cch_by_bw = IF c.width = 80 THEN both ELSE wide
  BY DEF Pw!UpdateChannel
<1> HIDE DEF k, center
<1>4. narrow \in [{20, 40, 80} -> Int] /\ wide \in [{20, 40, 80} -> Int]
  BY <1>1
<1>5. both \in [{20, 40, 80} -> Int]
  <2>1. below \in Int
    BY <1>1
  <2> QED
    BY <1>4, <2>1
<1>6. ASSUME NEW w \in {20, 40, 80}, w <= c.width
      PROVE  k.cch_by_bw[w] = Cch(c, w)
  <2>1. CASE c.width = 20
    BY <1>1, <1>2, <1>3, <1>6, <2>1 DEF Cch
  <2>2. CASE c.width = 40
    BY <1>1, <1>3, <1>6, <2>2 DEF Cch, center
  <2>3. CASE c.width = 80
    BY <1>1, <1>3, <1>6, <2>3 DEF Cch, center
  <2> QED
    BY <1>1, <2>1, <2>2, <2>3
<1> QED
  BY <1>3, <1>4, <1>5, <1>6 DEF Tuned, k, center

(* HalOf is the state of its channel.                                      *)
LEMMA HalOfTuned ==
  ASSUME NEW c \in Chandefs
  PROVE  Tuned(HalOf(c), c)
  BY DEF HalOf, Tuned

(* What is due is the same wherever the device came from.                  *)
LEMMA DueAt ==
  ASSUME NEW h, NEW k, NEW c \in Chandefs, Tuned(h, c), Tuned(k, c), NEW dm,
         NEW p \in Pw!Paths, NEW rate \in TxRates
  PROVE  Due(h, dm, p, rate) = Due(k, dm, p, rate)
<1>1. Pw!Domain(regd, h) = Pw!Domain(regd, k)
  BY DEF Tuned, Pw!Domain
<1> QED
  BY <1>1, IndexAt DEF Due

(* Bytes, within the range that shifts and limits leave.                   *)
LEMMA BytesAre ==
  /\ \A n \in 0..127 : Pw!U8(n) = n
  /\ \A n \in -128..(-1) : Pw!U8(n) = n + 256
  /\ \A n \in -128..127 : Pw!S8(n) = n /\ Pw!S8(n + 256) = n
<1>1. ASSUME NEW n \in 0..127 PROVE Pw!U8(n) = n /\ Pw!S8(n) = n /\ Pw!S8(n + 256) = n
  <2>1. n % 256 = n /\ (n + 256) % 256 = n
    OBVIOUS
  <2> QED
    BY <2>1 DEF Pw!U8, Pw!S8
<1>2. ASSUME NEW n \in -128..(-1) PROVE Pw!U8(n) = n + 256 /\ Pw!S8(n) = n /\ Pw!S8(n + 256) = n
  <2>1. n % 256 = n + 256 /\ (n + 256) % 256 = n + 256
    OBVIOUS
  <2> QED
    BY <2>1 DEF Pw!U8, Pw!S8
<1> QED
  BY <1>1, <1>2

(***************************************************************************)
(* Tracking.                                                               *)
(***************************************************************************)
Trackers ==
  [default : {SWING["2G"], SWING["5G"]}, delta : [Pw!Paths -> Int],
   remnant : [Pw!Paths -> Int], remnant_cck : Int]

Lefts == [remnant : SUBSET {"A", "B", "CCK"}, cck : BOOLEAN, scan : BOOLEAN, user : Users]

Tracking == [dm : Trackers, swing : [Pw!Paths -> Int], left : Lefts]

(* A path is set to what the temperature asks for.                         *)
SetTo(e, path, delta) ==
  /\ e.swing[path] + e.dm.remnant[path] = e.dm.default + delta
  /\ e.dm.delta[path] = delta /\ path \notin e.left.remnant

ExceedsBy(dm) == dm.remnant_cck \in dm.remnant["A"] .. dm.remnant["A"] + 24 - dm.default

(* A swing is at most 24.                                                  *)
LEMMA DefaultsAre ==
  SWING["2G"] \in 0..24 /\ SWING["5G"] \in 0..24
  BY PowerAssumption

(* What rtw88xxa_pwrtrack_set makes of a shift.                            *)
OfdmOf(default, delta) == Pw!U8(delta + default)
CckOf(delta) == Pw!U8(delta + 24)

SetOf(default, delta, limit) ==
  IF OfdmOf(default, delta) > limit THEN limit ELSE OfdmOf(default, delta)

RestOf(default, delta, limit) ==
  CASE OfdmOf(default, delta) > limit -> Pw!S8(OfdmOf(default, delta) - limit) [] OTHER -> 0

CckRestOf(default, delta, limit) ==
  CASE OfdmOf(default, delta) > limit -> Pw!S8(CckOf(delta) - limit)
    [] OfdmOf(default, delta) = 0 -> Pw!S8(CckOf(delta))
    [] OTHER -> 0

(* Swing and remnant make up the shift; CCK's remnant exceeds that of OFDM *)
(* by at most what 24 exceeds the default.                                 *)
LEMMA SwingAndRemnant ==
  ASSUME NEW default \in 0..24, NEW delta \in Deltas, NEW limit \in SwingLimits
  PROVE  /\ SetOf(default, delta, limit) \in Int /\ RestOf(default, delta, limit) \in Int
         /\ CckRestOf(default, delta, limit) \in Int
         /\ SetOf(default, delta, limit) + RestOf(default, delta, limit) = default + delta
         /\ CckRestOf(default, delta, limit)
              \in RestOf(default, delta, limit) .. RestOf(default, delta, limit) + 24 - default
<1> DEFINE n == delta + default
           k == delta + 24
           ofdm == OfdmOf(default, delta)
           cck == CckOf(delta)
           set == SetOf(default, delta, limit)
           rest == RestOf(default, delta, limit)
           cck_rest == CckRestOf(default, delta, limit)
<1>1. delta \in -63..63 /\ limit \in 0..63
  BY PowerAssumption
<1>2. n \in -63..87 /\ k \in -39..87 /\ n - limit \in -126..87 /\ k - limit \in -102..87
  BY <1>1
<1>3. k - n = 24 - default /\ k - n \in 0..24 /\ n = default + delta
  BY <1>1
<1>0. /\ set = IF ofdm > limit THEN limit ELSE ofdm
      /\ rest = CASE ofdm > limit -> Pw!S8(ofdm - limit) [] OTHER -> 0
      /\ cck_rest = CASE ofdm > limit -> Pw!S8(cck - limit) [] ofdm = 0 -> Pw!S8(cck) [] OTHER -> 0
  BY DEF SetOf, RestOf, CckRestOf
<1>4. (n >= 0 => ofdm = n) /\ (n < 0 => ofdm = n + 256)
  BY <1>2, BytesAre DEF OfdmOf
<1>5. (k >= 0 => cck = k) /\ (k < 0 => cck = k + 256)
  BY <1>2, BytesAre DEF CckOf
<1> HIDE DEF n, k, ofdm, cck, set, rest, cck_rest
<1>6. Pw!S8(ofdm - limit) = n - limit
  <2>1. CASE n >= 0
    BY <1>2, <1>4, <2>1, BytesAre
  <2>2. CASE n < 0
    <3>1. ofdm - limit = (n - limit) + 256
      BY <1>1, <1>2, <1>4, <2>2
    <3> QED
      BY <1>2, <3>1, BytesAre
  <2> QED
    BY <1>2, <2>1, <2>2
<1>7. Pw!S8(cck - limit) = k - limit
  <2>1. CASE k >= 0
    BY <1>2, <1>5, <2>1, BytesAre
  <2>2. CASE k < 0
    <3>1. cck - limit = (k - limit) + 256
      BY <1>1, <1>2, <1>5, <2>2
    <3> QED
      BY <1>2, <3>1, BytesAre
  <2> QED
    BY <1>2, <2>1, <2>2
<1>8. Pw!S8(cck) = k
  BY <1>2, <1>5, BytesAre
<1>9. set + rest = n /\ cck_rest \in rest .. rest + 24 - default /\ set \in Int /\ rest \in Int
      /\ cck_rest \in Int
  <2>1. CASE ofdm > limit
    <3>1. set = limit /\ rest = n - limit
      BY <1>0, <1>6, <2>1
    <3>2. ofdm # 0
      BY <1>1, <2>1
    <3>3. cck_rest = k - limit
      BY <1>0, <1>7, <2>1, <3>2
    <3> QED
      BY <1>1, <1>2, <1>3, <3>1, <3>3
  <2>2. CASE ~(ofdm > limit)
    <3>1. n >= 0 /\ ofdm = n
      BY <1>1, <1>2, <1>4, <2>2
    <3>2. set = n /\ rest = 0
      BY <1>0, <2>2, <3>1
    <3>3. cck_rest = 0 \/ (n = 0 /\ cck_rest = k)
      BY <1>0, <1>8, <2>2, <3>1
    <3> QED
      BY <1>2, <1>3, <3>2, <3>3
  <2> QED
    BY <2>1, <2>2
<1> QED
  BY <1>3, <1>9 DEF set, rest, cck_rest

(* What one call does to the state of tracking.                            *)
SetPath(d, path, delta, limit) ==
  [swing |-> [d.swing EXCEPT ![path] = SetOf(d.dm.default, delta, limit)],
   dm |-> [default |-> d.dm.default,
           delta |-> [d.dm.delta EXCEPT ![path] = delta],
           remnant |-> [d.dm.remnant EXCEPT ![path] = RestOf(d.dm.default, delta, limit)],
           remnant_cck |-> IF path = "A" THEN CckRestOf(d.dm.default, delta, limit)
                           ELSE d.dm.remnant_cck],
   left |-> [d.left EXCEPT !.remnant = @ \ (IF path = "A" THEN {"A", "CCK"} ELSE {path})]]

(* rtw88xxa_pwrtrack_set, in these terms.                                  *)
LEMMA SetPathIs ==
  ASSUME NEW d, NEW path, NEW delta, NEW limit
  PROVE  Pw!PwrtrackSet(d, path, delta, limit)
           = IF d.dm.delta[path] = delta THEN d ELSE SetPath(d, path, delta, limit)
  BY DEF Pw!PwrtrackSet, SetPath, SetOf, RestOf, CckRestOf, OfdmOf, CckOf

(* The part of CCK is as it was, or set anew.                              *)
CckKept(e, d) ==
  /\ ("CCK" \in e.left.remnant) = ("CCK" \in d.left.remnant)
  /\ e.dm.remnant_cck = d.dm.remnant_cck /\ e.dm.remnant["A"] = d.dm.remnant["A"]

(* A call sets its path and no other.                                      *)
PathSet(e, d, path, delta) ==
  /\ e \in Tracking /\ e.dm.default = d.dm.default
  /\ e.left = [d.left EXCEPT !.remnant = e.left.remnant]
  /\ e.left.remnant \subseteq d.left.remnant
  /\ d.left.remnant \ e.left.remnant \subseteq {path, "CCK"}
  /\ \A q \in Pw!Paths \ {path} : /\ e.swing[q] = d.swing[q]
                                  /\ e.dm.delta[q] = d.dm.delta[q]
                                  /\ e.dm.remnant[q] = d.dm.remnant[q]
  /\ e = d \/ SetTo(e, path, delta)
  /\ CckKept(e, d) \/ ExceedsBy(e.dm)

(* rtw88xxa_pwrtrack_set sets its path, or leaves all as it was.           *)
LEMMA PwrtrackSetIs ==
  ASSUME NEW d \in Tracking, NEW path \in Pw!Paths, NEW delta \in Deltas, NEW limit \in SwingLimits
  PROVE  PathSet(Pw!PwrtrackSet(d, path, delta, limit), d, path, delta)
<1> DEFINE default == d.dm.default
           rest == RestOf(default, delta, limit)
           cck_rest == CckRestOf(default, delta, limit)
           set == SetOf(default, delta, limit)
<1>1. default \in 0..24 /\ default \in {SWING["2G"], SWING["5G"]}
  BY DefaultsAre DEF Tracking, Trackers
<1>2. /\ set \in Int /\ rest \in Int /\ cck_rest \in Int /\ set + rest = default + delta
      /\ cck_rest \in rest .. rest + 24 - default
  BY <1>1, SwingAndRemnant
<1>3. delta \in Int
  BY PowerAssumption
<1>4. CASE d.dm.delta[path] = delta
  <2>1. PathSet(d, d, path, delta)
    <3>1. d.left = [d.left EXCEPT !.remnant = d.left.remnant]
      BY DEF Tracking, Lefts
    <3> QED
      BY <3>1 DEF PathSet, CckKept
  <2> QED
    BY <1>4, <2>1, SetPathIs
<1>5. CASE d.dm.delta[path] # delta
  <2> DEFINE e == SetPath(d, path, delta, limit)
  <2>3. /\ e.swing = [d.swing EXCEPT ![path] = set]
        /\ e.left = [d.left EXCEPT !.remnant = @ \ (IF path = "A" THEN {"A", "CCK"} ELSE {path})]
        /\ e = [dm |-> e.dm, swing |-> e.swing, left |-> e.left]
    BY DEF SetPath
  <2>4. /\ e.dm.default = default
        /\ e.dm.delta = [d.dm.delta EXCEPT ![path] = delta]
        /\ e.dm.remnant = [d.dm.remnant EXCEPT ![path] = rest]
        /\ e.dm.remnant_cck = IF path = "A" THEN cck_rest ELSE d.dm.remnant_cck
        /\ e.dm = [default |-> e.dm.default, delta |-> e.dm.delta, remnant |-> e.dm.remnant,
                   remnant_cck |-> e.dm.remnant_cck]
    BY DEF SetPath
  <2> HIDE DEF e, set, rest, cck_rest, default
  <2>5. e.dm \in Trackers
    <3>1. /\ d.dm.delta \in [Pw!Paths -> Int] /\ d.dm.remnant \in [Pw!Paths -> Int]
          /\ d.dm.remnant_cck \in Int
      BY DEF Tracking, Trackers
    <3>2. e.dm.delta \in [Pw!Paths -> Int] /\ e.dm.remnant \in [Pw!Paths -> Int]
      BY <1>2, <1>3, <2>4, <3>1
    <3>3. e.dm.default \in {SWING["2G"], SWING["5G"]} /\ e.dm.remnant_cck \in Int
      BY <1>1, <1>2, <2>4, <3>1
    <3> QED
      BY <2>4, <3>2, <3>3 DEF Trackers
  <2>6. /\ e.left.remnant = d.left.remnant \ (IF path = "A" THEN {"A", "CCK"} ELSE {path})
        /\ e.left = [d.left EXCEPT !.remnant = e.left.remnant] /\ e.left \in Lefts
    BY <2>3 DEF Tracking, Lefts
  <2>7. e.swing \in [Pw!Paths -> Int]
    BY <1>2, <2>3 DEF Tracking
  <2>8. e \in Tracking
    BY <2>3, <2>5, <2>6, <2>7 DEF Tracking
  <2>9. SetTo(e, path, delta)
    <3>1. e.swing[path] = set /\ e.dm.delta[path] = delta /\ e.dm.remnant[path] = rest
      BY <2>3, <2>4 DEF Tracking, Trackers
    <3> QED
      BY <1>2, <2>4, <2>6, <3>1 DEF SetTo
  <2>10. \A q \in Pw!Paths \ {path} : /\ e.swing[q] = d.swing[q]
                                      /\ e.dm.delta[q] = d.dm.delta[q]
                                      /\ e.dm.remnant[q] = d.dm.remnant[q]
    BY <2>3, <2>4 DEF Tracking, Trackers
  <2>11. CckKept(e, d) \/ ExceedsBy(e.dm)
    <3>1. CASE path = "A"
      <4>1. e.dm.remnant["A"] = rest
        BY <2>4, <3>1 DEF Tracking, Trackers
      <4> QED
        BY <1>2, <2>4, <3>1, <4>1 DEF ExceedsBy
    <3>2. CASE path # "A"
      <4>1. path = "B"
        BY <3>2 DEF Pw!Paths
      <4> QED
        BY <2>4, <2>6, <2>10, <4>1 DEF CckKept, Pw!Paths
    <3> QED
      BY <3>1, <3>2
  <2>12. e.left.remnant \subseteq d.left.remnant
         /\ d.left.remnant \ e.left.remnant \subseteq {path, "CCK"}
    BY <2>6
  <2>13. PathSet(e, d, path, delta)
    BY <2>4, <2>6, <2>8, <2>9, <2>10, <2>11, <2>12 DEF PathSet, default
  <2> QED
    BY <1>5, <2>13, SetPathIs DEF e
<1> QED
  BY <1>4, <1>5

(* Where the registers are written they hold what is due.                  *)
LEMMA WrittenIs ==
  ASSUME limits' = limits, NEW old, agc' = Pw!PowerLevel(old, hal', regd', sar', pwrtrk'),
         NEW p \in Pw!Paths, NEW rate \in TxRates
  PROVE  /\ rate \in Pw!Written(hal', pw_scan) => agc'[p][rate] = Due(hal, pwrtrk, p, rate)'
         /\ rate \notin Pw!Written(hal', pw_scan) => agc'[p][rate] = old[p][rate]
<1> DEFINE now == Pw!Index(hal', Pw!Domain(regd', hal'), sar', pwrtrk', p, rate)
<1>1. agc'[p][rate] = IF rate \in Pw!Written(hal', pw_scan) THEN now ELSE old[p][rate]
  BY DEF Pw!PowerLevel
<1>2. Due(hal, pwrtrk, p, rate)' = now
  BY IndexStays DEF Due, Pw!Domain
<1> QED
  BY <1>1, <1>2

(* Legacy rates are always written, HT and VHT outside of a scan.          *)
LEMMA Rewritten ==
  ASSUME limits' = limits, NEW old, agc' = Pw!PowerLevel(old, hal', regd', sar', pwrtrk'),
         hal'.channel \in Int, CckShifted', ~pw_left'.cck => "CCK" \notin pw_left'.remnant
  PROVE  OfdmWritten' /\ CckWritten'
<1>1. OfdmWritten'
  <2> SUFFICES ASSUME NEW p \in Pw!Paths, NEW rate \in TxRates, rate[1] = "OFDM"
               PROVE  agc'[p][rate] = Due(hal, pwrtrk, p, rate)'
    BY DEF OfdmWritten
  <2>1. rate \in Pw!Written(hal', pw_scan)
    BY DEF Pw!Written, Pw!Legacy
  <2> QED
    BY <2>1, WrittenIs
<1>2. CckWritten'
  <2> SUFFICES ASSUME hal'.channel <= 14, ~pw_left'.cck, NEW rate \in TxRates, rate[1] = "CCK"
               PROVE  \E n \in CckRemnants' :
                        agc'["A"][rate] = Due(hal, [remnant_cck |-> n], "A", rate)'
    BY DEF CckWritten
  <2>1. rate \in Pw!Written(hal', pw_scan) /\ "A" \in Pw!Paths
    BY DEF Pw!Written, Pw!Legacy, Pw!Paths
  <2>2. agc'["A"][rate] = Due(hal, pwrtrk, "A", rate)'
    BY <2>1, WrittenIs
  <2>3. pwrtrk'.remnant_cck \in CckRemnants'
    BY DEF CckShifted
  <2>4. PICK n : n = pwrtrk'.remnant_cck
    OBVIOUS
  <2>5. Due(hal, [remnant_cck |-> n], "A", rate)'
          = Pw!Index(hal', Pw!Domain(regd', hal'), sar', [remnant_cck |-> n], "A", rate)
    BY IndexStays DEF Due, Pw!Domain
  <2>6. Due(hal, pwrtrk, "A", rate)'
          = Pw!Index(hal', Pw!Domain(regd', hal'), sar', pwrtrk', "A", rate)
    BY IndexStays DEF Due, Pw!Domain
  <2>7. Pw!Remnant([remnant_cck |-> n], "A", rate[1]) = Pw!Remnant(pwrtrk', "A", rate[1])
    BY <2>4 DEF Pw!Remnant
  <2>8. agc'["A"][rate] = Due(hal, [remnant_cck |-> n], "A", rate)'
    BY <2>2, <2>5, <2>6, <2>7, IndexOfRemnant
  <2> QED
    BY <2>3, <2>4, <2>8
<1> QED
  BY <1>1, <1>2

(* On the operating channel, outside of a scan, all rates are written.     *)
LEMMA HtRewritten ==
  ASSUME limits' = limits, NEW old, agc' = Pw!PowerLevel(old, hal', regd', sar', pwrtrk'),
         ~pw_scan, op' \in Chandefs, Tuned(hal', op'), hal'.channel \in Int
  PROVE  HtWritten'
<1> SUFFICES ASSUME NEW p \in Pw!Paths, NEW rate \in TxRates, rate[1] \notin Pw!Legacy
             PROVE  agc'[p][rate] = Due(HalOf(op), pwrtrk, p, rate)'
  BY DEF HtWritten
<1>1. rate \in Pw!Written(hal', pw_scan)
  BY DEF Pw!Written, Pw!Legacy
<1>2. agc'[p][rate] = Due(hal, pwrtrk, p, rate)'
  BY <1>1, WrittenIs
<1>3. Due(hal, pwrtrk, p, rate)' = Due(HalOf(op), pwrtrk, p, rate)'
  BY DueAt, HalOfTuned, IndexStays, IndexAt DEF Due
<1> QED
  BY <1>2, <1>3

(* As long as nothing is written, the registers of HT and VHT are as due.  *)
LEMMA HtKept ==
  ASSUME limits' = limits, regd' = regd, sar' = sar, op' = op, HtWritten,
         pwrtrk'.remnant = pwrtrk.remnant, ~pw_left'.scan => ~pw_left.scan,
         \A p \in Pw!Paths, rate \in TxRates :
           rate[1] \notin Pw!Legacy => agc'[p][rate] = agc[p][rate]
  PROVE  HtWritten'
<1> SUFFICES ASSUME ~pw_left'.scan, NEW p \in Pw!Paths, NEW rate \in TxRates,
                    rate[1] \notin Pw!Legacy
             PROVE  agc'[p][rate] = Due(HalOf(op), pwrtrk, p, rate)'
  BY DEF HtWritten
<1>1. agc[p][rate] = Due(HalOf(op), pwrtrk, p, rate)
  BY DEF HtWritten
<1>2. Due(HalOf(op), pwrtrk, p, rate)' = Due(HalOf(op), pwrtrk, p, rate)
  <2>1. Pw!Remnant(pwrtrk', p, rate[1]) = Pw!Remnant(pwrtrk, p, rate[1])
    BY DEF Pw!Remnant, Pw!Legacy
  <2>2. Due(HalOf(op), pwrtrk, p, rate)'
          = Pw!Index(HalOf(op), Pw!Domain(regd, HalOf(op)), sar, pwrtrk', p, rate)
    BY IndexStays DEF Due, Pw!Domain, HalOf
  <2> QED
    BY <2>1, <2>2, IndexOfRemnant DEF Due
<1> QED
  BY <1>1, <1>2

(***************************************************************************)
(* The steps.  A change of the channel keeps the state of tracking, or     *)
(* starts it anew.                                                         *)
(***************************************************************************)
Anew ==
  /\ pwrtrk' = [default |-> pwrtrk'.default, delta |-> [p \in Pw!Paths |-> 0],
                remnant |-> pwrtrk.remnant, remnant_cck |-> pwrtrk.remnant_cck]
  /\ pwrtrk'.default \in {SWING["2G"], SWING["5G"]}
  /\ swing' = [p \in Pw!Paths |-> SWING[Pw!Band(hal'.channel)]]
  /\ Pw!LeftOver(pwrtrk') \subseteq pw_left'.remnant

Kept ==
  /\ pwrtrk' = pwrtrk /\ swing' = swing
  /\ Pw!Band(hal'.channel) = Pw!Band(hal.channel)

(* There are two paths.                                                    *)
LEMMA Paths2 ==
  Pw!Paths = {"A", "B"}
  BY DEF Pw!Paths

(* A channel is in one of two bands.                                       *)
LEMMA BandIs ==
  ASSUME NEW n
  PROVE  Pw!Band(n) \in Bands
  BY DEF Pw!Band, Bands

(* rtw88xxa_pwrtrack_init.                                                 *)
LEMMA PwrtrackInitIs ==
  ASSUME NEW dm \in Trackers, NEW b
  PROVE  Pw!PwrtrackInit(dm, b)
           = [default |-> SWING[b], delta |-> [p \in Pw!Paths |-> 0],
              remnant |-> dm.remnant, remnant_cck |-> dm.remnant_cck]
<1> DEFINE none == [p \in Pw!Paths |-> 0]
<1>1. PICK w, x, y, z :
        dm = [default |-> w, delta |-> x, remnant |-> y, remnant_cck |-> z]
  BY DEF Trackers
<1>2. Pw!PwrtrackInit(dm, b) = [dm EXCEPT !.default = SWING[b], !.delta = none]
  BY DEF Pw!PwrtrackInit
<1> HIDE DEF none
<1> DEFINE mid == [dm EXCEPT !.default = SWING[b]]
<1>3. mid = [default |-> SWING[b], delta |-> x, remnant |-> y, remnant_cck |-> z]
  BY <1>1
<1>4. Pw!PwrtrackInit(dm, b) = [mid EXCEPT !.delta = none]
  BY <1>2
<1> HIDE DEF mid
<1>5. [mid EXCEPT !.delta = none]
        = [default |-> SWING[b], delta |-> none, remnant |-> y, remnant_cck |-> z]
  BY <1>3
<1>6. dm.remnant = y /\ dm.remnant_cck = z
  BY <1>1
<1> QED
  BY <1>4, <1>5, <1>6 DEF none

(* A change of the channel tunes to it, and keeps the state of tracking or *)
(* starts it anew.                                                         *)
LEMMA ToChannelIs ==
  ASSUME PowerTypes, NEW c \in Chandefs,
         Pw!ToChannel(c, Pw!Here) \/ Pw!ToChannel(c, Pw!PoweredOn)
  PROVE  /\ Tuned(hal', c) /\ hal'.cch_by_bw \in [{20, 40, 80} -> Int]
         /\ Kept \/ Anew
         /\ pw_left' = [user |-> pw_left.user, scan |-> pw_left.scan /\ pw_scan,
                        remnant |-> pw_left'.remnant, cck |-> "CCK" \in pw_left'.remnant]
         /\ pw_left.remnant \subseteq pw_left'.remnant
         /\ pw_left'.remnant \subseteq {"A", "B", "CCK"}
         /\ limits' = limits /\ regd' = regd /\ sar' = sar
<1>1. Tuned(hal', c) /\ hal'.cch_by_bw \in [{20, 40, 80} -> Int]
  <2>1. hal' = Pw!UpdateChannel(hal, c)
    BY DEF Pw!ToChannel
  <2> QED
    BY <2>1, UpdateIs DEF PowerTypes
<1>2. limits' = limits /\ regd' = regd /\ sar' = sar
  BY DEF Pw!ToChannel
<1>3. pwrtrk \in Trackers /\ pw_left.remnant \subseteq {"A", "B", "CCK"}
  BY DEF PowerTypes, Trackers
<1>4. Pw!Band(hal'.channel) \in Bands /\ Pw!Band(hal.channel) \in Bands
      /\ SWING["2G"] \in {SWING["2G"], SWING["5G"]}
      /\ \A b \in Bands : SWING[b] \in {SWING["2G"], SWING["5G"]}
  BY BandIs DEF Bands
<1>5. \A dm : Pw!LeftOver(dm) \subseteq {"A", "B", "CCK"}
  BY Paths2 DEF Pw!LeftOver
<1>6. ASSUME NEW from, from \in {Pw!Here, Pw!PoweredOn}, Pw!ToChannel(c, from)
      PROVE  /\ Kept \/ Anew
             /\ pw_left' = [user |-> pw_left.user, scan |-> pw_left.scan /\ pw_scan,
                            remnant |-> pw_left'.remnant, cck |-> "CCK" \in pw_left'.remnant]
             /\ pw_left.remnant \subseteq pw_left'.remnant
             /\ pw_left'.remnant \subseteq {"A", "B", "CCK"}
  <2> DEFINE b == Pw!Band(hal'.channel)
             switch == b # from.band
  <2>1. /\ hal' = Pw!UpdateChannel(hal, c)
        /\ pwrtrk' = IF switch THEN Pw!PwrtrackInit(from.dm, b) ELSE from.dm
        /\ swing' = IF switch THEN [p \in Pw!Paths |-> SWING[b]] ELSE from.swing
        /\ pw_left' = [user |-> pw_left.user, scan |-> pw_left.scan /\ pw_scan,
                       remnant |-> pw_left'.remnant, cck |-> "CCK" \in pw_left'.remnant]
        /\ pw_left'.remnant = pw_left.remnant
             \cup (IF switch \/ from # Pw!Here THEN Pw!LeftOver(pwrtrk') ELSE {})
    BY <1>6 DEF Pw!ToChannel
  <2>2. from = Pw!Here => from.band = Pw!Band(hal.channel) /\ from.dm = pwrtrk /\ from.swing = swing
    BY DEF Pw!Here
  <2>3. from = Pw!PoweredOn =>
          /\ from.band = "2G" /\ from.dm = Pw!PwrtrackInit(pwrtrk, Pw!Band(hal.channel))
          /\ from.swing = [p \in Pw!Paths |-> SWING["2G"]]
    BY DEF Pw!PoweredOn
  <2> HIDE DEF b, switch
  <2>4. pw_left.remnant \subseteq pw_left'.remnant /\ pw_left'.remnant \subseteq {"A", "B", "CCK"}
    BY <1>3, <1>5, <2>1
  <2>5. CASE from = Pw!Here /\ ~switch
    <3>1. pwrtrk' = pwrtrk /\ swing' = swing
      BY <2>1, <2>2, <2>5
    <3>2. b = Pw!Band(hal.channel)
      BY <2>2, <2>5 DEF switch
    <3> QED
      BY <2>1, <2>4, <3>1, <3>2 DEF Kept, b
  <2>6. CASE ~(from = Pw!Here /\ ~switch)
    <3>1. Pw!LeftOver(pwrtrk') \subseteq pw_left'.remnant
      BY <2>1, <2>6
    <3>2. from.dm \in Trackers /\ from.dm.remnant = pwrtrk.remnant
          /\ from.dm.remnant_cck = pwrtrk.remnant_cck
      <4>1. CASE from = Pw!Here
        BY <1>3, <2>2, <4>1
      <4>2. CASE from = Pw!PoweredOn
        <5>1. from.dm = [default |-> SWING[Pw!Band(hal.channel)], delta |-> [p \in Pw!Paths |-> 0],
                         remnant |-> pwrtrk.remnant, remnant_cck |-> pwrtrk.remnant_cck]
          BY <1>3, <2>3, <4>2, PwrtrackInitIs
        <5> QED
          BY <1>3, <1>4, <5>1 DEF Trackers
      <4> QED
        BY <1>6, <4>1, <4>2
    <3>3. CASE switch
      <4>1. pwrtrk' = [default |-> SWING[b], delta |-> [p \in Pw!Paths |-> 0],
                       remnant |-> pwrtrk.remnant, remnant_cck |-> pwrtrk.remnant_cck]
        BY <2>1, <3>2, <3>3, PwrtrackInitIs
      <4>2. swing' = [p \in Pw!Paths |-> SWING[b]]
        BY <2>1, <3>3
      <4>3. SWING[b] \in {SWING["2G"], SWING["5G"]}
        BY <1>4 DEF b
      <4>4. pwrtrk'.default = SWING[b]
        BY <4>1
      <4>5. pwrtrk' = [default |-> pwrtrk'.default, delta |-> [p \in Pw!Paths |-> 0],
                       remnant |-> pwrtrk.remnant, remnant_cck |-> pwrtrk.remnant_cck]
        BY <4>1, <4>4
      <4>6. Anew
        BY <3>1, <4>2, <4>3, <4>4, <4>5 DEF Anew, b
      <4> QED
        BY <2>1, <2>4, <4>6
    <3>4. CASE ~switch
      <4>1. from = Pw!PoweredOn /\ b = "2G"
        BY <1>6, <2>3, <2>6, <3>4 DEF switch
      <4>2. pwrtrk' = [default |-> SWING[Pw!Band(hal.channel)], delta |-> [p \in Pw!Paths |-> 0],
                       remnant |-> pwrtrk.remnant, remnant_cck |-> pwrtrk.remnant_cck]
        BY <1>3, <2>1, <2>3, <3>4, <4>1, PwrtrackInitIs
      <4>3. swing' = [p \in Pw!Paths |-> SWING[b]]
        BY <2>1, <2>3, <3>4, <4>1
      <4>4. pwrtrk'.default = SWING[Pw!Band(hal.channel)]
        BY <4>2
      <4>5. SWING[Pw!Band(hal.channel)] \in {SWING["2G"], SWING["5G"]}
        BY <1>4
      <4>6. pwrtrk' = [default |-> pwrtrk'.default, delta |-> [p \in Pw!Paths |-> 0],
                       remnant |-> pwrtrk.remnant, remnant_cck |-> pwrtrk.remnant_cck]
        BY <4>2, <4>4
      <4>7. Anew
        BY <3>1, <4>3, <4>4, <4>5, <4>6 DEF Anew, b
      <4> QED
        BY <2>1, <2>4, <4>7
    <3> QED
      BY <3>3, <3>4
  <2> QED
    BY <2>1, <2>4, <2>5, <2>6
<1> QED
  BY <1>1, <1>2, <1>6

(* Then swing and remnant make up the shift.                               *)
LEMMA ShiftKept ==
  ASSUME PowerTypes, Shifted, CckShifted, Kept \/ Anew,
         pw_left.remnant \subseteq pw_left'.remnant
  PROVE  /\ pwrtrk' \in Trackers /\ swing' \in [Pw!Paths -> Int]
         /\ pwrtrk'.remnant = pwrtrk.remnant
         /\ Shifted' /\ CckShifted'
<1>0. pwrtrk \in Trackers /\ swing \in [Pw!Paths -> Int]
  BY DEF PowerTypes, Trackers
<1>1. CASE Kept
  <2>1. Shifted'
    BY <1>1 DEF Shifted, Kept
  <2>2. CckShifted'
    BY <1>1 DEF CckShifted, CckRemnants, Kept
  <2> QED
    BY <1>0, <1>1, <2>1, <2>2 DEF Kept
<1>2. CASE Anew
  <2>1. /\ pwrtrk'.delta = [p \in Pw!Paths |-> 0] /\ pwrtrk'.remnant = pwrtrk.remnant
        /\ pwrtrk'.remnant_cck = pwrtrk.remnant_cck
    BY <1>2 DEF Anew
  <2>2. pwrtrk' \in Trackers
    <3>1. pwrtrk' = [default |-> pwrtrk'.default, delta |-> [p \in Pw!Paths |-> 0],
                     remnant |-> pwrtrk.remnant, remnant_cck |-> pwrtrk.remnant_cck]
          /\ pwrtrk'.default \in {SWING["2G"], SWING["5G"]}
      BY <1>2 DEF Anew
    <3>2. pwrtrk.remnant \in [Pw!Paths -> Int] /\ pwrtrk.remnant_cck \in Int
      BY <1>0 DEF Trackers
    <3> QED
      BY <3>1, <3>2 DEF Trackers
  <2>3. pwrtrk'.default \in 0..24
    BY <1>2, DefaultsAre DEF Anew
  <2>4. /\ \A b \in Bands : SWING[b] \in 0..24
        /\ Pw!Band(hal'.channel) \in Bands
    BY DefaultsAre, BandIs DEF Bands
  <2>5. swing' \in [Pw!Paths -> Int]
    BY <1>2, <2>4 DEF Anew
  <2>6. Shifted'
    <3> SUFFICES ASSUME NEW p \in Pw!Paths, p \notin pw_left'.remnant,
                        pwrtrk'.default = SWING[Pw!Band(hal'.channel)]
                 PROVE  swing'[p] + pwrtrk'.remnant[p] = pwrtrk'.default + pwrtrk'.delta[p]
      BY DEF Shifted
    <3>1. pwrtrk'.remnant[p] = 0
      BY <1>2 DEF Anew, Pw!LeftOver
    <3>2. swing'[p] = pwrtrk'.default /\ pwrtrk'.delta[p] = 0
      BY <1>2, <2>1 DEF Anew
    <3> QED
      BY <2>3, <3>1, <3>2
  <2>7. CckShifted'
    <3> SUFFICES ASSUME "CCK" \notin pw_left'.remnant
                 PROVE  pwrtrk'.remnant_cck \in CckRemnants'
      BY DEF CckShifted
    <3>1. pwrtrk'.remnant["A"] = 0 /\ pwrtrk'.remnant_cck = 0
      BY <1>2 DEF Anew, Pw!LeftOver
    <3> QED
      BY <2>3, <3>1 DEF CckRemnants
  <2> QED
    BY <2>1, <2>2, <2>5, <2>6, <2>7
<1> QED
  BY <1>1, <1>2

(* The channel in use is a channel, and outside of a scan the operating one*)
LEMMA WhereIs ==
  ASSUME Where
  PROVE  hal.channel \in Int /\ (~pw_scan => Tuned(hal, op))
<1>1. PICK c \in Chandefs : Tuned(hal, c) /\ (c = op \/ (pw_scan /\ c.width = 20))
  BY DEF Where
<1>2. hal.channel = Pw!CenterChan(c)
  BY <1>1 DEF Tuned
<1>3. Pw!CenterChan(c) \in Int
  BY CentersAre
<1> QED
  BY <1>1, <1>2, <1>3

(* Coming from a scan, hal is that of the operating channel when it is on  *)
(* its centre and width.                                                   *)
LEMMA OnOperatingIs ==
  ASSUME Where, Pw!OnOperating
  PROVE  Tuned(hal, op)
<1>1. PICK c \in Chandefs : Tuned(hal, c) /\ (c = op \/ (pw_scan /\ c.width = 20))
  BY DEF Where
<1>2. Pw!CenterChan(c) = Pw!CenterChan(op) /\ c.width = op.width
  BY <1>1 DEF Pw!OnOperating, Tuned
<1>3. CASE c = op
  BY <1>1, <1>3
<1>4. CASE c # op
  <2>1. c.width = 20 /\ op.width = 20
    BY <1>1, <1>2, <1>4
  <2>2. c.primary = op.primary
    BY <1>2, <2>1 DEF Pw!CenterChan
  <2>3. \A w \in {20, 40, 80} : w <= 20 => Cch(c, w) = Cch(op, w)
    BY <2>2 DEF Cch
  <2> QED
    BY <1>1, <1>2, <2>1, <2>3 DEF Tuned
<1> QED
  BY <1>3, <1>4

(* SetChannel, Restart, and ScanChannel in a scan.                         *)
LEMMA MoveKeepsPower ==
  ASSUME PowerInv, NEW c \in Chandefs, pw_scan' = pw_scan,
         \/ /\ ~pw_scan /\ op' = c
            /\ Pw!ToChannel(c, Pw!Here) \/ Pw!ToChannel(c, Pw!PoweredOn)
         \/ /\ pw_scan /\ op' = op /\ (c = op \/ c.width = 20)
            /\ Pw!ToChannel(c, Pw!Here)
  PROVE  PowerInv'
<1>0. PowerTypes /\ Where /\ Shifted /\ CckShifted /\ HtWritten
  BY DEF PowerInv
<1>1. /\ Tuned(hal', c) /\ hal'.cch_by_bw \in [{20, 40, 80} -> Int]
      /\ Kept \/ Anew
      /\ pw_left' = [user |-> pw_left.user, scan |-> pw_left.scan /\ pw_scan,
                     remnant |-> pw_left'.remnant, cck |-> "CCK" \in pw_left'.remnant]
      /\ pw_left.remnant \subseteq pw_left'.remnant
      /\ pw_left'.remnant \subseteq {"A", "B", "CCK"}
      /\ limits' = limits /\ regd' = regd /\ sar' = sar
  BY <1>0, ToChannelIs
<1>2. /\ pwrtrk' \in Trackers /\ swing' \in [Pw!Paths -> Int]
      /\ pwrtrk'.remnant = pwrtrk.remnant
      /\ Shifted' /\ CckShifted'
  BY <1>0, <1>1, ShiftKept
<1>3. op' \in Chandefs
  BY <1>0 DEF PowerTypes
<1>4. PowerTypes'
  <2>1. pw_left.user \in Users /\ pw_left.scan \in BOOLEAN
    BY <1>0 DEF PowerTypes
  <2>2. pw_left' \in [remnant : SUBSET {"A", "B", "CCK"}, cck : BOOLEAN, scan : BOOLEAN,
                      user : Users]
    <3> DEFINE r == pw_left'.remnant
    <3>1. pw_left' = [user |-> pw_left.user, scan |-> pw_left.scan /\ pw_scan,
                      remnant |-> r, cck |-> "CCK" \in r] /\ r \in SUBSET {"A", "B", "CCK"}
      BY <1>1
    <3> HIDE DEF r
    <3>2. (pw_left.scan /\ pw_scan) \in BOOLEAN /\ ("CCK" \in r) \in BOOLEAN
      OBVIOUS
    <3> QED
      BY <2>1, <3>1, <3>2
  <2>3. limits \in Tables /\ sar \in Sars \cup {<<>>} /\ pw_scan \in BOOLEAN
    BY <1>0 DEF PowerTypes
  <2> QED
    BY <1>1, <1>2, <1>3, <2>2, <2>3 DEF PowerTypes, Trackers
<1>5. Where'
  <2>1. c = op' \/ (pw_scan' /\ c.width = 20)
    OBVIOUS
  <2> QED
    BY <1>1, <2>1 DEF Where, Tuned
<1>6. PICK old :
        /\ agc' = Pw!PowerLevel(old, hal', regd', sar', pwrtrk')
        /\ Pw!ToChannel(c, Pw!Here) => old = agc
  <2>1. CASE Pw!ToChannel(c, Pw!Here)
    <3>1. agc' = Pw!PowerLevel(Pw!Here.agc, hal', regd, sar, pwrtrk')
      BY <2>1 DEF Pw!ToChannel
    <3> QED
      BY <1>1, <3>1 DEF Pw!Here
  <2>2. CASE ~Pw!ToChannel(c, Pw!Here)
    <3>1. agc' = Pw!PowerLevel(Pw!PoweredOn.agc, hal', regd, sar, pwrtrk')
      BY <2>2 DEF Pw!ToChannel
    <3> QED
      BY <1>1, <2>2, <3>1
  <2> QED
    BY <2>1, <2>2
<1>7. hal'.channel \in Int
  <2>1. hal'.channel = Pw!CenterChan(c) /\ Pw!CenterChan(c) \in Int
    BY <1>1, CentersAre DEF Tuned
  <2> QED
    BY <2>1
<1>8. OfdmWritten' /\ CckWritten'
  <2>1. ~pw_left'.cck => "CCK" \notin pw_left'.remnant
    <3> DEFINE r == pw_left'.remnant
    <3>1. pw_left' = [user |-> pw_left.user, scan |-> pw_left.scan /\ pw_scan,
                      remnant |-> r, cck |-> "CCK" \in r]
      BY <1>1
    <3> HIDE DEF r
    <3>2. pw_left'.cck = ("CCK" \in r)
      BY <3>1
    <3> QED
      BY <3>2 DEF r
  <2> QED
    BY <1>1, <1>2, <1>6, <1>7, <2>1, Rewritten
<1>9. HtWritten'
  <2>1. CASE ~pw_scan
    <3>1. op' = c
      BY <2>1
    <3> QED
      BY <1>1, <1>3, <1>6, <1>7, <2>1, <3>1, HtRewritten
  <2>2. CASE pw_scan
    <3>1. op' = op /\ Pw!ToChannel(c, Pw!Here)
      BY <2>2
    <3>2. pw_left'.scan = (pw_left.scan /\ pw_scan)
      BY <1>1
    <3>3. ASSUME NEW p \in Pw!Paths, NEW rate \in TxRates, rate[1] \notin Pw!Legacy
          PROVE  agc'[p][rate] = agc[p][rate]
      <4>1. rate \notin Pw!Written(hal', pw_scan)
        BY <2>2, <3>3 DEF Pw!Written
      <4>2. agc'[p][rate] = old[p][rate]
        BY <1>1, <1>6, <4>1, WrittenIs
      <4> QED
        BY <1>6, <3>1, <4>2
    <3> QED
      BY <1>0, <1>1, <1>2, <2>2, <3>1, <3>2, <3>3, HtKept
  <2> QED
    BY <2>1, <2>2
<1> QED
  BY <1>2, <1>4, <1>5, <1>8, <1>9 DEF PowerInv

(* A step that changes no more than whether there is a scan.               *)
LEMMA StillKeepsPower ==
  ASSUME PowerInv, limits' = limits, regd' = regd, hal' = hal, op' = op, sar' = sar, agc' = agc,
         swing' = swing, pwrtrk' = pwrtrk, pw_left' = pw_left, pw_scan' \in BOOLEAN,
         pw_scan => pw_scan' \/ Tuned(hal, op)
  PROVE  PowerInv'
<1>0. PowerTypes /\ Where /\ Shifted /\ CckShifted /\ OfdmWritten /\ HtWritten /\ CckWritten
  BY DEF PowerInv
<1>2. PowerTypes'
  BY <1>0 DEF PowerTypes
<1>3. Where'
  <2>1. PICK c \in Chandefs : Tuned(hal, c) /\ (c = op \/ (pw_scan /\ c.width = 20))
    BY <1>0 DEF Where
  <2>2. op \in Chandefs
    BY <1>0 DEF PowerTypes
  <2>3. \E d \in Chandefs : Tuned(hal', d) /\ (d = op' \/ (pw_scan' /\ d.width = 20))
    BY <2>1, <2>2
  <2> QED
    BY <2>3 DEF Where, Tuned
<1>4. Shifted' /\ CckShifted'
  BY <1>0 DEF Shifted, CckShifted, CckRemnants
<1>5. OfdmWritten'
  BY <1>0, IndexStays DEF OfdmWritten, Due, Pw!Domain
<1>6. HtWritten'
  BY <1>0, HtKept
<1>7. CckWritten'
  <2> SUFFICES ASSUME hal'.channel <= 14, ~pw_left'.cck, NEW rate \in TxRates, rate[1] = "CCK"
               PROVE  \E n \in CckRemnants' :
                        agc'["A"][rate] = Due(hal, [remnant_cck |-> n], "A", rate)'
    BY DEF CckWritten
  <2>1. PICK n \in CckRemnants : agc["A"][rate] = Due(hal, [remnant_cck |-> n], "A", rate)
    BY <1>0 DEF CckWritten
  <2>2. CckRemnants' = CckRemnants
    BY DEF CckRemnants
  <2>3. Due(hal, [remnant_cck |-> n], "A", rate)' = Due(hal, [remnant_cck |-> n], "A", rate)
    BY IndexStays DEF Due, Pw!Domain
  <2> QED
    BY <2>1, <2>2, <2>3
<1> QED
  BY <1>2, <1>3, <1>4, <1>5, <1>6, <1>7 DEF PowerInv

(* What is left after rtw_regd_notifier.                                   *)
LeftWith(l, s, k, u) == [l EXCEPT !.scan = s, !.cck = k, !.user = u]

(* A record of what is left, with two fields changed,                      *)
LEMMA LeftIs ==
  ASSUME NEW l \in Lefts, NEW s, NEW k
  PROVE  [l EXCEPT !.scan = s, !.cck = k]
           = [remnant |-> l.remnant, cck |-> k, scan |-> s, user |-> l.user]
<1>1. PICK w, x, y, z : l = [remnant |-> w, cck |-> x, scan |-> y, user |-> z]
  BY DEF Lefts
<1>2. l.remnant = w /\ l.user = z
  BY <1>1
<1> DEFINE first == [l EXCEPT !.scan = s]
           second == [first EXCEPT !.cck = k]
<1>3. first = [remnant |-> w, cck |-> x, scan |-> s, user |-> z]
  BY <1>1
<1>4. second = [l EXCEPT !.scan = s, !.cck = k]
  OBVIOUS
<1> HIDE DEF first
<1>5. second = [remnant |-> w, cck |-> k, scan |-> s, user |-> z]
  BY <1>3
<1> QED
  BY <1>2, <1>4, <1>5

(* and with three.                                                         *)
LEMMA LeftWithIs ==
  ASSUME NEW l \in Lefts, NEW s, NEW k, NEW u
  PROVE  LeftWith(l, s, k, u) = [remnant |-> l.remnant, cck |-> k, scan |-> s, user |-> u]
<1> DEFINE second == [l EXCEPT !.scan = s, !.cck = k]
<1>1. second = [remnant |-> l.remnant, cck |-> k, scan |-> s, user |-> l.user]
  BY LeftIs
<1>2. LeftWith(l, s, k, u) = [second EXCEPT !.user = u]
  BY DEF LeftWith
<1> HIDE DEF second
<1> QED
  BY <1>1, <1>2

(* The requests that write the power anew where the device is.             *)
LEMMA RequestKeepsPower ==
  ASSUME PowerInv, limits' = limits, hal' = hal, op' = op, pw_scan' = pw_scan, swing' = swing,
         pwrtrk' = pwrtrk, sar' \in Sars \cup {<<>>}, NEW user, user \in Users,
         pw_left' = [remnant |-> pw_left.remnant, cck |-> "CCK" \in pw_left.remnant,
                     scan |-> pw_scan, user |-> user],
         agc' = Pw!PowerLevel(agc, hal', regd', sar', pwrtrk')
  PROVE  PowerInv'
<1>0. PowerTypes /\ Where /\ Shifted /\ CckShifted
  BY DEF PowerInv
<1>1. /\ pw_left'.remnant = pw_left.remnant /\ pw_left'.scan = pw_scan
      /\ pw_left'.cck = ("CCK" \in pw_left.remnant)
  OBVIOUS
<1>2. PowerTypes'
  <2>1. pw_left.remnant \in SUBSET {"A", "B", "CCK"} /\ pw_scan \in BOOLEAN
    BY <1>0 DEF PowerTypes
  <2>2. pw_left' \in [remnant : SUBSET {"A", "B", "CCK"}, cck : BOOLEAN, scan : BOOLEAN,
                      user : Users]
    BY <2>1
  <2> QED
    BY <1>0, <2>2 DEF PowerTypes
<1>3. Where'
  BY <1>0 DEF Where, Tuned
<1>4. Shifted' /\ CckShifted'
  BY <1>0, <1>1 DEF Shifted, CckShifted, CckRemnants
<1>5. hal'.channel \in Int /\ (~pw_scan => Tuned(hal', op'))
  BY <1>0, WhereIs
<1>6. OfdmWritten' /\ CckWritten'
  BY <1>1, <1>4, <1>5, Rewritten
<1>7. HtWritten'
  <2>1. CASE pw_scan
    BY <1>1, <2>1 DEF HtWritten
  <2>2. CASE ~pw_scan
    <3>1. op' \in Chandefs
      BY <1>2 DEF PowerTypes
    <3> QED
      BY <1>5, <2>2, <3>1, HtRewritten
  <2> QED
    BY <2>1, <2>2
<1> QED
  BY <1>2, <1>3, <1>4, <1>6, <1>7 DEF PowerInv

(* rtw_regd_notifier.                                                      *)
LEMMA NotifyKeepsPower ==
  ASSUME PowerInv, NEW req \in Requests, Pw!RegdNotify(req)
  PROVE  PowerInv'
<1>0. pw_left \in Lefts /\ sar \in Sars \cup {<<>>}
  BY DEF PowerInv, PowerTypes, Lefts
<1>1. PICK user, k :
        /\ user \in Users /\ k = ("CCK" \in pw_left.remnant)
        /\ pw_left' = LeftWith(pw_left, pw_scan, k, user)
  <2> DEFINE user == IF req.initiator = "USER" THEN Pw!Country(req.alpha2) ELSE pw_left.user
  <2>1. user \in Users
    BY <1>0 DEF Users, Lefts
  <2>2. pw_left' = LeftWith(pw_left, pw_scan, "CCK" \in pw_left.remnant, user)
    BY DEF Pw!RegdNotify, LeftWith
  <2> QED
    BY <2>1, <2>2
<1>2. pw_left' = [remnant |-> pw_left.remnant, cck |-> "CCK" \in pw_left.remnant,
                  scan |-> pw_scan, user |-> user]
  BY <1>0, <1>1, LeftWithIs
<1>3. /\ limits' = limits /\ hal' = hal /\ op' = op /\ pw_scan' = pw_scan /\ swing' = swing
      /\ pwrtrk' = pwrtrk /\ sar' = sar /\ agc' = Pw!PowerLevel(agc, hal, regd', sar, pwrtrk)
  BY DEF Pw!RegdNotify
<1>4. sar' \in Sars \cup {<<>>} /\ agc' = Pw!PowerLevel(agc, hal', regd', sar', pwrtrk')
  BY <1>0, <1>3
<1>5. user \in Users
  BY <1>1
<1> QED
  BY <1>2, <1>3, <1>4, <1>5, RequestKeepsPower

(* rtw_set_sar_specs.                                                      *)
LEMMA SetSarKeepsPower ==
  ASSUME PowerInv, NEW spec \in Sars, Pw!SetSar(spec)
  PROVE  PowerInv'
<1>0. pw_left \in Lefts
  BY DEF PowerInv, PowerTypes, Lefts
<1>1. /\ limits' = limits /\ hal' = hal /\ op' = op /\ pw_scan' = pw_scan /\ swing' = swing
      /\ pwrtrk' = pwrtrk /\ regd' = regd /\ sar' = spec
      /\ agc' = Pw!PowerLevel(agc, hal, regd, spec, pwrtrk)
      /\ pw_left' = [pw_left EXCEPT !.scan = pw_scan, !.cck = "CCK" \in pw_left.remnant]
  BY DEF Pw!SetSar
<1>2. pw_left' = [remnant |-> pw_left.remnant, cck |-> "CCK" \in pw_left.remnant,
                  scan |-> pw_scan, user |-> pw_left.user]
  BY <1>0, <1>1, LeftIs
<1>3. pw_left.user \in Users
  BY <1>0 DEF Lefts
<1>4. sar' \in Sars \cup {<<>>} /\ agc' = Pw!PowerLevel(agc, hal', regd', sar', pwrtrk')
  BY <1>1
<1> QED
  BY <1>1, <1>2, <1>3, <1>4, RequestKeepsPower

(* Swing and remnant make up the shift of the paths that are not stale.    *)
ShiftSound(d, n) ==
  /\ \A p \in Pw!Paths : p \notin d.left.remnant /\ d.dm.default = n
       => d.swing[p] + d.dm.remnant[p] = d.dm.default + d.dm.delta[p]
  /\ "CCK" \notin d.left.remnant => ExceedsBy(d.dm)

(* A path that is set has swing and remnant make up its shift, and leaves  *)
(* the other's.                                                            *)
LEMMA SetKeepsSound ==
  ASSUME NEW d, NEW e, NEW path, NEW delta, NEW n, PathSet(e, d, path, delta),
         path \in Pw!Paths, ShiftSound(d, n)
  PROVE  ShiftSound(e, n)
<1>1. ASSUME NEW p \in Pw!Paths, p \notin e.left.remnant, e.dm.default = n
      PROVE  e.swing[p] + e.dm.remnant[p] = e.dm.default + e.dm.delta[p]
  <2>0. e = d \/ SetTo(e, path, delta)
    BY DEF PathSet
  <2>1. CASE e = d
    BY <1>1, <2>1 DEF ShiftSound
  <2>2. CASE SetTo(e, path, delta) /\ p = path
    BY <2>2 DEF SetTo
  <2>3. CASE p # path
    <3>1. p \notin d.left.remnant
      BY <1>1, <2>3, Paths2 DEF PathSet
    <3>2. /\ e.swing[p] = d.swing[p] /\ e.dm.delta[p] = d.dm.delta[p]
          /\ e.dm.remnant[p] = d.dm.remnant[p] /\ e.dm.default = d.dm.default
      BY <2>3 DEF PathSet
    <3> QED
      BY <1>1, <3>1, <3>2 DEF ShiftSound
  <2> QED
    BY <2>0, <2>1, <2>2, <2>3
<1>2. ASSUME "CCK" \notin e.left.remnant
      PROVE  ExceedsBy(e.dm)
  <2>1. CASE CckKept(e, d)
    <3>1. "CCK" \notin d.left.remnant
      BY <1>2, <2>1 DEF CckKept
    <3>2. ExceedsBy(d.dm)
      BY <3>1 DEF ShiftSound
    <3>3. e.dm.remnant_cck = d.dm.remnant_cck /\ e.dm.remnant["A"] = d.dm.remnant["A"]
          /\ e.dm.default = d.dm.default
      BY <2>1 DEF CckKept, PathSet
    <3> QED
      BY <3>2, <3>3 DEF ExceedsBy
  <2> QED
    BY <2>1 DEF PathSet
<1> QED
  BY <1>1, <1>2 DEF ShiftSound

(* What Track makes of the state of tracking.                              *)
Before == [dm |-> pwrtrk, swing |-> swing, left |-> pw_left]

After(a, b, limit) == Pw!PwrtrackSet(Pw!PwrtrackSet(Before, "A", a, limit), "B", b, limit)

(* Both paths set, swing and remnant make up the shift of each.            *)
LEMMA AfterIs ==
  ASSUME PowerTypes, Shifted, CckShifted, NEW a \in Deltas, NEW b \in Deltas,
         NEW limit \in SwingLimits
  PROVE  LET e == After(a, b, limit)
         IN  /\ e \in Tracking /\ e.dm.default = pwrtrk.default
             /\ ShiftSound(e, SWING[Pw!Band(hal.channel)])
             /\ e.left.scan = pw_left.scan /\ e.left.cck = pw_left.cck
             /\ e.left.user = pw_left.user
<1> DEFINE d == Before
           f == Pw!PwrtrackSet(d, "A", a, limit)
           e == Pw!PwrtrackSet(f, "B", b, limit)
           n == SWING[Pw!Band(hal.channel)]
<1>1. d \in Tracking /\ d.dm = pwrtrk /\ d.left = pw_left /\ d.swing = swing
  BY DEF PowerTypes, Trackers, Lefts, Tracking, Before
<1>2. ShiftSound(d, n)
  BY <1>1 DEF ShiftSound, Shifted, CckShifted, CckRemnants, ExceedsBy
<1>3. e = After(a, b, limit)
  BY DEF After
<1> HIDE DEF d, f, e, n
<1>4. PathSet(f, d, "A", a)
  BY <1>1, Paths2, PwrtrackSetIs DEF f
<1>5. f \in Tracking
  BY <1>4 DEF PathSet
<1>6. PathSet(e, f, "B", b)
  BY <1>5, Paths2, PwrtrackSetIs DEF e
<1>7. ShiftSound(e, n)
  BY <1>2, <1>4, <1>6, Paths2, SetKeepsSound
<1>8. e \in Tracking /\ e.dm.default = pwrtrk.default
  BY <1>1, <1>4, <1>6 DEF PathSet
<1>9. f.left.scan = d.left.scan /\ f.left.cck = d.left.cck /\ f.left.user = d.left.user
  BY <1>1, <1>4 DEF PathSet, Tracking, Lefts
<1>10. e.left.scan = f.left.scan /\ e.left.cck = f.left.cck /\ e.left.user = f.left.user
  BY <1>5, <1>6 DEF PathSet, Tracking, Lefts
<1> QED
  BY <1>1, <1>3, <1>7, <1>8, <1>9, <1>10 DEF n

(* rtw88xxa_phy_pwrtrack, whether the power is written or not.             *)
LEMMA TrackKeepsPower ==
  ASSUME PowerInv, NEW a \in Deltas, NEW b \in Deltas, NEW limit \in SwingLimits,
         Pw!Track(a, b, limit)
  PROVE  PowerInv' /\ pw_left'.user = pw_left.user
<1>0. PowerTypes /\ Where /\ Shifted /\ CckShifted /\ OfdmWritten /\ HtWritten /\ CckWritten
  BY DEF PowerInv
<1> DEFINE e == After(a, b, limit)
           level == pwrtrk.remnant # e.dm.remnant
<1>1. /\ e \in Tracking /\ e.dm.default = pwrtrk.default
      /\ ShiftSound(e, SWING[Pw!Band(hal.channel)])
      /\ e.left.scan = pw_left.scan /\ e.left.cck = pw_left.cck
      /\ e.left.user = pw_left.user
  BY <1>0, AfterIs
<1>2. /\ ~pw_scan /\ pwrtrk' = e.dm /\ swing' = e.swing
      /\ pw_left' = [e.left EXCEPT !.scan = @ /\ ~level,
                                   !.cck = IF level THEN "CCK" \in e.left.remnant ELSE @]
      /\ agc' = IF level THEN Pw!PowerLevel(agc, hal, regd, sar, pwrtrk') ELSE agc
      /\ limits' = limits /\ regd' = regd /\ hal' = hal /\ op' = op /\ pw_scan' = pw_scan
      /\ sar' = sar
  BY DEF Pw!Track, Pw!LevelNeeded, After, Before
<1> HIDE DEF e, level
<1>3. e.dm \in Trackers /\ e.swing \in [Pw!Paths -> Int] /\ e.left \in Lefts
  BY <1>1 DEF Tracking
<1>4. PICK s, k :
        /\ s = (pw_left.scan /\ ~level)
        /\ k = IF level THEN "CCK" \in e.left.remnant ELSE pw_left.cck
        /\ pw_left' = [e.left EXCEPT !.scan = s, !.cck = k]
  BY <1>1, <1>2
<1>5. pw_left' = [remnant |-> e.left.remnant, cck |-> k, scan |-> s, user |-> e.left.user]
  BY <1>3, <1>4, LeftIs
<1>6. pw_left'.remnant = e.left.remnant /\ pw_left'.cck = k /\ pw_left'.scan = s
  BY <1>5
<1>14. pw_left'.user = pw_left.user
  BY <1>1, <1>5
<1>7. PowerTypes'
  <2>1. s \in BOOLEAN /\ k \in BOOLEAN
    <3>1. pw_left.cck \in BOOLEAN
      BY <1>0 DEF PowerTypes
    <3>2. (pw_left.scan /\ ~level) \in BOOLEAN
      OBVIOUS
    <3>3. k \in BOOLEAN
      <4>1. CASE level
        <5>1. k = ("CCK" \in e.left.remnant)
          BY <1>4, <4>1
        <5> QED
          BY <5>1
      <4>2. CASE ~level
        BY <1>4, <3>1, <4>2
      <4> QED
        BY <4>1, <4>2
    <3> QED
      BY <1>4, <3>2, <3>3
  <2>2. e.left.remnant \in SUBSET {"A", "B", "CCK"} /\ e.left.user \in Users
    BY <1>3 DEF Lefts
  <2>3. pw_left' \in [remnant : SUBSET {"A", "B", "CCK"}, cck : BOOLEAN, scan : BOOLEAN,
                      user : Users]
    BY <1>5, <2>1, <2>2
  <2> QED
    BY <1>0, <1>2, <1>3, <2>3 DEF PowerTypes, Trackers
<1>8. Where'
  BY <1>0, <1>2 DEF Where, Tuned
<1>9. Shifted'
  BY <1>1, <1>2, <1>6 DEF Shifted, ShiftSound
<1>10. CckShifted'
  BY <1>1, <1>2, <1>6 DEF CckShifted, CckRemnants, ShiftSound, ExceedsBy
<1>11. hal'.channel \in Int /\ Tuned(hal', op') /\ op' \in Chandefs
  BY <1>0, <1>2, WhereIs DEF PowerTypes
<1>12. CASE level
  <2>1. agc' = Pw!PowerLevel(agc, hal', regd', sar', pwrtrk')
    BY <1>2, <1>12
  <2>2. ~pw_left'.cck => "CCK" \notin pw_left'.remnant
    BY <1>4, <1>6, <1>12
  <2>3. OfdmWritten' /\ CckWritten'
    BY <1>2, <1>10, <1>11, <2>1, <2>2, Rewritten
  <2>4. HtWritten'
    BY <1>2, <1>11, <2>1, HtRewritten
  <2> QED
    BY <1>7, <1>8, <1>9, <1>10, <1>14, <2>3, <2>4 DEF PowerInv
<1>13. CASE ~level
  <2>1. agc' = agc /\ pwrtrk'.remnant = pwrtrk.remnant /\ pwrtrk'.default = pwrtrk.default
    BY <1>1, <1>2, <1>13 DEF level
  <2>2. pw_left'.cck = pw_left.cck /\ (~pw_left'.scan => ~pw_left.scan)
    BY <1>4, <1>6, <1>13
  <2>3. OfdmWritten'
    <3> SUFFICES ASSUME NEW p \in Pw!Paths, NEW rate \in TxRates, rate[1] = "OFDM"
                 PROVE  agc'[p][rate] = Due(hal, pwrtrk, p, rate)'
      BY DEF OfdmWritten
    <3>1. agc[p][rate] = Due(hal, pwrtrk, p, rate)
      BY <1>0 DEF OfdmWritten
    <3>2. Due(hal, pwrtrk, p, rate)' = Pw!Index(hal, Pw!Domain(regd, hal), sar, pwrtrk', p, rate)
      BY <1>2, IndexStays DEF Due, Pw!Domain
    <3>3. Pw!Remnant(pwrtrk', p, rate[1]) = Pw!Remnant(pwrtrk, p, rate[1])
      BY <2>1 DEF Pw!Remnant
    <3> QED
      BY <2>1, <3>1, <3>2, <3>3, IndexOfRemnant DEF Due
  <2>4. HtWritten'
    BY <1>0, <1>2, <2>1, <2>2, HtKept
  <2>5. CckWritten'
    <3> SUFFICES ASSUME hal'.channel <= 14, ~pw_left'.cck, NEW rate \in TxRates, rate[1] = "CCK"
                 PROVE  \E n \in CckRemnants' :
                          agc'["A"][rate] = Due(hal, [remnant_cck |-> n], "A", rate)'
      BY DEF CckWritten
    <3>1. PICK n \in CckRemnants : agc["A"][rate] = Due(hal, [remnant_cck |-> n], "A", rate)
      BY <1>0, <1>2, <2>2 DEF CckWritten
    <3>2. CckRemnants' = CckRemnants
      BY <2>1 DEF CckRemnants
    <3>3. Due(hal, [remnant_cck |-> n], "A", rate)' = Due(hal, [remnant_cck |-> n], "A", rate)
      BY <1>2, IndexStays DEF Due, Pw!Domain
    <3> QED
      BY <2>1, <3>1, <3>2, <3>3
  <2> QED
    BY <1>7, <1>8, <1>9, <1>10, <1>14, <2>3, <2>4, <2>5 DEF PowerInv
<1> QED
  BY <1>12, <1>13, <1>14

(***************************************************************************)
(* The regulatory domain.                                                  *)
(***************************************************************************)
RegdInv ==
  /\ regd = [country |-> regd.country, country_code |-> regd.country_code,
             ie_ignore |-> regd.ie_ignore, state |-> regd.state]
  /\ regd.state \in {"WORLDWIDE", "PROGRAMMED", "SETTING"}
  /\ Pw!RegdKept

(* The domain that follows a request, as a record.                         *)
LEMMA NextRegdIs ==
  ASSUME NEW r, r = [country |-> r.country, country_code |-> r.country_code,
                     ie_ignore |-> r.ie_ignore, state |-> r.state],
         NEW req
  PROVE  LET c == Pw!Country(req.alpha2)
             n == Pw!NextRegd(r, req)
         IN  \/ /\ r.state = "WORLDWIDE" /\ req.initiator = "USER" /\ c # "00"
                /\ n = [country |-> c, country_code |-> r.country_code, ie_ignore |-> TRUE,
                        state |-> "SETTING"]
             \/ /\ r.state = "SETTING" /\ c = "00"
                /\ n = [country |-> c, country_code |-> r.country_code, ie_ignore |-> FALSE,
                        state |-> "WORLDWIDE"]
             \/ /\ ~(r.state = "WORLDWIDE" /\ req.initiator = "USER" /\ c # "00")
                /\ ~(r.state = "SETTING" /\ c = "00")
                /\ n = [country |-> c, country_code |-> r.country_code,
                        ie_ignore |-> r.ie_ignore, state |-> r.state]
<1> DEFINE c == Pw!Country(req.alpha2)
           first == [r EXCEPT !.country = c]
<1>1. PICK w, x, y, z : r = [country |-> w, country_code |-> x, ie_ignore |-> y, state |-> z]
  OBVIOUS
<1>2. r.country_code = x /\ r.ie_ignore = y /\ r.state = z
  BY <1>1
<1>3. first = [country |-> c, country_code |-> x, ie_ignore |-> y, state |-> z]
  BY <1>1
<1>4. Pw!NextRegd(r, req) =
        CASE r.state = "WORLDWIDE" /\ req.initiator = "USER" /\ c # "00" ->
               [first EXCEPT !.state = "SETTING", !.ie_ignore = TRUE]
          [] r.state = "SETTING" /\ c = "00" ->
               [first EXCEPT !.state = "WORLDWIDE", !.ie_ignore = FALSE]
          [] OTHER -> first
  BY DEF Pw!NextRegd
<1> HIDE DEF first, c
<1>5. ASSUME NEW s, NEW i
      PROVE  [first EXCEPT !.state = s, !.ie_ignore = i]
               = [country |-> c, country_code |-> x, ie_ignore |-> i, state |-> s]
  <2> DEFINE mid == [first EXCEPT !.state = s]
  <2>1. mid = [country |-> c, country_code |-> x, ie_ignore |-> y, state |-> s]
    BY <1>3
  <2>2. [first EXCEPT !.state = s, !.ie_ignore = i] = [mid EXCEPT !.ie_ignore = i]
    OBVIOUS
  <2> HIDE DEF mid
  <2>3. [mid EXCEPT !.ie_ignore = i]
          = [country |-> c, country_code |-> x, ie_ignore |-> i, state |-> s]
    BY <2>1
  <2> QED
    BY <2>2, <2>3
<1>6. CASE r.state = "WORLDWIDE" /\ req.initiator = "USER" /\ c # "00"
  <2>1. Pw!NextRegd(r, req) = [first EXCEPT !.state = "SETTING", !.ie_ignore = TRUE]
    BY <1>4, <1>6
  <2> QED
    BY <1>2, <1>5, <1>6, <2>1 DEF c
<1>7. CASE r.state = "SETTING" /\ c = "00"
  <2>1. Pw!NextRegd(r, req) = [first EXCEPT !.state = "WORLDWIDE", !.ie_ignore = FALSE]
    BY <1>4, <1>7
  <2> QED
    BY <1>2, <1>5, <1>7, <2>1 DEF c
<1>8. CASE /\ ~(r.state = "WORLDWIDE" /\ req.initiator = "USER" /\ c # "00")
           /\ ~(r.state = "SETTING" /\ c = "00")
  <2>1. Pw!NextRegd(r, req) = first
    BY <1>4, <1>8
  <2> QED
    BY <1>2, <1>3, <1>8, <2>1 DEF c
<1> QED
  BY <1>6, <1>7, <1>8 DEF c

(* A request that is followed keeps what the user and the efuse set.       *)
LEMMA NotifyKeepsRegd ==
  ASSUME PowerInv, RegdInv, NEW req \in Requests, Pw!RegdNotify(req)
  PROVE  RegdInv'
<1> DEFINE c == Pw!Country(req.alpha2)
           n == Pw!NextRegd(regd, req)
           user == IF req.initiator = "USER" THEN c ELSE pw_left.user
<1>1. Pw!Handles(regd, req) /\ regd' = n
  BY DEF Pw!RegdNotify
<1>2. pw_left'.user = user
  <2>1. pw_left' = [pw_left EXCEPT !.scan = pw_scan, !.cck = "CCK" \in pw_left.remnant,
                                   !.user = user]
    BY DEF Pw!RegdNotify
  <2>2. pw_left \in Lefts
    BY DEF PowerInv, PowerTypes, Lefts
  <2> HIDE DEF user
  <2>3. pw_left' = [remnant |-> pw_left.remnant, cck |-> "CCK" \in pw_left.remnant,
                    scan |-> pw_scan, user |-> user]
    BY <2>1, <2>2, LeftIs
  <2> QED
    BY <2>3
<1>3. regd.state \in {"WORLDWIDE", "PROGRAMMED", "SETTING"}
  BY DEF RegdInv
<1>4. /\ regd.state = "PROGRAMMED" => req.alpha2 = regd.country_code
      /\ regd.state = "SETTING" => req.initiator = "USER"
  BY <1>1, <1>3 DEF Pw!Handles
<1>5. /\ regd.ie_ignore <=> regd.state # "WORLDWIDE"
      /\ regd.state = "PROGRAMMED" => regd.country \in {"00", regd.country_code}
      /\ regd.state = "SETTING" => regd.country = pw_left.user
      /\ Pw!Country(regd.country_code) # "00" => regd.state = "PROGRAMMED"
      /\ pw_left.user # "00" /\ regd.state # "PROGRAMMED" => regd.state = "SETTING"
  BY DEF RegdInv, Pw!RegdKept
<1>6. c \in {"00", req.alpha2}
  BY DEF Pw!Country
<1>7. \/ /\ regd.state = "WORLDWIDE" /\ req.initiator = "USER" /\ c # "00"
         /\ n = [country |-> c, country_code |-> regd.country_code, ie_ignore |-> TRUE,
                 state |-> "SETTING"]
      \/ /\ regd.state = "SETTING" /\ c = "00"
         /\ n = [country |-> c, country_code |-> regd.country_code, ie_ignore |-> FALSE,
                 state |-> "WORLDWIDE"]
      \/ /\ ~(regd.state = "WORLDWIDE" /\ req.initiator = "USER" /\ c # "00")
         /\ ~(regd.state = "SETTING" /\ c = "00")
         /\ n = [country |-> c, country_code |-> regd.country_code,
                 ie_ignore |-> regd.ie_ignore, state |-> regd.state]
  BY NextRegdIs DEF RegdInv
<1> DEFINE RegdIs(country, ie, s) ==
      /\ regd' = [country |-> country, country_code |-> regd.country_code, ie_ignore |-> ie,
                  state |-> s]
<1> HIDE DEF n, c
<1>8. ASSUME NEW ie, NEW s \in {"WORLDWIDE", "PROGRAMMED", "SETTING"}, RegdIs(c, ie, s),
             ie <=> s # "WORLDWIDE",
             s = "PROGRAMMED" => c \in {"00", regd.country_code},
             s = "SETTING" => c = user,
             Pw!Country(regd.country_code) # "00" => s = "PROGRAMMED",
             user # "00" /\ s # "PROGRAMMED" => s = "SETTING"
      PROVE  RegdInv'
  <2> HIDE DEF user
  <2>1. /\ regd'.country = c /\ regd'.country_code = regd.country_code
        /\ regd'.ie_ignore = ie /\ regd'.state = s
    BY <1>8
  <2>2. regd' = [country |-> regd'.country, country_code |-> regd'.country_code,
                 ie_ignore |-> regd'.ie_ignore, state |-> regd'.state]
    BY <1>8, <2>1
  <2>3. Pw!Country(regd.country_code) = Pw!Country(regd'.country_code)
    BY <2>1
  <2>4. Pw!RegdKept'
    BY <1>2, <1>8, <2>1, <2>3 DEF Pw!RegdKept, Pw!Country
  <2> QED
    BY <1>8, <2>1, <2>2, <2>4 DEF RegdInv
<1>9. CASE regd.state = "WORLDWIDE" /\ req.initiator = "USER" /\ c # "00"
  <2>1. RegdIs(c, TRUE, "SETTING")
    BY <1>1, <1>7, <1>9
  <2>2. c = user
    BY <1>9
  <2>3. Pw!Country(regd.country_code) = "00"
    BY <1>5, <1>9
  <2> HIDE DEF user, RegdIs
  <2> QED
    BY <1>8, <2>1, <2>2, <2>3
<1>10. CASE regd.state = "SETTING" /\ c = "00"
  <2>1. RegdIs(c, FALSE, "WORLDWIDE")
    BY <1>1, <1>7, <1>10
  <2>2. user = "00"
    BY <1>4, <1>10
  <2>3. Pw!Country(regd.country_code) = "00"
    BY <1>5, <1>10
  <2> HIDE DEF user, RegdIs
  <2> QED
    BY <1>8, <2>1, <2>2, <2>3
<1>11. CASE /\ ~(regd.state = "WORLDWIDE" /\ req.initiator = "USER" /\ c # "00")
            /\ ~(regd.state = "SETTING" /\ c = "00")
  <2>1. RegdIs(c, regd.ie_ignore, regd.state)
    BY <1>1, <1>7, <1>11
  <2>2. regd.state = "SETTING" => c = user
    BY <1>4
  <2>3. user # "00" /\ regd.state # "PROGRAMMED" => regd.state = "SETTING"
    BY <1>3, <1>5, <1>11
  <2>4. regd.state = "PROGRAMMED" => c \in {"00", regd.country_code}
    BY <1>4, <1>6
  <2> HIDE DEF user, RegdIs
  <2> QED
    BY <1>3, <1>5, <1>8, <2>1, <2>2, <2>3, <2>4
<1> QED
  BY <1>9, <1>10, <1>11

(* All else leaves the domain and the user's choice alone.                 *)
LEMMA OthersKeepRegd ==
  ASSUME RegdInv, regd' = regd, pw_left'.user = pw_left.user
  PROVE  RegdInv'
  BY DEF RegdInv, Pw!RegdKept, Pw!Country

(***************************************************************************)
(* The centres of the widths that a channel is part of.                    *)
(***************************************************************************)
Start(primary) == IF primary >= 149 THEN 149 ELSE 36

(* The block of n channel numbers that a channel is in: its centre.        *)
BlockCenter(primary, n) ==
  ((primary - Start(primary)) \div n) * n + Start(primary) + n \div 2 - 2

(* A channel's centre of 40 or 80 MHz is that of the block it is in.       *)
LEMMA BlocksAre ==
  ASSUME NEW c \in Chandefs, c.primary \in 36..177, c.width # 20,
         Pw!CenterChan(c) \notin 1..14, NEW w \in {40, 80}, w <= c.width
  PROVE  Cch(c, w) = BlockCenter(c.primary, w \div 5)
<1> DEFINE d == c.primary - Start(c.primary)
           q == d \div 4
           off == c.primary_freq - c.center_freq
           m == c.width \div 20
<1>1. /\ c.width \in {40, 80} /\ c.primary_freq \in Nat /\ c.center_freq \in Nat
      /\ d % 4 = 0 /\ off = 20 * (q % m) - 10 * (m - 1)
  BY ChandefAssumption DEF Start
<1>2. Start(c.primary) \in {36, 149} /\ d \in 0..141 /\ c.primary = Start(c.primary) + d
  BY DEF Start
<1>3. c.primary_freq > c.center_freq <=> off > 0
  BY <1>1
<1>4. off \in Int
  BY <1>1
<1> HIDE DEF d, off
<1>5. q \in 0..35 /\ d = 4 * q
  BY <1>1, <1>2
<1> HIDE DEF q
<1>6. CASE c.width = 40
  <2>1. off = 20 * (q % 2) - 10 /\ w = 40
    BY <1>1, <1>6
  <2>2. PICK k \in 0..17 : q = 2 * k \/ q = 2 * k + 1
    BY <1>5
  <2>3. Cch(c, w) = IF off > 0 THEN c.primary - 2 ELSE c.primary + 2
    BY <1>3, <1>6, <2>1 DEF Cch, Pw!CenterChan
  <2>4. BlockCenter(c.primary, w \div 5) = (d \div 8) * 8 + Start(c.primary) + 2
    BY <1>2, <1>5, <2>1 DEF BlockCenter, d
  <2>5. CASE q = 2 * k
    <3>1. q % 2 = 0 /\ d \div 8 = k
      BY <1>5, <2>5
    <3> QED
      BY <1>2, <1>5, <2>1, <2>3, <2>4, <2>5, <3>1
  <2>6. CASE q = 2 * k + 1
    <3>1. q % 2 = 1 /\ d \div 8 = k
      BY <1>5, <2>6
    <3> QED
      BY <1>2, <1>5, <2>1, <2>3, <2>4, <2>6, <3>1
  <2> QED
    BY <2>2, <2>5, <2>6
<1>7. CASE c.width = 80
  <2>1. off = 20 * (q % 4) - 30
    BY <1>1, <1>7
  <2>2. PICK k \in 0..8, j \in 0..3 : q = 4 * k + j
    BY <1>5
  <2>3. q % 4 = j /\ d \div 16 = k /\ d \div 8 = (IF j \in {2, 3} THEN 2 * k + 1 ELSE 2 * k)
    BY <1>5, <2>2
  <2>4. Pw!CenterChan(c) = Start(c.primary) + 16 * k + 6
    <3> DEFINE e == IF off \in {10, -10} THEN 2 ELSE 6
    <3>1. Pw!CenterChan(c) = IF off > 0 THEN c.primary - e ELSE c.primary + e
      BY <1>3, <1>7 DEF Pw!CenterChan, off
    <3>2. off = 20 * j - 30 /\ c.primary = Start(c.primary) + 16 * k + 4 * j
      BY <1>2, <1>5, <2>1, <2>2, <2>3
    <3>3. CASE j = 0
      BY <1>2, <3>1, <3>2, <3>3
    <3>4. CASE j = 1
      BY <1>2, <3>1, <3>2, <3>4
    <3>5. CASE j = 2
      BY <1>2, <3>1, <3>2, <3>5
    <3>6. CASE j = 3
      BY <1>2, <3>1, <3>2, <3>6
    <3> QED
      BY <3>3, <3>4, <3>5, <3>6
  <2>5. CASE w = 80
    <3>1. Cch(c, w) = Pw!CenterChan(c)
      BY <1>7, <2>5 DEF Cch
    <3>2. BlockCenter(c.primary, w \div 5) = (d \div 16) * 16 + Start(c.primary) + 6
      BY <1>2, <1>5, <2>5 DEF BlockCenter, d
    <3> QED
      BY <1>2, <2>3, <2>4, <3>1, <3>2
  <2>6. CASE w = 40
    <3>1. Cch(c, w) = IF off > 0 THEN Pw!CenterChan(c) + 4 ELSE Pw!CenterChan(c) - 4
      BY <1>3, <1>7, <2>6 DEF Cch
    <3>2. BlockCenter(c.primary, w \div 5) = (d \div 8) * 8 + Start(c.primary) + 2
      BY <1>2, <1>5, <2>6 DEF BlockCenter, d
    <3>3. off > 0 <=> j \in {2, 3}
      BY <2>1, <2>3
    <3> QED
      BY <1>2, <2>3, <2>4, <3>1, <3>2, <3>3
  <2> QED
    BY <2>5, <2>6
<1> QED
  BY <1>1, <1>6, <1>7

(* A width's centre is in the band of the channel.                         *)
LEMMA CchInBand ==
  ASSUME NEW c \in Chandefs, NEW w \in {20, 40, 80}, w <= c.width
  PROVE  Cch(c, w) > 14 <=> Pw!CenterChan(c) > 14
<1>1. /\ Pw!CenterChan(c) \in 1..14 \cup 36..64 \cup 100..144 \cup 149..177
      /\ c.width \in {20, 40, 80} /\ c.primary \in 1..177
      /\ \/ c.primary \in 1..14 /\ Pw!CenterChan(c) \in 1..14 /\ c.width # 80
         \/ c.primary \in 36..177 /\ Pw!CenterChan(c) \in 36..64 \cup 100..144 \cup 149..177
  BY ChandefAssumption
<1>2. CASE c.primary \in 1..14 /\ Pw!CenterChan(c) \in 1..14 /\ c.width # 80
  <2>1. w = 20 \/ w = c.width
    BY <1>1, <1>2
  <2> QED
    BY <1>2, <2>1 DEF Cch
<1>3. CASE c.primary \in 36..177 /\ Pw!CenterChan(c) \in 36..64 \cup 100..144 \cup 149..177
  <2>1. Cch(c, w) \in {c.primary, Pw!CenterChan(c), Pw!CenterChan(c) + 4, Pw!CenterChan(c) - 4}
    BY <1>1 DEF Cch
  <2> QED
    BY <1>3, <2>1
<1> QED
  BY <1>1, <1>2, <1>3

(* The centres that limits are looked up for are those of the widths the   *)
(* channel is part of.                                                     *)
LEMMA CenterOfIs ==
  ASSUME Where, NEW rs, NEW w \in Pw!Widths(rs, hal.bw)
  PROVE  /\ hal.cch_by_bw[w] = Pw!CenterOf(w)
         /\ hal.cch_by_bw[w] > 14 <=> hal.channel > 14
<1>1. PICK c \in Chandefs : Tuned(hal, c) /\ (c = op \/ (pw_scan /\ c.width = 20))
  BY DEF Where
<1>2. /\ c.width \in {20, 40, 80} /\ hal.bw = c.width /\ hal.channel = Pw!CenterChan(c)
      /\ \A v \in {20, 40, 80} : v <= c.width => hal.cch_by_bw[v] = Cch(c, v)
  BY <1>1, CentersAre DEF Tuned
<1>3. w \in {20, 40, 80} /\ w <= c.width
  BY <1>2 DEF Pw!Widths
<1>4. hal.cch_by_bw[w] = Cch(c, w) /\ hal.cch_by_bw[20] = c.primary
  BY <1>2, <1>3 DEF Cch
<1>5. hal.cch_by_bw[w] > 14 <=> hal.channel > 14
  BY <1>2, <1>3, <1>4, CchInBand
<1>6. CASE w = 20
  BY <1>4, <1>5, <1>6 DEF Pw!CenterOf
<1>7. CASE w # 20
  <2>1. c = op
    BY <1>1, <1>2, <1>3, <1>7
  <2>2. /\ c.primary \in 1..177
        /\ \/ c.primary \in 1..14 /\ Pw!CenterChan(c) \in 1..14 /\ c.width # 80
           \/ c.primary \in 36..177 /\ Pw!CenterChan(c) \in 36..64 \cup 100..144 \cup 149..177
    BY ChandefAssumption
  <2>3. CASE c.primary \in 1..14 /\ Pw!CenterChan(c) \in 1..14 /\ c.width # 80
    <3>1. w = 40 /\ c.width = 40
      BY <1>2, <1>3, <1>7, <2>3
    <3>2. Cch(c, w) = Pw!CenterChan(c)
      BY <3>1 DEF Cch
    <3>3. ~(hal.cch_by_bw[20] > 14)
      BY <1>4, <2>3
    <3>4. Pw!CenterOf(w) = hal.channel
      BY <1>7, <3>3 DEF Pw!CenterOf
    <3> QED
      BY <1>2, <1>4, <1>5, <3>2, <3>4
  <2>4. CASE c.primary \in 36..177 /\ Pw!CenterChan(c) \in 36..64 \cup 100..144 \cup 149..177
    <3>1. Cch(c, w) = BlockCenter(c.primary, w \div 5)
      <4>1. c.width # 20 /\ Pw!CenterChan(c) \notin 1..14 /\ w \in {40, 80}
        BY <1>2, <1>3, <1>7, <2>4
      <4> QED
        BY <1>3, <2>4, <4>1, BlocksAre
    <3>2. hal.cch_by_bw[20] > 14
      BY <1>4, <2>4
    <3>3. Pw!CenterOf(w) = BlockCenter(c.primary, w \div 5)
      BY <1>4, <1>7, <2>1, <3>2 DEF Pw!CenterOf, BlockCenter, Start
    <3> QED
      BY <1>4, <1>5, <3>1, <3>3
  <2> QED
    BY <2>2, <2>3, <2>4
<1> QED
  BY <1>5, <1>6, <1>7

(* The bounds of PowerBounded are what is allowed.                         *)
LEMMA BoundsAre ==
  ASSUME Where, limits \in Tables, NEW rate \in TxRates
  PROVE  Pw!TableBounds(rate) \cup Pw!SarBounds
           = Allowed(hal, Pw!Domain(regd, hal), sar, rate)
<1> DEFINE D == Pw!Domain(regd, hal)
           W == Pw!Widths(rate[1], hal.bw)
           B(w) == IF Pw!Bounds(rate[1], w) = {} /\ hal.channel > 14 /\ w <= 40
                      /\ rate[1] \in DOMAIN Pw!Twin
                   THEN Pw!Bounds(Pw!Twin[rate[1]], w) ELSE Pw!Bounds(rate[1], w)
           A(w) == Applying(D, w, rate[1], hal.cch_by_bw[w])
<1>1. ASSUME NEW w \in W PROVE B(w) = A(w)
  <2>1. /\ hal.cch_by_bw[w] = Pw!CenterOf(w)
        /\ hal.cch_by_bw[w] > 14 <=> hal.channel > 14
    BY CenterOfIs
  <2>2. \A rs : Pw!Bounds(rs, w) = Own(D, w, rs, hal.cch_by_bw[w])
    <3> TAKE rs
    <3>1. Pw!Bounds(rs, w) = {e.lmt : e \in Entries(D, w, rs, Pw!CenterOf(w))} \ {63}
      BY DEF Pw!Bounds, Entries, Pw!MAX
    <3> QED
      BY <2>1, <3>1 DEF Own
  <2> HIDE DEF D
  <2> QED
    BY <2>1, <2>2 DEF Applying
<1>2. Pw!TableBounds(rate) = {PG[Pw!Band(hal.channel)][rate]} \cup UNION {B(w) : w \in W}
  BY DEF Pw!TableBounds
<1>3. ByRegd(hal, D, rate) = UNION {A(w) : w \in W}
  BY DEF ByRegd
<1>4. Pw!SarBounds = BySar(hal, sar)
  BY DEF Pw!SarBounds, BySar
<1> HIDE DEF D, W, A, B
<1>5. {B(w) : w \in W} = {A(w) : w \in W}
  BY <1>1
<1>6. Allowed(hal, D, sar, rate)
        = {PG[Pw!Band(hal.channel)][rate]} \cup ByRegd(hal, D, rate) \cup BySar(hal, sar)
  BY DEF Allowed
<1> QED
  BY <1>2, <1>3, <1>4, <1>5, <1>6 DEF D

(* The register of a current rate is an index with a remnant that is that  *)
(* of its path, or, of CCK, exceeds it by no more than CCK counts higher.  *)
LEMMA RegisterIs ==
  ASSUME PowerInv, NEW p \in Pw!Paths, NEW rate \in TxRates, Pw!Current(p, rate)
  PROVE  \E dm :
           /\ agc[p][rate] = Pw!Index(hal, Pw!Domain(regd, hal), sar, dm, p, rate)
           /\ Pw!Remnant(dm, p, rate[1]) \in Int /\ Pw!Remnant(dm, p, rate[1]) >= pwrtrk.remnant[p]
           /\ Pw!Remnant(dm, p, rate[1]) - pwrtrk.remnant[p]
                <= IF rate[1] = "CCK" THEN 24 - SWING["2G"] ELSE 0
<1>0. PowerTypes /\ Where /\ OfdmWritten /\ HtWritten /\ CckWritten
  BY DEF PowerInv
<1>1. /\ hal.channel > 14 => rate[1] # "CCK"
      /\ rate[1] = "CCK" => p = "A" /\ ~pw_left.cck
      /\ rate[1] \in Pw!Legacy \/ (Pw!OnOperating /\ ~pw_left.scan)
      /\ pwrtrk.default = SWING[Pw!Band(hal.channel)]
  BY DEF Pw!Current
<1>2. pwrtrk.remnant[p] \in Int /\ pwrtrk.default \in 0..24
  BY <1>0, DefaultsAre DEF PowerTypes
<1>3. CASE rate[1] = "OFDM"
  <2>1. agc[p][rate] = Pw!Index(hal, Pw!Domain(regd, hal), sar, pwrtrk, p, rate)
    BY <1>0, <1>3 DEF OfdmWritten, Due
  <2>2. Pw!Remnant(pwrtrk, p, rate[1]) = pwrtrk.remnant[p] /\ rate[1] # "CCK"
    BY <1>3 DEF Pw!Remnant
  <2> QED
    BY <1>2, <2>1, <2>2
<1>4. CASE rate[1] \notin Pw!Legacy
  <2>1. agc[p][rate] = Due(HalOf(op), pwrtrk, p, rate)
    BY <1>0, <1>1, <1>4 DEF HtWritten
  <2>2. Tuned(hal, op) /\ Tuned(HalOf(op), op) /\ op \in Chandefs
    BY <1>0, <1>1, <1>4, OnOperatingIs, HalOfTuned DEF PowerTypes
  <2>3. agc[p][rate] = Pw!Index(hal, Pw!Domain(regd, hal), sar, pwrtrk, p, rate)
    BY <2>1, <2>2, DueAt DEF Due
  <2>4. Pw!Remnant(pwrtrk, p, rate[1]) = pwrtrk.remnant[p] /\ rate[1] # "CCK"
    BY <1>4 DEF Pw!Remnant, Pw!Legacy
  <2> QED
    BY <1>2, <2>3, <2>4
<1>5. CASE rate[1] = "CCK"
  <2>1. hal.channel <= 14 /\ Pw!Band(hal.channel) = "2G"
    BY <1>0, <1>1, <1>5, WhereIs DEF Pw!Band
  <2>2. p = "A" /\ ~pw_left.cck
    BY <1>1, <1>5
  <2>3. PICK n \in CckRemnants : agc["A"][rate] = Due(hal, [remnant_cck |-> n], "A", rate)
    BY <1>0, <1>5, <2>1, <2>2 DEF CckWritten
  <2> DEFINE dm == [remnant_cck |-> n]
  <2>4. Pw!Remnant(dm, p, rate[1]) = n
    BY <1>5 DEF Pw!Remnant
  <2>5. n \in Int /\ n >= pwrtrk.remnant[p] /\ n - pwrtrk.remnant[p] <= 24 - pwrtrk.default
    BY <1>2, <2>2 DEF CckRemnants
  <2>6. agc[p][rate] = Pw!Index(hal, Pw!Domain(regd, hal), sar, dm, p, rate)
    BY <2>2, <2>3 DEF Due
  <2> HIDE DEF dm
  <2>7. pwrtrk.default = SWING["2G"]
    BY <1>1, <2>1
  <2> QED
    BY <1>5, <2>4, <2>5, <2>6, <2>7
<1> QED
  BY <1>3, <1>4, <1>5 DEF Pw!Legacy

(* The invariant bounds the power.                                         *)
LEMMA PowerInvBounds ==
  ASSUME PowerInv
  PROVE  Pw!PowerBounded
<1> SUFFICES ASSUME NEW p \in Pw!Paths, NEW rate \in TxRates, Pw!Current(p, rate)
             PROVE  LET bound == Pw!Min(Pw!TableBounds(rate) \cup Pw!SarBounds)
                        lowest == Pw!PgBase(Pw!Band(hal.channel), rate[1])
                                  - Pw!Base(hal, p, rate[1]) - pwrtrk.remnant[p]
                        more == IF rate[1] = "CCK" THEN 24 - SWING["2G"] ELSE 0
                    IN  bound >= lowest => Pw!Radiated(p, rate) <= bound + more
  BY DEF Pw!PowerBounded
<1>0. PowerTypes /\ Where /\ Shifted
  BY DEF PowerInv
<1>1. PICK c \in Chandefs : Tuned(hal, c)
  BY <1>0 DEF Where
<1> DEFINE D == Pw!Domain(regd, hal)
           bound == Pw!Min(Pw!TableBounds(rate) \cup Pw!SarBounds)
           base == Pw!Base(hal, p, rate[1])
           from == From(hal, rate)
           offer == Offer(hal, D, sar, rate)
           rest == pwrtrk.remnant[p]
           more == IF rate[1] = "CCK" THEN 24 - SWING["2G"] ELSE 0
<1>2. bound = offer + from /\ offer \in Int
  <2>1. limits \in Tables /\ sar \in Sars \cup {<<>>}
    BY <1>0 DEF PowerTypes
  <2>2. (hal.sar_band = 0) <=> (hal.channel <= 14)
    BY <1>1, TunedSar
  <2>3. Pw!TableBounds(rate) \cup Pw!SarBounds = Allowed(hal, D, sar, rate)
    BY <1>0, <2>1, BoundsAre
  <2> HIDE DEF D
  <2>4. /\ Offer(hal, D, sar, rate) \in Int
        /\ Pw!Min(Allowed(hal, D, sar, rate)) = Offer(hal, D, sar, rate) + From(hal, rate)
    BY <2>1, <2>2, OfferIs
  <2> QED
    BY <2>3, <2>4
<1>3. base \in Nat
  BY <1>1, BaseIs
<1>4. from \in 0..63 /\ from = Pw!PgBase(Pw!Band(hal.channel), rate[1])
  BY PgAre DEF From
<1>5. PICK dm :
        /\ agc[p][rate] = Pw!Index(hal, D, sar, dm, p, rate)
        /\ Pw!Remnant(dm, p, rate[1]) \in Int /\ Pw!Remnant(dm, p, rate[1]) >= rest
        /\ Pw!Remnant(dm, p, rate[1]) - rest <= more
  BY RegisterIs
<1> DEFINE r == Pw!Remnant(dm, p, rate[1])
           sum == base + offer + r
<1>6. agc[p][rate] \in 0..63 /\ (sum >= 0 => agc[p][rate] <= sum)
  <2> HIDE DEF D
  <2>1. LET s == Pw!Base(hal, p, rate[1]) + Offer(hal, D, sar, rate) + Pw!Remnant(dm, p, rate[1])
        IN  /\ Pw!Index(hal, D, sar, dm, p, rate) \in 0..63
            /\ s >= 0 => Pw!Index(hal, D, sar, dm, p, rate) <= s
    BY <1>2, <1>3, <1>5, IndexIs
  <2> QED
    BY <1>5, <2>1
<1>7. /\ rest \in Int /\ swing[p] \in Int /\ pwrtrk.delta[p] \in Int /\ pwrtrk.default \in 0..24
      /\ pwrtrk.default = SWING[Pw!Band(hal.channel)]
      /\ swing[p] + rest = pwrtrk.default + pwrtrk.delta[p]
  <2>1. p \notin pw_left.remnant /\ pwrtrk.default = SWING[Pw!Band(hal.channel)]
    BY DEF Pw!Current
  <2> QED
    BY <1>0, <2>1, DefaultsAre DEF PowerTypes, Shifted
<1>8. Pw!Radiated(p, rate)
        = agc[p][rate] - base + from + swing[p] - pwrtrk.default - pwrtrk.delta[p]
  BY <1>4, <1>7 DEF Pw!Radiated
<1>9. more \in Int
  BY DefaultsAre
<1>10. r \in Int /\ r >= rest /\ r - rest <= more
  BY <1>5
<1> DEFINE index == agc[p][rate]
           sw == swing[p]
           def == pwrtrk.default
           del == pwrtrk.delta[p]
<1>11. ASSUME bound >= from - base - rest
       PROVE  Pw!Radiated(p, rate) <= bound + more
  <2>1. index \in Int /\ (sum >= 0 => index <= sum) /\ sw \in Int /\ def \in Int /\ del \in Int
        /\ sw + rest = def + del /\ Pw!Radiated(p, rate) = index - base + from + sw - def - del
        /\ rest \in Int
    BY <1>6, <1>7, <1>8
  <2> HIDE DEF bound, base, from, offer, rest, more, r, index, sw, def, del
  <2>2. sum >= 0 /\ sum \in Int
    BY <1>2, <1>3, <1>4, <1>10, <1>11, <2>1
  <2>3. index <= base + offer + r
    BY <2>1, <2>2
  <2> HIDE DEF sum
  <2> QED
    BY <1>2, <1>3, <1>4, <1>9, <1>10, <2>1, <2>3
<1> HIDE DEF bound, base, from, rest, more
<1> QED
  BY <1>4, <1>11 DEF bound, base, rest, more

(***************************************************************************)
(* The device comes up on a channel of 2.4 GHz, with all written.          *)
(***************************************************************************)
LEMMA PowerInitially ==
  ASSUME Pw!Init
  PROVE  PowerInv /\ RegdInv
<1> DEFINE h == [cch_by_bw |-> [w \in {20, 40, 80} |-> 1]]
<1>1. /\ limits \in Tables /\ sar = <<>> /\ pw_scan = FALSE /\ op \in Chandefs
      /\ hal = Pw!UpdateChannel(h, op)
      /\ swing = [p \in Pw!Paths |-> SWING["2G"]]
      /\ pwrtrk = [default |-> SWING["2G"], delta |-> [p \in Pw!Paths |-> 0],
                   remnant |-> [p \in Pw!Paths |-> 0], remnant_cck |-> 0]
      /\ pw_left = [remnant |-> {}, cck |-> FALSE, scan |-> FALSE, user |-> "00"]
      /\ agc = Pw!PowerLevel(Pw!NoPower, hal, regd, sar, pwrtrk)
  BY DEF Pw!Init
<1>2. Tuned(hal, op) /\ hal.cch_by_bw \in [{20, 40, 80} -> Int]
  BY <1>1, UpdateIs
<1>3. Where
  BY <1>1, <1>2 DEF Where
<1>4. hal.channel \in Int
  BY <1>3, WhereIs
<1>5. SWING["2G"] \in 0..24
  BY DefaultsAre
<1>6. PowerTypes
  <2>1. pwrtrk \in [default : {SWING["2G"], SWING["5G"]}, delta : [Pw!Paths -> Int],
                    remnant : [Pw!Paths -> Int], remnant_cck : Int]
    BY <1>1
  <2>2. swing \in [Pw!Paths -> Int]
    BY <1>1, <1>5
  <2>3. pw_left \in [remnant : SUBSET {"A", "B", "CCK"}, cck : BOOLEAN, scan : BOOLEAN,
                     user : Users]
    BY <1>1 DEF Users
  <2> QED
    BY <1>1, <1>2, <2>1, <2>2, <2>3 DEF PowerTypes
<1>7. Shifted
  BY <1>1, <1>5 DEF Shifted
<1>8. CckShifted /\ pwrtrk.remnant_cck \in CckRemnants
  <2>1. /\ pwrtrk.remnant_cck = 0 /\ pwrtrk.remnant["A"] = 0 /\ pwrtrk.default = SWING["2G"]
    BY <1>1, Paths2
  <2> QED
    BY <1>5, <2>1 DEF CckShifted, CckRemnants
<1>9. ASSUME NEW p \in Pw!Paths, NEW rate \in TxRates, hal.channel > 14 => rate[1] # "CCK"
      PROVE  agc[p][rate] = Due(hal, pwrtrk, p, rate)
  <2>1. rate \in Pw!Written(hal, pw_scan)
    BY <1>1, <1>9 DEF Pw!Written
  <2> QED
    BY <1>1, <2>1 DEF Pw!PowerLevel, Due
<1>10. OfdmWritten
  BY <1>9 DEF OfdmWritten
<1>11. HtWritten
  <2> SUFFICES ASSUME NEW p \in Pw!Paths, NEW rate \in TxRates, rate[1] \notin Pw!Legacy
               PROVE  agc[p][rate] = Due(HalOf(op), pwrtrk, p, rate)
    BY DEF HtWritten
  <2>1. agc[p][rate] = Due(hal, pwrtrk, p, rate)
    BY <1>9 DEF Pw!Legacy
  <2> QED
    BY <1>1, <1>2, <2>1, HalOfTuned, DueAt
<1>12. CckWritten
  <2> SUFFICES ASSUME hal.channel <= 14, NEW rate \in TxRates, rate[1] = "CCK"
               PROVE  \E n \in CckRemnants :
                        agc["A"][rate] = Due(hal, [remnant_cck |-> n], "A", rate)
    BY DEF CckWritten
  <2>1. agc["A"][rate] = Due(hal, pwrtrk, "A", rate)
    BY <1>4, <1>9, Paths2
  <2> DEFINE n == pwrtrk.remnant_cck
  <2>2. Pw!Remnant([remnant_cck |-> n], "A", rate[1]) = Pw!Remnant(pwrtrk, "A", rate[1])
    BY DEF Pw!Remnant
  <2>3. agc["A"][rate] = Due(hal, [remnant_cck |-> n], "A", rate)
    BY <2>1, <2>2, IndexOfRemnant DEF Due
  <2> QED
    BY <1>8, <2>3
<1>13. RegdInv
  <2>1. PICK k \in Programmed : regd = Pw!RegdInit(k)
    BY DEF Pw!Init
  <2>2. regd = [country |-> "00", country_code |-> k, ie_ignore |-> Pw!Country(k) # "00",
                state |-> IF Pw!Country(k) # "00" THEN "PROGRAMMED" ELSE "WORLDWIDE"]
    BY <2>1 DEF Pw!RegdInit
  <2>3. pw_left.user = "00"
    BY <1>1
  <2>4. CASE Pw!Country(k) # "00"
    <3>1. /\ regd = [country |-> "00", country_code |-> k, ie_ignore |-> TRUE,
                     state |-> "PROGRAMMED"]
      BY <2>2, <2>4
    <3> QED
      BY <2>3, <3>1 DEF RegdInv, Pw!RegdKept
  <2>5. CASE Pw!Country(k) = "00"
    <3>1. /\ regd = [country |-> "00", country_code |-> k, ie_ignore |-> FALSE,
                     state |-> "WORLDWIDE"]
      BY <2>2, <2>5
    <3> QED
      BY <2>3, <2>5, <3>1 DEF RegdInv, Pw!RegdKept
  <2> QED
    BY <2>4, <2>5
<1> QED
  BY <1>3, <1>6, <1>7, <1>8, <1>10, <1>11, <1>12, <1>13 DEF PowerInv

(* Every step keeps the invariant.                                         *)
LEMMA PowerSteps ==
  ASSUME PowerInv, RegdInv, Pw!Next
  PROVE  PowerInv' /\ RegdInv'
<1>1. CASE Pw!ScanStart
  <2>1. /\ limits' = limits /\ regd' = regd /\ hal' = hal /\ op' = op /\ sar' = sar /\ agc' = agc
        /\ swing' = swing /\ pwrtrk' = pwrtrk /\ pw_left' = pw_left /\ pw_scan' = TRUE
    BY <1>1 DEF Pw!ScanStart
  <2> QED
    BY <2>1, StillKeepsPower, OthersKeepRegd
<1>2. CASE Pw!ScanComplete
  <2>1. /\ limits' = limits /\ regd' = regd /\ hal' = hal /\ op' = op /\ sar' = sar /\ agc' = agc
        /\ swing' = swing /\ pwrtrk' = pwrtrk /\ pw_left' = pw_left /\ pw_scan' = FALSE
        /\ Pw!OnOperating
    BY <1>2 DEF Pw!ScanComplete
  <2>2. Tuned(hal, op)
    BY <2>1, OnOperatingIs DEF PowerInv
  <2> QED
    BY <2>1, <2>2, StillKeepsPower, OthersKeepRegd
<1>3. ASSUME NEW c \in Chandefs, Pw!SetChannel(c) \/ Pw!ScanChannel(c) \/ Pw!Restart(c)
      PROVE  PowerInv' /\ RegdInv'
  <2>1. Pw!ToChannel(c, Pw!Here) \/ Pw!ToChannel(c, Pw!PoweredOn)
    BY <1>3 DEF Pw!SetChannel, Pw!ScanChannel, Pw!Restart
  <2>2. /\ pw_left' = [user |-> pw_left.user, scan |-> pw_left.scan /\ pw_scan,
                       remnant |-> pw_left'.remnant, cck |-> "CCK" \in pw_left'.remnant]
        /\ regd' = regd
    BY <2>1, ToChannelIs DEF PowerInv
  <2>3. pw_left'.user = pw_left.user
    BY <2>2
  <2>4. pw_scan' = pw_scan
    BY <1>3 DEF Pw!SetChannel, Pw!ScanChannel, Pw!Restart
  <2>5. \/ /\ ~pw_scan /\ op' = c
           /\ Pw!ToChannel(c, Pw!Here) \/ Pw!ToChannel(c, Pw!PoweredOn)
        \/ /\ pw_scan /\ op' = op /\ (c = op \/ c.width = 20)
           /\ Pw!ToChannel(c, Pw!Here)
    BY <1>3 DEF Pw!SetChannel, Pw!ScanChannel, Pw!Restart
  <2>6. PowerInv'
    BY <2>4, <2>5, MoveKeepsPower
  <2>7. RegdInv'
    BY <2>2, <2>3, OthersKeepRegd
  <2> QED
    BY <2>6, <2>7
<1>4. ASSUME NEW req \in Requests, Pw!RegdNotify(req)
      PROVE  PowerInv' /\ RegdInv'
  BY <1>4, NotifyKeepsPower, NotifyKeepsRegd
<1>5. ASSUME NEW spec \in Sars, Pw!SetSar(spec)
      PROVE  PowerInv' /\ RegdInv'
  <2>1. pw_left' = [pw_left EXCEPT !.scan = pw_scan, !.cck = "CCK" \in pw_left.remnant]
        /\ regd' = regd
    BY <1>5 DEF Pw!SetSar
  <2>2. pw_left' = [remnant |-> pw_left.remnant, cck |-> "CCK" \in pw_left.remnant,
                    scan |-> pw_scan, user |-> pw_left.user]
    BY <2>1, LeftIs DEF PowerInv, PowerTypes, Lefts
  <2>3. pw_left'.user = pw_left.user
    BY <2>2
  <2> QED
    BY <1>5, <2>1, <2>3, SetSarKeepsPower, OthersKeepRegd
<1>6. ASSUME NEW a \in Deltas, NEW b \in Deltas, NEW limit \in SwingLimits,
             Pw!Track(a, b, limit)
      PROVE  PowerInv' /\ RegdInv'
  <2>1. regd' = regd
    BY <1>6 DEF Pw!Track
  <2> QED
    BY <1>6, <2>1, TrackKeepsPower, OthersKeepRegd
<1> QED
  BY <1>1, <1>2, <1>3, <1>4, <1>5, <1>6 DEF Pw!Next

(***************************************************************************)
(* PowerSound holds: no rate is sent with more than the board, the domain  *)
(* and SAR allow, and the domain that the user or the efuse set stays      *)
(* (phy.c:2212, regd.c:400), for all tables of limits, powers of boards and*)
(* efuses, channels, requests and temperatures of the assumptions.         *)
(***************************************************************************)
THEOREM PowerIsSound == Pw!Spec => []PowerSound
<1>1. Pw!Init => PowerInv /\ RegdInv
  BY PowerInitially
<1>2. PowerInv /\ RegdInv /\ [Pw!Next]_Pw!power_vars => PowerInv' /\ RegdInv'
  <2> SUFFICES ASSUME PowerInv, RegdInv, [Pw!Next]_Pw!power_vars
               PROVE  PowerInv' /\ RegdInv'
    OBVIOUS
  <2>1. CASE Pw!Next
    BY <2>1, PowerSteps
  <2>2. CASE UNCHANGED Pw!power_vars
    <3>1. /\ limits' = limits /\ regd' = regd /\ hal' = hal /\ op' = op /\ sar' = sar
          /\ agc' = agc /\ swing' = swing /\ pwrtrk' = pwrtrk /\ pw_left' = pw_left
          /\ pw_scan' = pw_scan
      BY <2>2 DEF Pw!power_vars
    <3>2. pw_scan' \in BOOLEAN
      BY <3>1 DEF PowerInv, PowerTypes
    <3> QED
      BY <3>1, <3>2, StillKeepsPower, OthersKeepRegd
  <2> QED
    BY <2>1, <2>2
<1>3. PowerInv /\ RegdInv => PowerSound
  BY PowerInvBounds DEF RegdInv, PowerSound
<1> QED
  BY <1>1, <1>2, <1>3, PTL DEF Pw!Spec

=============================================================================
