-------------------------------- MODULE Iqk --------------------------------
(***************************************************************************)
(* Calibration of the imbalance of I and Q (rtw8812a.c: rtw8812a_do_iqk)   *)
(* and of the oscillator (rtw8812a_do_lck).  The driver sets registers     *)
(* aside, takes the radio apart, has the chip measure both paths at once   *)
(* until two measurements of each agree, first the sender, then the        *)
(* receiver, fills in the results and puts the registers back.             *)
(*                                                                         *)
(* The addresses C00 to EFF are two pages of registers, chosen by bit 31 of*)
(* REG_CCASEL.  A register is dirty when it is not what it was before the  *)
(* calibration.                                                            *)
(***************************************************************************)
EXTENDS Integers, Sequences, FiniteSetsExt, Functions

CONSTANTS
  RxBases,     \* what the receivers may measure: about these <<x, y>>, by path
  Offsets,     \* how far from it the n-th measurement may be, n from 0 to 9
  MAX_CALS

VARIABLES
  iqk_pc,      \* "idle", "tx" or "rx": measuring the senders, the receivers
  chip,        \* [page, dirty, saved, paused]: the page; registers, those set
               \* aside while clean; the oscillator's calibration found a
               \* TXPAUSE other than 0
  cal,         \* by path: [ms, retry, finish, base] of this stage
  tx,          \* by path: the sender's result, none if {}
  ready,       \* by path: iqk0_ready, iqk1_ready
  filled,      \* by path: what was filled in
  cals

vars == <<iqk_pc, chip, cal, tx, ready, filled, cals>>

Paths == {"A", "B"}

(* A measurement of I and Q is two fields of 11 bits with a sign.          *)
Word == -1024..1023
Measures == Word \X Word

----------------------------------------------------------------------------
(* What is done to the registers of the chip c, a page or a set of         *)
(* addresses at a time; RF registers are at 10 and 11, by path.            *)
Key(page, a) == IF a \in \hc00..\heff THEN <<page, a>> ELSE <<0, a>>
Keys(c, addrs) == {Key(c.page, a) : a \in addrs}

Dirtied(c, keys) == [c EXCEPT !.dirty = @ \cup keys]
SetAside(c, keys) == [c EXCEPT !.saved = @ \cup (keys \ c.dirty)]
Returned(c, keys) == [c EXCEPT !.dirty = (@ \ (keys \cap c.saved)) \cup (keys \ c.saved)]

Turn(c, page) == [c EXCEPT !.page = page]
Write(c, addrs) == Dirtied(c, Keys(c, addrs))
Save(c, addrs) == SetAside(c, Keys(c, addrs))

(* \h82c is REG_CCASEL itself, whose bit 31 is the page.                   *)
Restore(c, addrs) ==
  IF \h82c \in addrs THEN Turn(Returned(c, Keys(c, addrs)), 0)
                     ELSE Returned(c, Keys(c, addrs))

(* An RF register is reached through 0xC90 and 0xE90 of page 0.            *)
RfKeys(path, addrs) == {<<IF path = "A" THEN 10 ELSE 11, a>> : a \in addrs}
Astray(c, keys) == Dirtied(c, keys \cup {<<1, \hc90>>})

Rf(c, path, addrs) ==
  IF c.page = 0 THEN Dirtied(c, RfKeys(path, addrs)) ELSE Astray(c, RfKeys(path, addrs))
SaveRf(c, path, addrs) ==
  IF c.page = 0 THEN SetAside(c, RfKeys(path, addrs)) ELSE Astray(c, RfKeys(path, addrs))
RestoreRf(c, path, addrs) ==
  IF c.page = 0 THEN Returned(c, RfKeys(path, addrs)) ELSE Astray(c, RfKeys(path, addrs))

(* Bits that are cleared without having been set aside: the register is    *)
(* what it was if they were 0.  Bit 14 of RF_LCK is, and TXPAUSE (0x522)   *)
(* but for what a power_off that timed out may have left in it.            *)
AtRest(c) == RfKeys("A", {\hb4}) \cup (IF c.paused THEN {} ELSE {<<0, \h520>>})
Undone(c, keys) == [Dirtied(c, keys) EXCEPT !.dirty = @ \ (keys \cap AtRest(c))]
Clear(c, addrs) == Undone(c, Keys(c, addrs))
ClearRf(c, path, addrs) ==
  IF c.page = 0 THEN Undone(c, RfKeys(path, addrs)) ELSE Astray(c, RfKeys(path, addrs))

BackupMacBb == {\h520, \h550, \h808, \ha04, \h90c, \hc00, \he00, \h838, \h82c}
BackupAfe ==
  {\hc5c, \hc60, \hc64, \hc68, \hcb0, \hcb4, \he5c, \he60, \he64, \he68, \heb0, \heb4}
BackupRf == {\h65, \h8f, \h0}
RfeCtl == {\hcb8, \heb8}
Both(addrs) == addrs \cup {a + \h200 : a \in addrs}

Backup(c) ==
  LET mac == Save(Turn(c, 0), BackupMacBb)
      rfe == Save(Turn(mac, 1), RfeCtl)
      afe == Save(Turn(rfe, 0), BackupAfe)
  IN  SaveRf(SaveRf(Turn(afe, 0), "A", BackupRf), "B", BackupRf)

ConfigureMac(c) == Write(Turn(c, 0), {\h520, \h550, \h808, \h838, \ha04})

RfSetting == {\hef, \h30, \h31, \h32, \h65, \h8f}

TxSetup(c) ==
  LET afe == Write(Turn(c, 0), Both({\hc60, \hc64, \hc68, \hc00, \hc5c}))
      rf == Rf(Rf(Turn(afe, 0), "A", RfSetting), "B", RfSetting)
      bb == Write(rf, {\h90c, \hc94, \he94, \h978, \h97c, \h984})
  IN  Write(Turn(bb, 1), Both({\hc88, \hc8c, \hc80, \hc84, \hce8}))

OneShot(c) == Write(c, RfeCtl \cup {\h980})

(* The calibrated leak of the oscillator is loaded; then the setting for   *)
(* the receivers of the paths whose senders are done.                      *)
RxSetup(c, done) ==
  LET leak == Rf(Rf(Turn(c, 0), "A", {\h58}), "B", {\h58})
      back == Turn(Turn(leak, 1), 0)
      rfA == IF "A" \in done THEN Rf(back, "A", RfSetting) ELSE back
      rfB == IF "B" \in done THEN Rf(rfA, "B", RfSetting) ELSE rfA
      bb == Turn(Write(rfB, {\h978, \h90c, \h984} \cup Both({\hcb0, \hcb4})), 1)
      shotA == IF "A" \in done THEN Write(bb, {\hc80, \hc84, \hc88}) ELSE bb
  IN  IF "B" \in done THEN Write(shotA, {\he80, \he84, \he88}) ELSE shotA

RxShotOf(c, of) == Write(Turn(Write(Turn(c, 0), {\h978}), 1), of)

RxOneShot(c, done) ==
  LET shotA == IF "A" \in done THEN RxShotOf(Turn(c, 0), {\hc8c, \hcb8}) ELSE Turn(c, 0)
  IN  IF "B" \in done THEN RxShotOf(shotA, {\he8c, \heb8}) ELSE shotA

Filling(c) ==
  LET txA == Write(Turn(c, 1), {\hc90, \hcc4, \hcc8, \hccc, \hcd4})
      rxA == Write(Turn(txA, 0), {\hc10})
      txB == Write(Turn(rxA, 1), {\he90, \hec4, \hec8, \hecc, \hed4})
  IN  Write(Turn(txB, 0), {\he10})

RestoreAfe(c) ==
  Write(Turn(Restore(Turn(c, 0), BackupAfe), 1),
        Both({\hc80, \hc84, \hc88, \hc8c, \hc90, \hcc4, \hcc8}))

RestoreRfOf(c, path) == Rf(RestoreRf(c, path, BackupRf), path, {\hef})

RestoreRest(c) ==
  LET rfe == Restore(Turn(RestoreAfe(c), 1), RfeCtl)
  IN  Restore(Turn(Turn(rfe, 0), 0), BackupMacBb)

(* Mutant: the page is not turned back before the RF registers.            *)
PutBackAstray(c) == RestoreRest(RestoreRfOf(RestoreRfOf(Turn(c, 1), "A"), "B"))

PutBack(c) == RestoreRest(RestoreRfOf(Turn(RestoreRfOf(Turn(c, 0), "A"), 0), "B"))

----------------------------------------------------------------------------
(* Numbers.  C divides towards 0.                                          *)
Half(n) == IF n >= 0 THEN n \div 2 ELSE -((-n) \div 2)
Near(a, b) == a - b \in -3..3
Agree(m, n) == Near(m[1], n[1]) /\ Near(m[2], n[2])

(* rtw88xxa_iqk_finish: the mean of the last pair that agrees; break_inner *)
(* takes the first partner of the last that has one.                       *)
Pairs(ms) ==
  {p \in (DOMAIN ms) \X (DOMAIN ms) : p[1] < p[2] /\ Agree(ms[p[1]], ms[p[2]])}

Finish(ms, break_inner) ==
  IF Pairs(ms) = {} THEN {}
  ELSE LET i == Max({p[1] : p \in Pairs(ms)})
           partners == {p[2] : p \in {q \in Pairs(ms) : q[1] = i}}
           j == IF break_inner THEN Min(partners) ELSE Max(partners)
       IN  {<<Half(ms[i][1] + ms[j][1]), Half(ms[i][2] + ms[j][2])>>}

(* rtw8812a_iqk_rx_fill compares as unsigned: a negative x is too large, a *)
(* negative y never is in between.                                         *)
RxIqc(m) ==
  IF m[1] < 0 \/ m[1] \div 2 >= \h112 \/ (m[2] >= 0 /\ m[2] \div 2 \in \h12..\h3ee)
  THEN <<\h100, 0>> ELSE <<m[1] \div 2, (m[2] \div 2) % 1024>>

Filled(result, neutral) == IF result = {} THEN neutral ELSE CHOOSE m \in result : TRUE

----------------------------------------------------------------------------
Start(base) == [ms |-> <<>>, retry |-> 0, finish |-> {}, base |-> base]

Init ==
  /\ iqk_pc = "idle" /\ chip = [page |-> 0, dirty |-> {}, saved |-> {}, paused |-> FALSE]
  /\ cal = [p \in Paths |-> Start(<<512, 0>>)] /\ tx = [p \in Paths |-> {}]
  /\ ready = [p \in Paths |-> FALSE] /\ filled = <<>> /\ cals = 0

Before(paused) == [chip EXCEPT !.dirty = {}, !.paused = paused]

(* The channel is set aside; a sender under test (cont_tx) is not paused.  *)
LckOf(c, cont_tx) ==
  LET paused == IF cont_tx THEN SaveRf(c, "A", {\h18}) ELSE Write(SaveRf(c, "A", {\h18}), {\h520})
      lc_cal == RestoreRf(Rf(paused, "A", {\hb4, \h18}), "A", {\h18})
      done == ClearRf(lc_cal, "A", {\hb4})
  IN  RestoreRf(IF cont_tx THEN done ELSE Clear(done, {\h520}), "A", {\h18})

Lck ==
  /\ iqk_pc = "idle" /\ cals < MAX_CALS /\ cals' = cals + 1
  /\ \E paused, cont_tx \in BOOLEAN : chip' = [LckOf(Before(paused), cont_tx) EXCEPT !.saved = {}]
  /\ UNCHANGED <<iqk_pc, cal, tx, ready, filled>>

Begin ==
  /\ iqk_pc = "idle" /\ cals < MAX_CALS /\ cals' = cals + 1
  /\ chip' = OneShot(TxSetup(ConfigureMac(Backup(Before(FALSE)))))
  /\ cal' = [p \in Paths |-> Start(<<512, 0>>)] /\ tx' = [p \in Paths |-> {}]
  /\ ready' = [p \in Paths |-> FALSE] /\ filled' = <<>> /\ iqk_pc' = "tx"

(* Of a path that is still to be measured it is read whether it is ready.  *)
(* With both ready, one that has not failed is measured: a value unlike all*)
(* before, or like the first two.                                          *)
Values(c) == {<<c.base[1] + o[1], c.base[2] + o[2]>> : o \in Offsets[Len(c.ms)]}

Retried(c) == [c EXCEPT !.retry = @ + 1]
Measured(c, measures) ==
  IF measures /\ c.finish = {} THEN {[c EXCEPT !.ms = Append(@, m)] : m \in Values(c)}
  ELSE {Retried(c)}

Evaluated(c, inner) == [c EXCEPT !.finish = IF Len(c.ms) >= 2 THEN Finish(c.ms, inner) ELSE @]

(* What a round does to the registers, the next does again, so that it is  *)
(* enough to do it once.  A round measures the paths in "todo"; a path that*)
(* is retried for the tenth time ends the loop before anything else.       *)
Readiness(todo) ==
  {now \in [Paths -> BOOLEAN] :
     \A p \in Paths : p \notin todo \/ cal[p].finish # {} => now[p] = ready[p]}

Tried(p, todo) == UNION {Measured(cal[p], ok /\ p \in todo) : ok \in BOOLEAN}

Ended(a, b) == [A |-> a, B |-> b, over |-> TRUE]
Judged(a, b, inner) == [A |-> Evaluated(a, inner), B |-> Evaluated(b, inner), over |-> FALSE]

AllReady(a, b, inner) ==
  CASE a.retry = 10                  -> Ended(a, cal["B"])
    [] a.retry < 10 /\ b.retry = 10 -> Ended(a, b)
    [] OTHER                         -> Judged(a, b, inner)
NotReady(a, b, inner) == IF a.retry = 10 THEN Ended(a, b) ELSE Judged(a, b, inner)

Round(now, todo, inner) ==
  IF \A p \in Paths : now[p]
  THEN {AllReady(a, b, inner) : a \in Tried("A", todo), b \in Tried("B", todo)}
  ELSE {NotReady(Retried(cal["A"]), Retried(cal["B"]), inner)}

Spent(c) == c.retry + Len(c.ms) >= 10

Keep(r) == cal' = [p \in Paths |-> r[p]]

AfterTx(r) ==
  LET done == {p \in Paths : r[p].finish # {}}
      over == r.over \/ done = Paths \/ Spent(r.A) \/ Spent(r.B)
  IN  IF ~over THEN Keep(r) /\ UNCHANGED <<iqk_pc, tx, chip>>
      ELSE /\ tx' = [p \in Paths |-> r[p].finish] /\ iqk_pc' = "rx"
           /\ \E base \in RxBases : cal' = [p \in Paths |-> Start(base[p])]
           /\ chip' = RxOneShot(RxSetup(chip, done), done)

TxShot ==
  /\ iqk_pc = "tx" /\ ready' \in Readiness(Paths)
  /\ \E r \in Round(ready', Paths, FALSE) : AfterTx(r)
  /\ UNCHANGED <<filled, cals>>

Done == {p \in Paths : tx[p] # {}}

AfterRx(r) ==
  LET over == \/ r.over \/ \A p \in Done : r[p].finish # {}
              \/ Spent(r.A) \/ Spent(r.B) \/ \E p \in Paths : Len(r[p].ms) = 3
  IN  IF ~over THEN Keep(r) /\ UNCHANGED <<iqk_pc, filled, chip>>
      ELSE /\ Keep(r) /\ iqk_pc' = "idle"
           /\ filled' = [p \in Paths |-> [tx |-> Filled(tx[p], <<512, 0>>),
                                          rx |-> RxIqc(Filled(r[p].finish, <<512, 0>>))]]
           /\ chip' = [PutBack(Filling(chip)) EXCEPT !.saved = {}]

RxShot ==
  /\ iqk_pc = "rx" /\ ready' \in Readiness(Done)
  /\ \E r \in Round(ready', Done, TRUE) : AfterRx(r)
  /\ UNCHANGED <<tx, cals>>

Next == Lck \/ Begin \/ TxShot \/ RxShot

Spec == Init /\ [][Next]_vars

----------------------------------------------------------------------------
(* After a calibration every register is what it was but the results and   *)
(* the calibration's own, and page 0 is chosen, on which everyone else     *)
(* relies: nothing was written to the wrong page (rtw8812a.c:788).  A      *)
(* TXPAUSE that was not 0 does not survive rtw8812a_do_lck (:113).         *)
Results == {\h978, \h97c, \h980, \h984, \hc94, \he94, \hc10, \he10}
Shots == {\hc80, \hc84, \hc88, \hc8c, \hc90, \hcc4, \hcc8, \hccc, \hcd4, \hce8}
RfOwn == {\h58, \h30, \h31, \h32, \hef}
Own ==
  {<<0, a>> : a \in Results} \cup {<<1, a>> : a \in Both(Shots)}
  \cup RfKeys("A", RfOwn) \cup RfKeys("B", RfOwn)

NothingLeftBehind ==
  iqk_pc = "idle" =>
    chip.page = 0 /\ chip.dirty \subseteq Own \cup (IF chip.paused THEN {<<0, \h520>>} ELSE {})

(* The arrays of ten measurements are not overrun, however the paths fail, *)
(* hang and disagree (rtw8812a.c:288).                                     *)
WithinArrays == \A p \in Paths : Len(cal[p].ms) <= 10

(* What is filled in for a path rests on two measurements that agree, or is*)
(* neutral; a receiver is set up only if its sender is, and never far off. *)
FilledSoundly ==
  filled # <<>> =>
    \A p \in Paths :
      /\ tx[p] = {} => filled[p] = [tx |-> <<512, 0>>, rx |-> <<256, 0>>]
      /\ filled[p].rx # <<256, 0>> =>
           \E m, n \in Range(cal[p].ms) : Agree(m, n) /\ Near(2 * filled[p].rx[1], m[1])
      /\ filled[p].rx[1] < \h112 /\ filled[p].rx[2] \notin \h12..\h1ff
=============================================================================
