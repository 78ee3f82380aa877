------------------------------- MODULE Channel -------------------------------
(***************************************************************************)
(* Tuning the radio (rtw88xxa.c: rtw88xxa_set_channel).  The band's part of*)
(* the registers is written only when the band changes, and which band the *)
(* radio is on is read back from the chip; the channel's and the width's   *)
(* part is written each time, by steps of which later ones overwrite fields*)
(* of earlier ones.                                                        *)
(*                                                                         *)
(* A register is kept by the fields that are written, a field by its name. *)
(***************************************************************************)
EXTENDS Integers, FiniteSets

CONSTANTS
  Boards,      \* [cut_c, paths, rfe, btcoex, ext_lna, afe]: what does not change
  Tunings,     \* [channel, bw, idx]: centre, width and place of the primary channel
  MAX_TUNES, MAX_FAILS

VARIABLES
  board,
  regs,        \* the fields
  tuned,       \* the last tuning, {} before the first
  misread,     \* in the last tuning REG_CCK_CHECK could not be read
  tunes, fails

channel_vars == <<board, regs, tuned, misread, tunes, fails>>

(* The fields of r after those of w were written.                          *)
Write(r, w) == [f \in DOMAIN r \cup DOMAIN w |-> IF f \in DOMAIN w THEN w[f] ELSE r[f]]

BandOf(channel) == IF channel > 14 THEN "5G" ELSE "2G"

----------------------------------------------------------------------------
(* The front end's pins and their polarity, by the board's rfe_option.     *)
Rfe(mux_a, mux_b, inv) == [PINMUX_A |-> mux_a, PINMUX_B |-> mux_b, INV_A |-> inv, INV_B |-> inv]

RfeReg24g(b) ==
  CASE b.rfe \in {0, 2} -> Rfe("77777777", "77777777", 0)
    [] b.rfe = 1 -> Rfe(IF b.btcoex THEN "777777" ELSE "77777777", "77777777", 0)
    [] b.rfe = 3 -> Write(Rfe("54337770", "54337770", \h010), [ANTSEL_SW |-> 1])
    [] b.rfe = 4 -> Rfe("77777777", "77777777", \h001)
    [] b.rfe = 5 -> [Rfe("77", "77777777", 0) EXCEPT !.INV_A = "BIT(0) clear"]
    [] b.rfe = 6 -> Rfe("07772770", "07772770", \h77)
    [] OTHER -> <<>>

RfeReg5g(b) ==
  CASE b.rfe = 0 -> Rfe("77337717", "77337717", \h010)
    [] b.rfe = 1 -> Rfe(IF b.btcoex THEN "337717" ELSE "77337717", "77337717", 0)
    [] b.rfe \in {2, 4} -> Rfe("77337777", "77337777", \h010)
    [] b.rfe = 3 -> Write(Rfe("54337717", "54337717", \h010), [ANTSEL_SW |-> 1])
    [] b.rfe = 5 -> [Rfe("33", "77337777", \h010) EXCEPT !.INV_A = "BIT(0) set"]
    [] b.rfe = 6 -> Rfe("07737717", "07737717", \h77)
    [] OTHER -> <<>>

SwitchBand(b, band, bw) ==
  IF band = "2G"
  THEN Write(RfeReg24g(b),
        [BWINDICATION |-> 1, PDMFTH_17_13 |-> \h17,
         PDMFTH_3_1 |-> IF bw = 20 /\ b.paths = {"A"} /\ ~b.ext_lna THEN 2 ELSE 4,
         CCASEL |-> 0, TXPSEL |-> 1, CCK_RX |-> 1, CCK_CHECK |-> "2G", TXSCALE |-> "2G"])
  ELSE Write(RfeReg5g(b),
        [BWINDICATION |-> 2, PDMFTH_17_13 |-> \h15, PDMFTH_3_1 |-> 4,
         CCASEL |-> 1, TXPSEL |-> 0, CCK_RX |-> \hf, CCK_CHECK |-> "5G", TXSCALE |-> "5G"])

(* A workaround for the spur at 2480 MHz: the ADC's clock at 160 MHz.      *)
FixSpur(b, ch, bw) ==
  IF b.cut_c
  THEN Write([ADCCLK_C00 |-> IF bw = 40 /\ ch = 11 THEN 3 ELSE 2],
        CASE bw = 20 /\ ch \in {13, 14} -> [ADCCLK_300 |-> 3, ADC160 |-> 1]
          [] bw = 40 /\ ch = 11 -> [ADC160 |-> 1]
          [] bw # 80 /\ ~(bw = 20 /\ ch \in {13, 14}) /\ ~(bw = 40 /\ ch = 11) ->
               [ADCCLK_300 |-> 2, ADC160 |-> 0]
          [] OTHER -> <<>>)
  ELSE CASE bw = 20 /\ ch \in {13, 14} -> [ADCCLK_300 |-> 3]
         [] ~(bw = 20 /\ ch \in {13, 14}) /\ ch <= 14 -> [ADCCLK_300 |-> 2]
         [] OTHER -> <<>>

FcArea(ch) ==
  CASE ch \in 36..48 -> \h494 [] ch \in 50..64 -> \h453 [] ch \in 100..116 -> \h452
    [] ch >= 118 -> \h412 [] OTHER -> \h96a

RfModAg(ch) ==
  CASE ch \in 36..64 -> \h101 [] ch \in 100..140 -> \h301 [] ch > 140 -> \h501 [] OTHER -> 0

SwitchChannel(b, ch, bw) ==
  Write([CLKTRK |-> FcArea(ch), RF18_AG |-> [p \in b.paths |-> RfModAg(ch)],
         RF18_CHANNEL |-> [p \in b.paths |-> ch]], FixSpur(b, ch, bw))

(* Where in the width the primary channels of 20 and 40 MHz lie.           *)
Txsc(t) ==
  t.idx + IF t.bw # 80 THEN 0 ELSE IF t.idx \in {1, 3} THEN 9 * 16 ELSE 10 * 16

L1Pkth(b, bw) ==
  LET two == Cardinality(b.paths) = 2
  IN  CASE bw = 20 -> IF two THEN 7 ELSE 8
        [] bw = 40 -> IF b.afe THEN 6 ELSE IF two THEN 7 ELSE 8
        [] bw = 80 -> IF b.afe THEN 5 ELSE IF two THEN 6 ELSE 7

PostSetBwMode(b, t) ==
  Write([RFMOD |-> t.bw, DATA_SC |-> Txsc(t), ADCCLK_300 |-> 2, ADCCLK_C3 |-> t.bw,
         ADC160 |-> IF t.bw = 80 THEN 1 ELSE 0, L1PKTH |-> L1Pkth(b, t.bw)],
        CASE t.bw = 20 -> <<>>
          [] t.bw = 40 -> [ADCCLK_3C |-> Txsc(t) % 16, CCA2ND |-> Txsc(t) % 16, RXSB |-> Txsc(t) = 1]
          [] OTHER -> [ADCCLK_3C |-> Txsc(t) % 16, CCA2ND |-> Txsc(t) % 16])

SetChannelRf(b, bw) ==
  [RF18_BW |-> [p \in b.paths |-> CASE bw = 40 -> 1 [] bw = 80 -> 0 [] OTHER -> 3]]

(* Mutant: the workaround is not repeated after the width is set.          *)
TuneOnce(b, t) ==
  Write(Write(SwitchChannel(b, t.channel, t.bw), PostSetBwMode(b, t)), SetChannelRf(b, t.bw))

(* What is written last counts.                                            *)
Tune(b, t) ==
  Write(Write(Write(SwitchChannel(b, t.channel, t.bw), PostSetBwMode(b, t)),
              FixSpur(b, t.channel, t.bw)), SetChannelRf(b, t.bw))

SetChannel(b, r, t, old_band) ==
  LET band == BandOf(t.channel)
      switched == IF band = old_band THEN r ELSE Write(r, SwitchBand(b, band, t.bw))
  IN  Write(switched, Tune(b, t))

----------------------------------------------------------------------------
(* The rest of rtw88xxa_power_on leaves the radio on 2.4 GHz.              *)
PoweredOn(b) == SwitchBand(b, "2G", 20)

Init ==
  /\ board \in Boards /\ regs = PoweredOn(board)
  /\ tuned = {} /\ misread = FALSE /\ tunes = 0 /\ fails = 0

(* A read that fails yields 0: the band is taken for 2.4 GHz.              *)
Set ==
  /\ tunes < MAX_TUNES /\ tunes' = tunes + 1
  /\ \E t \in Tunings :
       /\ tuned' = {t}
       /\ \/ misread' = FALSE /\ fails' = fails
             /\ regs' = SetChannel(board, regs, t, regs.CCK_CHECK)
          \/ misread' = TRUE /\ fails < MAX_FAILS /\ fails' = fails + 1
             /\ regs' = SetChannel(board, regs, t, "2G")
  /\ UNCHANGED board

PowerCycle ==
  /\ tuned # {} /\ tuned' = {} /\ regs' = PoweredOn(board) /\ misread' = FALSE
  /\ UNCHANGED <<board, tunes, fails>>

Next == Set \/ PowerCycle

Spec == Init /\ [][Next]_channel_vars

----------------------------------------------------------------------------
(* With one path on 2.4 GHz, PDMFTH is of the width that the band was      *)
(* entered with.                                                           *)
Means(field) == field = "PDMFTH_3_1" => board.paths # {"A"}

(* Whatever channels came before, and however they were read, the radio is *)
(* set up as by the first tuning after it was powered on: a channel leaves *)
(* nothing behind.  Only the tuning itself may have failed to read.        *)
TunedAsFirst ==
  ~misread =>
    \A t \in tuned :
      LET first == SetChannel(board, PoweredOn(board), t, "2G")
      IN  \A field \in DOMAIN first : Means(field) => regs[field] = first[field]

(* The spur of channels 13 and 14 is avoided also after the width was set  *)
(* up, which sets the clock back (rtw88xxa.c:1319, rtw88xxa.c:1429).       *)
SpurAvoided ==
  \A t \in tuned : t.bw = 20 /\ t.channel \in {13, 14} => regs.ADCCLK_300 = 3
=============================================================================
