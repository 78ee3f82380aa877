------------------------------- MODULE Efuse -------------------------------
(***************************************************************************)
(* What the probe learns from the one-time programmable memory             *)
(* (rtw_chip_efuse_info_setup): the bytes are read one by one and decoded, *)
(* a log of packets of which each replaces some words of a block; the      *)
(* fields give the board's front end and capabilities, four more bytes are *)
(* read beside the log, and what was never programmed gets a default.      *)
(*                                                                         *)
(* The factory programs packets before the driver comes.                   *)
(***************************************************************************)
EXTENDS Integers, Sequences, FiniteSets, FiniteSetsExt, TLC

CONSTANTS
  PHYSICAL,         (* efuse->physical_size; nothing is protected          *)
  LOGICAL,          (* efuse->logical_size                                 *)
  RFE_DEFS,         (* chip->rfe_defs_size                                 *)
  Packets,          (* what is programmed: [blk, words: words -> <<lo, hi>>] *)
  MAX_PACKETS,
  Otps,             (* bytes 1018 to 1021, by address                      *)
  Beyond            (* what may lie in the memory after the map            *)

VARIABLES
  ef_pc,
  burnt,            (* the packets programmed                              *)
  phy_map,          (* the bytes programmed, 0xff follows                  *)
  otp,
  phy_idx, log_map, (* rtw_dump_logical_efuse_map; 0xff where undefined    *)
  efuse,            (* rtwdev->efuse and the paths of rtwdev->hal          *)
  ret,
  mac_on,           (* the MAC is powered                                  *)
  granted           (* REG_EFUSE_ACCESS is on                              *)

efuse_vars == <<ef_pc, burnt, phy_map, otp, phy_idx, log_map, efuse, ret, mac_on, granted>>

Bit(n, k) == (n \div 2 ^ k) % 2
Bits(n, k, width) == (n \div 2 ^ k) % 2 ^ width

----------------------------------------------------------------------------
(* The format of a packet (efuse.c:27), as the factory writes it.          *)
WordEn(words) == 15 - FoldSet(LAMBDA i, sum : sum + 2 ^ i, 0, words)

(* The short header cannot say a block whose bits read as the long form's. *)
Header(blk, en) ==
  IF blk < 16 /\ (blk * 16 + en) % 32 # 15
  THEN <<blk * 16 + en>>
  ELSE <<(blk % 8) * 32 + 15, (blk \div 8) * 16 + en>>

Encode(p) ==
  LET Data(i) == IF i \in DOMAIN p.words THEN p.words[i] ELSE <<>>
  IN  Header(p.blk, WordEn(DOMAIN p.words)) \o Data(0) \o Data(1) \o Data(2) \o Data(3)

Burn(p) ==
  /\ ef_pc = "factory" /\ Len(burnt) < MAX_PACKETS
  /\ Len(phy_map) + Len(Encode(p)) <= PHYSICAL
  /\ burnt' = Append(burnt, p)
  /\ phy_map' = phy_map \o Encode(p)
  /\ UNCHANGED <<ef_pc, otp, phy_idx, log_map, efuse, ret, mac_on, granted>>

----------------------------------------------------------------------------
(* rtw_chip_efuse_enable.  If the MAC does not come up, in which case it   *)
(* may have power or not, or if there is no firmware, nothing is undone;   *)
(* if the firmware cannot be downloaded, the MAC is switched off.          *)
Enable ==
  /\ ef_pc = "factory"
  /\ UNCHANGED <<burnt, phy_map, otp, phy_idx, log_map, efuse, granted>>
  /\ \/ ef_pc' = "dump" /\ mac_on' = TRUE /\ UNCHANGED ret
     \/ ef_pc' = "end" /\ mac_on' \in BOOLEAN /\ ret' = "not powered on"
     \/ ef_pc' = "end" /\ mac_on' = TRUE /\ ret' = "no firmware"
     \/ ef_pc' = "end" /\ mac_on' = FALSE /\ ret' = "no download"

(* rtw_dump_physical_efuse_map.  A byte that never comes ends it.          *)
DumpPhysical ==
  /\ ef_pc = "dump"
  /\ UNCHANGED <<burnt, phy_map, otp, phy_idx, log_map, efuse, mac_on>>
  /\ \/ ef_pc' = "decode" /\ granted' = FALSE /\ UNCHANGED ret
     \/ ef_pc' = "disable" /\ granted' = TRUE /\ ret' = "EBUSY"

(* A byte of the array, or what lies behind it.                            *)
Byte(i, beyond) ==
  IF i < Len(phy_map) THEN phy_map[i + 1] ELSE IF i < PHYSICAL THEN 255 ELSE beyond

Extended(hdr1) == hdr1 % 32 = 15

(* Mutant: the high bits of a block end up one place too low.              *)
BlkIdxShifted(hdr1, hdr2) ==
  IF Extended(hdr1) THEN (hdr2 \div 16) * 4 + hdr1 \div 32 ELSE hdr1 \div 16

BlkIdx(hdr1, hdr2) ==
  IF Extended(hdr1) THEN (hdr2 \div 16) * 8 + hdr1 \div 32 ELSE hdr1 \div 16

(* One turn of the loop of rtw_dump_logical_efuse_map.                     *)
DecodePacket ==
  /\ ef_pc = "decode"
  /\ UNCHANGED <<burnt, phy_map, otp, efuse, mac_on, granted>>
  /\ \E beyond \in Beyond :
       LET hdr1 == Byte(phy_idx, beyond)
           hdr2 == Byte(phy_idx + 1, beyond)
           blk == BlkIdx(hdr1, hdr2)
           en == (IF Extended(hdr1) THEN hdr2 ELSE hdr1) % 16
           words == {i \in 0..3 : Bit(en, i) = 0}
           first == phy_idx + (IF Extended(hdr1) THEN 2 ELSE 1)
           At(i) == first + 2 * Cardinality({j \in words : j < i})
           Index(i) == 8 * blk + 2 * i
       IN  IF \/ phy_idx >= PHYSICAL
              \/ hdr1 = 255 \/ (Extended(hdr1) /\ hdr2 = 255)
           THEN /\ ef_pc' = "read"
                /\ UNCHANGED <<phy_idx, log_map, ret>>
           ELSE IF \E i \in words : At(i) + 1 > PHYSICAL \/ Index(i) + 1 > LOGICAL
           THEN /\ ef_pc' = "disable" /\ ret' = "EINVAL"
                /\ UNCHANGED <<phy_idx, log_map>>
           ELSE /\ phy_idx' = first + 2 * Cardinality(words)
                /\ log_map' = [n \in {Index(i) + k : i \in words, k \in {0, 1}} |->
                                 Byte(At((n \div 2) % 4) + (n % 2), beyond)] @@ log_map
                /\ UNCHANGED <<ef_pc, ret>>

----------------------------------------------------------------------------
(* rtw88xxa_read_efuse.  Fields by their place in struct rtw88xxa_efuse.   *)
Log(n) == IF n \in DOMAIN log_map THEN log_map[n] ELSE 255

PA_TYPE == 188
LNA_2G == 189
LNA_5G == 191
BOARD_OPTION == 193
BT_SETTING == 195
RFE_OPTION == 202

Paired(byte, k, l) == Bit(byte, k) = 1 /\ Bit(byte, l) = 1

(* rtw8812a_read_amplifier_type                                            *)
Amplifiers ==
  {a \in {"pa_2g", "lna_2g", "pa_5g", "lna_5g"} :
     CASE a = "pa_2g" -> Paired(Log(PA_TYPE), 5, 4)
       [] a = "lna_2g" -> Paired(Log(LNA_2G), 7, 3)
       [] a = "pa_5g" -> Paired(Log(PA_TYPE), 1, 0)
       [] a = "lna_5g" -> Paired(Log(LNA_5G), 7, 3)}

(* The kinds of external amplifiers, by path: B's in bits 2 and 3.         *)
TypeOf(a) ==
  LET pa(byte) == 4 * Bit(byte, 6) + Bit(byte, 2)
      lna(byte) == 4 * Bits(byte, 4, 2) + Bits(byte, 0, 2)
  IN  IF a \notin Amplifiers THEN 0
      ELSE CASE a = "pa_2g" -> pa(Log(LNA_2G)) [] a = "pa_5g" -> pa(Log(LNA_5G))
             [] a = "lna_2g" -> lna(Log(LNA_2G)) [] a = "lna_5g" -> lna(Log(LNA_5G))

(* rtw8812a_read_rfe_type, of a USB device                                 *)
RfeByAmplifiers(ext) ==
  CASE "lna_5g" \notin ext -> 4
    [] {"lna_5g", "pa_5g"} \subseteq ext -> IF {"lna_2g", "pa_2g"} \subseteq ext THEN 3 ELSE 0
    [] OTHER -> 2

RfeOption(ext) ==
  LET option == Log(RFE_OPTION)
  IN  CASE option = 255 -> 0
        [] option \in 128..254 -> RfeByAmplifiers(ext)
        [] option < 128 -> IF option % 64 = 4 /\ ext # {} THEN 0 ELSE option % 64

ReadEfuse ==
  /\ ef_pc = "read" /\ ef_pc' = "usb_type"
  /\ efuse' = [ext |-> Amplifiers, type |-> [a \in {"pa_2g", "lna_2g", "pa_5g", "lna_5g"} |-> TypeOf(a)],
               rfe_option |-> RfeOption(Amplifiers),
               board |-> Log(BOARD_OPTION), btcoex |-> Bits(Log(BOARD_OPTION), 5, 3) = 1,
               share_ant |-> Bit(Log(BT_SETTING), 0) = 1,
               paths |-> {"A", "B"}, nss |-> 2, vht |-> TRUE, bw |-> {20, 40, 80}]
  /\ UNCHANGED <<burnt, phy_map, otp, phy_idx, log_map, ret, mac_on, granted>>

(* rtw8812a_read_usb_type.  A byte that cannot be read is 0xff.            *)
Antenna(byte) == IF Bits(byte, 5, 3) # 0 THEN Bits(byte, 5, 3) ELSE Bits(byte, 1, 3)
Wmode(byte) == Bits(byte, 2, 2)

ReadUsbType ==
  /\ ef_pc = "usb_type" /\ ef_pc' = "setup"
  /\ \E failed \in SUBSET (1018..1021) :
       LET read == [a \in 1018..1021 |-> IF a \in failed THEN 255 ELSE otp[a]]
           antenna == IF Antenna(read[1019]) # 0 THEN Antenna(read[1019]) ELSE Antenna(read[1018])
           wmode == IF Wmode(read[1021]) # 0 THEN Wmode(read[1021]) ELSE Wmode(read[1020])
       IN  efuse' = CASE antenna = 1 -> [efuse EXCEPT !.nss = 1, !.paths = {"A"}]
                      [] antenna = 2 /\ wmode = 2 ->
                           [efuse EXCEPT !.vht = FALSE, !.bw = @ \ {80}]
                      [] OTHER -> efuse
  /\ UNCHANGED <<burnt, phy_map, otp, phy_idx, log_map, ret, mac_on, granted>>

(* The rest of rtw_chip_efuse_info_setup: which external amplifiers there  *)
(* are is decided again, from one bit each.                                *)
Default(byte) == IF byte = 255 THEN 0 ELSE byte

SingleBit(a) ==
  CASE a = "pa_2g" -> Bit(Default(Log(PA_TYPE)), 4) = 1
    [] a = "lna_2g" -> Bit(Default(Log(LNA_2G)), 3) = 1
    [] a = "pa_5g" -> Bit(Default(Log(PA_TYPE)), 0) = 1
    [] a = "lna_5g" -> Bit(Default(Log(LNA_5G)), 3) = 1

InfoSetup ==
  /\ ef_pc = "setup" /\ ef_pc' = "disable"
  /\ IF efuse.rfe_option >= RFE_DEFS
     THEN ret' = "ENODEV" /\ UNCHANGED efuse
     ELSE /\ efuse' = [efuse EXCEPT !.ext = {a \in DOMAIN efuse.type : SingleBit(a)},
                                    !.board = Default(@),
                                    !.btcoex = Bits(Default(efuse.board), 5, 3) = 1]
          /\ UNCHANGED ret
  /\ UNCHANGED <<burnt, phy_map, otp, phy_idx, log_map, mac_on, granted>>

(* rtw_chip_efuse_disable                                                  *)
Disable ==
  /\ ef_pc = "disable" /\ ef_pc' = "end"
  /\ mac_on' = FALSE
  /\ UNCHANGED <<burnt, phy_map, otp, phy_idx, log_map, efuse, ret, granted>>

----------------------------------------------------------------------------
Init ==
  /\ ef_pc = "factory" /\ burnt = <<>> /\ phy_map = <<>> /\ otp \in Otps
  /\ phy_idx = 0 /\ log_map = <<>> /\ efuse = <<>> /\ ret = "ok"
  /\ mac_on = FALSE /\ granted = FALSE

Next ==
  \/ \E p \in Packets : Burn(p)
  \/ Enable \/ DumpPhysical \/ DecodePacket \/ ReadEfuse \/ ReadUsbType \/ InfoSetup
  \/ Disable

----------------------------------------------------------------------------
(* The decoding yields of each word what the last packet with that word    *)
(* says, whatever forms their headers have, and takes no packet for        *)
(* another's data; a log that fills the memory to its end is accepted, and *)
(* what lies behind the array, which is read as the header's second byte,  *)
(* is of no consequence (efuse.c:54, efuse.c:71).                          *)
LogReplayed ==
  LET Of(n) == {k \in DOMAIN burnt : burnt[k].blk = n \div 8 /\ (n \div 2) % 4 \in DOMAIN burnt[k].words}
      Newest(n) == CHOOSE k \in Of(n) : \A j \in Of(n) : j <= k
      Written == {n \in 0..LOGICAL - 1 : Of(n) # {}}
  IN  ef_pc = "read" =>
        /\ DOMAIN log_map = Written
        /\ \A n \in Written : log_map[n] = burnt[Newest(n)].words[(n \div 2) % 4][(n % 2) + 1]

(* A log of packets in range is never refused (efuse.c:71).                *)
NeverRefused == ret = "EINVAL" => \E k \in DOMAIN burnt : 8 * burnt[k].blk >= LOGICAL

(* The front end of the tables is the one that the option was chosen for:  *)
(* the amplifiers are read by two bits, to choose the option and the kinds *)
(* (rtw88xxa.c:36), and again by one (main.c:2158).  They may differ where *)
(* a byte was left 0xff or has one bit of a pair.                          *)
Unambiguous ==
  /\ Log(PA_TYPE) # 255 /\ Log(LNA_2G) # 255 /\ Log(LNA_5G) # 255
  /\ Bit(Log(PA_TYPE), 5) = Bit(Log(PA_TYPE), 4) /\ Bit(Log(PA_TYPE), 1) = Bit(Log(PA_TYPE), 0)
  /\ Bit(Log(LNA_2G), 7) = Bit(Log(LNA_2G), 3) /\ Bit(Log(LNA_5G), 7) = Bit(Log(LNA_5G), 3)

AmplifiersAgree ==
  (ef_pc \in {"disable", "end"} /\ ret = "ok" /\ Unambiguous) =>
     /\ efuse.ext = Amplifiers
     /\ \A a \in DOMAIN efuse.type : efuse.type[a] # 0 => a \in efuse.ext

(* When the probe ends the MAC has been switched off, except where it goes *)
(* to err of rtw_chip_efuse_enable, which leaves it on (main.c:2040,       *)
(* main.c:2049); and access to the efuse was given back, but for a dump    *)
(* that gave up in the middle (efuse.c:112).                               *)
Released ==
  ef_pc = "end" => /\ mac_on => ret \in {"not powered on", "no firmware"}
                   /\ granted => ret = "EBUSY"

============================================================================
