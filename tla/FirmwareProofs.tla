--------------------------- MODULE FirmwareProofs ---------------------------
(***************************************************************************)
(* The driver and the firmware of the chip: the download of Firmware for   *)
(* any image and any transfers that fail, and its mailboxes for any number *)
(* of boxes, commands and loads.  And the chip's power (PowerSeq), for any *)
(* number of calls, failures and timeouts.                                 *)
(***************************************************************************)
EXTENDS Firmware, Chip, SequenceTheorems, TLAPS

Cmds == [msg : Nat, ext : Nat]

FirmwareTypes ==
  /\ fw_pc \in {"off", "page", "report", "idle", "ex", "box"}
  /\ page \in Pages /\ rom_pge \in Pages /\ data \in Nat
  /\ faults \in Nat /\ try_faults \in Nat /\ try_faults <= faults
  /\ box \in [Boxes -> Cmds] /\ full \subseteq Boxes
  /\ last_box_num \in Boxes /\ fw_box \in Boxes
  /\ cmd \in Nat \ {0} /\ sent \in Seq(Nat) /\ taken \in Seq(Cmds)
  /\ running \in BOOLEAN

(* A try without a failure has written the pages it has come past, with    *)
(* the data that belongs there.                                            *)
Written ==
  /\ mem = [p \in Pages |-> mem[p]]
  /\ fw_pc = "page" /\ try_faults = 0 =>
       data = page /\ \A p \in Pages : p < page => mem[p] = Image[p]
  /\ fw_pc = "report" /\ try_faults = 0 => mem = Image

(* Commands are numbered in the order they are sent: those that wait are   *)
(* none of those taken, and no two the same.                               *)
NumberedOnce ==
  /\ \A i \in DOMAIN taken : taken[i].msg < cmd
  /\ \A b \in full : box[b].msg < cmd
  /\ \A i, j \in DOMAIN taken : i # j => taken[i].msg # taken[j].msg
  /\ \A b \in full : \A i \in DOMAIN taken : box[b].msg # taken[i].msg
  /\ \A b, c \in full : b # c => box[b].msg # box[c].msg

(* Both sides begin with empty boxes, and until a transfer fails they agree *)
(* on the box that is next and on what waits in those before it.           *)
InStep ==
  /\ running <=> fw_pc \in {"idle", "ex", "box"}
  /\ ~running => sent = <<>> /\ taken = <<>>
  /\ faults = 0 /\ running =>
       /\ Waiting \in 0 .. NBOXES
       /\ \A k \in DOMAIN taken : taken[k] = Whole(sent[k])
       /\ \A b \in Boxes : b \in full <=> \E k \in 0 .. Waiting - 1 : b = Ahead(k)
       /\ \A k \in 0 .. Waiting - 1 : box[Ahead(k)] = Whole(sent[Len(taken) + k + 1])
       /\ last_box_num = Ahead(Waiting)
       /\ fw_pc \in {"ex", "box"} => Waiting < NBOXES
       /\ fw_pc = "box" => box[last_box_num].ext = cmd

FirmwareInv == FirmwareTypes /\ Written /\ NumberedOnce /\ InStep

----------------------------------------------------------------------------
LEMMA NoCommands == <<>> \in Seq(Nat) /\ <<>> \in Seq(Cmds)
  OBVIOUS

LEMMA Numbers ==
  ASSUME FirmwareTypes
  PROVE  /\ \A i \in DOMAIN taken : taken[i].msg \in Nat
         /\ \A b \in full : b \in Boxes /\ box[b].msg \in Nat
<1>1. DOMAIN taken = 1 .. Len(taken)
  BY LenProperties DEF FirmwareTypes
<1>2. \A i \in DOMAIN taken : taken[i] \in Cmds
  BY <1>1, ElementOfSeq DEF FirmwareTypes
<1> QED BY <1>2 DEF FirmwareTypes, Cmds

LEMMA InitFirmware == FirmwareInit => FirmwareInv
<1> SUFFICES ASSUME FirmwareInit PROVE FirmwareInv
  OBVIOUS
<1> USE FirmwareAssumption DEF FirmwareInit
<1>1. FirmwareTypes
  <2>1. box \in [Boxes -> Cmds]
    BY DEF Cmds
  <2>2. page \in Pages /\ last_box_num \in Boxes
    BY DEF Pages, Boxes
  <2> QED BY <2>1, <2>2, NoCommands DEF FirmwareTypes
<1>2. Written
  BY DEF Written, Empty
<1>3. NumberedOnce
  BY DEF NumberedOnce
<1>4. InStep
  BY DEF InStep
<1> QED BY <1>1, <1>2, <1>3, <1>4 DEF FirmwareInv

(* A stopped firmware has nothing in its boxes and knows of no command.    *)
LEMMA Off ==
  ASSUME FirmwareInv, full' = {}, taken' = <<>>, sent' = <<>>,
         fw_pc' = "off", running' = FALSE
  PROVE  NumberedOnce' /\ InStep'
  BY DEF NumberedOnce, InStep

(* What powering the chip off leaves has the types it had.                 *)
LEMMA OffTypes ==
  ASSUME FirmwareTypes, PowerOff, faults' \in {faults, faults + 1},
         UNCHANGED <<try_faults, page, data, last_box_num, fw_box, box, cmd>>
  PROVE  FirmwareTypes'
<1> USE FirmwareAssumption DEF PowerOff
<1>1. sent' \in Seq(Nat) /\ taken' \in Seq(Cmds)
  BY NoCommands
<1>2. faults' \in Nat /\ try_faults' \in Nat /\ try_faults' <= faults'
  BY DEF FirmwareTypes
<1>3. page' \in Pages /\ rom_pge' \in Pages /\ data' \in Nat
  BY DEF FirmwareTypes, Pages
<1>4. box' \in [Boxes -> Cmds] /\ full' \subseteq Boxes
  BY DEF FirmwareTypes
<1>5. last_box_num' \in Boxes /\ fw_box' \in Boxes /\ cmd' \in Nat \ {0}
  BY DEF FirmwareTypes
<1>6. fw_pc' = "off" /\ running' \in BOOLEAN
  OBVIOUS
<1> QED BY <1>1, <1>2, <1>3, <1>4, <1>5, <1>6 DEF FirmwareTypes

LEMMA PowerOnInv ==
  ASSUME FirmwareInv, PowerOn
  PROVE  FirmwareInv'
<1> USE FirmwareAssumption DEF FirmwareInv, PowerOn, StartTry, h2c_vars
<1>1. FirmwareTypes'
  BY DEF FirmwareTypes, Pages
<1>2. Written'
  BY DEF FirmwareTypes, Written, Pages
<1>3. NumberedOnce'
  BY DEF NumberedOnce
<1>4. InStep'
  BY DEF InStep
<1> QED BY <1>1, <1>2, <1>3, <1>4

(* A page written without a failure is the one meant.                      *)
LEMMA WritePageInv ==
  ASSUME FirmwareInv, WritePage
  PROVE  FirmwareInv'
<1> USE FirmwareAssumption DEF FirmwareInv, WritePage, h2c_vars
<1>1. FirmwareTypes'
  <2>1. rom_pge' \in Pages /\ faults' \in Nat /\ try_faults' \in Nat /\ try_faults' <= faults'
    BY DEF FirmwareTypes, Fault, NoFault
  <2>2. page' \in Pages /\ data' \in Nat /\ fw_pc' \in {"page", "report"}
    BY DEF FirmwareTypes, Pages
  <2> QED BY <2>1, <2>2 DEF FirmwareTypes
<1>2. Written'
  <2>1. mem' = [p \in Pages |-> mem'[p]]
    BY DEF FirmwareTypes, Written, WriteBlocks
  <2>2. fw_pc = "page" /\ page \in Pages /\ page \in Nat /\ data' = data + 1
    BY DEF FirmwareTypes, Pages
  <2>3. ASSUME try_faults' = 0
        PROVE  data = page /\ \A p \in Pages : p <= page => mem'[p] = Image[p]
    <3>1. try_faults = 0 /\ NoFault /\ WriteBlocks(page, data, BLOCKS)
      BY <2>3 DEF Fault, NoFault, FirmwareTypes
    <3>2. data = page /\ \A p \in Pages : p < page => mem[p] = Image[p]
      BY <2>2, <3>1 DEF Written
    <3>3. mem'[page] = [i \in 1 .. BLOCKS |-> Image[page][i]]
      BY <2>1, <2>2, <3>1, <3>2 DEF WriteBlocks, Written
    <3>4. mem'[page] = Image[page]
      BY <2>2, <3>3 DEF Image
    <3>5. \A p \in Pages : p # page => mem'[p] = mem[p]
      BY <3>1 DEF WriteBlocks, Written
    <3> QED BY <2>2, <3>2, <3>4, <3>5 DEF Pages
  <2>4. CASE page + 1 < NPAGES
    BY <2>1, <2>2, <2>3, <2>4 DEF Written, Pages
  <2>5. CASE ~(page + 1 < NPAGES)
    <3>1. fw_pc' = "report" /\ \A p \in Pages : p <= page
      BY <2>2, <2>5 DEF Pages
    <3>2. try_faults' = 0 => mem' = Image
      BY <2>1, <2>3, <3>1 DEF Image
    <3> QED BY <2>1, <3>1, <3>2 DEF Written
  <2> QED BY <2>4, <2>5
<1>3. NumberedOnce'
  BY DEF NumberedOnce
<1>4. InStep'
  <2>1. fw_pc' \in {"page", "report"} /\ UNCHANGED <<running, sent, taken>>
    BY DEF FirmwareTypes
  <2> QED BY <2>1 DEF InStep
<1> QED BY <1>1, <1>2, <1>3, <1>4

LEMMA CheckReportInv ==
  ASSUME FirmwareInv, CheckReport
  PROVE  FirmwareInv'
<1> USE FirmwareAssumption DEF FirmwareInv, CheckReport
<1>1. CASE Validated /\ UNCHANGED <<mem, rom_pge, sent, taken>>
  <2> USE <1>1 DEF Validated
  <2>1. FirmwareTypes'
    BY DEF FirmwareTypes, Boxes
  <2>2. Written'
    BY DEF Written
  <2>3. NumberedOnce'
    BY DEF NumberedOnce
  <2>4. InStep'
    <3>1. sent' = <<>> /\ taken' = <<>> /\ full' = {} /\ fw_box' = 0 /\ last_box_num' = 0
      BY DEF InStep
    <3>2. Waiting' = 0 /\ Ahead(Waiting)' = 0
      BY <3>1 DEF Waiting, Ahead
    <3> QED BY <3>1, <3>2 DEF InStep
  <2> QED BY <2>1, <2>2, <2>3, <2>4
<1>2. CASE fw_pc' = "page" /\ StartTry /\ try_faults' = 0
           /\ UNCHANGED <<rom_pge, mem, h2c_vars, running, fw_box, taken>>
           /\ faults' \in {faults, faults + 1}
  <2> USE <1>2 DEF StartTry, h2c_vars
  <2>1. FirmwareTypes'
    BY DEF FirmwareTypes, Pages
  <2>2. Written'
    BY DEF FirmwareTypes, Written, Pages
  <2>3. NumberedOnce'
    BY DEF NumberedOnce
  <2>4. InStep'
    BY DEF InStep
  <2> QED BY <2>1, <2>2, <2>3, <2>4
<1>3. CASE PowerOff /\ faults' \in {faults, faults + 1}
           /\ UNCHANGED <<try_faults, page, data, last_box_num, fw_box>>
  <2> USE <1>3 DEF PowerOff
  <2>1. FirmwareTypes'
    BY OffTypes
  <2>2. Written'
    BY DEF Written, Empty
  <2> QED BY <2>1, <2>2, Off
<1> QED BY <1>1, <1>2, <1>3

LEMMA StopInv ==
  ASSUME FirmwareInv, Stop
  PROVE  FirmwareInv'
<1> USE FirmwareAssumption DEF FirmwareInv, Stop, PowerOff
<1>1. FirmwareTypes'
  BY OffTypes
<1>2. Written'
  BY DEF Written, Empty
<1> QED BY <1>1, <1>2, Off

----------------------------------------------------------------------------
(* The boxes ahead of the one the firmware looks at are all different, and *)
(* are all there are.                                                      *)
LEMMA NextBox == \A b \in Boxes : Following(b) \in Boxes
  BY FirmwareAssumption DEF Boxes, Following

LEMMA Ring ==
  ASSUME FirmwareTypes
  PROVE  /\ \A k \in 0 .. NBOXES : Ahead(k) \in Boxes
         /\ \A j, k \in 0 .. NBOXES - 1 : Ahead(j) = Ahead(k) => j = k
         /\ \A k \in 0 .. NBOXES - 1 : Following(Ahead(k)) = Ahead(k + 1)
         /\ Ahead(0) = fw_box /\ Ahead(NBOXES) = fw_box
  BY FirmwareAssumption DEF FirmwareTypes, Boxes, Ahead, Following

(* The poll sees the box of the driver empty, unless the read failed.      *)
LEMMA PollInv ==
  ASSUME FirmwareInv, Poll
  PROVE  FirmwareInv'
<1> USE FirmwareAssumption DEF FirmwareInv, Poll, Fault, NoFault, Refused
<1>1. FirmwareTypes'
  BY DEF FirmwareTypes
<1>2. Written'
  BY DEF FirmwareTypes, Written
<1>3. NumberedOnce'
  <2>1. cmd' >= cmd /\ UNCHANGED <<taken, full, box>>
    BY DEF FirmwareTypes
  <2>2. \A i \in DOMAIN taken : taken[i].msg < cmd'
    BY <2>1, Numbers DEF NumberedOnce, FirmwareTypes
  <2>3. \A b \in full : box[b].msg < cmd'
    BY <2>1, Numbers DEF NumberedOnce, FirmwareTypes
  <2> QED BY <2>1, <2>2, <2>3 DEF NumberedOnce
<1>4. InStep'
  <2>1. UNCHANGED <<running, sent, taken, full, box, last_box_num, fw_box>> /\ running
    BY DEF InStep
  <2>2. Waiting' = Waiting /\ \A k : Ahead(k)' = Ahead(k)
    BY <2>1 DEF Waiting, Ahead
  <2>3. fw_pc' \in {"idle", "ex"}
    OBVIOUS
  <2>4. ASSUME faults' = 0, fw_pc' = "ex" PROVE Waiting < NBOXES
    <3>1. faults = 0 /\ last_box_num \notin full
      BY <2>4 DEF FirmwareTypes, BoxFree
    <3>2. Waiting \in 0 .. NBOXES /\ last_box_num = Ahead(Waiting)
      BY <2>1, <3>1 DEF InStep
    <3>3. Waiting # NBOXES
      <4> SUFFICES ASSUME Waiting = NBOXES PROVE FALSE
        OBVIOUS
      <4>1. last_box_num = Ahead(0) /\ 0 \in 0 .. Waiting - 1
        BY <3>2, Ring
      <4> QED BY <2>1, <3>1, <4>1 DEF InStep, FirmwareTypes
    <3> QED BY <3>2, <3>3
  <2>5. faults' = 0 => faults = 0
    BY DEF FirmwareTypes
  <2> QED BY <2>1, <2>2, <2>3, <2>4, <2>5 DEF InStep
<1> QED BY <1>1, <1>2, <1>3, <1>4

LEMMA WriteExInv ==
  ASSUME FirmwareInv, WriteEx
  PROVE  FirmwareInv'
<1> USE FirmwareAssumption DEF FirmwareInv, WriteEx, Fault, NoFault
<1> DEFINE b == last_box_num
<1>1. /\ box' \in {box, [box EXCEPT ![b].ext = cmd]}
      /\ faults' = 0 => faults = 0 /\ box' = [box EXCEPT ![b].ext = cmd]
  BY DEF FirmwareTypes
<1>2. /\ box' \in [Boxes -> Cmds] /\ \A c \in Boxes : box'[c].msg = box[c].msg
      /\ \A c \in Boxes \ {b} : box'[c] = box[c]
      /\ faults' = 0 => box'[b].ext = cmd
  BY <1>1 DEF FirmwareTypes, Cmds
<1>3. FirmwareTypes'
  BY <1>2 DEF FirmwareTypes
<1>4. Written'
  BY DEF FirmwareTypes, Written
<1>5. NumberedOnce'
  <2>1. \A c \in full : box'[c].msg = box[c].msg
    BY <1>2, Numbers
  <2> QED BY <2>1 DEF NumberedOnce
<1>6. InStep'
  <2>1. UNCHANGED <<running, sent, taken, full, last_box_num, fw_box, cmd>> /\ fw_pc' = "box"
    OBVIOUS
  <2>2. Waiting' = Waiting /\ \A k : Ahead(k)' = Ahead(k)
    BY <2>1 DEF Waiting, Ahead
  <2>3. ASSUME faults' = 0 PROVE \A k \in 0 .. Waiting - 1 : box'[Ahead(k)] = box[Ahead(k)]
    <3>1. faults = 0 /\ running
      BY <1>1, <2>3 DEF InStep
    <3>2. Waiting \in 0 .. NBOXES - 1 /\ b = Ahead(Waiting)
      BY <3>1 DEF InStep
    <3>3. \A k \in 0 .. Waiting - 1 : Ahead(k) \in Boxes /\ Ahead(k) # b
      BY <3>2, Ring
    <3> QED BY <1>2, <3>3
  <2>4. faults' = 0 => faults = 0
    BY <1>1
  <2> HIDE DEF b
  <2> QED BY <1>2, <2>1, <2>2, <2>3, <2>4 DEF InStep, b
<1> QED BY <1>3, <1>4, <1>5, <1>6

(* The command is in the box, or the write was lost.                       *)
LEMMA WriteBoxInv ==
  ASSUME FirmwareInv, WriteBox
  PROVE  FirmwareInv'
<1> USE FirmwareAssumption DEF FirmwareInv, WriteBox, Fault, NoFault, Advance
<1> DEFINE b == last_box_num
           Done == box' = [box EXCEPT ![b].msg = cmd] /\ full' = full \cup {b}
<1>1. Done \/ (UNCHANGED <<box, full>> /\ faults' # 0)
  BY DEF FirmwareTypes
<1>2. faults' = 0 => faults = 0
  BY DEF FirmwareTypes
<1>3. Done => /\ box' \in [Boxes -> Cmds] /\ \A c \in Boxes \ {b} : box'[c] = box[c]
              /\ box'[b].msg = cmd /\ box'[b].ext = box[b].ext
  BY DEF FirmwareTypes, Cmds
<1>4. /\ cmd' = cmd + 1 /\ sent' = Append(sent, cmd) /\ last_box_num' = Following(b)
      /\ UNCHANGED <<running, taken, fw_box, mem>> /\ fw_pc' = "idle"
  OBVIOUS
<1>5. FirmwareTypes'
  <2>1. box' \in [Boxes -> Cmds] /\ full' \subseteq Boxes
    BY <1>1, <1>3 DEF FirmwareTypes
  <2>2. last_box_num' \in Boxes
    BY <1>4, NextBox DEF FirmwareTypes
  <2>3. sent' \in Seq(Nat) /\ cmd' \in Nat \ {0}
    BY <1>4 DEF FirmwareTypes
  <2>4. faults' \in Nat /\ try_faults' \in Nat /\ try_faults' <= faults'
    <3>1. \/ faults' = faults /\ try_faults' = try_faults
          \/ faults' = faults + 1 /\ try_faults' = try_faults + 1
      OBVIOUS
    <3> QED BY ONLY <3>1, FirmwareTypes DEF FirmwareTypes
  <2> QED BY <2>1, <2>2, <2>3, <2>4 DEF FirmwareTypes
<1>6. Written'
  BY DEF FirmwareTypes, Written
<1>7. NumberedOnce'
  <2>1. \A i \in DOMAIN taken : taken[i].msg \in Nat /\ taken[i].msg < cmd
    BY Numbers DEF NumberedOnce
  <2>2. \A c \in full : c \in Boxes /\ box[c].msg \in Nat /\ box[c].msg < cmd
    BY DEF NumberedOnce, FirmwareTypes, Cmds
  <2>3. cmd \in Nat /\ cmd' = cmd + 1 /\ taken' = taken
    BY DEF FirmwareTypes
  <2>4. CASE UNCHANGED <<box, full>>
    BY <2>1, <2>2, <2>3, <2>4 DEF NumberedOnce
  <2>5. CASE Done
    <3>1. \A c \in full' : (box'[c].msg = cmd /\ c = b) \/ (c \in full /\ c # b /\ box'[c].msg = box[c].msg)
      BY <1>3, <2>2, <2>5
    <3> HIDE DEF Done, b
    <3>2. \A i \in DOMAIN taken' : taken'[i].msg < cmd'
      BY <2>1, <2>3
    <3>3. \A c \in full' : box'[c].msg < cmd'
      BY <2>2, <2>3, <3>1
    <3>4. \A c \in full' : \A i \in DOMAIN taken' : box'[c].msg # taken'[i].msg
      BY <2>1, <2>2, <2>3, <3>1 DEF NumberedOnce
    <3>5. \A c, d \in full' : c # d => box'[c].msg # box'[d].msg
      BY <2>2, <2>3, <3>1 DEF NumberedOnce
    <3> QED BY <2>3, <3>2, <3>3, <3>4, <3>5 DEF NumberedOnce
  <2> QED BY <1>1, <2>4, <2>5
<1>8. InStep'
  <2>1. ASSUME faults' = 0, running'
        PROVE  /\ Waiting' \in 0 .. NBOXES
               /\ \A k \in DOMAIN taken' : taken'[k] = Whole(sent'[k])
               /\ \A c \in Boxes : c \in full' <=> \E k \in 0 .. Waiting' - 1 : c = Ahead(k)'
               /\ \A k \in 0 .. Waiting' - 1 : box'[Ahead(k)'] = Whole(sent'[Len(taken') + k + 1])
               /\ last_box_num' = Ahead(Waiting)'
    <3>1. /\ Waiting \in 0 .. NBOXES - 1 /\ b = Ahead(Waiting) /\ box[b].ext = cmd
          /\ \A k \in DOMAIN taken : taken[k] = Whole(sent[k])
          /\ \A c \in Boxes : c \in full <=> \E k \in 0 .. Waiting - 1 : c = Ahead(k)
          /\ \A k \in 0 .. Waiting - 1 : box[Ahead(k)] = Whole(sent[Len(taken) + k + 1])
      BY <1>2, <1>4, <2>1 DEF InStep
    <3>2. Done
      BY <1>1, <2>1
    <3>3. /\ Len(sent') = Len(sent) + 1 /\ Len(sent) \in Nat /\ Len(taken) \in Nat
          /\ sent'[Len(sent) + 1] = cmd /\ \A i \in 1 .. Len(sent) : sent'[i] = sent[i]
          /\ DOMAIN taken = 1 .. Len(taken)
      BY <1>4, AppendProperties, LenProperties DEF FirmwareTypes
    <3>4. Waiting' = Waiting + 1 /\ \A k : Ahead(k)' = Ahead(k)
      BY <1>4, <3>3 DEF Waiting, Ahead
    <3>5. Len(sent) = Len(taken) + Waiting
      BY <3>3 DEF Waiting
    <3>6. b \in Boxes /\ \A k \in 0 .. Waiting - 1 : Ahead(k) \in Boxes /\ Ahead(k) # b
      BY <3>1, Ring
    <3>7. box'[b] = Whole(cmd)
      BY <1>3, <3>1, <3>2, <3>6 DEF Whole, Cmds
    <3> HIDE DEF b, Done
    <3>0. 0 .. Waiting' - 1 = (0 .. Waiting - 1) \cup {Waiting}
      BY <3>1, <3>4
    <3>8. Waiting' \in 0 .. NBOXES
      BY <3>1, <3>4
    <3>9. \A k \in DOMAIN taken' : taken'[k] = Whole(sent'[k])
      BY <1>4, <3>1, <3>3, <3>5
    <3>10. \A c \in Boxes : c \in full' <=> \E k \in 0 .. Waiting' - 1 : c = Ahead(k)'
      <4>1. full' = full \cup {b}
        BY <3>2 DEF Done
      <4> QED BY <3>0, <3>1, <3>4, <4>1
    <3>11. \A k \in 0 .. Waiting' - 1 : box'[Ahead(k)'] = Whole(sent'[Len(taken') + k + 1])
      <4> SUFFICES ASSUME NEW k \in 0 .. Waiting' - 1
                   PROVE  box'[Ahead(k)] = Whole(sent'[Len(taken) + k + 1])
        BY <1>4, <3>4
      <4>1. CASE k = Waiting
        BY <3>1, <3>3, <3>5, <3>7, <4>1
      <4>2. CASE k \in 0 .. Waiting - 1
        <5>1. box'[Ahead(k)] = box[Ahead(k)]
          BY <1>3, <3>2, <3>6, <4>2
        <5>2. Len(taken) + k + 1 \in 1 .. Len(sent)
          <6>1. Waiting \in Int /\ Len(sent) \in Nat /\ Len(taken) \in Nat
            BY <3>1, <3>3
          <6> QED BY <3>5, <4>2, <6>1
        <5> QED BY <3>1, <3>3, <4>2, <5>1, <5>2
      <4> QED BY <3>0, <4>1, <4>2
    <3>12. last_box_num' = Ahead(Waiting)'
      BY <1>4, <3>1, <3>4, Ring DEF b
    <3> QED BY <3>8, <3>9, <3>10, <3>11, <3>12
  <2>2. running' = running /\ running
    BY <1>4 DEF InStep
  <2> QED BY <1>4, <2>1, <2>2 DEF InStep
<1> QED BY <1>5, <1>6, <1>7, <1>8

(* What the firmware takes is the oldest of what waits.                    *)
LEMMA TakesInv ==
  ASSUME FirmwareInv, FirmwareTakes
  PROVE  FirmwareInv'
<1> USE FirmwareAssumption DEF FirmwareInv, FirmwareTakes, dl_vars
<1>1. /\ taken' = Append(taken, box[fw_box]) /\ full' = full \ {fw_box}
      /\ fw_box' = Following(fw_box) /\ fw_box \in full /\ running
      /\ UNCHANGED <<fw_pc, box, sent, cmd, last_box_num, running, faults>>
  OBVIOUS
<1>2. /\ Len(taken') = Len(taken) + 1 /\ Len(taken) \in Nat
      /\ DOMAIN taken = 1 .. Len(taken) /\ DOMAIN taken' = 1 .. Len(taken) + 1
      /\ taken'[Len(taken) + 1] = box[fw_box]
      /\ \A i \in 1 .. Len(taken) : taken'[i] = taken[i]
      /\ taken' \in Seq(Cmds) /\ fw_box \in Boxes /\ Len(sent) \in Nat
  BY <1>1, AppendProperties, LenProperties DEF FirmwareTypes
<1>3. FirmwareTypes'
  <2>1. fw_box' \in Boxes
    BY <1>1, NextBox DEF FirmwareTypes
  <2> QED BY <1>1, <1>2, <2>1 DEF FirmwareTypes
<1>4. Written'
  BY DEF Written
<1>5. NumberedOnce'
  <2>1. \A i \in DOMAIN taken' :
          \/ i = Len(taken) + 1 /\ taken'[i] = box[fw_box]
          \/ i \in DOMAIN taken /\ taken'[i] = taken[i] /\ i # Len(taken) + 1
    BY <1>2
  <2> QED BY <1>1, <2>1 DEF NumberedOnce
<1>6. InStep'
  <2>1. ASSUME faults = 0
        PROVE  /\ Waiting' \in 0 .. NBOXES
               /\ \A k \in DOMAIN taken' : taken'[k] = Whole(sent'[k])
               /\ \A c \in Boxes : c \in full' <=> \E k \in 0 .. Waiting' - 1 : c = Ahead(k)'
               /\ \A k \in 0 .. Waiting' - 1 : box'[Ahead(k)'] = Whole(sent'[Len(taken') + k + 1])
               /\ last_box_num' = Ahead(Waiting)'
               /\ Waiting' < NBOXES
    <3>1. /\ Waiting \in 0 .. NBOXES /\ last_box_num = Ahead(Waiting)
          /\ \A k \in DOMAIN taken : taken[k] = Whole(sent[k])
          /\ \A c \in Boxes : c \in full <=> \E k \in 0 .. Waiting - 1 : c = Ahead(k)
          /\ \A k \in 0 .. Waiting - 1 : box[Ahead(k)] = Whole(sent[Len(taken) + k + 1])
      BY <1>1, <2>1 DEF InStep
    <3>2. Waiting >= 1 /\ Waiting' = Waiting - 1
      <4>1. \E k \in 0 .. Waiting - 1 : fw_box = Ahead(k)
        BY <1>1, <1>2, <3>1
      <4>2. Waiting >= 1
        BY <3>1, <4>1
      <4> QED BY <1>1, <1>2, <4>2 DEF Waiting
    <3>3. \A k \in 0 .. NBOXES - 1 : Ahead(k)' = Ahead(k + 1)
      BY <1>1, <1>2 DEF Ahead, Following, Boxes
    <3>4. box[fw_box] = Whole(sent[Len(taken) + 1])
      <4>1. 0 \in 0 .. Waiting - 1 /\ Ahead(0) = fw_box
        BY <3>1, <3>2, Ring
      <4>2. box[Ahead(0)] = Whole(sent[Len(taken) + 0 + 1])
        BY <3>1, <4>1
      <4> QED BY <1>2, <4>1, <4>2
    <3>5. \A k \in DOMAIN taken' : taken'[k] = Whole(sent'[k])
      BY <1>1, <1>2, <3>1, <3>4
    <3>6. ASSUME NEW c \in Boxes
          PROVE  c \in full' <=> \E k \in 0 .. Waiting' - 1 : c = Ahead(k)'
      <4>1. ASSUME c \in full' PROVE \E k \in 0 .. Waiting' - 1 : c = Ahead(k)'
        <5>1. PICK k \in 0 .. Waiting - 1 : c = Ahead(k)
          BY <1>1, <3>1, <4>1
        <5>2. k # 0
          BY <1>1, <4>1, <5>1, Ring
        <5>3. k - 1 \in 0 .. Waiting' - 1 /\ k - 1 \in 0 .. NBOXES - 1 /\ (k - 1) + 1 = k
          BY <3>1, <3>2, <5>1, <5>2
        <5> QED BY <3>3, <5>1, <5>3
      <4>2. ASSUME NEW k \in 0 .. Waiting' - 1, c = Ahead(k)' PROVE c \in full'
        <5>1. /\ k + 1 \in 0 .. Waiting - 1 /\ k \in 0 .. NBOXES - 1
              /\ k + 1 \in 0 .. NBOXES - 1 /\ 0 \in 0 .. NBOXES - 1 /\ k + 1 # 0
          BY <3>1, <3>2, <4>2
        <5>2. c = Ahead(k + 1)
          BY <3>3, <4>2, <5>1
        <5>3. c \in full /\ c # Ahead(0)
          BY <3>1, <5>1, <5>2, Ring
        <5> QED BY <1>1, <5>3, Ring
      <4> QED BY <4>1, <4>2
    <3>7. ASSUME NEW k \in 0 .. Waiting' - 1
          PROVE  box'[Ahead(k)'] = Whole(sent'[Len(taken') + k + 1])
      <4>1. k + 1 \in 0 .. Waiting - 1 /\ k \in 0 .. NBOXES - 1
        BY <3>1, <3>2
      <4>2. box[Ahead(k + 1)] = Whole(sent[Len(taken) + (k + 1) + 1])
        BY <3>1, <4>1
      <4>3. Len(taken) + (k + 1) + 1 = Len(taken') + k + 1
        BY <1>2, <4>1
      <4> QED BY <1>1, <3>3, <4>1, <4>2, <4>3
    <3>8. last_box_num' = Ahead(Waiting)'
      <4>1. Ahead(Waiting)' = IF fw_box' + Waiting' >= NBOXES THEN fw_box' + Waiting' - NBOXES
                              ELSE fw_box' + Waiting'
        BY DEF Ahead
      <4> QED BY <1>1, <1>2, <3>1, <3>2, <4>1 DEF Ahead, Following, Boxes
    <3>9. Waiting' \in 0 .. NBOXES /\ Waiting' < NBOXES
      BY <3>1, <3>2
    <3> QED BY <3>5, <3>6, <3>7, <3>8, <3>9
  <2>2. running' /\ fw_pc' = fw_pc /\ faults' = faults
    BY <1>1
  <2>3. fw_pc = "box" /\ faults = 0 => box'[last_box_num'].ext = cmd'
    BY <1>1 DEF InStep
  <2> QED BY <1>1, <2>1, <2>2, <2>3 DEF InStep
<1> QED BY <1>3, <1>4, <1>5, <1>6

LEMMA NextFirmware ==
  ASSUME FirmwareInv, [FirmwareNext]_fw_vars
  PROVE  FirmwareInv'
<1>1. CASE UNCHANGED fw_vars
  BY <1>1 DEF fw_vars, dl_vars, h2c_vars, FirmwareInv, FirmwareTypes, Written, NumberedOnce,
              InStep, Waiting, Ahead
<1> QED BY <1>1, PowerOnInv, WritePageInv, CheckReportInv, PollInv, WriteExInv, WriteBoxInv,
           StopInv, TakesInv DEF FirmwareNext

(* Whatever failed before, a try without a failure leaves the whole image; *)
(* the firmware executes no command twice and, without failures, exactly   *)
(* those sent, whole and in order, however slow it is (fw.c:499, mac.c:896).*)
THEOREM FirmwareIsFaithful == FirmwareSpec => []FirmwareFaithful
<1>1. FirmwareInv => FirmwareFaithful
  <2> SUFFICES ASSUME FirmwareInv PROVE FirmwareFaithful
    OBVIOUS
  <2>1. RetryRepairs
    BY DEF FirmwareInv, Written, RetryRepairs
  <2>2. ASSUME faults = 0, running PROVE full = {Ahead(k) : k \in 0 .. Waiting - 1}
    <3>1. \A k \in 0 .. Waiting - 1 : Ahead(k) \in Boxes
      BY <2>2, Ring, FirmwareAssumption DEF FirmwareInv, InStep
    <3> QED BY <2>2, <3>1 DEF FirmwareInv, InStep, FirmwareTypes
  <2>3. CommandsExact
    BY <2>2 DEF FirmwareInv, InStep, NumberedOnce, CommandsExact
  <2> QED BY <2>1, <2>3 DEF FirmwareFaithful
<1> QED BY <1>1, InitFirmware, NextFirmware, PTL DEF FirmwareSpec

(***************************************************************************)
(* The power sequences.  What the commands of a call may do is found once, *)
(* by looking at all of them (OffCmds, OnCmds, SwitchOffCmds, ProbeCmds);  *)
(* the rest of the proof knows of a command only that.  PwInv says, for a  *)
(* place in a call, which bits the commands behind it have set and cleared *)
(* (Reached), that a chip that still sends and receives has a firmware that*)
(* says so (Telltale), and that a MAC that is on after its switch-off has  *)
(* cost a timeout (MacOff).                                                *)
(***************************************************************************)

CmdFits(c) ==
  /\ c.mask \subseteq Ps!All /\ c.value \subseteq Ps!All
  /\ c.reg = \h14 => c.value \subseteq {7}
  /\ c.reg = \h15 => c.value \subseteq {0}
  /\ c.reg = \h23 => c.value \subseteq {4}
  /\ c.cmd # "write" => c.bus = "all"

(* The fields of a command.                                                *)
Fields(c, kind, bus, r, m, v) ==
  c.cmd = kind /\ c.bus = bus /\ c.reg = r /\ c.mask = m /\ c.value = v

(* The fields of the commands.                                             *)
LEMMA WriteIs ==
  ASSUME NEW r, NEW m, NEW v PROVE Fields(Ps!W(r, m, v), "write", "all", r, m, v)
  BY DEF Fields, Ps!W

LEMMA PollIs ==
  ASSUME NEW r, NEW m, NEW v PROVE Fields(Ps!P(r, m, v), "poll", "all", r, m, v)
  BY DEF Fields, Ps!P, Ps!W

LEMMA UsbIs ==
  ASSUME NEW r, NEW m, NEW v PROVE Fields(Ps!Usb(Ps!W(r, m, v)), "write", "usb", r, m, v)
  BY DEF Fields, Ps!Usb, Ps!W

LEMMA PciIs ==
  ASSUME NEW r, NEW m, NEW v PROVE Fields(Ps!Pci(Ps!W(r, m, v)), "write", "pci", r, m, v)
  BY DEF Fields, Ps!Pci, Ps!W

LEMMA IfIs ==
  ASSUME NEW r, NEW m PROVE Fields(Ps!If(r, m), "if", "all", r, m, m)
  BY DEF Fields, Ps!If, Ps!W

LEMMA TryIs ==
  ASSUME NEW k PROVE Fields(Ps!Try(k), k, "all", 0, {}, {})
  BY DEF Fields, Ps!Try, Ps!W

LEMMA TryPollIs ==
  ASSUME NEW r, NEW m, NEW v
  PROVE  Fields([Ps!P(r, m, v) EXCEPT !.cmd = "try_poll"], "try_poll", "all", r, m, v)
  BY DEF Fields, Ps!P, Ps!W

LEMMA RestoreIs ==
  ASSUME NEW r, NEW m, NEW v
  PROVE  Fields([Ps!W(r, m, v) EXCEPT !.cmd = "restore"], "restore", "all", r, m, v)
  BY DEF Fields, Ps!W

(* The tables the calls are put together from.                             *)
LEMMA DisableParts ==
  /\ Len(Ps!CardDisableFlow) = 25
  /\ Ps!CardDisableFlow[1] = Ps!W(Ps!RF_A_3WIRE, Ps!All, {2})
       /\ Ps!CardDisableFlow[2] = Ps!W(Ps!RF_B_3WIRE, Ps!All, {2})
  /\ Ps!CardDisableFlow[3] = Ps!W(Ps!SYS_FUNC_EN, {0}, {})
       /\ Ps!CardDisableFlow[8] = Ps!P(Ps!APS, {1}, {})
  /\ \A i \in 4..7 : Ps!CardDisableFlow[i] \in {Ps!Pci(Ps!W(Ps!SYS_FUNC_EN, {1}, {})), Ps!W(\h07,
       Ps!All, {1, 3, 5}),
                                             Ps!Usb(Ps!W(\h08, {1}, {})), Ps!W(Ps!APS, {1}, {1})}
  /\ \A i \in 9..25 : Ps!CardDisableFlow[i] \in
       {Ps!W(Ps!CPU_EN, {2}, {}), Ps!W(Ps!MCUFW_CTRL, Ps!All, {0, 2}), Ps!Usb(Ps!W(\h42, 4..7, {6,
         7})),
        Ps!Pci(Ps!W(\h42, 4..7, {5, 6, 7})), Ps!W(\h43, Ps!All, 0..2), Ps!W(\h45, Ps!All, {}),
          Ps!W(\h46, Ps!All, Ps!All),
        Ps!W(\h47, Ps!All, {}), Ps!W(\h14, {7}, {7}), Ps!W(\h15, {0}, {0}), Ps!W(\h12, {0}, {}),
        Ps!W(\h23, {4}, {4}), Ps!Usb(Ps!W(\h08, {1}, {})), Ps!Usb(Ps!W(\h07, Ps!All, {5})),
        Ps!Usb(Ps!W(Ps!RF_CTRL, {1}, {})), Ps!Usb(Ps!W(Ps!RF_B_CTRL, {1}, {})), Ps!W(Ps!APS, {3},
          {3})}
<1>1. /\ Len(Ps!CardDisableFlow) = 25
      /\ \A i \in 1..8 : Ps!CardDisableFlow[i] = Ps!ActToCardemu[i]
      /\ \A i \in 9..25 : Ps!CardDisableFlow[i] = Ps!CardemuToCarddis[i - 8]
  BY DEF Ps!CardDisableFlow, Ps!CardemuToCarddis, Ps!ActToCardemu
<1>2. /\ Ps!ActToCardemu[1] = Ps!W(Ps!RF_A_3WIRE, Ps!All, {2})
           /\ Ps!ActToCardemu[2] = Ps!W(Ps!RF_B_3WIRE, Ps!All, {2})
      /\ Ps!ActToCardemu[3] = Ps!W(Ps!SYS_FUNC_EN, {0}, {})
           /\ Ps!ActToCardemu[8] = Ps!P(Ps!APS, {1}, {})
  BY DEF Ps!ActToCardemu
<1>3. \A i \in 4..7 : Ps!ActToCardemu[i] \in
        {Ps!Pci(Ps!W(Ps!SYS_FUNC_EN, {1}, {})), Ps!W(\h07, Ps!All, {1, 3, 5}), Ps!Usb(Ps!W(\h08, {1},
          {})),
         Ps!W(Ps!APS, {1}, {1})}
  BY DEF Ps!ActToCardemu
<1>4. \A i \in 1..17 : Ps!CardemuToCarddis[i] \in
       {Ps!W(Ps!CPU_EN, {2}, {}), Ps!W(Ps!MCUFW_CTRL, Ps!All, {0, 2}), Ps!Usb(Ps!W(\h42, 4..7, {6,
         7})),
        Ps!Pci(Ps!W(\h42, 4..7, {5, 6, 7})), Ps!W(\h43, Ps!All, 0..2), Ps!W(\h45, Ps!All, {}),
          Ps!W(\h46, Ps!All, Ps!All),
        Ps!W(\h47, Ps!All, {}), Ps!W(\h14, {7}, {7}), Ps!W(\h15, {0}, {0}), Ps!W(\h12, {0}, {}),
        Ps!W(\h23, {4}, {4}), Ps!Usb(Ps!W(\h08, {1}, {})), Ps!Usb(Ps!W(\h07, Ps!All, {5})),
        Ps!Usb(Ps!W(Ps!RF_CTRL, {1}, {})), Ps!Usb(Ps!W(Ps!RF_B_CTRL, {1}, {})), Ps!W(Ps!APS, {3},
          {3})}
  BY DEF Ps!CardemuToCarddis
<1> QED
  BY <1>1, <1>2, <1>3, <1>4

LEMMA EnableParts ==
  /\ Len(Ps!CardEnableFlow) = 19
  /\ Ps!CardEnableFlow[2] = Ps!W(\h14, {7}, {}) /\ Ps!CardEnableFlow[3] = Ps!W(\h15, {0}, {})
  /\ Ps!CardEnableFlow[4] = Ps!W(\h23, {4}, {}) /\ Ps!CardEnableFlow[5] = Ps!W(\h46, Ps!All, {})
  /\ Ps!CardEnableFlow[6] = Ps!W(\h43, Ps!All, {}) /\ Ps!CardEnableFlow[8] = Ps!W(Ps!APS, {3}, {})
  /\ Ps!CardEnableFlow[12] = Ps!W(Ps!APS, {2}, {})
       /\ Ps!CardEnableFlow[13] = Ps!P(Ps!POWER_READY, {1}, {1})
  /\ Ps!CardEnableFlow[17] = Ps!P(Ps!APS, {0}, {})
  /\ \A i \in {1, 7} : Ps!CardEnableFlow[i] \in {Ps!W(\h12, {0}, {0}), Ps!Pci(Ps!W(Ps!APS, {2}, {}))}
  /\ \A i \in (9..19) \ {12, 13, 17} : Ps!CardEnableFlow[i] \in
       {Ps!W(Ps!CPU_EN, {2}, {2}), Ps!Usb(Ps!W(\h24, {1}, {1})), Ps!Usb(Ps!W(\h28, {3}, {3})),
        Ps!Pci(Ps!W(Ps!APS, {7}, {})), Ps!W(Ps!APS, {3}, {}), Ps!W(Ps!APS, {0}, {0}),
          Ps!Usb(Ps!W(\h24, {1}, {})),
        Ps!Usb(Ps!W(\h28, {3}, {}))}
<1>1. /\ Len(Ps!CardEnableFlow) = 19
      /\ \A i \in 1..11 : Ps!CardEnableFlow[i] = Ps!CarddisToCardemu[i]
      /\ \A i \in 12..19 : Ps!CardEnableFlow[i] = Ps!CardemuToAct[i - 11]
  BY DEF Ps!CardEnableFlow, Ps!CarddisToCardemu, Ps!CardemuToAct
<1>2. /\ Ps!CarddisToCardemu[2] = Ps!W(\h14, {7}, {}) /\ Ps!CarddisToCardemu[3] = Ps!W(\h15, {0}, {})
      /\ Ps!CarddisToCardemu[4] = Ps!W(\h23, {4}, {})
           /\ Ps!CarddisToCardemu[5] = Ps!W(\h46, Ps!All, {})
      /\ Ps!CarddisToCardemu[6] = Ps!W(\h43, Ps!All, {})
           /\ Ps!CarddisToCardemu[8] = Ps!W(Ps!APS, {3}, {})
      /\ Ps!CarddisToCardemu[1] = Ps!W(\h12, {0}, {0})
           /\ Ps!CarddisToCardemu[7] = Ps!Pci(Ps!W(Ps!APS, {2}, {}))
      /\ Ps!CarddisToCardemu[9] = Ps!W(Ps!CPU_EN, {2}, {2})
      /\ Ps!CarddisToCardemu[10] = Ps!Usb(Ps!W(\h24, {1}, {1}))
           /\ Ps!CarddisToCardemu[11] = Ps!Usb(Ps!W(\h28, {3}, {3}))
  BY DEF Ps!CarddisToCardemu
<1>3. /\ Ps!CardemuToAct[1] = Ps!W(Ps!APS, {2}, {})
           /\ Ps!CardemuToAct[2] = Ps!P(Ps!POWER_READY, {1}, {1})
      /\ Ps!CardemuToAct[3] = Ps!Pci(Ps!W(Ps!APS, {7}, {}))
           /\ Ps!CardemuToAct[4] = Ps!W(Ps!APS, {3}, {})
      /\ Ps!CardemuToAct[5] = Ps!W(Ps!APS, {0}, {0}) /\ Ps!CardemuToAct[6] = Ps!P(Ps!APS, {0}, {})
      /\ Ps!CardemuToAct[7] = Ps!Usb(Ps!W(\h24, {1}, {}))
           /\ Ps!CardemuToAct[8] = Ps!Usb(Ps!W(\h28, {3}, {}))
  BY DEF Ps!CardemuToAct
<1>4. \A i \in 9..11 : Ps!CardEnableFlow[i] \in
        {Ps!W(Ps!CPU_EN, {2}, {2}), Ps!Usb(Ps!W(\h24, {1}, {1})), Ps!Usb(Ps!W(\h28, {3}, {3}))}
  BY <1>1, <1>2
<1>5. \A i \in {14, 15, 16, 18, 19} : Ps!CardEnableFlow[i] \in
        {Ps!Pci(Ps!W(Ps!APS, {7}, {})), Ps!W(Ps!APS, {3}, {}), Ps!W(Ps!APS, {0}, {0}),
          Ps!Usb(Ps!W(\h24, {1}, {})),
         Ps!Usb(Ps!W(\h28, {3}, {}))}
  BY <1>1, <1>3
<1>6. \A i \in (9..19) \ {12, 13, 17} : i \in 9..11 \/ i \in {14, 15, 16, 18, 19}
  OBVIOUS
<1> QED
  BY <1>1, <1>2, <1>3, <1>4, <1>5, <1>6

LEMMA ResetParts ==
  /\ Len(Ps!HwReset) = 15
  /\ Ps!HwReset[1] = Ps!If(Ps!MCUFW_CTRL, {7}) /\ Ps!HwReset[6] = Ps!W(Ps!MCUFW_CTRL, Ps!All, {})
  /\ Ps!HwReset[9] = Ps!W(Ps!CR, Ps!All, {})
       /\ Ps!HwReset[12] = [Ps!P(Ps!APS, {1}, {}) EXCEPT !.cmd = "try_poll"]
  /\ \A i \in (2..15) \ {6, 9, 12} : Ps!HwReset[i] \in
       {Ps!W(Ps!RSV_CTRL, {1}, {}), Ps!W(Ps!CPU_EN, {2}, {}), Ps!W(Ps!CPU_EN, {2}, {2}),
         Ps!W(Ps!SYS_FUNC_EN, {0, 1}, {}),
        Ps!W(Ps!RF_CTRL, Ps!All, {}), Ps!W(Ps!CR_SEC, Ps!All, {}), Ps!W(Ps!APS, {1}, {1}),
          Ps!W(Ps!APS, {0}, {0}),
        Ps!W(Ps!CPU_EN, {4, 7}, {}), Ps!W(Ps!CPU_EN, {4, 7}, {4, 7})}
<1>1. /\ Len(Ps!HwReset) = 15 /\ Ps!HwReset[1] = Ps!If(Ps!MCUFW_CTRL, {7})
      /\ Ps!HwReset[2] = Ps!W(Ps!RSV_CTRL, {1}, {}) /\ Ps!HwReset[3] = Ps!W(Ps!CPU_EN, {2}, {})
      /\ Ps!HwReset[4] = Ps!W(Ps!RSV_CTRL, {1}, {}) /\ Ps!HwReset[5] = Ps!W(Ps!CPU_EN, {2}, {2})
      /\ Ps!HwReset[6] = Ps!W(Ps!MCUFW_CTRL, Ps!All, {})
           /\ Ps!HwReset[7] = Ps!W(Ps!SYS_FUNC_EN, {0, 1}, {})
      /\ Ps!HwReset[8] = Ps!W(Ps!RF_CTRL, Ps!All, {}) /\ Ps!HwReset[9] = Ps!W(Ps!CR, Ps!All, {})
      /\ Ps!HwReset[10] = Ps!W(Ps!CR_SEC, Ps!All, {}) /\ Ps!HwReset[11] = Ps!W(Ps!APS, {1}, {1})
      /\ Ps!HwReset[12] = [Ps!P(Ps!APS, {1}, {}) EXCEPT !.cmd = "try_poll"]
      /\ Ps!HwReset[13] = Ps!W(Ps!APS, {0}, {0}) /\ Ps!HwReset[14] = Ps!W(Ps!CPU_EN, {4, 7}, {})
      /\ Ps!HwReset[15] = Ps!W(Ps!CPU_EN, {4, 7}, {4, 7})
  BY DEF Ps!HwReset, Ps!Reset8051
<1>2. \A i \in (2..15) \ {6, 9, 12} : i \in {2, 3, 4, 5, 7, 8, 10, 11, 13, 14, 15}
  OBVIOUS
<1> QED
  BY <1>1, <1>2

(* What the flows of power_off may do.                                     *)
OffCmd(f, s, c) ==
  /\ CmdFits(c) /\ c.cmd \in {"write", "poll", "if", "restore"}
  /\ c.cmd = "if" => f = 3
  /\ c.cmd = "poll" => (f = 2 /\ c.reg \notin {Ps!APS, Ps!POWER_READY}) \/ (f = 5 /\ s = 8)
  /\ f = 1 => c.reg # Ps!MCUFW_CTRL
  /\ f = 1 /\ s = 2 => c = Ps!W(Ps!CR, Ps!All, {})
  /\ c.reg = Ps!CR => c.value \cap {6, 7} = {}
  /\ f = 4 /\ s = 1 => c = Ps!W(Ps!CPU_EN, {2}, {})
  /\ f = 4 /\ s = 2 => c = Ps!W(Ps!MCUFW_CTRL, Ps!All, {})
  /\ f >= 4 => (c.reg = Ps!CPU_EN => 2 \notin c.value) /\ (c.reg = Ps!MCUFW_CTRL => 7 \notin c.value)
  /\ f = 5 /\ s = 1 => c = Ps!W(Ps!RF_A_3WIRE, Ps!All, {2})
  /\ f = 5 /\ s = 2 => c = Ps!W(Ps!RF_B_3WIRE, Ps!All, {2})
  /\ f = 5 /\ s = 3 => c = Ps!W(Ps!SYS_FUNC_EN, {0}, {})
  /\ f = 5 /\ s = 8 => c = Ps!P(Ps!APS, {1}, {})
  /\ f >= 5 => /\ c.reg = Ps!RF_A_3WIRE => f = 5 /\ s = 1
               /\ c.reg = Ps!RF_B_3WIRE => f = 5 /\ s = 2
               /\ c.reg = Ps!SYS_FUNC_EN => c.value = {}

(* The commands of each call, one by one.  The rest of the proof knows of  *)
(* a command only what these tables say.                                   *)
LEMMA OffCmds ==
  /\ Len(Ps!PowerOffFlows) = 6
  /\ Len(Ps!PowerOffFlows[1]) = 2 /\ Len(Ps!PowerOffFlows[4]) = 2 /\ Len(Ps!PowerOffFlows[5]) = 25
  /\ \A f \in 1..6 : /\ Len(Ps!PowerOffFlows[f]) \in Nat \ {0}
                     /\ \A s \in 1..Len(Ps!PowerOffFlows[f]) : OffCmd(f, s, Ps!PowerOffFlows[f][s])
<1> USE DEF Ps!APS, Ps!CR, Ps!CPU_EN, Ps!MCUFW_CTRL, Ps!RF_A_3WIRE, Ps!RF_B_3WIRE, Ps!SYS_FUNC_EN,
      Ps!POWER_READY,
            Ps!TXPAUSE, Ps!CR_SEC, Ps!RSV_CTRL, Ps!RF_CTRL, Ps!RF_B_CTRL
<1>1. /\ Len(Ps!PowerOffFlows) = 6
           /\ Ps!PowerOffFlows[1] = <<Ps!W(Ps!APS, {7}, {}), Ps!W(Ps!CR, Ps!All, {})>>
      /\ Ps!PowerOffFlows[2] = Ps!ActToLps
           /\ Ps!PowerOffFlows[3] = <<Ps!If(Ps!MCUFW_CTRL, {7})>> \o Ps!Reset8051
      /\ Ps!PowerOffFlows[4] = <<Ps!W(Ps!CPU_EN, {2}, {}), Ps!W(Ps!MCUFW_CTRL, Ps!All, {})>>
      /\ Ps!PowerOffFlows[5] = Ps!CardDisableFlow
      /\ Ps!PowerOffFlows[6] = <<[Ps!W(Ps!APS, {7}, {7}) EXCEPT !.cmd = "restore"]>>
  BY DEF Ps!PowerOffFlows
<1>2. /\ Len(Ps!PowerOffFlows[1]) = 2
      /\ \A s \in 1..2 : OffCmd(1, s, Ps!PowerOffFlows[1][s])
  <2>1. Ps!PowerOffFlows[1][1] = Ps!W(Ps!APS, {7}, {})
          /\ Ps!PowerOffFlows[1][2] = Ps!W(Ps!CR, Ps!All, {})
    BY <1>1
  <2>2. OffCmd(1, 1, Ps!W(Ps!APS, {7}, {})) /\ OffCmd(1, 2, Ps!W(Ps!CR, Ps!All, {}))
    BY WriteIs DEF Fields, OffCmd, CmdFits, Ps!All
  <2>3. \A s \in 1..2 : s = 1 \/ s = 2
    OBVIOUS
  <2> QED
    BY <1>1, <2>1, <2>2, <2>3
<1>3. /\ Len(Ps!PowerOffFlows[2]) = 12
      /\ \A s \in 1..12 : OffCmd(2, s, Ps!PowerOffFlows[2][s])
  <2> DEFINE Set == {Ps!W(Ps!TXPAUSE, Ps!All, 0..6), Ps!P(\h5F8, Ps!All, {}), Ps!P(\h5F9, Ps!All,
        {}), Ps!P(\h5FA, Ps!All, {}),
                     Ps!P(\h5FB, Ps!All, {}), Ps!W(Ps!RF_A_3WIRE, Ps!All, {2}), Ps!W(Ps!RF_B_3WIRE,
                       Ps!All, {2}),
                     Ps!W(Ps!SYS_FUNC_EN, {0}, {}), Ps!Usb(Ps!W(Ps!SYS_FUNC_EN, {1}, {})),
                       Ps!W(Ps!CR, Ps!All, {0, 1}),
                     Ps!W(Ps!CR_SEC, {1}, {}), Ps!W(\h553, {5}, {5})}
  <2>1. Len(Ps!ActToLps) = 12 /\ \A i \in 1..12 : Ps!ActToLps[i] \in Set
    BY DEF Ps!ActToLps
  <2>2. \A c \in Set, s \in 1..12 : OffCmd(2, s, c)
    BY WriteIs, PollIs, UsbIs DEF Fields, OffCmd, CmdFits, Ps!All
  <2> HIDE DEF Set
  <2> QED
    BY <1>1, <2>1, <2>2
<1>4. /\ Len(Ps!PowerOffFlows[3]) = 5
      /\ \A s \in 1..5 : OffCmd(3, s, Ps!PowerOffFlows[3][s])
  <2> DEFINE Set == {Ps!If(Ps!MCUFW_CTRL, {7}), Ps!W(Ps!RSV_CTRL, {1}, {}), Ps!W(Ps!CPU_EN, {2}, {}),
        Ps!W(Ps!CPU_EN, {2}, {2})}
  <2>1. /\ Len(<<Ps!If(Ps!MCUFW_CTRL, {7})>> \o Ps!Reset8051) = 5
        /\ \A i \in 1..5 : (<<Ps!If(Ps!MCUFW_CTRL, {7})>> \o Ps!Reset8051)[i] \in Set
    BY DEF Ps!Reset8051
  <2>2. \A c \in Set, s \in 1..5 : OffCmd(3, s, c)
    BY WriteIs, IfIs DEF Fields, OffCmd, CmdFits, Ps!All
  <2> HIDE DEF Set
  <2> QED
    BY <1>1, <2>1, <2>2
<1>5. /\ Len(Ps!PowerOffFlows[4]) = 2
      /\ \A s \in 1..2 : OffCmd(4, s, Ps!PowerOffFlows[4][s])
  <2>1. Ps!PowerOffFlows[4][1] = Ps!W(Ps!CPU_EN, {2}, {})
          /\ Ps!PowerOffFlows[4][2] = Ps!W(Ps!MCUFW_CTRL, Ps!All, {})
    BY <1>1
  <2>2. OffCmd(4, 1, Ps!W(Ps!CPU_EN, {2}, {})) /\ OffCmd(4, 2, Ps!W(Ps!MCUFW_CTRL, Ps!All, {}))
    BY WriteIs DEF Fields, OffCmd, CmdFits, Ps!All
  <2>3. \A s \in 1..2 : s = 1 \/ s = 2
    OBVIOUS
  <2> QED
    BY <1>1, <2>1, <2>2, <2>3
<1>6. /\ Len(Ps!PowerOffFlows[5]) = 25
      /\ \A s \in 1..25 : OffCmd(5, s, Ps!PowerOffFlows[5][s])
  <2>1. /\ OffCmd(5, 1, Ps!W(Ps!RF_A_3WIRE, Ps!All, {2}))
             /\ OffCmd(5, 2, Ps!W(Ps!RF_B_3WIRE, Ps!All, {2}))
        /\ OffCmd(5, 3, Ps!W(Ps!SYS_FUNC_EN, {0}, {})) /\ OffCmd(5, 8, Ps!P(Ps!APS, {1}, {}))
    BY WriteIs, PollIs DEF Fields, OffCmd, CmdFits, Ps!All
  <2>2. \A c \in {Ps!Pci(Ps!W(Ps!SYS_FUNC_EN, {1}, {})), Ps!W(\h07, Ps!All, {1, 3, 5}),
          Ps!Usb(Ps!W(\h08, {1}, {})),
                  Ps!W(Ps!APS, {1}, {1})}, s \in 4..7 : OffCmd(5, s, c)
    BY WriteIs, UsbIs, PciIs DEF Fields, OffCmd, CmdFits, Ps!All
  <2>3. \A c \in {Ps!W(Ps!CPU_EN, {2}, {}), Ps!W(Ps!MCUFW_CTRL, Ps!All, {0, 2}), Ps!Usb(Ps!W(\h42,
          4..7, {6, 7})),
                  Ps!Pci(Ps!W(\h42, 4..7, {5, 6, 7})), Ps!W(\h43, Ps!All, 0..2), Ps!W(\h45, Ps!All,
                    {}),
                  Ps!W(\h46, Ps!All, Ps!All), Ps!W(\h47, Ps!All, {}), Ps!W(\h14, {7}, {7}),
                    Ps!W(\h15, {0}, {0}),
                  Ps!W(\h12, {0}, {}), Ps!W(\h23, {4}, {4}), Ps!Usb(Ps!W(\h08, {1}, {})),
                  Ps!Usb(Ps!W(\h07, Ps!All, {5})), Ps!Usb(Ps!W(Ps!RF_CTRL, {1}, {})),
                    Ps!Usb(Ps!W(Ps!RF_B_CTRL, {1}, {})),
                  Ps!W(Ps!APS, {3}, {3})}, s \in 9..25 : OffCmd(5, s, c)
    BY WriteIs, UsbIs, PciIs DEF Fields, OffCmd, CmdFits, Ps!All
  <2>4. ASSUME NEW s \in 1..25 PROVE OffCmd(5, s, Ps!CardDisableFlow[s])
    <3>1. CASE s \in {1, 2, 3, 8}
      BY <2>1, <3>1, DisableParts
    <3>2. CASE s \in 4..7
      BY <2>2, <3>2, DisableParts
    <3>3. CASE s \in 9..25
      BY <2>3, <3>3, DisableParts
    <3> QED
      BY <3>1, <3>2, <3>3
  <2> QED
    BY <1>1, <2>4, DisableParts
<1>7. /\ Len(Ps!PowerOffFlows[6]) = 1
      /\ \A s \in 1..1 : OffCmd(6, s, Ps!PowerOffFlows[6][s])
  <2>1. OffCmd(6, 1, [Ps!W(Ps!APS, {7}, {7}) EXCEPT !.cmd = "restore"])
    BY WriteIs, RestoreIs DEF Fields, OffCmd, CmdFits, Ps!All
  <2> QED
    BY <1>1, <2>1
<1> HIDE DEF Ps!APS, Ps!CR, Ps!CPU_EN, Ps!MCUFW_CTRL, Ps!RF_A_3WIRE, Ps!RF_B_3WIRE, Ps!SYS_FUNC_EN,
      Ps!POWER_READY,
             Ps!TXPAUSE, Ps!CR_SEC, Ps!RSV_CTRL, Ps!RF_CTRL, Ps!RF_B_CTRL
<1>8. ASSUME NEW f \in 1..6
      PROVE  /\ Len(Ps!PowerOffFlows[f]) \in Nat \ {0}
             /\ \A s \in 1..Len(Ps!PowerOffFlows[f]) : OffCmd(f, s, Ps!PowerOffFlows[f][s])
  <2> DEFINE Good(n) == /\ Len(Ps!PowerOffFlows[n]) \in Nat \ {0}
                        /\ \A s \in 1..Len(Ps!PowerOffFlows[n]) : OffCmd(n, s, Ps!PowerOffFlows[n][s])
  <2>0. /\ 2 \in Nat \ {0} /\ 12 \in Nat \ {0} /\ 5 \in Nat \ {0} /\ 25 \in Nat \ {0}
        /\ 1 \in Nat \ {0}
    OBVIOUS
  <2>a. Good(1) /\ Good(2) /\ Good(3) /\ Good(4) /\ Good(5) /\ Good(6)
    BY <2>0, <1>2, <1>3, <1>4, <1>5, <1>6, <1>7
  <2>b. f \in {1, 2, 3, 4, 5, 6}
    OBVIOUS
  <2> HIDE DEF Good
  <2>c. Good(f)
    BY <2>a, <2>b
  <2> QED
    BY <2>c DEF Good
<1> QED
  BY <1>1, <1>2, <1>5, <1>6, <1>8


(* What the flows of power_on may do.                                      *)
OnCmd(f, s, c) ==
  /\ CmdFits(c) /\ c.cmd \in {"write", "poll", "try_poll", "if", "err", "err_off"}
  /\ c.cmd = "if" => f = 2 /\ s = 1
  /\ c.cmd = "try_poll" => f = 2 /\ s = 12
  /\ c.cmd = "poll" => f = 3 /\ s \in {13, 17}
  /\ c.cmd = "err" => f = 5
  /\ c.cmd = "err_off" => f \in {6, 9}
  /\ f = 2 => /\ s = 1 => c = Ps!If(Ps!MCUFW_CTRL, {7})
              /\ s = 6 => c = Ps!W(Ps!MCUFW_CTRL, Ps!All, {})
              /\ s = 9 => c = Ps!W(Ps!CR, Ps!All, {})
              /\ s = 12 => c = [Ps!P(Ps!APS, {1}, {}) EXCEPT !.cmd = "try_poll"]
  /\ f = 3 => /\ s = 2 => c = Ps!W(\h14, {7}, {})
              /\ s = 3 => c = Ps!W(\h15, {0}, {})
              /\ s = 4 => c = Ps!W(\h23, {4}, {})
              /\ s = 5 => c = Ps!W(\h46, Ps!All, {})
              /\ s = 6 => c = Ps!W(\h43, Ps!All, {})
              /\ s = 8 => c = Ps!W(Ps!APS, {3}, {})
              /\ s = 12 => c = Ps!W(Ps!APS, {2}, {})
              /\ s = 13 => c = Ps!P(Ps!POWER_READY, {1}, {1})
              /\ s = 17 => c = Ps!P(Ps!APS, {0}, {})
  /\ f = 4 => /\ s = 1 => c = Ps!W(Ps!CR, Ps!All, {})
              /\ s = 3 => c = Ps!W(Ps!CR, 0..5, 0..5)
              /\ s = 4 => c = Ps!W(Ps!CR_SEC, {1, 2}, {1, 2})
  /\ f = 6 => /\ s = 3 => c = Ps!W(Ps!CPU_EN, {2}, {2})
              /\ s = 6 => c = Ps!W(Ps!MCUFW_CTRL, {0, 7}, {7})
  /\ f = 7 /\ s = 2 => c = Ps!W(Ps!CR, {6, 7}, {6, 7})
  /\ f = 8 => /\ s = 2 => c = Ps!W(Ps!SYS_FUNC_EN, {0, 1}, {0, 1})
              /\ s = 3 => c = Ps!W(Ps!RF_CTRL, Ps!All, 0..2)
              /\ s = 4 => c = Ps!W(Ps!RF_B_CTRL, Ps!All, 0..2)
              /\ s = 5 => c = Ps!W(Ps!RF_A_3WIRE, Ps!All, 0..2)
              /\ s = 6 => c = Ps!W(Ps!RF_B_3WIRE, Ps!All, 0..2)
  /\ c.reg = Ps!MCUFW_CTRL => (f = 2 /\ s \in {1, 6}) \/ (f = 6 /\ s \in {4, 6})
  /\ c.reg = Ps!CR => (f = 2 /\ s = 9) \/ (f = 4 /\ s \in {1, 3}) \/ (f = 7 /\ s = 2)
  /\ f >= 3 => /\ c.reg = Ps!CR_SEC => f = 4 /\ s <= 4
               /\ c.reg = \h14 => f = 3 /\ s = 2
               /\ c.reg = \h15 => f = 3 /\ s = 3
               /\ c.reg = \h23 => f = 3 /\ s = 4
               /\ c.reg = \h46 => f = 3 /\ s = 5
               /\ c.reg = \h43 => f = 3 /\ s = 6
               /\ c.reg = Ps!APS => f = 3 /\ 2 \notin c.value /\ 3 \notin c.value
  /\ f >= 6 => (c.reg = Ps!CPU_EN => f = 6 /\ s <= 3)
  /\ f >= 8 => /\ c.reg = Ps!SYS_FUNC_EN => f = 8 /\ s <= 2
               /\ c.reg = Ps!RF_CTRL => f = 8 /\ s = 3
               /\ c.reg = Ps!RF_B_CTRL => f = 8 /\ s = 4
               /\ c.reg = Ps!RF_A_3WIRE => f = 8 /\ s = 5
               /\ c.reg = Ps!RF_B_3WIRE => f = 8 /\ s = 6

LEMMA OnCmds ==
  /\ Len(Ps!PowerOnFlows) = 9 /\ Len(Ps!PowerOnFlows[2]) = 15 /\ Len(Ps!PowerOnFlows[3]) = 19
  /\ Len(Ps!PowerOnFlows[4]) = 4 /\ Len(Ps!PowerOnFlows[6]) = 7 /\ Len(Ps!PowerOnFlows[7]) = 2
  /\ Len(Ps!PowerOnFlows[8]) = 6
  /\ \A f \in 1..9 : /\ Len(Ps!PowerOnFlows[f]) \in Nat \ {0}
                     /\ \A s \in 1..Len(Ps!PowerOnFlows[f]) : OnCmd(f, s, Ps!PowerOnFlows[f][s])
<1> USE DEF Ps!APS, Ps!CR, Ps!CPU_EN, Ps!MCUFW_CTRL, Ps!RF_A_3WIRE, Ps!RF_B_3WIRE, Ps!SYS_FUNC_EN,
      Ps!POWER_READY,
            Ps!TXPAUSE, Ps!CR_SEC, Ps!RSV_CTRL, Ps!RF_CTRL, Ps!RF_B_CTRL
<1>1. /\ Len(Ps!PowerOnFlows) = 9 /\ Ps!PowerOnFlows[1] = Ps!RfReset
           /\ Ps!PowerOnFlows[2] = Ps!HwReset
      /\ Ps!PowerOnFlows[3] = Ps!CardEnableFlow /\ Ps!PowerOnFlows[4] = Ps!InitPowerOn
      /\ Ps!PowerOnFlows[5] = <<Ps!Try("err"), Ps!Try("err")>>
           /\ Ps!PowerOnFlows[6] = Ps!DownloadFirmware("err_off")
      /\ Ps!PowerOnFlows[7] = Ps!MacConfig /\ Ps!PowerOnFlows[8] = Ps!PhyBbConfig
      /\ Ps!PowerOnFlows[9] = <<Ps!Try("err_off")>>
  BY DEF Ps!PowerOnFlows
<1>2. /\ Len(Ps!PowerOnFlows[1]) = 4
      /\ \A s \in 1..4 : OnCmd(1, s, Ps!PowerOnFlows[1][s])
  <2>1. /\ Len(Ps!RfReset) = 4
        /\ Ps!RfReset[1] = Ps!W(Ps!RF_CTRL, Ps!All, {0, 2})
        /\ Ps!RfReset[2] = Ps!W(Ps!RF_CTRL, Ps!All, 0..2)
        /\ Ps!RfReset[3] = Ps!W(Ps!RF_B_CTRL, Ps!All, {0, 2})
        /\ Ps!RfReset[4] = Ps!W(Ps!RF_B_CTRL, Ps!All, 0..2)
    BY DEF Ps!RfReset
  <2>2. /\ OnCmd(1, 1, Ps!W(Ps!RF_CTRL, Ps!All, {0, 2}))
        /\ OnCmd(1, 2, Ps!W(Ps!RF_CTRL, Ps!All, 0..2))
        /\ OnCmd(1, 3, Ps!W(Ps!RF_B_CTRL, Ps!All, {0, 2}))
        /\ OnCmd(1, 4, Ps!W(Ps!RF_B_CTRL, Ps!All, 0..2))
    BY WriteIs DEF Fields, OnCmd, CmdFits, Ps!All
  <2>3. ASSUME NEW s \in 1..4 PROVE OnCmd(1, s, Ps!RfReset[s])
    <3>1. s \in {1, 2, 3, 4}
      OBVIOUS
    <3> QED
      BY <2>1, <2>2, <3>1
  <2> QED
    BY <1>1, <2>1, <2>3
<1>3. /\ Len(Ps!PowerOnFlows[2]) = 15
      /\ \A s \in 1..15 : OnCmd(2, s, Ps!PowerOnFlows[2][s])
  <2>1. /\ OnCmd(2, 1, Ps!If(Ps!MCUFW_CTRL, {7})) /\ OnCmd(2, 6, Ps!W(Ps!MCUFW_CTRL, Ps!All, {}))
        /\ OnCmd(2, 9, Ps!W(Ps!CR, Ps!All, {}))
        /\ OnCmd(2, 12, [Ps!P(Ps!APS, {1}, {}) EXCEPT !.cmd = "try_poll"])
    BY WriteIs, IfIs, TryPollIs DEF Fields, OnCmd, CmdFits, Ps!All
  <2>2. \A c \in {Ps!W(Ps!RSV_CTRL, {1}, {}), Ps!W(Ps!CPU_EN, {2}, {}), Ps!W(Ps!CPU_EN, {2}, {2}),
                  Ps!W(Ps!SYS_FUNC_EN, {0, 1}, {}), Ps!W(Ps!RF_CTRL, Ps!All, {}), Ps!W(Ps!CR_SEC,
                    Ps!All, {}),
                  Ps!W(Ps!APS, {1}, {1}), Ps!W(Ps!APS, {0}, {0}), Ps!W(Ps!CPU_EN, {4, 7}, {}),
                  Ps!W(Ps!CPU_EN, {4, 7}, {4, 7})}, s \in (2..15) \ {6, 9, 12} : OnCmd(2, s, c)
    BY WriteIs DEF Fields, OnCmd, CmdFits, Ps!All
  <2>3. ASSUME NEW s \in 1..15 PROVE OnCmd(2, s, Ps!HwReset[s])
    <3>1. CASE s \in {1, 6, 9, 12}
      BY <2>1, <3>1, ResetParts
    <3>2. CASE s \in (2..15) \ {6, 9, 12}
      BY <2>2, <3>2, ResetParts
    <3> QED
      BY <3>1, <3>2
  <2> QED
    BY <1>1, <2>3, ResetParts
<1>4. /\ Len(Ps!PowerOnFlows[3]) = 19
      /\ \A s \in 1..19 : OnCmd(3, s, Ps!PowerOnFlows[3][s])
  <2>1. /\ OnCmd(3, 2, Ps!W(\h14, {7}, {})) /\ OnCmd(3, 3, Ps!W(\h15, {0}, {}))
        /\ OnCmd(3, 4, Ps!W(\h23, {4}, {})) /\ OnCmd(3, 5, Ps!W(\h46, Ps!All, {}))
        /\ OnCmd(3, 6, Ps!W(\h43, Ps!All, {})) /\ OnCmd(3, 8, Ps!W(Ps!APS, {3}, {}))
        /\ OnCmd(3, 12, Ps!W(Ps!APS, {2}, {})) /\ OnCmd(3, 13, Ps!P(Ps!POWER_READY, {1}, {1}))
        /\ OnCmd(3, 17, Ps!P(Ps!APS, {0}, {}))
    BY WriteIs, PollIs DEF Fields, OnCmd, CmdFits, Ps!All
  <2>2. \A c \in {Ps!W(\h12, {0}, {0}), Ps!Pci(Ps!W(Ps!APS, {2}, {}))}, s \in {1, 7} : OnCmd(3, s, c)
    BY WriteIs, PciIs DEF Fields, OnCmd, CmdFits, Ps!All
  <2>3. \A c \in {Ps!W(Ps!CPU_EN, {2}, {2}), Ps!Usb(Ps!W(\h24, {1}, {1})), Ps!Usb(Ps!W(\h28, {3},
          {3})),
                  Ps!Pci(Ps!W(Ps!APS, {7}, {})), Ps!W(Ps!APS, {3}, {}), Ps!W(Ps!APS, {0}, {0}),
                  Ps!Usb(Ps!W(\h24, {1}, {})), Ps!Usb(Ps!W(\h28, {3}, {}))},
           s \in (9..19) \ {12, 13, 17} : OnCmd(3, s, c)
    BY WriteIs, PciIs, UsbIs DEF Fields, OnCmd, CmdFits, Ps!All
  <2>4. ASSUME NEW s \in 1..19 PROVE OnCmd(3, s, Ps!CardEnableFlow[s])
    <3>1. CASE s \in {2, 3, 4, 5, 6, 8, 12, 13, 17}
      BY <2>1, <3>1, EnableParts
    <3>2. CASE s \in {1, 7}
      BY <2>2, <3>2, EnableParts
    <3>3. CASE s \in (9..19) \ {12, 13, 17}
      BY <2>3, <3>3, EnableParts
    <3> QED
      BY <3>1, <3>2, <3>3
  <2> QED
    BY <1>1, <2>4, EnableParts
<1>5. /\ Len(Ps!PowerOnFlows[4]) = 4
      /\ \A s \in 1..4 : OnCmd(4, s, Ps!PowerOnFlows[4][s])
  <2>1. /\ Len(Ps!InitPowerOn) = 4
        /\ Ps!InitPowerOn[1] = Ps!W(Ps!CR, Ps!All, {})
        /\ Ps!InitPowerOn[2] = Ps!W(Ps!CR_SEC, Ps!All, {})
        /\ Ps!InitPowerOn[3] = Ps!W(Ps!CR, 0..5, 0..5)
        /\ Ps!InitPowerOn[4] = Ps!W(Ps!CR_SEC, {1, 2}, {1, 2})
    BY DEF Ps!InitPowerOn
  <2>2. /\ OnCmd(4, 1, Ps!W(Ps!CR, Ps!All, {}))
        /\ OnCmd(4, 2, Ps!W(Ps!CR_SEC, Ps!All, {}))
        /\ OnCmd(4, 3, Ps!W(Ps!CR, 0..5, 0..5))
        /\ OnCmd(4, 4, Ps!W(Ps!CR_SEC, {1, 2}, {1, 2}))
    BY WriteIs DEF Fields, OnCmd, CmdFits, Ps!All
  <2>3. ASSUME NEW s \in 1..4 PROVE OnCmd(4, s, Ps!InitPowerOn[s])
    <3>1. s \in {1, 2, 3, 4}
      OBVIOUS
    <3> QED
      BY <2>1, <2>2, <3>1
  <2> QED
    BY <1>1, <2>1, <2>3
<1>6. /\ Len(Ps!PowerOnFlows[5]) = 2
      /\ \A s \in 1..2 : OnCmd(5, s, Ps!PowerOnFlows[5][s])
  <2>1. /\ Len(Ps!PowerOnFlows[5]) = 2
        /\ Ps!PowerOnFlows[5][1] = Ps!Try("err")
        /\ Ps!PowerOnFlows[5][2] = Ps!Try("err")
    BY <1>1
  <2>2. /\ OnCmd(5, 1, Ps!Try("err"))
        /\ OnCmd(5, 2, Ps!Try("err"))
    BY TryIs DEF Fields, OnCmd, CmdFits, Ps!All
  <2>3. ASSUME NEW s \in 1..2 PROVE OnCmd(5, s, Ps!PowerOnFlows[5][s])
    <3>1. s \in {1, 2}
      OBVIOUS
    <3> QED
      BY <2>1, <2>2, <3>1
  <2> QED
    BY <1>1, <2>1, <2>3
<1>7. /\ Len(Ps!PowerOnFlows[6]) = 7
      /\ \A s \in 1..7 : OnCmd(6, s, Ps!PowerOnFlows[6][s])
  <2>1. /\ Len(Ps!DownloadFirmware("err_off")) = 7
        /\ Ps!DownloadFirmware("err_off")[1] = Ps!Try("err_off")
        /\ Ps!DownloadFirmware("err_off")[2] = Ps!W(Ps!CPU_EN, {2}, {})
        /\ Ps!DownloadFirmware("err_off")[3] = Ps!W(Ps!CPU_EN, {2}, {2})
        /\ Ps!DownloadFirmware("err_off")[4] = Ps!W(Ps!MCUFW_CTRL, {0}, {0})
        /\ Ps!DownloadFirmware("err_off")[5] = Ps!Try("err_off")
        /\ Ps!DownloadFirmware("err_off")[6] = Ps!W(Ps!MCUFW_CTRL, {0, 7}, {7})
        /\ Ps!DownloadFirmware("err_off")[7] = Ps!Try("err_off")
    BY DEF Ps!DownloadFirmware
  <2>2. /\ OnCmd(6, 1, Ps!Try("err_off"))
        /\ OnCmd(6, 2, Ps!W(Ps!CPU_EN, {2}, {}))
        /\ OnCmd(6, 3, Ps!W(Ps!CPU_EN, {2}, {2}))
        /\ OnCmd(6, 4, Ps!W(Ps!MCUFW_CTRL, {0}, {0}))
    BY WriteIs, TryIs DEF Fields, OnCmd, CmdFits, Ps!All
  <2>3. /\ OnCmd(6, 5, Ps!Try("err_off"))
        /\ OnCmd(6, 6, Ps!W(Ps!MCUFW_CTRL, {0, 7}, {7}))
        /\ OnCmd(6, 7, Ps!Try("err_off"))
    BY WriteIs, TryIs DEF Fields, OnCmd, CmdFits, Ps!All
  <2>4. ASSUME NEW s \in 1..7 PROVE OnCmd(6, s, Ps!DownloadFirmware("err_off")[s])
    <3>1. s \in {1, 2, 3, 4, 5, 6, 7}
      OBVIOUS
    <3> QED
      BY <2>1, <2>2, <2>3, <3>1
  <2> QED
    BY <1>1, <2>1, <2>4
<1>8. /\ Len(Ps!PowerOnFlows[7]) = 2
      /\ \A s \in 1..2 : OnCmd(7, s, Ps!PowerOnFlows[7][s])
  <2>1. /\ Len(Ps!MacConfig) = 2
        /\ Ps!MacConfig[1] = Ps!W(Ps!RSV_CTRL, {5, 6}, {5, 6})
        /\ Ps!MacConfig[2] = Ps!W(Ps!CR, {6, 7}, {6, 7})
    BY DEF Ps!MacConfig
  <2>2. /\ OnCmd(7, 1, Ps!W(Ps!RSV_CTRL, {5, 6}, {5, 6}))
        /\ OnCmd(7, 2, Ps!W(Ps!CR, {6, 7}, {6, 7}))
    BY WriteIs DEF Fields, OnCmd, CmdFits, Ps!All
  <2>3. ASSUME NEW s \in 1..2 PROVE OnCmd(7, s, Ps!MacConfig[s])
    <3>1. s \in {1, 2}
      OBVIOUS
    <3> QED
      BY <2>1, <2>2, <3>1
  <2> QED
    BY <1>1, <2>1, <2>3
<1>9. /\ Len(Ps!PowerOnFlows[8]) = 6
      /\ \A s \in 1..6 : OnCmd(8, s, Ps!PowerOnFlows[8][s])
  <2>1. /\ Len(Ps!PhyBbConfig) = 6
        /\ Ps!PhyBbConfig[1] = Ps!W(Ps!SYS_FUNC_EN, {2}, {2})
        /\ Ps!PhyBbConfig[2] = Ps!W(Ps!SYS_FUNC_EN, {0, 1}, {0, 1})
        /\ Ps!PhyBbConfig[3] = Ps!W(Ps!RF_CTRL, Ps!All, 0..2)
        /\ Ps!PhyBbConfig[4] = Ps!W(Ps!RF_B_CTRL, Ps!All, 0..2)
        /\ Ps!PhyBbConfig[5] = Ps!W(Ps!RF_A_3WIRE, Ps!All, 0..2)
        /\ Ps!PhyBbConfig[6] = Ps!W(Ps!RF_B_3WIRE, Ps!All, 0..2)
    BY DEF Ps!PhyBbConfig
  <2>2. /\ OnCmd(8, 1, Ps!W(Ps!SYS_FUNC_EN, {2}, {2}))
        /\ OnCmd(8, 2, Ps!W(Ps!SYS_FUNC_EN, {0, 1}, {0, 1}))
        /\ OnCmd(8, 3, Ps!W(Ps!RF_CTRL, Ps!All, 0..2))
        /\ OnCmd(8, 4, Ps!W(Ps!RF_B_CTRL, Ps!All, 0..2))
    BY WriteIs DEF Fields, OnCmd, CmdFits, Ps!All
  <2>3. /\ OnCmd(8, 5, Ps!W(Ps!RF_A_3WIRE, Ps!All, 0..2))
        /\ OnCmd(8, 6, Ps!W(Ps!RF_B_3WIRE, Ps!All, 0..2))
    BY WriteIs DEF Fields, OnCmd, CmdFits, Ps!All
  <2>4. ASSUME NEW s \in 1..6 PROVE OnCmd(8, s, Ps!PhyBbConfig[s])
    <3>1. s \in {1, 2, 3, 4, 5, 6}
      OBVIOUS
    <3> QED
      BY <2>1, <2>2, <2>3, <3>1
  <2> QED
    BY <1>1, <2>1, <2>4
<1>10. /\ Len(Ps!PowerOnFlows[9]) = 1
      /\ \A s \in 1..1 : OnCmd(9, s, Ps!PowerOnFlows[9][s])
  <2>1. /\ Len(Ps!PowerOnFlows[9]) = 1
        /\ Ps!PowerOnFlows[9][1] = Ps!Try("err_off")
    BY <1>1
  <2>2. OnCmd(9, 1, Ps!Try("err_off"))
    BY TryIs DEF Fields, OnCmd, CmdFits, Ps!All
  <2>3. ASSUME NEW s \in 1..1 PROVE OnCmd(9, s, Ps!PowerOnFlows[9][s])
    <3>1. s \in {1}
      OBVIOUS
    <3> QED
      BY <2>1, <2>2, <3>1
  <2> QED
    BY <1>1, <2>1, <2>3
<1> HIDE DEF Ps!APS, Ps!CR, Ps!CPU_EN, Ps!MCUFW_CTRL, Ps!RF_A_3WIRE, Ps!RF_B_3WIRE, Ps!SYS_FUNC_EN,
      Ps!POWER_READY,
            Ps!TXPAUSE, Ps!CR_SEC, Ps!RSV_CTRL, Ps!RF_CTRL, Ps!RF_B_CTRL
<1>11. ASSUME NEW f \in 1..9
      PROVE  /\ Len(Ps!PowerOnFlows[f]) \in Nat \ {0}
             /\ \A s \in 1..Len(Ps!PowerOnFlows[f]) : OnCmd(f, s, Ps!PowerOnFlows[f][s])
  <2> DEFINE Good(n) == /\ Len(Ps!PowerOnFlows[n]) \in Nat \ {0}
                        /\ \A s \in 1..Len(Ps!PowerOnFlows[n]) : OnCmd(n, s, Ps!PowerOnFlows[n][s])
  <2>1. \A n \in {1, 2, 4, 6, 7, 15, 19} : n \in Nat \ {0}
    OBVIOUS
  <2>2. Good(1) /\ Good(2) /\ Good(3) /\ Good(4) /\ Good(5) /\ Good(6) /\ Good(7) /\ Good(8)
          /\ Good(9)
    BY <2>1, <1>2, <1>3, <1>4, <1>5, <1>6, <1>7, <1>8, <1>9, <1>10
  <2>3. f \in {1, 2, 3, 4, 5, 6, 7, 8, 9}
    OBVIOUS
  <2> HIDE DEF Good
  <2>4. Good(f)
    BY <2>2, <2>3
  <2> QED
    BY <2>4 DEF Good
<1> QED
  BY <1>1, <1>3, <1>4, <1>5, <1>7, <1>8, <1>9, <1>11

(* A switch-off by rtw_mac_power_switch, which ends a probe and is in it.  *)
OffSwitchCmd(s, c) ==
  /\ CmdFits(c) /\ c.cmd \in {"write", "poll", "if_on"}
  /\ c.cmd = "if_on" => s = 1
  /\ c.cmd = "poll" => s = 9
  /\ s = 9 => c = Ps!P(Ps!APS, {1}, {})
  /\ c.reg # Ps!CR
  /\ c.reg = Ps!MCUFW_CTRL => s > 9

LEMMA SwitchOffCmds ==
  Len(Ps!SwitchOff) = 26 /\ \A s \in 1..26 : OffSwitchCmd(s, Ps!SwitchOff[s])
<1> USE DEF Ps!APS, Ps!CR, Ps!CPU_EN, Ps!MCUFW_CTRL, Ps!RF_A_3WIRE, Ps!RF_B_3WIRE, Ps!SYS_FUNC_EN,
      Ps!POWER_READY,
            Ps!TXPAUSE, Ps!CR_SEC, Ps!RSV_CTRL, Ps!RF_CTRL, Ps!RF_B_CTRL
<1>1. /\ Len(Ps!SwitchOff) = 26 /\ Ps!SwitchOff[1] = Ps!Try("if_on")
      /\ \A s \in 2..26 : Ps!SwitchOff[s] = Ps!CardDisableFlow[s - 1]
  <2>1. /\ \A i \in 1..8 : Ps!CardDisableFlow[i] = Ps!ActToCardemu[i]
        /\ \A i \in 9..25 : Ps!CardDisableFlow[i] = Ps!CardemuToCarddis[i - 8]
    BY DEF Ps!CardDisableFlow, Ps!CardemuToCarddis, Ps!ActToCardemu
  <2>2. \A s \in 2..9 : Ps!SwitchOff[s] = Ps!ActToCardemu[s - 1]
    BY DEF Ps!SwitchOff, Ps!CardDisableFlow, Ps!CardemuToCarddis, Ps!ActToCardemu
  <2>3. \A s \in 10..26 : Ps!SwitchOff[s] = Ps!CardemuToCarddis[s - 9]
    BY DEF Ps!SwitchOff, Ps!CardDisableFlow, Ps!CardemuToCarddis, Ps!ActToCardemu
  <2>4. Len(Ps!SwitchOff) = 26 /\ Ps!SwitchOff[1] = Ps!Try("if_on")
    BY DEF Ps!SwitchOff, Ps!CardDisableFlow, Ps!CardemuToCarddis, Ps!ActToCardemu
  <2> QED
    BY <2>1, <2>2, <2>3, <2>4
<1>2. OffSwitchCmd(1, Ps!Try("if_on"))
  BY TryIs DEF Fields, OffSwitchCmd, CmdFits, Ps!All
<1>3. /\ OffSwitchCmd(2, Ps!W(Ps!RF_A_3WIRE, Ps!All, {2}))
           /\ OffSwitchCmd(3, Ps!W(Ps!RF_B_3WIRE, Ps!All, {2}))
      /\ OffSwitchCmd(4, Ps!W(Ps!SYS_FUNC_EN, {0}, {})) /\ OffSwitchCmd(9, Ps!P(Ps!APS, {1}, {}))
  BY WriteIs, PollIs DEF Fields, OffSwitchCmd, CmdFits, Ps!All
<1>4. \A c \in {Ps!Pci(Ps!W(Ps!SYS_FUNC_EN, {1}, {})), Ps!W(\h07, Ps!All, {1, 3, 5}),
        Ps!Usb(Ps!W(\h08, {1}, {})),
                Ps!W(Ps!APS, {1}, {1})}, s \in 5..8 : OffSwitchCmd(s, c)
  BY WriteIs, UsbIs, PciIs DEF Fields, OffSwitchCmd, CmdFits, Ps!All
<1>5. \A c \in {Ps!W(Ps!CPU_EN, {2}, {}), Ps!W(Ps!MCUFW_CTRL, Ps!All, {0, 2}), Ps!Usb(Ps!W(\h42,
        4..7, {6, 7})),
                Ps!Pci(Ps!W(\h42, 4..7, {5, 6, 7})), Ps!W(\h43, Ps!All, 0..2), Ps!W(\h45, Ps!All, {}),
                Ps!W(\h46, Ps!All, Ps!All), Ps!W(\h47, Ps!All, {}), Ps!W(\h14, {7}, {7}), Ps!W(\h15,
                  {0}, {0}),
                Ps!W(\h12, {0}, {}), Ps!W(\h23, {4}, {4}), Ps!Usb(Ps!W(\h08, {1}, {})),
                Ps!Usb(Ps!W(\h07, Ps!All, {5})), Ps!Usb(Ps!W(Ps!RF_CTRL, {1}, {})),
                  Ps!Usb(Ps!W(Ps!RF_B_CTRL, {1}, {})),
                Ps!W(Ps!APS, {3}, {3})}, s \in 10..26 : OffSwitchCmd(s, c)
  BY WriteIs, UsbIs, PciIs DEF Fields, OffSwitchCmd, CmdFits, Ps!All
<1>6. ASSUME NEW s \in 1..26 PROVE OffSwitchCmd(s, Ps!SwitchOff[s])
  <2>1. CASE s = 1
    BY <1>1, <1>2, <2>1
  <2>2. CASE s \in {2, 3, 4, 9}
    BY <1>1, <1>3, <2>2, DisableParts
  <2>3. CASE s \in 5..8
    BY <1>1, <1>4, <2>3, DisableParts
  <2>4. CASE s \in 10..26
    BY <1>1, <1>5, <2>4, DisableParts
  <2> QED
    BY <2>1, <2>2, <2>3, <2>4
<1> QED
  BY <1>1, <1>6

(* The probe.                                                              *)
ProbeCmd(f, s, c) ==
  /\ CmdFits(c) /\ c.cmd \in {"write", "poll", "if_on", "unless_on", "err", "err_off"}
  /\ c.cmd = "if_on" => f = 2 /\ s = 1
  /\ c.cmd = "unless_on" => f = 4 /\ s = 1
  /\ c.cmd = "err_off" => f = 6
  /\ c.cmd = "poll" => (f = 2 /\ s = 9) \/ (f = 4 /\ s \in {14, 18})
  /\ f = 2 /\ s = 9 => c = Ps!P(Ps!APS, {1}, {})
  /\ f = 4 => /\ s = 1 => c = Ps!Try("unless_on")
              /\ s = 9 => c = Ps!W(Ps!APS, {3}, {})
              /\ s = 14 => c = Ps!P(Ps!POWER_READY, {1}, {1})
              /\ s = 18 => c = Ps!P(Ps!APS, {0}, {})
              /\ s > 9 => (c.reg = Ps!APS => 3 \notin c.value)
  /\ f > 4 => c.reg # Ps!APS
  /\ f = 6 => /\ s = 6 => c = Ps!W(Ps!MCUFW_CTRL, {0, 7}, {7})
              /\ c.reg = Ps!MCUFW_CTRL => s <= 6

LEMMA ProbeCmds ==
  /\ Len(Ps!ProbeFlows) = 6 /\ Len(Ps!ProbeFlows[2]) = 26 /\ Len(Ps!ProbeFlows[4]) = 20
  /\ Len(Ps!ProbeFlows[6]) = 7
  /\ \A f \in 1..6 : /\ Len(Ps!ProbeFlows[f]) \in Nat \ {0}
                     /\ \A s \in 1..Len(Ps!ProbeFlows[f]) : ProbeCmd(f, s, Ps!ProbeFlows[f][s])
<1> USE DEF Ps!APS, Ps!CR, Ps!CPU_EN, Ps!MCUFW_CTRL, Ps!RF_A_3WIRE, Ps!RF_B_3WIRE, Ps!SYS_FUNC_EN,
      Ps!POWER_READY,
            Ps!TXPAUSE, Ps!CR_SEC, Ps!RSV_CTRL, Ps!RF_CTRL, Ps!RF_B_CTRL
<1>1. /\ Len(Ps!ProbeFlows) = 6 /\ Ps!ProbeFlows[1] = Ps!PreSystemCfg
           /\ Ps!ProbeFlows[2] = Ps!SwitchOff
      /\ Ps!ProbeFlows[3] = Ps!PreSystemCfg /\ Ps!ProbeFlows[4] = Ps!SwitchOn
      /\ Ps!ProbeFlows[5] = Ps!InitSystemCfg /\ Ps!ProbeFlows[6] = Ps!DownloadFirmware("err")
  BY DEF Ps!ProbeFlows
<1>2. /\ Len(Ps!ProbeFlows[1]) = 1
      /\ \A s \in 1..1 : ProbeCmd(1, s, Ps!ProbeFlows[1][s])
  <2>1. /\ Len(Ps!PreSystemCfg) = 1
        /\ Ps!PreSystemCfg[1] = Ps!W(Ps!RSV_CTRL, Ps!All, {})
    BY DEF Ps!PreSystemCfg
  <2>2. ProbeCmd(1, 1, Ps!W(Ps!RSV_CTRL, Ps!All, {}))
    BY WriteIs DEF Fields, ProbeCmd, CmdFits, Ps!All
  <2>3. ASSUME NEW s \in 1..1 PROVE ProbeCmd(1, s, Ps!PreSystemCfg[s])
    <3>1. s \in {1}
      OBVIOUS
    <3> QED
      BY <2>1, <2>2, <3>1
  <2> QED
    BY <1>1, <2>1, <2>3
<1>3. /\ Len(Ps!ProbeFlows[2]) = 26
      /\ \A s \in 1..26 : ProbeCmd(2, s, Ps!ProbeFlows[2][s])
  <2>1. ASSUME NEW s \in 1..26, NEW c, OffSwitchCmd(s, c) PROVE ProbeCmd(2, s, c)
    BY <2>1 DEF OffSwitchCmd, ProbeCmd
  <2> QED
    BY <1>1, <2>1, SwitchOffCmds
<1>4. /\ Len(Ps!ProbeFlows[3]) = 1
      /\ \A s \in 1..1 : ProbeCmd(3, s, Ps!ProbeFlows[3][s])
  <2>1. /\ Len(Ps!PreSystemCfg) = 1
        /\ Ps!PreSystemCfg[1] = Ps!W(Ps!RSV_CTRL, Ps!All, {})
    BY DEF Ps!PreSystemCfg
  <2>2. ProbeCmd(3, 1, Ps!W(Ps!RSV_CTRL, Ps!All, {}))
    BY WriteIs DEF Fields, ProbeCmd, CmdFits, Ps!All
  <2>3. ASSUME NEW s \in 1..1 PROVE ProbeCmd(3, s, Ps!PreSystemCfg[s])
    <3>1. s \in {1}
      OBVIOUS
    <3> QED
      BY <2>1, <2>2, <3>1
  <2> QED
    BY <1>1, <2>1, <2>3
<1>5. /\ Len(Ps!ProbeFlows[4]) = 20
      /\ \A s \in 1..20 : ProbeCmd(4, s, Ps!ProbeFlows[4][s])
  <2>1. /\ Len(Ps!SwitchOn) = 20 /\ Ps!SwitchOn[1] = Ps!Try("unless_on")
        /\ \A s \in 2..20 : Ps!SwitchOn[s] = Ps!CardEnableFlow[s - 1]
    <3>1. /\ \A i \in 1..11 : Ps!CardEnableFlow[i] = Ps!CarddisToCardemu[i]
          /\ \A i \in 12..19 : Ps!CardEnableFlow[i] = Ps!CardemuToAct[i - 11]
      BY DEF Ps!CardEnableFlow, Ps!CarddisToCardemu, Ps!CardemuToAct
    <3>2. \A s \in 2..12 : Ps!SwitchOn[s] = Ps!CarddisToCardemu[s - 1]
      BY DEF Ps!SwitchOn, Ps!CardEnableFlow, Ps!CarddisToCardemu, Ps!CardemuToAct
    <3>3. \A s \in 13..20 : Ps!SwitchOn[s] = Ps!CardemuToAct[s - 12]
      BY DEF Ps!SwitchOn, Ps!CardEnableFlow, Ps!CarddisToCardemu, Ps!CardemuToAct
    <3>4. Len(Ps!SwitchOn) = 20 /\ Ps!SwitchOn[1] = Ps!Try("unless_on")
      BY DEF Ps!SwitchOn, Ps!CardEnableFlow, Ps!CarddisToCardemu, Ps!CardemuToAct
    <3> QED
      BY <3>1, <3>2, <3>3, <3>4
  <2>2. /\ ProbeCmd(4, 1, Ps!Try("unless_on")) /\ ProbeCmd(4, 9, Ps!W(Ps!APS, {3}, {}))
        /\ ProbeCmd(4, 14, Ps!P(Ps!POWER_READY, {1}, {1})) /\ ProbeCmd(4, 18, Ps!P(Ps!APS, {0}, {}))
        /\ ProbeCmd(4, 13, Ps!W(Ps!APS, {2}, {}))
    BY WriteIs, PollIs, TryIs DEF Fields, ProbeCmd, CmdFits, Ps!All
  <2>3. /\ ProbeCmd(4, 3, Ps!W(\h14, {7}, {})) /\ ProbeCmd(4, 4, Ps!W(\h15, {0}, {}))
        /\ ProbeCmd(4, 5, Ps!W(\h23, {4}, {})) /\ ProbeCmd(4, 6, Ps!W(\h46, Ps!All, {}))
        /\ ProbeCmd(4, 7, Ps!W(\h43, Ps!All, {}))
    BY WriteIs DEF Fields, ProbeCmd, CmdFits, Ps!All
  <2>4. \A c \in {Ps!W(\h12, {0}, {0}), Ps!Pci(Ps!W(Ps!APS, {2}, {}))}, s \in {2, 8} : ProbeCmd(4, s,
          c)
    BY WriteIs, PciIs DEF Fields, ProbeCmd, CmdFits, Ps!All
  <2>5. \A c \in {Ps!W(Ps!CPU_EN, {2}, {2}), Ps!Usb(Ps!W(\h24, {1}, {1})), Ps!Usb(Ps!W(\h28, {3},
          {3})),
                  Ps!Pci(Ps!W(Ps!APS, {7}, {})), Ps!W(Ps!APS, {3}, {}), Ps!W(Ps!APS, {0}, {0}),
                  Ps!Usb(Ps!W(\h24, {1}, {})), Ps!Usb(Ps!W(\h28, {3}, {}))},
           s \in (10..20) \ {13, 14, 18} : ProbeCmd(4, s, c)
    BY WriteIs, PciIs, UsbIs DEF Fields, ProbeCmd, CmdFits, Ps!All
  <2>6. ASSUME NEW s \in 1..20 PROVE ProbeCmd(4, s, Ps!SwitchOn[s])
    <3>1. CASE s = 1
      BY <2>1, <2>2, <3>1
    <3>2. CASE s \in {9, 13, 14, 18}
      BY <2>1, <2>2, <3>2, EnableParts
    <3>3. CASE s \in {3, 4, 5, 6, 7}
      BY <2>1, <2>3, <3>3, EnableParts
    <3>4. CASE s \in {2, 8}
      BY <2>1, <2>4, <3>4, EnableParts
    <3>5. CASE s \in (10..20) \ {13, 14, 18}
      BY <2>1, <2>5, <3>5, EnableParts
    <3> QED
      BY <3>1, <3>2, <3>3, <3>4, <3>5
  <2> QED
    BY <1>1, <2>1, <2>6
<1>6. /\ Len(Ps!ProbeFlows[5]) = 2
      /\ \A s \in 1..2 : ProbeCmd(5, s, Ps!ProbeFlows[5][s])
  <2>1. /\ Len(Ps!InitSystemCfg) = 2
        /\ Ps!InitSystemCfg[1] = Ps!W(Ps!CR, Ps!All, Ps!All)
        /\ Ps!InitSystemCfg[2] = Ps!W(Ps!CR_SEC, Ps!All, {1})
    BY DEF Ps!InitSystemCfg
  <2>2. /\ ProbeCmd(5, 1, Ps!W(Ps!CR, Ps!All, Ps!All))
        /\ ProbeCmd(5, 2, Ps!W(Ps!CR_SEC, Ps!All, {1}))
    BY WriteIs DEF Fields, ProbeCmd, CmdFits, Ps!All
  <2>3. ASSUME NEW s \in 1..2 PROVE ProbeCmd(5, s, Ps!InitSystemCfg[s])
    <3>1. s \in {1, 2}
      OBVIOUS
    <3> QED
      BY <2>1, <2>2, <3>1
  <2> QED
    BY <1>1, <2>1, <2>3
<1>7. /\ Len(Ps!ProbeFlows[6]) = 7
      /\ \A s \in 1..7 : ProbeCmd(6, s, Ps!ProbeFlows[6][s])
  <2>1. /\ Len(Ps!DownloadFirmware("err")) = 7
        /\ Ps!DownloadFirmware("err")[1] = Ps!Try("err")
        /\ Ps!DownloadFirmware("err")[2] = Ps!W(Ps!CPU_EN, {2}, {})
        /\ Ps!DownloadFirmware("err")[3] = Ps!W(Ps!CPU_EN, {2}, {2})
        /\ Ps!DownloadFirmware("err")[4] = Ps!W(Ps!MCUFW_CTRL, {0}, {0})
        /\ Ps!DownloadFirmware("err")[5] = Ps!Try("err_off")
        /\ Ps!DownloadFirmware("err")[6] = Ps!W(Ps!MCUFW_CTRL, {0, 7}, {7})
        /\ Ps!DownloadFirmware("err")[7] = Ps!Try("err_off")
    BY DEF Ps!DownloadFirmware
  <2>2. /\ ProbeCmd(6, 1, Ps!Try("err"))
        /\ ProbeCmd(6, 2, Ps!W(Ps!CPU_EN, {2}, {}))
        /\ ProbeCmd(6, 3, Ps!W(Ps!CPU_EN, {2}, {2}))
        /\ ProbeCmd(6, 4, Ps!W(Ps!MCUFW_CTRL, {0}, {0}))
    BY WriteIs, TryIs DEF Fields, ProbeCmd, CmdFits, Ps!All
  <2>3. /\ ProbeCmd(6, 5, Ps!Try("err_off"))
        /\ ProbeCmd(6, 6, Ps!W(Ps!MCUFW_CTRL, {0, 7}, {7}))
        /\ ProbeCmd(6, 7, Ps!Try("err_off"))
    BY WriteIs, TryIs DEF Fields, ProbeCmd, CmdFits, Ps!All
  <2>4. ASSUME NEW s \in 1..7 PROVE ProbeCmd(6, s, Ps!DownloadFirmware("err")[s])
    <3>1. s \in {1, 2, 3, 4, 5, 6, 7}
      OBVIOUS
    <3> QED
      BY <2>1, <2>2, <2>3, <3>1
  <2> QED
    BY <1>1, <2>1, <2>4
<1> HIDE DEF Ps!APS, Ps!CR, Ps!CPU_EN, Ps!MCUFW_CTRL, Ps!RF_A_3WIRE, Ps!RF_B_3WIRE, Ps!SYS_FUNC_EN,
      Ps!POWER_READY,
            Ps!TXPAUSE, Ps!CR_SEC, Ps!RSV_CTRL, Ps!RF_CTRL, Ps!RF_B_CTRL
<1>8. ASSUME NEW f \in 1..6
      PROVE  /\ Len(Ps!ProbeFlows[f]) \in Nat \ {0}
             /\ \A s \in 1..Len(Ps!ProbeFlows[f]) : ProbeCmd(f, s, Ps!ProbeFlows[f][s])
  <2> DEFINE Good(n) == /\ Len(Ps!ProbeFlows[n]) \in Nat \ {0}
                        /\ \A s \in 1..Len(Ps!ProbeFlows[n]) : ProbeCmd(n, s, Ps!ProbeFlows[n][s])
  <2>1. \A n \in {1, 2, 7, 20, 26} : n \in Nat \ {0}
    OBVIOUS
  <2>2. Good(1) /\ Good(2) /\ Good(3) /\ Good(4) /\ Good(5) /\ Good(6)
    BY <2>1, <1>2, <1>3, <1>4, <1>5, <1>6, <1>7
  <2>3. f \in {1, 2, 3, 4, 5, 6}
    OBVIOUS
  <2> HIDE DEF Good
  <2>4. Good(f)
    BY <2>2, <2>3
  <2> QED
    BY <2>4 DEF Good
<1> QED
  BY <1>1, <1>3, <1>5, <1>7, <1>8

(* The driver's place in the call is after the command at step k of flow f. *)
Past(f, k) == flow > f \/ (flow = f /\ step > k)

(* From the command at step k of flow f on, a register has some bits set   *)
(* and others clear.                                                       *)
Goal(f, k, r, on, off) == [f |-> f, k |-> k, reg |-> r, on |-> on, off |-> off]

OnGoals ==
  {Goal(3, 2, \h14, {}, {7}), Goal(3, 3, \h15, {}, {0}), Goal(3, 4, \h23, {}, {4}),
   Goal(3, 5, \h46, {}, Ps!All), Goal(3, 6, \h43, {}, Ps!All), Goal(3, 8, Ps!APS, {}, {3}),
   Goal(3, 12, Ps!APS, {}, {2}), Goal(4, 3, Ps!CR, 0..5, {}), Goal(4, 4, Ps!CR_SEC, {1, 2}, {}),
   Goal(6, 3, Ps!CPU_EN, {2}, {}), Goal(6, 6, Ps!MCUFW_CTRL, {7}, {}), Goal(7, 2, Ps!CR, {6, 7}, {}),
   Goal(8, 2, Ps!SYS_FUNC_EN, {0, 1}, {}), Goal(8, 3, Ps!RF_CTRL, 0..2, 3..7),
   Goal(8, 4, Ps!RF_B_CTRL, 0..2, 3..7), Goal(8, 5, Ps!RF_A_3WIRE, 0..2, 3..7),
   Goal(8, 6, Ps!RF_B_3WIRE, 0..2, 3..7)}

OffGoals ==
  {Goal(1, 2, Ps!CR, {}, {6, 7}), Goal(4, 1, Ps!CPU_EN, {}, {2}), Goal(4, 2, Ps!MCUFW_CTRL, {}, {7}),
   Goal(5, 1, Ps!RF_A_3WIRE, {2}, Ps!All \ {2}), Goal(5, 2, Ps!RF_B_3WIRE, {2}, Ps!All \ {2}),
   Goal(5, 3, Ps!SYS_FUNC_EN, {}, {0})}

ProbeGoals == {Goal(4, 9, Ps!APS, {}, {3}), Goal(6, 6, Ps!MCUFW_CTRL, {7}, {})}

Reached(goals) ==
  \A g \in goals :
    Past(g.f, g.k) => g.on \subseteq reg[g.reg] /\ reg[g.reg] \cap g.off = {}

Calls == {"none", "probe", "unprobe", "on", "off"}

PwTypes ==
  /\ reg \in [Ps!Regs -> SUBSET Ps!All]
  /\ reg[\h14] \subseteq {7} /\ reg[\h15] \subseteq {0} /\ reg[\h23] \subseteq {4}
  /\ mac \in BOOLEAN /\ flag \in BOOLEAN /\ probed \in BOOLEAN /\ in_call \in Nat
  /\ call \in Calls /\ flow \in Nat \ {0} /\ step \in Nat \ {0}
  /\ ~Ps!Ended => step <= Len(Ps!Flows[flow])

Kinds ==
  /\ call \in {"on", "off"} \/ flag => probed
  /\ call = "probe" => ~probed
  /\ call \in {"on", "probe", "unprobe"} => ~flag

Quiet == reg[Ps!CR] \cap {6, 7} = {}

(* A chip that was left running has a firmware that says so: power_on will *)
(* reset it.                                                               *)
Telltale == 7 \in reg[Ps!MCUFW_CTRL] \/ Quiet

MacOff == in_call > 0 \/ ~mac

OnSays ==
  call = "on" =>
    /\ Reached(OnGoals)
    /\ ~Past(2, 6) => Telltale
    /\ Past(2, 6) /\ flow < 6 => 7 \notin reg[Ps!MCUFW_CTRL]
    /\ Past(2, 9) /\ flow < 7 => Quiet

OffSays == call = "off" => Reached(OffGoals) /\ (Past(5, 8) => MacOff)

ProbeSays == call = "probe" => Reached(ProbeGoals) /\ (Past(2, 9) /\ ~Past(4, 1) => MacOff)

UnprobeSays == call = "unprobe" => (Past(1, 9) => MacOff) /\ (flow = 1 /\ step > 9 => Quiet)

IdleSays == probed /\ call \in {"none", "unprobe", "off"} => Telltale

PwInv ==
  /\ PwTypes /\ Kinds /\ OnSays /\ OffSays /\ ProbeSays /\ UnprobeSays /\ IdleSays
  /\ Ps!ReadyWhenOn /\ Ps!OnUnlessTimeout

MacDown(c) == c.cmd \in {"poll", "try_poll"} /\ c.reg = Ps!APS /\ c.mask = {1}

(* What a command that is carried out, or waited for in vain, may do to the*)
(* chip.                                                                   *)
Effect(c) ==
  /\ reg' \in [Ps!Regs -> SUBSET Ps!All] /\ mac' \in BOOLEAN
  /\ \A r \in Ps!Regs :
       \/ reg'[r] = reg[r] /\ (c.cmd = "write" /\ c.bus = "all" => c.reg # r)
       \/ /\ c.cmd \in {"write", "restore", "poll", "try_poll"} /\ c.reg = r
          /\ reg'[r] = (reg[r] \ c.mask) \cup c.value
       \/ MacDown(c) /\ r \in Ps!MacRegs /\ reg'[r] = {}
  /\ mac' # mac => c.cmd \in {"poll", "try_poll"} /\ c.reg = Ps!APS

(* Where the call goes on after it.                                        *)
Onward(c) ==
  \/ /\ flow' = flow /\ step' = step + 1 /\ step < Len(Ps!Flows[flow])
     /\ c.cmd = "poll" => Ps!Answers(c)
     /\ c.cmd = "unless_on" => ~mac
  \/ /\ flow' = flow + 1 /\ step' = 1
     /\ \/ step = Len(Ps!Flows[flow])
        \/ c.cmd = "if" /\ ~Ps!Has(reg, c)
        \/ c.cmd = "if_on" /\ ~mac
        \/ /\ c.cmd = "poll" /\ call # "on" /\ (call = "probe" => flow = 2)
           /\ c.reg # Ps!POWER_READY => in_call' > 0

GoesOn ==
  /\ ~Ps!Ended /\ UNCHANGED <<call, flag, probed>>
  /\ in_call' \in Nat /\ in_call' >= in_call
  /\ Effect(Ps!Cur) /\ Onward(Ps!Cur)

Given ==
  /\ PwTypes /\ ~Ps!Ended /\ CmdFits(Ps!Cur) /\ step \in 1..Len(Ps!Flows[flow])
       /\ flow \in 1..Len(Ps!Flows)

(* A write changes the masked bits of its own register and of no other.    *)
LEMMA WrittenIs ==
  ASSUME NEW q \in [Ps!Regs -> SUBSET Ps!All], NEW c, CmdFits(c)
  PROVE  /\ Ps!Written(q, c) \in [Ps!Regs -> SUBSET Ps!All]
         /\ \A r \in Ps!Regs :
              Ps!Written(q, c)[r] = IF c.reg = r THEN (q[r] \ c.mask) \cup c.value ELSE q[r]
<1>1. CASE c.reg \in Ps!Regs
  <2>1. Ps!Written(q, c) = [q EXCEPT ![c.reg] = (@ \ c.mask) \cup c.value]
    BY <1>1 DEF Ps!Written
  <2>2. (q[c.reg] \ c.mask) \cup c.value \in SUBSET Ps!All
    BY <1>1 DEF CmdFits
  <2> QED
    BY <1>1, <2>1, <2>2
<1>2. CASE c.reg \notin Ps!Regs
  BY <1>2 DEF Ps!Written
<1> QED
  BY <1>1, <1>2

LEMMA CurWritten ==
  ASSUME Given
  PROVE  /\ Ps!Written(reg, Ps!Cur) \in [Ps!Regs -> SUBSET Ps!All]
         /\ \A r \in Ps!Regs :
              Ps!Written(reg, Ps!Cur)[r] = IF Ps!Cur.reg = r THEN (reg[r] \ Ps!Cur.mask)
                \cup Ps!Cur.value ELSE reg[r]
<1>1. reg \in [Ps!Regs -> SUBSET Ps!All] /\ CmdFits(Ps!Cur)
  BY DEF Given, PwTypes
<1> QED
  BY <1>1, WrittenIs

(* What a command that writes, the hardware that answers a poll, and a     *)
(* command that writes nothing may do to the registers, whatever command   *)
(* it is.                                                                  *)
LEMMA WriteEffect ==
  ASSUME Given, reg' = Ps!Written(reg, Ps!Cur), mac' = mac,
         Ps!Cur.cmd \in {"write", "restore", "poll", "try_poll"}
  PROVE  Effect(Ps!Cur)
<1>1. /\ reg' \in [Ps!Regs -> SUBSET Ps!All]
      /\ \A r \in Ps!Regs : reg'[r] = IF Ps!Cur.reg = r THEN (reg[r] \ Ps!Cur.mask)
           \cup Ps!Cur.value ELSE reg[r]
  BY CurWritten
<1>2. mac' \in BOOLEAN /\ mac' = mac
  BY DEF Given, PwTypes
<1>3. ASSUME NEW r \in Ps!Regs
      PROVE  \/ reg'[r] = reg[r] /\ (Ps!Cur.cmd = "write" /\ Ps!Cur.bus = "all" => Ps!Cur.reg # r)
             \/ /\ Ps!Cur.cmd \in {"write", "restore", "poll", "try_poll"} /\ Ps!Cur.reg = r
                /\ reg'[r] = (reg[r] \ Ps!Cur.mask) \cup Ps!Cur.value
             \/ MacDown(Ps!Cur) /\ r \in Ps!MacRegs /\ reg'[r] = {}
  BY <1>1
<1> QED
  BY <1>1, <1>2, <1>3 DEF Effect

LEMMA NoEffect ==
  ASSUME Given, reg' = reg, mac' = mac, ~(Ps!Cur.cmd = "write" /\ Ps!Cur.bus = "all")
  PROVE  Effect(Ps!Cur)
  BY DEF Given, PwTypes, Effect

LEMMA AnswerEffect ==
  ASSUME Given, Ps!Cur.cmd \in {"poll", "try_poll"}, Ps!Answers(Ps!Cur)
  PROVE  Effect(Ps!Cur)
<1>1. CASE Ps!Cur.reg = Ps!APS /\ Ps!Cur.mask = {1}
  <2>1. reg' = [x \in Ps!Regs |-> IF x \in Ps!MacRegs THEN {} ELSE Ps!Written(reg, Ps!Cur)[x]]
          /\ mac' = FALSE
    BY <1>1 DEF Ps!Answers, Ps!Cleared, Ps!Polled
  <2>2. /\ Ps!Written(reg, Ps!Cur) \in [Ps!Regs -> SUBSET Ps!All]
        /\ \A r \in Ps!Regs : Ps!Written(reg, Ps!Cur)[r]
             = IF Ps!Cur.reg = r THEN (reg[r] \ Ps!Cur.mask) \cup Ps!Cur.value ELSE reg[r]
    BY CurWritten
  <2>3. ASSUME NEW r \in Ps!Regs
        PROVE  \/ reg'[r] = reg[r] /\ (Ps!Cur.cmd = "write" /\ Ps!Cur.bus = "all" => Ps!Cur.reg # r)
               \/ /\ Ps!Cur.cmd \in {"write", "restore", "poll", "try_poll"} /\ Ps!Cur.reg = r
                /\ reg'[r] = (reg[r] \ Ps!Cur.mask) \cup Ps!Cur.value
               \/ MacDown(Ps!Cur) /\ r \in Ps!MacRegs /\ reg'[r] = {}
    BY <1>1, <2>1, <2>2 DEF MacDown
  <2> QED
    BY <1>1, <2>1, <2>2, <2>3 DEF Effect
<1>2. CASE ~(Ps!Cur.reg = Ps!APS /\ Ps!Cur.mask = {1})
  <2>1. reg' = Ps!Written(reg, Ps!Cur) /\ (mac' = mac \/ (mac' = TRUE /\ Ps!Cur.reg = Ps!APS))
    BY <1>2 DEF Ps!Answers, Ps!Polled
  <2>2. /\ reg' \in [Ps!Regs -> SUBSET Ps!All]
        /\ \A r \in Ps!Regs : reg'[r]
             = IF Ps!Cur.reg = r THEN (reg[r] \ Ps!Cur.mask) \cup Ps!Cur.value ELSE reg[r]
    BY <2>1, CurWritten
  <2>3. mac' \in BOOLEAN /\ (mac' # mac => Ps!Cur.reg = Ps!APS)
    BY <2>1 DEF Given, PwTypes
  <2>4. ASSUME NEW r \in Ps!Regs
        PROVE  \/ reg'[r] = reg[r] /\ (Ps!Cur.cmd = "write" /\ Ps!Cur.bus = "all" => Ps!Cur.reg # r)
               \/ /\ Ps!Cur.cmd \in {"write", "restore", "poll", "try_poll"} /\ Ps!Cur.reg = r
                /\ reg'[r] = (reg[r] \ Ps!Cur.mask) \cup Ps!Cur.value
               \/ MacDown(Ps!Cur) /\ r \in Ps!MacRegs /\ reg'[r] = {}
    BY <2>2
  <2> QED
    BY <2>2, <2>3, <2>4 DEF Effect
<1> QED
  BY <1>1, <1>2

(* From one command of a call to the next, whichever step takes it there.  *)
LEMMA NextStepIs ==
  ASSUME Given, Ps!NextStep
  PROVE  \/ flow' = flow /\ step' = step + 1 /\ step < Len(Ps!Flows[flow])
         \/ flow' = flow + 1 /\ step' = 1 /\ step = Len(Ps!Flows[flow])
  BY DEF Given, Ps!NextStep, Ps!NextFlow

(* Every step that keeps the call going has one of the effects above on    *)
(* the registers, and advances the place by one.                           *)
LEMMA CallGoesOn ==
  ASSUME Given,
         \/ Ps!PassOver \/ Ps!Write \/ Ps!Branch \/ Ps!Poll \/ Ps!Succeeds
         \/ Ps!StillOn /\ ~mac
         \/ Ps!Timeout /\ call' = call
  PROVE  GoesOn
<1> DEFINE Stays == /\ UNCHANGED <<call, flag, probed>>
                    /\ in_call' \in Nat /\ in_call' >= in_call
<1>0. ASSUME Stays, Effect(Ps!Cur), Onward(Ps!Cur) PROVE GoesOn
  BY <1>0 DEF Given, GoesOn
<1>a. ASSUME NEW next, Ps!Go(next) PROVE Stays
  BY <1>a DEF Ps!Go, Given, PwTypes
<1>1. CASE Ps!PassOver
  <2>1. Stays /\ Ps!NextStep /\ reg' = reg /\ mac' = mac /\ Ps!Cur.bus \notin {"all", "usb"}
    BY <1>1 DEF Ps!PassOver, Ps!Go, Ps!ForUs, Given, PwTypes
  <2>2. Ps!Cur.cmd \notin {"poll", "try_poll", "unless_on"}
    BY <2>1 DEF Given, CmdFits
  <2> QED
    BY <1>0, <2>1, <2>2, NoEffect, NextStepIs DEF Onward
<1>2. CASE Ps!Write
  <2>1. Stays /\ Ps!NextStep /\ mac' = mac /\ Ps!Cur.cmd \in {"write", "restore"}
        /\ reg' = IF Ps!Cur.cmd = "write" \/ down THEN Ps!Written(reg, Ps!Cur) ELSE reg
    BY <1>2 DEF Ps!Write, Ps!Is, Ps!Go, Given, PwTypes
  <2>2. Effect(Ps!Cur)
    BY <2>1, WriteEffect, NoEffect
  <2> QED
    BY <1>0, <2>1, <2>2, NextStepIs DEF Onward
<1>3. CASE Ps!Branch
  <2>1. Stays /\ reg' = reg /\ mac' = mac /\ Ps!Cur.cmd \in {"if", "if_on"}
    BY <1>3 DEF Ps!Branch, Ps!Is, Ps!Go, Given, PwTypes
  <2>2. Ps!NextStep \/ (Ps!NextFlow /\ IF Ps!Cur.cmd = "if" THEN ~Ps!Has(reg, Ps!Cur) ELSE ~mac)
    BY <1>3 DEF Ps!Branch, Ps!Go
  <2>3. Effect(Ps!Cur)
    BY <2>1, NoEffect
  <2> QED
    BY <1>0, <2>1, <2>2, <2>3, NextStepIs DEF Onward, Ps!NextFlow
<1>4. CASE Ps!Poll
  <2>1. Stays /\ Ps!NextStep /\ Ps!Answers(Ps!Cur) /\ Ps!Cur.cmd \in {"poll", "try_poll"}
    BY <1>4 DEF Ps!Poll, Ps!Is, Ps!Go, Given, PwTypes
  <2> QED
    BY <1>0, <2>1, AnswerEffect, NextStepIs DEF Onward
<1>5. CASE Ps!Succeeds
  <2>1. Stays /\ Ps!NextStep /\ reg' = reg /\ mac' = mac /\ Ps!Cur.cmd \in {"err", "err_off"}
    BY <1>5 DEF Ps!Succeeds, Ps!Is, Ps!Go, Given, PwTypes
  <2>2. Effect(Ps!Cur)
    BY <2>1, NoEffect
  <2> QED
    BY <1>0, <2>1, <2>2, NextStepIs DEF Onward
<1>6. CASE Ps!StillOn /\ ~mac
  <2>1. Stays /\ Ps!NextStep /\ reg' = reg /\ mac' = mac /\ Ps!Cur.cmd = "unless_on"
    BY <1>6 DEF Ps!StillOn, Ps!Is, Ps!Go, Given, PwTypes
  <2>2. Effect(Ps!Cur)
    BY <2>1, NoEffect
  <2> QED
    BY <1>0, <1>6, <2>1, <2>2, NextStepIs DEF Onward
<1>7. CASE Ps!Timeout /\ call' = call
  <2>1. /\ Ps!Cur.cmd \in {"poll", "try_poll"}
        /\ Ps!Answers(Ps!Cur) \/ (reg' = reg /\ mac' = mac)
        /\ UNCHANGED <<flag, probed>>
    BY <1>7 DEF Ps!Timeout, Ps!Is
  <2>2. Effect(Ps!Cur)
    BY <2>1, AnswerEffect, NoEffect
  <2>3. in_call' = in_call + (IF Ps!Possible(Ps!Cur) THEN 1 ELSE 0) /\ in_call \in Nat
    BY <1>7 DEF Ps!Timeout, Ps!Fault, Given, PwTypes
  <2>4. in_call' \in Nat /\ in_call' >= in_call /\ (Ps!Cur.reg # Ps!POWER_READY => in_call' > 0)
    BY <2>3 DEF Ps!Possible
  <2>5. call # "none"
    BY DEF Given, Ps!Ended
  <2>6. CASE Ps!Cur.cmd = "try_poll"
    <3>1. Ps!NextStep
      BY <1>7, <2>6 DEF Ps!Timeout
    <3> QED
      BY <1>0, <1>7, <2>1, <2>2, <2>4, <2>6, <3>1, NextStepIs DEF Onward
  <2>7. CASE Ps!Cur.cmd = "poll"
    <3>1. Ps!NextFlow /\ (call \in {"off", "unprobe"} \/ (call = "probe" /\ flow = 2))
      BY <1>7, <2>5, <2>7 DEF Ps!Timeout, Ps!Enter
    <3> QED
      BY <1>0, <1>7, <2>1, <2>2, <2>4, <2>7, <3>1 DEF Onward, Ps!NextFlow
  <2> QED
    BY <2>1, <2>6, <2>7
<1> QED
  BY <1>1, <1>2, <1>3, <1>4, <1>5, <1>6, <1>7

(* A command at step s of flow f, which has n, keeps a goal that is        *)
(* reached, or reaches it when its turn comes, and does not jump over it.  *)
Suits(g, f, s, n, c) ==
  /\ f = g.f /\ s = g.k =>
       /\ c.cmd = "write" /\ c.bus = "all" /\ c.reg = g.reg
       /\ g.on \subseteq c.value /\ g.off \subseteq c.mask /\ c.value \cap g.off = {}
  /\ f > g.f \/ (f = g.f /\ s > g.k) =>
       /\ c.reg = g.reg => g.on \cap c.mask \subseteq c.value /\ c.value \cap g.off = {}
       /\ MacDown(c) /\ g.reg \in Ps!MacRegs => g.on = {}
  /\ f = g.f /\ s < g.k => s < n /\ c.cmd \notin {"if", "if_on", "poll"}

IsGoal(g) == g.f \in Nat /\ g.k \in Nat \ {0} /\ g.reg \in Ps!Regs

(* A goal that is reached stays reached over a command that suits it, and  *)
(* one that sets the goal reaches it.                                      *)
LEMMA GoalKept ==
  ASSUME PwTypes, GoesOn, NEW g, IsGoal(g), Suits(g, flow, step, Len(Ps!Flows[flow]), Ps!Cur),
         Past(g.f, g.k) => g.on \subseteq reg[g.reg] /\ reg[g.reg] \cap g.off = {},
         Past(g.f, g.k)'
  PROVE  g.on \subseteq reg'[g.reg] /\ reg'[g.reg] \cap g.off = {}
<1>1. /\ \/ reg'[g.reg] = reg[g.reg] /\ (Ps!Cur.cmd = "write"
           /\ Ps!Cur.bus = "all" => Ps!Cur.reg # g.reg)
         \/ Ps!Cur.reg = g.reg /\ reg'[g.reg] = (reg[g.reg] \ Ps!Cur.mask) \cup Ps!Cur.value
         \/ MacDown(Ps!Cur) /\ g.reg \in Ps!MacRegs /\ reg'[g.reg] = {}
  BY DEF GoesOn, Effect, IsGoal
<1>2. CASE Past(g.f, g.k)
  <2>1. /\ Ps!Cur.reg = g.reg => g.on \cap Ps!Cur.mask \subseteq Ps!Cur.value
             /\ Ps!Cur.value \cap g.off = {}
        /\ MacDown(Ps!Cur) /\ g.reg \in Ps!MacRegs => g.on = {}
    BY <1>2 DEF Suits, Past
  <2> QED
    BY <1>1, <1>2, <2>1
<1>3. CASE ~Past(g.f, g.k)
  <2>1. flow \in Nat /\ step \in Nat \ {0} /\ g.f \in Nat /\ g.k \in Nat \ {0}
    BY DEF PwTypes, IsGoal
  <2>2. \/ flow' = flow /\ step' = step + 1
        \/ flow' = flow + 1 /\ step' = 1
           /\ (step = Len(Ps!Flows[flow]) \/ Ps!Cur.cmd \in {"if", "if_on", "poll"})
    BY DEF GoesOn, Onward
  <2>3. ~(flow > g.f \/ (flow = g.f /\ step > g.k)) /\ (flow' > g.f \/ (flow' = g.f /\ step' > g.k))
    BY <1>3 DEF Past
  <2>4. flow = g.f /\ step <= g.k
    BY <2>1, <2>2, <2>3
  <2>5. step = g.k
    <3>1. SUFFICES ASSUME step < g.k PROVE FALSE
      BY <2>1, <2>4
    <3>2. step < Len(Ps!Flows[flow]) /\ Ps!Cur.cmd \notin {"if", "if_on", "poll"}
      BY <2>4, <3>1 DEF Suits
    <3>3. step = Len(Ps!Flows[flow])
      BY <2>1, <2>2, <2>3, <2>4, <3>1, <3>2
    <3> QED
      BY <2>1, <3>2, <3>3
  <2>6. /\ Ps!Cur.cmd = "write" /\ Ps!Cur.bus = "all" /\ Ps!Cur.reg = g.reg
        /\ g.on \subseteq Ps!Cur.value /\ g.off \subseteq Ps!Cur.mask /\ Ps!Cur.value \cap g.off = {}
    BY <2>4, <2>5 DEF Suits
  <2>7. reg'[g.reg] = (reg[g.reg] \ Ps!Cur.mask) \cup Ps!Cur.value
    BY <1>1, <2>6 DEF MacDown
  <2> QED
    BY <2>6, <2>7
<1> QED
  BY <1>2, <1>3

LEMMA GoalsKept ==
  ASSUME PwTypes, GoesOn, NEW goals, Reached(goals),
         \A g \in goals : IsGoal(g) /\ Suits(g, flow, step, Len(Ps!Flows[flow]), Ps!Cur)
  PROVE  Reached(goals)'
<1>1. ASSUME NEW g \in goals, Past(g.f, g.k)'
      PROVE  g.on \subseteq reg'[g.reg] /\ reg'[g.reg] \cap g.off = {}
  BY <1>1, GoalKept DEF Reached
<1> QED
  BY <1>1 DEF Reached

(* The call under way, and its command.                                    *)
LEMMA OnCur ==
  ASSUME PwTypes, call = "on"
  PROVE  /\ Ps!Flows = Ps!PowerOnFlows /\ Len(Ps!Flows) = 9 /\ (Ps!Ended <=> flow > 9)
         /\ ~Ps!Ended => Given /\ flow \in 1..9 /\ OnCmd(flow, step, Ps!Cur)
<1>1. Ps!Flows = Ps!PowerOnFlows /\ Len(Ps!Flows) = 9
  BY OnCmds DEF Ps!Flows
<1>2. Ps!Ended <=> flow > 9
  BY <1>1 DEF Ps!Ended
<1>3. ASSUME ~Ps!Ended PROVE Given /\ flow \in 1..9 /\ OnCmd(flow, step, Ps!Cur)
  <2>1. flow \in 1..9
    BY <1>2, <1>3 DEF PwTypes
  <2>2. Len(Ps!Flows[flow]) \in Nat /\ step \in 1..Len(Ps!Flows[flow])
    BY <1>1, <1>3, <2>1, OnCmds DEF PwTypes
  <2>3. OnCmd(flow, step, Ps!Flows[flow][step])
    BY <1>1, <2>1, <2>2, OnCmds
  <2>4. OnCmd(flow, step, Ps!Cur)
    BY <2>3 DEF Ps!Cur
  <2>5. CmdFits(Ps!Cur)
    BY <2>4 DEF OnCmd
  <2> QED
    BY <1>1, <1>3, <2>1, <2>2, <2>4, <2>5 DEF Given
<1> QED
  BY <1>1, <1>2, <1>3

(* What is known of the command a call is at: one entry of the table of    *)
(* that call.                                                              *)
LEMMA OffCur ==
  ASSUME PwTypes, call = "off"
  PROVE  /\ Ps!Flows = Ps!PowerOffFlows /\ Len(Ps!Flows) = 6 /\ (Ps!Ended <=> flow > 6)
         /\ ~Ps!Ended => Given /\ flow \in 1..6 /\ OffCmd(flow, step, Ps!Cur)
<1>1. Ps!Flows = Ps!PowerOffFlows /\ Len(Ps!Flows) = 6
  BY OffCmds DEF Ps!Flows
<1>2. Ps!Ended <=> flow > 6
  BY <1>1 DEF Ps!Ended
<1>3. ASSUME ~Ps!Ended PROVE Given /\ flow \in 1..6 /\ OffCmd(flow, step, Ps!Cur)
  <2>1. flow \in 1..6
    BY <1>2, <1>3 DEF PwTypes
  <2>2. Len(Ps!Flows[flow]) \in Nat /\ step \in 1..Len(Ps!Flows[flow])
    BY <1>1, <1>3, <2>1, OffCmds DEF PwTypes
  <2>3. OffCmd(flow, step, Ps!Flows[flow][step])
    BY <1>1, <2>1, <2>2, OffCmds
  <2>4. OffCmd(flow, step, Ps!Cur)
    BY <2>3 DEF Ps!Cur
  <2>5. CmdFits(Ps!Cur)
    BY <2>4 DEF OffCmd
  <2> QED
    BY <1>1, <1>3, <2>1, <2>2, <2>4, <2>5 DEF Given
<1> QED
  BY <1>1, <1>2, <1>3

LEMMA ProbeCur ==
  ASSUME PwTypes, call = "probe"
  PROVE  /\ Ps!Flows = Ps!ProbeFlows /\ Len(Ps!Flows) = 6 /\ (Ps!Ended <=> flow > 6)
         /\ ~Ps!Ended => Given /\ flow \in 1..6 /\ ProbeCmd(flow, step, Ps!Cur)
<1>1. Ps!Flows = Ps!ProbeFlows /\ Len(Ps!Flows) = 6
  BY ProbeCmds DEF Ps!Flows
<1>2. Ps!Ended <=> flow > 6
  BY <1>1 DEF Ps!Ended
<1>3. ASSUME ~Ps!Ended PROVE Given /\ flow \in 1..6 /\ ProbeCmd(flow, step, Ps!Cur)
  <2>1. flow \in 1..6
    BY <1>2, <1>3 DEF PwTypes
  <2>2. Len(Ps!Flows[flow]) \in Nat /\ step \in 1..Len(Ps!Flows[flow])
    BY <1>1, <1>3, <2>1, ProbeCmds DEF PwTypes
  <2>3. ProbeCmd(flow, step, Ps!Flows[flow][step])
    BY <1>1, <2>1, <2>2, ProbeCmds
  <2>4. ProbeCmd(flow, step, Ps!Cur)
    BY <2>3 DEF Ps!Cur
  <2>5. CmdFits(Ps!Cur)
    BY <2>4 DEF ProbeCmd
  <2> QED
    BY <1>1, <1>3, <2>1, <2>2, <2>4, <2>5 DEF Given
<1> QED
  BY <1>1, <1>2, <1>3

LEMMA UnprobeCur ==
  ASSUME PwTypes, call = "unprobe"
  PROVE  /\ Ps!Flows = <<Ps!SwitchOff>> /\ Len(Ps!Flows) = 1 /\ (Ps!Ended <=> flow > 1)
         /\ ~Ps!Ended => Given /\ flow = 1 /\ step \in 1..26 /\ OffSwitchCmd(step, Ps!Cur)
<1>1. Ps!Flows = <<Ps!SwitchOff>> /\ Len(Ps!Flows) = 1 /\ Ps!Flows[1] = Ps!SwitchOff
  BY DEF Ps!Flows
<1>2. Ps!Ended <=> flow > 1
  BY <1>1 DEF Ps!Ended
<1>3. ASSUME ~Ps!Ended PROVE Given /\ flow = 1 /\ step \in 1..26 /\ OffSwitchCmd(step, Ps!Cur)
  <2>1. flow = 1
    BY <1>2, <1>3 DEF PwTypes
  <2>2. Ps!Flows[flow] = Ps!SwitchOff /\ Len(Ps!Flows[flow]) = 26
    BY <1>1, <2>1, SwitchOffCmds
  <2>3. step \in 1..26
    BY <1>3, <2>2 DEF PwTypes
  <2>4. OffSwitchCmd(step, Ps!Cur)
    BY <2>2, <2>3, SwitchOffCmds DEF Ps!Cur
  <2>5. CmdFits(Ps!Cur)
    BY <2>4 DEF OffSwitchCmd
  <2>6. flow \in 1..Len(Ps!Flows)
    <3>1. Len(Ps!Flows) = 1
      BY <1>1
    <3> QED
      BY <2>1, <3>1
  <2>7. step \in 1..Len(Ps!Flows[flow])
    BY <2>2, <2>3
  <2> QED
    BY <1>3, <2>1, <2>3, <2>4, <2>5, <2>6, <2>7 DEF Given
<1> QED
  BY <1>1, <1>2, <1>3

LEMMA CallCur ==
  ASSUME PwTypes, ~Ps!Ended
  PROVE  /\ Given
         /\ \A f \in 1..Len(Ps!Flows) : Len(Ps!Flows[f]) \in Nat \ {0}
<1>1. CASE call = "on"
  BY <1>1, OnCur, OnCmds
<1>2. CASE call = "off"
  BY <1>2, OffCur, OffCmds
<1>3. CASE call = "probe"
  BY <1>3, ProbeCur, ProbeCmds
<1>4. CASE call = "unprobe"
  <2>1. Given /\ Ps!Flows = <<Ps!SwitchOff>> /\ Len(Ps!Flows) = 1
    BY <1>4, UnprobeCur
  <2>2. Len(Ps!SwitchOff) \in Nat \ {0}
    BY SwitchOffCmds
  <2>3. \A f \in 1..1 : <<Ps!SwitchOff>>[f] = Ps!SwitchOff
    OBVIOUS
  <2> QED
    BY <2>1, <2>2, <2>3
<1> QED
  BY <1>1, <1>2, <1>3, <1>4 DEF PwTypes, Calls, Ps!Ended

(* No command of a call undoes what an earlier one of the same call has    *)
(* reached: the order of the sequences, found by looking at all of them.   *)
LEMMA OnSuits ==
  ASSUME NEW f \in 1..9, NEW s \in 1..Len(Ps!PowerOnFlows[f]), NEW c, OnCmd(f, s, c)
  PROVE  \A g \in OnGoals : IsGoal(g) /\ Suits(g, f, s, Len(Ps!PowerOnFlows[f]), c)
<1> USE DEF Ps!APS, Ps!CR, Ps!CPU_EN, Ps!MCUFW_CTRL, Ps!RF_A_3WIRE, Ps!RF_B_3WIRE, Ps!SYS_FUNC_EN,
      Ps!POWER_READY,
            Ps!TXPAUSE, Ps!CR_SEC, Ps!RSV_CTRL, Ps!RF_CTRL, Ps!RF_B_CTRL
<1>0. s \in Nat \ {0}
  BY OnCmds
<1>a. Len(Ps!PowerOnFlows[3]) = 19 /\ Len(Ps!PowerOnFlows[4]) = 4 /\ Len(Ps!PowerOnFlows[6]) = 7
        /\ Len(Ps!PowerOnFlows[7]) = 2 /\ Len(Ps!PowerOnFlows[8]) = 6
  BY OnCmds
<1>1. IsGoal(Goal(3, 2, \h14, {}, {7}))
        /\ Suits(Goal(3, 2, \h14, {}, {7}), f, s, Len(Ps!PowerOnFlows[f]), c)
  <2> DEFINE g == Goal(3, 2, \h14, {}, {7})
  <2>1. g.f = 3 /\ g.k = 2 /\ g.reg = \h14 /\ g.on = {} /\ g.off = {7}
    BY DEF Goal
  <2> HIDE DEF g
  <2>2. IsGoal(g)
    BY <2>1 DEF IsGoal, Ps!Regs, Ps!MacRegs
  <2>3. ASSUME f = 3, s < 2 PROVE s < Len(Ps!PowerOnFlows[f])
    <3>1. Len(Ps!PowerOnFlows[f]) = 19
      BY <1>a, <2>3
    <3> QED
      BY <1>0, <2>3, <3>1
  <2>4. ASSUME f = 3, s = 2
        PROVE  /\ c.cmd = "write" /\ c.bus = "all" /\ c.reg = g.reg
               /\ g.on \subseteq c.value /\ g.off \subseteq c.mask /\ c.value \cap g.off = {}
    <3>1. c = Ps!W(\h14, {7}, {})
      BY <2>4 DEF OnCmd
    <3> QED
      BY <2>1, <3>1, WriteIs DEF Fields, Ps!All
  <2>5. ASSUME f > 3 \/ (f = 3 /\ s > 2)
        PROVE  /\ c.reg = \h14 => {} \cap c.mask \subseteq c.value /\ c.value \cap ({7}) = {}
               /\ MacDown(c) /\ \h14 \in Ps!MacRegs => {} = {}
    BY <1>0, <2>5, WriteIs DEF OnCmd, MacDown, Ps!MacRegs, Fields, Ps!All
  <2>6. ASSUME f = 3, s < 2 PROVE c.cmd \notin {"if", "if_on", "poll"}
    BY <1>0, <2>6 DEF OnCmd
  <2>7. Suits(g, f, s, Len(Ps!PowerOnFlows[f]), c)
    BY <2>1, <2>3, <2>4, <2>5, <2>6 DEF Suits
  <2> QED
    BY <2>2, <2>7 DEF g
<1>2. IsGoal(Goal(3, 3, \h15, {}, {0}))
        /\ Suits(Goal(3, 3, \h15, {}, {0}), f, s, Len(Ps!PowerOnFlows[f]), c)
  <2> DEFINE g == Goal(3, 3, \h15, {}, {0})
  <2>1. g.f = 3 /\ g.k = 3 /\ g.reg = \h15 /\ g.on = {} /\ g.off = {0}
    BY DEF Goal
  <2> HIDE DEF g
  <2>2. IsGoal(g)
    BY <2>1 DEF IsGoal, Ps!Regs, Ps!MacRegs
  <2>3. ASSUME f = 3, s < 3 PROVE s < Len(Ps!PowerOnFlows[f])
    <3>1. Len(Ps!PowerOnFlows[f]) = 19
      BY <1>a, <2>3
    <3> QED
      BY <1>0, <2>3, <3>1
  <2>4. ASSUME f = 3, s = 3
        PROVE  /\ c.cmd = "write" /\ c.bus = "all" /\ c.reg = g.reg
               /\ g.on \subseteq c.value /\ g.off \subseteq c.mask /\ c.value \cap g.off = {}
    <3>1. c = Ps!W(\h15, {0}, {})
      BY <2>4 DEF OnCmd
    <3> QED
      BY <2>1, <3>1, WriteIs DEF Fields, Ps!All
  <2>5. ASSUME f > 3 \/ (f = 3 /\ s > 3)
        PROVE  /\ c.reg = \h15 => {} \cap c.mask \subseteq c.value /\ c.value \cap ({0}) = {}
               /\ MacDown(c) /\ \h15 \in Ps!MacRegs => {} = {}
    BY <1>0, <2>5, WriteIs DEF OnCmd, MacDown, Ps!MacRegs, Fields, Ps!All
  <2>6. ASSUME f = 3, s < 3 PROVE c.cmd \notin {"if", "if_on", "poll"}
    BY <1>0, <2>6 DEF OnCmd
  <2>7. Suits(g, f, s, Len(Ps!PowerOnFlows[f]), c)
    BY <2>1, <2>3, <2>4, <2>5, <2>6 DEF Suits
  <2> QED
    BY <2>2, <2>7 DEF g
<1>3. IsGoal(Goal(3, 4, \h23, {}, {4}))
        /\ Suits(Goal(3, 4, \h23, {}, {4}), f, s, Len(Ps!PowerOnFlows[f]), c)
  <2> DEFINE g == Goal(3, 4, \h23, {}, {4})
  <2>1. g.f = 3 /\ g.k = 4 /\ g.reg = \h23 /\ g.on = {} /\ g.off = {4}
    BY DEF Goal
  <2> HIDE DEF g
  <2>2. IsGoal(g)
    BY <2>1 DEF IsGoal, Ps!Regs, Ps!MacRegs
  <2>3. ASSUME f = 3, s < 4 PROVE s < Len(Ps!PowerOnFlows[f])
    <3>1. Len(Ps!PowerOnFlows[f]) = 19
      BY <1>a, <2>3
    <3> QED
      BY <1>0, <2>3, <3>1
  <2>4. ASSUME f = 3, s = 4
        PROVE  /\ c.cmd = "write" /\ c.bus = "all" /\ c.reg = g.reg
               /\ g.on \subseteq c.value /\ g.off \subseteq c.mask /\ c.value \cap g.off = {}
    <3>1. c = Ps!W(\h23, {4}, {})
      BY <2>4 DEF OnCmd
    <3> QED
      BY <2>1, <3>1, WriteIs DEF Fields, Ps!All
  <2>5. ASSUME f > 3 \/ (f = 3 /\ s > 4)
        PROVE  /\ c.reg = \h23 => {} \cap c.mask \subseteq c.value /\ c.value \cap ({4}) = {}
               /\ MacDown(c) /\ \h23 \in Ps!MacRegs => {} = {}
    BY <1>0, <2>5, WriteIs DEF OnCmd, MacDown, Ps!MacRegs, Fields, Ps!All
  <2>6. ASSUME f = 3, s < 4 PROVE c.cmd \notin {"if", "if_on", "poll"}
    BY <1>0, <2>6 DEF OnCmd
  <2>7. Suits(g, f, s, Len(Ps!PowerOnFlows[f]), c)
    BY <2>1, <2>3, <2>4, <2>5, <2>6 DEF Suits
  <2> QED
    BY <2>2, <2>7 DEF g
<1>4. IsGoal(Goal(3, 5, \h46, {}, Ps!All))
        /\ Suits(Goal(3, 5, \h46, {}, Ps!All), f, s, Len(Ps!PowerOnFlows[f]), c)
  <2> DEFINE g == Goal(3, 5, \h46, {}, Ps!All)
  <2>1. g.f = 3 /\ g.k = 5 /\ g.reg = \h46 /\ g.on = {} /\ g.off = Ps!All
    BY DEF Goal
  <2> HIDE DEF g
  <2>2. IsGoal(g)
    BY <2>1 DEF IsGoal, Ps!Regs, Ps!MacRegs
  <2>3. ASSUME f = 3, s < 5 PROVE s < Len(Ps!PowerOnFlows[f])
    <3>1. Len(Ps!PowerOnFlows[f]) = 19
      BY <1>a, <2>3
    <3> QED
      BY <1>0, <2>3, <3>1
  <2>4. ASSUME f = 3, s = 5
        PROVE  /\ c.cmd = "write" /\ c.bus = "all" /\ c.reg = g.reg
               /\ g.on \subseteq c.value /\ g.off \subseteq c.mask /\ c.value \cap g.off = {}
    <3>1. c = Ps!W(\h46, Ps!All, {})
      BY <2>4 DEF OnCmd
    <3> QED
      BY <2>1, <3>1, WriteIs DEF Fields, Ps!All
  <2>5. ASSUME f > 3 \/ (f = 3 /\ s > 5)
        PROVE  /\ c.reg = \h46 => {} \cap c.mask \subseteq c.value /\ c.value \cap (Ps!All) = {}
               /\ MacDown(c) /\ \h46 \in Ps!MacRegs => {} = {}
    BY <1>0, <2>5, WriteIs DEF OnCmd, MacDown, Ps!MacRegs, Fields, Ps!All
  <2>6. ASSUME f = 3, s < 5 PROVE c.cmd \notin {"if", "if_on", "poll"}
    BY <1>0, <2>6 DEF OnCmd
  <2>7. Suits(g, f, s, Len(Ps!PowerOnFlows[f]), c)
    BY <2>1, <2>3, <2>4, <2>5, <2>6 DEF Suits
  <2> QED
    BY <2>2, <2>7 DEF g
<1>5. IsGoal(Goal(3, 6, \h43, {}, Ps!All))
        /\ Suits(Goal(3, 6, \h43, {}, Ps!All), f, s, Len(Ps!PowerOnFlows[f]), c)
  <2> DEFINE g == Goal(3, 6, \h43, {}, Ps!All)
  <2>1. g.f = 3 /\ g.k = 6 /\ g.reg = \h43 /\ g.on = {} /\ g.off = Ps!All
    BY DEF Goal
  <2> HIDE DEF g
  <2>2. IsGoal(g)
    BY <2>1 DEF IsGoal, Ps!Regs, Ps!MacRegs
  <2>3. ASSUME f = 3, s < 6 PROVE s < Len(Ps!PowerOnFlows[f])
    <3>1. Len(Ps!PowerOnFlows[f]) = 19
      BY <1>a, <2>3
    <3> QED
      BY <1>0, <2>3, <3>1
  <2>4. ASSUME f = 3, s = 6
        PROVE  /\ c.cmd = "write" /\ c.bus = "all" /\ c.reg = g.reg
               /\ g.on \subseteq c.value /\ g.off \subseteq c.mask /\ c.value \cap g.off = {}
    <3>1. c = Ps!W(\h43, Ps!All, {})
      BY <2>4 DEF OnCmd
    <3> QED
      BY <2>1, <3>1, WriteIs DEF Fields, Ps!All
  <2>5. ASSUME f > 3 \/ (f = 3 /\ s > 6)
        PROVE  /\ c.reg = \h43 => {} \cap c.mask \subseteq c.value /\ c.value \cap (Ps!All) = {}
               /\ MacDown(c) /\ \h43 \in Ps!MacRegs => {} = {}
    BY <1>0, <2>5, WriteIs DEF OnCmd, MacDown, Ps!MacRegs, Fields, Ps!All
  <2>6. ASSUME f = 3, s < 6 PROVE c.cmd \notin {"if", "if_on", "poll"}
    BY <1>0, <2>6 DEF OnCmd
  <2>7. Suits(g, f, s, Len(Ps!PowerOnFlows[f]), c)
    BY <2>1, <2>3, <2>4, <2>5, <2>6 DEF Suits
  <2> QED
    BY <2>2, <2>7 DEF g
<1>6. IsGoal(Goal(3, 8, Ps!APS, {}, {3}))
        /\ Suits(Goal(3, 8, Ps!APS, {}, {3}), f, s, Len(Ps!PowerOnFlows[f]), c)
  <2> DEFINE g == Goal(3, 8, Ps!APS, {}, {3})
  <2>1. g.f = 3 /\ g.k = 8 /\ g.reg = Ps!APS /\ g.on = {} /\ g.off = {3}
    BY DEF Goal
  <2> HIDE DEF g
  <2>2. IsGoal(g)
    BY <2>1 DEF IsGoal, Ps!Regs, Ps!MacRegs
  <2>3. ASSUME f = 3, s < 8 PROVE s < Len(Ps!PowerOnFlows[f])
    <3>1. Len(Ps!PowerOnFlows[f]) = 19
      BY <1>a, <2>3
    <3> QED
      BY <1>0, <2>3, <3>1
  <2>4. ASSUME f = 3, s = 8
        PROVE  /\ c.cmd = "write" /\ c.bus = "all" /\ c.reg = g.reg
               /\ g.on \subseteq c.value /\ g.off \subseteq c.mask /\ c.value \cap g.off = {}
    <3>1. c = Ps!W(Ps!APS, {3}, {})
      BY <2>4 DEF OnCmd
    <3> QED
      BY <2>1, <3>1, WriteIs DEF Fields, Ps!All
  <2>5. ASSUME f > 3 \/ (f = 3 /\ s > 8)
        PROVE  /\ c.reg = Ps!APS => {} \cap c.mask \subseteq c.value /\ c.value \cap ({3}) = {}
               /\ MacDown(c) /\ Ps!APS \in Ps!MacRegs => {} = {}
    BY <1>0, <2>5, WriteIs DEF OnCmd, MacDown, Ps!MacRegs, Fields, Ps!All
  <2>6. ASSUME f = 3, s < 8 PROVE c.cmd \notin {"if", "if_on", "poll"}
    BY <1>0, <2>6 DEF OnCmd
  <2>7. Suits(g, f, s, Len(Ps!PowerOnFlows[f]), c)
    BY <2>1, <2>3, <2>4, <2>5, <2>6 DEF Suits
  <2> QED
    BY <2>2, <2>7 DEF g
<1>7. IsGoal(Goal(3, 12, Ps!APS, {}, {2}))
        /\ Suits(Goal(3, 12, Ps!APS, {}, {2}), f, s, Len(Ps!PowerOnFlows[f]), c)
  <2> DEFINE g == Goal(3, 12, Ps!APS, {}, {2})
  <2>1. g.f = 3 /\ g.k = 12 /\ g.reg = Ps!APS /\ g.on = {} /\ g.off = {2}
    BY DEF Goal
  <2> HIDE DEF g
  <2>2. IsGoal(g)
    BY <2>1 DEF IsGoal, Ps!Regs, Ps!MacRegs
  <2>3. ASSUME f = 3, s < 12 PROVE s < Len(Ps!PowerOnFlows[f])
    <3>1. Len(Ps!PowerOnFlows[f]) = 19
      BY <1>a, <2>3
    <3> QED
      BY <1>0, <2>3, <3>1
  <2>4. ASSUME f = 3, s = 12
        PROVE  /\ c.cmd = "write" /\ c.bus = "all" /\ c.reg = g.reg
               /\ g.on \subseteq c.value /\ g.off \subseteq c.mask /\ c.value \cap g.off = {}
    <3>1. c = Ps!W(Ps!APS, {2}, {})
      BY <2>4 DEF OnCmd
    <3> QED
      BY <2>1, <3>1, WriteIs DEF Fields, Ps!All
  <2>5. ASSUME f > 3 \/ (f = 3 /\ s > 12)
        PROVE  /\ c.reg = Ps!APS => {} \cap c.mask \subseteq c.value /\ c.value \cap ({2}) = {}
               /\ MacDown(c) /\ Ps!APS \in Ps!MacRegs => {} = {}
    BY <1>0, <2>5, WriteIs DEF OnCmd, MacDown, Ps!MacRegs, Fields, Ps!All
  <2>6. ASSUME f = 3, s < 12 PROVE c.cmd \notin {"if", "if_on", "poll"}
    BY <1>0, <2>6 DEF OnCmd
  <2>7. Suits(g, f, s, Len(Ps!PowerOnFlows[f]), c)
    BY <2>1, <2>3, <2>4, <2>5, <2>6 DEF Suits
  <2> QED
    BY <2>2, <2>7 DEF g
<1>8. IsGoal(Goal(4, 3, Ps!CR, 0..5, {}))
        /\ Suits(Goal(4, 3, Ps!CR, 0..5, {}), f, s, Len(Ps!PowerOnFlows[f]), c)
  <2> DEFINE g == Goal(4, 3, Ps!CR, 0..5, {})
  <2>1. g.f = 4 /\ g.k = 3 /\ g.reg = Ps!CR /\ g.on = 0..5 /\ g.off = {}
    BY DEF Goal
  <2> HIDE DEF g
  <2>2. IsGoal(g)
    BY <2>1 DEF IsGoal, Ps!Regs, Ps!MacRegs
  <2>3. ASSUME f = 4, s < 3 PROVE s < Len(Ps!PowerOnFlows[f])
    <3>1. Len(Ps!PowerOnFlows[f]) = 4
      BY <1>a, <2>3
    <3> QED
      BY <1>0, <2>3, <3>1
  <2>4. ASSUME f = 4, s = 3
        PROVE  /\ c.cmd = "write" /\ c.bus = "all" /\ c.reg = g.reg
               /\ g.on \subseteq c.value /\ g.off \subseteq c.mask /\ c.value \cap g.off = {}
    <3>1. c = Ps!W(Ps!CR, 0..5, 0..5)
      BY <2>4 DEF OnCmd
    <3> QED
      BY <2>1, <3>1, WriteIs DEF Fields, Ps!All
  <2>5. ASSUME f > 4 \/ (f = 4 /\ s > 3)
        PROVE  /\ c.reg = Ps!CR => 0..5 \cap c.mask \subseteq c.value /\ c.value \cap ({}) = {}
               /\ MacDown(c) /\ Ps!CR \in Ps!MacRegs => 0..5 = {}
    BY <1>0, <2>5, WriteIs DEF OnCmd, MacDown, Ps!MacRegs, Fields, Ps!All
  <2>6. ASSUME f = 4, s < 3 PROVE c.cmd \notin {"if", "if_on", "poll"}
    BY <1>0, <2>6 DEF OnCmd
  <2>7. Suits(g, f, s, Len(Ps!PowerOnFlows[f]), c)
    BY <2>1, <2>3, <2>4, <2>5, <2>6 DEF Suits
  <2> QED
    BY <2>2, <2>7 DEF g
<1>9. IsGoal(Goal(4, 4, Ps!CR_SEC, {1, 2}, {}))
        /\ Suits(Goal(4, 4, Ps!CR_SEC, {1, 2}, {}), f, s, Len(Ps!PowerOnFlows[f]), c)
  <2> DEFINE g == Goal(4, 4, Ps!CR_SEC, {1, 2}, {})
  <2>1. g.f = 4 /\ g.k = 4 /\ g.reg = Ps!CR_SEC /\ g.on = {1, 2} /\ g.off = {}
    BY DEF Goal
  <2> HIDE DEF g
  <2>2. IsGoal(g)
    BY <2>1 DEF IsGoal, Ps!Regs, Ps!MacRegs
  <2>3. ASSUME f = 4, s < 4 PROVE s < Len(Ps!PowerOnFlows[f])
    <3>1. Len(Ps!PowerOnFlows[f]) = 4
      BY <1>a, <2>3
    <3> QED
      BY <1>0, <2>3, <3>1
  <2>4. ASSUME f = 4, s = 4
        PROVE  /\ c.cmd = "write" /\ c.bus = "all" /\ c.reg = g.reg
               /\ g.on \subseteq c.value /\ g.off \subseteq c.mask /\ c.value \cap g.off = {}
    <3>1. c = Ps!W(Ps!CR_SEC, {1, 2}, {1, 2})
      BY <2>4 DEF OnCmd
    <3> QED
      BY <2>1, <3>1, WriteIs DEF Fields, Ps!All
  <2>5. ASSUME f > 4 \/ (f = 4 /\ s > 4)
        PROVE  /\ c.reg = Ps!CR_SEC => {1, 2} \cap c.mask \subseteq c.value /\ c.value \cap ({}) = {}
               /\ MacDown(c) /\ Ps!CR_SEC \in Ps!MacRegs => {1, 2} = {}
    BY <1>0, <2>5, WriteIs DEF OnCmd, MacDown, Ps!MacRegs, Fields, Ps!All
  <2>6. ASSUME f = 4, s < 4 PROVE c.cmd \notin {"if", "if_on", "poll"}
    BY <1>0, <2>6 DEF OnCmd
  <2>7. Suits(g, f, s, Len(Ps!PowerOnFlows[f]), c)
    BY <2>1, <2>3, <2>4, <2>5, <2>6 DEF Suits
  <2> QED
    BY <2>2, <2>7 DEF g
<1>10. IsGoal(Goal(6, 3, Ps!CPU_EN, {2}, {}))
         /\ Suits(Goal(6, 3, Ps!CPU_EN, {2}, {}), f, s, Len(Ps!PowerOnFlows[f]), c)
  <2> DEFINE g == Goal(6, 3, Ps!CPU_EN, {2}, {})
  <2>1. g.f = 6 /\ g.k = 3 /\ g.reg = Ps!CPU_EN /\ g.on = {2} /\ g.off = {}
    BY DEF Goal
  <2> HIDE DEF g
  <2>2. IsGoal(g)
    BY <2>1 DEF IsGoal, Ps!Regs, Ps!MacRegs
  <2>3. ASSUME f = 6, s < 3 PROVE s < Len(Ps!PowerOnFlows[f])
    <3>1. Len(Ps!PowerOnFlows[f]) = 7
      BY <1>a, <2>3
    <3> QED
      BY <1>0, <2>3, <3>1
  <2>4. ASSUME f = 6, s = 3
        PROVE  /\ c.cmd = "write" /\ c.bus = "all" /\ c.reg = g.reg
               /\ g.on \subseteq c.value /\ g.off \subseteq c.mask /\ c.value \cap g.off = {}
    <3>1. c = Ps!W(Ps!CPU_EN, {2}, {2})
      BY <2>4 DEF OnCmd
    <3> QED
      BY <2>1, <3>1, WriteIs DEF Fields, Ps!All
  <2>5. ASSUME f > 6 \/ (f = 6 /\ s > 3)
        PROVE  /\ c.reg = Ps!CPU_EN => {2} \cap c.mask \subseteq c.value /\ c.value \cap ({}) = {}
               /\ MacDown(c) /\ Ps!CPU_EN \in Ps!MacRegs => {2} = {}
    BY <1>0, <2>5, WriteIs DEF OnCmd, MacDown, Ps!MacRegs, Fields, Ps!All
  <2>6. ASSUME f = 6, s < 3 PROVE c.cmd \notin {"if", "if_on", "poll"}
    BY <1>0, <2>6 DEF OnCmd
  <2>7. Suits(g, f, s, Len(Ps!PowerOnFlows[f]), c)
    BY <2>1, <2>3, <2>4, <2>5, <2>6 DEF Suits
  <2> QED
    BY <2>2, <2>7 DEF g
<1>11. IsGoal(Goal(6, 6, Ps!MCUFW_CTRL, {7}, {}))
         /\ Suits(Goal(6, 6, Ps!MCUFW_CTRL, {7}, {}), f, s, Len(Ps!PowerOnFlows[f]), c)
  <2> DEFINE g == Goal(6, 6, Ps!MCUFW_CTRL, {7}, {})
  <2>1. g.f = 6 /\ g.k = 6 /\ g.reg = Ps!MCUFW_CTRL /\ g.on = {7} /\ g.off = {}
    BY DEF Goal
  <2> HIDE DEF g
  <2>2. IsGoal(g)
    BY <2>1 DEF IsGoal, Ps!Regs, Ps!MacRegs
  <2>3. ASSUME f = 6, s < 6 PROVE s < Len(Ps!PowerOnFlows[f])
    <3>1. Len(Ps!PowerOnFlows[f]) = 7
      BY <1>a, <2>3
    <3> QED
      BY <1>0, <2>3, <3>1
  <2>4. ASSUME f = 6, s = 6
        PROVE  /\ c.cmd = "write" /\ c.bus = "all" /\ c.reg = g.reg
               /\ g.on \subseteq c.value /\ g.off \subseteq c.mask /\ c.value \cap g.off = {}
    <3>1. c = Ps!W(Ps!MCUFW_CTRL, {0, 7}, {7})
      BY <2>4 DEF OnCmd
    <3> QED
      BY <2>1, <3>1, WriteIs DEF Fields, Ps!All
  <2>5. ASSUME f > 6 \/ (f = 6 /\ s > 6)
        PROVE  /\ c.reg = Ps!MCUFW_CTRL => {7} \cap c.mask \subseteq c.value /\ c.value \cap ({}) = {}
               /\ MacDown(c) /\ Ps!MCUFW_CTRL \in Ps!MacRegs => {7} = {}
    BY <1>0, <2>5, WriteIs DEF OnCmd, MacDown, Ps!MacRegs, Fields, Ps!All
  <2>6. ASSUME f = 6, s < 6 PROVE c.cmd \notin {"if", "if_on", "poll"}
    BY <1>0, <2>6 DEF OnCmd
  <2>7. Suits(g, f, s, Len(Ps!PowerOnFlows[f]), c)
    BY <2>1, <2>3, <2>4, <2>5, <2>6 DEF Suits
  <2> QED
    BY <2>2, <2>7 DEF g
<1>12. IsGoal(Goal(7, 2, Ps!CR, {6, 7}, {}))
         /\ Suits(Goal(7, 2, Ps!CR, {6, 7}, {}), f, s, Len(Ps!PowerOnFlows[f]), c)
  <2> DEFINE g == Goal(7, 2, Ps!CR, {6, 7}, {})
  <2>1. g.f = 7 /\ g.k = 2 /\ g.reg = Ps!CR /\ g.on = {6, 7} /\ g.off = {}
    BY DEF Goal
  <2> HIDE DEF g
  <2>2. IsGoal(g)
    BY <2>1 DEF IsGoal, Ps!Regs, Ps!MacRegs
  <2>3. ASSUME f = 7, s < 2 PROVE s < Len(Ps!PowerOnFlows[f])
    <3>1. Len(Ps!PowerOnFlows[f]) = 2
      BY <1>a, <2>3
    <3> QED
      BY <1>0, <2>3, <3>1
  <2>4. ASSUME f = 7, s = 2
        PROVE  /\ c.cmd = "write" /\ c.bus = "all" /\ c.reg = g.reg
               /\ g.on \subseteq c.value /\ g.off \subseteq c.mask /\ c.value \cap g.off = {}
    <3>1. c = Ps!W(Ps!CR, {6, 7}, {6, 7})
      BY <2>4 DEF OnCmd
    <3> QED
      BY <2>1, <3>1, WriteIs DEF Fields, Ps!All
  <2>5. ASSUME f > 7 \/ (f = 7 /\ s > 2)
        PROVE  /\ c.reg = Ps!CR => {6, 7} \cap c.mask \subseteq c.value /\ c.value \cap ({}) = {}
               /\ MacDown(c) /\ Ps!CR \in Ps!MacRegs => {6, 7} = {}
    BY <1>0, <2>5, WriteIs DEF OnCmd, MacDown, Ps!MacRegs, Fields, Ps!All
  <2>6. ASSUME f = 7, s < 2 PROVE c.cmd \notin {"if", "if_on", "poll"}
    BY <1>0, <2>6 DEF OnCmd
  <2>7. Suits(g, f, s, Len(Ps!PowerOnFlows[f]), c)
    BY <2>1, <2>3, <2>4, <2>5, <2>6 DEF Suits
  <2> QED
    BY <2>2, <2>7 DEF g
<1>13. IsGoal(Goal(8, 2, Ps!SYS_FUNC_EN, {0, 1}, {}))
         /\ Suits(Goal(8, 2, Ps!SYS_FUNC_EN, {0, 1}, {}), f, s, Len(Ps!PowerOnFlows[f]), c)
  <2> DEFINE g == Goal(8, 2, Ps!SYS_FUNC_EN, {0, 1}, {})
  <2>1. g.f = 8 /\ g.k = 2 /\ g.reg = Ps!SYS_FUNC_EN /\ g.on = {0, 1} /\ g.off = {}
    BY DEF Goal
  <2> HIDE DEF g
  <2>2. IsGoal(g)
    BY <2>1 DEF IsGoal, Ps!Regs, Ps!MacRegs
  <2>3. ASSUME f = 8, s < 2 PROVE s < Len(Ps!PowerOnFlows[f])
    <3>1. Len(Ps!PowerOnFlows[f]) = 6
      BY <1>a, <2>3
    <3> QED
      BY <1>0, <2>3, <3>1
  <2>4. ASSUME f = 8, s = 2
        PROVE  /\ c.cmd = "write" /\ c.bus = "all" /\ c.reg = g.reg
               /\ g.on \subseteq c.value /\ g.off \subseteq c.mask /\ c.value \cap g.off = {}
    <3>1. c = Ps!W(Ps!SYS_FUNC_EN, {0, 1}, {0, 1})
      BY <2>4 DEF OnCmd
    <3> QED
      BY <2>1, <3>1, WriteIs DEF Fields, Ps!All
  <2>5. ASSUME f > 8 \/ (f = 8 /\ s > 2)
        PROVE  /\ c.reg = Ps!SYS_FUNC_EN => {0, 1} \cap c.mask \subseteq c.value
                       /\ c.value \cap ({}) = {}
               /\ MacDown(c) /\ Ps!SYS_FUNC_EN \in Ps!MacRegs => {0, 1} = {}
    BY <1>0, <2>5, WriteIs DEF OnCmd, MacDown, Ps!MacRegs, Fields, Ps!All
  <2>6. ASSUME f = 8, s < 2 PROVE c.cmd \notin {"if", "if_on", "poll"}
    BY <1>0, <2>6 DEF OnCmd
  <2>7. Suits(g, f, s, Len(Ps!PowerOnFlows[f]), c)
    BY <2>1, <2>3, <2>4, <2>5, <2>6 DEF Suits
  <2> QED
    BY <2>2, <2>7 DEF g
<1>14. IsGoal(Goal(8, 3, Ps!RF_CTRL, 0..2, 3..7))
         /\ Suits(Goal(8, 3, Ps!RF_CTRL, 0..2, 3..7), f, s, Len(Ps!PowerOnFlows[f]), c)
  <2> DEFINE g == Goal(8, 3, Ps!RF_CTRL, 0..2, 3..7)
  <2>1. g.f = 8 /\ g.k = 3 /\ g.reg = Ps!RF_CTRL /\ g.on = 0..2 /\ g.off = 3..7
    BY DEF Goal
  <2> HIDE DEF g
  <2>2. IsGoal(g)
    BY <2>1 DEF IsGoal, Ps!Regs, Ps!MacRegs
  <2>3. ASSUME f = 8, s < 3 PROVE s < Len(Ps!PowerOnFlows[f])
    <3>1. Len(Ps!PowerOnFlows[f]) = 6
      BY <1>a, <2>3
    <3> QED
      BY <1>0, <2>3, <3>1
  <2>4. ASSUME f = 8, s = 3
        PROVE  /\ c.cmd = "write" /\ c.bus = "all" /\ c.reg = g.reg
               /\ g.on \subseteq c.value /\ g.off \subseteq c.mask /\ c.value \cap g.off = {}
    <3>1. c = Ps!W(Ps!RF_CTRL, Ps!All, 0..2)
      BY <2>4 DEF OnCmd
    <3> QED
      BY <2>1, <3>1, WriteIs DEF Fields, Ps!All
  <2>5. ASSUME f > 8 \/ (f = 8 /\ s > 3)
        PROVE  /\ c.reg = Ps!RF_CTRL => 0..2 \cap c.mask \subseteq c.value /\ c.value \cap (3..7) = {}
               /\ MacDown(c) /\ Ps!RF_CTRL \in Ps!MacRegs => 0..2 = {}
    BY <1>0, <2>5, WriteIs DEF OnCmd, MacDown, Ps!MacRegs, Fields, Ps!All
  <2>6. ASSUME f = 8, s < 3 PROVE c.cmd \notin {"if", "if_on", "poll"}
    BY <1>0, <2>6 DEF OnCmd
  <2>7. Suits(g, f, s, Len(Ps!PowerOnFlows[f]), c)
    BY <2>1, <2>3, <2>4, <2>5, <2>6 DEF Suits
  <2> QED
    BY <2>2, <2>7 DEF g
<1>15. IsGoal(Goal(8, 4, Ps!RF_B_CTRL, 0..2, 3..7))
         /\ Suits(Goal(8, 4, Ps!RF_B_CTRL, 0..2, 3..7), f, s, Len(Ps!PowerOnFlows[f]), c)
  <2> DEFINE g == Goal(8, 4, Ps!RF_B_CTRL, 0..2, 3..7)
  <2>1. g.f = 8 /\ g.k = 4 /\ g.reg = Ps!RF_B_CTRL /\ g.on = 0..2 /\ g.off = 3..7
    BY DEF Goal
  <2> HIDE DEF g
  <2>2. IsGoal(g)
    BY <2>1 DEF IsGoal, Ps!Regs, Ps!MacRegs
  <2>3. ASSUME f = 8, s < 4 PROVE s < Len(Ps!PowerOnFlows[f])
    <3>1. Len(Ps!PowerOnFlows[f]) = 6
      BY <1>a, <2>3
    <3> QED
      BY <1>0, <2>3, <3>1
  <2>4. ASSUME f = 8, s = 4
        PROVE  /\ c.cmd = "write" /\ c.bus = "all" /\ c.reg = g.reg
               /\ g.on \subseteq c.value /\ g.off \subseteq c.mask /\ c.value \cap g.off = {}
    <3>1. c = Ps!W(Ps!RF_B_CTRL, Ps!All, 0..2)
      BY <2>4 DEF OnCmd
    <3> QED
      BY <2>1, <3>1, WriteIs DEF Fields, Ps!All
  <2>5. ASSUME f > 8 \/ (f = 8 /\ s > 4)
        PROVE  /\ c.reg = Ps!RF_B_CTRL => 0..2 \cap c.mask \subseteq c.value
                       /\ c.value \cap (3..7) = {}
               /\ MacDown(c) /\ Ps!RF_B_CTRL \in Ps!MacRegs => 0..2 = {}
    BY <1>0, <2>5, WriteIs DEF OnCmd, MacDown, Ps!MacRegs, Fields, Ps!All
  <2>6. ASSUME f = 8, s < 4 PROVE c.cmd \notin {"if", "if_on", "poll"}
    BY <1>0, <2>6 DEF OnCmd
  <2>7. Suits(g, f, s, Len(Ps!PowerOnFlows[f]), c)
    BY <2>1, <2>3, <2>4, <2>5, <2>6 DEF Suits
  <2> QED
    BY <2>2, <2>7 DEF g
<1>16. IsGoal(Goal(8, 5, Ps!RF_A_3WIRE, 0..2, 3..7))
         /\ Suits(Goal(8, 5, Ps!RF_A_3WIRE, 0..2, 3..7), f, s, Len(Ps!PowerOnFlows[f]), c)
  <2> DEFINE g == Goal(8, 5, Ps!RF_A_3WIRE, 0..2, 3..7)
  <2>1. g.f = 8 /\ g.k = 5 /\ g.reg = Ps!RF_A_3WIRE /\ g.on = 0..2 /\ g.off = 3..7
    BY DEF Goal
  <2> HIDE DEF g
  <2>2. IsGoal(g)
    BY <2>1 DEF IsGoal, Ps!Regs, Ps!MacRegs
  <2>3. ASSUME f = 8, s < 5 PROVE s < Len(Ps!PowerOnFlows[f])
    <3>1. Len(Ps!PowerOnFlows[f]) = 6
      BY <1>a, <2>3
    <3> QED
      BY <1>0, <2>3, <3>1
  <2>4. ASSUME f = 8, s = 5
        PROVE  /\ c.cmd = "write" /\ c.bus = "all" /\ c.reg = g.reg
               /\ g.on \subseteq c.value /\ g.off \subseteq c.mask /\ c.value \cap g.off = {}
    <3>1. c = Ps!W(Ps!RF_A_3WIRE, Ps!All, 0..2)
      BY <2>4 DEF OnCmd
    <3> QED
      BY <2>1, <3>1, WriteIs DEF Fields, Ps!All
  <2>5. ASSUME f > 8 \/ (f = 8 /\ s > 5)
        PROVE  /\ c.reg = Ps!RF_A_3WIRE => 0..2 \cap c.mask \subseteq c.value
                       /\ c.value \cap (3..7) = {}
               /\ MacDown(c) /\ Ps!RF_A_3WIRE \in Ps!MacRegs => 0..2 = {}
    BY <1>0, <2>5, WriteIs DEF OnCmd, MacDown, Ps!MacRegs, Fields, Ps!All
  <2>6. ASSUME f = 8, s < 5 PROVE c.cmd \notin {"if", "if_on", "poll"}
    BY <1>0, <2>6 DEF OnCmd
  <2>7. Suits(g, f, s, Len(Ps!PowerOnFlows[f]), c)
    BY <2>1, <2>3, <2>4, <2>5, <2>6 DEF Suits
  <2> QED
    BY <2>2, <2>7 DEF g
<1>17. IsGoal(Goal(8, 6, Ps!RF_B_3WIRE, 0..2, 3..7))
         /\ Suits(Goal(8, 6, Ps!RF_B_3WIRE, 0..2, 3..7), f, s, Len(Ps!PowerOnFlows[f]), c)
  <2> DEFINE g == Goal(8, 6, Ps!RF_B_3WIRE, 0..2, 3..7)
  <2>1. g.f = 8 /\ g.k = 6 /\ g.reg = Ps!RF_B_3WIRE /\ g.on = 0..2 /\ g.off = 3..7
    BY DEF Goal
  <2> HIDE DEF g
  <2>2. IsGoal(g)
    BY <2>1 DEF IsGoal, Ps!Regs, Ps!MacRegs
  <2>3. ASSUME f = 8, s < 6 PROVE s < Len(Ps!PowerOnFlows[f])
    <3>1. Len(Ps!PowerOnFlows[f]) = 6
      BY <1>a, <2>3
    <3> QED
      BY <1>0, <2>3, <3>1
  <2>4. ASSUME f = 8, s = 6
        PROVE  /\ c.cmd = "write" /\ c.bus = "all" /\ c.reg = g.reg
               /\ g.on \subseteq c.value /\ g.off \subseteq c.mask /\ c.value \cap g.off = {}
    <3>1. c = Ps!W(Ps!RF_B_3WIRE, Ps!All, 0..2)
      BY <2>4 DEF OnCmd
    <3> QED
      BY <2>1, <3>1, WriteIs DEF Fields, Ps!All
  <2>5. ASSUME f > 8 \/ (f = 8 /\ s > 6)
        PROVE  /\ c.reg = Ps!RF_B_3WIRE => 0..2 \cap c.mask \subseteq c.value
                       /\ c.value \cap (3..7) = {}
               /\ MacDown(c) /\ Ps!RF_B_3WIRE \in Ps!MacRegs => 0..2 = {}
    BY <1>0, <2>5, WriteIs DEF OnCmd, MacDown, Ps!MacRegs, Fields, Ps!All
  <2>6. ASSUME f = 8, s < 6 PROVE c.cmd \notin {"if", "if_on", "poll"}
    BY <1>0, <2>6 DEF OnCmd
  <2>7. Suits(g, f, s, Len(Ps!PowerOnFlows[f]), c)
    BY <2>1, <2>3, <2>4, <2>5, <2>6 DEF Suits
  <2> QED
    BY <2>2, <2>7 DEF g
<1> HIDE DEF Ps!APS, Ps!CR, Ps!CPU_EN, Ps!MCUFW_CTRL, Ps!RF_A_3WIRE, Ps!RF_B_3WIRE, Ps!SYS_FUNC_EN,
      Ps!POWER_READY,
             Ps!TXPAUSE, Ps!CR_SEC, Ps!RSV_CTRL, Ps!RF_CTRL, Ps!RF_B_CTRL
<1> QED
  BY <1>1, <1>2, <1>3, <1>4, <1>5, <1>6, <1>7, <1>8, <1>9, <1>10, <1>11, <1>12, <1>13, <1>14, <1>15,
       <1>16, <1>17 DEF OnGoals

LEMMA OffSuits ==
  ASSUME NEW f \in 1..6, NEW s \in 1..Len(Ps!PowerOffFlows[f]), NEW c, OffCmd(f, s, c)
  PROVE  \A g \in OffGoals : IsGoal(g) /\ Suits(g, f, s, Len(Ps!PowerOffFlows[f]), c)
<1> USE DEF Ps!APS, Ps!CR, Ps!CPU_EN, Ps!MCUFW_CTRL, Ps!RF_A_3WIRE, Ps!RF_B_3WIRE, Ps!SYS_FUNC_EN,
      Ps!POWER_READY,
            Ps!TXPAUSE, Ps!CR_SEC, Ps!RSV_CTRL, Ps!RF_CTRL, Ps!RF_B_CTRL
<1>0. s \in Nat \ {0}
  BY OffCmds
<1>a. Len(Ps!PowerOffFlows[1]) = 2 /\ Len(Ps!PowerOffFlows[4]) = 2 /\ Len(Ps!PowerOffFlows[5]) = 25
  BY OffCmds
<1>1. IsGoal(Goal(1, 2, Ps!CR, {}, {6, 7}))
        /\ Suits(Goal(1, 2, Ps!CR, {}, {6, 7}), f, s, Len(Ps!PowerOffFlows[f]), c)
  <2> DEFINE g == Goal(1, 2, Ps!CR, {}, {6, 7})
  <2>1. g.f = 1 /\ g.k = 2 /\ g.reg = Ps!CR /\ g.on = {} /\ g.off = {6, 7}
    BY DEF Goal
  <2> HIDE DEF g
  <2>2. IsGoal(g)
    BY <2>1 DEF IsGoal, Ps!Regs, Ps!MacRegs
  <2>3. ASSUME f = 1, s < 2 PROVE s < Len(Ps!PowerOffFlows[f])
    <3>1. Len(Ps!PowerOffFlows[f]) = 2
      BY <1>a, <2>3
    <3> QED
      BY <1>0, <2>3, <3>1
  <2>4. ASSUME f = 1, s = 2
        PROVE  /\ c.cmd = "write" /\ c.bus = "all" /\ c.reg = g.reg
               /\ g.on \subseteq c.value /\ g.off \subseteq c.mask /\ c.value \cap g.off = {}
    <3>1. c = Ps!W(Ps!CR, Ps!All, {})
      BY <2>4 DEF OffCmd
    <3> QED
      BY <2>1, <3>1, WriteIs DEF Fields, Ps!All
  <2>5. ASSUME f > 1 \/ (f = 1 /\ s > 2)
        PROVE  /\ c.reg = Ps!CR => {} \cap c.mask \subseteq c.value /\ c.value \cap ({6, 7}) = {}
               /\ MacDown(c) /\ Ps!CR \in Ps!MacRegs => {} = {}
    BY <1>0, <2>5, WriteIs DEF OffCmd, MacDown, Ps!MacRegs, Fields, Ps!All
  <2>6. ASSUME f = 1, s < 2 PROVE c.cmd \notin {"if", "if_on", "poll"}
    BY <1>0, <2>6 DEF OffCmd
  <2>7. Suits(g, f, s, Len(Ps!PowerOffFlows[f]), c)
    BY <2>1, <2>3, <2>4, <2>5, <2>6 DEF Suits
  <2> QED
    BY <2>2, <2>7 DEF g
<1>2. IsGoal(Goal(4, 1, Ps!CPU_EN, {}, {2}))
        /\ Suits(Goal(4, 1, Ps!CPU_EN, {}, {2}), f, s, Len(Ps!PowerOffFlows[f]), c)
  <2> DEFINE g == Goal(4, 1, Ps!CPU_EN, {}, {2})
  <2>1. g.f = 4 /\ g.k = 1 /\ g.reg = Ps!CPU_EN /\ g.on = {} /\ g.off = {2}
    BY DEF Goal
  <2> HIDE DEF g
  <2>2. IsGoal(g)
    BY <2>1 DEF IsGoal, Ps!Regs, Ps!MacRegs
  <2>3. ASSUME f = 4, s < 1 PROVE s < Len(Ps!PowerOffFlows[f])
    <3>1. Len(Ps!PowerOffFlows[f]) = 2
      BY <1>a, <2>3
    <3> QED
      BY <1>0, <2>3, <3>1
  <2>4. ASSUME f = 4, s = 1
        PROVE  /\ c.cmd = "write" /\ c.bus = "all" /\ c.reg = g.reg
               /\ g.on \subseteq c.value /\ g.off \subseteq c.mask /\ c.value \cap g.off = {}
    <3>1. c = Ps!W(Ps!CPU_EN, {2}, {})
      BY <2>4 DEF OffCmd
    <3> QED
      BY <2>1, <3>1, WriteIs DEF Fields, Ps!All
  <2>5. ASSUME f > 4 \/ (f = 4 /\ s > 1)
        PROVE  /\ c.reg = Ps!CPU_EN => {} \cap c.mask \subseteq c.value /\ c.value \cap ({2}) = {}
               /\ MacDown(c) /\ Ps!CPU_EN \in Ps!MacRegs => {} = {}
    BY <1>0, <2>5, WriteIs DEF OffCmd, MacDown, Ps!MacRegs, Fields, Ps!All
  <2>6. ASSUME f = 4, s < 1 PROVE c.cmd \notin {"if", "if_on", "poll"}
    BY <1>0, <2>6 DEF OffCmd
  <2>7. Suits(g, f, s, Len(Ps!PowerOffFlows[f]), c)
    BY <2>1, <2>3, <2>4, <2>5, <2>6 DEF Suits
  <2> QED
    BY <2>2, <2>7 DEF g
<1>3. IsGoal(Goal(4, 2, Ps!MCUFW_CTRL, {}, {7}))
        /\ Suits(Goal(4, 2, Ps!MCUFW_CTRL, {}, {7}), f, s, Len(Ps!PowerOffFlows[f]), c)
  <2> DEFINE g == Goal(4, 2, Ps!MCUFW_CTRL, {}, {7})
  <2>1. g.f = 4 /\ g.k = 2 /\ g.reg = Ps!MCUFW_CTRL /\ g.on = {} /\ g.off = {7}
    BY DEF Goal
  <2> HIDE DEF g
  <2>2. IsGoal(g)
    BY <2>1 DEF IsGoal, Ps!Regs, Ps!MacRegs
  <2>3. ASSUME f = 4, s < 2 PROVE s < Len(Ps!PowerOffFlows[f])
    <3>1. Len(Ps!PowerOffFlows[f]) = 2
      BY <1>a, <2>3
    <3> QED
      BY <1>0, <2>3, <3>1
  <2>4. ASSUME f = 4, s = 2
        PROVE  /\ c.cmd = "write" /\ c.bus = "all" /\ c.reg = g.reg
               /\ g.on \subseteq c.value /\ g.off \subseteq c.mask /\ c.value \cap g.off = {}
    <3>1. c = Ps!W(Ps!MCUFW_CTRL, Ps!All, {})
      BY <2>4 DEF OffCmd
    <3> QED
      BY <2>1, <3>1, WriteIs DEF Fields, Ps!All
  <2>5. ASSUME f > 4 \/ (f = 4 /\ s > 2)
        PROVE  /\ c.reg = Ps!MCUFW_CTRL => {} \cap c.mask \subseteq c.value /\ c.value \cap ({7}) = {}
               /\ MacDown(c) /\ Ps!MCUFW_CTRL \in Ps!MacRegs => {} = {}
    BY <1>0, <2>5, WriteIs DEF OffCmd, MacDown, Ps!MacRegs, Fields, Ps!All
  <2>6. ASSUME f = 4, s < 2 PROVE c.cmd \notin {"if", "if_on", "poll"}
    BY <1>0, <2>6 DEF OffCmd
  <2>7. Suits(g, f, s, Len(Ps!PowerOffFlows[f]), c)
    BY <2>1, <2>3, <2>4, <2>5, <2>6 DEF Suits
  <2> QED
    BY <2>2, <2>7 DEF g
<1>4. IsGoal(Goal(5, 1, Ps!RF_A_3WIRE, {2}, Ps!All \ {2}))
        /\ Suits(Goal(5, 1, Ps!RF_A_3WIRE, {2}, Ps!All \ {2}), f, s, Len(Ps!PowerOffFlows[f]), c)
  <2> DEFINE g == Goal(5, 1, Ps!RF_A_3WIRE, {2}, Ps!All \ {2})
  <2>1. g.f = 5 /\ g.k = 1 /\ g.reg = Ps!RF_A_3WIRE /\ g.on = {2} /\ g.off = Ps!All \ {2}
    BY DEF Goal
  <2> HIDE DEF g
  <2>2. IsGoal(g)
    BY <2>1 DEF IsGoal, Ps!Regs, Ps!MacRegs
  <2>3. ASSUME f = 5, s < 1 PROVE s < Len(Ps!PowerOffFlows[f])
    <3>1. Len(Ps!PowerOffFlows[f]) = 25
      BY <1>a, <2>3
    <3> QED
      BY <1>0, <2>3, <3>1
  <2>4. ASSUME f = 5, s = 1
        PROVE  /\ c.cmd = "write" /\ c.bus = "all" /\ c.reg = g.reg
               /\ g.on \subseteq c.value /\ g.off \subseteq c.mask /\ c.value \cap g.off = {}
    <3>1. c = Ps!W(Ps!RF_A_3WIRE, Ps!All, {2})
      BY <2>4 DEF OffCmd
    <3> QED
      BY <2>1, <3>1, WriteIs DEF Fields, Ps!All
  <2>5. ASSUME f > 5 \/ (f = 5 /\ s > 1)
        PROVE  /\ c.reg = Ps!RF_A_3WIRE => {2} \cap c.mask \subseteq c.value
                       /\ c.value \cap (Ps!All \ {2}) = {}
               /\ MacDown(c) /\ Ps!RF_A_3WIRE \in Ps!MacRegs => {2} = {}
    BY <1>0, <2>5, WriteIs DEF OffCmd, MacDown, Ps!MacRegs, Fields, Ps!All
  <2>6. ASSUME f = 5, s < 1 PROVE c.cmd \notin {"if", "if_on", "poll"}
    BY <1>0, <2>6 DEF OffCmd
  <2>7. Suits(g, f, s, Len(Ps!PowerOffFlows[f]), c)
    BY <2>1, <2>3, <2>4, <2>5, <2>6 DEF Suits
  <2> QED
    BY <2>2, <2>7 DEF g
<1>5. IsGoal(Goal(5, 2, Ps!RF_B_3WIRE, {2}, Ps!All \ {2}))
        /\ Suits(Goal(5, 2, Ps!RF_B_3WIRE, {2}, Ps!All \ {2}), f, s, Len(Ps!PowerOffFlows[f]), c)
  <2> DEFINE g == Goal(5, 2, Ps!RF_B_3WIRE, {2}, Ps!All \ {2})
  <2>1. g.f = 5 /\ g.k = 2 /\ g.reg = Ps!RF_B_3WIRE /\ g.on = {2} /\ g.off = Ps!All \ {2}
    BY DEF Goal
  <2> HIDE DEF g
  <2>2. IsGoal(g)
    BY <2>1 DEF IsGoal, Ps!Regs, Ps!MacRegs
  <2>3. ASSUME f = 5, s < 2 PROVE s < Len(Ps!PowerOffFlows[f])
    <3>1. Len(Ps!PowerOffFlows[f]) = 25
      BY <1>a, <2>3
    <3> QED
      BY <1>0, <2>3, <3>1
  <2>4. ASSUME f = 5, s = 2
        PROVE  /\ c.cmd = "write" /\ c.bus = "all" /\ c.reg = g.reg
               /\ g.on \subseteq c.value /\ g.off \subseteq c.mask /\ c.value \cap g.off = {}
    <3>1. c = Ps!W(Ps!RF_B_3WIRE, Ps!All, {2})
      BY <2>4 DEF OffCmd
    <3> QED
      BY <2>1, <3>1, WriteIs DEF Fields, Ps!All
  <2>5. ASSUME f > 5 \/ (f = 5 /\ s > 2)
        PROVE  /\ c.reg = Ps!RF_B_3WIRE => {2} \cap c.mask \subseteq c.value
                       /\ c.value \cap (Ps!All \ {2}) = {}
               /\ MacDown(c) /\ Ps!RF_B_3WIRE \in Ps!MacRegs => {2} = {}
    BY <1>0, <2>5, WriteIs DEF OffCmd, MacDown, Ps!MacRegs, Fields, Ps!All
  <2>6. ASSUME f = 5, s < 2 PROVE c.cmd \notin {"if", "if_on", "poll"}
    BY <1>0, <2>6 DEF OffCmd
  <2>7. Suits(g, f, s, Len(Ps!PowerOffFlows[f]), c)
    BY <2>1, <2>3, <2>4, <2>5, <2>6 DEF Suits
  <2> QED
    BY <2>2, <2>7 DEF g
<1>6. IsGoal(Goal(5, 3, Ps!SYS_FUNC_EN, {}, {0}))
        /\ Suits(Goal(5, 3, Ps!SYS_FUNC_EN, {}, {0}), f, s, Len(Ps!PowerOffFlows[f]), c)
  <2> DEFINE g == Goal(5, 3, Ps!SYS_FUNC_EN, {}, {0})
  <2>1. g.f = 5 /\ g.k = 3 /\ g.reg = Ps!SYS_FUNC_EN /\ g.on = {} /\ g.off = {0}
    BY DEF Goal
  <2> HIDE DEF g
  <2>2. IsGoal(g)
    BY <2>1 DEF IsGoal, Ps!Regs, Ps!MacRegs
  <2>3. ASSUME f = 5, s < 3 PROVE s < Len(Ps!PowerOffFlows[f])
    <3>1. Len(Ps!PowerOffFlows[f]) = 25
      BY <1>a, <2>3
    <3> QED
      BY <1>0, <2>3, <3>1
  <2>4. ASSUME f = 5, s = 3
        PROVE  /\ c.cmd = "write" /\ c.bus = "all" /\ c.reg = g.reg
               /\ g.on \subseteq c.value /\ g.off \subseteq c.mask /\ c.value \cap g.off = {}
    <3>1. c = Ps!W(Ps!SYS_FUNC_EN, {0}, {})
      BY <2>4 DEF OffCmd
    <3> QED
      BY <2>1, <3>1, WriteIs DEF Fields, Ps!All
  <2>5. ASSUME f > 5 \/ (f = 5 /\ s > 3)
        PROVE  /\ c.reg = Ps!SYS_FUNC_EN => {} \cap c.mask \subseteq c.value
                       /\ c.value \cap ({0}) = {}
               /\ MacDown(c) /\ Ps!SYS_FUNC_EN \in Ps!MacRegs => {} = {}
    BY <1>0, <2>5, WriteIs DEF OffCmd, MacDown, Ps!MacRegs, Fields, Ps!All
  <2>6. ASSUME f = 5, s < 3 PROVE c.cmd \notin {"if", "if_on", "poll"}
    BY <1>0, <2>6 DEF OffCmd
  <2>7. Suits(g, f, s, Len(Ps!PowerOffFlows[f]), c)
    BY <2>1, <2>3, <2>4, <2>5, <2>6 DEF Suits
  <2> QED
    BY <2>2, <2>7 DEF g
<1> HIDE DEF Ps!APS, Ps!CR, Ps!CPU_EN, Ps!MCUFW_CTRL, Ps!RF_A_3WIRE, Ps!RF_B_3WIRE, Ps!SYS_FUNC_EN,
      Ps!POWER_READY,
             Ps!TXPAUSE, Ps!CR_SEC, Ps!RSV_CTRL, Ps!RF_CTRL, Ps!RF_B_CTRL
<1> QED
  BY <1>1, <1>2, <1>3, <1>4, <1>5, <1>6 DEF OffGoals

LEMMA ProbeSuits ==
  ASSUME NEW f \in 1..6, NEW s \in 1..Len(Ps!ProbeFlows[f]), NEW c, ProbeCmd(f, s, c)
  PROVE  \A g \in ProbeGoals : IsGoal(g) /\ Suits(g, f, s, Len(Ps!ProbeFlows[f]), c)
<1> USE DEF Ps!APS, Ps!CR, Ps!CPU_EN, Ps!MCUFW_CTRL, Ps!RF_A_3WIRE, Ps!RF_B_3WIRE, Ps!SYS_FUNC_EN,
      Ps!POWER_READY,
            Ps!TXPAUSE, Ps!CR_SEC, Ps!RSV_CTRL, Ps!RF_CTRL, Ps!RF_B_CTRL
<1>0. s \in Nat \ {0}
  BY ProbeCmds
<1>a. Len(Ps!ProbeFlows[4]) = 20 /\ Len(Ps!ProbeFlows[6]) = 7
  BY ProbeCmds
<1>1. IsGoal(Goal(4, 9, Ps!APS, {}, {3}))
        /\ Suits(Goal(4, 9, Ps!APS, {}, {3}), f, s, Len(Ps!ProbeFlows[f]), c)
  <2> DEFINE g == Goal(4, 9, Ps!APS, {}, {3})
  <2>1. g.f = 4 /\ g.k = 9 /\ g.reg = Ps!APS /\ g.on = {} /\ g.off = {3}
    BY DEF Goal
  <2> HIDE DEF g
  <2>2. IsGoal(g)
    BY <2>1 DEF IsGoal, Ps!Regs, Ps!MacRegs
  <2>3. ASSUME f = 4, s < 9 PROVE s < Len(Ps!ProbeFlows[f])
    <3>1. Len(Ps!ProbeFlows[f]) = 20
      BY <1>a, <2>3
    <3> QED
      BY <1>0, <2>3, <3>1
  <2>4. ASSUME f = 4, s = 9
        PROVE  /\ c.cmd = "write" /\ c.bus = "all" /\ c.reg = g.reg
               /\ g.on \subseteq c.value /\ g.off \subseteq c.mask /\ c.value \cap g.off = {}
    <3>1. c = Ps!W(Ps!APS, {3}, {})
      BY <2>4 DEF ProbeCmd
    <3> QED
      BY <2>1, <3>1, WriteIs DEF Fields, Ps!All
  <2>5. ASSUME f > 4 \/ (f = 4 /\ s > 9)
        PROVE  /\ c.reg = Ps!APS => {} \cap c.mask \subseteq c.value /\ c.value \cap ({3}) = {}
               /\ MacDown(c) /\ Ps!APS \in Ps!MacRegs => {} = {}
    BY <1>0, <2>5, WriteIs DEF ProbeCmd, MacDown, Ps!MacRegs, Fields, Ps!All
  <2>6. ASSUME f = 4, s < 9 PROVE c.cmd \notin {"if", "if_on", "poll"}
    BY <1>0, <2>6 DEF ProbeCmd
  <2>7. Suits(g, f, s, Len(Ps!ProbeFlows[f]), c)
    BY <2>1, <2>3, <2>4, <2>5, <2>6 DEF Suits
  <2> QED
    BY <2>2, <2>7 DEF g
<1>2. IsGoal(Goal(6, 6, Ps!MCUFW_CTRL, {7}, {}))
        /\ Suits(Goal(6, 6, Ps!MCUFW_CTRL, {7}, {}), f, s, Len(Ps!ProbeFlows[f]), c)
  <2> DEFINE g == Goal(6, 6, Ps!MCUFW_CTRL, {7}, {})
  <2>1. g.f = 6 /\ g.k = 6 /\ g.reg = Ps!MCUFW_CTRL /\ g.on = {7} /\ g.off = {}
    BY DEF Goal
  <2> HIDE DEF g
  <2>2. IsGoal(g)
    BY <2>1 DEF IsGoal, Ps!Regs, Ps!MacRegs
  <2>3. ASSUME f = 6, s < 6 PROVE s < Len(Ps!ProbeFlows[f])
    <3>1. Len(Ps!ProbeFlows[f]) = 7
      BY <1>a, <2>3
    <3> QED
      BY <1>0, <2>3, <3>1
  <2>4. ASSUME f = 6, s = 6
        PROVE  /\ c.cmd = "write" /\ c.bus = "all" /\ c.reg = g.reg
               /\ g.on \subseteq c.value /\ g.off \subseteq c.mask /\ c.value \cap g.off = {}
    <3>1. c = Ps!W(Ps!MCUFW_CTRL, {0, 7}, {7})
      BY <2>4 DEF ProbeCmd
    <3> QED
      BY <2>1, <3>1, WriteIs DEF Fields, Ps!All
  <2>5. ASSUME f > 6 \/ (f = 6 /\ s > 6)
        PROVE  /\ c.reg = Ps!MCUFW_CTRL => {7} \cap c.mask \subseteq c.value /\ c.value \cap ({}) = {}
               /\ MacDown(c) /\ Ps!MCUFW_CTRL \in Ps!MacRegs => {7} = {}
    BY <1>0, <2>5, WriteIs DEF ProbeCmd, MacDown, Ps!MacRegs, Fields, Ps!All
  <2>6. ASSUME f = 6, s < 6 PROVE c.cmd \notin {"if", "if_on", "poll"}
    BY <1>0, <2>6 DEF ProbeCmd
  <2>7. Suits(g, f, s, Len(Ps!ProbeFlows[f]), c)
    BY <2>1, <2>3, <2>4, <2>5, <2>6 DEF Suits
  <2> QED
    BY <2>2, <2>7 DEF g
<1> HIDE DEF Ps!APS, Ps!CR, Ps!CPU_EN, Ps!MCUFW_CTRL, Ps!RF_A_3WIRE, Ps!RF_B_3WIRE, Ps!SYS_FUNC_EN,
      Ps!POWER_READY,
             Ps!TXPAUSE, Ps!CR_SEC, Ps!RSV_CTRL, Ps!RF_CTRL, Ps!RF_B_CTRL
<1> QED
  BY <1>1, <1>2 DEF ProbeGoals

(* The three registers a sequence touches only in part keep their other    *)
(* bits clear.                                                             *)
LEMMA FitsKept ==
  ASSUME PwTypes, Given, Effect(Ps!Cur)
  PROVE  reg'[\h14] \subseteq {7} /\ reg'[\h15] \subseteq {0} /\ reg'[\h23] \subseteq {4}
<1>1. ASSUME NEW r \in Ps!Regs
      PROVE  \/ reg'[r] = reg[r]
             \/ Ps!Cur.reg = r /\ reg'[r] = (reg[r] \ Ps!Cur.mask) \cup Ps!Cur.value
             \/ reg'[r] = {}
  BY DEF Effect
<1>2. \h14 \in Ps!Regs /\ \h15 \in Ps!Regs /\ \h23 \in Ps!Regs
  BY DEF Ps!Regs
<1>3. /\ Ps!Cur.reg = \h14 => Ps!Cur.value \subseteq {7}
      /\ Ps!Cur.reg = \h15 => Ps!Cur.value \subseteq {0}
      /\ Ps!Cur.reg = \h23 => Ps!Cur.value \subseteq {4}
  BY DEF Given, CmdFits
<1>4. reg[\h14] \subseteq {7} /\ reg[\h15] \subseteq {0} /\ reg[\h23] \subseteq {4}
  BY DEF PwTypes
<1>5. reg'[\h14] \subseteq {7}
  BY <1>1, <1>2, <1>3, <1>4
<1>6. reg'[\h15] \subseteq {0}
  BY <1>1, <1>2, <1>3, <1>4
<1>7. reg'[\h23] \subseteq {4}
  BY <1>1, <1>2, <1>3, <1>4
<1> QED
  BY <1>5, <1>6, <1>7

LEMMA TypesKept ==
  ASSUME PwTypes, Kinds, GoesOn
  PROVE  PwTypes' /\ Kinds'
<1> USE DEF Ps!APS
<1>1. /\ call' = call /\ flag' = flag /\ probed' = probed /\ in_call' \in Nat
      /\ Given /\ ~Ps!Ended /\ Effect(Ps!Cur) /\ Onward(Ps!Cur)
  BY CallCur DEF GoesOn
<1>2. reg' \in [Ps!Regs -> SUBSET Ps!All] /\ mac' \in BOOLEAN
  BY <1>1 DEF Effect
<1>3. reg'[\h14] \subseteq {7} /\ reg'[\h15] \subseteq {0} /\ reg'[\h23] \subseteq {4}
  BY <1>1, FitsKept
<1>4. Ps!Flows' = Ps!Flows
  BY <1>1 DEF Ps!Flows
<1>5. /\ flow' \in Nat \ {0} /\ step' \in Nat \ {0}
      /\ ~Ps!Ended' => step' <= Len(Ps!Flows'[flow'])
  <2>1. flow \in Nat \ {0} /\ step \in Nat \ {0} /\ flow \in 1..Len(Ps!Flows)
    BY <1>1 DEF Given, PwTypes
  <2>2. \/ flow' = flow /\ step' = step + 1 /\ step < Len(Ps!Flows[flow])
        \/ flow' = flow + 1 /\ step' = 1
    BY <1>1 DEF Onward
  <2>3. \A f \in 1..Len(Ps!Flows) : Len(Ps!Flows[f]) \in Nat \ {0}
    BY <1>1, CallCur
  <2>4. ASSUME ~Ps!Ended' PROVE flow' <= Len(Ps!Flows)
    <3>1. ~(flow' > Len(Ps!Flows'))
      BY <2>4 DEF Ps!Ended
    <3>2. Len(Ps!Flows) \in Nat
      BY <1>1, OnCur, OffCur, ProbeCur, UnprobeCur DEF PwTypes, Calls, Ps!Ended
    <3> QED
      BY <1>4, <2>1, <2>2, <3>1, <3>2
  <2>5. CASE flow' = flow /\ step' = step + 1 /\ step < Len(Ps!Flows[flow])
    BY <1>4, <2>1, <2>3, <2>5
  <2>6. CASE flow' = flow + 1 /\ step' = 1
    <3>1. flow' \in Nat \ {0} /\ step' \in Nat \ {0}
      BY <2>1, <2>6
    <3>2. ASSUME ~Ps!Ended' PROVE step' <= Len(Ps!Flows'[flow'])
      <4>1. flow' \in 1..Len(Ps!Flows)
        BY <2>4, <3>1, <3>2
      <4>2. Len(Ps!Flows[flow']) \in Nat \ {0}
        BY <2>3, <4>1
      <4>3. step' <= Len(Ps!Flows[flow'])
        BY <2>6, <4>2
      <4> QED
        BY <1>4, <4>3
    <3> QED
      BY <3>1, <3>2
  <2> QED
    BY <2>2, <2>5, <2>6
<1>6. PwTypes'
  BY <1>1, <1>2, <1>3, <1>5 DEF PwTypes
<1>7. Kinds'
  BY <1>1 DEF Kinds
<1> QED
  BY <1>6, <1>7

(* What a step does to the two registers that tell of a running chip.      *)
LEMMA Unwritten ==
  ASSUME PwTypes, GoesOn
  PROVE  /\ Ps!MCUFW_CTRL \in Ps!Regs /\ Ps!CR \in Ps!Regs /\ Ps!MCUFW_CTRL \notin Ps!MacRegs
         /\ reg'[Ps!MCUFW_CTRL] # reg[Ps!MCUFW_CTRL] =>
              /\ Ps!Cur.reg = Ps!MCUFW_CTRL /\ Ps!Cur.cmd \in {"write", "restore", "poll", "try_poll"}
              /\ reg'[Ps!MCUFW_CTRL] = (reg[Ps!MCUFW_CTRL] \ Ps!Cur.mask) \cup Ps!Cur.value
         /\ reg'[Ps!CR] \in {reg[Ps!CR], {}}
              \/ (Ps!Cur.reg = Ps!CR /\ reg'[Ps!CR] = (reg[Ps!CR] \ Ps!Cur.mask) \cup Ps!Cur.value)
         /\ Ps!Cur.cmd = "write" /\ Ps!Cur.bus = "all" /\ Ps!Cur.reg = Ps!MCUFW_CTRL =>
              reg'[Ps!MCUFW_CTRL] = (reg[Ps!MCUFW_CTRL] \ Ps!Cur.mask) \cup Ps!Cur.value
         /\ Ps!Cur.cmd = "write" /\ Ps!Cur.bus = "all" /\ Ps!Cur.reg = Ps!CR =>
              reg'[Ps!CR] = (reg[Ps!CR] \ Ps!Cur.mask) \cup Ps!Cur.value
<1> USE DEF Ps!MCUFW_CTRL, Ps!CR
<1>1. Ps!MCUFW_CTRL \in Ps!Regs /\ Ps!CR \in Ps!Regs /\ Ps!MCUFW_CTRL \notin Ps!MacRegs
  BY DEF Ps!Regs, Ps!MacRegs, Ps!CR_SEC, Ps!TXPAUSE
<1>2. ASSUME NEW r \in Ps!Regs
      PROVE  \/ reg'[r] = reg[r] /\ (Ps!Cur.cmd = "write" /\ Ps!Cur.bus = "all" => Ps!Cur.reg # r)
             \/ /\ Ps!Cur.cmd \in {"write", "restore", "poll", "try_poll"} /\ Ps!Cur.reg = r
                /\ reg'[r] = (reg[r] \ Ps!Cur.mask) \cup Ps!Cur.value
             \/ MacDown(Ps!Cur) /\ r \in Ps!MacRegs /\ reg'[r] = {}
  BY DEF GoesOn, Effect
<1> HIDE DEF Ps!MCUFW_CTRL, Ps!CR
<1> QED
  BY <1>1, <1>2 DEF MacDown

(* The four parts of the invariant over a step that keeps the call going:  *)
(* one lemma for each kind of call.                                        *)
LEMMA OnKept ==
  ASSUME PwTypes, Kinds, OnSays, call = "on", GoesOn
  PROVE  OnSays' /\ IdleSays'
<1>1. Given /\ flow \in 1..9 /\ OnCmd(flow, step, Ps!Cur) /\ Ps!Flows = Ps!PowerOnFlows
      /\ step \in 1..Len(Ps!PowerOnFlows[flow]) /\ call' = "on"
  BY OnCur DEF GoesOn, Given
<1>2. Reached(OnGoals)'
  <2>1. \A g \in OnGoals : IsGoal(g) /\ Suits(g, flow, step, Len(Ps!Flows[flow]), Ps!Cur)
    BY <1>1, OnSuits
  <2> QED
    BY <2>1, GoalsKept DEF OnSays
<1>3. /\ ~Past(2, 6) => Telltale
      /\ Past(2, 6) /\ flow < 6 => 7 \notin reg[Ps!MCUFW_CTRL]
      /\ Past(2, 9) /\ flow < 7 => Quiet
  BY DEF OnSays
<1>a. /\ Ps!Cur.reg = Ps!MCUFW_CTRL /\ Ps!Cur.cmd # "if" => (flow = 2 /\ step = 6) \/ flow = 6
      /\ Ps!Cur.reg = Ps!CR => (flow = 2 /\ step = 9) \/ (flow = 4
           /\ step \in {1, 3}) \/ (flow = 7 /\ step = 2)
      /\ flow = 2 /\ step = 6 => Ps!Cur = Ps!W(Ps!MCUFW_CTRL, Ps!All, {})
      /\ flow = 2 /\ step = 9 => Ps!Cur = Ps!W(Ps!CR, Ps!All, {})
      /\ flow = 2 /\ step = 1 => Ps!Cur = Ps!If(Ps!MCUFW_CTRL, {7})
      /\ flow = 4 /\ step = 1 => Ps!Cur = Ps!W(Ps!CR, Ps!All, {})
      /\ flow = 4 /\ step = 3 => Ps!Cur = Ps!W(Ps!CR, 0..5, 0..5)
      /\ Ps!Cur.cmd = "if" => flow = 2 /\ step = 1
      /\ Ps!Cur.cmd # "if_on"
  <2>1. /\ flow = 2 /\ step = 1 => Ps!Cur = Ps!If(Ps!MCUFW_CTRL, {7})
        /\ Ps!Cur.reg = Ps!MCUFW_CTRL => (flow = 2 /\ step \in {1, 6}) \/ (flow = 6
             /\ step \in {4, 6})
    BY <1>1 DEF OnCmd
  <2>2. flow = 2 /\ step = 1 => Ps!Cur.cmd = "if"
    BY <2>1, IfIs DEF Fields
  <2>3. /\ Ps!Cur.reg = Ps!CR => (flow = 2 /\ step = 9) \/ (flow = 4
             /\ step \in {1, 3}) \/ (flow = 7 /\ step = 2)
        /\ flow = 2 /\ step = 6 => Ps!Cur = Ps!W(Ps!MCUFW_CTRL, Ps!All, {})
        /\ flow = 2 /\ step = 9 => Ps!Cur = Ps!W(Ps!CR, Ps!All, {})
    BY <1>1 DEF OnCmd
  <2>4. /\ flow = 4 /\ step = 1 => Ps!Cur = Ps!W(Ps!CR, Ps!All, {})
        /\ flow = 4 /\ step = 3 => Ps!Cur = Ps!W(Ps!CR, 0..5, 0..5)
        /\ Ps!Cur.cmd = "if" => flow = 2 /\ step = 1
        /\ Ps!Cur.cmd # "if_on"
    BY <1>1 DEF OnCmd
  <2> QED
    BY <2>1, <2>2, <2>3, <2>4
<1>d. flow = 2 => Len(Ps!Flows[flow]) = 15
  <2>1. ASSUME flow = 2 PROVE Len(Ps!PowerOnFlows[flow]) = 15
    BY <2>1, OnCmds
  <2> QED
    BY <1>1, <2>1
<1>b. /\ \/ flow' = flow /\ step' = step + 1
         \/ flow' = flow + 1 /\ step' = 1 /\ (step = Len(Ps!Flows[flow]) \/ (Ps!Cur.cmd = "if"
           /\ ~Ps!Has(reg, Ps!Cur)) \/ Ps!Cur.cmd = "if_on")
      /\ flow \in Nat /\ step \in Nat /\ step >= 1
  BY DEF GoesOn, Onward, PwTypes
<1>c. reg[Ps!MCUFW_CTRL] \subseteq Ps!All /\ reg[Ps!CR] \subseteq Ps!All
  BY Unwritten DEF PwTypes
<1>4. ASSUME ~Past(2, 6)' PROVE Telltale'
  <2>1. flow < 2 \/ (flow = 2 /\ step < 6)
    BY <1>4, <1>b DEF Past
  <2>2. ~Past(2, 6)
    BY <1>b, <2>1 DEF Past
  <2>3. reg'[Ps!MCUFW_CTRL] = reg[Ps!MCUFW_CTRL] /\ reg'[Ps!CR] \in {reg[Ps!CR], {}}
    BY <1>a, <2>1, Unwritten
  <2> QED
    BY <1>3, <2>2, <2>3 DEF Telltale, Quiet
<1>5. ASSUME Past(2, 6)', flow' < 6 PROVE 7 \notin reg'[Ps!MCUFW_CTRL]
  <2>1. CASE Past(2, 6)
    <3>1. flow < 6 /\ ~(flow = 2 /\ step = 6)
      BY <1>5, <1>b, <2>1 DEF Past
    <3>2. reg'[Ps!MCUFW_CTRL] = reg[Ps!MCUFW_CTRL]
      BY <1>a, <3>1, Unwritten
    <3> QED
      BY <1>3, <2>1, <3>1, <3>2
  <2>2. CASE ~Past(2, 6)
    <3>1. flow = 2 /\ step <= 6
      BY <1>5, <1>b, <2>2 DEF Past
    <3>2. CASE step = 6
      <4>1. Fields(Ps!Cur, "write", "all", Ps!MCUFW_CTRL, Ps!All, {})
        BY <1>a, <3>1, <3>2, WriteIs
      <4>2. reg'[Ps!MCUFW_CTRL] = (reg[Ps!MCUFW_CTRL] \ Ps!All) \cup {}
        BY <4>1, Unwritten DEF Fields
      <4> QED
        BY <1>c, <4>2
    <3>3. CASE step # 6
      <4>1. flow' = flow + 1 /\ Ps!Cur.cmd = "if" /\ ~Ps!Has(reg, Ps!Cur)
        <5>1. flow' > 2 \/ (flow' = 2 /\ step' > 6)
          BY <1>5 DEF Past
        <5>2. flow \in Nat /\ step \in Nat /\ step < 6
          BY <1>b, <3>1, <3>3
        <5>3. ~(flow' = flow /\ step' = step + 1)
          BY <3>1, <5>1, <5>2
        <5>4. Ps!Cur.cmd # "if_on" /\ step # Len(Ps!Flows[flow])
          BY <1>a, <1>d, <3>1, <5>2
        <5> QED
          BY <1>b, <5>3, <5>4
      <4>2. Fields(Ps!Cur, "if", "all", Ps!MCUFW_CTRL, {7}, {7})
        BY <1>a, <4>1, IfIs
      <4>3. 7 \notin reg[Ps!MCUFW_CTRL]
        BY <4>1, <4>2 DEF Ps!Has, Fields
      <4> QED
        BY <4>1, <4>3, Unwritten
    <3> QED
      BY <3>2, <3>3
  <2> QED
    BY <2>1, <2>2
<1>6. ASSUME Past(2, 9)', flow' < 7 PROVE Quiet'
  <2>1. CASE Past(2, 9)
    <3>1. flow < 7 /\ ~(flow = 2 /\ step = 9)
      BY <1>6, <1>b, <2>1 DEF Past
    <3>2. Quiet
      BY <1>3, <2>1, <3>1
    <3>3. CASE Ps!Cur.reg # Ps!CR
      BY <3>2, <3>3, Unwritten DEF Quiet
    <3>4. CASE Ps!Cur.reg = Ps!CR
      <4>1. Fields(Ps!Cur, "write", "all", Ps!CR, Ps!All, {})
              \/ Fields(Ps!Cur, "write", "all", Ps!CR, 0..5, 0..5)
        BY <1>a, <3>1, <3>4, WriteIs
      <4>2. reg'[Ps!CR] = {} \/ reg'[Ps!CR] = (reg[Ps!CR] \ (0..5)) \cup (0..5)
        BY <1>c, <4>1, Unwritten DEF Fields
      <4> QED
        BY <3>2, <4>2 DEF Quiet
    <3> QED
      BY <3>3, <3>4
  <2>2. CASE ~Past(2, 9)
    <3>1. flow = 2 /\ step <= 9
      BY <1>6, <1>b, <2>2 DEF Past
    <3>2. CASE step = 9
      <4>1. Fields(Ps!Cur, "write", "all", Ps!CR, Ps!All, {})
        BY <1>a, <3>1, <3>2, WriteIs
      <4>2. reg'[Ps!CR] = (reg[Ps!CR] \ Ps!All) \cup {}
        BY <4>1, Unwritten DEF Fields
      <4> QED
        BY <1>c, <4>2 DEF Quiet
    <3>3. CASE step # 9
      <4>1. flow' = flow + 1 /\ Ps!Cur.cmd = "if" /\ ~Ps!Has(reg, Ps!Cur)
        <5>1. flow' > 2 \/ (flow' = 2 /\ step' > 9)
          BY <1>6 DEF Past
        <5>2. flow \in Nat /\ step \in Nat /\ step < 9
          BY <1>b, <3>1, <3>3
        <5>3. ~(flow' = flow /\ step' = step + 1)
          BY <3>1, <5>1, <5>2
        <5>4. Ps!Cur.cmd # "if_on" /\ step # Len(Ps!Flows[flow])
          BY <1>a, <1>d, <3>1, <5>2
        <5> QED
          BY <1>b, <5>3, <5>4
      <4>2. Fields(Ps!Cur, "if", "all", Ps!MCUFW_CTRL, {7}, {7}) /\ step = 1
        BY <1>a, <4>1, IfIs
      <4>3. 7 \notin reg[Ps!MCUFW_CTRL]
        BY <4>1, <4>2 DEF Ps!Has, Fields
      <4>4. Quiet
        BY <1>3, <3>1, <4>2, <4>3 DEF Telltale, Past
      <4>5. Ps!Cur.reg # Ps!CR
        BY <4>2 DEF Fields, Ps!CR, Ps!MCUFW_CTRL
      <4> QED
        BY <4>4, <4>5, Unwritten DEF Quiet
    <3> QED
      BY <3>2, <3>3
  <2> QED
    BY <2>1, <2>2
<1>7. OnSays'
  BY <1>2, <1>4, <1>5, <1>6 DEF OnSays
<1>8. IdleSays'
  BY <1>1 DEF IdleSays
<1> QED
  BY <1>7, <1>8

LEMMA OffKept ==
  ASSUME PwTypes, Kinds, OffSays, IdleSays, call = "off", GoesOn
  PROVE  OffSays' /\ IdleSays'
<1>1. Given /\ flow \in 1..6 /\ OffCmd(flow, step, Ps!Cur) /\ Ps!Flows = Ps!PowerOffFlows
      /\ step \in 1..Len(Ps!PowerOffFlows[flow]) /\ call' = "off"
  BY OffCur DEF GoesOn, Given
<1>2. Reached(OffGoals)'
  <2>1. \A g \in OffGoals : IsGoal(g) /\ Suits(g, flow, step, Len(Ps!Flows[flow]), Ps!Cur)
    BY <1>1, OffSuits
  <2> QED
    BY <2>1, GoalsKept DEF OffSays
<1>3. /\ Ps!Cur.cmd \in {"write", "poll", "if", "restore"} /\ (Ps!Cur.cmd = "if" => flow = 3)
      /\ Ps!Cur.cmd = "poll" => (flow = 2
           /\ Ps!Cur.reg \notin {Ps!APS, Ps!POWER_READY}) \/ (flow = 5 /\ step = 8)
      /\ flow = 5 /\ step = 8 => Fields(Ps!Cur, "poll", "all", Ps!APS, {1}, {})
      /\ flow = 1 => Ps!Cur.reg # Ps!MCUFW_CTRL
      /\ Ps!Cur.reg = Ps!CR => Ps!Cur.value \cap {6, 7} = {}
  BY <1>1, PollIs DEF OffCmd
<1>4. /\ \/ flow' = flow /\ step' = step + 1 /\ (Ps!Cur.cmd = "poll" => Ps!Answers(Ps!Cur))
         \/ /\ flow' = flow + 1 /\ step' = 1
            /\ \/ step = Len(Ps!Flows[flow]) \/ Ps!Cur.cmd \in {"if", "if_on"}
               \/ Ps!Cur.cmd = "poll" /\ (Ps!Cur.reg # Ps!POWER_READY => in_call' > 0)
      /\ flow \in Nat /\ step \in Nat /\ step >= 1
  BY DEF GoesOn, Onward, PwTypes
<1>5. ASSUME Past(5, 8)' PROVE MacOff'
  <2>1. CASE Past(5, 8)
    <3>1. Ps!Cur.cmd # "poll"
      BY <1>3, <1>4, <2>1 DEF Past
    <3>2. mac' = mac
      BY <1>3, <3>1 DEF GoesOn, Effect
    <3>3. in_call' >= in_call /\ in_call \in Nat /\ in_call' \in Nat /\ MacOff
      BY <2>1 DEF GoesOn, PwTypes, OffSays
    <3> QED
      BY <3>2, <3>3 DEF MacOff
  <2>2. CASE ~Past(5, 8)
    <3>1. flow = 5 /\ step <= 8 /\ Len(Ps!Flows[flow]) = 25
      BY <1>1, <1>4, <1>5, <2>2, OffCmds DEF Past
    <3>2. step = 8
      BY <1>3, <1>4, <1>5, <3>1 DEF Past
    <3>3. Fields(Ps!Cur, "poll", "all", Ps!APS, {1}, {})
      BY <1>3, <3>1, <3>2
    <3>4. Ps!Answers(Ps!Cur) \/ in_call' > 0
      BY <1>4, <3>1, <3>2, <3>3 DEF Fields, Ps!APS, Ps!POWER_READY
    <3>5. Ps!Answers(Ps!Cur) => mac' = FALSE
      BY <3>3 DEF Ps!Answers, Fields
    <3> QED
      BY <3>4, <3>5 DEF MacOff
  <2> QED
    BY <2>1, <2>2
<1>6. Telltale'
  <2>1. CASE Past(1, 2)'
    <3>1. Goal(1, 2, Ps!CR, {}, {6, 7}) \in OffGoals
      BY DEF OffGoals
    <3>2. reg'[Ps!CR] \cap {6, 7} = {}
      BY <1>2, <2>1, <3>1 DEF Reached, Goal
    <3> QED
      BY <3>2 DEF Telltale, Quiet
  <2>2. CASE ~Past(1, 2)'
    <3>1. flow = 1
      BY <1>1, <1>4, <2>2 DEF Past
    <3>2. reg'[Ps!MCUFW_CTRL] = reg[Ps!MCUFW_CTRL]
      BY <1>3, <3>1, Unwritten
    <3>3. Quiet => Quiet'
      BY <1>3, Unwritten DEF Quiet
    <3>4. Telltale
      BY DEF IdleSays, Kinds
    <3> QED
      BY <3>2, <3>3, <3>4 DEF Telltale
  <2> QED
    BY <2>1, <2>2
<1> QED
  BY <1>1, <1>2, <1>5, <1>6 DEF OffSays, IdleSays

LEMMA ProbeKept ==
  ASSUME PwTypes, Kinds, ProbeSays, call = "probe", GoesOn
  PROVE  ProbeSays' /\ IdleSays'
<1>1. Given /\ flow \in 1..6 /\ ProbeCmd(flow, step, Ps!Cur) /\ Ps!Flows = Ps!ProbeFlows
      /\ step \in 1..Len(Ps!ProbeFlows[flow]) /\ call' = "probe"
  BY ProbeCur DEF GoesOn, Given
<1>2. Reached(ProbeGoals)'
  <2>1. \A g \in ProbeGoals : IsGoal(g) /\ Suits(g, flow, step, Len(Ps!Flows[flow]), Ps!Cur)
    BY <1>1, ProbeSuits
  <2> QED
    BY <2>1, GoalsKept DEF ProbeSays
<1>3. /\ Ps!Cur.cmd \in {"write", "poll", "if_on", "unless_on", "err", "err_off"}
      /\ Ps!Cur.cmd = "if_on" => flow = 2 /\ step = 1
      /\ Ps!Cur.cmd = "poll" => (flow = 2 /\ step = 9) \/ (flow = 4 /\ step > 1)
      /\ flow = 2 /\ step = 9 => Fields(Ps!Cur, "poll", "all", Ps!APS, {1}, {})
  BY <1>1, PollIs DEF ProbeCmd
<1>4. /\ \/ flow' = flow /\ step' = step + 1 /\ (Ps!Cur.cmd = "poll" => Ps!Answers(Ps!Cur))
         \/ /\ flow' = flow + 1 /\ step' = 1
            /\ \/ step = Len(Ps!Flows[flow]) \/ Ps!Cur.cmd = "if" \/ (Ps!Cur.cmd = "if_on" /\ ~mac)
               \/ Ps!Cur.cmd = "poll" /\ (Ps!Cur.reg # Ps!POWER_READY => in_call' > 0)
      /\ flow \in Nat /\ step \in Nat /\ step >= 1
  BY DEF GoesOn, Onward, PwTypes
<1>a. in_call' >= in_call /\ in_call \in Nat /\ in_call' \in Nat
  BY DEF GoesOn, PwTypes
<1>5. ASSUME Past(2, 9)', ~Past(4, 1)' PROVE MacOff'
  <2>1. CASE Past(2, 9)
    <3>1. ~Past(4, 1) /\ Ps!Cur.cmd # "poll"
      BY <1>3, <1>4, <1>5, <2>1 DEF Past
    <3>2. mac' = mac
      BY <1>3, <3>1 DEF GoesOn, Effect
    <3>3. MacOff
      BY <2>1, <3>1 DEF ProbeSays
    <3> QED
      BY <1>a, <3>2, <3>3 DEF MacOff
  <2>2. CASE ~Past(2, 9)
    <3>1. flow = 2 /\ step <= 9 /\ Len(Ps!Flows[flow]) = 26
      BY <1>1, <1>4, <1>5, <2>2, ProbeCmds DEF Past
    <3>2. CASE step = 9
      <4>1. Fields(Ps!Cur, "poll", "all", Ps!APS, {1}, {})
        BY <1>3, <3>1, <3>2
      <4>2. Ps!Answers(Ps!Cur) \/ in_call' > 0
        BY <1>4, <3>1, <3>2, <4>1 DEF Fields, Ps!APS, Ps!POWER_READY
      <4>3. Ps!Answers(Ps!Cur) => mac' = FALSE
        BY <4>1 DEF Ps!Answers, Fields
      <4> QED
        BY <4>2, <4>3 DEF MacOff
    <3>3. CASE step # 9
      <4>1. Ps!Cur.cmd = "if_on" /\ ~mac
        BY <1>3, <1>4, <1>5, <3>1, <3>3 DEF Past
      <4>2. mac' = mac
        BY <4>1 DEF GoesOn, Effect
      <4> QED
        BY <4>1, <4>2 DEF MacOff
    <3> QED
      BY <3>2, <3>3
  <2> QED
    BY <2>1, <2>2
<1>6. ~probed'
  BY DEF GoesOn, Kinds
<1> QED
  BY <1>1, <1>2, <1>5, <1>6 DEF ProbeSays, IdleSays

LEMMA UnprobeKept ==
  ASSUME PwTypes, Kinds, UnprobeSays, IdleSays, call = "unprobe", GoesOn
  PROVE  UnprobeSays' /\ IdleSays'
<1>1. Given /\ flow = 1 /\ step \in 1..26 /\ OffSwitchCmd(step, Ps!Cur) /\ call' = "unprobe"
      /\ probed' = probed /\ Len(Ps!Flows[flow]) = 26
  <2>1. Ps!Flows = <<Ps!SwitchOff>> /\ Given /\ flow = 1 /\ step \in 1..26
          /\ OffSwitchCmd(step, Ps!Cur)
    BY UnprobeCur DEF GoesOn
  <2>2. Ps!Flows[1] = Ps!SwitchOff
    BY <2>1
  <2> QED
    BY <2>1, <2>2, SwitchOffCmds DEF GoesOn
<1>2. /\ Ps!Cur.cmd \in {"write", "poll", "if_on"} /\ (Ps!Cur.cmd = "if_on" => step = 1)
      /\ Ps!Cur.cmd = "poll" => step = 9
      /\ step = 9 => Fields(Ps!Cur, "poll", "all", Ps!APS, {1}, {})
      /\ Ps!Cur.reg # Ps!CR /\ (Ps!Cur.reg = Ps!MCUFW_CTRL => step > 9)
  BY <1>1, PollIs DEF OffSwitchCmd
<1>3. /\ \/ flow' = flow /\ step' = step + 1 /\ (Ps!Cur.cmd = "poll" => Ps!Answers(Ps!Cur))
         \/ /\ flow' = flow + 1 /\ step' = 1
            /\ \/ step = Len(Ps!Flows[flow]) \/ Ps!Cur.cmd = "if" \/ (Ps!Cur.cmd = "if_on" /\ ~mac)
               \/ Ps!Cur.cmd = "poll" /\ (Ps!Cur.reg # Ps!POWER_READY => in_call' > 0)
      /\ flow \in Nat /\ step \in Nat /\ step >= 1
  BY DEF GoesOn, Onward, PwTypes
<1>a. in_call' >= in_call /\ in_call \in Nat /\ in_call' \in Nat
  BY DEF GoesOn, PwTypes
<1>4. step = 9 /\ Ps!Answers(Ps!Cur) => mac' = FALSE /\ reg'[Ps!CR] = {}
  <2>1. ASSUME step = 9, Ps!Answers(Ps!Cur) PROVE mac' = FALSE /\ reg' = Ps!Cleared(Ps!Polled(Ps!Cur))
    BY <1>2, <2>1 DEF Ps!Answers, Fields
  <2>2. Ps!CR \in Ps!MacRegs /\ Ps!CR \in Ps!Regs
    BY DEF Ps!MacRegs, Ps!Regs
  <2>3. \A q : Ps!Cleared(q)[Ps!CR] = {}
    BY <2>2 DEF Ps!Cleared
  <2> QED
    BY <2>1, <2>3
<1>5. ASSUME Past(1, 9)' PROVE MacOff'
  <2>1. CASE Past(1, 9)
    <3>1. mac' = mac
      BY <1>1, <1>2, <2>1 DEF Past, GoesOn, Effect
    <3>2. MacOff
      BY <2>1 DEF UnprobeSays
    <3> QED
      BY <1>a, <3>1, <3>2 DEF MacOff
  <2>2. CASE ~Past(1, 9) /\ step = 9
    <3>1. Ps!Answers(Ps!Cur) \/ in_call' > 0
      BY <1>1, <1>2, <1>3, <2>2 DEF Fields, Ps!APS, Ps!POWER_READY
    <3> QED
      BY <1>4, <2>2, <3>1 DEF MacOff
  <2>3. CASE ~Past(1, 9) /\ step # 9
    <3>1. Ps!Cur.cmd = "if_on" /\ ~mac
      BY <1>1, <1>2, <1>3, <1>5, <2>3 DEF Past
    <3>2. mac' = mac
      BY <3>1 DEF GoesOn, Effect
    <3> QED
      BY <3>1, <3>2 DEF MacOff
  <2> QED
    BY <2>1, <2>2, <2>3
<1>6. Quiet => Quiet'
  BY <1>2, Unwritten DEF Quiet
<1>7. ASSUME flow' = 1, step' > 9 PROVE Quiet'
  <2>1. CASE step > 9
    BY <1>1, <1>6, <2>1 DEF UnprobeSays
  <2>2. CASE step = 9
    BY <1>1, <1>2, <1>3, <1>4, <1>7, <2>2 DEF Fields, Quiet
  <2> QED
    BY <1>1, <1>3, <1>7, <2>1, <2>2
<1>8. Telltale => Telltale'
  <2>1. CASE step > 9
    BY <1>1, <1>6, <2>1 DEF UnprobeSays, Telltale
  <2>2. CASE step <= 9
    <3>1. reg'[Ps!MCUFW_CTRL] = reg[Ps!MCUFW_CTRL]
      BY <1>1, <1>2, <2>2, Unwritten
    <3> QED
      BY <1>6, <3>1 DEF Telltale
  <2> QED
    BY <1>1, <2>1, <2>2
<1> QED
  BY <1>1, <1>5, <1>7, <1>8 DEF UnprobeSays, IdleSays

LEMMA GoalIs ==
  ASSUME NEW goals, NEW f, NEW k, NEW r, NEW on, NEW off, Goal(f, k, r, on, off) \in goals,
         Reached(goals), Past(f, k)
  PROVE  on \subseteq reg[r] /\ reg[r] \cap off = {}
<1> DEFINE g == Goal(f, k, r, on, off)
<1>1. g.f = f /\ g.k = k /\ g.reg = r /\ g.on = on /\ g.off = off
  BY DEF Goal
<1>2. Past(g.f, g.k) => g.on \subseteq reg[g.reg] /\ reg[g.reg] \cap g.off = {}
  BY DEF Reached
<1> QED
  BY <1>1, <1>2

(* Once the download has ended the firmware says that it runs.             *)
LEMMA FirmwareGoal ==
  /\ Reached(OnGoals) /\ flow > 6 => 7 \in reg[Ps!MCUFW_CTRL]
  /\ Reached(ProbeGoals) /\ flow > 6 => 7 \in reg[Ps!MCUFW_CTRL]
<1>1. Goal(6, 6, Ps!MCUFW_CTRL, {7}, {}) \in OnGoals
        /\ Goal(6, 6, Ps!MCUFW_CTRL, {7}, {}) \in ProbeGoals
  BY DEF OnGoals, ProbeGoals
<1>2. flow > 6 => Past(6, 6)
  BY DEF Past
<1>3. ASSUME Reached(OnGoals), flow > 6 PROVE 7 \in reg[Ps!MCUFW_CTRL]
  BY <1>1, <1>2, <1>3, GoalIs
<1>4. ASSUME Reached(ProbeGoals), flow > 6 PROVE 7 \in reg[Ps!MCUFW_CTRL]
  BY <1>1, <1>2, <1>4, GoalIs
<1> QED
  BY <1>3, <1>4

(* At the end of power_on every goal is reached: the chip is ready.        *)
LEMMA AllGoals ==
  ASSUME PwTypes, Reached(OnGoals), flow > 9, reg' = reg
  PROVE  Ps!ReadyWhenOn' /\ 7 \in reg[Ps!MCUFW_CTRL]
<1>1. /\ Past(3, 2) /\ Past(3, 3) /\ Past(3, 4) /\ Past(3, 5) /\ Past(3, 6) /\ Past(3, 8)
      /\ Past(3, 12) /\ Past(4, 3) /\ Past(4, 4) /\ Past(6, 3) /\ Past(6, 6) /\ Past(7, 2)
      /\ Past(8, 2) /\ Past(8, 3) /\ Past(8, 4) /\ Past(8, 5) /\ Past(8, 6)
  BY DEF Past, PwTypes
<1>2. reg[\h14] \cap {7} = {} /\ reg[\h15] \cap {0} = {} /\ reg[\h23] \cap {4} = {}
  <2>1. /\ Goal(3, 2, \h14, {}, {7}) \in OnGoals /\ Goal(3, 3, \h15, {}, {0}) \in OnGoals
        /\ Goal(3, 4, \h23, {}, {4}) \in OnGoals
    BY DEF OnGoals
  <2> QED
    BY <1>1, <2>1, GoalIs
<1>3. reg[\h46] \cap Ps!All = {} /\ reg[\h43] \cap Ps!All = {}
  <2>1. Goal(3, 5, \h46, {}, Ps!All) \in OnGoals /\ Goal(3, 6, \h43, {}, Ps!All) \in OnGoals
    BY DEF OnGoals
  <2> QED
    BY <1>1, <2>1, GoalIs
<1>4. 3 \notin reg[Ps!APS] /\ 2 \notin reg[Ps!APS]
  <2>1. Goal(3, 8, Ps!APS, {}, {3}) \in OnGoals /\ Goal(3, 12, Ps!APS, {}, {2}) \in OnGoals
    BY DEF OnGoals
  <2>2. reg[Ps!APS] \cap {3} = {} /\ reg[Ps!APS] \cap {2} = {}
    BY <1>1, <2>1, GoalIs
  <2> QED
    BY <2>2
<1>5. 0..5 \subseteq reg[Ps!CR] /\ {6, 7} \subseteq reg[Ps!CR] /\ {1, 2} \subseteq reg[Ps!CR_SEC]
  <2>1. /\ Goal(4, 3, Ps!CR, 0..5, {}) \in OnGoals /\ Goal(7, 2, Ps!CR, {6, 7}, {}) \in OnGoals
        /\ Goal(4, 4, Ps!CR_SEC, {1, 2}, {}) \in OnGoals
    BY DEF OnGoals
  <2> QED
    BY <1>1, <2>1, GoalIs
<1>6. {2} \subseteq reg[Ps!CPU_EN] /\ {7} \subseteq reg[Ps!MCUFW_CTRL]
        /\ {0, 1} \subseteq reg[Ps!SYS_FUNC_EN]
  <2>1. /\ Goal(6, 3, Ps!CPU_EN, {2}, {}) \in OnGoals
             /\ Goal(6, 6, Ps!MCUFW_CTRL, {7}, {}) \in OnGoals
        /\ Goal(8, 2, Ps!SYS_FUNC_EN, {0, 1}, {}) \in OnGoals
    BY DEF OnGoals
  <2> QED
    BY <1>1, <2>1, GoalIs
<1>7. \A r \in {Ps!RF_CTRL, Ps!RF_B_CTRL, Ps!RF_A_3WIRE, Ps!RF_B_3WIRE} :
        0..2 \subseteq reg[r] /\ reg[r] \cap 3..7 = {}
  <2>1. /\ Goal(8, 3, Ps!RF_CTRL, 0..2, 3..7) \in OnGoals
        /\ Goal(8, 4, Ps!RF_B_CTRL, 0..2, 3..7) \in OnGoals
        /\ Goal(8, 5, Ps!RF_A_3WIRE, 0..2, 3..7) \in OnGoals
        /\ Goal(8, 6, Ps!RF_B_3WIRE, 0..2, 3..7) \in OnGoals
    BY DEF OnGoals
  <2>2. 0..2 \subseteq reg[Ps!RF_CTRL] /\ reg[Ps!RF_CTRL] \cap 3..7 = {}
    BY <1>1, <2>1, GoalIs
  <2>3. 0..2 \subseteq reg[Ps!RF_B_CTRL] /\ reg[Ps!RF_B_CTRL] \cap 3..7 = {}
    BY <1>1, <2>1, GoalIs
  <2>4. 0..2 \subseteq reg[Ps!RF_A_3WIRE] /\ reg[Ps!RF_A_3WIRE] \cap 3..7 = {}
    BY <1>1, <2>1, GoalIs
  <2>5. 0..2 \subseteq reg[Ps!RF_B_3WIRE] /\ reg[Ps!RF_B_3WIRE] \cap 3..7 = {}
    BY <1>1, <2>1, GoalIs
  <2> QED
    BY <2>2, <2>3, <2>4, <2>5
<1>8. \A r \in Ps!Regs : reg[r] \subseteq Ps!All
  BY DEF PwTypes
<1>9. Ps!CR \in Ps!Regs
        /\ {\h14, \h15, \h23, \h43, \h46, Ps!RF_CTRL, Ps!RF_B_CTRL, Ps!RF_A_3WIRE,
             Ps!RF_B_3WIRE} \subseteq Ps!Regs
  BY DEF Ps!CR, Ps!RF_CTRL, Ps!RF_B_CTRL, Ps!RF_A_3WIRE, Ps!RF_B_3WIRE, Ps!Regs, Ps!MacRegs
<1>10. reg[Ps!CR] = Ps!All
  <2>1. Ps!All = 0..5 \cup {6, 7}
    BY DEF Ps!All
  <2> QED
    BY <1>5, <1>8, <1>9, <2>1
<1>11. \A r \in {Ps!RF_CTRL, Ps!RF_B_CTRL, Ps!RF_A_3WIRE, Ps!RF_B_3WIRE} : reg[r] = 0..2
  <2>1. Ps!All = 0..2 \cup 3..7
    BY DEF Ps!All
  <2> QED
    BY <1>7, <1>8, <1>9, <2>1
<1>12. reg[\h14] = {} /\ reg[\h15] = {} /\ reg[\h23] = {}
  BY <1>2 DEF PwTypes
<1>13. reg[\h43] = {} /\ reg[\h46] = {}
  BY <1>3, <1>8, <1>9
<1>14. \A r \in {\h14, \h15, \h23, \h43, \h46} : reg[r] = {}
  BY <1>12, <1>13
<1>15. reg[Ps!APS] \cap {2, 3} = {}
  BY <1>4
<1> QED
  BY <1>5, <1>6, <1>10, <1>11, <1>14, <1>15 DEF Ps!ReadyWhenOn

(* What a call that is not under way is said to do.                        *)
LEMMA Elsewhere ==
  /\ call # "on" => OnSays
  /\ call # "off" => OffSays
  /\ call # "probe" => ProbeSays
  /\ call # "unprobe" => UnprobeSays
  BY DEF OnSays, OffSays, ProbeSays, UnprobeSays

(* The invariant over the steps, by what becomes of the call: it goes on,  *)
(* it stops because the chip is on, it times out, fails or ends.           *)
LEMMA GoesOnKeeps ==
  ASSUME PwInv, GoesOn
  PROVE  PwInv'
<1>1. PwTypes' /\ Kinds' /\ call' = call /\ call \in {"on", "off", "probe", "unprobe"}
  BY TypesKept DEF PwInv, GoesOn, PwTypes, Calls, Ps!Ended
<1>2. OnSays' /\ OffSays' /\ ProbeSays' /\ UnprobeSays' /\ IdleSays'
  <2>1. CASE call = "on"
    BY <1>1, <2>1, OnKept DEF PwInv, OffSays, ProbeSays, UnprobeSays
  <2>2. CASE call = "off"
    BY <1>1, <2>2, OffKept DEF PwInv, OnSays, ProbeSays, UnprobeSays
  <2>3. CASE call = "probe"
    BY <1>1, <2>3, ProbeKept DEF PwInv, OnSays, OffSays, UnprobeSays
  <2>4. CASE call = "unprobe"
    BY <1>1, <2>4, UnprobeKept DEF PwInv, OnSays, OffSays, ProbeSays
  <2> QED
    BY <1>1, <2>1, <2>2, <2>3, <2>4
<1>3. Ps!ReadyWhenOn' /\ Ps!OnUnlessTimeout'
  BY <1>1 DEF Ps!ReadyWhenOn, Ps!OnUnlessTimeout
<1> QED
  BY <1>1, <1>2, <1>3 DEF PwInv

(* A call begins at its first command: nothing is behind it.               *)
LEMMA Entered ==
  ASSUME NEW c \in {"on", "off", "probe", "unprobe"}, PwTypes, Ps!Enter(c),
         reg' \in [Ps!Regs -> SUBSET Ps!All],
         reg'[\h14] \subseteq {7}, reg'[\h15] \subseteq {0}, reg'[\h23] \subseteq {4},
         mac' \in BOOLEAN, flag' \in BOOLEAN, probed' \in BOOLEAN, in_call' \in Nat,
         c = "on" => Telltale'
  PROVE  /\ PwTypes' /\ call' = c /\ OnSays' /\ OffSays' /\ ProbeSays' /\ UnprobeSays'
         /\ Ps!ReadyWhenOn' /\ Ps!OnUnlessTimeout'
<1>1. call' = c /\ flow' = 1 /\ step' = 1
  BY DEF Ps!Enter
<1>2. Len(Ps!Flows'[1]) >= 1
  <2>1. Ps!Flows' = CASE c = "on" -> Ps!PowerOnFlows [] c = "off" -> Ps!PowerOffFlows
                   [] c = "probe" -> Ps!ProbeFlows [] c = "unprobe" -> <<Ps!SwitchOff>>
    BY <1>1 DEF Ps!Flows
  <2>2. Len(Ps!PowerOnFlows[1]) \in Nat \ {0} /\ Len(Ps!PowerOffFlows[1]) \in Nat \ {0}
        /\ Len(Ps!ProbeFlows[1]) \in Nat \ {0} /\ Len(Ps!SwitchOff) \in Nat \ {0}
    BY OnCmds, OffCmds, ProbeCmds, SwitchOffCmds
  <2>3. <<Ps!SwitchOff>>[1] = Ps!SwitchOff
    OBVIOUS
  <2>4. CASE c = "on"
    BY <2>1, <2>2, <2>4
  <2>5. CASE c = "off"
    BY <2>1, <2>2, <2>5
  <2>6. CASE c = "probe"
    BY <2>1, <2>2, <2>6
  <2>7. CASE c = "unprobe"
    BY <2>1, <2>2, <2>3, <2>7
  <2> QED
    BY <2>4, <2>5, <2>6, <2>7
<1>3. PwTypes'
  BY <1>1, <1>2 DEF PwTypes, Calls
<1>4. ASSUME NEW f \in Nat \ {0}, NEW k \in Nat \ {0} PROVE ~Past(f, k)'
  BY <1>1, <1>4 DEF Past
<1>5. Reached(OnGoals)' /\ Reached(OffGoals)' /\ Reached(ProbeGoals)'
  <2>1. \A g \in OnGoals \cup OffGoals \cup ProbeGoals : g.f \in Nat \ {0} /\ g.k \in Nat \ {0}
    BY DEF OnGoals, OffGoals, ProbeGoals, Goal
  <2>2. \A g \in OnGoals \cup OffGoals \cup ProbeGoals : ~Past(g.f, g.k)'
    BY <1>4, <2>1
  <2> QED
    BY <2>2 DEF Reached
<1>6. ~Past(2, 6)' /\ ~Past(2, 9)' /\ ~Past(5, 8)' /\ ~Past(1, 9)'
  BY <1>4
<1>7. OnSays' /\ OffSays' /\ ProbeSays' /\ UnprobeSays'
  BY <1>1, <1>5, <1>6 DEF OnSays, OffSays, ProbeSays, UnprobeSays
<1>8. Ps!ReadyWhenOn' /\ Ps!OnUnlessTimeout'
  BY <1>1 DEF Ps!ReadyWhenOn, Ps!OnUnlessTimeout
<1> QED
  BY <1>1, <1>3, <1>7, <1>8

(* A call is left.                                                         *)
LEMMA Left ==
  ASSUME PwTypes, Ps!Enter("none"),
         reg' \in [Ps!Regs -> SUBSET Ps!All],
         reg'[\h14] \subseteq {7}, reg'[\h15] \subseteq {0}, reg'[\h23] \subseteq {4},
         mac' \in BOOLEAN, flag' \in BOOLEAN, probed' \in BOOLEAN, in_call' \in Nat,
         flag' => probed' /\ Ps!ReadyWhenOn',
         probed' => Telltale',
         flag' \/ MacOff'
  PROVE  PwInv'
<1>1. call' = "none" /\ flow' = 1 /\ step' = 1
  BY DEF Ps!Enter
<1>2. PwTypes'
  BY <1>1 DEF PwTypes, Calls, Ps!Ended
<1>3. OnSays' /\ OffSays' /\ ProbeSays' /\ UnprobeSays'
  BY <1>1 DEF OnSays, OffSays, ProbeSays, UnprobeSays
<1>4. Kinds' /\ IdleSays'
  BY <1>1 DEF Kinds, IdleSays
<1>5. Ps!ReadyWhenOn' /\ Ps!OnUnlessTimeout'
  BY <1>1 DEF Ps!ReadyWhenOn, Ps!OnUnlessTimeout, MacOff
<1> QED
  BY <1>2, <1>3, <1>4, <1>5 DEF PwInv

(* Initially no call has been made and the chip may have been left         *)
(* running.                                                                *)
LEMMA PwInit ==
  ASSUME Ps!Init PROVE PwInv
<1> USE DEF Ps!APS, Ps!CR, Ps!CPU_EN, Ps!MCUFW_CTRL, Ps!RF_A_3WIRE, Ps!RF_B_3WIRE, Ps!SYS_FUNC_EN,
      Ps!POWER_READY,
            Ps!TXPAUSE, Ps!CR_SEC, Ps!RSV_CTRL, Ps!RF_CTRL, Ps!RF_B_CTRL
<1>1. Ps!Asleep \in [Ps!Regs -> SUBSET Ps!All] /\ Ps!Running \in [Ps!Regs -> SUBSET Ps!All]
  BY DEF Ps!Asleep, Ps!Running, Ps!All
<1>2. Ps!APS \in Ps!Regs /\ \h14 \in Ps!Regs /\ \h15 \in Ps!Regs /\ \h23 \in Ps!Regs
  BY DEF Ps!Regs
<1>3. PICK strap \in {{}, {7}} :
        \/ reg = [Ps!Asleep EXCEPT ![Ps!APS] = @ \cup strap]
        \/ reg = [Ps!Running EXCEPT ![Ps!APS] = @ \cup strap]
  BY DEF Ps!Init
<1>4. reg \in [Ps!Regs -> SUBSET Ps!All]
  <2>1. strap \in SUBSET Ps!All
    BY DEF Ps!All
  <2> QED
    BY <1>1, <1>2, <1>3, <2>1
<1>5. /\ Ps!Asleep[\h14] = {7} /\ Ps!Asleep[\h15] = {0} /\ Ps!Asleep[\h23] = {4}
      /\ Ps!Running[\h14] = {} /\ Ps!Running[\h15] = {} /\ Ps!Running[\h23] = {}
  BY <1>2 DEF Ps!Asleep, Ps!Running
<1>6. reg[\h14] \subseteq {7} /\ reg[\h15] \subseteq {0} /\ reg[\h23] \subseteq {4}
  BY <1>1, <1>2, <1>3, <1>5
<1>7. /\ mac \in BOOLEAN /\ call = "none" /\ flow = 1 /\ step = 1 /\ flag = FALSE /\ probed = FALSE
      /\ in_call = 0 /\ calls = 0
  BY DEF Ps!Init
<1>8. PwTypes
  <2>1. Ps!Ended /\ call \in Calls /\ flow \in Nat \ {0} /\ step \in Nat \ {0} /\ in_call \in Nat
    BY <1>7 DEF Ps!Ended, Calls
  <2>2. mac \in BOOLEAN /\ flag \in BOOLEAN /\ probed \in BOOLEAN
    BY <1>7
  <2> QED
    BY <1>4, <1>6, <2>1, <2>2 DEF PwTypes
<1>9. Kinds /\ IdleSays /\ Ps!ReadyWhenOn /\ Ps!OnUnlessTimeout
  BY <1>7 DEF Kinds, IdleSays, Ps!ReadyWhenOn, Ps!OnUnlessTimeout
<1> QED
  BY <1>7, <1>8, <1>9, Elsewhere DEF PwInv

(* The calls begin.                                                        *)
LEMMA BeginKeeps ==
  ASSUME PwInv, Ps!Probe \/ Ps!PowerOn \/ Ps!PowerOff
  PROVE  PwInv'
<1>1. ASSUME NEW c \in {"on", "off", "probe", "unprobe"}, Ps!Begin(c),
             c = "probe" => ~probed, c = "on" => probed /\ ~flag, c = "off" => probed,
             c # "unprobe"
      PROVE  PwInv'
  <2>1. /\ call = "none" /\ Ps!Enter(c) /\ call' = c /\ in_call' = 0
        /\ reg' = reg /\ mac' = mac /\ flag' = flag /\ probed' = probed
    BY <1>1 DEF Ps!Begin, Ps!Enter
  <2>2. /\ reg \in [Ps!Regs -> SUBSET Ps!All] /\ reg[\h14] \subseteq {7} /\ reg[\h15] \subseteq {0}
        /\ reg[\h23] \subseteq {4} /\ mac \in BOOLEAN /\ flag \in BOOLEAN /\ probed \in BOOLEAN
        /\ PwTypes
    BY DEF PwInv, PwTypes
  <2>3. (probed => Telltale) /\ (flag => probed)
    BY <2>1 DEF PwInv, IdleSays, Kinds
  <2>4. Telltale' <=> Telltale
    BY <2>1 DEF Telltale, Quiet
  <2>5. /\ PwTypes' /\ OnSays' /\ OffSays' /\ ProbeSays' /\ UnprobeSays'
        /\ Ps!ReadyWhenOn' /\ Ps!OnUnlessTimeout'
    BY <1>1, <2>1, <2>2, <2>3, <2>4, Entered
  <2>6. Kinds' /\ IdleSays'
    BY <1>1, <2>1, <2>3, <2>4 DEF Kinds, IdleSays
  <2> QED
    BY <2>5, <2>6 DEF PwInv
<1>2. CASE Ps!Probe
  BY <1>1, <1>2 DEF Ps!Probe
<1>3. CASE Ps!PowerOn
  BY <1>1, <1>3 DEF Ps!PowerOn
<1>4. CASE Ps!PowerOff
  BY <1>1, <1>4 DEF Ps!PowerOff
<1> QED
  BY <1>2, <1>3, <1>4

LEMMA StillOnKeeps ==
  ASSUME PwInv, Ps!StillOn, mac
  PROVE  PwInv'
<1>1. /\ ~Ps!Ended /\ Ps!Cur.cmd = "unless_on" /\ Ps!Enter("none")
      /\ reg' = reg /\ mac' = mac /\ flag' = flag /\ probed' = probed /\ in_call' = in_call
  BY DEF Ps!StillOn, Ps!Is
<1>2. PwTypes /\ Kinds /\ ProbeSays
  BY DEF PwInv
<1>3. call = "probe"
  BY <1>1, <1>2, OnCur, OffCur, UnprobeCur DEF PwTypes, Calls, Ps!Ended, OnCmd, OffCmd, OffSwitchCmd
<1>4. flow = 4 /\ step = 1
  BY <1>1, <1>2, <1>3, ProbeCur DEF ProbeCmd
<1>5. in_call > 0
  BY <1>2, <1>3, <1>4 DEF ProbeSays, Past, MacOff
<1>6. ~probed /\ ~flag
  BY <1>2, <1>3 DEF Kinds
<1>7. MacOff'
  BY <1>1, <1>5 DEF MacOff
<1> QED
  BY <1>1, <1>2, <1>6, <1>7, Left DEF PwTypes

LEMMA TimeoutKeeps ==
  ASSUME PwInv, Ps!Timeout, call' # call
  PROVE  PwInv'
<1>1. /\ ~Ps!Ended /\ Ps!Cur.cmd \in {"poll", "try_poll"}
      /\ (Ps!Possible(Ps!Cur) /\ Ps!Answers(Ps!Cur)) \/ (reg' = reg /\ mac' = mac)
      /\ in_call' = in_call + (IF Ps!Possible(Ps!Cur) THEN 1 ELSE 0)
      /\ flag' = flag /\ probed' = probed
  BY DEF Ps!Timeout, Ps!Is, Ps!Fault
<1>2. PwTypes /\ Kinds /\ OnSays /\ ProbeSays /\ Given
  BY <1>1, CallCur DEF PwInv
<1>3. /\ Ps!Enter("none") /\ Ps!Cur.cmd = "poll"
      /\ call \notin {"off", "unprobe"} /\ ~(call = "probe" /\ flow = 2)
  BY <1>1 DEF Ps!Timeout
<1>4. Effect(Ps!Cur)
  BY <1>1, <1>2, AnswerEffect, NoEffect
<1>5. call \in {"on", "probe"}
  BY <1>1, <1>2, <1>3 DEF PwTypes, Calls, Ps!Ended
<1>6. Ps!Possible(Ps!Cur)
  <2>1. CASE call = "on"
    <3>1. flow = 3 /\ step \in {13, 17} /\ OnCmd(flow, step, Ps!Cur)
      BY <1>1, <1>2, <1>3, <2>1, OnCur DEF OnCmd
    <3>2. Goal(3, 8, Ps!APS, {}, {3}) \in OnGoals
      BY DEF OnGoals
    <3>3. Goal(3, 8, Ps!APS, {}, {3}).f = 3 /\ Goal(3, 8, Ps!APS, {}, {3}).k = 8
          /\ Goal(3, 8, Ps!APS, {}, {3}).reg = Ps!APS /\ Goal(3, 8, Ps!APS, {}, {3}).off = {3}
      BY DEF Goal
    <3>4. Past(3, 8)
      BY <3>1 DEF Past
    <3>5. 3 \notin reg[Ps!APS]
      BY <1>2, <2>1, <3>2, <3>3, <3>4 DEF OnSays, Reached
    <3> QED
      BY <3>5 DEF Ps!Possible
  <2>2. CASE call = "probe"
    <3>1. flow = 4 /\ step \in {14, 18}
      BY <1>1, <1>2, <1>3, <2>2, ProbeCur DEF ProbeCmd
    <3>2. Goal(4, 9, Ps!APS, {}, {3}) \in ProbeGoals
      BY DEF ProbeGoals
    <3>3. Goal(4, 9, Ps!APS, {}, {3}).f = 4 /\ Goal(4, 9, Ps!APS, {}, {3}).k = 9
          /\ Goal(4, 9, Ps!APS, {}, {3}).reg = Ps!APS /\ Goal(4, 9, Ps!APS, {}, {3}).off = {3}
      BY DEF Goal
    <3>4. Past(4, 9)
      BY <3>1 DEF Past
    <3>5. 3 \notin reg[Ps!APS]
      BY <1>2, <2>2, <3>2, <3>3, <3>4 DEF ProbeSays, Reached
    <3> QED
      BY <3>5 DEF Ps!Possible
  <2> QED
    BY <1>5, <2>1, <2>2
<1>7. in_call' \in Nat /\ MacOff'
  BY <1>1, <1>2, <1>6 DEF PwTypes, MacOff
<1>8. ~flag' /\ (probed' => call = "on")
  BY <1>1, <1>2, <1>5 DEF Kinds
<1>9. ASSUME call = "on" PROVE Telltale'
  <2>1. flow = 3 /\ step \in {13, 17} /\ OnCmd(flow, step, Ps!Cur)
    BY <1>1, <1>2, <1>3, <1>9, OnCur DEF OnCmd
  <2>2. Quiet
    BY <1>2, <1>9, <2>1 DEF OnSays, Past
  <2>3. Ps!Cur.reg # Ps!CR /\ Ps!CR \in Ps!Regs
    BY <2>1 DEF OnCmd, Ps!Regs, Ps!MacRegs
  <2>4. reg'[Ps!CR] \in {reg[Ps!CR], {}}
    BY <1>4, <2>3 DEF Effect
  <2> QED
    BY <2>2, <2>4 DEF Telltale, Quiet
<1>a. reg'[\h14] \subseteq {7} /\ reg'[\h15] \subseteq {0} /\ reg'[\h23] \subseteq {4}
  BY <1>2, <1>4, FitsKept
<1>b. reg' \in [Ps!Regs -> SUBSET Ps!All] /\ mac' \in BOOLEAN
  BY <1>4 DEF Effect
<1> QED
  BY <1>1, <1>2, <1>3, <1>7, <1>8, <1>9, <1>a, <1>b, Left DEF PwTypes

LEMMA FailsKeeps ==
  ASSUME PwInv, Ps!Fails
  PROVE  PwInv'
<1>1. /\ ~Ps!Ended /\ Ps!Cur.cmd \in {"err", "err_off"}
      /\ reg' = reg /\ mac' = mac /\ flag' = flag /\ probed' = probed /\ in_call' = in_call + 1
      /\ Ps!Cur.cmd = "err" => Ps!Enter("none")
      /\ Ps!Cur.cmd = "err_off" /\ call = "on" => Ps!Enter("off")
      /\ Ps!Cur.cmd = "err_off" /\ call # "on" => Ps!Enter("unprobe")
  BY DEF Ps!Fails, Ps!Is, Ps!Fault
<1>2. PwTypes /\ Kinds /\ OnSays
  BY DEF PwInv
<1>3. call \in {"on", "probe"}
  <2>1. call \in {"on", "off", "probe", "unprobe"}
    BY <1>1, <1>2 DEF PwTypes, Calls, Ps!Ended
  <2>2. call # "off" /\ call # "unprobe"
    BY <1>1, <1>2, OffCur, UnprobeCur DEF OffCmd, OffSwitchCmd
  <2> QED
    BY <2>1, <2>2
<1>4. ~flag /\ (probed <=> call = "on")
  BY <1>2, <1>3 DEF Kinds
<1>5. /\ in_call' \in Nat /\ MacOff'
      /\ reg' \in [Ps!Regs -> SUBSET Ps!All] /\ reg'[\h14] \subseteq {7} /\ reg'[\h15] \subseteq {0}
      /\ reg'[\h23] \subseteq {4} /\ mac' \in BOOLEAN /\ flag' \in BOOLEAN /\ probed' \in BOOLEAN
  BY <1>1, <1>2 DEF PwTypes, MacOff
<1>6. ASSUME call = "on" PROVE Telltale'
  <2>1. flow \in 1..9 /\ flow \in {5, 6, 9} /\ OnCmd(flow, step, Ps!Cur)
    BY <1>1, <1>2, <1>6, OnCur DEF OnCmd
  <2>2. CASE flow \in {5, 6}
    <3>1. Quiet
      BY <1>2, <1>6, <2>2 DEF OnSays, Past
    <3> QED
      BY <1>1, <3>1 DEF Telltale, Quiet
  <2>3. CASE flow = 9
    <3>1. 7 \in reg[Ps!MCUFW_CTRL]
      BY <1>2, <1>6, <2>3, FirmwareGoal DEF OnSays
    <3> QED
      BY <1>1, <3>1 DEF Telltale
  <2> QED
    BY <2>1, <2>2, <2>3
<1>7. CASE Ps!Cur.cmd = "err"
  BY <1>1, <1>2, <1>3, <1>4, <1>5, <1>6, <1>7, Left
<1>8. CASE Ps!Cur.cmd = "err_off" /\ call = "on"
  <2>1. /\ PwTypes' /\ call' = "off" /\ OnSays' /\ OffSays' /\ ProbeSays' /\ UnprobeSays'
        /\ Ps!ReadyWhenOn' /\ Ps!OnUnlessTimeout'
    BY <1>1, <1>2, <1>5, <1>8, Entered
  <2>2. Kinds' /\ IdleSays'
    BY <1>1, <1>4, <1>6, <1>8, <2>1 DEF Kinds, IdleSays
  <2> QED
    BY <2>1, <2>2 DEF PwInv
<1>9. CASE Ps!Cur.cmd = "err_off" /\ call = "probe"
  <2>1. /\ PwTypes' /\ call' = "unprobe" /\ OnSays' /\ OffSays' /\ ProbeSays' /\ UnprobeSays'
        /\ Ps!ReadyWhenOn' /\ Ps!OnUnlessTimeout'
    BY <1>1, <1>2, <1>5, <1>9, Entered
  <2>2. Kinds' /\ IdleSays'
    BY <1>1, <1>4, <1>9, <2>1 DEF Kinds, IdleSays
  <2> QED
    BY <2>1, <2>2 DEF PwInv
<1> QED
  BY <1>1, <1>3, <1>7, <1>8, <1>9

LEMMA DoneKeeps ==
  ASSUME PwInv, Ps!Done
  PROVE  PwInv'
<1>1. /\ call # "none" /\ Ps!Ended /\ reg' = reg /\ mac' = mac /\ in_call' = in_call
      /\ flag' = (call = "on") /\ probed' = (probed \/ call = "probe")
      /\ call = "probe" => Ps!Enter("unprobe")
      /\ call # "probe" => Ps!Enter("none")
  BY DEF Ps!Done
<1>2. PwTypes /\ Kinds /\ OnSays /\ OffSays /\ ProbeSays /\ UnprobeSays /\ IdleSays
  BY DEF PwInv
<1>3. call \in {"on", "off", "probe", "unprobe"}
  BY <1>1, <1>2 DEF PwTypes, Calls
<1>4. /\ in_call' \in Nat
      /\ reg' \in [Ps!Regs -> SUBSET Ps!All] /\ reg'[\h14] \subseteq {7} /\ reg'[\h15] \subseteq {0}
      /\ reg'[\h23] \subseteq {4} /\ mac' \in BOOLEAN /\ flag' \in BOOLEAN /\ probed' \in BOOLEAN
  BY <1>1, <1>2 DEF PwTypes
<1>5. CASE call = "probe"
  <2>1. /\ PwTypes' /\ call' = "unprobe" /\ OnSays' /\ OffSays' /\ ProbeSays' /\ UnprobeSays'
        /\ Ps!ReadyWhenOn' /\ Ps!OnUnlessTimeout'
    BY <1>1, <1>2, <1>4, <1>5, Entered
  <2>2. flow > 6
    BY <1>1, <1>2, <1>5, ProbeCur
  <2>3. 7 \in reg[Ps!MCUFW_CTRL]
    BY <1>2, <1>5, <2>2, FirmwareGoal DEF ProbeSays
  <2>4. Kinds' /\ IdleSays'
    BY <1>1, <1>5, <2>1, <2>3 DEF Kinds, IdleSays, Telltale
  <2> QED
    BY <2>1, <2>4 DEF PwInv
<1>6. CASE call = "unprobe"
  <2>1. flow > 1
    BY <1>1, <1>2, <1>6, UnprobeCur
  <2>2. MacOff'
    BY <1>1, <1>2, <1>6, <2>1 DEF UnprobeSays, Past, MacOff
  <2>3. probed' => Telltale'
    BY <1>1, <1>2, <1>6 DEF IdleSays, Telltale, Quiet
  <2> QED
    BY <1>1, <1>2, <1>4, <1>6, <2>2, <2>3, Left
<1>7. CASE call = "off"
  <2>1. flow > 6
    BY <1>1, <1>2, <1>7, OffCur
  <2>2. MacOff'
    <3>1. Past(5, 8)
      BY <1>2, <2>1 DEF Past, PwTypes
    <3> QED
      BY <1>1, <1>2, <1>7, <3>1 DEF OffSays, MacOff
  <2>3. probed' => Telltale'
    BY <1>1, <1>2, <1>7 DEF IdleSays, Telltale, Quiet
  <2> QED
    BY <1>1, <1>2, <1>4, <1>7, <2>2, <2>3, Left
<1>8. CASE call = "on"
  <2>1. flow > 9 /\ Reached(OnGoals)
    BY <1>1, <1>2, <1>8, OnCur DEF OnSays
  <2>2. Ps!ReadyWhenOn' /\ 7 \in reg[Ps!MCUFW_CTRL]
    BY <1>1, <1>2, <2>1, AllGoals
  <2>3. Telltale' /\ probed'
    BY <1>1, <1>2, <1>8, <2>2 DEF Telltale, Kinds
  <2> QED
    BY <1>1, <1>2, <1>4, <1>8, <2>2, <2>3, Left
<1> QED
  BY <1>3, <1>5, <1>6, <1>7, <1>8

LEMMA PwNext ==
  ASSUME PwInv, [Ps!Next]_(Ps!vars)
  PROVE  PwInv'
<1>1. CASE Ps!Probe \/ Ps!PowerOn \/ Ps!PowerOff
  BY <1>1, BeginKeeps
<1>2. CASE Ps!PassOver \/ Ps!Write \/ Ps!Branch \/ Ps!Poll \/ Ps!Succeeds
  <2>1. ~Ps!Ended
    BY <1>2 DEF Ps!PassOver, Ps!Write, Ps!Branch, Ps!Poll, Ps!Succeeds, Ps!Is
  <2> QED
    BY <1>2, <2>1, CallCur, CallGoesOn, GoesOnKeeps DEF PwInv
<1>3. CASE Ps!StillOn
  <2>1. ~Ps!Ended
    BY <1>3 DEF Ps!StillOn, Ps!Is
  <2> QED
    BY <1>3, <2>1, CallCur, CallGoesOn, GoesOnKeeps, StillOnKeeps DEF PwInv
<1>4. CASE Ps!Timeout
  <2>1. ~Ps!Ended
    BY <1>4 DEF Ps!Timeout, Ps!Is
  <2> QED
    BY <1>4, <2>1, CallCur, CallGoesOn, GoesOnKeeps, TimeoutKeeps DEF PwInv
<1>5. CASE Ps!Fails
  BY <1>5, FailsKeeps
<1>6. CASE Ps!Done
  BY <1>6, DoneKeeps
<1>7. CASE UNCHANGED Ps!vars
  <2>1. PwTypes' /\ Kinds'
    BY <1>7 DEF Ps!vars, PwInv, PwTypes, Kinds, Ps!Ended, Ps!Flows
  <2>2. OnSays' /\ OffSays' /\ ProbeSays' /\ UnprobeSays' /\ IdleSays'
    BY <1>7 DEF Ps!vars, PwInv, OnSays, OffSays, ProbeSays, UnprobeSays, IdleSays, Reached, Past,
                Telltale, Quiet, MacOff
  <2>3. Ps!ReadyWhenOn' /\ Ps!OnUnlessTimeout'
    BY <1>7 DEF Ps!vars, PwInv, Ps!ReadyWhenOn, Ps!OnUnlessTimeout
  <2> QED
    BY <2>1, <2>2, <2>3 DEF PwInv
<1> QED
  BY <1>1, <1>2, <1>3, <1>4, <1>5, <1>6, <1>7 DEF Ps!Next

LEMMA PwMeans ==
  ASSUME PwInv PROVE Ps!SilentWhenOff /\ Ps!ReadyWhenOn /\ Ps!NoDoubleInit /\ Ps!OnUnlessTimeout
<1>1. Ps!SilentWhenOff
  <2>1. SUFFICES ASSUME call = "off", Ps!Ended
                 PROVE  /\ reg[Ps!RF_A_3WIRE] = {2} /\ reg[Ps!RF_B_3WIRE] = {2}
                   /\ 0 \notin reg[Ps!SYS_FUNC_EN]
                        /\ reg[Ps!CR] \cap {6, 7} = {} /\ 2 \notin reg[Ps!CPU_EN]
                        /\ 7 \notin reg[Ps!MCUFW_CTRL]
    BY DEF Ps!SilentWhenOff
  <2>2. PwTypes /\ Reached(OffGoals) /\ flow > 6 /\ flow \in Nat
    BY <2>1, OffCur DEF PwInv, OffSays, PwTypes
  <2>3. Past(1, 2) /\ Past(4, 1) /\ Past(4, 2) /\ Past(5, 1) /\ Past(5, 2) /\ Past(5, 3)
    BY <2>2 DEF Past
  <2>4. /\ Goal(1, 2, Ps!CR, {}, {6, 7}) \in OffGoals /\ Goal(4, 1, Ps!CPU_EN, {}, {2}) \in OffGoals
        /\ Goal(4, 2, Ps!MCUFW_CTRL, {}, {7}) \in OffGoals
        /\ Goal(5, 1, Ps!RF_A_3WIRE, {2}, Ps!All \ {2}) \in OffGoals
        /\ Goal(5, 2, Ps!RF_B_3WIRE, {2}, Ps!All \ {2}) \in OffGoals
        /\ Goal(5, 3, Ps!SYS_FUNC_EN, {}, {0}) \in OffGoals
    BY DEF OffGoals
  <2>5. reg[Ps!CR] \cap {6, 7} = {} /\ reg[Ps!CPU_EN] \cap {2} = {}
          /\ reg[Ps!MCUFW_CTRL] \cap {7} = {}
    BY <2>2, <2>3, <2>4, GoalIs
  <2>6. {2} \subseteq reg[Ps!RF_A_3WIRE] /\ reg[Ps!RF_A_3WIRE] \cap (Ps!All \ {2}) = {}
    BY <2>2, <2>3, <2>4, GoalIs
  <2>7. {2} \subseteq reg[Ps!RF_B_3WIRE] /\ reg[Ps!RF_B_3WIRE] \cap (Ps!All \ {2}) = {}
    BY <2>2, <2>3, <2>4, GoalIs
  <2>8. reg[Ps!SYS_FUNC_EN] \cap {0} = {}
    BY <2>2, <2>3, <2>4, GoalIs
  <2>9. reg[Ps!RF_A_3WIRE] \subseteq Ps!All /\ reg[Ps!RF_B_3WIRE] \subseteq Ps!All
    <3>1. Ps!RF_A_3WIRE \in Ps!Regs /\ Ps!RF_B_3WIRE \in Ps!Regs
      BY DEF Ps!RF_A_3WIRE, Ps!RF_B_3WIRE, Ps!Regs
    <3> QED
      BY <2>2, <3>1 DEF PwTypes
  <2> QED
    BY <2>5, <2>6, <2>7, <2>8, <2>9
<1>2. Ps!NoDoubleInit
  BY DEF PwInv, OnSays, Ps!NoDoubleInit, Past, Quiet
<1> QED
  BY <1>1, <1>2 DEF PwInv

(* For any number of calls and timeouts: after power_off the radio is      *)
(* silent, the MAC neither sends nor receives and no firmware runs; a chip *)
(* that is powered on has all of its parts on; the MAC is brought up only  *)
(* with its firmware stopped, or with its sender and receiver off; and     *)
(* without a timeout a power_on does not fail (rtw88xxa.c:1051,            *)
(* rtw88xxa.c:745).                                                        *)
THEOREM PowerIsSequenced == Ps!Spec => []PowerSequenced
<1>1. Ps!Init => PwInv
  BY PwInit
<1>2. PwInv /\ [Ps!Next]_(Ps!vars) => PwInv'
  BY PwNext
<1>3. PwInv => PowerSequenced
  BY PwMeans DEF PowerSequenced
<1> QED
  BY <1>1, <1>2, <1>3, PTL DEF Ps!Spec

============================================================================
