------------------------------ MODULE Firmware ------------------------------
(***************************************************************************)
(* The firmware of the chip's 8051: its download over the control pipe     *)
(* (mac.c, usb.c) and, while it runs, the four mailboxes that take the     *)
(* driver's commands to it (H2C, fw.c).  The driver's side runs with       *)
(* rtwdev->mutex held, so it is one process; the chip is the other.        *)
(*                                                                         *)
(* An image is NPAGES pages of blocks; a block is the pair <<page, index>>.*)
(* A command is a number; its two halves travel in two registers.          *)
(***************************************************************************)
EXTENDS Integers, Sequences

CONSTANTS
  NPAGES, BLOCKS,       (* pages of the image, blocks of a page              *)
  DOWNLOAD_TRIES,       (* 5 in download_firmware_legacy                     *)
  NBOXES,               (* 4 mailboxes                                       *)
  MAX_CMDS,             (* bound: commands in a behaviour                    *)
  MAX_STARTS,           (* bound: downloads in a behaviour                   *)
  MAX_FAULTS            (* bound: transfers that fail in a behaviour         *)

ASSUME FirmwareAssumption ==
  /\ NPAGES \in Nat \ {0} /\ BLOCKS \in Nat /\ DOWNLOAD_TRIES \in Nat
  /\ NBOXES \in Nat \ {0} /\ MAX_CMDS \in Nat /\ MAX_STARTS \in Nat /\ MAX_FAULTS \in Nat

Pages == 0 .. NPAGES - 1
Boxes == 0 .. NBOXES - 1
Image == [p \in Pages |-> [i \in 1 .. BLOCKS |-> <<p, i>>]]
Empty == [p \in Pages |-> [i \in 1 .. BLOCKS |-> <<>>]]

VARIABLES
  fw_pc,        (* where the driver is                                      *)
  try, page, data,  (* locals of download_firmware_legacy                   *)
  rom_pge,      (* the page the block window shows                          *)
  mem,          (* the chip's program memory                                *)
  running,      (* the 8051 runs the firmware                               *)
  box, full,    (* HMEBOXn and HMEBOXn_EX; the bits of HMETFR               *)
  last_box_num, (* rtwdev->h2c.last_box_num                                 *)
  fw_box,       (* the box the firmware looks at next                       *)
  cmd,          (* the command being sent; the next one if none is          *)
  faults, try_faults, starts,
  sent, taken   (* history: what was written, what the firmware has got     *)

dl_vars == <<try, page, data, rom_pge, mem, try_faults>>
h2c_vars == <<box, full, last_box_num, cmd, sent>>
fw_vars == <<fw_pc, dl_vars, h2c_vars, running, fw_box, faults, starts, taken>>

FirmwareInit ==
  /\ fw_pc = "off" /\ try = 0 /\ page = 0 /\ data = 0 /\ rom_pge = 0
  /\ mem = Empty /\ running = FALSE
  /\ box = [b \in Boxes |-> [msg |-> 0, ext |-> 0]] /\ full = {}
  /\ last_box_num = 0 /\ fw_box = 0 /\ cmd = 1
  /\ faults = 0 /\ try_faults = 0 /\ starts = 0
  /\ sent = <<>> /\ taken = <<>>

Fault == /\ faults < MAX_FAULTS
         /\ faults' = faults + 1 /\ try_faults' = try_faults + 1
NoFault == UNCHANGED <<faults, try_faults>>

----------------------------------------------------------------------------
(* Each try starts over with the first page and the start of the image.    *)
StartTry == page' = 0 /\ data' = 0

(* The first part of __rtw_download_firmware_legacy: the 8051 is reset and *)
(* the download enabled (that it was is checked, but failing is ignored).  *)
PowerOn ==
  /\ fw_pc = "off" /\ starts < MAX_STARTS
  /\ starts' = starts + 1
  /\ fw_pc' = "page" /\ try' = 1 /\ StartTry /\ try_faults' = 0
  /\ UNCHANGED <<rom_pge, mem, h2c_vars, running, fw_box, faults, taken>>

(* The blocks of a page that arrive: those before the first that fails.    *)
(* Past the end of the image there is nothing the driver means to write.   *)
WriteBlocks(p, d, n) ==
  mem' = [mem EXCEPT ![p] = [i \in 1 .. BLOCKS |->
            IF i > n THEN mem[p][i] ELSE IF d \in Pages THEN Image[d][i] ELSE <<>>]]

(* rtw_usb_write_firmware_page: no memory for the copy, or the page is     *)
(* selected (or, unnoticed, is not) and its blocks are written until one   *)
(* fails; nothing is reported to the caller.                               *)
WritePage ==
  /\ fw_pc = "page"
  /\ \/ Fault /\ UNCHANGED <<mem, rom_pge>>
     \/ NoFault /\ rom_pge' = page /\ WriteBlocks(page, data, BLOCKS)
     \/ Fault /\ rom_pge' = page /\ \E n \in 0 .. BLOCKS - 1 : WriteBlocks(page, data, n)
     \/ Fault /\ UNCHANGED rom_pge /\ WriteBlocks(rom_pge, data, BLOCKS)
  /\ data' = data + 1
  /\ IF page + 1 < NPAGES
     THEN page' = page + 1 /\ UNCHANGED fw_pc
     ELSE fw_pc' = "report" /\ UNCHANGED page
  /\ UNCHANGED <<try, h2c_vars, running, fw_box, starts, taken>>

(* The 8051 comes up with an empty set of mailboxes, and so does the driver.*)
Validated ==
  /\ fw_pc' = "idle" /\ running' = TRUE
  /\ last_box_num' = 0 /\ fw_box' = 0 /\ full' = {}
  /\ UNCHANGED <<page, data, try, try_faults, faults>>

(* rtw88xxa_power_on's err_off                                             *)
PowerOff ==
  /\ fw_pc' = "off" /\ running' = FALSE
  /\ full' = {} /\ mem' = Empty /\ rom_pge' = 0
  /\ sent' = <<>> /\ taken' = <<>>

(* The boot code reports an image that is whole; the driver may fail to    *)
(* see it, tries five times, and gives up also when the firmware does not  *)
(* come up (download_firmware_validate_legacy).                            *)
CheckReport ==
  /\ fw_pc = "report"
  /\ \/ mem = Image /\ Validated /\ UNCHANGED <<mem, rom_pge, sent, taken>>
     \/ /\ mem = Image => faults < MAX_FAULTS
        /\ try < DOWNLOAD_TRIES
        /\ try' = try + 1 /\ fw_pc' = "page" /\ StartTry /\ try_faults' = 0
        /\ faults' = IF mem = Image THEN faults + 1 ELSE faults
        /\ UNCHANGED <<rom_pge, mem, h2c_vars, running, fw_box, taken>>
     \/ /\ mem = Image => faults < MAX_FAULTS
        /\ mem = Image \/ try = DOWNLOAD_TRIES
        /\ faults' = IF mem = Image THEN faults + 1 ELSE faults
        /\ PowerOff
        /\ UNCHANGED <<try, try_faults, page, data, last_box_num, fw_box>>
  /\ UNCHANGED <<box, cmd, starts>>

----------------------------------------------------------------------------
(* rtw_fw_send_h2c_command, the poll of HMETFR for 3 ms: the box is seen   *)
(* empty; it is full to the end, and the command is dropped; or a read     *)
(* fails, which returns 0 and looks like an empty box.                     *)
BoxFree == last_box_num \notin full

(* The box after b: if (++last_box_num >= 4) last_box_num = 0              *)
Following(b) == IF b + 1 >= NBOXES THEN 0 ELSE b + 1

Advance == last_box_num' = Following(last_box_num)

(* Mutant: the command that found its box full uses up the box.            *)
RefusedAdvances == Advance

Refused == UNCHANGED last_box_num

Poll ==
  /\ fw_pc = "idle" /\ cmd <= MAX_CMDS
  /\ \/ BoxFree /\ fw_pc' = "ex" /\ NoFault /\ UNCHANGED <<cmd, last_box_num>>
     \/ ~BoxFree /\ cmd' = cmd + 1 /\ Refused /\ NoFault /\ UNCHANGED fw_pc
     \/ ~BoxFree /\ Fault /\ fw_pc' = "ex" /\ UNCHANGED <<cmd, last_box_num>>
  /\ UNCHANGED <<try, page, data, rom_pge, mem, box, full, sent, running, fw_box, starts, taken>>

(* The register of the second half, then the one of the first half, whose  *)
(* write hands the box to the firmware.  A write that fails may have been  *)
(* done or not; it is not repeated.                                        *)
WriteEx ==
  /\ fw_pc = "ex" /\ fw_pc' = "box"
  /\ LET b == last_box_num
         done == [box EXCEPT ![b].ext = cmd]
     IN  \/ box' = done /\ NoFault
         \/ box' \in {box, done} /\ Fault
  /\ UNCHANGED <<try, page, data, rom_pge, mem, full, last_box_num, cmd, sent, running,
                 fw_box, starts, taken>>

WriteBox ==
  /\ fw_pc = "box" /\ fw_pc' = "idle"
  /\ LET b == last_box_num
         done == box' = [box EXCEPT ![b].msg = cmd] /\ full' = full \union {b}
     IN  \/ done /\ NoFault
         \/ (done \/ UNCHANGED <<box, full>>) /\ Fault
  /\ Advance
  /\ sent' = Append(sent, cmd) /\ cmd' = cmd + 1
  /\ UNCHANGED <<try, page, data, rom_pge, mem, running, fw_box, starts, taken>>

(* rtw_core_stop and IPS power the chip off between two commands.          *)
Stop ==
  /\ fw_pc = "idle" /\ PowerOff
  /\ UNCHANGED <<try, page, data, try_faults, box, last_box_num, cmd, fw_box, faults, starts>>

(* The firmware empties the boxes in the order in which the driver fills   *)
(* them, in its own time.                                                  *)
FirmwareTakes ==
  /\ running /\ fw_box \in full
  /\ taken' = Append(taken, box[fw_box])
  /\ full' = full \ {fw_box}
  /\ fw_box' = Following(fw_box)
  /\ UNCHANGED <<fw_pc, dl_vars, box, last_box_num, cmd, sent, running, faults, starts>>

FirmwareNext ==
  \/ PowerOn \/ WritePage \/ CheckReport
  \/ Poll \/ WriteEx \/ WriteBox \/ Stop
  \/ FirmwareTakes

FirmwareSpec == FirmwareInit /\ [][FirmwareNext]_fw_vars

----------------------------------------------------------------------------
(* Whatever an earlier try left in the wrong page or half written, a try   *)
(* in which no transfer fails leaves the whole image in memory (mac.c:896, *)
(* usb.c:253): the retries can repair a download.                          *)
RetryRepairs == fw_pc = "report" /\ try_faults = 0 => mem = Image

(* The commands that wait in boxes: how many, and in which the k-th next   *)
(* is that the firmware will look at.                                      *)
Waiting == Len(sent) - Len(taken)
Ahead(k) == IF fw_box + k >= NBOXES THEN fw_box + k - NBOXES ELSE fw_box + k
Whole(c) == [msg |-> c, ext |-> c]

(* No command is executed twice.  As long as no transfer has failed, the   *)
(* firmware gets every command that was not refused, whole, with its own   *)
(* second half, and in the order sent, however slow it is and however      *)
(* often it is loaded again: it never waits at an empty box for a command  *)
(* that is in another one (fw.c:499).                                      *)
CommandsExact ==
  /\ \A i, j \in DOMAIN taken : i # j => taken[i].msg # taken[j].msg
  /\ faults = 0 /\ running =>
       /\ Waiting \in 0 .. NBOXES
       /\ \A k \in DOMAIN taken : taken[k] = Whole(sent[k])
       /\ full = {Ahead(k) : k \in 0 .. Waiting - 1}
       /\ \A k \in 0 .. Waiting - 1 : box[Ahead(k)] = Whole(sent[Len(taken) + k + 1])

(* A download can be repaired, and the firmware executes exactly the       *)
(* commands sent to it (mac.c:896, usb.c:253, fw.c:499).                   *)
FirmwareFaithful == RetryRepairs /\ CommandsExact

============================================================================
