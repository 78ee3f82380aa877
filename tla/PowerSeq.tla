------------------------------ MODULE PowerSeq ------------------------------
(***************************************************************************)
(* The chip's power (rtw88xxa.c: rtw88xxa_power_on, rtw88xxa_power_off;    *)
(* mac.c: rtw_pwr_seq_parser; rtw8812a_table.c: the power sequences).  The *)
(* driver's calls are kept as the commands they still have to carry out, in*)
(* flows: a command that fails ends the flow it is in, or the call.        *)
(* The probe switches the chip on and off once, by other functions         *)
(* (mac.c: rtw_mac_power_on, rtw_mac_power_off), to read its efuse.        *)
(*                                                                         *)
(* A register is a byte, its value the set of its bits that are 1.  Only   *)
(* registers that turn something on or off are kept.  What the hardware    *)
(* does is modelled from what the driver polls for.                        *)
(***************************************************************************)
EXTENDS Integers, Sequences

CONSTANTS MAX_CALLS, MAX_TIMEOUTS

VARIABLES
  reg,        \* the registers
  mac,        \* the MAC has power
  call, flow, step, \* the call under way, the flow it is in and the command
  down,       \* power_off: a bit that lets the hardware power down, set aside
  flag,       \* RTW_FLAG_POWERON
  probed,     \* the probe succeeded
  calls, timeouts, in_call     \* so far, and timeouts in this call

vars == <<reg, mac, call, flow, step, down, flag, probed, calls, timeouts, in_call>>

SYS_FUNC_EN == \h02    \* bits 0, 1: BB
CPU_EN == \h03         \* bit 2: the 8051
APS == \h05            \* REG_APS_FSMCO + 1: 0 enables, 1 disables the MAC, 3 suspends
POWER_READY == \h06
RSV_CTRL == \h1C       \* bits 5, 6: the bus cannot reset the MAC
RF_CTRL == \h1F
RF_B_CTRL == \h76
MCUFW_CTRL == \h80     \* bit 7: firmware is in the RAM
CR == \h100            \* bits 6, 7: MAC sends, receives
CR_SEC == \h101
TXPAUSE == \h522
RF_A_3WIRE == \hC00    \* bit 2 alone: off
RF_B_3WIRE == \hE00

MacRegs == {CR, CR_SEC, TXPAUSE, \h5F8, \h5F9, \h5FA, \h5FB, \h553}
Regs == MacRegs \cup
  {\h02, \h03, \h05, \h06, \h07, \h08, \h12, \h14, \h15, \h1C, \h1F, \h23, \h24, \h28, \h42, \h43,
   \h45, \h46, \h47, \h76, \h80, \hC00, \hE00}

All == 0..7

(* A command has a bus it is for; its mask, and its value within the mask. *)
W(r, mask, value) == [cmd |-> "write", bus |-> "all", reg |-> r, mask |-> mask, value |-> value]
P(r, mask, value) == [W(r, mask, value) EXCEPT !.cmd = "poll"]
Usb(c) == [c EXCEPT !.bus = "usb"]
Pci(c) == [c EXCEPT !.bus = "pci"]

(* The driver's own: the rest of the flow depends on a register; or the    *)
(* call may fail here, with the power left on or taken away (err_off).     *)
If(r, mask) == [W(r, mask, mask) EXCEPT !.cmd = "if"]
Try(label) == [W(0, {}, {}) EXCEPT !.cmd = label]

CarddisToCardemu ==
  <<W(\h12, {0}, {0}), W(\h14, {7}, {}), W(\h15, {0}, {}), W(\h23, {4}, {}), W(\h46, All, {}),
    W(\h43, All, {}), Pci(W(APS, {2}, {})), W(APS, {3}, {}), W(CPU_EN, {2}, {2}),
    Usb(W(\h24, {1}, {1})), Usb(W(\h28, {3}, {3}))>>

CardemuToAct ==
  <<W(APS, {2}, {}), P(POWER_READY, {1}, {1}), Pci(W(APS, {7}, {})), W(APS, {3}, {}),
    W(APS, {0}, {0}), P(APS, {0}, {}), Usb(W(\h24, {1}, {})), Usb(W(\h28, {3}, {}))>>

ActToLps ==
  <<W(TXPAUSE, All, 0..6), P(\h5F8, All, {}), P(\h5F9, All, {}), P(\h5FA, All, {}),
    P(\h5FB, All, {}), W(RF_A_3WIRE, All, {2}), W(RF_B_3WIRE, All, {2}), W(SYS_FUNC_EN, {0}, {}),
    Usb(W(SYS_FUNC_EN, {1}, {})), W(CR, All, {0, 1}), W(CR_SEC, {1}, {}), W(\h553, {5}, {5})>>

ActToCardemu ==
  <<W(RF_A_3WIRE, All, {2}), W(RF_B_3WIRE, All, {2}), W(SYS_FUNC_EN, {0}, {}),
    Pci(W(SYS_FUNC_EN, {1}, {})), W(\h07, All, {1, 3, 5}), Usb(W(\h08, {1}, {})),
    W(APS, {1}, {1}), P(APS, {1}, {})>>

CardemuToCarddis ==
  <<W(CPU_EN, {2}, {}), W(MCUFW_CTRL, All, {0, 2}), Usb(W(\h42, 4..7, {6, 7})),
    Pci(W(\h42, 4..7, {5, 6, 7})), W(\h43, All, 0..2), W(\h45, All, {}), W(\h46, All, All),
    W(\h47, All, {}), W(\h14, {7}, {7}), W(\h15, {0}, {0}), W(\h12, {0}, {}), W(\h23, {4}, {4}),
    Usb(W(\h08, {1}, {})), Usb(W(\h07, All, {5})), Usb(W(RF_CTRL, {1}, {})),
    Usb(W(RF_B_CTRL, {1}, {})), W(APS, {3}, {3})>>

CardEnableFlow == CarddisToCardemu \o CardemuToAct
CardDisableFlow == ActToCardemu \o CardemuToCarddis

Reset8051 ==
  <<W(RSV_CTRL, {1}, {}), W(CPU_EN, {2}, {}), W(RSV_CTRL, {1}, {}), W(CPU_EN, {2}, {2})>>

(* Mutant: another bit is looked at.                                       *)
HwResetNever == <<If(MCUFW_CTRL, {6})>>

(* rtw88xxau_hw_reset: for a chip that was not shut down.  Its poll ends   *)
(* nothing.                                                                *)
HwReset ==
  <<If(MCUFW_CTRL, {7})>> \o Reset8051 \o
  <<W(MCUFW_CTRL, All, {}), W(SYS_FUNC_EN, {0, 1}, {}), W(RF_CTRL, All, {}), W(CR, All, {}),
    W(CR_SEC, All, {}), W(APS, {1}, {1}), [P(APS, {1}, {}) EXCEPT !.cmd = "try_poll"],
    W(APS, {0}, {0}), W(CPU_EN, {4, 7}, {}), W(CPU_EN, {4, 7}, {4, 7})>>

RfReset ==
  <<W(RF_CTRL, All, {0, 2}), W(RF_CTRL, All, 0..2), W(RF_B_CTRL, All, {0, 2}),
    W(RF_B_CTRL, All, 0..2)>>

(* DMA, protocol, scheduler, then (CR_SEC) security and calibration.       *)
InitPowerOn == <<W(CR, All, {}), W(CR_SEC, All, {}), W(CR, 0..5, 0..5), W(CR_SEC, {1, 2}, {1, 2})>>

(* The firmware may be missing, with a label of its own, or refuse to      *)
(* start; RAM_DL_SEL is set once it was written.                           *)
DownloadFirmware(missing) ==
  <<Try(missing), W(CPU_EN, {2}, {}), W(CPU_EN, {2}, {2}), W(MCUFW_CTRL, {0}, {0}), Try("err_off"),
    W(MCUFW_CTRL, {0, 7}, {7}), Try("err_off")>>

MacConfig == <<W(RSV_CTRL, {5, 6}, {5, 6}), W(CR, {6, 7}, {6, 7})>>

PhyBbConfig ==
  <<W(SYS_FUNC_EN, {2}, {2}), W(SYS_FUNC_EN, {0, 1}, {0, 1}), W(RF_CTRL, All, 0..2),
    W(RF_B_CTRL, All, 0..2), W(RF_A_3WIRE, All, 0..2), W(RF_B_3WIRE, All, 0..2)>>

PowerOnFlows ==
  <<RfReset, HwReset, CardEnableFlow, InitPowerOn, <<Try("err"), Try("err")>>,
    DownloadFirmware("err_off"), MacConfig, PhyBbConfig, <<Try("err_off")>>>>

(* rtw_mac_power_switch finds out by itself whether the MAC is on.         *)
SwitchOff == <<Try("if_on")>> \o CardDisableFlow
SwitchOn == <<Try("unless_on")>> \o CardEnableFlow

(* rtw_mac_pre_system_cfg and rtw_mac_init_system_cfg, as of an 8051       *)
PreSystemCfg == <<W(RSV_CTRL, All, {})>>
InitSystemCfg == <<W(CR, All, All), W(CR_SEC, All, {1})>>

(* rtw_mac_power_on: a MAC that is on is switched off first.  Without the  *)
(* firmware the probe ends and leaves the MAC on (main.c:2049).            *)
ProbeFlows ==
  <<PreSystemCfg, SwitchOff, PreSystemCfg, SwitchOn, InitSystemCfg, DownloadFirmware("err")>>

(* rtw88xxa_power_off, after it has seen that the chip is on.              *)
PowerOffFlows ==
  <<<<W(APS, {7}, {}), W(CR, All, {})>>, ActToLps, <<If(MCUFW_CTRL, {7})>> \o Reset8051,
    <<W(CPU_EN, {2}, {}), W(MCUFW_CTRL, All, {})>>, CardDisableFlow,
    <<[W(APS, {7}, {7}) EXCEPT !.cmd = "restore"]>>>>

----------------------------------------------------------------------------
Asleep ==
  [r \in Regs |-> CASE r = APS -> {3} [] r = \h14 -> {7} [] r = \h15 -> {0} [] r = \h23 -> {4}
                    [] r = \h46 -> All [] r = \h43 -> 0..2 [] OTHER -> {}]

Running ==
  [r \in Regs |-> CASE r \in {RF_CTRL, RF_B_CTRL, RF_A_3WIRE, RF_B_3WIRE, SYS_FUNC_EN} -> 0..2
                    [] r = CPU_EN -> {2, 4, 7} [] r = MCUFW_CTRL -> {7} [] r = CR -> All
                    [] r = CR_SEC -> {1, 2} [] r = RSV_CTRL -> {5, 6} [] r = \h12 -> {0}
                    [] r = POWER_READY -> {1} [] OTHER -> {}]

(* The chip is asleep, or was left running by another driver; the board may*)
(* ask for the hardware to power down with the driver.                     *)
Init ==
  /\ \E strap \in {{}, {7}} :
       \/ reg = [Asleep EXCEPT ![APS] = @ \cup strap] /\ mac = FALSE
       \/ reg = [Running EXCEPT ![APS] = @ \cup strap] /\ mac = TRUE
  /\ call = "none" /\ flow = 1 /\ step = 1 /\ down = FALSE /\ flag = FALSE /\ probed = FALSE
  /\ calls = 0 /\ timeouts = 0 /\ in_call = 0

Flows ==
  CASE call = "on" -> PowerOnFlows [] call = "off" -> PowerOffFlows
    [] call = "probe" -> ProbeFlows [] call = "unprobe" -> <<SwitchOff>>
Ended == call = "none" \/ flow > Len(Flows)
Cur == Flows[flow][step]
Is(cmds) == ~Ended /\ Cur.cmd \in cmds

Enter(c) == call' = c /\ flow' = 1 /\ step' = 1 /\ down' = (c = "off" /\ 7 \in reg[APS])

Begin(c) ==
  /\ call = "none" /\ calls < MAX_CALLS /\ calls' = calls + 1
  /\ Enter(c) /\ in_call' = 0
  /\ UNCHANGED <<reg, mac, flag, probed, timeouts>>

(* rtw_chip_efuse_enable; it is followed by rtw_chip_efuse_disable.        *)
Probe == ~probed /\ Begin("probe")

PowerOn == probed /\ ~flag /\ Begin("on")

(* REG_CR of a MAC without power reads 0xEA; then there is nothing to do.  *)
PowerOff == probed /\ mac /\ reg[CR] # {} /\ Begin("off")

NextFlow == flow' = flow + 1 /\ step' = 1
NextStep == IF step = Len(Flows[flow]) THEN NextFlow ELSE flow' = flow /\ step' = step + 1

Go(next) == next /\ UNCHANGED <<call, down, flag, probed, calls, timeouts, in_call>>

Has(r, c) == r[c.reg] \cap c.mask = c.value
Written(r, c) == IF c.reg \in Regs THEN [r EXCEPT ![c.reg] = (@ \ c.mask) \cup c.value] ELSE r

(* rtw_sub_pwr_seq_parser passes over commands for another bus.            *)
ForUs(c) == c.bus \in {"all", "usb"}

PassOver == ~Ended /\ ~ForUs(Cur) /\ Go(NextStep) /\ UNCHANGED <<reg, mac>>

Write ==
  /\ Is({"write", "restore"}) /\ ForUs(Cur)
  /\ reg' = IF Cur.cmd = "write" \/ down THEN Written(reg, Cur) ELSE reg
  /\ Go(NextStep) /\ UNCHANGED mac

Branch ==
  /\ Is({"if", "if_on"})
  /\ IF (IF Cur.cmd = "if" THEN Has(reg, Cur) ELSE mac) THEN Go(NextStep) ELSE Go(NextFlow)
  /\ UNCHANGED <<reg, mac>>

(* A MAC that did not go off is not switched on: -EALREADY.                *)
StillOn ==
  /\ Is({"unless_on"}) /\ UNCHANGED <<reg, mac>>
  /\ IF mac THEN Enter("none") /\ UNCHANGED <<flag, probed, calls, timeouts, in_call>> ELSE Go(NextStep)

(* What the hardware does when a poll finds what it waits for: the MAC     *)
(* comes up or goes down, which clears its registers; power is ready unless*)
(* suspended; what was being sent is out.                                  *)
Cleared(r) == [x \in Regs |-> IF x \in MacRegs THEN {} ELSE r[x]]
Polled(c) == Written(reg, c)

Possible(c) == c.reg = POWER_READY => 3 \notin reg[APS]

Answers(c) ==
  CASE c.reg = APS /\ c.mask = {1} -> reg' = Cleared(Polled(c)) /\ mac' = FALSE
    [] c.reg = APS /\ c.mask # {1} -> reg' = Polled(c) /\ mac' = TRUE
    [] OTHER -> reg' = Polled(c) /\ UNCHANGED mac

Poll == Is({"poll", "try_poll"}) /\ Possible(Cur) /\ Answers(Cur) /\ Go(NextStep)

Fault(n) == timeouts' = timeouts + n /\ in_call' = in_call + n /\ timeouts' <= MAX_TIMEOUTS

(* A poll gives up after RTW_PWR_POLLING_CNT reads; the hardware may get   *)
(* there later.  The call ends, or in power_off, which does not look at the*)
(* result, the flow.                                                       *)
Timeout ==
  /\ Is({"poll", "try_poll"})
  /\ (Possible(Cur) /\ Answers(Cur)) \/ UNCHANGED <<reg, mac>>
  /\ Fault(IF Possible(Cur) THEN 1 ELSE 0)
  /\ CASE Cur.cmd = "try_poll" -> NextStep /\ UNCHANGED <<call, down>>
       [] /\ Cur.cmd = "poll"
          /\ call \in {"off", "unprobe"} \/ (call = "probe" /\ flow = 2) ->
            NextFlow /\ UNCHANGED <<call, down>>
       [] OTHER -> Enter("none")
  /\ UNCHANGED <<flag, probed, calls>>

Succeeds == Is({"err", "err_off"}) /\ Go(NextStep) /\ UNCHANGED <<reg, mac>>

Fails ==
  /\ Is({"err", "err_off"}) /\ Fault(1)
  /\ Enter(IF Cur.cmd = "err" THEN "none" ELSE IF call = "on" THEN "off" ELSE "unprobe")
  /\ UNCHANGED <<reg, mac, flag, probed, calls>>

Done ==
  /\ call # "none" /\ Ended
  /\ Enter(IF call = "probe" THEN "unprobe" ELSE "none")
  /\ flag' = (call = "on") /\ probed' = (probed \/ call = "probe")
  /\ UNCHANGED <<reg, mac, calls, timeouts, in_call>>

Next ==
  Probe \/ PowerOn \/ PowerOff \/ PassOver \/ Write \/ Branch \/ StillOn \/ Poll \/ Timeout \/ Succeeds \/ Fails \/ Done

Spec == Init /\ [][Next]_vars

----------------------------------------------------------------------------
(* Whatever timed out before and meanwhile, after power_off the radio is   *)
(* silent, the MAC neither sends nor receives and no firmware runs.        *)
SilentWhenOff ==
  call = "off" /\ Ended =>
    /\ reg[RF_A_3WIRE] = {2} /\ reg[RF_B_3WIRE] = {2} /\ 0 \notin reg[SYS_FUNC_EN]
    /\ reg[CR] \cap {6, 7} = {} /\ 2 \notin reg[CPU_EN] /\ 7 \notin reg[MCUFW_CTRL]

(* A chip that is powered on has all of its parts on, and is not asleep,   *)
(* whatever power_on found.                                                *)
ReadyWhenOn ==
  flag /\ call = "none" =>
          /\ {0, 1} \subseteq reg[SYS_FUNC_EN] /\ 2 \in reg[CPU_EN] /\ 7 \in reg[MCUFW_CTRL]
          /\ reg[CR] = All /\ {1, 2} \subseteq reg[CR_SEC] /\ reg[APS] \cap {2, 3} = {}
          /\ \A r \in {RF_CTRL, RF_B_CTRL, RF_A_3WIRE, RF_B_3WIRE} : reg[r] = 0..2
          /\ \A r \in {\h14, \h15, \h23, \h43, \h46} : reg[r] = {}

(* The MAC is brought up only with its firmware stopped and its sender and *)
(* receiver off: "it probably occurs some problem for double initial       *)
(* procedure" (rtw88xxa.c:1052).                                           *)
NoDoubleInit ==
  ~Ended /\ call = "on" /\ flow = 3 /\ Cur = W(APS, {0}, {0}) => 7 \notin reg[MCUFW_CTRL] /\ reg[CR] \cap {6, 7} = {}

(* No state of the chip keeps a power_on without a timeout from ending.    *)
OnUnlessTimeout == call = "none" /\ calls > 0 /\ in_call = 0 => flag \/ ~mac
=============================================================================
