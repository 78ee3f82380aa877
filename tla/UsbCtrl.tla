------------------------------ MODULE UsbCtrl ------------------------------
(***************************************************************************)
(* Register access over the USB control pipe (usb.c, hci.h).  All callers  *)
(* share one transfer buffer under usb_ctrl_mutex; a read that fails is    *)
(* tried again if the error may be transient, a write never is; a caller   *)
(* is not told of a failure, it gets whatever the buffer holds.  The       *)
(* read-modify-write helpers are a read and a write, and are called with   *)
(* rtwdev->mutex held.                                                     *)
(*                                                                         *)
(* A register is the set of its bits that are 1.                           *)
(***************************************************************************)
EXTENDS Integers, FiniteSets

CONSTANTS
  Threads, Regs, NULL,
  OWN,           (* the bits the driver uses in each register              *)
  MAX_ATTEMPTS,  (* RTW_USB_CTRL_READ_MAX_ATTEMPTS, 3                      *)
  MAX_ERRORS     (* bound: ctrl_error_count is not counted beyond it       *)

Bits == UNION {OWN[r] : r \in Regs}

VARIABLES
  reg,              (* what the chip's registers hold                      *)
  asked,            (* history: what the writes so far asked them to hold  *)
  usb_data,         (* rtwusb->usb_data                                    *)
  usb_ctrl_mutex, rtwdev_mutex,
  pc, call,         (* each thread's place and what it was called to do    *)
  attempt, ret,     (* locals of rtw_usb_read                              *)
  val,              (* what the read returned, or what is to be written    *)
  ctrl_error_count

local == <<pc, call, attempt, ret, val>>
vars == <<reg, asked, usb_data, usb_ctrl_mutex, rtwdev_mutex, local, ctrl_error_count>>

Calls == {"read", "write", "set", "clr"}
NoCall == [kind |-> "none"]

Init ==
  /\ reg = [r \in Regs |-> {}] /\ asked = reg
  /\ usb_data = {} /\ usb_ctrl_mutex = NULL /\ rtwdev_mutex = NULL
  /\ pc = [t \in Threads |-> "idle"]
  /\ call = [t \in Threads |-> NoCall]
  /\ attempt = 0 /\ ret = "ok"
  /\ val = [t \in Threads |-> {}]
  /\ ctrl_error_count = 0

CountError ==
  ctrl_error_count' = IF ctrl_error_count = MAX_ERRORS THEN MAX_ERRORS
                      ELSE ctrl_error_count + 1

----------------------------------------------------------------------------
Operand(k, r, B) ==
  CASE k = "read" -> B = {}
    [] k = "write" -> B \subseteq OWN[r]
    [] OTHER -> B # {} /\ B \subseteq OWN[r]

(* rtw_read*, rtw_write*, rtw_write*_set and rtw_write*_clr; rtw_write*_mask *)
(* combines the last two.                                                   *)
Call(t, k, r, B) ==
  /\ pc[t] = "idle" /\ Operand(k, r, B)
  /\ k = "read" \/ rtwdev_mutex = NULL
  /\ rtwdev_mutex' = IF k = "read" THEN rtwdev_mutex ELSE t
  /\ call' = [call EXCEPT ![t] = [kind |-> k, reg |-> r, bits |-> B]]
  /\ pc' = [pc EXCEPT ![t] = IF k = "write" THEN "write" ELSE "read"]
  /\ val' = [val EXCEPT ![t] = IF k = "write" THEN B ELSE {}]
  /\ UNCHANGED <<reg, asked, usb_data, usb_ctrl_mutex, attempt, ret, ctrl_error_count>>

Return(t) ==
  /\ call' = [call EXCEPT ![t] = NoCall]
  /\ val' = [val EXCEPT ![t] = {}]
  /\ rtwdev_mutex' = IF rtwdev_mutex = t THEN NULL ELSE rtwdev_mutex

(* rtw_usb_read: mutex_lock                                                *)
ReadLock(t) ==
  /\ pc[t] = "read" /\ usb_ctrl_mutex = NULL
  /\ usb_ctrl_mutex' = t /\ attempt' = 1
  /\ pc' = [pc EXCEPT ![t] = "transfer"]
  /\ UNCHANGED <<reg, asked, usb_data, rtwdev_mutex, call, ret, val, ctrl_error_count>>

(* A transfer brings the bytes that hold the bits of P, none or all of     *)
(* them included, into a buffer that held d.                               *)
Receive(d, r, P) == (d \ P) \union (reg[r] \intersect P)

(* Mutant: the buffer is not cleared before the transfer.                  *)
BufferKept == usb_data

(* *data = 0, before every attempt                                         *)
Buffer == {}

RetryableErrors == {"EPROTO", "EILSEQ", "ETIME", "ETIMEDOUT", "ECOMM"}

(* rtw_usb_ctrl_error_retryable                                            *)
Retryable(error) == error \in RetryableErrors

(* Mutant: attempts are not counted.                                       *)
SameAttempt == attempt

NextAttempt == attempt + 1

MayRetry(error) == Retryable(error) /\ attempt < MAX_ATTEMPTS

(* One attempt of rtw_usb_read: everything, an error after some of the     *)
(* bytes (EIO stands for a short transfer and for the other errors).       *)
ReadTransfer(t) ==
  /\ pc[t] = "transfer"
  /\ \/ /\ usb_data' = Receive(Buffer, call[t].reg, Bits)
        /\ ret' = "ok" /\ pc' = [pc EXCEPT ![t] = "return"]
        /\ UNCHANGED attempt
     \/ \E error \in {"EPROTO", "EIO"}, P \in SUBSET OWN[call[t].reg] :
        /\ usb_data' = Receive(Buffer, call[t].reg, P)
        /\ IF MayRetry(error)
           THEN attempt' = NextAttempt /\ UNCHANGED <<ret, pc>>
           ELSE /\ ret' = error /\ pc' = [pc EXCEPT ![t] = "return"]
                /\ UNCHANGED attempt
  /\ UNCHANGED <<reg, asked, usb_ctrl_mutex, rtwdev_mutex, call, val, ctrl_error_count>>

(* What is written back, if this was the read of a helper                  *)
Modify(t, data) ==
  CASE call[t].kind = "set" -> data \union call[t].bits
    [] call[t].kind = "clr" -> data \ call[t].bits
    [] OTHER -> data

(* The end of rtw_usb_read: a failure is counted, the value is taken from  *)
(* the buffer before mutex_unlock.                                         *)
ReadReturn(t) ==
  /\ pc[t] = "return"
  /\ IF ret = "ok" THEN UNCHANGED ctrl_error_count ELSE CountError
  /\ usb_ctrl_mutex' = NULL /\ attempt' = 0 /\ ret' = "ok"
  /\ IF call[t].kind = "read"
     THEN pc' = [pc EXCEPT ![t] = "idle"] /\ Return(t)
     ELSE /\ pc' = [pc EXCEPT ![t] = "write"]
          /\ val' = [val EXCEPT ![t] = Modify(t, usb_data)]
          /\ UNCHANGED <<call, rtwdev_mutex>>
  /\ UNCHANGED <<reg, asked, usb_data>>

(* What the register is asked to hold after the call, from what it was     *)
(* asked to hold before                                                    *)
Asked(t) ==
  LET c == call[t]
  IN  CASE c.kind = "write" -> c.bits
        [] c.kind = "set" -> asked[c.reg] \union c.bits
        [] c.kind = "clr" -> asked[c.reg] \ c.bits

(* rtw_usb_write: one transfer, whose failure does not tell whether the    *)
(* chip has got the value                                                  *)
Write(t) ==
  /\ pc[t] = "write" /\ usb_ctrl_mutex = NULL
  /\ usb_data' = val[t]
  /\ asked' = [asked EXCEPT ![call[t].reg] = Asked(t)]
  /\ \/ reg' = [reg EXCEPT ![call[t].reg] = val[t]] /\ UNCHANGED ctrl_error_count
     \/ reg' \in {reg, [reg EXCEPT ![call[t].reg] = val[t]]} /\ CountError
  /\ pc' = [pc EXCEPT ![t] = "idle"]
  /\ Return(t)
  /\ UNCHANGED <<usb_ctrl_mutex, attempt, ret>>

Step(t) == ReadLock(t) \/ ReadTransfer(t) \/ ReadReturn(t) \/ Write(t)

Next ==
  \E t \in Threads :
    \/ \E k \in Calls, r \in Regs : \E B \in SUBSET OWN[r] : Call(t, k, r, B)
    \/ Step(t)

Spec == Init /\ [][Next]_vars

(* A thread inside a call goes on; the mutex is fair.                      *)
Fairness == \A t \in Threads : SF_vars(Step(t))

FairSpec == Spec /\ Fairness

----------------------------------------------------------------------------
(* Registers never hold a bit that belongs to another one, although one    *)
(* buffer serves all and failed reads are written back; and as long as no  *)
(* failure was counted each holds exactly what the calls so far made of it.*)
RegisterIntegrity ==
  /\ \A r \in Regs : reg[r] \subseteq OWN[r]
  /\ ctrl_error_count = 0 => reg = asked

(* A register access returns, whatever the device answers.                 *)
AccessReturns == \A t \in Threads : pc[t] # "idle" ~> pc[t] = "idle"

============================================================================
