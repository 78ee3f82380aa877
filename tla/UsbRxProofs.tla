---------------------------- MODULE UsbRxProofs ----------------------------
(***************************************************************************)
(* Proofs about UsbRx, for any number of slots and buffers, when the       *)
(* resubmit worker cannot run before rtw_usb_setup_rx has returned.        *)
(***************************************************************************)
EXTENDS UsbRx, FiniteSetTheorems, TLAPS

(* What makes OneFiller inductive: which context may be where, ...         *)
Places ==
  /\ \A s \in Slots : at[s] = s
  /\ pc[Setup] # "schedule" /\ pc[Worker] # "schedule"
  /\ ~working => pc[Worker] = "out"
  /\ phase = "setup" => ~working
  /\ phase # "setup" => pc[Setup] = "out"

(* ... that the probe loop comes once to each slot, which it finds empty,  *)
SetupLoop ==
  /\ Filling(Setup) => at[Setup] \notin todo.setup
  /\ phase = "setup" => \A s \in todo.setup : rx_skb[s] = NULL

(* ... that an empty slot is idle, and a filled URB has a buffer,          *)
EmptySlots ==
  /\ \A s \in Slots : rx_skb[s] = NULL => urb[s] = "idle" /\ ~Filling(s)
  /\ \A c \in Ctx : pc[c] \in {"submit", "failed"} => rx_skb[at[c]] # NULL

(* ... and when the local rx_skb of a context is a buffer in hand.         *)
InHand ==
  /\ \A c \in Ctx : buf[c] # NULL <=> pc[c] = "assign"
  /\ hbuf # NULL <=> hpc \in {"deliver", "drop", "keep"}

Discipline == Places /\ SetupLoop /\ EmptySlots /\ InHand

Inv == TypeOK /\ OneFiller /\ Discipline

(* A step of rtw_usb_rx_resubmit keeps the invariant.                      *)
LEMMA ResubmitInv ==
  ASSUME Inv, NEW c \in Ctx, Resubmit(c)
  PROVE  Inv'
<1> USE ConstantsAssumption
     DEF Inv, Places, SetupLoop, EmptySlots, InHand, Ctx, Goto, Filling,
         pool, locals, work, handler, control
<1>1. CASE ResubmitTake(c)
  <2>1. TypeOK'
    BY <1>1 DEF ResubmitTake, TypeOK, PC, Phases, Quiesced
  <2>2. OneFiller'
    BY <1>1 DEF ResubmitTake, TypeOK, OneFiller, Discipline
  <2>3. Discipline'
    BY <1>1 DEF ResubmitTake, TypeOK, OneFiller, Discipline
  <2> QED BY <2>1, <2>2, <2>3
<1>2. CASE ResubmitAlloc(c)
  <2>1. TypeOK'
    BY <1>2 DEF ResubmitAlloc, Fault, TypeOK, PC, Phases, Quiesced
  <2>2. OneFiller'
    BY <1>2 DEF ResubmitAlloc, Fault, TypeOK, OneFiller, Discipline
  <2>3. Discipline'
    BY <1>2 DEF ResubmitAlloc, Fault, TypeOK, OneFiller, Discipline
  <2> QED BY <2>1, <2>2, <2>3
<1>3. CASE ResubmitAssign(c)
  <2>1. TypeOK'
    BY <1>3 DEF ResubmitAssign, TypeOK, PC, Phases, Quiesced
  <2>2. OneFiller'
    BY <1>3 DEF ResubmitAssign, TypeOK, OneFiller, Discipline
  <2>3. Discipline'
    BY <1>3 DEF ResubmitAssign, TypeOK, OneFiller, Discipline
  <2> QED BY <2>1, <2>2, <2>3
<1>4. CASE ResubmitSubmit(c)
  <2>1. TypeOK'
    <3>1. /\ urb' \in [Slots -> {"idle", "active"}]
          /\ pc' \in [Ctx -> PC]
          /\ faults' \in 0..MAX_FAULTS
      BY <1>4 DEF ResubmitSubmit, TypeOK, PC, Fault
    <3>2. retry' \in [Ctx -> BOOLEAN]
      BY <1>4 DEF ResubmitSubmit, TypeOK
    <3> QED BY <1>4, <3>1, <3>2 DEF ResubmitSubmit, TypeOK
  <2>2. OneFiller'
    BY <1>4 DEF ResubmitSubmit, Fault, TypeOK, OneFiller, Discipline
  <2>3. Discipline'
    BY <1>4 DEF ResubmitSubmit, Fault, TypeOK, OneFiller, Discipline
  <2> QED BY <2>1, <2>2, <2>3
<1>5. CASE ResubmitFailed(c)
  <2>1. TypeOK'
    BY <1>5 DEF ResubmitFailed, TypeOK, PC, Phases, Quiesced, Discipline
  <2>2. OneFiller'
    BY <1>5 DEF ResubmitFailed, TypeOK, OneFiller, Discipline
  <2>3. Discipline'
    BY <1>5 DEF ResubmitFailed, TypeOK, OneFiller, Discipline
  <2> QED BY <2>1, <2>2, <2>3
<1>6. CASE ResubmitClear(c)
  <2>1. TypeOK'
    BY <1>6 DEF ResubmitClear, TypeOK, PC, Phases, Quiesced
  <2>2. OneFiller'
    BY <1>6 DEF ResubmitClear, TypeOK, OneFiller, Discipline
  <2>3. Discipline'
    BY <1>6 DEF ResubmitClear, TypeOK, OneFiller, Discipline
  <2> QED BY <2>1, <2>2, <2>3
<1>7. CASE ResubmitLater(c)
  <2>1. TypeOK'
    BY <1>7 DEF ResubmitLater, TypeOK, PC, Phases, Quiesced
  <2>2. OneFiller'
    BY <1>7 DEF ResubmitLater, TypeOK, OneFiller, Discipline
  <2>3. Discipline'
    BY <1>7 DEF ResubmitLater, TypeOK, OneFiller, Discipline
  <2> QED BY <2>1, <2>2, <2>3
<1> QED BY <1>1, <1>2, <1>3, <1>4, <1>5, <1>6, <1>7 DEF Resubmit

(* A completion callback, and its queueing of the handler, keep it.        *)
LEMMA CompleteInv ==
  ASSUME Inv, NEW s \in Slots, Complete(s) \/ CompleteSchedule(s)
  PROVE  Inv'
<1> USE ConstantsAssumption
     DEF Inv, Places, SetupLoop, EmptySlots, InHand, Ctx, Goto, Filling,
         pool, locals, work, handler, control
<1>1. CASE CompleteData(s)
  <2>1. TypeOK'
    BY <1>1 DEF CompleteData, Giveback, Fault, Unlinked, TypeOK, PC, Phases, Quiesced, Discipline
  <2>2. OneFiller'
    BY <1>1 DEF CompleteData, Giveback, Fault, Unlinked, TypeOK, OneFiller, Discipline
  <2>3. Discipline'
    BY <1>1 DEF CompleteData, Giveback, Fault, Unlinked, TypeOK, OneFiller, Discipline
  <2> QED BY <2>1, <2>2, <2>3
<1>2. CASE CompleteRecoverable(s)
  <2>1. TypeOK'
    BY <1>2 DEF CompleteRecoverable, Giveback, Fault, Unlinked, TypeOK, PC, Phases, Quiesced, Discipline
  <2>2. OneFiller'
    BY <1>2 DEF CompleteRecoverable, Giveback, Fault, Unlinked, TypeOK, OneFiller, Discipline
  <2>3. Discipline'
    BY <1>2 DEF CompleteRecoverable, Giveback, Fault, Unlinked, TypeOK, OneFiller, Discipline
  <2> QED BY <2>1, <2>2, <2>3
<1>3. CASE CompleteFatal(s)
  <2>1. TypeOK'
    BY <1>3 DEF CompleteFatal, Giveback, Fault, Unlinked, TypeOK, PC, Phases, Quiesced, Discipline
  <2>2. OneFiller'
    BY <1>3 DEF CompleteFatal, Giveback, Fault, Unlinked, TypeOK, OneFiller, Discipline
  <2>3. Discipline'
    BY <1>3 DEF CompleteFatal, Giveback, Fault, Unlinked, TypeOK, OneFiller, Discipline
  <2> QED BY <2>1, <2>2, <2>3
<1>4. CASE CompleteSchedule(s)
  <2>1. TypeOK'
    BY <1>4 DEF CompleteSchedule, TypeOK, PC, Phases, Quiesced
  <2>2. OneFiller'
    BY <1>4 DEF CompleteSchedule, TypeOK, OneFiller, Discipline
  <2>3. Discipline'
    BY <1>4 DEF CompleteSchedule, TypeOK, OneFiller, Discipline
  <2> QED BY <2>1, <2>2, <2>3
<1> QED BY <1>1, <1>2, <1>3, <1>4 DEF Complete

(* The resubmit worker keeps it, if it does not run during the probe loop. *)
LEMMA WorkerInv ==
  ASSUME Inv, ~RETRY_IN_SETUP, RetryWorker
  PROVE  Inv'
<1> USE ConstantsAssumption
     DEF Inv, Places, SetupLoop, EmptySlots, InHand, Ctx, Goto, Filling,
         pool, locals, work, handler, control
<1>1. CASE WorkerStart
  <2>1. TypeOK'
    BY <1>1 DEF WorkerStart, TypeOK, PC, Phases, Quiesced
  <2>2. OneFiller'
    BY <1>1 DEF WorkerStart, TypeOK, OneFiller, Discipline
  <2>3. Discipline'
    BY <1>1 DEF WorkerStart, TypeOK, OneFiller, Discipline
  <2> QED BY <2>1, <2>2, <2>3
<1>2. CASE \E s \in Slots : WorkerVisit(s)
  <2>1. TypeOK'
    BY <1>2 DEF WorkerVisit, SlotEmpty, TypeOK, PC, Phases, Quiesced
  <2>2. OneFiller'
    BY <1>2 DEF WorkerVisit, SlotEmpty, TypeOK, OneFiller, Discipline
  <2>3. Discipline'
    BY <1>2 DEF WorkerVisit, SlotEmpty, TypeOK, OneFiller, Discipline
  <2> QED BY <2>1, <2>2, <2>3
<1>3. CASE WorkerEnd
  <2>1. TypeOK'
    BY <1>3 DEF WorkerEnd, TypeOK, PC, Phases, Quiesced
  <2>2. OneFiller'
    BY <1>3 DEF WorkerEnd, TypeOK, OneFiller, Discipline
  <2>3. Discipline'
    BY <1>3 DEF WorkerEnd, TypeOK, OneFiller, Discipline
  <2> QED BY <2>1, <2>2, <2>3
<1> QED BY <1>1, <1>2, <1>3 DEF RetryWorker

(* The RX handler keeps it.                                                *)
LEMMA HandlerInv ==
  ASSUME Inv, Handler
  PROVE  Inv'
<1> USE ConstantsAssumption
     DEF Inv, Places, SetupLoop, EmptySlots, InHand, Ctx, Goto, Filling,
         pool, locals, work, handler, control
<1>1. CASE HandlerStart
  <2>1. TypeOK'
    BY <1>1 DEF HandlerStart, TypeOK, PC, Phases, Quiesced
  <2>2. OneFiller'
    BY <1>1 DEF HandlerStart, TypeOK, OneFiller, Discipline
  <2>3. Discipline'
    BY <1>1 DEF HandlerStart, TypeOK, OneFiller, Discipline
  <2> QED BY <2>1, <2>2, <2>3
<1>2. CASE \E b \in Skbs : HandlerTake(b)
  <2>1. TypeOK'
    BY <1>2 DEF HandlerTake, TypeOK, PC, Phases, Quiesced
  <2>2. OneFiller'
    BY <1>2 DEF HandlerTake, TypeOK, OneFiller, Discipline
  <2>3. Discipline'
    BY <1>2 DEF HandlerTake, TypeOK, OneFiller, Discipline
  <2> QED BY <2>1, <2>2, <2>3
<1>3. CASE HandlerDeliver
  <2>1. TypeOK'
    BY <1>3 DEF HandlerDeliver, TypeOK, PC, Phases, Quiesced
  <2>2. OneFiller'
    BY <1>3 DEF HandlerDeliver, TypeOK, OneFiller, Discipline
  <2>3. Discipline'
    BY <1>3 DEF HandlerDeliver, TypeOK, OneFiller, Discipline
  <2> QED BY <2>1, <2>2, <2>3
<1>4. CASE HandlerPut
  <2>1. TypeOK'
    BY <1>4 DEF HandlerPut, TypeOK, PC, Phases, Quiesced, Discipline
  <2>2. OneFiller'
    BY <1>4 DEF HandlerPut, TypeOK, OneFiller, Discipline
  <2>3. Discipline'
    BY <1>4 DEF HandlerPut, TypeOK, OneFiller, Discipline
  <2> QED BY <2>1, <2>2, <2>3
<1>5. CASE HandlerEnd
  <2>1. TypeOK'
    BY <1>5 DEF HandlerEnd, TypeOK, PC, Phases, Quiesced
  <2>2. OneFiller'
    BY <1>5 DEF HandlerEnd, TypeOK, OneFiller, Discipline
  <2>3. Discipline'
    BY <1>5 DEF HandlerEnd, TypeOK, OneFiller, Discipline
  <2> QED BY <2>1, <2>2, <2>3
<1> QED BY <1>1, <1>2, <1>3, <1>4, <1>5 DEF Handler

(* The probe and the disconnect thread keep it.                            *)
LEMMA ThreadInv ==
  ASSUME Inv,
         (\E s \in Slots : SetupVisit(s)) \/ SetupEnd \/ UsbUnbind \/ Disconnect
  PROVE  Inv'
<1> USE ConstantsAssumption
     DEF Inv, Places, SetupLoop, EmptySlots, InHand, Ctx, Goto, Filling,
         pool, locals, work, handler, control
<1>1. CASE \E s \in Slots : SetupVisit(s)
  <2>1. TypeOK'
    BY <1>1 DEF SetupVisit, TypeOK, PC, Phases, Quiesced
  <2>2. OneFiller'
    BY <1>1 DEF SetupVisit, TypeOK, OneFiller, Discipline
  <2>3. Discipline'
    BY <1>1 DEF SetupVisit, TypeOK, OneFiller, Discipline
  <2> QED BY <2>1, <2>2, <2>3
<1>2. CASE SetupEnd
  <2>1. TypeOK'
    BY <1>2 DEF SetupEnd, Only, Step, TypeOK, PC, Phases, Quiesced
  <2>2. OneFiller'
    BY <1>2 DEF SetupEnd, Only, Step, TypeOK, OneFiller, Discipline
  <2>3. Discipline'
    BY <1>2 DEF SetupEnd, Only, Step, TypeOK, OneFiller, Discipline
  <2> QED BY <2>1, <2>2, <2>3
<1>3. CASE UsbUnbind
  <2>1. TypeOK'
    BY <1>3 DEF UsbUnbind, Step, TypeOK, PC, Phases, Quiesced
  <2>2. OneFiller'
    BY <1>3 DEF UsbUnbind, Step, TypeOK, OneFiller, Discipline
  <2>3. Discipline'
    BY <1>3 DEF UsbUnbind, Step, TypeOK, OneFiller, Discipline
  <2> QED BY <2>1, <2>2, <2>3
<1>4. CASE UsbFlushed \/ KillEnd \/ UnregisterHw \/ DestroyRxWq \/ FreeRxBufs
  <2>1. TypeOK'
    BY <1>4 DEF UsbFlushed, KillEnd, UnregisterHw, DestroyRxWq,
           FreeRxBufs, Only, Step, TypeOK, PC, Phases, Quiesced
  <2>2. OneFiller'
    BY <1>4 DEF UsbFlushed, KillEnd, UnregisterHw, DestroyRxWq,
           FreeRxBufs, Only, Step, TypeOK, OneFiller, Discipline
  <2>3. Discipline'
    BY <1>4 DEF UsbFlushed, KillEnd, UnregisterHw, DestroyRxWq,
           FreeRxBufs, Only, Step, TypeOK, OneFiller, Discipline
  <2> QED BY <2>1, <2>2, <2>3
<1>5. CASE CancelRxBufs1 \/ CancelRxBufs2 \/ CancelRetry3
  <2>1. TypeOK'
    BY <1>5 DEF CancelRxBufs1, CancelRxBufs2, CancelRetry3,
           CancelWork, Step, TypeOK, PC, Phases, Quiesced
  <2>2. OneFiller'
    BY <1>5 DEF CancelRxBufs1, CancelRxBufs2, CancelRetry3,
           CancelWork, Step, TypeOK, OneFiller, Discipline
  <2>3. Discipline'
    BY <1>5 DEF CancelRxBufs1, CancelRxBufs2, CancelRetry3,
           CancelWork, Step, TypeOK, OneFiller, Discipline
  <2> QED BY <2>1, <2>2, <2>3
<1>6. CASE \E s \in Slots : KillUrb(s)
  <2>1. TypeOK'
    BY <1>6 DEF KillUrb, TypeOK, PC, Phases, Quiesced
  <2>2. OneFiller'
    BY <1>6 DEF KillUrb, TypeOK, OneFiller, Discipline
  <2>3. Discipline'
    BY <1>6 DEF KillUrb, TypeOK, OneFiller, Discipline
  <2> QED BY <2>1, <2>2, <2>3
<1>7. CASE KillUrbDone
  <2>1. TypeOK'
    BY <1>7 DEF KillUrbDone, TypeOK, PC, Phases, Quiesced
  <2>2. OneFiller'
    BY <1>7 DEF KillUrbDone, TypeOK, OneFiller, Discipline
  <2>3. Discipline'
    BY <1>7 DEF KillUrbDone, TypeOK, OneFiller, Discipline
  <2> QED BY <2>1, <2>2, <2>3
<1>8. CASE PurgeRxQueue \/ PurgeFreeQueue
  <2>1. TypeOK'
    BY <1>8 DEF PurgeRxQueue, PurgeFreeQueue, Step, TypeOK, PC, Phases, Quiesced
  <2>2. OneFiller'
    BY <1>8 DEF PurgeRxQueue, PurgeFreeQueue, Step, TypeOK, OneFiller, Discipline
  <2>3. Discipline'
    BY <1>8 DEF PurgeRxQueue, PurgeFreeQueue, Step, TypeOK, OneFiller, Discipline
  <2> QED BY <2>1, <2>2, <2>3
<1> QED BY <1>1, <1>2, <1>3, <1>4, <1>5, <1>6, <1>7, <1>8 DEF Disconnect

(* The invariant is inductive, and holds initially.                        *)
LEMMA InitInv == Init => Inv
<1> SUFFICES ASSUME Init PROVE Inv
  OBVIOUS
<1> USE ConstantsAssumption DEF Init, Ctx, Filling
<1>1. TypeOK
  <2>1. rx_free_queue \subseteq Skbs /\ heap \subseteq Skbs /\ rx_queue \subseteq Skbs
    OBVIOUS
  <2>2. todo \in [setup : SUBSET Slots, worker : SUBSET Slots,
                  kill : SUBSET Slots]
    OBVIOUS
  <2>3. /\ rx_skb \in [Slots -> Skbs \union {NULL}]
        /\ urb \in [Slots -> {"idle", "active"}]
        /\ pc \in [Ctx -> PC] /\ at \in [Ctx -> Slots]
        /\ buf \in [Ctx -> Skbs \union {NULL}]
        /\ retry \in [Ctx -> BOOLEAN]
    BY DEF PC
  <2>4. phase \in Phases /\ faults \in 0..MAX_FAULTS
    BY DEF Phases
  <2> QED BY <2>1, <2>2, <2>3, <2>4 DEF TypeOK
<1>2. OneFiller
  BY DEF OneFiller
<1>3. Discipline
  BY DEF Discipline, Places, SetupLoop, EmptySlots, InHand
<1> QED BY <1>1, <1>2, <1>3 DEF Inv

LEMMA NextInv ==
  ASSUME ~RETRY_IN_SETUP, Inv, [Next]_vars
  PROVE  Inv'
<1>1. CASE UNCHANGED vars
  BY <1>1 DEF vars, pool, locals, work, handler, control, Inv, TypeOK,
     OneFiller, Discipline, Places, SetupLoop, EmptySlots, InHand, Filling
<1>2. CASE \E c \in Ctx : Resubmit(c)
  BY <1>2, ResubmitInv
<1>3. CASE \E s \in Slots : Complete(s) \/ CompleteSchedule(s)
  BY <1>3, CompleteInv
<1>4. CASE RetryWorker
  BY <1>4, WorkerInv
<1>5. CASE Handler
  BY <1>5, HandlerInv
<1>6. CASE (\E s \in Slots : SetupVisit(s)) \/ SetupEnd \/ UsbUnbind
           \/ Disconnect
  BY <1>6, ThreadInv
<1> QED
  BY <1>1, <1>2, <1>3, <1>4, <1>5, <1>6 DEF Next, Terminated

(* Every variable has its type, for any pool size.                         *)
THEOREM TypesKept ==
  ASSUME ~RETRY_IN_SETUP
  PROVE  Spec => []TypeOK
<1>1. Inv => TypeOK
  BY DEF Inv
<1> QED BY <1>1, InitInv, NextInv, PTL DEF Spec

(* rtw_usb_rx_resubmit: two contexts never refill the same slot, nor one   *)
(* whose URB is active, for any pool size.                                 *)
THEOREM OneFillerOnly ==
  ASSUME ~RETRY_IN_SETUP
  PROVE  Spec => []OneFiller
<1>1. Inv => OneFiller
  BY DEF Inv
<1> QED BY <1>1, InitInv, NextInv, PTL DEF Spec

----------------------------------------------------------------------------
(* Every buffer has exactly one owner.                                     *)
Owned == QueuesDisjoint /\ UrbBufferExclusive /\ NoBufferLost

LEMMA InitOwned == Init => Owned
  BY ConstantsAssumption DEF Init, Owned, QueuesDisjoint, UrbBufferExclusive,
     NoBufferLost, SlotOwns, Elsewhere, Ctx

(* Every step that moves a buffer moves it from one owner to one other.    *)
LEMMA NextOwned ==
  ASSUME Inv, Owned, [Next]_vars
  PROVE  Owned'
<1> USE ConstantsAssumption
     DEF Inv, TypeOK, OneFiller, Discipline, Places, EmptySlots, InHand, Owned,
         QueuesDisjoint, UrbBufferExclusive, NoBufferLost, SlotOwns, Elsewhere,
         Ctx, Goto, Filling, pool, locals, work, handler, control
<1>1. CASE \E c \in Ctx : ResubmitTake(c)
  <2>1. QueuesDisjoint'
    BY <1>1 DEF ResubmitTake
  <2>2. UrbBufferExclusive'
    BY <1>1 DEF ResubmitTake
  <2>3. NoBufferLost'
    BY <1>1 DEF ResubmitTake
  <2> QED BY <2>1, <2>2, <2>3
<1>2. CASE \E c \in Ctx : ResubmitAlloc(c)
  <2>1. QueuesDisjoint'
    BY <1>2 DEF ResubmitAlloc
  <2>2. UrbBufferExclusive'
    BY <1>2 DEF ResubmitAlloc
  <2>3. NoBufferLost'
    BY <1>2 DEF ResubmitAlloc
  <2> QED BY <2>1, <2>2, <2>3
<1>3. CASE \E c \in Ctx : ResubmitAssign(c)
  <2>1. QueuesDisjoint'
    BY <1>3 DEF ResubmitAssign
  <2>2. UrbBufferExclusive'
    BY <1>3 DEF ResubmitAssign
  <2>3. NoBufferLost'
    BY <1>3 DEF ResubmitAssign
  <2> QED BY <2>1, <2>2, <2>3
<1>4. CASE \E c \in Ctx : ResubmitSubmit(c)
  BY <1>4 DEF ResubmitSubmit
<1>5. CASE \E c \in Ctx : ResubmitFailed(c)
  <2>1. QueuesDisjoint'
    BY <1>5 DEF ResubmitFailed
  <2>2. UrbBufferExclusive'
    BY <1>5 DEF ResubmitFailed
  <2>3. NoBufferLost'
    BY <1>5 DEF ResubmitFailed
  <2> QED BY <2>1, <2>2, <2>3
<1>6. CASE \E c \in Ctx : ResubmitClear(c)
  BY <1>6 DEF ResubmitClear
<1>7. CASE \E c \in Ctx : ResubmitLater(c)
  BY <1>7 DEF ResubmitLater
<1>8. CASE \E s \in Slots : CompleteData(s)
  <2>1. QueuesDisjoint'
    BY <1>8 DEF CompleteData, Giveback
  <2>2. UrbBufferExclusive'
    BY <1>8 DEF CompleteData, Giveback
  <2>3. NoBufferLost'
    BY <1>8 DEF CompleteData, Giveback
  <2> QED BY <2>1, <2>2, <2>3
<1>9. CASE \E s \in Slots : CompleteRecoverable(s)
  <2>1. QueuesDisjoint'
    BY <1>9 DEF CompleteRecoverable, Giveback
  <2>2. UrbBufferExclusive'
    BY <1>9 DEF CompleteRecoverable, Giveback
  <2>3. NoBufferLost'
    BY <1>9 DEF CompleteRecoverable, Giveback
  <2> QED BY <2>1, <2>2, <2>3
<1>10. CASE \E s \in Slots : CompleteFatal(s)
  <2>1. QueuesDisjoint'
    BY <1>10 DEF CompleteFatal, Giveback
  <2>2. UrbBufferExclusive'
    BY <1>10 DEF CompleteFatal, Giveback
  <2>3. NoBufferLost'
    BY <1>10 DEF CompleteFatal, Giveback
  <2> QED BY <2>1, <2>2, <2>3
<1>11. CASE \E s \in Slots : CompleteSchedule(s)
  BY <1>11 DEF CompleteSchedule
<1>12. CASE RetryWorker
  BY <1>12 DEF RetryWorker, WorkerStart, WorkerVisit, WorkerEnd, SlotEmpty
<1>13. CASE \E b \in Skbs : HandlerTake(b)
  <2>1. QueuesDisjoint'
    BY <1>13 DEF HandlerTake
  <2>2. UrbBufferExclusive'
    BY <1>13 DEF HandlerTake
  <2>3. NoBufferLost'
    BY <1>13 DEF HandlerTake
  <2> QED BY <2>1, <2>2, <2>3
<1>14. CASE HandlerPut
  <2>1. QueuesDisjoint'
    BY <1>14 DEF HandlerPut
  <2>2. UrbBufferExclusive'
    BY <1>14 DEF HandlerPut
  <2>3. NoBufferLost'
    BY <1>14 DEF HandlerPut
  <2> QED BY <2>1, <2>2, <2>3
<1>15. CASE HandlerStart \/ HandlerDeliver \/ HandlerEnd
  BY <1>15 DEF HandlerStart, HandlerDeliver, HandlerEnd
<1>16. CASE \E s \in Slots : SetupVisit(s)
  BY <1>16 DEF SetupVisit
<1>17. CASE PurgeRxQueue \/ PurgeFreeQueue
  BY <1>17 DEF PurgeRxQueue, PurgeFreeQueue, Step
<1>18. CASE (\E s \in Slots : KillUrb(s)) \/ KillUrbDone
  BY <1>18 DEF KillUrb, KillUrbDone
<1>19. CASE CancelRxBufs1 \/ CancelRxBufs2 \/ CancelRetry3
  BY <1>19 DEF CancelRxBufs1, CancelRxBufs2, CancelRetry3, CancelWork, Step
<1>20. CASE \/ SetupEnd \/ UsbUnbind \/ UsbFlushed \/ KillEnd
             \/ UnregisterHw \/ DestroyRxWq \/ FreeRxBufs
  BY <1>20 DEF SetupEnd, UsbUnbind, UsbFlushed, KillEnd, UnregisterHw,
           DestroyRxWq, FreeRxBufs, Only, Step
<1>21. CASE UNCHANGED vars
  BY <1>21 DEF vars
<1> QED
  BY <1>1, <1>2, <1>3, <1>4, <1>5, <1>6, <1>7, <1>8, <1>9, <1>10,
     <1>11, <1>12, <1>13, <1>14, <1>15, <1>16, <1>17, <1>18, <1>19, <1>20, <1>21
  DEF Next, Resubmit, Complete, Handler, Disconnect, Terminated

LEMMA AlwaysOwned ==
  ASSUME ~RETRY_IN_SETUP
  PROVE  Spec => [](Inv /\ Owned)
<1>1. Init => Inv /\ Owned
  BY InitInv, InitOwned
<1>2. Inv /\ Owned /\ [Next]_vars => Inv' /\ Owned'
  BY NextInv, NextOwned
<1> QED BY <1>1, <1>2, PTL DEF Spec

(* The buffer of an URB is nobody else's, whatever stale rx_skb pointers   *)
(* callbacks leave: for any number of slots and buffers, any schedule and  *)
(* any number of faults.                                                   *)
THEOREM BufferOwnership ==
  ASSUME ~RETRY_IN_SETUP
  PROVE  Spec => []UrbBufferExclusive
<1>1. Inv /\ Owned => UrbBufferExclusive
  BY DEF Owned
<1> QED BY <1>1, AlwaysOwned, PTL

(* No buffer is in two places and none is lost.                            *)
THEOREM EachBufferOnce ==
  ASSUME ~RETRY_IN_SETUP
  PROVE  Spec => []OneOwner
<1>1. Inv /\ Owned => OneOwner
  BY DEF Owned, OneOwner
<1> QED BY <1>1, AlwaysOwned, PTL

----------------------------------------------------------------------------
(* Teardown and retries: what the phase of the disconnect thread says of   *)
(* the other contexts.  The endpoint only closes; once it is closed and    *)
(* flushed no URB is active again; a slot whose URB was killed has no      *)
(* callback left; and after the second cancellation nobody is left who     *)
(* could arm the retry or queue a buffer.                                  *)
Drained == {"purge_free", "free", "done"}

Stages ==
  /\ ep_enabled <=> phase \in {"setup", "up"}
  /\ killing # NULL => phase = "kill"
  /\ phase \notin {"setup", "up", "unbind"} => \A s \in Slots : urb[s] = "idle"
  /\ phase \in {"setup", "up", "unbind", "cancel1"} => todo.kill = Slots
  /\ phase = "kill" =>
       \A s \in Slots \ todo.kill : s = killing \/ pc[s] = "out"
  /\ phase \in {"cancel2"} \union Quiesced => \A s \in Slots : pc[s] = "out"
  /\ phase \in Quiesced => ~working /\ ~rx_urb_work
  /\ phase \in Quiesced \ {"unregister", "purge_rx"} => rx_queue = {}
  /\ ~RX_TASKLET /\ phase \in Drained => ~rx_work /\ hpc = "idle"
  /\ ~RX_TASKLET /\ phase \in {"free", "done"} => rx_free_queue = {}

(* Until disconnect every failed submission is a transient one, and each   *)
(* empty slot has somebody who will come to it.                            *)
Retried ==
  phase \in {"setup", "up"} =>
    /\ \A c \in Ctx : pc[c] \in {"failed", "clear"} => retry[c]
    /\ \A s \in Slots : rx_skb[s] = NULL =>
         \/ s \in todo.setup /\ phase = "setup"
         \/ rx_urb_work
         \/ working /\ s \in todo.worker
         \/ \E c \in Ctx : pc[c] = "later" \/ (at[c] = s /\ pc[c] # "out")

(* What is in the queue was there when the handler began this run, unless  *)
(* another run is due, and no more than a batch; a run counts what it takes.*)
ShortBacklog == Cardinality(rx_queue) <= BATCH

Backlog ==
  /\ NoStrandedPacket
  /\ hpc = "idle" => hcnt = 0
  /\ hpc # "idle" /\ ~rx_work /\ (\A s \in Slots : pc[s] # "schedule") =>
       hcnt + Cardinality(rx_queue) <= BATCH

LEMMA InitMore == Init => Stages /\ Retried /\ Backlog
  BY DEF Init, Stages, Retried, Backlog, NoStrandedPacket, Drained, Quiesced

(* The teardown goes forward.                                              *)
LEMMA NextStages ==
  ASSUME Inv, Stages, [Next]_vars
  PROVE  Stages'
<1> USE ConstantsAssumption
     DEF Inv, Discipline, Places, EmptySlots, Stages, Drained, Quiesced,
         TypeOK, Ctx, Goto, pool, locals, work, handler, control
<1>1. CASE \E c \in Ctx : ResubmitTake(c)
  BY <1>1 DEF ResubmitTake
<1>2. CASE \E c \in Ctx : ResubmitAlloc(c)
  BY <1>2 DEF ResubmitAlloc, Fault
<1>3. CASE \E c \in Ctx : ResubmitAssign(c)
  BY <1>3 DEF ResubmitAssign
<1>4. CASE \E c \in Ctx : ResubmitSubmit(c)
  BY <1>4 DEF ResubmitSubmit, Fault, SubmitRefused
<1>5. CASE \E c \in Ctx : ResubmitFailed(c)
  BY <1>5 DEF ResubmitFailed
<1>6. CASE \E c \in Ctx : ResubmitClear(c)
  BY <1>6 DEF ResubmitClear
<1>7. CASE \E c \in Ctx : ResubmitLater(c)
  BY <1>7 DEF ResubmitLater
<1>8. CASE \E s \in Slots : CompleteData(s)
  BY <1>8 DEF CompleteData, Giveback
<1>9. CASE \E s \in Slots : CompleteRecoverable(s)
  BY <1>9 DEF CompleteRecoverable, Giveback
<1>10. CASE \E s \in Slots : CompleteFatal(s)
  BY <1>10 DEF CompleteFatal, Giveback
<1>11. CASE \E s \in Slots : CompleteSchedule(s)
  BY <1>11 DEF CompleteSchedule
<1>12. CASE WorkerStart
  BY <1>12 DEF WorkerStart
<1>13. CASE \E s \in Slots : WorkerVisit(s)
  BY <1>13 DEF WorkerVisit, SlotEmpty
<1>14. CASE WorkerEnd
  BY <1>14 DEF WorkerEnd
<1>15. CASE HandlerStart
  BY <1>15 DEF HandlerStart
<1>16. CASE \E b \in Skbs : HandlerTake(b)
  BY <1>16 DEF HandlerTake
<1>17. CASE HandlerDeliver
  BY <1>17 DEF HandlerDeliver
<1>18. CASE HandlerPut
  BY <1>18 DEF HandlerPut
<1>19. CASE HandlerEnd
  BY <1>19 DEF HandlerEnd
<1>20. CASE \E s \in Slots : SetupVisit(s)
  BY <1>20 DEF SetupVisit
<1>21. CASE SetupEnd
  BY <1>21 DEF SetupEnd, Only, Step
<1>22. CASE UsbUnbind
  BY <1>22 DEF UsbUnbind, Step
<1>23. CASE UsbFlushed
  BY <1>23 DEF UsbFlushed, Only, Step
<1>24. CASE CancelRxBufs1
  BY <1>24 DEF CancelRxBufs1, CancelWork, Step
<1>25. CASE \E s \in Slots : KillUrb(s)
  BY <1>25 DEF KillUrb
<1>26. CASE KillUrbDone
  BY <1>26 DEF KillUrbDone
<1>27. CASE KillEnd
  BY <1>27 DEF KillEnd, Only, Step
<1>28. CASE CancelRxBufs2
  BY <1>28 DEF CancelRxBufs2, CancelWork, Step
<1>29. CASE UnregisterHw
  BY <1>29 DEF UnregisterHw, Only, Step
<1>30. CASE PurgeRxQueue
  BY <1>30 DEF PurgeRxQueue, Step
<1>31. CASE CancelRetry3
  BY <1>31 DEF CancelRetry3, CancelWork, Step
<1>32. CASE DestroyRxWq
  BY <1>32 DEF DestroyRxWq, Only, Step
<1>33. CASE PurgeFreeQueue
  BY <1>33 DEF PurgeFreeQueue, Step
<1>34. CASE FreeRxBufs
  BY <1>34 DEF FreeRxBufs, Only, Step
<1>35. CASE UNCHANGED vars
  BY <1>35 DEF vars
<1> QED
  BY <1>1, <1>2, <1>3, <1>4, <1>5, <1>6, <1>7, <1>8, <1>9, <1>10, <1>11, <1>12,
     <1>13, <1>14, <1>15, <1>16, <1>17, <1>18, <1>19, <1>20, <1>21, <1>22, <1>23, <1>24,
     <1>25, <1>26, <1>27, <1>28, <1>29, <1>30, <1>31, <1>32, <1>33, <1>34, <1>35
  DEF Next, Resubmit, Complete, RetryWorker, Handler, Disconnect, Terminated

(* A step that empties a slot, or disarms the retry, leaves somebody to    *)
(* come to it.                                                             *)
LEMMA NextRetried ==
  ASSUME Inv, Stages, Retried, [Next]_vars
  PROVE  Retried'
<1> USE ConstantsAssumption
     DEF Inv, Discipline, Places, SetupLoop, EmptySlots, InHand, OneFiller,
         Filling, Stages, Retried, Quiesced, TypeOK, Ctx, Goto, pool, locals, work, handler, control
<1>1. CASE \E c \in Ctx : ResubmitTake(c)
  BY <1>1 DEF ResubmitTake
<1>2. CASE \E c \in Ctx : ResubmitAlloc(c)
  BY <1>2 DEF ResubmitAlloc, Fault
<1>3. CASE \E c \in Ctx : ResubmitAssign(c)
  BY <1>3 DEF ResubmitAssign
<1>4. CASE \E c \in Ctx : ResubmitSubmit(c)
  BY <1>4 DEF ResubmitSubmit, Fault, SubmitRefused
<1>5. CASE \E c \in Ctx : ResubmitFailed(c)
  BY <1>5 DEF ResubmitFailed
<1>6. CASE \E c \in Ctx : ResubmitClear(c)
  BY <1>6 DEF ResubmitClear
<1>7. CASE \E c \in Ctx : ResubmitLater(c)
  BY <1>7 DEF ResubmitLater
<1>8. CASE \E s \in Slots : CompleteData(s)
  BY <1>8 DEF CompleteData, Giveback
<1>9. CASE \E s \in Slots : CompleteRecoverable(s)
  BY <1>9 DEF CompleteRecoverable, Giveback
<1>10. CASE \E s \in Slots : CompleteFatal(s)
  BY <1>10 DEF CompleteFatal, Giveback
<1>11. CASE \E s \in Slots : CompleteSchedule(s)
  BY <1>11 DEF CompleteSchedule
<1>12. CASE WorkerStart
  BY <1>12 DEF WorkerStart
<1>13. CASE \E s \in Slots : WorkerVisit(s)
  BY <1>13 DEF WorkerVisit, SlotEmpty
<1>14. CASE WorkerEnd
  BY <1>14 DEF WorkerEnd
<1>15. CASE HandlerStart
  BY <1>15 DEF HandlerStart
<1>16. CASE \E b \in Skbs : HandlerTake(b)
  BY <1>16 DEF HandlerTake
<1>17. CASE HandlerDeliver
  BY <1>17 DEF HandlerDeliver
<1>18. CASE HandlerPut
  BY <1>18 DEF HandlerPut
<1>19. CASE HandlerEnd
  BY <1>19 DEF HandlerEnd
<1>20. CASE \E s \in Slots : SetupVisit(s)
  BY <1>20 DEF SetupVisit
<1>21. CASE SetupEnd
  BY <1>21 DEF SetupEnd, Only, Step
<1>22. CASE UsbUnbind
  BY <1>22 DEF UsbUnbind, Step
<1>23. CASE UsbFlushed
  BY <1>23 DEF UsbFlushed, Only, Step
<1>24. CASE CancelRxBufs1
  BY <1>24 DEF CancelRxBufs1, CancelWork, Step
<1>25. CASE \E s \in Slots : KillUrb(s)
  BY <1>25 DEF KillUrb
<1>26. CASE KillUrbDone
  BY <1>26 DEF KillUrbDone
<1>27. CASE KillEnd
  BY <1>27 DEF KillEnd, Only, Step
<1>28. CASE CancelRxBufs2
  BY <1>28 DEF CancelRxBufs2, CancelWork, Step
<1>29. CASE UnregisterHw
  BY <1>29 DEF UnregisterHw, Only, Step
<1>30. CASE PurgeRxQueue
  BY <1>30 DEF PurgeRxQueue, Step
<1>31. CASE CancelRetry3
  BY <1>31 DEF CancelRetry3, CancelWork, Step
<1>32. CASE DestroyRxWq
  BY <1>32 DEF DestroyRxWq, Only, Step
<1>33. CASE PurgeFreeQueue
  BY <1>33 DEF PurgeFreeQueue, Step
<1>34. CASE FreeRxBufs
  BY <1>34 DEF FreeRxBufs, Only, Step
<1>35. CASE UNCHANGED vars
  BY <1>35 DEF vars
<1> QED
  BY <1>1, <1>2, <1>3, <1>4, <1>5, <1>6, <1>7, <1>8, <1>9, <1>10, <1>11, <1>12,
     <1>13, <1>14, <1>15, <1>16, <1>17, <1>18, <1>19, <1>20, <1>21, <1>22, <1>23, <1>24,
     <1>25, <1>26, <1>27, <1>28, <1>29, <1>30, <1>31, <1>32, <1>33, <1>34, <1>35
  DEF Next, Resubmit, Complete, RetryWorker, Handler, Disconnect, Terminated

(* A buffer queued behind the back of the handler brings another run.      *)
LEMMA NextBacklog ==
  ASSUME Inv, IsFiniteSet(Skbs), ShortBacklog, Backlog, [Next]_vars
  PROVE  Backlog'
<1> USE ConstantsAssumption
     DEF Inv, Discipline, Places, Backlog, NoStrandedPacket, TypeOK, Ctx, Goto,
         pool, locals, work, handler, control
<1>1. CASE \E c \in Ctx : ResubmitTake(c)
  BY <1>1 DEF ResubmitTake
<1>2. CASE \E c \in Ctx : ResubmitAlloc(c)
  BY <1>2 DEF ResubmitAlloc, Fault
<1>3. CASE \E c \in Ctx : ResubmitAssign(c)
  BY <1>3 DEF ResubmitAssign
<1>4. CASE \E c \in Ctx : ResubmitSubmit(c)
  BY <1>4 DEF ResubmitSubmit, Fault, SubmitRefused
<1>5. CASE \E c \in Ctx : ResubmitFailed(c)
  BY <1>5 DEF ResubmitFailed
<1>6. CASE \E c \in Ctx : ResubmitClear(c)
  BY <1>6 DEF ResubmitClear
<1>7. CASE \E c \in Ctx : ResubmitLater(c)
  BY <1>7 DEF ResubmitLater
<1>8. CASE \E s \in Slots : CompleteData(s)
  BY <1>8 DEF CompleteData, Giveback
<1>9. CASE \E s \in Slots : CompleteRecoverable(s)
  BY <1>9 DEF CompleteRecoverable, Giveback
<1>10. CASE \E s \in Slots : CompleteFatal(s)
  BY <1>10 DEF CompleteFatal, Giveback
<1>11. CASE \E s \in Slots : CompleteSchedule(s)
  BY <1>11 DEF CompleteSchedule
<1>12. CASE WorkerStart
  BY <1>12 DEF WorkerStart
<1>13. CASE \E s \in Slots : WorkerVisit(s)
  BY <1>13 DEF WorkerVisit, SlotEmpty
<1>14. CASE WorkerEnd
  BY <1>14 DEF WorkerEnd
<1>15. CASE HandlerStart
  <2>1. Cardinality(rx_queue) <= BATCH /\ Cardinality(rx_queue) \in Nat
    BY FS_Subset, FS_CardinalityType DEF ShortBacklog
  <2>2. hcnt' = 0 /\ rx_queue' = rx_queue /\ hpc' = "run"
    BY <1>15 DEF HandlerStart
  <2> QED BY <2>1, <2>2
<1>16. CASE \E b \in Skbs : HandlerTake(b)
  <2>1. PICK b \in Skbs : HandlerTake(b)
    BY <1>16
  <2>2. IsFiniteSet(rx_queue)
    BY FS_Subset
  <2>3. Cardinality(rx_queue') = Cardinality(rx_queue) - 1
    BY <2>1, <2>2, FS_RemoveElement DEF HandlerTake
  <2>4. Cardinality(rx_queue) \in Nat
    BY <2>2, FS_CardinalityType
  <2>5. hcnt' = hcnt + 1 /\ UNCHANGED <<pc, rx_work>> /\ hpc = "run" /\ hpc' # "idle"
    BY <2>1 DEF HandlerTake
  <2>6. NoStrandedPacket'
    BY <2>5
  <2>7. ASSUME ~rx_work', \A s \in Slots : pc'[s] # "schedule"
        PROVE  hcnt' + Cardinality(rx_queue') <= BATCH
    <3>1. hcnt + Cardinality(rx_queue) <= BATCH
      BY <2>5, <2>7
    <3> QED BY <2>3, <2>4, <2>5, <3>1
  <2> QED BY <2>5, <2>6, <2>7
<1>17. CASE HandlerDeliver
  BY <1>17 DEF HandlerDeliver
<1>18. CASE HandlerPut
  BY <1>18 DEF HandlerPut
<1>19. CASE HandlerEnd
  <2>1. IsFiniteSet(rx_queue)
    BY FS_Subset
  <2>2. Cardinality(rx_queue) \in Nat /\ (Cardinality(rx_queue) = 0 <=> rx_queue = {})
    BY <2>1, FS_CardinalityType, FS_EmptySet
  <2> QED BY <1>19, <2>1, <2>2 DEF HandlerEnd
<1>20. CASE \E s \in Slots : SetupVisit(s)
  BY <1>20 DEF SetupVisit
<1>21. CASE SetupEnd
  BY <1>21 DEF SetupEnd, Only, Step
<1>22. CASE UsbUnbind
  BY <1>22 DEF UsbUnbind, Step
<1>23. CASE UsbFlushed
  BY <1>23 DEF UsbFlushed, Only, Step
<1>24. CASE CancelRxBufs1
  BY <1>24 DEF CancelRxBufs1, CancelWork, Step
<1>25. CASE \E s \in Slots : KillUrb(s)
  BY <1>25 DEF KillUrb
<1>26. CASE KillUrbDone
  BY <1>26 DEF KillUrbDone
<1>27. CASE KillEnd
  BY <1>27 DEF KillEnd, Only, Step
<1>28. CASE CancelRxBufs2
  BY <1>28 DEF CancelRxBufs2, CancelWork, Step
<1>29. CASE UnregisterHw
  BY <1>29 DEF UnregisterHw, Only, Step
<1>30. CASE PurgeRxQueue
  <2>1. Cardinality({}) = 0 /\ Cardinality(rx_queue) \in Nat
    BY FS_EmptySet, FS_Subset, FS_CardinalityType
  <2> QED BY <1>30, <2>1 DEF PurgeRxQueue, Step
<1>31. CASE CancelRetry3
  BY <1>31 DEF CancelRetry3, CancelWork, Step
<1>32. CASE DestroyRxWq
  BY <1>32 DEF DestroyRxWq, Only, Step
<1>33. CASE PurgeFreeQueue
  BY <1>33 DEF PurgeFreeQueue, Step
<1>34. CASE FreeRxBufs
  BY <1>34 DEF FreeRxBufs, Only, Step
<1>35. CASE UNCHANGED vars
  BY <1>35 DEF vars
<1> QED
  BY <1>1, <1>2, <1>3, <1>4, <1>5, <1>6, <1>7, <1>8, <1>9, <1>10, <1>11, <1>12,
     <1>13, <1>14, <1>15, <1>16, <1>17, <1>18, <1>19, <1>20, <1>21, <1>22, <1>23, <1>24,
     <1>25, <1>26, <1>27, <1>28, <1>29, <1>30, <1>31, <1>32, <1>33, <1>34, <1>35
  DEF Next, Resubmit, Complete, RetryWorker, Handler, Disconnect, Terminated

(* rtw_usb_rx_resubmit: an empty slot of a running device is never         *)
(* forgotten, for any number of slots and any number of faults.            *)
THEOREM EmptySlotsRemembered ==
  ASSUME ~RETRY_IN_SETUP
  PROVE  Spec => []EmptySlotRemembered
<1>1. Init => Inv /\ Stages /\ Retried
  BY InitInv, InitMore
<1>2. Inv /\ Stages /\ Retried /\ [Next]_vars => (Inv /\ Stages /\ Retried)'
  BY NextInv, NextStages, NextRetried
<1>3. Retried => EmptySlotRemembered
  BY DEF Retried, EmptySlotRemembered
<1> QED BY <1>1, <1>2, <1>3, PTL DEF Spec

(* rtw_usb_cancel_rx_bufs, rtw_usb_deinit_rx: teardown leaves neither work *)
(* nor buffer behind, for any pool, if the handler is a work of rxwq.      *)
THEOREM TeardownIsClean ==
  ASSUME ~RETRY_IN_SETUP, ~RX_TASKLET
  PROVE  Spec => []CleanTeardown
<1>1. Init => Stages
  BY InitMore
<1>2. Inv /\ Stages /\ [Next]_vars => Stages'
  BY NextStages
<1>3. Inv /\ Owned /\ Stages => CleanTeardown
  <2> SUFFICES ASSUME Inv, Owned, Stages PROVE CleanTeardown
    OBVIOUS
  <2> USE DEF Inv, TypeOK, Discipline, Places, InHand, Stages, Quiesced, Drained, Ctx
  <2>1. phase \in Quiesced => \A c \in Ctx : pc[c] = "out" /\ buf[c] = NULL
    OBVIOUS
  <2>2. NothingLeaked
    BY <2>1, ConstantsAssumption
       DEF Owned, NoBufferLost, SlotOwns, Elsewhere, NothingLeaked
  <2> QED BY <2>1, <2>2 DEF CleanTeardown, NoPostFreeWork
<1> QED BY <1>1, <1>2, <1>3, AlwaysOwned, PTL DEF Spec

(* rtw_usb_rx_handler: no received buffer is stranded, as long as the RX   *)
(* queue does not grow beyond what one run of the handler takes.           *)
THEOREM NoPacketStranded ==
  ASSUME ~RETRY_IN_SETUP, IsFiniteSet(Skbs)
  PROVE  Spec /\ []ShortBacklog => []NoStrandedPacket
<1>1. Init => Inv /\ Backlog
  BY InitInv, InitMore
<1>2. Inv /\ Backlog /\ ShortBacklog /\ [Next]_vars => (Inv /\ Backlog)'
  BY NextInv, NextBacklog
<1>3. Backlog => NoStrandedPacket
  BY DEF Backlog
<1> QED BY <1>1, <1>2, <1>3, PTL DEF Spec

=============================================================================
