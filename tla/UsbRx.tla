------------------------------- MODULE UsbRx -------------------------------
(***************************************************************************)
(* The receive side of the USB transport (usb.c): a small pool of RX       *)
(* control blocks, each with one URB, fed with socket buffers that travel  *)
(*                                                                         *)
(*   heap -> free queue -> URB (hardware) -> RX queue -> handler -> ...    *)
(*                                                                         *)
(* The contexts that touch the pool share no lock: the completion callback *)
(* of each URB, the delayed resubmit worker, the RX handler, the probe     *)
(* thread that primes the pool and the disconnect thread that tears it     *)
(* down.  One skb queue operation is atomic (it takes the queue's lock);   *)
(* between two of them anything may be interleaved, so                     *)
(* rtw_usb_rx_resubmit is modelled step by step.                           *)
(*                                                                         *)
(* Who owns a buffer is the question, so its identity is kept; contents    *)
(* and queue order are not.  A loop over rx_cb[] is the set of slots still *)
(* to visit.                                                               *)
(***************************************************************************)
EXTENDS Integers, FiniteSets

CONSTANTS
  Slots,        (* the entries of rx_cb[] (RTW_USB_RXCB_NUM)               *)
  Skbs,         (* the buffers the allocator can hand out                  *)
  NULL,
  Setup,        (* context: the probe thread, in rtw_usb_setup_rx          *)
  Worker,       (* context: the delayed work rx_urb_work                   *)
  RX_SKB_NUM,   (* RTW_USB_RX_SKB_NUM, the target length of the free queue *)
  MAX_RXQ_LEN,  (* RTW_USB_MAX_RXQ_LEN                                     *)
  BATCH,        (* buffers one run of the RX handler takes (200)           *)
  MAX_FAULTS,   (* bound: transient faults one behaviour may contain       *)
  RETRY_IN_SETUP, (* may the 10 ms retry delay expire during setup_rx?     *)
  RX_TASKLET    (* built for a kernel before 6.9: RX handler is a tasklet  *)

ASSUME ConstantsAssumption ==
  /\ NULL \notin Skbs /\ NULL \notin Slots
  /\ Setup \notin Slots /\ Worker \notin Slots /\ Setup # Worker
  /\ RX_SKB_NUM \in Nat /\ MAX_RXQ_LEN \in Nat /\ BATCH \in Nat
  /\ MAX_FAULTS \in Nat
  /\ RETRY_IN_SETUP \in BOOLEAN /\ RX_TASKLET \in BOOLEAN

VARIABLES
  heap,           (* buffers the allocator owns                            *)
  rx_free_queue,  (* buffers ready to be given to an URB                   *)
  rx_queue,       (* received buffers waiting for the RX handler           *)
  rx_skb,         (* rxcb->rx_skb of each slot                             *)
  urb,            (* is the URB of the slot with the host controller?      *)
  pc, at, buf,    (* of each context: its place, the slot it works on, the *)
                  (* local rx_skb                                          *)
  retry,          (* of each context: the local "retryable"                *)
  rx_urb_work,    (* is the delayed resubmit work armed?                   *)
  working,        (* is the resubmit worker running?                       *)
  todo,           (* slots left: of the setup, the worker and the kill loop*)
  rx_work,        (* is the RX handler scheduled?                          *)
  hpc, hbuf, hcnt, (* RX handler: place, rx_skb in hand, limit counter     *)
  phase,          (* progress of the probe/disconnect thread               *)
  killing,        (* the slot whose URB usb_kill_urb is waiting for        *)
  ep_enabled,     (* USB core accepts submissions on the endpoint          *)
  faults          (* transient faults so far                               *)

pool == <<heap, rx_free_queue, rx_queue, rx_skb, urb>>
locals == <<pc, at, buf, retry>>
work == <<rx_urb_work, working>>
handler == <<hpc, hbuf, hcnt>>
control == <<phase, killing, ep_enabled>>
vars == <<pool, locals, work, todo, rx_work, handler, control, faults>>

(* A completion callback is a context of its own, named by its slot.       *)
Ctx == Slots \union {Setup, Worker}

(* "schedule": the callback has queued a received buffer.  In              *)
(* rtw_usb_rx_resubmit: "take" the free queue is looked at, "alloc" it was *)
(* empty, "assign" a buffer is in hand, "submit" rxcb->rx_skb is set and   *)
(* the URB filled, "failed" the submission failed, "clear" the buffer is   *)
(* back on the free queue, "later" the retry is about to be armed.         *)
PC == {"out", "schedule", "take", "alloc", "assign", "submit", "failed",
       "clear", "later"}

(* The probe/disconnect thread; Quiesced: after rtw_usb_cancel_rx_bufs.    *)
Quiesced == {"unregister", "purge_rx", "cancel3", "destroy", "purge_free",
             "free", "done"}
Phases == {"setup", "up", "unbind", "cancel1", "kill", "cancel2"}
            \union Quiesced

----------------------------------------------------------------------------
(* rtw_usb_init_rx has filled the free queue as far as alloc_skb let it,   *)
(* rx_cb[] is zeroed, the device is registered and rtw_usb_setup_rx is     *)
(* about to give every slot a buffer.                                      *)
Init ==
  /\ rx_free_queue \in {S \in SUBSET Skbs : Cardinality(S) <= RX_SKB_NUM}
  /\ heap = Skbs \ rx_free_queue
  /\ rx_queue = {}
  /\ rx_skb = [s \in Slots |-> NULL]
  /\ urb = [s \in Slots |-> "idle"]
  /\ pc = [c \in Ctx |-> "out"]
  /\ at \in [Ctx -> Slots] /\ \A s \in Slots : at[s] = s
  /\ buf = [c \in Ctx |-> NULL]
  /\ retry = [c \in Ctx |-> FALSE]
  /\ rx_urb_work = FALSE /\ working = FALSE
  /\ todo = [setup |-> Slots, worker |-> {}, kill |-> Slots]
  /\ rx_work = FALSE
  /\ hpc = "idle" /\ hbuf = NULL /\ hcnt = 0
  /\ phase = "setup" /\ killing = NULL /\ ep_enabled = TRUE
  /\ faults = 0

Fault == faults < MAX_FAULTS /\ faults' = faults + 1

Goto(c, place) == pc' = [pc EXCEPT ![c] = place]

----------------------------------------------------------------------------
(* rtw_usb_rx_resubmit(rxcb at[c]), run by context c                       *)

(* Mutant: the buffer is looked at, not dequeued.                          *)
TakePeeks(c) ==
  /\ pc[c] = "take"
  /\ \/ \E b \in rx_free_queue : buf' = [buf EXCEPT ![c] = b] /\ Goto(c, "assign")
     \/ rx_free_queue = {} /\ Goto(c, "alloc") /\ UNCHANGED buf
  /\ UNCHANGED <<pool, at, retry, work, todo, rx_work, handler, control, faults>>

(* rx_skb = skb_dequeue(&rtwusb->rx_free_queue)                            *)
ResubmitTake(c) ==
  /\ pc[c] = "take"
  /\ \/ \E b \in rx_free_queue :
          /\ rx_free_queue' = rx_free_queue \ {b}
          /\ buf' = [buf EXCEPT ![c] = b]
          /\ Goto(c, "assign")
     \/ /\ rx_free_queue = {}
        /\ Goto(c, "alloc")
        /\ UNCHANGED <<rx_free_queue, buf>>
  /\ UNCHANGED <<heap, rx_queue, rx_skb, urb, at, retry, work, todo, rx_work,
                 handler, control, faults>>

(* rx_skb = alloc_skb(..., gfp); when that fails, goto try_later           *)
ResubmitAlloc(c) ==
  /\ pc[c] = "alloc"
  /\ \/ \E b \in heap :
          /\ heap' = heap \ {b}
          /\ buf' = [buf EXCEPT ![c] = b]
          /\ Goto(c, "assign")
          /\ UNCHANGED <<rx_skb, faults>>
     \/ /\ IF heap = {} THEN UNCHANGED faults ELSE Fault
        /\ rx_skb' = [rx_skb EXCEPT ![at[c]] = NULL]
        /\ Goto(c, "later")
        /\ UNCHANGED <<heap, buf>>
  /\ UNCHANGED <<rx_free_queue, rx_queue, urb, at, retry, work, todo, rx_work,
                 handler, control>>

(* rxcb->rx_skb = rx_skb; usb_fill_bulk_urb(rxcb->rx_urb, ...)             *)
ResubmitAssign(c) ==
  /\ pc[c] = "assign"
  /\ rx_skb' = [rx_skb EXCEPT ![at[c]] = buf[c]]
  /\ buf' = [buf EXCEPT ![c] = NULL]
  /\ Goto(c, "submit")
  /\ UNCHANGED <<heap, rx_free_queue, rx_queue, urb, at, retry, work, todo,
                 rx_work, handler, control, faults>>

(* usb_submit_urb refuses for good: the endpoint is disabled (-ENOENT),    *)
(* usb_kill_urb is rejecting the URB (-EPERM) or it is active (-EBUSY).    *)
SubmitRefused(s) == ~ep_enabled \/ killing = s \/ urb[s] = "active"

(* error = usb_submit_urb(rxcb->rx_urb, gfp)                               *)
ResubmitSubmit(c) ==
  /\ pc[c] = "submit"
  /\ \/ /\ ~SubmitRefused(at[c])
        /\ urb' = [urb EXCEPT ![at[c]] = "active"]
        /\ Goto(c, "out")
        /\ UNCHANGED <<retry, faults>>
     \/ /\ SubmitRefused(at[c])
        /\ Goto(c, "failed")
        /\ UNCHANGED <<urb, retry, faults>>
     \/ /\ ~SubmitRefused(at[c]) /\ Fault
        /\ retry' = [retry EXCEPT ![c] = TRUE]
        /\ Goto(c, "failed")
        /\ UNCHANGED urb
  /\ UNCHANGED <<heap, rx_free_queue, rx_queue, rx_skb, at, buf, work, todo,
                 rx_work, handler, control>>

(* Mutants: rxcb->rx_skb is cleared before it is queued; is not queued.    *)
FailedQueuesNull(c) ==
  /\ pc[c] = "failed"
  /\ rx_free_queue' = rx_free_queue \union {NULL}
  /\ Goto(c, "clear")
  /\ UNCHANGED <<heap, rx_queue, rx_skb, urb, at, buf, retry, work, todo,
                 rx_work, handler, control, faults>>

FailedForgets(c) ==
  /\ pc[c] = "failed" /\ Goto(c, "clear")
  /\ UNCHANGED <<pool, at, buf, retry, work, todo, rx_work, handler, control,
                 faults>>

(* skb_queue_tail(&rtwusb->rx_free_queue, rxcb->rx_skb)                    *)
ResubmitFailed(c) ==
  /\ pc[c] = "failed"
  /\ rx_free_queue' = rx_free_queue \union {rx_skb[at[c]]}
  /\ Goto(c, "clear")
  /\ UNCHANGED <<heap, rx_queue, rx_skb, urb, at, buf, retry, work, todo,
                 rx_work, handler, control, faults>>

(* Mutant: no retry is armed after a transient submission error.           *)
ClearGivesUp(c) ==
  /\ pc[c] = "clear" /\ Goto(c, "out")
  /\ rx_skb' = [rx_skb EXCEPT ![at[c]] = NULL]
  /\ retry' = [retry EXCEPT ![c] = FALSE]
  /\ UNCHANGED <<heap, rx_free_queue, rx_queue, urb, at, buf, work, todo,
                 rx_work, handler, control, faults>>

(* rxcb->rx_skb = NULL; a transient error goes on to retry                 *)
ResubmitClear(c) ==
  /\ pc[c] = "clear"
  /\ rx_skb' = [rx_skb EXCEPT ![at[c]] = NULL]
  /\ retry' = [retry EXCEPT ![c] = FALSE]
  /\ Goto(c, IF retry[c] THEN "later" ELSE "out")
  /\ UNCHANGED <<heap, rx_free_queue, rx_queue, urb, at, buf, work, todo,
                 rx_work, handler, control, faults>>

(* Mutant: the worker's requeue of itself is lost.                         *)
LaterLosesSelf(c) ==
  /\ pc[c] = "later" /\ Goto(c, "out")
  /\ rx_urb_work' = (rx_urb_work \/ c # Worker)
  /\ UNCHANGED <<pool, at, buf, retry, working, todo, rx_work, handler,
                 control, faults>>

(* rtw_usb_rx_retry_later: mod_delayed_work(rxwq, &rx_urb_work, 10 ms)     *)
ResubmitLater(c) ==
  /\ pc[c] = "later"
  /\ rx_urb_work' = TRUE
  /\ Goto(c, "out")
  /\ UNCHANGED <<pool, at, buf, retry, working, todo, rx_work, handler,
                 control, faults>>

Resubmit(c) ==
  \/ ResubmitTake(c) \/ ResubmitAlloc(c) \/ ResubmitAssign(c)
  \/ ResubmitSubmit(c) \/ ResubmitFailed(c) \/ ResubmitClear(c)
  \/ ResubmitLater(c)

----------------------------------------------------------------------------
(* rtw_usb_read_port_complete; the callback of a slot is not re-entered.   *)

Giveback(s) ==
  /\ urb[s] = "active" /\ pc[s] = "out"
  /\ urb' = [urb EXCEPT ![s] = "idle"]
  /\ UNCHANGED <<heap, rx_skb, at, buf, retry, work, todo, rx_work, handler,
                 control>>

(* USB core has unlinked the URB: the controller gives it back for sure.   *)
Unlinked(s) == ~ep_enabled \/ killing = s

(* status 0 and a plausible length: queue the buffer for the handler       *)
CompleteData(s) ==
  /\ Giveback(s)
  /\ rx_queue' = rx_queue \union {rx_skb[s]}
  /\ Goto(s, "schedule")
  /\ UNCHANGED <<rx_free_queue, faults>>

(* queue_work(rxwq, &rx_work), tasklet_schedule(&rx_tasklet)               *)
CompleteSchedule(s) ==
  /\ pc[s] = "schedule"
  /\ rx_work' = TRUE
  /\ Goto(s, "take")
  /\ UNCHANGED <<pool, at, buf, retry, work, todo, handler, control, faults>>

(* a bad length, or a recoverable status: recycle the buffer and resubmit  *)
CompleteRecoverable(s) ==
  /\ Giveback(s) /\ Fault
  /\ rx_free_queue' = rx_free_queue \union {rx_skb[s]}
  /\ Goto(s, "take")
  /\ UNCHANGED rx_queue

(* any other status: the buffer is recycled, rxcb->rx_skb keeps pointing   *)
(* at it and the slot is given up                                          *)
CompleteFatal(s) ==
  /\ Giveback(s)
  /\ IF Unlinked(s) THEN UNCHANGED faults ELSE Fault
  /\ rx_free_queue' = rx_free_queue \union {rx_skb[s]}
  /\ UNCHANGED <<rx_queue, pc>>

Complete(s) == CompleteData(s) \/ CompleteRecoverable(s) \/ CompleteFatal(s)

----------------------------------------------------------------------------
(* rtw_usb_rx_resubmit_work                                                *)

WorkerStart ==
  /\ rx_urb_work /\ ~working
  /\ RETRY_IN_SETUP \/ phase # "setup"
  /\ rx_urb_work' = FALSE /\ working' = TRUE
  /\ todo' = [todo EXCEPT !.worker = Slots]
  /\ UNCHANGED <<pool, locals, rx_work, handler, control, faults>>

(* Mutant: the worker does not look whether the slot is in use.            *)
AnySlot(s) == TRUE

(* if (!rxcb->rx_skb) ...                                                  *)
SlotEmpty(s) == rx_skb[s] = NULL

(* ... rtw_usb_rx_resubmit(rtwusb, rxcb, GFP_ATOMIC)                       *)
WorkerVisit(s) ==
  /\ working /\ pc[Worker] = "out" /\ s \in todo.worker
  /\ todo' = [todo EXCEPT !.worker = @ \ {s}]
  /\ IF SlotEmpty(s)
     THEN Goto(Worker, "take") /\ at' = [at EXCEPT ![Worker] = s]
     ELSE UNCHANGED <<pc, at>>
  /\ UNCHANGED <<pool, buf, retry, work, rx_work, handler, control, faults>>

WorkerEnd ==
  /\ working /\ pc[Worker] = "out" /\ todo.worker = {}
  /\ working' = FALSE
  /\ UNCHANGED <<pool, locals, rx_urb_work, todo, rx_work, handler, control,
                 faults>>

RetryWorker == WorkerStart \/ (\E s \in Slots : WorkerVisit(s)) \/ WorkerEnd

----------------------------------------------------------------------------
(* rtw_usb_rx_handler                                                      *)

HandlerStart ==
  /\ rx_work /\ hpc = "idle"
  /\ rx_work' = FALSE
  /\ hpc' = "run"
  /\ UNCHANGED <<pool, locals, work, todo, hbuf, hcnt, control, faults>>

(* rx_skb = skb_dequeue(&rtwusb->rx_queue), freed at once on overflow      *)
HandlerTake(b) ==
  /\ hpc = "run" /\ hcnt < BATCH /\ b \in rx_queue
  /\ rx_queue' = rx_queue \ {b}
  /\ hcnt' = hcnt + 1
  /\ IF Cardinality(rx_queue \ {b}) >= MAX_RXQ_LEN
     THEN heap' = heap \union {b} /\ UNCHANGED <<hpc, hbuf>>
     ELSE hpc' = "deliver" /\ hbuf' = b /\ UNCHANGED heap
  /\ UNCHANGED <<rx_free_queue, rx_skb, urb, locals, work, todo, rx_work,
                 control, faults>>

(* The packets are copied out and handed to mac80211 (firmware events: to  *)
(* the c2h queue); then the length of the free queue is read.              *)
HandlerDeliver ==
  /\ hpc = "deliver"
  /\ hpc' = IF Cardinality(rx_free_queue) >= RX_SKB_NUM THEN "drop" ELSE "keep"
  /\ UNCHANGED <<pool, locals, work, todo, rx_work, hbuf, hcnt, control,
                 faults>>

(* dev_kfree_skb_any(rx_skb) or skb_queue_tail(&rx_free_queue, rx_skb)     *)
HandlerPut ==
  /\ hpc \in {"drop", "keep"}
  /\ IF hpc = "drop"
     THEN heap' = heap \union {hbuf} /\ UNCHANGED rx_free_queue
     ELSE rx_free_queue' = rx_free_queue \union {hbuf} /\ UNCHANGED heap
  /\ hpc' = "run" /\ hbuf' = NULL
  /\ UNCHANGED <<rx_queue, rx_skb, urb, locals, work, todo, rx_work, hcnt,
                 control, faults>>

(* Mutant: the pending flag is cleared on the way out.                     *)
EndClearsPending ==
  /\ hpc = "run" /\ (rx_queue = {} \/ hcnt = BATCH)
  /\ hpc' = "idle" /\ hcnt' = 0 /\ rx_work' = FALSE
  /\ UNCHANGED <<pool, locals, work, todo, hbuf, control, faults>>

(* the queue is empty, or the limit of one run is reached                  *)
HandlerEnd ==
  /\ hpc = "run"
  /\ rx_queue = {} \/ hcnt = BATCH
  /\ hpc' = "idle" /\ hcnt' = 0
  /\ UNCHANGED <<pool, locals, work, todo, rx_work, hbuf, control, faults>>

Handler ==
  \/ HandlerStart \/ \E b \in Skbs : HandlerTake(b)
  \/ HandlerDeliver \/ HandlerPut \/ HandlerEnd

----------------------------------------------------------------------------
(* The probe thread: rtw_usb_setup_rx                                      *)

SetupVisit(s) ==
  /\ phase = "setup" /\ pc[Setup] = "out" /\ s \in todo.setup
  /\ todo' = [todo EXCEPT !.setup = @ \ {s}]
  /\ Goto(Setup, "take") /\ at' = [at EXCEPT ![Setup] = s]
  /\ UNCHANGED <<pool, buf, retry, work, rx_work, handler, control, faults>>

(* Moves of the probe/disconnect thread that change little else.           *)
Step(from, to) ==
  /\ phase = from /\ phase' = to
  /\ UNCHANGED <<rx_skb, urb, locals, working, todo, rx_work, handler,
                 killing, faults>>

Only(from, to) ==
  Step(from, to) /\ UNCHANGED <<heap, rx_free_queue, rx_queue, rx_urb_work,
                                ep_enabled>>

SetupEnd == Only("setup", "up") /\ pc[Setup] = "out" /\ todo.setup = {}

----------------------------------------------------------------------------
(* The disconnect thread: rtw_usb_disconnect                               *)

(* USB core, before it calls the driver: the endpoints are disabled and    *)
(* their URBs unlinked; it goes on when those have left the endpoint queue *)
(* (a callback may still be running).                                      *)
UsbUnbind ==
  /\ Step("up", "unbind")
  /\ ep_enabled' = FALSE
  /\ UNCHANGED <<heap, rx_free_queue, rx_queue, rx_urb_work>>

UsbFlushed == Only("unbind", "cancel1") /\ \A s \in Slots : urb[s] = "idle"

(* cancel_delayed_work_sync(&rtwusb->rx_urb_work): disarm and wait         *)
CancelWork(from, to) ==
  /\ Step(from, to)
  /\ ~working
  /\ rx_urb_work' = FALSE
  /\ UNCHANGED <<heap, rx_free_queue, rx_queue, ep_enabled>>

(* rtw_usb_cancel_rx_bufs                                                  *)
CancelRxBufs1 == CancelWork("cancel1", "kill")

KillUrb(s) ==
  /\ phase = "kill" /\ killing = NULL /\ s \in todo.kill
  /\ killing' = s
  /\ todo' = [todo EXCEPT !.kill = @ \ {s}]
  /\ UNCHANGED <<pool, locals, work, rx_work, handler, phase, ep_enabled,
                 faults>>

(* usb_kill_urb returns when the URB is idle and its callback finished.    *)
KillUrbDone ==
  /\ killing # NULL
  /\ urb[killing] = "idle" /\ pc[killing] = "out"
  /\ killing' = NULL
  /\ UNCHANGED <<pool, locals, work, todo, rx_work, handler, phase,
                 ep_enabled, faults>>

KillEnd == Only("kill", "cancel2") /\ killing = NULL /\ todo.kill = {}

CancelRxBufs2 == CancelWork("cancel2", "unregister")

(* rtw_unregister_hw and rtw_usb_deinit_tx, opaque here                    *)
UnregisterHw == Only("unregister", "purge_rx")

(* rtw_usb_deinit_rx                                                       *)
PurgeRxQueue ==
  /\ Step("purge_rx", "cancel3")
  /\ heap' = heap \union rx_queue
  /\ rx_queue' = {}
  /\ UNCHANGED <<rx_free_queue, rx_urb_work, ep_enabled>>

CancelRetry3 == CancelWork("cancel3", "destroy")

(* Mutant: the workqueue is torn down without draining it.                 *)
DestroyWithoutDrain == Only("destroy", "purge_free")

(* destroy_workqueue(rxwq) drains the work queued on it; the tasklet of    *)
(* the older build is not on it.                                           *)
DestroyRxWq ==
  /\ Only("destroy", "purge_free")
  /\ RX_TASKLET \/ (~rx_work /\ hpc = "idle")

PurgeFreeQueue ==
  /\ Step("purge_free", "free")
  /\ heap' = heap \union rx_free_queue
  /\ rx_free_queue' = {}
  /\ UNCHANGED <<rx_queue, rx_urb_work, ep_enabled>>

(* rtw_usb_free_rx_bufs (usb_kill_urb waits once more), then               *)
(* ieee80211_free_hw: the memory all of this lives in is gone              *)
FreeRxBufs ==
  Only("free", "done") /\ \A s \in Slots : urb[s] = "idle" /\ pc[s] = "out"

Disconnect ==
  \/ UsbFlushed \/ CancelRxBufs1 \/ (\E s \in Slots : KillUrb(s))
  \/ KillUrbDone \/ KillEnd \/ CancelRxBufs2 \/ UnregisterHw \/ PurgeRxQueue
  \/ CancelRetry3 \/ DestroyRxWq \/ PurgeFreeQueue \/ FreeRxBufs

(* The device is gone for good.                                            *)
Terminated == phase = "done" /\ UNCHANGED vars

Next ==
  \/ \E c \in Ctx : Resubmit(c)
  \/ \E s \in Slots : Complete(s) \/ CompleteSchedule(s)
  \/ RetryWorker
  \/ Handler
  \/ (\E s \in Slots : SetupVisit(s)) \/ SetupEnd
  \/ UsbUnbind \/ Disconnect
  \/ Terminated

Spec == Init /\ [][Next]_vars

(* A runnable context is run: callbacks and work items always (the kernel   *)
(* has CPUs for them), an unlinked URB is given back by the controller, the *)
(* thread inside probe or disconnect goes on.  Nobody has to send data, and *)
(* nobody has to unplug the device.                                         *)
Callback(s) == CompleteSchedule(s) \/ (Unlinked(s) /\ Complete(s))

Thread(c) ==
  \/ Resubmit(c)
  \/ c \in Slots /\ Callback(c)
  \/ c = Worker /\ RetryWorker
  \/ c = Setup /\ ((\E s \in Slots : SetupVisit(s)) \/ SetupEnd \/ Disconnect)

Fairness == (\A c \in Ctx : WF_vars(Thread(c))) /\ WF_vars(Handler)

FairSpec == Spec /\ Fairness

----------------------------------------------------------------------------
(* Every variable has its type.                                            *)
TypeOK ==
  /\ heap \subseteq Skbs /\ rx_free_queue \subseteq Skbs
  /\ rx_queue \subseteq Skbs
  /\ rx_skb \in [Slots -> Skbs \union {NULL}]
  /\ urb \in [Slots -> {"idle", "active"}]
  /\ pc \in [Ctx -> PC]
  /\ at \in [Ctx -> Slots]
  /\ buf \in [Ctx -> Skbs \union {NULL}]
  /\ retry \in [Ctx -> BOOLEAN]
  /\ rx_urb_work \in BOOLEAN /\ working \in BOOLEAN /\ rx_work \in BOOLEAN
  /\ todo \in [setup : SUBSET Slots, worker : SUBSET Slots,
               kill : SUBSET Slots]
  /\ hpc \in {"idle", "run", "deliver", "drop", "keep"}
  /\ hbuf \in Skbs \union {NULL} /\ hcnt \in Nat
  /\ phase \in Phases
  /\ killing \in Slots \union {NULL}
  /\ ep_enabled \in BOOLEAN
  /\ faults \in 0..MAX_FAULTS

(* The slot owns rx_skb[s]: its URB is active, or a context has filled the *)
(* URB and not yet given the buffer back.  Otherwise rx_skb[s] is a stale  *)
(* pointer to a buffer that has moved on.                                  *)
SlotOwns(s) ==
  \/ urb[s] = "active"
  \/ \E c \in Ctx : at[c] = s /\ pc[c] \in {"submit", "failed"}

Elsewhere(b) ==
  \/ b \in heap \union rx_free_queue \union rx_queue
  \/ b = hbuf
  \/ \E c \in Ctx : buf[c] = b

(* The buffer an URB points to (the hardware may write into it) is a live  *)
(* one that is in no queue, in no context's hands, not freed and not given *)
(* to a second URB, although callbacks leave stale rx_skb pointers behind. *)
UrbBufferExclusive ==
  \A s \in Slots : SlotOwns(s) =>
    /\ rx_skb[s] \in Skbs
    /\ ~Elsewhere(rx_skb[s])
    /\ \A t \in Slots \ {s} : SlotOwns(t) => rx_skb[t] # rx_skb[s]

(* At most one context at a time is refilling a slot, and none while the   *)
(* URB of the slot is active: "rx_skb is NULL" and "my URB was given back" *)
(* are the only claims to a slot, there is no lock.                        *)
Filling(c) == pc[c] \notin {"out", "later"}

OneFiller ==
  \A c \in Ctx : Filling(c) =>
    /\ urb[at[c]] = "idle"
    /\ \A d \in Ctx \ {c} : Filling(d) => at[d] # at[c]

(* No buffer is queued twice, freed while queued, or queued while a        *)
(* context still holds it.                                                 *)
QueuesDisjoint ==
  /\ heap \intersect rx_free_queue = {}
  /\ heap \intersect rx_queue = {}
  /\ rx_free_queue \intersect rx_queue = {}
  /\ hbuf \notin heap \union rx_free_queue \union rx_queue
  /\ \A c \in Ctx :
       /\ buf[c] \notin heap \union rx_free_queue \union rx_queue
       /\ buf[c] # NULL =>
            buf[c] # hbuf /\ \A d \in Ctx \ {c} : buf[d] # buf[c]

(* No buffer is leaked: each one has an owner at every moment.             *)
NoBufferLost ==
  \A b \in Skbs : Elsewhere(b) \/ \E s \in Slots : SlotOwns(s) /\ rx_skb[s] = b

(* Each buffer has exactly one place, whoever races for it.                *)
OneOwner == QueuesDisjoint /\ NoBufferLost

(* After disconnect every buffer the driver ever took is freed.            *)
NothingLeaked == phase = "done" => heap = Skbs

(* An empty slot of a running device is never forgotten: somebody is       *)
(* refilling it, will visit it, or has armed (or is about to arm) the      *)
(* delayed resubmit work, also when the worker itself is the one to fail.  *)
EmptySlotRemembered ==
  \A s \in Slots : phase = "up" /\ rx_skb[s] = NULL =>
    \/ rx_urb_work
    \/ working /\ s \in todo.worker
    \/ \E c \in Ctx : pc[c] = "later" \/ (at[c] = s /\ pc[c] # "out")

(* A received buffer is never stranded: the handler is scheduled, running  *)
(* or about to be scheduled (for a backlog that fits one run).             *)
NoStrandedPacket ==
  rx_queue # {} =>
    \/ rx_work \/ hpc # "idle"
    \/ \E s \in Slots : pc[s] = "schedule"

(* Nothing of the receive side runs, or is scheduled to run, after the     *)
(* memory it lives in is freed.                                            *)
NoPostFreeWork ==
  phase = "done" =>
    /\ \A s \in Slots : urb[s] = "idle"
    /\ \A c \in Ctx : pc[c] = "out"
    /\ ~working /\ ~rx_urb_work /\ ~rx_work /\ hpc = "idle"

(* rtw_usb_cancel_rx_bufs really quiesces the receive side (no URB is with *)
(* the hardware, no callback or retry runs, and none is armed), and once   *)
(* the memory is freed nothing is left of it, neither work nor buffer.     *)
CleanTeardown ==
  /\ phase \in Quiesced =>
       /\ \A s \in Slots : urb[s] = "idle"
       /\ \A c \in Ctx : pc[c] = "out"
       /\ ~working /\ ~rx_urb_work
  /\ NothingLeaked /\ NoPostFreeWork

(* While the device is up, a slot emptied by a transient failure is with   *)
(* the hardware again once the failures stop; and disconnect terminates    *)
(* whatever was in flight when it began.                                   *)
SlotRecovers ==
  \A s \in Slots :
    phase = "up" /\ rx_skb[s] = NULL ~> urb[s] = "active" \/ phase # "up"
TeardownTerminates == phase = "unbind" ~> phase = "done"
RxProgress == SlotRecovers /\ TeardownTerminates

============================================================================
