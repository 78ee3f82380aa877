------------------------------- MODULE UsbTx -------------------------------
(***************************************************************************)
(* The transmit side of the USB transport (usb.c), from the frame handed   *)
(* over by mac80211 to its TX status:                                      *)
(*                                                                         *)
(*   mac80211 -> tx_queue[ep] -> txcb (handler) -> URB -> status           *)
(*                                                   `-> TX report queue   *)
(*                                                                         *)
(* mac80211 writes frames and kicks the work queue, one handler drains the *)
(* queues and aggregates, callbacks report, the disconnect thread tears    *)
(* everything down.  Frames are numbered in the order they are written.    *)
(* Whether a frame still fits the aggregate is left open; the match of     *)
(* firmware reports to frames is the subject of TxReport.                  *)
(***************************************************************************)
EXTENDS Integers, Sequences, FiniteSets

CONSTANTS
  N,            (* bound: frames written in one behaviour                  *)
  Eps,          (* number of bulk-out endpoints, each with its tx_queue    *)
  EP,           (* the endpoint of each frame, its queue selection decides    *)
  REQ,          (* frames with IEEE80211_TX_CTL_REQ_TX_STATUS              *)
  AGG,          (* the synthetic aggregate buffer, agg_skb                 *)
  NULL,
  LIMIT,        (* transfers per queue in one run of the handler (200)     *)
  AGG_NUM,      (* chip->usb_tx_agg_desc_num                               *)
  MAX_FAULTS,   (* bound: failed submissions, completions, allocations of  *)
                (* an aggregate or a txcb                                  *)
  EARLY_PURGE,  (* built for a kernel before 6.13: queues purged first     *)
  LATE_TX_WORK  (* may rtwdev->tx_work still be pending after unregister?  *)

Frames == 1..N
Queues == 0..(Eps - 1)

ASSUME UsbTxAssumption ==
  /\ N \in Nat /\ Eps \in Nat \ {0} /\ REQ \subseteq Frames
  /\ EP \in [Frames -> Queues]
  /\ AGG \notin Nat /\ NULL \notin Nat /\ AGG # NULL
  /\ LIMIT \in Nat /\ AGG_NUM \in Nat
  /\ MAX_FAULTS \in Nat
  /\ EARLY_PURGE \in BOOLEAN /\ LATE_TX_WORK \in BOOLEAN

VARIABLES
  next,       (* the next frame mac80211 will write                        *)
  tx_queue,   (* the skb queue of each endpoint                            *)
  unkicked,   (* frames written by a context that has not kicked yet       *)
  core_work,  (* is rtwdev->tx_work pending?                               *)
  tx_work,    (* is the TX handler scheduled?                              *)
  hpc, hq, hlimit, (* handler: place, queue index i, limit counter         *)
  head, ack,  (* handler: skb_head (or the lone frame), txcb->tx_ack_queue *)
  urbs,       (* the URBs of each endpoint, oldest first: the frames of    *)
              (* the txcb and the state of the transfer                    *)
  tx_report,  (* frames waiting for a firmware TX report                   *)
  outcome,    (* what mac80211 was told of a frame                         *)
  sent,       (* frames whose transfer succeeded                           *)
  ep_enabled, (* USB core accepts submissions                              *)
  phase,      (* progress of the disconnect thread                         *)
  faults,     (* failures so far, and those of them that were a txcb's     *)
  no_txcb

handler == <<hpc, hq, hlimit, head, ack>>
settled == <<tx_report, outcome>>
bounds == <<faults, no_txcb>>
mac == <<next, unkicked, core_work>>
vars == <<mac, tx_queue, tx_work, handler, urbs, settled, sent, ep_enabled,
          phase, bounds>>

Phases == {"up", "unbind", "unregister", "stopping", "purge_early", "destroy", "kill",
           "purge", "core_deinit", "done"}

(* mac80211 hands frames over until ieee80211_unregister_hw stops it.      *)
Registered == phase \in {"up", "unbind", "unregister"}

Init ==
  /\ next = 1 /\ unkicked = {} /\ core_work = FALSE
  /\ tx_queue = [q \in Queues |-> <<>>]
  /\ tx_work = FALSE
  /\ hpc = "idle" /\ hq = 0 /\ hlimit = 0 /\ head = NULL /\ ack = <<>>
  /\ urbs = [q \in Queues |-> <<>>]
  /\ tx_report = {} /\ outcome = [f \in Frames |-> "none"] /\ sent = {}
  /\ ep_enabled = TRUE /\ phase = "up"
  /\ faults = 0 /\ no_txcb = 0

Fault == faults < MAX_FAULTS /\ faults' = faults + 1 /\ UNCHANGED no_txcb

NoTxcb == faults < MAX_FAULTS /\ faults' = faults + 1 /\ no_txcb' = no_txcb + 1

(* Frames of S leave the driver with the given outcome.                    *)
Settle(S, how) ==
  outcome' = [f \in Frames |-> IF f \in S THEN how ELSE outcome[f]]

SetOf(seq) == {seq[i] : i \in DOMAIN seq}

----------------------------------------------------------------------------
(* mac80211                                                                *)

(* rtw_usb_tx_write: skb_queue_tail(&rtwusb->tx_queue[ep], skb)            *)
TxWrite ==
  /\ Registered /\ next <= N
  /\ tx_queue' = [tx_queue EXCEPT ![EP[next]] = Append(@, next)]
  /\ unkicked' = unkicked \union {next}
  /\ next' = next + 1
  /\ UNCHANGED <<core_work, tx_work, handler, urbs, settled, sent, ep_enabled,
                 phase, bounds>>

(* rtw_usb_tx_kick_off, by a context that wrote the frames of S            *)
TxKickOff(S) ==
  /\ S # {} /\ S \subseteq unkicked
  /\ unkicked' = unkicked \ S
  /\ tx_work' = TRUE
  /\ UNCHANGED <<next, core_work, tx_queue, handler, urbs, settled, sent,
                 ep_enabled, phase, bounds>>

(* rtw_ops_wake_tx_queue: queue_work(rtwdev->tx_wq, &rtwdev->tx_work)      *)
WakeTxQueue ==
  /\ Registered /\ next <= N
  /\ core_work' = TRUE
  /\ UNCHANGED <<next, unkicked, tx_queue, tx_work, handler, urbs, settled,
                 sent, ep_enabled, phase, bounds>>

(* rtw_tx_work kicks even when all its queues were empty (when they are    *)
(* not, TxWrite is its step as well).                                      *)
CoreTxWork ==
  /\ core_work
  /\ core_work' = FALSE /\ tx_work' = TRUE
  /\ UNCHANGED <<next, unkicked, tx_queue, handler, urbs, settled, sent,
                 ep_enabled, phase, bounds>>

----------------------------------------------------------------------------
(* rtw_usb_tx_handler and rtw_usb_tx_agg_skb                               *)

HandlerStart ==
  /\ tx_work /\ hpc = "idle" /\ phase \notin {"kill", "purge", "core_deinit", "done"}
  /\ tx_work' = FALSE
  /\ hpc' = "loop" /\ hq' = Eps - 1
  /\ UNCHANGED <<mac, tx_queue, hlimit, head, ack, urbs, settled, sent,
                 ep_enabled, phase, bounds>>

(* The loop over one queue ends: go to the next one, or return.            *)
LeaveQueue ==
  /\ hlimit' = 0
  /\ IF hq = 0 THEN hpc' = "idle" /\ UNCHANGED hq
               ELSE hq' = hq - 1 /\ hpc' = "loop"

(* Mutant: the loop goes on to the next queue but skips the last one.      *)
HandlerNextSkips ==
  /\ hpc = "loop" /\ (tx_queue[hq] = <<>> \/ hlimit = LIMIT)
  /\ hlimit' = 0
  /\ IF hq <= 1 THEN hpc' = "idle" /\ UNCHANGED hq
                ELSE hq' = hq - 1 /\ hpc' = "loop"
  /\ UNCHANGED <<mac, tx_queue, tx_work, head, ack, urbs, settled, sent,
                 ep_enabled, phase, bounds>>

(* nothing left in the queue, or the limit is reached                      *)
HandlerNext ==
  /\ hpc = "loop" /\ (tx_queue[hq] = <<>> \/ hlimit = LIMIT)
  /\ LeaveQueue
  /\ UNCHANGED <<mac, tx_queue, tx_work, head, ack, urbs, settled, sent,
                 ep_enabled, phase, bounds>>

(* the queue is not empty: a txcb is allocated (if not, leave the queue)   *)
AggBegin ==
  /\ hpc = "loop" /\ tx_queue[hq] # <<>> /\ hlimit < LIMIT
  /\ \/ hpc' = "dequeue" /\ UNCHANGED <<hq, hlimit, bounds>>
     \/ NoTxcb /\ LeaveQueue
  /\ UNCHANGED <<mac, tx_queue, tx_work, head, ack, urbs, settled, sent,
                 ep_enabled, phase>>

(* skb_iter = skb_dequeue(list): NULL if somebody emptied the queue since. *)
(* Alone in the queue, or without memory for an aggregate, the frame goes  *)
(* out by itself; otherwise it is the first of the aggregate.              *)
AggDequeue ==
  /\ hpc = "dequeue"
  /\ LET first == IF tx_queue[hq] = <<>> THEN NULL ELSE Head(tx_queue[hq])
         rest == IF tx_queue[hq] = <<>> THEN <<>> ELSE Tail(tx_queue[hq])
     IN  /\ tx_queue' = [tx_queue EXCEPT ![hq] = rest]
         /\ \/ /\ rest # <<>>
               /\ hpc' = "more" /\ head' = AGG /\ ack' = <<first>>
               /\ UNCHANGED bounds
            \/ /\ IF rest = <<>> THEN UNCHANGED bounds ELSE Fault
               /\ hpc' = "queue" /\ head' = first /\ ack' = <<>>
  /\ UNCHANGED <<mac, tx_work, hq, hlimit, urbs, settled, sent, ep_enabled,
                 phase>>

(* Mutant: the frame that joins is queued before those already there.      *)
AggMoreFirst ==
  /\ hpc = "more"
  /\ \/ /\ tx_queue[hq] # <<>> /\ Len(ack) < AGG_NUM
        /\ ack' = <<Head(tx_queue[hq])>> \o ack
        /\ tx_queue' = [tx_queue EXCEPT ![hq] = Tail(@)]
        /\ UNCHANGED hpc
     \/ hpc' = "queue" /\ UNCHANGED <<ack, tx_queue>>
  /\ UNCHANGED <<mac, tx_work, hq, hlimit, head, urbs, settled, sent, ep_enabled,
                 phase, bounds>>

(* The frame at the head of the queue joins the aggregate, if it fits.     *)
AggMore ==
  /\ hpc = "more"
  /\ \/ /\ tx_queue[hq] # <<>> /\ Len(ack) < AGG_NUM
        /\ ack' = Append(ack, Head(tx_queue[hq]))
        /\ tx_queue' = [tx_queue EXCEPT ![hq] = Tail(@)]
        /\ UNCHANGED hpc
     \/ hpc' = "queue" /\ UNCHANGED <<ack, tx_queue>>
  /\ UNCHANGED <<mac, tx_work, hq, hlimit, head, urbs, settled, sent,
                 ep_enabled, phase, bounds>>

(* if (!txcb->agg_skb) skb_queue_tail(&txcb->tx_ack_queue, skb_head)       *)
TxAckQueue == IF head = AGG THEN ack ELSE Append(ack, head)

(* Mutants: a failed submission leaves the frames behind; puts them back.  *)
SubmitFailLeaks ==
  /\ hpc = "queue"
  /\ \/ /\ ep_enabled
        /\ urbs' = [urbs EXCEPT ![hq] = Append(@, [frames |-> TxAckQueue, st |-> "active"])]
        /\ UNCHANGED <<outcome, bounds>>
     \/ /\ IF ep_enabled THEN Fault ELSE UNCHANGED bounds
        /\ UNCHANGED <<urbs, outcome>>
  /\ hpc' = "loop" /\ hlimit' = hlimit + 1 /\ head' = NULL /\ ack' = <<>>
  /\ UNCHANGED <<mac, tx_queue, tx_work, hq, tx_report, sent, ep_enabled, phase>>

SubmitFailReplays ==
  /\ hpc = "queue"
  /\ \/ /\ ep_enabled
        /\ urbs' = [urbs EXCEPT ![hq] = Append(@, [frames |-> TxAckQueue, st |-> "active"])]
        /\ UNCHANGED <<tx_queue, bounds>>
     \/ /\ IF ep_enabled THEN Fault ELSE UNCHANGED bounds
        /\ tx_queue' = [tx_queue EXCEPT ![hq] = TxAckQueue \o @]
        /\ UNCHANGED urbs
  /\ hpc' = "loop" /\ hlimit' = hlimit + 1 /\ head' = NULL /\ ack' = <<>>
  /\ UNCHANGED <<mac, tx_work, hq, settled, sent, ep_enabled, phase>>

(* rtw_usb_write_port: the URB is anchored and submitted; on failure the   *)
(* aggregate is freed and every frame given back unsent                    *)
AggSubmit ==
  /\ hpc = "queue"
  /\ \/ /\ ep_enabled
        /\ urbs' = [urbs EXCEPT ![hq] = Append(@, [frames |-> TxAckQueue, st |-> "active"])]
        /\ UNCHANGED <<outcome, bounds>>
     \/ /\ IF ep_enabled THEN Fault ELSE UNCHANGED bounds
        /\ Settle(SetOf(TxAckQueue), "free")
        /\ UNCHANGED urbs
  /\ hpc' = "loop" /\ hlimit' = hlimit + 1 /\ head' = NULL /\ ack' = <<>>
  /\ UNCHANGED <<mac, tx_queue, tx_work, hq, tx_report, sent, ep_enabled,
                 phase>>

Handler ==
  HandlerStart \/ HandlerNext \/ AggBegin \/ AggDequeue \/ AggMore \/ AggSubmit

----------------------------------------------------------------------------
(* Completion                                                              *)

(* The controller gives the oldest active URB of an endpoint back.  The    *)
(* USB core has taken it off the anchor, but counts it until its callback  *)
(* has returned.                                                           *)
Giveback(q, i) ==
  /\ i \in DOMAIN urbs[q] /\ urbs[q][i].st = "active"
  /\ \A j \in 1..(i - 1) : urbs[q][j].st # "active"
  /\ \/ /\ urbs' = [urbs EXCEPT ![q][i].st = "ok"]
        /\ sent' = sent \union SetOf(urbs[q][i].frames)
        /\ UNCHANGED bounds
     \/ /\ urbs' = [urbs EXCEPT ![q][i].st = "error"]
        /\ IF ep_enabled THEN Fault ELSE UNCHANGED bounds
        /\ UNCHANGED sent
  /\ UNCHANGED <<mac, tx_queue, tx_work, handler, settled, ep_enabled, phase>>

(* Mutants: nothing is reported after an error; the status of the transfer *)
(* is ignored.                                                             *)
StatusLeaksError(done) ==
  IF done.st = "error" THEN UNCHANGED <<tx_report, outcome>>
  ELSE /\ tx_report' = tx_report \union (SetOf(done.frames) \intersect REQ)
       /\ Settle(SetOf(done.frames) \ REQ, "ack")

StatusIgnoresError(done) ==
  /\ tx_report' = tx_report \union (SetOf(done.frames) \intersect REQ)
  /\ Settle(SetOf(done.frames) \ REQ, "ack")

(* rtw_usb_write_port_tx_status: after an error every frame is reported    *)
(* without ACK; else those that asked for a status wait for the firmware's *)
(* report and the others count as acknowledged.                            *)
WritePortTxStatus(done) ==
  IF done.st = "error"
  THEN Settle(SetOf(done.frames), "noack") /\ UNCHANGED tx_report
  ELSE /\ tx_report' = tx_report \union (SetOf(done.frames) \intersect REQ)
       /\ Settle(SetOf(done.frames) \ REQ, "ack")

(* rtw_usb_write_port_tx_complete                                          *)
TxComplete(q) ==
  /\ urbs[q] # <<>> /\ Head(urbs[q]).st # "active"
  /\ urbs' = [urbs EXCEPT ![q] = Tail(@)]
  /\ WritePortTxStatus(Head(urbs[q]))
  /\ UNCHANGED <<mac, tx_queue, tx_work, handler, sent, ep_enabled, phase,
                 bounds>>

(* A firmware report for f is received (rtw_tx_report_handle).             *)
TxReport(f, how) ==
  /\ f \in tx_report /\ ep_enabled /\ how \in {"ack", "noack"}
  /\ tx_report' = tx_report \ {f}
  /\ Settle({f}, how)
  /\ UNCHANGED <<mac, tx_queue, tx_work, handler, urbs, sent, ep_enabled,
                 phase, bounds>>

(* rtw_tx_report_purge_timer                                               *)
PurgeTimer ==
  /\ tx_report # {} /\ phase # "done"
  /\ tx_report' = {}
  /\ Settle(tx_report, "free")
  /\ UNCHANGED <<mac, tx_queue, tx_work, handler, urbs, sent, ep_enabled,
                 phase, bounds>>

----------------------------------------------------------------------------
(* Disconnect                                                              *)

Step(from, to) ==
  /\ phase = from /\ phase' = to
  /\ UNCHANGED <<mac, tx_work, handler, urbs, sent, bounds>>

Only(from, to) ==
  Step(from, to) /\ UNCHANGED <<tx_queue, settled, ep_enabled>>

(* USB core disables the endpoints, unlinks their URBs, and waits until    *)
(* they have left the endpoint queues, before it calls the driver.         *)
UsbUnbind ==
  /\ Step("up", "unbind")
  /\ ep_enabled' = FALSE
  /\ UNCHANGED <<tx_queue, settled>>

UsbFlushed ==
  /\ Only("unbind", "unregister")
  /\ \A q \in Queues : \A i \in DOMAIN urbs[q] : urbs[q][i].st # "active"

(* rtw_unregister_hw: mac80211 stops its interfaces, and returns when no   *)
(* writer is left                                                          *)
UnregisterHw == Only("unregister", "stopping")

Unregistered ==
  /\ Only("stopping", "purge_early")
  /\ unkicked = {} /\ (LATE_TX_WORK \/ ~core_work)

(* rtw_usb_tx_queue_purge                                                  *)
PurgeQueues ==
  /\ tx_queue' = [q \in Queues |-> <<>>]
  /\ Settle(UNION {SetOf(tx_queue[q]) : q \in Queues}, "free")
  /\ UNCHANGED <<tx_report, ep_enabled>>

(* rtw_usb_deinit_tx; for kernels before 6.13 the purge comes first        *)
DeinitPurgeEarly ==
  /\ Step("purge_early", "destroy")
  /\ IF EARLY_PURGE THEN PurgeQueues
                    ELSE UNCHANGED <<tx_queue, settled, ep_enabled>>

(* destroy_workqueue(txwq) drains it.                                      *)
DestroyTxWq == Only("destroy", "kill") /\ ~tx_work /\ hpc = "idle"

(* Mutant: the anchored URBs are unlinked, but not waited for.             *)
KillDoesNotWait == Only("kill", "purge")

(* usb_kill_anchored_urbs waits for every callback.                        *)
KillAnchored == Only("kill", "purge") /\ \A q \in Queues : urbs[q] = <<>>

DeinitPurge ==
  /\ Step("purge", "core_deinit")
  /\ IF EARLY_PURGE THEN UNCHANGED <<tx_queue, settled, ep_enabled>>
                    ELSE PurgeQueues

(* rtw_core_deinit: rtwdev->tx_wq drained, the purge timer stopped, the    *)
(* frames still waiting for a report freed                                 *)
CoreDeinit ==
  /\ Step("core_deinit", "done")
  /\ ~core_work
  /\ tx_report' = {}
  /\ Settle(tx_report, "free")
  /\ UNCHANGED <<tx_queue, ep_enabled>>

Disconnect ==
  \/ UsbFlushed \/ UnregisterHw \/ Unregistered \/ DeinitPurgeEarly
  \/ DestroyTxWq \/ KillAnchored \/ DeinitPurge \/ CoreDeinit

Terminated == phase = "done" /\ UNCHANGED vars

Next ==
  \/ TxWrite
  \/ \E S \in SUBSET unkicked : TxKickOff(S)
  \/ WakeTxQueue \/ CoreTxWork
  \/ Handler
  \/ \E q \in Queues : TxComplete(q) \/ \E i \in DOMAIN urbs[q] : Giveback(q, i)
  \/ \E f \in Frames, how \in {"ack", "noack"} : TxReport(f, how)
  \/ PurgeTimer
  \/ UsbUnbind \/ Disconnect
  \/ Terminated

Spec == Init /\ [][Next]_vars

(* A context that can go on is run: the work items and writers, and so the *)
(* controller with the URBs it was told to unlink, their callbacks and the *)
(* purge timer, and the disconnecting thread.                              *)
Worker ==
  (\E S \in SUBSET unkicked : TxKickOff(S)) \/ CoreTxWork \/ Handler

Callback ==
  \/ \E q \in Queues :
       \/ TxComplete(q)
       \/ ~ep_enabled /\ \E i \in DOMAIN urbs[q] : Giveback(q, i)
  \/ PurgeTimer

Fairness == WF_vars(Worker) /\ WF_vars(Callback) /\ WF_vars(Disconnect)

FairSpec == Spec /\ Fairness

----------------------------------------------------------------------------
Hand == IF head \in Frames THEN Append(ack, head) ELSE ack

(* The places of a frame in the driver: positions of a queue, of the       *)
(* handler's hands and of the URBs, the report queue, and mac80211 again.  *)
Positions(seq, f) == {i \in DOMAIN seq : seq[i] = f}

QueuePlaces(f) ==
  UNION {{<<"queue", q, i, 0>> : i \in Positions(tx_queue[q], f)} : q \in Queues}
HandPlaces(f) == {<<"hand", 0, i, 0>> : i \in Positions(Hand, f)}
UrbPlaces(f) ==
  UNION {UNION {{<<"urb", q, i, j>> : j \in Positions(urbs[q][i].frames, f)}
                  : i \in DOMAIN urbs[q]} : q \in Queues}

PlacesOf(f) ==
  QueuePlaces(f) \union HandPlaces(f) \union UrbPlaces(f)
  \union (IF f \in tx_report THEN {<<"report", 0, 0, 0>>} ELSE {})
  \union (IF outcome[f] # "none" THEN {<<"settled", 0, 0, 0>>} ELSE {})

(* A frame written is in exactly one place until it is given back, and is  *)
(* given back once: it is neither leaked nor reported twice, whichever of  *)
(* submission, completion, report, timeout and teardown comes first.       *)
ExactlyOnePlace ==
  \A f \in Frames : Cardinality(PlacesOf(f)) = IF f < next THEN 1 ELSE 0

(* The driver implements the contract of FrameCustody: an outcome is final,*)
(* no frame goes on air twice, and none is reported as acknowledged unless *)
(* its transfer succeeded.                                                 *)
Custody == INSTANCE FrameCustody WITH accepted <- 1..(next - 1), on_air <- sent

ImplementsCustody == Custody!Spec

(* On one endpoint frames go out in the order they were written: those of  *)
(* an older URB before those of a newer one, the handler's and the queue's.*)
Ascending(seq) == \A i, j \in DOMAIN seq : i < j => seq[i] < seq[j]
Before(S, T) == \A x \in S, y \in T : x < y

HandOf(q) == IF q = hq THEN Hand ELSE <<>>
InTransfer(us) == UNION {SetOf(us[i].frames) : i \in DOMAIN us}

UrbsAscend(us) ==
  \A i \in DOMAIN us :
    /\ Ascending(us[i].frames)
    /\ \A j \in DOMAIN us : i < j => Before(SetOf(us[i].frames), SetOf(us[j].frames))

InOrder ==
  \A q \in Queues :
    /\ UrbsAscend(urbs[q]) /\ Ascending(HandOf(q)) /\ Ascending(tx_queue[q])
    /\ Before(InTransfer(urbs[q]), SetOf(HandOf(q)) \union SetOf(tx_queue[q]))
    /\ Before(SetOf(HandOf(q)), SetOf(tx_queue[q]))

(* A queued frame is not forgotten: the handler will still come to its     *)
(* queue, is scheduled, or its writer is about to kick (when every txcb    *)
(* could be allocated and no run meets its limit).                         *)
NoStrandedFrame ==
  phase = "up" /\ no_txcb = 0 => \A q \in Queues : tx_queue[q] # <<>> =>
    \/ tx_work
    \/ hpc # "idle" /\ hq >= q
    \/ SetOf(tx_queue[q]) \subseteq unkicked

(* Before the driver's state is freed every URB is quiesced, its callback  *)
(* done, and the handler drained.                                          *)
QuiescedBeforeFree ==
  phase \in {"purge", "core_deinit", "done"} =>
    (\A q \in Queues : urbs[q] = <<>>) /\ hpc = "idle"

(* The handler never takes a frame from a queue purged under its hands.    *)
NoNullFrame == hpc \in {"more", "queue"} => head # NULL

(* The TX work is never queued on a workqueue that has been destroyed.     *)
NoKickAfterDestroy ==
  phase \in {"kill", "purge", "core_deinit", "done"} => ~tx_work

(* A frame only moves forward, from mac80211 to the hardware: only a frame *)
(* just written enters a queue, only a queued one the handler's hands, and *)
(* only one from there an URB, so a refused submission is not sent again.  *)
Queued == UNION {SetOf(tx_queue[q]) : q \in Queues}
InUrbs == UNION {InTransfer(urbs[q]) : q \in Queues}

NoReplay ==
  [][/\ Queued' \subseteq Queued \union (next..N)
     /\ SetOf(Hand)' \subseteq SetOf(Hand) \union Queued
     /\ InUrbs' \subseteq InUrbs \union SetOf(Hand)]_vars

(* Disconnect terminates with every frame given back.                      *)
TeardownSettles ==
  phase = "unbind" ~>
    phase = "done" /\ \A f \in Frames : f < next => outcome[f] # "none"

============================================================================
