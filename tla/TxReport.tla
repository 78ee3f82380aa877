------------------------------ MODULE TxReport ------------------------------
(***************************************************************************)
(* TX reports (tx.c, fw.c): a frame that asks for its status is given a    *)
(* sequence number of 6 bits, waits in tx_report->queue once its transfer  *)
(* has completed, and is settled by the firmware's C2H report that carries *)
(* the number, or purged by a timer.                                       *)
(*                                                                         *)
(*   frame -> transfer -+-> completion ---> tx_report->queue <--- timer    *)
(*                      `-> firmware -> c2h_queue -> c2h_work --^          *)
(*                                                                         *)
(* Frames are numbered as tx_report->sn counts them.  The completion and   *)
(* the report of a frame are independent, in either order.                 *)
(***************************************************************************)
EXTENDS Integers, Sequences, FiniteSets, SequencesExt, FiniteSetsExt

CONSTANTS
  N,          (* bound: frames that ask for a status                       *)
  SNS,        (* sequence numbers: 64, (sn << 2) & 0xfc                    *)
  NO_SKB,     (* c2h_work holds no report                                  *)
  MAX_STOPS   (* bound: times the core is stopped (and started again)      *)

ASSUME TxReportAssumption ==
  N \in Nat /\ SNS \in Nat \ {0} /\ MAX_STOPS \in Nat

Frames == 1..N

VARIABLES
  sn,         (* tx_report->sn                                             *)
  transfer,   (* of each frame: none, active, ok, error, done              *)
  queue,      (* tx_report->queue                                          *)
  enqueuer,   (* the completion is between q_lock and mod_timer            *)
  armed,      (* purge_timer is pending                                    *)
  timer,      (* its handler: idle, or purge after it saw a frame          *)
  on_air,     (* what became of the frame, known to the firmware           *)
  reported,   (* frames the firmware has sent its report of                *)
  c2h_queue,  (* reports received: the frame they are about                *)
  kick,       (* the RX handler has queued a report, but no work yet       *)
  c2h_work,   (* is the work pending?                                      *)
  wpc, last, c2h, (* c2h_work: place, is tmp the end of the list, the skb  *)
  core,       (* running, stopping (RTW_FLAG_RUNNING cleared), or stopped  *)
  outcome,    (* what mac80211 was told: none, ack, noack, free            *)
  stops

tx == <<sn, transfer>>
timers == <<armed, timer>>
air == <<on_air, reported>>
rx == <<air, c2h_queue, kick>>
worker == <<wpc, last, c2h>>
report_vars == <<tx, queue, enqueuer, timers, rx, c2h_work, worker, core,
                 outcome, stops>>

ReportInit ==
  /\ sn = 0 /\ transfer = [f \in Frames |-> "none"]
  /\ queue = <<>> /\ enqueuer = FALSE /\ armed = FALSE /\ timer = "idle"
  /\ on_air = [f \in Frames |-> "none"] /\ reported = {} /\ c2h_queue = <<>> /\ kick = FALSE
  /\ c2h_work = FALSE /\ wpc = "idle" /\ last = FALSE /\ c2h = NO_SKB
  /\ core = "running" /\ outcome = [f \in Frames |-> "none"] /\ stops = 0

Number(f) == f % SNS

InQueue == {queue[i] : i \in DOMAIN queue}

----------------------------------------------------------------------------
(* Transmission                                                            *)

(* rtw_tx_report_enable and the submission of the frame                    *)
ReportEnable ==
  /\ core = "running" /\ sn < N
  /\ sn' = sn + 1
  /\ transfer' = [transfer EXCEPT ![sn'] = "active"]
  /\ UNCHANGED <<queue, enqueuer, timers, rx, c2h_work, worker, core,
                 outcome, stops>>

(* The transfer ends.  Its frame reached the firmware, or, if the transfer *)
(* failed, may have.                                                       *)
Transfer(f, st, ack) ==
  /\ transfer[f] = "active" /\ (st = "ok" => ack # "none")
  /\ transfer' = [transfer EXCEPT ![f] = st]
  /\ on_air' = [on_air EXCEPT ![f] = ack]
  /\ UNCHANGED <<sn, queue, enqueuer, timers, reported, c2h_queue, kick,
                 c2h_work, worker, core, outcome, stops>>

(* rtw_usb_write_port_tx_status of a failed transfer                       *)
CompleteError(f) ==
  /\ transfer[f] = "error" /\ ~enqueuer
  /\ transfer' = [transfer EXCEPT ![f] = "done"]
  /\ outcome' = [outcome EXCEPT ![f] = "noack"]
  /\ UNCHANGED <<sn, queue, enqueuer, timers, rx, c2h_work, worker, core,
                 stops>>

(* rtw_tx_report_enqueue: under q_lock the frame joins the queue, ...      *)
EnqueueFrame(f) ==
  /\ transfer' = [transfer EXCEPT ![f] = "done"]
  /\ queue' = Append(queue, f)

(* Mutant: the timer is set before the frame is queued.                    *)
TimerBeforeEnqueue(f) ==
  /\ transfer[f] = "ok"
  /\ \/ ~enqueuer /\ enqueuer' = TRUE /\ armed' = TRUE
        /\ UNCHANGED <<transfer, queue>>
     \/ enqueuer /\ enqueuer' = FALSE /\ EnqueueFrame(f) /\ UNCHANGED armed
  /\ UNCHANGED <<sn, timer, rx, c2h_work, worker, core, outcome, stops>>

ReportEnqueue(f) ==
  /\ transfer[f] = "ok" /\ ~enqueuer
  /\ EnqueueFrame(f)
  /\ enqueuer' = TRUE
  /\ UNCHANGED <<sn, timers, rx, c2h_work, worker, core, outcome, stops>>

(* ... then mod_timer(&tx_report->purge_timer, ...)                        *)
ModTimer ==
  /\ enqueuer
  /\ enqueuer' = FALSE /\ armed' = TRUE
  /\ UNCHANGED <<tx, queue, timer, rx, c2h_work, worker, core, outcome,
                 stops>>

----------------------------------------------------------------------------
(* rtw_tx_report_purge_timer: the length is read without the lock          *)

TimerFires ==
  /\ armed /\ timer = "idle"
  /\ armed' = FALSE
  /\ timer' = IF queue = <<>> THEN "idle" ELSE "purge"
  /\ UNCHANGED <<tx, queue, enqueuer, rx, c2h_work, worker, core, outcome,
                 stops>>

TimerPurge ==
  /\ timer = "purge" /\ timer' = "idle"
  /\ queue' = <<>>
  /\ outcome' = [f \in Frames |-> IF f \in InQueue THEN "free" ELSE outcome[f]]
  /\ UNCHANGED <<tx, enqueuer, armed, rx, c2h_work, worker, core, stops>>

----------------------------------------------------------------------------
(* Reports                                                                 *)

(* rtw_fw_c2h_cmd_rx_irqsafe: the report is queued, ...                    *)
RxC2h(f) ==
  /\ on_air[f] # "none" /\ f \notin reported /\ ~kick
  /\ c2h_queue' = Append(c2h_queue, <<f, on_air[f]>>)
  /\ reported' = reported \union {f}
  /\ kick' = TRUE
  /\ UNCHANGED <<on_air, tx, queue, enqueuer, timers, c2h_work, worker, core,
                 outcome, stops>>

(* ... then ieee80211_queue_work(rtwdev->hw, &rtwdev->c2h_work)            *)
RxQueueWork ==
  /\ kick /\ kick' = FALSE
  /\ c2h_work' = TRUE
  /\ UNCHANGED <<tx, queue, enqueuer, timers, air, c2h_queue, worker,
                 core, outcome, stops>>

(* rtw_c2h_work: skb_queue_walk_safe reads the successor of an skb before  *)
(* the skb is unlinked, without the lock of the queue.                     *)
WorkStart ==
  /\ c2h_work /\ wpc = "idle"
  /\ c2h_work' = FALSE
  /\ wpc' = IF c2h_queue = <<>> THEN "idle" ELSE "walk"
  /\ UNCHANGED <<tx, queue, enqueuer, timers, rx, last, c2h, core, outcome,
                 stops>>

WorkNext ==
  /\ wpc = "walk"
  /\ last' = (Len(c2h_queue) = 1)
  /\ wpc' = "unlink"
  /\ UNCHANGED <<tx, queue, enqueuer, timers, rx, c2h_work, c2h, core,
                 outcome, stops>>

WorkUnlink ==
  /\ wpc = "unlink" /\ wpc' = "handle"
  /\ c2h' = Head(c2h_queue) /\ c2h_queue' = Tail(c2h_queue)
  /\ UNCHANGED <<tx, queue, enqueuer, timers, air, kick, c2h_work, last,
                 core, outcome, stops>>

(* The frames of the queue that carry the number of a report               *)
Matches(f) == {i \in DOMAIN queue : Number(queue[i]) = Number(f)}

(* Mutants: the frame stays in the queue; the first frame is taken.        *)
HandleKeeps(f, st) ==
  IF core = "running" /\ Matches(f) # {}
  THEN LET i == Min(Matches(f))
       IN  outcome' = [outcome EXCEPT ![queue[i]] = st] /\ UNCHANGED queue
  ELSE UNCHANGED <<queue, outcome>>

HandleFirst(f, st) ==
  IF core = "running" /\ queue # <<>>
  THEN /\ outcome' = [outcome EXCEPT ![Head(queue)] = st]
       /\ queue' = Tail(queue)
  ELSE UNCHANGED <<queue, outcome>>

(* rtw_tx_report_handle: the first frame with the report's number          *)
ReportHandle(f, st) ==
  IF core = "running" /\ Matches(f) # {}
  THEN LET i == Min(Matches(f))
       IN  /\ outcome' = [outcome EXCEPT ![queue[i]] = st]
           /\ queue' = RemoveAt(queue, i)
  ELSE UNCHANGED <<queue, outcome>>

(* Mutant: the work returns after one report.                              *)
HandleOne ==
  /\ wpc = "handle" /\ wpc' = "idle" /\ c2h' = NO_SKB
  /\ ReportHandle(c2h[1], c2h[2])
  /\ UNCHANGED <<tx, enqueuer, timers, rx, c2h_work, last, core, stops>>

(* rtw_fw_c2h_cmd_handle: the report is dropped unless the core runs       *)
WorkHandle ==
  /\ wpc = "handle" /\ wpc' = (IF last THEN "idle" ELSE "walk") /\ c2h' = NO_SKB
  /\ ReportHandle(c2h[1], c2h[2])
  /\ UNCHANGED <<tx, enqueuer, timers, rx, c2h_work, last, core, stops>>

----------------------------------------------------------------------------
(* rtw_core_stop clears RUNNING, then cancels c2h_work and waits for it;   *)
(* the queues are not emptied.                                             *)

CoreStop ==
  /\ core = "running" /\ stops < MAX_STOPS
  /\ core' = "stopping" /\ stops' = stops + 1
  /\ UNCHANGED <<tx, queue, enqueuer, timers, rx, c2h_work, worker, outcome>>

CancelC2hWork ==
  /\ core = "stopping" /\ wpc = "idle"
  /\ core' = "stopped" /\ c2h_work' = FALSE
  /\ UNCHANGED <<tx, queue, enqueuer, timers, rx, worker, outcome, stops>>

CoreStart ==
  /\ core = "stopped" /\ core' = "running"
  /\ UNCHANGED <<tx, queue, enqueuer, timers, rx, c2h_work, worker, outcome,
                 stops>>

Timer == TimerFires \/ TimerPurge
Rx == RxQueueWork \/ \E f \in Frames : RxC2h(f)
Work == WorkStart \/ WorkNext \/ WorkUnlink \/ WorkHandle

ReportNext ==
  \/ ReportEnable
  \/ \E f \in Frames :
       \/ \E st \in {"ok", "error"}, ack \in {"none", "ack", "noack"} :
            Transfer(f, st, ack)
       \/ CompleteError(f) \/ ReportEnqueue(f)
  \/ ModTimer \/ Timer \/ Rx \/ Work
  \/ CoreStop \/ CancelC2hWork \/ CoreStart

ReportSpec == ReportInit /\ [][ReportNext]_report_vars

(* Completions, timers and works run; the firmware need not report.        *)
ReportFairness ==
  /\ \A f \in Frames : WF_report_vars(CompleteError(f) \/ ReportEnqueue(f))
  /\ WF_report_vars(ModTimer) /\ WF_report_vars(Timer)

----------------------------------------------------------------------------
TypeOK ==
  /\ sn \in 0..N
  /\ transfer \in [Frames -> {"none", "active", "ok", "error", "done"}]
  /\ queue \in Seq(Frames)
  /\ enqueuer \in BOOLEAN /\ armed \in BOOLEAN /\ timer \in {"idle", "purge"}
  /\ on_air \in [Frames -> {"none", "ack", "noack"}]
  /\ reported \subseteq Frames
  /\ c2h_queue \in Seq(Frames \X {"ack", "noack"}) /\ kick \in BOOLEAN
  /\ c2h_work \in BOOLEAN /\ wpc \in {"idle", "walk", "unlink", "handle"}
  /\ last \in BOOLEAN
  /\ c2h \in (Frames \X {"ack", "noack"}) \union {NO_SKB}
  /\ core \in {"running", "stopping", "stopped"} /\ stops \in 0..MAX_STOPS
  /\ outcome \in [Frames -> {"none", "ack", "noack", "free"}]

(* A frame waits in the queue once at most, and only while it has no       *)
(* outcome; a frame that was completed has one or waits.                   *)
WaitsOrSettled ==
  /\ \A i, j \in DOMAIN queue : queue[i] = queue[j] => i = j
  /\ \A f \in Frames : (transfer[f] = "done") <=> (f \in InQueue \/ outcome[f] # "none")
  /\ \A f \in InQueue : outcome[f] = "none"

(* Nothing that waits is forgotten.  Frames are covered by the purge timer:*)
(* it is set, is being set, or its handler is about to purge (the order of *)
(* enqueue and mod_timer makes this true).  Reports, while the core has not*)
(* been stopped, are covered by c2h_work: it is or will be scheduled, or   *)
(* its walk will get to them.                                              *)
NothingForgotten ==
  /\ queue # <<>> => armed \/ enqueuer \/ timer = "purge"
  /\ stops = 0 /\ c2h_queue # <<>> =>
       c2h_work \/ kick \/ wpc \in {"walk", "unlink"} \/ (wpc = "handle" /\ ~last)

(* As long as no number was used twice, an ACK is told only of a frame     *)
(* whose transfer succeeded and that the firmware reported acknowledged.   *)
OwnReport ==
  sn <= SNS => \A f \in Frames : outcome[f] = "ack" => on_air[f] = "ack"

(* A frame that waits for its report is settled, once, by the report that  *)
(* is its own or by the purge, and is not forgotten (tx.c:236, fw.c:356).  *)
ReportsSettle == WaitsOrSettled /\ NothingForgotten /\ OwnReport

(* Every frame whose transfer ended is given back, whatever the firmware   *)
(* does and whenever the core stops.                                       *)
FrameSettles ==
  \A f \in Frames : transfer[f] \in {"ok", "error"} ~> outcome[f] # "none"

============================================================================
