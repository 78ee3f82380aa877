----------------------------- MODULE HostProofs -----------------------------
(***************************************************************************)
(* The three parts of the host's side, which share no variables.           *)
(*                                                                         *)
(* Register integrity of UsbCtrl for any threads and registers, any number *)
(* of attempts and of failures, as long as a failure is counted at all.    *)
(*                                                                         *)
(* TX reports of TxReport, for any number of frames, of sequence numbers   *)
(* and of stops of the core: a frame that waits is settled once, by its    *)
(* own report or by the purge, and nothing that waits is forgotten.        *)
(*                                                                         *)
(* Probe and disconnect of Probe, for any number of failures and of plugs: *)
(* what is held is a function of the place, whatever failed on the way.    *)
(***************************************************************************)
EXTENDS UsbCtrl, TxReport, Probe, SequenceTheorems, WellFoundedInduction, TLAPS

----------------------------------------------------------------------------
(* Register access.                                                       *)

Busy == {"read", "transfer", "return", "write"}

(* Calls in progress are of the kinds Call admits.                         *)
Progress ==
  /\ pc \in [Threads -> {"idle"} \cup Busy]
  /\ DOMAIN call = Threads /\ DOMAIN val = Threads
  /\ \A t \in Threads : pc[t] # "idle" =>
       /\ call[t].kind \in Calls /\ call[t].reg \in Regs
       /\ call[t].bits \subseteq OWN[call[t].reg]
       /\ pc[t] = "write" => call[t].kind # "read"
       /\ pc[t] # "write" => call[t].kind # "write"

(* A transfer holds one mutex, whoever is to write the other.              *)
Locked ==
  \A t \in Threads :
    /\ pc[t] \in {"transfer", "return"} => usb_ctrl_mutex = t
    /\ pc[t] # "idle" /\ call[t].kind # "read" => rtwdev_mutex = t

(* The registers hold their own bits only, and so do the buffer at the end *)
(* of a read and the value that is written back.                           *)
OwnBits ==
  /\ reg \in [Regs -> SUBSET Bits] /\ \A r \in Regs : reg[r] \subseteq OWN[r]
  /\ \A t \in Threads :
       /\ pc[t] = "return" => usb_data \subseteq OWN[call[t].reg]
       /\ pc[t] = "write" => val[t] \subseteq OWN[call[t].reg]

(* Without a failure the buffer at the end of a read is what the register  *)
(* holds, that is what it was asked to hold, and what is about to be       *)
(* written is what it will have been asked to hold.                        *)
Faithful ==
  /\ ctrl_error_count \in Nat /\ DOMAIN asked = Regs
  /\ \A t \in Threads : pc[t] = "return" /\ ret = "ok" => usb_data = reg[call[t].reg]
  /\ ctrl_error_count = 0 =>
       /\ reg = asked
       /\ \A t \in Threads : pc[t] = "write" => val[t] = Asked(t)

CtrlInv == Progress /\ Locked /\ OwnBits /\ Faithful

----------------------------------------------------------------------------
LEMMA CtrlInit == Init => CtrlInv
<1>1. Init => Progress
  BY DEF Init, Progress, Busy
<1>2. Init => Locked
  BY DEF Init, Locked
<1>3. Init => OwnBits
  BY DEF Init, OwnBits
<1>4. Init => Faithful
  BY DEF Init, Faithful
<1> QED
  BY <1>1, <1>2, <1>3, <1>4 DEF CtrlInv

LEMMA CallInv ==
  ASSUME CtrlInv, NULL \notin Threads, NEW t \in Threads, NEW k \in Calls, NEW r \in Regs,
         NEW B \in SUBSET OWN[r], Call(t, k, r, B)
  PROVE  CtrlInv'
<1> USE DEF CtrlInv, Call
<1>1. Progress'
  BY DEF Progress, Busy, Calls
<1>2. Locked'
  BY DEF Locked, Progress, Busy, Calls
<1>3. OwnBits'
  BY DEF OwnBits, Progress, Busy, Calls
<1>4. Faithful'
  <2>1. \A u \in Threads : pc'[u] = "return" /\ ret' = "ok" => usb_data' = reg'[call'[u].reg]
    BY DEF Faithful, Progress
  <2>2. ASSUME ctrl_error_count = 0, NEW u \in Threads, pc'[u] = "write" PROVE val'[u] = Asked(u)'
    <3>1. CASE u = t
      BY <2>2, <3>1 DEF Progress, Asked, Busy, Calls
    <3>2. CASE u # t
      BY <2>2, <3>2 DEF Progress, Faithful, Asked
    <3> QED
      BY <3>1, <3>2
  <2> QED
    BY <2>1, <2>2 DEF Faithful
<1> QED
  BY <1>1, <1>2, <1>3, <1>4

LEMMA ReadLockInv ==
  ASSUME CtrlInv, NULL \notin Threads, NEW t \in Threads, ReadLock(t)
  PROVE  CtrlInv'
<1> USE DEF CtrlInv, ReadLock
<1>1. Progress'
  BY DEF Progress, Busy
<1>2. Locked'
  BY DEF Locked, Progress
<1>3. OwnBits'
  BY DEF OwnBits, Progress
<1>4. Faithful'
  BY DEF Faithful, Progress, Asked
<1> QED
  BY <1>1, <1>2, <1>3, <1>4

LEMMA ReadTransferInv ==
  ASSUME CtrlInv, NULL \notin Threads, NEW t \in Threads, ReadTransfer(t)
  PROVE  CtrlInv'
<1> USE DEF CtrlInv, ReadTransfer
<1>1. Progress'
  BY DEF Progress, Busy
<1>2. Locked'
  BY DEF Locked, Progress
<1>3. OwnBits'
  <2>1. pc'[t] = "return" => usb_data' \subseteq OWN[call[t].reg]
    BY DEF OwnBits, Progress, Receive, Buffer
  <2>2. \A u \in Threads \ {t} : pc'[u] # "return"
    BY DEF Locked, Progress
  <2>3. \A u \in Threads : pc'[u] = "write" => pc[u] = "write"
    BY DEF Progress
  <2> QED
    BY <2>1, <2>2, <2>3 DEF OwnBits
<1>4. Faithful'
  <2>1. pc'[t] = "return" /\ ret' = "ok" => usb_data' = reg[call[t].reg]
    BY DEF Faithful, OwnBits, Progress, Receive, Buffer, Bits
  <2>2. \A u \in Threads \ {t} : pc'[u] # "return"
    BY DEF Locked, Progress
  <2>3. \A u \in Threads : pc'[u] = "write" => pc[u] = "write"
    BY DEF Progress
  <2> QED
    BY <2>1, <2>2, <2>3 DEF Faithful, Asked
<1> QED
  BY <1>1, <1>2, <1>3, <1>4

LEMMA ReadReturnInv ==
  ASSUME CtrlInv, NULL \notin Threads, MAX_ERRORS \in Nat \ {0}, NEW t \in Threads, ReadReturn(t)
  PROVE  CtrlInv'
<1> USE DEF CtrlInv, ReadReturn, Return
<1>1. Progress'
  BY DEF Progress, Busy, NoCall
<1>2. Locked'
  BY DEF Locked, Progress, NoCall
<1>3. OwnBits'
  BY DEF OwnBits, Locked, Progress, Modify
<1>4. Faithful'
  <2>1. ctrl_error_count' \in Nat /\ (ctrl_error_count' = 0 => ctrl_error_count = 0 /\ ret = "ok")
    BY DEF Faithful, CountError
  <2>2. \A u \in Threads : pc'[u] # "return"
    BY DEF Locked, Progress
  <2>3. ASSUME ctrl_error_count' = 0, NEW u \in Threads, pc'[u] = "write"
        PROVE  val'[u] = Asked(u)'
    <3>1. CASE u = t
      BY <2>1, <2>3, <3>1 DEF Progress, Faithful, Asked, Modify, Calls
    <3>2. CASE u # t
      BY <2>1, <2>3, <3>2 DEF Progress, Faithful, Asked
    <3> QED
      BY <3>1, <3>2
  <2> QED
    BY <2>1, <2>2, <2>3 DEF Faithful
<1> QED
  BY <1>1, <1>2, <1>3, <1>4

LEMMA WriteInv ==
  ASSUME CtrlInv, NULL \notin Threads, MAX_ERRORS \in Nat \ {0}, NEW t \in Threads, Write(t)
  PROVE  CtrlInv'
<1> USE DEF CtrlInv, Write, Return
<1>1. Progress'
  BY DEF Progress, Busy, NoCall
<1>2. Locked'
  BY DEF Locked, Progress, NoCall
<1>3. \A u \in Threads \ {t} : pc[u] # "write"
  BY DEF Locked, Progress
<1>4. \A u \in Threads : pc'[u] \notin {"return", "write"}
  BY <1>3 DEF Locked, Progress
<1>5. OwnBits'
  BY <1>4 DEF OwnBits, Progress, Bits
<1>6. Faithful'
  <2>1. ctrl_error_count' \in Nat /\ (ctrl_error_count' = 0 => ctrl_error_count = 0)
    BY DEF Faithful, CountError
  <2>2. ctrl_error_count' = 0 => reg' = [reg EXCEPT ![call[t].reg] = val[t]]
    BY DEF Faithful, CountError
  <2> QED
    BY <1>4, <2>1, <2>2 DEF Faithful
<1> QED
  BY <1>1, <1>2, <1>5, <1>6

LEMMA CtrlStep ==
  ASSUME CtrlInv, NULL \notin Threads, MAX_ERRORS \in Nat \ {0}, [Next]_vars
  PROVE  CtrlInv'
<1>1. ASSUME NEW t \in Threads, NEW k \in Calls, NEW r \in Regs, NEW B \in SUBSET OWN[r],
             Call(t, k, r, B)
      PROVE  CtrlInv'
  BY <1>1, CallInv
<1>2. ASSUME NEW t \in Threads, Step(t) PROVE CtrlInv'
  BY <1>2, ReadLockInv, ReadTransferInv, ReadReturnInv, WriteInv DEF Step
<1>3. CASE UNCHANGED vars
  BY <1>3 DEF vars, local, CtrlInv, Progress, Locked, OwnBits, Faithful, Asked
<1> QED
  BY <1>1, <1>2, <1>3 DEF Next

(* Whatever the device answers, a register never holds a bit of another    *)
(* one, and as long as no failure was counted it holds what the calls asked*)
(* for (usb.c:98, hci.h:170).  It supposes that failures are counted and   *)
(* that NULL is no thread.                                                 *)
THEOREM RegistersKept ==
  ASSUME NULL \notin Threads, MAX_ERRORS \in Nat \ {0}
  PROVE  Spec => []RegisterIntegrity
<1>1. CtrlInv => RegisterIntegrity
  BY DEF CtrlInv, OwnBits, Faithful, RegisterIntegrity
<1>2. CtrlInv /\ [Next]_vars => CtrlInv'
  BY CtrlStep
<1> QED
  BY CtrlInit, <1>1, <1>2, PTL DEF Spec

----------------------------------------------------------------------------
(* TX reports.                                                            *)

Reports == Frames \X {"ack", "noack"}

(* Frames beyond sn have not been handed over; the firmware knows of a     *)
(* frame only when its transfer has ended.                                 *)
Sent ==
  /\ \A f \in Frames : transfer[f] # "none" => f <= sn
  /\ \A f \in Frames : transfer[f] \in {"none", "active"} => on_air[f] = "none"

(* A report says of its frame what the firmware knows.                     *)
Truthful ==
  /\ \A i \in DOMAIN c2h_queue : c2h_queue[i][2] = on_air[c2h_queue[i][1]]
  /\ wpc = "handle" => c2h \in Reports /\ c2h[2] = on_air[c2h[1]]
  /\ \A f \in Frames : transfer[f] = "ok" => on_air[f] # "none"
  /\ \A f \in InQueue : on_air[f] # "none"

(* The walk finds a report wherever it goes on to one, ...                 *)
Walk ==
  /\ wpc \in {"walk", "unlink"} => Len(c2h_queue) > 0
  /\ wpc = "unlink" /\ ~last => Len(c2h_queue) > 1
  /\ wpc = "handle" /\ ~last => Len(c2h_queue) > 0

(* ... and what came in after it had looked ahead has the work scheduled.  *)
LateReport ==
  /\ core # "running" => stops > 0
  /\ stops = 0 /\ wpc = "unlink" /\ last /\ Len(c2h_queue) > 1 => c2h_work \/ kick

ReportInv == /\ TypeOK /\ WaitsOrSettled /\ NothingForgotten /\ OwnReport
       /\ Sent /\ Truthful /\ Walk /\ LateReport

NoTwice(q) == \A i, j \in DOMAIN q : q[i] = q[j] => i = j

----------------------------------------------------------------------------
(* The least of a set of indices, which there is, is one of them.          *)
LEMMA LeastElement ==
  ASSUME NEW S, S \subseteq Nat, S # {}
  PROVE  Min(S) \in S
<1>1. \E x \in S : \A y \in S : ~(<<y, x>> \in {p \in Nat \X Nat : p[1] < p[2]})
  BY NatLessThanWellFounded, WFMin DEF OpToRel
<1>2. PICK x \in S : \A y \in S : ~(<<y, x>> \in {p \in Nat \X Nat : p[1] < p[2]})
  BY <1>1
<1>3. ASSUME NEW y \in S PROVE x <= y
  <2>1. x \in Nat /\ y \in Nat /\ <<y, x>> \in Nat \X Nat
    OBVIOUS
  <2>2. ~(y < x)
    BY <1>2, <2>1
  <2> QED
    BY <2>1, <2>2
<1> QED
  BY <1>3 DEF Min

(* RemoveAt closes the gap.                                                *)
LEMMA RemoveAtProperties ==
  ASSUME NEW S, NEW q \in Seq(S), NEW k \in 1..Len(q)
  PROVE  /\ RemoveAt(q, k) \in Seq(S)
         /\ Len(RemoveAt(q, k)) = Len(q) - 1
         /\ \A j \in 1..(Len(q) - 1) :
              RemoveAt(q, k)[j] = IF j < k THEN q[j] ELSE q[j + 1]
<1> DEFINE a == SubSeq(q, 1, k - 1)
           b == SubSeq(q, k + 1, Len(q))
<1>1. a \in Seq(S) /\ Len(a) = k - 1 /\ \A j \in 1..(k - 1) : a[j] = q[j]
  <2>1. \A j \in 1..(k - 1) : q[j] \in S
    OBVIOUS
  <2>2. /\ a \in Seq(S) /\ Len(a) = IF 1 <= k - 1 THEN (k - 1) - 1 + 1 ELSE 0
        /\ \A j \in 1..((k - 1) - 1 + 1) : a[j] = q[1 + j - 1]
    BY <2>1, SubSeqProperties
  <2> HIDE DEF a
  <2>3. 1 <= k - 1 \/ k - 1 = 0
    OBVIOUS
  <2> QED
    BY <2>2, <2>3
<1>2. /\ b \in Seq(S) /\ Len(b) = Len(q) - k
      /\ \A j \in 1..(Len(q) - k) : b[j] = q[k + j]
  <2>1. \A j \in (k + 1)..Len(q) : q[j] \in S
    OBVIOUS
  <2>2. /\ b \in Seq(S) /\ Len(b) = IF k + 1 <= Len(q) THEN Len(q) - (k + 1) + 1 ELSE 0
        /\ \A j \in 1..(Len(q) - (k + 1) + 1) : b[j] = q[(k + 1) + j - 1]
    BY <2>1, SubSeqProperties
  <2> HIDE DEF b
  <2>3. k + 1 <= Len(q) \/ Len(q) - k = 0
    OBVIOUS
  <2> QED
    BY <2>2, <2>3
<1>3. RemoveAt(q, k) = a \o b
  BY DEF RemoveAt
<1> HIDE DEF a, b
<1>4. /\ a \o b \in Seq(S) /\ Len(a \o b) = Len(a) + Len(b)
      /\ \A j \in 1..(Len(a) + Len(b)) :
           (a \o b)[j] = IF j <= Len(a) THEN a[j] ELSE b[j - Len(a)]
  BY <1>1, <1>2, ConcatProperties
<1>5. ASSUME NEW j \in 1..(Len(q) - 1)
      PROVE  (a \o b)[j] = IF j < k THEN q[j] ELSE q[j + 1]
  BY <1>1, <1>2, <1>4, <1>5
<1> QED
  BY <1>1, <1>2, <1>3, <1>4, <1>5

----------------------------------------------------------------------------
(* The report of frame f takes one frame with its number from the queue.   *)
Settles(f, st) ==
  \E g \in InQueue :
    /\ Number(g) = Number(f)
    /\ outcome' = [outcome EXCEPT ![g] = st]
    /\ queue' \in Seq(Frames) /\ NoTwice(queue')
    /\ InQueue' = InQueue \ {g}

(* rtw_tx_report_handle does that, or nothing.                             *)
LEMMA HandleSettles ==
  ASSUME TypeOK, WaitsOrSettled, NEW f \in Frames, NEW st, ReportHandle(f, st)
  PROVE  UNCHANGED <<queue, outcome>> \/ (core = "running" /\ Settles(f, st))
<1> SUFFICES ASSUME core = "running", Matches(f) # {}
             PROVE  Settles(f, st)
  BY DEF ReportHandle
<1> DEFINE k == Min(Matches(f))
<1>1. k \in DOMAIN queue /\ Number(queue[k]) = Number(f)
  <2>1. Matches(f) \subseteq Nat
    BY DEF Matches, TypeOK
  <2>2. k \in Matches(f)
    BY <2>1, LeastElement
  <2> QED
    BY <2>2 DEF Matches
<1>2. outcome' = [outcome EXCEPT ![queue[k]] = st] /\ queue' = RemoveAt(queue, k)
  BY DEF ReportHandle
<1> HIDE DEF k
<1>3. /\ queue \in Seq(Frames) /\ k \in 1..Len(queue) /\ NoTwice(queue)
      /\ DOMAIN queue = 1..Len(queue) /\ Len(queue) \in Nat
  BY <1>1 DEF TypeOK, WaitsOrSettled, NoTwice
<1>4. /\ queue' \in Seq(Frames) /\ Len(queue') = Len(queue) - 1
      /\ \A j \in 1..(Len(queue) - 1) :
           queue'[j] = IF j < k THEN queue[j] ELSE queue[j + 1]
  BY <1>2, <1>3, RemoveAtProperties
<1>5. DOMAIN queue' = 1..(Len(queue) - 1)
  BY <1>4
<1>6. NoTwice(queue')
  <2> SUFFICES ASSUME NEW i \in 1..(Len(queue) - 1), NEW j \in 1..(Len(queue) - 1),
                      queue'[i] = queue'[j]
               PROVE  i = j
    BY <1>5 DEF NoTwice
  <2> DEFINE from(n) == IF n < k THEN n ELSE n + 1
  <2>1. from(i) \in 1..Len(queue) /\ queue'[i] = queue[from(i)]
    BY <1>3, <1>4
  <2>2. from(j) \in 1..Len(queue) /\ queue'[j] = queue[from(j)]
    BY <1>3, <1>4
  <2>3. from(i) = from(j) => i = j
    BY <1>3
  <2> HIDE DEF from
  <2>4. from(i) = from(j)
    BY <1>3, <2>1, <2>2 DEF NoTwice
  <2> QED
    BY <2>3, <2>4
<1>7. InQueue' \subseteq InQueue \ {queue[k]}
  <2> SUFFICES ASSUME NEW j \in 1..(Len(queue) - 1)
               PROVE  queue'[j] \in InQueue \ {queue[k]}
    BY <1>5 DEF InQueue
  <2>1. CASE j < k
    <3>1. j \in 1..Len(queue) /\ queue'[j] = queue[j] /\ j # k
      BY <2>1, <1>3, <1>4
    <3> QED
      BY <3>1, <1>3 DEF NoTwice, InQueue
  <2>2. CASE ~(j < k)
    <3>1. j + 1 \in 1..Len(queue) /\ queue'[j] = queue[j + 1] /\ j + 1 # k
      BY <2>2, <1>3, <1>4
    <3> QED
      BY <3>1, <1>3 DEF NoTwice, InQueue
  <2> QED
    BY <2>1, <2>2
<1>8. InQueue \ {queue[k]} \subseteq InQueue'
  <2> SUFFICES ASSUME NEW i \in 1..Len(queue), queue[i] # queue[k]
               PROVE  \E j \in 1..(Len(queue) - 1) : queue'[j] = queue[i]
    BY <1>3, <1>5 DEF InQueue
  <2>1. CASE i < k
    <3>1. i \in 1..(Len(queue) - 1) /\ queue'[i] = queue[i]
      BY <2>1, <1>3, <1>4
    <3> QED
      BY <3>1
  <2>2. CASE i > k
    <3>1. i - 1 \in 1..(Len(queue) - 1) /\ queue'[i - 1] = queue[i]
      BY <2>2, <1>3, <1>4
    <3> QED
      BY <3>1
  <2> QED
    BY <2>1, <2>2, <1>3
<1> QED
  BY <1>1, <1>2, <1>3, <1>4, <1>6, <1>7, <1>8 DEF Settles, InQueue

----------------------------------------------------------------------------
(* Each action keeps the invariant.                                        *)
LEMMA ReportEnableInv ==
  ASSUME ReportInv, ReportEnable
  PROVE  ReportInv'
<1>1. /\ sn + 1 \in Frames /\ transfer[sn + 1] = "none"
      /\ sn' = sn + 1 /\ transfer' = [transfer EXCEPT ![sn + 1] = "active"]
  BY TxReportAssumption DEF ReportInv, TypeOK, Sent, ReportEnable, Frames
<1>2. TypeOK'
  BY <1>1, TxReportAssumption DEF ReportInv, TypeOK, ReportEnable, timers, air, rx, worker
<1>3. WaitsOrSettled'
  BY <1>1 DEF ReportInv, TypeOK, WaitsOrSettled, InQueue, ReportEnable
<1>4. OwnReport'
  BY <1>1, TxReportAssumption DEF ReportInv, TypeOK, OwnReport, ReportEnable, air, rx
<1>5. Sent'
  BY <1>1 DEF ReportInv, TypeOK, Sent, ReportEnable, Frames, air, rx
<1>6. Truthful'
  BY <1>1 DEF ReportInv, TypeOK, Truthful, InQueue, ReportEnable, air, rx, worker
<1>7. NothingForgotten' /\ Walk' /\ LateReport'
  BY DEF ReportInv, NothingForgotten, Walk, LateReport, ReportEnable, timers, air, rx, worker
<1> QED
  BY <1>2, <1>3, <1>4, <1>5, <1>6, <1>7 DEF ReportInv

LEMMA TransferInv ==
  ASSUME ReportInv, NEW f \in Frames, NEW st \in {"ok", "error"},
         NEW ack \in {"none", "ack", "noack"}, Transfer(f, st, ack)
  PROVE  ReportInv'
<1>1. TypeOK'
  BY DEF ReportInv, TypeOK, Walk, Frames, InQueue, Transfer, tx, timers, air, rx, worker
<1>2. WaitsOrSettled'
  BY DEF ReportInv, TypeOK, WaitsOrSettled, InQueue, Transfer
<1>3. OwnReport'
  BY DEF ReportInv, TypeOK, WaitsOrSettled, OwnReport, Sent, Truthful, InQueue, Transfer
<1>4. Sent'
  BY DEF ReportInv, TypeOK, Sent, Transfer
<1>5. Truthful'
  BY DEF ReportInv, TypeOK, Truthful, Sent, Walk, Reports, InQueue, Transfer, tx, timers, air,
         rx, worker
<1>6. NothingForgotten' /\ Walk' /\ LateReport'
  BY DEF ReportInv, NothingForgotten, Walk, LateReport, InQueue, Transfer, tx, timers, air, rx,
         worker
<1> QED
  BY <1>1, <1>2, <1>3, <1>4, <1>5, <1>6 DEF ReportInv

LEMMA CompleteErrorInv ==
  ASSUME ReportInv, NEW f \in Frames, CompleteError(f)
  PROVE  ReportInv'
<1>1. TypeOK'
  BY DEF ReportInv, TypeOK, Walk, Frames, InQueue, CompleteError, tx, timers, air, rx, worker
<1>2. WaitsOrSettled'
  BY DEF ReportInv, TypeOK, WaitsOrSettled, InQueue, CompleteError
<1>3. OwnReport'
  BY DEF ReportInv, TypeOK, WaitsOrSettled, OwnReport, Sent, Truthful, InQueue, CompleteError,
         tx, timers, air, rx, worker
<1>4. Sent'
  BY DEF ReportInv, TypeOK, Sent, Frames, CompleteError, tx, timers, air, rx, worker
<1>5. Truthful'
  BY DEF ReportInv, TypeOK, Truthful, Sent, Walk, Reports, InQueue, CompleteError, tx, timers,
         air, rx, worker
<1>6. NothingForgotten' /\ Walk' /\ LateReport'
  BY DEF ReportInv, NothingForgotten, Walk, LateReport, InQueue, CompleteError, tx, timers,
         air, rx, worker
<1> QED
  BY <1>1, <1>2, <1>3, <1>4, <1>5, <1>6 DEF ReportInv

LEMMA ReportEnqueueInv ==
  ASSUME ReportInv, NEW f \in Frames, ReportEnqueue(f)
  PROVE  ReportInv'
<1>1. /\ queue \in Seq(Frames) /\ queue' = Append(queue, f)
      /\ transfer' = [transfer EXCEPT ![f] = "done"] /\ f \notin InQueue
      /\ transfer[f] = "ok" /\ outcome[f] = "none"
  BY DEF ReportInv, TypeOK, WaitsOrSettled, ReportEnqueue, EnqueueFrame
<1>2. InQueue' = InQueue \union {f}
  BY <1>1 DEF InQueue
<1>3. WaitsOrSettled'
  <2>1. \A i, j \in DOMAIN queue' : queue'[i] = queue'[j] => i = j
    BY <1>1 DEF ReportInv, WaitsOrSettled, InQueue
  <2>2. /\ \A g \in Frames :
            (transfer'[g] = "done") <=> (g \in InQueue' \/ outcome'[g] # "none")
        /\ \A g \in InQueue' : outcome'[g] = "none"
    BY <1>1, <1>2 DEF ReportInv, TypeOK, WaitsOrSettled, ReportEnqueue
  <2> QED
    BY <2>1, <2>2 DEF WaitsOrSettled
<1>4. TypeOK'
  BY <1>1 DEF ReportInv, TypeOK, ReportEnqueue, timers, air, rx, worker
<1>5. NothingForgotten'
  BY <1>1 DEF ReportInv, NothingForgotten, ReportEnqueue, timers, air, rx, worker
<1>6. Sent'
  BY <1>1 DEF ReportInv, TypeOK, Sent, ReportEnqueue, air, rx
<1>7. Truthful'
  BY <1>1, <1>2 DEF ReportInv, TypeOK, Truthful, ReportEnqueue, air, rx, worker
<1>8. OwnReport' /\ Walk' /\ LateReport'
  BY DEF ReportInv, OwnReport, Walk, LateReport, ReportEnqueue, air, rx, worker
<1> QED
  BY <1>3, <1>4, <1>5, <1>6, <1>7, <1>8 DEF ReportInv

LEMMA ModTimerInv ==
  ASSUME ReportInv, ModTimer
  PROVE  ReportInv'
<1>1. TypeOK'
  BY DEF ReportInv, TypeOK, ModTimer, tx, air, rx, worker
<1>2. NothingForgotten'
  BY DEF ReportInv, TypeOK, NothingForgotten, Walk, LateReport, ModTimer, tx, air, rx, worker
<1>3. WaitsOrSettled' /\ OwnReport' /\ Sent' /\ Truthful' /\ Walk' /\ LateReport'
  BY DEF ReportInv, WaitsOrSettled, OwnReport, Sent, Truthful, Walk, LateReport, InQueue,
         ModTimer, tx, air, rx, worker
<1> QED
  BY <1>1, <1>2, <1>3 DEF ReportInv

LEMMA TimerFiresInv ==
  ASSUME ReportInv, TimerFires
  PROVE  ReportInv'
<1>1. TypeOK'
  BY DEF ReportInv, TypeOK, TimerFires, tx, air, rx, worker
<1>2. NothingForgotten'
  BY DEF ReportInv, TypeOK, NothingForgotten, Walk, LateReport, TimerFires, tx, air, rx, worker
<1>3. WaitsOrSettled' /\ OwnReport' /\ Sent' /\ Truthful' /\ Walk' /\ LateReport'
  BY DEF ReportInv, WaitsOrSettled, OwnReport, Sent, Truthful, Walk, LateReport, InQueue,
         TimerFires, tx, air, rx, worker
<1> QED
  BY <1>1, <1>2, <1>3 DEF ReportInv

LEMMA TimerPurgeInv ==
  ASSUME ReportInv, TimerPurge
  PROVE  ReportInv'
<1>1. TypeOK'
  BY DEF ReportInv, TypeOK, InQueue, TimerPurge, tx, air, rx, worker
<1>2. WaitsOrSettled'
  BY DEF ReportInv, TypeOK, WaitsOrSettled, InQueue, TimerPurge, tx, air, rx, worker
<1>3. NothingForgotten'
  BY DEF ReportInv, TypeOK, NothingForgotten, Walk, LateReport, TimerPurge, tx, air, rx, worker
<1>4. OwnReport'
  BY DEF ReportInv, TypeOK, WaitsOrSettled, OwnReport, Sent, Truthful, InQueue, TimerPurge, tx,
         air, rx, worker
<1>5. Truthful'
  BY DEF ReportInv, TypeOK, Truthful, Sent, Walk, Reports, InQueue, TimerPurge, tx, air, rx,
         worker
<1>6. Sent' /\ Walk' /\ LateReport'
  BY DEF ReportInv, Sent, Walk, LateReport, InQueue, TimerPurge, tx, air, rx, worker
<1> QED
  BY <1>1, <1>2, <1>3, <1>4, <1>5, <1>6 DEF ReportInv

LEMMA RxC2hInv ==
  ASSUME ReportInv, NEW f \in Frames, RxC2h(f)
  PROVE  ReportInv'
<1>1. TypeOK'
  BY DEF ReportInv, TypeOK, Walk, Frames, InQueue, RxC2h, tx, timers, air, rx, worker
<1>2. NothingForgotten'
  BY DEF ReportInv, TypeOK, NothingForgotten, Walk, LateReport, RxC2h, tx, timers, air, rx, worker
<1>3. Truthful'
  BY DEF ReportInv, TypeOK, Truthful, Sent, Walk, Reports, InQueue, RxC2h, tx, timers, air, rx,
         worker
<1>4. Walk'
  BY DEF ReportInv, TypeOK, Walk, NothingForgotten, RxC2h, tx, timers, air, rx, worker
<1>5. LateReport'
  BY DEF ReportInv, TypeOK, Walk, LateReport, NothingForgotten, RxC2h
<1>6. WaitsOrSettled' /\ OwnReport' /\ Sent'
  BY DEF ReportInv, WaitsOrSettled, OwnReport, Sent, InQueue, RxC2h, tx, timers, air, rx, worker
<1> QED
  BY <1>1, <1>2, <1>3, <1>4, <1>5, <1>6 DEF ReportInv

LEMMA RxQueueWorkInv ==
  ASSUME ReportInv, RxQueueWork
  PROVE  ReportInv'
<1>1. TypeOK'
  BY DEF ReportInv, TypeOK, Walk, Frames, InQueue, RxQueueWork, tx, timers, air, rx, worker
<1>2. NothingForgotten'
  BY DEF ReportInv, TypeOK, NothingForgotten, Walk, LateReport, RxQueueWork, tx, timers, air,
         rx, worker
<1>3. LateReport'
  BY DEF ReportInv, TypeOK, Walk, LateReport, NothingForgotten, RxQueueWork, tx, timers, air,
         worker
<1>4. WaitsOrSettled' /\ OwnReport' /\ Sent' /\ Truthful' /\ Walk'
  BY DEF ReportInv, WaitsOrSettled, OwnReport, Sent, Truthful, Walk, InQueue, RxQueueWork, tx,
         timers, air, worker
<1> QED
  BY <1>1, <1>2, <1>3, <1>4 DEF ReportInv

LEMMA WorkStartInv ==
  ASSUME ReportInv, WorkStart
  PROVE  ReportInv'
<1>1. TypeOK'
  BY DEF ReportInv, TypeOK, Walk, Frames, InQueue, WorkStart, tx, timers, air, rx, worker
<1>2. NothingForgotten'
  BY DEF ReportInv, TypeOK, NothingForgotten, Walk, LateReport, WorkStart, tx, timers, air, rx
<1>3. Truthful'
  BY DEF ReportInv, TypeOK, Truthful, Sent, Walk, Reports, InQueue, WorkStart, tx, timers, air, rx
<1>4. Walk'
  BY DEF ReportInv, TypeOK, Walk, NothingForgotten, WorkStart, tx, timers, air, rx
<1>5. LateReport'
  BY DEF ReportInv, TypeOK, Walk, LateReport, NothingForgotten, WorkStart, tx, timers, air, rx
<1>6. WaitsOrSettled' /\ OwnReport' /\ Sent'
  BY DEF ReportInv, WaitsOrSettled, OwnReport, Sent, InQueue, WorkStart, tx, timers, air, rx
<1> QED
  BY <1>1, <1>2, <1>3, <1>4, <1>5, <1>6 DEF ReportInv

LEMMA WorkNextInv ==
  ASSUME ReportInv, WorkNext
  PROVE  ReportInv'
<1>1. c2h_queue \in Seq(Reports) /\ Len(c2h_queue) > 0
  BY DEF ReportInv, TypeOK, Walk, WorkNext, Reports
<1>2. wpc' = "unlink" /\ last' = (Len(c2h_queue) = 1)
  BY DEF WorkNext
<1>3. Walk' /\ LateReport' /\ NothingForgotten'
  <2>1. UNCHANGED <<queue, enqueuer, armed, timer, c2h_queue, kick, c2h_work, core, stops>>
    BY DEF WorkNext, timers, air, rx
  <2>2. CASE Len(c2h_queue) = 1
    <3>1. last' = TRUE
      BY <1>2, <2>2
    <3> QED
      BY <1>1, <1>2, <2>1, <2>2, <3>1 DEF ReportInv, Walk, LateReport, NothingForgotten
  <2>3. CASE Len(c2h_queue) # 1
    <3>1. last' = FALSE
      BY <1>2, <2>3, Zenon
    <3>2. Len(c2h_queue) > 1
      <4>1. \A n \in Nat : n > 0 /\ n # 1 => n > 1
        OBVIOUS
      <4>2. Len(c2h_queue) \in Nat
        BY <1>1
      <4> QED
        BY <1>1, <2>3, <4>1, <4>2, Zenon
    <3>3. wpc' = "unlink"
      BY <1>2
    <3> QED
      BY <2>1, <3>1, <3>2, <3>3 DEF ReportInv, Walk, LateReport, NothingForgotten
  <2> QED
    BY <2>2, <2>3
<1>4. TypeOK'
  BY <1>2 DEF ReportInv, TypeOK, WorkNext, tx, timers, air, rx
<1>5. Truthful'
  BY <1>2 DEF ReportInv, Truthful, InQueue, WorkNext, tx, air, rx
<1>6. WaitsOrSettled' /\ OwnReport' /\ Sent'
  BY DEF ReportInv, WaitsOrSettled, OwnReport, Sent, InQueue, WorkNext, tx, air, rx
<1> QED
  BY <1>3, <1>4, <1>5, <1>6 DEF ReportInv

LEMMA WorkUnlinkInv ==
  ASSUME ReportInv, WorkUnlink
  PROVE  ReportInv'
<1>1. TypeOK'
  BY DEF ReportInv, TypeOK, Walk, WorkUnlink, tx, timers, air
<1>2. NothingForgotten'
  BY DEF ReportInv, TypeOK, NothingForgotten, Walk, LateReport, WorkUnlink, tx, timers, air
<1>3. Truthful'
  BY DEF ReportInv, TypeOK, Truthful, Sent, Walk, Reports, InQueue, WorkUnlink, tx, timers, air
<1>4. Walk'
  BY DEF ReportInv, TypeOK, Walk, NothingForgotten, WorkUnlink, tx, timers, air
<1>5. LateReport'
  BY DEF ReportInv, TypeOK, Walk, LateReport, NothingForgotten, WorkUnlink, tx, timers, air
<1>6. WaitsOrSettled' /\ OwnReport' /\ Sent'
  BY DEF ReportInv, WaitsOrSettled, OwnReport, Sent, InQueue, WorkUnlink, tx, timers, air
<1> QED
  BY <1>1, <1>2, <1>3, <1>4, <1>5, <1>6 DEF ReportInv

(* Up to the first reuse of a number, frames with the same one are the same.*)
LEMMA NumbersDiffer ==
  ASSUME sn \in Nat, sn <= SNS, NEW f \in 1..sn, NEW g \in 1..sn, Number(f) = Number(g)
  PROVE  f = g
<1>1. \A h \in 1..sn : Number(h) = IF h = SNS THEN 0 ELSE h
  BY TxReportAssumption DEF Number
<1> QED
  BY <1>1

LEMMA WorkHandleInv ==
  ASSUME ReportInv, WorkHandle
  PROVE  ReportInv'
<1> DEFINE f == c2h[1]
           st == c2h[2]
<1>1. /\ wpc = "handle" /\ wpc' = (IF last THEN "idle" ELSE "walk") /\ c2h' = NO_SKB
      /\ ReportHandle(f, st)
      /\ UNCHANGED <<sn, transfer, enqueuer, armed, timer, on_air, reported, c2h_queue,
                     kick, c2h_work, last, core, stops>>
  BY DEF WorkHandle, tx, timers, air, rx
<1>2. /\ f \in Frames /\ st \in {"ack", "noack"} /\ st = on_air[f]
  BY <1>1 DEF ReportInv, Truthful, Reports
<1> HIDE DEF f, st
<1>3. UNCHANGED <<queue, outcome>> \/ (core = "running" /\ Settles(f, st))
  BY <1>1, <1>2, HandleSettles DEF ReportInv
<1>4. NothingForgotten'
  <2>1. queue' # <<>> => queue # <<>>
    <3>1. CASE UNCHANGED queue
      BY <3>1
    <3>2. CASE Settles(f, st)
      BY <3>2 DEF Settles, InQueue
    <3> QED
      BY <1>3, <3>1, <3>2
  <2> QED
    BY <1>1, <2>1 DEF ReportInv, NothingForgotten
<1>5. Sent' /\ Walk' /\ LateReport'
  BY <1>1 DEF ReportInv, TypeOK, Sent, Walk, LateReport
<1>6. CASE UNCHANGED <<queue, outcome>>
  <2>1. TypeOK'
    BY <1>1, <1>6 DEF ReportInv, TypeOK
  <2>2. WaitsOrSettled' /\ OwnReport' /\ Truthful'
    BY <1>1, <1>6 DEF ReportInv, TypeOK, WaitsOrSettled, OwnReport, Truthful, InQueue
  <2> QED
    BY <1>4, <1>5, <2>1, <2>2 DEF ReportInv
<1>7. CASE Settles(f, st)
  <2>1. PICK g \in InQueue :
          /\ Number(g) = Number(f)
          /\ outcome' = [outcome EXCEPT ![g] = st]
          /\ queue' \in Seq(Frames) /\ NoTwice(queue')
          /\ InQueue' = InQueue \ {g}
    BY <1>7 DEF Settles
  <2>2. g \in Frames /\ transfer[g] = "done"
    BY DEF ReportInv, TypeOK, WaitsOrSettled, InQueue
  <2>3. TypeOK'
    BY <1>1, <1>2, <2>1, <2>2 DEF ReportInv, TypeOK
  <2>4. WaitsOrSettled'
    <3>1. \A h \in InQueue' : outcome'[h] = "none"
      BY <2>1, <2>2 DEF ReportInv, TypeOK, WaitsOrSettled
    <3>2. \A h \in Frames :
            (transfer'[h] = "done") <=> (h \in InQueue' \/ outcome'[h] # "none")
      BY <1>1, <1>2, <2>1, <2>2 DEF ReportInv, TypeOK, WaitsOrSettled
    <3> QED
      BY <2>1, <3>1, <3>2 DEF WaitsOrSettled, NoTwice
  <2>5. OwnReport'
    <3> SUFFICES ASSUME sn <= SNS, NEW h \in Frames, outcome'[h] = "ack"
                 PROVE  on_air[h] = "ack"
      BY <1>1 DEF OwnReport
    <3>1. CASE h = g
      <4>1. g \in 1..sn /\ f \in 1..sn
        BY <1>2, <2>2 DEF ReportInv, TypeOK, Sent, Frames
      <4>2. f = g
        BY <2>1, <4>1, NumbersDiffer DEF ReportInv, TypeOK
      <4> QED
        BY <1>2, <2>1, <2>2, <3>1, <4>2 DEF ReportInv, TypeOK
    <3>2. CASE h # g
      BY <2>1, <3>2 DEF ReportInv, TypeOK, OwnReport
    <3> QED
      BY <3>1, <3>2
  <2>6. Truthful'
    BY <1>1, <2>1 DEF ReportInv, Truthful
  <2> QED
    BY <1>4, <1>5, <2>3, <2>4, <2>5, <2>6 DEF ReportInv
<1> QED
  BY <1>3, <1>6, <1>7

LEMMA CoreStopInv ==
  ASSUME ReportInv, CoreStop
  PROVE  ReportInv'
<1>1. TypeOK'
  BY TxReportAssumption DEF ReportInv, TypeOK, CoreStop, tx, timers, air, rx, worker
<1>2. NothingForgotten'
  BY TxReportAssumption DEF ReportInv, TypeOK, NothingForgotten, Walk, LateReport, CoreStop,
                            tx, timers, air, rx, worker
<1>3. LateReport'
  BY TxReportAssumption DEF ReportInv, TypeOK, Walk, LateReport, NothingForgotten, CoreStop,
                            tx, timers, air, rx, worker
<1>4. WaitsOrSettled' /\ OwnReport' /\ Sent' /\ Truthful' /\ Walk'
  BY DEF ReportInv, WaitsOrSettled, OwnReport, Sent, Truthful, Walk, InQueue, CoreStop, tx,
         timers, air, rx, worker
<1> QED
  BY <1>1, <1>2, <1>3, <1>4 DEF ReportInv

LEMMA CancelC2hWorkInv ==
  ASSUME ReportInv, CancelC2hWork
  PROVE  ReportInv'
<1>1. TypeOK'
  BY DEF ReportInv, TypeOK, CancelC2hWork, tx, timers, air, rx, worker
<1>2. NothingForgotten'
  BY DEF ReportInv, TypeOK, NothingForgotten, Walk, LateReport, CancelC2hWork, tx, timers, air,
         rx, worker
<1>3. LateReport'
  BY DEF ReportInv, TypeOK, Walk, LateReport, NothingForgotten, CancelC2hWork, tx, timers, air,
         rx, worker
<1>4. WaitsOrSettled' /\ OwnReport' /\ Sent' /\ Truthful' /\ Walk'
  BY DEF ReportInv, WaitsOrSettled, OwnReport, Sent, Truthful, Walk, InQueue, CancelC2hWork,
         tx, timers, air, rx, worker
<1> QED
  BY <1>1, <1>2, <1>3, <1>4 DEF ReportInv

LEMMA CoreStartInv ==
  ASSUME ReportInv, CoreStart
  PROVE  ReportInv'
<1>1. TypeOK'
  BY DEF ReportInv, TypeOK, CoreStart, tx, timers, air, rx, worker
<1>2. LateReport'
  BY DEF ReportInv, TypeOK, Walk, LateReport, NothingForgotten, CoreStart, tx, timers, air, rx,
         worker
<1>3. WaitsOrSettled' /\ NothingForgotten' /\ OwnReport' /\ Sent' /\ Truthful' /\ Walk'
  BY DEF ReportInv, WaitsOrSettled, NothingForgotten, OwnReport, Sent, Truthful, Walk, InQueue,
         CoreStart, tx, timers, air, rx, worker
<1> QED
  BY <1>1, <1>2, <1>3 DEF ReportInv

----------------------------------------------------------------------------
LEMMA ReportInitInv == ReportInit => ReportInv
<1>1. ReportInit => TypeOK
  <2>1. ReportInit => /\ sn \in 0..N /\ stops \in 0..MAX_STOPS /\ reported \subseteq Frames
                      /\ queue \in Seq(Frames) /\ c2h_queue \in Seq(Reports)
    BY TxReportAssumption DEF ReportInit
  <2>2. ReportInit =>
          /\ transfer \in [Frames -> {"none", "active", "ok", "error", "done"}]
          /\ on_air \in [Frames -> {"none", "ack", "noack"}]
          /\ outcome \in [Frames -> {"none", "ack", "noack", "free"}]
    BY DEF ReportInit
  <2> QED
    BY <2>1, <2>2 DEF ReportInit, TypeOK, Reports
<1>2. ReportInit => WaitsOrSettled /\ NothingForgotten /\ OwnReport
  BY DEF ReportInit, WaitsOrSettled, NothingForgotten, OwnReport, InQueue
<1>3. ReportInit => Sent /\ Truthful /\ Walk /\ LateReport
  BY DEF ReportInit, Sent, Truthful, Walk, LateReport, InQueue
<1> QED
  BY <1>1, <1>2, <1>3 DEF ReportInv

LEMMA ReportStep == ReportInv /\ [ReportNext]_report_vars => ReportInv'
<1> SUFFICES ASSUME ReportInv, [ReportNext]_report_vars PROVE ReportInv'
  OBVIOUS
<1>1. CASE ReportEnable
  BY <1>1, ReportEnableInv
<1>2. ASSUME NEW f \in Frames, NEW st \in {"ok", "error"},
             NEW ack \in {"none", "ack", "noack"}, Transfer(f, st, ack)
      PROVE  ReportInv'
  BY <1>2, TransferInv
<1>3. ASSUME NEW f \in Frames, CompleteError(f) \/ ReportEnqueue(f) PROVE ReportInv'
  BY <1>3, CompleteErrorInv, ReportEnqueueInv
<1>4. CASE ModTimer \/ Timer
  BY <1>4, ModTimerInv, TimerFiresInv, TimerPurgeInv DEF Timer
<1>5. CASE Rx
  BY <1>5, RxQueueWorkInv, RxC2hInv DEF Rx
<1>6. CASE Work
  BY <1>6, WorkStartInv, WorkNextInv, WorkUnlinkInv, WorkHandleInv DEF Work
<1>7. CASE CoreStop \/ CancelC2hWork \/ CoreStart
  BY <1>7, CoreStopInv, CancelC2hWorkInv, CoreStartInv
<1>8. CASE UNCHANGED report_vars
  <2>1. UNCHANGED <<sn, transfer, queue, enqueuer, armed, timer, on_air, reported, c2h_queue,
                    kick, c2h_work, wpc, last, c2h, core, outcome, stops>>
    BY <1>8 DEF report_vars, tx, timers, air, rx, worker
  <2> QED
    BY <2>1 DEF ReportInv, TypeOK, WaitsOrSettled, NothingForgotten, OwnReport, Sent, Truthful,
                Walk, LateReport, InQueue
<1> QED
  BY <1>1, <1>2, <1>3, <1>4, <1>5, <1>6, <1>7, <1>8 DEF ReportNext

(* Whatever the order of completions, reports, the purge timer and stops   *)
(* of the core, a frame that waits for its report is settled once, by its  *)
(* own report or by the purge, is always covered by the timer, and no      *)
(* report is left behind by the work (tx.c:236, fw.c:356).                 *)
THEOREM ReportsSettleOnce == ReportSpec => []ReportsSettle
<1>1. ReportInv => ReportsSettle
  BY DEF ReportInv, ReportsSettle
<1> QED
  BY ReportInitInv, ReportStep, <1>1, PTL DEF ReportSpec

----------------------------------------------------------------------------
(* Probe and disconnect.                                                  *)

Stages ==
  [alloc_hw |-> {}, alloc_rx_bufs |-> {"hw"}, core_init |-> {"hw", "rx_urbs"},
   intf_init |-> {"hw", "rx_urbs", "tx_wq"},
   init_tx |-> {"hw", "rx_urbs", "tx_wq", "usb_data"},
   init_rx |-> {"hw", "rx_urbs", "tx_wq", "usb_data", "txwq"},
   chip_info_setup |-> Everything \ {"registered"},
   switch_mode |-> Everything \ {"registered"},
   register_hw |-> Everything \ {"registered"}, setup_rx |-> Everything]

(* The labels of a failed probe, ...                                       *)
Failing ==
  [err_destroy_rxwq |-> Everything \ {"registered"},
   err_destroy_txwq |-> {"hw", "rx_urbs", "tx_wq", "usb_data", "txwq"},
   err_destroy_usb |-> {"hw", "rx_urbs", "tx_wq", "usb_data"},
   err_deinit_core |-> {"hw", "rx_urbs", "tx_wq"}, err_free_rx_bufs |-> {"hw", "rx_urbs"},
   err_release_hw |-> {"hw"}, failed |-> {}]

(* ... of one that asked for the mode switch, and the disconnect           *)
Leaving ==
  [err_destroy_rxwq_0 |-> Everything \ {"registered"},
   err_destroy_txwq_0 |-> {"hw", "rx_urbs", "tx_wq", "usb_data", "txwq"},
   err_destroy_usb_0 |-> {"hw", "rx_urbs", "tx_wq", "usb_data"},
   err_deinit_core_0 |-> {"hw", "rx_urbs", "tx_wq"},
   err_free_rx_bufs_0 |-> {"hw", "rx_urbs"}, err_release_hw_0 |-> {"hw"},
   cancel_rx |-> Everything, unregister |-> Everything,
   deinit_tx |-> Everything \ {"registered"},
   deinit_rx |-> {"hw", "rx_urbs", "tx_wq", "usb_data", "rxwq"},
   free_rx_bufs |-> {"hw", "rx_urbs", "tx_wq", "usb_data"},
   intf_deinit |-> {"hw", "tx_wq", "usb_data"}, core_deinit |-> {"hw", "tx_wq"},
   free_hw |-> {"hw"}, gone |-> {}, unplugged |-> {}]

Held ==
  \/ probe_pc \in DOMAIN Stages /\ held = Stages[probe_pc] /\ ~unregistered
  \/ /\ probe_pc \in DOMAIN Failing
     /\ held = Failing[probe_pc] \cup (IF unregistered THEN {"registered"} ELSE {})
  \/ probe_pc \in DOMAIN Leaving /\ held = Leaving[probe_pc] /\ ~unregistered
  \/ probe_pc = "bound" /\ held = (IF intfdata THEN Everything ELSE {}) /\ ~unregistered

(* What others go by agrees with what is held.                             *)
Agrees ==
  /\ intfdata \in BOOLEAN /\ (intfdata <=> "usb_data" \in held)
  /\ file = "pending" => "tx_wq" \in held
  /\ rx_running => (probe_pc = "bound" /\ intfdata) \/ probe_pc = "cancel_rx"

(* Each attempt to switch leaves the flag set, or was a transfer that failed.*)
Switching ==
  /\ probe_errors \in Nat /\ switches \in Nat /\ hci_opt \in BOOLEAN
  /\ switches <= 1 + probe_errors /\ (~hci_opt => switches <= probe_errors)

ProbeInv == unregistered \in BOOLEAN /\ misused = FALSE /\ Held /\ Agrees /\ Switching

----------------------------------------------------------------------------
(* A stage that fits between the tables: what it acquires is what the next *)
(* one holds more, and its label gives back what it found.                 *)
LEMMA StageHeld ==
  ASSUME ProbeInv, NEW s \in DOMAIN Stages, NEW t \in DOMAIN Stages,
         s \notin DOMAIN Failing \cup DOMAIN Leaving \cup {"bound"},
         NEW label \in DOMAIN Failing, NEW R, Stage(s, R, t, label),
         Stages[t] = Stages[s] \cup R, Failing[label] = Stages[s]
  PROVE  Held' /\ misused' = FALSE /\ unregistered' = FALSE
<1>1. held = Stages[s] /\ ~unregistered /\ unregistered' = unregistered
  BY DEF ProbeInv, Held, Stage
<1>2. CASE probe_pc' = t /\ Acquire(R)
  BY <1>1, <1>2 DEF ProbeInv, Held, Acquire
<1>3. CASE probe_pc' = label /\ UNCHANGED <<held, misused>>
  BY <1>1, <1>3 DEF ProbeInv, Held
<1> QED
  BY <1>2, <1>3 DEF Stage

LEMMA AllocHwInv ==
  ASSUME ProbeInv, AllocHw
  PROVE  ProbeInv'
<1>1. /\ "alloc_hw" \in DOMAIN Stages /\ "alloc_rx_bufs" \in DOMAIN Stages
      /\ "failed" \in DOMAIN Failing
      /\ Stages["alloc_rx_bufs"] = Stages["alloc_hw"] \cup {"hw"}
      /\ Failing["failed"] = Stages["alloc_hw"]
      /\ "alloc_hw" \notin DOMAIN Failing \cup DOMAIN Leaving \cup {"bound"}
  BY DEF Stages, Failing, Leaving, Everything
<1>2. Stage("alloc_hw", {"hw"}, "alloc_rx_bufs", "failed")
  BY DEF AllocHw
<1>3. Held' /\ misused' = FALSE /\ unregistered' = FALSE
  BY <1>1, <1>2, StageHeld
<1>4. held = Stages["alloc_hw"]
  BY <1>1, <1>2 DEF ProbeInv, Held, Stage
<1>5. Agrees'
  BY <1>2, <1>4 DEF ProbeInv, Agrees, AllocHw, Stage, Acquire, Stages
<1>6. Switching'
  BY <1>2 DEF ProbeInv, Switching, Stage, bus
<1> QED
  BY <1>3, <1>5, <1>6 DEF ProbeInv

LEMMA AllocRxBufsInv ==
  ASSUME ProbeInv, AllocRxBufs
  PROVE  ProbeInv'
<1>1. /\ "alloc_rx_bufs" \in DOMAIN Stages /\ "core_init" \in DOMAIN Stages
      /\ "err_release_hw" \in DOMAIN Failing
      /\ Stages["core_init"] = Stages["alloc_rx_bufs"] \cup {"rx_urbs"}
      /\ Failing["err_release_hw"] = Stages["alloc_rx_bufs"]
      /\ "alloc_rx_bufs" \notin DOMAIN Failing \cup DOMAIN Leaving \cup {"bound"}
  BY DEF Stages, Failing, Leaving, Everything
<1>2. Stage("alloc_rx_bufs", {"rx_urbs"}, "core_init", "err_release_hw")
  BY DEF AllocRxBufs
<1>3. Held' /\ misused' = FALSE /\ unregistered' = FALSE
  BY <1>1, <1>2, StageHeld
<1>4. held = Stages["alloc_rx_bufs"]
  BY <1>1, <1>2 DEF ProbeInv, Held, Stage
<1>5. Agrees'
  BY <1>2, <1>4 DEF ProbeInv, Agrees, AllocRxBufs, Stage, Acquire, Stages
<1>6. Switching'
  BY <1>2 DEF ProbeInv, Switching, Stage, bus
<1> QED
  BY <1>3, <1>5, <1>6 DEF ProbeInv

LEMMA CoreInitInv ==
  ASSUME ProbeInv, CoreInit
  PROVE  ProbeInv'
<1>1. /\ "core_init" \in DOMAIN Stages /\ "intf_init" \in DOMAIN Stages
      /\ "err_free_rx_bufs" \in DOMAIN Failing
      /\ Stages["intf_init"] = Stages["core_init"] \cup {"tx_wq"}
      /\ Failing["err_free_rx_bufs"] = Stages["core_init"]
      /\ "core_init" \notin DOMAIN Failing \cup DOMAIN Leaving \cup {"bound"}
  BY DEF Stages, Failing, Leaving, Everything
<1>2. Stage("core_init", {"tx_wq"}, "intf_init", "err_free_rx_bufs")
  BY DEF CoreInit
<1>3. Held' /\ misused' = FALSE /\ unregistered' = FALSE
  BY <1>1, <1>2, StageHeld
<1>4. held = Stages["core_init"]
  BY <1>1, <1>2 DEF ProbeInv, Held, Stage
<1>5. Agrees'
  BY <1>2, <1>4 DEF ProbeInv, Agrees, CoreInit, Stage, Acquire, Stages
<1>6. Switching'
  BY <1>2 DEF ProbeInv, Switching, Stage, bus
<1> QED
  BY <1>3, <1>5, <1>6 DEF ProbeInv

LEMMA IntfInitInv ==
  ASSUME ProbeInv, IntfInit
  PROVE  ProbeInv'
<1>1. /\ "intf_init" \in DOMAIN Stages /\ "init_tx" \in DOMAIN Stages
      /\ "err_deinit_core" \in DOMAIN Failing
      /\ Stages["init_tx"] = Stages["intf_init"] \cup {"usb_data"}
      /\ Failing["err_deinit_core"] = Stages["intf_init"]
      /\ "intf_init" \notin DOMAIN Failing \cup DOMAIN Leaving \cup {"bound"}
  BY DEF Stages, Failing, Leaving, Everything
<1>2. Stage("intf_init", {"usb_data"}, "init_tx", "err_deinit_core")
  BY DEF IntfInit
<1>3. Held' /\ misused' = FALSE /\ unregistered' = FALSE
  BY <1>1, <1>2, StageHeld
<1>4. held = Stages["intf_init"]
  BY <1>1, <1>2 DEF ProbeInv, Held, Stage
<1>5. Agrees'
  <2>1. CASE probe_pc' = "init_tx" /\ Acquire({"usb_data"})
    <3>1. intfdata' = TRUE
      BY <2>1 DEF IntfInit
    <3> QED
      BY <1>2, <1>4, <2>1, <3>1 DEF ProbeInv, Agrees, IntfInit, Stage, Acquire
  <2>2. CASE probe_pc' = "err_deinit_core" /\ UNCHANGED <<held, misused>>
    <3>1. intfdata' = FALSE
      BY <2>2 DEF IntfInit
    <3> QED
      BY <1>2, <1>4, <2>2, <3>1 DEF ProbeInv, Agrees, IntfInit, Stage, Stages
  <2> QED
    BY <1>2, <2>1, <2>2 DEF Stage
<1>6. Switching'
  BY <1>2 DEF ProbeInv, Switching, Stage, bus
<1> QED
  BY <1>3, <1>5, <1>6 DEF ProbeInv

LEMMA InitTxInv ==
  ASSUME ProbeInv, InitTx
  PROVE  ProbeInv'
<1>1. /\ "init_tx" \in DOMAIN Stages /\ "init_rx" \in DOMAIN Stages
      /\ "err_destroy_usb" \in DOMAIN Failing
      /\ Stages["init_rx"] = Stages["init_tx"] \cup {"txwq"}
      /\ Failing["err_destroy_usb"] = Stages["init_tx"]
      /\ "init_tx" \notin DOMAIN Failing \cup DOMAIN Leaving \cup {"bound"}
  BY DEF Stages, Failing, Leaving, Everything
<1>2. Stage("init_tx", {"txwq"}, "init_rx", "err_destroy_usb")
  BY DEF InitTx
<1>3. Held' /\ misused' = FALSE /\ unregistered' = FALSE
  BY <1>1, <1>2, StageHeld
<1>4. held = Stages["init_tx"]
  BY <1>1, <1>2 DEF ProbeInv, Held, Stage
<1>5. Agrees'
  BY <1>2, <1>4 DEF ProbeInv, Agrees, InitTx, Stage, Acquire, Stages
<1>6. Switching'
  BY <1>2 DEF ProbeInv, Switching, Stage, bus
<1> QED
  BY <1>3, <1>5, <1>6 DEF ProbeInv

LEMMA InitRxInv ==
  ASSUME ProbeInv, InitRx
  PROVE  ProbeInv'
<1>1. /\ "init_rx" \in DOMAIN Stages /\ "chip_info_setup" \in DOMAIN Stages
      /\ "err_destroy_txwq" \in DOMAIN Failing
      /\ Stages["chip_info_setup"] = Stages["init_rx"] \cup {"rxwq"}
      /\ Failing["err_destroy_txwq"] = Stages["init_rx"]
      /\ "init_rx" \notin DOMAIN Failing \cup DOMAIN Leaving \cup {"bound"}
  BY DEF Stages, Failing, Leaving, Everything
<1>2. Stage("init_rx", {"rxwq"}, "chip_info_setup", "err_destroy_txwq")
  BY DEF InitRx
<1>3. Held' /\ misused' = FALSE /\ unregistered' = FALSE
  BY <1>1, <1>2, StageHeld
<1>4. held = Stages["init_rx"]
  BY <1>1, <1>2 DEF ProbeInv, Held, Stage
<1>5. Agrees'
  BY <1>2, <1>4 DEF ProbeInv, Agrees, InitRx, Stage, Acquire, Stages
<1>6. Switching'
  BY <1>2 DEF ProbeInv, Switching, Stage, bus
<1> QED
  BY <1>3, <1>5, <1>6 DEF ProbeInv

LEMMA ChipInfoSetupInv ==
  ASSUME ProbeInv, ChipInfoSetup
  PROVE  ProbeInv'
<1>1. /\ probe_pc = "chip_info_setup" /\ held = Stages["chip_info_setup"] /\ ~unregistered
  BY DEF ProbeInv, Held, ChipInfoSetup, Failing, Leaving
<1>2. Held' /\ misused' = FALSE /\ unregistered' \in BOOLEAN
  BY <1>1 DEF ProbeInv, Held, ChipInfoSetup, Stages, Failing, Leaving, Everything, history, Agrees
<1>3. Agrees'
  BY <1>1 DEF ProbeInv, Agrees, ChipInfoSetup, Stages, Everything
<1>4. Switching'
  BY DEF ProbeInv, Switching, ChipInfoSetup, bus
<1> QED
  BY <1>2, <1>3, <1>4 DEF ProbeInv

LEMMA NoSwitchInv ==
  ASSUME ProbeInv, NoSwitch
  PROVE  ProbeInv'
<1>1. /\ probe_pc = "switch_mode" /\ held = Stages["switch_mode"] /\ ~unregistered
  BY DEF ProbeInv, Held, NoSwitch, Failing, Leaving
<1>2. Held' /\ misused' = FALSE /\ unregistered' \in BOOLEAN
  BY <1>1 DEF ProbeInv, Held, NoSwitch, Stages, Failing, Leaving, Everything, history, Agrees
<1>3. Agrees'
  BY <1>1 DEF ProbeInv, Agrees, NoSwitch, Stages, Everything
<1>4. Switching'
  BY DEF ProbeInv, Switching, NoSwitch, bus
<1> QED
  BY <1>2, <1>3, <1>4 DEF ProbeInv

LEMMA SwitchModeInv ==
  ASSUME ProbeInv, SwitchMode
  PROVE  ProbeInv'
<1>1. /\ probe_pc = "switch_mode" /\ held = Stages["switch_mode"] /\ ~unregistered
  BY DEF ProbeInv, Held, SwitchMode, Failing, Leaving
<1>2. Held' /\ misused' = FALSE /\ unregistered' \in BOOLEAN
  BY <1>1 DEF ProbeInv, Held, SwitchMode, Stages, Leaving, history
<1>3. Agrees'
  BY <1>1 DEF ProbeInv, Agrees, SwitchMode, Stages, Everything
<1>4. Switching'
  <2>1. CASE WantsSwitch(hci_opt) /\ AccessOk /\ hci_opt' = TRUE
    <3>1. switches <= probe_errors /\ probe_errors' = probe_errors
      BY <2>1 DEF ProbeInv, Switching, WantsSwitch, AccessOk
    <3>2. switches' = switches \/ switches' = switches + 1
      BY DEF SwitchMode
    <3> QED
      BY <2>1, <3>1, <3>2 DEF ProbeInv, Switching
  <2>2. CASE AccessFails /\ UNCHANGED hci_opt
    <3>1. CASE attached
      <4>1. probe_errors' = probe_errors + 1 /\ switches' = switches + 1
        BY <2>2, <3>1 DEF AccessFails, SwitchMode
      <4> QED
        BY <2>2, <4>1 DEF ProbeInv, Switching
    <3>2. CASE ~attached
      <4>1. /\ switches' = switches
            /\ probe_errors' = probe_errors \/ probe_errors' = probe_errors + 1
        BY <2>2, <3>2 DEF AccessFails, SwitchMode
      <4>2. /\ probe_errors \in Nat /\ switches \in Nat
            /\ switches <= 1 + probe_errors /\ (~hci_opt => switches <= probe_errors)
        BY DEF ProbeInv, Switching
      <4>3. CASE probe_errors' = probe_errors
        BY <2>2, <4>1, <4>2, <4>3 DEF ProbeInv, Switching
      <4>4. CASE probe_errors' = probe_errors + 1
        BY <2>2, <4>1, <4>2, <4>4 DEF ProbeInv, Switching
      <4> QED
        BY <4>1, <4>3, <4>4
    <3> QED
      BY <3>1, <3>2
  <2> QED
    BY <2>1, <2>2 DEF SwitchMode
<1> QED
  BY <1>2, <1>3, <1>4 DEF ProbeInv

LEMMA RegisterHwInv ==
  ASSUME ProbeInv, RegisterHw
  PROVE  ProbeInv'
<1>1. /\ probe_pc = "register_hw" /\ held = Stages["register_hw"] /\ ~unregistered
  BY DEF ProbeInv, Held, RegisterHw, Failing, Leaving
<1>2. Held' /\ misused' = FALSE /\ unregistered' \in BOOLEAN
  <2>1. Stages["setup_rx"] = held \cup {"registered"} /\ "setup_rx" \in DOMAIN Stages
    BY <1>1 DEF Stages, Everything
  <2>2. Failing["err_destroy_rxwq"] = held /\ "err_destroy_rxwq" \in DOMAIN Failing
    BY <1>1 DEF Stages, Failing
  <2>3. CASE Acquire({"registered"}) /\ probe_pc' = "setup_rx" /\ UNCHANGED unregistered
    BY <1>1, <2>1, <2>3 DEF ProbeInv, Held, Acquire
  <2>4. CASE UNCHANGED <<held, history>> /\ probe_pc' = "err_destroy_rxwq"
    BY <1>1, <2>2, <2>4 DEF ProbeInv, Held, history
  <2>5. CASE /\ Acquire({"registered"}) /\ probe_pc' = "err_destroy_rxwq"
             /\ unregistered' = TRUE
    BY <1>1, <2>2, <2>5 DEF ProbeInv, Held, Acquire
  <2> QED
    BY <2>3, <2>4, <2>5 DEF RegisterHw
<1>3. Agrees'
  BY <1>1 DEF ProbeInv, Agrees, RegisterHw, Acquire, Stages, Everything
<1>4. Switching'
  BY DEF ProbeInv, Switching, RegisterHw, bus
<1> QED
  BY <1>2, <1>3, <1>4 DEF ProbeInv

LEMMA SetupRxInv ==
  ASSUME ProbeInv, SetupRx
  PROVE  ProbeInv'
<1>1. /\ probe_pc = "setup_rx" /\ held = Stages["setup_rx"] /\ ~unregistered
  BY DEF ProbeInv, Held, SetupRx, Failing, Leaving
<1>2. Held' /\ misused' = FALSE /\ unregistered' \in BOOLEAN
  BY <1>1 DEF ProbeInv, Held, SetupRx, Stages, Failing, Leaving, Everything, history, Agrees
<1>3. Agrees'
  BY <1>1 DEF ProbeInv, Agrees, SetupRx, Stages, Everything
<1>4. Switching'
  BY DEF ProbeInv, Switching, SetupRx, bus
<1> QED
  BY <1>2, <1>3, <1>4 DEF ProbeInv

----------------------------------------------------------------------------
(* The table of the code fits those of what is held.                       *)
LEMMA UnwindFailing ==
  ASSUME NEW p \in DOMAIN Failing \ {"failed"}
  PROVE  /\ p \in DOMAIN Unwind /\ Unwind[p][1] \subseteq Failing[p]
         /\ Unwind[p][2] \in DOMAIN Failing
         /\ Failing[Unwind[p][2]] = Failing[p] \ Unwind[p][1]
         /\ "registered" \notin Unwind[p][1]
<1>1. CASE p = "err_destroy_rxwq"
  BY <1>1 DEF Unwind, Failing, Everything
<1>2. CASE p = "err_destroy_txwq"
  BY <1>2 DEF Unwind, Failing, Everything
<1>3. CASE p = "err_destroy_usb"
  BY <1>3 DEF Unwind, Failing, Everything
<1>4. CASE p = "err_deinit_core"
  BY <1>4 DEF Unwind, Failing, Everything
<1>5. CASE p = "err_free_rx_bufs"
  BY <1>5 DEF Unwind, Failing, Everything
<1>6. CASE p = "err_release_hw"
  BY <1>6 DEF Unwind, Failing, Everything
<1> QED
  BY <1>1, <1>2, <1>3, <1>4, <1>5, <1>6 DEF Failing

LEMMA UnwindLeaving ==
  ASSUME NEW p \in DOMAIN Leaving \ {"gone", "unplugged", "err_release_hw_0"}
  PROVE  /\ p \in DOMAIN Unwind /\ Unwind[p][1] \subseteq Leaving[p]
         /\ Unwind[p][2] \in DOMAIN Leaving
         /\ Leaving[Unwind[p][2]] = Leaving[p] \ Unwind[p][1]
<1>1. CASE p = "err_destroy_rxwq_0"
  BY <1>1 DEF Unwind, Leaving, Everything
<1>2. CASE p = "err_destroy_txwq_0"
  BY <1>2 DEF Unwind, Leaving, Everything
<1>3. CASE p = "err_destroy_usb_0"
  BY <1>3 DEF Unwind, Leaving, Everything
<1>4. CASE p = "err_deinit_core_0"
  BY <1>4 DEF Unwind, Leaving, Everything
<1>5. CASE p = "err_free_rx_bufs_0"
  BY <1>5 DEF Unwind, Leaving, Everything
<1>6. CASE p = "cancel_rx"
  BY <1>6 DEF Unwind, Leaving, Everything
<1>7. CASE p = "unregister"
  BY <1>7 DEF Unwind, Leaving, Everything
<1>8. CASE p = "deinit_tx"
  BY <1>8 DEF Unwind, Leaving, Everything
<1>9. CASE p = "deinit_rx"
  BY <1>9 DEF Unwind, Leaving, Everything
<1>10. CASE p = "free_rx_bufs"
  BY <1>10 DEF Unwind, Leaving, Everything
<1>11. CASE p = "intf_deinit"
  BY <1>11 DEF Unwind, Leaving, Everything
<1>12. CASE p = "core_deinit"
  BY <1>12 DEF Unwind, Leaving, Everything
<1>13. CASE p = "free_hw"
  BY <1>13 DEF Unwind, Leaving, Everything
<1> QED
  BY <1>1, <1>2, <1>3, <1>4, <1>5, <1>6,
     <1>7, <1>8, <1>9, <1>10, <1>11, <1>12, <1>13 DEF Leaving

LEMMA GiveBackInv ==
  ASSUME ProbeInv, GiveBack
  PROVE  ProbeInv'
<1> DEFINE R == Unwind[probe_pc][1]
           t == Unwind[probe_pc][2]
<1>1. /\ probe_pc \in DOMAIN Unwind /\ probe_pc' = t
      /\ held' = held \ R /\ misused' = (misused \/ ~(R \subseteq held))
      /\ unregistered' = unregistered
  BY DEF GiveBack, Release
<1>2. Held' /\ misused' = FALSE
  <2>1. CASE probe_pc \in DOMAIN Failing
    <3>1. probe_pc # "failed"
      BY <1>1 DEF Unwind
    <3>2. /\ R \subseteq Failing[probe_pc] /\ t \in DOMAIN Failing
          /\ Failing[t] = Failing[probe_pc] \ R /\ "registered" \notin R
      BY <2>1, <3>1, UnwindFailing
    <3>3. held = Failing[probe_pc] \cup (IF unregistered THEN {"registered"} ELSE {})
      BY <2>1 DEF ProbeInv, Held, Stages, Failing, Leaving
    <3> HIDE DEF R, t
    <3> QED
      BY <1>1, <3>2, <3>3 DEF ProbeInv, Held
  <2>2. CASE probe_pc \in DOMAIN Leaving \ {"err_release_hw_0"}
    <3>1. probe_pc \notin {"gone", "unplugged"}
      BY <1>1 DEF Unwind
    <3>2. /\ R \subseteq Leaving[probe_pc] /\ t \in DOMAIN Leaving
          /\ Leaving[t] = Leaving[probe_pc] \ R
      BY <2>2, <3>1, UnwindLeaving
    <3>3. held = Leaving[probe_pc] /\ ~unregistered
      BY <2>2 DEF ProbeInv, Held, Stages, Failing, Leaving
    <3> HIDE DEF R, t
    <3> QED
      BY <1>1, <3>2, <3>3 DEF ProbeInv, Held
  <2>3. CASE probe_pc = "err_release_hw_0"
    <3>1. R = {"hw"} /\ t = "bound"
      BY <2>3 DEF Unwind
    <3>2. held = {"hw"} /\ ~unregistered
      BY <2>3 DEF ProbeInv, Held, Stages, Failing, Leaving
    <3>3. intfdata = FALSE
      BY <3>2 DEF ProbeInv, Agrees
    <3>4. intfdata' = FALSE
      BY <3>3 DEF GiveBack
    <3> HIDE DEF R, t
    <3> QED
      BY <1>1, <3>1, <3>2, <3>4 DEF ProbeInv, Held
  <2> QED
    BY <1>1, <2>1, <2>2, <2>3 DEF Unwind, Failing, Leaving
<1>3. Agrees'
  <2>1. "usb_data" \in R <=> probe_pc \in Intf
    BY <1>1 DEF Unwind, Intf
  <2>2. "tx_wq" \in R <=> probe_pc \in CoreDeinit
    BY <1>1 DEF Unwind, CoreDeinit
  <2>3. probe_pc # "bound"
    BY <1>1 DEF Unwind
  <2> HIDE DEF R
  <2>4. /\ intfdata' \in BOOLEAN /\ (intfdata' <=> "usb_data" \in held')
        /\ file' = "pending" => "tx_wq" \in held'
    BY <1>1, <2>1, <2>2 DEF ProbeInv, Agrees, GiveBack
  <2>5. ~rx_running'
    BY <2>3 DEF ProbeInv, Agrees, GiveBack
  <2> QED
    BY <2>4, <2>5 DEF Agrees
<1>4. Switching'
  BY DEF ProbeInv, Switching, GiveBack, bus
<1> QED
  BY <1>1, <1>2, <1>3, <1>4 DEF ProbeInv

----------------------------------------------------------------------------
LEMMA BusInv ==
  ASSUME ProbeInv, Plug \/ Unplug \/ FileArrives \/ Disconnect \/ ReEnumerate
  PROVE  ProbeInv'
<1>1. CASE Plug
  <2>1. held = {} /\ ~unregistered /\ Stages["alloc_hw"] = {} /\ "alloc_hw" \in DOMAIN Stages
    BY <1>1 DEF ProbeInv, Held, Plug, Stages, Failing, Leaving
  <2>2. Held' /\ Agrees'
    BY <1>1, <2>1 DEF ProbeInv, Held, Agrees, Plug, history
  <2>3. Switching'
    <3>1. probe_errors' = 0 /\ switches' = 0 /\ hci_opt' = FALSE
      BY <1>1 DEF Plug
    <3>2. probe_errors' \in Nat /\ switches' \in Nat /\ hci_opt' \in BOOLEAN
      BY <3>1
    <3>3. switches' <= 1 + probe_errors' /\ switches' <= probe_errors'
      BY <3>1
    <3> QED
      BY <3>2, <3>3 DEF Switching
  <2> QED
    BY <1>1, <2>2, <2>3 DEF ProbeInv, Plug, history
<1>2. CASE Unplug
  BY <1>2 DEF ProbeInv, Held, Agrees, Switching, Unplug, history
<1>3. CASE FileArrives
  BY <1>3 DEF ProbeInv, Held, Agrees, Switching, FileArrives, history, bus
<1>4. CASE Disconnect
  <2>1. held = (IF intfdata THEN Everything ELSE {}) /\ ~unregistered
    BY <1>4 DEF ProbeInv, Held, Disconnect, Stages, Failing, Leaving
  <2>2. /\ "cancel_rx" \in DOMAIN Leaving /\ Leaving["cancel_rx"] = Everything
        /\ "gone" \in DOMAIN Leaving /\ Leaving["gone"] = {}
    BY DEF Leaving
  <2>3. Held' /\ Agrees' /\ Switching'
    BY <1>4, <2>1, <2>2 DEF ProbeInv, Held, Agrees, Switching, Disconnect, history, bus
  <2> QED
    BY <1>4, <2>3 DEF ProbeInv, Disconnect, history
<1>5. CASE ReEnumerate
  <2>1. held \subseteq {"registered"}
    BY <1>5 DEF ProbeInv, Held, ReEnumerate, Stages, Failing, Leaving
  <2>2. /\ "alloc_hw" \in DOMAIN Stages /\ Stages["alloc_hw"] = {}
        /\ "unplugged" \in DOMAIN Leaving /\ Leaving["unplugged"] = {}
    BY DEF Stages, Leaving
  <2>3. Held'
    BY <1>5, <2>2 DEF Held, ReEnumerate
  <2>4. Agrees' /\ Switching'
    BY <1>5, <2>1 DEF ProbeInv, Agrees, Switching, ReEnumerate
  <2> QED
    BY <1>5, <2>3, <2>4 DEF ProbeInv, ReEnumerate
<1> QED
  BY <1>1, <1>2, <1>3, <1>4, <1>5

LEMMA ProbeInitInv == ProbeInit => ProbeInv
<1>1. "unplugged" \in DOMAIN Leaving /\ Leaving["unplugged"] = {}
  BY DEF Leaving
<1>2. ProbeInit => Held /\ Agrees
  BY <1>1 DEF ProbeInit, Held, Agrees
<1>3. ProbeInit => Switching
  <2> SUFFICES ASSUME ProbeInit PROVE Switching
    OBVIOUS
  <2>1. probe_errors = 0 /\ switches = 0 /\ hci_opt = FALSE
    BY DEF ProbeInit
  <2>2. probe_errors \in Nat /\ switches \in Nat /\ hci_opt \in BOOLEAN
    BY <2>1
  <2>3. switches <= 1 + probe_errors /\ switches <= probe_errors
    BY <2>1
  <2> QED
    BY <2>2, <2>3 DEF Switching
<1> QED
  BY <1>2, <1>3 DEF ProbeInit, ProbeInv

LEMMA ProbeStep == ProbeInv /\ [ProbeNext]_probe_vars => ProbeInv'
<1> SUFFICES ASSUME ProbeInv, [ProbeNext]_probe_vars PROVE ProbeInv'
  OBVIOUS
<1>1. CASE Driver
  BY <1>1, AllocHwInv, AllocRxBufsInv, CoreInitInv, IntfInitInv, InitTxInv, InitRxInv,
     ChipInfoSetupInv, NoSwitchInv, SwitchModeInv, RegisterHwInv, SetupRxInv, GiveBackInv
     DEF Driver
<1>2. CASE Plug \/ Unplug \/ FileArrives \/ Disconnect \/ ReEnumerate
  BY <1>2, BusInv
<1>3. CASE UNCHANGED probe_vars
  BY <1>3 DEF probe_vars, ProbeInv, Held, Agrees, Switching
<1> QED
  BY <1>1, <1>2, <1>3 DEF ProbeNext

(* What the property asks of the places where nothing is in progress, of   *)
(* the file and of the URBs, it asks of what the tables say is held.       *)
LEMMA ProbeInvUnwinds == ProbeInv => ProbeUnwinds
<1> SUFFICES ASSUME ProbeInv PROVE ProbeUnwinds
  OBVIOUS
<1>1. probe_pc \in Between /\ ~unregistered =>
        held = IF probe_pc = "bound" /\ intfdata THEN Everything ELSE {}
  BY DEF ProbeInv, Held, Between, Stages, Failing, Leaving
<1>2. "tx_wq" \in held => "hw" \in held
  BY DEF ProbeInv, Held, Stages, Failing, Leaving, Everything
<1>3. rx_running => held = Everything
  BY DEF ProbeInv, Held, Agrees, Stages, Failing, Leaving
<1>4. switches <= 1 + probe_errors
  BY DEF ProbeInv, Switching
<1> QED
  BY <1>1, <1>2, <1>3, <1>4 DEF ProbeInv, Agrees, ProbeUnwinds, Everything

(* Whatever fails, and whenever the device goes away, everything acquired  *)
(* is given back once, nothing arrives for a device that has been freed,   *)
(* and the mode switch is not repeated unless a transfer failed            *)
(* (usb.c:1467, usb.c:1310).                                               *)
THEOREM EverythingGivenBack == ProbeSpec => []ProbeUnwinds
<1> QED
  BY ProbeInitInv, ProbeStep, ProbeInvUnwinds, PTL DEF ProbeSpec

============================================================================
