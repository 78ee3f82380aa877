---------------------------- MODULE UsbTxProofs ----------------------------
(***************************************************************************)
(* Proofs about UsbTx, for any number of frames and endpoints, when the    *)
(* queues are purged after the work queue is drained (kernels from 6.13).  *)
(***************************************************************************)
EXTENDS UsbTx, SequenceTheorems, FiniteSetTheorems, TLAPS

Outcomes == {"none", "ack", "noack", "free"}
Txcb == [frames : Seq(Frames), st : {"active", "ok", "error"}]
Drained == {"kill", "purge", "core_deinit", "done"}

Types ==
  /\ next \in 1..(N + 1) /\ unkicked \subseteq Frames
  /\ core_work \in BOOLEAN /\ tx_work \in BOOLEAN /\ ep_enabled \in BOOLEAN
  /\ tx_queue \in [Queues -> Seq(Frames)]
  /\ hpc \in {"idle", "loop", "dequeue", "more", "queue"}
  /\ hq \in Queues /\ hlimit \in Nat
  /\ head \in Frames \union {AGG, NULL} /\ ack \in Seq(Frames)
  /\ urbs \in [Queues -> Seq(Txcb)]
  /\ tx_report \subseteq Frames /\ sent \subseteq Frames
  /\ outcome \in [Frames -> Outcomes]
  /\ phase \in Phases /\ faults \in Nat /\ no_txcb \in Nat

(* The handler's hands are empty between two frames; a queue it found      *)
(* non-empty still is when it takes a frame (the purge waits for it).      *)
Hands ==
  /\ hpc \in {"idle", "loop", "dequeue"} => head = NULL /\ ack = <<>>
  /\ hpc = "more" => head = AGG
  /\ hpc = "queue" => head # NULL
  /\ hpc = "queue" /\ head # AGG => ack = <<>>
  /\ hpc = "dequeue" => tx_queue[hq] # <<>>
  /\ phase \in Drained => hpc = "idle"
  /\ phase \in Drained \ {"kill"} => \A q \in Queues : urbs[q] = <<>>

(* A frame stays with its endpoint, ...                                    *)
Of(q) == {f \in Frames : EP[f] = q}

OwnEndpoint ==
  \A q \in Queues :
    SetOf(tx_queue[q]) \union SetOf(HandOf(q)) \union InTransfer(urbs[q]) \subseteq Of(q)

(* ... the frames written are those in the driver, those that wait for a   *)
(* report and those settled, ...                                           *)
InDriver == Queued \union SetOf(Hand) \union InUrbs
Settled == {f \in Frames : outcome[f] # "none"}

Accounted ==
  /\ 1..(next - 1) = InDriver \union tx_report \union Settled
  /\ InDriver \intersect (tx_report \union Settled) = {}
  /\ tx_report \intersect Settled = {}

(* ... and what has been on air is known from where a frame is.            *)
OnAir ==
  /\ sent \subseteq 1..(next - 1) /\ tx_report \subseteq sent
  /\ (Queued \union SetOf(Hand)) \intersect sent = {}
  /\ \A q \in Queues : \A i \in DOMAIN urbs[q] :
       /\ urbs[q][i].st = "active" => SetOf(urbs[q][i].frames) \intersect sent = {}
       /\ urbs[q][i].st = "ok" => SetOf(urbs[q][i].frames) \subseteq sent

Inv == Types /\ Hands /\ InOrder /\ OwnEndpoint /\ Accounted /\ OnAir

(* While no queue is longer than what one run takes from it, a run comes   *)
(* to every frame of its queue that has been kicked, unless another is due. *)
ShortQueues == \A q \in Queues : Len(tx_queue[q]) <= LIMIT

Taken == IF hpc \in {"more", "queue"} THEN hlimit + 1 ELSE hlimit

Limits ==
  /\ hpc = "idle" => hlimit = 0
  /\ hpc # "idle" /\ ~tx_work =>
       \A i \in DOMAIN tx_queue[hq] :
         tx_queue[hq][i] \in unkicked \/ Taken + i <= LIMIT

----------------------------------------------------------------------------
(* What the sequence operators do to the elements, and to their order.     *)
LEMMA SeqElements ==
  ASSUME NEW S, NEW s \in Seq(S)
  PROVE  SetOf(s) \subseteq S
  BY ElementOfSeq, LenProperties DEF SetOf

LEMMA EmptyElements == SetOf(<<>>) = {} /\ Ascending(<<>>) /\ InTransfer(<<>>) = {}
                         /\ UrbsAscend(<<>>)
  BY DEF SetOf, Ascending, InTransfer, UrbsAscend

LEMMA AppendElements ==
  ASSUME NEW s \in Seq(Frames), NEW x \in Frames
  PROVE  /\ SetOf(Append(s, x)) = SetOf(s) \union {x}
         /\ Ascending(s) /\ (\A y \in SetOf(s) : y < x) => Ascending(Append(s, x))
<1> DEFINE t == Append(s, x)
<1>1. /\ DOMAIN s = 1..Len(s) /\ Len(s) \in Nat
      /\ DOMAIN t = 1..(Len(s) + 1)
      /\ \A i \in 1..Len(s) : t[i] = s[i]
      /\ t[Len(s) + 1] = x
  BY AppendProperties, LenProperties
<1> HIDE DEF t
<1>2. SetOf(t) = SetOf(s) \union {x}
  <2>1. \A i \in DOMAIN t : t[i] \in SetOf(s) \union {x}
    BY <1>1 DEF SetOf
  <2>2. \A i \in DOMAIN s : s[i] \in SetOf(t)
    BY <1>1 DEF SetOf
  <2>3. x \in SetOf(t)
    BY <1>1 DEF SetOf
  <2> QED BY <2>1, <2>2, <2>3 DEF SetOf
<1>3. Ascending(s) /\ (\A y \in SetOf(s) : y < x) => Ascending(t)
  BY <1>1 DEF Ascending, SetOf
<1> QED BY <1>2, <1>3 DEF t

LEMMA TailElements ==
  ASSUME NEW s \in Seq(Frames), s # <<>>
  PROVE  /\ Head(s) \in Frames /\ Tail(s) \in Seq(Frames) /\ Len(Tail(s)) = Len(s) - 1
         /\ SetOf(s) = {Head(s)} \union SetOf(Tail(s))
         /\ Ascending(s) => Ascending(Tail(s)) /\ \A y \in SetOf(Tail(s)) : Head(s) < y
<1> DEFINE t == Tail(s)
<1>1. /\ DOMAIN s = 1..Len(s) /\ Len(s) \in Nat \ {0} /\ Head(s) = s[1]
      /\ t \in Seq(Frames) /\ Len(t) = Len(s) - 1 /\ DOMAIN t = 1..(Len(s) - 1)
      /\ \A i \in 1..(Len(s) - 1) : t[i] = s[i + 1]
  BY HeadTailProperties, LenProperties, EmptySeq
<1>2. Head(s) \in Frames
  BY HeadTailProperties
<1> HIDE DEF t
<1>3. SetOf(s) = {s[1]} \union SetOf(t)
  <2>1. \A i \in DOMAIN t : t[i] \in SetOf(s)
    BY <1>1 DEF SetOf
  <2>2. \A i \in DOMAIN s : i # 1 => i - 1 \in DOMAIN t /\ t[i - 1] = s[i]
    BY <1>1
  <2>3. s[1] \in SetOf(s)
    BY <1>1 DEF SetOf
  <2> QED BY <2>1, <2>2, <2>3 DEF SetOf
<1>4. Ascending(s) => Ascending(t) /\ \A y \in SetOf(t) : s[1] < y
  <2> SUFFICES ASSUME Ascending(s) PROVE Ascending(t) /\ \A y \in SetOf(t) : s[1] < y
    OBVIOUS
  <2>1. ASSUME NEW i \in DOMAIN t, NEW j \in DOMAIN t, i < j
        PROVE  t[i] < t[j]
    <3>1. i + 1 \in DOMAIN s /\ j + 1 \in DOMAIN s /\ i + 1 < j + 1
      BY <1>1, <2>1
    <3>2. s[i + 1] < s[j + 1]
      BY <3>1 DEF Ascending
    <3> QED BY <1>1, <3>2
  <2>2. \A j \in DOMAIN t : s[1] < t[j]
    BY <1>1 DEF Ascending
  <2> QED BY <2>1, <2>2 DEF Ascending, SetOf
<1> QED BY <1>1, <1>2, <1>3, <1>4 DEF t

LEMMA UrbElements ==
  ASSUME NEW us \in Seq(Txcb)
  PROVE  InTransfer(us) \subseteq Frames /\ \A i \in DOMAIN us :
           /\ us[i] \in Txcb
           /\ us[i].frames \in Seq(Frames) /\ SetOf(us[i].frames) \subseteq InTransfer(us)
<1>1. \A i \in DOMAIN us : us[i] \in Txcb
  BY ElementOfSeq, LenProperties
<1>2. \A i \in DOMAIN us : us[i].frames \in Seq(Frames)
  BY <1>1 DEF Txcb
<1> QED BY <1>1, <1>2, SeqElements DEF InTransfer

LEMMA AppendUrb ==
  ASSUME NEW us \in Seq(Txcb), NEW u \in Txcb
  PROVE  /\ InTransfer(Append(us, u)) = InTransfer(us) \union SetOf(u.frames)
         /\ UrbsAscend(us) /\ Ascending(u.frames) /\ Before(InTransfer(us), SetOf(u.frames))
              => UrbsAscend(Append(us, u))
<1> DEFINE t == Append(us, u)
<1>1. /\ DOMAIN us = 1..Len(us) /\ Len(us) \in Nat
      /\ DOMAIN t = 1..(Len(us) + 1)
      /\ \A i \in 1..Len(us) : t[i] = us[i]
      /\ t[Len(us) + 1] = u
  BY AppendProperties, LenProperties
<1> HIDE DEF t
<1>2. InTransfer(t) = InTransfer(us) \union SetOf(u.frames)
  <2>1. \A i \in DOMAIN t : SetOf(t[i].frames) \subseteq InTransfer(us) \union SetOf(u.frames)
    BY <1>1 DEF InTransfer
  <2>2. \A i \in DOMAIN us : SetOf(us[i].frames) \subseteq InTransfer(t)
    BY <1>1 DEF InTransfer
  <2>3. SetOf(u.frames) \subseteq InTransfer(t)
    BY <1>1 DEF InTransfer
  <2> QED BY <2>1, <2>2, <2>3 DEF InTransfer
<1>3. ASSUME UrbsAscend(us), Ascending(u.frames), Before(InTransfer(us), SetOf(u.frames))
      PROVE  UrbsAscend(t)
  <2>1. \A i \in DOMAIN us : Before(SetOf(us[i].frames), SetOf(u.frames))
    BY <1>3 DEF Before, InTransfer
  <2> QED BY <1>1, <1>3, <2>1 DEF UrbsAscend
<1> QED BY <1>2, <1>3 DEF t

LEMMA TailUrb ==
  ASSUME NEW us \in Seq(Txcb), us # <<>>
  PROVE  /\ Head(us) \in Txcb /\ Tail(us) \in Seq(Txcb)
         /\ DOMAIN us = 1..Len(us) /\ 1 \in DOMAIN us /\ Head(us) = us[1]
         /\ \A i \in DOMAIN Tail(us) : i + 1 \in DOMAIN us /\ Tail(us)[i] = us[i + 1]
         /\ InTransfer(us) = SetOf(Head(us).frames) \union InTransfer(Tail(us))
         /\ UrbsAscend(us) => /\ UrbsAscend(Tail(us))
                              /\ Before(SetOf(Head(us).frames), InTransfer(Tail(us)))
<1> DEFINE t == Tail(us)
<1>1. /\ DOMAIN us = 1..Len(us) /\ Len(us) \in Nat \ {0} /\ Head(us) = us[1]
      /\ t \in Seq(Txcb) /\ DOMAIN t = 1..(Len(us) - 1)
      /\ \A i \in 1..(Len(us) - 1) : t[i] = us[i + 1]
  BY HeadTailProperties, LenProperties, EmptySeq
<1>2. Head(us) \in Txcb
  BY HeadTailProperties
<1> HIDE DEF t
<1>3. InTransfer(us) = SetOf(us[1].frames) \union InTransfer(t)
  <2>1. \A i \in DOMAIN t : SetOf(t[i].frames) \subseteq InTransfer(us)
    BY <1>1 DEF InTransfer
  <2>2. \A i \in DOMAIN us : i # 1 => i - 1 \in DOMAIN t /\ t[i - 1] = us[i]
    BY <1>1
  <2>3. \A i \in DOMAIN us : i # 1 => SetOf(us[i].frames) \subseteq InTransfer(t)
    BY <2>2 DEF InTransfer
  <2>4. SetOf(us[1].frames) \subseteq InTransfer(us)
    BY <1>1 DEF InTransfer
  <2> QED BY <2>1, <2>3, <2>4 DEF InTransfer
<1>4. ASSUME UrbsAscend(us)
      PROVE  UrbsAscend(t) /\ Before(SetOf(us[1].frames), InTransfer(t))
  <2>1. ASSUME NEW i \in DOMAIN t
        PROVE  /\ Ascending(t[i].frames)
               /\ \A j \in DOMAIN t :
                    i < j => Before(SetOf(t[i].frames), SetOf(t[j].frames))
    <3>1. i + 1 \in DOMAIN us /\ t[i] = us[i + 1]
      BY <1>1
    <3>2. ASSUME NEW j \in DOMAIN t, i < j
          PROVE  Before(SetOf(t[i].frames), SetOf(t[j].frames))
      <4>1. j + 1 \in DOMAIN us /\ t[j] = us[j + 1] /\ i + 1 < j + 1
        BY <1>1, <3>2
      <4> QED BY <1>4, <3>1, <4>1 DEF UrbsAscend
    <3> QED BY <1>4, <3>1, <3>2 DEF UrbsAscend
  <2>2. \A i \in DOMAIN t : Before(SetOf(us[1].frames), SetOf(t[i].frames))
    BY <1>1, <1>4 DEF UrbsAscend
  <2>3. UrbsAscend(t)
    BY <2>1 DEF UrbsAscend
  <2> QED BY <2>2, <2>3 DEF Before, InTransfer
<1>5. \A i \in DOMAIN t : i + 1 \in DOMAIN us /\ t[i] = us[i + 1]
  BY <1>1
<1> QED BY <1>1, <1>2, <1>3, <1>4, <1>5 DEF t

(* An URB that is given back keeps its frames.                             *)
Marked(us, i, st) == [us EXCEPT ![i].st = st]

OnlyStatus(us, ts, i, st) ==
  \A j \in DOMAIN us : /\ ts[j].frames = us[j].frames
                       /\ ts[j].st = IF j = i THEN st ELSE us[j].st

LEMMA MarkUrb ==
  ASSUME NEW us \in Seq(Txcb), NEW i \in DOMAIN us, NEW st \in {"ok", "error"},
         NEW ts, ts = Marked(us, i, st)
  PROVE  /\ ts \in Seq(Txcb) /\ DOMAIN ts = DOMAIN us /\ OnlyStatus(us, ts, i, st)
         /\ InTransfer(ts) = InTransfer(us)
         /\ UrbsAscend(us) => UrbsAscend(ts)
<1> DEFINE u == [us[i] EXCEPT !.st = st]
<1>1. us[i] \in Txcb /\ i \in 1..Len(us) /\ DOMAIN us = 1..Len(us)
  BY UrbElements, LenProperties
<1>2. u \in Txcb /\ u.frames = us[i].frames /\ u.st = st
  BY <1>1 DEF Txcb
<1>3. ts = [us EXCEPT ![i] = u]
  BY DEF Marked
<1> HIDE DEF u
<1>4. ts \in Seq(Txcb) /\ DOMAIN ts = DOMAIN us /\ \A j \in DOMAIN us : ts[j] = IF j = i THEN u ELSE us[j]
  BY <1>1, <1>2, <1>3, ExceptSeq, LenProperties
<1>5. \A j \in DOMAIN us : /\ ts[j].frames = us[j].frames
                           /\ ts[j].st = IF j = i THEN st ELSE us[j].st
  BY <1>2, <1>4
<1>6. InTransfer(ts) = InTransfer(us)
  BY <1>4, <1>5 DEF InTransfer
<1>7. UrbsAscend(us) => UrbsAscend(ts)
  BY <1>4, <1>5 DEF UrbsAscend
<1> QED BY <1>4, <1>5, <1>6, <1>7 DEF OnlyStatus

----------------------------------------------------------------------------
(* No frame is in two places of the driver: one endpoint's are in order,   *)
(* and those of two endpoints are different.                               *)
LEMMA InDriverFrames ==
  ASSUME Inv
  PROVE  /\ InDriver \subseteq 1..(next - 1) /\ InDriver \subseteq Frames
         /\ \A q \in Queues : /\ SetOf(tx_queue[q]) \subseteq Queued
                              /\ InTransfer(urbs[q]) \subseteq InUrbs
                              /\ SetOf(HandOf(q)) \subseteq SetOf(Hand)
         /\ HandOf(hq) = Hand /\ Hand \in Seq(Frames)
         /\ Queued \subseteq InDriver /\ SetOf(Hand) \subseteq InDriver /\ InUrbs \subseteq InDriver
<1>1. InDriver \subseteq 1..(next - 1)
  BY DEF Inv, Accounted
<1>2. 1..(next - 1) \subseteq Frames
  BY UsbTxAssumption DEF Inv, Types, Frames
<1>3. \A q \in Queues : /\ SetOf(tx_queue[q]) \subseteq Queued
                        /\ InTransfer(urbs[q]) \subseteq InUrbs
  BY DEF Queued, InUrbs
<1>4. HandOf(hq) = Hand
  BY DEF HandOf
<1>5. \A q \in Queues : SetOf(HandOf(q)) \subseteq SetOf(Hand)
  BY EmptyElements DEF HandOf
<1>6. Hand \in Seq(Frames)
  BY AppendProperties DEF Inv, Types, Hand
<1>7. Queued \subseteq InDriver /\ SetOf(Hand) \subseteq InDriver /\ InUrbs \subseteq InDriver
  BY DEF InDriver
<1> QED BY <1>1, <1>2, <1>3, <1>4, <1>5, <1>6, <1>7

LEMMA Apart ==
  ASSUME NEW S, NEW T, S \subseteq Frames, T \subseteq Frames, Before(S, T)
  PROVE  S \intersect T = {}
  BY UsbTxAssumption DEF Before, Frames

LEMMA Distinct ==
  ASSUME Inv
  PROVE  /\ Queued \intersect SetOf(Hand) = {} /\ Queued \intersect InUrbs = {}
         /\ SetOf(Hand) \intersect InUrbs = {}
         /\ \A q, r \in Queues : \A i \in DOMAIN urbs[q] : \A j \in DOMAIN urbs[r] :
              q # r \/ i # j =>
                SetOf(urbs[q][i].frames) \intersect SetOf(urbs[r][j].frames) = {}
<1> DEFINE Q(q) == SetOf(tx_queue[q])
           H(q) == SetOf(HandOf(q))
           U(q) == InTransfer(urbs[q])
<1>1. \A q \in Queues : Q(q) \subseteq Frames /\ H(q) \subseteq Frames /\ U(q) \subseteq Frames
  BY InDriverFrames
<1>2. \A q \in Queues : /\ Before(U(q), H(q)) /\ Before(U(q), Q(q)) /\ Before(H(q), Q(q))
  BY DEF Inv, InOrder, Before
<1>3. \A q \in Queues : U(q) \intersect H(q) = {} /\ U(q) \intersect Q(q) = {}
                          /\ H(q) \intersect Q(q) = {}
  BY <1>1, <1>2, Apart
<1>4. \A q, r \in Queues : q # r => (Q(q) \union H(q) \union U(q))
                                      \intersect (Q(r) \union H(r) \union U(r)) = {}
  BY DEF Inv, OwnEndpoint, Of
<1>5. Queued = UNION {Q(q) : q \in Queues} /\ InUrbs = UNION {U(q) : q \in Queues}
      /\ SetOf(Hand) = H(hq) /\ hq \in Queues
  BY InDriverFrames DEF Queued, InUrbs, Inv, Types
<1>6. \A q \in Queues : \A i \in DOMAIN urbs[q] : SetOf(urbs[q][i].frames) \subseteq U(q)
  BY UrbElements DEF Inv, Types
<1>7. \A q, r \in Queues : \A i \in DOMAIN urbs[q] : \A j \in DOMAIN urbs[r] :
        q # r => SetOf(urbs[q][i].frames) \intersect SetOf(urbs[r][j].frames) = {}
  BY <1>4, <1>6
<1>8. ASSUME NEW q \in Queues, NEW i \in DOMAIN urbs[q], NEW j \in DOMAIN urbs[q], i # j
      PROVE  SetOf(urbs[q][i].frames) \intersect SetOf(urbs[q][j].frames) = {}
  <2>1. urbs[q] \in Seq(Txcb) /\ i \in Nat /\ j \in Nat
    BY LenProperties DEF Inv, Types
  <2>2. UrbsAscend(urbs[q])
    BY DEF Inv, InOrder
  <2>3. \/ Before(SetOf(urbs[q][i].frames), SetOf(urbs[q][j].frames))
        \/ Before(SetOf(urbs[q][j].frames), SetOf(urbs[q][i].frames))
    BY <1>8, <2>1, <2>2 DEF UrbsAscend
  <2>4. SetOf(urbs[q][i].frames) \subseteq Frames /\ SetOf(urbs[q][j].frames) \subseteq Frames
    BY <1>1, <1>6
  <2> QED BY <2>3, <2>4, Apart
<1> HIDE DEF Q, H, U
<1>9. Queued \intersect SetOf(Hand) = {} /\ Queued \intersect InUrbs = {}
        /\ SetOf(Hand) \intersect InUrbs = {}
  BY <1>3, <1>4, <1>5
<1> QED BY <1>7, <1>8, <1>9

Moves == InOrder /\ OwnEndpoint /\ Accounted /\ OnAir

(* What a step may do to the frames: each moves forward, and the contract  *)
(* of FrameCustody is kept.                                                *)
Forward ==
  /\ Queued' \subseteq Queued \union (next..N)
  /\ SetOf(Hand)' \subseteq SetOf(Hand) \union Queued
  /\ InUrbs' \subseteq InUrbs \union SetOf(Hand)

Kept == [Custody!Next]_(Custody!vars)

Advance == Moves' /\ Forward /\ Kept

LEMMA NothingSaid ==
  ASSUME UNCHANGED <<next, sent, outcome>>
  PROVE  Kept
  BY DEF Kept, Custody!vars

LEMMA GivenBack ==
  ASSUME Inv, NEW how \in {"ack", "noack", "free"}, NEW S,
         S \subseteq InDriver \union tx_report, how = "ack" => S \subseteq sent,
         Settle(S, how), UNCHANGED <<next, sent>>
  PROVE  Kept
<1>1. S \in SUBSET Frames
  BY InDriverFrames DEF Inv, Types
<1>2. \A f \in S : Custody!InCustody(f)
  BY <1>1 DEF Custody!InCustody, Inv, Accounted, Settled
<1>3. Custody!GiveBack(S, how)
  BY <1>2 DEF Custody!GiveBack, Settle
<1> QED BY <1>1, <1>3 DEF Kept, Custody!Next

(* A step that moves no frame.                                             *)
LEMMA NoMove ==
  ASSUME Inv, UNCHANGED <<next, tx_queue, urbs, settled, sent, head, ack>>,
         hq' = hq \/ (head = NULL /\ ack = <<>>)
  PROVE  Advance
<1>1. Hand' = Hand
  BY DEF Hand
<1>2. NULL \notin Frames
  BY UsbTxAssumption DEF Frames
<1>3. \A q \in Queues : HandOf(q)' = HandOf(q)
  BY <1>1, <1>2 DEF HandOf, Hand
<1>4. InOrder' /\ OwnEndpoint'
  BY <1>3 DEF Inv, InOrder, OwnEndpoint
<1>5. Accounted' /\ OnAir'
  BY <1>1 DEF Inv, Accounted, OnAir, InDriver, Queued, InUrbs, Settled, settled
<1>6. Forward /\ Kept
  BY <1>1, NothingSaid DEF Forward, Queued, InUrbs, settled
<1> QED BY <1>4, <1>5, <1>6 DEF Moves, Advance

(* The frame at the head of the handler's queue comes into its hands.      *)
LEMMA ToHand ==
  ASSUME Inv, tx_queue[hq] # <<>>,
         tx_queue' = [tx_queue EXCEPT ![hq] = Tail(@)],
         SetOf(Hand') = SetOf(Hand) \union {Head(tx_queue[hq])}, Ascending(Hand'),
         UNCHANGED <<next, hq, urbs, settled, sent>>
  PROVE  Advance
<1> DEFINE x == Head(tx_queue[hq])
<1>1. hq \in Queues /\ tx_queue[hq] \in Seq(Frames)
  BY DEF Inv, Types
<1>2. \A q \in Queues : tx_queue'[q] = IF q = hq THEN Tail(tx_queue[q]) ELSE tx_queue[q]
  BY <1>1 DEF Inv, Types
<1>3. /\ SetOf(tx_queue[hq]) = {x} \union SetOf(tx_queue'[hq])
      /\ Ascending(tx_queue'[hq]) /\ \A y \in SetOf(tx_queue'[hq]) : x < y
  <2>1. Ascending(tx_queue[hq])
    BY <1>1 DEF Inv, InOrder
  <2>2. tx_queue'[hq] = Tail(tx_queue[hq])
    BY <1>1, <1>2
  <2> QED BY <1>1, <2>1, <2>2, TailElements
<1>4. HandOf(hq) = Hand /\ HandOf(hq)' = Hand'
  BY DEF HandOf
<1>5. \A q \in Queues : q # hq => HandOf(q) = <<>> /\ HandOf(q)' = <<>>
  BY DEF HandOf
<1> HIDE DEF x
<1>6. InOrder'
  <2> SUFFICES ASSUME NEW q \in Queues
               PROVE  /\ Ascending(HandOf(q)') /\ Ascending(tx_queue'[q])
                      /\ Before(InTransfer(urbs[q]),
                                SetOf(HandOf(q)') \union SetOf(tx_queue'[q]))
                      /\ Before(SetOf(HandOf(q)'), SetOf(tx_queue'[q]))
    BY DEF Inv, InOrder
  <2>1. CASE q = hq
    <3>1. SetOf(HandOf(q)') = SetOf(HandOf(q)) \union {x}
      BY <2>1, <1>4 DEF x
    <3>2. /\ Before(InTransfer(urbs[q]), SetOf(HandOf(q)) \union SetOf(tx_queue[q]))
          /\ Before(SetOf(HandOf(q)), SetOf(tx_queue[q]))
      BY DEF Inv, InOrder
    <3> QED BY <2>1, <1>3, <1>4, <3>1, <3>2 DEF Before
  <2>2. CASE q # hq
    BY <2>2, <1>2, <1>5 DEF Inv, InOrder
  <2> QED BY <2>1, <2>2
<1>7. OwnEndpoint'
  <2> SUFFICES ASSUME NEW q \in Queues
               PROVE  SetOf(tx_queue'[q]) \union SetOf(HandOf(q)')
                        \union InTransfer(urbs[q]) \subseteq Of(q)
    BY DEF OwnEndpoint, Of
  <2>1. SetOf(tx_queue'[q]) \union SetOf(HandOf(q)') = SetOf(tx_queue[q]) \union SetOf(HandOf(q))
    BY <1>2, <1>3, <1>4, <1>5 DEF x
  <2> QED BY <2>1 DEF Inv, OwnEndpoint
<1>8. Queued = {x} \union Queued'
  <2>1. \A q \in Queues : SetOf(tx_queue[q]) = IF q = hq THEN {x} \union SetOf(tx_queue'[q])
                                                         ELSE SetOf(tx_queue'[q])
    BY <1>2, <1>3
  <2> QED BY <1>1, <2>1 DEF Queued
<1>9. InDriver' = InDriver
  BY <1>8 DEF InDriver, InUrbs, x
<1>10. Accounted'
  BY <1>9 DEF Inv, Accounted, Settled, settled
<1>11. OnAir'
  <2>1. Queued' \union SetOf(Hand') = Queued \union SetOf(Hand)
    BY <1>8 DEF x
  <2> QED BY <2>1 DEF Inv, OnAir, settled
<1>12. Forward
  <2>1. InUrbs' = InUrbs
    BY DEF InUrbs
  <2> QED BY <1>8, <2>1 DEF Forward, x
<1>13. Kept
  BY NothingSaid DEF settled
<1> QED BY <1>6, <1>7, <1>10, <1>11, <1>12, <1>13 DEF Moves, Advance

(* mac80211 adds the newest frame to the queue of its endpoint.            *)
LEMMA WriteMoves ==
  ASSUME Inv, TxWrite
  PROVE  Advance
<1> DEFINE e == EP[next]
<1>1. /\ next \in Frames /\ next' = next + 1 /\ e \in Queues /\ tx_queue[e] \in Seq(Frames)
      /\ UNCHANGED <<hq, head, ack, urbs, tx_report, outcome, sent>>
  BY UsbTxAssumption DEF TxWrite, Inv, Types, Frames, handler, settled
<1>2. /\ tx_queue'[e] = Append(tx_queue[e], next)
      /\ \A q \in Queues \ {e} : tx_queue'[q] = tx_queue[q]
  BY <1>1 DEF TxWrite, Inv, Types
<1>3. \A f \in InDriver : f < next
  BY InDriverFrames, UsbTxAssumption DEF Inv, Types
<1>4. \A q \in Queues : HandOf(q)' = HandOf(q)
  BY <1>1 DEF HandOf, Hand
<1> HIDE DEF e
<1>5. SetOf(tx_queue'[e]) = SetOf(tx_queue[e]) \union {next} /\ Ascending(tx_queue'[e])
  <2>1. \A y \in SetOf(tx_queue[e]) : y < next
    BY <1>1, <1>3, InDriverFrames
  <2>2. Ascending(tx_queue[e])
    BY <1>1 DEF Inv, InOrder
  <2> QED BY <1>1, <1>2, <2>1, <2>2, AppendElements
<1>6. InOrder'
  <2> SUFFICES ASSUME NEW q \in Queues
               PROVE  /\ Ascending(tx_queue'[q])
                      /\ Before(InTransfer(urbs[q]), SetOf(HandOf(q)) \union SetOf(tx_queue'[q]))
                      /\ Before(SetOf(HandOf(q)), SetOf(tx_queue'[q]))
    BY <1>1, <1>4 DEF Inv, InOrder
  <2>1. CASE q = e
    <3>1. \A y \in InTransfer(urbs[q]) \union SetOf(HandOf(q)) : y < next
      BY <1>3, InDriverFrames
    <3>2. /\ Before(InTransfer(urbs[q]), SetOf(HandOf(q)) \union SetOf(tx_queue[q]))
          /\ Before(SetOf(HandOf(q)), SetOf(tx_queue[q]))
      BY DEF Inv, InOrder
    <3> QED BY <2>1, <1>5, <3>1, <3>2 DEF Before
  <2>2. CASE q # e
    BY <2>2, <1>2 DEF Inv, InOrder
  <2> QED BY <2>1, <2>2
<1>7. OwnEndpoint'
  <2>1. next \in Of(e)
    BY <1>1 DEF e, Of
  <2>2. \A q \in Queues : SetOf(tx_queue'[q]) \subseteq Of(q)
    BY <1>2, <1>5, <2>1 DEF Inv, OwnEndpoint
  <2> QED BY <1>1, <1>4, <2>2 DEF Inv, OwnEndpoint, Of
<1>8. Queued' = Queued \union {next}
  <2>1. \A q \in Queues : SetOf(tx_queue'[q]) = IF q = e THEN SetOf(tx_queue[q]) \union {next}
                                                         ELSE SetOf(tx_queue[q])
    BY <1>2, <1>5
  <2> QED BY <1>1, <2>1 DEF Queued
<1>9. InDriver' = InDriver \union {next}
  BY <1>1, <1>8 DEF InDriver, InUrbs, Hand
<1>10. next \notin tx_report \union Settled /\ next \notin sent
       /\ 1..(next' - 1) = 1..(next - 1) \union {next}
  BY <1>1, UsbTxAssumption DEF Inv, Accounted, OnAir, Types
<1>11. Accounted'
  BY <1>1, <1>9, <1>10 DEF Inv, Accounted, Settled
<1>12. OnAir'
  <2>1. Hand' = Hand
    BY <1>1 DEF Hand
  <2> QED BY <1>1, <1>8, <1>10, <2>1 DEF Inv, OnAir
<1>13. Forward
  <2>1. Hand' = Hand /\ InUrbs' = InUrbs
    BY <1>1 DEF Hand, InUrbs
  <2>2. next \in next..N
    BY <1>1, UsbTxAssumption DEF Frames
  <2> QED BY <1>8, <2>1, <2>2 DEF Forward
<1>14. Kept
  <2>1. next \notin 1..(next - 1)
    BY <1>1 DEF Frames
  <2>2. Custody!Accept(next)
    BY <1>1, <1>10, <2>1 DEF Custody!Accept
  <2> QED BY <1>1, <2>2 DEF Kept, Custody!Next
<1> QED BY <1>6, <1>7, <1>11, <1>12, <1>13, <1>14 DEF Moves, Advance

(* The handler's frames become those of a new URB of its endpoint.         *)
LEMMA ToUrb ==
  ASSUME Inv, ack' = <<>>, head' = NULL,
         urbs' = [urbs EXCEPT ![hq] = Append(@, [frames |-> Hand, st |-> "active"])],
         UNCHANGED <<next, hq, tx_queue, settled, sent>>
  PROVE  Advance
<1> DEFINE u == [frames |-> Hand, st |-> "active"]
<1>1. hq \in Queues /\ urbs[hq] \in Seq(Txcb) /\ Hand \in Seq(Frames) /\ HandOf(hq) = Hand
  BY InDriverFrames DEF Inv, Types
<1>2. u \in Txcb /\ u.frames = Hand /\ u.st = "active"
  BY <1>1 DEF Txcb
<1>3. /\ urbs'[hq] = Append(urbs[hq], u)
      /\ \A q \in Queues \ {hq} : urbs'[q] = urbs[q]
  BY <1>1 DEF Inv, Types
<1> HIDE DEF u
<1>4. Hand' = <<>> /\ \A q \in Queues : HandOf(q)' = <<>>
  BY UsbTxAssumption DEF Hand, HandOf, Frames
<1>5. InTransfer(urbs'[hq]) = InTransfer(urbs[hq]) \union SetOf(Hand) /\ UrbsAscend(urbs'[hq])
  <2>1. UrbsAscend(urbs[hq]) /\ Ascending(Hand) /\ Before(InTransfer(urbs[hq]), SetOf(Hand))
    BY <1>1 DEF Inv, InOrder, Before
  <2> QED BY <1>1, <1>2, <1>3, <2>1, AppendUrb
<1>6. InOrder'
  <2> SUFFICES ASSUME NEW q \in Queues
               PROVE  UrbsAscend(urbs'[q]) /\ Before(InTransfer(urbs'[q]), SetOf(tx_queue[q]))
    BY <1>4, EmptyElements DEF Inv, InOrder, Before
  <2>1. CASE q = hq
    BY <2>1, <1>1, <1>5 DEF Inv, InOrder, Before
  <2>2. CASE q # hq
    BY <2>2, <1>3 DEF Inv, InOrder, Before
  <2> QED BY <2>1, <2>2
<1>7. OwnEndpoint'
  <2>1. \A q \in Queues : InTransfer(urbs'[q]) \subseteq Of(q)
    BY <1>1, <1>3, <1>5 DEF Inv, OwnEndpoint
  <2> QED BY <1>4, <2>1, EmptyElements DEF Inv, OwnEndpoint, Of
<1>8. InUrbs' = InUrbs \union SetOf(Hand)
  <2>1. \A q \in Queues \ {hq} : InTransfer(urbs'[q]) = InTransfer(urbs[q])
    BY <1>3
  <2>2. InTransfer(urbs'[hq]) = InTransfer(urbs[hq]) \union SetOf(Hand)
    BY <1>5
  <2>3. InUrbs' = UNION {InTransfer(urbs'[q]) : q \in Queues}
    BY DEF InUrbs
  <2>4. InUrbs' \subseteq InUrbs \union SetOf(Hand)
    BY <1>1, <2>1, <2>2, <2>3 DEF InUrbs
  <2>5. InUrbs \union SetOf(Hand) \subseteq InUrbs'
    BY <1>1, <2>1, <2>2, <2>3 DEF InUrbs
  <2> QED BY <2>4, <2>5
<1>9. InDriver' = InDriver
  BY <1>4, <1>8, EmptyElements DEF InDriver, Queued
<1>10. Accounted'
  BY <1>9 DEF Inv, Accounted, Settled, settled
<1>11. OnAir'
  <2>1. ASSUME NEW q \in Queues, NEW i \in DOMAIN urbs'[q]
        PROVE  \/ i \in DOMAIN urbs[q] /\ urbs'[q][i] = urbs[q][i]
               \/ urbs'[q][i] = u
    <3>1. CASE q = hq
      BY <2>1, <3>1, <1>1, <1>2, <1>3, AppendProperties, LenProperties
    <3>2. CASE q # hq
      BY <2>1, <3>2, <1>3
    <3> QED BY <3>1, <3>2
  <2>2. SetOf(u.frames) \intersect sent = {} /\ u.st # "ok"
    BY <1>2 DEF Inv, OnAir
  <2>3. \A q \in Queues : \A i \in DOMAIN urbs'[q] :
          /\ urbs'[q][i].st = "active" => SetOf(urbs'[q][i].frames) \intersect sent = {}
          /\ urbs'[q][i].st = "ok" => SetOf(urbs'[q][i].frames) \subseteq sent
    BY <2>1, <2>2 DEF Inv, OnAir
  <2>4. Queued' \union SetOf(Hand') \subseteq Queued
    BY <1>4, EmptyElements DEF Queued
  <2> QED BY <2>3, <2>4 DEF Inv, OnAir, settled
<1>12. Forward
  <2>1. SetOf(Hand)' = {} /\ Queued' = Queued
    BY <1>4, EmptyElements DEF Queued
  <2> QED BY <1>8, <2>1 DEF Forward
<1>13. Kept
  BY NothingSaid DEF settled
<1> QED BY <1>6, <1>7, <1>10, <1>11, <1>12, <1>13 DEF Moves, Advance

(* Frames leave the driver: from its hands, its queues or the report queue.*)
LEMMA Leave ==
  ASSUME Inv, NEW how \in {"ack", "noack", "free"}, NEW S,
         S \subseteq InDriver \union tx_report, Settle(S, how),
         Queued' \subseteq Queued, SetOf(Hand)' \subseteq SetOf(Hand), InUrbs' \subseteq InUrbs,
         InDriver' = InDriver \ S, tx_report' = tx_report \ S, UNCHANGED <<next, sent>>
  PROVE  Accounted' /\ sent' \subseteq 1..(next' - 1) /\ tx_report' \subseteq sent'
         /\ (Queued' \union SetOf(Hand)') \intersect sent' = {}
<1>1. S \subseteq Frames
  BY InDriverFrames DEF Inv, Types
<1>2. Settled' = Settled \union S
  BY <1>1 DEF Settle, Settled, Inv, Types
<1>3. S \intersect Settled = {}
  BY DEF Inv, Accounted
<1>4. Accounted'
  BY <1>2, <1>3 DEF Inv, Accounted
<1> QED BY <1>4 DEF Inv, OnAir

LEMMA HandLeaves ==
  ASSUME Inv, ack' = <<>>, head' = NULL, Settle(SetOf(Hand), "free"),
         UNCHANGED <<next, hq, tx_queue, urbs, tx_report, sent>>
  PROVE  Advance
<1>1. Hand' = <<>> /\ \A q \in Queues : HandOf(q)' = <<>>
  BY UsbTxAssumption DEF Hand, HandOf, Frames
<1>2. InOrder' /\ OwnEndpoint'
  BY <1>1, EmptyElements DEF Inv, InOrder, OwnEndpoint, Of, Before
<1>3. Queued' = Queued /\ InUrbs' = InUrbs /\ SetOf(Hand)' = {}
  BY <1>1, EmptyElements DEF Queued, InUrbs
<1>4. InDriver' = InDriver \ SetOf(Hand)
  BY <1>3, Distinct DEF InDriver
<1>5. SetOf(Hand) \subseteq InDriver /\ tx_report' = tx_report \ SetOf(Hand)
  BY InDriverFrames DEF Inv, Accounted
<1>6. Accounted' /\ OnAir'
  BY <1>3, <1>4, <1>5, Leave DEF Inv, OnAir
<1>7. Forward
  BY <1>3 DEF Forward
<1>8. Kept
  BY <1>5, GivenBack
<1> QED BY <1>2, <1>6, <1>7, <1>8 DEF Moves, Advance

(* An URB is given back by the controller: its frames stay with it.        *)
LEMMA GivebackMoves ==
  ASSUME Inv, NEW q \in Queues, NEW i \in DOMAIN urbs[q], Giveback(q, i)
  PROVE  Advance /\ urbs' \in [Queues -> Seq(Txcb)]
         /\ sent' \in {sent, sent \union SetOf(urbs[q][i].frames)}
         /\ SetOf(urbs[q][i].frames) \intersect sent = {}
         /\ SetOf(urbs[q][i].frames) \subseteq InUrbs
         /\ \A r \in Queues : urbs[r] = <<>> => urbs'[r] = <<>>
<1> DEFINE F == SetOf(urbs[q][i].frames)
<1>1. urbs[q] \in Seq(Txcb) /\ urbs[q][i].st = "active"
      /\ UNCHANGED <<next, hq, head, ack, tx_queue, tx_report, outcome>>
  BY DEF Giveback, Inv, Types, mac, handler, settled
<1>2. PICK st \in {"ok", "error"} :
        /\ urbs' = [urbs EXCEPT ![q][i].st = st]
        /\ st = "ok" => sent' = sent \union F
        /\ st = "error" => sent' = sent
  BY DEF Giveback
<1>3. /\ urbs'[q] = Marked(urbs[q], i, st)
      /\ \A r \in Queues \ {q} : urbs'[r] = urbs[r]
      /\ DOMAIN urbs' = Queues
      /\ urbs' = [r \in Queues |-> IF r = q THEN urbs'[q] ELSE urbs[r]]
  BY <1>2 DEF Inv, Types, Marked
<1>4. /\ urbs'[q] \in Seq(Txcb) /\ DOMAIN urbs'[q] = DOMAIN urbs[q]
      /\ \A j \in DOMAIN urbs[q] : /\ urbs'[q][j].frames = urbs[q][j].frames
                                   /\ urbs'[q][j].st = IF j = i THEN st ELSE urbs[q][j].st
      /\ InTransfer(urbs'[q]) = InTransfer(urbs[q])
      /\ UrbsAscend(urbs[q]) => UrbsAscend(urbs'[q])
  <2>1. PICK us \in Seq(Txcb) : us = urbs[q]
    BY <1>1
  <2>2. PICK ts : ts = urbs'[q]
    OBVIOUS
  <2>3. i \in DOMAIN us /\ ts = Marked(us, i, st)
    BY <2>1, <2>2, <1>3
  <2>4. /\ ts \in Seq(Txcb) /\ DOMAIN ts = DOMAIN us /\ OnlyStatus(us, ts, i, st)
        /\ InTransfer(ts) = InTransfer(us)
        /\ UrbsAscend(us) => UrbsAscend(ts)
    BY <2>3, MarkUrb
  <2> QED BY <2>1, <2>2, <2>4 DEF OnlyStatus
<1>5. urbs' \in [Queues -> Seq(Txcb)]
  BY <1>3, <1>4 DEF Inv, Types
<1>6. \A r \in Queues : InTransfer(urbs'[r]) = InTransfer(urbs[r]) /\ UrbsAscend(urbs'[r])
  BY <1>3, <1>4 DEF Inv, InOrder
<1>7. \A r \in Queues : HandOf(r)' = HandOf(r)
  BY <1>1 DEF HandOf, Hand
<1>8. InOrder' /\ OwnEndpoint'
  BY <1>1, <1>6, <1>7 DEF Inv, InOrder, OwnEndpoint
<1>9. InDriver' = InDriver /\ Queued' = Queued /\ Hand' = Hand /\ InUrbs' = InUrbs
  BY <1>1, <1>6 DEF InDriver, Queued, InUrbs, Hand
<1>10. Accounted'
  BY <1>1, <1>9 DEF Inv, Accounted, Settled
<1>11. F \intersect sent = {} /\ F \subseteq InUrbs /\ F \intersect (Queued \union SetOf(Hand)) = {}
  <2>1. F \subseteq InUrbs
    BY <1>1, UrbElements, InDriverFrames
  <2>2. F \intersect sent = {}
    BY <1>1 DEF Inv, OnAir
  <2> QED BY <2>1, <2>2, Distinct
<1>12. \A r \in Queues : \A j \in DOMAIN urbs[r] : (r # q \/ j # i) =>
         SetOf(urbs[r][j].frames) \intersect F = {}
  BY Distinct
<1> HIDE DEF F
<1>13. OnAir'
  <2>1. sent' \subseteq 1..(next' - 1) /\ tx_report' \subseteq sent'
        /\ (Queued \union SetOf(Hand))' \intersect sent' = {}
    BY <1>1, <1>2, <1>9, <1>11, InDriverFrames DEF Inv, OnAir
  <2>2. ASSUME NEW r \in Queues, NEW j \in DOMAIN urbs'[r]
        PROVE  /\ urbs'[r][j].st = "active" => SetOf(urbs'[r][j].frames) \intersect sent' = {}
               /\ urbs'[r][j].st = "ok" => SetOf(urbs'[r][j].frames) \subseteq sent'
    <3>1. CASE r = q /\ j = i
      BY <3>1, <1>1, <1>2, <1>4 DEF F
    <3>2. CASE r # q \/ j # i
      <4>1. j \in DOMAIN urbs[r] /\ urbs'[r][j].frames = urbs[r][j].frames
            /\ urbs'[r][j].st = urbs[r][j].st
        BY <2>2, <3>2, <1>3, <1>4
      <4> QED BY <4>1, <3>2, <1>2, <1>12 DEF Inv, OnAir
    <3> QED BY <3>1, <3>2
  <2> QED BY <2>1, <2>2 DEF OnAir
<1>14. \A r \in Queues : urbs[r] = <<>> => urbs'[r] = <<>>
  BY <1>1, <1>3
<1>15. Forward
  BY <1>9 DEF Forward
<1>16. Kept
  <2>1. CASE sent' = sent
    BY <1>1, <2>1, NothingSaid
  <2>2. CASE sent' = sent \union F
    <3>1. F \in SUBSET Frames
      BY <1>11, InDriverFrames
    <3>2. \A f \in F : Custody!InCustody(f) /\ f \notin sent
      BY <1>11, <3>1, InDriverFrames DEF Custody!InCustody, Inv, Accounted, Settled
    <3>3. Custody!Transmit(F)
      BY <1>1, <2>2, <3>2 DEF Custody!Transmit
    <3> QED BY <3>1, <3>3 DEF Kept, Custody!Next
  <2> QED BY <1>2, <2>1, <2>2
<1> QED BY <1>2, <1>5, <1>8, <1>10, <1>11, <1>13, <1>14, <1>15, <1>16 DEF Moves, Advance, F

(* The callback of the oldest URB of an endpoint: its frames are settled,  *)
(* or wait for the firmware's report.                                      *)
LEMMA CompleteMoves ==
  ASSUME Inv, NEW q \in Queues, TxComplete(q)
  PROVE  Advance /\ urbs' \in [Queues -> Seq(Txcb)]
         /\ tx_report' \subseteq Frames /\ outcome' \in [Frames -> Outcomes]
         /\ InUrbs' \subseteq InUrbs
<1> DEFINE d == Head(urbs[q])
           F == SetOf(d.frames)
<1>1. /\ urbs[q] \in Seq(Txcb) /\ urbs[q] # <<>> /\ d.st # "active"
      /\ UNCHANGED <<next, hq, head, ack, tx_queue, sent>>
      /\ WritePortTxStatus(d)
  BY DEF TxComplete, Inv, Types, mac, handler
<1>2. urbs'[q] = Tail(urbs[q]) /\ (\A r \in Queues \ {q} : urbs'[r] = urbs[r])
      /\ urbs' = [r \in Queues |-> IF r = q THEN urbs'[q] ELSE urbs[r]]
  BY DEF TxComplete, Inv, Types
<1>3. /\ d \in Txcb /\ urbs'[q] \in Seq(Txcb)
      /\ 1 \in DOMAIN urbs[q] /\ d = urbs[q][1]
      /\ \A i \in DOMAIN urbs'[q] : i + 1 \in DOMAIN urbs[q] /\ urbs'[q][i] = urbs[q][i + 1]
      /\ InTransfer(urbs[q]) = F \union InTransfer(urbs'[q])
      /\ UrbsAscend(urbs[q]) =>
           UrbsAscend(urbs'[q]) /\ Before(F, InTransfer(urbs'[q]))
  BY <1>1, <1>2, TailUrb
<1>4. urbs' \in [Queues -> Seq(Txcb)]
  BY <1>2, <1>3 DEF Inv, Types
<1>5. \A r \in Queues : InTransfer(urbs'[r]) \subseteq InTransfer(urbs[r]) /\ UrbsAscend(urbs'[r])
  BY <1>2, <1>3 DEF Inv, InOrder
<1>6. \A r \in Queues : HandOf(r)' = HandOf(r)
  BY <1>1 DEF HandOf, Hand
<1>7. InOrder' /\ OwnEndpoint'
  BY <1>1, <1>5, <1>6 DEF Inv, InOrder, OwnEndpoint, Before
<1>8. Queued' = Queued /\ Hand' = Hand
  BY <1>1 DEF Queued, Hand
<1>9. F \subseteq InUrbs /\ F \subseteq Frames /\ F \subseteq InDriver
  BY <1>3, InDriverFrames
<1>10. InUrbs' = InUrbs \ F
  <2>1. F \intersect InTransfer(urbs'[q]) = {}
    <3>1. InTransfer(urbs'[q]) \subseteq Frames
      BY <1>3, UrbElements
    <3>2. Before(F, InTransfer(urbs'[q]))
      BY <1>3 DEF Inv, InOrder
    <3> HIDE DEF F
    <3> QED BY <1>9, <3>1, <3>2, Apart
  <2>2. \A r \in Queues \ {q} : F \intersect InTransfer(urbs[r]) = {}
    <3>1. \A r \in Queues : InTransfer(urbs[r]) \subseteq Of(r)
      BY DEF Inv, OwnEndpoint
    <3>2. F \subseteq Of(q)
      BY <1>3, <3>1
    <3> HIDE DEF F
    <3> QED BY <3>1, <3>2 DEF Of
  <2>3. InUrbs' = UNION {InTransfer(urbs'[r]) : r \in Queues}
    BY DEF InUrbs
  <2>4. \A r \in Queues \ {q} : InTransfer(urbs'[r]) = InTransfer(urbs[r])
    BY <1>2
  <2> HIDE DEF F
  <2>5. InUrbs' \subseteq InUrbs \ F
    BY <1>3, <2>1, <2>2, <2>3, <2>4 DEF InUrbs
  <2>6. InUrbs \ F \subseteq InUrbs'
    BY <1>3, <2>3, <2>4 DEF InUrbs
  <2> QED BY <2>5, <2>6
<1>11. InDriver' = InDriver \ F
  BY <1>8, <1>9, <1>10, Distinct DEF InDriver
<1>12. d.st \in {"ok", "error"} /\ (d.st = "ok" => F \subseteq sent)
  BY <1>1, <1>3 DEF Txcb, Inv, OnAir
<1>13. tx_report' \subseteq Frames /\ outcome' \in [Frames -> Outcomes]
  BY <1>1, <1>9 DEF WritePortTxStatus, Settle, Inv, Types, Outcomes
<1>14. Accounted' /\ sent' \subseteq 1..(next' - 1) /\ tx_report' \subseteq sent'
       /\ (Queued' \union SetOf(Hand)') \intersect sent' = {}
  <2> HIDE DEF F
  <2>1. F \intersect (tx_report \union Settled) = {}
    BY <1>9 DEF Inv, Accounted
  <2>2. CASE d.st = "error"
    <3>1. Settle(F, "noack") /\ tx_report' = tx_report \ F
      BY <1>1, <2>1, <2>2 DEF WritePortTxStatus, F
    <3> QED BY <1>1, <1>8, <1>9, <1>10, <1>11, <3>1, Leave
  <2>3. CASE d.st = "ok"
    <3>1. Settle(F \ REQ, "ack") /\ tx_report' = tx_report \union (F \intersect REQ)
      BY <1>1, <2>3 DEF WritePortTxStatus, F
    <3>2. Settled' = Settled \union (F \ REQ)
      BY <3>1, <1>9 DEF Settle, Settled, Inv, Types
    <3>3. Accounted'
      BY <1>1, <1>9, <1>11, <2>1, <3>1, <3>2 DEF Inv, Accounted
    <3> QED BY <1>1, <1>8, <1>12, <2>3, <3>1, <3>3 DEF Inv, OnAir
  <2> QED BY <1>12, <2>2, <2>3
<1>15. OnAir'
  <2>1. ASSUME NEW r \in Queues, NEW i \in DOMAIN urbs'[r]
        PROVE  \E j \in DOMAIN urbs[r] : urbs'[r][i] = urbs[r][j]
    <3>1. CASE r = q
      <4>1. i + 1 \in DOMAIN urbs[q] /\ urbs'[q][i] = urbs[q][i + 1]
        BY <1>3, <2>1, <3>1
      <4> QED BY <3>1, <4>1
    <3>2. CASE r # q
      BY <1>2, <2>1, <3>2
    <3> QED BY <3>1, <3>2
  <2>2. \A r \in Queues : \A i \in DOMAIN urbs'[r] :
          /\ urbs'[r][i].st = "active" => SetOf(urbs'[r][i].frames) \intersect sent = {}
          /\ urbs'[r][i].st = "ok" => SetOf(urbs'[r][i].frames) \subseteq sent
    BY <2>1 DEF Inv, OnAir
  <2> QED BY <1>1, <1>14, <2>2 DEF OnAir
<1>16. Forward
  BY <1>8, <1>10 DEF Forward
<1>17. Kept
  <2>1. CASE d.st = "error"
    <3>1. Settle(F, "noack")
      BY <1>1, <2>1 DEF WritePortTxStatus
    <3> QED BY <1>1, <1>9, <3>1, GivenBack
  <2>2. CASE d.st = "ok"
    <3>1. Settle(F \ REQ, "ack")
      BY <1>1, <2>2 DEF WritePortTxStatus
    <3> QED BY <1>1, <1>9, <1>12, <2>2, <3>1, GivenBack
  <2> QED BY <1>12, <2>1, <2>2
<1> QED BY <1>4, <1>7, <1>10, <1>13, <1>14, <1>15, <1>16, <1>17 DEF Moves, Advance

(* A report, the purge timer, or the end of the driver settles frames that *)
(* wait for a report.                                                      *)
LEMMA ReportMoves ==
  ASSUME Inv, NEW how \in {"ack", "noack", "free"}, NEW S, S \subseteq tx_report,
         tx_report' = tx_report \ S, Settle(S, how),
         UNCHANGED <<next, tx_queue, urbs, sent, hq, head, ack>>
  PROVE  Advance
<1>1. Hand' = Hand /\ \A q \in Queues : HandOf(q)' = HandOf(q)
  BY DEF HandOf, Hand
<1>2. InOrder' /\ OwnEndpoint'
  BY <1>1 DEF Inv, InOrder, OwnEndpoint
<1>3. Queued' = Queued /\ InUrbs' = InUrbs
  BY DEF Queued, InUrbs
<1>4. InDriver' = InDriver \ S
  BY <1>1, <1>3 DEF InDriver, Inv, Accounted
<1>5. Accounted' /\ OnAir'
  BY <1>1, <1>3, <1>4, Leave DEF Inv, OnAir
<1>6. Forward
  BY <1>1, <1>3 DEF Forward
<1>7. Kept
  BY GivenBack DEF Inv, OnAir
<1> QED BY <1>2, <1>5, <1>6, <1>7 DEF Moves, Advance

(* rtw_usb_tx_queue_purge, once handler and URBs are gone                  *)
LEMMA PurgeMoves ==
  ASSUME Inv, PurgeQueues, UNCHANGED <<next, urbs, sent, hq, head, ack>>
  PROVE  Advance
<1>1. \A q \in Queues : tx_queue'[q] = <<>>
  BY DEF PurgeQueues
<1>2. Hand' = Hand /\ \A q \in Queues : HandOf(q)' = HandOf(q)
  BY DEF HandOf, Hand
<1>3. InOrder' /\ OwnEndpoint'
  BY <1>1, <1>2, EmptyElements DEF Inv, InOrder, OwnEndpoint, Of, Before
<1>4. Queued' = {} /\ InUrbs' = InUrbs
  BY <1>1, EmptyElements DEF Queued, InUrbs
<1>5. Settle(Queued, "free") /\ tx_report' = tx_report
  BY DEF PurgeQueues, Queued
<1>6. InDriver' = InDriver \ Queued /\ tx_report' = tx_report \ Queued
  BY <1>2, <1>4, <1>5, Distinct, InDriverFrames DEF InDriver, Inv, Accounted
<1>7. Accounted' /\ OnAir'
  BY <1>2, <1>4, <1>5, <1>6, InDriverFrames, Leave DEF Inv, OnAir
<1>8. Forward
  BY <1>2, <1>4 DEF Forward
<1>9. Kept
  BY <1>5, InDriverFrames, GivenBack
<1> QED BY <1>3, <1>7, <1>8, <1>9 DEF Moves, Advance

----------------------------------------------------------------------------
(* The invariant is inductive: mac80211's steps, ...                       *)
Stepped == Inv' /\ Forward /\ Kept

LEMMA InvParts ==
  ASSUME Inv, Advance, Types', Hands'
  PROVE  Stepped
  BY DEF Inv, Moves, Advance, Stepped

LEMMA SettleTypes ==
  ASSUME Inv, NEW S, NEW how \in {"ack", "noack", "free"}, Settle(S, how)
  PROVE  outcome' \in [Frames -> Outcomes]
  BY DEF Settle, Inv, Types, Outcomes

LEMMA MacInv ==
  ASSUME Inv, TxWrite \/ (\E S \in SUBSET unkicked : TxKickOff(S)) \/ WakeTxQueue \/ CoreTxWork
  PROVE  Stepped
<1>1. CASE TxWrite
  <2>1. next \in Frames /\ EP[next] \in Queues /\ next + 1 \in 1..(N + 1)
    BY <1>1, UsbTxAssumption DEF TxWrite, Inv, Types, Frames
  <2>2. tx_queue' \in [Queues -> Seq(Frames)]
        /\ \A q \in Queues : tx_queue[q] # <<>> => tx_queue'[q] # <<>>
    <3>1. \A q \in Queues : tx_queue[q] \in Seq(Frames)
      BY DEF Inv, Types
    <3>2. Append(tx_queue[EP[next]], next) \in Seq(Frames) \ {<<>>}
      BY <2>1, <3>1, AppendProperties
    <3> QED BY <1>1, <2>1, <3>1, <3>2 DEF TxWrite, Inv, Types
  <2>3. Types'
    BY <1>1, <2>1, <2>2 DEF TxWrite, Inv, Types, handler, settled, bounds
  <2>4. Hands'
    BY <1>1, <2>2 DEF TxWrite, Inv, Types, Hands, handler
  <2> QED BY <1>1, <2>3, <2>4, WriteMoves, InvParts
<1>2. CASE \E S \in SUBSET unkicked : TxKickOff(S)
  <2>1. Types' /\ Hands'
    BY <1>2 DEF TxKickOff, Inv, Types, Hands, handler, settled, bounds
  <2> QED BY <1>2, <2>1, NoMove, InvParts DEF TxKickOff, handler
<1>3. CASE WakeTxQueue \/ CoreTxWork
  <2>1. Types' /\ Hands'
    BY <1>3 DEF WakeTxQueue, CoreTxWork, Inv, Types, Hands, handler, settled, bounds
  <2> QED BY <1>3, <2>1, NoMove, InvParts DEF WakeTxQueue, CoreTxWork, handler
<1> QED BY <1>1, <1>2, <1>3

(* ... the handler's, ...                                                  *)
LEMMA HandlerInv ==
  ASSUME Inv, Handler
  PROVE  Stepped
<1> USE DEF mac, settled, bounds, handler
<1>1. CASE HandlerStart
  <2>1. Types' /\ Hands'
    <3>1. Eps - 1 \in Queues
      BY UsbTxAssumption DEF Queues
    <3> QED BY <1>1, <3>1 DEF HandlerStart, Inv, Types, Hands, Drained
  <2> QED BY <1>1, <2>1, NoMove, InvParts DEF HandlerStart, Inv, Hands
<1>2. CASE HandlerNext \/ AggBegin
  <2>1. hpc = "loop" /\ head = NULL /\ ack = <<>>
    BY <1>2 DEF HandlerNext, AggBegin, Inv, Hands
  <2>2. hpc' \in {"idle", "loop", "dequeue"} /\ hq' \in Queues /\ hlimit' \in Nat
        /\ (hpc' = "dequeue" => hq' = hq /\ tx_queue[hq] # <<>>)
    <3>1. hq # 0 => hq - 1 \in Queues
      BY UsbTxAssumption DEF Inv, Types, Queues
    <3> QED BY <1>2, <3>1 DEF HandlerNext, AggBegin, LeaveQueue, Inv, Types
  <2>3. UNCHANGED <<mac, tx_queue, tx_work, head, ack, urbs, settled, sent, ep_enabled, phase>>
        /\ faults' \in Nat /\ no_txcb' \in Nat
    BY <1>2 DEF HandlerNext, AggBegin, NoTxcb, Inv, Types
  <2>4. Types'
    BY <2>2, <2>3 DEF Inv, Types
  <2>5. Hands'
    BY <2>1, <2>2, <2>3 DEF Inv, Hands
  <2> QED BY <2>1, <2>3, <2>4, <2>5, NoMove, InvParts
<1>3. CASE AggDequeue
  <2>1. /\ hq \in Queues /\ tx_queue[hq] \in Seq(Frames) /\ tx_queue[hq] # <<>>
        /\ Hand = <<>> /\ head = NULL /\ ack = <<>> /\ phase \notin Drained
    BY <1>3, UsbTxAssumption DEF AggDequeue, Inv, Types, Hands, Hand, Frames
  <2> DEFINE x == Head(tx_queue[hq])
  <2>2. x \in Frames /\ Tail(tx_queue[hq]) \in Seq(Frames)
    BY <2>1, TailElements
  <2>3. /\ tx_queue' = [tx_queue EXCEPT ![hq] = Tail(@)]
        /\ \/ hpc' = "more" /\ head' = AGG /\ ack' = <<x>>
           \/ hpc' = "queue" /\ head' = x /\ ack' = <<>>
        /\ faults' \in Nat /\ no_txcb' \in Nat
        /\ UNCHANGED <<mac, tx_work, hq, hlimit, urbs, settled, sent, ep_enabled, phase>>
    BY <1>3, <2>1 DEF AggDequeue, Fault, Inv, Types
  <2> HIDE DEF x
  <2>4. Hand' = Append(<<>>, x)
    <3>1. AGG \notin Frames /\ Append(<<>>, x) = <<x>>
      BY UsbTxAssumption DEF Frames
    <3>2. CASE head' = AGG /\ ack' = <<x>>
      BY <3>1, <3>2 DEF Hand
    <3>3. CASE head' = x /\ ack' = <<>>
      BY <2>2, <3>3 DEF Hand
    <3> QED BY <2>3, <3>2, <3>3
  <2>5. SetOf(Hand') = SetOf(Hand) \union {x} /\ Ascending(Hand')
    <3>1. <<>> \in Seq(Frames) /\ Ascending(<<>>) /\ \A y \in SetOf(<<>>) : y < x
      BY EmptyElements
    <3> QED BY <2>1, <2>2, <2>4, <3>1, AppendElements
  <2>6. Types'
    <3>1. <<x>> \in Seq(Frames) /\ <<>> \in Seq(Frames)
      BY <2>2
    <3> QED BY <2>1, <2>2, <2>3, <3>1 DEF Inv, Types
  <2>7. Hands'
    BY <2>1, <2>2, <2>3, UsbTxAssumption DEF Inv, Hands, Frames, Drained
  <2>8. Advance
    BY <2>1, <2>3, <2>5, ToHand DEF x
  <2> QED BY <2>6, <2>7, <2>8, InvParts
<1>4. CASE AggMore
  <2>1. /\ hpc = "more" /\ head = AGG /\ Hand = ack /\ head \notin Frames /\ AGG # NULL
        /\ hq \in Queues /\ tx_queue[hq] \in Seq(Frames) /\ ack \in Seq(Frames)
        /\ UNCHANGED <<mac, tx_work, hq, hlimit, head, urbs, settled, sent, ep_enabled, phase,
                      bounds>>
        /\ phase \notin Drained
    BY <1>4, UsbTxAssumption DEF AggMore, Inv, Types, Hands, Hand, Frames
  <2>2. CASE hpc' = "queue" /\ UNCHANGED <<ack, tx_queue>>
    <3>1. Types' /\ Hands'
      BY <2>1, <2>2 DEF Inv, Types, Hands
    <3> QED BY <2>1, <2>2, <3>1, NoMove, InvParts
  <2>3. CASE /\ tx_queue[hq] # <<>> /\ UNCHANGED hpc
             /\ ack' = Append(ack, Head(tx_queue[hq]))
             /\ tx_queue' = [tx_queue EXCEPT ![hq] = Tail(@)]
    <3>1. Head(tx_queue[hq]) \in Frames /\ Tail(tx_queue[hq]) \in Seq(Frames)
      BY <2>1, <2>3, TailElements
    <3>2. Hand' = Append(Hand, Head(tx_queue[hq]))
      BY <2>1, <2>3 DEF Hand
    <3>3. \A y \in SetOf(Hand) : y < Head(tx_queue[hq])
      <4>1. Before(SetOf(Hand), SetOf(tx_queue[hq]))
        BY <2>1, InDriverFrames DEF Inv, InOrder
      <4>2. Head(tx_queue[hq]) \in SetOf(tx_queue[hq])
        BY <2>1, <2>3, TailElements
      <4> QED BY <4>1, <4>2 DEF Before
    <3>4. Ascending(Hand)
      BY <2>1, InDriverFrames DEF Inv, InOrder
    <3>5. SetOf(Hand') = SetOf(Hand) \union {Head(tx_queue[hq])} /\ Ascending(Hand')
      BY <2>1, <3>1, <3>2, <3>3, <3>4, AppendElements
    <3>6. Advance
      BY <2>1, <2>3, <3>5, ToHand
    <3>7. Types'
      <4>1. ack' \in Seq(Frames)
        BY <2>1, <2>3, <3>1, AppendProperties
      <4> QED BY <2>1, <2>3, <3>1, <4>1 DEF Inv, Types
    <3>8. Hands'
      BY <2>1, <2>3 DEF Inv, Hands
    <3> QED BY <3>6, <3>7, <3>8, InvParts
  <2> QED BY <1>4, <2>2, <2>3 DEF AggMore
<1>5. CASE AggSubmit
  <2>1. TxAckQueue = Hand /\ Hand \in Seq(Frames) /\ hq \in Queues /\ phase \notin Drained
    <3>1. hpc = "queue" /\ head \in Frames \union {AGG}
      BY <1>5 DEF AggSubmit, Inv, Types, Hands
    <3>2. AGG \notin Frames
      BY UsbTxAssumption DEF Frames
    <3>3. TxAckQueue = Hand
      BY <3>1, <3>2 DEF TxAckQueue, Hand
    <3>4. phase \notin Drained /\ hq \in Queues
      BY <3>1 DEF Inv, Hands, Types
    <3> QED BY <3>3, <3>4, InDriverFrames
  <2>2. /\ hpc' = "loop" /\ hlimit' = hlimit + 1 /\ head' = NULL /\ ack' = <<>>
        /\ UNCHANGED <<mac, tx_queue, tx_work, hq, tx_report, sent, ep_enabled, phase>>
        /\ faults' \in Nat /\ no_txcb' \in Nat
    BY <1>5 DEF AggSubmit, Fault, Inv, Types
  <2>3. CASE /\ urbs' = [urbs EXCEPT ![hq] = Append(@, [frames |-> Hand, st |-> "active"])]
             /\ UNCHANGED outcome
    <3>1. urbs' \in [Queues -> Seq(Txcb)]
      <4>1. [frames |-> Hand, st |-> "active"] \in Txcb
        BY <2>1 DEF Txcb
      <4>2. Append(urbs[hq], [frames |-> Hand, st |-> "active"]) \in Seq(Txcb)
        BY <2>1, <4>1, AppendProperties DEF Inv, Types
      <4> QED BY <2>3, <4>2 DEF Inv, Types
    <3>2. Types' /\ Hands'
      BY <2>1, <2>2, <2>3, <3>1 DEF Inv, Types, Hands, Drained
    <3> QED BY <2>2, <2>3, <3>2, ToUrb, InvParts
  <2>4. CASE Settle(SetOf(Hand), "free") /\ UNCHANGED urbs
    <3>1. outcome' \in [Frames -> Outcomes]
      BY <2>4, SettleTypes
    <3>2. Types' /\ Hands'
      BY <2>1, <2>2, <2>4, <3>1 DEF Inv, Types, Hands
    <3> QED BY <2>2, <2>4, <3>2, HandLeaves, InvParts
  <2> QED BY <1>5, <2>1, <2>3, <2>4 DEF AggSubmit
<1> QED BY <1>1, <1>2, <1>3, <1>4, <1>5 DEF Handler

(* ... the callbacks', the firmware's and the timer's, ...                 *)
LEMMA CallbackInv ==
  ASSUME Inv,
         \/ \E q \in Queues : TxComplete(q) \/ \E i \in DOMAIN urbs[q] : Giveback(q, i)
         \/ \E f \in Frames, how \in {"ack", "noack"} : TxReport(f, how)
         \/ PurgeTimer
  PROVE  Stepped
<1> USE DEF mac, settled, bounds, handler
<1>1. CASE \E q \in Queues : TxComplete(q)
  <2>1. PICK q \in Queues : TxComplete(q)
    BY <1>1
  <2>2. Advance /\ urbs' \in [Queues -> Seq(Txcb)]
        /\ tx_report' \subseteq Frames /\ outcome' \in [Frames -> Outcomes]
    BY <2>1, CompleteMoves
  <2>3. Types'
    BY <2>1, <2>2 DEF TxComplete, Inv, Types
  <2>4. Hands'
    BY <2>1 DEF TxComplete, Inv, Hands, Types
  <2> QED BY <2>2, <2>3, <2>4, InvParts
<1>2. CASE \E q \in Queues : \E i \in DOMAIN urbs[q] : Giveback(q, i)
  <2>1. PICK q \in Queues : \E i \in DOMAIN urbs[q] : Giveback(q, i)
    BY <1>2
  <2>2. PICK i \in DOMAIN urbs[q] : Giveback(q, i)
    BY <2>1
  <2>3. Advance /\ urbs' \in [Queues -> Seq(Txcb)]
        /\ sent' \in {sent, sent \union SetOf(urbs[q][i].frames)}
        /\ SetOf(urbs[q][i].frames) \subseteq InUrbs
        /\ \A r \in Queues : urbs[r] = <<>> => urbs'[r] = <<>>
    BY <2>2, GivebackMoves
  <2>4. sent' \subseteq Frames
    BY <2>3, InDriverFrames DEF Inv, Types
  <2>5. /\ UNCHANGED <<mac, tx_queue, tx_work, handler, settled, ep_enabled, phase>>
        /\ faults' \in Nat /\ no_txcb' \in Nat
    BY <2>2 DEF Giveback, Fault, Inv, Types
  <2>6. Types'
    BY <2>3, <2>4, <2>5 DEF Inv, Types
  <2>7. Hands'
    BY <2>3, <2>5 DEF Inv, Hands
  <2> QED BY <2>3, <2>6, <2>7, InvParts
<1>3. CASE \E f \in Frames, how \in {"ack", "noack"} : TxReport(f, how)
  <2>1. PICK f \in Frames, how \in {"ack", "noack"} : TxReport(f, how)
    BY <1>3
  <2>2. Advance
    BY <2>1, ReportMoves DEF TxReport
  <2>3. outcome' \in [Frames -> Outcomes]
    BY <2>1, SettleTypes DEF TxReport
  <2>4. Types' /\ Hands'
    BY <2>1, <2>3 DEF TxReport, Inv, Types, Hands
  <2> QED BY <2>2, <2>4, InvParts
<1>4. CASE PurgeTimer
  <2>1. tx_report' = tx_report \ tx_report
    BY <1>4 DEF PurgeTimer
  <2>2. Advance
    BY <1>4, <2>1, ReportMoves DEF PurgeTimer
  <2>3. outcome' \in [Frames -> Outcomes]
    BY <1>4, SettleTypes DEF PurgeTimer
  <2>4. Types' /\ Hands'
    BY <1>4, <2>3 DEF PurgeTimer, Inv, Types, Hands
  <2> QED BY <2>2, <2>4, InvParts
<1> QED BY <1>1, <1>2, <1>3, <1>4

(* ... and those of disconnect.                                            *)
LEMMA DisconnectInv ==
  ASSUME Inv, ~EARLY_PURGE, UsbUnbind \/ Disconnect
  PROVE  Stepped
<1> USE DEF mac, settled, bounds, handler, Step, Only
<1>1. CASE \/ UsbUnbind \/ UsbFlushed \/ UnregisterHw \/ Unregistered
           \/ DeinitPurgeEarly \/ DestroyTxWq \/ KillAnchored
  <2>1. UNCHANGED <<next, tx_queue, urbs, settled, sent, handler>>
    BY <1>1 DEF UsbUnbind, UsbFlushed, UnregisterHw, Unregistered, DeinitPurgeEarly,
                DestroyTxWq, KillAnchored
  <2>2. UNCHANGED <<mac, tx_work, bounds>> /\ ep_enabled' \in BOOLEAN /\ phase' \in Phases
    BY <1>1 DEF UsbUnbind, UsbFlushed, UnregisterHw, Unregistered, DeinitPurgeEarly,
                DestroyTxWq, KillAnchored, Inv, Types, Phases
  <2>3. Types'
    BY <2>1, <2>2 DEF Inv, Types
  <2>4. Hands'
    <3>1. CASE UsbUnbind \/ UsbFlushed \/ UnregisterHw \/ Unregistered \/ DeinitPurgeEarly
      <4>1. phase' \notin Drained
        BY <3>1 DEF UsbUnbind, UsbFlushed, UnregisterHw, Unregistered, DeinitPurgeEarly, Drained
      <4> QED BY <2>1, <4>1 DEF Inv, Hands, Drained
    <3>2. CASE DestroyTxWq
      BY <2>1, <3>2 DEF DestroyTxWq, Inv, Hands, Drained
    <3>3. CASE KillAnchored
      <4>1. phase = "kill" /\ phase' = "purge" /\ \A q \in Queues : urbs[q] = <<>>
        BY <3>3 DEF KillAnchored
      <4> QED BY <2>1, <4>1 DEF Inv, Hands, Drained
    <3> QED BY <1>1, <3>1, <3>2, <3>3
  <2> QED BY <2>1, <2>3, <2>4, NoMove, InvParts
<1>2. CASE DeinitPurge
  <2>1. PurgeQueues /\ phase = "purge" /\ phase' = "core_deinit"
        /\ UNCHANGED <<mac, tx_work, handler, urbs, sent, bounds>>
    BY <1>2 DEF DeinitPurge
  <2>2. Advance
    BY <2>1, PurgeMoves
  <2>3. outcome' \in [Frames -> Outcomes]
    BY <2>1, SettleTypes DEF PurgeQueues
  <2>4. tx_queue' \in [Queues -> Seq(Frames)]
    BY <2>1 DEF PurgeQueues
  <2>5. Types'
    BY <2>1, <2>3, <2>4 DEF PurgeQueues, Inv, Types, Phases
  <2>6. Hands'
    BY <2>1 DEF Inv, Hands, Drained
  <2> QED BY <2>2, <2>5, <2>6, InvParts
<1>3. CASE CoreDeinit
  <2>1. tx_report' = tx_report \ tx_report /\ Settle(tx_report, "free")
        /\ UNCHANGED <<mac, tx_queue, tx_work, handler, urbs, sent, bounds, ep_enabled>>
        /\ phase = "core_deinit" /\ phase' = "done"
    BY <1>3 DEF CoreDeinit
  <2>2. Advance
    BY <2>1, ReportMoves
  <2>3. outcome' \in [Frames -> Outcomes]
    BY <2>1, SettleTypes
  <2>4. Types'
    BY <2>1, <2>3 DEF Inv, Types, Phases
  <2>5. Hands'
    BY <2>1 DEF Inv, Hands, Drained
  <2> QED BY <2>2, <2>4, <2>5, InvParts
<1> QED BY <1>1, <1>2, <1>3 DEF Disconnect

LEMMA InitInv == Init => Inv
<1> SUFFICES ASSUME Init PROVE Inv
  OBVIOUS
<1> USE UsbTxAssumption DEF Init
<1>1. Types
  <2>1. 0 \in Queues /\ next \in 1..(N + 1) /\ phase \in Phases
    BY DEF Queues, Phases
  <2> QED BY <2>1 DEF Types, Outcomes
<1>2. Hands
  BY DEF Hands, Drained
<1>3. Hand = <<>> /\ \A q \in Queues : HandOf(q) = <<>>
  BY DEF Hand, HandOf, Frames
<1>4. InOrder /\ OwnEndpoint
  BY <1>3, EmptyElements DEF InOrder, OwnEndpoint, Of, Before
<1>5. Queued = {} /\ SetOf(Hand) = {} /\ InUrbs = {} /\ Settled = {}
  BY <1>3, EmptyElements DEF Queued, InUrbs, Settled
<1>6. Accounted /\ OnAir
  BY <1>5 DEF Accounted, OnAir, InDriver
<1> QED BY <1>1, <1>2, <1>4, <1>6 DEF Inv

LEMMA NextInv ==
  ASSUME ~EARLY_PURGE, Inv, [Next]_vars
  PROVE  Stepped
<1>1. CASE UNCHANGED vars
  <2> USE <1>1 DEF vars, mac, settled, bounds, handler
  <2>1. Types' /\ Hands'
    BY DEF Inv, Types, Hands
  <2> QED BY <2>1, NoMove, InvParts
<1>2. CASE \/ TxWrite \/ (\E S \in SUBSET unkicked : TxKickOff(S)) \/ WakeTxQueue \/ CoreTxWork
  BY <1>2, MacInv
<1>3. CASE Handler
  BY <1>3, HandlerInv
<1>4. CASE \/ \E q \in Queues : TxComplete(q) \/ \E i \in DOMAIN urbs[q] : Giveback(q, i)
           \/ \E f \in Frames, how \in {"ack", "noack"} : TxReport(f, how)
           \/ PurgeTimer
  BY <1>4, CallbackInv
<1>5. CASE UsbUnbind \/ Disconnect
  BY <1>5, DisconnectInv
<1> QED BY <1>1, <1>2, <1>3, <1>4, <1>5 DEF Next, Terminated

LEMMA AlwaysInv ==
  ASSUME ~EARLY_PURGE
  PROVE  Spec => []Inv
<1>1. Inv /\ [Next]_vars => Inv'
  BY NextInv DEF Stepped
<1> QED BY <1>1, InitInv, PTL DEF Spec

(* rtw_usb_tx_agg_skb: frames leave an endpoint in the order mac80211      *)
(* wrote them, for any number of frames and endpoints.                     *)
THEOREM FramesInOrder ==
  ASSUME ~EARLY_PURGE
  PROVE  Spec => []InOrder
<1>1. Inv => InOrder
  BY DEF Inv
<1> QED BY <1>1, AlwaysInv, PTL

(* rtw_usb_deinit_tx: handler and URBs are gone before the state is.       *)
THEOREM QuiescedFirst ==
  ASSUME ~EARLY_PURGE
  PROVE  Spec => []QuiescedBeforeFree
<1>1. Inv => QuiescedBeforeFree
  BY DEF Inv, Hands, Drained, QuiescedBeforeFree
<1> QED BY <1>1, AlwaysInv, PTL


(* rtw_usb_tx_agg_skb, rtw_usb_write_port: only a frame just written       *)
(* enters a queue, only a queued one the handler's hands, and only one     *)
(* from there a transfer: a refused submission is not sent again.          *)
THEOREM NeverReplayed ==
  ASSUME ~EARLY_PURGE
  PROVE  Spec => NoReplay
<1>1. Inv /\ [Next]_vars => Forward
  BY NextInv DEF Stepped
<1>2. Inv /\ [Next]_vars =>
        [/\ Queued' \subseteq Queued \union (next..N)
         /\ SetOf(Hand)' \subseteq SetOf(Hand) \union Queued
         /\ InUrbs' \subseteq InUrbs \union SetOf(Hand)]_vars
  BY <1>1 DEF Forward
<1> QED BY <1>2, AlwaysInv, PTL DEF Spec, NoReplay

(* rtw_usb_write_port_tx_status, rtw_tx_report_handle and the purges       *)
(* implement what the driver owes mac80211 for a frame.                    *)
THEOREM CustodyKept ==
  ASSUME ~EARLY_PURGE
  PROVE  Spec => ImplementsCustody
<1>1. Init => Custody!Init
  BY DEF Init, Custody!Init
<1>2. Inv /\ [Next]_vars => [Custody!Next]_(Custody!vars)
  BY NextInv DEF Stepped, Kept
<1> QED BY <1>1, <1>2, AlwaysInv, PTL DEF Spec, ImplementsCustody, Custody!Spec

----------------------------------------------------------------------------
(* One place for each frame: in an ascending sequence it has one position, *)
(* and no two sequences share a frame.                                     *)
LEMMA PositionOf ==
  ASSUME NEW s \in Seq(Frames), Ascending(s), NEW f
  PROVE  /\ f \notin SetOf(s) => Positions(s, f) = {}
         /\ f \in SetOf(s) => \E i \in DOMAIN s : Positions(s, f) = {i}
<1>1. f \notin SetOf(s) => Positions(s, f) = {}
  BY DEF SetOf, Positions
<1>2. ASSUME f \in SetOf(s)
      PROVE  \E i \in DOMAIN s : Positions(s, f) = {i}
  <2>1. PICK i \in DOMAIN s : s[i] = f
    BY <1>2 DEF SetOf
  <2>2. ASSUME NEW j \in DOMAIN s, s[j] = f
        PROVE  j = i
    <3>1. i \in Nat /\ j \in Nat /\ s[i] \in Nat /\ s[j] \in Nat
      BY UsbTxAssumption, ElementOfSeq, LenProperties DEF Frames
    <3>2. ~(i < j) /\ ~(j < i)
      BY <2>1, <2>2, <3>1 DEF Ascending
    <3> QED BY <3>1, <3>2
  <2> QED BY <2>1, <2>2 DEF Positions
<1> QED BY <1>1, <1>2

LEMMA QueuePlace ==
  ASSUME Inv, NEW f \in Frames
  PROVE  /\ f \notin Queued => QueuePlaces(f) = {}
         /\ f \in Queued => \E p : QueuePlaces(f) = {p}
<1>1. \A q \in Queues : tx_queue[q] \in Seq(Frames) /\ Ascending(tx_queue[q])
  BY DEF Inv, Types, InOrder
<1>2. \A q \in Queues : f \notin SetOf(tx_queue[q]) => Positions(tx_queue[q], f) = {}
  BY <1>1, PositionOf
<1>3. f \notin Queued => QueuePlaces(f) = {}
  BY <1>2 DEF Queued, QueuePlaces
<1>4. ASSUME f \in Queued
      PROVE  \E p : QueuePlaces(f) = {p}
  <2>1. PICK q \in Queues : f \in SetOf(tx_queue[q])
    BY <1>4 DEF Queued
  <2>2. PICK i \in DOMAIN tx_queue[q] : Positions(tx_queue[q], f) = {i}
    BY <1>1, <2>1, PositionOf
  <2>3. \A r \in Queues : r # q => f \notin SetOf(tx_queue[r])
    BY <2>1 DEF Inv, OwnEndpoint, Of
  <2>4. \A r \in Queues : r # q => Positions(tx_queue[r], f) = {}
    BY <1>2, <2>3
  <2>5. QueuePlaces(f) = {<<"queue", q, i, 0>>}
    BY <2>2, <2>4 DEF QueuePlaces
  <2> QED BY <2>5
<1> QED BY <1>3, <1>4

LEMMA HandPlace ==
  ASSUME Inv, NEW f \in Frames
  PROVE  /\ f \notin SetOf(Hand) => HandPlaces(f) = {}
         /\ f \in SetOf(Hand) => \E p : HandPlaces(f) = {p}
<1>1. Hand \in Seq(Frames) /\ Ascending(Hand)
  BY InDriverFrames DEF Inv, InOrder, Types
<1>2. f \notin SetOf(Hand) => HandPlaces(f) = {}
  BY <1>1, PositionOf DEF HandPlaces
<1>3. ASSUME f \in SetOf(Hand)
      PROVE  \E p : HandPlaces(f) = {p}
  <2>1. PICK i \in DOMAIN Hand : Positions(Hand, f) = {i}
    BY <1>1, <1>3, PositionOf
  <2>2. HandPlaces(f) = {<<"hand", 0, i, 0>>}
    BY <2>1 DEF HandPlaces
  <2> QED BY <2>2
<1> QED BY <1>2, <1>3

LEMMA UrbPlace ==
  ASSUME Inv, NEW f \in Frames
  PROVE  /\ f \notin InUrbs => UrbPlaces(f) = {}
         /\ f \in InUrbs => \E p : UrbPlaces(f) = {p}
<1> DEFINE F(q, i) == urbs[q][i].frames
<1>1. \A q \in Queues : \A i \in DOMAIN urbs[q] :
        F(q, i) \in Seq(Frames) /\ Ascending(F(q, i)) /\ SetOf(F(q, i)) \subseteq InTransfer(urbs[q])
  BY UrbElements DEF Inv, Types, InOrder, UrbsAscend
<1>2. \A q, r \in Queues : \A i \in DOMAIN urbs[q] : \A j \in DOMAIN urbs[r] :
        q # r \/ i # j => SetOf(F(q, i)) \intersect SetOf(F(r, j)) = {}
  BY Distinct
<1>3. \A q \in Queues : \A i \in DOMAIN urbs[q] : f \in SetOf(F(q, i)) => f \in InUrbs
  BY <1>1 DEF InUrbs
<1>4. f \in InUrbs => \E q \in Queues : \E i \in DOMAIN urbs[q] : f \in SetOf(F(q, i))
  BY DEF InUrbs, InTransfer
<1>5. UrbPlaces(f) = UNION {UNION {{<<"urb", q, i, j>> : j \in Positions(F(q, i), f)}
                                     : i \in DOMAIN urbs[q]} : q \in Queues}
  BY DEF UrbPlaces
<1> HIDE DEF F
<1>6. \A q \in Queues : \A i \in DOMAIN urbs[q] :
        f \notin SetOf(F(q, i)) => Positions(F(q, i), f) = {}
  BY <1>1, PositionOf
<1>7. f \notin InUrbs => UrbPlaces(f) = {}
  BY <1>3, <1>5, <1>6
<1>8. ASSUME f \in InUrbs
      PROVE  \E p : UrbPlaces(f) = {p}
  <2>1. PICK q \in Queues : \E i \in DOMAIN urbs[q] : f \in SetOf(F(q, i))
    BY <1>4, <1>8
  <2>2. PICK i \in DOMAIN urbs[q] : f \in SetOf(F(q, i))
    BY <2>1
  <2>3. PICK j : Positions(F(q, i), f) = {j}
    BY <1>1, <2>2, PositionOf
  <2>4. \A r \in Queues : \A k \in DOMAIN urbs[r] : r # q \/ k # i => Positions(F(r, k), f) = {}
    <3>1. \A r \in Queues : \A k \in DOMAIN urbs[r] : r # q \/ k # i => f \notin SetOf(F(r, k))
      BY <1>2, <2>2
    <3> QED BY <1>6, <3>1
  <2>5. UrbPlaces(f) \subseteq {<<"urb", q, i, j>>}
    BY <1>5, <2>3, <2>4
  <2>6. <<"urb", q, i, j>> \in UrbPlaces(f)
    BY <1>5, <2>3
  <2>7. UrbPlaces(f) = {<<"urb", q, i, j>>}
    BY <2>5, <2>6
  <2> QED BY <2>7
<1> QED BY <1>7, <1>8

LEMMA OnePlace ==
  ASSUME Inv, NEW f \in Frames
  PROVE  Cardinality(PlacesOf(f)) = IF f < next THEN 1 ELSE 0
<1> DEFINE R == IF f \in tx_report THEN {<<"report", 0, 0, 0>>} ELSE {}
           S == IF outcome[f] # "none" THEN {<<"settled", 0, 0, 0>>} ELSE {}
<1>1. PlacesOf(f) = QueuePlaces(f) \union HandPlaces(f) \union UrbPlaces(f) \union R \union S
  BY DEF PlacesOf
<1>2. /\ f \notin tx_report => R = {}
      /\ f \in tx_report => \E p : R = {p}
      /\ f \notin Settled => S = {}
      /\ f \in Settled => \E p : S = {p}
  BY DEF Settled
<1> HIDE DEF R, S
<1>3. f < next <=> f \in 1..(next - 1)
  BY UsbTxAssumption DEF Inv, Types, Frames
<1>4. CASE f < next
  <2>1. f \in Queued \union SetOf(Hand) \union InUrbs \union tx_report \union Settled
    BY <1>3, <1>4 DEF Inv, Accounted, InDriver
  <2>2. InDriver \intersect (tx_report \union Settled) = {} /\ tx_report \intersect Settled = {}
    BY DEF Inv, Accounted
  <2>3. \E p : PlacesOf(f) = {p}
    BY <1>1, <1>2, <2>1, <2>2, Distinct, InDriverFrames, QueuePlace, HandPlace, UrbPlace
  <2> QED BY <1>4, <2>3, FS_Singleton
<1>5. CASE ~(f < next)
  <2>1. f \notin Queued \union SetOf(Hand) \union InUrbs \union tx_report \union Settled
    BY <1>3, <1>5 DEF Inv, Accounted, InDriver
  <2>2. PlacesOf(f) = {}
    BY <1>1, <1>2, <2>1, QueuePlace, HandPlace, UrbPlace
  <2> QED BY <1>5, <2>2, FS_EmptySet
<1> QED BY <1>4, <1>5

(* A frame written is in exactly one place until it is given back, once.   *)
THEOREM EachFrameOnce ==
  ASSUME ~EARLY_PURGE
  PROVE  Spec => []ExactlyOnePlace
<1>1. Inv => ExactlyOnePlace
  BY OnePlace DEF ExactlyOnePlace
<1> QED BY <1>1, AlwaysInv, PTL

----------------------------------------------------------------------------
(* What the handler has before it; ...                                     *)
Plan == <<next, tx_queue, hpc, hq, hlimit>>

Others ==
  \/ \E S \in SUBSET unkicked : TxKickOff(S)
  \/ WakeTxQueue \/ CoreTxWork
  \/ \E q \in Queues : TxComplete(q) \/ \E i \in DOMAIN urbs[q] : Giveback(q, i)
  \/ \E f \in Frames, how \in {"ack", "noack"} : TxReport(f, how)
  \/ PurgeTimer
  \/ UsbUnbind \/ UsbFlushed \/ UnregisterHw \/ Unregistered \/ DeinitPurgeEarly
  \/ DestroyTxWq \/ KillAnchored \/ CoreDeinit
  \/ UNCHANGED vars

LEMMA OthersLeavePlan ==
  ASSUME ~EARLY_PURGE, Others
  PROVE  /\ UNCHANGED <<Plan, no_txcb>> /\ (phase' = "up" => phase = "up")
         /\ tx_work' = TRUE \/ UNCHANGED <<tx_work, unkicked>>
<1> USE DEF mac, settled, bounds, handler, Step, Only, Plan
<1>1. CASE (\E S \in SUBSET unkicked : TxKickOff(S)) \/ WakeTxQueue \/ CoreTxWork
  BY <1>1 DEF TxKickOff, WakeTxQueue, CoreTxWork
<1>2. CASE \E q \in Queues : TxComplete(q)
  BY <1>2 DEF TxComplete
<1>3. CASE \E q \in Queues : \E i \in DOMAIN urbs[q] : Giveback(q, i)
  BY <1>3 DEF Giveback, Fault
<1>4. CASE (\E f \in Frames, how \in {"ack", "noack"} : TxReport(f, how)) \/ PurgeTimer
  BY <1>4 DEF TxReport, PurgeTimer
<1>5. CASE UsbUnbind \/ UsbFlushed \/ UnregisterHw \/ Unregistered \/ DeinitPurgeEarly
  BY <1>5 DEF UsbUnbind, UsbFlushed, UnregisterHw, Unregistered, DeinitPurgeEarly
<1>6. CASE DestroyTxWq \/ KillAnchored \/ CoreDeinit
  BY <1>6 DEF DestroyTxWq, KillAnchored, CoreDeinit
<1>7. CASE UNCHANGED vars
  BY <1>7 DEF vars
<1> QED BY <1>1, <1>2, <1>3, <1>4, <1>5, <1>6, <1>7 DEF Others

LEMMA QueueLengths ==
  ASSUME Inv
  PROVE  /\ \A q \in Queues : Len(tx_queue[q]) \in Nat
         /\ \A q \in Queues : tx_queue[q] = <<>> <=> Len(tx_queue[q]) = 0
         /\ hq \in Queues /\ hlimit \in Nat /\ next \in Nat
  BY UsbTxAssumption, EmptySeq, LenProperties DEF Inv, Types

(* the handler's steps: one of its queue is taken, or it changes the queue *)
LEMMA TakenFromQueue ==
  ASSUME Inv, AggDequeue \/ (AggMore /\ UNCHANGED hpc)
  PROVE  /\ \/ tx_queue[hq] # <<>> /\ tx_queue'[hq] = Tail(tx_queue[hq])
            \/ hpc = "more" /\ UNCHANGED tx_queue
         /\ \A q \in Queues \ {hq} : tx_queue'[q] = tx_queue[q]
         /\ SetOf(tx_queue'[hq]) \subseteq SetOf(tx_queue[hq])
<1>1. hq \in Queues /\ tx_queue[hq] \in Seq(Frames)
  BY DEF Inv, Types
<1>2. CASE tx_queue' = [tx_queue EXCEPT ![hq] = Tail(@)] /\ tx_queue[hq] # <<>>
  <2>1. tx_queue'[hq] = Tail(tx_queue[hq]) /\ \A q \in Queues \ {hq} : tx_queue'[q] = tx_queue[q]
    BY <1>1, <1>2 DEF Inv, Types
  <2> QED BY <1>1, <1>2, <2>1, TailElements
<1>3. CASE UNCHANGED tx_queue /\ hpc = "more"
  BY <1>3
<1>4. AggDequeue => tx_queue[hq] # <<>> /\ tx_queue' = [tx_queue EXCEPT ![hq] = Tail(@)]
  BY <1>1 DEF AggDequeue, Inv, Hands
<1> QED BY <1>2, <1>3, <1>4 DEF AggMore

LEMMA LimitsStep ==
  ASSUME ~EARLY_PURGE, ShortQueues, Inv, Limits, [Next]_vars
  PROVE  Limits'
<1> USE DEF handler, Plan
<1>0. /\ hq \in Queues /\ tx_queue[hq] \in Seq(Frames) /\ hlimit \in Nat
      /\ Len(tx_queue[hq]) \in Nat /\ DOMAIN tx_queue[hq] = 1..Len(tx_queue[hq])
      /\ LIMIT \in Nat /\ Taken \in Nat
  BY QueueLengths, LenProperties, UsbTxAssumption DEF Inv, Types, Taken
<1>1. CASE Others
  <2>1. UNCHANGED <<tx_queue, hpc, hq, hlimit>> /\ Taken' = Taken
    BY <1>1, OthersLeavePlan DEF Taken
  <2>2. tx_work' = TRUE \/ UNCHANGED <<tx_work, unkicked>>
    BY <1>1, OthersLeavePlan
  <2> QED BY <2>1, <2>2 DEF Limits
<1>2. CASE TxWrite
  <2>1. /\ next \in Frames /\ EP[next] \in Queues
        /\ tx_queue'[hq] = IF hq = EP[next] THEN Append(tx_queue[hq], next) ELSE tx_queue[hq]
    BY <1>2, UsbTxAssumption DEF TxWrite, Inv, Types, Frames
  <2>2. UNCHANGED <<hpc, hq, hlimit, tx_work>> /\ unkicked' = unkicked \union {next}
        /\ Taken' = Taken
    BY <1>2 DEF TxWrite, Taken
  <2>3. \A i \in DOMAIN tx_queue'[hq] :
          \/ i \in DOMAIN tx_queue[hq] /\ tx_queue'[hq][i] = tx_queue[hq][i]
          \/ tx_queue'[hq][i] = next
    BY <1>0, <2>1, AppendProperties, LenProperties
  <2> QED BY <2>2, <2>3 DEF Limits
<1>3. CASE HandlerStart
  <2>1. /\ hpc = "idle" /\ hpc' = "loop" /\ hq' = Eps - 1 /\ UNCHANGED <<tx_queue, hlimit>>
        /\ Eps - 1 \in Queues
    BY <1>3, UsbTxAssumption DEF HandlerStart, Queues
  <2>2. Taken' = 0
    BY <2>1 DEF Taken, Limits
  <2>3. \A i \in DOMAIN tx_queue[hq'] : 0 + i <= LIMIT
    BY <1>0, <2>1, QueueLengths, LenProperties DEF Inv, Types, ShortQueues
  <2> QED BY <2>1, <2>2, <2>3 DEF Limits
<1>4. CASE HandlerNext \/ AggBegin
  <2>1. UNCHANGED <<unkicked, tx_queue, tx_work>> /\ hpc = "loop"
    BY <1>4 DEF HandlerNext, AggBegin, mac
  <2>2. CASE hpc' = "dequeue" /\ UNCHANGED <<hq, hlimit>>
    <3>1. Taken' = Taken
      BY <2>1, <2>2 DEF Taken
    <3> QED BY <2>1, <2>2, <3>1 DEF Limits
  <2>3. CASE LeaveQueue
    <3>1. hlimit' = 0 /\ hq' \in Queues /\ hpc' \in {"idle", "loop"}
      BY <1>0, <2>3, UsbTxAssumption DEF LeaveQueue, Queues
    <3>2. Taken' = 0
      BY <3>1 DEF Taken
    <3>3. \A i \in DOMAIN tx_queue[hq'] : 0 + i <= LIMIT
      BY <1>0, <3>1, QueueLengths, LenProperties DEF Inv, Types, ShortQueues
    <3> QED BY <2>1, <3>1, <3>2, <3>3 DEF Limits
  <2> QED BY <1>4, <2>2, <2>3 DEF HandlerNext, AggBegin
<1>5. CASE AggDequeue \/ (AggMore /\ UNCHANGED hpc)
  <2>1. /\ Taken' = Taken \/ (hpc = "dequeue" /\ Taken' = Taken + 1)
        /\ hpc # "idle" /\ hpc' # "idle" /\ UNCHANGED <<unkicked, tx_work, hq>>
    BY <1>5, <1>0 DEF AggDequeue, AggMore, Taken, mac
  <2> HIDE DEF Taken
  <2>2. CASE tx_queue[hq] # <<>> /\ tx_queue'[hq] = Tail(tx_queue[hq])
    <3>1. \A i \in DOMAIN tx_queue'[hq] :
            i \in Nat /\ i + 1 \in DOMAIN tx_queue[hq] /\ tx_queue'[hq][i] = tx_queue[hq][i + 1]
      BY <1>0, <2>2, HeadTailProperties, LenProperties, EmptySeq
    <3>2. \A i \in Nat : Taken + (i + 1) <= LIMIT => Taken' + i <= LIMIT
      BY <1>0, <2>1
    <3> QED BY <2>1, <3>1, <3>2 DEF Limits
  <2>3. CASE hpc = "more" /\ UNCHANGED tx_queue
    BY <2>1, <2>3 DEF Limits
  <2> QED BY <1>5, <2>2, <2>3, TakenFromQueue
<1>6. CASE (AggMore /\ ~UNCHANGED hpc) \/ AggSubmit
  <2>1. /\ UNCHANGED <<unkicked, tx_work, tx_queue, hq>> /\ Taken' = Taken
        /\ hpc # "idle" /\ hpc' # "idle"
    BY <1>6 DEF AggMore, AggSubmit, Taken, mac
  <2> QED BY <2>1 DEF Limits
<1>7. CASE DeinitPurge
  <2>1. UNCHANGED <<hpc, hq, hlimit>> /\ tx_queue'[hq] = <<>>
    BY <1>0, <1>7 DEF DeinitPurge, PurgeQueues, Step
  <2>2. DOMAIN <<>> = {}
    OBVIOUS
  <2> QED BY <2>1, <2>2 DEF Limits
<1> QED BY <1>1, <1>2, <1>3, <1>4, <1>5, <1>6, <1>7
           DEF Next, Handler, Disconnect, Others, Terminated

(* ... hence it leaves a queue only when it is empty, and a frame that was *)
(* written is kicked, or reached by the run that goes on.                  *)
LEMMA StrandedStep ==
  ASSUME ~EARLY_PURGE, ShortQueues, Inv, Limits, NoStrandedFrame, [Next]_vars
  PROVE  NoStrandedFrame'
<1> SUFFICES ASSUME phase' = "up", no_txcb' = 0, NEW q \in Queues, tx_queue'[q] # <<>>
             PROVE  \/ tx_work'
                    \/ hpc' # "idle" /\ hq' >= q
                    \/ SetOf(tx_queue'[q]) \subseteq unkicked'
  BY DEF NoStrandedFrame
<1> DEFINE Reached == \/ tx_work
                      \/ hpc # "idle" /\ hq >= q
                      \/ SetOf(tx_queue[q]) \subseteq unkicked
<1> USE QueueLengths DEF handler, mac
<1>0. q \in Nat /\ hq \in Nat
  BY UsbTxAssumption DEF Queues
<1>1. phase = "up" /\ no_txcb = 0 /\ tx_queue[q] # <<>> => Reached
  BY DEF NoStrandedFrame
<1>2. CASE Others
  BY <1>1, <1>2, OthersLeavePlan DEF Plan
<1>3. CASE TxWrite
  <2>1. phase = "up" /\ no_txcb = 0 /\ UNCHANGED <<tx_work, hpc, hq>>
        /\ unkicked' = unkicked \union {next}
    BY <1>3 DEF TxWrite, bounds
  <2>2. next \in Frames /\ EP[next] \in Queues /\ tx_queue[q] \in Seq(Frames)
        /\ tx_queue'[q] = IF q = EP[next] THEN Append(tx_queue[q], next) ELSE tx_queue[q]
    BY <1>3, UsbTxAssumption DEF TxWrite, Inv, Types, Frames
  <2>3. SetOf(tx_queue'[q]) \subseteq SetOf(tx_queue[q]) \union {next}
    BY <2>2, AppendElements
  <2>4. CASE tx_queue[q] = <<>>
    BY <2>1, <2>3, <2>4, EmptyElements
  <2>5. CASE tx_queue[q] # <<>>
    BY <1>1, <2>1, <2>3, <2>5
  <2> QED BY <2>4, <2>5
<1>4. CASE HandlerStart
  <2>1. hpc' = "loop" /\ hq' = Eps - 1
    BY <1>4 DEF HandlerStart
  <2> QED BY <2>1, UsbTxAssumption DEF Queues
<1>5. CASE HandlerNext \/ AggBegin
  <2>1. phase = "up" /\ hpc = "loop" /\ UNCHANGED <<tx_queue, unkicked, tx_work>>
    BY <1>5 DEF HandlerNext, AggBegin
  <2>2. CASE hpc' = "dequeue" /\ UNCHANGED <<hq, bounds>>
    BY <1>1, <2>1, <2>2 DEF bounds
  <2>3. CASE NoTxcb
    BY <2>3 DEF NoTxcb, Inv, Types
  <2>4. CASE HandlerNext
    <3>1. tx_work \/ SetOf(tx_queue[hq]) \subseteq unkicked
      <4>1. CASE tx_queue[hq] = <<>>
        BY <4>1, EmptyElements
      <4>2. CASE hlimit = LIMIT
        <5>1. DOMAIN tx_queue[hq] = 1..Len(tx_queue[hq])
          BY LenProperties DEF Inv, Types
        <5>2. LIMIT \in Nat /\ Taken = LIMIT
          BY <2>1, <4>2, UsbTxAssumption DEF Taken
        <5>3. \A i \in DOMAIN tx_queue[hq] : ~(Taken + i <= LIMIT)
          BY <5>1, <5>2
        <5> QED BY <2>1, <5>3 DEF Limits, SetOf
      <4> QED BY <2>4, <4>1, <4>2 DEF HandlerNext
    <3>2. Reached
      BY <1>1, <2>1, <2>4 DEF HandlerNext, bounds
    <3>3. hq = 0 \/ (hq' = hq - 1 /\ hpc' = "loop")
      BY <2>4 DEF HandlerNext, LeaveQueue
    <3>4. CASE q = hq
      BY <2>1, <3>1, <3>4
    <3>5. CASE q # hq
      BY <1>0, <2>1, <3>2, <3>3, <3>5
    <3> QED BY <3>4, <3>5
  <2> QED BY <1>5, <2>2, <2>3, <2>4 DEF AggBegin
<1>6. CASE AggDequeue \/ (AggMore /\ UNCHANGED hpc)
  <2>1. phase = "up" /\ UNCHANGED <<hq, unkicked, tx_work>> /\ hpc # "idle" /\ hpc' # "idle"
    BY <1>6 DEF AggDequeue, AggMore
  <2>2. no_txcb = 0
    BY <1>6 DEF AggDequeue, AggMore, Fault, bounds
  <2>3. SetOf(tx_queue'[q]) \subseteq SetOf(tx_queue[q]) /\ (q # hq => tx_queue'[q] = tx_queue[q])
    BY <1>6, TakenFromQueue
  <2> QED BY <1>0, <1>1, <2>1, <2>2, <2>3
<1>7. CASE (AggMore /\ ~UNCHANGED hpc) \/ AggSubmit
  <2>1. phase = "up" /\ UNCHANGED <<tx_queue, hq, unkicked, tx_work>>
        /\ hpc # "idle" /\ hpc' # "idle"
    BY <1>7 DEF AggMore, AggSubmit
  <2>2. no_txcb = 0
    BY <1>7 DEF AggMore, AggSubmit, Fault, bounds
  <2> QED BY <1>1, <2>1, <2>2
<1>8. CASE DeinitPurge
  BY <1>8 DEF DeinitPurge, Step
<1> QED BY <1>2, <1>3, <1>4, <1>5, <1>6, <1>7, <1>8
           DEF Next, Handler, Disconnect, Others, Terminated

(* A frame written is sent without another kick, unless a txcb could not   *)
(* be allocated or a queue grows beyond what one run takes from it.        *)
THEOREM NoFrameStranded ==
  ASSUME ~EARLY_PURGE
  PROVE  Spec /\ []ShortQueues => []NoStrandedFrame
<1>1. Init => Limits /\ NoStrandedFrame
  BY UsbTxAssumption DEF Init, Limits, NoStrandedFrame
<1>2. Inv /\ Limits /\ NoStrandedFrame /\ ShortQueues /\ [Next]_vars
        => Limits' /\ NoStrandedFrame'
  BY LimitsStep, StrandedStep
<1> QED BY <1>1, <1>2, AlwaysInv, PTL DEF Spec
============================================================================
