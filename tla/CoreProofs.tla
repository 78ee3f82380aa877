----------------------------- MODULE CoreProofs -----------------------------
(***************************************************************************)
(* Proofs about Core, for any set of interfaces.                           *)
(***************************************************************************)
EXTENDS Core, TLAPS

(* What rtw_core_stop has left to cancel is a tail of its list.            *)
Tails == {<<>>, <<"power_off">>, <<"coex">>, <<"watch_dog", "coex">>,
          <<"update_beacon", "watch_dog", "coex">>,
          <<"c2h", "update_beacon", "watch_dog", "coex">>}

Types1 ==
  /\ mutex \in {NULL, "op", "work"} /\ cur \in Works \union {NULL}
  /\ running \in BOOLEAN /\ poweron \in BOOLEAN /\ hw \in BOOLEAN
  /\ pending \subseteq Works /\ cancel \in Tails

(* The flags tell the truth, and RUNNING is clear during a stop.           *)
Power ==
  /\ running => poweron
  /\ poweron => hw
  /\ InStop => ~running

Locks == mutex # "op" /\ (mutex = "work" => cur # NULL)

DogGone == "watch_dog" \notin pending /\ cur # "watch_dog"

(* The watchdog is queued, or about to queue itself, while the device runs *)
(* and is gone when it does not, once a stop has come past it.             *)
Dog ==
  /\ running => \/ "watch_dog" \in pending
                \/ cur = "watch_dog" /\ mutex = NULL
  /\ ~running =>
       DogGone \/ cancel \in {<<"watch_dog", "coex">>,
                              <<"update_beacon", "watch_dog", "coex">>,
                              <<"c2h", "update_beacon", "watch_dog", "coex">>}

Inv == Types1 /\ Power /\ Locks /\ Dog

LEMMA InitInv == Init => Inv
<1> SUFFICES ASSUME Init PROVE Inv
  OBVIOUS
<1> USE CoreAssumption DEF Init, Works, Types
<1>1. Types1
  BY DEF Types1, Tails
<1>2. Power
  BY DEF Power, InStop
<1>3. Locks
  BY DEF Locks
<1>4. Dog
  BY DEF Dog, DogGone
<1> QED
  BY <1>1, <1>2, <1>3, <1>4 DEF Inv

(* What the invariant is about                                             *)
view == <<mutex, running, poweron, hw, cancel, pending, cur>>

LEMMA ViewInv ==
  ASSUME Inv, UNCHANGED view
  PROVE  Inv'
  BY DEF view, Inv, Types1, Power, Locks, Dog, DogGone, InStop

LEMMA MacCallInv ==
  ASSUME Inv, MacCall
  PROVE  Inv'
<1>1. UNCHANGED view
  BY DEF MacCall, MacStart, MacStop, MacIdle, MacAdd, MacRemove, MacAssoc,
         MacDisassoc, MacPs, MacPrepareTx, MacScan, MacScanComplete, Call,
         view, flags, chip
<1> QED
  BY <1>1, ViewInv

(* rtw_core_start: RUNNING and the watchdog come together.                 *)
LEMMA CoreStartInv ==
  ASSUME Inv, ~InStop, CoreStart, UNCHANGED <<mutex, cancel, cur>>
  PROVE  Inv'
<1> USE CoreAssumption
    DEF Inv, CoreStart, PowerOnSucceeds, PowerOnFails, Power, Types1, InStop
<1>1. Types1'
  BY DEF Works
<1>2. Power'
  OBVIOUS
<1>3. Locks'
  BY DEF Locks
<1>4. Dog'
  BY DEF Dog, DogGone, Tails
<1> QED
  BY <1>1, <1>2, <1>3, <1>4

(* rtw_core_stop begins: RUNNING is clear, the watchdog to be cancelled.   *)
LEMMA CoreStopInv ==
  ASSUME Inv, CoreStop, UNCHANGED <<pending, cur>>
  PROVE  Inv'
<1> USE CoreAssumption DEF Inv, CoreStop, Power, Types1
<1>1. Types1'
  BY DEF Tails
<1>2. Power'
  OBVIOUS
<1>3. Locks'
  BY DEF Locks
<1>4. Dog'
  BY DEF Dog
<1> QED
  BY <1>1, <1>2, <1>3, <1>4

(* The coex works and the reports leave the watchdog alone.                *)
LEMMA OtherWorkInv ==
  ASSUME Inv, UNCHANGED <<mutex, running, poweron, hw, cancel, cur>>,
         NEW w \in Works \ {"watch_dog"},
         pending' = pending \/ pending' = pending \union {w}
  PROVE  Inv'
<1> USE DEF Inv
<1>1. Types1'
  BY DEF Types1
<1>2. Power' /\ Locks'
  BY DEF Power, Locks, InStop
<1>3. Dog'
  BY DEF Dog, DogGone
<1> QED
  BY <1>1, <1>2, <1>3

LEMMA OperationInv ==
  ASSUME Inv, Operation
  PROVE  Inv'
<1> USE DEF Return
<1>1. CASE OpsStart
  BY <1>1, CoreStartInv DEF OpsStart, Enter
<1>2. CASE OpsStop
  BY <1>2, CoreStopInv DEF OpsStop
<1>3. CASE LeaveIps
  <2>1. CASE poweron
    BY <1>3, <2>1, ViewInv DEF LeaveIps, view, chip
  <2>2. CASE ~poweron
    BY <1>3, <2>2, CoreStartInv DEF LeaveIps, Enter
  <2> QED
    BY <2>1, <2>2
<1>4. CASE EnterIps
  <2>1. CASE poweron /\ ~scanning
    BY <1>4, <2>1, CoreStopInv DEF EnterIps
  <2>2. CASE ~(poweron /\ ~scanning)
    BY <1>4, <2>2, ViewInv DEF EnterIps, view, chip
  <2> QED
    BY <2>1, <2>2
<1>5. CASE AddInterface \/ RemoveInterface \/ Disassoc \/ PsChanged
  BY <1>5, ViewInv
     DEF AddInterface, RemoveInterface, Disassoc, PsChanged, view
<1>6. CASE Assoc \/ PrepareTx \/ ScanStart \/ ScanComplete
  <2>1. "coex" \in Works \ {"watch_dog"}
    BY DEF Works
  <2>2. UNCHANGED <<mutex, running, poweron, hw, cancel, cur>>
    BY <1>6 DEF Assoc, PrepareTx, ScanStart, ScanComplete, flags, chip
  <2>3. pending' = pending \/ pending' = pending \union {"coex"}
    BY <1>6 DEF Assoc, PrepareTx, ScanStart, ScanComplete, RunCoex
  <2> QED
    BY <2>1, <2>2, <2>3, OtherWorkInv
<1> QED
  BY <1>1, <1>2, <1>3, <1>4, <1>5, <1>6 DEF Operation

(* cancel_work_sync of the next work returns.                              *)
LEMMA CancelStep ==
  ASSUME Inv, CancelWork
  PROVE  LET w == Head(cancel)
         IN  \/ w = "coex" /\ cancel' = <<"power_off">>
             \/ w = "watch_dog" /\ cancel' = <<"coex">>
             \/ w = "update_beacon" /\ cancel' = <<"watch_dog", "coex">>
                /\ cancel = <<"update_beacon", "watch_dog", "coex">>
             \/ w = "c2h" /\ cancel' = <<"update_beacon", "watch_dog", "coex">>
                /\ cancel = <<"c2h", "update_beacon", "watch_dog", "coex">>
<1>1. cancel \in Tails \ {<<>>, <<"power_off">>}
  BY DEF CancelWork, InStop, Types1, Inv
<1>2. cancel' = IF Len(cancel) = 1 THEN <<"power_off">> ELSE Tail(cancel)
  BY DEF CancelWork
<1>3. CASE cancel = <<"coex">>
  BY <1>2, <1>3
<1>4. CASE cancel = <<"watch_dog", "coex">>
  BY <1>2, <1>4
<1>5. CASE cancel = <<"update_beacon", "watch_dog", "coex">>
  BY <1>2, <1>5
<1>6. CASE cancel = <<"c2h", "update_beacon", "watch_dog", "coex">>
  BY <1>2, <1>6
<1> QED
  BY <1>1, <1>3, <1>4, <1>5, <1>6 DEF Tails

(* A cancelled work is neither queued nor running.                         *)
LEMMA StoppingInv ==
  ASSUME Inv, Stopping
  PROVE  Inv'
<1> USE CoreAssumption DEF Inv
<1>1. CASE CancelWork
  <2> DEFINE w == Head(cancel)
  <2>1. /\ UNCHANGED <<mutex, running, poweron, hw, cur>>
        /\ pending' = pending \ {w} /\ cur # w /\ InStop
    BY <1>1 DEF CancelWork, flags, chip
  <2>2. \/ w = "coex" /\ cancel' = <<"power_off">>
        \/ w = "watch_dog" /\ cancel' = <<"coex">>
        \/ w = "update_beacon" /\ cancel' = <<"watch_dog", "coex">>
           /\ cancel = <<"update_beacon", "watch_dog", "coex">>
        \/ w = "c2h" /\ cancel' = <<"update_beacon", "watch_dog", "coex">>
           /\ cancel = <<"c2h", "update_beacon", "watch_dog", "coex">>
    BY <1>1, CancelStep
  <2>3. w = "coex" => cancel = <<"coex">>
    BY <1>1 DEF CancelWork, InStop, Types1, Tails
  <2>4. <<"coex">> \notin {<<"watch_dog", "coex">>,
                          <<"update_beacon", "watch_dog", "coex">>,
                          <<"c2h", "update_beacon", "watch_dog", "coex">>}
    OBVIOUS
  <2> HIDE DEF w
  <2>5. Types1'
    BY <2>1, <2>2 DEF Types1, Tails
  <2>6. Power' /\ Locks'
    BY <2>1 DEF Power, Locks, InStop
  <2>7. Dog'
    <3>1. ~running
      BY <2>1 DEF Power
    <3>2. CASE w = "watch_dog"
      BY <2>1, <3>1, <3>2 DEF Dog, DogGone
    <3>3. CASE w = "coex"
      <4>1. DogGone
        BY <2>3, <2>4, <3>1, <3>3 DEF Dog
      <4> QED
        BY <2>1, <3>1, <4>1 DEF Dog, DogGone
    <3>4. CASE w \in {"update_beacon", "c2h"}
      BY <2>1, <2>2, <3>1, <3>4 DEF Dog
    <3> QED
      BY <2>2, <3>2, <3>3, <3>4
  <2> QED
    BY <2>5, <2>6, <2>7
<1>2. CASE StopPowerOff
  <2> USE <1>2 DEF StopPowerOff, PowerOff, Types1, InStop
  <2>1. Types1'
    BY DEF Tails
  <2>2. Power' /\ Locks'
    BY DEF Power, Locks
  <2>3. Dog'
    BY DEF Dog, DogGone, Power
  <2> QED
    BY <2>1, <2>2, <2>3
<1> QED
  BY <1>1, <1>2 DEF Stopping

(* The watchdog queues itself before anything else while the device runs.  *)
LEMMA WorkerInv ==
  ASSUME Inv, Worker
  PROVE  Inv'
<1> USE CoreAssumption DEF Inv, Types1, InStop
<1>1. ASSUME NEW w \in Works, WorkStart(w)
      PROVE  Inv'
  <2> USE <1>1 DEF WorkStart, flags, chip
  <2>1. Types1'
    OBVIOUS
  <2>2. Power' /\ Locks'
    BY DEF Power, Locks, Works
  <2>3. Dog'
    <3>1. mutex = NULL /\ cur = NULL /\ "watch_dog" # NULL
      BY DEF Locks, Works
    <3>2. CASE w = "watch_dog"
      BY <3>1, <3>2 DEF Dog, DogGone
    <3>3. CASE w # "watch_dog"
      BY <3>1, <3>3 DEF Dog, DogGone
    <3> QED
      BY <3>2, <3>3
  <2> QED
    BY <2>1, <2>2, <2>3
<1>2. CASE WorkLock
  <2> USE <1>2 DEF WorkLock, ChecksRunning
  <2>1. Types1'
    BY DEF Works
  <2>2. Power' /\ Locks'
    BY DEF Power, Locks
  <2>3. Dog'
    BY DEF Dog, DogGone, Works
  <2> QED
    BY <2>1, <2>2, <2>3
<1>3. CASE WorkEnd
  <2> USE <1>3 DEF WorkEnd, RunCoex
  <2>1. Types1'
    BY DEF Works
  <2>2. Power' /\ Locks'
    BY DEF Power, Locks
  <2>3. Dog'
    <3>1. /\ pending' = pending \/ pending' = pending \union {"coex"}
          /\ UNCHANGED <<running, cancel>> /\ cur' = NULL
          /\ "watch_dog" # NULL /\ mutex # NULL
      BY DEF Works
    <3>2. ("watch_dog" \in pending') <=> ("watch_dog" \in pending)
      BY <3>1
    <3> QED
      BY <3>1, <3>2 DEF Dog, DogGone
  <2> QED
    BY <2>1, <2>2, <2>3
<1> QED
  BY <1>1, <1>2, <1>3 DEF Worker

LEMMA NextInv ==
  ASSUME Inv, [Next]_vars
  PROVE  Inv'
<1>1. CASE UNCHANGED vars
  BY <1>1, ViewInv DEF vars, view, flags, chip
<1>2. CASE C2hArrives \/ SetTim
  <2>1. "c2h" \in Works \ {"watch_dog"} /\ "update_beacon" \in Works \ {"watch_dog"}
    BY DEF Works
  <2>2. UNCHANGED <<mutex, running, poweron, hw, cancel, cur>>
    BY <1>2 DEF C2hArrives, SetTim, flags, chip
  <2>3. \/ pending' = pending \union {"c2h"}
        \/ pending' = pending \union {"update_beacon"}
    BY <1>2 DEF C2hArrives, SetTim
  <2> QED
    BY <2>1, <2>2, <2>3, OtherWorkInv
<1> QED
  BY <1>1, <1>2, MacCallInv, OperationInv, StoppingInv, WorkerInv DEF Next

(* RUNNING never outlives the power of the chip, for any number of         *)
(* interfaces.                                                             *)
THEOREM RunningIsTrue == Spec => []RunningMeansPowered
<1>1. Inv => RunningMeansPowered
  BY DEF Inv, Power, RunningMeansPowered
<1> QED
  BY <1>1, InitInv, NextInv, PTL DEF Spec

(* The watchdog is queued or running exactly while the device runs, also   *)
(* in the moments a start or a stop is half way.                           *)
THEOREM WatchDogIsExact == Spec => []WatchDogExact
<1>1. Inv => WatchDogExact
  BY DEF Inv, Dog, DogGone, InStop, WatchDogExact
<1> QED
  BY <1>1, InitInv, NextInv, PTL DEF Spec

----------------------------------------------------------------------------
(* The chip's registers and LPS.  Who is in which call is known by op.     *)
Calling(C) == op # NULL /\ op.call \in C

Types2 ==
  /\ scanning \in BOOLEAN /\ lps \in BOOLEAN /\ ps_enabled \in BOOLEAN /\ fw_lps \in BOOLEAN
  /\ started \in BOOLEAN /\ idle \in BOOLEAN /\ failed \in BOOLEAN
  /\ op \in [call : Calls, v : Vifs \union {NULL}] \union {NULL}
  /\ type \in [Vifs -> Types \union {NULL}]

(* What mac80211 has told the driver, and what a call may rely on          *)
Mac ==
  /\ ps \subseteq assoc /\ \A v \in assoc : v \in Vifs /\ type[v] = "sta"
  /\ ~started => idle
  /\ idle => assoc = {}
  /\ Calling({"start", "stop", "enter_ips"}) => idle
  /\ Calling({"start"}) => ~started
  /\ Calling({"add", "remove"}) => op.v \in Vifs /\ type[op.v] = NULL
  /\ InStop => Calling({"stop", "enter_ips"})

BeaconGone == "update_beacon" \notin pending /\ cur # "update_beacon"

(* A work with the mutex has found RUNNING set, but for update_beacon: this*)
(* one is only there if the device has been powered since, or that failed, *)
(* and a stop cancels it before it takes the power away.                   *)
Io ==
  /\ mutex = "work" /\ cur # "update_beacon" => running
  /\ ~idle /\ ~Calling({"leave_ips"}) => poweron \/ failed
  /\ BeaconGone \/ poweron \/ failed
  /\ BeaconGone \/ started \/ Calling({"stop"})
  /\ cancel \in {<<"power_off">>, <<"coex">>, <<"watch_dog", "coex">>} => BeaconGone

Alone == \E v \in assoc : Added(type) = {v}

(* Driver and firmware agree on LPS, which is on for a lone interface; a   *)
(* call that changes who is there, or which of them saves power, sees to   *)
(* it before it returns.                                                   *)
Lps ==
  /\ lps = fw_lps
  /\ lps => ~idle /\ ~scanning /\ poweron
  /\ lps => Alone \/ Calling({"remove", "ps", "disassoc"})
  /\ ps_enabled => Calling({"remove", "ps"}) \/ \E v \in ps : Added(type) = {v}

Inv2 == Types2 /\ Mac /\ Io /\ Lps

LEMMA InitInv2 == Init => Inv2
<1> SUFFICES ASSUME Init PROVE Inv2
  OBVIOUS
<1> USE CoreAssumption DEF Init, InStop, Calling
<1>1. Types2
  BY DEF Types2, Types
<1>2. Mac
  BY DEF Mac
<1>3. Io
  BY DEF Io, BeaconGone, Works
<1>4. Lps
  BY DEF Lps
<1> QED
  BY <1>1, <1>2, <1>3, <1>4 DEF Inv2

(* Leaving LPS, the driver tells the firmware if that was in it.           *)
LEMMA LeaveLpsOff ==
  ASSUME Inv2, LeaveLps
  PROVE  lps' = FALSE /\ fw_lps' = FALSE
<1>1. lps \in BOOLEAN /\ fw_lps \in BOOLEAN /\ lps = fw_lps
  BY DEF Inv2, Types2, Lps
<1> QED
  BY <1>1 DEF LeaveLps

(* With LPS off there is nothing to say of who is alone.                   *)
LEMMA LpsOff ==
  ASSUME Inv2, lps' = FALSE, fw_lps' = FALSE, UNCHANGED <<ps_enabled, op, type, ps>>
  PROVE  Lps'
BY DEF Inv2, Lps, Calling, Added

(* A call of mac80211 begins.                                              *)
LEMMA MacCallInv2 ==
  ASSUME Inv, Inv2, MacCall
  PROVE  Inv2'
<1> USE CoreAssumption
    DEF Inv, Inv2, Calling, Types1, Works, Types, Calls, Types2, Mac, Call,
        flags, chip, mac
<1>1. CASE MacStart
  <2> USE <1>1 DEF MacStart
  <2>1. Types2'
    OBVIOUS
  <2>2. Mac'
    BY DEF InStop, Tails
  <2>3. Io'
    BY DEF Io, BeaconGone, InStop, Tails
  <2>4. Lps'
    BY DEF Lps, Alone, Added, Power, Locks, Io
  <2> QED
    BY <2>1, <2>2, <2>3, <2>4
<1>2. CASE MacStop
  <2> USE <1>2 DEF MacStop
  <2>1. Types2'
    OBVIOUS
  <2>2. Mac'
    BY DEF InStop, Tails
  <2>3. Io'
    BY DEF Io, BeaconGone, InStop, Tails
  <2>4. Lps'
    BY DEF Lps, Alone, Added, Power, Locks, Io
  <2> QED
    BY <2>1, <2>2, <2>3, <2>4
<1>3. CASE \E i \in BOOLEAN : MacIdle(i)
  <2> USE <1>3 DEF MacIdle
  <2>1. Types2'
    OBVIOUS
  <2>2. Mac'
    BY DEF InStop, Tails
  <2>3. Io'
    BY DEF Io, BeaconGone, InStop, Tails
  <2>4. Lps'
    BY DEF Lps, Alone, Added, Power, Locks, Io
  <2> QED
    BY <2>1, <2>2, <2>3, <2>4
<1>4. CASE \E v \in Vifs : MacAdd(v)
  <2> USE <1>4 DEF MacAdd
  <2>1. Types2'
    OBVIOUS
  <2>2. Mac'
    BY DEF InStop, Tails
  <2>3. Io'
    BY DEF Io, BeaconGone, InStop, Tails
  <2>4. Lps'
    BY DEF Lps, Alone, Added, Power, Locks, Io
  <2> QED
    BY <2>1, <2>2, <2>3, <2>4
<1>5. CASE \E v \in Vifs : MacRemove(v)
  <2> USE <1>5 DEF MacRemove
  <2>1. Types2'
    OBVIOUS
  <2>2. Mac'
    BY DEF InStop, Tails
  <2>3. Io'
    BY DEF Io, BeaconGone, InStop, Tails
  <2>4. Lps'
    BY DEF Lps, Alone, Added, Power, Locks, Io
  <2> QED
    BY <2>1, <2>2, <2>3, <2>4
<1>6. CASE \E v \in Vifs : MacAssoc(v)
  <2> USE <1>6 DEF MacAssoc
  <2>1. Types2'
    OBVIOUS
  <2>2. Mac'
    BY DEF InStop, Tails
  <2>3. Io'
    BY DEF Io, BeaconGone, InStop, Tails
  <2>4. Lps'
    BY DEF Lps, Alone, Added, Power, Locks, Io
  <2> QED
    BY <2>1, <2>2, <2>3, <2>4
<1>7. CASE \E v \in Vifs : MacDisassoc(v)
  <2> USE <1>7 DEF MacDisassoc
  <2>1. Types2'
    OBVIOUS
  <2>2. Mac'
    BY DEF InStop, Tails
  <2>3. Io'
    BY DEF Io, BeaconGone, InStop, Tails
  <2>4. Lps'
    BY DEF Lps, Alone, Added, Power, Locks, Io
  <2> QED
    BY <2>1, <2>2, <2>3, <2>4
<1>8. CASE \E v \in Vifs : MacPs(v)
  <2> USE <1>8 DEF MacPs
  <2>1. Types2'
    OBVIOUS
  <2>2. Mac'
    BY DEF InStop, Tails
  <2>3. Io'
    BY DEF Io, BeaconGone, InStop, Tails
  <2>4. Lps'
    BY DEF Lps, Alone, Added, Power, Locks, Io
  <2> QED
    BY <2>1, <2>2, <2>3, <2>4
<1>9. CASE \E v \in Vifs : MacPrepareTx(v)
  <2> USE <1>9 DEF MacPrepareTx
  <2>1. Types2'
    OBVIOUS
  <2>2. Mac'
    BY DEF InStop, Tails
  <2>3. Io'
    BY DEF Io, BeaconGone, InStop, Tails
  <2>4. Lps'
    BY DEF Lps, Alone, Added, Power, Locks, Io
  <2> QED
    BY <2>1, <2>2, <2>3, <2>4
<1>10. CASE \E v \in Vifs : MacScan(v)
  <2> USE <1>10 DEF MacScan
  <2>1. Types2'
    OBVIOUS
  <2>2. Mac'
    BY DEF InStop, Tails
  <2>3. Io'
    BY DEF Io, BeaconGone, InStop, Tails
  <2>4. Lps'
    BY DEF Lps, Alone, Added, Power, Locks, Io
  <2> QED
    BY <2>1, <2>2, <2>3, <2>4
<1>11. CASE \E v \in Vifs : MacScanComplete(v)
  <2> USE <1>11 DEF MacScanComplete
  <2>1. Types2'
    OBVIOUS
  <2>2. Mac'
    BY DEF InStop, Tails
  <2>3. Io'
    BY DEF Io, BeaconGone, InStop, Tails
  <2>4. Lps'
    BY DEF Lps, Alone, Added, Power, Locks, Io
  <2> QED
    BY <2>1, <2>2, <2>3, <2>4
<1> QED
  BY <1>1, <1>2, <1>3, <1>4, <1>5, <1>6, <1>7, <1>8, <1>9, <1>10, <1>11 DEF MacCall

(* An operation, once it has the mutex.                                    *)
LEMMA OperationInv2 ==
  ASSUME Inv, Inv2, Operation
  PROVE  Inv2'
<1> USE CoreAssumption
    DEF Inv, Inv2, Calling, Types1, Works, Types, Calls, Types2, Mac, Enter,
        Return, InStop, flags, chip, mac, rest
<1>1. CASE OpsStart
  <2> USE <1>1 DEF OpsStart, CoreStart, PowerOnSucceeds, PowerOnFails
  <2>1. Types2'
    OBVIOUS
  <2>2. Mac'
    BY DEF InStop, Tails
  <2>3. Io'
    BY DEF Io, BeaconGone, InStop, Tails
  <2>4. Lps'
    BY DEF Lps, Alone, Added, Power, Locks, Io
  <2> QED
    BY <2>1, <2>2, <2>3, <2>4
<1>2. CASE OpsStop
  <2> USE <1>2 DEF OpsStop, CoreStop
  <2>1. Types2'
    OBVIOUS
  <2>2. Mac'
    BY DEF InStop, Tails
  <2>3. Io'
    BY DEF Io, BeaconGone, InStop, Tails
  <2>4. Lps'
    BY DEF Lps, Alone, Added, Power, Locks, Io
  <2> QED
    BY <2>1, <2>2, <2>3, <2>4
<1>3. CASE LeaveIps
  <2> USE <1>3 DEF LeaveIps, CoreStart, PowerOnSucceeds, PowerOnFails
  <2>1. Types2'
    OBVIOUS
  <2>2. Mac'
    BY DEF InStop, Tails
  <2>3. Io'
    BY DEF Io, BeaconGone, InStop, Tails
  <2>4. Lps'
    BY DEF Lps, Alone, Added, Power, Locks, Io
  <2> QED
    BY <2>1, <2>2, <2>3, <2>4
<1>4. CASE EnterIps
  <2> USE <1>4 DEF EnterIps, CoreStop
  <2>1. Types2'
    OBVIOUS
  <2>2. Mac'
    BY DEF InStop, Tails
  <2>3. Io'
    BY DEF Io, BeaconGone, InStop, Tails
  <2>4. Lps'
    BY DEF Lps, Alone, Added, Power, Locks, Io
  <2> QED
    BY <2>1, <2>2, <2>3, <2>4
<1>5. CASE AddInterface
  <2>1. /\ op # NULL /\ op.call = "add" /\ ~InStop /\ mutex = NULL /\ op' = NULL
        /\ UNCHANGED <<mutex, cancel, cur, running, poweron, scanning, hw, pending,
                       started, idle, assoc, ps, failed>>
    BY <1>5 DEF AddInterface
  <2>2. PICK t \in Types : type' = [type EXCEPT ![op.v] = t]
    BY <1>5 DEF AddInterface
  <2>3. op.v \in Vifs /\ type[op.v] = NULL /\ op.v \notin assoc
    BY <2>1
  <2>4. type' \in [Vifs -> Types \union {NULL}] /\ type'[op.v] # NULL
    BY <2>2, <2>3
  <2>5. op.v \in Added(type')
    BY <2>3, <2>4 DEF Added
  <2>6. \A v \in ps : Added(type') # {v}
    BY <2>3, <2>5
  <2>7. ps_enabled' = FALSE /\ lps' = FALSE /\ fw_lps' = FALSE
    BY <1>5, <2>6 DEF AddInterface, RecalcLps, LeaveLps, Lps
  <2>8. Types2'
    BY <2>1, <2>4, <2>7
  <2>9. Mac'
    BY <2>1, <2>2, <2>3
  <2>10. Io'
    BY <2>1 DEF Io, BeaconGone
  <2>11. Lps'
    BY <2>7 DEF Lps
  <2> QED
    BY <2>8, <2>9, <2>10, <2>11
<1>6. CASE RemoveInterface
  <2> USE <1>6 DEF RemoveInterface, RecalcLps, LeaveLps
  <2>1. Types2'
    OBVIOUS
  <2>2. Mac'
    BY DEF InStop, Tails
  <2>3. Io'
    BY DEF Io, BeaconGone, InStop, Tails
  <2>4. Lps'
    BY DEF Lps, Alone, Added, Power, Locks, Io
  <2> QED
    BY <2>1, <2>2, <2>3, <2>4
<1>7. CASE Assoc
  <2> USE <1>7 DEF Assoc, RunCoex
  <2>1. Types2'
    OBVIOUS
  <2>2. Mac'
    BY DEF InStop, Tails
  <2>3. Io'
    BY DEF Io, BeaconGone, InStop, Tails
  <2>4. Lps'
    BY DEF Lps, Alone, Added, Power, Locks, Io
  <2> QED
    BY <2>1, <2>2, <2>3, <2>4
<1>8. CASE Disassoc
  <2> USE <1>8 DEF Disassoc, LeaveLps
  <2>1. Types2'
    OBVIOUS
  <2>2. Mac'
    BY DEF InStop, Tails
  <2>3. Io'
    BY DEF Io, BeaconGone, InStop, Tails
  <2>4. Lps'
    BY DEF Lps, Alone, Added, Power, Locks, Io
  <2> QED
    BY <2>1, <2>2, <2>3, <2>4
<1>9. CASE PsChanged
  <2> USE <1>9 DEF PsChanged, RecalcLps, LeaveLps
  <2>1. Types2'
    OBVIOUS
  <2>2. Mac'
    BY DEF InStop, Tails
  <2>3. Io'
    BY DEF Io, BeaconGone, InStop, Tails
  <2>4. Lps'
    BY DEF Lps, Alone, Added, Power, Locks, Io
  <2> QED
    BY <2>1, <2>2, <2>3, <2>4
<1>10. CASE PrepareTx
  <2> USE <1>10 DEF PrepareTx
  <2>1. Types2'
    OBVIOUS
  <2>2. Mac'
    BY DEF InStop, Tails
  <2>3. Io'
    BY DEF Io, BeaconGone, InStop, Tails
  <2>4. Lps'
    BY DEF Lps, Alone, Added, Power, Locks, Io
  <2> QED
    BY <2>1, <2>2, <2>3, <2>4
<1>11. CASE ScanStart
  <2> USE <1>11 DEF ScanStart, LeaveLps, RunCoex
  <2>1. Types2'
    OBVIOUS
  <2>2. Mac'
    BY DEF InStop, Tails
  <2>3. Io'
    BY DEF Io, BeaconGone, InStop, Tails
  <2>4. Lps'
    BY DEF Lps, Alone, Added, Power, Locks, Io
  <2> QED
    BY <2>1, <2>2, <2>3, <2>4
<1>12. CASE ScanComplete
  <2> USE <1>12 DEF ScanComplete, RunCoex
  <2>1. Types2'
    OBVIOUS
  <2>2. Mac'
    BY DEF InStop, Tails
  <2>3. Io'
    BY DEF Io, BeaconGone, InStop, Tails
  <2>4. Lps'
    BY DEF Lps, Alone, Added, Power, Locks, Io
  <2> QED
    BY <2>1, <2>2, <2>3, <2>4
<1> QED
  BY <1>1, <1>2, <1>3, <1>4, <1>5, <1>6, <1>7, <1>8, <1>9, <1>10, <1>11, <1>12 DEF Operation

(* A stop cancels the works, update_beacon among them, and only then takes *)
(* the power; LPS is off by then, as mac80211 is idle.                     *)
LEMMA StoppingInv2 ==
  ASSUME Inv, Inv2, Stopping
  PROVE  Inv2'
<1> USE CoreAssumption DEF Inv, Inv2, Calling, Types1, Works, Types2, Mac, Stopping, rest, mac
<1>1. CASE CancelWork
  <2> DEFINE w == Head(cancel)
  <2>1. /\ UNCHANGED <<mutex, flags, chip, op, cur, rest>>
        /\ pending' = pending \ {w} /\ cur # w /\ InStop
    BY <1>1 DEF CancelWork
  <2>2. \/ w = "coex" /\ cancel' = <<"power_off">>
        \/ w = "watch_dog" /\ cancel' = <<"coex">>
        \/ w = "update_beacon" /\ cancel' = <<"watch_dog", "coex">>
        \/ w = "c2h" /\ cancel' = <<"update_beacon", "watch_dog", "coex">>
    BY <1>1, CancelStep
  <2>3. /\ w = "coex" => cancel = <<"coex">>
        /\ w = "watch_dog" => cancel = <<"watch_dog", "coex">>
    BY <1>1 DEF CancelWork, InStop, Tails
  <2> HIDE DEF w
  <2>4. Types2' /\ Mac' /\ Lps'
    BY <2>1, <2>2 DEF flags, chip, InStop, Lps, Alone
  <2>5. BeaconGone => BeaconGone'
    BY <2>1 DEF BeaconGone
  <2>6. w = "update_beacon" => BeaconGone'
    BY <2>1 DEF BeaconGone
  <2>7. w \in {"coex", "watch_dog"} => BeaconGone
    BY <2>3 DEF Io
  <2>8. <<"update_beacon", "watch_dog", "coex">> \notin
          {<<"power_off">>, <<"coex">>, <<"watch_dog", "coex">>}
    OBVIOUS
  <2>9. Io'
    BY <2>1, <2>2, <2>5, <2>6, <2>7, <2>8 DEF Io, flags
  <2> QED
    BY <2>4, <2>9
<1>2. CASE StopPowerOff
  <2> USE <1>2 DEF StopPowerOff, PowerOff, InStop
  <2>1. Types2' /\ Mac'
    OBVIOUS
  <2>2. BeaconGone /\ BeaconGone'
    BY DEF Io, BeaconGone
  <2>3. Io'
    BY <2>2 DEF Io, Tails
  <2>4. Lps'
    BY DEF Lps, Alone
  <2> QED
    BY <2>1, <2>3, <2>4
<1> QED
  BY <1>1, <1>2

(* A work starts, gets the mutex and ends.                                 *)
LEMMA WorkerInv2 ==
  ASSUME Inv, Inv2, Worker
  PROVE  Inv2'
<1> USE CoreAssumption
    DEF Inv, Inv2, Calling, Types1, Works, Types, Calls, Types2, Mac, flags,
        chip, rest, mac, InStop
<1>1. CASE \E w \in Works : WorkStart(w)
  <2> USE <1>1 DEF WorkStart
  <2>1. Types2'
    OBVIOUS
  <2>2. Mac'
    BY DEF InStop, Tails
  <2>3. Io'
    BY DEF Io, BeaconGone, InStop, Tails
  <2>4. Lps'
    BY DEF Lps, Alone, Added, Power, Locks, Io
  <2> QED
    BY <2>1, <2>2, <2>3, <2>4
<1>2. CASE WorkLock
  <2> USE <1>2 DEF WorkLock, ChecksRunning, LeaveLps
  <2>1. Types2'
    OBVIOUS
  <2>2. Mac'
    BY DEF InStop, Tails
  <2>3. Io'
    BY DEF Io, BeaconGone, InStop, Tails
  <2>4. Lps'
    BY DEF Lps, Alone, Added, Power, Locks, Io
  <2> QED
    BY <2>1, <2>2, <2>3, <2>4
<1>3. CASE WorkEnd
  <2> USE <1>3 DEF WorkEnd, MayEnterLps, RunCoex, LeaveLps
  <2>1. Types2'
    OBVIOUS
  <2>2. Mac'
    BY DEF InStop, Tails
  <2>3. Io'
    BY DEF Io, BeaconGone, InStop, Tails
  <2>4. Lps'
    <3>1. UNCHANGED <<running, poweron, scanning, ps_enabled, op, mac>>
      OBVIOUS
    <3>2. CASE UNCHANGED <<lps, fw_lps>>
      BY <3>1, <3>2 DEF Lps, Alone
    <3>3. CASE LeaveLps
      <4>1. lps' = FALSE /\ fw_lps' = FALSE
        BY <3>3, LeaveLpsOff
      <4>2. UNCHANGED <<ps_enabled, op, type, ps>>
        BY <3>1
      <4> QED
        BY <4>1, <4>2, LpsOff
    <3>4. CASE cur = "watch_dog" /\ MayEnterLps /\ lps' = TRUE /\ fw_lps' = TRUE
      <4>1. poweron
        BY <3>4 DEF Io, Power
      <4>2. Alone \/ Calling({"remove", "ps"})
        BY <3>4 DEF Lps, Alone
      <4> QED
        BY <3>1, <3>4, <4>1, <4>2 DEF Lps, Alone
    <3> QED
      BY <3>2, <3>3, <3>4
  <2> QED
    BY <2>1, <2>2, <2>3, <2>4
<1> QED
  BY <1>1, <1>2, <1>3 DEF Worker

(* Reports and the TIM queue their works.                                  *)
LEMMA ArrivalInv2 ==
  ASSUME Inv, Inv2, C2hArrives \/ SetTim
  PROVE  Inv2'
<1> USE CoreAssumption
    DEF Inv, Inv2, Calling, Types1, Works, Types2, Mac, rest, mac, flags,
        chip, InStop, C2hArrives, SetTim
<1>1. Types2' /\ Mac'
  OBVIOUS
<1>2. Io'
  BY DEF Io, BeaconGone
<1>3. Lps'
  BY DEF Lps, Alone
<1> QED
  BY <1>1, <1>2, <1>3

LEMMA NextInv2 ==
  ASSUME Inv, Inv2, [Next]_vars
  PROVE  Inv2'
<1>1. CASE UNCHANGED vars
  BY <1>1 DEF vars, flags, chip, rest, mac, Inv2, Types2, Mac, Io, Lps, Alone,
              BeaconGone, Calling, InStop
<1> QED
  BY <1>1, MacCallInv2, OperationInv2, StoppingInv2, WorkerInv2, ArrivalInv2 DEF Next

(* rtw_core_stop, rtw_enter_ips, update_beacon_work: whichever way calls,  *)
(* works, stops and failing power-ons fall together, no work accesses a    *)
(* chip without power, but for update_beacon after a failed rtw_leave_ips. *)
THEOREM IoOnlyWithPower == Spec => []NoIoWhenOff
<1>1. Inv /\ Inv2 => NoIoWhenOff
  BY DEF Inv, Inv2, Io, BeaconGone, Power, NoIoWhenOff
<1> QED
  BY <1>1, InitInv, NextInv, InitInv2, NextInv2, PTL DEF Spec

(* rtw_recalc_lps, rtw_watch_dog_work: driver and firmware agree on LPS,   *)
(* and between calls it is on only for a lone, associated interface        *)
(* outside of a scan, for any number of interfaces.                        *)
THEOREM LpsIsAgreed == Spec => []LpsAgrees
<1>1. Inv2 => LpsAgrees
  BY DEF Inv2, Lps, Alone, Calling, LpsAgrees
<1> QED
  BY <1>1, InitInv, NextInv, InitInv2, NextInv2, PTL DEF Spec

============================================================================
