----------------------------- MODULE RadioProofs -----------------------------
(***************************************************************************)
(* The receiver's gain and its threshold (Dig, CckPd), the software queues *)
(* (TxQueues), the rates of peers (RateAdapt), the tuning (Channel) and the*)
(* calibration (Iqk), for any stations, signals, queues, peers, boards,    *)
(* channels and measurements, and any number of events.                    *)
(***************************************************************************)
EXTENDS Chip, SequenceTheorems, FiniteSetTheorems, WellFoundedInduction,
        NaturalsInduction, TLAPS

(***************************************************************************)
(* The gain.  GainInv says what the driver's state is (GainTypes), that the*)
(* last gain is one the hardware has, or 14 with no peer (InRange), and    *)
(* that it hears the weakest peer unless it is frozen (PeerHeard).         *)
(***************************************************************************)

LEMMA LeastOne ==
  ASSUME NEW S, S \subseteq Nat, S # {}
  PROVE  \E x \in S : \A y \in S : x <= y
<1>1. \E x \in S : \A y \in S : ~(<<y, x>> \in {p \in Nat \X Nat : p[1] < p[2]})
  BY NatLessThanWellFounded, WFMin DEF OpToRel
<1>2. PICK x \in S : \A y \in S : ~(<<y, x>> \in {p \in Nat \X Nat : p[1] < p[2]})
  BY <1>1
<1>3. ASSUME NEW y \in S PROVE x <= y
  <2>1. x \in Nat /\ y \in Nat /\ <<y, x>> \in Nat \X Nat
    OBVIOUS
  <2>2. ~(y < x)
    BY <1>2, <2>1
  <2> QED
    BY <2>1, <2>2
<1> QED
  BY <1>3

LEMMA LeastElement ==
  ASSUME NEW S, S \subseteq Nat, S # {}
  PROVE  Dg!Min(S) \in S /\ \A y \in S : Dg!Min(S) <= y
  BY LeastOne DEF Dg!Min

LEMMA MaxOfTwo ==
  ASSUME NEW a \in Int, NEW b \in Int
  PROVE  Dg!Max({a, b}) = IF a >= b THEN a ELSE b
  BY DEF Dg!Max

LEMMA MinOfTwo ==
  ASSUME NEW a \in Int, NEW b \in Int
  PROVE  Dg!Min({a, b}) = IF a <= b THEN a ELSE b
  BY DEF Dg!Min

(* A new entry at the head of a history of four.                           *)
LEMMA Pushed ==
  ASSUME NEW S, NEW s \in Seq(S), Len(s) = 4, NEW e \in S
  PROVE  /\ <<e>> \o SubSeq(s, 1, 3) \in Seq(S)
         /\ Len(<<e>> \o SubSeq(s, 1, 3)) = 4
         /\ (<<e>> \o SubSeq(s, 1, 3))[1] = e
<1> DEFINE t == SubSeq(s, 1, 3)
<1>1. t \in Seq(S) /\ Len(t) = 3
  <2>1. \A i \in 1..3 : s[i] \in S
    OBVIOUS
  <2> QED
    BY <2>1, SubSeqProperties
<1> HIDE DEF t
<1>2. <<e>> \in Seq(S) /\ Len(<<e>>) = 1 /\ <<e>>[1] = e
  OBVIOUS
<1> DEFINE u == <<e>>
<1> HIDE DEF u
<1>3. /\ u \o t \in Seq(S) /\ Len(u \o t) = Len(u) + Len(t)
      /\ \A j \in 1..(Len(u) + Len(t)) : (u \o t)[j] = IF j <= Len(u) THEN u[j]
           ELSE t[j - Len(u)]
  BY <1>1, <1>2, ConcatProperties DEF u
<1>4. Len(u) = 1 /\ u[1] = e
  BY DEF u
<1> QED
  BY <1>1, <1>3, <1>4 DEF t, u

GainFields == {"igi_history", "fa_history", "trend", "min_rssi", "pre_min_rssi", "damping",
           "damping_rssi", "damping_cnt"}

Histories(d) ==
  /\ d.igi_history \in Seq(Int) /\ Len(d.igi_history) = 4
  /\ d.trend \in Seq(BOOLEAN) /\ Len(d.trend) = 4
GainNumbers(d) == d.min_rssi \in 0..255 /\ d.igi_history[1] \in Int /\ d.damping_cnt \in Nat
GainTypes(d) ==
  d = [f \in GainFields |-> d[f]] /\ Histories(d) /\ GainNumbers(d) /\ d.damping \in BOOLEAN

PeerTypes ==
  /\ DOMAIN uploaded \subseteq joined
  /\ \A s \in DOMAIN uploaded : uploaded[s] \in 0..100

(* The recorded gain is in range, or it is the one that comes of a peer    *)
(* counted and not seen; as the gain fell to it, it starts no freezing.    *)
InRange(d) ==
  \/ d.igi_history[1] \in Dg!DIG_CVRG_MIN..Dg!DIG_PERF_MAX
  \/ d.igi_history[1] = 14 /\ d.min_rssi = Dg!U8_MAX /\ d.damping = FALSE
    /\ d.trend[1] = FALSE

Loudest(m) == (IF m >= Dg!dig_min THEN m ELSE Dg!dig_min) + Dg!DIG_RSSI_GAIN_OFFSET

PeerHeard(d) ==
  /\ d.damping = FALSE /\ d.min_rssi < Dg!U8_MAX => d.igi_history[1] <= Loudest(d.min_rssi)
  /\ d.damping = TRUE => d.damping_cnt <= DAMPING_TICKS + 1

GainInv == GainTypes(dm_info) /\ PeerTypes /\ InRange(dm_info) /\ PeerHeard(dm_info)
  /\ Dg!GainKnown

LEMMA GainInvImplies == GainInv => Dg!HeardUnlessFrozen /\ Dg!GainInRange
<1> SUFFICES ASSUME GainInv PROVE Dg!HeardUnlessFrozen /\ Dg!GainInRange
  OBVIOUS
<1>1. Dg!Max({dm_info.min_rssi,
        Dg!dig_min}) + Dg!DIG_RSSI_GAIN_OFFSET = Loudest(dm_info.min_rssi)
  <2>1. dm_info.min_rssi \in Int /\ Dg!dig_min \in Int
    BY DEF GainInv, GainTypes, GainNumbers, Dg!dig_min
  <2>2. Dg!Max({dm_info.min_rssi, Dg!dig_min}) = IF dm_info.min_rssi >= Dg!dig_min
          THEN dm_info.min_rssi ELSE Dg!dig_min
    BY <2>1, MaxOfTwo, Zenon
  <2> QED
    BY <2>2, Zenon DEF Loudest
<1>2. Loudest(dm_info.min_rssi) \in Nat /\ Loudest(dm_info.min_rssi) >= 47
  BY DEF GainInv, GainTypes, GainNumbers, Dg!dig_min, Loudest, Dg!DIG_RSSI_GAIN_OFFSET
<1>3. dm_info.igi_history[1] \in Int
  BY DEF GainInv, GainTypes, GainNumbers
<1>4. dm_info.damping = TRUE \/ dm_info.damping = FALSE
  BY DEF GainInv, GainTypes
<1>5. Dg!HeardUnlessFrozen
  <2>1. CASE dm_info.damping = TRUE
    BY <2>1 DEF GainInv, PeerHeard, Dg!HeardUnlessFrozen
  <2>2. CASE dm_info.damping = FALSE
    BY <1>1, <1>2, <1>3, <2>2 DEF GainInv, PeerHeard, Dg!HeardUnlessFrozen,
         Dg!WeakPeerHeard, Dg!GainKnown, Dg!DIG_CVRG_MIN
  <2> QED
    BY <1>4, <2>1, <2>2
<1>6. Dg!GainInRange
  BY DEF GainInv, InRange, Dg!GainInRange, Dg!GainKnown, Dg!DIG_CVRG_MIN, Dg!DIG_PERF_MAX
<1> QED
  BY <1>5, <1>6

LEMMA GainInit == Dg!Init => GainInv
<1> SUFFICES ASSUME Dg!Init PROVE GainInv
  OBVIOUS
<1>2. dm_info = [igi_history |-> <<Dg!dig_min, 0, 0, 0>>, fa_history |-> <<0, 0, 0, 0>>,
                 trend |-> <<FALSE, FALSE, FALSE, FALSE>>, min_rssi |-> 0,
                   pre_min_rssi |-> 0,
                 damping |-> FALSE, damping_rssi |-> 0, damping_cnt |-> 0]
  BY DEF Dg!Init, Dg!Fresh
<1>3. /\ dm_info.igi_history = <<Dg!dig_min, 0, 0, 0>>
           /\ dm_info.trend = <<FALSE, FALSE, FALSE, FALSE>>
      /\ dm_info.min_rssi = 0 /\ dm_info.damping = FALSE /\ dm_info.damping_cnt = 0
  BY <1>2
<1>4. GainTypes(dm_info)
  <2>1. dm_info = [f \in GainFields |-> dm_info[f]]
    BY <1>2 DEF GainFields
  <2>2. Histories(dm_info) /\ GainNumbers(dm_info) /\ dm_info.damping \in BOOLEAN
    <3>1. Dg!dig_min \in Int
      BY DEF Dg!dig_min
    <3>2. <<Dg!dig_min, 0, 0, 0>> \in Seq(Int) /\ Len(<<Dg!dig_min, 0, 0, 0>>) = 4
      BY <3>1
    <3>3. <<FALSE, FALSE, FALSE, FALSE>> \in Seq(BOOLEAN)
            /\ Len(<<FALSE, FALSE, FALSE, FALSE>>) = 4
      OBVIOUS
    <3> QED
      <4>1. <<Dg!dig_min, 0, 0, 0>>[1] = Dg!dig_min
        OBVIOUS
      <4>2. Histories(dm_info)
        BY <1>3, <3>2, <3>3, Zenon DEF Histories
      <4> QED
        <5>1. dm_info.igi_history[1] = Dg!dig_min
          BY <1>3, <4>1, Zenon
        <5>2. dm_info.min_rssi = 0 /\ dm_info.damping_cnt = 0
          BY <1>3
        <5>3. GainNumbers(dm_info)
          BY <3>1, <5>1, <5>2 DEF GainNumbers
        <5> QED
          BY <1>3, <4>2, <5>3
  <2> QED
    BY <2>1, <2>2 DEF GainTypes
<1>5. InRange(dm_info) /\ PeerHeard(dm_info)
  BY <1>3 DEF InRange, PeerHeard, Loudest, Dg!dig_min, Dg!DIG_CVRG_MIN, Dg!DIG_PERF_MAX,
       Dg!DIG_RSSI_GAIN_OFFSET
<1>6. PeerTypes /\ Dg!GainKnown
  BY DEF Dg!Init, PeerTypes, Dg!GainKnown
<1> QED
  BY <1>4, <1>5, <1>6 DEF GainInv

(* The gain the watchdog computes.                                         *)
LEMMA NextGainBounds ==
  ASSUME NEW d, NEW fa, GainTypes(d), d.min_rssi \in 0..100 \cup {Dg!U8_MAX},
         joined = {} => d.min_rssi = Dg!U8_MAX
  PROVE  /\ Dg!NextGain(d, fa) \in Int
         /\ Dg!NextGain(d, fa) \in Dg!DIG_CVRG_MIN..Dg!DIG_PERF_MAX
              \/ (Dg!NextGain(d, fa) = 14 /\ d.min_rssi = Dg!U8_MAX)
         /\ d.min_rssi < Dg!U8_MAX => Dg!NextGain(d, fa) <= Loudest(d.min_rssi)
<1> DEFINE mr == IF Dg!Linked THEN (IF d.min_rssi >= 32 THEN d.min_rssi ELSE 32) ELSE 28
           raised == (mr + 15) % 256
           hi == IF Dg!Linked THEN (IF 90 <= raised THEN 90 ELSE raised)
                           ELSE (IF 42 <= raised THEN 42 ELSE raised)
           lower == Dg!Clamp(mr, IF Dg!Linked THEN 32 ELSE 28, IF Dg!Linked THEN 64 ELSE 38)
           upper == Dg!Clamp((lower + 15) % 256, IF Dg!Linked THEN 32 ELSE 28, hi)
<1>1. mr \in 0..255 /\ raised \in 0..255
  BY DEF GainTypes, GainNumbers
<1>2. Dg!Boundary(d).lower = lower /\ Dg!Boundary(d).upper = upper
  <2> DEFINE lo == IF Dg!Linked THEN Dg!dig_min ELSE Dg!DIG_CVRG_MIN
             mn == IF Dg!Linked THEN Dg!Max({d.min_rssi, Dg!dig_min}) ELSE lo
             cap == IF Dg!Linked THEN Dg!DIG_PERF_MAX ELSE Dg!DIG_CVRG_MAX
             top == Dg!U8(mn + Dg!DIG_RSSI_GAIN_OFFSET)
             mid == IF Dg!Linked THEN Dg!DIG_PERF_MID ELSE Dg!DIG_CVRG_MID
  <2>1. Dg!Boundary(d) = [lower |-> Dg!Clamp(mn, lo, mid),
                       upper |-> Dg!Clamp(Dg!U8(Dg!Clamp(mn, lo,
                         mid) + Dg!DIG_RSSI_GAIN_OFFSET), lo, Dg!Min({cap, top}))]
    BY Zenon DEF Dg!Boundary
  <2>2. mn = mr
    <3>1. d.min_rssi \in Int /\ Dg!dig_min \in Int
      BY DEF GainTypes, GainNumbers, Dg!dig_min
    <3>2. Dg!Max({d.min_rssi, Dg!dig_min}) = IF d.min_rssi >= Dg!dig_min
            THEN d.min_rssi ELSE Dg!dig_min
      BY <3>1, MaxOfTwo, Zenon
    <3> DEFINE mx == Dg!Max({d.min_rssi, Dg!dig_min})
    <3> HIDE DEF mx
    <3>3. mx = IF d.min_rssi >= Dg!dig_min THEN d.min_rssi ELSE Dg!dig_min
      BY <3>2, Zenon DEF mx
    <3>4. mn = IF Dg!Linked THEN mx ELSE lo
      BY Zenon DEF mx
    <3> HIDE DEF mn
    <3> QED
      BY <3>3, <3>4 DEF Dg!dig_min, Dg!DIG_CVRG_MIN
  <2> HIDE DEF mn
  <2>3. Dg!Clamp(mn, lo, mid) = lower
    BY <2>2 DEF Dg!dig_min, Dg!DIG_CVRG_MIN, Dg!DIG_PERF_MID, Dg!DIG_CVRG_MID
  <2>4. Dg!Min({cap, top}) = hi
    <3>1. top = raised /\ cap = IF Dg!Linked THEN 90 ELSE 42
      BY <2>2 DEF Dg!U8, Dg!DIG_RSSI_GAIN_OFFSET, Dg!DIG_PERF_MAX, Dg!DIG_CVRG_MAX
    <3> HIDE DEF top, cap
    <3>2. top \in Int /\ cap \in Int
      BY <1>1, <3>1
    <3>3. Dg!Min({cap, top}) = IF cap <= top THEN cap ELSE top
      BY <3>2, MinOfTwo, Zenon
    <3> HIDE DEF raised
    <3> QED
      BY <3>1, <3>3
  <2> HIDE DEF hi, lower, cap, top, mid
  <2>5. Dg!Boundary(d) = [lower |-> lower,
          upper |-> Dg!Clamp(Dg!U8(lower + Dg!DIG_RSSI_GAIN_OFFSET), lo, hi)]
    BY <2>1, <2>3, <2>4, Zenon
  <2> QED
    BY <2>5 DEF Dg!U8, Dg!DIG_RSSI_GAIN_OFFSET, Dg!dig_min, Dg!DIG_CVRG_MIN
<1>3. Dg!U8(d.igi_history[1] + Dg!Step(d, fa)) \in 0..255
  <2>1. Dg!Step(d, fa) \in Int
    <3> DEFINE size == IF Dg!Linked
          /\ d.pre_min_rssi > d.min_rssi THEN <<6, 4, 2>> ELSE <<4, 3, 2>>
               fa_th == IF Dg!Linked THEN <<750, 500, 250>> ELSE <<5000, 4000, 2000>>
               over == {level \in 1..3 : fa > fa_th[level]}
    <3>1. over # {} => Dg!Min(over) \in 1..3
      BY LeastElement
    <3>2. \A i \in 1..3 : size[i] \in Int
      OBVIOUS
    <3>3. Dg!Step(d, fa) = (IF over = {} THEN 0 ELSE size[Dg!Min(over)]) - 2
      BY DEF Dg!Step
    <3> HIDE DEF over, size
    <3> QED
      BY <3>1, <3>2, <3>3
  <2> HIDE DEF Dg!Step
  <2>2. d.igi_history[1] \in Int
    BY DEF GainTypes, GainNumbers
  <2> DEFINE n == d.igi_history[1] + Dg!Step(d, fa)
  <2>3. n \in Int
    BY <2>1, <2>2
  <2> HIDE DEF n
  <2>4. n % 256 \in 0..255
    BY <2>3
  <2> QED
    BY <2>4 DEF Dg!U8, n
<1>4. CASE Dg!Linked /\ d.min_rssi <= 100
  <2>1. mr \in 32..100 /\ mr + 15 <= Loudest(d.min_rssi)
    BY <1>4 DEF GainTypes, GainNumbers, Loudest, Dg!dig_min, Dg!DIG_RSSI_GAIN_OFFSET
  <2> HIDE DEF mr
  <2>2. raised = mr + 15
    BY <2>1
  <2>3. hi \in 47..90 /\ hi <= mr + 15
    BY <2>1, <2>2, <1>4
  <2>4. lower \in 32..64 /\ lower <= mr
    BY <2>1, <1>4 DEF Dg!Clamp
  <2> HIDE DEF lower, hi, raised
  <2>5. (lower + 15) % 256 = lower + 15
    BY <2>4
  <2>6. upper \in 32..hi
    BY <2>3, <2>4, <2>5, <1>4 DEF Dg!Clamp
  <2> HIDE DEF upper
  <2>7. Dg!NextGain(d, fa) \in 32..90 /\ Dg!NextGain(d, fa) <= mr + 15
    BY <1>2, <1>3, <2>1, <2>3, <2>4, <2>6 DEF Dg!NextGain, Dg!Clamp
  <2> QED
    <3> DEFINE g == Dg!NextGain(d, fa)
    <3>1. g \in 32..90 /\ g <= mr + 15
      BY <2>7
    <3> HIDE DEF g
    <3>2. Loudest(d.min_rssi) \in Int
      BY <1>4 DEF GainTypes, GainNumbers, Loudest, Dg!dig_min, Dg!DIG_RSSI_GAIN_OFFSET
    <3>3. g \in Int /\ g \in Dg!DIG_CVRG_MIN..Dg!DIG_PERF_MAX /\ g <= Loudest(d.min_rssi)
      BY <2>1, <3>1, <3>2 DEF Dg!DIG_CVRG_MIN, Dg!DIG_PERF_MAX
    <3> QED
      BY <3>3 DEF g
<1>5. CASE Dg!Linked /\ d.min_rssi = 255
  <2>1. lower = 64 /\ hi = 14
    BY <1>5 DEF Dg!Clamp
  <2>2. upper = 14
    BY <2>1, <1>5 DEF Dg!Clamp
  <2> HIDE DEF lower, upper
  <2> QED
    BY <1>2, <1>3, <1>5, <2>1, <2>2 DEF Dg!NextGain, Dg!Clamp, Dg!U8_MAX, Dg!DIG_CVRG_MIN,
         Dg!DIG_PERF_MAX
<1>6. CASE ~Dg!Linked
  <2>1. lower = 28 /\ hi = 42 /\ d.min_rssi = Dg!U8_MAX
    BY <1>6 DEF Dg!Clamp, Dg!Linked
  <2>2. upper = 42
    BY <2>1, <1>6 DEF Dg!Clamp
  <2> HIDE DEF lower, upper
  <2> QED
    BY <1>2, <1>3, <2>1, <2>2 DEF Dg!NextGain, Dg!Clamp, Dg!U8_MAX, Dg!DIG_CVRG_MIN,
         Dg!DIG_PERF_MAX
<1> QED
  BY <1>4, <1>5, <1>6 DEF Dg!U8_MAX

(* The weakest signal of those that are seen.                              *)
LEMMA WeakestSeen ==
  ASSUME PeerTypes, GainTypes(dm_info)
  PROVE  /\ GainTypes(Dg!StatRssi(dm_info))
         /\ Dg!StatRssi(dm_info).min_rssi \in 0..100 \cup {Dg!U8_MAX}
         /\ joined = {} => Dg!StatRssi(dm_info).min_rssi = Dg!U8_MAX
         /\ Dg!StatRssi(dm_info) = [dm_info EXCEPT !.pre_min_rssi = dm_info.min_rssi,
                                   !.min_rssi = Dg!StatRssi(dm_info).min_rssi]
<1> DEFINE seen == {uploaded[s] : s \in DOMAIN uploaded} \cup {Dg!U8_MAX}
<1>1. seen \subseteq 0..100 \cup {255} /\ 255 \in seen /\ (joined = {} => seen = {255})
  BY DEF PeerTypes, Dg!U8_MAX
<1>2. Dg!Min(seen) \in seen
  <2>1. seen \subseteq Nat /\ seen # {}
    BY <1>1
  <2> QED
    BY <2>1, LeastElement, Zenon
<1>3. Dg!StatRssi(dm_info).min_rssi = Dg!Min(seen)
  BY DEF Dg!StatRssi, GainTypes, GainFields
<1>4. GainTypes(Dg!StatRssi(dm_info))
  <2>1. Dg!Min(seen) \in 0..255
    BY <1>1, <1>2
  <2> HIDE DEF seen
  <2>2. Dg!StatRssi(dm_info) = [dm_info EXCEPT !.pre_min_rssi = dm_info.min_rssi,
          !.min_rssi = Dg!Min(seen)]
    BY DEF Dg!StatRssi, seen
  <2> QED
    <3> DEFINE e == Dg!StatRssi(dm_info)
    <3>1. e = [f \in GainFields |-> e[f]]
      BY <2>2 DEF GainTypes, GainFields
    <3>2. /\ e.igi_history = dm_info.igi_history /\ e.trend = dm_info.trend
          /\ e.damping = dm_info.damping /\ e.damping_cnt = dm_info.damping_cnt
          /\ e.min_rssi = Dg!Min(seen)
      BY <2>2 DEF GainTypes, GainFields
    <3>0. e = Dg!StatRssi(dm_info)
      OBVIOUS
    <3> HIDE DEF e
    <3> QED
      <4>1. Histories(e)
        BY <3>2, Zenon DEF GainTypes, Histories
      <4>2. GainNumbers(e)
        BY <2>1, <3>2 DEF GainTypes, GainNumbers
      <4>3. e.damping \in BOOLEAN
        BY <3>2, Zenon DEF GainTypes
      <4> QED
        BY <3>0, <3>1, <4>1, <4>2, <4>3, Zenon DEF GainTypes
<1>5. Dg!StatRssi(dm_info) = [dm_info EXCEPT !.pre_min_rssi = dm_info.min_rssi,
                                   !.min_rssi = Dg!StatRssi(dm_info).min_rssi]
  BY <1>3 DEF Dg!StatRssi
<1> QED
  BY <1>1, <1>2, <1>3, <1>4, <1>5 DEF Dg!U8_MAX

Damped(e, b, n, r) == [e EXCEPT !.damping = b, !.damping_cnt = n, !.damping_rssi = r]

DampedFrom(d, e, b, n) ==
  /\ GainTypes(d) /\ d.damping = b /\ d.damping_cnt = n
  /\ d.min_rssi = e.min_rssi /\ d.igi_history = e.igi_history

LEMMA DampingTypes ==
  ASSUME NEW e, GainTypes(e), NEW b \in BOOLEAN, NEW n \in Nat, NEW r
  PROVE  DampedFrom(Damped(e, b, n, r), e, b, n)
<1> DEFINE d == Damped(e, b, n, r)
<1>1. d = [f \in GainFields |-> d[f]]
  BY DEF GainTypes, GainFields, Damped
<1>2. /\ d.igi_history = e.igi_history /\ d.trend = e.trend
      /\ d.damping = b /\ d.damping_cnt = n /\ d.min_rssi = e.min_rssi
  BY DEF GainTypes, GainFields, Damped
<1> HIDE DEF d
<1>3. Histories(d)
  BY <1>2, Zenon DEF GainTypes, Histories
<1>4. GainNumbers(d)
  BY <1>2 DEF GainTypes, GainNumbers
<1>5. GainTypes(d)
  BY <1>1, <1>2, <1>3, <1>4, Zenon DEF GainTypes
<1> QED
  BY <1>2, <1>5, Zenon DEF d, DampedFrom

LEMMA Checked ==
  ASSUME GainInv, NEW e, e = Dg!StatRssi(dm_info), NEW d, d = Dg!CheckDamping(e)
  PROVE  /\ GainTypes(d) /\ d.min_rssi = e.min_rssi /\ d.igi_history = dm_info.igi_history
         /\ d.damping = TRUE => /\ d.damping_cnt <= DAMPING_TICKS + 1
                                /\ d.igi_history[1] \in Dg!DIG_CVRG_MIN..Dg!DIG_PERF_MAX
<1>1. /\ GainTypes(e)
           /\ e = [dm_info EXCEPT !.pre_min_rssi = dm_info.min_rssi,
                !.min_rssi = e.min_rssi]
  BY WeakestSeen, Zenon DEF GainInv
<1>2. /\ e.igi_history = dm_info.igi_history /\ e.trend = dm_info.trend
      /\ e.damping = dm_info.damping /\ e.damping_cnt = dm_info.damping_cnt
  BY <1>1 DEF GainInv, GainTypes, GainFields
<1>3. e = [e EXCEPT !.damping = e.damping, !.damping_cnt = e.damping_cnt,
        !.damping_rssi = e.damping_rssi]
  BY <1>1 DEF GainTypes, GainFields
<1>4. e.damping_cnt \in Nat /\ e.damping \in BOOLEAN
  BY <1>1 DEF GainTypes, GainNumbers
<1>5. CASE e.damping = TRUE /\ Dg!Release(e)
  <2>1. PICK n \in Nat : d = [e EXCEPT !.damping = FALSE, !.damping_cnt = n]
    <3>1. d = [e EXCEPT !.damping = FALSE, !.damping_cnt = IF Dg!Diff(e.min_rssi,
            e.damping_rssi) > Dg!DAMPING_RSSI
                                                           THEN e.damping_cnt
                                                             ELSE e.damping_cnt + 1]
      BY <1>1, <1>5 DEF Dg!CheckDamping, GainTypes, GainFields
    <3>2. (IF Dg!Diff(e.min_rssi, e.damping_rssi) > Dg!DAMPING_RSSI
           THEN e.damping_cnt ELSE e.damping_cnt + 1) \in Nat
      BY <1>4
    <3> QED
      BY <3>1, <3>2, Zenon
  <2>2. d = Damped(e, FALSE, n, e.damping_rssi)
    BY <1>1, <2>1 DEF GainTypes, GainFields, Damped
  <2>3. /\ GainTypes(d) /\ d.damping = FALSE
        /\ d.min_rssi = e.min_rssi /\ d.igi_history = e.igi_history
    <3>0. GainTypes(e)
      BY <1>1
    <3>1. FALSE \in BOOLEAN
      OBVIOUS
    <3>2. DampedFrom(Damped(e, FALSE, n, e.damping_rssi), e, FALSE, n)
      BY <3>0, <3>1, DampingTypes, Zenon
    <3> QED
      BY <2>2, <3>2 DEF DampedFrom
  <2> QED
    BY <1>2, <2>3
<1>6. CASE e.damping = TRUE /\ ~Dg!Release(e)
  <2>1. d = Damped(e, TRUE, e.damping_cnt + 1, e.damping_rssi)
    BY <1>1, <1>6 DEF Dg!CheckDamping, GainTypes, GainFields, Damped
  <2>2. e.damping_cnt + 1 \in Nat /\ e.damping_cnt + 1 <= DAMPING_TICKS + 1
    BY <1>4, <1>6, GainAssumption DEF Dg!Release
  <2>3. /\ GainTypes(d) /\ d.damping_cnt = e.damping_cnt + 1
        /\ d.min_rssi = e.min_rssi /\ d.igi_history = e.igi_history
    <3>0. GainTypes(e)
      BY <1>1
    <3>1. TRUE \in BOOLEAN
      OBVIOUS
    <3>2. DampedFrom(Damped(e, TRUE, e.damping_cnt + 1, e.damping_rssi), e, TRUE,
            e.damping_cnt + 1)
      BY <2>2, <3>0, <3>1, DampingTypes, Zenon
    <3> QED
      BY <2>1, <3>2 DEF DampedFrom
  <2>4. dm_info.igi_history[1] \in Dg!DIG_CVRG_MIN..Dg!DIG_PERF_MAX
    BY <1>2, <1>6 DEF GainInv, InRange
  <2> QED
    BY <1>2, <2>2, <2>3, <2>4
<1>7. CASE e.damping = FALSE /\ Dg!Oscillates(e)
  <2>1. d = Damped(e, TRUE, 0, e.min_rssi)
    BY <1>7 DEF Dg!CheckDamping, Damped
  <2>2. /\ GainTypes(d) /\ d.damping_cnt = 0
        /\ d.min_rssi = e.min_rssi /\ d.igi_history = e.igi_history
    <3>0. GainTypes(e)
      BY <1>1
    <3>1. TRUE \in BOOLEAN /\ 0 \in Nat
      OBVIOUS
    <3>2. DampedFrom(Damped(e, TRUE, 0, e.min_rssi), e, TRUE, 0)
      BY <3>0, <3>1, DampingTypes, Zenon
    <3> QED
      BY <2>1, <3>2 DEF DampedFrom
  <2>3. e.trend[1] = TRUE
    <3>1. <<TRUE, FALSE, TRUE, FALSE>>[1] = TRUE /\ <<TRUE, FALSE, FALSE, TRUE>>[1] = TRUE
      OBVIOUS
    <3>2. e.trend = <<TRUE, FALSE, TRUE, FALSE>> \/ e.trend = <<TRUE, FALSE, FALSE, TRUE>>
      BY <1>7, Zenon DEF Dg!Oscillates
    <3> QED
      BY <3>1, <3>2, Zenon
  <2>4. dm_info.igi_history[1] \in Dg!DIG_CVRG_MIN..Dg!DIG_PERF_MAX
    BY <1>2, <2>3 DEF GainInv, InRange
  <2> QED
    BY <1>2, <2>2, <2>4, GainAssumption
<1>8. CASE e.damping = FALSE /\ ~Dg!Oscillates(e)
  <2>1. d = e
    BY <1>8 DEF Dg!CheckDamping
  <2> QED
    BY <1>1, <1>2, <1>8, <2>1
<1> QED
  BY <1>4, <1>5, <1>6, <1>7, <1>8

LEMMA Recorded ==
  ASSUME NEW d, GainTypes(d), NEW g \in Int, NEW fa
  PROVE  /\ GainTypes(Dg!Record(d, g, fa)) /\ Dg!Record(d, g, fa).damping = d.damping
         /\ Dg!Record(d, g, fa).min_rssi = d.min_rssi
              /\ Dg!Record(d, g, fa).igi_history[1] = g
         /\ Dg!Record(d, g, fa).trend[1] = (g > d.igi_history[1])
<1> DEFINE up == g > d.igi_history[1]
           h == <<g>> \o SubSeq(d.igi_history, 1, 3)
           t == <<up>> \o SubSeq(d.trend, 1, 3)
           f4 == <<fa>> \o SubSeq(d.fa_history, 1, 3)
           r == Dg!Record(d, g, fa)
<1>1. h \in Seq(Int) /\ Len(h) = 4 /\ h[1] = g
  BY Pushed, Zenon DEF GainTypes, Histories
<1>2. t \in Seq(BOOLEAN) /\ Len(t) = 4 /\ t[1] = up
  <2> HIDE DEF up
  <2>1. up \in BOOLEAN
    BY DEF up
  <2> QED
    BY <2>1, Pushed, Zenon DEF GainTypes, Histories
<1>3. r = [d EXCEPT !.trend = t, !.igi_history = h, !.fa_history = f4]
  BY DEF Dg!Record, GainTypes, GainFields
<1> HIDE DEF h, t, f4, up, r
<1>4. r = [f \in GainFields |-> r[f]]
  BY <1>3 DEF GainTypes, GainFields
<1>5. /\ r.igi_history = h /\ r.trend = t /\ r.damping = d.damping
           /\ r.damping_cnt = d.damping_cnt
      /\ r.min_rssi = d.min_rssi
  BY <1>3 DEF GainTypes, GainFields
<1>6. Histories(r)
  BY <1>1, <1>2, <1>5, Zenon DEF Histories
<1>7. r.igi_history[1] = g /\ r.trend[1] = up
  BY <1>1, <1>2, <1>5, Zenon
<1>8. GainNumbers(r)
  BY <1>5, <1>7 DEF GainTypes, GainNumbers
<1>9. GainTypes(r)
  BY <1>4, <1>5, <1>6, <1>8, Zenon DEF GainTypes
<1> QED
  BY <1>5, <1>7, <1>9, Zenon DEF up, r

LEMMA WatchDogKeeps ==
  ASSUME GainInv, NEW fa, NEW lost, Dg!WatchDog(fa, lost)
  PROVE  GainInv'
<1> DEFINE e == Dg!StatRssi(dm_info)
           d == Dg!CheckDamping(e)
           gain == Dg!NextGain(d, fa)
           wanted == Dg!Wanted(gain, fa)
<1>1. /\ GainTypes(e) /\ e.min_rssi \in 0..100 \cup {Dg!U8_MAX}
           /\ (joined = {} => e.min_rssi = Dg!U8_MAX)
  BY WeakestSeen, Zenon DEF GainInv
<1>2. /\ GainTypes(d) /\ d.min_rssi = e.min_rssi /\ d.igi_history = dm_info.igi_history
      /\ d.damping = TRUE => /\ d.damping_cnt <= DAMPING_TICKS + 1
                             /\ d.igi_history[1] \in Dg!DIG_CVRG_MIN..Dg!DIG_PERF_MAX
  <2> HIDE DEF e
  <2>1. e = Dg!StatRssi(dm_info)
    BY DEF e
  <2> QED
    BY <2>1, Checked, Zenon
<1>3. /\ power = "on" /\ UNCHANGED <<power, joined, uploaded>>
      /\ d.damping => dm_info' = d /\ igi' = igi
      /\ ~d.damping => /\ dm_info' = Dg!Record(d, gain, fa)
                       /\ igi' = IF wanted # dm_info.igi_history[1] THEN wanted ELSE igi
  BY Zenon DEF Dg!WatchDog
<1>4. PeerTypes'
  BY <1>3 DEF GainInv, PeerTypes
<1>5. d.damping \in BOOLEAN /\ dm_info.igi_history[1] \in Int
  BY <1>2, Zenon DEF GainTypes, GainInv, GainNumbers
<1>6. CASE d.damping = TRUE
  <2> HIDE DEF d
  <2>1. dm_info' = d /\ igi' = igi
    BY <1>3, <1>6
  <2>2. GainTypes(dm_info') /\ InRange(dm_info') /\ PeerHeard(dm_info')
    BY <1>2, <1>6, <2>1 DEF InRange, PeerHeard
  <2>3. Dg!GainKnown'
    BY <1>2, <1>3, <2>1 DEF GainInv, Dg!GainKnown
  <2> QED
    BY <1>4, <2>2, <2>3 DEF GainInv
<1>7. CASE d.damping = FALSE
  <2>1. /\ gain \in Int /\ (gain \in Dg!DIG_CVRG_MIN..Dg!DIG_PERF_MAX \/ (gain = 14
             /\ d.min_rssi = Dg!U8_MAX))
        /\ d.min_rssi < Dg!U8_MAX => gain <= Loudest(d.min_rssi)
    <3> HIDE DEF d
    <3> QED
      BY <1>1, <1>2, NextGainBounds
  <2> HIDE DEF gain, d, e
  <2>2. /\ dm_info' = Dg!Record(d, gain, fa)
        /\ igi' = IF wanted # dm_info.igi_history[1] THEN wanted ELSE igi
    BY <1>3, <1>7
  <2>3. /\ GainTypes(dm_info') /\ dm_info'.damping = FALSE /\ dm_info'.min_rssi = d.min_rssi
        /\ dm_info'.igi_history[1] = gain /\ dm_info'.trend[1] = (gain > d.igi_history[1])
    <3>1. gain \in Int
      BY <2>1
    <3>2. /\ GainTypes(Dg!Record(d, gain, fa)) /\ Dg!Record(d, gain, fa).damping = d.damping
          /\ Dg!Record(d, gain, fa).min_rssi = d.min_rssi
               /\ Dg!Record(d, gain, fa).igi_history[1] = gain
          /\ Dg!Record(d, gain, fa).trend[1] = (gain > d.igi_history[1])
      BY <1>2, <3>1, Recorded, Zenon
    <3> QED
      BY <1>7, <2>2, <3>2, Zenon
  <2>4. InRange(dm_info')
    <3>1. CASE gain = 14 /\ d.min_rssi = Dg!U8_MAX
      <4>1. d.igi_history[1] >= 14 /\ d.igi_history[1] \in Int
        BY <1>2, <1>5 DEF GainInv, InRange, Dg!DIG_CVRG_MIN, Dg!DIG_PERF_MAX
      <4>2. ~(gain > d.igi_history[1])
        BY <3>1, <4>1
      <4>3. dm_info'.trend[1] = FALSE
        <5>1. dm_info'.trend[1] = (gain > d.igi_history[1])
          BY <2>3
        <5> DEFINE up == gain > d.igi_history[1]
        <5>2. ~up
          BY <4>2
        <5>3. dm_info'.trend[1] = up
          BY <5>1
        <5> HIDE DEF up
        <5>4. up = FALSE
          BY <5>2
        <5> QED
          BY <5>3, <5>4, Zenon
      <4> QED
        BY <2>3, <3>1, <4>3 DEF InRange
    <3>2. CASE gain \in Dg!DIG_CVRG_MIN..Dg!DIG_PERF_MAX
      BY <2>3, <3>2 DEF InRange
    <3> QED
      BY <2>1, <3>1, <3>2
  <2>5. PeerHeard(dm_info')
    BY <2>1, <2>3 DEF PeerHeard
  <2>6. wanted \in {gain, Dg!DIG_CVRG_MIN}
    BY DEF Dg!Wanted
  <2>7. Dg!GainKnown'
    <3> HIDE DEF wanted
    <3>1. igi' \in {gain, Dg!DIG_CVRG_MIN}
      BY <1>3, <2>2, <2>6 DEF GainInv, Dg!GainKnown
    <3> QED
      BY <1>3, <2>3, <3>1 DEF Dg!GainKnown
  <2> QED
    BY <1>4, <2>3, <2>4, <2>5, <2>7 DEF GainInv
<1> QED
  BY <1>5, <1>6, <1>7

LEMMA GainNext == GainInv /\ [Dg!Next]_(Dg!dig_vars) => GainInv'
<1> SUFFICES ASSUME GainInv, [Dg!Next]_(Dg!dig_vars) PROVE GainInv'
  OBVIOUS
<1>1. CASE Dg!PowerOn
  <2>1. dm_info' = Dg!Fresh(dm_info) /\ power' = "on" /\ igi' = Dg!dig_min
          /\ UNCHANGED <<joined, uploaded>>
    BY <1>1 DEF Dg!PowerOn
  <2> DEFINE r == Dg!Fresh(dm_info)
  <2>2. r = [f \in GainFields |-> r[f]]
    BY DEF GainInv, GainTypes, GainFields, Dg!Fresh
  <2>3. /\ r.igi_history = <<Dg!dig_min, 0, 0, 0>>
             /\ r.trend = <<FALSE, FALSE, FALSE, FALSE>>
        /\ r.damping = dm_info.damping /\ r.damping_cnt = dm_info.damping_cnt
        /\ r.min_rssi = dm_info.min_rssi
    BY DEF GainInv, GainTypes, GainFields, Dg!Fresh
  <2> HIDE DEF r
  <2>4. Dg!dig_min \in Int /\ <<Dg!dig_min, 0, 0, 0>> \in Seq(Int)
          /\ Len(<<Dg!dig_min, 0, 0, 0>>) = 4
    BY DEF Dg!dig_min
  <2>5. <<FALSE, FALSE, FALSE, FALSE>> \in Seq(BOOLEAN)
          /\ Len(<<FALSE, FALSE, FALSE, FALSE>>) = 4
    OBVIOUS
  <2>6. r.igi_history[1] = Dg!dig_min
    BY <2>3
  <2>7. Histories(r)
    BY <2>3, <2>4, <2>5, Zenon DEF Histories
  <2>8. GainNumbers(r)
    BY <2>3, <2>4, <2>6 DEF GainNumbers, GainInv, GainTypes
  <2>9. GainTypes(r)
    BY <2>2, <2>3, <2>7, <2>8, Zenon DEF GainTypes, GainInv
  <2>10. InRange(r)
    BY <2>6 DEF InRange, Dg!dig_min, Dg!DIG_CVRG_MIN, Dg!DIG_PERF_MAX
  <2>11. PeerHeard(r)
    <3>1. Loudest(r.min_rssi) >= Dg!dig_min
      BY <2>8 DEF Loudest, GainNumbers, Dg!dig_min, Dg!DIG_RSSI_GAIN_OFFSET
    <3> QED
      BY <2>3, <2>6, <3>1 DEF PeerHeard, GainInv
  <2>12. Dg!GainKnown'
    BY <2>1, <2>6 DEF Dg!GainKnown, r
  <2>13. PeerTypes'
    BY <2>1 DEF GainInv, PeerTypes
  <2> QED
    BY <2>1, <2>9, <2>10, <2>11, <2>12, <2>13 DEF GainInv, r
<1>2. CASE Dg!PowerOff \/ Dg!ScanStart \/ Dg!ScanComplete
  <2>1. UNCHANGED <<joined, uploaded, dm_info>>
    BY <1>2 DEF Dg!PowerOff, Dg!ScanStart, Dg!ScanComplete
  <2>2. Dg!GainKnown'
    BY <1>2 DEF Dg!PowerOff, Dg!ScanStart, Dg!ScanComplete, Dg!ResetGain, GainInv,
         Dg!GainKnown
  <2> QED
    BY <2>1, <2>2 DEF GainInv, PeerTypes
<1>3. ASSUME NEW s \in GainStas, Dg!StaAdd(s) PROVE GainInv'
  BY <1>3 DEF Dg!StaAdd, GainInv, PeerTypes, Dg!GainKnown
<1>4. ASSUME NEW s \in GainStas, Dg!Upload(s) PROVE GainInv'
  <2>1. PeerTypes'
    BY <1>4 DEF Dg!Upload, GainInv, PeerTypes
  <2> QED
    BY <1>4, <2>1 DEF Dg!Upload, GainInv, Dg!GainKnown
<1>5. ASSUME NEW s \in GainStas, Dg!StaRemove(s) PROVE GainInv'
  <2>1. PeerTypes'
    BY <1>5 DEF Dg!StaRemove, GainInv, PeerTypes
  <2> QED
    BY <1>5, <2>1 DEF Dg!StaRemove, GainInv, Dg!GainKnown
<1>6. ASSUME NEW s \in GainStas, NEW r \in GainRssis, Dg!SignalChanges(s, r) PROVE GainInv'
  <2>1. PeerTypes'
    BY <1>6, GainAssumption DEF Dg!SignalChanges, GainInv, PeerTypes
  <2> QED
    BY <1>6, <2>1 DEF Dg!SignalChanges, GainInv, Dg!GainKnown
<1>7. ASSUME NEW fa, NEW lost, Dg!WatchDog(fa, lost) PROVE GainInv'
  BY <1>7, WatchDogKeeps
<1>8. CASE UNCHANGED Dg!dig_vars
  BY <1>8 DEF Dg!dig_vars, GainInv, PeerTypes, Dg!GainKnown
<1> QED
  BY <1>1, <1>2, <1>3, <1>4, <1>5, <1>6, <1>7, <1>8, Zenon DEF Dg!Next, Dg!Event

LEMMA GainSafe == Dg!Spec => [](Dg!GainKnown /\ Dg!GainInRange /\ Dg!HeardUnlessFrozen)
<1>1. GainInv => Dg!GainKnown /\ Dg!GainInRange /\ Dg!HeardUnlessFrozen
  BY GainInvImplies DEF GainInv
<1> QED
  BY GainInit, GainNext, <1>1, PTL DEF Dg!Spec
----------------------------------------------------------------------------
(* The threshold for CCK.                                                  *)
LEMMA ThresholdInit == Pd!Init => Pd!ThresholdKnown
  BY DEF Pd!Init, Pd!ThresholdKnown
LEMMA ThresholdNext == Pd!ThresholdKnown /\ [Pd!Next]_(Pd!cck_vars) => Pd!ThresholdKnown'
<1> SUFFICES ASSUME Pd!ThresholdKnown, [Pd!Next]_(Pd!cck_vars) PROVE Pd!ThresholdKnown'
  OBVIOUS
<1>1. CASE Pd!PowerOn
  BY <1>1 DEF Pd!PowerOn, Pd!ThresholdKnown
<1>2. CASE Pd!PowerOff
  BY <1>2 DEF Pd!PowerOff, Pd!ThresholdKnown
<1>3. CASE Pd!JoinOrLeave \/ Pd!SwitchBand
  BY <1>3 DEF Pd!JoinOrLeave, Pd!SwitchBand, Pd!ThresholdKnown
<1>4. ASSUME NEW fa, NEW rssi, NEW gain, Pd!WatchDog(fa, rssi,
        gain) PROVE Pd!ThresholdKnown'
  BY <1>4 DEF Pd!WatchDog, Pd!SetLevel, Pd!ThresholdKnown
<1>5. CASE UNCHANGED Pd!cck_vars
  BY <1>5 DEF Pd!cck_vars, Pd!ThresholdKnown
<1> QED BY <1>1, <1>2, <1>3, <1>4, <1>5 DEF Pd!Next
LEMMA ThresholdSafe == Pd!Spec => []Pd!ThresholdKnown
  BY ThresholdInit, ThresholdNext, PTL DEF Pd!Spec

(* What is written to the receiver is what the driver thinks, in the range *)
(* of the hardware, and hears the weakest peer unless frozen (phy.c:386,   *)
(* phy.c:398, phy.c:588); the threshold is that of the level (phy.c:154).  *)
THEOREM GainIsSound == Dg!Spec /\ Pd!Spec => []GainSound
<1>1. Dg!GainKnown /\ Dg!GainInRange /\ Dg!HeardUnlessFrozen
        /\ Pd!ThresholdKnown => GainSound
  BY DEF GainSound
<1> QED
  BY <1>1, GainSafe, ThresholdSafe, PTL

----------------------------------------------------------------------------

(* The software queues.                                                    *)
Sessions == {"none", "asked", "up", "ending"}

QueueTypes ==
  /\ depth \in [Txqs -> Nat] /\ waking \subseteq Txqs /\ txqs \in Seq(Txqs)
  /\ walk \in Seq(Txqs) /\ frame_cnt \in Nat \cup {-1} /\ direct \in Nat
  /\ ampdu \subseteq Txqs /\ session \in [Txqs -> Sessions]

(* The frames a pass found, and those that came since and wake the queue.  *)
CountsAgree ==
  lock # Tq!NOBODY /\ walk # <<>> /\ frame_cnt >= 0 =>
    depth[walk[1]] <= frame_cnt \/ walk[1] \in waking

TqInv == QueueTypes /\ CountsAgree /\ Tq!NoneForgotten /\ Tq!SessionsAgree

LEMMA ToSetAppend ==
  ASSUME NEW S, NEW s \in Seq(S), NEW e \in S
  PROVE  Tq!ToSet(Append(s, e)) = Tq!ToSet(s) \cup {e}
<1>1. /\ Len(Append(s, e)) = Len(s) + 1
      /\ \A i \in 1..Len(s) : Append(s, e)[i] = s[i]
      /\ Append(s, e)[Len(s) + 1] = e
      /\ DOMAIN Append(s, e) = 1..(Len(s) + 1) /\ DOMAIN s = 1..Len(s) /\ Len(s) \in Nat
  OBVIOUS
<1>2. 1..(Len(s) + 1) = 1..Len(s) \cup {Len(s) + 1}
  BY <1>1
<1> QED
  <2> DEFINE t == Append(s, e)
  <2>1. Tq!ToSet(s) = {s[i] : i \in 1..Len(s)}
    BY <1>1 DEF Tq!ToSet
  <2>2. Tq!ToSet(Append(s, e)) = {Append(s, e)[i] : i \in 1..Len(s) \cup {Len(s) + 1}}
    BY <1>1, <1>2, Zenon DEF Tq!ToSet
  <2> HIDE DEF t
  <2>3. ASSUME NEW x PROVE x \in Tq!ToSet(t) <=> x \in Tq!ToSet(s) \cup {e}
    BY <1>1, <2>1, <2>2 DEF t
  <2> QED
    BY <2>3 DEF t

LEMMA InTail ==
  ASSUME NEW S, NEW s \in Seq(S), s # <<>>, NEW e \in Tq!ToSet(s), e # s[1]
  PROVE  e \in Tq!ToSet(Tail(s))
<1>1. PICK i \in 1..Len(s) : s[i] = e
  BY DEF Tq!ToSet
<1>2. i - 1 \in 1..Len(Tail(s)) /\ Tail(s)[i - 1] = e
  BY <1>1
<1>3. DOMAIN Tail(s) = 1..Len(Tail(s))
  OBVIOUS
<1> QED
  BY <1>2, <1>3, Zenon DEF Tq!ToSet

LEMMA RemoveAtProperties ==
  ASSUME NEW S, NEW q \in Seq(S), NEW k \in 1..Len(q)
  PROVE  /\ Tq!RemoveAt(q, k) \in Seq(S)
         /\ Len(Tq!RemoveAt(q, k)) = Len(q) - 1
         /\ \A j \in 1..(Len(q) - 1) :
              Tq!RemoveAt(q, k)[j] = IF j < k THEN q[j] ELSE q[j + 1]
<1> DEFINE a == SubSeq(q, 1, k - 1)
           b == SubSeq(q, k + 1, Len(q))
<1>1. a \in Seq(S) /\ Len(a) = k - 1 /\ \A j \in 1..(k - 1) : a[j] = q[j]
  <2>1. \A j \in 1..(k - 1) : q[j] \in S
    OBVIOUS
  <2>2. /\ a \in Seq(S) /\ Len(a) = IF 1 <= k - 1 THEN (k - 1) - 1 + 1 ELSE 0
        /\ \A j \in 1..((k - 1) - 1 + 1) : a[j] = q[1 + j - 1]
    BY <2>1, SubSeqProperties
  <2> HIDE DEF a
  <2>3. 1 <= k - 1 \/ k - 1 = 0
    OBVIOUS
  <2> QED
    BY <2>2, <2>3
<1>2. /\ b \in Seq(S) /\ Len(b) = Len(q) - k
      /\ \A j \in 1..(Len(q) - k) : b[j] = q[k + j]
  <2>1. \A j \in (k + 1)..Len(q) : q[j] \in S
    OBVIOUS
  <2>2. /\ b \in Seq(S) /\ Len(b) = IF k + 1 <= Len(q) THEN Len(q) - (k + 1) + 1 ELSE 0
        /\ \A j \in 1..(Len(q) - (k + 1) + 1) : b[j] = q[(k + 1) + j - 1]
    BY <2>1, SubSeqProperties
  <2> HIDE DEF b
  <2>3. k + 1 <= Len(q) \/ Len(q) - k = 0
    OBVIOUS
  <2> QED
    BY <2>2, <2>3
<1>3. Tq!RemoveAt(q, k) = a \o b
  BY DEF Tq!RemoveAt
<1> HIDE DEF a, b
<1>4. /\ a \o b \in Seq(S) /\ Len(a \o b) = Len(a) + Len(b)
      /\ \A j \in 1..(Len(a) + Len(b)) :
           (a \o b)[j] = IF j <= Len(a) THEN a[j] ELSE b[j - Len(a)]
  BY <1>1, <1>2, ConcatProperties
<1>5. ASSUME NEW j \in 1..(Len(q) - 1)
      PROVE  (a \o b)[j] = IF j < k THEN q[j] ELSE q[j + 1]
  BY <1>1, <1>2, <1>4, <1>5
<1> QED
  BY <1>1, <1>2, <1>3, <1>4, <1>5

LEMMA KeptByRemoveAt ==
  ASSUME NEW S, NEW s \in Seq(S), NEW k \in 1..Len(s), NEW e \in Tq!ToSet(s), e # s[k]
  PROVE  e \in Tq!ToSet(Tq!RemoveAt(s, k))
<1> DEFINE r == Tq!RemoveAt(s, k)
<1>1. /\ r \in Seq(S) /\ Len(r) = Len(s) - 1
      /\ \A j \in 1..(Len(s) - 1) : r[j] = IF j < k THEN s[j] ELSE s[j + 1]
  BY RemoveAtProperties
<1> HIDE DEF r
<1>2. PICK i \in 1..Len(s) : s[i] = e
  BY DEF Tq!ToSet
<1>3. \E j \in 1..Len(r) : r[j] = e
  <2>1. CASE i < k
    BY <1>1, <1>2, <2>1
  <2>2. CASE i > k
    <3>1. i - 1 \in 1..Len(r) /\ r[i - 1] = s[i]
      BY <1>1, <2>2
    <3> QED
      BY <1>2, <3>1
  <2> QED
    BY <1>2, <2>1, <2>2
<1> QED
  BY <1>1, <1>3 DEF Tq!ToSet, r

(* Facts of two kinds: those of the queues and those of the sessions.      *)
LEMMA TqInit == Tq!Init => TqInv
<1> SUFFICES ASSUME Tq!Init PROVE TqInv
  OBVIOUS
<1>1. QueueTypes
  BY DEF Tq!Init, QueueTypes, Sessions
<1>2. CountsAgree /\ Tq!SessionsAgree
  BY DEF Tq!Init, CountsAgree, Tq!SessionsAgree
<1>3. Tq!NoneForgotten
  BY DEF Tq!Init, Tq!NoneForgotten
<1> QED
  BY <1>1, <1>2, <1>3 DEF TqInv

LEMMA TqNext == TqInv /\ [Tq!Next]_(Tq!txq_vars) => TqInv'
<1> SUFFICES ASSUME TqInv, [Tq!Next]_(Tq!txq_vars) PROVE TqInv'
  OBVIOUS
<1> USE DEF TqInv
<1>1. ASSUME NEW q \in Txqs, Tq!Arrive(q) PROVE TqInv'
  <2>1. QueueTypes'
    BY <1>1 DEF Tq!Arrive, QueueTypes, Tq!ba_vars
  <2>2. CountsAgree'
    BY <1>1 DEF Tq!Arrive, QueueTypes, CountsAgree, Tq!ba_vars
  <2>3. Tq!NoneForgotten'
    BY <1>1 DEF Tq!Arrive, QueueTypes, Tq!NoneForgotten, Tq!ba_vars
  <2>4. Tq!SessionsAgree'
    BY <1>1 DEF Tq!Arrive, Tq!SessionsAgree, Tq!ba_vars
  <2> QED
    BY <2>1, <2>2, <2>3, <2>4
<1>2. ASSUME NEW q \in Txqs, Tq!Wake(q) PROVE TqInv'
  <2>1. QueueTypes'
    <3>1. txqs' \in Seq(Txqs)
      <4>1. Append(txqs, q) \in Seq(Txqs)
        BY DEF QueueTypes
      <4> QED
        BY <1>2, <4>1 DEF Tq!Wake, QueueTypes
    <3>2. direct' \in Nat
      BY <1>2 DEF Tq!Wake, QueueTypes
    <3>3. waking' \subseteq Txqs
      BY <1>2 DEF Tq!Wake, QueueTypes
    <3>4. UNCHANGED <<depth, walk, frame_cnt, ampdu, session>>
      BY <1>2 DEF Tq!Wake, Tq!ba_vars
    <3> QED
      BY <3>1, <3>2, <3>3, <3>4 DEF QueueTypes
  <2>2. CountsAgree'
    BY <1>2 DEF Tq!Wake, QueueTypes, CountsAgree, Tq!ba_vars
  <2>3. Tq!NoneForgotten'
    <3>1. Tq!ToSet(txqs') = Tq!ToSet(txqs) \cup {q}
      BY <1>2, ToSetAppend DEF Tq!Wake, QueueTypes
    <3>2. tx_work' \/ direct' > 0
      BY <1>2 DEF Tq!Wake, QueueTypes
    <3>3. waking' = waking \ {q} /\ UNCHANGED <<depth, held_back>>
      BY <1>2 DEF Tq!Wake, Tq!ba_vars
    <3>4. lock = Tq!NOBODY
      BY <1>2 DEF Tq!Wake
    <3> QED
      BY <3>1, <3>2, <3>3, <3>4 DEF Tq!NoneForgotten
  <2>4. Tq!SessionsAgree'
    BY <1>2 DEF Tq!Wake, Tq!SessionsAgree, Tq!ba_vars
  <2> QED
    BY <2>1, <2>2, <2>3, <2>4
<1>3. CASE Tq!BeginWork \/ Tq!BeginDirect
  <2>1. QueueTypes'
    <3>1. direct' \in Nat
      BY <1>3 DEF Tq!BeginWork, Tq!BeginDirect, QueueTypes
    <3>2. walk' = txqs /\ frame_cnt' = -1
            /\ UNCHANGED <<depth, waking, txqs, ampdu, session>>
      BY <1>3 DEF Tq!BeginWork, Tq!BeginDirect, Tq!ba_vars
    <3> QED
      BY <3>1, <3>2 DEF QueueTypes
  <2>2. CountsAgree'
    BY <1>3 DEF Tq!BeginWork, Tq!BeginDirect, CountsAgree, Tq!ba_vars
  <2>3. Tq!NoneForgotten'
    BY <1>3 DEF Tq!BeginWork, Tq!BeginDirect, Tq!NoneForgotten, Tq!NOBODY, Tq!ba_vars
  <2>4. Tq!SessionsAgree'
    BY <1>3 DEF Tq!BeginWork, Tq!BeginDirect, Tq!SessionsAgree, Tq!ba_vars
  <2> QED
    BY <2>1, <2>2, <2>3, <2>4
<1>4. CASE Tq!CountFrames
  <2>0. walk[1] \in Txqs
    BY <1>4 DEF Tq!CountFrames, QueueTypes
  <2>1. QueueTypes'
    BY <1>4, <2>0 DEF Tq!CountFrames, QueueTypes, Tq!ba_vars
  <2>2. CountsAgree'
    BY <1>4, <2>0 DEF Tq!CountFrames, QueueTypes, CountsAgree, Tq!ba_vars
  <2>3. Tq!NoneForgotten'
    BY <1>4 DEF Tq!CountFrames, Tq!NoneForgotten, Tq!ba_vars
  <2>4. Tq!SessionsAgree'
    BY <1>4 DEF Tq!CountFrames, Tq!SessionsAgree, Tq!ba_vars
  <2> QED
    BY <2>1, <2>2, <2>3, <2>4
<1>5. CASE Tq!PushFrame
  <2>0. walk[1] \in Txqs
    BY <1>5 DEF Tq!PushFrame, QueueTypes
  <2>1. QueueTypes'
    BY <1>5, <2>0 DEF Tq!PushFrame, QueueTypes
  <2>2. CountsAgree'
    BY <1>5, <2>0 DEF Tq!PushFrame, QueueTypes, CountsAgree
  <2>3. Tq!NoneForgotten'
    BY <1>5, <2>0 DEF Tq!PushFrame, QueueTypes, Tq!NoneForgotten
  <2>4. Tq!SessionsAgree'
    <3>1. UNCHANGED <<ampdu, session>>
      BY <1>5 DEF Tq!PushFrame
    <3>2. tid_ba' # {} => ba_work' # "idle"
      BY <1>5 DEF Tq!PushFrame, Tq!CheckAgg, Tq!QueueBaWork, Tq!SessionsAgree
    <3> QED
      BY <3>1, <3>2 DEF Tq!SessionsAgree
  <2> QED
    BY <2>1, <2>2, <2>3, <2>4
<1>6. CASE Tq!Delist
  <2>1. PICK i \in 1..Len(txqs) : txqs[i] = walk[1] /\ txqs' = Tq!RemoveAt(txqs, i)
    <3>1. DOMAIN txqs = 1..Len(txqs)
      BY DEF QueueTypes
    <3> QED
      BY <1>6, <3>1, Zenon DEF Tq!Delist
  <2>2. walk # <<>> /\ walk' = Tail(walk) /\ frame_cnt' = -1
    BY <1>6 DEF Tq!Delist
  <2>3. UNCHANGED <<depth, waking, tx_work, lock, direct, Tq!ba_vars>>
    BY <1>6 DEF Tq!Delist
  <2>4. QueueTypes'
    <3>1. Tq!RemoveAt(txqs, i) \in Seq(Txqs)
      BY RemoveAtProperties, Zenon DEF QueueTypes
    <3>2. Tail(walk) \in Seq(Txqs)
      BY <2>2 DEF QueueTypes
    <3> QED
      BY <2>1, <2>2, <2>3, <3>1, <3>2 DEF QueueTypes, Tq!ba_vars
  <2>5. CountsAgree'
    BY <2>2 DEF CountsAgree
  <2>6. Tq!NoneForgotten'
    <3> SUFFICES ASSUME NEW q \in Txqs, depth[q] > 0, q \notin held_back, q \notin waking
                 PROVE  /\ q \in Tq!ToSet(txqs')
                        /\ tx_work \/ direct > 0 \/ (lock # Tq!NOBODY
                             /\ q \in Tq!ToSet(walk'))
      BY <2>3 DEF Tq!NoneForgotten, Tq!ba_vars
    <3>1. /\ q \in Tq!ToSet(txqs)
          /\ tx_work \/ direct > 0 \/ (lock # Tq!NOBODY /\ q \in Tq!ToSet(walk))
      BY DEF Tq!NoneForgotten
    <3>2. q # walk[1]
      BY <1>6 DEF Tq!Delist, CountsAgree, QueueTypes
    <3>3. q \in Tq!ToSet(txqs')
      BY <2>1, <3>1, <3>2, KeptByRemoveAt DEF QueueTypes
    <3>4. q \in Tq!ToSet(walk) => q \in Tq!ToSet(walk')
      BY <2>2, <3>2, InTail DEF QueueTypes
    <3> QED
      BY <3>1, <3>3, <3>4
  <2>7. Tq!SessionsAgree'
    BY <2>3 DEF Tq!SessionsAgree, Tq!ba_vars
  <2> QED
    BY <2>4, <2>5, <2>6, <2>7
<1>7. CASE Tq!EndWork
  <2>1. QueueTypes'
    BY <1>7 DEF Tq!EndWork, QueueTypes, Tq!ba_vars
  <2>2. CountsAgree'
    BY <1>7 DEF Tq!EndWork, CountsAgree, Tq!ba_vars
  <2>3. Tq!NoneForgotten'
    <3>1. Tq!ToSet(walk) = {}
      BY <1>7 DEF Tq!EndWork, Tq!ToSet
    <3> QED
      BY <1>7, <3>1 DEF Tq!EndWork, Tq!NoneForgotten, Tq!ba_vars
  <2>4. Tq!SessionsAgree'
    BY <1>7 DEF Tq!EndWork, Tq!SessionsAgree, Tq!ba_vars
  <2> QED
    BY <2>1, <2>2, <2>3, <2>4
<1>8. ASSUME Tq!BaWorkBegin \/ Tq!BaWorkEnd
        \/ \E q \in Txqs : Tq!StartSession(q) PROVE TqInv'
  <2>0. UNCHANGED <<depth, waking, txqs, tx_work, lock, walk, frame_cnt, direct, ampdu,
          held_back>>
    BY <1>8 DEF Tq!BaWorkBegin, Tq!BaWorkEnd, Tq!StartSession
  <2>1. \A p \in Txqs : session'[p] = session[p] \/ (session[p] = "none"
          /\ session'[p] = "asked")
    BY <1>8 DEF Tq!BaWorkBegin, Tq!BaWorkEnd, Tq!StartSession, QueueTypes
  <2>2. QueueTypes'
    <3>1. session' \in [Txqs -> Sessions]
      BY <1>8 DEF Tq!BaWorkBegin, Tq!BaWorkEnd, Tq!StartSession, QueueTypes, Sessions
    <3> QED
      BY <2>0, <3>1 DEF QueueTypes
  <2>3. CountsAgree' /\ Tq!NoneForgotten'
    BY <2>0 DEF CountsAgree, Tq!NoneForgotten
  <2>4. Tq!SessionsAgree'
    <3>1. tid_ba' # {} => ba_work' # "idle"
      BY <1>8 DEF Tq!BaWorkBegin, Tq!BaWorkEnd, Tq!StartSession, Tq!SessionsAgree
    <3>2. \A p \in ampdu : session'[p] \in {"up", "ending"}
      BY <2>1 DEF Tq!SessionsAgree, QueueTypes
    <3> QED
      BY <2>0, <2>1, <3>1, <3>2 DEF Tq!SessionsAgree, QueueTypes
  <2> QED
    BY <2>2, <2>3, <2>4
<1>9. ASSUME NEW q \in Txqs, Tq!Operational(q) \/ Tq!EndSession(q)
        \/ Tq!StopSession(q) PROVE TqInv'
  <2>0. UNCHANGED <<depth, txqs, tx_work, lock, walk, frame_cnt, direct, tid_ba, ba_work>>
    BY <1>9 DEF Tq!Operational, Tq!EndSession, Tq!StopSession, Tq!Others
  <2>1. QueueTypes'
    <3>1. session' \in [Txqs -> Sessions] /\ waking' \subseteq Txqs /\ ampdu' \subseteq Txqs
      BY <1>9 DEF Tq!Operational, Tq!EndSession, Tq!StopSession, QueueTypes, Sessions
    <3> QED
      BY <2>0, <3>1 DEF QueueTypes
  <2>2. waking \subseteq waking' /\ \A p \in held_back : p \in held_back' \/ p \in waking'
    BY <1>9 DEF Tq!Operational, Tq!EndSession, Tq!StopSession
  <2>3. CountsAgree' /\ Tq!NoneForgotten'
    BY <2>0, <2>2 DEF CountsAgree, Tq!NoneForgotten
  <2>4. Tq!SessionsAgree'
    <3>1. \A p \in ampdu' : (p # q /\ p \in ampdu) \/ (p = q
            /\ session'[q] \in {"up", "ending"})
      BY <1>9 DEF Tq!Operational, Tq!EndSession, Tq!StopSession, Tq!SessionsAgree,
           QueueTypes
    <3>2. \A p \in Txqs : p # q => session'[p] = session[p]
      BY <1>9 DEF Tq!Operational, Tq!EndSession, Tq!StopSession, QueueTypes
    <3> QED
      BY <2>0, <2>1, <3>1, <3>2 DEF Tq!SessionsAgree, QueueTypes
  <2> QED
    BY <2>1, <2>3, <2>4
<1>10. CASE UNCHANGED Tq!txq_vars
  <2>1. QueueTypes' /\ CountsAgree' /\ Tq!NoneForgotten' /\ Tq!SessionsAgree'
    BY <1>10 DEF Tq!txq_vars, Tq!ba_vars, QueueTypes, CountsAgree, Tq!NoneForgotten,
         Tq!SessionsAgree
  <2> QED
    BY <2>1
<1> QED
  BY <1>1, <1>2, <1>3, <1>4, <1>5, <1>6, <1>7, <1>8, <1>9, <1>10 DEF Tq!Next

(* However pushes, wakes and stops of the queues are interleaved no frame  *)
(* waits in a queue that nobody will visit (mac80211.c:43), and a queue's  *)
(* block ack state is that of a session mac80211 knows (main.c:708).       *)
THEOREM TransmitIsSound == Tq!Spec => []TransmitSound
<1>1. Tq!Spec => []TqInv
  BY TqInit, TqNext, PTL DEF Tq!Spec
<1>2. TqInv => TransmitSound
  BY DEF TqInv, TransmitSound
<1> QED
  BY <1>1, <1>2, PTL

----------------------------------------------------------------------------
(***************************************************************************)
(* The rates.  A peer's info is told to the firmware at every fourth period*)
(* of the watchdog, so it is stale for (watch_dog_cnt + 3) % 4 periods at  *)
(* most (PeerSound); what was told on the interface's band is in the       *)
(* table of its rates (ToldSound).                                         *)
(***************************************************************************)
SiFields == {"rssi_level", "mask", "desc_rate"}

(* A peer that the interface can have on its band.                         *)
Fits(cap, on) ==
  /\ cap \in Caps
  /\ on = "5G" => cap.legacy \cap Ra!Cck = {}
  /\ on = "2G" => cap.kind # "VHT"

(* What the firmware may be told on a band.                                *)
ToldSound(ra, on) ==
  /\ ra.mask \subseteq 0..31
  /\ ra.band = on => /\ ra.mask \subseteq Ra!TableRates(ra.rate_id)
                     /\ on = "5G" => ra.mask \cap Ra!Cck = {}

RatesTypes ==
  /\ oper \in {"2G", "5G"} /\ rate_band \in {"2G", "5G"} /\ rate_scan \in BOOLEAN
  /\ ~rate_scan => rate_band = oper
  /\ DOMAIN si = DOMAIN peer /\ DOMAIN told_ra = DOMAIN peer /\ DOMAIN since = DOMAIN peer
  /\ \A r \in c2h_rate : r[2] \in Nat
  /\ watch_dog_cnt \in 0..3

PeerSound(s) ==
  /\ Fits(peer[s], oper)
  /\ DOMAIN si[s] = SiFields /\ si[s].desc_rate \in Nat /\ si[s].rssi_level \in 0..6
  /\ ToldSound(told_ra[s], oper)
  /\ since[s] \in Nat /\ since[s] <= (watch_dog_cnt + 3) % 4

Responses ==
  /\ rrsr_val_init # {} => 4 \in rrsr_val_init
  /\ Ra!ResponsesHeard

RatesInv == RatesTypes /\ Responses /\ \A s \in DOMAIN peer : PeerSound(s)

(* The levels.                                                             *)
Floor(old, i) == Ra!Floors[i + 1] + (IF i >= old THEN 3 ELSE 0)

LEMMA FloorValues ==
  ASSUME NEW old \in 0..6, NEW i \in 0..6
  PROVE  /\ Floor(old, i) \in Int /\ Floor(old, 6) = 103
         /\ i >= old => Floor(old, i) = Ra!Floors[i + 1] + 3
         /\ i < old => Floor(old, i) = Ra!Floors[i + 1]
         /\ Ra!Floors[i + 1] \in Int
  BY DEF Floor, Ra!Floors

LEMMA LevelIs ==
  ASSUME NEW old \in 0..6, NEW rssi \in 0..100
  PROVE  /\ Ra!RssiLevel(old, rssi) \in 0..6
         /\ rssi < Floor(old, Ra!RssiLevel(old, rssi))
         /\ \A i \in 0..6 : i < Ra!RssiLevel(old, rssi) => rssi >= Floor(old, i)
<1> DEFINE above == {i \in 0..6 : rssi < Floor(old, i)}
<1>1. Ra!RssiLevel(old, rssi) = IF above = {} THEN 0
        ELSE CHOOSE i \in above : \A j \in above : i <= j
  BY DEF Ra!RssiLevel, Floor
<1>2. 6 \in above
  BY FloorValues
<1>3. \E i \in above : \A j \in above : i <= j
  <2>1. above \subseteq Nat /\ above # {}
    BY <1>2
  <2> HIDE DEF above
  <2> QED
    BY <2>1, LeastOne
<1>4. Ra!RssiLevel(old, rssi) \in above /\ \A j \in above : Ra!RssiLevel(old, rssi) <= j
  <2> HIDE DEF above
  <2> QED
    BY <1>1, <1>2, <1>3
<1> QED
  BY <1>4, FloorValues

LEMMA LevelsKeep ==
  ASSUME NEW old \in 0..6, NEW weak \in 0..100, NEW strong \in 0..100
  PROVE  /\ Ra!RssiLevel(Ra!RssiLevel(old, weak), weak) = Ra!RssiLevel(old, weak)
         /\ weak <= strong => Ra!RssiLevel(old, weak) <= Ra!RssiLevel(old, strong)
<1> DEFINE a == Ra!RssiLevel(old, weak)
           b == Ra!RssiLevel(old, strong)
           c == Ra!RssiLevel(a, weak)
<1>1. a \in 0..6 /\ weak < Floor(old, a) /\ \A i \in 0..6 : i < a => weak >= Floor(old, i)
  BY LevelIs
<1>2. b \in 0..6 /\ strong < Floor(old, b)
        /\ \A i \in 0..6 : i < b => strong >= Floor(old, i)
  BY LevelIs
<1>3. c \in 0..6 /\ weak < Floor(a, c) /\ \A i \in 0..6 : i < c => weak >= Floor(a, i)
  BY <1>1, LevelIs
<1> HIDE DEF a, b, c
<1>4. weak <= strong => a <= b
  BY <1>1, <1>2, FloorValues
<1>5. ~(c < a)
  <2> SUFFICES ASSUME c < a PROVE FALSE
    OBVIOUS
  <2>1. Floor(a, c) = Ra!Floors[c + 1] /\ Floor(old, c) >= Ra!Floors[c + 1]
          /\ weak >= Floor(old, c)
    BY <1>1, <1>3, FloorValues
  <2>2. Ra!Floors[c + 1] \in Int /\ Floor(old, c) \in Int /\ Floor(a, c) \in Int
    BY <1>1, <1>3, FloorValues
  <2> QED
    BY <1>3, <2>1, <2>2
<1>6. ~(a < c)
  <2> SUFFICES ASSUME a < c PROVE FALSE
    OBVIOUS
  <2>1. Floor(a, a) = Ra!Floors[a + 1] + 3 /\ Floor(old, a) <= Ra!Floors[a + 1] + 3
          /\ weak >= Floor(a, a)
    BY <1>1, <1>3, FloorValues
  <2>2. Ra!Floors[a + 1] \in Int /\ Floor(old, a) \in Int /\ Floor(a, a) \in Int
    BY <1>1, <1>3, FloorValues
  <2> QED
    BY <1>1, <2>1, <2>2
<1>7. a = c
  BY <1>1, <1>3, <1>5, <1>6
<1> QED
  BY <1>4, <1>7 DEF a, b, c

(* The rates of responses.                                                 *)
LEMMA OrderAtLeastOne ==
  ASSUME NEW rate \in Nat
  PROVE  4 \in Ra!RrsrMask(rate)
<1> DEFINE G == {g \in Ra!GroupsOfRates : g <= rate}
<1>1. Ra!Max(G) \in G
  <2>1. \E x \in G : \A y \in G : x >= y
    <3>1. CASE rate < 4
      BY <3>1 DEF Ra!GroupsOfRates
    <3>2. CASE 4 <= rate /\ rate < 12
      BY <3>2 DEF Ra!GroupsOfRates
    <3>3. CASE 12 <= rate /\ rate < 20
      BY <3>3 DEF Ra!GroupsOfRates
    <3>4. CASE 20 <= rate /\ rate < 44
      BY <3>4 DEF Ra!GroupsOfRates
    <3>5. CASE 44 <= rate /\ rate < 54
      BY <3>5 DEF Ra!GroupsOfRates
    <3>6. CASE 54 <= rate
      BY <3>6 DEF Ra!GroupsOfRates
    <3> QED
      BY <3>1, <3>2, <3>3, <3>4, <3>5, <3>6
  <2> HIDE DEF G
  <2> QED
    BY <2>1 DEF Ra!Max
<1>2. Ra!Max(G) \in Int /\ Ra!Max(G) <= rate
  BY <1>1 DEF Ra!GroupsOfRates
<1>3. Ra!OrderFromZero(rate) \in Nat
  BY <1>2 DEF Ra!OrderFromZero
<1>4. Ra!RateOrder(rate) \in Int /\ Ra!RateOrder(rate) >= 1
  BY <1>3 DEF Ra!RateOrder
<1> QED
  BY <1>4 DEF Ra!RrsrMask

(* What the firmware is told.                                              *)
LEMMA McsRange ==
  ASSUME NEW cap \in Caps
  PROVE  /\ Ra!Mcs(cap) \subseteq 12..31
         /\ cap.kind = "legacy" => Ra!Mcs(cap) = {}
         /\ cap.kind = "HT" => Ra!Mcs(cap) \subseteq Ra!HtRates(NSS)
         /\ cap.kind = "VHT" => Ra!Mcs(cap) \subseteq Ra!VhtRates(NSS)
<1>1. cap.kind \in {"legacy", "HT", "VHT"} /\ NSS \in {1, 2}
  BY RatesAssumption
<1>2. CASE cap.kind = "legacy"
  BY <1>2 DEF Ra!Mcs
<1>3. CASE cap.kind = "HT"
  <2>1. cap.mcs \subseteq 0 .. 8 * NSS - 1
    BY <1>3, RatesAssumption
  <2>2. Ra!Mcs(cap) = {12 + m : m \in cap.mcs} \cap (Ra!HtRates(NSS) \cup Ra!VhtRates(NSS))
    BY <1>3 DEF Ra!Mcs
  <2>3. ASSUME NEW m \in 0 .. 8 * NSS - 1 PROVE 12 + m \in Ra!HtRates(NSS)
          /\ 12 + m \in 12..31
    BY <1>1 DEF Ra!HtRates
  <2> QED
    BY <1>3, <2>1, <2>2, <2>3
<1>4. CASE cap.kind = "VHT"
  <2>1. Ra!Mcs(cap) \subseteq Ra!VhtRates(NSS)
    BY <1>4 DEF Ra!Mcs
  <2>2. Ra!VhtRates(NSS) \subseteq 12..31
    BY <1>1 DEF Ra!VhtRates
  <2> QED
    BY <1>4, <2>1, <2>2
<1> QED
  BY <1>1, <1>2, <1>3, <1>4

Backed(cap, on) == Ra!Mcs(cap) \cup Ra!Legacy(cap, on)

(* A mask has only rates that the peer and the chip have.                  *)
LEMMA MaskWithin ==
  ASSUME NEW bak, NEW mask, mask \subseteq bak, NEW level, NEW set, NEW user, NEW on,
    NEW vht
  PROVE  Ra!MaskCfg(Ra!MaskRecover(Ra!MaskRssi(mask, level, set), bak), user, on,
    vht) \subseteq bak
<1>1. Ra!MaskRssi(mask, level, set) \subseteq bak
  BY DEF Ra!MaskRssi
<1>2. Ra!MaskRecover(Ra!MaskRssi(mask, level, set), bak) \subseteq bak
  BY <1>1 DEF Ra!MaskRecover
<1> QED
  BY <1>2 DEF Ra!MaskCfg

LEMMA TableHas ==
  ASSUME NEW cap, NEW on \in {"2G", "5G"}, Fits(cap, on), NEW nss,
         nss = (IF cap.kind = "legacy" THEN 1 ELSE NSS), Ra!Legacy(cap, on) = cap.legacy
  PROVE  Backed(cap, on) \subseteq Ra!TableRates(Ra!RateId(Ra!WirelessSet(cap, on), cap.bw,
    nss))
<1> DEFINE set == Ra!WirelessSet(cap, on)
           id == Ra!RateId(set, cap.bw, nss)
<1>1. /\ cap.kind \in {"legacy", "HT", "VHT"} /\ NSS \in {1, 2}
      /\ cap.legacy \subseteq Ra!Cck \cup Ra!Ofdm
           /\ (on = "5G" => cap.legacy \subseteq Ra!Ofdm)
  BY RatesAssumption DEF Fits, Ra!Cck, Ra!Ofdm
<1>2. CASE cap.kind = "legacy"
  <2>1. Ra!Mcs(cap) = {}
    BY <1>2, McsRange DEF Fits
  <2>2. CASE on = "5G"
    <3>1. set = {"OFDM"}
      BY <1>2, <2>2 DEF Ra!WirelessSet
    <3>2. id = "G"
      BY <3>1 DEF Ra!RateId
    <3> QED
      BY <1>1, <2>1, <2>2, <3>2 DEF Ra!TableRates, Backed
  <2>3. CASE on = "2G" /\ cap.legacy \subseteq Ra!Cck
    <3>1. set = {"CCK"}
      BY <1>2, <2>3 DEF Ra!WirelessSet
    <3>2. id = "B_20M"
      BY <3>1 DEF Ra!RateId
    <3> QED
      BY <1>1, <2>1, <2>3, <3>2 DEF Ra!TableRates, Backed
  <2>4. CASE on = "2G" /\ ~(cap.legacy \subseteq Ra!Cck)
    <3>1. set = {"CCK", "OFDM"}
      BY <1>2, <2>4 DEF Ra!WirelessSet
    <3>2. id = "BG"
      BY <3>1 DEF Ra!RateId
    <3> QED
      BY <1>1, <2>1, <2>4, <3>2 DEF Ra!TableRates, Backed
  <2> QED
    BY <2>2, <2>3, <2>4
<1>3. CASE cap.kind = "HT"
  <2>1. Ra!Mcs(cap) \subseteq Ra!HtRates(NSS) /\ nss = NSS
    BY <1>3, McsRange DEF Fits
  <2>2. CASE on = "5G"
    <3>1. set = {"OFDM", "HT"}
      BY <1>3, <2>2 DEF Ra!WirelessSet
    <3>2. id = IF NSS = 1 THEN "GN_N1SS" ELSE "GN_N2SS"
      BY <2>1, <3>1 DEF Ra!RateId
    <3> QED
      BY <1>1, <2>1, <2>2, <3>2 DEF Ra!TableRates, Backed
  <2>3. CASE on = "2G"
    <3>1. set = {"CCK", "OFDM", "HT"}
      BY <1>3, <2>3 DEF Ra!WirelessSet
    <3>2. id = IF cap.bw = 40 THEN IF NSS = 1 THEN "BGN_40M_1SS" ELSE "BGN_40M_2SS"
                              ELSE IF NSS = 1 THEN "BGN_20M_1SS" ELSE "BGN_20M_2SS"
      <4>1. CASE cap.bw = 40
        BY <2>1, <3>1, <4>1 DEF Ra!RateId
      <4>2. CASE cap.bw # 40
        BY <2>1, <3>1, <4>2 DEF Ra!RateId
      <4> QED
        BY <4>1, <4>2
    <3> QED
      BY <1>1, <2>1, <2>3, <3>2 DEF Ra!TableRates, Backed
  <2> QED
    BY <2>2, <2>3
<1>4. CASE cap.kind = "VHT"
  <2>1. Ra!Mcs(cap) \subseteq Ra!VhtRates(NSS) /\ nss = NSS /\ on = "5G"
    BY <1>4, McsRange DEF Fits
  <2>2. set = {"OFDM", "VHT"}
    BY <1>4, <2>1 DEF Ra!WirelessSet
  <2>3. id = IF NSS = 1 THEN "ARFR1_AC_1SS" ELSE "ARFR0_AC_2SS"
    BY <2>1, <2>2 DEF Ra!RateId
  <2> QED
    BY <1>1, <2>1, <2>3 DEF Ra!TableRates, Backed
<1> QED
  BY <1>1, <1>2, <1>3, <1>4

LEMMA InfoSound ==
  ASSUME NEW cap, Fits(cap, oper), NEW sta, oper \in {"2G", "5G"}, rate_band \in {"2G",
    "5G"}
  PROVE  ToldSound(Ra!Info(cap, sta), oper)
<1> DEFINE bak == Backed(cap, rate_band)
           set == Ra!WirelessSet(cap, rate_band)
           plain == bak \ ((Ra!Cck \cup Ra!Ofdm) \ Ra!KeptLegacy(set, rate_band))
           nss == IF cap.kind = "legacy" THEN 1 ELSE NSS
           recovered == Ra!MaskRecover(Ra!MaskRssi(plain, sta.rssi_level, set), bak)
<1>1. /\ Ra!Info(cap, sta).mask = Ra!MaskCfg(recovered, sta.mask, rate_band,
           cap.kind = "VHT")
      /\ Ra!Info(cap, sta).rate_id = Ra!RateId(set, cap.bw, nss)
           /\ Ra!Info(cap, sta).band = rate_band
  BY DEF Ra!Info, Backed
<1>2. Ra!Info(cap, sta).mask \subseteq bak
  <2>1. plain \subseteq bak
    OBVIOUS
  <2> HIDE DEF plain, bak, set
  <2> QED
    BY <1>1, <2>1, MaskWithin
<1>3. bak \subseteq 0..31
  <2>1. Ra!Mcs(cap) \subseteq 12..31
    BY McsRange DEF Fits
  <2>2. Ra!Legacy(cap, rate_band) \subseteq 0..11
    BY RatesAssumption DEF Ra!Legacy, Fits
  <2> QED
    BY <2>1, <2>2 DEF Backed
<1>4. ASSUME rate_band = oper
      PROVE  /\ Ra!Info(cap, sta).mask \subseteq Ra!TableRates(Ra!Info(cap, sta).rate_id)
             /\ oper = "5G" => Ra!Info(cap, sta).mask \cap Ra!Cck = {}
  <2>1. Ra!Legacy(cap, rate_band) = cap.legacy /\ Fits(cap, rate_band)
    BY <1>4 DEF Ra!Legacy
  <2>2. bak \subseteq Ra!TableRates(Ra!RateId(set, cap.bw, nss))
    BY <2>1, TableHas
  <2>3. oper = "5G" => bak \cap Ra!Cck = {}
    <3>1. Ra!Mcs(cap) \cap Ra!Cck = {}
      BY McsRange DEF Fits, Ra!Cck
    <3> QED
      BY <1>4, <2>1, <3>1 DEF Backed, Fits
  <2> HIDE DEF bak, set
  <2> QED
    BY <1>1, <1>2, <2>2, <2>3
<1> QED
  BY <1>1, <1>2, <1>3, <1>4 DEF ToldSound

LEMMA InfoFresh ==
  ASSUME NEW cap, NEW sta, rate_band = oper
  PROVE  ~Ra!StaleFor(Ra!Info(cap, sta), cap, sta)
<1>1. Ra!Legacy(cap, rate_band) = cap.legacy
  BY DEF Ra!Legacy
<1> QED
  BY <1>1 DEF Ra!StaleFor, Ra!Info, Ra!Wanted

(* A peer without a mask of the user is wanted to have a rate.             *)
LEMMA WantedHeard ==
  ASSUME NEW cap, Fits(cap, oper), NEW sta, sta.mask = {}
  PROVE  Ra!Wanted(cap, sta) # {}
<1> DEFINE set == Ra!WirelessSet(cap, oper)
           bak == Ra!Mcs(cap) \cup cap.legacy
           plain == bak \ ((Ra!Cck \cup Ra!Ofdm) \ Ra!KeptLegacy(set, oper))
           strong == Ra!MaskRssi(plain, sta.rssi_level, set)
<1>1. Ra!Wanted(cap, sta) = Ra!MaskRecover(strong, bak)
  BY DEF Ra!Wanted, Ra!MaskCfg
<1>2. bak \cap (Ra!Cck \cup Ra!Ofdm) # {}
  BY RatesAssumption DEF Fits, Ra!Cck, Ra!Ofdm
<1> HIDE DEF bak, strong
<1> QED
  BY <1>1, <1>2 DEF Ra!MaskRecover

LEMMA RatesMean == RatesInv => Ra!RatesCatchUp /\ Ra!NeverMute /\ Ra!ResponsesHeard
  /\ Ra!LevelsSettle
<1> SUFFICES ASSUME RatesInv PROVE Ra!RatesCatchUp /\ Ra!NeverMute /\ Ra!ResponsesHeard
      /\ Ra!LevelsSettle
  OBVIOUS
<1>1. Ra!RatesCatchUp
  BY DEF RatesInv, RatesTypes, PeerSound, Ra!RatesCatchUp
<1>2. Ra!NeverMute
  <2> SUFFICES ASSUME NEW s \in DOMAIN peer, told_ra[s].band = oper
               PROVE  /\ si[s].mask = {} /\ ~Ra!Stale(s) => told_ra[s].mask # {}
                      /\ told_ra[s].mask \subseteq Ra!TableRates(told_ra[s].rate_id)
                      /\ oper = "5G" => told_ra[s].mask \cap Ra!Cck = {}
    BY DEF Ra!NeverMute, RatesInv, RatesTypes
  <2>1. ToldSound(told_ra[s], oper) /\ Fits(peer[s], oper)
    BY DEF RatesInv, PeerSound
  <2>2. si[s].mask = {} => Ra!Wanted(peer[s], si[s]) # {}
    BY <2>1, WantedHeard
  <2> QED
    BY <2>1, <2>2 DEF ToldSound, Ra!Stale, Ra!StaleFor
<1>3. Ra!LevelsSettle
  BY LevelsKeep, RatesAssumption DEF Ra!LevelsSettle, RatesInv, RatesTypes, PeerSound
<1> QED
  BY <1>1, <1>2, <1>3 DEF RatesInv, Responses

(* What is left alone.                                                     *)
LEMMA PeersKept ==
  ASSUME RatesInv, UNCHANGED <<oper, peer, si, told_ra, watch_dog_cnt, since>>
  PROVE  \A s \in DOMAIN peer' : PeerSound(s)'
  BY DEF RatesInv, PeerSound, ToldSound, Fits, Ra!TableRates

LEMMA Counting ==
  ASSUME RatesInv, NEW n \in {0, 1}, Ra!Count(n)
  PROVE  /\ DOMAIN since' = DOMAIN peer'
         /\ \A s \in DOMAIN peer' :
              /\ since'[s] \in Nat
              /\ since'[s] <= n + (IF s \in DOMAIN peer THEN since[s] ELSE 0)
              /\ ~Ra!StaleFor(told_ra'[s], peer'[s], si'[s]) => since'[s] = 0
<1>1. DOMAIN since = DOMAIN peer /\ \A s \in DOMAIN peer : since[s] \in Nat
  BY DEF RatesInv, RatesTypes, PeerSound
<1>2. since' = [s \in DOMAIN peer' |-> IF ~Ra!StaleFor(told_ra'[s], peer'[s], si'[s]) THEN 0
                                       ELSE n + (IF s \in DOMAIN since THEN since[s]
                                         ELSE 0)]
  BY DEF Ra!Count
<1> QED
  BY <1>1, <1>2

(* Telling the firmware.                                                   *)
LEMMA Telling ==
  ASSUME RatesInv, NEW stas, NEW P, NEW I, Ra!Tell(stas, P, I), UNCHANGED <<oper,
    rate_band>>,
         \A s \in DOMAIN P : Fits(P[s], oper) /\ (s \in DOMAIN peer \/ s \in stas)
  PROVE  /\ DOMAIN told_ra' = DOMAIN P
         /\ \A s \in DOMAIN P : ToldSound(told_ra'[s], oper)
         /\ \A s \in DOMAIN P \cap stas : told_ra'[s] = Ra!Info(P[s], I[s])
         /\ rrsr_val_init' # {} => 4 \in rrsr_val_init'
<1>1. told_ra' = [s \in DOMAIN P |-> IF s \in stas THEN Ra!Info(P[s], I[s]) ELSE told_ra[s]]
  BY DEF Ra!Tell
<1>2. \A s \in DOMAIN P : ToldSound(told_ra'[s], oper)
  <2> SUFFICES ASSUME NEW s \in DOMAIN P PROVE ToldSound(told_ra'[s], oper)
    OBVIOUS
  <2>1. CASE s \in stas
    <3>1. oper \in {"2G", "5G"} /\ rate_band \in {"2G", "5G"}
      BY DEF RatesInv, RatesTypes
    <3>2. ToldSound(Ra!Info(P[s], I[s]), oper)
      BY <3>1, InfoSound
    <3> QED
      BY <1>1, <2>1, <3>2
  <2>2. CASE s \notin stas
    <3>1. ToldSound(told_ra[s], oper)
      BY <2>2 DEF RatesInv, PeerSound
    <3> QED
      BY <1>1, <2>2, <3>1
  <2> QED
    BY <2>1, <2>2
<1>3. rrsr_val_init' # {} => 4 \in rrsr_val_init'
  BY DEF Ra!Tell, Ra!ValInit, RatesInv, Responses
<1> QED
  BY <1>1, <1>2, <1>3

LEMMA RatesInit == Ra!Init => RatesInv
<1> SUFFICES ASSUME Ra!Init PROVE RatesInv
  OBVIOUS
<1>1. DOMAIN peer = {} /\ DOMAIN si = {} /\ DOMAIN told_ra = {} /\ DOMAIN since = {}
  BY DEF Ra!Init
<1>2. RatesTypes
  <2>1. oper \in {"2G", "5G"} /\ rate_band = oper /\ rate_scan = FALSE
    BY DEF Ra!Init
  <2>2. c2h_rate = {} /\ watch_dog_cnt \in 0..3
    BY DEF Ra!Init
  <2>3. \A r \in c2h_rate : r[2] \in Nat
    BY <2>2
  <2>4. rate_band \in {"2G", "5G"} /\ rate_scan \in BOOLEAN
    BY <2>1
  <2>5. DOMAIN si = DOMAIN peer /\ DOMAIN told_ra = DOMAIN peer
          /\ DOMAIN since = DOMAIN peer
    BY <1>1
  <2> QED
    BY <1>1, <2>1, <2>2, <2>3, <2>4, <2>5 DEF RatesTypes
<1>3. Responses
  BY DEF Ra!Init, Responses, Ra!ResponsesHeard, Ra!BasicRates
<1> QED
  BY <1>1, <1>2, <1>3 DEF RatesInv

LEMMA JoinKeeps ==
  ASSUME RatesInv, NEW s, Ra!Join(s)
  PROVE  RatesInv'
<1> USE DEF Ra!Join
<1>1. PICK cap \in Caps : Fits(cap, oper) /\ peer' = Ra!With(peer, s, cap)
  BY DEF Fits
<1>2. /\ DOMAIN peer' = DOMAIN peer \cup {s} /\ peer'[s] = cap
      /\ \A t \in DOMAIN peer : peer'[t] = peer[t]
  BY <1>1 DEF Ra!With
<1>3. /\ DOMAIN si' = DOMAIN peer \cup {s} /\ \A t \in DOMAIN peer : si'[t] = si[t]
      /\ si'[s] = [rssi_level |-> 0, mask |-> {}, desc_rate |-> 0]
  BY DEF Ra!With, RatesInv, RatesTypes
<1>4. UNCHANGED <<oper, rate_band>> /\ \A t \in DOMAIN peer' : Fits(peer'[t], oper)
  BY <1>1, <1>2 DEF RatesInv, PeerSound
<1>5. /\ DOMAIN told_ra' = DOMAIN peer'
           /\ \A t \in DOMAIN peer' : ToldSound(told_ra'[t], oper)
      /\ rrsr_val_init' # {} => 4 \in rrsr_val_init'
  <2>1. Ra!Tell({s}, peer', si') /\ \A t \in DOMAIN peer' : t \in DOMAIN peer \/ t \in {s}
    BY <1>2
  <2> QED
    BY <1>4, <2>1, Telling
<1>6. /\ DOMAIN since' = DOMAIN peer'
      /\ \A t \in DOMAIN peer' : /\ since'[t] \in Nat
                                 /\ since'[t] <= 0 + (IF t \in DOMAIN peer
                                      THEN since[t] ELSE 0)
  BY Counting
<1>7. ASSUME NEW t \in DOMAIN peer' PROVE PeerSound(t)'
  <2>1. DOMAIN si'[t] = SiFields /\ si'[t].desc_rate \in Nat /\ si'[t].rssi_level \in 0..6
    <3>1. CASE t \in DOMAIN peer
      BY <1>3, <3>1 DEF RatesInv, PeerSound
    <3>2. CASE t = s /\ s \notin DOMAIN peer
      BY <1>3, <3>2 DEF SiFields
    <3> QED
      BY <1>2, <3>1, <3>2
  <2>2. since'[t] \in Nat /\ since'[t] <= (watch_dog_cnt + 3) % 4
    <3>1. watch_dog_cnt \in 0..3
      BY DEF RatesInv, RatesTypes
    <3>2. CASE t \in DOMAIN peer
      BY <1>6, <3>1, <3>2 DEF RatesInv, PeerSound
    <3>3. CASE t \notin DOMAIN peer
      BY <1>6, <3>1, <3>3
    <3> QED
      BY <3>2, <3>3
  <2>3. watch_dog_cnt' = watch_dog_cnt /\ oper' = oper
    OBVIOUS
  <2> QED
    BY <1>4, <1>5, <2>1, <2>2, <2>3 DEF PeerSound, ToldSound, Fits, Ra!TableRates
<1>8. RatesTypes'
  BY <1>2, <1>3, <1>5, <1>6 DEF RatesInv, RatesTypes
<1>9. Responses'
  BY <1>5 DEF RatesInv, Responses, Ra!ResponsesHeard
<1> QED
  BY <1>7, <1>8, <1>9 DEF RatesInv

LEMMA LeaveKeeps ==
  ASSUME RatesInv, NEW s, Ra!Leave(s)
  PROVE  RatesInv'
<1> USE DEF Ra!Leave
<1>1. /\ DOMAIN peer' = DOMAIN peer \ {s} /\ DOMAIN si' = DOMAIN peer \ {s}
      /\ DOMAIN told_ra' = DOMAIN peer \ {s} /\ DOMAIN since' = DOMAIN peer \ {s}
      /\ \A t \in DOMAIN peer \ {s} : /\ peer'[t] = peer[t] /\ si'[t] = si[t]
                                      /\ told_ra'[t] = told_ra[t] /\ since'[t] = since[t]
  BY DEF Ra!Restrict
<1>2. ASSUME NEW t \in DOMAIN peer' PROVE PeerSound(t)'
  BY <1>1, <1>2 DEF RatesInv, PeerSound, ToldSound, Fits, Ra!TableRates
<1>3. RatesTypes'
  BY <1>1 DEF RatesInv, RatesTypes
<1>4. Responses'
  BY DEF RatesInv, Responses, Ra!ResponsesHeard
<1> QED
  BY <1>2, <1>3, <1>4 DEF RatesInv

(* The steps that keep who has joined, and the period of the watchdog.     *)
LEMMA SamePeers ==
  ASSUME RatesInv, DOMAIN peer' = DOMAIN peer, DOMAIN si' = DOMAIN peer, Ra!Count(0),
         UNCHANGED <<oper, rate_band, rate_scan, c2h_rate, watch_dog_cnt, rrsr>>,
         \A t \in DOMAIN peer : /\ Fits(peer'[t], oper)
                                /\ DOMAIN si'[t] = SiFields
                                     /\ si'[t].desc_rate = si[t].desc_rate
                                /\ si'[t].rssi_level = si[t].rssi_level
                                /\ ToldSound(told_ra'[t], oper),
         DOMAIN told_ra' = DOMAIN peer, rrsr_val_init' # {} => 4 \in rrsr_val_init'
  PROVE  RatesInv'
<1>1. /\ DOMAIN since' = DOMAIN peer'
      /\ \A t \in DOMAIN peer' : /\ since'[t] \in Nat
                                 /\ since'[t] <= 0 + (IF t \in DOMAIN peer
                                      THEN since[t] ELSE 0)
  BY Counting
<1>2. ASSUME NEW t \in DOMAIN peer' PROVE PeerSound(t)'
  <2>1. since'[t] \in Nat /\ since'[t] <= (watch_dog_cnt + 3) % 4
    BY <1>1 DEF RatesInv, RatesTypes, PeerSound
  <2>2. si'[t].desc_rate \in Nat /\ si'[t].rssi_level \in 0..6
    BY DEF RatesInv, PeerSound
  <2> QED
    BY <2>1, <2>2 DEF PeerSound, ToldSound, Fits, Ra!TableRates
<1>3. RatesTypes'
  BY <1>1 DEF RatesInv, RatesTypes
<1>4. Responses'
  BY DEF RatesInv, Responses, Ra!ResponsesHeard
<1> QED
  BY <1>2, <1>3, <1>4 DEF RatesInv

LEMMA RcUpdateKeeps ==
  ASSUME RatesInv, NEW s, Ra!RcUpdate(s)
  PROVE  RatesInv'
<1> USE DEF Ra!RcUpdate
<1>1. PICK cap \in Caps : Fits(cap, oper) /\ peer' = [peer EXCEPT ![s] = cap]
  BY DEF Fits
<1>2. \A t \in DOMAIN peer : /\ Fits(peer'[t], oper) /\ si'[t] = si[t]
        /\ DOMAIN si[t] = SiFields
                             /\ ToldSound(told_ra'[t], oper)
  BY <1>1 DEF RatesInv, PeerSound
<1>3. DOMAIN peer' = DOMAIN peer /\ DOMAIN si' = DOMAIN peer
        /\ DOMAIN told_ra' = DOMAIN peer
  BY <1>1 DEF RatesInv, RatesTypes
<1>4. rrsr_val_init' # {} => 4 \in rrsr_val_init'
  BY DEF RatesInv, Responses
<1>5. Ra!Count(0) /\ UNCHANGED <<oper, rate_band, rate_scan, c2h_rate, watch_dog_cnt, rrsr>>
  OBVIOUS
<1> QED
  BY <1>2, <1>3, <1>4, <1>5, SamePeers

LEMMA RcWorkKeeps ==
  ASSUME RatesInv, NEW s, Ra!RcWork(s)
  PROVE  RatesInv'
<1> USE DEF Ra!RcWork
<1>1. \A t \in DOMAIN peer : Fits(peer[t], oper) /\ DOMAIN si[t] = SiFields
  BY DEF RatesInv, PeerSound
<1>2. /\ DOMAIN told_ra' = DOMAIN peer
           /\ \A t \in DOMAIN peer : ToldSound(told_ra'[t], oper)
      /\ rrsr_val_init' # {} => 4 \in rrsr_val_init'
  <2>1. Ra!Tell({s}, peer, si) /\ UNCHANGED <<oper, rate_band>>
    OBVIOUS
  <2> QED
    BY <1>1, <2>1, Telling
<1>3. DOMAIN peer' = DOMAIN peer /\ DOMAIN si' = DOMAIN peer /\ peer' = peer /\ si' = si
  BY DEF RatesInv, RatesTypes
<1>4. Ra!Count(0) /\ UNCHANGED <<oper, rate_band, rate_scan, c2h_rate, watch_dog_cnt, rrsr>>
  OBVIOUS
<1> QED
  BY <1>1, <1>2, <1>3, <1>4, SamePeers

LEMMA MaskKeeps ==
  ASSUME RatesInv, Ra!SetBitrateMask
  PROVE  RatesInv'
<1> USE DEF Ra!SetBitrateMask
<1>1. PICK user \in UserMasks, failed \in SUBSET DOMAIN peer :
        /\ si' = [s \in DOMAIN si |-> [si[s] EXCEPT !.mask = IF s \in failed THEN {}
             ELSE {user}]]
        /\ Ra!Tell(DOMAIN peer \ failed, peer, si')
  OBVIOUS
<1>2. \A t \in DOMAIN peer : Fits(peer[t], oper) /\ DOMAIN si[t] = SiFields
  BY DEF RatesInv, PeerSound
<1>3. /\ DOMAIN told_ra' = DOMAIN peer
           /\ \A t \in DOMAIN peer : ToldSound(told_ra'[t], oper)
      /\ rrsr_val_init' # {} => 4 \in rrsr_val_init'
  <2>1. UNCHANGED <<oper, rate_band>>
    OBVIOUS
  <2> QED
    BY <1>1, <1>2, <2>1, Telling
<1>4. \A t \in DOMAIN peer : /\ DOMAIN si'[t] = SiFields
        /\ si'[t].desc_rate = si[t].desc_rate
                             /\ si'[t].rssi_level = si[t].rssi_level
  BY <1>1, <1>2 DEF RatesInv, RatesTypes, SiFields
<1>5. DOMAIN peer' = DOMAIN peer /\ DOMAIN si' = DOMAIN peer /\ peer' = peer
  BY <1>1 DEF RatesInv, RatesTypes
<1>6. Ra!Count(0) /\ UNCHANGED <<oper, rate_band, rate_scan, c2h_rate, watch_dog_cnt, rrsr>>
  OBVIOUS
<1> QED
  BY <1>2, <1>3, <1>4, <1>5, <1>6, SamePeers

LEMMA ReportKeeps ==
  ASSUME RatesInv, NEW s, Ra!Report(s)
  PROVE  RatesInv'
<1> USE DEF Ra!Report
<1>1. \A t \in DOMAIN peer' : PeerSound(t)'
  BY PeersKept
<1>2. RatesTypes'
  <2>1. \A r \in c2h_rate' : r[2] \in Nat
    <3>1. PICK rate \in told_ra[s].mask : c2h_rate' = {<<s, Ra!DescRate(rate,
            told_ra[s].vht)>>}
      OBVIOUS
    <3>2. rate \in 0..31
      BY DEF RatesInv, PeerSound, ToldSound
    <3>3. Ra!DescRate(rate, told_ra[s].vht) \in Nat
      BY <3>2 DEF Ra!DescRate
    <3> QED
      BY <3>1, <3>3
  <2> QED
    BY <2>1 DEF RatesInv, RatesTypes
<1>3. Responses'
  BY DEF RatesInv, Responses, Ra!ResponsesHeard
<1> QED
  BY <1>1, <1>2, <1>3 DEF RatesInv

LEMMA HandleReportKeeps ==
  ASSUME RatesInv, Ra!HandleReport
  PROVE  RatesInv'
<1> USE DEF Ra!HandleReport
<1>1. PICK r \in c2h_rate :
        si' = IF r[1] \in DOMAIN si THEN [si EXCEPT ![r[1]].desc_rate = r[2]] ELSE si
  OBVIOUS
<1>2. DOMAIN si' = DOMAIN si /\ r[2] \in Nat
  BY <1>1 DEF RatesInv, RatesTypes
<1>3. ASSUME NEW t \in DOMAIN peer
      PROVE  /\ DOMAIN si'[t] = SiFields /\ si'[t].desc_rate \in Nat
             /\ si'[t].rssi_level \in 0..6
  BY <1>1, <1>2 DEF RatesInv, RatesTypes, PeerSound, SiFields
<1>4. UNCHANGED <<oper, peer, told_ra, watch_dog_cnt, since>>
  OBVIOUS
<1>5. \A t \in DOMAIN peer' : PeerSound(t)'
  BY <1>3, <1>4 DEF RatesInv, PeerSound, ToldSound, Fits, Ra!TableRates
<1>6. RatesTypes'
  BY <1>1, <1>2 DEF RatesInv, RatesTypes
<1>7. Responses'
  BY DEF RatesInv, Responses, Ra!ResponsesHeard
<1> QED
  BY <1>5, <1>6, <1>7 DEF RatesInv

LEMMA RateWatchDogKeeps ==
  ASSUME RatesInv, Ra!WatchDog
  PROVE  RatesInv'
<1> USE DEF Ra!WatchDog
<1> DEFINE told == IF watch_dog_cnt = 0 THEN DOMAIN peer ELSE {}
<1>1. PICK rssi \in [DOMAIN si -> RateRssis] :
        si' = [s \in DOMAIN si |->
                 [si[s] EXCEPT !.rssi_level = Ra!RssiLevel(si[s].rssi_level, rssi[s])]]
  OBVIOUS
<1>2. \A t \in DOMAIN peer : Fits(peer[t], oper)
  BY DEF RatesInv, PeerSound
<1>3. DOMAIN si' = DOMAIN si /\ DOMAIN si = DOMAIN peer
  BY <1>1 DEF RatesInv, RatesTypes
<1>4. ASSUME NEW t \in DOMAIN peer
      PROVE  /\ DOMAIN si'[t] = SiFields /\ si'[t].desc_rate = si[t].desc_rate
             /\ si'[t].rssi_level \in 0..6
  <2>1. DOMAIN si[t] = SiFields /\ si[t].rssi_level \in 0..6 /\ rssi[t] \in 0..100
    BY <1>3, RatesAssumption DEF RatesInv, PeerSound
  <2>2. Ra!RssiLevel(si[t].rssi_level, rssi[t]) \in 0..6
    BY <2>1, LevelIs
  <2>3. si'[t] = [si[t] EXCEPT !.rssi_level = Ra!RssiLevel(si[t].rssi_level, rssi[t])]
    BY <1>1, <1>3
  <2> QED
    BY <2>1, <2>2, <2>3 DEF SiFields
<1>5. /\ DOMAIN told_ra' = DOMAIN peer
           /\ \A t \in DOMAIN peer : ToldSound(told_ra'[t], oper)
      /\ \A t \in DOMAIN peer \cap told : told_ra'[t] = Ra!Info(peer[t], si'[t])
      /\ rrsr_val_init' # {} => 4 \in rrsr_val_init'
  <2>1. Ra!Tell(told, peer, si')
    OBVIOUS
  <2>2. UNCHANGED <<oper, rate_band>>
    OBVIOUS
  <2>3. \A t \in DOMAIN peer : Fits(peer[t], oper) /\ (t \in DOMAIN peer \/ t \in told)
    BY <1>2
  <2> HIDE DEF told, Ra!WatchDog
  <2> QED
    BY <2>1, <2>2, <2>3, Telling
<1>6. /\ DOMAIN since' = DOMAIN peer'
      /\ \A t \in DOMAIN peer' :
           /\ since'[t] \in Nat
           /\ since'[t] <= 1 + (IF t \in DOMAIN peer THEN since[t] ELSE 0)
           /\ ~Ra!StaleFor(told_ra'[t], peer'[t], si'[t]) => since'[t] = 0
  BY Counting
<1>7. watch_dog_cnt \in 0..3 /\ watch_dog_cnt' = (watch_dog_cnt + 1) % 4 /\ peer' = peer
      /\ rate_band = oper
  BY DEF RatesInv, RatesTypes
<1>8. ASSUME NEW t \in DOMAIN peer PROVE since'[t] <= (watch_dog_cnt' + 3) % 4
  <2>1. since[t] \in Nat /\ since[t] <= (watch_dog_cnt + 3) % 4
        /\ since'[t] \in Nat /\ since'[t] <= 1 + since[t]
    BY <1>6, <1>7 DEF RatesInv, PeerSound
  <2>2. CASE watch_dog_cnt = 0
    <3>1. told_ra'[t] = Ra!Info(peer[t], si'[t])
      BY <1>5, <2>2
    <3>2. ~Ra!StaleFor(told_ra'[t], peer'[t], si'[t])
      BY <1>7, <3>1, InfoFresh
    <3>3. since'[t] = 0
      BY <1>6, <1>7, <3>2
    <3> QED
      BY <1>7, <2>2, <3>3
  <2>3. CASE watch_dog_cnt = 1
    BY <1>7, <2>1, <2>3
  <2>4. CASE watch_dog_cnt = 2
    BY <1>7, <2>1, <2>4
  <2>5. CASE watch_dog_cnt = 3
    BY <1>7, <2>1, <2>5
  <2> QED
    BY <1>7, <2>2, <2>3, <2>4, <2>5
<1>9. ASSUME NEW t \in DOMAIN peer' PROVE PeerSound(t)'
  <2>1. si'[t].desc_rate \in Nat
    BY <1>4, <1>7 DEF RatesInv, PeerSound
  <2>2. oper' = oper /\ t \in DOMAIN peer
    BY <1>7
  <2> QED
    BY <1>2, <1>4, <1>5, <1>6, <1>7, <1>8, <2>1, <2>2 DEF PeerSound, ToldSound, Fits,
         Ra!TableRates
<1>10. RatesTypes'
  BY <1>3, <1>5, <1>6, <1>7 DEF RatesInv, RatesTypes
<1>11. Responses'
  <2>1. \A t \in DOMAIN si : 4 \in Ra!RrsrMask(si'[t].desc_rate)
    BY <1>3, <1>4, OrderAtLeastOne DEF RatesInv, PeerSound
  <2>2. rrsr' = {r \in rrsr_val_init' : \A s \in DOMAIN si : r \in Ra!RrsrMask(si[s].desc_rate)}
    OBVIOUS
  <2>3. \A t \in DOMAIN si : 4 \in Ra!RrsrMask(si[t].desc_rate)
    BY <1>3, OrderAtLeastOne DEF RatesInv, PeerSound
  <2> QED
    BY <1>5, <2>2, <2>3 DEF Responses, Ra!ResponsesHeard
<1> QED
  BY <1>9, <1>10, <1>11 DEF RatesInv

(* The radio goes to a band.                                               *)
LEMMA BandKeeps ==
  ASSUME RatesInv, NEW on \in {"2G", "5G"}, Ra!ToBand(on), ~rate_scan' => on = oper',
         oper' \in {"2G", "5G"}, rate_scan' \in BOOLEAN, oper' = oper \/ DOMAIN peer = {},
         UNCHANGED <<peer, si, told_ra, c2h_rate, watch_dog_cnt, rrsr_val_init, since>>
  PROVE  RatesInv'
<1>1. \A t \in DOMAIN peer' : PeerSound(t)'
  <2>1. CASE oper' = oper
    BY <2>1, PeersKept
  <2>2. CASE DOMAIN peer = {}
    BY <2>2
  <2> QED
    BY <2>1, <2>2
<1>2. RatesTypes'
  BY DEF RatesInv, RatesTypes, Ra!ToBand
<1>3. Responses'
  BY DEF RatesInv, Responses, Ra!ResponsesHeard, Ra!ToBand, Ra!BasicRates
<1> QED
  BY <1>1, <1>2, <1>3 DEF RatesInv

LEMMA ScanKeeps ==
  ASSUME RatesInv, Ra!ScanStart \/ Ra!ScanChannel \/ Ra!ScanComplete \/ Ra!ChangeBand
  PROVE  RatesInv'
<1>1. CASE Ra!ScanStart
  <2>1. \A t \in DOMAIN peer' : PeerSound(t)'
    BY <1>1, PeersKept DEF Ra!ScanStart
  <2>2. RatesTypes'
    BY <1>1 DEF RatesInv, RatesTypes, Ra!ScanStart
  <2>3. Responses'
    BY <1>1 DEF RatesInv, Responses, Ra!ResponsesHeard, Ra!ScanStart
  <2> QED
    BY <2>1, <2>2, <2>3 DEF RatesInv
<1>2. CASE Ra!ScanChannel
  <2>1. PICK on \in {"2G", "5G"} : Ra!ToBand(on)
    BY <1>2 DEF Ra!ScanChannel
  <2>2. rate_scan' = TRUE /\ oper' = oper /\ oper \in {"2G", "5G"}
    BY <1>2 DEF Ra!ScanChannel, RatesInv, RatesTypes
  <2>3. UNCHANGED <<peer, si, told_ra, c2h_rate, watch_dog_cnt, rrsr_val_init, since>>
    BY <1>2 DEF Ra!ScanChannel
  <2> QED
    BY <2>1, <2>2, <2>3, BandKeeps
<1>3. CASE Ra!ScanComplete
  <2>1. Ra!ToBand(oper) /\ rate_scan' = FALSE /\ oper' = oper /\ oper \in {"2G", "5G"}
    BY <1>3 DEF Ra!ScanComplete, RatesInv, RatesTypes
  <2>2. UNCHANGED <<peer, si, told_ra, c2h_rate, watch_dog_cnt, rrsr_val_init, since>>
    BY <1>3 DEF Ra!ScanComplete
  <2> QED
    BY <2>1, <2>2, BandKeeps
<1>4. CASE Ra!ChangeBand
  <2>1. PICK on \in {"2G", "5G"} : oper' = on /\ Ra!ToBand(on)
    BY <1>4 DEF Ra!ChangeBand
  <2>2. DOMAIN peer = {} /\ rate_scan' = rate_scan /\ rate_scan \in BOOLEAN
    BY <1>4 DEF Ra!ChangeBand, RatesInv, RatesTypes
  <2>3. UNCHANGED <<peer, si, told_ra, c2h_rate, watch_dog_cnt, rrsr_val_init, since>>
    BY <1>4 DEF Ra!ChangeBand
  <2> QED
    BY <2>1, <2>2, <2>3, BandKeeps
<1> QED
  BY <1>1, <1>2, <1>3, <1>4

LEMMA RatesNext == RatesInv /\ [Ra!Next]_(Ra!rates_vars) => RatesInv'
<1> SUFFICES ASSUME RatesInv, [Ra!Next]_(Ra!rates_vars) PROVE RatesInv'
  OBVIOUS
<1>1. CASE UNCHANGED Ra!rates_vars
  <2>1. \A t \in DOMAIN peer' : PeerSound(t)'
    BY <1>1, PeersKept DEF Ra!rates_vars
  <2>2. RatesTypes'
    BY <1>1 DEF RatesInv, RatesTypes, Ra!rates_vars
  <2>3. Responses'
    BY <1>1 DEF RatesInv, Responses, Ra!ResponsesHeard, Ra!rates_vars
  <2> QED
    BY <2>1, <2>2, <2>3 DEF RatesInv
<1>2. ASSUME NEW s \in RateStas,
             Ra!Join(s) \/ Ra!Leave(s) \/ Ra!RcUpdate(s) \/ Ra!RcWork(s) \/ Ra!Report(s)
      PROVE  RatesInv'
  BY <1>2, JoinKeeps, LeaveKeeps, RcUpdateKeeps, RcWorkKeeps, ReportKeeps
<1>3. CASE Ra!SetBitrateMask \/ Ra!HandleReport \/ Ra!WatchDog
  BY <1>3, MaskKeeps, HandleReportKeeps, RateWatchDogKeeps
<1>4. CASE Ra!ScanStart \/ Ra!ScanChannel \/ Ra!ScanComplete \/ Ra!ChangeBand
  BY <1>4, ScanKeeps
<1> QED
  BY <1>1, <1>2, <1>3, <1>4 DEF Ra!Next

(* Whatever peers join, change and leave, and whatever scans, failed copies*)
(* and reports come between, the firmware is at most four periods of the   *)
(* watchdog behind the driver on a peer's rates, a peer is left a rate that*)
(* its table has, and 6 Mbit/s stays among the responses' (main.c:340,     *)
(* phy.c:617).                                                             *)
THEOREM RatesIsSound == Ra!Spec => []RatesSound
<1>1. Ra!Spec => []RatesInv
  BY RatesInit, RatesNext, PTL DEF Ra!Spec
<1>2. RatesInv => RatesSound
  BY RatesMean DEF RatesSound
<1> QED
  BY <1>1, <1>2, PTL

----------------------------------------------------------------------------
(***************************************************************************)
(* The tuning.  The band's part of the registers is that of the band       *)
(* REG_CCK_CHECK names (BandSet), also when it was read wrongly before.    *)
(***************************************************************************)

(* What a band's part of the registers is, whatever the width: but for     *)
(* PDMFTH with one path.                                                   *)
OfBand(field, b) == field # "PDMFTH_3_1" \/ b.paths # {"A"}

BandSet(b, r) ==
  /\ r.CCK_CHECK \in {"2G", "5G"}
  /\ \A f \in DOMAIN Ch!SwitchBand(b, r.CCK_CHECK, 20) :
       f \in DOMAIN r /\ (OfBand(f, b) => r[f] = Ch!SwitchBand(b, r.CCK_CHECK, 20)[f])

ChannelInv == BandSet(board, regs) /\ Ch!TunedAsFirst /\ Ch!SpurAvoided

BandFields == {"BWINDICATION", "PDMFTH_17_13", "PDMFTH_3_1", "CCASEL", "TXPSEL", "CCK_RX",
  "CCK_CHECK", "TXSCALE", "PINMUX_A", "PINMUX_B", "INV_A", "INV_B", "ANTSEL_SW"}

LEMMA RfeFields ==
  ASSUME NEW b
  PROVE  /\ DOMAIN Ch!RfeReg24g(b) = DOMAIN Ch!RfeReg5g(b)
         /\ DOMAIN Ch!RfeReg24g(b) \subseteq {"PINMUX_A", "PINMUX_B", "INV_A", "INV_B",
              "ANTSEL_SW"}
<1>0. DOMAIN <<>> = {}
  OBVIOUS
<1>1. CASE b.rfe = 0
  BY <1>1 DEF Ch!RfeReg24g, Ch!RfeReg5g, Ch!Rfe
<1>2. CASE b.rfe = 1
  BY <1>2 DEF Ch!RfeReg24g, Ch!RfeReg5g, Ch!Rfe
<1>3. CASE b.rfe \in {2, 4}
  BY <1>3 DEF Ch!RfeReg24g, Ch!RfeReg5g, Ch!Rfe
<1>4. CASE b.rfe = 3
  BY <1>4 DEF Ch!RfeReg24g, Ch!RfeReg5g, Ch!Rfe, Ch!Write
<1>5. CASE b.rfe = 5
  BY <1>5 DEF Ch!RfeReg24g, Ch!RfeReg5g, Ch!Rfe
<1>6. CASE b.rfe = 6
  BY <1>6 DEF Ch!RfeReg24g, Ch!RfeReg5g, Ch!Rfe
<1>7. CASE b.rfe \notin {0, 1, 2, 3, 4, 5, 6}
  BY <1>0, <1>7 DEF Ch!RfeReg24g, Ch!RfeReg5g
<1> QED
  BY <1>1, <1>2, <1>3, <1>4, <1>5, <1>6, <1>7

LEMMA BandFacts ==
  ASSUME NEW b, NEW on \in {"2G", "5G"}, NEW bw
  PROVE  /\ DOMAIN Ch!SwitchBand(b, on, bw) = DOMAIN Ch!SwitchBand(b, "2G", 20)
         /\ DOMAIN Ch!SwitchBand(b, on, bw) \subseteq BandFields
         /\ "CCK_CHECK" \in DOMAIN Ch!SwitchBand(b, on, bw)
              /\ Ch!SwitchBand(b, on, bw).CCK_CHECK = on
         /\ \A f \in DOMAIN Ch!SwitchBand(b, on, bw) :
              OfBand(f, b) => Ch!SwitchBand(b, on, bw)[f] = Ch!SwitchBand(b, on, 20)[f]
  BY RfeFields DEF Ch!SwitchBand, Ch!Write, BandFields, OfBand

(* The channel's part has no field of the band's.                          *)
LEMMA SpurFields ==
  ASSUME NEW b, NEW ch, NEW bw
  PROVE  DOMAIN Ch!FixSpur(b, ch, bw) \cap BandFields = {}
<1>0. DOMAIN <<>> = {}
  OBVIOUS
<1> QED
  BY <1>0 DEF Ch!FixSpur, Ch!Write, BandFields

LEMMA TuneFields ==
  ASSUME NEW b, NEW t
  PROVE  DOMAIN Ch!Tune(b, t) \cap BandFields = {}
<1>1. DOMAIN Ch!SwitchChannel(b, t.channel, t.bw) \cap BandFields = {}
  BY SpurFields DEF Ch!SwitchChannel, BandFields, Ch!Write
<1>2. DOMAIN Ch!PostSetBwMode(b, t) \cap BandFields = {}
  <2>0. DOMAIN <<>> = {}
    OBVIOUS
  <2> QED
    BY <2>0 DEF Ch!PostSetBwMode, Ch!Write, BandFields
<1>3. DOMAIN Ch!SetChannelRf(b, t.bw) \cap BandFields = {}
  BY DEF Ch!SetChannelRf, BandFields
<1>4. DOMAIN Ch!Tune(b, t) = DOMAIN Ch!SwitchChannel(b, t.channel, t.bw)
        \cup DOMAIN Ch!PostSetBwMode(b, t)
                           \cup DOMAIN Ch!FixSpur(b, t.channel, t.bw)
                             \cup DOMAIN Ch!SetChannelRf(b, t.bw)
  BY DEF Ch!Tune, Ch!Write
<1> QED
  BY <1>1, <1>2, <1>3, <1>4, SpurFields

LEMMA SpurKept ==
  ASSUME NEW b, NEW t, t.bw = 20, t.channel \in {13, 14}
  PROVE  "ADCCLK_300" \in DOMAIN Ch!Tune(b, t) /\ Ch!Tune(b, t).ADCCLK_300 = 3
<1>1. "ADCCLK_300" \in DOMAIN Ch!FixSpur(b, t.channel, t.bw)
        /\ Ch!FixSpur(b, t.channel, t.bw).ADCCLK_300 = 3
  BY DEF Ch!FixSpur, Ch!Write
<1>2. "ADCCLK_300" \notin DOMAIN Ch!SetChannelRf(b, t.bw)
  BY DEF Ch!SetChannelRf
<1> DEFINE spur == Ch!FixSpur(b, t.channel, t.bw)
           width == Ch!SetChannelRf(b, t.bw)
           before == Ch!Write(Ch!SwitchChannel(b, t.channel, t.bw), Ch!PostSetBwMode(b, t))
<1>3. Ch!Tune(b, t) = Ch!Write(Ch!Write(before, spur), width)
  BY DEF Ch!Tune
<1> HIDE DEF spur, width, before
<1> QED
  <2>1. "ADCCLK_300" \in DOMAIN spur /\ spur["ADCCLK_300"] = 3
          /\ "ADCCLK_300" \notin DOMAIN width
    BY <1>1, <1>2 DEF spur, width
  <2> QED
    BY <1>3, <2>1 DEF Ch!Write

(* What a tuning leaves, for the band the chip was taken to be on.         *)
SetDone(b, r, t, old, n) ==
  /\ BandSet(b, n)
  /\ old = r.CCK_CHECK => n.CCK_CHECK = Ch!BandOf(t.channel)
  /\ \A f \in DOMAIN Ch!Tune(b, t) : f \in DOMAIN n /\ n[f] = Ch!Tune(b, t)[f]

LEMMA SetFacts ==
  ASSUME NEW b, NEW r, BandSet(b, r), NEW t, NEW old \in {"2G", "5G"},
         NEW n, n = Ch!SetChannel(b, r, t, old)
  PROVE  SetDone(b, r, t, old, n)
<1> DEFINE on == Ch!BandOf(t.channel)
           switched == IF on = old THEN r ELSE Ch!Write(r, Ch!SwitchBand(b, on, t.bw))
<1>1. on \in {"2G", "5G"}
  BY DEF Ch!BandOf
<1>2. n = Ch!Write(switched, Ch!Tune(b, t))
  BY DEF Ch!SetChannel
<1>3. /\ BandSet(b, switched) /\ "CCK_CHECK" \in DOMAIN switched
      /\ old = r.CCK_CHECK => switched.CCK_CHECK = on
  <2>1. CASE on = old
    <3>1. "CCK_CHECK" \in DOMAIN r
      BY BandFacts DEF BandSet
    <3> QED
      BY <2>1, <3>1
  <2>2. CASE on # old
    <3> DEFINE w == Ch!SwitchBand(b, on, t.bw)
    <3>1. /\ DOMAIN w = DOMAIN Ch!SwitchBand(b, on, 20) /\ "CCK_CHECK" \in DOMAIN w
               /\ w.CCK_CHECK = on
          /\ \A f \in DOMAIN w : OfBand(f, b) => w[f] = Ch!SwitchBand(b, on, 20)[f]
      <4>1. 20 \in Int
        OBVIOUS
      <4> QED
        BY <1>1, BandFacts
    <3>2. switched = Ch!Write(r, w)
      BY <2>2
    <3> HIDE DEF w, on
    <3>3. /\ DOMAIN switched = DOMAIN r \cup DOMAIN w
          /\ \A f \in DOMAIN w : switched[f] = w[f]
      BY <3>2 DEF Ch!Write
    <3> HIDE DEF switched
    <3> QED
      BY <1>1, <3>1, <3>3 DEF BandSet
  <2> QED
    BY <2>1, <2>2
<1> HIDE DEF switched, on
<1>4. /\ DOMAIN n = DOMAIN switched \cup DOMAIN Ch!Tune(b, t)
      /\ \A f \in DOMAIN Ch!Tune(b, t) : n[f] = Ch!Tune(b, t)[f]
      /\ \A f \in DOMAIN switched \ DOMAIN Ch!Tune(b, t) : n[f] = switched[f]
  <2> DEFINE u == Ch!Tune(b, t)
  <2>1. n = Ch!Write(switched, u)
    BY <1>2
  <2> HIDE DEF u
  <2>2. /\ DOMAIN n = DOMAIN switched \cup DOMAIN u
        /\ \A f \in DOMAIN u : n[f] = u[f]
        /\ \A f \in DOMAIN switched \ DOMAIN u : n[f] = switched[f]
    BY <2>1 DEF Ch!Write
  <2> QED
    BY <2>2 DEF u
<1>5. DOMAIN Ch!SwitchBand(b, switched.CCK_CHECK, 20) \subseteq BandFields
  BY <1>3, BandFacts DEF BandSet
<1>6. "CCK_CHECK" \in BandFields
  BY DEF BandFields
<1>7. n.CCK_CHECK = switched.CCK_CHECK
  BY <1>3, <1>4, <1>6, TuneFields
<1>8. BandSet(b, n)
  BY <1>3, <1>4, <1>5, <1>7, TuneFields DEF BandSet
<1> QED
  BY <1>3, <1>4, <1>7, <1>8 DEF on, SetDone

LEMMA PoweredOnSet ==
  ASSUME NEW b
  PROVE  BandSet(b, Ch!PoweredOn(b)) /\ Ch!PoweredOn(b).CCK_CHECK = "2G"
  BY BandFacts DEF BandSet, Ch!PoweredOn

(* Two tunings to a channel, each by a chip that knew its band, agree.     *)
LEMMA SetAgrees ==
  ASSUME NEW b, NEW r, BandSet(b, r), NEW s, BandSet(b, s), NEW t,
         NEW m, m = Ch!SetChannel(b, r, t, r.CCK_CHECK), NEW n, n = Ch!SetChannel(b, s, t,
           s.CCK_CHECK),
         DOMAIN s \subseteq BandFields,
         NEW f \in DOMAIN n, f = "PDMFTH_3_1" => b.paths # {"A"},
         \A g \in DOMAIN s : g \in DOMAIN Ch!SwitchBand(b, "2G", 20)
  PROVE  m[f] = n[f]
<1>1. /\ BandSet(b, m) /\ m.CCK_CHECK = Ch!BandOf(t.channel)
      /\ \A g \in DOMAIN Ch!Tune(b, t) : g \in DOMAIN m /\ m[g] = Ch!Tune(b, t)[g]
  <2>1. PICK old : old = r.CCK_CHECK
    OBVIOUS
  <2>2. old \in {"2G", "5G"} /\ m = Ch!SetChannel(b, r, t, old)
    BY <2>1 DEF BandSet
  <2>3. BandSet(b, r)
    OBVIOUS
  <2>4. SetDone(b, r, t, old, m)
    BY <2>2, <2>3, SetFacts
  <2> QED
    BY <2>1, <2>4 DEF SetDone
<1>2. /\ BandSet(b, n) /\ n.CCK_CHECK = Ch!BandOf(t.channel)
      /\ \A g \in DOMAIN Ch!Tune(b, t) : g \in DOMAIN n /\ n[g] = Ch!Tune(b, t)[g]
  <2>1. PICK old : old = s.CCK_CHECK
    OBVIOUS
  <2>2. old \in {"2G", "5G"} /\ n = Ch!SetChannel(b, s, t, old)
    BY <2>1 DEF BandSet
  <2>3. BandSet(b, s)
    OBVIOUS
  <2>4. SetDone(b, s, t, old, n)
    BY <2>2, <2>3, SetFacts
  <2> QED
    BY <2>1, <2>4 DEF SetDone
<1>3. CASE f \in DOMAIN Ch!Tune(b, t)
  BY <1>1, <1>2, <1>3
<1>4. CASE f \notin DOMAIN Ch!Tune(b, t)
  <2>1. f \in DOMAIN Ch!SwitchBand(b, "2G", 20)
    <3> DEFINE u == Ch!Tune(b, t)
               on == Ch!BandOf(t.channel)
               w == Ch!SwitchBand(b, on, t.bw)
    <3>1. n = Ch!Write(IF on = s.CCK_CHECK THEN s ELSE Ch!Write(s, w), u)
      BY DEF Ch!SetChannel
    <3>2. f \notin DOMAIN u
      BY <1>4
    <3>3. DOMAIN w = DOMAIN Ch!SwitchBand(b, "2G", 20)
      BY BandFacts DEF Ch!BandOf
    <3> HIDE DEF u, on, w
    <3>4. f \in DOMAIN s \cup DOMAIN w
      BY <3>1, <3>2 DEF Ch!Write
    <3> QED
      BY <3>3, <3>4
  <2>2. f \in DOMAIN Ch!SwitchBand(b, m.CCK_CHECK, 20)
    BY <1>1, <2>1, BandFacts DEF BandSet
  <2> QED
    BY <1>1, <1>2, <2>2 DEF BandSet, OfBand
<1> QED
  BY <1>3, <1>4

LEMMA ChannelInit == Ch!Init => ChannelInv
  BY PoweredOnSet DEF Ch!Init, ChannelInv, Ch!TunedAsFirst, Ch!SpurAvoided

LEMMA ChannelNext == ChannelInv /\ [Ch!Next]_(Ch!channel_vars) => ChannelInv'
<1> SUFFICES ASSUME ChannelInv, [Ch!Next]_(Ch!channel_vars) PROVE ChannelInv'
  OBVIOUS
<1>1. ASSUME NEW t \in Tunings, tuned' = {t}, board' = board, NEW old \in {"2G", "5G"},
             regs' = Ch!SetChannel(board, regs, t, old), misread' \/ old = regs.CCK_CHECK
      PROVE  ChannelInv'
  <2>1. /\ BandSet(board, regs')
        /\ \A f \in DOMAIN Ch!Tune(board, t) : f \in DOMAIN regs'
             /\ regs'[f] = Ch!Tune(board, t)[f]
    BY <1>1, SetFacts DEF ChannelInv, SetDone
  <2>2. Ch!SpurAvoided'
    BY <1>1, <2>1, SpurKept DEF Ch!SpurAvoided
  <2>3. ASSUME ~misread', NEW f \in DOMAIN Ch!SetChannel(board, Ch!PoweredOn(board), t,
          "2G"), Ch!Means(f)
        PROVE  regs'[f] = Ch!SetChannel(board, Ch!PoweredOn(board), t, "2G")[f]
    <3>1. f = "PDMFTH_3_1" => board.paths # {"A"}
      BY <2>3 DEF Ch!Means
    <3>2. regs' = Ch!SetChannel(board, regs, t, regs.CCK_CHECK) /\ BandSet(board, regs)
      BY <1>1, <2>3 DEF ChannelInv
    <3>3. BandSet(board, Ch!PoweredOn(board)) /\ Ch!PoweredOn(board).CCK_CHECK = "2G"
      BY PoweredOnSet
    <3>4. DOMAIN Ch!PoweredOn(board) \subseteq BandFields
          /\ \A g \in DOMAIN Ch!PoweredOn(board) : g \in DOMAIN Ch!SwitchBand(board, "2G",
               20)
      BY BandFacts DEF Ch!PoweredOn
    <3> QED
      BY <2>3, <3>1, <3>2, <3>3, <3>4, SetAgrees
  <2>4. Ch!TunedAsFirst'
    BY <1>1, <2>3 DEF Ch!TunedAsFirst, Ch!Means
  <2> QED
    BY <1>1, <2>1, <2>2, <2>4 DEF ChannelInv
<1>2. CASE Ch!Set
  <2>1. PICK t \in Tunings :
          /\ tuned' = {t}
          /\ \/ misread' = FALSE /\ regs' = Ch!SetChannel(board, regs, t, regs.CCK_CHECK)
             \/ misread' = TRUE /\ regs' = Ch!SetChannel(board, regs, t, "2G")
    BY <1>2 DEF Ch!Set
  <2>2. board' = board /\ regs.CCK_CHECK \in {"2G", "5G"}
    BY <1>2 DEF Ch!Set, ChannelInv, BandSet
  <2> QED
    BY <1>1, <2>1, <2>2
<1>3. CASE Ch!PowerCycle
  BY <1>3, PoweredOnSet DEF Ch!PowerCycle, ChannelInv, Ch!TunedAsFirst, Ch!SpurAvoided
<1>4. CASE UNCHANGED Ch!channel_vars
  BY <1>4 DEF Ch!channel_vars, ChannelInv, Ch!TunedAsFirst, Ch!SpurAvoided, Ch!Means
<1> QED
  BY <1>2, <1>3, <1>4 DEF Ch!Next

(* Whatever was tuned before, also with a read that failed, a tuning leaves*)
(* the registers as the first one after power-on would (rtw88xxa.c:1506),  *)
(* and the spur of channels 13 and 14 avoided (rtw88xxa.c:1319).           *)
THEOREM ChannelIsSound == Ch!Spec => []ChannelAgrees
<1>1. Ch!Spec => []ChannelInv
  BY ChannelInit, ChannelNext, PTL DEF Ch!Spec
<1>2. ChannelInv => ChannelAgrees
  BY DEF ChannelInv, ChannelAgrees
<1> QED
  BY <1>1, <1>2, PTL

(***************************************************************************)
(* The calibration.  At says what page is chosen and which registers may be*)
(* dirty: during a calibration those put aside and its own, and what is put*)
(* back shrinks that set until its own are left.  Kept says of the         *)
(* measurements of a path that what is finished is the mean of two that    *)
(* agree, and that the tries left bound their number.                      *)
(***************************************************************************)

(* What Backup sets aside.                                                 *)
PutAside ==
  {<<0, a>> : a \in Iq!BackupMacBb \cup Iq!BackupAfe} \cup {<<1, a>> : a \in Iq!RfeCtl}
  \cup Iq!RfKeys("A", Iq!BackupRf) \cup Iq!RfKeys("B", Iq!BackupRf)

(* The chip during a calibration: the page, and that no register but those *)
(* of D and the calibration's own is dirty.                                *)
Everywhere ==
  [page : {0, 1}, dirty : SUBSET (Nat \X Nat), saved : SUBSET (Nat \X Nat), paused : BOOLEAN]
At(c, p, D) ==
  c \in Everywhere /\ c.page = p /\ c.saved = PutAside /\ c.dirty \subseteq Iq!Own \cup D

(* Choosing a page (REG_CCASEL) makes no register dirty.                   *)
LEMMA TurnAt ==
  ASSUME NEW c, NEW q, NEW D, At(c, q, D), NEW p \in {0, 1}
  PROVE  At(Iq!Turn(c, p), p, D)
  BY DEF At, Iq!Turn, Everywhere

(* Below 0xC00 and above 0xEFF the page does not matter; between, it does. *)
LEMMA KeyIs ==
  ASSUME NEW p \in Nat, NEW a \in Nat
  PROVE  Iq!Key(p, a) \in Nat \X Nat
  BY DEF Iq!Key

(* On page 0 an address is itself, on page 1 it is if it is paged.         *)
LEMMA KeyOn ==
  ASSUME NEW a \in Nat
  PROVE  Iq!Key(0, a) = <<0, a>> /\ (a \in \hc00..\heff => Iq!Key(1, a) = <<1, a>>)
  BY DEF Iq!Key

(* What is written may be dirty already.                                   *)
LEMMA WriteAt ==
  ASSUME NEW c, NEW p \in {0, 1}, NEW D, At(c, p, D), NEW addrs \in SUBSET Nat,
         \A a \in addrs : Iq!Key(p, a) \in Iq!Own \cup D
  PROVE  At(Iq!Write(c, addrs), p, D)
<1>0. Iq!Keys(c, addrs) = {Iq!Key(p, a) : a \in addrs}
  BY DEF Iq!Keys, At
<1>1. Iq!Keys(c, addrs) \subseteq Iq!Own \cup D
  BY <1>0
<1>2. Iq!Keys(c, addrs) \subseteq Nat \X Nat
  <2>1. \A a \in addrs : Iq!Key(p, a) \in Nat \X Nat
    BY KeyIs
  <2> QED
    BY <1>0, <2>1
<1>3. Iq!Write(c, addrs) = [c EXCEPT !.dirty = @ \cup Iq!Keys(c, addrs)]
  BY DEF Iq!Write, Iq!Dirtied
<1> QED
  BY <1>1, <1>2, <1>3 DEF At, Everywhere

(* An RF register is written on page 0, where its port is.                 *)
LEMMA RfAt ==
  ASSUME NEW c, NEW D, At(c, 0, D), NEW path, NEW addrs \in SUBSET Nat,
         Iq!RfKeys(path, addrs) \subseteq Iq!Own \cup D
  PROVE  At(Iq!Rf(c, path, addrs), 0, D)
<1>1. Iq!RfKeys(path, addrs) \subseteq Nat \X Nat
  BY DEF Iq!RfKeys
<1>2. Iq!Rf(c, path, addrs) = [c EXCEPT !.dirty = @ \cup Iq!RfKeys(path, addrs)]
  BY DEF Iq!Rf, Iq!Dirtied, At
<1> QED
  BY <1>1, <1>2 DEF At, Everywhere

(* What was set aside is clean once it is put back.                        *)
LEMMA ReturnedAt ==
  ASSUME NEW c, NEW p, NEW D, At(c, p, D), NEW keys, keys \subseteq PutAside
  PROVE  At(Iq!Returned(c, keys), p, D \ keys)
<1>1. keys \cap c.saved = keys /\ keys \ c.saved = {}
  BY DEF At
<1>2. Iq!Returned(c, keys) = [c EXCEPT !.dirty = @ \ keys]
  BY <1>1 DEF Iq!Returned, At
<1> QED
  BY <1>2 DEF At, Everywhere

OnPage(page, addrs) == {<<page, a>> : a \in addrs}

(* So it is with a set of addresses of the page, and page 0 is chosen if   *)
(* REG_CCASEL is one of them (rtw8812a.c:788).                             *)
LEMMA RestoreAt ==
  ASSUME NEW c, NEW p, NEW D, At(c, p, D), NEW addrs,
         \A a \in addrs : Iq!Key(p, a) = <<p, a>>, OnPage(p, addrs) \subseteq PutAside
  PROVE  /\ \h82c \notin addrs => At(Iq!Restore(c, addrs), p, D \ OnPage(p, addrs))
         /\ \h82c \in addrs => At(Iq!Restore(c, addrs), 0, D \ OnPage(p, addrs))
<1>1. Iq!Keys(c, addrs) = OnPage(p, addrs)
  BY DEF Iq!Keys, At, OnPage
<1>2. At(Iq!Returned(c, OnPage(p, addrs)), p, D \ OnPage(p, addrs))
  BY ReturnedAt
<1>3. At(Iq!Turn(Iq!Returned(c, OnPage(p, addrs)), 0), 0, D \ OnPage(p, addrs))
  BY <1>2, TurnAt
<1> QED
  BY <1>1, <1>2, <1>3 DEF Iq!Restore

(* And with the RF registers of a path, on page 0.                         *)
LEMMA RestoreRfAt ==
  ASSUME NEW c, NEW D, At(c, 0, D), NEW path, NEW addrs, Iq!RfKeys(path, addrs) \subseteq PutAside
  PROVE  At(Iq!RestoreRf(c, path, addrs), 0, D \ Iq!RfKeys(path, addrs))
<1>1. Iq!RestoreRf(c, path, addrs) = Iq!Returned(c, Iq!RfKeys(path, addrs))
  BY DEF Iq!RestoreRf, At
<1> QED
  BY <1>1, ReturnedAt

----------------------------------------------------------------------------
(* The registers that are written.                                         *)
LEMMA BackedHas ==
  /\ \A a \in Iq!BackupMacBb \cup Iq!BackupAfe : <<0, a>> \in PutAside
  /\ \A a \in Iq!RfeCtl : <<1, a>> \in PutAside
  /\ \A a \in Iq!BackupRf : <<10, a>> \in PutAside /\ <<11, a>> \in PutAside
  BY DEF PutAside, Iq!RfKeys

(* The registers of page 0 that are the calibration's own.                 *)
LEMMA ResultsOwn ==
  \A a \in Iq!Results : <<0, a>> \in Iq!Own
  BY DEF Iq!Own

(* The RF registers that are the calibration's own.                        *)
LEMMA RfOwnOwn ==
  \A a \in Iq!RfOwn : <<10, a>> \in Iq!Own /\ <<11, a>> \in Iq!Own
  BY DEF Iq!Own, Iq!RfKeys

(* The registers of page 1 that are the calibration's own.                 *)
LEMMA ShotsOwn ==
  \A a \in Iq!Shots : <<1, a>> \in Iq!Own /\ <<1, a + \h200>> \in Iq!Own
<1>1. \A a \in Iq!Shots : a \in Iq!Both(Iq!Shots) /\ a + \h200 \in Iq!Both(Iq!Shots)
  BY DEF Iq!Both
<1> QED
  BY <1>1 DEF Iq!Own

(* Addresses of path A.  Those of path B are 0x200 above, and what is      *)
(* written to both paths is one of the two.                                *)
OfPathA(S) == S \in SUBSET Nat /\ \A a \in S : \hc00 <= a /\ a <= \hcff

(* On either page, that takes both to be allowed.                          *)
LEMMA BothOn ==
  ASSUME NEW page \in {0, 1}, NEW S, OfPathA(S), NEW D,
         \A a \in S : <<page, a>> \in D /\ <<page, a + \h200>> \in D
  PROVE  Iq!Both(S) \in SUBSET Nat /\ \A a \in Iq!Both(S) : Iq!Key(page, a) \in D
<1>1. ASSUME NEW b \in S PROVE b \in Nat /\ Iq!Key(page, b) \in D
  <2>1. <<page, b>> \in D
    BY Zenon
  <2>2. b \in \hc00..\heff
    BY DEF OfPathA
  <2> QED
    BY <2>1, <2>2, KeyOn
<1>2. ASSUME NEW b \in S PROVE b + \h200 \in Nat /\ Iq!Key(page, b + \h200) \in D
  <2>1. <<page, b + \h200>> \in D
    BY Zenon
  <2>2. b + \h200 \in \hc00..\heff
    BY DEF OfPathA
  <2>3. Iq!Key(page, b + \h200) = <<page, b + \h200>>
    BY <2>2 DEF Iq!Key
  <2> QED
    BY <2>1, <2>2, <2>3
<1>3. \A a \in Iq!Both(S) : a \in Nat /\ Iq!Key(page, a) \in D
  <2> SUFFICES ASSUME NEW a \in Iq!Both(S) PROVE a \in Nat /\ Iq!Key(page, a) \in D
    OBVIOUS
  <2>1. a \in S \/ \E b \in S : a = b + \h200
    BY DEF Iq!Both
  <2> QED
    BY <1>1, <1>2, <2>1, Zenon
<1> QED
  BY <1>3

(* The setting of the RF registers for a measurement.                      *)
LEMMA RfSettingOf ==
  /\ Iq!RfSetting \in SUBSET Nat
  /\ Iq!RfKeys("A", Iq!RfSetting) \subseteq Iq!Own \cup PutAside
  /\ Iq!RfKeys("B", Iq!RfSetting) \subseteq Iq!Own \cup PutAside
<1>1. \A a \in Iq!RfSetting :
        a \in Nat /\ <<10, a>> \in Iq!Own \cup PutAside /\ <<11, a>> \in Iq!Own \cup PutAside
  BY BackedHas, RfOwnOwn DEF Iq!RfSetting, Iq!BackupRf, Iq!RfOwn
<1> QED
  BY <1>1 DEF Iq!RfKeys

(* rtw8812a_iqk_configure_mac writes nothing that was not set aside.       *)
LEMMA ConfigureMacAt ==
  ASSUME NEW c, At(c, 0, PutAside)
  PROVE  At(Iq!ConfigureMac(c), 0, PutAside)
<1> DEFINE S == {\h520, \h550, \h808, \h838, \ha04}
<1>1. At(Iq!Turn(c, 0), 0, PutAside)
  BY TurnAt
<1>2. \A a \in S : a \in Nat /\ a \in Iq!BackupMacBb
  BY DEF Iq!BackupMacBb
<1>3. \A a \in S : a \in Nat /\ Iq!Key(0, a) \in Iq!Own \cup PutAside
  BY <1>2, BackedHas, KeyOn
<1> QED
  BY <1>1, <1>3, WriteAt DEF Iq!ConfigureMac

(* Nor does the setup for the senders, which leaves page 1.                *)
LEMMA TxSetupAt ==
  ASSUME NEW c, At(c, 0, PutAside)
  PROVE  At(Iq!TxSetup(c), 1, PutAside)
<1> DEFINE S == {\hc60, \hc64, \hc68, \hc00, \hc5c}
           R == {\h90c, \hc94, \he94, \h978, \h97c, \h984}
           T == {\hc88, \hc8c, \hc80, \hc84, \hce8}
           afe == Iq!Write(Iq!Turn(c, 0), Iq!Both(S))
           rf == Iq!Rf(Iq!Rf(Iq!Turn(afe, 0), "A", Iq!RfSetting), "B", Iq!RfSetting)
           bb == Iq!Write(rf, R)
<1>1. At(Iq!Turn(c, 0), 0, PutAside)
  BY TurnAt
<1>2. /\ Iq!Both(S) \in SUBSET Nat
      /\ \A a \in Iq!Both(S) : Iq!Key(0, a) \in Iq!Own \cup PutAside
  <2>1. \A a \in S : <<0, a>> \in PutAside /\ <<0, a + \h200>> \in PutAside
    BY BackedHas DEF Iq!BackupAfe, Iq!BackupMacBb
  <2>2. OfPathA(S)
    BY DEF OfPathA
  <2> QED
    BY <2>1, <2>2, BothOn
<1>3. At(afe, 0, PutAside)
  BY <1>1, <1>2, WriteAt
<1>4. /\ Iq!RfSetting \in SUBSET Nat
      /\ Iq!RfKeys("A", Iq!RfSetting) \subseteq Iq!Own \cup PutAside
      /\ Iq!RfKeys("B", Iq!RfSetting) \subseteq Iq!Own \cup PutAside
  BY RfSettingOf
<1>5. At(Iq!Turn(afe, 0), 0, PutAside)
  BY <1>3, TurnAt
<1>6. At(Iq!Rf(Iq!Turn(afe, 0), "A", Iq!RfSetting), 0, PutAside)
  BY <1>4, <1>5, RfAt
<1>7. At(rf, 0, PutAside)
  BY <1>4, <1>6, RfAt
<1>8. \A a \in R : a \in Nat /\ Iq!Key(0, a) \in Iq!Own \cup PutAside
  <2>1. \h90c \in Iq!BackupMacBb /\ \A a \in R : a = \h90c \/ a \in Iq!Results
    BY DEF Iq!BackupMacBb, Iq!Results
  <2>2. \A a \in R : <<0, a>> \in Iq!Own \cup PutAside
    <3> SUFFICES ASSUME NEW a \in R PROVE <<0, a>> \in Iq!Own \cup PutAside
      OBVIOUS
    <3> HIDE DEF R
    <3> QED
      BY <2>1, BackedHas, ResultsOwn
  <2> QED
    BY <2>2, KeyOn
<1>9. At(bb, 0, PutAside)
  BY <1>7, <1>8, WriteAt
<1>10. At(Iq!Turn(bb, 1), 1, PutAside)
  BY <1>9, TurnAt
<1>11. /\ Iq!Both(T) \in SUBSET Nat
       /\ \A a \in Iq!Both(T) : Iq!Key(1, a) \in Iq!Own \cup PutAside
  <2>2. \A a \in T : /\ <<1, a>> \in Iq!Own \cup PutAside
                     /\ <<1, a + \h200>> \in Iq!Own \cup PutAside
    BY ShotsOwn DEF Iq!Shots
  <2>1. OfPathA(T) /\ 1 \in {0, 1}
    BY DEF OfPathA
  <2> HIDE DEF T
  <2> QED
    BY <2>1, <2>2, BothOn, Zenon
<1> QED
  BY <1>10, <1>11, WriteAt DEF Iq!TxSetup

(* An address that is not paged.                                           *)
LEMMA KeyOff ==
  ASSUME NEW page, NEW a \in Nat, a \notin \hc00..\heff
  PROVE  Iq!Key(page, a) = <<0, a>>
  BY DEF Iq!Key

(* Nor does the start of a measurement.                                    *)
LEMMA OneShotAt ==
  ASSUME NEW c, At(c, 1, PutAside)
  PROVE  At(Iq!OneShot(c), 1, PutAside)
<1>1. \A a \in Iq!RfeCtl : a \in Nat /\ Iq!Key(1, a) = <<1, a>>
  BY KeyOn DEF Iq!RfeCtl
<1>2. Iq!Key(1, \h980) = <<0, \h980>>
  BY KeyOff
<1>3. <<0, \h980>> \in Iq!Own
  BY ResultsOwn DEF Iq!Results
<1>4. \A a \in Iq!RfeCtl \cup {\h980} : a \in Nat /\ Iq!Key(1, a) \in Iq!Own \cup PutAside
  BY <1>1, <1>2, <1>3, BackedHas
<1> QED
  BY <1>4, WriteAt DEF Iq!OneShot

(* What is written to one path on page 1 is the calibration's own.         *)
LEMMA ShotsOn ==
  /\ Iq!Shots \in SUBSET Nat
  /\ \A a \in Iq!Shots :
       a + \h200 \in Nat /\ Iq!Key(1, a) \in Iq!Own /\ Iq!Key(1, a + \h200) \in Iq!Own
<1>1. OfPathA(Iq!Shots) /\ 1 \in {0, 1}
  BY DEF OfPathA, Iq!Shots
<1>2. \A a \in Iq!Shots : a \in \hc00..\heff /\ a + \h200 \in \hc00..\heff
  BY <1>1 DEF OfPathA
<1>3. \A a \in Iq!Shots : Iq!Key(1, a) = <<1, a>> /\ Iq!Key(1, a + \h200) = <<1, a + \h200>>
  BY <1>2 DEF Iq!Key
<1> QED
  BY <1>2, <1>3, ShotsOwn

(* Some RF registers of the calibration.                                   *)
LEMMA RfOwnOf ==
  ASSUME NEW addrs, addrs \subseteq Iq!RfOwn
  PROVE  /\ addrs \in SUBSET Nat
         /\ Iq!RfKeys("A", addrs) \subseteq Iq!Own /\ Iq!RfKeys("B", addrs) \subseteq Iq!Own
<1>1. addrs \in SUBSET Nat
  BY DEF Iq!RfOwn
<1>2. \A path : Iq!RfKeys(path, addrs) \subseteq Iq!RfKeys(path, Iq!RfOwn)
  BY DEF Iq!RfKeys
<1> QED
  BY <1>1, <1>2 DEF Iq!Own

(* What is written between the senders and the receivers.                  *)
LEMMA BetweenAt ==
  ASSUME NEW c, At(c, 0, PutAside),
         NEW addrs, addrs = {\h978, \h90c, \h984} \cup Iq!Both({\hcb0, \hcb4})
  PROVE  At(Iq!Write(c, addrs), 0, PutAside)
<1> DEFINE S == {\hcb0, \hcb4}
           R == {\h978, \h90c, \h984}
<1>1. \A a \in R : a \in Nat /\ Iq!Key(0, a) \in Iq!Own \cup PutAside
  <2>1. \h90c \in Iq!BackupMacBb /\ \A a \in R : a \in Nat /\ (a = \h90c \/ a \in Iq!Results)
    BY DEF Iq!BackupMacBb, Iq!Results
  <2>2. \A a \in R : <<0, a>> \in Iq!Own \cup PutAside
    <3> SUFFICES ASSUME NEW a \in R PROVE <<0, a>> \in Iq!Own \cup PutAside
      OBVIOUS
    <3> HIDE DEF R
    <3> QED
      BY <2>1, BackedHas, ResultsOwn
  <2> QED
    BY <2>1, <2>2, KeyOn
<1>2. /\ Iq!Both(S) \in SUBSET Nat
      /\ \A a \in Iq!Both(S) : Iq!Key(0, a) \in Iq!Own \cup PutAside
  <2>1. \A a \in S : <<0, a>> \in PutAside /\ <<0, a + \h200>> \in PutAside
    <3>1. \A a \in S : a \in Iq!BackupAfe /\ a + \h200 \in Iq!BackupAfe
      BY DEF Iq!BackupAfe
    <3> HIDE DEF S
    <3> QED
      BY <3>1, BackedHas
  <2>2. OfPathA(S) /\ 0 \in {0, 1}
    BY DEF OfPathA
  <2>3. \A a \in S : /\ <<0, a>> \in Iq!Own \cup PutAside
                     /\ <<0, a + \h200>> \in Iq!Own \cup PutAside
    BY <2>1
  <2> HIDE DEF S
  <2> QED
    BY <2>2, <2>3, BothOn, Zenon
<1>3. addrs \in SUBSET Nat /\ \A a \in addrs : Iq!Key(0, a) \in Iq!Own \cup PutAside
  BY <1>1, <1>2
<1> QED
  BY <1>3, WriteAt

(* Nor does the setup for the receivers.                                   *)
LEMMA RxSetupAt ==
  ASSUME NEW c, At(c, 1, PutAside), NEW done
  PROVE  At(Iq!RxSetup(c, done), 1, PutAside)
<1> DEFINE leak == Iq!Rf(Iq!Rf(Iq!Turn(c, 0), "A", {\h58}), "B", {\h58})
           back == Iq!Turn(Iq!Turn(leak, 1), 0)
           rfA == IF "A" \in done THEN Iq!Rf(back, "A", Iq!RfSetting) ELSE back
           rfB == IF "B" \in done THEN Iq!Rf(rfA, "B", Iq!RfSetting) ELSE rfA
           addrs == {\h978, \h90c, \h984} \cup Iq!Both({\hcb0, \hcb4})
           bb == Iq!Turn(Iq!Write(rfB, addrs), 1)
           shotA == IF "A" \in done THEN Iq!Write(bb, {\hc80, \hc84, \hc88}) ELSE bb
<1>1. /\ {\h58} \in SUBSET Nat
      /\ Iq!RfKeys("A", {\h58}) \subseteq Iq!Own \cup PutAside
      /\ Iq!RfKeys("B", {\h58}) \subseteq Iq!Own \cup PutAside
  BY RfOwnOf DEF Iq!RfOwn
<1>2. At(Iq!Turn(c, 0), 0, PutAside)
  BY TurnAt
<1>3. At(Iq!Rf(Iq!Turn(c, 0), "A", {\h58}), 0, PutAside)
  BY <1>1, <1>2, RfAt
<1>4. At(leak, 0, PutAside)
  BY <1>1, <1>3, RfAt
<1>5. At(back, 0, PutAside)
  <2>1. At(Iq!Turn(leak, 1), 1, PutAside)
    BY <1>4, TurnAt
  <2> QED
    BY <2>1, TurnAt
<1>6. At(rfA, 0, PutAside)
  BY <1>5, RfSettingOf, RfAt
<1>7. At(rfB, 0, PutAside)
  BY <1>6, RfSettingOf, RfAt
<1>8. At(bb, 1, PutAside)
  <2>1. At(Iq!Write(rfB, addrs), 0, PutAside)
    BY <1>7, BetweenAt
  <2> QED
    BY <2>1, TurnAt
<1>9. At(shotA, 1, PutAside)
  <2>1. \A a \in {\hc80, \hc84, \hc88} : a \in Nat /\ Iq!Key(1, a) \in Iq!Own \cup PutAside
    BY ShotsOn DEF Iq!Shots
  <2> QED
    BY <1>8, <2>1, WriteAt
<1>10. \A a \in {\he80, \he84, \he88} : a \in Nat /\ Iq!Key(1, a) \in Iq!Own \cup PutAside
  <2>1. \A a \in {\he80, \he84, \he88} : \E b \in Iq!Shots : a = b + \h200
    <3>1. \hc80 \in Iq!Shots /\ \hc84 \in Iq!Shots /\ \hc88 \in Iq!Shots
      BY DEF Iq!Shots
    <3>2. \he80 = \hc80 + \h200 /\ \he84 = \hc84 + \h200 /\ \he88 = \hc88 + \h200
      OBVIOUS
    <3> QED
      BY <3>1, <3>2
  <2> QED
    BY <2>1, ShotsOn
<1> QED
  BY <1>9, <1>10, WriteAt DEF Iq!RxSetup

(* Nor does a measurement of the receiver of one path,                     *)
LEMMA RxShotAt ==
  ASSUME NEW c, NEW p \in {0, 1}, At(c, p, PutAside), NEW of \in SUBSET Nat,
         \A a \in of : Iq!Key(1, a) \in Iq!Own \cup PutAside
  PROVE  At(Iq!RxShotOf(c, of), 1, PutAside)
<1>1. At(Iq!Turn(c, 0), 0, PutAside)
  BY TurnAt
<1>2. \A a \in {\h978} : a \in Nat /\ Iq!Key(0, a) \in Iq!Own \cup PutAside
  BY KeyOn, ResultsOwn DEF Iq!Results
<1>3. At(Iq!Write(Iq!Turn(c, 0), {\h978}), 0, PutAside)
  BY <1>1, <1>2, WriteAt
<1>4. At(Iq!Turn(Iq!Write(Iq!Turn(c, 0), {\h978}), 1), 1, PutAside)
  BY <1>3, TurnAt
<1> QED
  BY <1>4, WriteAt DEF Iq!RxShotOf

(* or of those whose senders are done.                                     *)
LEMMA RxOneShotAt ==
  ASSUME NEW c, At(c, 1, PutAside), NEW done
  PROVE  \E p \in {0, 1} : At(Iq!RxOneShot(c, done), p, PutAside)
<1> DEFINE shotA == IF "A" \in done THEN Iq!RxShotOf(Iq!Turn(c, 0), {\hc8c, \hcb8})
                                    ELSE Iq!Turn(c, 0)
<1>1. \A a \in {\hc8c, \hcb8} : a \in Nat /\ Iq!Key(1, a) \in Iq!Own \cup PutAside
  <2>1. Iq!Key(1, \hc8c) = <<1, \hc8c>> /\ Iq!Key(1, \hcb8) = <<1, \hcb8>>
    BY KeyOn
  <2>2. <<1, \hc8c>> \in Iq!Own /\ <<1, \hcb8>> \in PutAside
    BY ShotsOwn, BackedHas DEF Iq!Shots, Iq!RfeCtl
  <2> QED
    BY <2>1, <2>2
<1>2. \A a \in {\he8c, \heb8} : a \in Nat /\ Iq!Key(1, a) \in Iq!Own \cup PutAside
  <2>1. \A a \in {\he8c} : \E b \in Iq!Shots : a = b + \h200
    BY DEF Iq!Shots
  <2>2. \A a \in {\he8c} : a \in Nat /\ Iq!Key(1, a) \in Iq!Own
    BY <2>1, ShotsOn
  <2>3. Iq!Key(1, \heb8) = <<1, \heb8>> /\ <<1, \heb8>> \in PutAside
    BY KeyOn, BackedHas DEF Iq!RfeCtl
  <2> QED
    BY <2>2, <2>3
<1>3. At(Iq!Turn(c, 0), 0, PutAside)
  BY TurnAt
<1>4. \E p \in {0, 1} : At(shotA, p, PutAside)
  BY <1>1, <1>3, RxShotAt
<1>5. At(Iq!RxShotOf(shotA, {\he8c, \heb8}), 1, PutAside)
  BY <1>2, <1>4, RxShotAt
<1> QED
  BY <1>4, <1>5 DEF Iq!RxOneShot

(* Nor does filling in, which leaves page 0.                               *)
LEMMA FillingAt ==
  ASSUME NEW c, NEW p \in {0, 1}, At(c, p, PutAside)
  PROVE  At(Iq!Filling(c), 0, PutAside)
<1> DEFINE txA == Iq!Write(Iq!Turn(c, 1), {\hc90, \hcc4, \hcc8, \hccc, \hcd4})
           rxA == Iq!Write(Iq!Turn(txA, 0), {\hc10})
           txB == Iq!Write(Iq!Turn(rxA, 1), {\he90, \hec4, \hec8, \hecc, \hed4})
<1>1. /\ \A a \in {\hc90, \hcc4, \hcc8, \hccc, \hcd4} :
           a \in Nat /\ Iq!Key(1, a) \in Iq!Own \cup PutAside
      /\ \A a \in {\he90, \hec4, \hec8, \hecc, \hed4} :
           a \in Nat /\ Iq!Key(1, a) \in Iq!Own \cup PutAside
  <2>1. \A a \in {\hc90, \hcc4, \hcc8, \hccc, \hcd4} :
          /\ a \in Iq!Shots /\ a \in Nat
          /\ a + \h200 \in {\he90, \hec4, \hec8, \hecc, \hed4}
    BY DEF Iq!Shots
  <2>2. \A a \in {\he90, \hec4, \hec8, \hecc, \hed4} :
          \E b \in {\hc90, \hcc4, \hcc8, \hccc, \hcd4} : a = b + \h200
    OBVIOUS
  <2> QED
    BY <2>1, <2>2, ShotsOn
<1>2. \A a \in {\hc10, \he10} : a \in Nat /\ Iq!Key(0, a) \in Iq!Own \cup PutAside
  BY KeyOn, ResultsOwn DEF Iq!Results
<1>3. At(Iq!Turn(c, 1), 1, PutAside)
  BY TurnAt
<1>4. At(txA, 1, PutAside)
  BY <1>1, <1>3, WriteAt
<1>5. At(Iq!Turn(txA, 0), 0, PutAside)
  BY <1>4, TurnAt
<1>6. At(rxA, 0, PutAside)
  BY <1>2, <1>5, WriteAt
<1>7. At(Iq!Turn(rxA, 1), 1, PutAside)
  BY <1>6, TurnAt
<1>8. At(txB, 1, PutAside)
  BY <1>1, <1>7, WriteAt
<1>9. At(Iq!Turn(txB, 0), 0, PutAside)
  BY <1>8, TurnAt
<1> QED
  BY <1>2, <1>9, WriteAt DEF Iq!Filling

(* Everything set aside is put back.                                       *)
LEMMA RestoreRfOfAt ==
  ASSUME NEW c, NEW p \in {0, 1}, NEW D, At(c, p, D), NEW path \in Iq!Paths
  PROVE  At(Iq!RestoreRfOf(Iq!Turn(c, 0), path), 0, D \ Iq!RfKeys(path, Iq!BackupRf))
<1> DEFINE E == D \ Iq!RfKeys(path, Iq!BackupRf)
<1>1. At(Iq!Turn(c, 0), 0, D)
  BY TurnAt
<1>2. Iq!RfKeys(path, Iq!BackupRf) \subseteq PutAside
  BY DEF Iq!Paths, PutAside
<1>3. At(Iq!RestoreRf(Iq!Turn(c, 0), path, Iq!BackupRf), 0, E)
  BY <1>1, <1>2, RestoreRfAt
<1>4. {\hef} \in SUBSET Nat /\ Iq!RfKeys(path, {\hef}) \subseteq Iq!Own \cup E
  BY RfOwnOf DEF Iq!RfOwn, Iq!Paths
<1> HIDE DEF E
<1>5. At(Iq!Rf(Iq!RestoreRf(Iq!Turn(c, 0), path, Iq!BackupRf), path, {\hef}), 0, E)
  BY <1>3, <1>4, RfAt
<1> QED
  BY <1>5 DEF Iq!RestoreRfOf, E

(* The registers of the analogue front end are put back on page 0, and of  *)
(* the calibration's own some are written on page 1.                       *)
LEMMA RestoreAfeAt ==
  ASSUME NEW c, NEW D, At(c, 0, D)
  PROVE  At(Iq!RestoreAfe(c), 1, D \ OnPage(0, Iq!BackupAfe))
<1> DEFINE E == D \ OnPage(0, Iq!BackupAfe)
           S == {\hc80, \hc84, \hc88, \hc8c, \hc90, \hcc4, \hcc8}
<1>1. At(Iq!Turn(c, 0), 0, D)
  BY TurnAt
<1>2. \A a \in Iq!BackupAfe : a \in Nat /\ Iq!Key(0, a) = <<0, a>>
  BY KeyOn DEF Iq!BackupAfe
<1>4. OnPage(0, Iq!BackupAfe) \subseteq PutAside /\ \h82c \notin Iq!BackupAfe
  BY DEF OnPage, PutAside, Iq!BackupAfe
<1>5. At(Iq!Restore(Iq!Turn(c, 0), Iq!BackupAfe), 0, E)
  BY <1>1, <1>2, <1>4, RestoreAt
<1>6. At(Iq!Turn(Iq!Restore(Iq!Turn(c, 0), Iq!BackupAfe), 1), 1, E)
  BY <1>5, TurnAt
<1>7. Iq!Both(S) \in SUBSET Nat /\ \A a \in Iq!Both(S) : Iq!Key(1, a) \in Iq!Own
  <2>1. S \subseteq Iq!Shots /\ OfPathA(S) /\ 1 \in {0, 1}
    BY DEF OfPathA, Iq!Shots
  <2>2. \A a \in S : <<1, a>> \in Iq!Own /\ <<1, a + \h200>> \in Iq!Own
    <3> HIDE DEF S
    <3> QED
      BY <2>1, ShotsOwn
  <2> HIDE DEF S
  <2> QED
    BY <2>1, <2>2, BothOn, Zenon
<1> HIDE DEF E
<1>8. At(Iq!Write(Iq!Turn(Iq!Restore(Iq!Turn(c, 0), Iq!BackupAfe), 1), Iq!Both(S)), 1, E)
  BY <1>6, <1>7, WriteAt
<1> QED
  BY <1>8 DEF Iq!RestoreAfe, E

(* Then those of the front end and of the MAC and baseband, with           *)
(* REG_CCASEL.                                                             *)
LEMMA RestoreRestAt ==
  ASSUME NEW c, NEW D, At(c, 0, D)
  PROVE  At(Iq!RestoreRest(c), 0,
            ((D \ OnPage(0, Iq!BackupAfe)) \ OnPage(1, Iq!RfeCtl)) \ OnPage(0, Iq!BackupMacBb))
<1> DEFINE E == D \ OnPage(0, Iq!BackupAfe)
           rfe == Iq!Restore(Iq!Turn(Iq!RestoreAfe(c), 1), Iq!RfeCtl)
<1>1. At(Iq!RestoreAfe(c), 1, E)
  BY RestoreAfeAt
<1>2. At(Iq!Turn(Iq!RestoreAfe(c), 1), 1, E)
  BY <1>1, TurnAt
<1>3. \A a \in Iq!RfeCtl : Iq!Key(1, a) = <<1, a>>
  BY KeyOn DEF Iq!RfeCtl
<1>4. OnPage(1, Iq!RfeCtl) \subseteq PutAside /\ \h82c \notin Iq!RfeCtl
  BY DEF OnPage, PutAside, Iq!RfeCtl
<1>5. At(rfe, 1, E \ OnPage(1, Iq!RfeCtl))
  BY <1>2, <1>3, <1>4, RestoreAt
<1>6. At(Iq!Turn(Iq!Turn(rfe, 0), 0), 0, E \ OnPage(1, Iq!RfeCtl))
  <2>1. At(Iq!Turn(rfe, 0), 0, E \ OnPage(1, Iq!RfeCtl))
    BY <1>5, TurnAt
  <2> QED
    BY <2>1, TurnAt
<1>7. \A a \in Iq!BackupMacBb : Iq!Key(0, a) = <<0, a>>
  BY KeyOn DEF Iq!BackupMacBb
<1>8. OnPage(0, Iq!BackupMacBb) \subseteq PutAside /\ \h82c \in Iq!BackupMacBb
  BY DEF OnPage, PutAside, Iq!BackupMacBb
<1>9. At(Iq!Restore(Iq!Turn(Iq!Turn(rfe, 0), 0), Iq!BackupMacBb), 0,
         (E \ OnPage(1, Iq!RfeCtl)) \ OnPage(0, Iq!BackupMacBb))
  BY <1>6, <1>7, <1>8, RestoreAt
<1> QED
  BY <1>9 DEF Iq!RestoreRest

(* A calibration ends on page 0, with no register dirty but its own.       *)
LEMMA PutBackAt ==
  ASSUME NEW c, At(c, 0, PutAside)
  PROVE  At(Iq!PutBack(c), 0, {})
<1> DEFINE D == PutAside \ Iq!RfKeys("A", Iq!BackupRf)
           E == D \ Iq!RfKeys("B", Iq!BackupRf)
           rfA == Iq!RestoreRfOf(Iq!Turn(c, 0), "A")
           rfB == Iq!RestoreRfOf(Iq!Turn(rfA, 0), "B")
<1>1. At(rfA, 0, D)
  BY RestoreRfOfAt DEF Iq!Paths
<1>2. At(rfB, 0, E)
  BY <1>1, RestoreRfOfAt DEF Iq!Paths
<1>3. ((E \ OnPage(0, Iq!BackupAfe)) \ OnPage(1, Iq!RfeCtl)) \ OnPage(0, Iq!BackupMacBb) = {}
  BY DEF PutAside, OnPage
<1> HIDE DEF D, E
<1> QED
  BY <1>2, <1>3, RestoreRestAt DEF Iq!PutBack

----------------------------------------------------------------------------
(* What is set aside at the beginning.                                     *)
Clean(c, p, S) == c \in Everywhere /\ c.page = p /\ c.dirty = {} /\ c.saved = S

(* While registers are set aside none is dirty.                            *)
LEMMA TurnClean ==
  ASSUME NEW c, NEW q, NEW S, Clean(c, q, S), NEW p \in {0, 1}
  PROVE  Clean(Iq!Turn(c, p), p, S)
  BY DEF Clean, Iq!Turn, Everywhere

(* Setting aside registers of the page chosen.                             *)
LEMMA SaveClean ==
  ASSUME NEW c, NEW p, NEW S, Clean(c, p, S), NEW addrs \in SUBSET Nat,
         \A a \in addrs : Iq!Key(p, a) = <<p, a>>, p \in {0, 1}
  PROVE  Clean(Iq!Save(c, addrs), p, S \cup OnPage(p, addrs))
<1>1. Iq!Keys(c, addrs) = OnPage(p, addrs)
  BY DEF Iq!Keys, OnPage, Clean
<1>2. OnPage(p, addrs) \subseteq Nat \X Nat
  BY DEF OnPage
<1>3. Iq!Save(c, addrs) = [c EXCEPT !.saved = @ \cup OnPage(p, addrs)]
  BY <1>1 DEF Iq!Save, Iq!SetAside, Clean
<1> QED
  BY <1>2, <1>3 DEF Clean, Everywhere

(* Setting aside RF registers.                                             *)
LEMMA SaveRfClean ==
  ASSUME NEW c, NEW S, Clean(c, 0, S), NEW path, NEW addrs \in SUBSET Nat
  PROVE  Clean(Iq!SaveRf(c, path, addrs), 0, S \cup Iq!RfKeys(path, addrs))
<1>1. Iq!RfKeys(path, addrs) \subseteq Nat \X Nat
  BY DEF Iq!RfKeys
<1>2. Iq!SaveRf(c, path, addrs) = [c EXCEPT !.saved = @ \cup Iq!RfKeys(path, addrs)]
  BY DEF Iq!SaveRf, Iq!SetAside, Clean
<1> QED
  BY <1>1, <1>2 DEF Clean, Everywhere

(* All of them together.                                                   *)
LEMMA BackupAt ==
  ASSUME NEW c, Clean(c, 0, {})
  PROVE  At(Iq!Backup(c), 0, PutAside)
<1> DEFINE macbb == Iq!Save(Iq!Turn(c, 0), Iq!BackupMacBb)
           rfe == Iq!Save(Iq!Turn(macbb, 1), Iq!RfeCtl)
           afe == Iq!Save(Iq!Turn(rfe, 0), Iq!BackupAfe)
           S1 == {} \cup OnPage(0, Iq!BackupMacBb)
           S2 == S1 \cup OnPage(1, Iq!RfeCtl)
           S3 == S2 \cup OnPage(0, Iq!BackupAfe)
           S4 == S3 \cup Iq!RfKeys("A", Iq!BackupRf)
           S5 == S4 \cup Iq!RfKeys("B", Iq!BackupRf)
<1>0. 0 \in {0, 1} /\ 1 \in {0, 1}
  OBVIOUS
<1>1. Iq!BackupMacBb \in SUBSET Nat /\ \A a \in Iq!BackupMacBb : Iq!Key(0, a) = <<0, a>>
  BY KeyOn DEF Iq!BackupMacBb
<1>2. Iq!RfeCtl \in SUBSET Nat /\ \A a \in Iq!RfeCtl : Iq!Key(1, a) = <<1, a>>
  BY KeyOn DEF Iq!RfeCtl
<1>3. Iq!BackupAfe \in SUBSET Nat /\ \A a \in Iq!BackupAfe : Iq!Key(0, a) = <<0, a>>
  BY KeyOn DEF Iq!BackupAfe
<1>4. Iq!BackupRf \in SUBSET Nat
  BY DEF Iq!BackupRf
<1>5. S5 = PutAside
  BY DEF PutAside, OnPage
<1> HIDE DEF S1, S2, S3, S4, S5
<1>6. Clean(Iq!Turn(c, 0), 0, {})
  BY TurnClean
<1>7. Clean(macbb, 0, S1)
  BY <1>0, <1>1, <1>6, SaveClean DEF S1
<1>8. Clean(Iq!Turn(macbb, 1), 1, S1)
  BY <1>7, TurnClean
<1>9. Clean(rfe, 1, S2)
  BY <1>0, <1>2, <1>8, SaveClean DEF S2
<1>10. Clean(Iq!Turn(rfe, 0), 0, S2)
  BY <1>9, TurnClean
<1>11. Clean(afe, 0, S3)
  BY <1>0, <1>3, <1>10, SaveClean DEF S3
<1>12. Clean(Iq!Turn(afe, 0), 0, S3)
  BY <1>11, TurnClean
<1>13. Clean(Iq!SaveRf(Iq!Turn(afe, 0), "A", Iq!BackupRf), 0, S4)
  BY <1>4, <1>12, SaveRfClean DEF S4
<1>14. Clean(Iq!SaveRf(Iq!SaveRf(Iq!Turn(afe, 0), "A", Iq!BackupRf), "B", Iq!BackupRf), 0, S5)
  BY <1>4, <1>13, SaveRfClean DEF S5
<1>15. Clean(Iq!Backup(c), 0, PutAside)
  BY <1>5, <1>14 DEF Iq!Backup
<1> QED
  BY <1>15 DEF Clean, At

----------------------------------------------------------------------------
(* The state of the chip between two steps.                                *)
TxPause == {<<0, \h520>>}
ChipKept ==
  /\ iqk_pc = "idle" =>
       /\ chip \in Everywhere /\ chip.page = 0 /\ chip.saved = {}
       /\ chip.dirty \subseteq Iq!Own \cup (IF chip.paused THEN TxPause ELSE {})
  /\ iqk_pc = "tx" => At(chip, 1, PutAside)
  /\ iqk_pc = "rx" => \E p \in {0, 1} : At(chip, p, PutAside)

(* The chip in rtw8812a_do_lck, which sets the channel aside: no register  *)
(* but those of D is dirty.                                                *)
Lcking(c, paused, D) ==
  /\ c \in Everywhere /\ c.page = 0 /\ c.saved = Iq!RfKeys("A", {\h18})
  /\ c.paused = paused /\ c.dirty \subseteq D

(* A register that is written may be dirty,                                *)
LEMMA LckDirtied ==
  ASSUME NEW c, NEW paused, NEW D, Lcking(c, paused, D), NEW keys \in SUBSET (Nat \X Nat)
  PROVE  Lcking(Iq!Dirtied(c, keys), paused, D \cup keys)
  BY DEF Lcking, Everywhere, Iq!Dirtied

(* the channel put back is not,                                            *)
LEMMA LckRestored ==
  ASSUME NEW c, NEW paused, NEW D, Lcking(c, paused, D)
  PROVE  Lcking(Iq!RestoreRf(c, "A", {\h18}), paused, D \ Iq!RfKeys("A", {\h18}))
<1> DEFINE keys == Iq!RfKeys("A", {\h18})
<1>1. Iq!RestoreRf(c, "A", {\h18}) =
        [c EXCEPT !.dirty = (@ \ (keys \cap c.saved)) \cup (keys \ c.saved)]
  BY DEF Iq!RestoreRf, Iq!Returned, Lcking
<1>2. c.saved = keys
  BY DEF Lcking
<1> HIDE DEF keys
<1>3. Iq!RestoreRf(c, "A", {\h18}) = [c EXCEPT !.dirty = @ \ keys]
  BY <1>1, <1>2
<1> QED
  BY <1>3 DEF Lcking, Everywhere, keys

(* and one that is cleared is not if it was 0.                             *)
LEMMA LckUndone ==
  ASSUME NEW c, NEW paused, NEW D, Lcking(c, paused, D), NEW keys \in SUBSET (Nat \X Nat)
  PROVE  Lcking(Iq!Undone(c, keys), paused, (D \cup keys) \ (keys \cap Iq!AtRest(c)))
<1>1. Lcking(Iq!Dirtied(c, keys), paused, D \cup keys)
  BY LckDirtied
<1>2. Iq!Undone(c, keys) = [Iq!Dirtied(c, keys) EXCEPT !.dirty = @ \ (keys \cap Iq!AtRest(c))]
  BY DEF Iq!Undone
<1> QED
  BY <1>1, <1>2 DEF Lcking, Everywhere

(* rtw8812a_do_lck leaves no register dirty but a TXPAUSE that was not 0.  *)
LEMMA LckOfClean ==
  ASSUME NEW paused \in BOOLEAN, NEW cont_tx \in BOOLEAN,
         NEW c \in Everywhere, c.page = 0, c.saved = {}, c.dirty = {}, c.paused = paused
  PROVE  Lcking(Iq!LckOf(c, cont_tx), paused, IF paused THEN TxPause ELSE {})
<1> DEFINE Channel == Iq!RfKeys("A", {\h18})
           Lock == Iq!RfKeys("A", {\hb4})
           c1 == Iq!SaveRf(c, "A", {\h18})
           c2 == IF cont_tx THEN c1 ELSE Iq!Write(c1, {\h520})
           c3 == Iq!Rf(c2, "A", {\hb4, \h18})
           c4 == Iq!RestoreRf(c3, "A", {\h18})
           c5 == Iq!ClearRf(c4, "A", {\hb4})
           c6 == IF cont_tx THEN c5 ELSE Iq!Clear(c5, {\h520})
           Pause == IF cont_tx THEN {} ELSE TxPause
<1>1. /\ Channel = {<<10, \h18>>} /\ Lock = {<<10, \hb4>>} /\ TxPause = {<<0, \h520>>}
      /\ Iq!RfKeys("A", {\hb4, \h18}) = Channel \cup Lock
  BY DEF Iq!RfKeys, TxPause
<1>2. ASSUME NEW d, d.page = 0 PROVE Iq!Keys(d, {\h520}) = TxPause
  BY <1>2 DEF Iq!Keys, Iq!Key, TxPause
<1>3. /\ Channel \in SUBSET (Nat \X Nat) /\ Lock \in SUBSET (Nat \X Nat)
      /\ TxPause \in SUBSET (Nat \X Nat) /\ Channel \cup Lock \in SUBSET (Nat \X Nat)
  BY <1>1
<1>4. Lcking(c1, paused, {})
  <2>1. c1 = [c EXCEPT !.saved = Channel]
    BY DEF Iq!SaveRf, Iq!SetAside
  <2> QED
    BY <1>3, <2>1 DEF Lcking, Everywhere
<1> HIDE DEF Channel, Lock, c1
<1>5. Lcking(c2, paused, Pause)
  <2>1. CASE cont_tx
    BY <1>4, <2>1
  <2>2. CASE ~cont_tx
    <3>1. c2 = Iq!Dirtied(c1, TxPause)
      BY <1>2, <1>4, <2>2 DEF Iq!Write, Lcking
    <3>2. Pause = {} \cup TxPause
      BY <2>2
    <3> QED
      BY <1>3, <1>4, <3>1, <3>2, LckDirtied
  <2> QED
    BY <2>1, <2>2
<1> HIDE DEF c2
<1>6. Lcking(c3, paused, Pause \cup (Channel \cup Lock))
  <2>1. c2.page = 0 /\ Iq!RfKeys("A", {\hb4, \h18}) = Channel \cup Lock
    BY <1>1, <1>5 DEF Lcking
  <2>2. c3 = Iq!Dirtied(c2, Channel \cup Lock)
    BY <2>1, Zenon DEF Iq!Rf
  <2> QED
    BY <1>3, <1>5, <2>2, LckDirtied
<1> HIDE DEF c3
<1>7. Lcking(c4, paused, (Pause \cup (Channel \cup Lock)) \ Channel)
  BY <1>6, LckRestored DEF Channel
<1> HIDE DEF c4
<1>8. Lcking(c5, paused, Pause)
  <2>1. c5 = Iq!Undone(c4, Lock)
    BY <1>7 DEF Iq!ClearRf, Lcking, Lock
  <2>2. Lock \cap Iq!AtRest(c4) = Lock
    BY DEF Iq!AtRest, Lock
  <2>3. Lcking(c5, paused, (((Pause \cup (Channel \cup Lock)) \ Channel) \cup Lock) \ Lock)
    BY <1>3, <1>7, <2>1, <2>2, LckUndone
  <2>4. (((Pause \cup (Channel \cup Lock)) \ Channel) \cup Lock) \ Lock \subseteq Pause
    OBVIOUS
  <2> QED
    BY <2>3, <2>4 DEF Lcking
<1> HIDE DEF c5
<1>9. Lcking(c6, paused, IF paused THEN TxPause ELSE {})
  <2>1. CASE cont_tx
    BY <1>8, <2>1 DEF Lcking
  <2>2. CASE ~cont_tx
    <3>1. c6 = Iq!Undone(c5, TxPause)
      BY <1>2, <1>8, <2>2 DEF Iq!Clear, Lcking
    <3>2. Lcking(c6, paused, (Pause \cup TxPause) \ (TxPause \cap Iq!AtRest(c5)))
      BY <1>3, <1>8, <3>1, LckUndone
    <3>3. ~paused => TxPause \cap Iq!AtRest(c5) = TxPause
      BY <1>1, <1>8 DEF Iq!AtRest, Lcking
    <3> QED
      BY <3>2, <3>3, <2>2 DEF Lcking
  <2> QED
    BY <2>1, <2>2
<1> HIDE DEF c6
<1>10. Iq!LckOf(c, cont_tx) = Iq!RestoreRf(c6, "A", {\h18})
  BY DEF Iq!LckOf, c1, c2, c3, c4, c5, c6
<1>11. Lcking(Iq!RestoreRf(c6, "A", {\h18}), paused, (IF paused THEN TxPause ELSE {}) \ Channel)
  BY <1>9, LckRestored DEF Channel
<1> QED
  BY <1>10, <1>11 DEF Lcking

LEMMA LckChip ==
  ASSUME ChipKept, Iq!Lck
  PROVE  ChipKept'
<1>1. chip \in Everywhere /\ chip.page = 0 /\ chip.saved = {}
  BY DEF ChipKept, Iq!Lck
<1>2. PICK paused \in BOOLEAN, cont_tx \in BOOLEAN :
        chip' = [Iq!LckOf(Iq!Before(paused), cont_tx) EXCEPT !.saved = {}]
  BY DEF Iq!Lck
<1>3. /\ Iq!Before(paused) \in Everywhere /\ Iq!Before(paused).page = 0
      /\ Iq!Before(paused).saved = {} /\ Iq!Before(paused).dirty = {}
      /\ Iq!Before(paused).paused = paused
  BY <1>1 DEF Iq!Before, Everywhere
<1>4. Lcking(Iq!LckOf(Iq!Before(paused), cont_tx), paused, IF paused THEN TxPause ELSE {})
  BY <1>3, LckOfClean
<1>5. /\ chip' \in Everywhere /\ chip'.page = 0 /\ chip'.saved = {} /\ chip'.paused = paused
      /\ chip'.dirty \subseteq (IF paused THEN TxPause ELSE {})
  BY <1>2, <1>4 DEF Lcking, Everywhere
<1>6. iqk_pc' = "idle"
  BY DEF Iq!Lck
<1> QED
  BY <1>5, <1>6 DEF ChipKept

(* A calibration starts on page 0, with all clean.                         *)
LEMMA BeginChip ==
  ASSUME ChipKept, Iq!Begin
  PROVE  ChipKept'
<1> DEFINE c == Iq!Before(FALSE)
<1>1. Clean(c, 0, {})
  BY DEF ChipKept, Iq!Begin, Iq!Before, Clean, Everywhere
<1> HIDE DEF c
<1>2. At(Iq!Backup(c), 0, PutAside)
  BY <1>1, BackupAt
<1>3. At(Iq!OneShot(Iq!TxSetup(Iq!ConfigureMac(Iq!Backup(c)))), 1, PutAside)
  BY <1>2, ConfigureMacAt, TxSetupAt, OneShotAt
<1>4. chip' = Iq!OneShot(Iq!TxSetup(Iq!ConfigureMac(Iq!Backup(c)))) /\ iqk_pc' = "tx"
  BY DEF Iq!Begin, c
<1> QED
  BY <1>3, <1>4 DEF ChipKept

(* The measurements of the senders, and the change to the receivers.       *)
LEMMA TxShotChip ==
  ASSUME ChipKept, Iq!TxShot
  PROVE  ChipKept'
<1>1. At(chip, 1, PutAside) /\ iqk_pc = "tx"
  BY DEF ChipKept, Iq!TxShot
<1>2. \/ chip' = chip /\ iqk_pc' = iqk_pc
      \/ \E done : chip' = Iq!RxOneShot(Iq!RxSetup(chip, done), done) /\ iqk_pc' = "rx"
  BY DEF Iq!TxShot, Iq!AfterTx
<1>3. ASSUME NEW done
      PROVE  \E p \in {0, 1} : At(Iq!RxOneShot(Iq!RxSetup(chip, done), done), p, PutAside)
  BY <1>1, RxSetupAt, RxOneShotAt
<1> QED
  BY <1>1, <1>2, <1>3 DEF ChipKept

(* The measurements of the receivers, and the end.                         *)
LEMMA RxShotChip ==
  ASSUME ChipKept, Iq!RxShot
  PROVE  ChipKept'
<1>1. (\E p \in {0, 1} : At(chip, p, PutAside)) /\ iqk_pc = "rx"
  BY DEF ChipKept, Iq!RxShot
<1>2. \/ chip' = chip /\ iqk_pc' = iqk_pc
      \/ chip' = [Iq!PutBack(Iq!Filling(chip)) EXCEPT !.saved = {}] /\ iqk_pc' = "idle"
  BY DEF Iq!RxShot, Iq!AfterRx
<1>3. At(Iq!PutBack(Iq!Filling(chip)), 0, {})
  BY <1>1, FillingAt, PutBackAt
<1> QED
  BY <1>1, <1>2, <1>3 DEF ChipKept, At, Everywhere

----------------------------------------------------------------------------
(* rtw88xxa_iqk_finish takes the mean of two measurements that agree.      *)
Mean(m, n) == <<Iq!Half(m[1] + n[1]), Iq!Half(m[2] + n[2])>>
Twice(ms, result) ==
  \E m, n \in Iq!Range(ms) : Iq!Agree(m, n) /\ result = {Mean(m, n)}

(* The first partner of a measurement exists,                              *)
LEMMA LeastOf ==
  ASSUME NEW S \in SUBSET Nat, S # {}
  PROVE  Iq!Min(S) \in S
  BY LeastOne DEF Iq!Min

(* and the last measurement that has one.                                  *)
LEMMA GreatestOf ==
  ASSUME NEW n \in Nat, NEW S \in SUBSET (1..n), S # {}
  PROVE  Iq!Max(S) \in S
<1> DEFINE B == {b \in Nat : \A y \in S : y <= b}
<1>1. n \in B
  OBVIOUS
<1>2. B \subseteq Nat /\ B # {}
  BY <1>1
<1>3. PICK x \in B : \A y \in B : x <= y
  BY <1>2, LeastOne
<1>4. x \in S
  <2>1. SUFFICES ASSUME x \notin S PROVE FALSE
    OBVIOUS
  <2>2. \A y \in S : y <= x - 1
    BY <2>1, <1>3
  <2>3. PICK y \in S : y \in 1..n
    OBVIOUS
  <2>4. x - 1 \in Nat
    BY <2>2, <2>3
  <2>5. x - 1 \in B
    BY <2>2, <2>4
  <2> QED
    BY <2>4, <2>5, <1>3
<1>5. \E z \in S : \A y \in S : z >= y
  BY <1>3, <1>4
<1> QED
  BY <1>5 DEF Iq!Max

(* Finish finds the mean of two that agree, or nothing.                    *)
LEMMA FinishIs ==
  ASSUME NEW ms \in Seq(Iq!Measures), NEW inner \in BOOLEAN
  PROVE  Iq!Finish(ms, inner) = {} \/ Twice(ms, Iq!Finish(ms, inner))
<1> DEFINE P == Iq!Pairs(ms)
           I == {p[1] : p \in P}
           i == Iq!Max(I)
           J == {p[2] : p \in {q \in P : q[1] = i}}
           j == IF inner THEN Iq!Min(J) ELSE Iq!Max(J)
<1> SUFFICES ASSUME P # {} PROVE Twice(ms, Iq!Finish(ms, inner))
  BY DEF Iq!Finish
<1>1. Len(ms) \in Nat /\ DOMAIN ms = 1..Len(ms)
  OBVIOUS
<1>2. \A p \in P : p[1] \in 1..Len(ms) /\ p[2] \in 1..Len(ms)
                   /\ p = <<p[1], p[2]>> /\ Iq!Agree(ms[p[1]], ms[p[2]])
  BY <1>1 DEF Iq!Pairs
<1> HIDE DEF P
<1>3. i \in I
  <2>1. I \in SUBSET (1..Len(ms)) /\ I # {}
    BY <1>2
  <2> HIDE DEF I
  <2> QED
    BY <1>1, <2>1, GreatestOf
<1> HIDE DEF i
<1>4. J # {} /\ J \in SUBSET (1..Len(ms)) /\ J \in SUBSET Nat
  BY <1>2, <1>3
<1>5. j \in J
  BY <1>1, <1>4, GreatestOf, LeastOf
<1> HIDE DEF j
<1>6. i \in 1..Len(ms) /\ j \in 1..Len(ms) /\ Iq!Agree(ms[i], ms[j])
  BY <1>2, <1>5
<1>7. Iq!Finish(ms, inner) = {Mean(ms[i], ms[j])}
  BY DEF Iq!Finish, Mean, P, i, j
<1>8. ms[i] \in Iq!Range(ms) /\ ms[j] \in Iq!Range(ms)
  BY <1>1, <1>6 DEF Iq!Range
<1> QED
  BY <1>6, <1>7, <1>8 DEF Twice

(* A stage of a path: the measurements, and that what is finished is the   *)
(* mean of two of them.  Of n tries, those that failed and those that did  *)
(* not, none is left.                                                      *)
Bases == {<<512, 0>>} \cup {q[p] : q \in RxBases, p \in Iq!Paths}
Stages ==
  [ms : Seq(Iq!Measures), retry : Nat, finish : SUBSET (Int \X Int), base : Int \X Int]
Kept(c, n) ==
  /\ c \in Stages /\ c.base \in Bases /\ c.retry + Len(c.ms) <= n
  /\ c.finish # {} => Twice(c.ms, c.finish)

(* What paths measure about.                                               *)
LEMMA BasesAre ==
  Bases \subseteq Int \X Int
<1>1. \A q \in RxBases, p \in Iq!Paths : q[p] \in Int \X Int
  BY CalibrationAssumption
<1> QED
  BY <1>1 DEF Bases

(* A stage starts with nothing measured.                                   *)
LEMMA StartKept ==
  ASSUME NEW base \in Bases, NEW n \in Nat
  PROVE  Kept(Iq!Start(base), n)
<1>1. base \in Int \X Int
  BY BasesAre
<1>2. <<>> \in Seq(Iq!Measures) /\ Len(<<>>) = 0
  OBVIOUS
<1> QED
  BY <1>1, <1>2 DEF Kept, Iq!Start, Stages

(* A retry uses one of the tries.                                          *)
LEMMA RetriedKept ==
  ASSUME NEW c, Kept(c, 9)
  PROVE  Kept(Iq!Retried(c), 10) /\ Iq!Retried(c).ms = c.ms /\ Iq!Retried(c).finish = c.finish
<1>1. c \in Stages /\ Len(c.ms) \in Nat /\ c.retry \in Nat
  BY DEF Kept, Stages
<1>2. /\ Iq!Retried(c) \in Stages /\ Iq!Retried(c).ms = c.ms /\ Iq!Retried(c).retry = c.retry + 1
      /\ Iq!Retried(c).finish = c.finish /\ Iq!Retried(c).base = c.base
  BY <1>1 DEF Iq!Retried, Stages
<1> QED
  BY <1>1, <1>2 DEF Kept

(* So does a measurement, which is appended only if nothing is finished.   *)
LEMMA MeasuredKept ==
  ASSUME NEW c, Kept(c, 9), NEW measures \in BOOLEAN,
         NEW d \in Iq!Measured(c, measures)
  PROVE  Kept(d, 10) /\ (~measures => d.ms = c.ms /\ d.finish = c.finish)
<1>1. CASE ~(measures /\ c.finish = {})
  BY <1>1, RetriedKept DEF Iq!Measured
<1>2. CASE measures /\ c.finish = {}
  <2>1. PICK m \in Iq!Values(c) : d = [c EXCEPT !.ms = Append(@, m)]
    BY <1>2 DEF Iq!Measured
  <2>2. c \in Stages /\ Len(c.ms) \in 0..9 /\ c.retry \in Nat /\ c.base \in Bases
    <3>1. c \in Stages /\ Len(c.ms) \in Nat /\ c.retry \in Nat /\ c.base \in Bases
      BY DEF Kept, Stages
    <3>2. c.retry + Len(c.ms) <= 9
      BY DEF Kept
    <3>3. \A x, y \in Nat : x + y <= 9 => y \in 0..9
      OBVIOUS
    <3>4. Len(c.ms) \in 0..9
      BY <3>1, <3>2, <3>3
    <3> QED
      BY <3>1, <3>4
  <2>3. m \in Iq!Measures
    <3>1. PICK o \in Offsets[Len(c.ms)] : m = <<c.base[1] + o[1], c.base[2] + o[2]>>
      BY <2>1 DEF Iq!Values
    <3>2. \A b \in Bases, k \in 0..9 :
            \A q \in Offsets[k] : <<b[1] + q[1], b[2] + q[2]>> \in Iq!Measures
      BY CalibrationAssumption DEF Bases
    <3> QED
      BY <2>2, <3>1, <3>2
  <2>4. Append(c.ms, m) \in Seq(Iq!Measures) /\ Len(Append(c.ms, m)) = Len(c.ms) + 1
    BY <2>2, <2>3 DEF Stages
  <2>5. /\ d \in Stages /\ d.retry = c.retry /\ d.base = c.base /\ d.finish = c.finish
        /\ d.ms = Append(c.ms, m)
    BY <2>1, <2>2, <2>4 DEF Stages
  <2> QED
    BY <1>2, <2>2, <2>4, <2>5 DEF Kept
<1> QED
  BY <1>1, <1>2

(* Means are integers, for one number                                      *)
LEMMA HalfIsInt ==
  ASSUME NEW n \in Int
  PROVE  Iq!Half(n) \in Int
  BY DEF Iq!Half

(* (the two that agree are measurements)                                   *)
LEMMA TwiceIs ==
  ASSUME NEW ms \in Seq(Iq!Measures), NEW result, Twice(ms, result)
  PROVE  \E m, n \in Iq!Measures :
           m \in Iq!Range(ms) /\ n \in Iq!Range(ms) /\ Iq!Agree(m, n) /\ result = {Mean(m, n)}
<1>1. Iq!Range(ms) \subseteq Iq!Measures
  BY DEF Iq!Range
<1> QED
  BY <1>1 DEF Twice

(* and for both.                                                           *)
LEMMA MeanIs ==
  ASSUME NEW m \in Iq!Measures, NEW n \in Iq!Measures
  PROVE  Mean(m, n) \in Int \X Int
<1>1. m[1] + n[1] \in Int /\ m[2] + n[2] \in Int
  <2>1. m[1] \in Iq!Word /\ m[2] \in Iq!Word /\ n[1] \in Iq!Word /\ n[2] \in Iq!Word
    BY DEF Iq!Measures
  <2>2. \A w \in Iq!Word : w \in Int
    BY DEF Iq!Word
  <2> QED
    BY <2>1, <2>2
<1> QED
  BY <1>1, HalfIsInt DEF Mean

(* The evaluation changes nothing but the result.                          *)
LEMMA EvaluatedKept ==
  ASSUME NEW c, Kept(c, 10), NEW inner \in BOOLEAN
  PROVE  /\ Kept(Iq!Evaluated(c, inner), 10)
         /\ Iq!Evaluated(c, inner).ms = c.ms /\ Iq!Evaluated(c, inner).retry = c.retry
         /\ Len(c.ms) < 2 => Iq!Evaluated(c, inner).finish = c.finish
<1> DEFINE f == IF Len(c.ms) >= 2 THEN Iq!Finish(c.ms, inner) ELSE c.finish
<1>1. c \in Stages /\ Len(c.ms) \in Nat
  BY DEF Kept, Stages
<1>2. f = {} \/ Twice(c.ms, f)
  BY <1>1, FinishIs DEF Kept, Stages
<1>3. f \in SUBSET (Int \X Int)
  <2>1. CASE f = {}
    BY <2>1
  <2>2. CASE Twice(c.ms, f)
    <3> HIDE DEF f
    <3>1. c.ms \in Seq(Iq!Measures)
      BY <1>1 DEF Stages
    <3>2. PICK m, n \in Iq!Measures : f = {Mean(m, n)}
      BY <2>2, <3>1, TwiceIs
    <3> QED
      BY <3>2, MeanIs
  <2> QED
    BY <1>2, <2>1, <2>2
<1>4. Iq!Evaluated(c, inner) = [c EXCEPT !.finish = f]
  BY DEF Iq!Evaluated
<1>5. Len(c.ms) < 2 => f = c.finish
  BY <1>1
<1> HIDE DEF f
<1>6. /\ Iq!Evaluated(c, inner) \in Stages /\ Iq!Evaluated(c, inner).finish = f
      /\ Iq!Evaluated(c, inner).ms = c.ms /\ Iq!Evaluated(c, inner).retry = c.retry
      /\ Iq!Evaluated(c, inner).base = c.base
  BY <1>1, <1>3, <1>4 DEF Stages
<1> QED
  BY <1>2, <1>5, <1>6 DEF Kept

(* A round leaves a path that is not measured as it was.                   *)
Follows(c, d, n, measured) ==
  Kept(d, n) /\ (measured \/ (c.ms = <<>> /\ c.finish = {} => d.ms = <<>> /\ d.finish = {}))

(* A path that is measured or retried,                                     *)
LEMMA TriedFollows ==
  ASSUME NEW p \in Iq!Paths, Kept(cal[p], 9), NEW todo, NEW d \in Iq!Tried(p, todo)
  PROVE  Follows(cal[p], d, 10, p \in todo)
<1>1. PICK ok \in BOOLEAN : d \in Iq!Measured(cal[p], ok /\ p \in todo)
  BY DEF Iq!Tried
<1>2. Kept(d, 10) /\ (~(ok /\ p \in todo) => d.ms = cal[p].ms /\ d.finish = cal[p].finish)
  BY <1>1, MeasuredKept
<1> QED
  BY <1>2 DEF Follows

(* one that is retried,                                                    *)
LEMMA RetriedFollows ==
  ASSUME NEW c, Kept(c, 9), NEW measured
  PROVE  Follows(c, Iq!Retried(c), 10, measured)
  BY RetriedKept DEF Follows

(* one that is evaluated,                                                  *)
LEMMA EvaluatedFollows ==
  ASSUME NEW c, NEW d, NEW measured, Follows(c, d, 10, measured), NEW inner \in BOOLEAN
  PROVE  Follows(c, Iq!Evaluated(d, inner), 10, measured)
<1>1. Kept(d, 10)
  BY DEF Follows
<1>2. /\ Kept(Iq!Evaluated(d, inner), 10) /\ Iq!Evaluated(d, inner).ms = d.ms
      /\ Len(d.ms) < 2 => Iq!Evaluated(d, inner).finish = d.finish
  BY <1>1, EvaluatedKept
<1>3. d.ms = <<>> => Len(d.ms) < 2
  OBVIOUS
<1> QED
  BY <1>2, <1>3 DEF Follows

(* and all of it together, wherever the round ends.                        *)
LEMMA RoundFollows ==
  ASSUME \A p \in Iq!Paths : Kept(cal[p], 9), NEW now, NEW todo,
         NEW inner \in BOOLEAN, NEW res \in Iq!Round(now, todo, inner)
  PROVE  \A p \in Iq!Paths : Follows(cal[p], res[p], 10, p \in todo)
<1>1. Kept(cal["A"], 9) /\ Kept(cal["B"], 9) /\ Iq!Paths = {"A", "B"}
  BY DEF Iq!Paths
<1>2. \E a, b : /\ Follows(cal["A"], a, 10, "A" \in todo)
                /\ Follows(cal["B"], b, 10, "B" \in todo)
                /\ res \in {Iq!Ended(a, cal["B"]), Iq!Ended(a, b), Iq!Judged(a, b, inner)}
  <2>1. CASE \A p \in Iq!Paths : now[p]
    <3>1. PICK a \in Iq!Tried("A", todo), b \in Iq!Tried("B", todo) : res = Iq!AllReady(a, b, inner)
      BY <2>1 DEF Iq!Round
    <3>2. Follows(cal["A"], a, 10, "A" \in todo) /\ Follows(cal["B"], b, 10, "B" \in todo)
      BY <1>1, TriedFollows
    <3>3. res \in {Iq!Ended(a, cal["B"]), Iq!Ended(a, b), Iq!Judged(a, b, inner)}
      <4>1. CASE a.retry = 10
        BY <3>1, <4>1 DEF Iq!AllReady
      <4>2. CASE a.retry # 10 /\ a.retry < 10 /\ b.retry = 10
        BY <3>1, <4>2 DEF Iq!AllReady
      <4>3. CASE a.retry # 10 /\ ~(a.retry < 10 /\ b.retry = 10)
        BY <3>1, <4>3 DEF Iq!AllReady
      <4> QED
        BY <4>1, <4>2, <4>3
    <3> QED
      BY <3>2, <3>3
  <2>2. CASE ~(\A p \in Iq!Paths : now[p])
    <3>1. res = Iq!NotReady(Iq!Retried(cal["A"]), Iq!Retried(cal["B"]), inner)
      BY <2>2 DEF Iq!Round
    <3>2. /\ Follows(cal["A"], Iq!Retried(cal["A"]), 10, "A" \in todo)
          /\ Follows(cal["B"], Iq!Retried(cal["B"]), 10, "B" \in todo)
      BY <1>1, RetriedFollows
    <3> QED
      BY <3>1, <3>2 DEF Iq!NotReady
  <2> QED
    BY <2>1, <2>2
<1>3. PICK a, b : /\ Follows(cal["A"], a, 10, "A" \in todo)
                  /\ Follows(cal["B"], b, 10, "B" \in todo)
                  /\ res \in {Iq!Ended(a, cal["B"]), Iq!Ended(a, b), Iq!Judged(a, b, inner)}
  BY <1>2
<1>4. Follows(cal["B"], cal["B"], 10, "B" \in todo)
  BY <1>1 DEF Follows, Kept, Stages
<1>5. /\ Follows(cal["A"], Iq!Evaluated(a, inner), 10, "A" \in todo)
      /\ Follows(cal["B"], Iq!Evaluated(b, inner), 10, "B" \in todo)
  BY <1>3, EvaluatedFollows
<1>6. Follows(cal["A"], res["A"], 10, "A" \in todo) /\ Follows(cal["B"], res["B"], 10, "B" \in todo)
  BY <1>3, <1>4, <1>5 DEF Iq!Ended, Iq!Judged
<1> QED
  BY <1>1, <1>6

----------------------------------------------------------------------------
(* What holds of the measurements between two steps.                       *)
CalKept ==
  /\ \A p \in Iq!Paths : Kept(cal[p], 10)
  /\ iqk_pc # "idle" => filled = <<>> /\ \A p \in Iq!Paths : Kept(cal[p], 9)
  /\ iqk_pc = "rx" => \A p \in Iq!Paths \ Iq!Done : cal[p].ms = <<>> /\ cal[p].finish = {}
  /\ Iq!FilledSoundly

(* A path that has tries left.                                             *)
LEMMA NotSpent ==
  ASSUME NEW c, Kept(c, 10), ~Iq!Spent(c)
  PROVE  Kept(c, 9)
<1>1. c.retry \in Nat /\ Len(c.ms) \in Nat
  BY DEF Kept, Stages
<1>2. c.retry + Len(c.ms) <= 9
  BY <1>1 DEF Iq!Spent
<1> QED
  BY <1>2 DEF Kept

(* What was filled in stays as sound as it was.                            *)
LEMMA StillSound ==
  ASSUME cal' = cal, tx' = tx, filled' = filled
  PROVE  Iq!Done' = Iq!Done /\ (Iq!FilledSoundly => Iq!FilledSoundly')
<1>1. Iq!Done' = Iq!Done
  BY DEF Iq!Done
<1>2. ASSUME Iq!FilledSoundly PROVE Iq!FilledSoundly'
  <2> SUFFICES ASSUME filled' # <<>>, NEW p \in Iq!Paths
               PROVE  /\ tx'[p] = {} => filled'[p] = [tx |-> <<512, 0>>, rx |-> <<256, 0>>]
                      /\ filled'[p].rx # <<256, 0>> =>
                           \E m, n \in Iq!Range(cal'[p].ms) :
                             Iq!Agree(m, n) /\ Iq!Near(2 * filled'[p].rx[1], m[1])
                      /\ filled'[p].rx[1] < \h112 /\ filled'[p].rx[2] \notin \h12..\h1ff
    BY DEF Iq!FilledSoundly
  <2>1. /\ tx[p] = {} => filled[p] = [tx |-> <<512, 0>>, rx |-> <<256, 0>>]
        /\ filled[p].rx # <<256, 0>> =>
             \E m, n \in Iq!Range(cal[p].ms) : Iq!Agree(m, n) /\ Iq!Near(2 * filled[p].rx[1], m[1])
        /\ filled[p].rx[1] < \h112 /\ filled[p].rx[2] \notin \h12..\h1ff
    BY <1>2 DEF Iq!FilledSoundly
  <2>2. tx'[p] = tx[p] /\ filled'[p] = filled[p] /\ cal'[p] = cal[p]
    OBVIOUS
  <2> QED
    BY <2>1, <2>2
<1> QED
  BY <1>1, <1>2

(* The oscillator's calibration measures nothing here.                     *)
LEMMA LckCal ==
  ASSUME CalKept, Iq!Lck
  PROVE  CalKept'
<1>1. cal' = cal /\ tx' = tx /\ filled' = filled /\ iqk_pc' = iqk_pc
  BY DEF Iq!Lck
<1>2. Iq!Done' = Iq!Done /\ (Iq!FilledSoundly => Iq!FilledSoundly')
  BY <1>1, StillSound
<1> QED
  BY <1>1, <1>2 DEF CalKept

(* A calibration starts with nothing measured or filled in.                *)
LEMMA BeginCal ==
  ASSUME CalKept, Iq!Begin
  PROVE  CalKept'
<1>1. <<512, 0>> \in Bases
  BY DEF Bases
<1>2. Kept(Iq!Start(<<512, 0>>), 10) /\ Kept(Iq!Start(<<512, 0>>), 9)
  BY <1>1, StartKept
<1>3. \A p \in Iq!Paths : cal'[p] = Iq!Start(<<512, 0>>)
  BY DEF Iq!Begin
<1>4. iqk_pc' = "tx" /\ filled' = <<>>
  BY DEF Iq!Begin
<1> QED
  BY <1>2, <1>3, <1>4 DEF CalKept, Iq!FilledSoundly

(* The senders: the results are handed over, and both paths start again.   *)
LEMMA TxShotCal ==
  ASSUME CalKept, Iq!TxShot
  PROVE  CalKept'
<1>1. PICK res \in Iq!Round(ready', Iq!Paths, FALSE) : Iq!AfterTx(res)
  BY DEF Iq!TxShot
<1>2. iqk_pc = "tx" /\ filled' = filled /\ filled = <<>>
  BY DEF Iq!TxShot, CalKept
<1>3. \A p \in Iq!Paths : Kept(cal[p], 9)
  BY <1>2 DEF CalKept
<1>4. \A p \in Iq!Paths : Kept(res[p], 10)
  BY <1>1, <1>3, RoundFollows DEF Follows
<1>5. CASE Iq!Keep(res) /\ UNCHANGED <<iqk_pc, tx, chip>> /\ ~Iq!Spent(res.A) /\ ~Iq!Spent(res.B)
  <2>1. \A p \in Iq!Paths : cal'[p] = res[p] /\ Kept(res[p], 9)
    BY <1>4, <1>5, NotSpent DEF Iq!Keep, Iq!Paths
  <2> QED
    BY <1>2, <1>4, <1>5, <2>1 DEF CalKept, Iq!FilledSoundly
<1>6. CASE /\ tx' = [p \in Iq!Paths |-> res[p].finish] /\ iqk_pc' = "rx"
           /\ \E base \in RxBases : cal' = [p \in Iq!Paths |-> Iq!Start(base[p])]
  <2>1. PICK base \in RxBases : cal' = [p \in Iq!Paths |-> Iq!Start(base[p])]
    BY <1>6
  <2>2. \A p \in Iq!Paths : cal'[p] = Iq!Start(base[p]) /\ base[p] \in Bases
    BY <2>1 DEF Bases
  <2>3. \A p \in Iq!Paths : Kept(cal'[p], 10) /\ Kept(cal'[p], 9)
    BY <2>2, StartKept
  <2>4. \A p \in Iq!Paths : cal'[p].ms = <<>> /\ cal'[p].finish = {}
    <3>1. \A b : Iq!Start(b).ms = <<>> /\ Iq!Start(b).finish = {}
      BY DEF Iq!Start
    <3> QED
      BY <2>2, <3>1
  <2> QED
    BY <1>2, <1>6, <2>3, <2>4 DEF CalKept, Iq!FilledSoundly
<1> QED
  BY <1>1, <1>5, <1>6 DEF Iq!AfterTx

(* Without a result, the receiver's correction is neutral.                 *)
LEMMA NeutralIs ==
  Iq!RxIqc(<<512, 0>>) = <<256, 0>>
  BY DEF Iq!RxIqc

(* With one, it is near the measurements or neutral, and never far off.    *)
LEMMA IqcIs ==
  ASSUME NEW m \in Iq!Measures, NEW n \in Iq!Measures, Iq!Agree(m, n),
         NEW of, of = Iq!RxIqc(Mean(m, n))
  PROVE  /\ of # <<256, 0>> => Iq!Near(2 * of[1], m[1])
         /\ of[1] < \h112 /\ of[2] \notin \h12..\h1ff
<1> DEFINE x == Iq!Half(m[1] + n[1])
           y == Iq!Half(m[2] + n[2])
<1>1. m[1] \in Iq!Word /\ m[2] \in Iq!Word /\ n[1] \in Iq!Word /\ n[2] \in Iq!Word
  BY DEF Iq!Measures
<1>2. /\ m[1] \in Int /\ m[2] \in Int /\ n[1] \in Int /\ n[2] \in Int
      /\ -1024 <= m[2] /\ m[2] <= 1023 /\ -1024 <= n[2] /\ n[2] <= 1023
  <2>1. \A w \in Iq!Word : w \in Int /\ -1024 <= w /\ w <= 1023
    BY DEF Iq!Word
  <2> QED
    BY <1>1, <2>1
<1>3. m[1] - n[1] \in -3..3
  BY DEF Iq!Agree, Iq!Near
<1>4. x \in Int /\ y \in Int
  BY <1>2, HalfIsInt
<1>5. -1024 <= y /\ y <= 1023
  BY <1>2 DEF Iq!Half
<1>6. x >= 0 => 2 * (x \div 2) - m[1] \in -3..3
  <2>1. \A a, b \in Int : a - b \in -3..3 /\ Iq!Half(a + b) >= 0 =>
          2 * (Iq!Half(a + b) \div 2) - a \in -3..3
    <3> SUFFICES ASSUME NEW a \in Int, NEW b \in Int, a - b \in -3..3, Iq!Half(a + b) >= 0
                 PROVE  2 * (Iq!Half(a + b) \div 2) - a \in -3..3
      OBVIOUS
    <3>1. CASE a + b >= 0
      <4>1. Iq!Half(a + b) = (a + b) \div 2
        BY <3>1 DEF Iq!Half
      <4> QED
        BY <4>1
    <3>2. CASE a + b < 0
      <4>1. Iq!Half(a + b) = -((-(a + b)) \div 2)
        BY <3>2 DEF Iq!Half
      <4>2. a + b = -1
        BY <3>2, <4>1
      <4>3. Iq!Half(a + b) = 0
        BY <4>1, <4>2
      <4>4. a \in {-2, -1, 0, 1}
        BY <4>2
      <4> QED
        BY <4>3, <4>4
    <3> QED
      BY <3>1, <3>2
  <2> QED
    BY <1>2, <1>3, <2>1
<1>7. Mean(m, n)[1] = x /\ Mean(m, n)[2] = y
  BY DEF Mean
<1> HIDE DEF x, y
<1>8. CASE x < 0 \/ x \div 2 >= \h112 \/ (y >= 0 /\ y \div 2 \in \h12..\h3ee)
  <2>1. of = <<256, 0>>
    BY <1>7, <1>8 DEF Iq!RxIqc
  <2> QED
    BY <2>1
<1>9. CASE ~(x < 0 \/ x \div 2 >= \h112 \/ (y >= 0 /\ y \div 2 \in \h12..\h3ee))
  <2>1. of = <<x \div 2, (y \div 2) % 1024>>
    BY <1>7, <1>9 DEF Iq!RxIqc
  <2>2. (y \div 2) % 1024 \notin \h12..\h1ff
    BY <1>4, <1>5, <1>9
  <2> QED
    BY <1>4, <1>6, <1>9, <2>1, <2>2 DEF Iq!Near
<1> QED
  BY <1>8, <1>9

(* The receivers: what is filled in rests on what was just measured.       *)
LEMMA RxShotCal ==
  ASSUME CalKept, Iq!RxShot
  PROVE  CalKept'
<1>1. PICK res \in Iq!Round(ready', Iq!Done, TRUE) : Iq!AfterRx(res)
  BY DEF Iq!RxShot
<1>2. iqk_pc = "rx" /\ tx' = tx /\ filled = <<>> /\ Iq!Done' = Iq!Done
  BY DEF Iq!RxShot, CalKept, Iq!Done
<1>3. \A p \in Iq!Paths : Kept(cal[p], 9)
  BY <1>2 DEF CalKept
<1>4. \A p \in Iq!Paths : Follows(cal[p], res[p], 10, p \in Iq!Done)
  BY <1>1, <1>3, RoundFollows DEF CalKept
<1>5. \A p \in Iq!Paths : Kept(res[p], 10)
  BY <1>4 DEF Follows
<1>6. \A p \in Iq!Paths \ Iq!Done : res[p].ms = <<>> /\ res[p].finish = {}
  BY <1>2, <1>4 DEF Follows, CalKept
<1>7. \A p \in Iq!Paths : cal'[p] = res[p]
  BY <1>1 DEF Iq!AfterRx, Iq!Keep
<1>8. CASE UNCHANGED <<iqk_pc, filled, chip>> /\ ~Iq!Spent(res.A) /\ ~Iq!Spent(res.B)
  <2>1. \A p \in Iq!Paths : Kept(res[p], 9)
    BY <1>5, <1>8, NotSpent DEF Iq!Paths
  <2>2. filled' = <<>> /\ iqk_pc' = "rx"
    BY <1>2, <1>8
  <2> QED
    BY <1>2, <1>5, <1>6, <1>7, <2>1, <2>2 DEF CalKept, Iq!FilledSoundly
<1>9. CASE /\ iqk_pc' = "idle"
           /\ filled' = [p \in Iq!Paths |-> [tx |-> Iq!Filled(tx[p], <<512, 0>>),
                                          rx |-> Iq!RxIqc(Iq!Filled(res[p].finish, <<512, 0>>))]]
  <2>1. Iq!FilledSoundly'
    <3> SUFFICES ASSUME NEW p \in Iq!Paths
                 PROVE  /\ tx'[p] = {} => filled'[p] = [tx |-> <<512, 0>>, rx |-> <<256, 0>>]
                        /\ filled'[p].rx # <<256, 0>> =>
                             \E m, n \in Iq!Range(cal'[p].ms) :
                               Iq!Agree(m, n) /\ Iq!Near(2 * filled'[p].rx[1], m[1])
                        /\ filled'[p].rx[1] < \h112 /\ filled'[p].rx[2] \notin \h12..\h1ff
      BY DEF Iq!FilledSoundly
    <3>1. filled'[p] = [tx |-> Iq!Filled(tx[p], <<512, 0>>),
                        rx |-> Iq!RxIqc(Iq!Filled(res[p].finish, <<512, 0>>))]
      BY <1>9
    <3>2. CASE res[p].finish = {}
      <4>1. Iq!RxIqc(Iq!Filled(res[p].finish, <<512, 0>>)) = <<256, 0>>
        BY <3>2, NeutralIs DEF Iq!Filled
      <4>2. tx[p] = {} => Iq!Filled(tx[p], <<512, 0>>) = <<512, 0>>
        BY DEF Iq!Filled
      <4>3. filled'[p].rx = <<256, 0>>
        BY <3>1, <4>1
      <4>4. tx'[p] = {} => filled'[p] = [tx |-> <<512, 0>>, rx |-> <<256, 0>>]
        BY <1>2, <3>1, <4>1, <4>2
      <4> QED
        BY <4>3, <4>4
    <3>3. CASE res[p].finish # {}
      <4>1. Twice(res[p].ms, res[p].finish) /\ res[p].ms \in Seq(Iq!Measures)
        BY <1>5, <3>3 DEF Kept, Stages
      <4>2. PICK m, n \in Iq!Measures : /\ m \in Iq!Range(res[p].ms) /\ n \in Iq!Range(res[p].ms)
                                     /\ Iq!Agree(m, n) /\ res[p].finish = {Mean(m, n)}
        BY <4>1, TwiceIs
      <4>3. Iq!Filled(res[p].finish, <<512, 0>>) = Mean(m, n)
        BY <4>2 DEF Iq!Filled
      <4>4. filled'[p].rx = Iq!RxIqc(Mean(m, n))
        BY <3>1, <4>3
      <4>5. /\ filled'[p].rx # <<256, 0>> => Iq!Near(2 * filled'[p].rx[1], m[1])
            /\ filled'[p].rx[1] < \h112 /\ filled'[p].rx[2] \notin \h12..\h1ff
        BY <4>2, <4>4, IqcIs
      <4>6. p \in Iq!Done
        BY <1>6, <3>3
      <4> QED
        BY <1>2, <1>7, <4>2, <4>5, <4>6 DEF Iq!Done
    <3> QED
      BY <3>2, <3>3
  <2> QED
    BY <1>5, <1>7, <1>9, <2>1 DEF CalKept
<1> QED
  BY <1>1, <1>8, <1>9 DEF Iq!AfterRx

CalibrationInv == ChipKept /\ CalKept

(* Together: the calibration has the invariant from the start,             *)
LEMMA CalibrationInit ==
  ASSUME Iq!Init
  PROVE  CalibrationInv
<1>1. Kept(Iq!Start(<<512, 0>>), 10)
  BY StartKept DEF Bases
<1>2. \A p \in Iq!Paths : cal[p] = Iq!Start(<<512, 0>>)
  BY DEF Iq!Init
<1>3. ChipKept
  BY DEF ChipKept, Iq!Init, Everywhere
<1> QED
  BY <1>1, <1>2, <1>3 DEF CalibrationInv, CalKept, Iq!FilledSoundly, Iq!Init

(* and every step keeps it.                                                *)
LEMMA CalibrationNext ==
  ASSUME CalibrationInv, [Iq!Next]_(Iq!vars)
  PROVE  CalibrationInv'
<1>1. CASE Iq!Lck
  BY <1>1, LckChip, LckCal DEF CalibrationInv
<1>2. CASE Iq!Begin
  BY <1>2, BeginChip, BeginCal DEF CalibrationInv
<1>3. CASE Iq!TxShot
  BY <1>3, TxShotChip, TxShotCal DEF CalibrationInv
<1>4. CASE Iq!RxShot
  BY <1>4, RxShotChip, RxShotCal DEF CalibrationInv
<1>5. CASE UNCHANGED Iq!vars
  <2>1. cal' = cal /\ tx' = tx /\ filled' = filled /\ iqk_pc' = iqk_pc /\ chip' = chip
    BY <1>5 DEF Iq!vars
  <2>2. Iq!Done' = Iq!Done /\ (Iq!FilledSoundly => Iq!FilledSoundly')
    BY <2>1, StillSound
  <2> QED
    BY <2>1, <2>2 DEF CalibrationInv, ChipKept, CalKept
<1> QED
  BY <1>1, <1>2, <1>3, <1>4, <1>5 DEF Iq!Next

(* What CalibrationSound says.                                             *)
LEMMA CalibrationHolds ==
  ASSUME CalibrationInv
  PROVE  Iq!NothingLeftBehind /\ Iq!WithinArrays /\ Iq!FilledSoundly
<1>1. Iq!NothingLeftBehind
  BY DEF CalibrationInv, ChipKept, TxPause, Iq!NothingLeftBehind
<1>2. Iq!WithinArrays
  <2> SUFFICES ASSUME NEW p \in Iq!Paths PROVE Len(cal[p].ms) <= 10
    BY DEF Iq!WithinArrays
  <2>1. Kept(cal[p], 10)
    BY DEF CalibrationInv, CalKept
  <2>2. cal[p].retry \in Nat /\ Len(cal[p].ms) \in Nat
    BY <2>1 DEF Kept, Stages
  <2>3. cal[p].retry + Len(cal[p].ms) <= 10
    BY <2>1 DEF Kept
  <2>4. \A x, y \in Nat : x + y <= 10 => y <= 10
    OBVIOUS
  <2> QED
    BY <2>2, <2>3, <2>4
<1> QED
  BY <1>1, <1>2 DEF CalibrationInv, CalKept

(* After any number of calibrations, whatever was measured, failed or hung,*)
(* the registers are what they were but the calibration's own and a TXPAUSE*)
(* that rtw8812a_do_lck found other than 0, no array was overrun, and what *)
(* was filled in rests on two measurements that agree or is neutral        *)
(* (rtw8812a.c:775).                                                       *)
THEOREM CalibrationIsSound == Iq!Spec => []CalibrationSound
<1>1. Iq!Spec => []CalibrationInv
  BY CalibrationInit, CalibrationNext, PTL DEF Iq!Spec
<1>2. CalibrationInv => CalibrationSound
  BY CalibrationHolds DEF CalibrationSound
<1> QED
  BY <1>1, <1>2, PTL

============================================================================
