---------------------------- MODULE StaKeysProofs ----------------------------
(***************************************************************************)
(* MAC ids and ports of StaKeys for any stations, any interfaces and any   *)
(* number of ids and ports, when there are ports for the two interfaces    *)
(* that mac80211 adds at most; the firmware's default port; and the CAM,   *)
(* for any number of entries.                                              *)
(***************************************************************************)
EXTENDS StaKeys, WellFoundedInduction, FiniteSetTheorems, TLAPS

On(vifs, v) == v \in Vifs /\ vifs[v] # NULL

(* The maps are exact for the interfaces and stations there are.           *)
Ids(macids, vifs, stas) ==
  /\ \A m : m \in macids <=> \/ \E v \in Vifs : On(vifs, v) /\ vifs[v].mac_id = m
                             \/ \E s \in Stas : stas[s] # NULL /\ stas[s].mac_id = m
  /\ \A u, v \in Vifs : On(vifs, u) /\ On(vifs, v) /\ vifs[u].mac_id = vifs[v].mac_id => u = v
  /\ \A s \in Stas : stas[s] # NULL =>
       /\ On(vifs, stas[s].vif)
       /\ IF vifs[stas[s].vif].type = "sta" /\ ~stas[s].tdls
          THEN stas[s].mac_id = vifs[stas[s].vif].mac_id
          ELSE /\ \A v \in Vifs : On(vifs, v) => stas[s].mac_id # vifs[v].mac_id
               /\ \A t \in Stas \ {s} : stas[t] # NULL => stas[s].mac_id # stas[t].mac_id

PortsOwned(ports, vifs, regs) ==
  /\ DOMAIN regs = Ports
  /\ \A p : p \in ports <=> \E v \in Vifs : On(vifs, v) /\ vifs[v].port = p
  /\ \A v \in Vifs : On(vifs, v) => regs[vifs[v].port] = v

(* Interfaces may have changed ports.                                      *)
SamePlaces(vifs, moved) ==
  \A v \in Vifs : /\ On(vifs, v) <=> On(moved, v)
                  /\ On(vifs, v) => moved[v].mac_id = vifs[v].mac_id /\ moved[v].type = vifs[v].type

Ap(vifs) == \A v \in Vifs : On(vifs, v) /\ vifs[v].type = "ap" => vifs[v].port = 0

Typed(vifs, stas) ==
  vifs \in [Vifs -> VifRecord \union {NULL}] /\ stas \in [Stas -> StaRecord \union {NULL}]

Inv ==
  /\ Typed(vif, sta) /\ Ids(mac_id_map, vif, sta) /\ PortsOwned(hw_port, vif, reg) /\ Ap(vif)
  /\ remover \in Stas \union {NULL} /\ (remover # NULL => sta[remover] # NULL)

Hypothesis == IsFiniteSet(Vifs) /\ PORT_NUM >= 2

----------------------------------------------------------------------------
(* find_first_zero_bit is a choice of the smallest, which there is.        *)
LEMMA SmallestExists ==
  ASSUME NEW S \in SUBSET Nat, S # {}
  PROVE  \E n \in S : \A m \in S : n <= m
<1>1. \E n \in S : \A m \in S : ~ (<<m, n>> \in {ss \in Nat \X Nat : ss[1] < ss[2]})
  BY NatLessThanWellFounded, WFMin DEF OpToRel
<1>2. PICK n \in S : \A m \in S : ~ (<<m, n>> \in {ss \in Nat \X Nat : ss[1] < ss[2]})
  BY <1>1
<1>3. ASSUME NEW m \in S PROVE n <= m
  <2>1. m \in Nat /\ n \in Nat /\ <<m, n>> \in Nat \X Nat
    OBVIOUS
  <2>2. ~ (m < n)
    BY <1>2, <2>1
  <2> QED
    BY <2>1, <2>2
<1> QED
  BY <1>3

(* What it returns is free, or the size of the map, and no bit below is.   *)
LEMMA FirstZeroFree ==
  ASSUME NEW map, NEW n \in Nat
  PROVE  /\ FirstZero(map, n) \in 0..n
         /\ FirstZero(map, n) < n => FirstZero(map, n) \notin map
         /\ \A i \in 0..n : i \notin map => FirstZero(map, n) <= i
<1> DEFINE S == (0..n) \ (map \ {n})
<1>1. S \in SUBSET Nat /\ n \in S
  OBVIOUS
<1>2. \E k \in S : \A m \in S : k <= m
  BY <1>1, SmallestExists
<1>3. FirstZero(map, n) \in S /\ \A m \in S : FirstZero(map, n) <= m
  BY <1>2 DEF FirstZero, Min
<1> QED
  BY <1>3

(* mac80211 admits at most one interface beside another.                   *)
LEMMA OneOther ==
  ASSUME IsFiniteSet(Vifs), NEW v \in Vifs, NEW t, Combination(v, t),
         NEW u \in Vifs \ {v}, NEW w \in Vifs \ {v}, vif[u] # NULL, vif[w] # NULL
  PROVE  u = w
<1> DEFINE Others == {x \in Vifs \ {v} : vif[x] # NULL}
<1>1. IsFiniteSet(Others) /\ Cardinality(Others) <= 1
  BY FS_Subset DEF Combination
<1>2. SUFFICES ASSUME u # w PROVE FALSE
  OBVIOUS
<1>3. {u, w} \subseteq Others
  OBVIOUS
<1>4. Cardinality({u, w}) <= Cardinality(Others)
  BY <1>1, <1>3, FS_Subset
<1>5. IsFiniteSet({u}) /\ Cardinality({u}) = 1
  BY FS_Singleton
<1>6. {u, w} = {u} \union {w} /\ w \notin {u}
  BY <1>2
<1>7. Cardinality({u} \union {w}) = Cardinality({u}) + 1
  BY <1>5, <1>6, FS_AddElement
<1>8. Cardinality({u, w}) = 2
  BY <1>5, <1>6, <1>7
<1> QED
  BY <1>1, <1>4, <1>8, FS_CardinalityType

(* So an AP is never beside an AP.                                         *)
LEMMA NoTwoAps ==
  ASSUME IsFiniteSet(Vifs), NEW v \in Vifs, Combination(v, "ap"),
         NEW u \in Vifs \ {v}, vif[u] # NULL
  PROVE  vif[u].type # "ap"
<1> DEFINE others == {vif[x].type : x \in {x \in Vifs \ {v} : vif[x] # NULL}}
<1>1. others = {vif[u].type}
  BY OneOther
<1>2. others \union {"ap"} \in {{"sta"}, {"sta", "ap"}}
  BY <1>1 DEF Combination
<1> QED
  BY <1>1, <1>2

----------------------------------------------------------------------------
(* What happens to the ids when an interface is added with a free id.      *)
LEMMA IdsAdd ==
  ASSUME NEW macids, NEW vifs, NEW v \in Vifs, NEW m \in MacIds, NEW rec \in VifRecord,
         Typed(vifs, sta), Ids(macids, vifs, sta), vifs[v] = NULL, m \notin macids, rec.mac_id = m
  PROVE  Ids(macids \union {m}, [vifs EXCEPT ![v] = rec], sta)
<1> DEFINE new == [vifs EXCEPT ![v] = rec]
<1> USE NullAssumption DEF On
<1>1. /\ \A u \in Vifs \ {v} : new[u] = vifs[u]
      /\ new[v] = rec /\ rec # NULL
  BY DEF Typed
<1>2. \A u \in Vifs : vifs[u] # NULL => vifs[u].mac_id \in macids
  BY DEF Ids
<1>3. \A s \in Stas : sta[s] # NULL => sta[s].mac_id \in macids /\ sta[s].vif \in Vifs \ {v}
  BY DEF Ids
<1>4. \A k : k \in macids \union {m} <=> \/ \E u \in Vifs : On(new, u) /\ new[u].mac_id = k
                                         \/ \E s \in Stas : sta[s] # NULL /\ sta[s].mac_id = k
  BY <1>1 DEF Ids
<1>5. \A u, w \in Vifs : On(new, u) /\ On(new, w) /\ new[u].mac_id = new[w].mac_id => u = w
  BY <1>1, <1>2 DEF Ids
<1>6. ASSUME NEW s \in Stas, sta[s] # NULL
      PROVE  /\ On(new, sta[s].vif)
             /\ IF new[sta[s].vif].type = "sta" /\ ~sta[s].tdls
                THEN sta[s].mac_id = new[sta[s].vif].mac_id
                ELSE /\ \A u \in Vifs : On(new, u) => sta[s].mac_id # new[u].mac_id
                     /\ \A t \in Stas \ {s} : sta[t] # NULL => sta[s].mac_id # sta[t].mac_id
  BY <1>1, <1>3, <1>6 DEF Ids
<1> QED
  BY <1>4, <1>5, <1>6 DEF Ids

(* Changing ports leaves the ids alone.                                    *)
LEMMA IdsMove ==
  ASSUME NEW macids, NEW vifs, NEW moved, Typed(vifs, sta), Typed(moved, sta),
         Ids(macids, vifs, sta), SamePlaces(vifs, moved)
  PROVE  Ids(macids, moved, sta)
<1>1. \A k : k \in macids <=> \/ \E u \in Vifs : On(moved, u) /\ moved[u].mac_id = k
                              \/ \E s \in Stas : sta[s] # NULL /\ sta[s].mac_id = k
  BY DEF Ids, SamePlaces
<1>2. \A u, w \in Vifs : On(moved, u) /\ On(moved, w) /\ moved[u].mac_id = moved[w].mac_id => u = w
  BY DEF Ids, SamePlaces
<1>3. \A s \in Stas : sta[s] # NULL => sta[s].vif \in Vifs
  BY DEF Ids, On
<1>4. ASSUME NEW s \in Stas, sta[s] # NULL
      PROVE  /\ On(moved, sta[s].vif)
             /\ IF moved[sta[s].vif].type = "sta" /\ ~sta[s].tdls
                THEN sta[s].mac_id = moved[sta[s].vif].mac_id
                ELSE /\ \A u \in Vifs : On(moved, u) => sta[s].mac_id # moved[u].mac_id
                     /\ \A t \in Stas \ {s} : sta[t] # NULL => sta[s].mac_id # sta[t].mac_id
  BY <1>3, <1>4 DEF Ids, SamePlaces
<1> QED
  BY <1>1, <1>2, <1>4 DEF Ids

(* An interface with no station gives back an id nobody shares.            *)
LEMMA IdsRemove ==
  ASSUME NEW v \in Vifs, Typed(vif, sta), Ids(mac_id_map, vif, sta), vif[v] # NULL, StasOf(v) = {}
  PROVE  Ids(mac_id_map \ {vif[v].mac_id}, [vif EXCEPT ![v] = NULL], sta)
<1> DEFINE new == [vif EXCEPT ![v] = NULL]
<1> USE DEF On
<1>1. new[v] = NULL /\ \A u \in Vifs \ {v} : new[u] = vif[u]
  BY DEF Typed
<1>2. \A s \in Stas : sta[s] # NULL => sta[s].vif \in Vifs \ {v} /\ sta[s].mac_id # vif[v].mac_id
  BY DEF Ids, StasOf
<1>3. \A k : k \in mac_id_map \ {vif[v].mac_id} <=>
              \/ \E u \in Vifs : On(new, u) /\ new[u].mac_id = k
              \/ \E s \in Stas : sta[s] # NULL /\ sta[s].mac_id = k
  BY <1>1, <1>2 DEF Ids
<1> QED
  BY <1>1, <1>2, <1>3 DEF Ids

(* The ports when an interface gets a free one, and when it loses its own. *)
LEMMA PortsAdd ==
  ASSUME NEW ports, NEW vifs, NEW regs, NEW v \in Vifs, NEW p \in Ports, NEW rec \in VifRecord,
         Typed(vifs, sta), PortsOwned(ports, vifs, regs), vifs[v] = NULL,
         p \notin ports, rec.port = p
  PROVE  PortsOwned(ports \union {p}, [vifs EXCEPT ![v] = rec], [regs EXCEPT ![p] = v])
<1> DEFINE new == [vifs EXCEPT ![v] = rec]
<1> USE NullAssumption DEF On
<1>1. /\ \A u \in Vifs \ {v} : new[u] = vifs[u]
      /\ new[v] = rec /\ rec # NULL
  BY DEF Typed
<1>2. \A u \in Vifs : vifs[u] # NULL => vifs[u].port \in ports /\ vifs[u].port \in Ports
  BY DEF PortsOwned, Typed, VifRecord
<1> QED
  BY <1>1, <1>2 DEF PortsOwned

LEMMA PortsRemove ==
  ASSUME NEW v \in Vifs, Typed(vif, sta), PortsOwned(hw_port, vif, reg), vif[v] # NULL
  PROVE  PortsOwned(hw_port \ {vif[v].port}, [vif EXCEPT ![v] = NULL],
                    [reg EXCEPT ![vif[v].port] = NULL])
<1> DEFINE new == [vif EXCEPT ![v] = NULL]
<1> USE DEF On
<1>1. new[v] = NULL /\ \A u \in Vifs \ {v} : new[u] = vif[u]
  BY DEF Typed
<1>2. \A u \in Vifs : vif[u] # NULL => vif[u].port \in Ports
  BY DEF Typed, VifRecord
<1>3. \A u \in Vifs \ {v} : vif[u] # NULL => vif[u].port # vif[v].port
  BY DEF PortsOwned
<1> QED
  BY <1>1, <1>2, <1>3 DEF PortsOwned

(* What the switch makes of the interfaces and of the registers.           *)
Moved(vifs, v, u, p) == [vifs EXCEPT ![v].port = 0, ![u].port = p]
Shown(regs, p) == [regs EXCEPT ![0] = regs[p], ![p] = regs[0]]

(* A port changed leaves the rest of the interface.                        *)
LEMMA OtherPort ==
  ASSUME NEW r \in VifRecord, NEW q \in Ports
  PROVE  LET n == [r EXCEPT !.port = q]
         IN  n \in VifRecord /\ n.port = q /\ n.mac_id = r.mac_id /\ n.type = r.type
BY DEF VifRecord

(* After it every port's registers are still those of its interface.       *)
LEMMA PortsSwitch ==
  ASSUME NEW ports, NEW vifs, NEW regs, NEW v \in Vifs, NEW u \in Vifs, NEW p \in Ports \ {0},
         Typed(vifs, sta), PortsOwned(ports, vifs, regs),
         vifs[v] # NULL, vifs[u] # NULL, vifs[v].port = p, vifs[u].port = 0
  PROVE  /\ PortsOwned(ports, Moved(vifs, v, u, p), Shown(regs, p))
         /\ Typed(Moved(vifs, v, u, p), sta)
         /\ Moved(vifs, v, u, p)[v].port = 0
         /\ SamePlaces(vifs, Moved(vifs, v, u, p))
<1> DEFINE moved == Moved(vifs, v, u, p)
           shown == Shown(regs, p)
<1> USE NullAssumption, StaKeysAssumption DEF On, Moved, Shown
<1>1. u # v /\ 0 \in Ports
  BY DEF Ports
<1>2. vifs[v] \in VifRecord /\ vifs[u] \in VifRecord
  BY DEF Typed
<1>3. /\ moved[v] = [vifs[v] EXCEPT !.port = 0] /\ moved[u] = [vifs[u] EXCEPT !.port = p]
      /\ \A w \in Vifs \ {u, v} : moved[w] = vifs[w]
  BY <1>1 DEF Typed
<1>4. /\ moved[v] \in VifRecord /\ moved[u] \in VifRecord
      /\ moved[v].port = 0 /\ moved[u].port = p
      /\ moved[v].mac_id = vifs[v].mac_id /\ moved[v].type = vifs[v].type
      /\ moved[u].mac_id = vifs[u].mac_id /\ moved[u].type = vifs[u].type
  <2>1. p \in Ports
    OBVIOUS
  <2>2. LET n == [vifs[v] EXCEPT !.port = 0]
        IN  n \in VifRecord /\ n.port = 0 /\ n.mac_id = vifs[v].mac_id /\ n.type = vifs[v].type
    BY <1>1, <1>2, OtherPort, Zenon
  <2>3. LET n == [vifs[u] EXCEPT !.port = p]
        IN  n \in VifRecord /\ n.port = p /\ n.mac_id = vifs[u].mac_id /\ n.type = vifs[u].type
    BY <2>1, <1>2, OtherPort, Zenon
  <2> QED
    BY <1>3, <2>2, <2>3, Zenon
<1>5. Typed(moved, sta)
  BY <1>3, <1>4 DEF Typed
<1>6. /\ shown[0] = regs[p] /\ shown[p] = regs[0] /\ DOMAIN shown = Ports
      /\ \A q \in Ports \ {0, p} : shown[q] = regs[q]
  BY <1>1 DEF PortsOwned
<1>7. \A w \in Vifs \ {u, v} : vifs[w] # NULL => vifs[w].port \in Ports \ {0, p}
  BY DEF Typed, PortsOwned, VifRecord
<1>8. \A q : q \in ports <=> \E w \in Vifs : On(moved, w) /\ moved[w].port = q
  <2>1. ASSUME NEW q, q \in ports PROVE \E w \in Vifs : On(moved, w) /\ moved[w].port = q
    <3>1. PICK w \in Vifs : vifs[w] # NULL /\ vifs[w].port = q
      BY <2>1 DEF PortsOwned
    <3> QED
      BY <1>2, <1>3, <1>4, <3>1
  <2>2. ASSUME NEW q, NEW w \in Vifs, moved[w] # NULL, moved[w].port = q PROVE q \in ports
    BY <1>2, <1>3, <1>4, <2>2 DEF PortsOwned
  <2> QED
    BY <2>1, <2>2
<1>9. ASSUME NEW w \in Vifs, moved[w] # NULL PROVE shown[moved[w].port] = w
  <2>1. CASE w \in {u, v}
    BY <1>1, <1>2, <1>4, <1>6, <2>1 DEF PortsOwned
  <2>2. CASE w \notin {u, v}
    <3>1. moved[w] = vifs[w] /\ vifs[w] # NULL /\ vifs[w].port \in Ports \ {0, p}
      BY <1>3, <1>7, <1>9, <2>2
    <3>2. shown[vifs[w].port] = regs[vifs[w].port]
      BY <1>6, <3>1
    <3>3. regs[vifs[w].port] = w
      BY <3>1 DEF PortsOwned
    <3> QED
      BY <3>1, <3>2, <3>3
  <2> QED
    BY <2>1, <2>2
<1>10. PortsOwned(ports, moved, shown)
  BY <1>6, <1>8, <1>9 DEF PortsOwned
<1>11. SamePlaces(vifs, moved)
  BY <1>2, <1>3, <1>4 DEF SamePlaces
<1> QED
  BY <1>3, <1>4, <1>5, <1>10, <1>11

(* The first free port exists, and is port 0 if that is free.              *)
LEMMA PortFree ==
  ASSUME Hypothesis, NEW v \in Vifs, NEW t, Combination(v, t), NEW ports, NEW vifs, NEW regs,
         Typed(vifs, sta), PortsOwned(ports, vifs, regs), vifs[v] = NULL,
         \A u \in Vifs \ {v} : vifs[u] = vif[u]
  PROVE  FirstZero(ports, PORT_NUM) \in Ports /\ FirstZero(ports, PORT_NUM) \notin ports
<1> USE StaKeysAssumption DEF Hypothesis
<1>1. 0 \notin ports \/ 1 \notin ports
  <2>1. SUFFICES ASSUME 0 \in ports, 1 \in ports PROVE FALSE
    OBVIOUS
  <2>2. PICK u \in Vifs : On(vifs, u) /\ vifs[u].port = 0
    BY <2>1 DEF PortsOwned
  <2>3. PICK w \in Vifs : On(vifs, w) /\ vifs[w].port = 1
    BY <2>1 DEF PortsOwned
  <2>4. u # v /\ w # v /\ vif[u] # NULL /\ vif[w] # NULL
    BY <2>2, <2>3 DEF On
  <2>5. u = w
    BY <2>4, OneOther
  <2> QED
    BY <2>2, <2>3, <2>5
<1>2. /\ FirstZero(ports, PORT_NUM) \in 0..PORT_NUM
      /\ FirstZero(ports, PORT_NUM) < PORT_NUM => FirstZero(ports, PORT_NUM) \notin ports
      /\ \A i \in 0..PORT_NUM : i \notin ports => FirstZero(ports, PORT_NUM) <= i
  BY FirstZeroFree
<1>3. FirstZero(ports, PORT_NUM) < PORT_NUM
  BY <1>1, <1>2
<1> QED
  BY <1>2, <1>3 DEF Ports

(* An interface added, with or without the switch, keeps all of it.        *)
LEMMA AddKeeps ==
  ASSUME Hypothesis, NEW v \in Vifs, NEW t \in Types, Combination(v, t),
         NEW macids, NEW ports, NEW vifs, NEW regs, vifs[v] = NULL,
         \A u \in Vifs \ {v} : vifs[u] = vif[u],
         Typed(vifs, sta), Ids(macids, vifs, sta), PortsOwned(ports, vifs, regs), Ap(vifs),
         Add(v, t, macids, ports, vifs, regs)
  PROVE  /\ Typed(vif', sta) /\ Ids(mac_id_map', vif', sta)
         /\ PortsOwned(hw_port', vif', reg') /\ Ap(vif')
<1> DEFINE m == FirstZero(macids, MAC_ID_NUM)
           p == FirstZero(ports, PORT_NUM)
           rec == [type |-> t, mac_id |-> m, port |-> p]
           added == [vifs EXCEPT ![v] = rec]
           written == [regs EXCEPT ![p] = v]
<1> USE StaKeysAssumption, NullAssumption
<1>1. p \in Ports /\ p \notin ports /\ p < PORT_NUM
  BY PortFree DEF Ports, Hypothesis
<1>2. /\ m \in 0..MAC_ID_NUM
      /\ m < MAC_ID_NUM => m \notin macids
  BY FirstZeroFree
<1>3. CASE ~ (m < MAC_ID_NUM)
  <2>1. mac_id_map' = macids /\ hw_port' = ports /\ vif' = vifs /\ reg' = regs
    BY <1>3 DEF Add, IsMacId
  <2> QED
    BY <2>1
<1>4. CASE m < MAC_ID_NUM
  <2>1. m \in MacIds /\ m \notin macids
    BY <1>2, <1>4 DEF MacIds
  <2>2. rec \in VifRecord /\ rec.mac_id = m /\ rec.port = p /\ rec.type = t
    BY <1>1, <2>1 DEF VifRecord
  <2>3. /\ mac_id_map' = macids \union {m} /\ hw_port' = ports \union {p}
        /\ IF t = "ap" /\ p # 0 THEN PortSwitch(v, p, added, written)
           ELSE vif' = added /\ reg' = written
    BY <1>1, <1>4 DEF Add, IsMacId
  <2> HIDE DEF m, p, rec
  <2>4. added[v] = rec /\ \A u \in Vifs \ {v} : added[u] = vifs[u]
    BY DEF Typed
  <2>5. Typed(added, sta)
    BY <2>2 DEF Typed
  <2>6. Ids(macids \union {m}, added, sta)
    BY <2>1, <2>2, IdsAdd
  <2>7. PortsOwned(ports \union {p}, added, written)
    BY <1>1, <2>2, PortsAdd
  <2>8. CASE ~ (t = "ap" /\ p # 0)
    <3>1. Ap(added)
      BY <2>2, <2>4, <2>8 DEF Ap, On
    <3> QED
      BY <2>3, <2>5, <2>6, <2>7, <2>8, <3>1
  <2>9. CASE t = "ap" /\ p # 0
    <3> DEFINE u == CHOOSE w \in Vifs : added[w] # NULL /\ added[w].port = 0
               moved == Moved(added, v, u, p)
               shown == Shown(written, p)
    <3>1. vif' = moved /\ reg' = shown
      BY <2>3, <2>9 DEF PortSwitch, Moved, Shown
    <3>2. 0 \in ports
      BY <1>1, <2>9, FirstZeroFree DEF p, Ports
    <3>3. PICK w \in Vifs : vifs[w] # NULL /\ vifs[w].port = 0
      BY <3>2 DEF PortsOwned, On
    <3>4. added[w] # NULL /\ added[w].port = 0
      BY <2>4, <3>3
    <3>5. u \in Vifs /\ added[u] # NULL /\ added[u].port = 0
      BY <3>4
    <3> HIDE DEF u
    <3>6. rec # NULL /\ added[v] # NULL /\ added[v].port = p /\ p \in Ports \ {0}
      BY <1>1, <2>2, <2>4, <2>9
    <3>7. /\ PortsOwned(ports \union {p}, moved, shown) /\ Typed(moved, sta)
          /\ moved[v].port = 0 /\ SamePlaces(added, moved)
      <4> HIDE DEF added, written
      <4> QED
        BY <2>5, <2>7, <3>5, <3>6, PortsSwitch
    <3>8. Ids(macids \union {m}, moved, sta)
      BY <2>5, <2>6, <3>7, IdsMove
    <3>9. \A x \in Vifs \ {v} : added[x] # NULL => added[x].type # "ap"
      BY <2>4, <2>9, NoTwoAps DEF Hypothesis
    <3>10. Ap(moved)
      BY <3>7, <3>9 DEF Ap, SamePlaces, On
    <3> QED
      BY <2>3, <3>1, <3>7, <3>8, <3>10
  <2> QED
    BY <2>8, <2>9
<1> QED
  BY <1>2, <1>3, <1>4

----------------------------------------------------------------------------
(* Removing an interface leaves the maps exact for the others.             *)
LEMMA Without ==
  ASSUME Inv, NEW v \in Vifs, Idle(v)
  PROVE  LET rest == [vif EXCEPT ![v] = NULL]
         IN  /\ Typed(rest, sta) /\ Ids(mac_id_map \ {vif[v].mac_id}, rest, sta) /\ Ap(rest)
             /\ PortsOwned(hw_port \ {vif[v].port}, rest, [reg EXCEPT ![vif[v].port] = NULL])
             /\ rest[v] = NULL /\ \A u \in Vifs \ {v} : rest[u] = vif[u]
<1> DEFINE rest == [vif EXCEPT ![v] = NULL]
<1>1. Typed(rest, sta) /\ rest[v] = NULL /\ \A u \in Vifs \ {v} : rest[u] = vif[u]
  BY DEF Inv, Typed
<1>2. Ids(mac_id_map \ {vif[v].mac_id}, rest, sta)
  BY IdsRemove DEF Inv, Idle
<1>3. PortsOwned(hw_port \ {vif[v].port}, rest, [reg EXCEPT ![vif[v].port] = NULL])
  BY PortsRemove DEF Inv, Idle
<1>4. Ap(rest)
  BY <1>1 DEF Inv, Ap, On
<1> QED
  BY <1>1, <1>2, <1>3, <1>4

LEMMA AddInterfaceKeeps ==
  ASSUME Hypothesis, Inv, NEW v \in Vifs, NEW t \in Types, AddInterface(v, t)
  PROVE  Inv'
<1>1. /\ Typed(vif', sta) /\ Ids(mac_id_map', vif', sta)
      /\ PortsOwned(hw_port', vif', reg') /\ Ap(vif')
  BY AddKeeps DEF AddInterface, Inv
<1>2. sta' = sta /\ remover' = remover
  BY DEF AddInterface
<1> QED
  BY <1>1, <1>2 DEF Inv

LEMMA ChangeInterfaceKeeps ==
  ASSUME Hypothesis, Inv, NEW v \in Vifs, NEW t \in Types, ChangeInterface(v, t)
  PROVE  Inv'
<1> DEFINE rest == [vif EXCEPT ![v] = NULL]
           ids2 == mac_id_map \ {vif[v].mac_id}
           ports2 == hw_port \ {vif[v].port}
           regs2 == [reg EXCEPT ![vif[v].port] = NULL]
<1>1. /\ Typed(rest, sta) /\ Ids(ids2, rest, sta) /\ PortsOwned(ports2, rest, regs2) /\ Ap(rest)
      /\ rest[v] = NULL /\ \A u \in Vifs \ {v} : rest[u] = vif[u]
  BY Without DEF ChangeInterface
<1>2. Add(v, t, ids2, ports2, rest, regs2) /\ Combination(v, t) /\ sta' = sta /\ remover' = remover
  BY DEF ChangeInterface
<1> HIDE DEF rest, ids2, ports2, regs2
<1>3. /\ Typed(vif', sta) /\ Ids(mac_id_map', vif', sta)
      /\ PortsOwned(hw_port', vif', reg') /\ Ap(vif')
  BY <1>1, <1>2, AddKeeps
<1> QED
  BY <1>2, <1>3 DEF Inv

LEMMA RemoveInterfaceKeeps ==
  ASSUME Inv, NEW v \in Vifs, RemoveInterface(v)
  PROVE  Inv'
<1>1. /\ Typed(vif', sta) /\ Ids(mac_id_map', vif', sta)
      /\ PortsOwned(hw_port', vif', reg') /\ Ap(vif')
  BY Without DEF RemoveInterface
<1>2. sta' = sta /\ remover' = remover
  BY DEF RemoveInterface
<1> QED
  BY <1>1, <1>2 DEF Inv

(* A station shares the id of its interface or gets one that is free.      *)
LEMMA StaAddKeeps ==
  ASSUME Inv, NEW s \in Stas, NEW v \in Vifs, NEW tdls \in BOOLEAN, StaAdd(s, v, tdls)
  PROVE  Inv'
<1> DEFINE shared == vif[v].type = "sta" /\ ~tdls
           m == IF shared THEN vif[v].mac_id ELSE FirstZero(mac_id_map, MAC_ID_NUM)
           rec == [vif |-> v, mac_id |-> m, tdls |-> tdls]
<1> USE NullAssumption, StaKeysAssumption DEF Inv, On
<1>1. /\ remover = NULL /\ sta[s] = NULL /\ vif[v] # NULL /\ m < MAC_ID_NUM
      /\ sta' = [sta EXCEPT ![s] = rec] /\ mac_id_map' = mac_id_map \union {m}
      /\ vif' = vif /\ hw_port' = hw_port /\ reg' = reg /\ remover' = remover
  BY DEF StaAdd, ifaces, Unlocked, IsMacId
<1>2. /\ FirstZero(mac_id_map, MAC_ID_NUM) \in 0..MAC_ID_NUM
      /\ FirstZero(mac_id_map, MAC_ID_NUM) < MAC_ID_NUM =>
           FirstZero(mac_id_map, MAC_ID_NUM) \notin mac_id_map
  BY FirstZeroFree
<1>3. m \in MacIds /\ (~shared => m \notin mac_id_map) /\ (shared => m = vif[v].mac_id)
  <2>1. CASE shared
    BY <1>1, <2>1 DEF Typed, VifRecord
  <2>2. CASE ~shared
    BY <1>1, <1>2, <2>2 DEF MacIds
  <2> QED
    BY <2>1, <2>2
<1> HIDE DEF m
<1>4. rec \in StaRecord /\ rec # NULL /\ rec.vif = v /\ rec.mac_id = m /\ rec.tdls = tdls
  BY <1>3 DEF StaRecord
<1> HIDE DEF rec
<1>5. sta'[s] = rec /\ \A x \in Stas \ {s} : sta'[x] = sta[x]
  BY <1>1 DEF Typed
<1>6. Typed(vif', sta')
  BY <1>1, <1>4 DEF Typed
<1>7. \A u \in Vifs : vif[u] # NULL => vif[u].mac_id \in mac_id_map
  BY DEF Ids
<1>8. \A x \in Stas : sta[x] # NULL => sta[x].mac_id \in mac_id_map /\ sta[x].vif \in Vifs
  BY DEF Ids
<1>9. \A k : k \in mac_id_map' <=> \/ \E u \in Vifs : On(vif, u) /\ vif[u].mac_id = k
                                  \/ \E x \in Stas : sta'[x] # NULL /\ sta'[x].mac_id = k
  BY <1>1, <1>4, <1>5 DEF Ids
<1>10. ASSUME NEW x \in Stas, sta'[x] # NULL
       PROVE  /\ On(vif, sta'[x].vif)
              /\ IF vif[sta'[x].vif].type = "sta" /\ ~sta'[x].tdls
                 THEN sta'[x].mac_id = vif[sta'[x].vif].mac_id
                 ELSE /\ \A u \in Vifs : On(vif, u) => sta'[x].mac_id # vif[u].mac_id
                      /\ \A y \in Stas \ {x} : sta'[y] # NULL => sta'[x].mac_id # sta'[y].mac_id
  <2>1. CASE x = s
    BY <1>1, <1>3, <1>4, <1>5, <1>7, <1>8, <2>1
  <2>2. CASE x # s
    BY <1>1, <1>3, <1>4, <1>5, <1>8, <1>10, <2>2 DEF Ids
  <2> QED
    BY <2>1, <2>2
<1>11. Ids(mac_id_map', vif', sta')
  BY <1>1, <1>9, <1>10 DEF Ids
<1> QED
  BY <1>1, <1>6, <1>11

(* The id goes back unless it is the interface's.                          *)
LEMMA StaRemovedKeeps ==
  ASSUME Inv, StaRemoved
  PROVE  Inv'
<1> USE DEF Inv, On
<1>1. /\ remover \in Stas /\ sta[remover] # NULL /\ remover' = NULL
      /\ mac_id_map' = mac_id_map \ IF Shares(remover) THEN {} ELSE {sta[remover].mac_id}
      /\ sta' = [sta EXCEPT ![remover] = NULL]
      /\ vif' = vif /\ hw_port' = hw_port /\ reg' = reg
  BY DEF StaRemoved, ifaces
<1>2. sta'[remover] = NULL /\ \A x \in Stas \ {remover} : sta'[x] = sta[x]
  BY <1>1 DEF Typed
<1>3. Typed(vif', sta')
  BY <1>1 DEF Typed
<1>4. \A k : k \in mac_id_map' <=> \/ \E u \in Vifs : On(vif, u) /\ vif[u].mac_id = k
                                  \/ \E x \in Stas : sta'[x] # NULL /\ sta'[x].mac_id = k
  <2>1. CASE Shares(remover)
    BY <1>1, <1>2, <2>1 DEF Ids, Shares
  <2>2. CASE ~Shares(remover)
    BY <1>1, <1>2, <2>2 DEF Ids, Shares
  <2> QED
    BY <2>1, <2>2
<1>5. Ids(mac_id_map', vif', sta')
  BY <1>1, <1>2, <1>4 DEF Ids
<1> QED
  BY <1>1, <1>3, <1>5

----------------------------------------------------------------------------
LEMMA InitInv == ASSUME Init PROVE Inv
BY DEF Init, Inv, Typed, Ids, PortsOwned, Ap, On

LEMMA NextInv ==
  ASSUME Hypothesis, Inv, [Next]_vars
  PROVE  Inv'
<1>1. CASE UNCHANGED vars
  BY <1>1 DEF Inv, vars, ids, ifaces
<1>2. ASSUME NEW v \in Vifs, NEW t \in Types, AddInterface(v, t) \/ ChangeInterface(v, t)
      PROVE  Inv'
  BY <1>2, AddInterfaceKeeps, ChangeInterfaceKeeps
<1>3. ASSUME NEW v \in Vifs, RemoveInterface(v) \/ Associate(v) \/ Disassociate(v)
      PROVE  Inv'
  BY <1>3, RemoveInterfaceKeeps DEF Associate, Disassociate, Inv, ids
<1>4. ASSUME NEW s \in Stas, NEW v \in Vifs, NEW tdls \in BOOLEAN, StaAdd(s, v, tdls)
      PROVE  Inv'
  BY <1>4, StaAddKeeps
<1>5. ASSUME NEW s \in Stas, RcUpdate(s) \/ StaRemove(s) PROVE Inv'
  BY <1>5 DEF RcUpdate, StaRemove, Inv, ids, ifaces
<1>6. ASSUME RcWorks PROVE Inv'
  BY <1>6 DEF RcWorks, RcWorkStart, RcWork, Inv, ids, ifaces
<1>7. ASSUME NEW s \in Stas, SetPairwiseKey(s) \/ DisablePairwiseKey(s) PROVE Inv'
  BY <1>7 DEF SetPairwiseKey, DisablePairwiseKey, Inv, ids, ifaces
<1>8. ASSUME NEW v \in Vifs, NEW i \in GROUP[v], SetGroupKey(v, i) \/ DisableGroupKey(v, i)
      PROVE  Inv'
  BY <1>8 DEF SetGroupKey, DisableGroupKey, Inv, ids, ifaces
<1> QED
  BY <1>1, <1>2, <1>3, <1>4, <1>5, <1>6, <1>7, <1>8, StaRemovedKeeps DEF Next

----------------------------------------------------------------------------
(* The default port: the linked interface is the only one beside an AP     *)
(* that is added, so it is the one that changes ports with it.             *)
LinkedAdded == \A v \in linked : v \in Vifs /\ vif[v] # NULL

LEMMA AddDefault ==
  ASSUME Hypothesis, NEW v \in Vifs, NEW t \in Types, Combination(v, t),
         NEW macids, NEW ports, NEW vifs, NEW regs, vifs[v] = NULL,
         \A u \in Vifs \ {v} : vifs[u] = vif[u],
         Typed(vifs, sta), PortsOwned(ports, vifs, regs),
         Add(v, t, macids, ports, vifs, regs),
         NEW w \in Vifs \ {v}, vifs[w] # NULL, w \in linked
  PROVE  /\ vif'[w] # NULL
         /\ default_port = vifs[w].port => default_port' = vif'[w].port
<1> DEFINE m == FirstZero(macids, MAC_ID_NUM)
           p == FirstZero(ports, PORT_NUM)
           rec == [type |-> t, mac_id |-> m, port |-> p]
           added == [vifs EXCEPT ![v] = rec]
           u == CHOOSE x \in Vifs : added[x] # NULL /\ added[x].port = 0
<1> USE StaKeysAssumption, NullAssumption
<1>1. p \in Ports /\ p < PORT_NUM /\ (p # 0 => 0 \in ports)
  BY PortFree, FirstZeroFree DEF Ports, Hypothesis
<1>2. added[v] = rec /\ rec.port = p /\ \A x \in Vifs \ {v} : added[x] = vifs[x]
  BY DEF Typed
<1>3. CASE vif' = vifs /\ UNCHANGED default_port
  BY <1>3
<1>4. CASE vif' = added /\ UNCHANGED default_port
  BY <1>2, <1>4
<1>5. CASE /\ vif' = [added EXCEPT ![v].port = 0, ![u].port = p]
           /\ default_port' = IF u \in linked THEN p ELSE default_port
           /\ p # 0
  <2> HIDE DEF p, rec
  <2>1. PICK x \in Vifs : vifs[x] # NULL /\ vifs[x].port = 0
    BY <1>1, <1>5 DEF PortsOwned, On
  <2>2. x # v /\ added[x] # NULL /\ added[x].port = 0
    BY <1>2, <2>1
  <2>3. u \in Vifs /\ added[u] # NULL /\ added[u].port = 0
    BY <2>2
  <2> HIDE DEF u
  <2>4. u # v
    BY <1>2, <1>5, <2>3
  <2>5. u = w
    <3>1. vif[u] # NULL /\ vif[w] # NULL
      BY <1>2, <2>3, <2>4
    <3> QED BY <2>3, <2>4, <3>1, OneOther DEF Hypothesis
  <2>6. vif'[w] = [vifs[w] EXCEPT !.port = p]
    BY <1>2, <1>5, <2>4, <2>5 DEF Typed
  <2>7. vif'[w] \in VifRecord /\ vif'[w].port = p
    <3>1. vifs[w] \in VifRecord
      BY DEF Typed
    <3>2. LET n == [vifs[w] EXCEPT !.port = p]
          IN  n \in VifRecord /\ n.port = p /\ n.mac_id = vifs[w].mac_id /\ n.type = vifs[w].type
      BY <1>1, <3>1, OtherPort, Zenon
    <3> QED BY <2>6, <3>2
  <2> QED BY <1>5, <2>5, <2>7
<1>6. \/ vif' = vifs /\ UNCHANGED default_port
      \/ vif' = added /\ UNCHANGED default_port
      \/ /\ vif' = [added EXCEPT ![v].port = 0, ![u].port = p]
         /\ default_port' = IF u \in linked THEN p ELSE default_port
         /\ p # 0
  BY DEF Add, PortSwitch
<1> QED BY <1>3, <1>4, <1>5, <1>6

Follows ==
  \A v \in linked : linked' = linked /\ default_port = vif[v].port
    => default_port' = vif'[v].port

LEMMA DefaultStep ==
  ASSUME Hypothesis, Inv, LinkedAdded, [Next]_vars
  PROVE  LinkedAdded' /\ Follows
<1> USE DEF LinkedAdded, Follows
<1>1. ASSUME NEW v \in Vifs, NEW t \in Types, AddInterface(v, t)
      PROVE  LinkedAdded' /\ Follows
  <2>1. /\ vif[v] = NULL /\ linked' = linked /\ Combination(v, t)
        /\ Add(v, t, mac_id_map, hw_port, vif, reg)
        /\ Typed(vif, sta) /\ PortsOwned(hw_port, vif, reg)
    BY <1>1 DEF AddInterface, Inv
  <2>2. ASSUME NEW w \in linked
        PROVE  /\ vif'[w] # NULL
               /\ default_port = vif[w].port => default_port' = vif'[w].port
    <3>1. w \in Vifs \ {v} /\ vif[w] # NULL
      BY <2>1
    <3> QED BY <2>1, <3>1, AddDefault
  <2> QED BY <2>1, <2>2
<1>2. ASSUME NEW v \in Vifs, NEW t \in Types, ChangeInterface(v, t)
      PROVE  LinkedAdded' /\ Follows
  <2> DEFINE rest == [vif EXCEPT ![v] = NULL]
             ids2 == mac_id_map \ {vif[v].mac_id}
             ports2 == hw_port \ {vif[v].port}
             regs2 == [reg EXCEPT ![vif[v].port] = NULL]
  <2>1. /\ Typed(rest, sta) /\ PortsOwned(ports2, rest, regs2)
        /\ rest[v] = NULL /\ \A u \in Vifs \ {v} : rest[u] = vif[u]
    BY <1>2, Without DEF ChangeInterface
  <2>2. /\ Add(v, t, ids2, ports2, rest, regs2) /\ Combination(v, t)
        /\ linked' = linked /\ v \notin linked
    BY <1>2 DEF ChangeInterface, Idle
  <2> HIDE DEF rest, ids2, ports2, regs2
  <2>3. ASSUME NEW w \in linked
        PROVE  /\ vif'[w] # NULL
               /\ default_port = vif[w].port => default_port' = vif'[w].port
    <3>1. w \in Vifs \ {v} /\ rest[w] = vif[w] /\ vif[w] # NULL
      BY <2>1, <2>2
    <3> QED BY <2>1, <2>2, <3>1, AddDefault
  <2> QED BY <2>2, <2>3
<1>3. ASSUME NEW v \in Vifs, RemoveInterface(v)
      PROVE  LinkedAdded' /\ Follows
  <2>1. /\ v \notin linked /\ linked' = linked /\ default_port' = default_port
        /\ \A w \in Vifs \ {v} : vif'[w] = vif[w]
    BY <1>3 DEF RemoveInterface, Idle, Inv, Typed
  <2> QED BY <2>1
<1>4. ASSUME NEW v \in Vifs, Associate(v) \/ Disassociate(v)
      PROVE  LinkedAdded' /\ Follows
  <2>1. linked' # linked /\ linked' \subseteq linked \union {v} /\ vif' = vif
        /\ (v \in linked' => vif[v] # NULL)
    BY <1>4 DEF Associate, Disassociate
  <2> QED BY <2>1
<1>5. CASE UNCHANGED ifaces
  BY <1>5 DEF ifaces
<1>6. ASSUME NEW s \in Stas, NEW v \in Vifs, NEW tdls \in BOOLEAN, StaAdd(s, v, tdls)
      PROVE  UNCHANGED ifaces
  BY <1>6 DEF StaAdd
<1>7. ASSUME NEW s \in Stas, RcUpdate(s) \/ StaRemove(s) \/ SetPairwiseKey(s)
                             \/ DisablePairwiseKey(s)
      PROVE  UNCHANGED ifaces
  BY <1>7 DEF RcUpdate, StaRemove, SetPairwiseKey, DisablePairwiseKey
<1>8. ASSUME NEW v \in Vifs, NEW i \in GROUP[v], SetGroupKey(v, i) \/ DisableGroupKey(v, i)
      PROVE  UNCHANGED ifaces
  BY <1>8 DEF SetGroupKey, DisableGroupKey
<1>9. RcWorks \/ StaRemoved \/ UNCHANGED vars => UNCHANGED ifaces
  BY DEF RcWorks, RcWorkStart, RcWork, StaRemoved, vars
<1> QED
  BY <1>1, <1>2, <1>3, <1>4, <1>5, <1>6, <1>7, <1>8, <1>9 DEF Next

----------------------------------------------------------------------------
(* The CAM.  Group keys and pairwise keys use entries of their own; a free *)
(* entry is one of the pairwise ones, found if there is one.               *)
Pairwise == DEFAULT_KEYS..(CAM_NUM - 1)

CamInv ==
  /\ cam_map \subseteq CamIndices /\ cam \in [CamIndices -> Stas \union Vifs \union {NULL}]
  /\ ptk \in [Stas -> Pairwise \union {NULL}]
  /\ gtk \in [Vifs -> SUBSET CamIndices] /\ \A v \in Vifs : gtk[v] \subseteq GROUP[v]
  /\ CamExact

LEMMA FreeEntry ==
  ASSUME NEW map, NEW free, free = FirstZero(map \union (0..(DEFAULT_KEYS - 1)), CAM_NUM)
  PROVE  /\ free \in Pairwise \union {CAM_NUM}
         /\ free < CAM_NUM <=> free # CAM_NUM
         /\ free # CAM_NUM => free \in Pairwise \ map
         /\ free = CAM_NUM => Pairwise \subseteq map
<1> USE StaKeysAssumption
<1> DEFINE full == map \union (0..(DEFAULT_KEYS - 1))
<1>1. /\ free \in 0..CAM_NUM
      /\ free < CAM_NUM => free \notin full
      /\ \A i \in 0..CAM_NUM : i \notin full => free <= i
  BY FirstZeroFree
<1>2. ASSUME free = CAM_NUM, NEW i \in Pairwise, i \notin map
      PROVE  FALSE
  <2>1. i \in 0..CAM_NUM /\ i < CAM_NUM /\ i \notin full
    BY <1>2 DEF Pairwise
  <2> HIDE DEF full
  <2>2. free <= i
    BY <1>1, <2>1
  <2> QED BY <1>2, <2>1, <2>2
<1>3. free # CAM_NUM => free \in Pairwise \ map
  BY <1>1 DEF Pairwise
<1> QED BY <1>1, <1>2, <1>3

LEMMA CamStep ==
  ASSUME CamInv, [Next]_vars
  PROVE  CamInv'
<1> USE StaKeysAssumption
<1>1. CASE UNCHANGED keys
  BY <1>1 DEF keys, CamInv, CamExact, FreeCam, Live, Alone
<1>2. /\ FreeCam \in Pairwise \union {CAM_NUM} /\ (FreeCam < CAM_NUM <=> FreeCam # CAM_NUM)
      /\ FreeCam # CAM_NUM => FreeCam \in Pairwise \ cam_map
      /\ FreeCam = CAM_NUM => Pairwise \subseteq cam_map
  BY FreeEntry DEF FreeCam
<1>3. /\ FreeCam' # CAM_NUM => FreeCam' \in Pairwise \ cam_map'
      /\ FreeCam' = CAM_NUM => Pairwise \subseteq cam_map'
  BY FreeEntry DEF FreeCam
<1>4. Pairwise \subseteq CamIndices /\ NULL \notin CamIndices
  BY DEF Pairwise, CamIndices
<1>5. \A v \in Vifs : GROUP[v] \subseteq CamIndices /\ GROUP[v] \intersect Pairwise = {}
  BY DEF Pairwise, CamIndices
<1>6. ASSUME NEW s \in Stas, SetPairwiseKey(s)
      PROVE  CamInv'
  <2>1. /\ ptk[s] = NULL /\ FreeCam \in Pairwise \ cam_map /\ FreeCam # NULL
        /\ ptk' = [ptk EXCEPT ![s] = FreeCam] /\ UNCHANGED gtk
        /\ cam_map' = cam_map \union {FreeCam} /\ cam' = [cam EXCEPT ![FreeCam] = s]
    BY <1>2, <1>4, <1>6 DEF SetPairwiseKey, WriteCam
  <2> DEFINE e == FreeCam
  <2> HIDE DEF e
  <2>2. /\ ptk'[s] = e /\ \A t \in Stas \ {s} : ptk'[t] = ptk[t]
        /\ cam'[e] = s /\ \A i \in CamIndices \ {e} : cam'[i] = cam[i]
        /\ e \in Pairwise \ cam_map /\ cam_map' = cam_map \union {e}
    BY <1>4, <2>1 DEF CamInv, e
  <2>3. \A t \in Stas : ptk'[t] # NULL => ptk'[t] \in cam_map' /\ cam'[ptk'[t]] = t
    BY <1>4, <2>2 DEF CamInv, CamExact
  <2>4. \A v \in Vifs : \A i \in gtk'[v] : Alone(v, i) => i \in cam_map' /\ cam'[i] = v
    BY <1>4, <2>1, <2>2 DEF CamInv, CamExact
  <2>7. \A i \in cam_map' : i < DEFAULT_KEYS => \E v \in Vifs : cam'[i] = v /\ i \in gtk'[v]
    <3> SUFFICES ASSUME NEW i \in cam_map', i < DEFAULT_KEYS
                 PROVE  \E v \in Vifs : cam'[i] = v /\ i \in gtk'[v]
      OBVIOUS
    <3>1. i \in cam_map /\ i # e /\ cam'[i] = cam[i]
      BY <2>2 DEF Pairwise, CamInv
    <3> QED BY <2>1, <3>1 DEF CamInv, CamExact
  <2>5. \A i \in cam_map' : Live(i)'
    <3>1. \A i \in cam_map : Live(i)
      BY <1>2, <2>1 DEF CamInv, CamExact
    <3>2. \A t \in Stas : ptk[t] \in CamIndices => ptk'[t] = ptk[t]
      BY <1>4, <2>1, <2>2
    <3>3. \A i \in cam_map : Live(i)'
      BY <2>1, <3>1, <3>2 DEF Live, CamInv
    <3> QED BY <2>2, <3>3 DEF Live
  <2>6. /\ cam_map' \subseteq CamIndices /\ ptk' \in [Stas -> Pairwise \union {NULL}]
        /\ cam' \in [CamIndices -> Stas \union Vifs \union {NULL}]
    BY <1>4, <2>1 DEF CamInv
  <2> QED BY <2>1, <2>3, <2>4, <2>5, <2>6, <2>7 DEF CamInv, CamExact, Alone
<1>7. ASSUME NEW v \in Vifs, NEW i \in GROUP[v], SetGroupKey(v, i)
      PROVE  CamInv'
  <2>1. /\ gtk' = [gtk EXCEPT ![v] = @ \union {i}] /\ UNCHANGED ptk
        /\ cam_map' = cam_map \union {i} /\ cam' = [cam EXCEPT ![i] = v]
        /\ i \in CamIndices /\ i \notin Pairwise
    BY <1>5, <1>7 DEF SetGroupKey, WriteCam
  <2>2. /\ gtk'[v] = gtk[v] \union {i} /\ \A u \in Vifs \ {v} : gtk'[u] = gtk[u]
        /\ cam'[i] = v /\ \A j \in CamIndices \ {i} : cam'[j] = cam[j]
    BY <2>1 DEF CamInv
  <2>3. \A t \in Stas : ptk'[t] # NULL => ptk'[t] \in cam_map' /\ cam'[ptk'[t]] = t
    BY <1>4, <2>1, <2>2 DEF CamInv, CamExact
  <2>4. \A u \in Vifs : i \in gtk'[u] /\ Alone(u, i) => u = v
    BY DEF Alone
  <2>5. \A u \in Vifs : \A j \in gtk'[u] : Alone(u, j) => j \in cam_map' /\ cam'[j] = u
    <3> SUFFICES ASSUME NEW u \in Vifs, NEW j \in gtk'[u], Alone(u, j)
                 PROVE  j \in cam_map' /\ cam'[j] = u
      OBVIOUS
    <3>1. CASE j = i
      BY <2>1, <2>2, <2>4, <3>1
    <3>2. CASE j # i
      <4>1. j \in gtk[u] /\ j \in CamIndices
        BY <2>2, <3>2 DEF CamInv
      <4> QED BY <2>1, <2>2, <3>2, <4>1 DEF CamInv, CamExact
    <3> QED BY <3>1, <3>2
  <2>8. \A j \in cam_map' : j < DEFAULT_KEYS => \E u \in Vifs : cam'[j] = u /\ j \in gtk'[u]
    <3> SUFFICES ASSUME NEW j \in cam_map', j < DEFAULT_KEYS
                 PROVE  \E u \in Vifs : cam'[j] = u /\ j \in gtk'[u]
      OBVIOUS
    <3>1. CASE j = i
      BY <2>2, <3>1
    <3>2. CASE j # i
      <4>1. j \in cam_map /\ cam'[j] = cam[j]
        BY <2>1, <2>2, <3>2 DEF CamInv
      <4>2. PICK u \in Vifs : cam[j] = u /\ j \in gtk[u]
        BY <4>1 DEF CamInv, CamExact
      <4> QED BY <2>2, <4>1, <4>2
    <3> QED BY <3>1, <3>2
  <2>6. FreeCam' # CAM_NUM => \A j \in cam_map' : Live(j)'
    <3> SUFFICES ASSUME FreeCam' # CAM_NUM PROVE \A j \in cam_map' : Live(j)'
      OBVIOUS
    <3>1. FreeCam # CAM_NUM
      BY <1>2, <1>3, <2>1
    <3>2. \A j \in cam_map : Live(j)
      BY <3>1 DEF CamInv, CamExact
    <3> QED BY <2>1, <2>2, <3>2 DEF Live
  <2>7. /\ cam_map' \subseteq CamIndices /\ gtk' \in [Vifs -> SUBSET CamIndices]
        /\ cam' \in [CamIndices -> Stas \union Vifs \union {NULL}]
        /\ \A u \in Vifs : gtk'[u] \subseteq GROUP[u]
    BY <2>1, <2>2 DEF CamInv
  <2> QED BY <2>1, <2>3, <2>5, <2>6, <2>7, <2>8 DEF CamInv, CamExact, Alone
<1>8. ASSUME NEW s \in Stas, DisablePairwiseKey(s)
      PROVE  CamInv'
  <2>1. /\ ptk[s] \in Pairwise /\ ptk' = [ptk EXCEPT ![s] = NULL] /\ UNCHANGED gtk
        /\ \A t \in Stas : ptk'[t] = IF t = s THEN NULL ELSE ptk[t]
        /\ \A t \in Stas \ {s} : ptk[t] # NULL => ptk[t] # ptk[s]
    BY <1>8 DEF DisablePairwiseKey, CamInv, CamExact
  <2>2. CASE FreeCam = CAM_NUM
    <3>1. UNCHANGED <<cam_map, cam>> /\ FreeCam' = FreeCam
      BY <1>2, <1>8, <2>2 DEF DisablePairwiseKey, FreeCam
    <3> QED BY <2>1, <2>2, <3>1 DEF CamInv, CamExact, Alone
  <2>3. CASE FreeCam # CAM_NUM
    <3>1. cam_map' = cam_map \ {ptk[s]} /\ cam' = [cam EXCEPT ![ptk[s]] = NULL]
      BY <1>2, <1>8, <2>3 DEF DisablePairwiseKey, ClearCam
    <3>2. \A i \in CamIndices \ {ptk[s]} : cam'[i] = cam[i]
      BY <3>1 DEF CamInv
    <3>3. \A t \in Stas : ptk'[t] # NULL => ptk'[t] \in cam_map' /\ cam'[ptk'[t]] = t
      BY <1>4, <2>1, <3>1, <3>2 DEF CamInv, CamExact
    <3>4. \A v \in Vifs : \A i \in gtk'[v] : Alone(v, i) => i \in cam_map' /\ cam'[i] = v
      BY <1>5, <2>1, <3>1, <3>2 DEF CamInv, CamExact
    <3>7. \A i \in cam_map' : i < DEFAULT_KEYS => \E v \in Vifs : cam'[i] = v /\ i \in gtk'[v]
      <4> SUFFICES ASSUME NEW i \in cam_map', i < DEFAULT_KEYS
                   PROVE  \E v \in Vifs : cam'[i] = v /\ i \in gtk'[v]
        OBVIOUS
      <4>1. i \in cam_map /\ cam'[i] = cam[i]
        BY <3>1, <3>2 DEF CamInv
      <4> QED BY <2>1, <4>1 DEF CamInv, CamExact
    <3>5. \A i \in cam_map' : Live(i)'
      <4>1. \A i \in cam_map : Live(i)
        BY <2>3 DEF CamInv, CamExact
      <4> QED BY <2>1, <3>1, <4>1 DEF Live
    <3>6. /\ cam_map' \subseteq CamIndices /\ ptk' \in [Stas -> Pairwise \union {NULL}]
          /\ cam' \in [CamIndices -> Stas \union Vifs \union {NULL}]
      BY <1>4, <2>1, <3>1 DEF CamInv
    <3> QED BY <2>1, <3>3, <3>4, <3>5, <3>6, <3>7 DEF CamInv, CamExact, Alone
  <2> QED BY <2>2, <2>3
<1>9. ASSUME NEW v \in Vifs, NEW i \in GROUP[v], DisableGroupKey(v, i)
      PROVE  CamInv'
  <2>1. /\ gtk' = [gtk EXCEPT ![v] = @ \ {i}] /\ UNCHANGED ptk
        /\ cam_map' = cam_map \ {i} /\ cam' = [cam EXCEPT ![i] = NULL]
        /\ i \in CamIndices /\ i \notin Pairwise
    BY <1>5, <1>9 DEF DisableGroupKey, ClearCam
  <2>2. /\ gtk'[v] = gtk[v] \ {i} /\ \A u \in Vifs \ {v} : gtk'[u] = gtk[u]
        /\ \A j \in CamIndices \ {i} : cam'[j] = cam[j]
    BY <2>1 DEF CamInv
  <2>3. \A t \in Stas : ptk'[t] # NULL => ptk'[t] \in cam_map' /\ cam'[ptk'[t]] = t
    BY <1>4, <2>1, <2>2 DEF CamInv, CamExact
  <2>4. \A u \in Vifs : Alone(u, i) => i \notin gtk'[u]
    BY <2>2 DEF Alone, CamInv
  <2>5. \A u \in Vifs : \A j \in gtk'[u] : Alone(u, j) => j \in cam_map' /\ cam'[j] = u
    <3> SUFFICES ASSUME NEW u \in Vifs, NEW j \in gtk'[u], Alone(u, j)
                 PROVE  j \in cam_map' /\ cam'[j] = u
      OBVIOUS
    <3>1. j # i /\ j \in gtk[u] /\ j \in CamIndices
      BY <2>2, <2>4 DEF CamInv
    <3> QED BY <2>1, <2>2, <3>1 DEF CamInv, CamExact
  <2>8. \A j \in cam_map' : j < DEFAULT_KEYS => \E u \in Vifs : cam'[j] = u /\ j \in gtk'[u]
    <3> SUFFICES ASSUME NEW j \in cam_map', j < DEFAULT_KEYS
                 PROVE  \E u \in Vifs : cam'[j] = u /\ j \in gtk'[u]
      OBVIOUS
    <3>1. j \in cam_map /\ j # i /\ cam'[j] = cam[j]
      BY <2>1, <2>2 DEF CamInv
    <3>2. PICK u \in Vifs : cam[j] = u /\ j \in gtk[u]
      BY <3>1 DEF CamInv, CamExact
    <3> QED BY <2>2, <3>1, <3>2
  <2>6. FreeCam' # CAM_NUM => \A j \in cam_map' : Live(j)'
    <3> SUFFICES ASSUME FreeCam' # CAM_NUM PROVE \A j \in cam_map' : Live(j)'
      OBVIOUS
    <3>1. FreeCam # CAM_NUM
      BY <1>2, <1>3, <2>1
    <3>2. \A j \in cam_map : Live(j)
      BY <3>1 DEF CamInv, CamExact
    <3> QED BY <2>1, <2>2, <3>2 DEF Live
  <2>7. /\ cam_map' \subseteq CamIndices /\ gtk' \in [Vifs -> SUBSET CamIndices]
        /\ cam' \in [CamIndices -> Stas \union Vifs \union {NULL}]
        /\ \A u \in Vifs : gtk'[u] \subseteq GROUP[u]
    BY <2>1, <2>2 DEF CamInv
  <2> QED BY <2>1, <2>3, <2>5, <2>6, <2>7, <2>8 DEF CamInv, CamExact, Alone
<1>10. ASSUME NEW v \in Vifs, NEW t \in Types, AddInterface(v, t) \/ ChangeInterface(v, t)
       PROVE  UNCHANGED keys
  BY <1>10 DEF AddInterface, ChangeInterface
<1>11. ASSUME NEW v \in Vifs, RemoveInterface(v) \/ Associate(v) \/ Disassociate(v)
       PROVE  UNCHANGED keys
  BY <1>11 DEF RemoveInterface, Associate, Disassociate
<1>12. ASSUME NEW s \in Stas, NEW v \in Vifs, NEW tdls \in BOOLEAN, StaAdd(s, v, tdls)
       PROVE  UNCHANGED keys
  BY <1>12 DEF StaAdd
<1>13. ASSUME NEW s \in Stas, RcUpdate(s) \/ StaRemove(s) PROVE UNCHANGED keys
  BY <1>13 DEF RcUpdate, StaRemove
<1>14. RcWorks \/ StaRemoved \/ UNCHANGED vars => UNCHANGED keys
  BY DEF RcWorks, RcWorkStart, RcWork, StaRemoved, vars
<1> QED
  BY <1>1, <1>6, <1>7, <1>8, <1>9, <1>10, <1>11, <1>12, <1>13, <1>14 DEF Next

----------------------------------------------------------------------------
(* The invariant says what the two properties say.                         *)
LEMMA InvGives == ASSUME Inv PROVE MacIdsExact /\ PortsFollowSwitch
<1> USE DEF Inv, On, Added, Joined
<1>1. MacIdsExact
  BY DEF Ids, MacIdsExact, Shares
<1>2. PortsFollowSwitch
  BY DEF PortsOwned, Ap, PortsFollowSwitch
<1> QED
  BY <1>1, <1>2

LEMMA AlwaysInv == ASSUME Hypothesis PROVE Spec => []Inv
<1>1. Init => Inv
  BY InitInv
<1>2. Inv /\ [Next]_vars => Inv'
  BY NextInv
<1> QED
  BY <1>1, <1>2, PTL DEF Spec

(* rtw_acquire_macid, rtw_release_macid: every MAC id in the map is        *)
(* somebody's and, the AP of a STATION interface apart, nobody else's.     *)
THEOREM IdsOwned ==
  ASSUME Hypothesis PROVE Spec => []MacIdsExact
<1>1. Inv => MacIdsExact
  BY InvGives
<1> QED
  BY <1>1, AlwaysInv, PTL

(* rtw_core_port_switch: with ports for the two interfaces mac80211 admits,*)
(* every port in the map is one interface's, an AP is on port 0, and the   *)
(* registers of a port are those of the interface on it.                   *)
THEOREM PortsOwnedAndShown ==
  ASSUME Hypothesis PROVE Spec => []PortsFollowSwitch
<1>1. Inv => PortsFollowSwitch
  BY InvGives
<1> QED
  BY <1>1, AlwaysInv, PTL

(* rtw_core_port_switch, rtw_fw_default_port: the firmware's default port  *)
(* follows the linked interface it stands for to its new port.             *)
THEOREM DefaultPortGoesAlong ==
  ASSUME Hypothesis PROVE Spec => DefaultPortFollows
<1>1. Init => LinkedAdded
  BY DEF Init, LinkedAdded
<1>2. Inv /\ LinkedAdded /\ [Next]_vars => LinkedAdded' /\ Follows
  BY DefaultStep
<1>3. Inv /\ LinkedAdded /\ [Next]_vars =>
        [\A v \in linked : linked' = linked /\ default_port = vif[v].port
           => default_port' = vif'[v].port]_vars
  BY <1>2 DEF Follows
<1> QED
  BY <1>1, <1>2, <1>3, AlwaysInv, PTL DEF Spec, DefaultPortFollows

(* rtw_ops_set_key, rtw_sec_write_cam, rtw_sec_clear_cam: whatever indices *)
(* the interfaces use, the entry of a pairwise key, and of a group key with*)
(* an index of its own, holds that key; one that interfaces share never    *)
(* holds a key taken away; and only a full CAM leaves an entry behind.     *)
THEOREM CamIsExact == Spec => []CamExact
<1>1. Init => CamInv
  BY DEF Init, CamInv, CamExact
<1>2. CamInv /\ [Next]_vars => CamInv'
  BY CamStep
<1>3. CamInv => CamExact
  BY DEF CamInv
<1> QED
  BY <1>1, <1>2, <1>3, PTL DEF Spec

============================================================================
