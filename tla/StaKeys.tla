------------------------------ MODULE StaKeys ------------------------------
(***************************************************************************)
(* Interfaces, stations and keys (mac80211.c, main.c, sec.c): the driver   *)
(* hands out hardware MAC ids, ports and CAM entries for the objects       *)
(* mac80211 adds and removes.                                              *)
(*                                                                         *)
(* mac80211 calls the operations one at a time, and each runs under        *)
(* rtwdev->mutex from start to end, so it is one action -- except          *)
(* rtw_sta_remove, which waits under the mutex for the rc_work of the      *)
(* station.  Which calls may come (mac80211's side of the contract) is     *)
(* written in the guards marked so.  sta_cnt is the number of stations.    *)
(***************************************************************************)
EXTENDS Integers, FiniteSetsExt

CONSTANTS
  Vifs, Stas, NULL,
  MAC_ID_NUM,   (* RTW_MAX_MAC_ID_NUM, 32                                  *)
  PORT_NUM,     (* RTW_PORT_NUM, 5                                         *)
  CAM_NUM,      (* sec->total_cam_num, 32                                  *)
  DEFAULT_KEYS, (* RTW_SEC_DEFAULT_KEY_NUM, 4: entries of the group keys   *)
  GROUP         (* the key indices (keyidx) each interface uses            *)

ASSUME StaKeysAssumption ==
  /\ NULL \notin Vifs \union Stas /\ NULL \notin Nat /\ Vifs \intersect Stas = {}
  /\ MAC_ID_NUM \in Nat /\ PORT_NUM \in Nat \ {0} /\ CAM_NUM \in Nat
  /\ DEFAULT_KEYS \in Nat /\ DEFAULT_KEYS <= CAM_NUM
  /\ GROUP \in [Vifs -> SUBSET (0..(DEFAULT_KEYS - 1))]

MacIds == 0..(MAC_ID_NUM - 1)
Ports == 0..(PORT_NUM - 1)
CamIndices == 0..(CAM_NUM - 1)
Types == {"sta", "ap", "adhoc", "mesh"}

VifRecord == [type : Types, mac_id : MacIds, port : Ports]
StaRecord == [vif : Vifs, mac_id : MacIds, tdls : BOOLEAN]

ASSUME NullAssumption == NULL \notin VifRecord \union StaRecord

VARIABLES
  mac_id_map, hw_port, cam_map, (* the bitmaps, as sets                    *)
  vif,          (* of each interface: NULL, or [type, mac_id, port]        *)
  linked,       (* interfaces whose net_type is RTW_NET_MGD_LINKED         *)
  reg,          (* of each port: the interface whose address, BSSID,       *)
                (* network type and beacon control its registers hold      *)
  default_port, (* the default port the firmware was told                  *)
  sta,          (* of each station: NULL, or [vif, mac_id, tdls]           *)
  rc_work,      (* stations whose rc_work is pending                       *)
  rc_running,   (* the station whose rc_work runs (it awaits the mutex)    *)
  remover,      (* the station rtw_sta_remove is in cancel_work_sync for   *)
  cam,          (* cam_table: whose key (station or interface) an entry has*)
  ptk,          (* of each station: hw_key_idx of its uploaded key, or NULL*)
  gtk           (* of each interface: key indices uploaded                 *)

ids == <<mac_id_map, hw_port>>
ifaces == <<vif, linked, reg, default_port>>
works == <<rc_work, rc_running>>
keys == <<cam_map, cam, ptk, gtk>>
vars == <<ids, ifaces, sta, works, remover, keys>>

Init ==
  /\ mac_id_map = {} /\ hw_port = {} /\ cam_map = {}
  /\ vif = [v \in Vifs |-> NULL] /\ linked = {}
  /\ reg = [p \in Ports |-> NULL] /\ default_port = NULL
  /\ sta = [s \in Stas |-> NULL]
  /\ rc_work = {} /\ rc_running = NULL /\ remover = NULL
  /\ cam = [i \in CamIndices |-> NULL]
  /\ ptk = [s \in Stas |-> NULL] /\ gtk = [v \in Vifs |-> {}]

(* find_first_zero_bit: n if there is none                                 *)
FirstZero(map, n) == Min((0..n) \ (map \ {n}))

(* The test on what rtw_acquire_macid returned.                            *)
IsMacId(m) == m < MAC_ID_NUM

Unlocked == remover = NULL

StasOf(v) == {s \in Stas : sta[s] # NULL /\ sta[s].vif = v}

----------------------------------------------------------------------------
(* Interfaces                                                              *)

(* mac80211: rtw_iface_combs admits two interfaces, a station and a second *)
(* station (P2P client) or an AP; mesh and ad-hoc stand alone.             *)
Combination(v, t) ==
  LET others == {vif[u].type : u \in {u \in Vifs \ {v} : vif[u] # NULL}}
  IN  Cardinality({u \in Vifs \ {v} : vif[u] # NULL}) <= 1
      /\ (others # {} => others \union {t} \in {{"sta"}, {"sta", "ap"}})

(* Mutants of the switch: only the ports are exchanged, not the registers; *)
(* the firmware is not told.                                               *)
SwitchPortsOnly(v, p, others, regs) ==
  LET u == CHOOSE w \in Vifs : others[w] # NULL /\ others[w].port = 0
  IN  /\ vif' = [others EXCEPT ![v].port = 0, ![u].port = p]
      /\ reg' = regs
      /\ default_port' = IF u \in linked THEN p ELSE default_port

SwitchSilently(v, p, others, regs) ==
  LET u == CHOOSE w \in Vifs : others[w] # NULL /\ others[w].port = 0
  IN  /\ vif' = [others EXCEPT ![v].port = 0, ![u].port = p]
      /\ reg' = [regs EXCEPT ![0] = regs[p], ![p] = regs[0]]
      /\ UNCHANGED default_port

(* rtw_core_port_switch: an AP must be on port 0, and changes places with  *)
(* the interface there (not the AID register, see the README).             *)
PortSwitch(v, p, others, regs) ==
  LET u == CHOOSE w \in Vifs : others[w] # NULL /\ others[w].port = 0
  IN  /\ vif' = [others EXCEPT ![v].port = 0, ![u].port = p]
      /\ reg' = [regs EXCEPT ![0] = regs[p], ![p] = regs[0]]
      /\ default_port' = IF u \in linked THEN p ELSE default_port

(* The interface of type t gets the first free id and port of the maps;    *)
(* without a port the id stays taken.                                      *)
Add(v, t, macids, ports, vifs, regs) ==
  LET m == FirstZero(macids, MAC_ID_NUM)
      p == FirstZero(ports, PORT_NUM)
      ok == IsMacId(m) /\ p < PORT_NUM
      added == [vifs EXCEPT ![v] = [type |-> t, mac_id |-> m, port |-> p]]
      written == [regs EXCEPT ![p] = v]
  IN  /\ mac_id_map' = IF IsMacId(m) THEN macids \union {m} ELSE macids
      /\ hw_port' = IF ok THEN ports \union {p} ELSE ports
      /\ IF ~ok THEN vif' = vifs /\ reg' = regs /\ UNCHANGED default_port
         ELSE IF t = "ap" /\ p # 0 THEN PortSwitch(v, p, added, written)
         ELSE vif' = added /\ reg' = written /\ UNCHANGED default_port

(* rtw_ops_add_interface                                                   *)
AddInterface(v, t) ==
  /\ Unlocked /\ vif[v] = NULL /\ Combination(v, t)
  /\ Add(v, t, mac_id_map, hw_port, vif, reg)
  /\ UNCHANGED <<linked, sta, works, remover, keys>>

(* mac80211: an interface is idle before it is removed or changed.         *)
Idle(v) == vif[v] # NULL /\ v \notin linked /\ StasOf(v) = {} /\ gtk[v] = {}

(* rtw_ops_remove_interface                                                *)
RemoveInterface(v) ==
  /\ Unlocked /\ Idle(v)
  /\ hw_port' = hw_port \ {vif[v].port}
  /\ mac_id_map' = mac_id_map \ {vif[v].mac_id}
  /\ reg' = [reg EXCEPT ![vif[v].port] = NULL]
  /\ vif' = [vif EXCEPT ![v] = NULL]
  /\ UNCHANGED <<linked, default_port, sta, works, remover, keys>>

(* rtw_ops_change_interface removes the interface and adds it again.       *)
ChangeInterface(v, t) ==
  /\ Unlocked /\ Idle(v) /\ Combination(v, t)
  /\ Add(v, t, mac_id_map \ {vif[v].mac_id}, hw_port \ {vif[v].port},
         [vif EXCEPT ![v] = NULL], [reg EXCEPT ![vif[v].port] = NULL])
  /\ UNCHANGED <<linked, sta, works, remover, keys>>

(* rtw_ops_bss_info_changed, BSS_CHANGED_ASSOC: rtw_fw_default_port        *)
Associate(v) ==
  /\ Unlocked /\ vif[v] # NULL /\ vif[v].type = "sta" /\ v \notin linked
  /\ \E s \in StasOf(v) : ~sta[s].tdls
  /\ linked' = linked \union {v}
  /\ default_port' = vif[v].port
  /\ UNCHANGED <<ids, vif, reg, sta, works, remover, keys>>

Disassociate(v) ==
  /\ Unlocked /\ v \in linked
  /\ linked' = linked \ {v}
  /\ UNCHANGED <<ids, vif, reg, default_port, sta, works, remover, keys>>

----------------------------------------------------------------------------
(* Stations                                                                *)

(* A station of a STATION interface shares its MAC id, unless TDLS.        *)
Shares(s) == vif[sta[s].vif].type = "sta" /\ ~sta[s].tdls

(* rtw_sta_add; mac80211 adds one AP to a STATION interface, then peers    *)
StaAdd(s, v, tdls) ==
  /\ Unlocked /\ sta[s] = NULL /\ vif[v] # NULL
  /\ vif[v].type = "sta" => (tdls <=> StasOf(v) # {})
  /\ vif[v].type # "sta" => ~tdls
  /\ LET shared == vif[v].type = "sta" /\ ~tdls
         m == IF shared THEN vif[v].mac_id ELSE FirstZero(mac_id_map, MAC_ID_NUM)
     IN  /\ IsMacId(m)
         /\ sta' = [sta EXCEPT ![s] = [vif |-> v, mac_id |-> m, tdls |-> tdls]]
         /\ mac_id_map' = mac_id_map \union {m}
  /\ UNCHANGED <<hw_port, ifaces, works, remover, keys>>

(* rtw_ops_sta_rc_update, from any context, while the station is known     *)
RcUpdate(s) ==
  /\ sta[s] # NULL /\ remover # s
  /\ rc_work' = rc_work \union {s}
  /\ UNCHANGED <<ids, ifaces, sta, rc_running, remover, keys>>

(* rtw_sta_rc_work starts, and comes to mutex_lock.                        *)
RcWorkStart ==
  /\ rc_running = NULL
  /\ \E s \in rc_work : rc_running' = s /\ rc_work' = rc_work \ {s}
  /\ UNCHANGED <<ids, ifaces, sta, remover, keys>>

RcWork ==
  /\ rc_running # NULL /\ Unlocked
  /\ rc_running' = NULL
  /\ UNCHANGED <<ids, ifaces, sta, rc_work, remover, keys>>

(* rtw_ops_sta_remove, under the mutex: rtw_sta_remove first waits for the *)
(* station's rc_work.  mac80211 has removed its key.                       *)
StaRemove(s) ==
  /\ Unlocked /\ sta[s] # NULL /\ ptk[s] = NULL
  /\ remover' = s
  /\ UNCHANGED <<ids, ifaces, sta, works, keys>>

(* Mutant: the id is released in any case.                                 *)
StaReleaseAlways ==
  /\ remover # NULL /\ rc_running # remover
  /\ remover' = NULL /\ rc_work' = rc_work \ {remover}
  /\ mac_id_map' = mac_id_map \ {sta[remover].mac_id}
  /\ sta' = [sta EXCEPT ![remover] = NULL]
  /\ UNCHANGED <<hw_port, ifaces, rc_running, keys>>

(* cancel_work_sync returns, the station is torn down, the mutex released. *)
StaRemoved ==
  /\ remover # NULL /\ rc_running # remover
  /\ remover' = NULL /\ rc_work' = rc_work \ {remover}
  /\ mac_id_map' = mac_id_map \ IF Shares(remover) THEN {} ELSE {sta[remover].mac_id}
  /\ sta' = [sta EXCEPT ![remover] = NULL]
  /\ UNCHANGED <<hw_port, ifaces, rc_running, keys>>

----------------------------------------------------------------------------
(* rtw_ops_set_key: keys of a mesh interface stay in software.             *)

(* Mutant: the search for a free entry starts at 0.                        *)
FreeCamAny == FirstZero(cam_map, CAM_NUM)

(* rtw_sec_get_free_cam: the first entries belong to the group keys.       *)
FreeCam == FirstZero(cam_map \union (0..(DEFAULT_KEYS - 1)), CAM_NUM)

(* rtw_sec_write_cam                                                       *)
WriteCam(i, owner) ==
  /\ cam_map' = cam_map \union {i}
  /\ cam' = [cam EXCEPT ![i] = owner]

(* rtw_sec_clear_cam                                                       *)
ClearCam(i) ==
  /\ cam_map' = cam_map \ {i}
  /\ cam' = [cam EXCEPT ![i] = NULL]

(* SET_KEY; -ENOSPC (the key stays in software) if there is no entry       *)
SetPairwiseKey(s) ==
  /\ Unlocked /\ sta[s] # NULL /\ ptk[s] = NULL
  /\ vif[sta[s].vif].type # "mesh"
  /\ FreeCam < CAM_NUM
  /\ ptk' = [ptk EXCEPT ![s] = FreeCam]
  /\ WriteCam(FreeCam, s)
  /\ UNCHANGED <<ids, ifaces, sta, works, remover, gtk>>

SetGroupKey(v, i) ==
  /\ Unlocked /\ vif[v] # NULL /\ vif[v].type # "mesh"
  /\ i \in GROUP[v] \ gtk[v]
  /\ gtk' = [gtk EXCEPT ![v] = @ \union {i}]
  /\ WriteCam(i, v)
  /\ UNCHANGED <<ids, ifaces, sta, works, remover, ptk>>

(* DISABLE_KEY of a pairwise key also looks for a free entry, and fails    *)
(* with -ENOSPC if there is none; for mac80211 the key is gone either way. *)
DisablePairwiseKey(s) ==
  /\ Unlocked /\ ptk[s] # NULL
  /\ ptk' = [ptk EXCEPT ![s] = NULL]
  /\ IF FreeCam < CAM_NUM THEN ClearCam(ptk[s]) ELSE UNCHANGED <<cam_map, cam>>
  /\ UNCHANGED <<ids, ifaces, sta, works, remover, gtk>>

DisableGroupKey(v, i) ==
  /\ Unlocked /\ i \in gtk[v]
  /\ gtk' = [gtk EXCEPT ![v] = @ \ {i}]
  /\ ClearCam(i)
  /\ UNCHANGED <<ids, ifaces, sta, works, remover, ptk>>

----------------------------------------------------------------------------
RcWorks == RcWorkStart \/ RcWork

Next ==
  \/ \E v \in Vifs, t \in Types : AddInterface(v, t) \/ ChangeInterface(v, t)
  \/ \E v \in Vifs : RemoveInterface(v) \/ Associate(v) \/ Disassociate(v)
  \/ \E s \in Stas, v \in Vifs, tdls \in BOOLEAN : StaAdd(s, v, tdls)
  \/ \E s \in Stas : RcUpdate(s) \/ StaRemove(s)
  \/ RcWorks \/ StaRemoved
  \/ \E s \in Stas : SetPairwiseKey(s) \/ DisablePairwiseKey(s)
  \/ \E v \in Vifs : \E i \in GROUP[v] : SetGroupKey(v, i) \/ DisableGroupKey(v, i)

Spec == Init /\ [][Next]_vars

(* The work queue runs, and so does a removal that can go on.              *)
FairSpec == Spec /\ WF_vars(RcWorks) /\ WF_vars(StaRemoved)

----------------------------------------------------------------------------
(* Every variable has its type.                                            *)
TypeOK ==
  /\ mac_id_map \subseteq MacIds /\ hw_port \subseteq Ports
  /\ cam_map \subseteq CamIndices
  /\ vif \in [Vifs -> VifRecord \union {NULL}]
  /\ linked \subseteq Vifs /\ reg \in [Ports -> Vifs \union {NULL}]
  /\ default_port \in Ports \union {NULL}
  /\ sta \in [Stas -> StaRecord \union {NULL}]
  /\ rc_work \subseteq Stas /\ rc_running \in Stas \union {NULL}
  /\ remover \in Stas \union {NULL}
  /\ cam \in [CamIndices -> Stas \union Vifs \union {NULL}]
  /\ ptk \in [Stas -> CamIndices \union {NULL}]
  /\ gtk \in [Vifs -> SUBSET CamIndices]

Added == {v \in Vifs : vif[v] # NULL}
Joined == {s \in Stas : sta[s] # NULL}

(* The MAC ids in use are exactly those of the interfaces and stations, so *)
(* none is lost, and only the AP of a STATION interface shares one.        *)
MacIdsExact ==
  /\ mac_id_map = {vif[v].mac_id : v \in Added} \union {sta[s].mac_id : s \in Joined}
  /\ \A u, v \in Added : vif[u].mac_id = vif[v].mac_id => u = v
  /\ \A s \in Joined : IF Shares(s)
       THEN sta[s].mac_id = vif[sta[s].vif].mac_id
       ELSE /\ \A v \in Added : sta[s].mac_id # vif[v].mac_id
            /\ \A t \in Joined \ {s} : sta[s].mac_id # sta[t].mac_id

(* Each interface has a port of its own whose registers hold its settings, *)
(* an AP has port 0, and no other port is taken, also after a switch.      *)
PortsFollowSwitch ==
  /\ hw_port = {vif[v].port : v \in Added}
  /\ \A v \in Added : reg[vif[v].port] = v
  /\ \A v \in Added : vif[v].type = "ap" => vif[v].port = 0

(* The firmware's default port goes along with the linked interface it     *)
(* stands for, when that changes ports.                                    *)
DefaultPortFollows ==
  [][\A v \in linked : linked' = linked /\ default_port = vif[v].port
       => default_port' = vif'[v].port]_vars

(* An entry in use belongs to an uploaded key.                             *)
Live(i) == (\E s \in Stas : ptk[s] = i) \/ (\E v \in Vifs : i \in gtk[v])

(* No other interface uses that index for a group key.                     *)
Alone(v, i) == \A u \in Vifs \ {v} : i \notin GROUP[u]

(* The entry of an uploaded key is valid and holds that key, no other key  *)
(* has overwritten or cleared it -- but for a group key whose index another*)
(* interface uses too ("multiple interfaces?", mac80211.c:644): its entry  *)
(* holds the key of an interface that has one, and never one taken away, or*)
(* nothing.  An entry outlives its key only if no pairwise entry was left  *)
(* (and then none ever is again).                                          *)
CamExact ==
  /\ \A s \in Stas : ptk[s] # NULL => ptk[s] \in cam_map /\ cam[ptk[s]] = s
  /\ \A v \in Vifs : \A i \in gtk[v] : Alone(v, i) => i \in cam_map /\ cam[i] = v
  /\ \A i \in cam_map : i < DEFAULT_KEYS => \E v \in Vifs : cam[i] = v /\ i \in gtk[v]
  /\ FreeCam # CAM_NUM => \A i \in cam_map : Live(i)

(* The removal of a station ends.                                          *)
RemovalEnds == remover # NULL ~> remover = NULL

============================================================================
