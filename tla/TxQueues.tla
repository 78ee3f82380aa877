------------------------------ MODULE TxQueues ------------------------------
(***************************************************************************)
(* The software queues of the stations: mac80211 puts frames in and wakes  *)
(* the driver, which lists the queue and empties those listed, from tx_work*)
(* or, for voice, at once in the caller (mac80211.c, tx.c).  A queue worth *)
(* aggregating asks for a block ack session through ba_work (main.c).      *)
(*                                                                         *)
(* mac80211's side of a session is external: it may be refused for good    *)
(* (-EINVAL) or for now, holds the queue's frames back while it ends, and  *)
(* wakes the queue when it lets them go.                                   *)
(***************************************************************************)
EXTENDS Integers, Sequences, FiniteSets, SequencesExt

CONSTANTS
  Txqs,         (* queues: one station and TID each                          *)
  Voice,        (* those of AC_VO                                            *)
  MAX_FRAMES,   (* bound: frames that arrive                                 *)
  MAX_SESSIONS  (* bound: sessions mac80211 starts                           *)

NOBODY == "nobody"

VARIABLES
  depth,        (* frames in a queue                                         *)
  waking,       (* queues whose wake is on its way                           *)
  held_back,    (* mac80211 dequeues nothing from them                       *)
  txqs,         (* rtwdev->txqs, the list                                    *)
  tx_work,      (* queued                                                    *)
  lock, walk,   (* txq_lock: who holds it, and what he has still to visit    *)
  frame_cnt,    (* the depth he found when he came to the first of these     *)
  direct,       (* a waker of a voice queue is about to empty the queues     *)
  ampdu, block_ba, tid_ba,  (* RTW_TXQ_AMPDU, RTW_TXQ_BLOCK_BA, si->tid_ba   *)
  ba_work,      (* "idle", "queued", "runs" or "requeued"                    *)
  session,      (* mac80211's: "none", "asked", "up", "ending"               *)
  arrived, sessions

ba_vars == <<ampdu, block_ba, tid_ba, ba_work, session, sessions, held_back>>
txq_vars == <<depth, waking, txqs, tx_work, lock, walk, frame_cnt, direct, ba_vars,
              arrived>>

Init ==
  /\ depth = [q \in Txqs |-> 0] /\ waking = {} /\ held_back = {} /\ txqs = <<>>
  /\ tx_work = FALSE /\ lock = NOBODY /\ walk = <<>> /\ frame_cnt = -1 /\ direct = 0
  /\ ampdu = {} /\ block_ba = {} /\ tid_ba = {} /\ ba_work = "idle"
  /\ session = [q \in Txqs |-> "none"] /\ arrived = 0 /\ sessions = 0

(* ieee80211_queue_skb; its drv_wake_tx_queue follows.                     *)
Arrive(q) ==
  /\ arrived < MAX_FRAMES /\ arrived' = arrived + 1
  /\ depth' = [depth EXCEPT ![q] = @ + 1] /\ waking' = waking \cup {q}
  /\ UNCHANGED <<txqs, tx_work, lock, walk, frame_cnt, direct, ba_vars>>

WakeUnlocked(q) ==
  /\ q \in waking
  /\ waking' = waking \ {q}
  /\ txqs' = IF q \in ToSet(txqs) THEN txqs ELSE Append(txqs, q)
  /\ IF q \in Voice THEN direct' = direct + 1 /\ UNCHANGED tx_work
                    ELSE tx_work' = TRUE /\ UNCHANGED direct
  /\ UNCHANGED <<depth, lock, walk, frame_cnt, ba_vars, arrived>>

(* rtw_ops_wake_tx_queue, up to the release of txq_lock; then the work is  *)
(* queued, or __rtw_tx_work called.                                        *)
Wake(q) ==
  /\ q \in waking /\ lock = NOBODY
  /\ waking' = waking \ {q}
  /\ txqs' = IF q \in ToSet(txqs) THEN txqs ELSE Append(txqs, q)
  /\ IF q \in Voice THEN direct' = direct + 1 /\ UNCHANGED tx_work
                    ELSE tx_work' = TRUE /\ UNCHANGED direct
  /\ UNCHANGED <<depth, lock, walk, frame_cnt, ba_vars, arrived>>

----------------------------------------------------------------------------
(* __rtw_tx_work, with txq_lock held throughout.                           *)
BeginWork ==
  /\ tx_work /\ lock = NOBODY
  /\ tx_work' = FALSE /\ lock' = "work" /\ walk' = txqs /\ frame_cnt' = -1
  /\ UNCHANGED <<depth, waking, txqs, direct, ba_vars, arrived>>

BeginDirect ==
  /\ direct > 0 /\ lock = NOBODY
  /\ direct' = direct - 1 /\ lock' = "waker" /\ walk' = txqs /\ frame_cnt' = -1
  /\ UNCHANGED <<depth, waking, txqs, tx_work, ba_vars, arrived>>

(* ieee80211_txq_get_depth                                                 *)
CountFrames ==
  /\ lock # NOBODY /\ walk # <<>> /\ frame_cnt = -1
  /\ frame_cnt' = depth[walk[1]]
  /\ UNCHANGED <<depth, waking, txqs, tx_work, lock, walk, direct, ba_vars, arrived>>

QueueBaWork == ba_work' = CASE ba_work = "idle" -> "queued" [] ba_work = "runs" -> "requeued"
                            [] OTHER -> ba_work

(* rtw_txq_check_agg: a session, unless there is one or will be none.      *)
CheckAgg(q) ==
  IF q \in ampdu \/ q \in Voice \/ q \in block_ba
  THEN UNCHANGED <<tid_ba, ba_work>>
  ELSE tid_ba' = tid_ba \cup {q} /\ QueueBaWork

(* rtw_txq_push, a frame: rtw_txq_dequeue, rtw_txq_push_skb.  Keys of a    *)
(* handshake ask for no session.                                           *)
PushFrame ==
  /\ lock # NOBODY /\ walk # <<>> /\ frame_cnt > 0
  /\ LET q == walk[1]
     IN  /\ depth[q] > 0 /\ q \notin held_back
         /\ depth' = [depth EXCEPT ![q] = @ - 1]
         /\ CheckAgg(q) \/ UNCHANGED <<tid_ba, ba_work>>
  /\ frame_cnt' = frame_cnt - 1
  /\ UNCHANGED <<waking, txqs, tx_work, lock, walk, direct, ampdu, block_ba, session, sessions,
                 held_back, arrived>>

(* The next queue, when all are pushed or no more come out.                *)
Delist ==
  /\ lock # NOBODY /\ walk # <<>>
  /\ frame_cnt = 0 \/ (frame_cnt > 0 /\ (depth[walk[1]] = 0 \/ walk[1] \in held_back))
  /\ \E i \in DOMAIN txqs : txqs[i] = walk[1] /\ txqs' = RemoveAt(txqs, i)
  /\ walk' = Tail(walk) /\ frame_cnt' = -1
  /\ UNCHANGED <<depth, waking, tx_work, lock, direct, ba_vars, arrived>>

EndWork ==
  /\ lock # NOBODY /\ walk = <<>> /\ lock' = NOBODY
  /\ UNCHANGED <<depth, waking, txqs, tx_work, walk, frame_cnt, direct, ba_vars, arrived>>

----------------------------------------------------------------------------
(* rtw_txq_ba_work: for each TID asked for, the bit is cleared and then    *)
(* mac80211 asked; what is asked for again meanwhile is seen, too, or the  *)
(* work is queued again.                                                   *)
BaWorkBegin ==
  /\ ba_work = "queued" /\ ba_work' = "runs"
  /\ UNCHANGED <<depth, waking, txqs, tx_work, lock, walk, frame_cnt, direct, ampdu, block_ba,
                 tid_ba, session, sessions, held_back, arrived>>

StartSession(q) ==
  /\ ba_work \in {"runs", "requeued"} /\ q \in tid_ba /\ tid_ba' = tid_ba \ {q}
  /\ \/ session[q] = "none" /\ sessions < MAX_SESSIONS /\ sessions' = sessions + 1
        /\ session' = [session EXCEPT ![q] = "asked"] /\ UNCHANGED block_ba
     \/ block_ba' = block_ba \cup {q} /\ UNCHANGED <<session, sessions>>
     \/ UNCHANGED <<block_ba, session, sessions>>
  /\ UNCHANGED <<depth, waking, txqs, tx_work, lock, walk, frame_cnt, direct, ampdu, ba_work,
                 held_back, arrived>>

BaWorkEnd ==
  /\ \/ ba_work = "requeued" /\ ba_work' = "queued"
     \/ ba_work = "runs" /\ tid_ba = {} /\ ba_work' = "idle"
  /\ UNCHANGED <<depth, waking, txqs, tx_work, lock, walk, frame_cnt, direct, ampdu, block_ba,
                 tid_ba, session, sessions, held_back, arrived>>

----------------------------------------------------------------------------
Others == UNCHANGED <<depth, txqs, tx_work, lock, walk, frame_cnt, direct, block_ba, tid_ba,
                      ba_work, sessions, arrived>>

(* mac80211: the peer agrees (rtw_ops_ampdu_action, TX_OPERATIONAL); it    *)
(* does not, or either ends the session, and frames are held back until    *)
(* the driver has let go of it (TX_STOP_CONT, _FLUSH, _FLUSH_CONT).        *)
Operational(q) ==
  /\ session[q] = "asked" /\ session' = [session EXCEPT ![q] = "up"]
  /\ ampdu' = ampdu \cup {q} /\ UNCHANGED <<held_back, waking>> /\ Others

EndSession(q) ==
  /\ session[q] \in {"asked", "up"} /\ session' = [session EXCEPT ![q] = "ending"]
  /\ held_back' = held_back \cup {q} /\ UNCHANGED <<ampdu, waking>> /\ Others

StopSession(q) ==
  /\ session[q] = "ending" /\ session' = [session EXCEPT ![q] = "none"]
  /\ ampdu' = ampdu \ {q}
  /\ held_back' = held_back \ {q} /\ waking' = waking \cup {q} /\ Others

Next ==
  \/ \E q \in Txqs : Arrive(q) \/ Wake(q) \/ StartSession(q)
                     \/ Operational(q) \/ EndSession(q) \/ StopSession(q)
  \/ BeginWork \/ BeginDirect \/ CountFrames \/ PushFrame \/ Delist \/ EndWork
  \/ BaWorkBegin \/ BaWorkEnd

Spec == Init /\ [][Next]_txq_vars

----------------------------------------------------------------------------
(* A frame mac80211 would give out is in a queue that is about to be       *)
(* woken, or listed with a pass to come or under way that has not left it  *)
(* (mac80211.c:43, tx.c:711).                                              *)
NoneForgotten ==
  \A q \in Txqs : (depth[q] > 0 /\ q \notin held_back) =>
    \/ q \in waking
    \/ q \in ToSet(txqs) /\ (tx_work \/ direct > 0 \/ (lock # NOBODY /\ q \in ToSet(walk)))

(* A request for a session is one ba_work will still see, and a queue      *)
(* whose frames are marked for aggregation has a session or had one a      *)
(* moment ago (main.c:708, tx.c:638, mac80211.c:710).                      *)
SessionsAgree ==
  /\ tid_ba # {} => ba_work # "idle"
  /\ \A q \in ampdu : session[q] \in {"up", "ending"}

============================================================================
