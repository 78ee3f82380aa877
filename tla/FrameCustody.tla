---------------------------- MODULE FrameCustody ----------------------------
(***************************************************************************)
(* What the driver owes mac80211 for every frame it accepts: it may go on  *)
(* air once, it is given back once with one outcome, and "acknowledged" is *)
(* said only of a frame that has been on air.                              *)
(***************************************************************************)
CONSTANT Frames
VARIABLES accepted, on_air, outcome

vars == <<accepted, on_air, outcome>>

Init == accepted = {} /\ on_air = {} /\ outcome = [f \in Frames |-> "none"]

InCustody(f) == f \in accepted /\ outcome[f] = "none"

Accept(f) ==
  /\ f \notin accepted
  /\ accepted' = accepted \union {f}
  /\ UNCHANGED <<on_air, outcome>>

Transmit(S) ==
  /\ \A f \in S : InCustody(f) /\ f \notin on_air
  /\ on_air' = on_air \union S
  /\ UNCHANGED <<accepted, outcome>>

GiveBack(S, how) ==
  /\ \A f \in S : InCustody(f)
  /\ how = "ack" => S \subseteq on_air
  /\ outcome' = [f \in Frames |-> IF f \in S THEN how ELSE outcome[f]]
  /\ UNCHANGED <<accepted, on_air>>

Next ==
  \/ \E f \in Frames : Accept(f)
  \/ \E S \in SUBSET Frames : Transmit(S)
  \/ \E S \in SUBSET Frames, how \in {"ack", "noack", "free"} : GiveBack(S, how)

Spec == Init /\ [][Next]_vars

============================================================================
