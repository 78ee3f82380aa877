------------------------------- MODULE MCHost -------------------------------
(***************************************************************************)
(* Three parts that run at different times or do not meet, and must come   *)
(* to an end: register access, TX reports, and probe and disconnect.  A    *)
(* behaviour plays one of them, chosen at the start, and leaves the others *)
(* in their initial state: the state spaces add up instead of multiplying. *)
(***************************************************************************)
EXTENDS UsbCtrl, TxReport, Probe

VARIABLE track

host_vars == <<track, vars, report_vars, probe_vars>>

(* Every register has one bit, which is its own.                           *)
OneBitEach == [r \in Regs |-> {r}]

HostInit ==
  /\ track \in {"ctrl", "report", "probe"}
  /\ Init /\ ReportInit /\ ProbeInit /\ (port3 => track = "probe")

HostNext ==
  \/ track = "ctrl" /\ Next /\ UNCHANGED <<track, report_vars, probe_vars>>
  \/ track = "report" /\ ReportNext /\ UNCHANGED <<track, vars, probe_vars>>
  \/ track = "probe" /\ ProbeNext /\ UNCHANGED <<track, vars, report_vars>>

HostSpec ==
  HostInit /\ [][HostNext]_host_vars /\ Fairness /\ ReportFairness /\ ProbeFairness

----------------------------------------------------------------------------
(* Register accesses, probe and disconnect return (usb.c:98, usb.c:1467).  *)
HostAnswers == AccessReturns /\ ProbeReturns

============================================================================
