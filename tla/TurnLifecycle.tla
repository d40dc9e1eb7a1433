--------------------------- MODULE TurnLifecycle ---------------------------
(***************************************************************************)
(* What ChatHost promises the native window about chat turns, with every    *)
(* detail of inference, tools, approvals and transport left out.            *)
(*                                                                         *)
(* A turn first reserves the single turn slot, is then either accepted      *)
(* (and runs) or refused, reports at most one terminal status while it      *)
(* runs, and only then ends and frees the slot.  A report may be lost, but  *)
(* only because the transport failed or stalled.                            *)
(***************************************************************************)
CONSTANTS Turns,      \* turn identifiers
          NoTurn      \* the empty turn slot, which is no turn

Phases   == {"idle", "reserved", "running", "ended", "refused"}
Statuses == {"completed", "cancelled", "failed"}
Reports  == Statuses \cup {"none", "lost"}

VARIABLES slot,       \* the turn that owns the coordinator, or NoTurn
          phase,      \* phase[t]: where turn t is in its life
          report      \* report[t]: the terminal status sent for t

vars == <<slot, phase, report>>

TypeOK ==
  /\ slot \in Turns \cup {NoTurn}
  /\ phase \in [Turns -> Phases]
  /\ report \in [Turns -> Reports]

Init ==
  /\ slot = NoTurn
  /\ phase = [t \in Turns |-> "idle"]
  /\ report = [t \in Turns |-> "none"]

Reserve(t) ==
  /\ slot = NoTurn
  /\ phase[t] = "idle"
  /\ slot' = t
  /\ phase' = [phase EXCEPT ![t] = "reserved"]
  /\ UNCHANGED report

Accept(t) ==
  /\ phase[t] = "reserved"
  /\ phase' = [phase EXCEPT ![t] = "running"]
  /\ UNCHANGED <<slot, report>>

Refuse(t) ==
  /\ phase[t] = "reserved"
  /\ phase' = [phase EXCEPT ![t] = "refused"]
  /\ slot' = NoTurn
  /\ UNCHANGED report

\* The transport decides whether a terminal status arrives or is lost.
Report(t) ==
  /\ phase[t] = "running"
  /\ report[t] = "none"
  /\ \E r \in Reports \ {"none"} : report' = [report EXCEPT ![t] = r]
  /\ UNCHANGED <<slot, phase>>

End(t) ==
  /\ phase[t] = "running"
  /\ report[t] # "none"
  /\ phase' = [phase EXCEPT ![t] = "ended"]
  /\ slot' = NoTurn
  /\ UNCHANGED report

Next == \E t \in Turns : Reserve(t) \/ Accept(t) \/ Refuse(t) \/ Report(t) \/ End(t)

Spec == Init /\ [][Next]_vars
=============================================================================
