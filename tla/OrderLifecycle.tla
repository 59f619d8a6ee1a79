--------------------------- MODULE OrderLifecycle ---------------------------
(***************************************************************************)
(* The order lifecycle that StateMachine::process_event enforces, as       *)
(* operators on statuses: which event is accepted in which status, and     *)
(* where it leads.  Used by every module that feeds events to orders.      *)
(***************************************************************************)

\* OrderStatus, and the absence of an entry in active_orders.
Status == {"Pending", "Submitted", "Partial", "Filled", "Rejected", "Canceled"}
Absent == "Absent"

\* EventSource: the venue's three answers and the coordinator's two.
EventKind == {"ack", "fill", "reject", "timeout", "cancel"}

\* OrderStatus::is_terminal
IsTerminal(s) == s \in {"Filled", "Rejected", "Canceled"}

\* Mutant: an ACK is accepted in every status.
AcceptsAnyAck(s, kind) == kind = "fill" => s \in {"Submitted", "Partial"}

(***************************************************************************)
(* The guards of process_event: an ACK needs a pending order, a fill a     *)
(* submitted or partly filled one; a reject, a timeout and a cancel are    *)
(* accepted in every status, the terminal ones included.                   *)
(***************************************************************************)
Accepts(s, kind) ==
  /\ kind = "ack"  => s = "Pending"
  /\ kind = "fill" => s \in {"Submitted", "Partial"}

(***************************************************************************)
(* The statuses an accepted event can lead to.  A fill leads to Filled     *)
(* when the accumulated size reaches the order's size.                     *)
(***************************************************************************)
Leads(kind) ==
  {s \in Status : \/ kind = "ack" /\ s = "Submitted"
                  \/ kind = "fill" /\ s \in {"Partial", "Filled"}
                  \/ kind = "reject" /\ s = "Rejected"
                  \/ kind \in {"timeout", "cancel"} /\ s = "Canceled"}

=============================================================================
