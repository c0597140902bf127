----------------------------- MODULE PlaneClaims -----------------------------
(***************************************************************************)
(* Statements the repository makes of the control plane - in a docstring,  *)
(* a comment, the runbook or a test - that its code over PgStore does not  *)
(* keep.  Each has a run of its own in which TLC shows how.                *)
(***************************************************************************)
EXTENDS ControlPlane

\* test_control_plane.py, a cancelled intent cannot be confirmed: once the customer was
\* told CANCELLED, nothing is paid.
CancelledMeansNotPaid ==
  \A i \in Intents : in_state(i, "CANCELLED") => ~paid(i)

\* runbook.md: FAILED after reconcile means nothing was debited.
FailedMeansNotPaid ==
  \A i \in Intents : in_state(i, "FAILED") => ~paid(i)

\* store.py, unsettled: the boot sweep finds what the last process left mid-flight - so
\* once the servers are up and idle, nothing is half executed.
NothingLeftMidFlight ==
  \A i \in Intents :
    /\ \A p \in Servers : up[p]
    /\ \A w \in Workers : pc[w] = "idle"
    => ~in_state(i, "AUTHORIZED") /\ ~in_state(i, "SUBMITTED")
=============================================================================
