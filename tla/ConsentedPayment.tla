-------------------------- MODULE ConsentedPayment --------------------------
(***************************************************************************)
(* What the control plane promises about money, without saying how: an     *)
(* action is offered to the customer only within the limits and, if it is  *)
(* large, only after authentication; the customer agrees to what was       *)
(* offered; money moves for what was agreed, once per intent, for good.    *)
(***************************************************************************)
EXTENDS Integers

CONSTANTS
  Intents, Actions, Receipts,   \* a receipt names the action the bank carried out
  Ceiling,                      \* no larger amount is ever offered
  StepUpAbove,                  \* a larger amount needs authentication first
  None

VARIABLES authenticated, offered, agreed, moved

vars == <<authenticated, offered, agreed, moved>>

Init ==
  /\ authenticated = {}
  /\ offered = [i \in Intents |-> {}]
  /\ agreed = [i \in Intents |-> {}]
  /\ moved = [i \in Intents |-> None]

Authenticate(i) ==
  /\ authenticated' = authenticated \cup {i}
  /\ UNCHANGED <<offered, agreed, moved>>

Offer(i, action) ==
  /\ action.amount <= Ceiling
  /\ action.amount > StepUpAbove => i \in authenticated
  /\ offered' = [offered EXCEPT ![i] = @ \cup {action}]
  /\ UNCHANGED <<authenticated, agreed, moved>>

Agree(i) ==
  /\ \E action \in offered[i] : agreed' = [agreed EXCEPT ![i] = @ \cup {action}]
  /\ UNCHANGED <<authenticated, offered, moved>>

Move(i, receipt) ==
  /\ moved[i] = None
  /\ receipt.action \in agreed[i]
  /\ moved' = [moved EXCEPT ![i] = receipt]
  /\ UNCHANGED <<authenticated, offered, agreed>>

Next ==
  \E i \in Intents :
    \/ Authenticate(i)
    \/ \E action \in Actions : Offer(i, action)
    \/ Agree(i)
    \/ \E receipt \in Receipts : Move(i, receipt)

Spec == Init /\ [][Next]_vars
=============================================================================
