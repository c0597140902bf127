---------------------------- MODULE PolicyTable ----------------------------
(***************************************************************************)
(* The policy of Policy.tla asked over and over about one PIX, while hours *)
(* pass, the customer authenticates and the recipient becomes a known one: *)
(* the rules against the README's table, on every boundary amount.         *)
(***************************************************************************)
EXTENDS Policy

CONSTANTS
  Recipients,
  Amounts       \* amounts, in centavos

ASSUME AmountsAssumption == Amounts \subseteq Nat

VARIABLES action, device_trusted, paid_before, assurance, utc

vars == <<action, device_trusted, paid_before, assurance, utc>>

Action == [recipient : Recipients, amount : Amounts]
Rank == [REQUIRE_CONFIRMATION |-> 0, REQUIRE_STEP_UP_AUTH |-> 1, DENY |-> 2]

\* _decide: risk, then policy.
verdict(a) == evaluate(a, assurance, assess_risk(a, device_trusted, paid_before), utc)

Init ==
  /\ action \in Action
  /\ device_trusted \in BOOLEAN
  /\ paid_before = {}
  /\ assurance = "medium"
  /\ utc \in 0 .. 23

StepUp ==
  /\ verdict(action) = "REQUIRE_STEP_UP_AUTH"
  /\ assurance' = "strong"
  /\ UNCHANGED <<action, device_trusted, paid_before, utc>>

\* The customer pays the recipient in another conversation turn (create_pix).
PaidBefore ==
  /\ action.recipient \notin paid_before
  /\ paid_before' = paid_before \cup {action.recipient}
  /\ UNCHANGED <<action, device_trusted, assurance, utc>>

HourPasses ==
  /\ utc' = (utc + 1) % 24
  /\ UNCHANGED <<action, device_trusted, paid_before, assurance>>

Next == StepUp \/ PaidBefore \/ HourPasses

Spec == Init /\ [][Next]_vars

-----------------------------------------------------------------------------
\* 20h to 06h in Sao Paulo, as UTC hours.
NightInUTC == {23} \cup 0 .. 8

\* Two of the three risk signals together make the risk high: in R$, more than 500.
RiskSignals ==
  {s \in {"new_recipient", "unusual_amount", "untrusted_device"} :
     \/ s = "new_recipient" /\ action.recipient \notin paid_before
     \/ s = "unusual_amount" /\ action.amount > 50000
     \/ s = "untrusted_device" /\ ~device_trusted}

HighRisk == \E s, t \in RiskSignals : s # t

\* The README's policy table, read row by row with the amounts in R$ and the window on a
\* Sao Paulo clock, gives what evaluate gives.
FollowsTheTable ==
  LET step_up == IF assurance = "strong" THEN "REQUIRE_CONFIRMATION"
                 ELSE "REQUIRE_STEP_UP_AUTH"
      large == action.amount > 100000 /\ action.amount <= 500000
  IN  /\ action.amount > 500000                => verdict(action) = "DENY"
      /\ large /\ utc \in NightInUTC           => verdict(action) = "DENY"
      /\ large /\ utc \notin NightInUTC        => verdict(action) = step_up
      /\ action.amount <= 100000 /\ HighRisk  => verdict(action) = step_up
      /\ action.amount <= 100000 /\ ~HighRisk => verdict(action) = "REQUIRE_CONFIRMATION"

\* A denial reachable only after authenticating is a trap (evaluate orders its rules so
\* that there is none): within the hour, a step-up that was asked for is enough.
StepUpIsEnough ==
  [][StepUp => verdict(action)' = "REQUIRE_CONFIRMATION"]_vars

\* Everything else equal, less money is never treated more strictly (evaluate with
\* assess_risk: every threshold on the amount points the same way).
SmallerIsNeverStricter ==
  \A less \in Amounts : less <= action.amount =>
    Rank[verdict([action EXCEPT !.amount = less])] <= Rank[verdict(action)]
=============================================================================
