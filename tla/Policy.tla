------------------------------- MODULE Policy -------------------------------
(***************************************************************************)
(* Risk and policy of src/control_plane/policy.py as pure operators: what  *)
(* a PIX needs before it may run.  Amounts are centavos; a risk score is   *)
(* counted in tenths; an instant is reduced to its UTC hour.               *)
(***************************************************************************)
EXTENDS Integers

\* The assurance ladder, and what a step-up grants: its top.
ASSURANCE_RANK == [low |-> 0, medium |-> 1, strong |-> 2]
Assurance == DOMAIN ASSURANCE_RANK

Decision == {"ALLOW", "DENY", "REQUIRE_CONFIRMATION", "REQUIRE_STEP_UP_AUTH"}

STEP_UP_ABOVE == 100000
HARD_LIMIT    == 500000
NIGHT_LIMIT   == 100000
UNUSUAL_ABOVE == 50000
NIGHT_START_HOUR == 20
NIGHT_END_HOUR   == 6

\* The hour on a Sao Paulo clock (UTC-3, no DST) of a UTC hour.
br_hour(utc) == (utc + 21) % 24

\* Mutant: the hour is read on a UTC clock.
is_nighttime_in_utc(utc) == utc >= NIGHT_START_HOUR \/ utc < NIGHT_END_HOUR

is_nighttime(utc) ==
  \/ br_hour(utc) >= NIGHT_START_HOUR
  \/ br_hour(utc) < NIGHT_END_HOUR

\* Mutant: the comparison with the usual amount is turned round.
score_of_the_usual(action, device_trusted, known_recipients) ==
    (IF action.recipient \notin known_recipients THEN 3 ELSE 0)
  + (IF action.amount <= UNUSUAL_ABOVE           THEN 4 ELSE 0)
  + (IF ~device_trusted                          THEN 3 ELSE 0)

\* The mocked engine: three Boolean signals with fixed weights, in tenths.
score(action, device_trusted, known_recipients) ==
    (IF action.recipient \notin known_recipients THEN 3 ELSE 0)
  + (IF action.amount > UNUSUAL_ABOVE            THEN 4 ELSE 0)
  + (IF ~device_trusted                          THEN 3 ELSE 0)

assess_risk(action, device_trusted, known_recipients) ==
  LET s == score(action, device_trusted, known_recipients)
  IN  IF s >= 6 THEN "high" ELSE IF s >= 3 THEN "medium" ELSE "low"

\* CAPABILITIES["CREATE_PIX"].
CREATE_PIX == [requires_confirmation |-> TRUE, required_assurance |-> "medium"]

\* Mutant: the amount alone asks for nothing.
needs_strong_by_risk(action, risk) == risk = "high"

needs_strong(action, risk) == action.amount > STEP_UP_ABOVE \/ risk = "high"

required_assurance(action, risk) ==
  IF needs_strong(action, risk) THEN "strong" ELSE CREATE_PIX.required_assurance

\* Denials that no authentication can lift: the channel ceiling, the night cap.
denied(action, utc) ==
  \/ action.amount > HARD_LIMIT
  \/ action.amount > NIGHT_LIMIT /\ is_nighttime(utc)

needs_step_up(action, assurance, risk) ==
  ASSURANCE_RANK[assurance] < ASSURANCE_RANK[required_assurance(action, risk)]

\* Mutant: authentication is asked for before the denials are looked at.
evaluate_step_up_first(action, assurance, risk, utc) ==
  IF needs_step_up(action, assurance, risk) THEN "REQUIRE_STEP_UP_AUTH"
  ELSE IF denied(action, utc) THEN "DENY"
  ELSE "REQUIRE_CONFIRMATION"

\* The rule set, ordered: the first rule that applies decides.
evaluate(action, assurance, risk, utc) ==
  IF denied(action, utc) THEN "DENY"
  ELSE IF needs_step_up(action, assurance, risk) THEN "REQUIRE_STEP_UP_AUTH"
  ELSE IF CREATE_PIX.requires_confirmation THEN "REQUIRE_CONFIRMATION"
  ELSE "ALLOW"
=============================================================================
