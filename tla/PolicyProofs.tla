---------------------------- MODULE PolicyProofs ----------------------------
(***************************************************************************)
(* The policy table for every amount, at every hour: evaluate gives what   *)
(* the README's rows say, never treats less money more strictly, and asks  *)
(* for no step-up that would not be enough.                                *)
(***************************************************************************)
EXTENDS PolicyTable, TLAPS

\* What the rules read: one action, one customer, one device, an hour of the day.
Asked ==
  /\ action \in Action
  /\ device_trusted \in BOOLEAN
  /\ assurance \in {"medium", "strong"}
  /\ utc \in 0 .. 23

\* Every hour of the day is asked about a well formed action.
LEMMA AlwaysAsked == Spec => []Asked
<1>1. Init => Asked
  BY DEF Init, Asked
<1>2. Asked /\ [Next]_vars => Asked'
  <2>. SUFFICES ASSUME Asked, [Next]_vars PROVE Asked'
    OBVIOUS
  <2>1. CASE StepUp
    BY <2>1 DEF StepUp, Asked
  <2>2. CASE PaidBefore
    BY <2>2 DEF PaidBefore, Asked
  <2>3. CASE HourPasses
    BY <2>3 DEF HourPasses, Asked
  <2>4. CASE UNCHANGED vars
    BY <2>4 DEF vars, Asked
  <2>. QED
    BY <2>1, <2>2, <2>3, <2>4 DEF Next
<1>. QED
  BY <1>1, <1>2, PTL DEF Spec

\* The night of a Sao Paulo clock, in UTC hours: 23h to 9h.
LEMMA Night ==
  ASSUME NEW h \in Nat, h <= 23
  PROVE  is_nighttime(h) <=> h \in NightInUTC
<1>1. CASE h < 3
  <2>1. (h + 21) % 24 = h + 21
    BY <1>1
  <2>. QED
    BY <1>1, <2>1 DEF is_nighttime, br_hour, NightInUTC, NIGHT_START_HOUR, NIGHT_END_HOUR
<1>2. CASE h >= 3
  <2>1. (h + 21) % 24 = h - 3
    BY <1>2
  <2>. QED
    BY <1>2, <2>1 DEF is_nighttime, br_hour, NightInUTC, NIGHT_START_HOUR, NIGHT_END_HOUR
<1>. QED
  BY <1>1, <1>2

\* Two of the three risk signals.
TwoOf(a, trusted, known) ==
  \/ a.recipient \notin known /\ a.amount > 50000
  \/ a.recipient \notin known /\ ~trusted
  \/ a.amount > 50000 /\ ~trusted

\* A score of six tenths takes two signals, whichever two.
LEMMA TwoSignals ==
  ASSUME NEW a, a.amount \in Nat, NEW trusted \in BOOLEAN, NEW known
  PROVE  assess_risk(a, trusted, known) = "high" <=> TwoOf(a, trusted, known)
BY DEF assess_risk, score, UNUSUAL_ABOVE, TwoOf

\* Above the night cap and the step-up limit; above the ceiling.
Large(n) == n > 100000
Huge(n) == n > 500000

\* Denied by the table: above the ceiling, or above the night cap at night.
Barred(a, h) == Huge(a.amount) \/ (Large(a.amount) /\ h \in NightInUTC)

\* To be authenticated first, where that was not done.
Asks(a, level, risk) == level = "medium" /\ (Large(a.amount) \/ risk = "high")

\* What evaluate says of a well formed action, rule by rule.
LEMMA Evaluated ==
  ASSUME NEW a, a.amount \in Nat, NEW level \in {"medium", "strong"}, NEW risk,
         NEW h \in Nat, h <= 23
  PROVE  /\ Barred(a, h) => evaluate(a, level, risk, h) = "DENY"
         /\ ~Barred(a, h) /\ Asks(a, level, risk)
              => evaluate(a, level, risk, h) = "REQUIRE_STEP_UP_AUTH"
         /\ ~Barred(a, h) /\ ~Asks(a, level, risk)
              => evaluate(a, level, risk, h) = "REQUIRE_CONFIRMATION"
<1>1. denied(a, h) <=> Barred(a, h)
  BY Night, SMT DEF denied, HARD_LIMIT, NIGHT_LIMIT, Barred, Large, Huge
<1>. DEFINE strong == Large(a.amount) \/ risk = "high"
<1>2. needs_step_up(a, level, risk) <=> Asks(a, level, risk)
  <2>1. ASSURANCE_RANK["medium"] = 1 /\ ASSURANCE_RANK["strong"] = 2
    BY DEF ASSURANCE_RANK
  <2>2. required_assurance(a, risk) = IF strong THEN "strong" ELSE "medium"
    BY SMT DEF required_assurance, needs_strong, STEP_UP_ABOVE, CREATE_PIX, Large
  <2>3. Asks(a, level, risk) <=> level = "medium" /\ strong
    BY DEF Asks
  <2>. HIDE DEF strong
  <2>4. CASE strong
    BY <2>1, <2>2, <2>3, <2>4 DEF needs_step_up
  <2>5. CASE ~strong
    BY <2>1, <2>2, <2>3, <2>5 DEF needs_step_up
  <2>. QED
    BY <2>4, <2>5
<1>3. CREATE_PIX.requires_confirmation
  BY Zenon DEF CREATE_PIX
<1>4. denied(a, h) => evaluate(a, level, risk, h) = "DENY"
  BY Zenon DEF evaluate
<1>5. ~denied(a, h) /\ needs_step_up(a, level, risk)
        => evaluate(a, level, risk, h) = "REQUIRE_STEP_UP_AUTH"
  BY Zenon DEF evaluate
<1>6. ~denied(a, h) /\ ~needs_step_up(a, level, risk)
        => evaluate(a, level, risk, h) = "REQUIRE_CONFIRMATION"
  BY <1>3, Zenon DEF evaluate
<1>. QED
  BY <1>1, <1>2, <1>4, <1>5, <1>6

\* The same of a PIX of this customer, on this device, at this hour.
Risk(a) == assess_risk(a, device_trusted, paid_before)

LEMMA Verdict ==
  ASSUME Asked, NEW a, a.amount \in Nat
  PROVE  /\ Barred(a, utc) => verdict(a) = "DENY"
         /\ ~Barred(a, utc) /\ Asks(a, assurance, Risk(a))
              => verdict(a) = "REQUIRE_STEP_UP_AUTH"
         /\ ~Barred(a, utc) /\ ~Asks(a, assurance, Risk(a))
              => verdict(a) = "REQUIRE_CONFIRMATION"
<1>1. utc \in Nat /\ utc <= 23
  BY DEF Asked
<1>2. assurance \in {"medium", "strong"}
  BY DEF Asked
<1>3. verdict(a) = evaluate(a, assurance, Risk(a), utc)
  BY DEF verdict, Risk
<1>. QED
  BY <1>1, <1>2, <1>3, Evaluated

\* The rules are the README's table, for every amount, hour, device and recipient.
THEOREM Table == Spec => []FollowsTheTable
<1>1. Asked => FollowsTheTable
  <2>. SUFFICES ASSUME Asked PROVE FollowsTheTable
    OBVIOUS
  <2>. DEFINE n == action.amount
              step_up == IF assurance = "strong" THEN "REQUIRE_CONFIRMATION"
                         ELSE "REQUIRE_STEP_UP_AUTH"
  <2>1. action.amount \in Nat
    BY AmountsAssumption DEF Asked, Action
  <2>2. HighRisk <=> Risk(action) = "high"
    <3>1. HighRisk <=> TwoOf(action, device_trusted, paid_before)
      BY DEF HighRisk, RiskSignals, TwoOf
    <3>. QED
      BY <2>1, <3>1, TwoSignals DEF Asked, Risk
  <2>3. /\ Barred(action, utc) => verdict(action) = "DENY"
        /\ ~Barred(action, utc) /\ Asks(action, assurance, Risk(action))
             => verdict(action) = "REQUIRE_STEP_UP_AUTH"
        /\ ~Barred(action, utc) /\ ~Asks(action, assurance, Risk(action))
             => verdict(action) = "REQUIRE_CONFIRMATION"
    BY <2>1, Verdict
  <2>4. assurance = "medium" \/ assurance = "strong"
    BY DEF Asked
  <2>5. Barred(action, utc) <=> Huge(n) \/ (Large(n) /\ utc \in NightInUTC)
    BY DEF Barred
  <2>6. Asks(action, assurance, Risk(action)) <=> assurance = "medium" /\ (Large(n) \/ HighRisk)
    BY <2>2 DEF Asks
  <2>7. n \in Nat
    BY <2>1
  <2>. HIDE DEF n
  <2>8. /\ Huge(n) \/ (Large(n) /\ utc \in NightInUTC) => verdict(action) = "DENY"
        /\ ~Huge(n) /\ Large(n) /\ utc \notin NightInUTC => verdict(action) = step_up
        /\ ~Huge(n) /\ ~Large(n) /\ HighRisk => verdict(action) = step_up
        /\ ~Huge(n) /\ ~Large(n) /\ ~HighRisk => verdict(action) = "REQUIRE_CONFIRMATION"
    <3>1. CASE assurance = "medium"
      BY <2>3, <2>5, <2>6, <3>1, Zenon
    <3>2. CASE assurance = "strong"
      BY <2>3, <2>5, <2>6, <3>2, Zenon
    <3>. QED
      BY <2>4, <3>1, <3>2
  <2>9. /\ n > 500000 => Huge(n)
        /\ n > 100000 /\ n <= 500000 => Large(n) /\ ~Huge(n)
        /\ n <= 100000 => ~Large(n) /\ ~Huge(n)
    BY <2>7, SMT DEF Huge, Large
  <2>. HIDE DEF step_up
  <2>10. /\ n > 500000 => verdict(action) = "DENY"
         /\ n > 100000 /\ n <= 500000 /\ utc \in NightInUTC => verdict(action) = "DENY"
         /\ n > 100000 /\ n <= 500000 /\ utc \notin NightInUTC => verdict(action) = step_up
         /\ n <= 100000 /\ HighRisk => verdict(action) = step_up
         /\ n <= 100000 /\ ~HighRisk => verdict(action) = "REQUIRE_CONFIRMATION"
    BY <2>8, <2>9, SMT
  <2>. QED
    BY <2>10, SMT DEF FollowsTheTable, step_up, n
<1>. QED
  BY <1>1, AlwaysAsked, PTL

\* Less money in the same hands at the same hour is never treated more strictly.
THEOREM Monotone == Spec => []SmallerIsNeverStricter
<1>1. Asked => SmallerIsNeverStricter
  <2>. SUFFICES ASSUME Asked, NEW less \in Amounts, less <= action.amount
                PROVE  Rank[verdict([action EXCEPT !.amount = less])] <= Rank[verdict(action)]
    BY DEF SmallerIsNeverStricter
  <2>. DEFINE b == [action EXCEPT !.amount = less]
  <2>1. /\ action.amount \in Nat /\ b.amount \in Nat
        /\ b.amount <= action.amount
        /\ b.recipient = action.recipient
    BY AmountsAssumption DEF Asked, Action
  <2>. HIDE DEF b
  <2>2. Barred(b, utc) => Barred(action, utc)
    BY <2>1, SMT DEF Barred, Huge, Large
  <2>3. Asks(b, assurance, Risk(b)) => Asks(action, assurance, Risk(action))
    <3>1. TwoOf(b, device_trusted, paid_before) => TwoOf(action, device_trusted, paid_before)
      BY <2>1, SMT DEF TwoOf
    <3>2. Risk(b) = "high" => Risk(action) = "high"
      BY <2>1, <3>1, TwoSignals DEF Asked, Risk
    <3>. QED
      BY <2>1, <3>2, SMT DEF Asks, Large
  <2>4. /\ Barred(action, utc) => verdict(action) = "DENY"
        /\ ~Barred(action, utc) /\ Asks(action, assurance, Risk(action))
             => verdict(action) = "REQUIRE_STEP_UP_AUTH"
        /\ ~Barred(action, utc) /\ ~Asks(action, assurance, Risk(action))
             => verdict(action) = "REQUIRE_CONFIRMATION"
    BY <2>1, Verdict
  <2>5. /\ Barred(b, utc) => verdict(b) = "DENY"
        /\ ~Barred(b, utc) /\ Asks(b, assurance, Risk(b))
             => verdict(b) = "REQUIRE_STEP_UP_AUTH"
        /\ ~Barred(b, utc) /\ ~Asks(b, assurance, Risk(b))
             => verdict(b) = "REQUIRE_CONFIRMATION"
    BY <2>1, Verdict
  <2>6. Rank["REQUIRE_CONFIRMATION"] = 0 /\ Rank["REQUIRE_STEP_UP_AUTH"] = 1 /\ Rank["DENY"] = 2
    BY DEF Rank
  <2>7. Rank[verdict(b)] <= Rank[verdict(action)]
    BY <2>2, <2>3, <2>4, <2>5, <2>6
  <2>. QED
    BY <2>7 DEF b
<1>. QED
  BY <1>1, AlwaysAsked, PTL

\* After the step-up that was asked for, within the hour, only a confirmation is left.
THEOREM NoTrap == Spec => StepUpIsEnough
<1>1. Asked /\ StepUp => verdict(action)' = "REQUIRE_CONFIRMATION"
  <2>. SUFFICES ASSUME Asked, StepUp PROVE verdict(action)' = "REQUIRE_CONFIRMATION"
    OBVIOUS
  <2>0. action.amount \in Nat
    BY AmountsAssumption DEF Asked, Action
  <2>1. utc \in Nat /\ utc <= 23
    BY DEF Asked
  <2>2. verdict(action)' = evaluate(action, "strong", Risk(action), utc)
    BY DEF StepUp, verdict, Risk
  <2>3. ~Barred(action, utc)
    BY <2>0, Verdict DEF StepUp
  <2>4. ~Asks(action, "strong", Risk(action))
    BY DEF Asks
  <2>5. "strong" \in {"medium", "strong"}
    OBVIOUS
  <2>6. evaluate(action, "strong", Risk(action), utc) = "REQUIRE_CONFIRMATION"
    BY <2>0, <2>1, <2>3, <2>4, <2>5, Evaluated
  <2>. QED
    BY <2>2, <2>6
<1>. QED
  BY <1>1, AlwaysAsked, PTL DEF Spec, StepUpIsEnough
=============================================================================
