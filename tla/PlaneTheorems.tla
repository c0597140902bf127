---------------------------- MODULE PlaneTheorems ----------------------------
(****************************************************************************)
(* What the plane does for any number of workers, processes, conversations, *)
(* intents and crashes: its money invariants, that it implements            *)
(* ConsentedPayment, that no call is refused halfway, and that calls end.   *)
(****************************************************************************)
EXTENDS PlaneStepProofs, FiniteSetTheorems

\* A fresh store satisfies the inductive invariant.
LEMMA InitIInv ==
  ASSUME ConstantsAssumption, Init
  PROVE  IInv
<1> USE ConstantsAssumption
<1>1. TypeOK
  <2>1. /\ fresh_balance \in [Conversations -> Int]
        /\ fresh_paid_before \in [Conversations -> SUBSET Recipients]
    BY DEF fresh_balance, fresh_paid_before
  <2>2. clock \in Times /\ crashes \in 0 .. MaxCrashes
    BY DEF Init, Times
  <2> QED  BY <2>1, <2>2 DEF Init, TypeOK, Pcs
<1>2. Held /\ Copies /\ Stages /\ Chain /\ EvidenceBeforeMoney
  BY DEF Init, Held, Copies, Stages, Stage, Chain, EvidenceBeforeMoney, paid
<1> QED  BY <1>1, <1>2 DEF IInv

\* A stuttering step keeps the inductive invariant.
LEMMA StutterIInv ==
  ASSUME IInv, UNCHANGED vars
  PROVE  IInv'
BY DEF IInv, vars, TypeOK, Held, Copies, Genuine, Stages, Stage, Timely, Offered, Chain,
       EvidenceBeforeMoney, paid, actions_of

\* The inductive invariant holds of every deployment.
THEOREM Inductive == Spec => []IInv
<1>1. Init => IInv
  BY InitIInv, ConstantsAssumption
<1>2. IInv /\ [Next]_vars => IInv'
  <2> SUFFICES ASSUME IInv, [Next]_vars
               PROVE  IInv'
    OBVIOUS
  <2>1. CASE Next
    <3>1. TypeOK' /\ Held'
      BY <2>1, TypeStep, ConstantsAssumption DEF IInv
    <3>2. Monotone
      BY <2>1, Grows, ConstantsAssumption DEF IInv
    <3>3. Copies'
      BY <2>1, <3>1, <3>2, CopiesStep, ConstantsAssumption DEF IInv
    <3>4. Stages'
      BY <2>1, <3>1, <3>2, StagesStep, ConstantsAssumption DEF IInv
    <3>5. Chain' /\ EvidenceBeforeMoney'
      BY <2>1, <3>2, MoneyStep, ConstantsAssumption DEF IInv
    <3> QED  BY <3>1, <3>3, <3>4, <3>5 DEF IInv
  <2>2. CASE UNCHANGED vars
    BY <2>2, StutterIInv
  <2> QED  BY <2>1, <2>2
<1> QED  BY <1>1, <1>2, PTL DEF Spec

\* Every deployment keeps its state well typed.
THEOREM TypeCorrect == Spec => []TypeOK
<1>1. IInv => TypeOK
  BY DEF IInv
<1> QED  BY <1>1, Inductive, PTL

\* I2 and I3 for every deployment: money moves only by a yes said in the conversation that
\* asked, within the TTL of a token issued for that very action (plane.confirm).
THEOREM Consented == Spec => []PaidByConsent
<1>1. IInv => PaidByConsent
  <2> SUFFICES ASSUME IInv, NEW i \in Intents, paid(i)
               PROVE  \E c \in consents[i], o \in offers[i] :
                        /\ c.by = opened[i]
                        /\ c.action = payments[i].action /\ o.action = payments[i].action
                        /\ o.at = c.issued
                        /\ c.at - c.issued \in 0 .. TTL
    BY DEF PaidByConsent
  <2>1. PICK c \in consents[i] : c.action = payments[i].action
    BY DEF IInv, Chain, actions_of
  <2>2. c.by = opened[i] /\ Timely(c.issued, c.at) /\ Offered(i, c.action, c.issued)
    BY <2>1 DEF IInv, Chain
  <2> DEFINE o == [action |-> c.action, at |-> c.issued]
  <2>3. o \in offers[i] /\ o.action = payments[i].action /\ o.at = c.issued
    BY <2>1, <2>2 DEF Offered
  <2> QED  BY <2>1, <2>2, <2>3 DEF Timely
<1> QED  BY <1>1, Inductive, PTL

\* I2 for every deployment: no payment above the ceiling, and no large one without a step-up
\* of that intent (policy.evaluate, plane.step_up).
THEOREM Authenticated == Spec => []LargePaymentsAuthenticated
<1>1. IInv => LargePaymentsAuthenticated
  <2> SUFFICES ASSUME IInv, NEW i \in Intents, paid(i)
               PROVE  /\ payments[i].action.amount <= HARD_LIMIT
                      /\ payments[i].action.amount > STEP_UP_ABOVE => "step_up" \in logged[i]
    BY DEF LargePaymentsAuthenticated
  <2>1. PICK c \in consents[i] : c.action = payments[i].action
    BY DEF IInv, Chain, actions_of
  <2> DEFINE o == [action |-> c.action, at |-> c.issued]
  <2>2. o \in offers[i] /\ o.action = payments[i].action
    BY <2>1 DEF IInv, Chain, Offered
  <2> QED  BY <2>2 DEF IInv, Chain
<1> QED  BY <1>1, Inductive, PTL

\* Before money moves the ledger holds consent, authorization and request (plane._execute).
THEOREM Evidenced == Spec => []EvidenceBeforeMoney
<1>1. IInv => EvidenceBeforeMoney
  BY DEF IInv
<1> QED  BY <1>1, Inductive, PTL


\* A ledger row of another kind authenticates nobody.
LEMMA LogsNoStepUp ==
  ASSUME TypeOK, NEW i, NEW kinds, "step_up" \notin kinds, Log(i, kinds)
  PROVE  \A j \in Intents : "step_up" \in logged'[j] <=> "step_up" \in logged[j]
BY DEF Log, TypeOK

\* A step that leaves offers, consents, payments and step-ups alone is a stutter of the
\* promise.
LEMMA PromiseStays ==
  ASSUME UNCHANGED <<offers, consents, payments>>,
         \A j \in Intents : "step_up" \in logged'[j] <=> "step_up" \in logged[j]
  PROVE  UNCHANGED Promise!vars
BY DEF Promise!vars, actions_of

\* Every step of the plane is a step of the promise, or a stutter.
LEMMA PromiseStep ==
  ASSUME ConstantsAssumption, TypeOK, Held, Stages, Chain, Next
  PROVE  [Promise!Next]_(Promise!vars)
<1> USE ConstantsAssumption
<1>1. ASSUME NEW w \in Workers, NEW c \in Conversations, NEW i \in Intents,
             NEW name \in Names, AskWhichContact(w, c, i, name)
      PROVE  [Promise!Next]_(Promise!vars)
  <2>1. UNCHANGED <<offers, consents, payments>>
    BY <1>1 DEF AskWhichContact, durable, ledger
  <2>2. \A j \in Intents : "step_up" \in logged'[j] <=> "step_up" \in logged[j]
    BY <1>1, LogsNoStepUp DEF AskWhichContact, Request
  <2> QED  BY <2>1, <2>2, PromiseStays
<1>2. ASSUME NEW w \in Workers, NEW c \in Conversations, NEW i \in Intents,
             NEW name \in Names, NEW amount \in Amounts, Propose(w, c, i, name, amount)
      PROVE  [Promise!Next]_(Promise!vars)
  <2>1. UNCHANGED <<offers, consents, payments>>
    BY <1>2 DEF Propose, durable, ledger
  <2>2. \A j \in Intents : "step_up" \in logged'[j] <=> "step_up" \in logged[j]
    BY <1>2, LogsNoStepUp DEF Propose, Request
  <2> QED  BY <2>1, <2>2, PromiseStays
<1>3. ASSUME NEW w \in Workers, NEW c \in Conversations, NEW i \in Intents, StepUp(w, c, i)
      PROVE  [Promise!Next]_(Promise!vars)
  <2>1. UNCHANGED <<offers, consents, payments, logged>>
    BY <1>3 DEF StepUp, durable, ledger
  <2> QED  BY <2>1, PromiseStays
<1>4. ASSUME NEW w \in Workers, NEW c \in Conversations, NEW i \in Intents,
             DuplicateConfirmation(w, c, i)
      PROVE  [Promise!Next]_(Promise!vars)
  <2>1. UNCHANGED <<offers, consents, payments>>
    BY <1>4 DEF DuplicateConfirmation, durable, ledger
  <2>2. \A j \in Intents : "step_up" \in logged'[j] <=> "step_up" \in logged[j]
    BY <1>4, LogsNoStepUp DEF DuplicateConfirmation
  <2> QED  BY <2>1, <2>2, PromiseStays
<1>5. ASSUME NEW w \in Workers, NEW c \in Conversations, NEW i \in Intents,
             ConfirmExpired(w, c, i)
      PROVE  [Promise!Next]_(Promise!vars)
  <2>1. UNCHANGED <<offers, consents, payments>>
    BY <1>5 DEF ConfirmExpired, durable, ledger
  <2>2. \A j \in Intents : "step_up" \in logged'[j] <=> "step_up" \in logged[j]
    BY <1>5, LogsNoStepUp DEF ConfirmExpired
  <2> QED  BY <2>1, <2>2, PromiseStays
<1>6. ASSUME NEW w \in Workers, NEW c \in Conversations, NEW i \in Intents,
             DigestMismatch(w, c, i)
      PROVE  [Promise!Next]_(Promise!vars)
  <2>1. UNCHANGED <<offers, consents, payments>>
    BY <1>6 DEF DigestMismatch, durable, ledger
  <2>2. \A j \in Intents : "step_up" \in logged'[j] <=> "step_up" \in logged[j]
    BY <1>6, LogsNoStepUp DEF DigestMismatch
  <2> QED  BY <2>1, <2>2, PromiseStays
<1>7. ASSUME NEW w \in Workers, NEW c \in Conversations, NEW i \in Intents, Confirm(w, c, i)
      PROVE  [Promise!Next]_(Promise!vars)
  <2>1. UNCHANGED <<offers, consents, payments, logged>>
    BY <1>7 DEF Confirm, durable, ledger
  <2> QED  BY <2>1, PromiseStays
<1>8. ASSUME NEW w \in Workers, NEW c \in Conversations, NEW i \in Intents, Cancel(w, c, i)
      PROVE  [Promise!Next]_(Promise!vars)
  <2>1. UNCHANGED <<offers, consents, payments, logged>>
    BY <1>8 DEF Cancel, durable, ledger
  <2> QED  BY <2>1, PromiseStays
<1>9. ASSUME NEW w \in Workers, NEW c \in Conversations, NEW i \in Intents,
             CancelRefused(w, c, i)
      PROVE  [Promise!Next]_(Promise!vars)
  <2>1. UNCHANGED <<offers, consents, payments>>
    BY <1>9 DEF CancelRefused, durable, ledger
  <2>2. \A j \in Intents : "step_up" \in logged'[j] <=> "step_up" \in logged[j]
    BY <1>9, LogsNoStepUp DEF CancelRefused
  <2> QED  BY <2>1, <2>2, PromiseStays
<1>10. ASSUME NEW w \in Workers, NEW c \in Conversations, NEW i \in Intents, Reconcile(w, c, i)
      PROVE  [Promise!Next]_(Promise!vars)
  <2>1. UNCHANGED <<offers, consents, payments, logged>>
    BY <1>10 DEF Reconcile, durable, ledger
  <2> QED  BY <2>1, PromiseStays
<1>11. ASSUME NEW w \in Workers, Put(w)
      PROVE  [Promise!Next]_(Promise!vars)
  <2>1. UNCHANGED <<offers, consents, payments, logged>>
    BY <1>11 DEF Put, durable, ledger
  <2> QED  BY <2>1, PromiseStays
<1>12. ASSUME NEW w \in Workers, SetReason(w)
      PROVE  [Promise!Next]_(Promise!vars)
  <2>1. UNCHANGED <<offers, consents, payments, logged>>
    BY <1>12 DEF SetReason, durable, ledger
  <2> QED  BY <2>1, PromiseStays
<1>13. ASSUME NEW w \in Workers, Return(w)
      PROVE  [Promise!Next]_(Promise!vars)
  <2>1. UNCHANGED <<offers, consents, payments, logged>>
    BY <1>13 DEF Return, durable, ledger
  <2> QED  BY <2>1, PromiseStays
<1>14. ASSUME NEW w \in Workers, CheckPreconditions(w)
      PROVE  [Promise!Next]_(Promise!vars)
  <2>1. UNCHANGED <<offers, consents, payments>>
    BY <1>14 DEF CheckPreconditions, durable, ledger
  <2>2. \A j \in Intents : "step_up" \in logged'[j] <=> "step_up" \in logged[j]
    BY <1>14, LogsNoStepUp DEF CheckPreconditions
  <2> QED  BY <2>1, <2>2, PromiseStays
<1>15. ASSUME NEW w \in Workers, Decide(w)
      PROVE  [Promise!Next]_(Promise!vars)
  <2>1. /\ cur[w] \in Intents /\ it[w] \in Intent /\ UNCHANGED <<consents, payments>>
        /\ Log(cur[w], {"risk", "policy"})
    BY <1>15, InCall DEF Decide, At
  <2>2. \A j \in Intents : "step_up" \in logged'[j] <=> "step_up" \in logged[j]
    BY <2>1, LogsNoStepUp
  <2>3. CASE UNCHANGED offers
    BY <2>1, <2>2, <2>3, PromiseStays
  <2>4. CASE ~UNCHANGED offers
    <3> DEFINE a == it[w].action
               o == [action |-> a, at |-> clock]
               i == cur[w]
    <3>1. IssueConfirmation(w)
      BY <1>15, <2>4 DEF Decide, Reject, RequireStepUp
    <3>2. offers' = [offers EXCEPT ![i] = @ \cup {o}]
      BY <2>1, <3>1 DEF IssueConfirmation, Intent
    <3>3. verdict(w) = "REQUIRE_CONFIRMATION"
      BY <3>1 DEF IssueConfirmation
    <3>4. a \in Action /\ a.amount \in Int /\ it[w].assurance \in Assurance
      BY <2>1 DEF Intent, Action
    <3>5. a.amount <= HARD_LIMIT /\ (a.amount > STEP_UP_ABOVE => it[w].assurance = "strong")
      BY <3>3, <3>4, OfferedWithinLimits DEF verdict
    <3>6. it[w].assurance = "strong" => "step_up" \in logged[i]
      BY <1>15 DEF Decide, At, Stages, Stage
    <3>7. o.action = a /\ i \in Intents
      BY <2>1
    <3> HIDE DEF o, a, i
    <3>8. \A j \in Intents :
            actions_of(offers'[j]) = IF j = i THEN actions_of(offers[j]) \cup {a}
                                              ELSE actions_of(offers[j])
      BY <3>2, <3>7 DEF TypeOK, actions_of
    <3>9. Promise!Offer(i, a)
      BY <2>1, <2>2, <3>5, <3>6, <3>7, <3>8 DEF Promise!Offer
    <3> QED  BY <3>4, <3>7, <3>9 DEF Promise!Next
  <2> QED  BY <2>3, <2>4
<1>16. ASSUME NEW w \in Workers, FinishStepUp(w)
      PROVE  [Promise!Next]_(Promise!vars)
  <2>1. PICK i \in Intents :
            /\ UNCHANGED <<offers, consents, payments>>
            /\ logged' = [logged EXCEPT ![i] = @ \cup {"step_up"}]
    BY <1>16, InCall DEF FinishStepUp, At, Log
  <2>2. \A j \in Intents : "step_up" \in logged'[j] <=> "step_up" \in logged[j] \/ j = i
    BY <2>1 DEF TypeOK
  <2>3. Promise!Authenticate(i)
    BY <2>1, <2>2 DEF Promise!Authenticate, actions_of
  <2> QED  BY <2>3 DEF Promise!Next
<1>17. ASSUME NEW w \in Workers, Authorize(w)
      PROVE  [Promise!Next]_(Promise!vars)
  <2> DEFINE y == [by |-> caller[w], action |-> it[w].action,
                   issued |-> it[w].issued, at |-> it[w].confirmed]
             i == cur[w]
  <2>1. /\ i \in Intents /\ UNCHANGED <<offers, payments>>
        /\ consents' = [consents EXCEPT ![i] = @ \cup {y}]
        /\ Log(i, {"confirmation"})
    BY <1>17, InCall DEF Authorize, At
  <2>2. Offered(i, it[w].action, it[w].issued)
    BY <1>17 DEF Authorize, At, Stages, Stage
  <2>3. y.action \in actions_of(offers[i])
    BY <2>2 DEF Offered, actions_of
  <2> HIDE DEF y, i
  <2>4. \A j \in Intents : "step_up" \in logged'[j] <=> "step_up" \in logged[j]
    BY <2>1, LogsNoStepUp
  <2>5. \A j \in Intents :
          actions_of(consents'[j]) = IF j = i THEN actions_of(consents[j]) \cup {y.action}
                                              ELSE actions_of(consents[j])
    BY <2>1 DEF TypeOK, actions_of
  <2>6. Promise!Agree(i)
    <3>1. [j \in Intents |-> actions_of(consents'[j])]
            = [[j \in Intents |-> actions_of(consents[j])]
                 EXCEPT ![i] = @ \cup {y.action}]
      BY <2>1, <2>5
    <3>2. y.action \in [j \in Intents |-> actions_of(offers[j])][i]
      BY <2>1, <2>3
    <3>3. UNCHANGED <<offers, payments>>
      BY <2>1
    <3> QED  BY <2>4, <3>1, <3>2, <3>3, Zenon DEF Promise!Agree
  <2> QED  BY <2>1, <2>6 DEF Promise!Next
<1>18. ASSUME NEW w \in Workers, Submit(w)
      PROVE  [Promise!Next]_(Promise!vars)
  <2>1. UNCHANGED <<offers, consents, payments>>
    BY <1>18 DEF Submit, durable, ledger
  <2>2. \A j \in Intents : "step_up" \in logged'[j] <=> "step_up" \in logged[j]
    BY <1>18, LogsNoStepUp DEF Submit
  <2> QED  BY <2>1, <2>2, PromiseStays
<1>19. ASSUME NEW w \in Workers, Debit(w)
      PROVE  [Promise!Next]_(Promise!vars)
  <2>1. UNCHANGED <<offers, consents, payments>>
    BY <1>19 DEF Debit, durable, ledger
  <2>2. \A j \in Intents : "step_up" \in logged'[j] <=> "step_up" \in logged[j]
    BY <1>19, LogsNoStepUp DEF Debit
  <2> QED  BY <2>1, <2>2, PromiseStays
<1>20. ASSUME NEW w \in Workers, Pay(w)
      PROVE  [Promise!Next]_(Promise!vars)
  <2> DEFINE r == [action |-> it[w].action, payer |-> w]
             i == cur[w]
  <2>1. /\ i \in Intents /\ it[w] \in Intent
        /\ UNCHANGED <<offers, consents, logged>>
        /\ payments' = [payments EXCEPT ![i] = IF @ = None THEN r ELSE @]
    BY <1>20, InCall DEF Pay, At, ledger
  <2>2. it[w].action \in actions_of(consents[i])
    BY <1>20 DEF Pay, At, Stages, Stage
  <2>3. r \in Receipt /\ r.action \in actions_of(consents[i])
    BY <2>1, <2>2 DEF Receipt, Intent
  <2> HIDE DEF r, i
  <2>4. CASE payments[i] = None
    <3>1. payments' = [payments EXCEPT ![i] = r]
      BY <2>1, <2>4
    <3>2. Promise!Move(i, r)
      BY <2>1, <2>3, <2>4, <3>1 DEF Promise!Move, actions_of
    <3> QED  BY <2>1, <2>3, <3>2 DEF Promise!Next
  <2>5. CASE payments[i] # None
    <3>1. payments' = payments
      BY <2>1, <2>5 DEF TypeOK
    <3> QED  BY <2>1, <3>1, PromiseStays
  <2> QED  BY <2>4, <2>5
<1>21. ASSUME NEW w \in Workers, Complete(w)
      PROVE  [Promise!Next]_(Promise!vars)
  <2>1. UNCHANGED <<offers, consents, payments>>
    BY <1>21 DEF Complete, durable, ledger
  <2>2. \A j \in Intents : "step_up" \in logged'[j] <=> "step_up" \in logged[j]
    BY <1>21, LogsNoStepUp DEF Complete
  <2> QED  BY <2>1, <2>2, PromiseStays
<1>22. ASSUME NEW w \in Workers, TimeOut(w)
      PROVE  [Promise!Next]_(Promise!vars)
  <2>1. UNCHANGED <<offers, consents, payments>>
    BY <1>22 DEF TimeOut, durable, ledger
  <2>2. \A j \in Intents : "step_up" \in logged'[j] <=> "step_up" \in logged[j]
    BY <1>22, LogsNoStepUp DEF TimeOut
  <2> QED  BY <2>1, <2>2, PromiseStays
<1>23. ASSUME NEW w \in Workers, Fail(w)
      PROVE  [Promise!Next]_(Promise!vars)
  <2>1. UNCHANGED <<offers, consents, payments>>
    BY <1>23 DEF Fail, durable, ledger
  <2>2. \A j \in Intents : "step_up" \in logged'[j] <=> "step_up" \in logged[j]
    BY <1>23, LogsNoStepUp DEF Fail
  <2> QED  BY <2>1, <2>2, PromiseStays
<1>24. ASSUME NEW w \in Workers, AskBank(w)
      PROVE  [Promise!Next]_(Promise!vars)
  <2>1. UNCHANGED <<offers, consents, payments>>
    BY <1>24 DEF AskBank, durable, ledger
  <2>2. \A j \in Intents : "step_up" \in logged'[j] <=> "step_up" \in logged[j]
    BY <1>24, LogsNoStepUp DEF AskBank
  <2> QED  BY <2>1, <2>2, PromiseStays
<1>25. ASSUME NEW w \in Workers, SweepOne(w)
      PROVE  [Promise!Next]_(Promise!vars)
  <2>1. UNCHANGED <<offers, consents, payments>>
    BY <1>25 DEF SweepOne, durable, ledger
  <2>2. \A j \in Intents : "step_up" \in logged'[j] <=> "step_up" \in logged[j]
    BY <1>25, LogsNoStepUp DEF SweepOne
  <2> QED  BY <2>1, <2>2, PromiseStays
<1>26. ASSUME NEW w \in Workers, SweepReason(w)
      PROVE  [Promise!Next]_(Promise!vars)
  <2>1. UNCHANGED <<offers, consents, payments, logged>>
    BY <1>26 DEF SweepReason, durable, ledger
  <2> QED  BY <2>1, PromiseStays
<1>27. ASSUME NEW w \in Workers, Serve(w)
      PROVE  [Promise!Next]_(Promise!vars)
  <2>1. UNCHANGED <<offers, consents, payments, logged>>
    BY <1>27 DEF Serve, durable, ledger
  <2> QED  BY <2>1, PromiseStays
<1>28. ASSUME NEW w \in Workers, Boot(w)
      PROVE  [Promise!Next]_(Promise!vars)
  <2>1. UNCHANGED <<offers, consents, payments, logged>>
    BY <1>28 DEF Boot, durable, ledger
  <2> QED  BY <2>1, PromiseStays
<1>29. ASSUME NEW p \in Processes, Crash(p)
      PROVE  [Promise!Next]_(Promise!vars)
  <2>1. UNCHANGED <<offers, consents, payments, logged>>
    BY <1>29 DEF Crash, durable, ledger
  <2> QED  BY <2>1, PromiseStays
<1>30. ASSUME NEW p \in Processes, Invoke(p)
      PROVE  [Promise!Next]_(Promise!vars)
  <2>1. UNCHANGED <<offers, consents, payments, logged>>
    BY <1>30 DEF Invoke, durable, ledger
  <2> QED  BY <2>1, PromiseStays
<1>31. ASSUME NEW i \in Intents, NEW a \in Action, Tamper(i, a)
      PROVE  [Promise!Next]_(Promise!vars)
  <2>1. UNCHANGED <<offers, consents, payments, logged>>
    BY <1>31 DEF Tamper, durable, ledger
  <2> QED  BY <2>1, PromiseStays
<1>32. CASE Tick
  <2>1. UNCHANGED <<offers, consents, payments, logged>>
    BY <1>32 DEF Tick, durable, ledger
  <2> QED  BY <2>1, PromiseStays
<1> QED
  BY <1>1, <1>2, <1>3, <1>4, <1>5, <1>6, <1>7, <1>8, <1>9, <1>10, <1>11, <1>12, <1>13,
     <1>14, <1>15, <1>16, <1>17, <1>18, <1>19, <1>20, <1>21, <1>22, <1>23, <1>24, <1>25,
     <1>26, <1>27, <1>28, <1>29, <1>30, <1>31, <1>32
     DEF Next,
     Call, Step, Environment

\* The plane implements ConsentedPayment: offer, agreement and payment happen in that order
\* and for the same action, in every deployment.
THEOREM Implements == Spec => KeepsThePromise
<1>1. Init => Promise!Init
  BY DEF Init, Promise!Init, actions_of
<1>2. IInv /\ [Next]_vars => [Promise!Next]_(Promise!vars)
  <2> SUFFICES ASSUME IInv, [Next]_vars
               PROVE  [Promise!Next]_(Promise!vars)
    OBVIOUS
  <2>1. CASE Next
    BY <2>1, PromiseStep, ConstantsAssumption DEF IInv
  <2>2. CASE UNCHANGED vars
    BY <2>2, PromiseStays DEF vars
  <2> QED  BY <2>1, <2>2
<1> QED  BY <1>1, <1>2, Inductive, PTL DEF Spec, KeepsThePromise, Promise!Spec

\* The promise never touches the receipt of a payment again.
LEMMA PaysOnce ==
  ASSUME TypeOK, Held, ConstantsAssumption, [Promise!Next]_(Promise!vars)
  PROVE  [\A i \in Intents : paid(i) => payments'[i] = payments[i]]_payments
<1>1. CASE UNCHANGED Promise!vars
  BY <1>1 DEF Promise!vars
<1>2. CASE Promise!Next
  <2>1. PICK i \in Intents :
          \/ Promise!Authenticate(i)
          \/ \E action \in Action : Promise!Offer(i, action)
          \/ Promise!Agree(i)
          \/ \E receipt \in Receipt : Promise!Move(i, receipt)
    BY <1>2 DEF Promise!Next
  <2>2. CASE \E receipt \in Receipt : Promise!Move(i, receipt)
    <3>1. PICK receipt \in Receipt : Promise!Move(i, receipt)
      BY <2>2
    <3> QED  BY <3>1 DEF Promise!Move, paid, TypeOK
  <2>3. CASE UNCHANGED payments
    BY <2>3
  <2> QED  BY <2>1, <2>2, <2>3 DEF Promise!Authenticate, Promise!Offer, Promise!Agree
<1> QED  BY <1>1, <1>2

\* I1 at the bank's book for every deployment: a key that paid is never paid again
\* (pgbank.create_pix, ON CONFLICT DO NOTHING).
THEOREM NeverPaidTwice == Spec => PaidOnce
<1>1. IInv /\ [Next]_vars => [\A i \in Intents : paid(i) => payments'[i] = payments[i]]_payments
  <2> SUFFICES ASSUME IInv, [Next]_vars
               PROVE  [\A i \in Intents : paid(i) => payments'[i] = payments[i]]_payments
    OBVIOUS
  <2>1. CASE Next
    BY <2>1, PromiseStep, PaysOnce, ConstantsAssumption DEF IInv
  <2>2. CASE UNCHANGED vars
    BY <2>2 DEF vars
  <2> QED  BY <2>1, <2>2
<1> QED  BY <1>1, Inductive, PTL DEF Spec, PaidOnce

-----------------------------------------------------------------------------
(* Going on: no call is ever refused halfway, and each of its steps takes   *)
(* it nearer to its end.                                                    *)

\* transition() does not raise IllegalTransition for this event.
Legal(row, event) == \E to \in State : <<row.state, event, to>> \in TRANSITIONS

\* What the handlers may still ask of transition() where they stand, and the sweep of the
\* rows it has yet to do.
MovesAreLegal ==
  \A w \in Workers :
    /\ pc[w] = "proposed" => Legal(it[w], "validate") /\ Legal(it[w], "reject")
    /\ pc[w] = "decide" =>
         \A e \in {"reject", "require_step_up", "await_confirmation"} : Legal(it[w], e)
    /\ pc[w] = "stepping_up" => Legal(it[w], "step_up")
    /\ pc[w] = "confirmed" => Legal(it[w], "confirm")
    /\ pc[w] = "authorized" => Legal(it[w], "submit")
    /\ pc[w] = "paid" => Legal(it[w], "complete")
    /\ pc[w] = "timed_out" => Legal(it[w], "timeout")
    /\ pc[w] = "refused" => Legal(it[w], "fail")
    /\ pc[w] = "reconcile" => Legal(it[w], "complete") /\ Legal(it[w], "fail")
    /\ \A s \in stranded[w] : Legal(s[2], "timeout")

\* A worker's own object has the state its handler left it in, whatever the row became.
HoldsItsState(w) ==
  /\ pc[w] = "proposed" => it[w].state = "CREATED"
  /\ pc[w] = "decide" => it[w].state = "VALIDATED"
  /\ pc[w] = "stepping_up" => it[w].state = "AWAITING_STEP_UP"
  /\ pc[w] = "confirmed" => it[w].state = "AWAITING_CONFIRMATION"
  /\ pc[w] = "authorized" => it[w].state = "AUTHORIZED"
  /\ pc[w] \in {"submitted", "debited", "paid", "timed_out", "refused"} =>
       it[w].state = "SUBMITTED"
  /\ pc[w] = "reconcile" => it[w].state = "UNKNOWN"
  /\ \A s \in stranded[w] : s[2].state = "SUBMITTED"

Sweeps(w) == pc[w] \in {"sweep", "swept"}

\* A process that is down runs nothing but, of a server, the sweep of its boot; only a sweep
\* has rows to do; and an idle worker owes no put.
Shift(w) ==
  /\ pc[w] = "idle" => ~dirty[w]
  /\ stranded[w] # {} => Sweeps(w)
  /\ Sweeps(w) => OnServer(w)
  /\ pc[w] # "idle" => (Sweeps(w) <=> ~up[ProcessOf[w]])

\* The sweep has its process to itself.
SweepsAlone ==
  \A v, w \in Workers :
    Sweeps(w) /\ ProcessOf[v] = ProcessOf[w] /\ v # w => pc[v] = "idle"

OnTheWay == (\A w \in Workers : HoldsItsState(w) /\ Shift(w)) /\ SweepsAlone

\* How far a place is from the end of a call.
Rank ==
  [idle |-> 0, return |-> 1, reason |-> 2, paid |-> 2, timed_out |-> 2, refused |-> 2,
   reconcile |-> 3, debited |-> 3, submitted |-> 4, authorized |-> 5, confirmed |-> 6,
   decide |-> 3, proposed |-> 4, stepping_up |-> 4, sweep |-> 1, swept |-> 2]

Owes(w) == IF dirty[w] THEN 1 ELSE 0

\* The steps left: two to a place, one for its put, and two places to a row of a sweep.
Left(w) == 2 * (Rank[pc[w]] + 2 * Cardinality(stranded[w])) + Owes(w)

-----------------------------------------------------------------------------
\* The states that the moves between two places of a call lead to.
LEMMA Targets ==
  \A from, e, to : <<from, e, to>> \in TRANSITIONS =>
    /\ e = "validate" => to = "VALIDATED"
    /\ e = "step_up" => to = "VALIDATED"
    /\ e = "confirm" => to = "AUTHORIZED"
    /\ e = "submit" => to = "SUBMITTED"
BY DEF TRANSITIONS

LEMMA MovesTo ==
  ASSUME TypeOK, NEW w \in Workers, NEW i \in Intents, NEW row \in Intent, NEW e,
         Move(w, i, row, e)
  PROVE  /\ dirty'[w] = TRUE
         /\ \A v \in Workers \ {w} : it'[v] = it[v] /\ dirty'[v] = dirty[v]
         /\ e = "validate" => it'[w].state = "VALIDATED"
         /\ e = "step_up" => it'[w].state = "VALIDATED"
         /\ e = "confirm" => it'[w].state = "AUTHORIZED"
         /\ e = "submit" => it'[w].state = "SUBMITTED"
<1>1. PICK to \in State :
           /\ <<row.state, e, to>> \in TRANSITIONS
           /\ it' = [it EXCEPT ![w] = [row EXCEPT !.state = to]]
           /\ dirty' = [dirty EXCEPT ![w] = TRUE]
  BY DEF Move, Mutate
<1>2. /\ it'[w] = [row EXCEPT !.state = to] /\ dirty'[w] = TRUE
      /\ \A v \in Workers \ {w} : it'[v] = it[v] /\ dirty'[v] = dirty[v]
  BY <1>1 DEF TypeOK
<1>3. it'[w].state = to
  BY <1>2 DEF Intent
<1>. QED
  BY <1>1, <1>2, <1>3, Targets

\* A worker that goes on, and neither starts nor ends a sweep.
LEMMA OneGoesOn ==
  ASSUME OnTheWay, NEW w \in Workers, UNCHANGED up,
         \A v \in Workers \ {w} :
           pc'[v] = pc[v] /\ it'[v] = it[v] /\ dirty'[v] = dirty[v] /\ stranded'[v] = stranded[v],
         pc[w] = "idle" => up[ProcessOf[w]],
         HoldsItsState(w)', Shift(w)', Sweeps(w)' <=> Sweeps(w)
  PROVE  OnTheWay'
<1>1. \A v \in Workers : HoldsItsState(v)' /\ Shift(v)'
  <2>. SUFFICES ASSUME NEW v \in Workers, v # w PROVE HoldsItsState(v)' /\ Shift(v)'
    OBVIOUS
  <2>. QED
    BY DEF OnTheWay, HoldsItsState, Shift, Sweeps, OnServer
<1>2. SweepsAlone'
  <2>. SUFFICES ASSUME NEW u \in Workers, NEW v \in Workers, Sweeps(v)',
                       ProcessOf[u] = ProcessOf[v], u # v
                PROVE  pc'[u] = "idle"
    BY DEF SweepsAlone
  <2>1. Sweeps(v) /\ Shift(v) /\ pc[u] = "idle"
    BY DEF OnTheWay, SweepsAlone, Sweeps
  <2>2. u # w
    BY <2>1 DEF Shift, Sweeps
  <2>. QED
    BY <2>1, <2>2
<1>. QED
  BY <1>1, <1>2 DEF OnTheWay

\* A step that leaves the workers and what is up alone.
LEMMA NobodyMoves ==
  ASSUME OnTheWay, UNCHANGED <<up, pc, it, dirty, stranded>>
  PROVE  OnTheWay'
BY DEF OnTheWay, HoldsItsState, Shift, Sweeps, SweepsAlone, OnServer

\* Taking a request up.
LEMMA CallOnTheWay ==
  ASSUME ConstantsAssumption, IInv, OnTheWay, NEW w \in Workers, Call(w)
  PROVE  OnTheWay'
<1>0. TypeOK /\ Held
  BY DEF IInv
<1>1. PICK c \in Conversations, i \in Intents :
       \/ \E name \in Names : AskWhichContact(w, c, i, name)
       \/ \E name \in Names, amount \in Amounts : Propose(w, c, i, name, amount)
       \/ StepUp(w, c, i) \/ DuplicateConfirmation(w, c, i) \/ ConfirmExpired(w, c, i)
       \/ DigestMismatch(w, c, i) \/ Confirm(w, c, i) \/ Cancel(w, c, i)
       \/ CancelRefused(w, c, i) \/ Reconcile(w, c, i)
  BY DEF Call
<1>2. CASE \/ \E name \in Names : AskWhichContact(w, c, i, name)
           \/ DuplicateConfirmation(w, c, i) \/ DigestMismatch(w, c, i)
           \/ CancelRefused(w, c, i)
  <2>1. UNCHANGED <<up, pc, it, dirty, stranded>>
    BY <1>2 DEF AskWhichContact, DuplicateConfirmation, DigestMismatch, CancelRefused, local,
                world
  <2>. QED
    BY <2>1, NobodyMoves
<1>3. ASSUME Free(w), UNCHANGED <<up, stranded>>,
             \A v \in Workers \ {w} : it'[v] = it[v] /\ dirty'[v] = dirty[v],
             NEW label, Goto(w, label), label \notin {"idle", "sweep", "swept"},
             HoldsItsState(w)'
      PROVE  OnTheWay'
  <2>1. pc[w] = "idle" /\ up[ProcessOf[w]] /\ ~Sweeps(w)
    BY <1>3 DEF Free, Sweeps
  <2>2. pc'[w] = label /\ \A v \in Workers \ {w} : pc'[v] = pc[v]
    BY <1>0, <1>3 DEF Goto, TypeOK
  <2>3. stranded[w] = {}
    BY <2>1 DEF OnTheWay, Shift
  <2>4. Shift(w)' /\ ~Sweeps(w)'
    BY <1>3, <2>1, <2>2, <2>3 DEF Shift, Sweeps
  <2>. QED
    BY <1>3, <2>1, <2>2, <2>4, OneGoesOn
<1>4. ASSUME Free(w) PROVE stranded[w] = {}
  BY <1>4 DEF OnTheWay, Shift, Free, Sweeps
<1>5. ASSUME NEW name \in Names, NEW amount \in Amounts, Propose(w, c, i, name, amount)
      PROVE  OnTheWay'
  <2>1. PICK recipient \in Recipients :
            Mutate(w, new_intent(c, [recipient |-> recipient, amount |-> amount]))
    BY <1>5 DEF Propose
  <2>2. it'[w].state = "CREATED"
        /\ \A v \in Workers \ {w} : it'[v] = it[v] /\ dirty'[v] = dirty[v]
    BY <1>0, <2>1 DEF Mutate, new_intent, TypeOK
  <2>3. Free(w) /\ Goto(w, "proposed") /\ UNCHANGED <<up, stranded>> /\ pc'[w] = "proposed"
    BY <1>0, <1>5 DEF Propose, world, Goto, TypeOK
  <2>4. HoldsItsState(w)'
    BY <1>4, <2>2, <2>3 DEF HoldsItsState
  <2>. QED
    BY <1>3, <2>2, <2>3, <2>4
<1>6. CASE StepUp(w, c, i)
  <2>1. store[i] \in Intent /\ store[i].state = "AWAITING_STEP_UP"
        /\ it' = [it EXCEPT ![w] = [store[i] EXCEPT !.assurance = "strong"]]
        /\ dirty' = [dirty EXCEPT ![w] = TRUE]
    BY <1>0, <1>6 DEF StepUp, Mutate, owned_by_customer, TypeOK
  <2>2. it'[w].state = "AWAITING_STEP_UP"
        /\ \A v \in Workers \ {w} : it'[v] = it[v] /\ dirty'[v] = dirty[v]
    BY <1>0, <2>1 DEF TypeOK, Intent
  <2>3. Free(w) /\ Goto(w, "stepping_up") /\ UNCHANGED <<up, stranded>>
        /\ pc'[w] = "stepping_up"
    BY <1>0, <1>6 DEF StepUp, world, Goto, TypeOK
  <2>4. HoldsItsState(w)'
    BY <1>4, <2>2, <2>3 DEF HoldsItsState
  <2>. QED
    BY <1>3, <2>2, <2>3, <2>4
<1>7. CASE Confirm(w, c, i)
  <2>1. store[i] \in Intent /\ store[i].state = "AWAITING_CONFIRMATION"
        /\ it' = [it EXCEPT ![w] = [store[i] EXCEPT !.confirmed = clock]]
        /\ dirty' = [dirty EXCEPT ![w] = TRUE]
    BY <1>0, <1>7 DEF Confirm, Mutate, confirmable, by_confirmation, TypeOK
  <2>2. it'[w].state = "AWAITING_CONFIRMATION"
        /\ \A v \in Workers \ {w} : it'[v] = it[v] /\ dirty'[v] = dirty[v]
    BY <1>0, <2>1 DEF TypeOK, Intent
  <2>3. Free(w) /\ Goto(w, "confirmed") /\ UNCHANGED <<up, stranded>> /\ pc'[w] = "confirmed"
    BY <1>0, <1>7 DEF Confirm, world, Goto, TypeOK
  <2>4. HoldsItsState(w)'
    BY <1>4, <2>2, <2>3 DEF HoldsItsState
  <2>. QED
    BY <1>3, <2>2, <2>3, <2>4
<1>8. CASE ConfirmExpired(w, c, i) \/ Cancel(w, c, i)
  <2>1. store[i] \in Intent /\ Move(w, i, store[i], "cancel")
    BY <1>0, <1>8 DEF ConfirmExpired, Cancel, confirmable, by_confirmation, TypeOK
  <2>2. \A v \in Workers \ {w} : it'[v] = it[v] /\ dirty'[v] = dirty[v]
    BY <1>0, <2>1, MovesTo
  <2>3. Free(w) /\ Goto(w, "reason") /\ UNCHANGED <<up, stranded>> /\ pc'[w] = "reason"
    BY <1>0, <1>8 DEF ConfirmExpired, Cancel, world, Goto, TypeOK
  <2>4. HoldsItsState(w)'
    BY <1>4, <2>3 DEF HoldsItsState
  <2>. QED
    BY <1>3, <2>2, <2>3, <2>4
<1>9. CASE Reconcile(w, c, i)
  <2>1. it'[w] = store[i] /\ store[i].state = "UNKNOWN"
        /\ \A v \in Workers \ {w} : it'[v] = it[v] /\ dirty'[v] = dirty[v]
    BY <1>0, <1>9 DEF Reconcile, TypeOK
  <2>2. Free(w) /\ Goto(w, "reconcile") /\ UNCHANGED <<up, stranded>> /\ pc'[w] = "reconcile"
    BY <1>0, <1>9 DEF Reconcile, world, Goto, TypeOK
  <2>3. HoldsItsState(w)'
    BY <1>4, <2>1, <2>2 DEF HoldsItsState
  <2>. QED
    BY <1>3, <2>1, <2>2, <2>3
<1>. QED
  BY <1>1, <1>2, <1>5, <1>6, <1>7, <1>8, <1>9

\* A step of a call, and of a sweep until the server serves.
LEMMA StepOnTheWay ==
  ASSUME ConstantsAssumption, IInv, OnTheWay, NEW w \in Workers, Step(w), ~Serve(w)
  PROVE  OnTheWay'
<1>0. TypeOK /\ Held /\ HoldsItsState(w) /\ Shift(w)
  BY DEF IInv, OnTheWay
<1>1. ASSUME UNCHANGED <<up, stranded>>, pc[w] # "idle",
             \A v \in Workers \ {w} : it'[v] = it[v] /\ dirty'[v] = dirty[v],
             NEW label, pc' = [pc EXCEPT ![w] = label],
             label = "idle" => ~dirty'[w],
             label \in {"sweep", "swept"} <=> Sweeps(w),
             HoldsItsState(w)'
      PROVE  OnTheWay'
  <2>1. pc'[w] = label /\ \A v \in Workers \ {w} : pc'[v] = pc[v]
    BY <1>0, <1>1 DEF TypeOK
  <2>2. Sweeps(w)' <=> Sweeps(w)
    BY <1>1, <2>1 DEF Sweeps
  <2>3. Shift(w)'
    BY <1>0, <1>1, <2>1, <2>2 DEF Shift, OnServer
  <2>. QED
    BY <1>1, <2>1, <2>2, <2>3, OneGoesOn
<1>2. ASSUME NEW at \in Pcs, At(w, at), at \notin {"idle", "sweep"}
      PROVE  cur[w] \in Intents /\ it[w] \in Intent
  BY <1>0, <1>2, InCall DEF At
<1>3. CASE Put(w)
  <2>1. pc[w] # "idle" /\ UNCHANGED <<up, stranded>> /\ pc' = [pc EXCEPT ![w] = pc[w]]
    BY <1>0, <1>3 DEF Put, Shift, world, TypeOK
  <2>2. /\ ~dirty'[w]
        /\ \A v \in Workers \ {w} : it'[v] = it[v] /\ dirty'[v] = dirty[v]
    BY <1>0, <1>3 DEF Put, TypeOK
  <2>3. HoldsItsState(w)'
    BY <1>0, <1>3, <2>1 DEF Put, HoldsItsState
  <2>. QED
    BY <1>1, <2>1, <2>2, <2>3 DEF Sweeps
<1>4. CASE SetReason(w)
  <2>1. pc[w] = "reason" /\ UNCHANGED <<up, stranded>>
        /\ pc' = [pc EXCEPT ![w] = "return"] /\ pc'[w] = "return"
    BY <1>0, <1>4 DEF SetReason, At, Goto, world, TypeOK
  <2>2. \A v \in Workers \ {w} : it'[v] = it[v] /\ dirty'[v] = dirty[v]
    BY <1>0, <1>4 DEF SetReason, Mutate, TypeOK
  <2>3. HoldsItsState(w)'
    BY <1>0, <2>1 DEF HoldsItsState
  <2>. QED
    BY <1>1, <2>1, <2>2, <2>3 DEF Sweeps
<1>5. CASE Return(w)
  <2>1. pc[w] = "return" /\ UNCHANGED <<up, stranded, dirty>> /\ ~dirty[w]
        /\ pc' = [pc EXCEPT ![w] = "idle"] /\ pc'[w] = "idle"
        /\ \A v \in Workers \ {w} : it'[v] = it[v] /\ dirty'[v] = dirty[v]
    BY <1>0, <1>5 DEF Return, At, Goto, world, TypeOK
  <2>2. HoldsItsState(w)'
    BY <1>0, <2>1 DEF HoldsItsState
  <2>. QED
    BY <1>1, <2>1, <2>2 DEF Sweeps
<1>6. ASSUME NEW row \in Intent, NEW e, Move(w, cur[w], row, e), cur[w] \in Intents,
             UNCHANGED <<up, stranded>>, pc[w] # "idle", ~Sweeps(w),
             NEW label, pc' = [pc EXCEPT ![w] = label],
             \/ label \in {"return", "reason"}
             \/ e \in {"validate", "step_up"} /\ label = "decide"
             \/ e = "confirm" /\ label = "authorized"
             \/ e = "submit" /\ label = "submitted"
      PROVE  OnTheWay'
  <2>1. pc'[w] = label
    BY <1>0, <1>6 DEF TypeOK
  <2>2. /\ \A v \in Workers \ {w} : it'[v] = it[v] /\ dirty'[v] = dirty[v]
        /\ e \in {"validate", "step_up"} => it'[w].state = "VALIDATED"
        /\ e = "confirm" => it'[w].state = "AUTHORIZED"
        /\ e = "submit" => it'[w].state = "SUBMITTED"
    <3>1. TypeOK
      BY <1>0
    <3>2. Move(w, cur[w], row, e) /\ cur[w] \in Intents
      BY <1>6
    <3>. QED
      BY <3>1, <3>2, MovesTo
  <2>3. HoldsItsState(w)'
    BY <1>0, <1>6, <2>1, <2>2 DEF HoldsItsState
  <2>. QED
    BY <1>1, <1>6, <2>2, <2>3
<1>7. CASE CheckPreconditions(w)
  <2>1. At(w, "proposed") /\ pc[w] = "proposed" /\ UNCHANGED <<up, stranded>>
    BY <1>7 DEF CheckPreconditions, At, world
  <2>2. cur[w] \in Intents /\ it[w] \in Intent
    BY <1>2, <2>1 DEF Pcs
  <2>. QED
    BY <1>6, <1>7, <2>1, <2>2 DEF CheckPreconditions, Goto, Sweeps
<1>8. CASE Decide(w)
  <2>1. At(w, "decide") /\ pc[w] = "decide" /\ UNCHANGED <<up, stranded>>
    BY <1>8 DEF Decide, At, world
  <2>2. cur[w] \in Intents /\ it[w] \in Intent
    BY <1>2, <2>1 DEF Pcs
  <2>3. CASE Reject(w) \/ RequireStepUp(w)
    BY <1>6, <2>1, <2>2, <2>3 DEF Reject, RequireStepUp, Goto, Sweeps
  <2>4. CASE IssueConfirmation(w)
    <3>. DEFINE row == [it[w] EXCEPT !.issued = clock,
                                     !.digest = action_digest(ProcessOf[w], it[w].action)]
    <3>1. row \in Intent
      <4>1. action_digest(ProcessOf[w], it[w].action) \in Digest
        BY <2>2, DigestType DEF Intent, ConstantsAssumption
      <4>2. clock \in Times
        BY <1>0 DEF TypeOK
      <4>. HIDE DEF action_digest
      <4>. QED
        BY <2>2, <4>1, <4>2 DEF Intent
    <3>2. Move(w, cur[w], row, "await_confirmation") /\ pc' = [pc EXCEPT ![w] = "return"]
      BY <2>4 DEF IssueConfirmation, Goto
    <3>. HIDE DEF row
    <3>. QED
      BY <1>6, <2>1, <2>2, <3>1, <3>2 DEF Sweeps
  <2>. QED
    BY <1>8, <2>3, <2>4 DEF Decide
<1>9. CASE FinishStepUp(w)
  <2>1. At(w, "stepping_up") /\ pc[w] = "stepping_up" /\ UNCHANGED <<up, stranded>>
    BY <1>9 DEF FinishStepUp, At, world
  <2>2. cur[w] \in Intents /\ it[w] \in Intent
    BY <1>2, <2>1 DEF Pcs
  <2>. QED
    BY <1>6, <1>9, <2>1, <2>2 DEF FinishStepUp, Goto, Sweeps
<1>10. CASE Authorize(w)
  <2>1. At(w, "confirmed") /\ pc[w] = "confirmed" /\ UNCHANGED <<up, stranded>>
    BY <1>10 DEF Authorize, At, world
  <2>2. cur[w] \in Intents /\ it[w] \in Intent
    BY <1>2, <2>1 DEF Pcs
  <2>. QED
    BY <1>6, <1>10, <2>1, <2>2 DEF Authorize, Goto, Sweeps
<1>11. CASE Submit(w)
  <2>1. At(w, "authorized") /\ pc[w] = "authorized" /\ UNCHANGED <<up, stranded>>
    BY <1>11 DEF Submit, At, world
  <2>2. cur[w] \in Intents /\ it[w] \in Intent
    BY <1>2, <2>1 DEF Pcs
  <2>. QED
    BY <1>6, <1>11, <2>1, <2>2 DEF Submit, Goto, Sweeps
<1>12. CASE Debit(w) \/ Pay(w)
  <2>1. pc[w] \in {"submitted", "debited"} /\ UNCHANGED <<up, stranded, it, dirty>>
    BY <1>12 DEF Debit, Pay, At, world
  <2>2. PICK label \in {"paid", "refused", "debited", "timed_out"} :
             pc' = [pc EXCEPT ![w] = label]
    BY <1>12 DEF Debit, Pay, Goto
  <2>3. HoldsItsState(w)'
    BY <1>0, <2>1, <2>2 DEF HoldsItsState, TypeOK
  <2>. QED
    BY <1>1, <2>1, <2>2, <2>3 DEF Sweeps
<1>13. CASE Complete(w)
  <2>1. At(w, "paid") /\ pc[w] = "paid" /\ UNCHANGED <<up, stranded>>
    BY <1>13 DEF Complete, At, world
  <2>2. cur[w] \in Intents /\ it[w] \in Intent
    BY <1>2, <2>1 DEF Pcs
  <2>3. [it[w] EXCEPT !.receipt = payments[cur[w]]] \in Intent
    BY <1>0, <2>2 DEF TypeOK, Intent
  <2>. QED
    BY <1>6, <1>13, <2>1, <2>2, <2>3 DEF Complete, Goto, Sweeps
<1>14. CASE TimeOut(w) \/ Fail(w)
  <2>1. /\ UNCHANGED <<up, stranded>> /\ pc[w] \in {"timed_out", "refused"}
        /\ At(w, "timed_out") \/ At(w, "refused")
    BY <1>14 DEF TimeOut, Fail, At, world
  <2>2. cur[w] \in Intents /\ it[w] \in Intent
    BY <1>2, <2>1 DEF Pcs
  <2>. QED
    BY <1>6, <1>14, <2>1, <2>2 DEF TimeOut, Fail, Goto, Sweeps
<1>15. CASE AskBank(w)
  <2>1. At(w, "reconcile") /\ pc[w] = "reconcile" /\ UNCHANGED <<up, stranded>>
    BY <1>15 DEF AskBank, At, world
  <2>2. cur[w] \in Intents /\ it[w] \in Intent
    BY <1>2, <2>1 DEF Pcs
  <2>3. [it[w] EXCEPT !.receipt = payments[cur[w]]] \in Intent
    BY <1>0, <2>2 DEF TypeOK, Intent
  <2>. QED
    BY <1>6, <1>15, <2>1, <2>2, <2>3 DEF AskBank, Goto, Sweeps
<1>16. CASE SweepOne(w)
  <2>1. PICK s \in stranded[w] : /\ Move(w, s[1], s[2], "timeout")
                                 /\ stranded' = [stranded EXCEPT ![w] = @ \ {s}]
    BY <1>16 DEF SweepOne
  <2>2. pc[w] = "sweep" /\ UNCHANGED up /\ s[1] \in Intents /\ s[2] \in Intent
        /\ pc'[w] = "swept" /\ \A v \in Workers \ {w} : pc'[v] = pc[v]
    BY <1>0, <1>16, <2>1 DEF SweepOne, At, Goto, world, TypeOK
  <2>3. \A v \in Workers \ {w} : it'[v] = it[v] /\ dirty'[v] = dirty[v]
    BY <1>0, <2>1, <2>2, MovesTo
  <2>4. stranded'[w] = stranded[w] \ {s}
        /\ \A v \in Workers \ {w} : stranded'[v] = stranded[v]
    BY <1>0, <2>1 DEF TypeOK
  <2>5. HoldsItsState(w)' /\ Shift(w)' /\ Sweeps(w) /\ Sweeps(w)'
    BY <1>0, <2>2, <2>4 DEF HoldsItsState, Shift, Sweeps, OnServer
  <2>. QED
    BY <2>2, <2>3, <2>4, <2>5, OneGoesOn
<1>17. CASE SweepReason(w)
  <2>1. pc[w] = "swept" /\ UNCHANGED <<up, stranded>>
        /\ pc' = [pc EXCEPT ![w] = "sweep"] /\ pc'[w] = "sweep"
    BY <1>0, <1>17 DEF SweepReason, At, Goto, world, TypeOK
  <2>2. \A v \in Workers \ {w} : it'[v] = it[v] /\ dirty'[v] = dirty[v]
    BY <1>0, <1>17 DEF SweepReason, Mutate, TypeOK
  <2>3. HoldsItsState(w)'
    BY <1>0, <2>1 DEF HoldsItsState
  <2>. QED
    BY <1>1, <2>1, <2>2, <2>3 DEF Sweeps
<1>. QED
  BY <1>3, <1>4, <1>5, <1>7, <1>8, <1>9, <1>10, <1>11, <1>12, <1>13, <1>14, <1>15, <1>16,
     <1>17 DEF Step

\* The end of a sweep: the server serves.
LEMMA ServeOnTheWay ==
  ASSUME ConstantsAssumption, IInv, OnTheWay, NEW w \in Workers, Serve(w)
  PROVE  OnTheWay'
<1>0. TypeOK
  BY DEF IInv
<1>1. /\ pc[w] = "sweep" /\ Sweeps(w) /\ ~dirty[w] /\ stranded[w] = {}
      /\ pc'[w] = "idle" /\ UNCHANGED <<dirty, stranded>> /\ ProcessOf[w] \in Processes
      /\ \A v \in Workers \ {w} : pc'[v] = pc[v] /\ it'[v] = it[v]
      /\ up'[ProcessOf[w]] = TRUE
      /\ \A p \in Processes \ {ProcessOf[w]} : up'[p] = up[p]
  BY <1>0 DEF Serve, At, Goto, Sweeps, TypeOK, ConstantsAssumption
<1>2. \A v \in Workers \ {w} : ProcessOf[v] = ProcessOf[w] => pc[v] = "idle"
  BY <1>1 DEF OnTheWay, SweepsAlone
<1>3. ASSUME NEW v \in Workers PROVE HoldsItsState(v)' /\ Shift(v)'
  <2>0. ProcessOf[v] \in Processes /\ HoldsItsState(v) /\ Shift(v)
    BY DEF ConstantsAssumption, OnTheWay
  <2>1. CASE v = w
    BY <1>1, <2>1 DEF HoldsItsState, Shift, Sweeps
  <2>2. CASE v # w /\ ProcessOf[v] = ProcessOf[w]
    BY <1>1, <1>2, <2>0, <2>2 DEF HoldsItsState, Shift, Sweeps
  <2>3. CASE ProcessOf[v] # ProcessOf[w]
    BY <1>1, <2>0, <2>3 DEF HoldsItsState, Shift, Sweeps, OnServer
  <2>. QED
    BY <2>1, <2>2, <2>3
<1>4. SweepsAlone'
  BY <1>1 DEF OnTheWay, SweepsAlone, Sweeps
<1>. QED
  BY <1>3, <1>4 DEF OnTheWay

\* A boot of a server none of whose workers runs.
LEMMA BootOnTheWay ==
  ASSUME ConstantsAssumption, IInv, OnTheWay, NEW w \in Workers, Boot(w)
  PROVE  OnTheWay'
<1>0. TypeOK
  BY DEF IInv
<1>1. /\ OnServer(w) /\ ~up[ProcessOf[w]] /\ UNCHANGED <<up, it, dirty>>
      /\ \A v \in Workers : ProcessOf[v] = ProcessOf[w] => pc[v] = "idle"
      /\ pc'[w] = "sweep" /\ \A v \in Workers \ {w} : pc'[v] = pc[v]
      /\ \A v \in Workers \ {w} : stranded'[v] = stranded[v]
      /\ \A s \in stranded'[w] : s[2].state = "SUBMITTED"
  BY <1>0 DEF Boot, Goto, world, TypeOK
<1>2. ASSUME NEW v \in Workers PROVE HoldsItsState(v)' /\ Shift(v)'
  <2>1. HoldsItsState(v) /\ Shift(v)
    BY DEF OnTheWay
  <2>2. CASE v = w
    BY <1>1, <2>2 DEF HoldsItsState, Shift, Sweeps, OnServer
  <2>3. CASE v # w
    BY <1>1, <2>1, <2>3 DEF HoldsItsState, Shift, Sweeps, OnServer
  <2>. QED
    BY <2>2, <2>3
<1>3. SweepsAlone'
  <2>. SUFFICES ASSUME NEW u \in Workers, NEW v \in Workers, Sweeps(v)',
                       ProcessOf[u] = ProcessOf[v], u # v
                PROVE  pc'[u] = "idle"
    BY DEF SweepsAlone
  <2>1. CASE v = w
    BY <1>1, <2>1
  <2>2. CASE v # w
    <3>1. Sweeps(v) /\ pc[u] = "idle" /\ ProcessOf[v] # ProcessOf[w]
      BY <1>1, <2>2 DEF OnTheWay, SweepsAlone, Sweeps
    <3>. QED
      BY <1>1, <3>1
  <2>. QED
    BY <2>1, <2>2
<1>. QED
  BY <1>2, <1>3 DEF OnTheWay

\* A death, the start of a CLI process, the clock, a rewritten row.
LEMMA WorldOnTheWay ==
  ASSUME ConstantsAssumption, IInv, OnTheWay, Environment
  PROVE  OnTheWay'
<1>0. TypeOK
  BY DEF IInv
<1>1. ASSUME NEW p \in Processes, Crash(p) PROVE OnTheWay'
  <2>1. ASSUME NEW v \in Workers, ProcessOf[v] = p PROVE HoldsItsState(v)' /\ Shift(v)'
    BY <1>1, <2>1 DEF Crash, HoldsItsState, Shift, Sweeps
  <2>2. ASSUME NEW v \in Workers, ProcessOf[v] # p
        PROVE  /\ pc'[v] = pc[v] /\ it'[v] = it[v] /\ dirty'[v] = dirty[v]
               /\ stranded'[v] = stranded[v] /\ up'[ProcessOf[v]] = up[ProcessOf[v]]
    BY <1>0, <1>1, <2>2 DEF Crash, TypeOK, ConstantsAssumption
  <2>3. ASSUME NEW v \in Workers, ProcessOf[v] # p PROVE HoldsItsState(v)' /\ Shift(v)'
    BY <2>2, <2>3 DEF OnTheWay, HoldsItsState, Shift, Sweeps, OnServer
  <2>4. \A v \in Workers : ProcessOf[v] = p => pc'[v] = "idle"
    BY <1>1 DEF Crash
  <2>5. SweepsAlone'
    BY <2>2, <2>4 DEF OnTheWay, SweepsAlone, Sweeps
  <2>. QED
    BY <2>1, <2>3, <2>5 DEF OnTheWay
<1>2. ASSUME NEW p \in Processes, Invoke(p) PROVE OnTheWay'
  <2>1. /\ UNCHANGED <<pc, it, dirty, stranded>>
        /\ p \notin Servers /\ ~up[p] /\ \A q \in Processes \ {p} : up'[q] = up[q]
    BY <1>0, <1>2 DEF Invoke, local, TypeOK
  <2>2. ASSUME NEW v \in Workers PROVE HoldsItsState(v)' /\ Shift(v)'
    <3>1. HoldsItsState(v) /\ Shift(v) /\ ProcessOf[v] \in Processes
      BY DEF OnTheWay, ConstantsAssumption
    <3>2. ProcessOf[v] = p => pc[v] = "idle"
      BY <2>1, <3>1 DEF Shift, OnServer
    <3>. QED
      BY <2>1, <3>1, <3>2 DEF HoldsItsState, Shift, Sweeps, OnServer
  <2>3. SweepsAlone'
    BY <2>1 DEF OnTheWay, SweepsAlone, Sweeps
  <2>. QED
    BY <2>2, <2>3 DEF OnTheWay
<1>3. CASE Tick
  BY <1>3, NobodyMoves DEF Tick, local
<1>4. ASSUME NEW i \in Intents, NEW action \in Action, Tamper(i, action) PROVE OnTheWay'
  BY <1>4, NobodyMoves DEF Tamper, local
<1>. QED
  BY <1>1, <1>2, <1>3, <1>4 DEF Environment

\* Wherever a call is, its own object is in the state that place expects.
LEMMA AlwaysOnTheWay == Spec => []OnTheWay
<1>1. Init => OnTheWay
  BY DEF Init, OnTheWay, HoldsItsState, Shift, Sweeps, SweepsAlone
<1>2. IInv /\ OnTheWay /\ [Next]_vars => OnTheWay'
  <2>. SUFFICES ASSUME IInv, OnTheWay, [Next]_vars PROVE OnTheWay'
    OBVIOUS
  <2>1. CASE UNCHANGED vars
    BY <2>1, NobodyMoves DEF vars
  <2>. QED
    BY <2>1, ConstantsAssumption, CallOnTheWay, StepOnTheWay, ServeOnTheWay, BootOnTheWay,
       WorldOnTheWay DEF Next
<1>. QED
  BY <1>1, <1>2, Inductive, PTL DEF Spec

\* No handler asks transition() for an edge the machine does not have, however the row it
\* read has changed under it: IllegalTransition comes to a caller from cancel alone, and no
\* sweep stops at a row (state.transition, plane._move).
THEOREM NeverRefusedHalfway == Spec => []MovesAreLegal
<1>1. OnTheWay => MovesAreLegal
  <2>1. \A row : /\ row.state = "CREATED" => Legal(row, "validate") /\ Legal(row, "reject")
                 /\ row.state = "VALIDATED" =>
                      \A e \in {"reject", "require_step_up", "await_confirmation"} : Legal(row, e)
                 /\ row.state = "AWAITING_STEP_UP" => Legal(row, "step_up")
                 /\ row.state = "AWAITING_CONFIRMATION" => Legal(row, "confirm")
                 /\ row.state = "AUTHORIZED" => Legal(row, "submit")
                 /\ row.state = "SUBMITTED" =>
                      \A e \in {"complete", "fail", "timeout"} : Legal(row, e)
                 /\ row.state = "UNKNOWN" => Legal(row, "complete") /\ Legal(row, "fail")
    BY DEF Legal, TRANSITIONS, State
  <2>. QED
    BY <2>1 DEF OnTheWay, HoldsItsState, MovesAreLegal
<1>. QED
  BY <1>1, AlwaysOnTheWay, PTL

\* A server answers nobody while the sweep of its boot runs, whatever runs in the other
\* processes meanwhile (app.py, the lifespan's on_startup; sweep_on_boot).
THEOREM BootSweepsAlone == Spec => []SweepsAlone
<1>1. OnTheWay => SweepsAlone
  BY DEF OnTheWay
<1>. QED
  BY <1>1, AlwaysOnTheWay, PTL

-----------------------------------------------------------------------------
\* w is nearer to the end of its call, and nobody else is farther.
Gains(w) ==
  /\ Left(w)' < Left(w)
  /\ \A v \in Workers \ {w} : Left(v)' = Left(v)

\* Each step of a call or of a sweep takes its worker nearer to the end, and only its worker.
StepsGain == [][\A w \in Workers : Step(w) => Gains(w)]_vars

FiniteSweeps == \A w \in Workers : IsFiniteSet(stranded[w])

LEMMA Ranks ==
  /\ \A at \in Pcs : Rank[at] \in 0 .. 6
  /\ Rank["idle"] = 0 /\ Rank["return"] = 1 /\ Rank["reason"] = 2 /\ Rank["paid"] = 2
  /\ Rank["timed_out"] = 2 /\ Rank["refused"] = 2 /\ Rank["reconcile"] = 3
  /\ Rank["debited"] = 3 /\ Rank["submitted"] = 4 /\ Rank["authorized"] = 5
  /\ Rank["confirmed"] = 6 /\ Rank["decide"] = 3 /\ Rank["proposed"] = 4
  /\ Rank["stepping_up"] = 4 /\ Rank["sweep"] = 1 /\ Rank["swept"] = 2
BY DEF Rank, Pcs

\* What is left is a number.
LEMMA LeftIsNatural ==
  ASSUME TypeOK, FiniteSweeps, NEW w \in Workers
  PROVE  /\ Rank[pc[w]] \in Nat /\ Cardinality(stranded[w]) \in Nat /\ Left(w) \in Nat
         /\ stranded[w] = {} => Left(w) <= 13
<1>1. Cardinality(stranded[w]) \in Nat
  BY FS_CardinalityType DEF FiniteSweeps
<1>2. Rank[pc[w]] \in 0 .. 6
  BY Ranks DEF TypeOK
<1>3. Owes(w) \in {0, 1}
  BY DEF Owes
<1>4. stranded[w] = {} => Cardinality(stranded[w]) = 0
  BY FS_EmptySet
<1>. DEFINE places == Rank[pc[w]]
            rows == Cardinality(stranded[w])
<1>5. Left(w) = 2 * (places + 2 * rows) + Owes(w)
  BY DEF Left
<1>6. places \in 0 .. 6 /\ rows \in Nat /\ (stranded[w] = {} => rows = 0)
  BY <1>1, <1>2, <1>4
<1>7. places \in Nat /\ Left(w) \in Nat /\ (rows = 0 => Left(w) <= 13)
  <2>. HIDE DEF places, rows
  <2>. QED
    BY <1>3, <1>5, <1>6
<1>. QED
  BY <1>1, <1>6, <1>7

\* A step to a place nearer to the end, whether it leaves a put behind or not.
LEMMA PlaceGains ==
  ASSUME TypeOK, FiniteSweeps, NEW w \in Workers, ~dirty[w], UNCHANGED stranded,
         \A v \in Workers \ {w} : dirty'[v] = dirty[v],
         NEW label \in Pcs, pc' = [pc EXCEPT ![w] = label], Rank[label] < Rank[pc[w]]
  PROVE  Gains(w)
<1>1. pc'[w] = label /\ \A v \in Workers \ {w} : pc'[v] = pc[v]
  BY DEF TypeOK
<1>2. Rank[pc[w]] \in Nat /\ Rank[label] \in Nat /\ Cardinality(stranded[w]) \in Nat
  BY Ranks, LeftIsNatural
<1>3. Owes(w) = 0 /\ Owes(w)' \in {0, 1} /\ \A v \in Workers \ {w} : Owes(v)' = Owes(v)
  BY DEF Owes
<1>4. Left(w)' = 2 * (Rank[label] + 2 * Cardinality(stranded[w])) + Owes(w)'
  BY <1>1 DEF Left
<1>5. Left(w)' < Left(w)
  BY <1>2, <1>3, <1>4 DEF Left
<1>6. \A v \in Workers \ {w} : Left(v)' = Left(v)
  BY <1>1, <1>3 DEF Left
<1>. QED
  BY <1>5, <1>6 DEF Gains

LEMMA StepGains ==
  ASSUME ConstantsAssumption, IInv, FiniteSweeps, NEW w \in Workers, Step(w)
  PROVE  Gains(w)
<1>0. TypeOK /\ Held
  BY DEF IInv
<1>1. ASSUME NEW row, Mutate(w, row) PROVE \A v \in Workers \ {w} : dirty'[v] = dirty[v]
  BY <1>0, <1>1 DEF Mutate, TypeOK
<1>2. ASSUME NEW i, NEW row, NEW e, Move(w, i, row, e)
      PROVE  \A v \in Workers \ {w} : dirty'[v] = dirty[v]
  <2>1. PICK new : Mutate(w, new)
    BY <1>2 DEF Move
  <2>. QED
    BY <1>1, <2>1
<1>3. ASSUME NEW at \in Pcs, NEW label \in Pcs, At(w, at), Goto(w, label),
             UNCHANGED stranded, \A v \in Workers \ {w} : dirty'[v] = dirty[v],
             Rank[label] < Rank[at]
      PROVE  Gains(w)
  <2>1. pc[w] = at /\ ~dirty[w] /\ pc' = [pc EXCEPT ![w] = label]
    BY <1>3 DEF At, Goto
  <2>2. TypeOK
    BY <1>0
  <2>3. Rank[label] < Rank[pc[w]]
    BY <1>3, <2>1
  <2>4. UNCHANGED stranded /\ \A v \in Workers \ {w} : dirty'[v] = dirty[v]
    BY <1>3
  <2>. QED
    BY <2>1, <2>2, <2>3, <2>4, PlaceGains
<1>4. CASE Put(w)
  <2>1. dirty[w] /\ ~dirty'[w] /\ UNCHANGED <<pc, stranded>>
        /\ \A v \in Workers \ {w} : dirty'[v] = dirty[v]
    BY <1>0, <1>4 DEF Put, TypeOK
  <2>2. Rank[pc[w]] \in Nat /\ Cardinality(stranded[w]) \in Nat
    BY <1>0, LeftIsNatural
  <2>3. Owes(w) = 1 /\ Owes(w)' = 0 /\ \A v \in Workers \ {w} : Owes(v)' = Owes(v)
    BY <2>1 DEF Owes
  <2>. QED
    BY <2>1, <2>2, <2>3 DEF Gains, Left
<1>5. CASE SetReason(w)
  BY <1>1, <1>3, <1>5, Ranks DEF SetReason, Pcs
<1>6. CASE Return(w)
  BY <1>3, <1>6, Ranks DEF Return, Pcs
<1>7. CASE CheckPreconditions(w)
  <2>1. At(w, "proposed") /\ UNCHANGED stranded
        /\ \A v \in Workers \ {w} : dirty'[v] = dirty[v]
    BY <1>2, <1>7 DEF CheckPreconditions
  <2>2. Goto(w, "decide") \/ Goto(w, "return")
    BY <1>7 DEF CheckPreconditions
  <2>. QED
    BY <1>3, <2>1, <2>2, Ranks DEF Pcs
<1>8. CASE Decide(w)
  <2>1. At(w, "decide") /\ UNCHANGED stranded
        /\ \A v \in Workers \ {w} : dirty'[v] = dirty[v]
    BY <1>2, <1>8 DEF Decide, Reject, RequireStepUp, IssueConfirmation
  <2>2. Goto(w, "reason") \/ Goto(w, "return")
    BY <1>8 DEF Decide, Reject, RequireStepUp, IssueConfirmation
  <2>. QED
    BY <1>3, <2>1, <2>2, Ranks DEF Pcs
<1>9. CASE FinishStepUp(w)
  BY <1>2, <1>3, <1>9, Ranks DEF FinishStepUp, Pcs
<1>10. CASE Authorize(w)
  BY <1>2, <1>3, <1>10, Ranks DEF Authorize, Pcs
<1>11. CASE Submit(w)
  BY <1>2, <1>3, <1>11, Ranks DEF Submit, Pcs
<1>12. CASE Debit(w)
  <2>1. At(w, "submitted") /\ UNCHANGED <<stranded, dirty>>
    BY <1>12 DEF Debit
  <2>2. Goto(w, "paid") \/ Goto(w, "refused") \/ Goto(w, "debited")
    BY <1>12 DEF Debit
  <2>. QED
    BY <1>3, <2>1, <2>2, Ranks DEF Pcs
<1>13. CASE Pay(w)
  <2>1. At(w, "debited") /\ UNCHANGED <<stranded, dirty>>
    BY <1>13 DEF Pay
  <2>2. Goto(w, "timed_out") \/ Goto(w, "paid")
    BY <1>13 DEF Pay
  <2>. QED
    BY <1>3, <2>1, <2>2, Ranks DEF Pcs
<1>14. CASE Complete(w)
  BY <1>2, <1>3, <1>14, Ranks DEF Complete, Pcs
<1>15. CASE TimeOut(w)
  BY <1>2, <1>3, <1>15, Ranks DEF TimeOut, Pcs
<1>16. CASE Fail(w)
  BY <1>2, <1>3, <1>16, Ranks DEF Fail, Pcs
<1>17. CASE AskBank(w)
  <2>1. At(w, "reconcile") /\ UNCHANGED stranded
        /\ \A v \in Workers \ {w} : dirty'[v] = dirty[v]
    BY <1>2, <1>17 DEF AskBank
  <2>2. Goto(w, "reason") \/ Goto(w, "return")
    BY <1>17 DEF AskBank
  <2>. QED
    BY <1>3, <2>1, <2>2, Ranks DEF Pcs
<1>18. CASE SweepOne(w)
  <2>1. PICK s \in stranded[w] : /\ Move(w, s[1], s[2], "timeout")
                                 /\ stranded' = [stranded EXCEPT ![w] = @ \ {s}]
    BY <1>18 DEF SweepOne
  <2>2. pc[w] = "sweep" /\ ~dirty[w] /\ pc'[w] = "swept"
        /\ \A v \in Workers \ {w} : pc'[v] = pc[v]
    BY <1>0, <1>18 DEF SweepOne, At, Goto, TypeOK
  <2>3. \A v \in Workers \ {w} : dirty'[v] = dirty[v]
    BY <1>2, <2>1
  <2>4. stranded'[w] = stranded[w] \ {s}
        /\ \A v \in Workers \ {w} : stranded'[v] = stranded[v]
    BY <1>0, <2>1 DEF TypeOK
  <2>5. Cardinality(stranded'[w]) = Cardinality(stranded[w]) - 1
        /\ Cardinality(stranded[w]) \in Nat
    <3>1. IsFiniteSet(stranded[w]) /\ s \in stranded[w]
      BY DEF FiniteSweeps
    <3>. QED
      BY <2>4, <3>1, FS_RemoveElement, FS_CardinalityType
  <2>6. Owes(w) = 0 /\ Owes(w)' \in {0, 1} /\ \A v \in Workers \ {w} : Owes(v)' = Owes(v)
    BY <2>2, <2>3 DEF Owes
  <2>7. Rank[pc[w]] = 1 /\ Rank[pc'[w]] = 2
    BY <2>2, Ranks
  <2>8. Left(w)' < Left(w)
    BY <2>5, <2>6, <2>7 DEF Left
  <2>9. \A v \in Workers \ {w} : Left(v)' = Left(v)
    BY <2>2, <2>4, <2>6 DEF Left
  <2>. QED
    BY <2>8, <2>9 DEF Gains
<1>19. CASE SweepReason(w)
  BY <1>1, <1>3, <1>19, Ranks DEF SweepReason, Pcs
<1>20. CASE Serve(w)
  <2>1. At(w, "sweep") /\ Goto(w, "idle") /\ UNCHANGED <<stranded, dirty>>
    BY <1>20 DEF Serve
  <2>2. "sweep" \in Pcs /\ "idle" \in Pcs /\ Rank["idle"] < Rank["sweep"]
    BY Ranks DEF Pcs
  <2>. QED
    BY <1>3, <2>1, <2>2
<1>. QED
  BY <1>4, <1>5, <1>6, <1>7, <1>8, <1>9, <1>10, <1>11, <1>12, <1>13, <1>14, <1>15, <1>16,
     <1>17, <1>18, <1>19, <1>20 DEF Step

\* What a boot finds is no more than there are intents.
LEMMA FindsFinite ==
  ASSUME IsFiniteSet(Intents), NEW S \in SUBSET Intents
  PROVE  IsFiniteSet({<<i, store[i]>> : i \in S})
<1>. DEFINE T == {<<i, store[i]>> : i \in S}
            f == [i \in S |-> <<i, store[i]>>]
<1>1. f \in Surjection(S, T)
  BY DEF Surjection
<1>2. IsFiniteSet(S)
  BY FS_Subset
<1>. HIDE DEF f, T
<1>3. IsFiniteSet(T)
  BY <1>1, <1>2, FS_Surjection
<1>. QED
  BY <1>3 DEF T

\* A sweep never has more than finitely many rows to do.
LEMMA AlwaysFinite ==
  ASSUME IsFiniteSet(Intents)
  PROVE  Spec => []FiniteSweeps
<1>1. Init => FiniteSweeps
  BY FS_EmptySet DEF Init, FiniteSweeps
<1>2. IInv /\ FiniteSweeps /\ [Next]_vars => FiniteSweeps'
  <2>. SUFFICES ASSUME IInv, FiniteSweeps, [Next]_vars PROVE FiniteSweeps'
    OBVIOUS
  <2>0. TypeOK
    BY DEF IInv
  <2>1. ASSUME UNCHANGED stranded PROVE FiniteSweeps'
    BY <2>1 DEF FiniteSweeps
  <2>2. CASE UNCHANGED vars
    BY <2>1, <2>2 DEF vars
  <2>3. ASSUME NEW w \in Workers, Call(w) PROVE FiniteSweeps'
    BY <2>1, <2>3 DEF Call, AskWhichContact, Propose, StepUp, DuplicateConfirmation,
          ConfirmExpired, DigestMismatch, Confirm, Cancel, CancelRefused, Reconcile, local
  <2>4. ASSUME NEW w \in Workers, Step(w), ~SweepOne(w) PROVE FiniteSweeps'
    <3>1. CASE Put(w) \/ SetReason(w) \/ Return(w) \/ CheckPreconditions(w) \/ Decide(w)
      BY <2>1, <3>1 DEF Put, SetReason, Return, CheckPreconditions, Decide
    <3>2. CASE FinishStepUp(w) \/ Authorize(w) \/ Submit(w) \/ Debit(w) \/ Pay(w)
      BY <2>1, <3>2 DEF FinishStepUp, Authorize, Submit, Debit, Pay
    <3>3. CASE Complete(w) \/ TimeOut(w) \/ Fail(w) \/ AskBank(w) \/ SweepReason(w) \/ Serve(w)
      BY <2>1, <3>3 DEF Complete, TimeOut, Fail, AskBank, SweepReason, Serve
    <3>. QED
      BY <2>4, <3>1, <3>2, <3>3 DEF Step
  <2>5. ASSUME NEW w \in Workers, SweepOne(w) PROVE FiniteSweeps'
    <3>1. PICK s \in stranded[w] : stranded' = [stranded EXCEPT ![w] = @ \ {s}]
      BY <2>5 DEF SweepOne
    <3>2. IsFiniteSet(stranded[w] \ {s})
      BY FS_RemoveElement DEF FiniteSweeps
    <3>. QED
      BY <2>0, <3>1, <3>2 DEF FiniteSweeps, TypeOK
  <2>6. ASSUME NEW w \in Workers, Boot(w) PROVE FiniteSweeps'
    <3>. DEFINE S == {j \in Intents : store[j] # None /\ store[j].state = "SUBMITTED"}
    <3>1. stranded' = [stranded EXCEPT ![w] = {<<i, store[i]>> : i \in S}]
      BY <2>6 DEF Boot
    <3>2. IsFiniteSet({<<i, store[i]>> : i \in S})
      <4>1. S \in SUBSET Intents
        OBVIOUS
      <4>. HIDE DEF S
      <4>. QED
        BY <4>1, FindsFinite
    <3>. HIDE DEF S
    <3>. QED
      BY <2>0, <3>1, <3>2 DEF FiniteSweeps, TypeOK
  <2>7. ASSUME NEW p \in Processes, Crash(p) PROVE FiniteSweeps'
    BY <2>7, FS_EmptySet DEF Crash, FiniteSweeps
  <2>8. CASE \/ \E p \in Processes : Invoke(p)
             \/ \E i \in Intents, action \in Action : Tamper(i, action)
             \/ Tick
    BY <2>1, <2>8 DEF Invoke, Tamper, Tick, local
  <2>. QED
    BY <2>2, <2>3, <2>4, <2>5, <2>6, <2>7, <2>8 DEF Next, Environment
<1>. QED
  BY <1>1, <1>2, Inductive, PTL DEF Spec

\* Every call ends: a step of a call or of a sweep takes one off what its worker has left and
\* leaves the others theirs, however they race, so that neither a confirm nor a sweep can go
\* round for ever (_execute, step_up, sweep; nothing in plane.py retries).
THEOREM CallsEnd ==
  ASSUME IsFiniteSet(Intents)
  PROVE  Spec => StepsGain
<1>1. IInv /\ FiniteSweeps => \A w \in Workers : Step(w) => Gains(w)
  BY StepGains, ConstantsAssumption
<1>2. IInv /\ FiniteSweeps /\ [Next]_vars => [\A w \in Workers : Step(w) => Gains(w)]_vars
  BY <1>1
<1>. QED
  BY <1>2, AlwaysFinite, Inductive, PTL DEF Spec, StepsGain

\* What a worker has left is a number, and outside a sweep at most thirteen, which is what a
\* confirm has that passed its checks: no call of the plane takes more steps than that.
THEOREM CallsAreShort ==
  ASSUME IsFiniteSet(Intents)
  PROVE  Spec => [](\A w \in Workers : Left(w) \in Nat /\ (Sweeps(w) \/ Left(w) <= 13))
<1>1. IInv /\ OnTheWay /\ FiniteSweeps =>
        \A w \in Workers : Left(w) \in Nat /\ (Sweeps(w) \/ Left(w) <= 13)
  BY LeftIsNatural DEF IInv, OnTheWay, Shift
<1>. QED
  BY <1>1, AlwaysFinite, AlwaysOnTheWay, Inductive, PTL
==============================================================================
