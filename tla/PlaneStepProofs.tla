--------------------------- MODULE PlaneStepProofs ---------------------------
(****************************************************************************)
(* Every step of the plane keeps the inductive invariant: its state stays well *)
(* typed and a worker inside a call in possession of an intent; copies of an   *)
(* intent are genuine, a worker knows what its point in a call requires, and   *)
(* offer, consent and payment form a chain.                                    *)
(****************************************************************************)
EXTENDS PlaneInductive, TLAPS

-----------------------------------------------------------------------------
(* Types, and possession of an intent inside a call.                       *)

\* Changing one field of an intent to a value of the field's type gives an intent.
LEMMA IntentUpdate ==
  ASSUME NEW row \in Intent
  PROVE  /\ \A s \in State : [row EXCEPT !.state = s] \in Intent
         /\ [row EXCEPT !.reason = TRUE] \in Intent
         /\ [row EXCEPT !.assurance = "strong"] \in Intent
         /\ \A t \in Times : [row EXCEPT !.confirmed = t] \in Intent
         /\ \A r \in Receipt \cup {None} : [row EXCEPT !.receipt = r] \in Intent
         /\ \A a \in Action : [row EXCEPT !.action = a] \in Intent
         /\ \A t \in Times, d \in Digest : [row EXCEPT !.issued = t, !.digest = d] \in Intent
BY DEF Intent, Assurance, ASSURANCE_RANK

\* What _move does before its put: one hop in the ledger, one field of the worker's object.
LEMMA MoveEffect ==
  ASSUME TypeOK, NEW w \in Workers, NEW i \in Intents, NEW row \in Intent, NEW e,
         Move(w, i, row, e)
  PROVE  \E to \in State, t \in TRANSITIONS :
           /\ t = <<row.state, e, to>>
           /\ [row EXCEPT !.state = to] \in Intent
           /\ it' = [it EXCEPT ![w] = [row EXCEPT !.state = to]]
           /\ dirty' = [dirty EXCEPT ![w] = TRUE]
           /\ hops' = [hops EXCEPT ![i] = @ \cup {t}]
BY IntentUpdate DEF Move, Mutate

\* _move keeps everything of the object but its state, touches nobody else's object, and
\* only adds to the trail.
LEMMA MoveType ==
  ASSUME TypeOK, NEW w \in Workers, NEW i \in Intents, NEW row \in Intent, NEW e,
         Move(w, i, row, e)
  PROVE  /\ hops' \in [Intents -> SUBSET TRANSITIONS]
         /\ \A j \in Intents : hops[j] \subseteq hops'[j]
         /\ it' \in [Workers -> Intent \cup {None}]
         /\ dirty' \in [Workers -> BOOLEAN]
         /\ it'[w] \in Intent
         /\ it'[w].conv = row.conv /\ it'[w].action = row.action
         /\ it'[w].issued = row.issued /\ it'[w].digest = row.digest
         /\ it'[w].assurance = row.assurance
         /\ \A v \in Workers \ {w} : it'[v] = it[v] /\ dirty'[v] = dirty[v]
<1>1. PICK to \in State, t \in TRANSITIONS :
           /\ [row EXCEPT !.state = to] \in Intent
           /\ it' = [it EXCEPT ![w] = [row EXCEPT !.state = to]]
           /\ dirty' = [dirty EXCEPT ![w] = TRUE]
           /\ hops' = [hops EXCEPT ![i] = @ \cup {t}]
  BY MoveEffect
<1>2. hops' \in [Intents -> SUBSET TRANSITIONS] /\ \A j \in Intents : hops[j] \subseteq hops'[j]
  BY <1>1 DEF TypeOK
<1>3. /\ it' \in [Workers -> Intent \cup {None}] /\ dirty' \in [Workers -> BOOLEAN]
      /\ it'[w] = [row EXCEPT !.state = to]
  BY <1>1 DEF TypeOK
<1>4. \A v \in Workers \ {w} : it'[v] = it[v] /\ dirty'[v] = dirty[v]
  BY <1>1 DEF TypeOK
<1>5. /\ it'[w].conv = row.conv /\ it'[w].action = row.action
      /\ it'[w].issued = row.issued /\ it'[w].digest = row.digest
      /\ it'[w].assurance = row.assurance
  BY <1>3 DEF Intent
<1> QED  BY <1>1, <1>2, <1>3, <1>4, <1>5

\* Updating a function of functions at two arguments keeps its type, even where the inner
\* argument is outside the domain.
LEMMA NestedUpdate ==
  ASSUME NEW P, NEW C, NEW V, NEW f \in [P -> [C -> V]], NEW p \in P, NEW c, NEW v,
         c \in C => v \in V
  PROVE  [f EXCEPT ![p][c] = v] \in [P -> [C -> V]]
<1> DEFINE g == [f[p] EXCEPT ![c] = v]
<1>1. g \in [C -> V]
  OBVIOUS
<1>2. [f EXCEPT ![p] = g] \in [P -> [C -> V]]
  <2> HIDE DEF g
  <2> QED BY <1>1
<1>3. [f EXCEPT ![p][c] = v] = [f EXCEPT ![p] = g]
  OBVIOUS
<1> QED BY <1>2, <1>3

\* Inside a call the worker holds an intent.
LEMMA InCall ==
  ASSUME TypeOK, Held, NEW w \in Workers, pc[w] \notin {"idle", "sweep"}
  PROVE  cur[w] \in Intents /\ it[w] \in Intent
BY DEF TypeOK, Held

\* propose builds a well-typed intent.
LEMMA NewIntentType ==
  ASSUME NEW c \in Conversations, NEW a \in Action
  PROVE  new_intent(c, a) \in Intent
BY DEF new_intent, Intent, State, Assurance, ASSURANCE_RANK, Never

\* action_digest yields a digest of the plane.
LEMMA DigestType ==
  ASSUME NEW p \in Processes, NEW a \in Action
  PROVE  action_digest(p, a) \in Digest
BY DEF action_digest, Digest

\* Every step keeps the state well typed and every call in possession of its intent.
LEMMA TypeStep ==
  ASSUME TypeOK, Held, ConstantsAssumption, Next
  PROVE  TypeOK' /\ Held'
<1>1. ASSUME NEW w \in Workers, NEW c \in Conversations, NEW i \in Intents,
             NEW name \in Names, AskWhichContact(w, c, i, name)
      PROVE  TypeOK' /\ Held'
  BY <1>1, ConstantsAssumption DEF AskWhichContact, TypeOK, Held, Events, bank, world, local,
     Log, Free, Request
<1>2. ASSUME NEW w \in Workers, NEW c \in Conversations, NEW i \in Intents,
             NEW name \in Names, NEW amount \in Amounts, Propose(w, c, i, name, amount)
      PROVE  TypeOK' /\ Held'
  <2>1. PICK recipient \in Recipients :
            Mutate(w, new_intent(c, [recipient |-> recipient, amount |-> amount]))
    BY <1>2 DEF Propose
  <2>2. new_intent(c, [recipient |-> recipient, amount |-> amount]) \in Intent
    BY NewIntentType DEF Action
  <2> DEFINE row == new_intent(c, [recipient |-> recipient, amount |-> amount])
  <2> HIDE DEF row
  <2>3. row \in Intent /\ Mutate(w, row)
    BY <2>1, <2>2 DEF row
  <2>4. /\ Free(w) /\ Request(c, i) /\ Take(w, c, i) /\ Goto(w, "proposed")
        /\ UNCHANGED <<store, hops, offers, consents, payments, bank, world, stranded>>
    BY <1>2 DEF Propose
  <2> QED  BY <2>3, <2>4 DEF Mutate, Take, Request, TypeOK, Held, Events, Pcs, bank, world,
       Log, Goto, Free
<1>3. ASSUME NEW w \in Workers, NEW c \in Conversations, NEW i \in Intents, StepUp(w, c, i)
      PROVE  TypeOK' /\ Held'
  <2>1. [store[i] EXCEPT !.assurance = "strong"] \in Intent
    BY <1>3, IntentUpdate DEF StepUp, owned_by_customer, TypeOK
  <2> QED  BY <1>3, <2>1, InCall, ConstantsAssumption DEF StepUp, Mutate, Take, TypeOK, Held,
       Pcs, bank, world, durable, Goto, Free
<1>4. ASSUME NEW w \in Workers, NEW c \in Conversations, NEW i \in Intents,
             DuplicateConfirmation(w, c, i)
      PROVE  TypeOK' /\ Held'
  BY <1>4, ConstantsAssumption DEF DuplicateConfirmation, TypeOK, Held, Events, bank, world,
     local, Log, Free
<1>5. ASSUME NEW w \in Workers, NEW c \in Conversations, NEW i \in Intents,
             ConfirmExpired(w, c, i)
      PROVE  TypeOK' /\ Held'
  <2>1. store[i] \in Intent
    BY <1>5 DEF ConfirmExpired, by_confirmation, confirmable, TypeOK
  <2> QED  BY <1>5, <2>1, MoveType DEF ConfirmExpired, Take, TypeOK, Held, Events, Pcs, bank,
       world, Log, Goto, Free
<1>6. ASSUME NEW w \in Workers, NEW c \in Conversations, NEW i \in Intents,
             DigestMismatch(w, c, i)
      PROVE  TypeOK' /\ Held'
  BY <1>6, ConstantsAssumption DEF DigestMismatch, TypeOK, Held, Events, bank, world, local,
     Log, Free
<1>7. ASSUME NEW w \in Workers, NEW c \in Conversations, NEW i \in Intents, Confirm(w, c, i)
      PROVE  TypeOK' /\ Held'
  <2> DEFINE row == [store[i] EXCEPT !.confirmed = clock]
  <2>1. store[i] \in Intent /\ store[i].issued \in Times /\ clock \in Times
    BY <1>7 DEF Confirm, confirmable, by_confirmation, TypeOK, Intent
  <2>2. row \in Intent
    BY <2>1, IntentUpdate
  <2>3. row.issued \in Times /\ row.confirmed \in Times
    BY <2>1 DEF Intent
  <2>4. /\ pc[w] = "idle" /\ Take(w, c, i) /\ Mutate(w, row) /\ Goto(w, "confirmed")
        /\ UNCHANGED <<durable, bank, world, stranded>>
    BY <1>7 DEF Confirm, Free
  <2> HIDE DEF row
  <2> QED  BY <2>2, <2>3, <2>4 DEF Mutate, Take, TypeOK, Held, Pcs, bank, world, durable, Goto,
       Free
<1>8. ASSUME NEW w \in Workers, NEW c \in Conversations, NEW i \in Intents, Cancel(w, c, i)
      PROVE  TypeOK' /\ Held'
  <2>1. store[i] \in Intent
    BY <1>8 DEF Cancel, by_confirmation, confirmable, TypeOK
  <2> QED  BY <1>8, <2>1, MoveType DEF Cancel, Take, TypeOK, Held, Pcs, bank, world, Goto, Free
<1>9. ASSUME NEW w \in Workers, NEW c \in Conversations, NEW i \in Intents,
             CancelRefused(w, c, i)
      PROVE  TypeOK' /\ Held'
  BY <1>9, ConstantsAssumption DEF CancelRefused, TypeOK, Held, Events, bank, world, local,
     Log, Free
<1>10. ASSUME NEW w \in Workers, NEW c \in Conversations, NEW i \in Intents, Reconcile(w, c, i)
      PROVE  TypeOK' /\ Held'
  <2>1. store[i] \in Intent
    BY <1>10 DEF Reconcile, owned_by_customer, TypeOK
  <2> QED  BY <1>10, <2>1 DEF Reconcile, Take, TypeOK, Held, Pcs, bank, world, durable, Goto,
       Free
<1>11. ASSUME NEW w \in Workers, Put(w)
      PROVE  TypeOK' /\ Held'
  BY <1>11, ConstantsAssumption DEF Put, TypeOK, Held, bank, world, ledger
<1>12. ASSUME NEW w \in Workers, SetReason(w)
      PROVE  TypeOK' /\ Held'
  <2>1. [it[w] EXCEPT !.reason = TRUE] \in Intent
    BY <1>12, InCall, IntentUpdate DEF SetReason, At
  <2> QED  BY <1>12, <2>1, InCall, ConstantsAssumption DEF SetReason, Mutate, Take, TypeOK,
       Held, Pcs, bank, world, durable, Goto, At
<1>13. ASSUME NEW w \in Workers, Return(w)
      PROVE  TypeOK' /\ Held'
  BY <1>13, ConstantsAssumption DEF Return, TypeOK, Held, Pcs, bank, world, durable, Goto, At
<1>14. ASSUME NEW w \in Workers, CheckPreconditions(w)
      PROVE  TypeOK' /\ Held'
  <2>1. cur[w] \in Intents /\ it[w] \in Intent
    BY <1>14, InCall DEF CheckPreconditions, At
  <2>2. CASE Move(w, cur[w], it[w], "validate") /\ Goto(w, "decide")
    BY <1>14, <2>1, <2>2, MoveType DEF CheckPreconditions, TypeOK, Held, Events, Pcs, bank,
       world, Log, Goto, At
  <2>3. CASE Move(w, cur[w], it[w], "reject") /\ Goto(w, "return")
    BY <1>14, <2>1, <2>3, MoveType DEF CheckPreconditions, TypeOK, Held, Events, Pcs, bank,
       world, Log, Goto, At
  <2> QED  BY <1>14, <2>2, <2>3 DEF CheckPreconditions
<1>15. ASSUME NEW w \in Workers, Decide(w)
      PROVE  TypeOK' /\ Held'
  <2>1. cur[w] \in Intents /\ it[w] \in Intent
    BY <1>15, InCall DEF Decide, At
  <2>2. CASE Reject(w)
    BY <1>15, <2>1, <2>2, MoveType DEF Decide, Reject, TypeOK, Held, Events, Pcs, bank, world,
       Log, Goto, At
  <2>3. CASE RequireStepUp(w)
    BY <1>15, <2>1, <2>3, MoveType DEF Decide, RequireStepUp, TypeOK, Held, Events, Pcs, bank,
       world, Log, Goto, At
  <2>4. CASE IssueConfirmation(w)
    <3> DEFINE d   == action_digest(ProcessOf[w], it[w].action)
               row == [it[w] EXCEPT !.issued = clock, !.digest = d]
               o   == [action |-> row.action, at |-> clock]
    <3>1. d \in Digest
      BY <2>1, DigestType, ConstantsAssumption DEF Intent
    <3>2. row \in Intent
      BY <2>1, <3>1, IntentUpdate DEF TypeOK
    <3>3. o \in Offer
      BY <3>2 DEF Offer, Intent, TypeOK
    <3>4. /\ offers' = [offers EXCEPT ![cur[w]] = @ \cup {o}]
          /\ Move(w, cur[w], row, "await_confirmation")
          /\ Goto(w, "return")
      BY <2>4 DEF IssueConfirmation
    <3> HIDE DEF row, o
    <3> QED  BY <1>15, <2>1, <3>2, <3>3, <3>4, MoveType DEF Decide, TypeOK, Held, Events, Pcs,
         bank, world, Log, Goto, At
  <2> QED  BY <1>15, <2>2, <2>3, <2>4 DEF Decide
<1>16. ASSUME NEW w \in Workers, FinishStepUp(w)
      PROVE  TypeOK' /\ Held'
  <2>1. cur[w] \in Intents /\ it[w] \in Intent
    BY <1>16, InCall DEF FinishStepUp, At
  <2> QED  BY <1>16, <2>1, MoveType DEF FinishStepUp, TypeOK, Held, Events, Pcs, bank, world,
       Log, Goto, At
<1>17. ASSUME NEW w \in Workers, Authorize(w)
      PROVE  TypeOK' /\ Held'
  <2>1. cur[w] \in Intents /\ it[w] \in Intent
    BY <1>17, InCall DEF Authorize, At
  <2> DEFINE c == [by |-> caller[w], action |-> it[w].action,
                   issued |-> it[w].issued, at |-> it[w].confirmed]
  <2>2. c \in Consent
    BY <1>17, <2>1 DEF Authorize, At, Consent, Held, TypeOK, Intent
  <2>3. consents' = [consents EXCEPT ![cur[w]] = @ \cup {c}]
    BY <1>17 DEF Authorize
  <2> HIDE DEF c
  <2> QED  BY <1>17, <2>1, <2>2, <2>3, MoveType DEF Authorize, TypeOK, Held, Events, Pcs, bank,
       world, Log, Goto, At
<1>18. ASSUME NEW w \in Workers, Submit(w)
      PROVE  TypeOK' /\ Held'
  <2>1. cur[w] \in Intents /\ it[w] \in Intent
    BY <1>18, InCall DEF Submit, At
  <2> QED  BY <1>18, <2>1, MoveType DEF Submit, TypeOK, Held, Events, Pcs, bank, world, Log,
       Goto, At
<1>19. ASSUME NEW w \in Workers, Debit(w)
      PROVE  TypeOK' /\ Held'
  <2>1. cur[w] \in Intents /\ it[w] \in Intent
    BY <1>19, InCall DEF Debit, At
  <2>2. balance' \in [Processes -> [Conversations -> Int]]
    <3> DEFINE p == ProcessOf[w]
               c == caller[w]
               v == balance[p][c] - it[w].action.amount
    <3>1. it[w].action.amount \in Int /\ p \in Processes
      BY <2>1, ConstantsAssumption DEF Intent, Action
    <3>2. \/ balance' = balance
          \/ balance' = [balance EXCEPT ![p][c] = v]
      BY <1>19 DEF Debit, bank
    <3>3. balance \in [Processes -> [Conversations -> Int]]
      BY DEF TypeOK
    <3>4. c \in Conversations => v \in Int
      BY <3>1, <3>3
    <3>6. p \in Processes
      BY <3>1
    <3> HIDE DEF v, c, p
    <3>5. [balance EXCEPT ![p][c] = v] \in [Processes -> [Conversations -> Int]]
      BY <3>6, <3>3, <3>4, NestedUpdate
    <3> QED  BY <3>2, <3>3, <3>5
  <2>3. paid_before' \in [Processes -> [Conversations -> (SUBSET Recipients)]]
    <3> DEFINE p == ProcessOf[w]
               c == caller[w]
               v == paid_before[p][c] \cup {it[w].action.recipient}
    <3>1. it[w].action.recipient \in Recipients /\ p \in Processes
      BY <2>1, ConstantsAssumption DEF Intent, Action
    <3>2. \/ paid_before' = paid_before
          \/ paid_before' = [paid_before EXCEPT ![p][c] = v]
      BY <1>19 DEF Debit, bank
    <3>3. paid_before \in [Processes -> [Conversations -> (SUBSET Recipients)]]
      BY DEF TypeOK
    <3>4. c \in Conversations => v \in (SUBSET Recipients)
      BY <3>1, <3>3
    <3>6. p \in Processes
      BY <3>1
    <3> HIDE DEF v, c, p
    <3>5. [paid_before EXCEPT ![p][c] = v] \in [Processes -> [Conversations -> (SUBSET Recipients)]]
      BY <3>6, <3>3, <3>4, NestedUpdate
    <3> QED  BY <3>2, <3>3, <3>5
  <2>4. /\ pc' \in [Workers -> Pcs] /\ \A v \in Workers \ {w} : pc'[v] = pc[v]
        /\ pc'[w] # "confirmed"
    BY <1>19 DEF Debit, Goto, TypeOK, Pcs
  <2>5. logged' \in [Intents -> SUBSET Events]
    BY <1>19 DEF Debit, Log, TypeOK, Events
  <2>6. UNCHANGED <<store, opened, hops, offers, consents, payments, world, caller, cur, it,
                    dirty, stranded>>
    BY <1>19 DEF Debit
  <2> QED  BY <2>1, <2>2, <2>3, <2>4, <2>5, <2>6 DEF TypeOK, Held, world
<1>20. ASSUME NEW w \in Workers, Pay(w)
      PROVE  TypeOK' /\ Held'
  <2>1. cur[w] \in Intents /\ it[w] \in Intent
    BY <1>20, InCall DEF Pay, At
  <2> DEFINE r == [action |-> it[w].action, payer |-> w]
  <2>2. r \in Receipt
    BY <2>1 DEF Receipt, Intent
  <2>3. payments' \in [Intents -> Receipt \cup {None}]
    BY <1>20, <2>2 DEF Pay, TypeOK
  <2>4. pc' \in [Workers -> Pcs] /\ \A v \in Workers \ {w} : pc'[v] = pc[v]
    BY <1>20 DEF Pay, Goto, TypeOK, Pcs
  <2>5. pc'[w] # "confirmed"
    BY <1>20 DEF Pay, Goto, TypeOK
  <2>6. UNCHANGED <<store, ledger, bank, world, caller, cur, it, dirty, stranded>>
    BY <1>20 DEF Pay
  <2> HIDE DEF r
  <2> QED  BY <2>1, <2>3, <2>4, <2>5, <2>6 DEF TypeOK, Held, ledger, bank, world
<1>21. ASSUME NEW w \in Workers, Complete(w)
      PROVE  TypeOK' /\ Held'
  <2>1. cur[w] \in Intents /\ it[w] \in Intent
    BY <1>21, InCall DEF Complete, At
  <2>2. payments[cur[w]] \in Receipt \cup {None}
    BY <2>1 DEF TypeOK
  <2>3. [it[w] EXCEPT !.receipt = payments[cur[w]]] \in Intent
    BY <2>1, <2>2, IntentUpdate
  <2> QED  BY <1>21, <2>1, <2>3, MoveType DEF Complete, TypeOK, Held, Events, Pcs, bank, world,
       Log, Goto, At
<1>22. ASSUME NEW w \in Workers, TimeOut(w)
      PROVE  TypeOK' /\ Held'
  <2>1. cur[w] \in Intents /\ it[w] \in Intent
    BY <1>22, InCall DEF TimeOut, At
  <2> QED  BY <1>22, <2>1, MoveType DEF TimeOut, TypeOK, Held, Events, Pcs, bank, world, Log,
       Goto, At
<1>23. ASSUME NEW w \in Workers, Fail(w)
      PROVE  TypeOK' /\ Held'
  <2>1. cur[w] \in Intents /\ it[w] \in Intent
    BY <1>23, InCall DEF Fail, At
  <2> QED  BY <1>23, <2>1, MoveType DEF Fail, TypeOK, Held, Events, Pcs, bank, world, Log,
       Goto, At
<1>24. ASSUME NEW w \in Workers, AskBank(w)
      PROVE  TypeOK' /\ Held'
  <2>1. cur[w] \in Intents /\ it[w] \in Intent
    BY <1>24, InCall DEF AskBank, At
  <2>2. CASE Move(w, cur[w], it[w], "fail") /\ Goto(w, "reason")
    BY <1>24, <2>1, <2>2, MoveType DEF AskBank, TypeOK, Held, Events, Pcs, bank, world, Log,
       Goto, At
  <2>3. CASE /\ payments[cur[w]] # None
             /\ Move(w, cur[w], [it[w] EXCEPT !.receipt = payments[cur[w]]], "complete")
             /\ Goto(w, "return")
    <3>1. [it[w] EXCEPT !.receipt = payments[cur[w]]] \in Intent
      BY <2>1, <2>3, IntentUpdate DEF TypeOK
    <3> QED  BY <1>24, <2>1, <2>3, <3>1, MoveType DEF AskBank, TypeOK, Held, Events, Pcs, bank,
         world, Log, Goto, At
  <2> QED  BY <1>24, <2>2, <2>3 DEF AskBank
<1>25. ASSUME NEW w \in Workers, SweepOne(w)
      PROVE  TypeOK' /\ Held'
  <2>1. PICK s \in stranded[w] :
            /\ cur' = [cur EXCEPT ![w] = s[1]]
            /\ Log(s[1], {"restart_sweep"})
            /\ Move(w, s[1], s[2], "timeout")
            /\ stranded' = [stranded EXCEPT ![w] = @ \ {s}]
    BY <1>25 DEF SweepOne
  <2>2. s[1] \in Intents /\ s[2] \in Intent
    BY <2>1 DEF TypeOK
  <2>3. stranded' \in [Workers -> SUBSET (Intents \X Intent)]
    BY <2>1 DEF TypeOK
  <2>4. /\ At(w, "sweep") /\ Goto(w, "swept")
        /\ UNCHANGED <<store, opened, offers, consents, payments, bank, world, caller>>
    BY <1>25 DEF SweepOne
  <2> QED  BY <2>1, <2>2, <2>3, <2>4, MoveType DEF TypeOK, Held, Events, Pcs, bank, world, Log,
       Goto, At
<1>26. ASSUME NEW w \in Workers, SweepReason(w)
      PROVE  TypeOK' /\ Held'
  <2>1. [it[w] EXCEPT !.reason = TRUE] \in Intent
    BY <1>26, InCall, IntentUpdate DEF SweepReason, At
  <2> QED  BY <1>26, <2>1, InCall, ConstantsAssumption DEF SweepReason, Mutate, Take, TypeOK,
       Held, Pcs, bank, world, durable, Goto, At
<1>27. ASSUME NEW w \in Workers, Serve(w)
      PROVE  TypeOK' /\ Held'
  BY <1>27, ConstantsAssumption DEF Serve, TypeOK, Held, Pcs, bank, durable, Goto, At
<1>28. ASSUME NEW w \in Workers, Boot(w)
      PROVE  TypeOK' /\ Held'
  <2>1. stranded' \in [Workers -> SUBSET (Intents \X Intent)]
    <3> DEFINE S == {<<i, store[i]>> : i \in {j \in Intents : store[j] # None
                                                  /\ store[j].state = "SUBMITTED"}}
    <3>1. S \in SUBSET (Intents \X Intent)
      BY DEF TypeOK
    <3>2. stranded' = [stranded EXCEPT ![w] = S]
      BY <1>28 DEF Boot
    <3> HIDE DEF S
    <3> QED  BY <3>1, <3>2 DEF TypeOK
  <2>2. Goto(w, "sweep") /\ UNCHANGED <<durable, bank, world, caller, cur, it, dirty>>
    BY <1>28 DEF Boot
  <2> QED  BY <2>1, <2>2 DEF TypeOK, Held, Pcs, bank, world, durable, Goto
<1>29. ASSUME NEW p \in Processes, Crash(p)
      PROVE  TypeOK' /\ Held'
  <2>1. balance' \in [Processes -> [Conversations -> Int]]
    <3>1. fresh_balance \in [Conversations -> Int]
      BY ConstantsAssumption DEF fresh_balance
    <3> QED  BY <1>29, <3>1 DEF Crash, TypeOK
  <2>2. paid_before' \in [Processes -> [Conversations -> SUBSET Recipients]]
    <3>1. fresh_paid_before \in [Conversations -> SUBSET Recipients]
      BY ConstantsAssumption DEF fresh_paid_before
    <3> QED  BY <1>29, <3>1 DEF Crash, TypeOK
  <2>3. /\ up' \in [Processes -> BOOLEAN] /\ crashes' \in 0 .. MaxCrashes
        /\ UNCHANGED <<durable, clock, rewritten>>
    BY <1>29, ConstantsAssumption DEF Crash, TypeOK
  <2>4. /\ pc' \in [Workers -> Pcs]
        /\ caller' \in [Workers -> Conversations \cup {None}]
        /\ cur' \in [Workers -> Intents \cup {None}]
        /\ it' \in [Workers -> Intent \cup {None}]
        /\ dirty' \in [Workers -> BOOLEAN]
        /\ stranded' \in [Workers -> SUBSET (Intents \X Intent)]
    BY <1>29 DEF Crash, TypeOK, Pcs
  <2>5. Held'
    BY <1>29 DEF Crash, Held, TypeOK
  <2> QED  BY <2>1, <2>2, <2>3, <2>4, <2>5 DEF TypeOK, durable
<1>30. ASSUME NEW p \in Processes, Invoke(p)
      PROVE  TypeOK' /\ Held'
  BY <1>30, ConstantsAssumption DEF Invoke, TypeOK, Held, bank, local, durable
<1>31. ASSUME NEW i \in Intents, NEW a \in Action, Tamper(i, a)
      PROVE  TypeOK' /\ Held'
  <2>1. store[i] \in Intent /\ [store[i] EXCEPT !.action = a] \in Intent
    BY <1>31, IntentUpdate DEF Tamper, TypeOK
  <2>2. store' = [store EXCEPT ![i] = [store[i] EXCEPT !.action = a]]
    BY <1>31 DEF Tamper
  <2> QED  BY <1>31, <2>1, <2>2 DEF Tamper, TypeOK, Held, bank, local, ledger
<1>32. CASE Tick
  BY <1>32, ConstantsAssumption DEF Tick, TypeOK, Held, bank, local, durable, Times
<1> QED
  BY <1>1, <1>2, <1>3, <1>4, <1>5, <1>6, <1>7, <1>8, <1>9, <1>10, <1>11, <1>12, <1>13,
     <1>14, <1>15, <1>16, <1>17, <1>18, <1>19, <1>20, <1>21, <1>22, <1>23, <1>24, <1>25,
     <1>26, <1>27, <1>28, <1>29, <1>30, <1>31, <1>32
     DEF Next,
     Call, Step, Environment

-----------------------------------------------------------------------------
(* The rest of the inductive invariant.                                    *)

\* What no step takes back: who opened a trail, the trail itself, and time.
Monotone ==
  /\ \A i \in Intents :
       /\ opened[i] # None => opened'[i] = opened[i]
       /\ offers[i] \subseteq offers'[i]
       /\ consents[i] \subseteq consents'[i]
       /\ logged[i] \subseteq logged'[i]
       /\ hops[i] \subseteq hops'[i]
  /\ clock <= clock'

\* _move only adds hops.
LEMMA MoveGrows ==
  ASSUME TypeOK, NEW w, NEW i, NEW row, NEW e, Move(w, i, row, e)
  PROVE  \A j \in Intents : hops[j] \subseteq hops'[j]
<1>1. PICK t : hops' = [hops EXCEPT ![i] = @ \cup {t}]
  BY DEF Move
<1> QED  BY <1>1 DEF TypeOK

\* The ledger is append-only and time does not run back, whichever step is taken.
LEMMA Grows ==
  ASSUME TypeOK, Held, ConstantsAssumption, Next
  PROVE  Monotone
<1>1. ASSUME NEW w \in Workers, NEW c \in Conversations, NEW i \in Intents,
             NEW name \in Names, AskWhichContact(w, c, i, name)
      PROVE  Monotone
  BY <1>1, InCall DEF AskWhichContact, Request, durable, ledger, bank, world, local, Log,
     Monotone, TypeOK, Times
<1>2. ASSUME NEW w \in Workers, NEW c \in Conversations, NEW i \in Intents,
             NEW name \in Names, NEW amount \in Amounts, Propose(w, c, i, name, amount)
      PROVE  Monotone
  <2>1. Request(c, i) /\ UNCHANGED <<hops, offers, consents, clock>>
    BY <1>2 DEF Propose, world
  <2>2. opened[i] = None
    BY <1>2 DEF Propose
  <2> QED  BY <2>1, <2>2 DEF Request, Log, Monotone, TypeOK, Times
<1>3. ASSUME NEW w \in Workers, NEW c \in Conversations, NEW i \in Intents, StepUp(w, c, i)
      PROVE  Monotone
  BY <1>3, InCall DEF StepUp, Request, durable, ledger, bank, world, local, Log, Monotone,
     TypeOK, Times
<1>4. ASSUME NEW w \in Workers, NEW c \in Conversations, NEW i \in Intents,
             DuplicateConfirmation(w, c, i)
      PROVE  Monotone
  BY <1>4, InCall DEF DuplicateConfirmation, Request, durable, ledger, bank, world, local, Log,
     Monotone, TypeOK, Times
<1>5. ASSUME NEW w \in Workers, NEW c \in Conversations, NEW i \in Intents,
             ConfirmExpired(w, c, i)
      PROVE  Monotone
  <2>1. \A j \in Intents : hops[j] \subseteq hops'[j]
    BY <1>5, MoveGrows DEF ConfirmExpired
  <2>2. \A j \in Intents : logged[j] \subseteq logged'[j]
    BY <1>5 DEF ConfirmExpired, Log, TypeOK
  <2>3. UNCHANGED <<opened, offers, consents, clock>>
    BY <1>5 DEF ConfirmExpired, world
  <2> QED  BY <2>1, <2>2, <2>3 DEF Monotone, TypeOK, Times
<1>6. ASSUME NEW w \in Workers, NEW c \in Conversations, NEW i \in Intents,
             DigestMismatch(w, c, i)
      PROVE  Monotone
  BY <1>6, InCall DEF DigestMismatch, Request, durable, ledger, bank, world, local, Log,
     Monotone, TypeOK, Times
<1>7. ASSUME NEW w \in Workers, NEW c \in Conversations, NEW i \in Intents, Confirm(w, c, i)
      PROVE  Monotone
  BY <1>7, InCall DEF Confirm, Request, durable, ledger, bank, world, local, Log, Monotone,
     TypeOK, Times
<1>8. ASSUME NEW w \in Workers, NEW c \in Conversations, NEW i \in Intents, Cancel(w, c, i)
      PROVE  Monotone
  <2>1. \A j \in Intents : hops[j] \subseteq hops'[j]
    BY <1>8, MoveGrows DEF Cancel
  <2>2. \A j \in Intents : logged[j] \subseteq logged'[j]
    BY <1>8 DEF Cancel, Log, TypeOK
  <2>3. UNCHANGED <<opened, offers, consents, clock>>
    BY <1>8 DEF Cancel, world
  <2> QED  BY <2>1, <2>2, <2>3 DEF Monotone, TypeOK, Times
<1>9. ASSUME NEW w \in Workers, NEW c \in Conversations, NEW i \in Intents,
             CancelRefused(w, c, i)
      PROVE  Monotone
  BY <1>9, InCall DEF CancelRefused, Request, durable, ledger, bank, world, local, Log,
     Monotone, TypeOK, Times
<1>10. ASSUME NEW w \in Workers, NEW c \in Conversations, NEW i \in Intents, Reconcile(w, c, i)
      PROVE  Monotone
  BY <1>10, InCall DEF Reconcile, Request, durable, ledger, bank, world, local, Log, Monotone,
     TypeOK, Times
<1>11. ASSUME NEW w \in Workers, Put(w)
      PROVE  Monotone
  BY <1>11, InCall DEF Put, Request, durable, ledger, bank, world, local, Log, Monotone,
     TypeOK, Times
<1>12. ASSUME NEW w \in Workers, SetReason(w)
      PROVE  Monotone
  BY <1>12, InCall DEF SetReason, Request, durable, ledger, bank, world, local, Log, Monotone,
     TypeOK, Times
<1>13. ASSUME NEW w \in Workers, Return(w)
      PROVE  Monotone
  BY <1>13, InCall DEF Return, Request, durable, ledger, bank, world, local, Log, Monotone,
     TypeOK, Times
<1>14. ASSUME NEW w \in Workers, CheckPreconditions(w)
      PROVE  Monotone
  <2>1. \A j \in Intents : hops[j] \subseteq hops'[j]
    BY <1>14, MoveGrows DEF CheckPreconditions
  <2>2. \A j \in Intents : logged[j] \subseteq logged'[j]
    BY <1>14 DEF CheckPreconditions, Log, TypeOK
  <2>3. UNCHANGED <<opened, offers, consents, clock>>
    BY <1>14 DEF CheckPreconditions, world
  <2> QED  BY <2>1, <2>2, <2>3 DEF Monotone, TypeOK, Times
<1>15. ASSUME NEW w \in Workers, Decide(w)
      PROVE  Monotone
  <2>1. \A j \in Intents : hops[j] \subseteq hops'[j]
    BY <1>15, MoveGrows DEF Decide, Reject, RequireStepUp, IssueConfirmation
  <2>2. \A j \in Intents : logged[j] \subseteq logged'[j]
    BY <1>15 DEF Decide, Log, TypeOK
  <2>3. UNCHANGED <<opened, consents, clock>>
    BY <1>15 DEF Decide, world
  <2>4. \A j \in Intents : offers[j] \subseteq offers'[j]
    BY <1>15 DEF Decide, Reject, RequireStepUp, IssueConfirmation, TypeOK
  <2> QED  BY <2>1, <2>2, <2>3, <2>4 DEF Monotone, TypeOK, Times
<1>16. ASSUME NEW w \in Workers, FinishStepUp(w)
      PROVE  Monotone
  <2>1. \A j \in Intents : hops[j] \subseteq hops'[j]
    BY <1>16, MoveGrows DEF FinishStepUp
  <2>2. \A j \in Intents : logged[j] \subseteq logged'[j]
    BY <1>16 DEF FinishStepUp, Log, TypeOK
  <2>3. UNCHANGED <<opened, offers, consents, clock>>
    BY <1>16 DEF FinishStepUp, world
  <2> QED  BY <2>1, <2>2, <2>3 DEF Monotone, TypeOK, Times
<1>17. ASSUME NEW w \in Workers, Authorize(w)
      PROVE  Monotone
  <2>1. \A j \in Intents : hops[j] \subseteq hops'[j]
    BY <1>17, MoveGrows DEF Authorize
  <2>2. \A j \in Intents : logged[j] \subseteq logged'[j]
    BY <1>17 DEF Authorize, Log, TypeOK
  <2>3. UNCHANGED <<opened, offers, clock>>
    BY <1>17 DEF Authorize, world
  <2>4. \A j \in Intents : consents[j] \subseteq consents'[j]
    BY <1>17 DEF Authorize, TypeOK
  <2> QED  BY <2>1, <2>2, <2>3, <2>4 DEF Monotone, TypeOK, Times
<1>18. ASSUME NEW w \in Workers, Submit(w)
      PROVE  Monotone
  <2>1. \A j \in Intents : hops[j] \subseteq hops'[j]
    BY <1>18, MoveGrows DEF Submit
  <2>2. \A j \in Intents : logged[j] \subseteq logged'[j]
    BY <1>18 DEF Submit, Log, TypeOK
  <2>3. UNCHANGED <<opened, offers, consents, clock>>
    BY <1>18 DEF Submit, world
  <2> QED  BY <2>1, <2>2, <2>3 DEF Monotone, TypeOK, Times
<1>19. ASSUME NEW w \in Workers, Debit(w)
      PROVE  Monotone
  BY <1>19, InCall DEF Debit, Request, durable, ledger, bank, world, local, Log, Monotone,
     TypeOK, Times
<1>20. ASSUME NEW w \in Workers, Pay(w)
      PROVE  Monotone
  BY <1>20, InCall DEF Pay, Request, durable, ledger, bank, world, local, Log, Monotone,
     TypeOK, Times
<1>21. ASSUME NEW w \in Workers, Complete(w)
      PROVE  Monotone
  <2>1. \A j \in Intents : hops[j] \subseteq hops'[j]
    BY <1>21, MoveGrows DEF Complete
  <2>2. \A j \in Intents : logged[j] \subseteq logged'[j]
    BY <1>21 DEF Complete, Log, TypeOK
  <2>3. UNCHANGED <<opened, offers, consents, clock>>
    BY <1>21 DEF Complete, world
  <2> QED  BY <2>1, <2>2, <2>3 DEF Monotone, TypeOK, Times
<1>22. ASSUME NEW w \in Workers, TimeOut(w)
      PROVE  Monotone
  <2>1. \A j \in Intents : hops[j] \subseteq hops'[j]
    BY <1>22, MoveGrows DEF TimeOut
  <2>2. \A j \in Intents : logged[j] \subseteq logged'[j]
    BY <1>22 DEF TimeOut, Log, TypeOK
  <2>3. UNCHANGED <<opened, offers, consents, clock>>
    BY <1>22 DEF TimeOut, world
  <2> QED  BY <2>1, <2>2, <2>3 DEF Monotone, TypeOK, Times
<1>23. ASSUME NEW w \in Workers, Fail(w)
      PROVE  Monotone
  <2>1. \A j \in Intents : hops[j] \subseteq hops'[j]
    BY <1>23, MoveGrows DEF Fail
  <2>2. \A j \in Intents : logged[j] \subseteq logged'[j]
    BY <1>23 DEF Fail, Log, TypeOK
  <2>3. UNCHANGED <<opened, offers, consents, clock>>
    BY <1>23 DEF Fail, world
  <2> QED  BY <2>1, <2>2, <2>3 DEF Monotone, TypeOK, Times
<1>24. ASSUME NEW w \in Workers, AskBank(w)
      PROVE  Monotone
  <2>1. \A j \in Intents : hops[j] \subseteq hops'[j]
    BY <1>24, MoveGrows DEF AskBank
  <2>2. \A j \in Intents : logged[j] \subseteq logged'[j]
    BY <1>24 DEF AskBank, Log, TypeOK
  <2>3. UNCHANGED <<opened, offers, consents, clock>>
    BY <1>24 DEF AskBank, world
  <2> QED  BY <2>1, <2>2, <2>3 DEF Monotone, TypeOK, Times
<1>25. ASSUME NEW w \in Workers, SweepOne(w)
      PROVE  Monotone
  <2>1. \A j \in Intents : hops[j] \subseteq hops'[j]
    BY <1>25, MoveGrows DEF SweepOne
  <2>2. \A j \in Intents : logged[j] \subseteq logged'[j]
    BY <1>25 DEF SweepOne, Log, TypeOK
  <2>3. UNCHANGED <<opened, offers, consents, clock>>
    BY <1>25 DEF SweepOne, world
  <2> QED  BY <2>1, <2>2, <2>3 DEF Monotone, TypeOK, Times
<1>26. ASSUME NEW w \in Workers, SweepReason(w)
      PROVE  Monotone
  BY <1>26, InCall DEF SweepReason, Request, durable, ledger, bank, world, local, Log,
     Monotone, TypeOK, Times
<1>27. ASSUME NEW w \in Workers, Serve(w)
      PROVE  Monotone
  BY <1>27, InCall DEF Serve, Request, durable, ledger, bank, world, local, Log, Monotone,
     TypeOK, Times
<1>28. ASSUME NEW w \in Workers, Boot(w)
      PROVE  Monotone
  BY <1>28, InCall DEF Boot, Request, durable, ledger, bank, world, local, Log, Monotone,
     TypeOK, Times
<1>29. ASSUME NEW p \in Processes, Crash(p)
      PROVE  Monotone
  BY <1>29, InCall DEF Crash, Request, durable, ledger, bank, world, local, Log, Monotone,
     TypeOK, Times
<1>30. ASSUME NEW p \in Processes, Invoke(p)
      PROVE  Monotone
  BY <1>30, InCall DEF Invoke, Request, durable, ledger, bank, world, local, Log, Monotone,
     TypeOK, Times
<1>31. ASSUME NEW i \in Intents, NEW a \in Action, Tamper(i, a)
      PROVE  Monotone
  BY <1>31, InCall DEF Tamper, Request, durable, ledger, bank, world, local, Log, Monotone,
     TypeOK, Times
<1>32. CASE Tick
  BY <1>32, InCall DEF Tick, Request, durable, ledger, bank, world, local, Log, Monotone,
     TypeOK, Times
<1> QED
  BY <1>1, <1>2, <1>3, <1>4, <1>5, <1>6, <1>7, <1>8, <1>9, <1>10, <1>11, <1>12, <1>13,
     <1>14, <1>15, <1>16, <1>17, <1>18, <1>19, <1>20, <1>21, <1>22, <1>23, <1>24, <1>25,
     <1>26, <1>27, <1>28, <1>29, <1>30, <1>31, <1>32
     DEF Next,
     Call, Step, Environment

\* Genuine, of the state after a step.
GenuineAfter(i, row) ==
  /\ row.conv = opened'[i]
  /\ row.digest # None =>
       /\ row.issued \in 0 .. clock'
       /\ [action |-> row.digest.action, at |-> row.issued] \in offers'[i]

\* A row with the principal and seal of a genuine copy is genuine after any step.
LEMMA StillGenuine ==
  ASSUME ConstantsAssumption, TypeOK, TypeOK', Monotone,
         NEW i \in Intents, NEW row \in Intent, Genuine(i, row), NEW new,
         new.conv = row.conv, new.digest = row.digest, new.issued = row.issued
  PROVE  GenuineAfter(i, new)
<1>1. row.conv # None
  BY ConstantsAssumption DEF Intent
<1>2. opened'[i] = opened[i]
  BY <1>1 DEF Genuine, Monotone
<1>3. clock \in Int /\ clock' \in Int /\ clock <= clock'
  BY ConstantsAssumption DEF TypeOK, Times, Monotone
<1>4. offers[i] \subseteq offers'[i]
  BY DEF Monotone
<1> QED  BY <1>2, <1>3, <1>4 DEF Genuine, GenuineAfter

\* Copies a step leaves alone stay genuine.
LEMMA StillCopies ==
  ASSUME ConstantsAssumption, TypeOK, TypeOK', Held, Monotone, Copies
  PROVE  /\ \A i \in Intents : store[i] # None => GenuineAfter(i, store[i])
         /\ \A w \in Workers : it[w] # None => GenuineAfter(cur[w], it[w])
         /\ \A w \in Workers : \A s \in stranded[w] : GenuineAfter(s[1], s[2])
<1>1. ASSUME NEW i \in Intents, store[i] # None
      PROVE  GenuineAfter(i, store[i])
  BY <1>1, StillGenuine DEF TypeOK, Copies
<1>2. ASSUME NEW w \in Workers, it[w] # None
      PROVE  GenuineAfter(cur[w], it[w])
  BY <1>2, StillGenuine DEF TypeOK, Copies, Held
<1>3. ASSUME NEW w \in Workers, NEW s \in stranded[w]
      PROVE  GenuineAfter(s[1], s[2])
  BY <1>3, StillGenuine DEF TypeOK, Copies
<1> QED  BY <1>1, <1>2, <1>3

\* A step that changes the copy of one worker only, to a genuine one, keeps Copies.
LEMMA OneCopy ==
  ASSUME ConstantsAssumption, TypeOK, TypeOK', Held, Monotone, Copies,
         UNCHANGED <<store, stranded>>, NEW w \in Workers,
         \A v \in Workers \ {w} : it'[v] = it[v] /\ cur'[v] = cur[v],
         it'[w] # None => GenuineAfter(cur'[w], it'[w])
  PROVE  Copies'
BY StillCopies DEF Copies, Genuine, GenuineAfter

\* The intent a worker holds inside a call is a genuine copy.
LEMMA InCallGenuine ==
  ASSUME ConstantsAssumption, TypeOK, Held, Copies, NEW w \in Workers,
         pc[w] \notin {"idle", "sweep"}
  PROVE  cur[w] \in Intents /\ it[w] \in Intent /\ Genuine(cur[w], it[w])
<1>1. cur[w] \in Intents /\ it[w] \in Intent
  BY InCall
<1>2. it[w] # None
  BY <1>1, ConstantsAssumption
<1> QED  BY <1>1, <1>2 DEF Copies

\* No step forges a principal or a seal: put saves genuine copies, and only _apply seals.
LEMMA CopiesStep ==
  ASSUME ConstantsAssumption, TypeOK, TypeOK', Held, Monotone, Copies, Next
  PROVE  Copies'
<1> USE ConstantsAssumption
<1>1. ASSUME NEW w \in Workers, NEW c \in Conversations, NEW i \in Intents,
             NEW name \in Names, AskWhichContact(w, c, i, name)
      PROVE  Copies'
  <2>1. UNCHANGED <<store, it, cur, stranded>>
    BY <1>1 DEF AskWhichContact, durable, local
  <2> QED  BY <2>1, StillCopies DEF Copies, Genuine, GenuineAfter
<1>2. ASSUME NEW w \in Workers, NEW c \in Conversations, NEW i \in Intents,
             NEW name \in Names, NEW amount \in Amounts, Propose(w, c, i, name, amount)
      PROVE  Copies'
  <2>1. PICK recipient \in Recipients :
            Mutate(w, new_intent(c, [recipient |-> recipient, amount |-> amount]))
    BY <1>2 DEF Propose
  <2>2. /\ it'[w].conv = c /\ it'[w].digest = None
        /\ \A v \in Workers \ {w} : it'[v] = it[v]
    BY <2>1 DEF Mutate, new_intent, TypeOK
  <2>3. /\ opened' = [opened EXCEPT ![i] = c] /\ cur' = [cur EXCEPT ![w] = i]
        /\ UNCHANGED <<store, stranded>>
    BY <1>2 DEF Propose, Request, Take
  <2>4. GenuineAfter(cur'[w], it'[w])
    BY <2>2, <2>3 DEF GenuineAfter, TypeOK
  <2>5. \A v \in Workers \ {w} : cur'[v] = cur[v]
    BY <2>3 DEF TypeOK
  <2> QED  BY <2>2, <2>3, <2>4, <2>5, OneCopy
<1>3. ASSUME NEW w \in Workers, NEW c \in Conversations, NEW i \in Intents, StepUp(w, c, i)
      PROVE  Copies'
  <2>1. store[i] \in Intent /\ Genuine(i, store[i])
    BY <1>3 DEF StepUp, owned_by_customer, TypeOK, Copies
  <2>2. /\ it' = [it EXCEPT ![w] = [store[i] EXCEPT !.assurance = "strong"]]
        /\ UNCHANGED <<store, stranded>> /\ cur' = [cur EXCEPT ![w] = i]
    BY <1>3 DEF StepUp, Mutate, Take, durable
  <2>3. /\ it'[w].conv = store[i].conv /\ it'[w].digest = store[i].digest
        /\ it'[w].issued = store[i].issued
    BY <2>1, <2>2 DEF Intent, TypeOK
  <2>4. GenuineAfter(i, it'[w])
    BY <2>1, <2>3, StillGenuine
  <2> QED  BY <2>2, <2>4, OneCopy DEF TypeOK
<1>4. ASSUME NEW w \in Workers, NEW c \in Conversations, NEW i \in Intents,
             DuplicateConfirmation(w, c, i)
      PROVE  Copies'
  <2>1. UNCHANGED <<store, it, cur, stranded>>
    BY <1>4 DEF DuplicateConfirmation, durable, local
  <2> QED  BY <2>1, StillCopies DEF Copies, Genuine, GenuineAfter
<1>5. ASSUME NEW w \in Workers, NEW c \in Conversations, NEW i \in Intents,
             ConfirmExpired(w, c, i)
      PROVE  Copies'
  <2>1. store[i] \in Intent /\ Genuine(i, store[i])
    BY <1>5 DEF ConfirmExpired, confirmable, by_confirmation, TypeOK, Copies
  <2>2. /\ \A v \in Workers \ {w} : it'[v] = it[v]
        /\ it'[w].conv = store[i].conv /\ it'[w].digest = store[i].digest
        /\ it'[w].issued = store[i].issued
    BY <1>5, <2>1, MoveType DEF ConfirmExpired
  <2>3. /\ UNCHANGED <<store, stranded>> /\ cur' = [cur EXCEPT ![w] = i]
    BY <1>5 DEF ConfirmExpired, Take
  <2>4. GenuineAfter(i, it'[w])
    BY <2>1, <2>2, StillGenuine
  <2> QED  BY <2>2, <2>3, <2>4, OneCopy DEF TypeOK
<1>6. ASSUME NEW w \in Workers, NEW c \in Conversations, NEW i \in Intents,
             DigestMismatch(w, c, i)
      PROVE  Copies'
  <2>1. UNCHANGED <<store, it, cur, stranded>>
    BY <1>6 DEF DigestMismatch, durable, local
  <2> QED  BY <2>1, StillCopies DEF Copies, Genuine, GenuineAfter
<1>7. ASSUME NEW w \in Workers, NEW c \in Conversations, NEW i \in Intents, Confirm(w, c, i)
      PROVE  Copies'
  <2>1. store[i] \in Intent /\ Genuine(i, store[i])
    BY <1>7 DEF Confirm, confirmable, by_confirmation, TypeOK, Copies
  <2>2. /\ it' = [it EXCEPT ![w] = [store[i] EXCEPT !.confirmed = clock]]
        /\ UNCHANGED <<store, stranded>> /\ cur' = [cur EXCEPT ![w] = i]
    BY <1>7 DEF Confirm, Mutate, Take, durable
  <2>3. /\ it'[w].conv = store[i].conv /\ it'[w].digest = store[i].digest
        /\ it'[w].issued = store[i].issued
    BY <2>1, <2>2 DEF Intent, TypeOK
  <2>4. GenuineAfter(i, it'[w])
    BY <2>1, <2>3, StillGenuine
  <2> QED  BY <2>2, <2>4, OneCopy DEF TypeOK
<1>8. ASSUME NEW w \in Workers, NEW c \in Conversations, NEW i \in Intents, Cancel(w, c, i)
      PROVE  Copies'
  <2>1. store[i] \in Intent /\ Genuine(i, store[i])
    BY <1>8 DEF Cancel, confirmable, by_confirmation, TypeOK, Copies
  <2>2. /\ \A v \in Workers \ {w} : it'[v] = it[v]
        /\ it'[w].conv = store[i].conv /\ it'[w].digest = store[i].digest
        /\ it'[w].issued = store[i].issued
    BY <1>8, <2>1, MoveType DEF Cancel
  <2>3. /\ UNCHANGED <<store, stranded>> /\ cur' = [cur EXCEPT ![w] = i]
    BY <1>8 DEF Cancel, Take
  <2>4. GenuineAfter(i, it'[w])
    BY <2>1, <2>2, StillGenuine
  <2> QED  BY <2>2, <2>3, <2>4, OneCopy DEF TypeOK
<1>9. ASSUME NEW w \in Workers, NEW c \in Conversations, NEW i \in Intents,
             CancelRefused(w, c, i)
      PROVE  Copies'
  <2>1. UNCHANGED <<store, it, cur, stranded>>
    BY <1>9 DEF CancelRefused, durable, local
  <2> QED  BY <2>1, StillCopies DEF Copies, Genuine, GenuineAfter
<1>10. ASSUME NEW w \in Workers, NEW c \in Conversations, NEW i \in Intents, Reconcile(w, c, i)
      PROVE  Copies'
  <2>1. store[i] \in Intent /\ Genuine(i, store[i])
    BY <1>10 DEF Reconcile, owned_by_customer, TypeOK, Copies
  <2>2. /\ it' = [it EXCEPT ![w] = store[i]]
        /\ UNCHANGED <<store, stranded>> /\ cur' = [cur EXCEPT ![w] = i]
    BY <1>10 DEF Reconcile, Mutate, Take, durable
  <2>3. /\ it'[w].conv = store[i].conv /\ it'[w].digest = store[i].digest
        /\ it'[w].issued = store[i].issued
    BY <2>1, <2>2 DEF Intent, TypeOK
  <2>4. GenuineAfter(i, it'[w])
    BY <2>1, <2>3, StillGenuine
  <2> QED  BY <2>2, <2>4, OneCopy DEF TypeOK
<1>11. ASSUME NEW w \in Workers, Put(w)
      PROVE  Copies'
  <2>1. /\ store' = [store EXCEPT ![cur[w]] = it[w]]
        /\ UNCHANGED <<it, cur, stranded>> /\ it[w] # None
    BY <1>11 DEF Put, Held
  <2>2. \A j \in Intents : store'[j] = store[j] \/ (j = cur[w] /\ store'[j] = it[w])
    BY <2>1 DEF TypeOK
  <2>3. \A j \in Intents : store'[j] # None => GenuineAfter(j, store'[j])
    BY <2>1, <2>2, StillCopies
  <2> QED  BY <2>1, <2>3, StillCopies DEF Copies, Genuine, GenuineAfter
<1>12. ASSUME NEW w \in Workers, SetReason(w)
      PROVE  Copies'
  <2>1. cur[w] \in Intents /\ it[w] \in Intent /\ Genuine(cur[w], it[w])
    BY <1>12, InCallGenuine DEF SetReason, At
  <2>2. /\ it' = [it EXCEPT ![w] = [it[w] EXCEPT !.reason = TRUE]]
        /\ UNCHANGED <<store, stranded, cur>>
    BY <1>12 DEF SetReason, Mutate, durable
  <2>3. /\ it'[w].conv = it[w].conv /\ it'[w].digest = it[w].digest
        /\ it'[w].issued = it[w].issued
    BY <2>1, <2>2 DEF Intent, TypeOK
  <2>4. GenuineAfter(cur[w], it'[w])
    BY <2>1, <2>3, StillGenuine
  <2> QED  BY <2>2, <2>4, OneCopy DEF TypeOK
<1>13. ASSUME NEW w \in Workers, Return(w)
      PROVE  Copies'
  <2>1. /\ cur' = [cur EXCEPT ![w] = None] /\ it' = [it EXCEPT ![w] = None]
        /\ UNCHANGED <<store, stranded>>
    BY <1>13 DEF Return, durable
  <2> QED  BY <2>1, OneCopy DEF TypeOK
<1>14. ASSUME NEW w \in Workers, CheckPreconditions(w)
      PROVE  Copies'
  <2>1. cur[w] \in Intents /\ it[w] \in Intent /\ Genuine(cur[w], it[w])
    BY <1>14, InCallGenuine DEF CheckPreconditions, At
  <2>2. /\ \A v \in Workers \ {w} : it'[v] = it[v]
        /\ it'[w].conv = it[w].conv /\ it'[w].digest = it[w].digest
        /\ it'[w].issued = it[w].issued
    BY <1>14, <2>1, MoveType DEF CheckPreconditions
  <2>3. UNCHANGED <<store, stranded, cur>>
    BY <1>14 DEF CheckPreconditions
  <2>4. GenuineAfter(cur[w], it'[w])
    BY <2>1, <2>2, StillGenuine
  <2> QED  BY <2>2, <2>3, <2>4, OneCopy
<1>15. ASSUME NEW w \in Workers, Decide(w)
      PROVE  Copies'
  <2>1. cur[w] \in Intents /\ it[w] \in Intent /\ Genuine(cur[w], it[w])
    BY <1>15, InCallGenuine DEF Decide, At
  <2>2. UNCHANGED <<store, stranded, cur>>
    BY <1>15 DEF Decide
  <2>3. CASE Reject(w) \/ RequireStepUp(w)
    <3>1. /\ \A v \in Workers \ {w} : it'[v] = it[v]
          /\ it'[w].conv = it[w].conv /\ it'[w].digest = it[w].digest
          /\ it'[w].issued = it[w].issued
      BY <2>3, <2>1, MoveType DEF Reject, RequireStepUp
    <3>2. GenuineAfter(cur[w], it'[w])
      BY <2>1, <3>1, StillGenuine
    <3> QED  BY <2>2, <3>1, <3>2, OneCopy
  <2>4. CASE IssueConfirmation(w)
    <3> DEFINE d   == action_digest(ProcessOf[w], it[w].action)
               row == [it[w] EXCEPT !.issued = clock, !.digest = d]
    <3>1. d \in Digest /\ d.action = it[w].action
      BY <2>1, DigestType DEF action_digest, Intent
    <3> HIDE DEF d
    <3>2. row \in Intent
      BY <2>1, <3>1, IntentUpdate DEF TypeOK
    <3>3. /\ row.conv = it[w].conv /\ row.digest = d /\ row.issued = clock
          /\ row.action = it[w].action
      BY <2>1 DEF Intent
    <3> HIDE DEF row
    <3>4. /\ Move(w, cur[w], row, "await_confirmation")
          /\ offers' = [offers EXCEPT ![cur[w]] = @ \cup {[action |-> row.action, at |-> clock]}]
      BY <2>4 DEF IssueConfirmation, row, d
    <3>5. /\ \A v \in Workers \ {w} : it'[v] = it[v]
          /\ it'[w].conv = it[w].conv /\ it'[w].digest = d /\ it'[w].issued = clock
      BY <2>1, <3>2, <3>3, <3>4, MoveType
    <3>6. [action |-> d.action, at |-> clock] \in offers'[cur[w]]
      BY <2>1, <3>1, <3>3, <3>4 DEF TypeOK
    <3>7. opened' = opened /\ clock' = clock /\ clock \in Nat
      BY <1>15 DEF Decide, world, TypeOK, Times
    <3>8. GenuineAfter(cur[w], it'[w])
      BY <2>1, <3>5, <3>6, <3>7 DEF Genuine, GenuineAfter
    <3> QED  BY <2>2, <3>5, <3>8, OneCopy
  <2> QED  BY <1>15, <2>3, <2>4 DEF Decide
<1>16. ASSUME NEW w \in Workers, FinishStepUp(w)
      PROVE  Copies'
  <2>1. cur[w] \in Intents /\ it[w] \in Intent /\ Genuine(cur[w], it[w])
    BY <1>16, InCallGenuine DEF FinishStepUp, At
  <2>2. /\ \A v \in Workers \ {w} : it'[v] = it[v]
        /\ it'[w].conv = it[w].conv /\ it'[w].digest = it[w].digest
        /\ it'[w].issued = it[w].issued
    BY <1>16, <2>1, MoveType DEF FinishStepUp
  <2>3. UNCHANGED <<store, stranded, cur>>
    BY <1>16 DEF FinishStepUp
  <2>4. GenuineAfter(cur[w], it'[w])
    BY <2>1, <2>2, StillGenuine
  <2> QED  BY <2>2, <2>3, <2>4, OneCopy
<1>17. ASSUME NEW w \in Workers, Authorize(w)
      PROVE  Copies'
  <2>1. cur[w] \in Intents /\ it[w] \in Intent /\ Genuine(cur[w], it[w])
    BY <1>17, InCallGenuine DEF Authorize, At
  <2>2. /\ \A v \in Workers \ {w} : it'[v] = it[v]
        /\ it'[w].conv = it[w].conv /\ it'[w].digest = it[w].digest
        /\ it'[w].issued = it[w].issued
    BY <1>17, <2>1, MoveType DEF Authorize
  <2>3. UNCHANGED <<store, stranded, cur>>
    BY <1>17 DEF Authorize
  <2>4. GenuineAfter(cur[w], it'[w])
    BY <2>1, <2>2, StillGenuine
  <2> QED  BY <2>2, <2>3, <2>4, OneCopy
<1>18. ASSUME NEW w \in Workers, Submit(w)
      PROVE  Copies'
  <2>1. cur[w] \in Intents /\ it[w] \in Intent /\ Genuine(cur[w], it[w])
    BY <1>18, InCallGenuine DEF Submit, At
  <2>2. /\ \A v \in Workers \ {w} : it'[v] = it[v]
        /\ it'[w].conv = it[w].conv /\ it'[w].digest = it[w].digest
        /\ it'[w].issued = it[w].issued
    BY <1>18, <2>1, MoveType DEF Submit
  <2>3. UNCHANGED <<store, stranded, cur>>
    BY <1>18 DEF Submit
  <2>4. GenuineAfter(cur[w], it'[w])
    BY <2>1, <2>2, StillGenuine
  <2> QED  BY <2>2, <2>3, <2>4, OneCopy
<1>19. ASSUME NEW w \in Workers, Debit(w)
      PROVE  Copies'
  <2>1. UNCHANGED <<store, it, cur, stranded>>
    BY <1>19 DEF Debit, durable, local
  <2> QED  BY <2>1, StillCopies DEF Copies, Genuine, GenuineAfter
<1>20. ASSUME NEW w \in Workers, Pay(w)
      PROVE  Copies'
  <2>1. UNCHANGED <<store, it, cur, stranded>>
    BY <1>20 DEF Pay, durable, local
  <2> QED  BY <2>1, StillCopies DEF Copies, Genuine, GenuineAfter
<1>21. ASSUME NEW w \in Workers, Complete(w)
      PROVE  Copies'
  <2> DEFINE row == [it[w] EXCEPT !.receipt = payments[cur[w]]]
  <2>1. cur[w] \in Intents /\ it[w] \in Intent /\ Genuine(cur[w], it[w])
    BY <1>21, InCallGenuine DEF Complete, At
  <2>2. payments[cur[w]] \in Receipt \cup {None}
    BY <2>1 DEF TypeOK
  <2>3. /\ row \in Intent
        /\ row.conv = it[w].conv /\ row.digest = it[w].digest /\ row.issued = it[w].issued
    BY <2>1, <2>2, IntentUpdate DEF Intent
  <2>4. Move(w, cur[w], row, "complete")
    BY <1>21 DEF Complete
  <2>5. /\ \A v \in Workers \ {w} : it'[v] = it[v]
        /\ it'[w].conv = it[w].conv /\ it'[w].digest = it[w].digest
        /\ it'[w].issued = it[w].issued
    <3> HIDE DEF row
    <3> QED  BY <2>1, <2>3, <2>4, MoveType
  <2>6. UNCHANGED <<store, stranded, cur>>
    BY <1>21 DEF Complete
  <2>7. GenuineAfter(cur[w], it'[w])
    BY <2>1, <2>5, StillGenuine
  <2> QED  BY <2>5, <2>6, <2>7, OneCopy
<1>22. ASSUME NEW w \in Workers, TimeOut(w)
      PROVE  Copies'
  <2>1. cur[w] \in Intents /\ it[w] \in Intent /\ Genuine(cur[w], it[w])
    BY <1>22, InCallGenuine DEF TimeOut, At
  <2>2. /\ \A v \in Workers \ {w} : it'[v] = it[v]
        /\ it'[w].conv = it[w].conv /\ it'[w].digest = it[w].digest
        /\ it'[w].issued = it[w].issued
    BY <1>22, <2>1, MoveType DEF TimeOut
  <2>3. UNCHANGED <<store, stranded, cur>>
    BY <1>22 DEF TimeOut
  <2>4. GenuineAfter(cur[w], it'[w])
    BY <2>1, <2>2, StillGenuine
  <2> QED  BY <2>2, <2>3, <2>4, OneCopy
<1>23. ASSUME NEW w \in Workers, Fail(w)
      PROVE  Copies'
  <2>1. cur[w] \in Intents /\ it[w] \in Intent /\ Genuine(cur[w], it[w])
    BY <1>23, InCallGenuine DEF Fail, At
  <2>2. /\ \A v \in Workers \ {w} : it'[v] = it[v]
        /\ it'[w].conv = it[w].conv /\ it'[w].digest = it[w].digest
        /\ it'[w].issued = it[w].issued
    BY <1>23, <2>1, MoveType DEF Fail
  <2>3. UNCHANGED <<store, stranded, cur>>
    BY <1>23 DEF Fail
  <2>4. GenuineAfter(cur[w], it'[w])
    BY <2>1, <2>2, StillGenuine
  <2> QED  BY <2>2, <2>3, <2>4, OneCopy
<1>24. ASSUME NEW w \in Workers, AskBank(w)
      PROVE  Copies'
  <2> DEFINE row == [it[w] EXCEPT !.receipt = payments[cur[w]]]
  <2>1. cur[w] \in Intents /\ it[w] \in Intent /\ Genuine(cur[w], it[w])
    BY <1>24, InCallGenuine DEF AskBank, At
  <2>2. payments[cur[w]] \in Receipt \cup {None}
    BY <2>1 DEF TypeOK
  <2>3. /\ row \in Intent
        /\ row.conv = it[w].conv /\ row.digest = it[w].digest /\ row.issued = it[w].issued
    BY <2>1, <2>2, IntentUpdate DEF Intent
  <2>4. Move(w, cur[w], row, "complete") \/ Move(w, cur[w], it[w], "fail")
    BY <1>24 DEF AskBank
  <2>5. /\ \A v \in Workers \ {w} : it'[v] = it[v]
        /\ it'[w].conv = it[w].conv /\ it'[w].digest = it[w].digest
        /\ it'[w].issued = it[w].issued
    <3> HIDE DEF row
    <3> QED  BY <2>1, <2>3, <2>4, MoveType
  <2>6. UNCHANGED <<store, stranded, cur>>
    BY <1>24 DEF AskBank
  <2>7. GenuineAfter(cur[w], it'[w])
    BY <2>1, <2>5, StillGenuine
  <2> QED  BY <2>5, <2>6, <2>7, OneCopy
<1>25. ASSUME NEW w \in Workers, SweepOne(w)
      PROVE  Copies'
  <2>1. PICK s \in stranded[w] :
            /\ cur' = [cur EXCEPT ![w] = s[1]]
            /\ Move(w, s[1], s[2], "timeout")
            /\ stranded' = [stranded EXCEPT ![w] = @ \ {s}]
    BY <1>25 DEF SweepOne
  <2>2. s[1] \in Intents /\ s[2] \in Intent /\ Genuine(s[1], s[2])
    BY <2>1 DEF TypeOK, Copies
  <2>3. /\ \A v \in Workers \ {w} : it'[v] = it[v]
        /\ it'[w].conv = s[2].conv /\ it'[w].digest = s[2].digest
        /\ it'[w].issued = s[2].issued
    BY <2>1, <2>2, MoveType
  <2>4. GenuineAfter(cur'[w], it'[w])
    BY <2>1, <2>2, <2>3, StillGenuine DEF TypeOK
  <2>5. /\ \A v \in Workers \ {w} : cur'[v] = cur[v]
        /\ \A v \in Workers : stranded'[v] \subseteq stranded[v]
        /\ store' = store
    BY <1>25, <2>1 DEF SweepOne, TypeOK
  <2>6. \A v \in Workers : it'[v] # None => GenuineAfter(cur'[v], it'[v])
    BY <2>3, <2>4, <2>5, StillCopies
  <2>7. \A v \in Workers : \A t \in stranded'[v] : GenuineAfter(t[1], t[2])
    BY <2>5, StillCopies
  <2>8. \A j \in Intents : store'[j] # None => GenuineAfter(j, store'[j])
    BY <2>5, StillCopies
  <2> QED  BY <2>6, <2>7, <2>8 DEF Copies, Genuine, GenuineAfter
<1>26. ASSUME NEW w \in Workers, SweepReason(w)
      PROVE  Copies'
  <2>1. cur[w] \in Intents /\ it[w] \in Intent /\ Genuine(cur[w], it[w])
    BY <1>26, InCallGenuine DEF SweepReason, At
  <2>2. /\ it' = [it EXCEPT ![w] = [it[w] EXCEPT !.reason = TRUE]]
        /\ UNCHANGED <<store, stranded, cur>>
    BY <1>26 DEF SweepReason, Mutate, durable
  <2>3. /\ it'[w].conv = it[w].conv /\ it'[w].digest = it[w].digest
        /\ it'[w].issued = it[w].issued
    BY <2>1, <2>2 DEF Intent, TypeOK
  <2>4. GenuineAfter(cur[w], it'[w])
    BY <2>1, <2>3, StillGenuine
  <2> QED  BY <2>2, <2>4, OneCopy DEF TypeOK
<1>27. ASSUME NEW w \in Workers, Serve(w)
      PROVE  Copies'
  <2>1. /\ cur' = [cur EXCEPT ![w] = None] /\ it' = [it EXCEPT ![w] = None]
        /\ UNCHANGED <<store, stranded>>
    BY <1>27 DEF Serve, durable
  <2> QED  BY <2>1, OneCopy DEF TypeOK
<1>28. ASSUME NEW w \in Workers, Boot(w)
      PROVE  Copies'
  <2> DEFINE S == {<<i, store[i]>> : i \in {j \in Intents : store[j] # None
                                                  /\ store[j].state = "SUBMITTED"}}
  <2>1. stranded' = [stranded EXCEPT ![w] = S] /\ UNCHANGED <<store, cur, it>>
    BY <1>28 DEF Boot, durable
  <2>2. \A s \in S : GenuineAfter(s[1], s[2])
    BY StillCopies
  <2> HIDE DEF S
  <2> QED  BY <2>1, <2>2, StillCopies DEF Copies, Genuine, GenuineAfter, TypeOK
<1>29. ASSUME NEW p \in Processes, Crash(p)
      PROVE  Copies'
  <2>1. /\ store' = store
        /\ \A w \in Workers : stranded'[w] = {} \/ stranded'[w] = stranded[w]
        /\ \A w \in Workers : it'[w] = None \/ (it'[w] = it[w] /\ cur'[w] = cur[w])
    BY <1>29 DEF Crash, durable
  <2>2. \A w \in Workers : it'[w] # None => GenuineAfter(cur'[w], it'[w])
    BY <2>1, StillCopies
  <2>3. \A w \in Workers : \A s \in stranded'[w] : GenuineAfter(s[1], s[2])
    BY <2>1, StillCopies
  <2>4. \A i \in Intents : store'[i] # None => GenuineAfter(i, store'[i])
    BY <2>1, StillCopies
  <2> QED  BY <2>2, <2>3, <2>4 DEF Copies, Genuine, GenuineAfter
<1>30. ASSUME NEW p \in Processes, Invoke(p)
      PROVE  Copies'
  <2>1. UNCHANGED <<store, it, cur, stranded>>
    BY <1>30 DEF Invoke, durable, local
  <2> QED  BY <2>1, StillCopies DEF Copies, Genuine, GenuineAfter
<1>31. ASSUME NEW i \in Intents, NEW a \in Action, Tamper(i, a)
      PROVE  Copies'
  <2>1. store[i] \in Intent /\ Genuine(i, store[i])
    BY <1>31 DEF Tamper, TypeOK, Copies
  <2>2. /\ store' = [store EXCEPT ![i] = [store[i] EXCEPT !.action = a]]
        /\ UNCHANGED <<it, cur, stranded>>
    BY <1>31 DEF Tamper, local
  <2>3. /\ store'[i].conv = store[i].conv /\ store'[i].digest = store[i].digest
        /\ store'[i].issued = store[i].issued
    BY <2>1, <2>2 DEF Intent, TypeOK
  <2>4. GenuineAfter(i, store'[i])
    BY <2>1, <2>3, StillGenuine
  <2>5. \A j \in Intents \ {i} : store'[j] = store[j]
    BY <2>2 DEF TypeOK
  <2> QED  BY <2>2, <2>4, <2>5, StillCopies DEF Copies, Genuine, GenuineAfter
<1>32. CASE Tick
  <2>1. UNCHANGED <<store, it, cur, stranded>>
    BY <1>32 DEF Tick, durable, local
  <2> QED  BY <2>1, StillCopies DEF Copies, Genuine, GenuineAfter
<1> QED
  BY <1>1, <1>2, <1>3, <1>4, <1>5, <1>6, <1>7, <1>8, <1>9, <1>10, <1>11, <1>12, <1>13,
     <1>14, <1>15, <1>16, <1>17, <1>18, <1>19, <1>20, <1>21, <1>22, <1>23, <1>24, <1>25,
     <1>26, <1>27, <1>28, <1>29, <1>30, <1>31, <1>32
     DEF Next,
     Call, Step, Environment

\* The points of a call at which the invariant records what the worker knows.
Checkpoints == {"proposed", "decide", "confirmed", "authorized", "submitted", "debited"}

\* What a worker knows at a point of its call survives the steps of everybody else.
LEMMA StageStays ==
  ASSUME ConstantsAssumption, TypeOK, Held, Monotone, NEW w \in Workers, Stage(w),
         pc'[w] = pc[w], cur'[w] = cur[w], it'[w] = it[w], caller'[w] = caller[w]
  PROVE  Stage(w)'
<1>1. CASE pc[w] \notin Checkpoints
  BY <1>1 DEF Stage, Checkpoints
<1>2. CASE pc[w] \in Checkpoints
  <2>1. cur[w] \in Intents
    BY <1>2, InCall DEF Checkpoints
  <2>2. /\ logged[cur[w]] \subseteq logged'[cur[w]]
        /\ offers[cur[w]] \subseteq offers'[cur[w]]
        /\ hops[cur[w]] \subseteq hops'[cur[w]]
        /\ opened[cur[w]] # None => opened'[cur[w]] = opened[cur[w]]
    BY <2>1 DEF Monotone
  <2>3. actions_of(consents[cur[w]]) \subseteq actions_of(consents'[cur[w]])
    BY <2>1 DEF Monotone, actions_of
  <2>4. pc[w] = "confirmed" => caller[w] # None
    BY ConstantsAssumption DEF Held
  <2> QED  BY <2>2, <2>3, <2>4 DEF Stage, Timely, Offered
<1> QED  BY <1>1, <1>2

\* Away from those points nothing has to be known.
LEMMA NoStage ==
  ASSUME NEW w \in Workers, pc'[w] \notin Checkpoints
  PROVE  Stage(w)'
BY DEF Stage, Checkpoints

\* A step of one worker that keeps that worker's stage keeps Stages.
LEMMA OneStage ==
  ASSUME ConstantsAssumption, TypeOK, Held, Monotone, Stages, NEW w \in Workers, Stage(w)',
         \A v \in Workers \ {w} :
           pc'[v] = pc[v] /\ cur'[v] = cur[v] /\ it'[v] = it[v] /\ caller'[v] = caller[v]
  PROVE  Stages'
<1>1. ASSUME NEW v \in Workers \ {w}
      PROVE  Stage(v)'
  BY StageStays DEF Stages
<1> QED  BY <1>1 DEF Stages

\* _move leaves the other workers' objects alone.
LEMMA MoveOthers ==
  ASSUME TypeOK, NEW w \in Workers, NEW i, NEW row, NEW e, Move(w, i, row, e)
  PROVE  \A v \in Workers \ {w} : it'[v] = it[v]
<1>1. PICK new : it' = [it EXCEPT ![w] = new]
  BY DEF Move, Mutate
<1> QED  BY <1>1 DEF TypeOK

\* Every step establishes what the point it reaches promises: in particular confirm checks
\* principal, TTL and digest before it reaches its put.
LEMMA StagesStep ==
  ASSUME ConstantsAssumption, TypeOK, TypeOK', Held, Held', Copies, Monotone, Stages, Next
  PROVE  Stages'
<1> USE ConstantsAssumption
<1>1. ASSUME NEW w \in Workers, NEW c \in Conversations, NEW i \in Intents,
             NEW name \in Names, AskWhichContact(w, c, i, name)
      PROVE  Stages'
  <2>1. UNCHANGED <<pc, cur, it, caller>>
    BY <1>1 DEF AskWhichContact, local
  <2> QED  BY <2>1, StageStays DEF Stages
<1>2. ASSUME NEW w \in Workers, NEW c \in Conversations, NEW i \in Intents,
             NEW name \in Names, NEW amount \in Amounts, Propose(w, c, i, name, amount)
      PROVE  Stages'
  <2>9. PICK recipient \in Recipients :
            Mutate(w, new_intent(c, [recipient |-> recipient, amount |-> amount]))
    BY <1>2 DEF Propose
  <2>1. \A v \in Workers \ {w} :
          pc'[v] = pc[v] /\ cur'[v] = cur[v] /\ it'[v] = it[v] /\ caller'[v] = caller[v]
    BY <2>9, <1>2 DEF Propose, Goto, Take, Mutate, durable, bank, world, TypeOK
  <2>2. pc'[w] = "proposed" /\ it'[w].assurance = "medium"
    BY <1>2, <2>9 DEF Propose, Goto, Mutate, new_intent, TypeOK
  <2>3. Stage(w)'
    BY <2>2 DEF Stage
  <2> QED  BY <2>1, <2>3, OneStage
<1>3. ASSUME NEW w \in Workers, NEW c \in Conversations, NEW i \in Intents, StepUp(w, c, i)
      PROVE  Stages'
  <2>1. \A v \in Workers \ {w} :
          pc'[v] = pc[v] /\ cur'[v] = cur[v] /\ it'[v] = it[v] /\ caller'[v] = caller[v]
    BY <1>3 DEF StepUp, Goto, Take, Mutate, durable, bank, world, TypeOK
  <2>2. pc'[w] \notin Checkpoints
    BY <1>3 DEF StepUp, Goto, TypeOK, Checkpoints
  <2> QED  BY <2>1, <2>2, NoStage, OneStage
<1>4. ASSUME NEW w \in Workers, NEW c \in Conversations, NEW i \in Intents,
             DuplicateConfirmation(w, c, i)
      PROVE  Stages'
  <2>1. UNCHANGED <<pc, cur, it, caller>>
    BY <1>4 DEF DuplicateConfirmation, local
  <2> QED  BY <2>1, StageStays DEF Stages
<1>5. ASSUME NEW w \in Workers, NEW c \in Conversations, NEW i \in Intents,
             ConfirmExpired(w, c, i)
      PROVE  Stages'
  <2>1. \A v \in Workers \ {w} :
          pc'[v] = pc[v] /\ cur'[v] = cur[v] /\ it'[v] = it[v] /\ caller'[v] = caller[v]
    BY <1>5, MoveOthers DEF ConfirmExpired, Goto, Take, Mutate, durable, bank, world, TypeOK
  <2>2. pc'[w] \notin Checkpoints
    BY <1>5 DEF ConfirmExpired, Goto, TypeOK, Checkpoints
  <2> QED  BY <2>1, <2>2, NoStage, OneStage
<1>6. ASSUME NEW w \in Workers, NEW c \in Conversations, NEW i \in Intents,
             DigestMismatch(w, c, i)
      PROVE  Stages'
  <2>1. UNCHANGED <<pc, cur, it, caller>>
    BY <1>6 DEF DigestMismatch, local
  <2> QED  BY <2>1, StageStays DEF Stages
<1>7. ASSUME NEW w \in Workers, NEW c \in Conversations, NEW i \in Intents, Confirm(w, c, i)
      PROVE  Stages'
  <2>1. \A v \in Workers \ {w} :
          pc'[v] = pc[v] /\ cur'[v] = cur[v] /\ it'[v] = it[v] /\ caller'[v] = caller[v]
    BY <1>7 DEF Confirm, Goto, Take, Mutate, durable, bank, world, TypeOK
  <2>2. /\ store[i] \in Intent /\ Genuine(i, store[i]) /\ store[i].conv = c
        /\ store[i].issued # Never /\ ~expired(store[i])
        /\ digest_matches(ProcessOf[w], store[i])
    BY <1>7 DEF Confirm, confirmable, by_confirmation, TypeOK, Copies
  <2>3. /\ pc'[w] = "confirmed" /\ cur'[w] = i /\ caller'[w] = c
        /\ it'[w] = [store[i] EXCEPT !.confirmed = clock]
        /\ opened' = opened /\ offers' = offers
    BY <1>7 DEF Confirm, Goto, Take, Mutate, durable, TypeOK
  <2>4. /\ store[i].digest.action = store[i].action
        /\ store[i].issued \in 0 .. clock
        /\ [action |-> store[i].action, at |-> store[i].issued] \in offers[i]
        /\ opened[i] = c
    <3>1. /\ store[i].digest = action_digest(ProcessOf[w], store[i].action)
          /\ action_digest(ProcessOf[w], store[i].action) \in Digest
      BY <2>2, DigestType DEF digest_matches, Intent
    <3>2. store[i].digest # None /\ store[i].digest.action = store[i].action
      BY <3>1 DEF action_digest
    <3> QED  BY <2>2, <3>2 DEF Genuine
  <2>5. clock - store[i].issued \in 0 .. TTL
    <3>1. TTL \in Nat
      OBVIOUS
    <3>2. clock \in Nat
      BY DEF TypeOK, Times
    <3>3. store[i].issued \in Nat /\ store[i].issued <= clock
      BY <2>4, <3>2
    <3>4. ~(clock - store[i].issued > TTL)
      BY <2>2 DEF expired
    <3> QED  BY <3>1, <3>2, <3>3, <3>4
  <2>6. /\ it'[w].action = store[i].action /\ it'[w].issued = store[i].issued
        /\ it'[w].confirmed = clock
    BY <2>2, <2>3 DEF Intent
  <2>7. Stage(w)'
    BY <2>3, <2>4, <2>5, <2>6 DEF Stage, Timely, Offered
  <2> QED  BY <2>1, <2>7, OneStage
<1>8. ASSUME NEW w \in Workers, NEW c \in Conversations, NEW i \in Intents, Cancel(w, c, i)
      PROVE  Stages'
  <2>1. \A v \in Workers \ {w} :
          pc'[v] = pc[v] /\ cur'[v] = cur[v] /\ it'[v] = it[v] /\ caller'[v] = caller[v]
    BY <1>8, MoveOthers DEF Cancel, Goto, Take, Mutate, durable, bank, world, TypeOK
  <2>2. pc'[w] \notin Checkpoints
    BY <1>8 DEF Cancel, Goto, TypeOK, Checkpoints
  <2> QED  BY <2>1, <2>2, NoStage, OneStage
<1>9. ASSUME NEW w \in Workers, NEW c \in Conversations, NEW i \in Intents,
             CancelRefused(w, c, i)
      PROVE  Stages'
  <2>1. UNCHANGED <<pc, cur, it, caller>>
    BY <1>9 DEF CancelRefused, local
  <2> QED  BY <2>1, StageStays DEF Stages
<1>10. ASSUME NEW w \in Workers, NEW c \in Conversations, NEW i \in Intents, Reconcile(w, c, i)
      PROVE  Stages'
  <2>1. \A v \in Workers \ {w} :
          pc'[v] = pc[v] /\ cur'[v] = cur[v] /\ it'[v] = it[v] /\ caller'[v] = caller[v]
    BY <1>10 DEF Reconcile, Goto, Take, Mutate, durable, bank, world, TypeOK
  <2>2. pc'[w] \notin Checkpoints
    BY <1>10 DEF Reconcile, Goto, TypeOK, Checkpoints
  <2> QED  BY <2>1, <2>2, NoStage, OneStage
<1>11. ASSUME NEW w \in Workers, Put(w)
      PROVE  Stages'
  <2>1. UNCHANGED <<pc, cur, it, caller>>
    BY <1>11 DEF Put, local
  <2> QED  BY <2>1, StageStays DEF Stages
<1>12. ASSUME NEW w \in Workers, SetReason(w)
      PROVE  Stages'
  <2>1. \A v \in Workers \ {w} :
          pc'[v] = pc[v] /\ cur'[v] = cur[v] /\ it'[v] = it[v] /\ caller'[v] = caller[v]
    BY <1>12 DEF SetReason, Goto, Take, Mutate, durable, bank, world, TypeOK
  <2>2. pc'[w] \notin Checkpoints
    BY <1>12 DEF SetReason, Goto, TypeOK, Checkpoints
  <2> QED  BY <2>1, <2>2, NoStage, OneStage
<1>13. ASSUME NEW w \in Workers, Return(w)
      PROVE  Stages'
  <2>1. \A v \in Workers \ {w} :
          pc'[v] = pc[v] /\ cur'[v] = cur[v] /\ it'[v] = it[v] /\ caller'[v] = caller[v]
    BY <1>13 DEF Return, Goto, Take, Mutate, durable, bank, world, TypeOK
  <2>2. pc'[w] \notin Checkpoints
    BY <1>13 DEF Return, Goto, TypeOK, Checkpoints
  <2> QED  BY <2>1, <2>2, NoStage, OneStage
<1>14. ASSUME NEW w \in Workers, CheckPreconditions(w)
      PROVE  Stages'
  <2>1. \A v \in Workers \ {w} :
          pc'[v] = pc[v] /\ cur'[v] = cur[v] /\ it'[v] = it[v] /\ caller'[v] = caller[v]
    BY <1>14, MoveOthers DEF CheckPreconditions, Goto, Take, Mutate, durable, bank, world,
       TypeOK
  <2>2. cur[w] \in Intents /\ it[w] \in Intent /\ it[w].assurance = "medium"
    BY <1>14, InCall DEF CheckPreconditions, At, Stages, Stage
  <2>3. pc'[w] \in {"decide", "return"}
    BY <1>14 DEF CheckPreconditions, Goto, TypeOK
  <2>4. it'[w].assurance = "medium"
    BY <1>14, <2>2, MoveType DEF CheckPreconditions
  <2>5. Stage(w)'
    BY <2>3, <2>4 DEF Stage
  <2> QED  BY <2>1, <2>5, OneStage
<1>15. ASSUME NEW w \in Workers, Decide(w)
      PROVE  Stages'
  <2>1. \A v \in Workers \ {w} :
          pc'[v] = pc[v] /\ cur'[v] = cur[v] /\ it'[v] = it[v] /\ caller'[v] = caller[v]
    BY <1>15, MoveOthers DEF Decide, Reject, RequireStepUp, IssueConfirmation, Goto, Take,
       Mutate, durable, bank, world, TypeOK
  <2>2. pc'[w] \notin Checkpoints
    BY <1>15 DEF Decide, Reject, RequireStepUp, IssueConfirmation, Goto, TypeOK, Checkpoints
  <2> QED  BY <2>1, <2>2, NoStage, OneStage
<1>16. ASSUME NEW w \in Workers, FinishStepUp(w)
      PROVE  Stages'
  <2>1. \A v \in Workers \ {w} :
          pc'[v] = pc[v] /\ cur'[v] = cur[v] /\ it'[v] = it[v] /\ caller'[v] = caller[v]
    BY <1>16, MoveOthers DEF FinishStepUp, Goto, Take, Mutate, durable, bank, world, TypeOK
  <2>2. cur[w] \in Intents
    BY <1>16, InCall DEF FinishStepUp, At
  <2>3. pc'[w] = "decide" /\ "step_up" \in logged'[cur'[w]]
    BY <1>16, <2>2 DEF FinishStepUp, Goto, Log, TypeOK
  <2>4. Stage(w)'
    BY <2>3 DEF Stage
  <2> QED  BY <2>1, <2>4, OneStage
<1>17. ASSUME NEW w \in Workers, Authorize(w)
      PROVE  Stages'
  <2>1. \A v \in Workers \ {w} :
          pc'[v] = pc[v] /\ cur'[v] = cur[v] /\ it'[v] = it[v] /\ caller'[v] = caller[v]
    BY <1>17, MoveOthers DEF Authorize, Goto, Take, Mutate, durable, bank, world, TypeOK
  <2> DEFINE y == [by |-> caller[w], action |-> it[w].action,
                   issued |-> it[w].issued, at |-> it[w].confirmed]
  <2>2. cur[w] \in Intents /\ it[w] \in Intent
    BY <1>17, InCall DEF Authorize, At
  <2>3. /\ consents' = [consents EXCEPT ![cur[w]] = @ \cup {y}]
        /\ pc'[w] = "authorized" /\ cur' = cur
        /\ "confirmation" \in logged'[cur[w]]
    BY <1>17, <2>2 DEF Authorize, Goto, Log, TypeOK
  <2>4. y \in consents'[cur[w]] /\ y.action = it[w].action
    <3>1. y.action = it[w].action
      OBVIOUS
    <3> HIDE DEF y
    <3> QED  BY <2>2, <2>3, <3>1 DEF TypeOK
  <2>5. it'[w].action = it[w].action
    BY <1>17, <2>2, MoveType DEF Authorize
  <2>6. it'[w].action \in actions_of(consents'[cur[w]])
    BY <2>4, <2>5 DEF actions_of
  <2>7. Stage(w)'
    BY <2>3, <2>6 DEF Stage
  <2> QED  BY <2>1, <2>7, OneStage
<1>18. ASSUME NEW w \in Workers, Submit(w)
      PROVE  Stages'
  <2>1. \A v \in Workers \ {w} :
          pc'[v] = pc[v] /\ cur'[v] = cur[v] /\ it'[v] = it[v] /\ caller'[v] = caller[v]
    BY <1>18, MoveOthers DEF Submit, Goto, Take, Mutate, durable, bank, world, TypeOK
  <2>2. cur[w] \in Intents /\ it[w] \in Intent
    BY <1>18, InCall DEF Submit, At
  <2>3. /\ it[w].action \in actions_of(consents[cur[w]])
        /\ "confirmation" \in logged[cur[w]]
    BY <1>18 DEF Submit, At, Stages, Stage
  <2>4. pc'[w] = "submitted" /\ cur' = cur /\ consents' = consents
    BY <1>18 DEF Submit, Goto, TypeOK
  <2>5. {"confirmation", "authorization"} \subseteq logged'[cur[w]]
    BY <1>18, <2>2, <2>3 DEF Submit, Log, TypeOK
  <2>6. <<"AUTHORIZED", "submit", "SUBMITTED">> \in hops'[cur[w]]
    <3>1. PICK to \in State :
            /\ <<it[w].state, "submit", to>> \in TRANSITIONS
            /\ hops' = [hops EXCEPT ![cur[w]] = @ \cup {<<it[w].state, "submit", to>>}]
      BY <1>18 DEF Submit, Move
    <3>2. <<it[w].state, "submit", to>> = <<"AUTHORIZED", "submit", "SUBMITTED">>
      BY <3>1 DEF TRANSITIONS
    <3> QED  BY <2>2, <3>1, <3>2 DEF TypeOK
  <2>7. it'[w].action = it[w].action
    BY <1>18, <2>2, MoveType DEF Submit
  <2>8. Stage(w)'
    BY <2>3, <2>4, <2>5, <2>6, <2>7 DEF Stage
  <2> QED  BY <2>1, <2>8, OneStage
<1>19. ASSUME NEW w \in Workers, Debit(w)
      PROVE  Stages'
  <2>1. \A v \in Workers \ {w} :
          pc'[v] = pc[v] /\ cur'[v] = cur[v] /\ it'[v] = it[v] /\ caller'[v] = caller[v]
    BY <1>19 DEF Debit, Goto, Take, Mutate, durable, bank, world, TypeOK
  <2>2. cur[w] \in Intents
    BY <1>19, InCall DEF Debit, At
  <2>3. /\ it[w].action \in actions_of(consents[cur[w]])
        /\ {"confirmation", "authorization"} \subseteq logged[cur[w]]
        /\ <<"AUTHORIZED", "submit", "SUBMITTED">> \in hops[cur[w]]
    BY <1>19 DEF Debit, At, Stages, Stage
  <2>4. /\ pc'[w] \in {"paid", "refused", "debited"}
        /\ UNCHANGED <<cur, it, consents, hops>>
    BY <1>19 DEF Debit, Goto, TypeOK
  <2>5. {"confirmation", "authorization", "execution_request"} \subseteq logged'[cur[w]]
    BY <1>19, <2>2, <2>3 DEF Debit, Log, TypeOK
  <2>6. Stage(w)'
    BY <2>3, <2>4, <2>5 DEF Stage
  <2> QED  BY <2>1, <2>6, OneStage
<1>20. ASSUME NEW w \in Workers, Pay(w)
      PROVE  Stages'
  <2>1. \A v \in Workers \ {w} :
          pc'[v] = pc[v] /\ cur'[v] = cur[v] /\ it'[v] = it[v] /\ caller'[v] = caller[v]
    BY <1>20 DEF Pay, Goto, Take, Mutate, durable, bank, world, TypeOK
  <2>2. pc'[w] \notin Checkpoints
    BY <1>20 DEF Pay, Goto, TypeOK, Checkpoints
  <2> QED  BY <2>1, <2>2, NoStage, OneStage
<1>21. ASSUME NEW w \in Workers, Complete(w)
      PROVE  Stages'
  <2>1. \A v \in Workers \ {w} :
          pc'[v] = pc[v] /\ cur'[v] = cur[v] /\ it'[v] = it[v] /\ caller'[v] = caller[v]
    BY <1>21, MoveOthers DEF Complete, Goto, Take, Mutate, durable, bank, world, TypeOK
  <2>2. pc'[w] \notin Checkpoints
    BY <1>21 DEF Complete, Goto, TypeOK, Checkpoints
  <2> QED  BY <2>1, <2>2, NoStage, OneStage
<1>22. ASSUME NEW w \in Workers, TimeOut(w)
      PROVE  Stages'
  <2>1. \A v \in Workers \ {w} :
          pc'[v] = pc[v] /\ cur'[v] = cur[v] /\ it'[v] = it[v] /\ caller'[v] = caller[v]
    BY <1>22, MoveOthers DEF TimeOut, Goto, Take, Mutate, durable, bank, world, TypeOK
  <2>2. pc'[w] \notin Checkpoints
    BY <1>22 DEF TimeOut, Goto, TypeOK, Checkpoints
  <2> QED  BY <2>1, <2>2, NoStage, OneStage
<1>23. ASSUME NEW w \in Workers, Fail(w)
      PROVE  Stages'
  <2>1. \A v \in Workers \ {w} :
          pc'[v] = pc[v] /\ cur'[v] = cur[v] /\ it'[v] = it[v] /\ caller'[v] = caller[v]
    BY <1>23, MoveOthers DEF Fail, Goto, Take, Mutate, durable, bank, world, TypeOK
  <2>2. pc'[w] \notin Checkpoints
    BY <1>23 DEF Fail, Goto, TypeOK, Checkpoints
  <2> QED  BY <2>1, <2>2, NoStage, OneStage
<1>24. ASSUME NEW w \in Workers, AskBank(w)
      PROVE  Stages'
  <2>1. \A v \in Workers \ {w} :
          pc'[v] = pc[v] /\ cur'[v] = cur[v] /\ it'[v] = it[v] /\ caller'[v] = caller[v]
    BY <1>24, MoveOthers DEF AskBank, Goto, Take, Mutate, durable, bank, world, TypeOK
  <2>2. pc'[w] \notin Checkpoints
    BY <1>24 DEF AskBank, Goto, TypeOK, Checkpoints
  <2> QED  BY <2>1, <2>2, NoStage, OneStage
<1>25. ASSUME NEW w \in Workers, SweepOne(w)
      PROVE  Stages'
  <2>1. \A v \in Workers \ {w} :
          pc'[v] = pc[v] /\ cur'[v] = cur[v] /\ it'[v] = it[v] /\ caller'[v] = caller[v]
    BY <1>25, MoveOthers DEF SweepOne, Goto, Take, Mutate, durable, bank, world, TypeOK
  <2>2. pc'[w] \notin Checkpoints
    BY <1>25 DEF SweepOne, Goto, TypeOK, Checkpoints
  <2> QED  BY <2>1, <2>2, NoStage, OneStage
<1>26. ASSUME NEW w \in Workers, SweepReason(w)
      PROVE  Stages'
  <2>1. \A v \in Workers \ {w} :
          pc'[v] = pc[v] /\ cur'[v] = cur[v] /\ it'[v] = it[v] /\ caller'[v] = caller[v]
    BY <1>26 DEF SweepReason, Goto, Take, Mutate, durable, bank, world, TypeOK
  <2>2. pc'[w] \notin Checkpoints
    BY <1>26 DEF SweepReason, Goto, TypeOK, Checkpoints
  <2> QED  BY <2>1, <2>2, NoStage, OneStage
<1>27. ASSUME NEW w \in Workers, Serve(w)
      PROVE  Stages'
  <2>1. \A v \in Workers \ {w} :
          pc'[v] = pc[v] /\ cur'[v] = cur[v] /\ it'[v] = it[v] /\ caller'[v] = caller[v]
    BY <1>27 DEF Serve, Goto, Take, Mutate, durable, bank, world, TypeOK
  <2>2. pc'[w] \notin Checkpoints
    BY <1>27 DEF Serve, Goto, TypeOK, Checkpoints
  <2> QED  BY <2>1, <2>2, NoStage, OneStage
<1>28. ASSUME NEW w \in Workers, Boot(w)
      PROVE  Stages'
  <2>1. \A v \in Workers \ {w} :
          pc'[v] = pc[v] /\ cur'[v] = cur[v] /\ it'[v] = it[v] /\ caller'[v] = caller[v]
    BY <1>28 DEF Boot, Goto, Take, Mutate, durable, bank, world, TypeOK
  <2>2. pc'[w] \notin Checkpoints
    BY <1>28 DEF Boot, Goto, TypeOK, Checkpoints
  <2> QED  BY <2>1, <2>2, NoStage, OneStage
<1>29. ASSUME NEW p \in Processes, Crash(p)
      PROVE  Stages'
  <2>1. ASSUME NEW w \in Workers PROVE Stage(w)'
    <3>1. CASE ProcessOf[w] = p
      <4>1. pc'[w] = "idle"
        BY <1>29, <3>1 DEF Crash
      <4> QED  BY <4>1, NoStage DEF Checkpoints
    <3>2. CASE ProcessOf[w] # p
      <4>1. pc'[w] = pc[w] /\ cur'[w] = cur[w] /\ it'[w] = it[w] /\ caller'[w] = caller[w]
        BY <1>29, <3>2 DEF Crash
      <4> QED  BY <4>1, StageStays DEF Stages
    <3> QED  BY <3>1, <3>2
  <2> QED  BY <2>1 DEF Stages
<1>30. ASSUME NEW p \in Processes, Invoke(p)
      PROVE  Stages'
  <2>1. UNCHANGED <<pc, cur, it, caller>>
    BY <1>30 DEF Invoke, local
  <2> QED  BY <2>1, StageStays DEF Stages
<1>31. ASSUME NEW i \in Intents, NEW a \in Action, Tamper(i, a)
      PROVE  Stages'
  <2>1. UNCHANGED <<pc, cur, it, caller>>
    BY <1>31 DEF Tamper, local
  <2> QED  BY <2>1, StageStays DEF Stages
<1>32. CASE Tick
  <2>1. UNCHANGED <<pc, cur, it, caller>>
    BY <1>32 DEF Tick, local
  <2> QED  BY <2>1, StageStays DEF Stages
<1> QED
  BY <1>1, <1>2, <1>3, <1>4, <1>5, <1>6, <1>7, <1>8, <1>9, <1>10, <1>11, <1>12, <1>13,
     <1>14, <1>15, <1>16, <1>17, <1>18, <1>19, <1>20, <1>21, <1>22, <1>23, <1>24, <1>25,
     <1>26, <1>27, <1>28, <1>29, <1>30, <1>31, <1>32
     DEF Next,
     Call, Step, Environment

\* policy.evaluate asks for a confirmation only below the channel ceiling, and for a large
\* amount only of a strongly authenticated intent.
LEMMA OfferedWithinLimits ==
  ASSUME NEW action, action.amount \in Int, NEW assurance \in Assurance, NEW risk, NEW utc,
         evaluate(action, assurance, risk, utc) = "REQUIRE_CONFIRMATION"
  PROVE  /\ action.amount <= HARD_LIMIT
         /\ action.amount > STEP_UP_ABOVE => assurance = "strong"
<1>1. ~denied(action, utc) /\ ~needs_step_up(action, assurance, risk)
  BY DEF evaluate
<1>2. action.amount <= HARD_LIMIT
  BY <1>1 DEF denied, HARD_LIMIT
<1>3. ASSUME action.amount > STEP_UP_ABOVE
      PROVE  assurance = "strong"
  <2>1. required_assurance(action, risk) = "strong"
    BY <1>3 DEF required_assurance, needs_strong
  <2>2. ~(ASSURANCE_RANK[assurance] < ASSURANCE_RANK["strong"])
    BY <1>1, <2>1 DEF needs_step_up
  <2>3. assurance \in {"low", "medium", "strong"}
    BY DEF Assurance, ASSURANCE_RANK
  <2> QED  BY <2>2, <2>3 DEF ASSURANCE_RANK
<1> QED  BY <1>2, <1>3

\* A step that makes no offer, records no consent and moves no money keeps the chain.
LEMMA MoneyStays ==
  ASSUME ConstantsAssumption, TypeOK, Monotone, Chain, EvidenceBeforeMoney,
         UNCHANGED <<offers, consents, payments>>
  PROVE  Chain' /\ EvidenceBeforeMoney'
<1>1. \A i \in Intents : logged[i] \subseteq logged'[i] /\ hops[i] \subseteq hops'[i]
  BY DEF Monotone
<1>2. \A i \in Intents : \A c \in consents[i] : opened'[i] = opened[i]
  <2> SUFFICES ASSUME NEW i \in Intents, NEW c \in consents[i]
               PROVE  opened'[i] = opened[i]
    OBVIOUS
  <2>1. c.by = opened[i]
    BY DEF Chain
  <2>2. c.by \in Conversations
    BY DEF TypeOK, Consent
  <2>3. opened[i] # None
    BY <2>1, <2>2, ConstantsAssumption
  <2> QED  BY <2>3 DEF Monotone
<1>3. Chain'
  BY <1>1, <1>2
     DEF Chain, Offered, paid
<1>4. EvidenceBeforeMoney'
  BY <1>1 DEF EvidenceBeforeMoney, paid
<1> QED  BY <1>3, <1>4

\* Offers are within policy, consents are to offers, payments are of consents and leave
\* evidence, after every step.
LEMMA MoneyStep ==
  ASSUME ConstantsAssumption, TypeOK, Held, Monotone, Stages, Chain, EvidenceBeforeMoney, Next
  PROVE  Chain' /\ EvidenceBeforeMoney'
<1> USE ConstantsAssumption
<1>1. ASSUME NEW w \in Workers, NEW c \in Conversations, NEW i \in Intents,
             NEW name \in Names, AskWhichContact(w, c, i, name)
      PROVE  Chain' /\ EvidenceBeforeMoney'
  <2>1. UNCHANGED <<offers, consents, payments>>
    BY <1>1 DEF AskWhichContact, durable, ledger
  <2> QED  BY <2>1, MoneyStays
<1>2. ASSUME NEW w \in Workers, NEW c \in Conversations, NEW i \in Intents,
             NEW name \in Names, NEW amount \in Amounts, Propose(w, c, i, name, amount)
      PROVE  Chain' /\ EvidenceBeforeMoney'
  <2>1. UNCHANGED <<offers, consents, payments>>
    BY <1>2 DEF Propose, durable, ledger
  <2> QED  BY <2>1, MoneyStays
<1>3. ASSUME NEW w \in Workers, NEW c \in Conversations, NEW i \in Intents, StepUp(w, c, i)
      PROVE  Chain' /\ EvidenceBeforeMoney'
  <2>1. UNCHANGED <<offers, consents, payments>>
    BY <1>3 DEF StepUp, durable, ledger
  <2> QED  BY <2>1, MoneyStays
<1>4. ASSUME NEW w \in Workers, NEW c \in Conversations, NEW i \in Intents,
             DuplicateConfirmation(w, c, i)
      PROVE  Chain' /\ EvidenceBeforeMoney'
  <2>1. UNCHANGED <<offers, consents, payments>>
    BY <1>4 DEF DuplicateConfirmation, durable, ledger
  <2> QED  BY <2>1, MoneyStays
<1>5. ASSUME NEW w \in Workers, NEW c \in Conversations, NEW i \in Intents,
             ConfirmExpired(w, c, i)
      PROVE  Chain' /\ EvidenceBeforeMoney'
  <2>1. UNCHANGED <<offers, consents, payments>>
    BY <1>5 DEF ConfirmExpired, durable, ledger
  <2> QED  BY <2>1, MoneyStays
<1>6. ASSUME NEW w \in Workers, NEW c \in Conversations, NEW i \in Intents,
             DigestMismatch(w, c, i)
      PROVE  Chain' /\ EvidenceBeforeMoney'
  <2>1. UNCHANGED <<offers, consents, payments>>
    BY <1>6 DEF DigestMismatch, durable, ledger
  <2> QED  BY <2>1, MoneyStays
<1>7. ASSUME NEW w \in Workers, NEW c \in Conversations, NEW i \in Intents, Confirm(w, c, i)
      PROVE  Chain' /\ EvidenceBeforeMoney'
  <2>1. UNCHANGED <<offers, consents, payments>>
    BY <1>7 DEF Confirm, durable, ledger
  <2> QED  BY <2>1, MoneyStays
<1>8. ASSUME NEW w \in Workers, NEW c \in Conversations, NEW i \in Intents, Cancel(w, c, i)
      PROVE  Chain' /\ EvidenceBeforeMoney'
  <2>1. UNCHANGED <<offers, consents, payments>>
    BY <1>8 DEF Cancel, durable, ledger
  <2> QED  BY <2>1, MoneyStays
<1>9. ASSUME NEW w \in Workers, NEW c \in Conversations, NEW i \in Intents,
             CancelRefused(w, c, i)
      PROVE  Chain' /\ EvidenceBeforeMoney'
  <2>1. UNCHANGED <<offers, consents, payments>>
    BY <1>9 DEF CancelRefused, durable, ledger
  <2> QED  BY <2>1, MoneyStays
<1>10. ASSUME NEW w \in Workers, NEW c \in Conversations, NEW i \in Intents, Reconcile(w, c, i)
      PROVE  Chain' /\ EvidenceBeforeMoney'
  <2>1. UNCHANGED <<offers, consents, payments>>
    BY <1>10 DEF Reconcile, durable, ledger
  <2> QED  BY <2>1, MoneyStays
<1>11. ASSUME NEW w \in Workers, Put(w)
      PROVE  Chain' /\ EvidenceBeforeMoney'
  <2>1. UNCHANGED <<offers, consents, payments>>
    BY <1>11 DEF Put, durable, ledger
  <2> QED  BY <2>1, MoneyStays
<1>12. ASSUME NEW w \in Workers, SetReason(w)
      PROVE  Chain' /\ EvidenceBeforeMoney'
  <2>1. UNCHANGED <<offers, consents, payments>>
    BY <1>12 DEF SetReason, durable, ledger
  <2> QED  BY <2>1, MoneyStays
<1>13. ASSUME NEW w \in Workers, Return(w)
      PROVE  Chain' /\ EvidenceBeforeMoney'
  <2>1. UNCHANGED <<offers, consents, payments>>
    BY <1>13 DEF Return, durable, ledger
  <2> QED  BY <2>1, MoneyStays
<1>14. ASSUME NEW w \in Workers, CheckPreconditions(w)
      PROVE  Chain' /\ EvidenceBeforeMoney'
  <2>1. UNCHANGED <<offers, consents, payments>>
    BY <1>14 DEF CheckPreconditions, durable, ledger
  <2> QED  BY <2>1, MoneyStays
<1>15. ASSUME NEW w \in Workers, Decide(w)
      PROVE  Chain' /\ EvidenceBeforeMoney'
  <2>1. /\ cur[w] \in Intents /\ it[w] \in Intent
        /\ opened' = opened /\ UNCHANGED <<consents, payments>>
    BY <1>15, InCall DEF Decide, At
  <2>2. CASE UNCHANGED offers
    BY <2>1, <2>2, MoneyStays
  <2>3. CASE ~UNCHANGED offers
    <3> DEFINE o == [action |-> it[w].action, at |-> clock]
    <3>1. IssueConfirmation(w)
      BY <1>15, <2>3 DEF Decide, Reject, RequireStepUp
    <3>2. offers' = [offers EXCEPT ![cur[w]] = @ \cup {o}]
      BY <2>1, <3>1 DEF IssueConfirmation, Intent
    <3>3. verdict(w) = "REQUIRE_CONFIRMATION"
      BY <3>1 DEF IssueConfirmation
    <3>4. it[w].action.amount \in Int /\ it[w].assurance \in Assurance
      BY <2>1 DEF Intent, Action
    <3>5. /\ it[w].action.amount <= HARD_LIMIT
          /\ it[w].action.amount > STEP_UP_ABOVE => it[w].assurance = "strong"
      BY <3>3, <3>4, OfferedWithinLimits DEF verdict
    <3>6. it[w].assurance = "strong" => "step_up" \in logged[cur[w]]
      BY <1>15 DEF Decide, At, Stages, Stage
    <3>7. /\ o.action.amount <= HARD_LIMIT
          /\ o.action.amount > STEP_UP_ABOVE => "step_up" \in logged[cur[w]]
      BY <3>5, <3>6
    <3> HIDE DEF o
    <3>8. \A i \in Intents : /\ offers[i] \subseteq offers'[i]
                            /\ logged[i] \subseteq logged'[i]
                            /\ hops[i] \subseteq hops'[i]
      BY DEF Monotone
    <3>9. \A i \in Intents : \A x \in offers'[i] : x \in offers[i] \/ (i = cur[w] /\ x = o)
      BY <2>1, <3>2 DEF TypeOK
    <3>10. Chain'
      BY <2>1, <3>7, <3>8, <3>9 DEF Chain, Offered, paid
    <3>11. EvidenceBeforeMoney'
      BY <2>1, <3>8 DEF EvidenceBeforeMoney, paid
    <3> QED  BY <3>10, <3>11
  <2> QED  BY <2>2, <2>3
<1>16. ASSUME NEW w \in Workers, FinishStepUp(w)
      PROVE  Chain' /\ EvidenceBeforeMoney'
  <2>1. UNCHANGED <<offers, consents, payments>>
    BY <1>16 DEF FinishStepUp, durable, ledger
  <2> QED  BY <2>1, MoneyStays
<1>17. ASSUME NEW w \in Workers, Authorize(w)
      PROVE  Chain' /\ EvidenceBeforeMoney'
  <2> DEFINE y == [by |-> caller[w], action |-> it[w].action,
                   issued |-> it[w].issued, at |-> it[w].confirmed]
  <2>1. /\ cur[w] \in Intents /\ opened' = opened /\ UNCHANGED <<offers, payments>>
        /\ consents' = [consents EXCEPT ![cur[w]] = @ \cup {y}]
    BY <1>17, InCall DEF Authorize, At
  <2>2. /\ caller[w] = opened[cur[w]]
        /\ Timely(it[w].issued, it[w].confirmed)
        /\ Offered(cur[w], it[w].action, it[w].issued)
    BY <1>17 DEF Authorize, At, Stages, Stage
  <2>3. y.by = opened[cur[w]] /\ Timely(y.issued, y.at) /\ Offered(cur[w], y.action, y.issued)
    BY <2>2
  <2> HIDE DEF y
  <2>4. \A i \in Intents : /\ consents[i] \subseteq consents'[i]
                          /\ logged[i] \subseteq logged'[i]
                          /\ hops[i] \subseteq hops'[i]
    BY DEF Monotone
  <2>5. \A i \in Intents : \A x \in consents'[i] : x \in consents[i] \/ (i = cur[w] /\ x = y)
    BY <2>1 DEF TypeOK
  <2>6. \A i \in Intents : actions_of(consents[i]) \subseteq actions_of(consents'[i])
    BY <2>4 DEF actions_of
  <2>7. Chain'
    BY <2>1, <2>3, <2>4, <2>5, <2>6 DEF Chain, Offered, paid
  <2>8. EvidenceBeforeMoney'
    BY <2>1, <2>4 DEF EvidenceBeforeMoney, paid
  <2> QED  BY <2>7, <2>8
<1>18. ASSUME NEW w \in Workers, Submit(w)
      PROVE  Chain' /\ EvidenceBeforeMoney'
  <2>1. UNCHANGED <<offers, consents, payments>>
    BY <1>18 DEF Submit, durable, ledger
  <2> QED  BY <2>1, MoneyStays
<1>19. ASSUME NEW w \in Workers, Debit(w)
      PROVE  Chain' /\ EvidenceBeforeMoney'
  <2>1. UNCHANGED <<offers, consents, payments>>
    BY <1>19 DEF Debit, durable, ledger
  <2> QED  BY <2>1, MoneyStays
<1>20. ASSUME NEW w \in Workers, Pay(w)
      PROVE  Chain' /\ EvidenceBeforeMoney'
  <2> DEFINE r == [action |-> it[w].action, payer |-> w]
  <2>1. /\ cur[w] \in Intents /\ UNCHANGED <<opened, offers, consents, logged, hops>>
        /\ payments' = [payments EXCEPT ![cur[w]] = IF @ = None THEN r ELSE @]
    BY <1>20, InCall DEF Pay, At, ledger
  <2>2. /\ it[w].action \in actions_of(consents[cur[w]])
        /\ {"confirmation", "authorization", "execution_request"} \subseteq logged[cur[w]]
        /\ <<"AUTHORIZED", "submit", "SUBMITTED">> \in hops[cur[w]]
    BY <1>20 DEF Pay, At, Stages, Stage
  <2>3. r.action \in actions_of(consents[cur[w]])
    BY <2>2
  <2> HIDE DEF r
  <2>4. \A i \in Intents : payments'[i] = payments[i] \/ (i = cur[w] /\ payments'[i] = r)
    BY <2>1 DEF TypeOK
  <2>5. Chain'
    BY <2>1, <2>3, <2>4 DEF Chain, Offered, paid
  <2>6. EvidenceBeforeMoney'
    BY <2>1, <2>2, <2>4 DEF EvidenceBeforeMoney, paid
  <2> QED  BY <2>5, <2>6
<1>21. ASSUME NEW w \in Workers, Complete(w)
      PROVE  Chain' /\ EvidenceBeforeMoney'
  <2>1. UNCHANGED <<offers, consents, payments>>
    BY <1>21 DEF Complete, durable, ledger
  <2> QED  BY <2>1, MoneyStays
<1>22. ASSUME NEW w \in Workers, TimeOut(w)
      PROVE  Chain' /\ EvidenceBeforeMoney'
  <2>1. UNCHANGED <<offers, consents, payments>>
    BY <1>22 DEF TimeOut, durable, ledger
  <2> QED  BY <2>1, MoneyStays
<1>23. ASSUME NEW w \in Workers, Fail(w)
      PROVE  Chain' /\ EvidenceBeforeMoney'
  <2>1. UNCHANGED <<offers, consents, payments>>
    BY <1>23 DEF Fail, durable, ledger
  <2> QED  BY <2>1, MoneyStays
<1>24. ASSUME NEW w \in Workers, AskBank(w)
      PROVE  Chain' /\ EvidenceBeforeMoney'
  <2>1. UNCHANGED <<offers, consents, payments>>
    BY <1>24 DEF AskBank, durable, ledger
  <2> QED  BY <2>1, MoneyStays
<1>25. ASSUME NEW w \in Workers, SweepOne(w)
      PROVE  Chain' /\ EvidenceBeforeMoney'
  <2>1. UNCHANGED <<offers, consents, payments>>
    BY <1>25 DEF SweepOne, durable, ledger
  <2> QED  BY <2>1, MoneyStays
<1>26. ASSUME NEW w \in Workers, SweepReason(w)
      PROVE  Chain' /\ EvidenceBeforeMoney'
  <2>1. UNCHANGED <<offers, consents, payments>>
    BY <1>26 DEF SweepReason, durable, ledger
  <2> QED  BY <2>1, MoneyStays
<1>27. ASSUME NEW w \in Workers, Serve(w)
      PROVE  Chain' /\ EvidenceBeforeMoney'
  <2>1. UNCHANGED <<offers, consents, payments>>
    BY <1>27 DEF Serve, durable, ledger
  <2> QED  BY <2>1, MoneyStays
<1>28. ASSUME NEW w \in Workers, Boot(w)
      PROVE  Chain' /\ EvidenceBeforeMoney'
  <2>1. UNCHANGED <<offers, consents, payments>>
    BY <1>28 DEF Boot, durable, ledger
  <2> QED  BY <2>1, MoneyStays
<1>29. ASSUME NEW p \in Processes, Crash(p)
      PROVE  Chain' /\ EvidenceBeforeMoney'
  <2>1. UNCHANGED <<offers, consents, payments>>
    BY <1>29 DEF Crash, durable, ledger
  <2> QED  BY <2>1, MoneyStays
<1>30. ASSUME NEW p \in Processes, Invoke(p)
      PROVE  Chain' /\ EvidenceBeforeMoney'
  <2>1. UNCHANGED <<offers, consents, payments>>
    BY <1>30 DEF Invoke, durable, ledger
  <2> QED  BY <2>1, MoneyStays
<1>31. ASSUME NEW i \in Intents, NEW a \in Action, Tamper(i, a)
      PROVE  Chain' /\ EvidenceBeforeMoney'
  <2>1. UNCHANGED <<offers, consents, payments>>
    BY <1>31 DEF Tamper, durable, ledger
  <2> QED  BY <2>1, MoneyStays
<1>32. CASE Tick
  <2>1. UNCHANGED <<offers, consents, payments>>
    BY <1>32 DEF Tick, durable, ledger
  <2> QED  BY <2>1, MoneyStays
<1> QED
  BY <1>1, <1>2, <1>3, <1>4, <1>5, <1>6, <1>7, <1>8, <1>9, <1>10, <1>11, <1>12, <1>13,
     <1>14, <1>15, <1>16, <1>17, <1>18, <1>19, <1>20, <1>21, <1>22, <1>23, <1>24, <1>25,
     <1>26, <1>27, <1>28, <1>29, <1>30, <1>31, <1>32
     DEF Next,
     Call, Step, Environment
==============================================================================
