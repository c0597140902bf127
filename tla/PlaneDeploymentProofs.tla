----------------------- MODULE PlaneDeploymentProofs -----------------------
(***************************************************************************)
(* What holds of the plane because of how it is deployed.                  *)
(*                                                                         *)
(* OneServerKey.  Where the servers digest with one key, whatever the      *)
(* operator's process digests with, a digest mismatch has a cause: the     *)
(* action was rewritten, or a token was issued under the operator's own    *)
(* key.  No restart, no other server, no sweep and no stale copy that is   *)
(* saved over a row spoils a confirmation.                                 *)
(*                                                                         *)
(* OneOfEach.  Where one server runs one call at a time and one operator   *)
(* works beside it, the store agrees with the bank's book, the boot sweep  *)
(* leaves nothing unanswered and nothing is paid after it timed out.       *)
(*                                                                         *)
(* OneWorker.  Without the operator every change of a saved state is also  *)
(* a hop the ledger already holds.                                         *)
(***************************************************************************)
EXTENDS PlaneTheorems, PlaneClaims

\* The servers of a deployment have one key: its settings, or its secret manager's.
OneServerKey == \A p, q \in Servers : SecretOf[p] = SecretOf[q]

\* The intents whose tokens may fail the check.
Excused ==
  {i \in Intents : i \in rewritten \/ (TwoKeys /\ "step_up" \in logged[i])}

\* A row with a token has the seal of its own action, as every server makes it.
Sealed(row) ==
  row.issued # Never => \A p \in Servers : row.digest = action_digest(p, row.action)

\* So has every copy, saved or held, of an intent that is not excused.
SealInv ==
  /\ \A i \in Intents \ Excused : store[i] # None => Sealed(store[i])
  /\ \A w \in Workers : it[w] # None /\ cur[w] \notin Excused => Sealed(it[w])
  /\ \A w \in Workers : \A s \in stranded[w] : s[1] \notin Excused => Sealed(s[2])
  /\ MismatchHasACause

\* Off the servers a verdict is only asked after a step-up, and the ledger has it.
OperatorInv ==
  \A w \in Workers : ~OnServer(w) =>
    /\ pc[w] # "proposed"
    /\ pc[w] = "decide" => "step_up" \in logged[cur[w]]

-----------------------------------------------------------------------------
NoMismatch ==
  \A i \in Intents : "digest_mismatch" \in logged'[i] => "digest_mismatch" \in logged[i]

\* A ledger row of another kind is no mismatch.
LEMMA LogsNoMismatch ==
  ASSUME TypeOK, NEW i, NEW kinds, Log(i, kinds), "digest_mismatch" \notin kinds
  PROVE  NoMismatch
BY DEF TypeOK, Log, NoMismatch

\* An excuse lasts.
LEMMA StillExcused ==
  ASSUME Monotone, rewritten \subseteq rewritten'
  PROVE  Excused \subseteq Excused'
BY DEF Monotone, Excused

LEMMA StillCaused ==
  ASSUME MismatchHasACause, NoMismatch, Excused \subseteq Excused'
  PROVE  MismatchHasACause'
<1>1. ASSUME NEW i \in Intents, "digest_mismatch" \in logged'[i]
      PROVE  i \in rewritten' \/ (TwoKeys /\ "step_up" \in logged'[i])
  <2>1. i \in Excused
    BY <1>1 DEF MismatchHasACause, NoMismatch, Excused
  <2>. QED
    BY <2>1 DEF Excused
<1>. QED
  BY <1>1 DEF MismatchHasACause, TwoKeys

\* The seal depends on three fields of a row.
LEMMA SameSeal ==
  ASSUME NEW row, NEW new, Sealed(row), new.issued = row.issued, new.digest = row.digest,
         new.action = row.action
  PROVE  Sealed(new)
BY DEF Sealed

\* A step that changes nothing but the ledger, the bank or the clock.
LEMMA CopiesAlone ==
  ASSUME SealInv, NoMismatch, Excused \subseteq Excused', UNCHANGED <<store, it, cur, stranded>>
  PROVE  SealInv'
BY StillCaused DEF SealInv

\* A step that changes the copy of one worker only, to a sealed one.
LEMMA OneSealed ==
  ASSUME SealInv, NoMismatch, Excused \subseteq Excused', UNCHANGED <<store, stranded>>,
         NEW w \in Workers, \A v \in Workers \ {w} : it'[v] = it[v] /\ cur'[v] = cur[v],
         it'[w] # None /\ cur'[w] \notin Excused' => Sealed(it'[w])
  PROVE  SealInv'
<1>1. \A v \in Workers : it'[v] # None /\ cur'[v] \notin Excused' => Sealed(it'[v])
  BY DEF SealInv
<1>2. MismatchHasACause'
  BY StillCaused DEF SealInv
<1>. QED
  BY <1>1, <1>2 DEF SealInv

\* A worker that takes a saved row up, and keeps its seal.
LEMMA TakesRow ==
  ASSUME TypeOK, SealInv, NoMismatch, Excused \subseteq Excused',
         UNCHANGED <<store, stranded>>,
         NEW w \in Workers, NEW i \in Intents, store[i] # None, cur' = [cur EXCEPT ![w] = i],
         \A v \in Workers \ {w} : it'[v] = it[v],
         it'[w].issued = store[i].issued, it'[w].digest = store[i].digest,
         it'[w].action = store[i].action
  PROVE  SealInv'
<1>1. cur'[w] = i /\ \A v \in Workers \ {w} : cur'[v] = cur[v]
  BY DEF TypeOK
<1>2. i \notin Excused' => Sealed(it'[w])
  BY SameSeal DEF SealInv
<1>. QED
  BY <1>1, <1>2, OneSealed

\* A worker that goes on with the row it holds, and keeps its seal.
LEMMA KeepsRow ==
  ASSUME SealInv, NoMismatch, Excused \subseteq Excused',
         UNCHANGED <<store, stranded, cur>>,
         NEW w \in Workers, it[w] # None,
         \A v \in Workers \ {w} : it'[v] = it[v],
         it'[w].issued = it[w].issued, it'[w].digest = it[w].digest,
         it'[w].action = it[w].action
  PROVE  SealInv'
<1>1. cur[w] \notin Excused' => Sealed(it'[w])
  BY SameSeal DEF SealInv
<1>. QED
  BY <1>1, OneSealed

-----------------------------------------------------------------------------
\* Taking a request up.
LEMMA CallKeepsSeals ==
  ASSUME IInv, SealInv, OneServerKey, Excused \subseteq Excused', NEW w \in Workers, Call(w)
  PROVE  SealInv'
<1>. USE ConstantsAssumption
<1>0. TypeOK /\ Held
  BY DEF IInv
<1>1. PICK c \in Conversations, i \in Intents :
       \/ \E name \in Names : AskWhichContact(w, c, i, name)
       \/ \E name \in Names, amount \in Amounts : Propose(w, c, i, name, amount)
       \/ StepUp(w, c, i) \/ DuplicateConfirmation(w, c, i) \/ ConfirmExpired(w, c, i)
       \/ DigestMismatch(w, c, i) \/ Confirm(w, c, i) \/ Cancel(w, c, i)
       \/ CancelRefused(w, c, i) \/ Reconcile(w, c, i)
  BY DEF Call
<1>2. ASSUME NEW name \in Names, AskWhichContact(w, c, i, name) PROVE SealInv'
  <2>1. UNCHANGED <<store, it, cur, stranded>> /\ NoMismatch
    BY <1>0, <1>2, LogsNoMismatch DEF AskWhichContact, Request, local, world
  <2>. QED
    BY <2>1, CopiesAlone
<1>3. ASSUME NEW name \in Names, NEW amount \in Amounts, Propose(w, c, i, name, amount)
      PROVE  SealInv'
  <2>1. PICK recipient \in Recipients :
            Mutate(w, new_intent(c, [recipient |-> recipient, amount |-> amount]))
    BY <1>3 DEF Propose
  <2>2. it'[w].issued = Never /\ \A v \in Workers \ {w} : it'[v] = it[v]
    BY <1>0, <2>1 DEF Mutate, new_intent, TypeOK
  <2>3. UNCHANGED <<store, stranded>> /\ NoMismatch
    BY <1>0, <1>3, LogsNoMismatch DEF Propose, Request, world
  <2>4. \A v \in Workers \ {w} : cur'[v] = cur[v]
    BY <1>0, <1>3 DEF Propose, Take, TypeOK
  <2>5. Sealed(it'[w])
    BY <2>2 DEF Sealed
  <2>. QED
    BY <2>2, <2>3, <2>4, <2>5, OneSealed
<1>4. CASE DuplicateConfirmation(w, c, i) \/ CancelRefused(w, c, i)
  <2>1. UNCHANGED <<store, it, cur, stranded>> /\ NoMismatch
    BY <1>0, <1>4, LogsNoMismatch DEF DuplicateConfirmation, CancelRefused, local, world
  <2>. QED
    BY <2>1, CopiesAlone
<1>5. CASE DigestMismatch(w, c, i)
  <2>1. UNCHANGED <<store, it, cur, stranded>> /\ store[i] # None
          /\ store[i].issued # Never /\ ~digest_matches(ProcessOf[w], store[i])
    BY <1>5 DEF DigestMismatch, confirmable, by_confirmation, local, world
  <2>2. i \in Excused
    <3>1. SUFFICES ASSUME i \notin Excused PROVE FALSE
      OBVIOUS
    <3>2. ProcessOf[w] \in Servers
      BY <1>5 DEF DigestMismatch, OnServer
    <3>. QED
      BY <2>1, <3>1, <3>2 DEF SealInv, Sealed, digest_matches
  <2>3. \A j \in Intents : "digest_mismatch" \in logged'[j] =>
          "digest_mismatch" \in logged[j] \/ j = i
    BY <1>0, <1>5 DEF DigestMismatch, Log, TypeOK
  <2>4. \A j \in Intents : "digest_mismatch" \in logged'[j] => j \in Excused'
    BY <2>2, <2>3 DEF SealInv, MismatchHasACause, Excused
  <2>5. MismatchHasACause'
    BY <2>4 DEF MismatchHasACause, Excused, TwoKeys
  <2>. QED
    BY <2>1, <2>5 DEF SealInv
<1>6. CASE StepUp(w, c, i) \/ Confirm(w, c, i) \/ Reconcile(w, c, i)
  <2>1. store[i] # None /\ store[i] \in Intent /\ cur' = [cur EXCEPT ![w] = i]
          /\ UNCHANGED <<store, stranded, logged>>
    BY <1>0, <1>6 DEF StepUp, Confirm, Reconcile, confirmable, by_confirmation,
       owned_by_customer, Take, durable, world, TypeOK
  <2>2. \/ it' = [it EXCEPT ![w] = [store[i] EXCEPT !.assurance = "strong"]]
        \/ it' = [it EXCEPT ![w] = [store[i] EXCEPT !.confirmed = clock]]
        \/ it' = [it EXCEPT ![w] = store[i]]
    BY <1>6 DEF StepUp, Confirm, Reconcile, Mutate
  <2>3. /\ it'[w].issued = store[i].issued /\ it'[w].digest = store[i].digest
        /\ it'[w].action = store[i].action
        /\ \A v \in Workers \ {w} : it'[v] = it[v]
    BY <1>0, <2>1, <2>2 DEF Intent, TypeOK
  <2>. QED
    BY <1>0, <2>1, <2>3, TakesRow DEF NoMismatch
<1>7. CASE ConfirmExpired(w, c, i) \/ Cancel(w, c, i)
  <2>1. store[i] # None /\ store[i] \in Intent /\ cur' = [cur EXCEPT ![w] = i]
          /\ UNCHANGED <<store, stranded>> /\ Move(w, i, store[i], "cancel")
    BY <1>0, <1>7 DEF ConfirmExpired, Cancel, confirmable, by_confirmation, Take, world,
       TypeOK
  <2>2. NoMismatch
    BY <1>0, <1>7, LogsNoMismatch DEF ConfirmExpired, Cancel, NoMismatch
  <2>3. /\ it'[w].issued = store[i].issued /\ it'[w].digest = store[i].digest
        /\ it'[w].action = store[i].action
        /\ \A v \in Workers \ {w} : it'[v] = it[v]
    BY <1>0, <2>1, MoveType
  <2>. QED
    BY <1>0, <2>1, <2>2, <2>3, TakesRow
<1>. QED
  BY <1>1, <1>2, <1>3, <1>4, <1>5, <1>6, <1>7

\* Going on with a call, or a boot.
LEMMA StepKeepsSeals ==
  ASSUME IInv, SealInv, OperatorInv, OneServerKey, Excused \subseteq Excused',
         NEW w \in Workers, Step(w)
  PROVE  SealInv'
<1>. USE ConstantsAssumption
<1>0. TypeOK /\ Held
  BY DEF IInv
<1>1. CASE Put(w)
  <2>1. /\ store' = [store EXCEPT ![cur[w]] = it[w]] /\ it[w] # None
        /\ UNCHANGED <<it, cur, stranded, logged>>
    BY <1>0, <1>1 DEF Put, Held, ledger, world
  <2>2. \A j \in Intents : store'[j] = store[j] \/ (j = cur[w] /\ store'[j] = it[w])
    BY <1>0, <2>1 DEF TypeOK
  <2>3. \A j \in Intents \ Excused' : store'[j] # None => Sealed(store'[j])
    BY <2>1, <2>2 DEF SealInv
  <2>4. MismatchHasACause'
    BY <2>1, StillCaused DEF SealInv, NoMismatch
  <2>. QED
    BY <2>1, <2>3, <2>4 DEF SealInv
<1>2. CASE SetReason(w) \/ SweepReason(w)
  <2>1. it[w] # None /\ it[w] \in Intent
    BY <1>0, <1>2, InCall DEF SetReason, SweepReason, At
  <2>2. /\ it' = [it EXCEPT ![w] = [it[w] EXCEPT !.reason = TRUE]]
        /\ UNCHANGED <<store, stranded, rewritten, cur, logged>>
    BY <1>2 DEF SetReason, SweepReason, Mutate, durable, world
  <2>3. /\ it'[w].issued = it[w].issued /\ it'[w].digest = it[w].digest
        /\ it'[w].action = it[w].action
        /\ \A v \in Workers \ {w} : it'[v] = it[v]
    BY <1>0, <2>1, <2>2 DEF Intent, TypeOK
  <2>. QED
    BY <2>1, <2>2, <2>3, KeepsRow DEF NoMismatch
<1>3. CASE Return(w) \/ Serve(w)
  <2>1. /\ it' = [it EXCEPT ![w] = None] /\ cur' = [cur EXCEPT ![w] = None]
        /\ UNCHANGED <<store, stranded, logged>>
    BY <1>3 DEF Return, Serve, durable, world
  <2>2. it'[w] = None /\ \A v \in Workers \ {w} : it'[v] = it[v] /\ cur'[v] = cur[v]
    BY <1>0, <2>1 DEF TypeOK
  <2>. QED
    BY <2>1, <2>2, OneSealed DEF NoMismatch
<1>4. CASE \/ CheckPreconditions(w) \/ FinishStepUp(w) \/ Authorize(w) \/ Submit(w)
           \/ TimeOut(w) \/ Fail(w) \/ (Decide(w) /\ ~IssueConfirmation(w))
           \/ (AskBank(w) /\ payments[cur[w]] = None)
  <2>1. it[w] # None /\ it[w] \in Intent /\ cur[w] \in Intents
    BY <1>0, <1>4, InCall DEF CheckPreconditions, FinishStepUp, Authorize, Submit, TimeOut,
       Fail, Decide, AskBank, At
  <2>2. \E e : Move(w, cur[w], it[w], e)
    BY <1>4 DEF CheckPreconditions, FinishStepUp, Authorize, Submit, TimeOut, Fail, Decide,
       Reject, RequireStepUp, AskBank
  <2>3. /\ it'[w].issued = it[w].issued /\ it'[w].digest = it[w].digest
        /\ it'[w].action = it[w].action
        /\ \A v \in Workers \ {w} : it'[v] = it[v]
    BY <1>0, <2>1, <2>2, MoveType
  <2>4. UNCHANGED <<store, stranded, cur>>
    BY <1>4 DEF CheckPreconditions, FinishStepUp, Authorize, Submit, TimeOut, Fail, Decide,
       AskBank, world
  <2>5. NoMismatch
    BY <1>0, <1>4, LogsNoMismatch DEF CheckPreconditions, FinishStepUp, Authorize, Submit,
       TimeOut, Fail, Decide, AskBank
  <2>. QED
    BY <2>1, <2>3, <2>4, <2>5, KeepsRow
<1>5. CASE Decide(w) /\ IssueConfirmation(w)
  <2>. DEFINE d   == action_digest(ProcessOf[w], it[w].action)
              row == [it[w] EXCEPT !.issued = clock, !.digest = d]
  <2>1. it[w] # None /\ it[w] \in Intent /\ cur[w] \in Intents
    BY <1>0, <1>5, InCall DEF Decide, At
  <2>2. d \in Digest
    BY <2>1, DigestType DEF Intent
  <2>3. row \in Intent
    BY <1>0, <2>1, <2>2, IntentUpdate DEF TypeOK
  <2>4. row.digest = d /\ row.action = it[w].action
    BY <2>1 DEF Intent
  <2>5. Move(w, cur[w], row, "await_confirmation")
    BY <1>5 DEF IssueConfirmation
  <2>6. cur[w] \notin Excused => Sealed(row)
    <3>1. ASSUME OnServer(w), NEW q \in Servers PROVE SecretOf[ProcessOf[w]] = SecretOf[q]
      BY <3>1 DEF OnServer, OneServerKey
    <3>2. ASSUME ~OnServer(w), cur[w] \notin Excused, NEW q \in Servers
          PROVE  SecretOf[ProcessOf[w]] = SecretOf[q]
      <4>1. "step_up" \in logged[cur[w]]
        BY <1>5, <3>2 DEF OperatorInv, Decide, At
      <4>2. ~TwoKeys
        BY <2>1, <3>2, <4>1 DEF Excused
      <4>. QED
        BY <3>2, <4>2, ConstantsAssumption DEF OnServer, TwoKeys
    <3>. QED
      BY <2>4, <3>1, <3>2 DEF Sealed, action_digest
  <2>. HIDE DEF row, d
  <2>7. (cur[w] \notin Excused => Sealed(it'[w])) /\ \A v \in Workers \ {w} : it'[v] = it[v]
    BY <1>0, <2>1, <2>3, <2>5, <2>6, MoveType, SameSeal
  <2>8. UNCHANGED <<store, stranded, cur>> /\ NoMismatch
    BY <1>0, <1>5, LogsNoMismatch DEF Decide, world
  <2>. QED
    BY <2>7, <2>8, OneSealed
<1>6. CASE Debit(w) \/ Pay(w)
  <2>1. UNCHANGED <<store, it, cur, stranded>> /\ NoMismatch
    BY <1>0, <1>6, LogsNoMismatch DEF Debit, Pay, ledger, world, NoMismatch
  <2>. QED
    BY <2>1, CopiesAlone
<1>7. CASE Complete(w) \/ (AskBank(w) /\ payments[cur[w]] # None)
  <2>. DEFINE row == [it[w] EXCEPT !.receipt = payments[cur[w]]]
  <2>1. it[w] # None /\ it[w] \in Intent /\ cur[w] \in Intents
    BY <1>0, <1>7, InCall DEF Complete, AskBank, At
  <2>2. payments[cur[w]] \in Receipt \cup {None}
    BY <1>0, <2>1 DEF TypeOK
  <2>3. /\ row \in Intent
        /\ row.issued = it[w].issued /\ row.digest = it[w].digest /\ row.action = it[w].action
    BY <2>1, <2>2, IntentUpdate DEF Intent
  <2>4. Move(w, cur[w], row, "complete")
    BY <1>7 DEF Complete, AskBank
  <2>. HIDE DEF row
  <2>5. /\ it'[w].issued = it[w].issued /\ it'[w].digest = it[w].digest
        /\ it'[w].action = it[w].action
        /\ \A v \in Workers \ {w} : it'[v] = it[v]
    BY <1>0, <2>1, <2>3, <2>4, MoveType
  <2>6. UNCHANGED <<store, stranded, cur>> /\ NoMismatch
    BY <1>0, <1>7, LogsNoMismatch DEF Complete, AskBank, world
  <2>. QED
    BY <2>1, <2>5, <2>6, KeepsRow
<1>8. CASE SweepOne(w)
  <2>1. PICK s \in stranded[w] :
            /\ cur' = [cur EXCEPT ![w] = s[1]]
            /\ Log(s[1], {"restart_sweep"})
            /\ Move(w, s[1], s[2], "timeout")
            /\ stranded' = [stranded EXCEPT ![w] = @ \ {s}]
    BY <1>8 DEF SweepOne
  <2>2. s[1] \in Intents /\ s[2] \in Intent /\ (s[1] \notin Excused => Sealed(s[2]))
    BY <1>0, <2>1 DEF TypeOK, SealInv
  <2>3. /\ \A v \in Workers \ {w} : it'[v] = it[v] /\ cur'[v] = cur[v]
        /\ cur'[w] = s[1]
        /\ s[1] \notin Excused => Sealed(it'[w])
    <3>1. \A v \in Workers \ {w} : it'[v] = it[v]
      BY <1>0, <2>1, <2>2, MoveType
    <3>2. /\ it'[w].issued = s[2].issued /\ it'[w].digest = s[2].digest
          /\ it'[w].action = s[2].action
      BY <1>0, <2>1, <2>2, MoveType
    <3>3. cur'[w] = s[1] /\ \A v \in Workers \ {w} : cur'[v] = cur[v]
      BY <1>0, <2>1 DEF TypeOK
    <3>. QED
      BY <2>2, <3>1, <3>2, <3>3, SameSeal
  <2>4. /\ UNCHANGED <<store>> /\ NoMismatch
        /\ \A v \in Workers : stranded'[v] \subseteq stranded[v]
    BY <1>0, <1>8, <2>1, LogsNoMismatch DEF SweepOne, world, TypeOK
  <2>5. \A v \in Workers : it'[v] # None /\ cur'[v] \notin Excused' => Sealed(it'[v])
    BY <2>3 DEF SealInv
  <2>6. MismatchHasACause'
    BY <2>4, StillCaused DEF SealInv
  <2>. QED
    BY <2>4, <2>5, <2>6 DEF SealInv
<1>. QED
  BY <1>1, <1>2, <1>3, <1>4, <1>5, <1>6, <1>7, <1>8 DEF Step

\* A boot takes copies of saved rows.
LEMMA BootKeepsSeals ==
  ASSUME IInv, SealInv, Excused \subseteq Excused', NEW w \in Workers, Boot(w)
  PROVE  SealInv'
<1>. DEFINE S == {<<i, store[i]>> : i \in {j \in Intents : store[j] # None
                                              /\ store[j].state = "SUBMITTED"}}
<1>1. stranded' = [stranded EXCEPT ![w] = S] /\ UNCHANGED <<store, cur, it, logged>>
  BY DEF Boot, durable, world
<1>2. \A s \in S : s[1] \notin Excused => Sealed(s[2])
  BY DEF SealInv
<1>. HIDE DEF S
<1>3. \A v \in Workers : stranded'[v] = stranded[v] \/ stranded'[v] = S
  BY <1>1 DEF IInv, TypeOK
<1>4. MismatchHasACause'
  BY <1>1, StillCaused DEF SealInv, NoMismatch
<1>. QED
  BY <1>1, <1>2, <1>3, <1>4 DEF SealInv

\* Deaths lose copies, and what rewrites an action is known to have.
LEMMA WorldKeepsSeals ==
  ASSUME IInv, SealInv, Excused \subseteq Excused', Environment
  PROVE  SealInv'
<1>0. TypeOK
  BY DEF IInv
<1>1. MismatchHasACause'
  <2>1. UNCHANGED logged
    BY DEF Environment, Crash, Invoke, Tick, Tamper, durable, ledger
  <2>. QED
    BY <2>1, StillCaused DEF SealInv, NoMismatch
<1>2. ASSUME NEW p \in Processes, Crash(p) PROVE SealInv'
  <2>1. /\ UNCHANGED store
        /\ \A w \in Workers : stranded'[w] = {} \/ stranded'[w] = stranded[w]
        /\ \A w \in Workers : it'[w] = None \/ (it'[w] = it[w] /\ cur'[w] = cur[w])
    BY <1>2 DEF Crash, durable
  <2>. QED
    BY <1>1, <2>1 DEF SealInv
<1>3. ASSUME Tick \/ \E p \in Processes : Invoke(p) PROVE SealInv'
  <2>1. UNCHANGED <<store, it, cur, stranded>>
    BY <1>3 DEF Invoke, Tick, durable, local
  <2>. QED
    BY <1>1, <2>1 DEF SealInv
<1>4. ASSUME NEW i \in Intents, NEW a \in Action, Tamper(i, a) PROVE SealInv'
  <2>1. /\ \A j \in Intents \ {i} : store'[j] = store[j]
        /\ i \in Excused'
        /\ UNCHANGED <<it, cur, stranded>>
    BY <1>0, <1>4 DEF Tamper, local, TypeOK, Excused
  <2>. QED
    BY <1>1, <2>1 DEF SealInv
<1>. QED
  BY <1>2, <1>3, <1>4 DEF Environment

-----------------------------------------------------------------------------
(* What the operator's worker knows when it asks for a verdict.            *)

LEMMA OperatorOthers ==
  ASSUME IInv, OperatorInv, Monotone, NEW w \in Workers,
         pc'[w] = pc[w], cur'[w] = cur[w], ~OnServer(w)
  PROVE  /\ pc'[w] # "proposed"
         /\ pc'[w] = "decide" => "step_up" \in logged'[cur'[w]]
<1>1. pc[w] = "decide" => cur[w] \in Intents
  BY InCall DEF IInv
<1>. QED
  BY <1>1 DEF OperatorInv, Monotone

LEMMA OperatorStep ==
  ASSUME IInv, OperatorInv, Monotone, Next
  PROVE  OperatorInv'
<1>0. TypeOK
  BY DEF IInv
<1>. SUFFICES ASSUME NEW w \in Workers, ~OnServer(w)
              PROVE  /\ pc'[w] # "proposed"
                     /\ pc'[w] = "decide" => "step_up" \in logged'[cur'[w]]
  BY DEF OperatorInv, OnServer
<1>1. CASE pc'[w] = pc[w] /\ cur'[w] = cur[w]
  BY <1>1, OperatorOthers
<1>2. CASE pc'[w] \notin {"proposed", "decide"}
  BY <1>2
<1>3. ASSUME NEW v \in Workers, FinishStepUp(v)
      PROVE  (pc'[w] = pc[w] /\ cur'[w] = cur[w])
               \/ (pc'[w] = "decide" /\ "step_up" \in logged'[cur'[w]])
  <2>1. cur[v] \in Intents
    BY <1>0, <1>3, InCall DEF FinishStepUp, At, IInv
  <2>. QED
    BY <1>0, <1>3, <2>1 DEF FinishStepUp, Goto, Log, TypeOK
<1>4. ASSUME NEW v \in Workers, Call(v)
      PROVE  (pc'[w] = pc[w] /\ cur'[w] = cur[w]) \/ pc'[w] \notin {"proposed", "decide"}
  <2>1. CASE UNCHANGED local
    BY <2>1 DEF local
  <2>2. ASSUME NEW c \in Conversations, NEW i \in Intents, NEW at,
               Take(v, c, i), Goto(v, at), v = w => at \notin {"proposed", "decide"}
        PROVE  (pc'[w] = pc[w] /\ cur'[w] = cur[w]) \/ pc'[w] \notin {"proposed", "decide"}
    BY <1>0, <2>2 DEF Take, Goto, TypeOK
  <2>. QED
    BY <1>4, <2>1, <2>2 DEF Call, AskWhichContact, Propose, StepUp, DuplicateConfirmation,
       ConfirmExpired, DigestMismatch, Confirm, Cancel, CancelRefused, Reconcile
<1>5. ASSUME NEW v \in Workers, Step(v), ~FinishStepUp(v)
      PROVE  (pc'[w] = pc[w] /\ cur'[w] = cur[w]) \/ pc'[w] \notin {"proposed", "decide"}
  <2>1. CASE CheckPreconditions(v)
    BY <1>0, <2>1 DEF CheckPreconditions, At, Goto, TypeOK, OperatorInv
  <2>2. CASE Put(v) \/ SetReason(v) \/ Decide(v) \/ Authorize(v) \/ Submit(v) \/ Debit(v) \/ Pay(v)
    BY <1>0, <2>2 DEF Put, SetReason, Decide, Reject, RequireStepUp, IssueConfirmation,
       Authorize, Submit, Debit, Pay, Goto, TypeOK
  <2>3. CASE \/ Complete(v) \/ TimeOut(v) \/ Fail(v) \/ AskBank(v) \/ SweepReason(v)
             \/ SweepOne(v) \/ Return(v) \/ Serve(v)
    BY <1>0, <2>3 DEF Complete, TimeOut, Fail, AskBank, SweepReason, SweepOne, Return,
       Serve, Goto, TypeOK
  <2>. QED
    BY <1>5, <2>1, <2>2, <2>3 DEF Step
<1>6. ASSUME Environment \/ \E v \in Workers : Boot(v)
      PROVE  (pc'[w] = pc[w] /\ cur'[w] = cur[w]) \/ pc'[w] \notin {"proposed", "decide"}
  <2>1. ASSUME NEW p \in Processes, Crash(p)
        PROVE  (pc'[w] = pc[w] /\ cur'[w] = cur[w]) \/ pc'[w] = "idle"
    BY <2>1 DEF Crash
  <2>2. CASE \E v \in Workers : Boot(v)
    BY <1>0, <2>2 DEF Boot, Goto, TypeOK
  <2>3. CASE UNCHANGED local
    BY <2>3 DEF local
  <2>. QED
    BY <1>6, <2>1, <2>2, <2>3 DEF Environment, Invoke, Tick, Tamper
<1>. QED
  BY <1>1, <1>2, <1>3, <1>4, <1>5, <1>6 DEF Next

\* Nothing takes a rewriting back.
LEMMA OnlyAddsRewritten ==
  ASSUME Next
  PROVE  rewritten \subseteq rewritten'
<1>1. ASSUME NEW w \in Workers, Call(w) PROVE UNCHANGED rewritten
  BY <1>1 DEF Call, world, AskWhichContact, Propose, StepUp, DuplicateConfirmation,
     ConfirmExpired, DigestMismatch, Confirm, Cancel, CancelRefused, Reconcile
<1>2. ASSUME NEW w \in Workers, Step(w) PROVE UNCHANGED rewritten
  BY <1>2 DEF Step, world, Put, SetReason, Return, CheckPreconditions, Decide, FinishStepUp,
     Authorize, Submit, Debit, Pay, Complete, TimeOut, Fail, AskBank, SweepOne, SweepReason,
     Serve
<1>. QED
  BY <1>1, <1>2 DEF Next, Boot, Environment, Crash, Invoke, Tick, Tamper, world

-----------------------------------------------------------------------------
\* Of servers with one key, and an operator with the same or another: a digest mismatch is
\* raised only for an action something did rewrite, or for a token issued on a step-up under
\* another key than the servers' (plane.confirm, action_digest).
THEOREM Unspoiled ==
  ASSUME OneServerKey
  PROVE  Spec => []MismatchHasACause
<1>1. Init => SealInv /\ OperatorInv
  BY DEF Init, SealInv, OperatorInv, MismatchHasACause
<1>2. IInv /\ SealInv /\ OperatorInv /\ [Next]_vars => SealInv' /\ OperatorInv'
  <2>. SUFFICES ASSUME IInv, SealInv, OperatorInv, [Next]_vars PROVE SealInv' /\ OperatorInv'
    OBVIOUS
  <2>1. CASE UNCHANGED vars
    <3>1. UNCHANGED <<store, logged, rewritten, pc, cur, it, stranded>>
      BY <2>1 DEF vars
    <3>. QED
      BY <3>1 DEF SealInv, OperatorInv, MismatchHasACause, TwoKeys, Excused, OnServer
  <2>2. ASSUME Next PROVE SealInv' /\ OperatorInv'
    <3>1. TypeOK /\ Held
      BY DEF IInv
    <3>2. Monotone
      BY <2>2, <3>1, Grows, ConstantsAssumption
    <3>3. rewritten \subseteq rewritten'
      BY <2>2, OnlyAddsRewritten
    <3>4. Excused \subseteq Excused'
      BY <3>2, <3>3, StillExcused
    <3>5. SealInv'
      BY <2>2, <3>4, CallKeepsSeals, StepKeepsSeals, BootKeepsSeals, WorldKeepsSeals DEF Next
    <3>6. OperatorInv'
      BY <2>2, <3>2, OperatorStep
    <3>. QED
      BY <3>5, <3>6
  <2>. QED
    BY <2>1, <2>2
<1>3. SealInv => MismatchHasACause
  BY DEF SealInv
<1>. QED
  BY <1>1, <1>2, <1>3, Inductive, PTL DEF Spec

-----------------------------------------------------------------------------
(* One server worker and one operator beside it.                           *)

OneOfEach == \A v, w \in Workers : (OnServer(v) <=> OnServer(w)) => v = w

\* The state of the saved row.
Saved(i) == IF store[i] = None THEN "none" ELSE store[i].state

LATE == {"UNKNOWN", "COMPLETED", "FAILED"}

\* w will put its object over the row.
Busy(w) == dirty[w] \/ pc[w] \notin {"idle", "sweep", "return"}
BusyOn(w, i) == Busy(w) /\ cur[w] = i

\* Where a call is says who runs it and what it holds.
Placed(w) ==
  LET at == pc[w]
      held == it[w].state IN
  /\ at = "idle" => ~dirty[w]
  /\ at \in {"debited", "paid", "timed_out", "refused", "reconcile"} => ~dirty[w]
  /\ at \notin {"sweep", "swept"} => stranded[w] = {}
  /\ at \in {"proposed", "confirmed", "authorized", "submitted", "debited", "paid",
             "timed_out", "refused", "sweep", "swept"} => OnServer(w)
  /\ at = "stepping_up" => ~OnServer(w)
  /\ at = "proposed" => held = "CREATED"
  /\ at = "decide" => held = "VALIDATED"
  /\ at = "stepping_up" => held = "AWAITING_STEP_UP"
  /\ at = "confirmed" => held = "AWAITING_CONFIRMATION"
  /\ at = "authorized" => held = "AUTHORIZED"
  /\ at \in {"submitted", "debited", "paid", "timed_out", "refused"} => held = "SUBMITTED"
  /\ at \in {"reconcile", "swept"} => held = "UNKNOWN"
  /\ at = "sweep" /\ dirty[w] => held = "UNKNOWN"
  /\ at = "reason" => held \in {"CANCELLED", "FAILED"}
  /\ at = "return" => held \in {"AWAITING_STEP_UP", "AWAITING_CONFIRMATION", "CANCELLED"}
                                 \cup LATE

Edge(from, to) == \E t \in TRANSITIONS : t[1] = from /\ t[3] = to

\* What the saved row can be while w is busy with it.
Behind(w) ==
  LET held == it[w].state
      saved == Saved(cur[w]) IN
  /\ IF held \in LATE
       THEN saved \in LATE \/ (saved = "SUBMITTED" /\ dirty[w])
       ELSE \/ saved = held
            \/ dirty[w] /\ saved = "none" /\ held = "CREATED"
            \/ dirty[w] /\ Edge(saved, held)
  /\ OnServer(w) => saved # "AWAITING_STEP_UP"
  /\ ~OnServer(w) => saved \in {"AWAITING_STEP_UP", "VALIDATED", "CANCELLED"} \cup LATE
  /\ held \in {"CREATED", "VALIDATED", "AWAITING_STEP_UP"} => it[w].issued = Never

\* What the book has while w is busy.
Knows(w) ==
  LET held == it[w].state IN
  /\ held = "COMPLETED" => paid(cur[w]) /\ it[w].receipt = payments[cur[w]]
  /\ held = "FAILED" => ~paid(cur[w])
  /\ pc[w] = "paid" => paid(cur[w])
  /\ pc[w] = "refused" => ~paid(cur[w])

Fits(w) == Placed(w) /\ (Busy(w) => Behind(w) /\ Knows(w))

\* Nobody else is busy with a row that is not settled late.
Lone ==
  \A i \in Intents : Saved(i) \notin LATE =>
    \A v, w \in Workers : BusyOn(v, i) /\ BusyOn(w, i) => v = w

Untouched(i) == \A v \in Workers : ~BusyOn(v, i)

Sweeping ==
  \A w \in Workers : \A s \in stranded[w] :
    /\ Saved(s[1]) = "SUBMITTED" /\ s[2].state = "SUBMITTED"
    /\ Untouched(s[1])
    /\ \A r \in stranded[w] : r[1] = s[1] => r = s

Book ==
  \A i \in Intents :
    /\ IF paid(i) THEN /\ Saved(i) \in {"SUBMITTED", "UNKNOWN", "COMPLETED"}
                       /\ Saved(i) = "COMPLETED" => store[i].receipt = payments[i]
                  ELSE Saved(i) # "COMPLETED"
    /\ Saved(i) = "AWAITING_STEP_UP" => store[i].issued = Never

Attends(w, i) ==
  /\ OnServer(w)
  /\ \/ BusyOn(w, i)
     \/ \E s \in stranded[w] : s[1] = i
     \/ pc[w] = "idle" /\ ~up[ProcessOf[w]]

Attended == \A i \in Intents : Saved(i) = "SUBMITTED" => \E w \in Workers : Attends(w, i)

TimedOut(i) == <<"SUBMITTED", "timeout", "UNKNOWN">> \in hops[i]

Unanswered ==
  \A i \in Intents : TimedOut(i) =>
    /\ Saved(i) \in {"SUBMITTED"} \cup LATE
    /\ \A w \in Workers : cur[w] = i => pc[w] \notin {"submitted", "debited"}

DeployInv ==
  (\A w \in Workers : Fits(w)) /\ Lone /\ Sweeping /\ Book /\ Attended /\ Unanswered

-----------------------------------------------------------------------------
(* The machine, and what a move does.                                      *)

LEMMA Machine ==
  \A from, e, to : <<from, e, to>> \in TRANSITIONS =>
    /\ e = "validate" => from = "CREATED" /\ to = "VALIDATED"
    /\ e = "reject" => from \in {"CREATED", "VALIDATED"} /\ to = "CANCELLED"
    /\ e = "require_step_up" => from = "VALIDATED" /\ to = "AWAITING_STEP_UP"
    /\ e = "await_confirmation" => from = "VALIDATED" /\ to = "AWAITING_CONFIRMATION"
    /\ e = "step_up" => from = "AWAITING_STEP_UP" /\ to = "VALIDATED"
    /\ e = "cancel" => from \in {"AWAITING_STEP_UP", "AWAITING_CONFIRMATION"} /\ to = "CANCELLED"
    /\ e = "confirm" => from = "AWAITING_CONFIRMATION" /\ to = "AUTHORIZED"
    /\ e = "submit" => from = "AUTHORIZED" /\ to = "SUBMITTED"
    /\ e = "complete" => from \in {"SUBMITTED", "PENDING", "UNKNOWN"} /\ to = "COMPLETED"
    /\ e = "fail" => from \in {"SUBMITTED", "PENDING", "UNKNOWN"} /\ to = "FAILED"
    /\ e = "timeout" => from = "SUBMITTED" /\ to = "UNKNOWN"
BY DEF TRANSITIONS

\* What comes before a state that is not late.
LEMMA Before ==
  \A from, to : Edge(from, to) =>
    /\ to # "CREATED"
    /\ to = "VALIDATED" => from \in {"CREATED", "AWAITING_STEP_UP"}
    /\ to = "AWAITING_STEP_UP" => from = "VALIDATED"
    /\ to = "AWAITING_CONFIRMATION" => from = "VALIDATED"
    /\ to = "CANCELLED" =>
         from \in {"CREATED", "VALIDATED", "AWAITING_STEP_UP", "AWAITING_CONFIRMATION"}
    /\ to = "AUTHORIZED" => from = "AWAITING_CONFIRMATION"
    /\ to = "SUBMITTED" => from = "AUTHORIZED"
BY DEF Edge, TRANSITIONS

LEMMA Moves ==
  ASSUME TypeOK, NEW w \in Workers, NEW i \in Intents, NEW row \in Intent, NEW e,
         Move(w, i, row, e)
  PROVE  /\ it'[w] \in Intent /\ it'[w].issued = row.issued /\ it'[w].receipt = row.receipt
         /\ dirty'[w] = TRUE
         /\ \A v \in Workers \ {w} : it'[v] = it[v] /\ dirty'[v] = dirty[v]
         /\ <<row.state, e, it'[w].state>> \in TRANSITIONS
         /\ \A j \in Intents : TimedOut(j)' => TimedOut(j) \/ (j = i /\ e = "timeout")
<1>1. PICK to \in State :
           /\ <<row.state, e, to>> \in TRANSITIONS
           /\ it' = [it EXCEPT ![w] = [row EXCEPT !.state = to]]
           /\ dirty' = [dirty EXCEPT ![w] = TRUE]
           /\ hops' = [hops EXCEPT ![i] = @ \cup {<<row.state, e, to>>}]
  BY DEF Move, Mutate
<1>2. it'[w] = [row EXCEPT !.state = to] /\ dirty'[w] = TRUE
      /\ \A v \in Workers \ {w} : it'[v] = it[v] /\ dirty'[v] = dirty[v]
  BY <1>1 DEF TypeOK
<1>3. it'[w].state = to /\ it'[w].issued = row.issued /\ it'[w].receipt = row.receipt
  BY <1>2 DEF Intent
<1>4. ASSUME NEW j \in Intents, TimedOut(j)' PROVE TimedOut(j) \/ (j = i /\ e = "timeout")
  <2>1. hops'[j] = hops[j] \/ (j = i /\ hops'[j] = hops[j] \cup {<<row.state, e, to>>})
    BY <1>1 DEF TypeOK
  <2>. QED
    BY <1>4, <2>1 DEF TimedOut
<1>. QED
  BY <1>1, <1>2, <1>3, <1>4, IntentUpdate

-----------------------------------------------------------------------------
(* Steps, by what they do to the rows and to the workers.                  *)

\* A step that leaves what the invariant reads as it was.
LEMMA Leaves ==
  ASSUME DeployInv,
         \A i \in Intents : Saved(i)' = Saved(i),
         \A i \in Intents : Saved(i) # "none" =>
            store'[i].issued = store[i].issued /\ store'[i].receipt = store[i].receipt,
         \A i \in Intents : TimedOut(i)' => TimedOut(i),
         \A w \in Workers : OnServer(w) => up'[ProcessOf[w]] = up[ProcessOf[w]],
         \A w \in Workers : Busy(w) => cur[w] \in Intents,
         \A w \in Workers : \A s \in stranded[w] : s[1] \in Intents,
         UNCHANGED <<payments, pc, cur, it, dirty, stranded>>
  PROVE  DeployInv'
<1>1. \A w \in Workers : Fits(w)'
  BY DEF DeployInv, Fits, Placed, Behind, Knows, Busy, OnServer, paid
<1>2. \A w \in Workers : \A i : BusyOn(w, i)' <=> BusyOn(w, i)
  BY DEF BusyOn, Busy
<1>3. Lone'
  BY <1>2 DEF DeployInv, Lone
<1>4. Sweeping'
  BY <1>2 DEF DeployInv, Sweeping, Untouched
<1>5. Book'
  BY DEF DeployInv, Book, paid
<1>6. Attended'
  BY <1>2 DEF DeployInv, Attended, Attends, OnServer
<1>7. Unanswered'
  BY DEF DeployInv, Unanswered
<1>. QED
  BY <1>1, <1>3, <1>4, <1>5, <1>6, <1>7 DEF DeployInv

\* A worker that goes on with a row, and changes nothing anybody else can see.
LEMMA GoesOn ==
  ASSUME DeployInv, NEW w \in Workers,
         UNCHANGED <<store, payments, cur, up, stranded>>,
         \A v \in Workers \ {w} : pc'[v] = pc[v] /\ it'[v] = it[v] /\ dirty'[v] = dirty[v],
         cur[w] \in Intents, Busy(w), Busy(w)', Fits(w)',
         \A i \in Intents :
            TimedOut(i)' => TimedOut(i) \/ (i = cur[w] /\ Saved(i) = "SUBMITTED"),
         pc'[w] \in {"submitted", "debited"} => ~TimedOut(cur[w])'
  PROVE  DeployInv'
<1>0. \A i : Saved(i)' = Saved(i)
  BY DEF Saved
<1>1. \A v \in Workers : Fits(v)'
  BY <1>0 DEF DeployInv, Fits, Placed, Behind, Knows, Busy, OnServer, paid
<1>2. \A v \in Workers : \A i : BusyOn(v, i)' <=> BusyOn(v, i)
  BY DEF BusyOn, Busy
<1>3. Lone'
  BY <1>0, <1>2 DEF DeployInv, Lone
<1>4. Sweeping'
  BY <1>0, <1>2 DEF DeployInv, Sweeping, Untouched
<1>5. Book'
  BY <1>0 DEF DeployInv, Book, paid
<1>6. Attended'
  <2>1. pc[w] # "idle"
    BY DEF DeployInv, Fits, Placed, Busy
  <2>. QED
    BY <1>0, <1>2, <2>1 DEF DeployInv, Attended, Attends, OnServer
<1>7. Unanswered'
  <2>. SUFFICES ASSUME NEW i \in Intents, TimedOut(i)'
                PROVE  /\ Saved(i) \in {"SUBMITTED"} \cup LATE
                       /\ \A v \in Workers : cur[v] = i => pc'[v] \notin {"submitted", "debited"}
    BY <1>0 DEF Unanswered
  <2>1. CASE TimedOut(i)
    BY <2>1 DEF DeployInv, Unanswered
  <2>2. CASE i = cur[w] /\ Saved(i) = "SUBMITTED"
    <3>1. \A v \in Workers \ {w} : ~BusyOn(v, i)
      BY <2>2 DEF DeployInv, Lone, BusyOn, LATE
    <3>. QED
      BY <2>2, <3>1 DEF BusyOn, Busy
  <2>. QED
    BY <2>1, <2>2
<1>. QED
  BY <1>1, <1>3, <1>4, <1>5, <1>6, <1>7 DEF DeployInv

\* A free worker that takes a row up, which nobody else is busy with unless it is late.
LEMMA TakesUp ==
  ASSUME DeployInv, NEW w \in Workers, NEW i \in Intents, Free(w),
         UNCHANGED <<store, payments, up, stranded>>,
         \A v \in Workers \ {w} :
            pc'[v] = pc[v] /\ it'[v] = it[v] /\ dirty'[v] = dirty[v] /\ cur'[v] = cur[v],
         cur'[w] = i, Fits(w)', pc'[w] \notin {"submitted", "debited", "idle"},
         \A j \in Intents : TimedOut(j)' => TimedOut(j),
         Saved(i) # "SUBMITTED", Saved(i) \notin LATE => Untouched(i)
  PROVE  DeployInv'
<1>0. \A j : Saved(j)' = Saved(j)
  BY DEF Saved
<1>1. \A v \in Workers : Fits(v)'
  BY <1>0 DEF DeployInv, Fits, Placed, Behind, Knows, Busy, OnServer, paid
<1>2. \A v \in Workers, j \in Intents : BusyOn(v, j)' => BusyOn(v, j) \/ (v = w /\ j = i)
  BY DEF BusyOn, Busy
<1>3. Lone'
  <2>. SUFFICES ASSUME NEW j \in Intents, Saved(j) \notin LATE,
                       NEW u \in Workers, NEW v \in Workers, BusyOn(u, j)', BusyOn(v, j)'
                PROVE  u = v
    BY <1>0 DEF Lone
  <2>1. CASE j = i
    BY <1>2, <2>1 DEF Untouched
  <2>2. CASE j # i
    BY <1>2, <2>2 DEF DeployInv, Lone
  <2>. QED
    BY <2>1, <2>2
<1>4. Sweeping'
  <2>. SUFFICES ASSUME NEW v \in Workers, NEW s \in stranded[v]
                PROVE  /\ Saved(s[1]) = "SUBMITTED" /\ s[2].state = "SUBMITTED"
                       /\ Untouched(s[1])'
                       /\ \A r \in stranded[v] : r[1] = s[1] => r = s
    BY <1>0 DEF Sweeping
  <2>1. Saved(s[1]) = "SUBMITTED" /\ s[2].state = "SUBMITTED" /\ Untouched(s[1])
        /\ \A r \in stranded[v] : r[1] = s[1] => r = s
    BY DEF DeployInv, Sweeping
  <2>. QED
    BY <2>1 DEF Untouched, BusyOn, Busy
<1>5. Book'
  BY <1>0 DEF DeployInv, Book, paid
<1>6. Attended'
  <2>. SUFFICES ASSUME NEW j \in Intents, Saved(j) = "SUBMITTED"
                PROVE  \E v \in Workers : Attends(v, j)'
    BY <1>0 DEF Attended
  <2>1. PICK v \in Workers : Attends(v, j)
    BY DEF DeployInv, Attended
  <2>2. v # w
    BY <2>1 DEF Attends, BusyOn, Busy, Free, DeployInv, Fits, Placed
  <2>3. Attends(v, j)'
    BY <2>1, <2>2 DEF Attends, BusyOn, Busy, OnServer
  <2>. QED
    BY <2>3
<1>7. Unanswered'
  BY <1>0 DEF DeployInv, Unanswered
<1>. QED
  BY <1>1, <1>3, <1>4, <1>5, <1>6, <1>7 DEF DeployInv

EARLY == {"CREATED", "VALIDATED", "AWAITING_STEP_UP", "AWAITING_CONFIRMATION", "CANCELLED",
          "AUTHORIZED"}

\* A busy worker holds one of the states the plane puts, and is no further behind the row
\* than the machine allows.
LEMMA BusyHolds ==
  ASSUME TypeOK, DeployInv, NEW w \in Workers, Busy(w)
  PROVE  /\ it[w].state \in EARLY \cup {"SUBMITTED"} \cup LATE
         /\ it[w].state \notin LATE => Saved(cur[w]) \notin LATE
         /\ it[w].state \in EARLY => Saved(cur[w]) \in EARLY \cup {"none"}
         /\ it[w].state = "SUBMITTED" => Saved(cur[w]) \in {"AUTHORIZED", "SUBMITTED"}
<1>1. Placed(w) /\ Behind(w) /\ pc[w] \in Pcs
  BY DEF DeployInv, Fits, TypeOK
<1>2. it[w].state \in EARLY \cup {"SUBMITTED"} \cup LATE
  BY <1>1 DEF Placed, Busy, Pcs, EARLY, LATE
<1>3. ASSUME it[w].state \notin LATE
      PROVE  \/ Saved(cur[w]) = it[w].state \/ Edge(Saved(cur[w]), it[w].state)
             \/ Saved(cur[w]) = "none" /\ it[w].state = "CREATED"
  BY <1>1, <1>3 DEF Behind
<1>. QED
  BY <1>2, <1>3, Before DEF EARLY, LATE

\* store.put.
LEMMA PutDeploy ==
  ASSUME IInv, DeployInv, NEW w \in Workers, Put(w)
  PROVE  DeployInv'
<1>. DEFINE i == cur[w]
            t == it[w].state
<1>1. /\ TypeOK /\ dirty[w] /\ Busy(w) /\ i \in Intents /\ it[w] \in Intent /\ it[w] # None
      /\ Placed(w) /\ Behind(w) /\ Knows(w)
  BY ConstantsAssumption DEF IInv, Held, TypeOK, Put, Busy, DeployInv, Fits
<1>2. /\ store'[i] = it[w] /\ \A j \in Intents \ {i} : store'[j] = store[j]
      /\ ~dirty'[w] /\ \A v \in Workers \ {w} : dirty'[v] = dirty[v]
      /\ UNCHANGED <<payments, pc, cur, it, stranded, up, hops>>
  BY <1>1 DEF Put, TypeOK, ledger, world
<1>3. Saved(i)' = t /\ \A j \in Intents \ {i} : Saved(j)' = Saved(j)
  BY <1>1, <1>2 DEF Saved
<1>31. ASSUME NEW j \in Intents
       PROVE  Saved(j)' = IF j = i THEN t ELSE Saved(j)
  BY <1>1, <1>2 DEF Saved
<1>4. /\ t \in EARLY \cup {"SUBMITTED"} \cup LATE
      /\ t \notin LATE => Saved(i) \notin LATE
      /\ t \in EARLY => Saved(i) \in EARLY \cup {"none"}
      /\ t = "SUBMITTED" => Saved(i) \in {"AUTHORIZED", "SUBMITTED"}
  BY <1>1, BusyHolds
<1>5. /\ \A v \in Workers \ {w} : Busy(v)' <=> Busy(v)
      /\ \A v \in Workers : \A j : BusyOn(v, j)' => BusyOn(v, j)
      /\ \A v \in Workers \ {w} : \A j : BusyOn(v, j)' <=> BusyOn(v, j)
      /\ BusyOn(w, i)
  BY <1>1, <1>2 DEF Busy, BusyOn
<1>6. ASSUME NEW v \in Workers \ {w} PROVE Fits(v)'
  <2>1. Fits(v)
    BY DEF DeployInv
  <2>2. Placed(v)'
    BY <1>2, <2>1 DEF Fits, Placed, OnServer
  <2>. SUFFICES ASSUME Busy(v) PROVE Behind(v)' /\ Knows(v)'
    BY <1>5, <2>2 DEF Fits
  <2>3. Knows(v)'
    BY <1>2, <2>1 DEF Fits, Knows, paid
  <2>4. CASE cur[v] = i
    <3>1. Saved(i) \in LATE
      BY <1>1, <1>5, <2>4 DEF DeployInv, Lone, BusyOn
    <3>2. t \in LATE /\ it[v].state \in LATE
      BY <1>1, <1>4, <2>4, <3>1, BusyHolds
    <3>3. Behind(v)'
      BY <1>2, <1>3, <2>4, <3>2 DEF Behind, OnServer, LATE
    <3>. QED
      BY <2>3, <3>3
  <2>5. CASE cur[v] # i
    <3>1. cur[v] \in Intents
      BY DEF IInv, Held, TypeOK, Busy, DeployInv, Fits, Placed
    <3>2. Saved(cur[v])' = Saved(cur[v])
      BY <1>2, <1>3, <2>5, <3>1 DEF Saved
    <3>3. Behind(v)'
      BY <1>2, <2>1, <3>2 DEF Behind, Fits, OnServer
    <3>. QED
      BY <2>3, <3>3
  <2>. QED
    BY <2>4, <2>5
<1>7. Fits(w)'
  <2>1. Placed(w)'
    BY <1>1, <1>2 DEF Placed, OnServer
  <2>2. Knows(w)'
    BY <1>1, <1>2 DEF Knows, paid
  <2>3. ASSUME Busy(w)' PROVE Behind(w)'
    <3>1. pc[w] \in Pcs /\ pc[w] \notin {"idle", "sweep", "return"}
      BY <1>1, <1>2, <2>3 DEF Busy, TypeOK
    <3>2. /\ OnServer(w) => t # "AWAITING_STEP_UP"
          /\ ~OnServer(w) => t \in {"AWAITING_STEP_UP", "VALIDATED", "CANCELLED"} \cup LATE
      BY <1>1, <3>1 DEF Placed, Pcs, LATE
    <3>. QED
      BY <1>1, <1>2, <1>3, <3>2 DEF Behind, OnServer
  <2>. QED
    BY <2>1, <2>2, <2>3 DEF Fits
<1>8. Lone'
  <2>. SUFFICES ASSUME NEW j \in Intents, Saved(j)' \notin LATE,
                       NEW u \in Workers, NEW v \in Workers, BusyOn(u, j), BusyOn(v, j)
                PROVE  u = v
    BY <1>5 DEF Lone
  <2>1. Saved(j) \notin LATE
    BY <1>31, <1>4
  <2>. QED
    BY <2>1 DEF DeployInv, Lone
<1>9. Sweeping'
  <2>. SUFFICES ASSUME NEW v \in Workers, NEW s \in stranded[v]
                PROVE  /\ Saved(s[1])' = "SUBMITTED" /\ s[2].state = "SUBMITTED"
                       /\ Untouched(s[1])'
                       /\ \A r \in stranded[v] : r[1] = s[1] => r = s
    BY <1>2 DEF Sweeping
  <2>1. Saved(s[1]) = "SUBMITTED" /\ s[2].state = "SUBMITTED" /\ Untouched(s[1])
        /\ \A r \in stranded[v] : r[1] = s[1] => r = s
    BY DEF DeployInv, Sweeping
  <2>2. s[1] # i /\ s[1] \in Intents
    BY <1>1, <1>5, <2>1 DEF Untouched, TypeOK
  <2>. QED
    BY <1>3, <1>5, <2>1, <2>2 DEF Untouched
<1>10. Book'
  <2>. SUFFICES ASSUME NEW j \in Intents
                PROVE  /\ IF paid(j)
                            THEN /\ Saved(j)' \in {"SUBMITTED", "UNKNOWN", "COMPLETED"}
                                 /\ Saved(j)' = "COMPLETED" => store'[j].receipt = payments[j]
                            ELSE Saved(j)' # "COMPLETED"
                       /\ Saved(j)' = "AWAITING_STEP_UP" => store'[j].issued = Never
    BY <1>2 DEF Book, paid
  <2>0. /\ IF paid(j) THEN /\ Saved(j) \in {"SUBMITTED", "UNKNOWN", "COMPLETED"}
                           /\ Saved(j) = "COMPLETED" => store[j].receipt = payments[j]
                      ELSE Saved(j) # "COMPLETED"
        /\ Saved(j) = "AWAITING_STEP_UP" => store[j].issued = Never
    BY DEF DeployInv, Book
  <2>1. CASE j # i
    BY <1>2, <1>31, <2>0, <2>1
  <2>2. CASE j = i
    <3>1. paid(i) => t \notin EARLY
      BY <1>4, <2>0, <2>2 DEF EARLY
    <3>. QED
      BY <1>1, <1>2, <1>31, <1>4, <2>2, <3>1 DEF Knows, Behind, EARLY, LATE
  <2>. QED
    BY <2>1, <2>2
<1>11. Attended'
  <2>. SUFFICES ASSUME NEW j \in Intents, Saved(j)' = "SUBMITTED"
                PROVE  \E v \in Workers : Attends(v, j)'
    BY DEF Attended
  <2>1. CASE j = i
    <3>1. t = "SUBMITTED" /\ pc[w] \in Pcs
      BY <1>1, <1>31, <2>1 DEF TypeOK
    <3>2. pc[w] \in {"submitted", "debited", "paid", "timed_out", "refused"}
      BY <1>1, <3>1 DEF Placed, Pcs, LATE
    <3>3. Attends(w, j)'
      BY <1>1, <1>2, <2>1, <3>2 DEF Placed, Attends, OnServer, BusyOn, Busy
    <3>. QED
      BY <3>3
  <2>2. CASE j # i
    <3>1. PICK v \in Workers : Attends(v, j)
      BY <1>31, <2>2 DEF DeployInv, Attended
    <3>2. Attends(v, j)'
      BY <1>2, <1>5, <2>2, <3>1 DEF Attends, OnServer, BusyOn
    <3>. QED
      BY <3>2
  <2>. QED
    BY <2>1, <2>2
<1>12. Unanswered'
  <2>. SUFFICES ASSUME NEW j \in Intents, TimedOut(j)
                PROVE  /\ Saved(j)' \in {"SUBMITTED"} \cup LATE
                       /\ \A v \in Workers : cur[v] = j => pc[v] \notin {"submitted", "debited"}
    BY <1>2 DEF Unanswered, TimedOut
  <2>1. Saved(j) \in {"SUBMITTED"} \cup LATE
        /\ \A v \in Workers : cur[v] = j => pc[v] \notin {"submitted", "debited"}
    BY DEF DeployInv, Unanswered
  <2>. QED
    BY <1>31, <1>4, <2>1 DEF EARLY, LATE
<1>. QED
  BY <1>6, <1>7, <1>8, <1>9, <1>10, <1>11, <1>12 DEF DeployInv

\* The call is over, or the boot.
LEMMA ReturnDeploy ==
  ASSUME IInv, OneOfEach, DeployInv, NEW w \in Workers, Return(w) \/ Serve(w)
  PROVE  DeployInv'
<1>1. /\ TypeOK /\ ~Busy(w) /\ pc[w] # "idle" /\ stranded[w] = {} /\ Fits(w)
      /\ OnServer(w) \/ Return(w)
  BY DEF IInv, Return, Serve, At, Busy, DeployInv, Fits, Placed
<1>2. /\ pc'[w] = "idle" /\ ~dirty'[w]
      /\ \A v \in Workers \ {w} :
           pc'[v] = pc[v] /\ it'[v] = it[v] /\ dirty'[v] = dirty[v] /\ cur'[v] = cur[v]
      /\ UNCHANGED <<store, payments, stranded, hops>>
      /\ up' = up \/ (OnServer(w) /\ \A p \in Processes \ {ProcessOf[w]} : up'[p] = up[p])
  BY <1>1 DEF Return, Serve, At, Goto, TypeOK, durable, world
<1>3. \A j : Saved(j)' = Saved(j)
  BY <1>2 DEF Saved
<1>4. /\ \A v \in Workers \ {w} : \A j : BusyOn(v, j)' <=> BusyOn(v, j)
      /\ \A j : ~BusyOn(w, j) /\ ~BusyOn(w, j)'
      /\ \A v \in Workers : \A j : BusyOn(v, j)' <=> BusyOn(v, j)
  BY <1>1, <1>2 DEF Busy, BusyOn
<1>5. \A v \in Workers : Fits(v)'
  <2>1. Fits(w)'
    BY <1>1, <1>2 DEF Fits, Placed, Busy, OnServer
  <2>2. ASSUME NEW v \in Workers \ {w} PROVE Fits(v)'
    BY <1>2, <1>3 DEF DeployInv, Fits, Placed, Behind, Knows, Busy, OnServer, paid
  <2>. QED
    BY <2>1, <2>2
<1>6. Lone'
  BY <1>3, <1>4 DEF DeployInv, Lone
<1>7. Sweeping'
  BY <1>2, <1>3, <1>4 DEF DeployInv, Sweeping, Untouched
<1>8. Book'
  BY <1>2, <1>3 DEF DeployInv, Book, paid
<1>9. Attended'
  <2>. SUFFICES ASSUME NEW j \in Intents, Saved(j) = "SUBMITTED"
                PROVE  \E v \in Workers : Attends(v, j)'
    BY <1>3 DEF Attended
  <2>1. PICK v \in Workers : Attends(v, j)
    BY DEF DeployInv, Attended
  <2>2. v # w
    BY <1>1, <1>4, <2>1 DEF Attends
  <2>3. up'[ProcessOf[v]] = up[ProcessOf[v]]
    <3>1. OnServer(v) /\ ProcessOf[v] \in Processes
      BY <2>1, ConstantsAssumption DEF Attends
    <3>2. OnServer(w) => FALSE
      BY <2>2, <3>1 DEF OneOfEach
    <3>. QED
      BY <1>2, <3>2
  <2>4. Attends(v, j)'
    BY <1>2, <2>1, <2>2, <2>3 DEF Attends, BusyOn, Busy, OnServer
  <2>. QED
    BY <2>4
<1>10. Unanswered'
  <2>. SUFFICES ASSUME NEW j \in Intents, TimedOut(j)
                PROVE  /\ Saved(j) \in {"SUBMITTED"} \cup LATE
                       /\ \A v \in Workers : cur'[v] = j => pc'[v] \notin {"submitted", "debited"}
    BY <1>2, <1>3 DEF Unanswered, TimedOut
  <2>. QED
    BY <1>2 DEF DeployInv, Unanswered
<1>. QED
  BY <1>5, <1>6, <1>7, <1>8, <1>9, <1>10 DEF DeployInv

\* The bank takes the money: nobody else is busy with the intent.
LEMMA PayDeploy ==
  ASSUME IInv, DeployInv, NEW w \in Workers, Pay(w)
  PROVE  DeployInv'
<1>. DEFINE i == cur[w]
<1>1. /\ TypeOK /\ ~dirty[w] /\ pc[w] = "debited" /\ Busy(w) /\ i \in Intents
      /\ Placed(w) /\ Behind(w) /\ it[w].state = "SUBMITTED"
  BY DEF IInv, Held, TypeOK, Pay, At, Busy, DeployInv, Fits, Placed
<1>2. Saved(i) = "SUBMITTED"
  BY <1>1 DEF Behind, LATE
<1>3. \A v \in Workers \ {w} : ~BusyOn(v, i)
  BY <1>1, <1>2 DEF DeployInv, Lone, LATE, BusyOn
<1>4. /\ pc'[w] \in {"paid", "timed_out"} /\ \A v \in Workers \ {w} : pc'[v] = pc[v]
      /\ UNCHANGED <<store, hops, up, cur, it, dirty, stranded>>
      /\ \A j \in Intents \ {i} : payments'[j] = payments[j]
      /\ payments'[i] # None
  <2>1. [action |-> it[w].action, payer |-> w] # None
    <3>1. it[w].action \in Action
      BY <1>1 DEF IInv, Held, TypeOK, Intent
    <3>. QED
      BY <3>1, ConstantsAssumption DEF Receipt
  <2>. QED
    BY <1>1, <2>1 DEF Pay, Goto, TypeOK, ledger, world
<1>5. \A j : Saved(j)' = Saved(j)
  BY <1>4 DEF Saved
<1>6. \A v \in Workers : \A j : BusyOn(v, j)' <=> BusyOn(v, j)
  BY <1>1, <1>4 DEF Busy, BusyOn
<1>7. \A v \in Workers : Fits(v)'
  <2>1. Fits(w)'
    BY <1>1, <1>4, <1>5 DEF Fits, Placed, Behind, Knows, Busy, OnServer, paid
  <2>2. ASSUME NEW v \in Workers \ {w} PROVE Fits(v)'
    <3>1. Busy(v) => cur[v] \in Intents \ {i}
      BY <1>3 DEF BusyOn, IInv, Held, TypeOK, Busy, DeployInv, Fits, Placed
    <3>2. Busy(v) => payments'[cur[v]] = payments[cur[v]]
      BY <1>4, <3>1
    <3>. QED
      BY <1>4, <1>5, <3>2 DEF DeployInv, Fits, Placed, Behind, Knows, Busy, OnServer, paid
  <2>. QED
    BY <2>1, <2>2
<1>8. Lone'
  BY <1>5, <1>6 DEF DeployInv, Lone
<1>9. Sweeping'
  BY <1>4, <1>5, <1>6 DEF DeployInv, Sweeping, Untouched
<1>10. Book'
  BY <1>1, <1>2, <1>4, <1>5 DEF DeployInv, Book, paid
<1>11. Attended'
  BY <1>1, <1>4, <1>5, <1>6 DEF DeployInv, Attended, Attends, OnServer
<1>12. Unanswered'
  BY <1>1, <1>4, <1>5 DEF DeployInv, Unanswered, TimedOut
<1>. QED
  BY <1>7, <1>8, <1>9, <1>10, <1>11, <1>12 DEF DeployInv

\* The boot sweep takes an intent on that nobody else is busy with.
LEMMA SweepDeploy ==
  ASSUME IInv, OneOfEach, DeployInv, NEW w \in Workers, SweepOne(w)
  PROVE  DeployInv'
<1>1. PICK s \in stranded[w] :
          /\ cur' = [cur EXCEPT ![w] = s[1]]
          /\ Move(w, s[1], s[2], "timeout")
          /\ stranded' = [stranded EXCEPT ![w] = @ \ {s}]
  BY DEF SweepOne
<1>2. /\ TypeOK /\ ~dirty[w] /\ pc[w] = "sweep" /\ ~Busy(w) /\ OnServer(w) /\ Fits(w)
      /\ s[1] \in Intents /\ s[2] \in Intent
  BY <1>1 DEF IInv, TypeOK, SweepOne, At, Busy, DeployInv, Fits, Placed
<1>3. /\ Saved(s[1]) = "SUBMITTED" /\ s[2].state = "SUBMITTED" /\ Untouched(s[1])
      /\ \A r \in stranded[w] : r[1] = s[1] => r = s
  BY <1>1 DEF DeployInv, Sweeping
<1>4. /\ it'[w].state = "UNKNOWN" /\ dirty'[w] = TRUE
      /\ \A v \in Workers \ {w} : it'[v] = it[v] /\ dirty'[v] = dirty[v]
      /\ \A j \in Intents : TimedOut(j)' => TimedOut(j) \/ j = s[1]
  <2>1. Move(w, s[1], s[2], "timeout")
    BY <1>1
  <2>2. /\ dirty'[w] = TRUE
        /\ \A v \in Workers \ {w} : it'[v] = it[v] /\ dirty'[v] = dirty[v]
        /\ <<s[2].state, "timeout", it'[w].state>> \in TRANSITIONS
        /\ \A j \in Intents : TimedOut(j)' => TimedOut(j) \/ j = s[1]
    BY <1>2, <2>1, Moves
  <2>. QED
    BY <2>2, Machine
<1>5. /\ pc'[w] = "swept" /\ \A v \in Workers \ {w} : pc'[v] = pc[v]
      /\ cur'[w] = s[1] /\ \A v \in Workers \ {w} : cur'[v] = cur[v]
      /\ stranded'[w] = stranded[w] \ {s} /\ \A v \in Workers \ {w} : stranded'[v] = stranded[v]
      /\ UNCHANGED <<store, payments, up>>
  BY <1>1, <1>2 DEF SweepOne, Goto, TypeOK, world
<1>6. \A j : Saved(j)' = Saved(j)
  BY <1>5 DEF Saved
<1>7. /\ \A v \in Workers \ {w} : \A j : BusyOn(v, j)' <=> BusyOn(v, j)
      /\ \A j : BusyOn(w, j)' <=> j = s[1]
      /\ \A j : ~BusyOn(w, j)
  BY <1>2, <1>4, <1>5 DEF Busy, BusyOn
<1>8. \A v \in Workers : Fits(v)'
  <2>1. Placed(w)'
    BY <1>2, <1>4, <1>5 DEF Placed, OnServer
  <2>2. Behind(w)'
    BY <1>2, <1>3, <1>4, <1>5, <1>6 DEF Behind, OnServer, LATE
  <2>3. Knows(w)'
    BY <1>4, <1>5 DEF Knows
  <2>4. ASSUME NEW v \in Workers \ {w} PROVE Fits(v)'
    BY <1>4, <1>5, <1>6 DEF DeployInv, Fits, Placed, Behind, Knows, Busy, OnServer, paid
  <2>. QED
    BY <2>1, <2>2, <2>3, <2>4 DEF Fits
<1>9. Lone'
  <2>. SUFFICES ASSUME NEW j \in Intents, Saved(j) \notin LATE,
                       NEW u \in Workers, NEW v \in Workers, BusyOn(u, j)', BusyOn(v, j)'
                PROVE  u = v
    BY <1>6 DEF Lone
  <2>1. CASE j = s[1]
    BY <1>3, <1>7, <2>1 DEF Untouched
  <2>2. CASE j # s[1]
    BY <1>7, <2>2 DEF DeployInv, Lone
  <2>. QED
    BY <2>1, <2>2
<1>10. Sweeping'
  <2>. SUFFICES ASSUME NEW v \in Workers, NEW r \in stranded'[v]
                PROVE  /\ Saved(r[1]) = "SUBMITTED" /\ r[2].state = "SUBMITTED"
                       /\ Untouched(r[1])'
                       /\ \A q \in stranded'[v] : q[1] = r[1] => q = r
    BY <1>6 DEF Sweeping
  <2>1. v = w
    <3>1. stranded[v] # {}
      BY <1>5
    <3>2. OnServer(v)
      BY <3>1 DEF DeployInv, Fits, Placed
    <3>. QED
      BY <1>2, <3>2 DEF OneOfEach
  <2>2. r \in stranded[w] /\ r # s
    BY <1>5, <2>1
  <2>3. /\ Saved(r[1]) = "SUBMITTED" /\ r[2].state = "SUBMITTED" /\ Untouched(r[1])
        /\ \A q \in stranded[w] : q[1] = r[1] => q = r
    BY <2>2 DEF DeployInv, Sweeping
  <2>4. r[1] # s[1]
    BY <1>3, <2>2
  <2>. QED
    BY <1>5, <1>7, <2>1, <2>3, <2>4 DEF Untouched
<1>11. Book'
  BY <1>5, <1>6 DEF DeployInv, Book, paid
<1>12. Attended'
  <2>. SUFFICES ASSUME NEW j \in Intents, Saved(j) = "SUBMITTED"
                PROVE  \E v \in Workers : Attends(v, j)'
    BY <1>6 DEF Attended
  <2>1. CASE j = s[1]
    <3>1. Attends(w, j)'
      BY <1>2, <1>4, <1>5, <2>1 DEF Attends, BusyOn, Busy, OnServer
    <3>. QED
      BY <3>1
  <2>2. CASE j # s[1]
    <3>1. PICK v \in Workers : Attends(v, j)
      BY DEF DeployInv, Attended
    <3>2. CASE v = w
      <4>1. PICK r \in stranded[w] : r[1] = j
        BY <1>2, <1>7, <3>1, <3>2 DEF Attends
      <4>2. r \in stranded'[w]
        BY <1>5, <2>2, <4>1
      <4>3. Attends(w, j)'
        BY <1>2, <4>1, <4>2 DEF Attends, OnServer
      <4>. QED
        BY <4>3
    <3>3. CASE v # w
      <4>1. Attends(v, j)'
        BY <1>4, <1>5, <3>1, <3>3 DEF Attends, BusyOn, Busy, OnServer
      <4>. QED
        BY <4>1
    <3>. QED
      BY <3>2, <3>3
  <2>. QED
    BY <2>1, <2>2
<1>13. Unanswered'
  <2>. SUFFICES ASSUME NEW j \in Intents, TimedOut(j)'
                PROVE  /\ Saved(j) \in {"SUBMITTED"} \cup LATE
                       /\ \A v \in Workers : cur'[v] = j => pc'[v] \notin {"submitted", "debited"}
    BY <1>6 DEF Unanswered
  <2>1. CASE TimedOut(j)
    BY <1>5, <2>1 DEF DeployInv, Unanswered
  <2>2. CASE j = s[1]
    BY <1>3, <1>5, <2>2 DEF Untouched, BusyOn, Busy
  <2>. QED
    BY <1>4, <2>1, <2>2
<1>. QED
  BY <1>8, <1>9, <1>10, <1>11, <1>12, <1>13 DEF DeployInv

\* A boot finds nobody busy with what it strands.
LEMMA BootDeploy ==
  ASSUME IInv, OneOfEach, DeployInv, NEW w \in Workers, Boot(w)
  PROVE  DeployInv'
<1>. DEFINE S == {<<i, store[i]>> : i \in {j \in Intents : store[j] # None
                                              /\ store[j].state = "SUBMITTED"}}
<1>1. /\ TypeOK /\ pc[w] = "idle" /\ ~dirty[w] /\ ~Busy(w) /\ OnServer(w)
  BY DEF IInv, Boot, Busy, DeployInv, Fits, Placed
<1>2. stranded' = [stranded EXCEPT ![w] = S]
  BY DEF Boot
<1>3. /\ \A s \in S : s[1] \in Intents /\ Saved(s[1]) = "SUBMITTED" /\ s[2] = store[s[1]]
                       /\ s[2].state = "SUBMITTED" /\ s = <<s[1], store[s[1]]>>
      /\ \A j \in Intents : Saved(j) = "SUBMITTED" => \E s \in S : s[1] = j
  <2>1. ASSUME NEW j \in Intents, Saved(j) = "SUBMITTED" PROVE \E s \in S : s[1] = j
    <3>1. <<j, store[j]>> \in S
      BY <2>1 DEF Saved
    <3>. QED
      BY <3>1
  <2>. QED
    BY <2>1 DEF Saved
<1>. HIDE DEF S
<1>4. /\ pc'[w] = "sweep" /\ \A v \in Workers \ {w} : pc'[v] = pc[v]
      /\ stranded'[w] = S /\ \A v \in Workers \ {w} : stranded'[v] = stranded[v]
      /\ UNCHANGED <<store, payments, up, hops, cur, it, dirty>>
  BY <1>1, <1>2 DEF Boot, Goto, TypeOK, durable, world
<1>5. \A j : Saved(j)' = Saved(j)
  BY <1>4 DEF Saved
<1>6. \A v \in Workers : \A j : BusyOn(v, j)' <=> BusyOn(v, j)
  BY <1>1, <1>4 DEF Busy, BusyOn
<1>7. \A v \in Workers : Fits(v)'
  <2>1. Fits(w)'
    BY <1>1, <1>4 DEF Fits, Placed, Busy, OnServer
  <2>2. ASSUME NEW v \in Workers \ {w} PROVE Fits(v)'
    BY <1>4, <1>5 DEF DeployInv, Fits, Placed, Behind, Knows, Busy, OnServer, paid
  <2>. QED
    BY <2>1, <2>2
<1>8. Lone'
  BY <1>5, <1>6 DEF DeployInv, Lone
<1>9. Sweeping'
  <2>. SUFFICES ASSUME NEW v \in Workers, NEW s \in stranded'[v]
                PROVE  /\ Saved(s[1]) = "SUBMITTED" /\ s[2].state = "SUBMITTED"
                       /\ Untouched(s[1])
                       /\ \A r \in stranded'[v] : r[1] = s[1] => r = s
    BY <1>5, <1>6 DEF Sweeping, Untouched
  <2>1. v = w
    <3>1. CASE v # w
      <4>1. OnServer(v)
        BY <1>4, <3>1 DEF DeployInv, Fits, Placed
      <4>. QED
        BY <1>1, <3>1, <4>1 DEF OneOfEach
    <3>. QED
      BY <3>1
  <2>2. /\ s \in S /\ s[1] \in Intents /\ Saved(s[1]) = "SUBMITTED" /\ s[2].state = "SUBMITTED"
        /\ \A r \in S : r[1] = s[1] => r = s
    <3>1. s \in S
      BY <1>4, <2>1
    <3>2. \A r \in S : r[1] = s[1] => r = s
      BY <1>3, <3>1
    <3>. QED
      BY <1>3, <3>1, <3>2
  <2>3. ASSUME NEW u \in Workers, BusyOn(u, s[1]) PROVE FALSE
    <3>1. u # w
      BY <1>1, <2>3 DEF BusyOn
    <3>2. ~OnServer(u)
      BY <1>1, <3>1 DEF OneOfEach
    <3>3. Saved(s[1]) # "SUBMITTED"
      BY <2>3, <3>2 DEF BusyOn, DeployInv, Fits, Behind, LATE
    <3>. QED
      BY <2>2, <3>3
  <2>. QED
    BY <1>4, <2>1, <2>2, <2>3 DEF Untouched
<1>10. Book'
  BY <1>4, <1>5 DEF DeployInv, Book, paid
<1>11. Attended'
  <2>. SUFFICES ASSUME NEW j \in Intents, Saved(j) = "SUBMITTED"
                PROVE  \E v \in Workers : Attends(v, j)'
    BY <1>5 DEF Attended
  <2>1. \E s \in stranded'[w] : s[1] = j
    BY <1>3, <1>4
  <2>2. Attends(w, j)'
    BY <1>1, <2>1 DEF Attends, OnServer
  <2>. QED
    BY <2>2
<1>12. Unanswered'
  BY <1>1, <1>4, <1>5 DEF DeployInv, Unanswered, TimedOut
<1>. QED
  BY <1>7, <1>8, <1>9, <1>10, <1>11, <1>12 DEF DeployInv

\* A death leaves less of everything, and somebody to boot.
LEMMA CrashDeploy ==
  ASSUME IInv, DeployInv, NEW p \in Processes, Crash(p)
  PROVE  DeployInv'
<1>0. TypeOK
  BY DEF IInv
<1>1. /\ UNCHANGED <<store, payments, hops>> /\ ~up'[p]
      /\ \A q \in Processes \ {p} : up'[q] = up[q]
  BY <1>0 DEF Crash, TypeOK, durable
<1>2. \A v \in Workers :
        IF ProcessOf[v] = p
          THEN pc'[v] = "idle" /\ ~dirty'[v] /\ stranded'[v] = {}
          ELSE /\ pc'[v] = pc[v] /\ cur'[v] = cur[v] /\ it'[v] = it[v]
               /\ dirty'[v] = dirty[v] /\ stranded'[v] = stranded[v]
  BY DEF Crash
<1>3. \A j : Saved(j)' = Saved(j)
  BY <1>1 DEF Saved
<1>4. \A v \in Workers : \A j :
        BusyOn(v, j)' <=> BusyOn(v, j) /\ ProcessOf[v] # p
  BY <1>2 DEF Busy, BusyOn
<1>5. \A v \in Workers : Fits(v)'
  <2>1. ASSUME NEW v \in Workers, ProcessOf[v] = p PROVE Fits(v)'
    BY <1>2, <2>1 DEF Fits, Placed, Busy
  <2>2. ASSUME NEW v \in Workers, ProcessOf[v] # p PROVE Fits(v)'
    BY <1>1, <1>2, <1>3, <2>2 DEF DeployInv, Fits, Placed, Behind, Knows, Busy, OnServer, paid
  <2>. QED
    BY <2>1, <2>2
<1>6. Lone'
  BY <1>3, <1>4 DEF DeployInv, Lone
<1>7. Sweeping'
  BY <1>2, <1>3, <1>4 DEF DeployInv, Sweeping, Untouched
<1>8. Book'
  BY <1>1, <1>3 DEF DeployInv, Book, paid
<1>9. Attended'
  <2>. SUFFICES ASSUME NEW j \in Intents, Saved(j) = "SUBMITTED"
                PROVE  \E v \in Workers : Attends(v, j)'
    BY <1>3 DEF Attended
  <2>1. PICK v \in Workers : Attends(v, j)
    BY DEF DeployInv, Attended
  <2>2. ProcessOf[v] \in Processes
    BY ConstantsAssumption
  <2>3. Attends(v, j)'
    <3>1. CASE ProcessOf[v] = p
      BY <1>1, <1>2, <2>1, <3>1 DEF Attends, OnServer
    <3>2. CASE ProcessOf[v] # p
      BY <1>1, <1>2, <2>1, <2>2, <3>2 DEF Attends, OnServer, BusyOn, Busy
    <3>. QED
      BY <3>1, <3>2
  <2>. QED
    BY <2>3
<1>10. Unanswered'
  BY <1>1, <1>2, <1>3 DEF DeployInv, Unanswered, TimedOut
<1>. QED
  BY <1>5, <1>6, <1>7, <1>8, <1>9, <1>10 DEF DeployInv

\* The rest of the world changes neither a state nor a token.
LEMMA WorldDeploy ==
  ASSUME IInv, DeployInv, Environment
  PROVE  DeployInv'
<1>0. /\ TypeOK /\ \A w \in Workers : Busy(w) => cur[w] \in Intents
      /\ \A w \in Workers : \A s \in stranded[w] : s[1] \in Intents
  BY DEF IInv, Held, TypeOK, Busy, DeployInv, Fits, Placed
<1>1. ASSUME NEW p \in Processes, Crash(p) PROVE DeployInv'
  BY <1>1, CrashDeploy
<1>2. ASSUME NEW p \in Processes, Invoke(p) PROVE DeployInv'
  <2>1. /\ UNCHANGED <<store, payments, pc, cur, it, dirty, stranded, hops>>
        /\ p \notin Servers /\ \A q \in Processes \ {p} : up'[q] = up[q]
    BY <1>0, <1>2 DEF Invoke, durable, local, TypeOK
  <2>2. \A w \in Workers : OnServer(w) => up'[ProcessOf[w]] = up[ProcessOf[w]]
    BY <2>1, ConstantsAssumption DEF OnServer
  <2>. QED
    BY <1>0, <2>1, <2>2, Leaves DEF Saved, TimedOut
<1>3. ASSUME NEW i \in Intents, NEW a \in Action, Tamper(i, a) PROVE DeployInv'
  <2>1. /\ store[i] \in Intent /\ store[i] # None
        /\ store' = [store EXCEPT ![i] = [store[i] EXCEPT !.action = a]]
        /\ UNCHANGED <<payments, pc, cur, it, dirty, stranded, hops, up>>
    BY <1>0, <1>3 DEF Tamper, ledger, local, TypeOK
  <2>2. store'[i] = [store[i] EXCEPT !.action = a] /\ store'[i] # None
        /\ \A j \in Intents \ {i} : store'[j] = store[j]
    <3>1. [store[i] EXCEPT !.action = a] \in Intent
      BY <2>1, IntentUpdate
    <3>2. [store[i] EXCEPT !.action = a] # None
      BY <3>1, ConstantsAssumption
    <3>. QED
      BY <1>0, <2>1, <3>2 DEF TypeOK
  <2>3. \A j \in Intents : Saved(j)' = Saved(j)
    BY <2>1, <2>2 DEF Saved, Intent
  <2>4. \A j \in Intents : Saved(j) # "none" =>
          store'[j].issued = store[j].issued /\ store'[j].receipt = store[j].receipt
    BY <2>1, <2>2 DEF Intent
  <2>. QED
    BY <1>0, <2>1, <2>3, <2>4, Leaves DEF TimedOut
<1>4. CASE Tick
  <2>1. UNCHANGED <<store, payments, pc, cur, it, dirty, stranded, hops, up>>
    BY <1>4 DEF Tick, durable, local
  <2>. QED
    BY <1>0, <2>1, Leaves DEF Saved, TimedOut
<1>. QED
  BY <1>1, <1>2, <1>3, <1>4 DEF Environment

-----------------------------------------------------------------------------
(* A worker going on with the call it is in.                               *)

\* A worker with a clean copy moves one edge ahead of the row.
LEMMA Advances ==
  ASSUME TypeOK, DeployInv, NEW w \in Workers, NEW row \in Intent, NEW e,
         ~dirty[w], Busy(w), cur[w] \in Intents, row.state = it[w].state,
         Move(w, cur[w], row, e), UNCHANGED <<store, cur>>,
         row.issued = it[w].issued \/ it'[w].state = "AWAITING_CONFIRMATION",
         it'[w].state \in LATE <=> row.state \in {"SUBMITTED", "UNKNOWN"},
         row.state \notin {"COMPLETED", "FAILED"}
  PROVE  Behind(w)'
<1>1. /\ it'[w].issued = row.issued /\ dirty'[w] = TRUE
      /\ <<row.state, e, it'[w].state>> \in TRANSITIONS
  BY Moves
<1>2. Behind(w) /\ Saved(cur[w])' = Saved(cur[w])
  BY DEF DeployInv, Fits, Saved
<1>3. Edge(row.state, it'[w].state)
  BY <1>1 DEF Edge
<1>4. CASE it'[w].state \in LATE
  BY <1>1, <1>2, <1>4 DEF Behind, LATE, OnServer
<1>5. CASE it'[w].state \notin LATE
  <2>1. it[w].state \notin LATE
    BY <1>5 DEF LATE
  <2>2. Saved(cur[w]) = it[w].state
    BY <1>2, <2>1 DEF Behind
  <2>3. it'[w].state \in {"CREATED", "VALIDATED", "AWAITING_STEP_UP"} => it'[w].issued = Never
    BY <1>1, <1>2, <1>3, Before DEF Behind
  <2>4. Edge(Saved(cur[w])', it'[w].state)
    BY <1>2, <1>3, <2>2
  <2>. QED
    BY <1>1, <1>2, <1>5, <2>3, <2>4 DEF Behind, OnServer
<1>. QED
  BY <1>4, <1>5

\* A hop of a worker inside a call.
LEMMA HopDeploy ==
  ASSUME IInv, DeployInv, NEW w \in Workers, NEW row \in Intent, NEW e, NEW label,
         ~dirty[w], Busy(w), row.state = it[w].state,
         Move(w, cur[w], row, e), pc' = [pc EXCEPT ![w] = label],
         UNCHANGED <<store, payments, cur, up, stranded>>,
         row.issued = it[w].issued \/ it'[w].state = "AWAITING_CONFIRMATION",
         it'[w].state \in LATE <=> row.state \in {"SUBMITTED", "UNKNOWN"},
         row.state \notin {"COMPLETED", "FAILED"},
         Placed(w)', Knows(w)',
         label # "debited", label = "submitted" => ~TimedOut(cur[w]) /\ e # "timeout"
  PROVE  DeployInv'
<1>1. TypeOK /\ cur[w] \in Intents
  BY DEF IInv, Held, TypeOK, Busy, DeployInv, Fits, Placed
<1>2. Behind(w)'
  BY <1>1, Advances
<1>3. /\ dirty'[w] = TRUE
      /\ \A v \in Workers \ {w} : it'[v] = it[v] /\ dirty'[v] = dirty[v]
      /\ <<row.state, e, it'[w].state>> \in TRANSITIONS
      /\ \A j \in Intents : TimedOut(j)' => TimedOut(j) \/ (j = cur[w] /\ e = "timeout")
  BY <1>1, Moves
<1>4. pc'[w] = label /\ \A v \in Workers \ {w} : pc'[v] = pc[v]
  BY <1>1 DEF TypeOK
<1>5. Busy(w)' /\ Fits(w)'
  BY <1>2, <1>3 DEF Busy, Fits
<1>6. e = "timeout" => Saved(cur[w]) = "SUBMITTED"
  <2>1. Behind(w)
    BY DEF DeployInv, Fits
  <2>2. e = "timeout" => it[w].state = "SUBMITTED"
    BY <1>3, Machine
  <2>. QED
    BY <2>1, <2>2 DEF Behind, LATE
<1>7. \A i \in Intents :
        TimedOut(i)' => TimedOut(i) \/ (i = cur[w] /\ Saved(i) = "SUBMITTED")
  BY <1>3, <1>6
<1>8. pc'[w] \in {"submitted", "debited"} => ~TimedOut(cur[w])'
  <2>1. ASSUME label = "submitted", TimedOut(cur[w])' PROVE FALSE
    <3>1. PICK j \in Intents : j = cur[w] /\ TimedOut(j)'
      <4>1. <<"SUBMITTED", "timeout", "UNKNOWN">> \in hops'[cur[w]]
        BY <2>1 DEF TimedOut
      <4>. QED
        BY <1>1, <4>1 DEF TimedOut
    <3>2. TimedOut(j)
      BY <1>3, <2>1, <3>1
    <3>. QED
      BY <2>1, <3>1, <3>2 DEF TimedOut
  <2>. QED
    BY <1>4, <2>1
<1>. QED
  BY <1>1, <1>3, <1>4, <1>5, <1>7, <1>8, GoesOn

\* A worker that goes on without a hop: its object keeps its state.
LEMMA StayDeploy ==
  ASSUME IInv, DeployInv, NEW w \in Workers, NEW label,
         ~dirty[w], pc' = [pc EXCEPT ![w] = label],
         UNCHANGED <<store, payments, cur, up, stranded, hops>>,
         \A v \in Workers \ {w} : it'[v] = it[v] /\ dirty'[v] = dirty[v],
         cur[w] \in Intents, Busy(w), Busy(w)', Placed(w)', Knows(w)',
         it'[w].state = it[w].state, it'[w].issued = it[w].issued,
         label \in {"submitted", "debited"} => pc[w] = "submitted"
  PROVE  DeployInv'
<1>1. pc'[w] = label /\ \A v \in Workers \ {w} : pc'[v] = pc[v]
  BY DEF IInv, TypeOK
<1>2. Behind(w) /\ Saved(cur[w])' = Saved(cur[w])
  BY DEF DeployInv, Fits, Saved
<1>3. Behind(w)'
  BY <1>2 DEF Behind, OnServer
<1>4. Fits(w)'
  BY <1>3 DEF Fits
<1>5. \A i \in Intents : TimedOut(i)' => TimedOut(i)
  BY DEF TimedOut
<1>6. pc'[w] \in {"submitted", "debited"} => ~TimedOut(cur[w])'
  BY <1>1 DEF DeployInv, Unanswered, TimedOut
<1>. QED
  BY <1>1, <1>4, <1>5, <1>6, GoesOn

\* Where an event leads.
LEMMA Lands ==
  ASSUME TypeOK, NEW w \in Workers, NEW i \in Intents, NEW row \in Intent, NEW e,
         Move(w, i, row, e)
  PROVE  /\ it'[w].issued = row.issued /\ it'[w].receipt = row.receipt /\ dirty'[w] = TRUE
         /\ e = "validate" => it'[w].state = "VALIDATED"
         /\ e = "reject" => it'[w].state = "CANCELLED"
         /\ e = "require_step_up" => it'[w].state = "AWAITING_STEP_UP"
         /\ e = "await_confirmation" => it'[w].state = "AWAITING_CONFIRMATION"
         /\ e = "step_up" => it'[w].state = "VALIDATED"
         /\ e = "cancel" => it'[w].state = "CANCELLED"
         /\ e = "confirm" => it'[w].state = "AUTHORIZED"
         /\ e = "submit" => it'[w].state = "SUBMITTED"
         /\ e = "complete" => it'[w].state = "COMPLETED"
         /\ e = "fail" => it'[w].state = "FAILED"
         /\ e = "timeout" => it'[w].state = "UNKNOWN"
<1>1. /\ <<row.state, e, it'[w].state>> \in TRANSITIONS
      /\ it'[w].issued = row.issued /\ it'[w].receipt = row.receipt /\ dirty'[w] = TRUE
  BY Moves
<1>. QED
  BY <1>1, Machine

\* What is known of a worker at a point of a call, its object saved.
LEMMA MidCall ==
  ASSUME IInv, DeployInv, NEW w \in Workers, ~dirty[w], pc[w] \notin {"idle", "sweep", "return"}
  PROVE  /\ TypeOK /\ Busy(w) /\ cur[w] \in Intents /\ it[w] \in Intent
         /\ Placed(w) /\ Behind(w) /\ Knows(w)
BY DEF IInv, Held, TypeOK, Busy, DeployInv, Fits

LEMMA CheckDeploy ==
  ASSUME IInv, DeployInv, NEW w \in Workers, CheckPreconditions(w)
  PROVE  DeployInv'
<1>1. pc[w] = "proposed" /\ ~dirty[w] /\ UNCHANGED <<store, payments, cur, up, stranded>>
  BY DEF CheckPreconditions, At, world
<1>2. /\ TypeOK /\ Busy(w) /\ cur[w] \in Intents /\ it[w] \in Intent
      /\ it[w].state = "CREATED" /\ stranded[w] = {}
  BY <1>1, MidCall DEF Placed
<1>3. ASSUME Move(w, cur[w], it[w], "validate"), Goto(w, "decide") PROVE DeployInv'
  <2>1. it'[w].state = "VALIDATED" /\ pc'[w] = "decide"
    <3>1. it'[w].state = "VALIDATED"
      BY <1>2, <1>3, Lands
    <3>2. pc'[w] = "decide"
      BY <1>2, <1>3 DEF Goto, TypeOK
    <3>. QED
      BY <3>1, <3>2
  <2>2. Placed(w)' /\ Knows(w)'
    BY <1>1, <1>2, <2>1 DEF Placed, Knows
  <2>. QED
    BY <1>1, <1>2, <1>3, <2>1, <2>2, HopDeploy DEF Goto, LATE
<1>4. ASSUME Move(w, cur[w], it[w], "reject"), Goto(w, "return") PROVE DeployInv'
  <2>1. it'[w].state = "CANCELLED" /\ pc'[w] = "return"
    <3>1. it'[w].state = "CANCELLED"
      BY <1>2, <1>4, Lands
    <3>2. pc'[w] = "return"
      BY <1>2, <1>4 DEF Goto, TypeOK
    <3>. QED
      BY <3>1, <3>2
  <2>2. Placed(w)' /\ Knows(w)'
    BY <1>1, <1>2, <2>1 DEF Placed, Knows
  <2>. QED
    BY <1>1, <1>2, <1>4, <2>1, <2>2, HopDeploy DEF Goto, LATE
<1>. QED
  BY <1>3, <1>4 DEF CheckPreconditions

LEMMA DecideDeploy ==
  ASSUME IInv, DeployInv, NEW w \in Workers, Decide(w)
  PROVE  DeployInv'
<1>1. pc[w] = "decide" /\ ~dirty[w] /\ UNCHANGED <<store, payments, cur, up, stranded>>
  BY DEF Decide, At, world
<1>2. /\ TypeOK /\ Busy(w) /\ cur[w] \in Intents /\ it[w] \in Intent
      /\ it[w].state = "VALIDATED" /\ stranded[w] = {}
  BY <1>1, MidCall DEF Placed
<1>3. CASE Reject(w)
  <2>0. Move(w, cur[w], it[w], "reject") /\ pc' = [pc EXCEPT ![w] = "reason"]
    BY <1>3 DEF Reject, Goto
  <2>1. it'[w].state = "CANCELLED" /\ pc'[w] = "reason"
    <3>1. it'[w].state = "CANCELLED"
      BY <1>2, <2>0, Lands
    <3>2. pc'[w] = "reason"
      BY <1>2, <2>0 DEF Goto, TypeOK
    <3>. QED
      BY <3>1, <3>2
  <2>2. Placed(w)' /\ Knows(w)'
    BY <1>1, <1>2, <2>1 DEF Placed, Knows
  <2>. QED
    BY <1>1, <1>2, <2>0, <2>1, <2>2, HopDeploy DEF LATE
<1>4. CASE RequireStepUp(w)
  <2>0. Move(w, cur[w], it[w], "require_step_up") /\ pc' = [pc EXCEPT ![w] = "return"]
    BY <1>4 DEF RequireStepUp, Goto
  <2>1. it'[w].state = "AWAITING_STEP_UP" /\ pc'[w] = "return"
    <3>1. it'[w].state = "AWAITING_STEP_UP"
      BY <1>2, <2>0, Lands
    <3>2. pc'[w] = "return"
      BY <1>2, <2>0 DEF Goto, TypeOK
    <3>. QED
      BY <3>1, <3>2
  <2>2. Placed(w)' /\ Knows(w)'
    BY <1>1, <1>2, <2>1 DEF Placed, Knows
  <2>. QED
    BY <1>1, <1>2, <2>0, <2>1, <2>2, HopDeploy DEF LATE
<1>5. CASE IssueConfirmation(w)
  <2>. DEFINE row == [it[w] EXCEPT !.issued = clock,
                        !.digest = action_digest(ProcessOf[w], it[w].action)]
  <2>0. Move(w, cur[w], row, "await_confirmation") /\ pc' = [pc EXCEPT ![w] = "return"]
    BY <1>5 DEF IssueConfirmation, Goto
  <2>1. row \in Intent
    <3>1. it[w].action \in Action /\ clock \in Times
      BY <1>2 DEF TypeOK, Intent
    <3>2. action_digest(ProcessOf[w], it[w].action) \in Digest
      BY <3>1, DigestType, ConstantsAssumption
    <3>. QED
      BY <1>2, <3>1, <3>2, IntentUpdate
  <2>2. row.state = "VALIDATED"
    BY <1>2 DEF Intent
  <2>. HIDE DEF row
  <2>3. it'[w].state = "AWAITING_CONFIRMATION" /\ pc'[w] = "return"
    <3>1. it'[w].state = "AWAITING_CONFIRMATION"
      BY <1>2, <2>0, <2>1, Lands
    <3>2. pc'[w] = "return"
      BY <1>2, <2>0, <2>1 DEF Goto, TypeOK
    <3>. QED
      BY <3>1, <3>2
  <2>4. Placed(w)' /\ Knows(w)'
    BY <1>1, <1>2, <2>3 DEF Placed, Knows
  <2>. QED
    BY <1>1, <1>2, <2>0, <2>1, <2>2, <2>3, <2>4, HopDeploy DEF LATE
<1>. QED
  BY <1>3, <1>4, <1>5 DEF Decide

\* The hops of a step-up and of a confirmation, up to the submission: the bank is asked for
\* an intent whose row is AUTHORIZED, which never timed out.
LEMMA ApproveDeploy ==
  ASSUME IInv, DeployInv, NEW w \in Workers, FinishStepUp(w) \/ Authorize(w) \/ Submit(w)
  PROVE  DeployInv'
<1>1. ~dirty[w] /\ UNCHANGED <<store, payments, cur, up, stranded>>
  BY DEF FinishStepUp, Authorize, Submit, At, world
<1>2. CASE FinishStepUp(w)
  <2>0. /\ pc[w] = "stepping_up" /\ Move(w, cur[w], it[w], "step_up")
        /\ pc' = [pc EXCEPT ![w] = "decide"]
    BY <1>2 DEF FinishStepUp, At, Goto
  <2>1. /\ TypeOK /\ Busy(w) /\ cur[w] \in Intents /\ it[w] \in Intent
        /\ it[w].state = "AWAITING_STEP_UP" /\ stranded[w] = {}
    BY <1>1, <2>0, MidCall DEF Placed
  <2>2. it'[w].state = "VALIDATED" /\ pc'[w] = "decide"
    <3>1. it'[w].state = "VALIDATED"
      BY <2>0, <2>1, Lands
    <3>2. pc'[w] = "decide"
      BY <2>0, <2>1 DEF Goto, TypeOK
    <3>. QED
      BY <3>1, <3>2
  <2>3. Placed(w)' /\ Knows(w)'
    BY <1>1, <2>1, <2>2 DEF Placed, Knows
  <2>. QED
    BY <1>1, <2>0, <2>1, <2>2, <2>3, HopDeploy DEF LATE
<1>3. CASE Authorize(w)
  <2>0. /\ pc[w] = "confirmed" /\ Move(w, cur[w], it[w], "confirm")
        /\ pc' = [pc EXCEPT ![w] = "authorized"]
    BY <1>3 DEF Authorize, At, Goto
  <2>1. /\ TypeOK /\ Busy(w) /\ cur[w] \in Intents /\ it[w] \in Intent
        /\ it[w].state = "AWAITING_CONFIRMATION" /\ stranded[w] = {} /\ OnServer(w)
    BY <1>1, <2>0, MidCall DEF Placed
  <2>2. it'[w].state = "AUTHORIZED" /\ pc'[w] = "authorized"
    <3>1. it'[w].state = "AUTHORIZED"
      BY <2>0, <2>1, Lands
    <3>2. pc'[w] = "authorized"
      BY <2>0, <2>1 DEF Goto, TypeOK
    <3>. QED
      BY <3>1, <3>2
  <2>3. Placed(w)' /\ Knows(w)'
    BY <1>1, <2>1, <2>2 DEF Placed, Knows, OnServer
  <2>. QED
    BY <1>1, <2>0, <2>1, <2>2, <2>3, HopDeploy DEF LATE
<1>4. CASE Submit(w)
  <2>0. /\ pc[w] = "authorized" /\ Move(w, cur[w], it[w], "submit")
        /\ pc' = [pc EXCEPT ![w] = "submitted"]
    BY <1>4 DEF Submit, At, Goto
  <2>1. /\ TypeOK /\ Busy(w) /\ cur[w] \in Intents /\ it[w] \in Intent
        /\ it[w].state = "AUTHORIZED" /\ stranded[w] = {} /\ OnServer(w) /\ Behind(w)
    BY <1>1, <2>0, MidCall DEF Placed
  <2>2. it'[w].state = "SUBMITTED" /\ pc'[w] = "submitted"
    <3>1. it'[w].state = "SUBMITTED"
      BY <2>0, <2>1, Lands
    <3>2. pc'[w] = "submitted"
      BY <2>0, <2>1 DEF Goto, TypeOK
    <3>. QED
      BY <3>1, <3>2
  <2>3. Placed(w)' /\ Knows(w)'
    BY <1>1, <2>1, <2>2 DEF Placed, Knows, OnServer
  <2>4. ~TimedOut(cur[w])
    BY <1>1, <2>1 DEF Behind, LATE, DeployInv, Unanswered
  <2>. QED
    BY <1>1, <2>0, <2>1, <2>2, <2>3, <2>4, HopDeploy DEF LATE
<1>. QED
  BY <1>2, <1>3, <1>4

\* What the bank answers, asked to pay or asked by the key, is what the book has.
LEMMA AnswerDeploy ==
  ASSUME IInv, DeployInv, NEW w \in Workers,
         Complete(w) \/ TimeOut(w) \/ Fail(w) \/ AskBank(w)
  PROVE  DeployInv'
<1>1. ~dirty[w] /\ UNCHANGED <<store, payments, cur, up, stranded>>
      /\ pc[w] \in {"paid", "timed_out", "refused", "reconcile"}
  BY DEF Complete, TimeOut, Fail, AskBank, At, world
<1>2. /\ TypeOK /\ Busy(w) /\ cur[w] \in Intents /\ it[w] \in Intent
      /\ stranded[w] = {} /\ Knows(w)
      /\ it[w].state = IF pc[w] = "reconcile" THEN "UNKNOWN" ELSE "SUBMITTED"
  BY <1>1, MidCall DEF Placed
<1>. DEFINE told == [it[w] EXCEPT !.receipt = payments[cur[w]]]
<1>3. /\ told \in Intent /\ told.state = it[w].state /\ told.issued = it[w].issued
      /\ told.receipt = payments[cur[w]]
  <2>1. payments[cur[w]] \in Receipt \cup {None}
    BY <1>2 DEF TypeOK
  <2>. QED
    BY <1>2, <2>1, IntentUpdate DEF Intent
<1>. HIDE DEF told
<1>4. ASSUME Move(w, cur[w], told, "complete"), pc' = [pc EXCEPT ![w] = "return"],
             paid(cur[w])
      PROVE  DeployInv'
  <2>1. it'[w].state = "COMPLETED" /\ it'[w].receipt = payments[cur[w]] /\ pc'[w] = "return"
    <3>1. it'[w].state = "COMPLETED" /\ it'[w].receipt = payments[cur[w]]
      BY <1>2, <1>3, <1>4, Lands
    <3>2. pc'[w] = "return"
      BY <1>2, <1>3, <1>4 DEF Goto, TypeOK
    <3>. QED
      BY <3>1, <3>2
  <2>2. it'[w].issued = it[w].issued
    BY <1>2, <1>3, <1>4, Lands
  <2>3. Placed(w)' /\ Knows(w)'
    BY <1>1, <1>2, <1>4, <2>1 DEF Placed, Knows, paid, LATE
  <2>. QED
    BY <1>1, <1>2, <1>3, <1>4, <2>1, <2>3, HopDeploy DEF LATE
<1>5. ASSUME NEW label \in {"return", "reason"},
             Move(w, cur[w], it[w], "fail"), pc' = [pc EXCEPT ![w] = label], ~paid(cur[w])
      PROVE  DeployInv'
  <2>1. it'[w].state = "FAILED" /\ pc'[w] = label
    <3>1. it'[w].state = "FAILED"
      BY <1>2, <1>5, Lands
    <3>2. pc'[w] = label
      BY <1>2, <1>5 DEF Goto, TypeOK
    <3>. QED
      BY <3>1, <3>2
  <2>2. Placed(w)' /\ Knows(w)'
    BY <1>1, <1>2, <1>5, <2>1 DEF Placed, Knows, paid, LATE
  <2>. QED
    BY <1>1, <1>2, <1>5, <2>1, <2>2, HopDeploy DEF LATE
<1>6. CASE Complete(w)
  <2>1. /\ Move(w, cur[w], told, "complete") /\ pc' = [pc EXCEPT ![w] = "return"]
        /\ pc[w] = "paid"
    BY <1>6 DEF Complete, Goto, At, told
  <2>. QED
    BY <1>2, <1>4, <2>1 DEF Knows
<1>7. CASE TimeOut(w)
  <2>1. /\ Move(w, cur[w], it[w], "timeout") /\ pc' = [pc EXCEPT ![w] = "return"]
        /\ pc[w] = "timed_out"
    BY <1>7 DEF TimeOut, Goto, At
  <2>2. it'[w].state = "UNKNOWN" /\ pc'[w] = "return"
    <3>1. it'[w].state = "UNKNOWN"
      BY <1>2, <2>1, Lands
    <3>2. pc'[w] = "return"
      BY <1>2, <2>1 DEF Goto, TypeOK
    <3>. QED
      BY <3>1, <3>2
  <2>3. Placed(w)' /\ Knows(w)'
    BY <1>1, <1>2, <2>2 DEF Placed, Knows, LATE
  <2>. QED
    BY <1>1, <1>2, <2>1, <2>2, <2>3, HopDeploy DEF LATE
<1>8. CASE Fail(w)
  <2>1. /\ Move(w, cur[w], it[w], "fail") /\ pc' = [pc EXCEPT ![w] = "return"]
        /\ pc[w] = "refused"
    BY <1>8 DEF Fail, Goto, At
  <2>. QED
    BY <1>2, <1>5, <2>1 DEF Knows
<1>9. CASE AskBank(w)
  <2>1. CASE payments[cur[w]] = None
    <3>1. Move(w, cur[w], it[w], "fail") /\ pc' = [pc EXCEPT ![w] = "reason"]
      BY <1>9, <2>1 DEF AskBank, Goto
    <3>. QED
      BY <1>5, <2>1, <3>1 DEF paid
  <2>2. CASE payments[cur[w]] # None
    <3>1. Move(w, cur[w], told, "complete") /\ pc' = [pc EXCEPT ![w] = "return"]
      BY <1>9, <2>2 DEF AskBank, Goto, told
    <3>. QED
      BY <1>4, <2>2, <3>1 DEF paid
  <2>. QED
    BY <2>1, <2>2
<1>. QED
  BY <1>6, <1>7, <1>8, <1>9

\* The steps without a hop.
LEMMA QuietDeploy ==
  ASSUME IInv, DeployInv, NEW w \in Workers, Debit(w) \/ SetReason(w) \/ SweepReason(w)
  PROVE  DeployInv'
<1>1. /\ ~dirty[w] /\ UNCHANGED <<store, payments, cur, up, stranded, hops>>
      /\ pc[w] \in {"submitted", "reason", "swept"}
  BY DEF Debit, SetReason, SweepReason, At, durable, world
<1>2. /\ TypeOK /\ Busy(w) /\ cur[w] \in Intents /\ it[w] \in Intent
      /\ Placed(w) /\ Behind(w) /\ Knows(w)
  BY <1>1, MidCall
<1>3. CASE Debit(w)
  <2>1. PICK label \in {"paid", "refused", "debited"} :
          /\ pc' = [pc EXCEPT ![w] = label]
          /\ label = "paid" => paid(cur[w])
          /\ label = "refused" => ~paid(cur[w])
    BY <1>3 DEF Debit, Goto, paid
  <2>2. pc[w] = "submitted" /\ UNCHANGED <<it, dirty>> /\ pc'[w] = label
    BY <1>2, <1>3, <2>1 DEF Debit, At, TypeOK
  <2>3. Placed(w)' /\ Knows(w)' /\ Busy(w)'
    BY <1>1, <1>2, <2>1, <2>2 DEF Placed, Knows, Busy, paid, OnServer
  <2>. QED
    BY <1>1, <1>2, <2>1, <2>2, <2>3, StayDeploy
<1>4. ASSUME NEW label \in {"return", "sweep"}, Mutate(w, [it[w] EXCEPT !.reason = TRUE]),
             pc' = [pc EXCEPT ![w] = label],
             label = "return" => pc[w] = "reason", label = "sweep" => pc[w] = "swept"
      PROVE  DeployInv'
  <2>1. /\ it'[w] = [it[w] EXCEPT !.reason = TRUE] /\ dirty'[w] = TRUE /\ pc'[w] = label
        /\ \A v \in Workers \ {w} : it'[v] = it[v] /\ dirty'[v] = dirty[v]
    BY <1>2, <1>4 DEF Mutate, TypeOK
  <2>2. it'[w].state = it[w].state /\ it'[w].issued = it[w].issued
        /\ it'[w].receipt = it[w].receipt
    BY <1>2, <2>1 DEF Intent
  <2>3. Placed(w)' /\ Knows(w)' /\ Busy(w)'
    BY <1>1, <1>2, <1>4, <2>1, <2>2 DEF Placed, Knows, Busy, paid, OnServer, LATE
  <2>. QED
    BY <1>1, <1>2, <1>4, <2>1, <2>2, <2>3, StayDeploy
<1>5. CASE SetReason(w)
  BY <1>4, <1>5 DEF SetReason, At, Goto
<1>6. CASE SweepReason(w)
  BY <1>4, <1>6 DEF SweepReason, At, Goto
<1>. QED
  BY <1>3, <1>5, <1>6

-----------------------------------------------------------------------------
(* A worker taking up a call.                                              *)

\* A new id is nobody's.
LEMMA NewIdUntouched ==
  ASSUME IInv, DeployInv, NEW i \in Intents, opened[i] = None
  PROVE  Saved(i) = "none" /\ Untouched(i)
<1>1. store[i] = None
  <2>1. store[i] # None => store[i].conv \in Conversations /\ store[i].conv = opened[i]
    <3>1. store[i] # None => Genuine(i, store[i])
      BY DEF IInv, Copies
    <3>2. store[i] # None => store[i] \in Intent
      BY DEF IInv, TypeOK
    <3>. QED
      BY <3>1, <3>2 DEF Genuine, Intent
  <2>. QED
    BY <2>1, ConstantsAssumption
<1>2. ASSUME NEW v \in Workers, BusyOn(v, i) PROVE FALSE
  <2>1. it[v] # None /\ it[v] \in Intent /\ cur[v] = i
    BY <1>2 DEF BusyOn, IInv, Held, TypeOK, Busy, DeployInv, Fits, Placed
  <2>2. it[v].conv \in Conversations /\ it[v].conv = opened[i]
    BY <2>1 DEF IInv, Copies, Genuine, Intent
  <2>. QED
    BY <2>2, ConstantsAssumption
<1>. QED
  BY <1>1, <1>2 DEF Saved, Untouched

\* Beside a free worker only the other process can be busy, and only with rows of its own
\* part of the machine.
LEMMA NobodyBeside ==
  ASSUME OneOfEach, DeployInv, NEW w \in Workers, NEW i \in Intents, Free(w),
         \/ OnServer(w) /\ Saved(i) = "AWAITING_CONFIRMATION"
         \/ ~OnServer(w) /\ Saved(i) = "AWAITING_STEP_UP"
  PROVE  Untouched(i)
<1>. SUFFICES ASSUME NEW v \in Workers, BusyOn(v, i) PROVE FALSE
  BY DEF Untouched
<1>1. v # w
  BY DEF BusyOn, Busy, Free, DeployInv, Fits, Placed
<1>2. OnServer(v) <=> ~OnServer(w)
  BY <1>1 DEF OneOfEach
<1>3. Behind(v) /\ cur[v] = i
  BY DEF BusyOn, DeployInv, Fits
<1>. QED
  BY <1>2, <1>3 DEF Behind, LATE

LEMMA ProposeDeploy ==
  ASSUME IInv, DeployInv, NEW w \in Workers, NEW c \in Conversations, NEW i \in Intents,
         NEW name \in Names, NEW amount \in Amounts, Propose(w, c, i, name, amount)
  PROVE  DeployInv'
<1>1. /\ TypeOK /\ Free(w) /\ OnServer(w) /\ opened[i] = None /\ stranded[w] = {}
  BY DEF IInv, Propose, Free, DeployInv, Fits, Placed
<1>2. PICK recipient \in Recipients :
        Mutate(w, new_intent(c, [recipient |-> recipient, amount |-> amount]))
  BY DEF Propose
<1>3. /\ it'[w].state = "CREATED" /\ it'[w].issued = Never /\ dirty'[w] = TRUE
      /\ \A v \in Workers \ {w} : it'[v] = it[v] /\ dirty'[v] = dirty[v]
  BY <1>1, <1>2 DEF Mutate, TypeOK, new_intent
<1>4. /\ UNCHANGED <<store, payments, up, stranded, hops>>
      /\ cur'[w] = i /\ pc'[w] = "proposed"
      /\ \A v \in Workers \ {w} : cur'[v] = cur[v] /\ pc'[v] = pc[v]
  BY <1>1 DEF Propose, Take, Goto, TypeOK, world
<1>5. Saved(i) = "none" /\ Untouched(i) /\ Saved(i)' = Saved(i)
  BY <1>1, <1>4, NewIdUntouched DEF Saved
<1>6. Placed(w)' /\ Behind(w)' /\ Knows(w)'
  <2>1. Placed(w)' /\ Knows(w)'
    BY <1>1, <1>3, <1>4 DEF Placed, Knows, OnServer
  <2>2. Saved(cur[w])' = "none"
    BY <1>4, <1>5 DEF Saved
  <2>3. Behind(w)'
    BY <1>1, <1>3, <2>2 DEF Behind, OnServer, LATE
  <2>. QED
    BY <2>1, <2>3
<1>7. Fits(w)'
  BY <1>6 DEF Fits
<1>8. \A j \in Intents : TimedOut(j)' => TimedOut(j)
  BY <1>4 DEF TimedOut
<1>. QED
  BY <1>1, <1>3, <1>4, <1>5, <1>7, <1>8, TakesUp

\* step_up, confirm and reconcile take the row up as it is.
LEMMA TakeDeploy ==
  ASSUME IInv, OneOfEach, DeployInv, NEW w \in Workers, NEW c \in Conversations,
         NEW i \in Intents, StepUp(w, c, i) \/ Confirm(w, c, i) \/ Reconcile(w, c, i)
  PROVE  DeployInv'
<1>1. TypeOK /\ Free(w) /\ stranded[w] = {} /\ ~dirty[w]
  BY DEF IInv, StepUp, Confirm, Reconcile, Free, DeployInv, Fits, Placed
<1>2. /\ store[i] \in Intent /\ store[i] # None
      /\ UNCHANGED <<store, payments, up, stranded, hops>>
      /\ cur'[w] = i /\ \A v \in Workers \ {w} : cur'[v] = cur[v]
  BY <1>1 DEF StepUp, Confirm, Reconcile, confirmable, by_confirmation, owned_by_customer,
              Take, TypeOK, durable, world
<1>3. /\ Saved(i) = store[i].state /\ Saved(cur[w])' = store[i].state
      /\ Saved(i) = "AWAITING_STEP_UP" => store[i].issued = Never
  BY <1>2 DEF Saved, DeployInv, Book
<1>4. \A j \in Intents : TimedOut(j)' => TimedOut(j)
  BY <1>2 DEF TimedOut
<1>5. ASSUME it'[w].state = store[i].state, it'[w].issued = store[i].issued,
             Placed(w)', Knows(w)',
             store[i].state \in {"AWAITING_STEP_UP", "AWAITING_CONFIRMATION", "UNKNOWN"},
             store[i].state = "AWAITING_STEP_UP" => ~OnServer(w),
             store[i].state = "AWAITING_CONFIRMATION" => OnServer(w),
             pc'[w] \notin {"submitted", "debited", "idle"},
             \A v \in Workers \ {w} : pc'[v] = pc[v] /\ it'[v] = it[v] /\ dirty'[v] = dirty[v]
      PROVE  DeployInv'
  <2>1. Behind(w)'
    BY <1>3, <1>5 DEF Behind, OnServer, LATE
  <2>2. Fits(w)'
    BY <1>5, <2>1 DEF Fits
  <2>3. Saved(i) \notin LATE => Untouched(i)
    BY <1>1, <1>3, <1>5, NobodyBeside DEF LATE
  <2>4. Saved(i) # "SUBMITTED"
    BY <1>3, <1>5
  <2>. QED
    BY <1>1, <1>2, <1>4, <1>5, <2>2, <2>3, <2>4, TakesUp
<1>6. CASE StepUp(w, c, i)
  <2>1. /\ it'[w] = [store[i] EXCEPT !.assurance = "strong"]
        /\ \A v \in Workers \ {w} : it'[v] = it[v] /\ dirty'[v] = dirty[v]
        /\ store[i].state = "AWAITING_STEP_UP" /\ ~OnServer(w)
    BY <1>1, <1>6 DEF StepUp, Mutate, TypeOK
  <2>2. pc'[w] = "stepping_up" /\ \A v \in Workers \ {w} : pc'[v] = pc[v]
    BY <1>1, <1>6 DEF StepUp, Goto, TypeOK
  <2>3. it'[w].state = store[i].state /\ it'[w].issued = store[i].issued
    BY <1>2, <2>1 DEF Intent
  <2>4. Placed(w)' /\ Knows(w)'
    BY <1>1, <1>2, <2>1, <2>2, <2>3 DEF Placed, Knows, OnServer
  <2>. QED
    BY <1>5, <2>1, <2>2, <2>3, <2>4
<1>7. CASE Confirm(w, c, i)
  <2>1. /\ it'[w] = [store[i] EXCEPT !.confirmed = clock]
        /\ \A v \in Workers \ {w} : it'[v] = it[v] /\ dirty'[v] = dirty[v]
        /\ store[i].state = "AWAITING_CONFIRMATION" /\ OnServer(w)
    BY <1>1, <1>7 DEF Confirm, confirmable, Mutate, TypeOK
  <2>2. pc'[w] = "confirmed" /\ \A v \in Workers \ {w} : pc'[v] = pc[v]
    BY <1>1, <1>7 DEF Confirm, Goto, TypeOK
  <2>3. it'[w].state = store[i].state /\ it'[w].issued = store[i].issued
    BY <1>2, <2>1 DEF Intent
  <2>4. Placed(w)' /\ Knows(w)'
    BY <1>1, <1>2, <2>1, <2>2, <2>3 DEF Placed, Knows, OnServer
  <2>. QED
    BY <1>5, <2>1, <2>2, <2>3, <2>4
<1>8. CASE Reconcile(w, c, i)
  <2>1. /\ it'[w] = store[i] /\ dirty' = dirty /\ store[i].state = "UNKNOWN"
        /\ \A v \in Workers \ {w} : it'[v] = it[v] /\ dirty'[v] = dirty[v]
    BY <1>1, <1>8 DEF Reconcile, TypeOK
  <2>2. pc'[w] = "reconcile" /\ \A v \in Workers \ {w} : pc'[v] = pc[v]
    BY <1>1, <1>8 DEF Reconcile, Goto, TypeOK
  <2>3. Placed(w)' /\ Knows(w)'
    BY <1>1, <1>2, <2>1, <2>2 DEF Placed, Knows, OnServer
  <2>. QED
    BY <1>5, <2>1, <2>2, <2>3
<1>. QED
  BY <1>6, <1>7, <1>8

\* What cancels a row has its token, and a token is out only for AWAITING_CONFIRMATION.
LEMMA CancelDeploy ==
  ASSUME IInv, OneOfEach, DeployInv, NEW w \in Workers, NEW c \in Conversations,
         NEW i \in Intents, ConfirmExpired(w, c, i) \/ Cancel(w, c, i)
  PROVE  DeployInv'
<1>1. TypeOK /\ Free(w) /\ OnServer(w) /\ stranded[w] = {} /\ ~dirty[w]
  BY DEF IInv, ConfirmExpired, Cancel, Free, DeployInv, Fits, Placed
<1>2. /\ store[i] \in Intent /\ store[i] # None /\ store[i].issued # Never
      /\ Move(w, i, store[i], "cancel")
  BY <1>1 DEF ConfirmExpired, Cancel, confirmable, by_confirmation, TypeOK
<1>3. /\ UNCHANGED <<store, payments, up, stranded>>
      /\ cur'[w] = i /\ \A v \in Workers \ {w} : cur'[v] = cur[v]
      /\ pc'[w] = "reason" /\ \A v \in Workers \ {w} : pc'[v] = pc[v]
  BY <1>1 DEF ConfirmExpired, Cancel, Take, Goto, TypeOK, world
<1>4. /\ dirty'[w] = TRUE /\ \A v \in Workers \ {w} : it'[v] = it[v] /\ dirty'[v] = dirty[v]
      /\ <<store[i].state, "cancel", it'[w].state>> \in TRANSITIONS
      /\ \A j \in Intents : TimedOut(j)' => TimedOut(j)
  <2>1. Move(w, i, store[i], "cancel")
    BY <1>2
  <2>2. /\ dirty'[w] = TRUE
        /\ \A v \in Workers \ {w} : it'[v] = it[v] /\ dirty'[v] = dirty[v]
        /\ <<store[i].state, "cancel", it'[w].state>> \in TRANSITIONS
        /\ \A j \in Intents : TimedOut(j)' => TimedOut(j) \/ (j = i /\ "cancel" = "timeout")
    BY <1>1, <1>2, <2>1, Moves
  <2>. QED
    BY <2>2
<1>5. Saved(i) = "AWAITING_CONFIRMATION" /\ it'[w].state = "CANCELLED"
  <2>1. /\ store[i].state \in {"AWAITING_STEP_UP", "AWAITING_CONFIRMATION"}
        /\ it'[w].state = "CANCELLED"
    BY <1>4, Machine
  <2>2. Saved(i) = store[i].state /\ Saved(i) # "AWAITING_STEP_UP"
    BY <1>2 DEF Saved, DeployInv, Book
  <2>. QED
    BY <2>1, <2>2
<1>6. Saved(cur[w])' = "AWAITING_CONFIRMATION"
  BY <1>3, <1>5 DEF Saved
<1>7. Placed(w)' /\ Knows(w)'
  BY <1>1, <1>3, <1>5 DEF Placed, Knows, OnServer
<1>8. Behind(w)'
  <2>1. Edge("AWAITING_CONFIRMATION", "CANCELLED")
    BY DEF Edge, TRANSITIONS
  <2>. QED
    BY <1>1, <1>4, <1>5, <1>6, <2>1 DEF Behind, OnServer, LATE
<1>9. Fits(w)' /\ Untouched(i)
  BY <1>1, <1>5, <1>7, <1>8, NobodyBeside DEF Fits
<1>10. Saved(i) # "SUBMITTED"
  BY <1>5
<1>11. pc'[w] \notin {"submitted", "debited", "idle"}
  BY <1>3
<1>. QED
  BY <1>1, <1>3, <1>4, <1>9, <1>10, <1>11, TakesUp

\* What is only logged.
LEMMA LogDeploy ==
  ASSUME IInv, DeployInv, NEW w \in Workers, NEW c \in Conversations, NEW i \in Intents,
         \/ \E name \in Names : AskWhichContact(w, c, i, name)
         \/ DuplicateConfirmation(w, c, i)
         \/ DigestMismatch(w, c, i)
         \/ CancelRefused(w, c, i)
  PROVE  DeployInv'
<1>1. UNCHANGED <<store, payments, pc, cur, it, dirty, stranded, hops, up>>
  BY DEF AskWhichContact, DuplicateConfirmation, DigestMismatch, CancelRefused, local, world
<1>2. /\ \A v \in Workers : Busy(v) => cur[v] \in Intents
      /\ \A v \in Workers : \A s \in stranded[v] : s[1] \in Intents
  BY DEF IInv, Held, TypeOK, Busy, DeployInv, Fits, Placed
<1>. QED
  BY <1>1, <1>2, Leaves DEF Saved, TimedOut

-----------------------------------------------------------------------------
(* The invariant of the deployment, and what it gives.                     *)

LEMMA InitDeploy ==
  ASSUME Init
  PROVE  DeployInv
<1>1. /\ \A i \in Intents : Saved(i) = "none" /\ ~paid(i) /\ ~TimedOut(i)
      /\ \A w \in Workers : /\ pc[w] = "idle" /\ ~dirty[w] /\ stranded[w] = {} /\ ~Busy(w)
  BY DEF Init, Saved, paid, TimedOut, Busy
<1>. QED
  BY <1>1 DEF DeployInv, Fits, Placed, Lone, BusyOn, Sweeping, Book, Attended, Unanswered, LATE

LEMMA DeployStep ==
  ASSUME OneOfEach, IInv, DeployInv, Next
  PROVE  DeployInv'
<1>1. CASE \E w \in Workers : Call(w)
  <2>1. PICK w \in Workers, c \in Conversations, i \in Intents :
           \/ \E name \in Names : AskWhichContact(w, c, i, name)
           \/ \E name \in Names, amount \in Amounts : Propose(w, c, i, name, amount)
           \/ StepUp(w, c, i)
           \/ DuplicateConfirmation(w, c, i)
           \/ ConfirmExpired(w, c, i)
           \/ DigestMismatch(w, c, i)
           \/ Confirm(w, c, i)
           \/ Cancel(w, c, i)
           \/ CancelRefused(w, c, i)
           \/ Reconcile(w, c, i)
    BY <1>1 DEF Call
  <2>. QED
    BY <2>1, LogDeploy, ProposeDeploy, TakeDeploy, CancelDeploy
<1>2. CASE \E w \in Workers : Step(w)
  <2>1. PICK w \in Workers : Step(w)
    BY <1>2
  <2>. QED
    BY <2>1, PutDeploy, QuietDeploy, ReturnDeploy, CheckDeploy, DecideDeploy, ApproveDeploy,
       PayDeploy, AnswerDeploy, SweepDeploy DEF Step
<1>3. CASE \E w \in Workers : Boot(w)
  BY <1>3, BootDeploy
<1>4. CASE Environment
  BY <1>4, WorldDeploy
<1>. QED
  BY <1>1, <1>2, <1>3, <1>4 DEF Next

\* A deployment with one server worker and one operator keeps its invariant.
LEMMA DeployInductive ==
  ASSUME OneOfEach
  PROVE  Spec => []DeployInv
<1>1. Init => DeployInv
  BY InitDeploy
<1>2. IInv /\ DeployInv /\ [Next]_vars => DeployInv'
  <2>. SUFFICES ASSUME IInv, DeployInv, [Next]_vars PROVE DeployInv'
    OBVIOUS
  <2>1. CASE UNCHANGED vars
    <3>1. /\ UNCHANGED <<store, payments, pc, cur, it, dirty, stranded, hops, up>>
          /\ \A w \in Workers : Busy(w) => cur[w] \in Intents
          /\ \A w \in Workers : \A s \in stranded[w] : s[1] \in Intents
      BY <2>1 DEF vars, IInv, Held, TypeOK, Busy, DeployInv, Fits, Placed
    <3>. QED
      BY <3>1, Leaves DEF Saved, TimedOut
  <2>. QED
    BY <2>1, DeployStep
<1>. QED
  BY <1>1, <1>2, Inductive, PTL DEF Spec

\* I1, I4 and I5 of the one-server deployment: the store says COMPLETED only of what the
\* bank paid, with the bank's receipt, and files no payment as failed or cancelled
\* (_execute, reconcile, sweep).
THEOREM Truthful ==
  ASSUME OneOfEach
  PROVE  Spec => []AnswersMatchTheBook
<1>1. DeployInv => AnswersMatchTheBook
  BY DEF DeployInv, Book, AnswersMatchTheBook, Saved
<1>. QED
  BY <1>1, DeployInductive, PTL

\* What a cancelled intent and a failed one tell the customer: with one server and one call
\* at a time both are kept, through any crash and whatever the operator does beside it.
\* The runs that refute them need a second server worker (cancel, sweep, _execute).
THEOREM ClosedMeansNotPaid ==
  ASSUME OneOfEach
  PROVE  Spec => [](CancelledMeansNotPaid /\ FailedMeansNotPaid)
<1>1. AnswersMatchTheBook => CancelledMeansNotPaid /\ FailedMeansNotPaid
  BY DEF AnswersMatchTheBook, CancelledMeansNotPaid, FailedMeansNotPaid, in_state
<1>. QED
  BY <1>1, Truthful, PTL

\* A submitted intent is never forgotten: the server's call holds it, or its sweep does, or
\* the server is down and the sweep of its next boot will find it (_execute, sweep).
THEOREM NeverForgotten ==
  ASSUME OneOfEach
  PROVE  Spec => []Attended
<1>1. DeployInv => Attended
  BY DEF DeployInv
<1>. QED
  BY <1>1, DeployInductive, PTL

\* I5: a server that is up and idle has answered every call it made to the bank, or its
\* boot swept it (sweep).
THEOREM Swept ==
  ASSUME OneOfEach
  PROVE  Spec => []NothingLeftSubmitted
<1>1. DeployInv => NothingLeftSubmitted
  <2>. SUFFICES ASSUME DeployInv, NEW i \in Intents, in_state(i, "SUBMITTED"),
                       \A p \in Servers : up[p],
                       \A w \in Workers : OnServer(w) => pc[w] = "idle"
                PROVE  FALSE
    BY DEF NothingLeftSubmitted
  <2>1. PICK w \in Workers : Attends(w, i)
    BY DEF DeployInv, Attended, in_state, Saved
  <2>2. OnServer(w) /\ pc[w] = "idle" /\ up[ProcessOf[w]]
    BY <2>1 DEF Attends, OnServer
  <2>3. ~dirty[w] /\ stranded[w] = {}
    BY <2>2 DEF DeployInv, Fits, Placed
  <2>. QED
    BY <2>1, <2>2, <2>3 DEF Attends, BusyOn, Busy
<1>. QED
  BY <1>1, DeployInductive, PTL

\* Only the second half of create_pix writes the book.
LEMMA OnlyPay ==
  ASSUME Next, \A w \in Workers : ~Pay(w)
  PROVE  UNCHANGED payments
<1>1. CASE \E w \in Workers : Call(w)
  <2>1. PICK w \in Workers : Call(w)
    BY <1>1
  <2>. QED
    BY <2>1 DEF Call, durable, AskWhichContact, Propose, StepUp, DuplicateConfirmation,
                ConfirmExpired, DigestMismatch, Confirm, Cancel, CancelRefused, Reconcile
<1>2. CASE \E w \in Workers : Step(w)
  <2>1. PICK w \in Workers : Step(w) /\ ~Pay(w)
    BY <1>2
  <2>2. CASE Put(w) \/ SetReason(w) \/ Return(w) \/ CheckPreconditions(w) \/ Decide(w)
    BY <2>2 DEF durable, Put, SetReason, Return, CheckPreconditions, Decide
  <2>3. CASE FinishStepUp(w) \/ Authorize(w) \/ Submit(w) \/ Debit(w) \/ Complete(w)
    BY <2>3 DEF FinishStepUp, Authorize, Submit, Debit, Complete
  <2>4. CASE \/ TimeOut(w) \/ Fail(w) \/ AskBank(w) \/ SweepOne(w) \/ SweepReason(w)
             \/ Serve(w)
    BY <2>4 DEF durable, TimeOut, Fail, AskBank, SweepOne, SweepReason, Serve
  <2>. QED
    BY <2>1, <2>2, <2>3, <2>4 DEF Step
<1>3. CASE \E w \in Workers : Boot(w)
  BY <1>3 DEF Boot, durable
<1>4. CASE Environment
  BY <1>4 DEF Environment, Crash, Invoke, Tamper, Tick, durable
<1>. QED
  BY <1>1, <1>2, <1>3, <1>4 DEF Next

\* I5: nothing pays an intent that timed out, whoever reconciles it and however often the
\* server is started again (reconcile asks the book, never create_pix).
THEOREM NeverRepaid ==
  ASSUME OneOfEach
  PROVE  Spec => UnknownIsNeverRepaid
<1>1. IInv /\ DeployInv /\ [Next]_vars =>
        [\A i \in Intents :
           <<"SUBMITTED", "timeout", "UNKNOWN">> \in hops[i] => payments'[i] = payments[i]]_vars
  <2>. SUFFICES ASSUME IInv, DeployInv, Next, NEW i \in Intents, TimedOut(i)
                PROVE  payments'[i] = payments[i]
    BY DEF TimedOut
  <2>1. ASSUME NEW w \in Workers, Pay(w) PROVE payments'[i] = payments[i]
    <3>1. pc[w] = "debited" /\ cur[w] # i
      BY <2>1 DEF Pay, At, DeployInv, Unanswered
    <3>. QED
      BY <2>1, <3>1 DEF Pay, IInv, TypeOK
  <2>. QED
    BY <2>1, OnlyPay
<1>. QED
  BY <1>1, DeployInductive, Inductive, PTL DEF Spec, UnknownIsNeverRepaid

-----------------------------------------------------------------------------
(* One worker: what it puts is one logged hop ahead of the row.            *)

OneWorker == \A v, w \in Workers : v = w

Owed(w) ==
  LET held == it[w].state
      saved == Saved(cur[w]) IN
  Busy(w) =>
    \/ saved = held
    \/ dirty[w] /\ saved = "none" /\ held = "CREATED"
    \/ dirty[w] /\ \E e : <<saved, e, held>> \in hops[cur[w]]

HopInv == \A w \in Workers : Owed(w)

\* A hop from the saved state.
LEMMA Hopped ==
  ASSUME TypeOK, NEW w \in Workers, NEW i \in Intents, NEW row \in Intent, NEW e,
         Move(w, i, row, e), cur'[w] = i, Saved(i) = row.state, store' = store
  PROVE  Owed(w)'
<1>1. PICK to \in State :
           /\ it' = [it EXCEPT ![w] = [row EXCEPT !.state = to]]
           /\ dirty' = [dirty EXCEPT ![w] = TRUE]
           /\ hops' = [hops EXCEPT ![i] = @ \cup {<<row.state, e, to>>}]
  BY DEF Move, Mutate
<1>2. it'[w].state = to /\ dirty'[w] /\ <<row.state, e, to>> \in hops'[i]
  BY <1>1 DEF TypeOK, Intent
<1>3. Saved(cur[w])' = row.state
  BY DEF Saved
<1>. QED
  BY <1>2, <1>3 DEF Owed

\* A step of another kind that leaves the row, and the worker's intent, object and hops.
LEMMA Unhopped ==
  ASSUME NEW w \in Workers, Owed(w), Busy(w)' => Busy(w), UNCHANGED <<cur, dirty, hops>>,
         Saved(cur[w])' = Saved(cur[w]), it'[w].state = it[w].state
  PROVE  Owed(w)'
BY DEF Owed

LEMMA CallHops ==
  ASSUME IInv, OneWorker, DeployInv, HopInv, NEW w \in Workers, Call(w)
  PROVE  Owed(w)'
<1>. PICK c \in Conversations, i \in Intents :
           \/ \E name \in Names : AskWhichContact(w, c, i, name)
           \/ \E name \in Names, amount \in Amounts : Propose(w, c, i, name, amount)
           \/ StepUp(w, c, i)
           \/ DuplicateConfirmation(w, c, i)
           \/ ConfirmExpired(w, c, i)
           \/ DigestMismatch(w, c, i)
           \/ Confirm(w, c, i)
           \/ Cancel(w, c, i)
           \/ CancelRefused(w, c, i)
           \/ Reconcile(w, c, i)
  BY DEF Call
<1>1. TypeOK
  BY DEF IInv
<1>2. ASSUME NEW name \in Names, AskWhichContact(w, c, i, name) PROVE Owed(w)'
  <2>1. UNCHANGED <<store, cur, it, dirty, hops, pc>>
    BY <1>2 DEF AskWhichContact, local
  <2>. QED
    BY <2>1, Unhopped DEF HopInv, Busy, Saved
<1>3. ASSUME DuplicateConfirmation(w, c, i) \/ DigestMismatch(w, c, i) \/ CancelRefused(w, c, i)
      PROVE Owed(w)'
  <2>1. UNCHANGED <<store, cur, it, dirty, hops, pc>>
    BY <1>3 DEF DuplicateConfirmation, DigestMismatch, CancelRefused, local
  <2>. QED
    BY <2>1, Unhopped DEF HopInv, Busy, Saved
<1>4. ASSUME NEW name \in Names, NEW amount \in Amounts, Propose(w, c, i, name, amount)
      PROVE Owed(w)'
  <2>1. PICK recipient \in Recipients :
          Mutate(w, new_intent(c, [recipient |-> recipient, amount |-> amount]))
    BY <1>4 DEF Propose
  <2>2. it'[w].state = "CREATED" /\ dirty'[w]
    BY <1>1, <2>1 DEF Mutate, TypeOK, new_intent
  <2>3. cur'[w] = i /\ store' = store /\ opened[i] = None
    BY <1>1, <1>4 DEF Propose, Take, TypeOK
  <2>4. Saved(cur[w])' = "none"
    BY <2>3, NewIdUntouched DEF Saved
  <2>. QED
    BY <2>2, <2>4 DEF Owed
<1>5. ASSUME StepUp(w, c, i) \/ Confirm(w, c, i) \/ Reconcile(w, c, i) PROVE Owed(w)'
  <2>1. store[i] \in Intent /\ store[i] # None /\ store' = store /\ cur'[w] = i
    BY <1>1, <1>5 DEF StepUp, Confirm, Reconcile, confirmable, by_confirmation,
                      owned_by_customer, Take, TypeOK, durable
  <2>2. it'[w].state = store[i].state
    BY <1>1, <1>5, <2>1 DEF StepUp, Confirm, Reconcile, Mutate, TypeOK, Intent
  <2>3. Saved(cur[w])' = store[i].state
    BY <2>1 DEF Saved
  <2>. QED
    BY <2>2, <2>3 DEF Owed
<1>6. ASSUME ConfirmExpired(w, c, i) \/ Cancel(w, c, i) PROVE Owed(w)'
  <2>1. /\ store[i] \in Intent /\ store[i] # None /\ store' = store /\ cur'[w] = i
        /\ Move(w, i, store[i], "cancel")
    BY <1>1, <1>6 DEF ConfirmExpired, Cancel, confirmable, by_confirmation, Take, TypeOK
  <2>2. Saved(i) = store[i].state
    BY <2>1 DEF Saved
  <2>. QED
    BY <1>1, <2>1, <2>2, Hopped
<1>. QED
  BY <1>2, <1>3, <1>4, <1>5, <1>6

LEMMA StepHops ==
  ASSUME IInv, OneWorker, DeployInv, HopInv, NEW w \in Workers, Step(w)
  PROVE  Owed(w)'
<1>1. TypeOK /\ Owed(w)
  BY DEF IInv, HopInv
<1>2. CASE Put(w)
  <2>1. cur[w] \in Intents /\ it[w] \in Intent /\ it[w] # None
    BY <1>2, ConstantsAssumption DEF Put, IInv, Held, TypeOK
  <2>2. Saved(cur[w])' = it[w].state /\ it' = it
    BY <1>1, <1>2, <2>1 DEF Put, TypeOK, Saved
  <2>. QED
    BY <2>2 DEF Owed
<1>3. CASE SetReason(w) \/ SweepReason(w)
  <2>1. /\ ~dirty[w] /\ Busy(w) /\ it[w] \in Intent /\ UNCHANGED <<store, cur>>
    BY <1>3, MidCall DEF SetReason, SweepReason, At, durable
  <2>2. it'[w].state = it[w].state
    BY <1>1, <1>3, <2>1 DEF SetReason, SweepReason, Mutate, TypeOK, Intent
  <2>3. Saved(cur[w])' = it[w].state
    BY <1>1, <2>1 DEF Owed, Saved
  <2>. QED
    BY <2>2, <2>3 DEF Owed
<1>4. CASE Return(w) \/ Serve(w)
  <2>1. ~Busy(w)'
    BY <1>1, <1>4 DEF Return, Serve, At, Goto, Busy, TypeOK
  <2>. QED
    BY <2>1 DEF Owed
<1>5. ASSUME NEW row \in Intent, NEW e, Move(w, cur[w], row, e), row.state = it[w].state,
             UNCHANGED <<store, cur>>, ~dirty[w], Busy(w), cur[w] \in Intents
      PROVE  Owed(w)'
  <2>1. Saved(cur[w]) = row.state
    BY <1>1, <1>5 DEF Owed
  <2>. QED
    BY <1>1, <1>5, <2>1, Hopped
<1>6. ASSUME ~dirty[w], pc[w] \notin {"idle", "sweep", "return"}, UNCHANGED <<store, cur>>,
             NEW e, Move(w, cur[w], it[w], e)
      PROVE  Owed(w)'
  <2>1. Busy(w) /\ cur[w] \in Intents /\ it[w] \in Intent
    BY <1>6, MidCall
  <2>. QED
    BY <1>5, <1>6, <2>1
<1>7. CASE CheckPreconditions(w) \/ FinishStepUp(w) \/ Authorize(w) \/ Submit(w)
           \/ TimeOut(w) \/ Fail(w)
  <2>1. /\ ~dirty[w] /\ pc[w] \notin {"idle", "sweep", "return"} /\ UNCHANGED <<store, cur>>
        /\ \E e : Move(w, cur[w], it[w], e)
    BY <1>7 DEF CheckPreconditions, FinishStepUp, Authorize, Submit, TimeOut, Fail, At
  <2>. QED
    BY <1>6, <2>1
<1>8. CASE Decide(w)
  <2>1. ~dirty[w] /\ pc[w] = "decide" /\ UNCHANGED <<store, cur>>
    BY <1>8 DEF Decide, At
  <2>2. TypeOK /\ Busy(w) /\ cur[w] \in Intents /\ it[w] \in Intent
    BY <2>1, MidCall
  <2>3. CASE Reject(w) \/ RequireStepUp(w)
    BY <1>6, <2>1, <2>3 DEF Reject, RequireStepUp
  <2>4. CASE IssueConfirmation(w)
    <3>. DEFINE row == [it[w] EXCEPT !.issued = clock,
                          !.digest = action_digest(ProcessOf[w], it[w].action)]
    <3>1. Move(w, cur[w], row, "await_confirmation")
      BY <2>4 DEF IssueConfirmation
    <3>2. it[w].action \in Action /\ clock \in Times
      BY <2>2 DEF TypeOK, Intent
    <3>3. action_digest(ProcessOf[w], it[w].action) \in Digest
      BY <3>2, DigestType, ConstantsAssumption
    <3>4. row \in Intent /\ row.state = it[w].state
      BY <2>2, <3>2, <3>3, IntentUpdate DEF Intent
    <3>. HIDE DEF row
    <3>. QED
      BY <1>5, <2>1, <2>2, <3>1, <3>4
  <2>. QED
    BY <1>8, <2>3, <2>4 DEF Decide
<1>9. CASE Debit(w) \/ Pay(w)
  <2>1. UNCHANGED <<store, cur, it, dirty, hops>> /\ Busy(w)
    BY <1>9 DEF Debit, Pay, At, ledger, Busy
  <2>. QED
    BY <1>1, <2>1, Unhopped DEF Saved
<1>10. CASE Complete(w) \/ AskBank(w)
  <2>1. /\ ~dirty[w] /\ pc[w] \in {"paid", "reconcile"} /\ UNCHANGED <<store, cur>>
    BY <1>10 DEF Complete, AskBank, At
  <2>2. TypeOK /\ Busy(w) /\ cur[w] \in Intents /\ it[w] \in Intent
    BY <2>1, MidCall
  <2>. DEFINE told == [it[w] EXCEPT !.receipt = payments[cur[w]]]
  <2>3. told \in Intent /\ told.state = it[w].state
    <3>1. payments[cur[w]] \in Receipt \cup {None}
      BY <2>2 DEF TypeOK
    <3>. QED
      BY <2>2, <3>1, IntentUpdate DEF Intent
  <2>4. Move(w, cur[w], told, "complete") \/ Move(w, cur[w], it[w], "fail")
    BY <1>10 DEF Complete, AskBank
  <2>. HIDE DEF told
  <2>. QED
    BY <1>5, <2>1, <2>2, <2>3, <2>4
<1>11. CASE SweepOne(w)
  <2>1. PICK s \in stranded[w] :
            /\ cur' = [cur EXCEPT ![w] = s[1]]
            /\ Move(w, s[1], s[2], "timeout")
    BY <1>11 DEF SweepOne
  <2>2. /\ s[1] \in Intents /\ s[2] \in Intent /\ Saved(s[1]) = s[2].state
        /\ cur'[w] = s[1] /\ store' = store
    BY <1>1, <1>11, <2>1 DEF SweepOne, TypeOK, DeployInv, Sweeping
  <2>. QED
    BY <1>1, <2>1, <2>2, Hopped
<1>. QED
  BY <1>2, <1>3, <1>4, <1>7, <1>8, <1>9, <1>10, <1>11 DEF Step

LEMMA WorldHops ==
  ASSUME IInv, HopInv, NEW w \in Workers, Boot(w) \/ Environment
  PROVE  Owed(w)'
<1>1. TypeOK /\ Owed(w)
  BY DEF IInv, HopInv
<1>2. ASSUME Boot(w) PROVE Owed(w)'
  <2>1. UNCHANGED <<store, cur, it, dirty, hops>> /\ (Busy(w)' => Busy(w))
    BY <1>1, <1>2 DEF Boot, Goto, durable, Busy, TypeOK
  <2>. QED
    BY <1>1, <2>1, Unhopped DEF Saved
<1>3. ASSUME NEW p \in Processes, Crash(p) PROVE Owed(w)'
  <2>1. CASE ProcessOf[w] = p
    <3>1. ~Busy(w)'
      BY <1>3, <2>1 DEF Crash, Busy
    <3>. QED
      BY <3>1 DEF Owed
  <2>2. CASE ProcessOf[w] # p
    BY <1>1, <1>3, <2>2 DEF Crash, Owed, Busy, Saved, durable
  <2>. QED
    BY <2>1, <2>2
<1>4. ASSUME \/ \E p \in Processes : Invoke(p)
             \/ Tick
      PROVE Owed(w)'
  <2>1. UNCHANGED <<store, cur, it, dirty, hops, pc>>
    BY <1>4 DEF Invoke, Tick, durable, local
  <2>. QED
    BY <1>1, <2>1, Unhopped DEF Saved, Busy
<1>5. ASSUME NEW i \in Intents, NEW a \in Action, Tamper(i, a) PROVE Owed(w)'
  <2>1. /\ store[i] \in Intent /\ store[i] # None
        /\ store' = [store EXCEPT ![i] = [store[i] EXCEPT !.action = a]]
        /\ UNCHANGED <<pc, cur, it, dirty, hops>>
    BY <1>1, <1>5 DEF Tamper, ledger, local, TypeOK
  <2>2. [store[i] EXCEPT !.action = a] \in Intent
    BY <2>1, IntentUpdate
  <2>3. [store[i] EXCEPT !.action = a] # None
    BY <2>2, ConstantsAssumption
  <2>4. ASSUME Busy(w) PROVE Saved(cur[w])' = Saved(cur[w])
    <3>1. cur[w] \in Intents
      BY <2>4 DEF IInv, Held, Busy, TypeOK
    <3>. QED
      BY <1>1, <2>1, <2>3, <3>1 DEF Saved, TypeOK, Intent
  <2>. QED
    BY <1>1, <2>1, <2>4 DEF Owed, Busy
<1>. QED
  BY <1>2, <1>3, <1>4, <1>5 DEF Environment

\* Only store.put, and what writes the table behind the plane's back, change a row.
LEMMA OnlyPutSaves ==
  ASSUME Next
  PROVE  \/ UNCHANGED store
         \/ \E w \in Workers : Put(w)
         \/ \E j \in Intents, a \in Action : Tamper(j, a)
<1>1. CASE \E w \in Workers : Call(w)
  <2>1. PICK w \in Workers : Call(w)
    BY <1>1
  <2>. QED
    BY <2>1 DEF Call, durable, AskWhichContact, Propose, StepUp, DuplicateConfirmation,
                ConfirmExpired, DigestMismatch, Confirm, Cancel, CancelRefused, Reconcile
<1>2. ASSUME NEW w \in Workers, Step(w), ~Put(w) PROVE UNCHANGED store
  <2>1. CASE SetReason(w) \/ Return(w) \/ CheckPreconditions(w) \/ Decide(w) \/ Pay(w)
    BY <2>1 DEF durable, SetReason, Return, CheckPreconditions, Decide, Pay
  <2>2. CASE FinishStepUp(w) \/ Authorize(w) \/ Submit(w) \/ Debit(w) \/ Complete(w)
    BY <2>2 DEF FinishStepUp, Authorize, Submit, Debit, Complete
  <2>3. CASE \/ TimeOut(w) \/ Fail(w) \/ AskBank(w) \/ SweepOne(w) \/ SweepReason(w)
             \/ Serve(w)
    BY <2>3 DEF durable, TimeOut, Fail, AskBank, SweepOne, SweepReason, Serve
  <2>. QED
    BY <1>2, <2>1, <2>2, <2>3 DEF Step
<1>3. CASE \E w \in Workers : Boot(w)
  BY <1>3 DEF Boot, durable
<1>4. CASE Environment
  BY <1>4 DEF Environment, Crash, Invoke, Tick, durable
<1>. QED
  BY <1>1, <1>2, <1>3, <1>4 DEF Next

\* Of a server that runs one call at a time: the saved state changes only along an edge of
\* the machine that the ledger already holds, whatever crashes between the two writes
\* (transition, _move).
THEOREM NoSilentHop ==
  ASSUME OneWorker
  PROVE  Spec => SavedHopsAreLogged
<1>1. OneOfEach
  BY DEF OneWorker, OneOfEach
<1>2. Init => HopInv
  BY DEF Init, HopInv, Owed, Busy
<1>3. IInv /\ DeployInv /\ HopInv /\ [Next]_vars => HopInv'
  <2>. SUFFICES ASSUME IInv, DeployInv, HopInv, [Next]_vars, NEW w \in Workers
                PROVE  Owed(w)'
    BY DEF HopInv
  <2>1. CASE UNCHANGED vars
    BY <2>1 DEF vars, HopInv, Owed, Busy, Saved
  <2>2. CASE Environment
    BY <2>2, WorldHops
  <2>3. ASSUME NEW v \in Workers, Call(v) \/ Step(v) \/ Boot(v) PROVE Owed(w)'
    <3>1. v = w
      BY DEF OneWorker
    <3>. QED
      BY <2>3, <3>1, CallHops, StepHops, WorldHops
  <2>. QED
    BY <2>1, <2>2, <2>3 DEF Next
<1>4. IInv /\ DeployInv /\ HopInv /\ [Next]_vars =>
        [\A i \in Intents :
           /\ store[i] # None /\ store'[i].state # store[i].state =>
                \E event \in {t[2] : t \in TRANSITIONS} :
                  <<store[i].state, event, store'[i].state>> \in hops[i]
           /\ store[i] = None /\ store'[i] # None => store'[i].state = "CREATED"]_store
  <2>. SUFFICES ASSUME IInv, HopInv, [Next]_vars, NEW i \in Intents
                PROVE  /\ store[i] # None /\ store'[i].state # store[i].state =>
                            \E event \in {t[2] : t \in TRANSITIONS} :
                              <<store[i].state, event, store'[i].state>> \in hops[i]
                       /\ store[i] = None /\ store'[i] # None => store'[i].state = "CREATED"
    OBVIOUS
  <2>1. CASE store'[i] = store[i]
    BY <2>1
  <2>2. ASSUME NEW w \in Workers, Put(w), store'[i] # store[i]
        PROVE  /\ store[i] # None /\ store'[i].state # store[i].state =>
                    \E event \in {t[2] : t \in TRANSITIONS} :
                      <<store[i].state, event, store'[i].state>> \in hops[i]
               /\ store[i] = None /\ store'[i] # None => store'[i].state = "CREATED"
    <3>1. /\ TypeOK /\ i = cur[w] /\ store'[i] = it[w] /\ it[w] \in Intent /\ Busy(w) /\ Owed(w)
      BY <2>2 DEF Put, IInv, Held, TypeOK, Busy, HopInv
    <3>2. \A from, e, to : <<from, e, to>> \in hops[i] =>
             e \in {t[2] : t \in TRANSITIONS} /\ from # "none"
      <4>1. hops[i] \subseteq TRANSITIONS
        BY <3>1 DEF TypeOK
      <4>2. \A from, e, to : <<from, e, to>> \in TRANSITIONS =>
               e \in {t[2] : t \in TRANSITIONS} /\ from # "none"
        BY DEF TRANSITIONS
      <4>. QED
        BY <4>1, <4>2
    <3>3. it[w].state # "none"
      BY <3>1 DEF Intent, State
    <3>4. \/ Saved(i) = it[w].state
          \/ Saved(i) = "none" /\ it[w].state = "CREATED"
          \/ \E e : <<Saved(i), e, it[w].state>> \in hops[i]
      BY <3>1 DEF Owed
    <3>5. CASE store[i] = None
      <4>1. it[w].state = "CREATED"
        BY <3>2, <3>3, <3>4, <3>5 DEF Saved
      <4>. QED
        BY <3>1, <3>5, <4>1
    <3>6. CASE store[i] # None
      <4>1. Saved(i) = store[i].state /\ store[i].state # "none"
        BY <3>1, <3>6 DEF Saved, TypeOK, Intent, State
      <4>2. store[i].state # it[w].state =>
              \E e \in {t[2] : t \in TRANSITIONS} : <<store[i].state, e, it[w].state>> \in hops[i]
        BY <3>2, <3>4, <4>1
      <4>. QED
        BY <3>1, <3>6, <4>2
    <3>. QED
      BY <3>5, <3>6
  <2>3. ASSUME NEW j \in Intents, NEW a \in Action, Tamper(j, a)
        PROVE  \/ store[i] = None /\ store'[i] = None
               \/ store[i] # None /\ store'[i].state = store[i].state
    BY <2>3 DEF Tamper, IInv, TypeOK, Intent
  <2>4. \/ UNCHANGED store
        \/ \E w \in Workers : Put(w)
        \/ \E j \in Intents, a \in Action : Tamper(j, a)
    BY OnlyPutSaves DEF vars
  <2>. QED
    BY <2>1, <2>2, <2>3, <2>4
<1>. QED
  BY <1>1, <1>2, <1>3, <1>4, DeployInductive, Inductive, PTL DEF Spec, SavedHopsAreLogged
============================================================================
