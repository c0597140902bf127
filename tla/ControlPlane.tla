---------------------------- MODULE ControlPlane ----------------------------
(***************************************************************************)
(* The control plane (src/control_plane/plane.py) over a shared Postgres   *)
(* store, run by several workers of several processes at once.             *)
(*                                                                         *)
(* A worker runs one call of the plane at a time.  Every read of the store *)
(* gives it an Intent object of its own (pgstore._to_intent); transition() *)
(* appends to the ledger and changes that object; store.put saves it, the  *)
(* whole row, whatever the row has become meanwhile.  A handler is cut at  *)
(* those points and at the two halves of bank.create_pix: between any two  *)
(* of them another worker may run and the process may die.                 *)
(***************************************************************************)
EXTENDS Integers, FiniteSets, Policy

CONSTANTS
  Intents,          \* ids new_id("pix") hands out
  Conversations,    \* (customer_id, session_id) pairs: a Context's principal
  CustomerOf,       \* the customer of a conversation
  DeviceTrusted,    \* Context.device_trusted of a conversation
  Names,            \* what a customer may call a recipient
  FindContacts,     \* bank.find_contacts: the contacts a name matches
  Recipients,       \* the contact book
  KnownRecipients,  \* paid_before of a fresh bank
  Amounts,          \* amounts, in centavos
  OpeningBalance,   \* balance of a fresh bank
  Processes,        \* servers and operator CLI processes
  Servers,          \* the processes that run the app, its tools and its boot sweep
  SecretOf,         \* the key a process digests actions with
  Workers,          \* threads that run calls
  ProcessOf,        \* the process of a worker
  TTL,              \* CONFIRMATION_TTL, in clock ticks
  MaxTime,          \* bound: the clock stops here
  HourAt,           \* UTC hour of a clock tick
  MaxCrashes,       \* bound on the number of process deaths
  Tampering,        \* may something outside the plane rewrite an action?
  None              \* no value

Never == -1
Times == 0 .. MaxTime
Action == [recipient : Recipients, amount : Amounts]
Digest == [secret : {SecretOf[p] : p \in Processes}, action : Action]

\* What one successful call of the bank returned: the receipt's ids tell calls apart, and
\* here the worker that made the call does.
Receipt == [action : Action, payer : Workers]

State ==
  {"CREATED", "VALIDATED", "AWAITING_STEP_UP", "AWAITING_CONFIRMATION", "AUTHORIZED",
   "SUBMITTED", "PENDING", "COMPLETED", "FAILED", "CANCELLED", "REVERSED", "UNKNOWN"}

TERMINAL == {"COMPLETED", "FAILED", "CANCELLED", "REVERSED"}

\* (from, event, to): the whole machine of state.py.
TRANSITIONS ==
  { <<"CREATED", "validate", "VALIDATED">>,
    <<"CREATED", "reject", "CANCELLED">>,
    <<"VALIDATED", "reject", "CANCELLED">>,
    <<"VALIDATED", "require_step_up", "AWAITING_STEP_UP">>,
    <<"VALIDATED", "await_confirmation", "AWAITING_CONFIRMATION">>,
    <<"AWAITING_STEP_UP", "step_up", "VALIDATED">>,
    <<"AWAITING_STEP_UP", "cancel", "CANCELLED">>,
    <<"AWAITING_CONFIRMATION", "confirm", "AUTHORIZED">>,
    <<"AWAITING_CONFIRMATION", "cancel", "CANCELLED">>,
    <<"AUTHORIZED", "submit", "SUBMITTED">>,
    <<"SUBMITTED", "complete", "COMPLETED">>,
    <<"SUBMITTED", "pend", "PENDING">>,
    <<"SUBMITTED", "fail", "FAILED">>,
    <<"SUBMITTED", "timeout", "UNKNOWN">>,
    <<"PENDING", "complete", "COMPLETED">>,
    <<"PENDING", "fail", "FAILED">>,
    <<"UNKNOWN", "complete", "COMPLETED">>,
    <<"UNKNOWN", "fail", "FAILED">>,
    <<"COMPLETED", "reverse", "REVERSED">> }

\* An Intent.  issued # Never is "has a confirmation_id"; reason is whether one is set.
Intent ==
  [conv      : Conversations,
   action    : Action,
   state     : State,
   assurance : Assurance,
   issued    : Times \cup {Never},
   digest    : Digest \cup {None},
   confirmed : Times \cup {Never},
   receipt   : Receipt \cup {None},
   reason    : BOOLEAN]

Events ==
  {"request", "interpreted", "resolution", "canonical_action", "risk", "policy", "step_up",
   "duplicate_confirmation", "confirmation_expired", "digest_mismatch", "confirmation",
   "authorization", "execution_request", "backend_response", "reconciliation",
   "restart_sweep", "transition_refused"}

\* Where a worker is inside a call; "idle" is between calls.
Pcs ==
  {"idle", "proposed", "decide", "stepping_up", "confirmed", "authorized", "submitted",
   "debited", "paid", "timed_out", "refused", "reconcile", "sweep", "swept", "reason",
   "return"}

ASSUME ConstantsAssumption ==
  /\ CustomerOf \in [Conversations -> {CustomerOf[c] : c \in Conversations}]
  /\ DeviceTrusted \in [Conversations -> BOOLEAN]
  /\ FindContacts \in [Names -> SUBSET Recipients]
  /\ KnownRecipients \subseteq Recipients
  /\ Amounts \subseteq Nat
  /\ OpeningBalance \in Nat
  /\ Servers \subseteq Processes
  /\ ProcessOf \in [Workers -> Processes]
  /\ TTL \in Nat /\ MaxTime \in Nat /\ MaxCrashes \in Nat
  /\ HourAt \in [Times -> 0 .. 23]
  /\ Tampering \in BOOLEAN
  /\ None \notin Intent /\ None \notin Receipt /\ None \notin Digest
  /\ None \notin Intents /\ None \notin Conversations

VARIABLES
  \* Postgres: the intents, the ledger_events (who opened a trail, kinds,
  \* hops, offers, consents), bank_payments
  store, opened, logged, hops, offers, consents, payments,
  \* each process's bank object per conversation: it dies with the process
  balance, paid_before,
  \* the world
  clock, up, crashes, rewritten,
  \* each worker: where it is, for whom, on which intent, its object, whether the object
  \* waits to be put, and what a boot sweep still has to resolve
  pc, caller, cur, it, dirty, stranded

ledger == <<opened, logged, hops, offers, consents>>
durable == <<store, opened, logged, hops, offers, consents, payments>>
bank == <<balance, paid_before>>
world == <<clock, up, crashes, rewritten>>
local == <<pc, caller, cur, it, dirty, stranded>>
vars == <<store, opened, logged, hops, offers, consents, payments, balance, paid_before,
          clock, up, crashes, rewritten, pc, caller, cur, it, dirty, stranded>>

Offer == [action : Action, at : Times]
Consent == [by : Conversations, action : Action, issued : Times, at : Times]

TypeOK ==
  /\ store \in [Intents -> Intent \cup {None}]
  /\ opened \in [Intents -> Conversations \cup {None}]
  /\ logged \in [Intents -> SUBSET Events]
  /\ hops \in [Intents -> SUBSET TRANSITIONS]
  /\ offers \in [Intents -> SUBSET Offer]
  /\ consents \in [Intents -> SUBSET Consent]
  /\ payments \in [Intents -> Receipt \cup {None}]
  /\ balance \in [Processes -> [Conversations -> Int]]
  /\ paid_before \in [Processes -> [Conversations -> SUBSET Recipients]]
  /\ clock \in Times
  /\ up \in [Processes -> BOOLEAN]
  /\ crashes \in 0 .. MaxCrashes
  /\ rewritten \subseteq Intents
  /\ pc \in [Workers -> Pcs]
  /\ caller \in [Workers -> Conversations \cup {None}]
  /\ cur \in [Workers -> Intents \cup {None}]
  /\ it \in [Workers -> Intent \cup {None}]
  /\ dirty \in [Workers -> BOOLEAN]
  /\ stranded \in [Workers -> SUBSET (Intents \X Intent)]

-----------------------------------------------------------------------------
(* Helpers                                                                 *)

Log(i, kinds) == logged' = [logged EXCEPT ![i] = @ \cup kinds]

Goto(w, label) == pc' = [pc EXCEPT ![w] = label]

\* The worker took up a call of conversation c about intent i.
Take(w, c, i) ==
  /\ caller' = [caller EXCEPT ![w] = c]
  /\ cur' = [cur EXCEPT ![w] = i]

\* The worker's object becomes row, and the next thing it does is put it.
Mutate(w, row) ==
  /\ it' = [it EXCEPT ![w] = row]
  /\ dirty' = [dirty EXCEPT ![w] = TRUE]

\* Mutant: the event is looked up by name only, whatever state the row is in.
Move_from_any_state(w, i, row, event) ==
  \E t \in TRANSITIONS :
    /\ t[2] = event
    /\ hops' = [hops EXCEPT ![i] = @ \cup {<<row.state, event, t[3]>>}]
    /\ Mutate(w, [row EXCEPT !.state = t[3]])

\* Mutant: the state changes before the ledger row is written.
Move_silent(w, i, row, event) ==
  \E to \in State :
    /\ <<row.state, event, to>> \in TRANSITIONS
    /\ Mutate(w, [row EXCEPT !.state = to])
    /\ UNCHANGED hops

\* _move up to its put: the ledger row first, then the object's state.
Move(w, i, row, event) ==
  \E to \in State :
    /\ <<row.state, event, to>> \in TRANSITIONS
    /\ hops' = [hops EXCEPT ![i] = @ \cup {<<row.state, event, to>>}]
    /\ Mutate(w, [row EXCEPT !.state = to])

\* The worker is at label, and what it mutated is saved.
At(w, label) == pc[w] = label /\ ~dirty[w]

OnServer(w) == ProcessOf[w] \in Servers

\* A request can be taken up: the process has booted and the worker is free.
Free(w) == pc[w] = "idle" /\ up[ProcessOf[w]]

\* Mutant: a key drawn when the process starts.
action_digest_per_start(p, action) == [secret |-> crashes, action |-> action]

action_digest(p, action) == [secret |-> SecretOf[p], action |-> action]

expired(row) == row.issued # Never /\ clock - row.issued > TTL

owned_by_customer(c, i) ==
  store[i] # None /\ CustomerOf[store[i].conv] = CustomerOf[c]

by_confirmation(c, i) ==
  store[i] # None /\ store[i].issued # Never /\ store[i].conv = c

new_intent(c, action) ==
  [conv |-> c, action |-> action, state |-> "CREATED", assurance |-> "medium",
   issued |-> Never, digest |-> None, confirmed |-> Never, receipt |-> None,
   reason |-> FALSE]

fresh_balance == [c \in Conversations |-> OpeningBalance]
fresh_paid_before == [c \in Conversations |-> KnownRecipients]

-----------------------------------------------------------------------------
Init ==
  /\ store = [i \in Intents |-> None]
  /\ opened = [i \in Intents |-> None]
  /\ logged = [i \in Intents |-> {}]
  /\ hops = [i \in Intents |-> {}]
  /\ offers = [i \in Intents |-> {}]
  /\ consents = [i \in Intents |-> {}]
  /\ payments = [i \in Intents |-> None]
  /\ balance = [p \in Processes |-> fresh_balance]
  /\ paid_before = [p \in Processes |-> fresh_paid_before]
  /\ clock = 0
  /\ up = [p \in Processes |-> p \notin Servers]
  /\ crashes = 0
  /\ rewritten = {}
  /\ pc = [w \in Workers |-> "idle"]
  /\ caller = [w \in Workers |-> None]
  /\ cur = [w \in Workers |-> None]
  /\ it = [w \in Workers |-> None]
  /\ dirty = [w \in Workers |-> FALSE]
  /\ stranded = [w \in Workers |-> {}]

\* store.put: the worker's whole object replaces the row.
Put(w) ==
  /\ dirty[w]
  /\ store' = [store EXCEPT ![cur[w]] = it[w]]
  /\ dirty' = [dirty EXCEPT ![w] = FALSE]
  /\ UNCHANGED <<ledger, payments, bank, world, pc, caller, cur, it, stranded>>

\* The call returns its Outcome.
Return(w) ==
  /\ At(w, "return")
  /\ Goto(w, "idle")
  /\ caller' = [caller EXCEPT ![w] = None]
  /\ cur' = [cur EXCEPT ![w] = None]
  /\ it' = [it EXCEPT ![w] = None]
  /\ UNCHANGED <<durable, bank, world, dirty, stranded>>

\* The tail several handlers share: intent.reason = ...; store.put(intent).
SetReason(w) ==
  /\ At(w, "reason")
  /\ Mutate(w, [it[w] EXCEPT !.reason = TRUE])
  /\ Goto(w, "return")
  /\ UNCHANGED <<durable, bank, world, caller, cur, stranded>>

-----------------------------------------------------------------------------
(* propose                                                                 *)

\* The trail of a new id is opened by its request, which says who asks.
Request(c, i) ==
  /\ opened' = [opened EXCEPT ![i] = c]
  /\ Log(i, {"request", "interpreted", "resolution"})

\* A name that is not exactly one contact is a question, never an intent.
AskWhichContact(w, c, i, name) ==
  /\ Free(w) /\ OnServer(w)
  /\ opened[i] = None
  /\ Cardinality(FindContacts[name]) # 1
  /\ Request(c, i)
  /\ UNCHANGED <<store, hops, offers, consents, payments, bank, world, local>>

\* Exactly one contact: the canonical action is built and the intent created.
Propose(w, c, i, name, amount) ==
  /\ Free(w) /\ OnServer(w)
  /\ opened[i] = None
  /\ \E recipient \in Recipients :
       /\ FindContacts[name] = {recipient}
       /\ Mutate(w, new_intent(c, [recipient |-> recipient, amount |-> amount]))
  /\ Request(c, i)
  /\ Take(w, c, i)
  /\ Goto(w, "proposed")
  /\ UNCHANGED <<store, hops, offers, consents, payments, bank, world, stranded>>

funded(w) == balance[ProcessOf[w]][caller[w]] >= it[w].action.amount

\* Preconditions hold: validate.  The reason of a rejection is set after the put and
\* reaches no store, so both branches leave reason alone.
CheckPreconditions(w) ==
  /\ At(w, "proposed")
  /\ Log(cur[w], {"canonical_action"})
  /\ \/ /\ funded(w)
        /\ Move(w, cur[w], it[w], "validate")
        /\ Goto(w, "decide")
     \/ /\ ~funded(w)
        /\ Move(w, cur[w], it[w], "reject")
        /\ Goto(w, "return")
  /\ UNCHANGED <<store, opened, offers, consents, payments, bank, world, caller, cur, stranded>>

-----------------------------------------------------------------------------
(* _decide and _apply                                                      *)

verdict(w) ==
  LET row  == it[w]
      risk == assess_risk(row.action, DeviceTrusted[row.conv],
                          paid_before[ProcessOf[w]][caller[w]])
  IN  evaluate(row.action, row.assurance, risk, HourAt[clock])

\* A denial; the verdict ALLOW, which no rule gives for a PIX, has no path either.
Reject(w) ==
  /\ verdict(w) \in {"DENY", "ALLOW"}
  /\ Move(w, cur[w], it[w], "reject")
  /\ Goto(w, "reason")
  /\ UNCHANGED offers

RequireStepUp(w) ==
  /\ verdict(w) = "REQUIRE_STEP_UP_AUTH"
  /\ Move(w, cur[w], it[w], "require_step_up")
  /\ Goto(w, "return")
  /\ UNCHANGED offers

\* The token is issued, sealed to the action as it is now; the ledger row of the hop
\* carries the digest and the time, which is what offers keeps.
IssueConfirmation(w) ==
  LET row == [it[w] EXCEPT !.issued = clock,
                           !.digest = action_digest(ProcessOf[w], it[w].action)]
  IN  /\ verdict(w) = "REQUIRE_CONFIRMATION"
      /\ offers' = [offers EXCEPT ![cur[w]] = @ \cup {[action |-> row.action, at |-> clock]}]
      /\ Move(w, cur[w], row, "await_confirmation")
      /\ Goto(w, "return")

Decide(w) ==
  /\ At(w, "decide")
  /\ Log(cur[w], {"risk", "policy"})
  /\ Reject(w) \/ RequireStepUp(w) \/ IssueConfirmation(w)
  /\ UNCHANGED <<store, opened, consents, payments, bank, world, caller, cur, stranded>>

-----------------------------------------------------------------------------
(* step_up: only the operator CLI reaches it                               *)

StepUp(w, c, i) ==
  /\ Free(w) /\ ~OnServer(w)
  /\ owned_by_customer(c, i)
  /\ store[i].state = "AWAITING_STEP_UP"
  /\ Take(w, c, i)
  /\ Mutate(w, [store[i] EXCEPT !.assurance = "strong"])
  /\ Goto(w, "stepping_up")
  /\ UNCHANGED <<durable, bank, world, stranded>>

\* Mutant: the customer's authentication leaves no ledger row.
FinishStepUp_unlogged(w) ==
  /\ At(w, "stepping_up")
  /\ Move(w, cur[w], it[w], "step_up")
  /\ Goto(w, "decide")
  /\ UNCHANGED <<store, opened, logged, offers, consents, payments, bank, world, caller, cur,
                 stranded>>

FinishStepUp(w) ==
  /\ At(w, "stepping_up")
  /\ Log(cur[w], {"step_up"})
  /\ Move(w, cur[w], it[w], "step_up")
  /\ Goto(w, "decide")
  /\ UNCHANGED <<store, opened, offers, consents, payments, bank, world, caller, cur, stranded>>

-----------------------------------------------------------------------------
(* confirm                                                                 *)

\* The agent repeated itself: the ledger says so, nothing else changes.
DuplicateConfirmation(w, c, i) ==
  /\ Free(w) /\ OnServer(w)
  /\ by_confirmation(c, i)
  /\ store[i].state \in {"COMPLETED", "SUBMITTED", "PENDING", "UNKNOWN"}
  /\ Log(i, {"duplicate_confirmation"})
  /\ UNCHANGED <<store, opened, hops, offers, consents, payments, bank, world, local>>

confirmable(c, i) == by_confirmation(c, i) /\ store[i].state = "AWAITING_CONFIRMATION"

ConfirmExpired(w, c, i) ==
  /\ Free(w) /\ OnServer(w)
  /\ confirmable(c, i)
  /\ expired(store[i])
  /\ Log(i, {"confirmation_expired"})
  /\ Take(w, c, i)
  /\ Move(w, i, store[i], "cancel")
  /\ Goto(w, "reason")
  /\ UNCHANGED <<store, opened, offers, consents, payments, bank, world, stranded>>

\* Mutant: the digest is not compared.
digest_unchecked(p, row) == TRUE

digest_matches(p, row) == action_digest(p, row.action) = row.digest

DigestMismatch(w, c, i) ==
  /\ Free(w) /\ OnServer(w)
  /\ confirmable(c, i)
  /\ ~expired(store[i])
  /\ ~digest_matches(ProcessOf[w], store[i])
  /\ Log(i, {"digest_mismatch"})
  /\ UNCHANGED <<store, opened, hops, offers, consents, payments, bank, world, local>>

\* Every check passed on the row as it was read.
Confirm(w, c, i) ==
  /\ Free(w) /\ OnServer(w)
  /\ confirmable(c, i)
  /\ ~expired(store[i])
  /\ digest_matches(ProcessOf[w], store[i])
  /\ Take(w, c, i)
  /\ Mutate(w, [store[i] EXCEPT !.confirmed = clock])
  /\ Goto(w, "confirmed")
  /\ UNCHANGED <<durable, bank, world, stranded>>

\* Mutant: the confirmation row is not written.
Authorize_unrecorded(w) ==
  /\ At(w, "confirmed")
  /\ Move(w, cur[w], it[w], "confirm")
  /\ Goto(w, "authorized")
  /\ UNCHANGED <<store, opened, logged, offers, consents, payments, bank, world, caller, cur,
                 stranded>>

Authorize(w) ==
  /\ At(w, "confirmed")
  /\ Log(cur[w], {"confirmation"})
  /\ consents' = [consents EXCEPT ![cur[w]] = @ \cup
       {[by |-> caller[w], action |-> it[w].action,
         issued |-> it[w].issued, at |-> it[w].confirmed]}]
  /\ Move(w, cur[w], it[w], "confirm")
  /\ Goto(w, "authorized")
  /\ UNCHANGED <<store, opened, offers, payments, bank, world, caller, cur, stranded>>

-----------------------------------------------------------------------------
(* _execute and bank.create_pix: the only place money moves                *)

Submit(w) ==
  /\ At(w, "authorized")
  /\ Log(cur[w], {"authorization"})
  /\ Move(w, cur[w], it[w], "submit")
  /\ Goto(w, "submitted")
  /\ UNCHANGED <<store, opened, offers, consents, payments, bank, world, caller, cur, stranded>>

\* Mutant: the request to the bank is logged after the bank is called, not before.
Debit_unlogged(w) ==
  /\ At(w, "submitted")
  /\ payments[cur[w]] = None /\ funded(w)
  /\ Goto(w, "debited")
  /\ UNCHANGED <<durable, bank, world, caller, cur, it, dirty, stranded>>

\* create_pix, first half: the key is looked up, the balance checked and debited in memory.
Debit(w) ==
  LET p == ProcessOf[w]  c == caller[w]  a == it[w].action IN
  /\ At(w, "submitted")
  /\ Log(cur[w], {"execution_request"})
  /\ \/ /\ payments[cur[w]] # None
        /\ Goto(w, "paid")
        /\ UNCHANGED bank
     \/ /\ payments[cur[w]] = None
        /\ ~funded(w)
        /\ Goto(w, "refused")
        /\ UNCHANGED bank
     \/ /\ payments[cur[w]] = None
        /\ funded(w)
        /\ balance' = [balance EXCEPT ![p][c] = @ - a.amount]
        /\ paid_before' = [paid_before EXCEPT ![p][c] = @ \cup {a.recipient}]
        /\ Goto(w, "debited")
  /\ UNCHANGED <<store, opened, hops, offers, consents, payments, world, caller, cur, it, dirty,
                 stranded>>

\* Amounts ending in ,13 pay and then do not answer.
tripwire(amount) == amount % 100 = 13

\* Mutant: INSERT ... ON CONFLICT DO UPDATE.
Pay_again(w) ==
  /\ At(w, "debited")
  /\ payments' = [payments EXCEPT ![cur[w]] = [action |-> it[w].action, payer |-> w]]
  /\ Goto(w, "paid")
  /\ UNCHANGED <<store, ledger, bank, world, caller, cur, it, dirty, stranded>>

\* create_pix, second half: INSERT ... ON CONFLICT DO NOTHING, then the answer.
Pay(w) ==
  LET receipt == [action |-> it[w].action, payer |-> w] IN
  /\ At(w, "debited")
  /\ payments' = [payments EXCEPT ![cur[w]] = IF @ = None THEN receipt ELSE @]
  /\ Goto(w, IF tripwire(it[w].action.amount) THEN "timed_out" ELSE "paid")
  /\ UNCHANGED <<store, ledger, bank, world, caller, cur, it, dirty, stranded>>

Complete(w) ==
  /\ At(w, "paid")
  /\ Log(cur[w], {"backend_response"})
  /\ Move(w, cur[w], [it[w] EXCEPT !.receipt = payments[cur[w]]], "complete")
  /\ Goto(w, "return")
  /\ UNCHANGED <<store, opened, offers, consents, payments, bank, world, caller, cur, stranded>>

TimeOut(w) ==
  /\ At(w, "timed_out")
  /\ Log(cur[w], {"backend_response"})
  /\ Move(w, cur[w], it[w], "timeout")
  /\ Goto(w, "return")
  /\ UNCHANGED <<store, opened, offers, consents, payments, bank, world, caller, cur, stranded>>

\* The bank's refusal is put with the state; the reason, set after, is not.
Fail(w) ==
  /\ At(w, "refused")
  /\ Log(cur[w], {"backend_response"})
  /\ Move(w, cur[w], it[w], "fail")
  /\ Goto(w, "return")
  /\ UNCHANGED <<store, opened, offers, consents, payments, bank, world, caller, cur, stranded>>

-----------------------------------------------------------------------------
(* cancel                                                                  *)

Cancel(w, c, i) ==
  /\ Free(w) /\ OnServer(w)
  /\ by_confirmation(c, i)
  /\ Take(w, c, i)
  /\ Move(w, i, store[i], "cancel")
  /\ Goto(w, "reason")
  /\ UNCHANGED <<store, opened, logged, offers, consents, payments, bank, world, stranded>>

\* IllegalTransition: no cancel edge leaves the state the row is in.
CancelRefused(w, c, i) ==
  /\ Free(w) /\ OnServer(w)
  /\ by_confirmation(c, i)
  /\ ~\E to \in State : <<store[i].state, "cancel", to>> \in TRANSITIONS
  /\ Log(i, {"transition_refused"})
  /\ UNCHANGED <<store, opened, hops, offers, consents, payments, bank, world, local>>

-----------------------------------------------------------------------------
(* reconcile                                                               *)

Reconcile(w, c, i) ==
  /\ Free(w)
  /\ owned_by_customer(c, i)
  /\ store[i].state = "UNKNOWN"
  /\ Take(w, c, i)
  /\ it' = [it EXCEPT ![w] = store[i]]
  /\ Goto(w, "reconcile")
  /\ UNCHANGED <<durable, bank, world, dirty, stranded>>

\* Mutant: what the bank did not record is executed again.
AskBank_or_retry(w) ==
  /\ At(w, "reconcile")
  /\ Goto(w, IF payments[cur[w]] = None THEN "submitted" ELSE "paid")
  /\ UNCHANGED <<durable, bank, world, caller, cur, it, dirty, stranded>>

\* The bank is asked by idempotency key.
AskBank(w) ==
  /\ At(w, "reconcile")
  /\ Log(cur[w], {"reconciliation"})
  /\ \/ /\ payments[cur[w]] = None
        /\ Move(w, cur[w], it[w], "fail")
        /\ Goto(w, "reason")
     \/ /\ payments[cur[w]] # None
        /\ Move(w, cur[w], [it[w] EXCEPT !.receipt = payments[cur[w]]], "complete")
        /\ Goto(w, "return")
  /\ UNCHANGED <<store, opened, offers, consents, payments, bank, world, caller, cur, stranded>>

-----------------------------------------------------------------------------
(* sweep, at the boot of a server; a CLI process boots without one         *)

\* Mutant: the server boots without a sweep.
Boot_unswept(w) ==
  /\ OnServer(w) /\ ~up[ProcessOf[w]]
  /\ Goto(w, "sweep")
  /\ UNCHANGED <<durable, bank, world, caller, cur, it, dirty, stranded>>

Boot(w) ==
  LET p == ProcessOf[w] IN
  /\ OnServer(w)
  /\ ~up[p]
  /\ \A v \in Workers : ProcessOf[v] = p => pc[v] = "idle"
  /\ stranded' = [stranded EXCEPT ![w] =
       {<<i, store[i]>> : i \in {j \in Intents : store[j] # None
                                                  /\ store[j].state = "SUBMITTED"}}]
  /\ Goto(w, "sweep")
  /\ UNCHANGED <<durable, bank, world, caller, cur, it, dirty>>

\* Mutant: a payment without an answer is called a failed payment.
SweepOne_as_failed(w) ==
  /\ At(w, "sweep")
  /\ \E s \in stranded[w] :
       /\ cur' = [cur EXCEPT ![w] = s[1]]
       /\ Log(s[1], {"restart_sweep"})
       /\ Move(w, s[1], s[2], "fail")
       /\ stranded' = [stranded EXCEPT ![w] = @ \ {s}]
  /\ Goto(w, "swept")
  /\ UNCHANGED <<store, opened, offers, consents, payments, bank, world, caller>>

SweepOne(w) ==
  /\ At(w, "sweep")
  /\ \E s \in stranded[w] :
       /\ cur' = [cur EXCEPT ![w] = s[1]]
       /\ Log(s[1], {"restart_sweep"})
       /\ Move(w, s[1], s[2], "timeout")
       /\ stranded' = [stranded EXCEPT ![w] = @ \ {s}]
  /\ Goto(w, "swept")
  /\ UNCHANGED <<store, opened, offers, consents, payments, bank, world, caller>>

SweepReason(w) ==
  /\ At(w, "swept")
  /\ Mutate(w, [it[w] EXCEPT !.reason = TRUE])
  /\ Goto(w, "sweep")
  /\ UNCHANGED <<durable, bank, world, caller, cur, stranded>>

Serve(w) ==
  /\ At(w, "sweep")
  /\ stranded[w] = {}
  /\ up' = [up EXCEPT ![ProcessOf[w]] = TRUE]
  /\ Goto(w, "idle")
  /\ cur' = [cur EXCEPT ![w] = None]
  /\ it' = [it EXCEPT ![w] = None]
  /\ UNCHANGED <<durable, bank, clock, crashes, rewritten, caller, dirty, stranded>>

Invoke(p) ==
  /\ p \in Processes \ Servers
  /\ ~up[p]
  /\ up' = [up EXCEPT ![p] = TRUE]
  /\ UNCHANGED <<durable, bank, clock, crashes, rewritten, local>>

-----------------------------------------------------------------------------
(* The world                                                               *)

\* A process dies: its workers' calls, their objects and its bank objects are gone.
Crash(p) ==
  /\ crashes < MaxCrashes
  /\ up[p] \/ \E w \in Workers : ProcessOf[w] = p /\ pc[w] # "idle"
  /\ crashes' = crashes + 1
  /\ up' = [up EXCEPT ![p] = FALSE]
  /\ pc' = [w \in Workers |-> IF ProcessOf[w] = p THEN "idle" ELSE pc[w]]
  /\ caller' = [w \in Workers |-> IF ProcessOf[w] = p THEN None ELSE caller[w]]
  /\ cur' = [w \in Workers |-> IF ProcessOf[w] = p THEN None ELSE cur[w]]
  /\ it' = [w \in Workers |-> IF ProcessOf[w] = p THEN None ELSE it[w]]
  /\ dirty' = [w \in Workers |-> IF ProcessOf[w] = p THEN FALSE ELSE dirty[w]]
  /\ stranded' = [w \in Workers |-> IF ProcessOf[w] = p THEN {} ELSE stranded[w]]
  /\ balance' = [balance EXCEPT ![p] = fresh_balance]
  /\ paid_before' = [paid_before EXCEPT ![p] = fresh_paid_before]
  /\ UNCHANGED <<durable, clock, rewritten>>

Tick ==
  /\ clock < MaxTime
  /\ clock' = clock + 1
  /\ UNCHANGED <<durable, bank, up, crashes, rewritten, local>>

\* Something that can write the intents table, and has no digest key, rewrites an action
\* (once per intent: a bound).
Tamper(i, action) ==
  /\ Tampering
  /\ store[i] # None
  /\ i \notin rewritten
  /\ store[i].action # action
  /\ store' = [store EXCEPT ![i].action = action]
  /\ rewritten' = rewritten \cup {i}
  /\ UNCHANGED <<ledger, payments, bank, clock, up, crashes, local>>

-----------------------------------------------------------------------------
\* A worker taking up a request.
Call(w) ==
  \E c \in Conversations, i \in Intents :
       \/ \E name \in Names : AskWhichContact(w, c, i, name)
       \/ \E name \in Names, amount \in Amounts : Propose(w, c, i, name, amount)
       \/ StepUp(w, c, i)
       \/ DuplicateConfirmation(w, c, i)
       \/ ConfirmExpired(w, c, i)
       \/ DigestMismatch(w, c, i)
       \/ Confirm(w, c, i)
       \/ Cancel(w, c, i)
       \/ CancelRefused(w, c, i)
       \/ Reconcile(w, c, i)

\* A worker going on with the call, or the boot, it is in.
Step(w) ==
  \/ Put(w)
  \/ SetReason(w)
  \/ Return(w)
  \/ CheckPreconditions(w)
  \/ Decide(w)
  \/ FinishStepUp(w)
  \/ Authorize(w)
  \/ Submit(w)
  \/ Debit(w)
  \/ Pay(w)
  \/ Complete(w)
  \/ TimeOut(w)
  \/ Fail(w)
  \/ AskBank(w)
  \/ SweepOne(w)
  \/ SweepReason(w)
  \/ Serve(w)

Environment ==
  \/ \E p \in Processes : Crash(p)
  \/ \E p \in Processes : Invoke(p)
  \/ \E i \in Intents, action \in Action : Tamper(i, action)
  \/ Tick

Next ==
  \/ \E w \in Workers : Call(w)
  \/ \E w \in Workers : Step(w)
  \/ \E w \in Workers : Boot(w)
  \/ Environment

Spec == Init /\ [][Next]_vars

\* A running thread is scheduled, and a dead server is started again.
Fairness ==
  /\ \A w \in Workers : WF_vars(Step(w))
  /\ \A p \in Servers : WF_vars(\E w \in Workers : ProcessOf[w] = p /\ Boot(w))

FairSpec == Spec /\ Fairness

-----------------------------------------------------------------------------
(* What holds however many workers and processes run                       *)

paid(i) == payments[i] # None

in_state(i, state) == store[i] # None /\ store[i].state = state

\* I2 and I3, whoever races: money moved only by a yes said in the conversation that
\* asked for it, no older than the TTL of a token issued for that very action, and
\* the bank was given that action (confirm 269-333, _execute 490-518).
PaidByConsent ==
  \A i \in Intents : paid(i) =>
    \E c \in consents[i], o \in offers[i] :
      /\ c.by = opened[i]
      /\ c.action = payments[i].action /\ o.action = payments[i].action
      /\ o.at = c.issued
      /\ c.at - c.issued \in 0 .. TTL

\* I1 at the book: what one key paid is never paid again, replaced or forgotten
\* (create_pix: ON CONFLICT DO NOTHING).
PaidOnce ==
  [][\A i \in Intents : paid(i) => payments'[i] = payments[i]]_payments

\* I2: no payment above the channel ceiling, and none above STEP_UP_ABOVE that an
\* out-of-band authentication of that intent did not precede (step_up, evaluate).
LargePaymentsAuthenticated ==
  \A i \in Intents : paid(i) =>
    /\ payments[i].action.amount <= HARD_LIMIT
    /\ payments[i].action.amount > STEP_UP_ABOVE => "step_up" \in logged[i]

\* The crash window is bracketed: before money moves the ledger holds the consent, the
\* submission and the request to the bank, so a dead process leaves evidence
\* (README: execution_request is written before the bank call).
EvidenceBeforeMoney ==
  \A i \in Intents : paid(i) =>
    /\ {"confirmation", "authorization", "execution_request"} \subseteq logged[i]
    /\ <<"AUTHORIZED", "submit", "SUBMITTED">> \in hops[i]

\* The operator's process has another digest key than a server.
TwoKeys == \E p \in Processes \ Servers, q \in Servers : SecretOf[p] # SecretOf[q]

\* A digest mismatch has a cause: something did rewrite the action, or the token was issued
\* to an intent the operator stepped up under another key than the servers'.  No restart, no
\* other server, no sweep and no stale copy that is saved over a row spoils a confirmation,
\* and a step-up spoils none when the keys are one (action_digest, plane.py 106-114).
MismatchHasACause ==
  \A i \in Intents : "digest_mismatch" \in logged[i] =>
    i \in rewritten \/ (TwoKeys /\ "step_up" \in logged[i])

actions_of(events) == {e.action : e \in events}

\* The promise, read off the ledger and the bank's book.
Promise == INSTANCE ConsentedPayment WITH
  Actions <- Action, Receipts <- Receipt,
  Ceiling <- HARD_LIMIT, StepUpAbove <- STEP_UP_ABOVE,
  authenticated <- {i \in Intents : "step_up" \in logged[i]},
  offered <- [i \in Intents |-> actions_of(offers[i])],
  agreed <- [i \in Intents |-> actions_of(consents[i])],
  moved <- payments

\* Every deployment implements the promise.
KeepsThePromise == Promise!Spec

-----------------------------------------------------------------------------
(* What holds when one server runs one call at a time, with crashes and    *)
(* the operator CLI beside it                                              *)

\* I1, I4 and I5: what the store tells the customer about a settled intent is what the
\* bank's book says, and money that moved is never filed where nobody looks for it.
AnswersMatchTheBook ==
  \A i \in Intents :
    IF paid(i)
    THEN /\ store[i].state \in {"SUBMITTED", "UNKNOWN", "COMPLETED"}
         /\ store[i].state = "COMPLETED" => store[i].receipt = payments[i]
    ELSE store[i] # None => store[i].state # "COMPLETED"

\* I5: once an intent is UNKNOWN nothing pays it any more; only the book is asked.
UnknownIsNeverRepaid ==
  [][\A i \in Intents :
       <<"SUBMITTED", "timeout", "UNKNOWN">> \in hops[i] => payments'[i] = payments[i]]_vars

\* The saved state changes only along an edge of TRANSITIONS that the ledger already
\* holds; in particular a terminal state is final, and no hop is silent (_move, transition).
SavedHopsAreLogged ==
  [][\A i \in Intents :
       /\ store[i] # None /\ store'[i].state # store[i].state =>
            \E event \in {t[2] : t \in TRANSITIONS} :
              <<store[i].state, event, store'[i].state>> \in hops[i]
       /\ store[i] = None /\ store'[i] # None => store'[i].state = "CREATED"]_store

\* The boot sweep leaves no call to the bank unanswered: a server that is up and idle has
\* nothing of its own in SUBMITTED.
NothingLeftSubmitted ==
  \A i \in Intents :
    /\ \A p \in Servers : up[p]
    /\ \A w \in Workers : OnServer(w) => pc[w] = "idle"
    => ~in_state(i, "SUBMITTED")

\* Whatever crashes, a submitted intent does not stay submitted: the bank's answer, or
\* the sweep of the next boot, moves it on.
SubmittedIsResolved ==
  \A i \in Intents :
    in_state(i, "SUBMITTED") ~> ~in_state(i, "SUBMITTED")
=============================================================================
