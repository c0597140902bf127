# A verification project for the banking agent's control plane

TLA+ models of `banking-agent-control-plane`, checked with TLC on small
instances, and theorems about them proved with TLAPS for every value of the
constants. Paths below are those of the repository.

## 1. The system

A language model talks to a bank's customer and may *propose* payments (PIX);
whether one runs is decided by code it cannot reach, the **control plane**.
A payment is an *intent* with a life cycle kept in Postgres; consent is a
confirmation token sealed (HMAC) to one exact action and good for five minutes;
the bank is asked to pay with the intent's id as the idempotency key.

| Component | Source | State it keeps | Operations |
|---|---|---|---|
| Control plane | `src/control_plane/plane.py`, `state.py` | none of its own: the intent object a call holds | `query`, `propose`, `step_up`, `confirm`, `cancel`, `reconcile`, `sweep`, `status`, `explain` |
| Store | `store.py` (protocol, memory), `pgstore.py` | rows of `intents`, append-only `ledger_events` | `get`, `by_confirmation`, `unsettled`, `put`, `append`, `events_for` |
| Bank | `bank.py` (mock), `pgbank.py` (shared book) | balance and `paid_before` per conversation, in memory; `bank_payments` in Postgres | `create_pix`, `payment`, `find_contacts`, `balance` |
| Risk and policy | `policy.py`, `actions.py` | none | `assess_risk`, `evaluate` |
| Banking tools | `examples/banking/tools.py`, `agent.py` | one plane (and bank) per conversation | seven tools; the boot sweep |
| Operator CLI | `src/trail/cli.py` | a process of its own, with its own bank object and digest key | `intents`, `step-up`, `reconcile` (also `chat`, `eval`, `invoke`) |
| Thread index and HTTP endpoints | `src/trail/app.py`, `runtime/threads.py` | one record per conversation; checkpoints | open, turn (streamed or buffered), list, read, delete |
| Turn runner, guards, trace | `runtime/turns.py`, `middleware/*.py` | the frames of one turn | input gate, model, tools, output gate |
| Identity | `identity.py`, `jwt_identity.py` | none | header or token to customer id, or nobody |
| Evaluation harness | `src/trail/evals/*`, `cli.py` (`eval`), `examples/banking/golden.py` | one conversation per case while it is driven; `eval_runs` and `eval_findings` | drive the cases, check and judge, score, compare, save, report |
| Web page | `ui/src/app.tsx`, `api.ts`, `state.ts`, `components/` | session, conversation on screen, its entries, the list, whether the composer is busy | sign in, open, pick, remove, send; list refreshes; sign-out on 401 |
| Infrastructure, `trail_guide` | `infra-cdk/`, `examples/trail_guide/` | | |

**How they interact.** An HTTP request runs one turn of the agent; the model's
tool calls run on threads, several at once if it asks for several; a tool takes
the conversation's plane and makes one call of it. Every server process and
every CLI process has planes of its own and all share Postgres. A plane call
reads its row once, then goes back and forth between `ledger_events` (an append,
committed on its own), `intents` (a `put` that upserts the *whole* row,
whatever it holds by then) and the bank; there is no transaction and no lock
around a call. At boot a server sweeps `SUBMITTED` intents before it serves.
The AWS deployment (`docs/adr/0004-*`) runs one microVM per session, so servers
boot, and sweep, while others are in the middle of calls. The page talks to the
service over HTTP only, with every request asynchronous and none cancelled; the
evaluation drives the same endpoints, several cases at once, and then Postgres.

**What is hard in it.** Calls interleave at every put; a process may die between
any two of them; the bank may pay and not answer; a sweep cannot tell a dead
worker from a slow one; the step-up, the confirmation and the reconciliation of
one intent come from different processes; policy depends on the hour. A page has
several requests in flight and each answer lands on whatever is shown by then. A
case of an evaluation may break at any turn, and what it had found must still be
counted. The hazards, each at its line, are the list `hazards` of `PROJECT.json`.

**What makes each component correct.** The plane: the invariants I1-I5 of
`docs/threat-model.md` (never pay twice; never without authorization; never
another action than the one agreed to; stop on ambiguity; ask the bank when
unknown), and that what the store says matches what the bank did. The store:
no hop unrecorded. The bank: one payment per key, once and for all. Policy: the
README's table, with no denial hidden behind a step-up. The conversations: each
is its owner's, and one in which a turn was carried through is listed. The page:
one turn at a time, and on screen what was said in the conversation it names. An
evaluation: every case counts, whatever broke, and a green exit code means it.

## 2. The modules

| Module | Models |
|---|---|
| `Policy` | `policy.py` as operators: signals and score, night on a Sao Paulo clock, the ordered rules. Amounts are centavos, the score is in tenths, an instant is its UTC hour. |
| `PolicyTable` | A customer, a device and an amount meeting the policy over hours, step-ups and repeated payments. The table of the repository's README is stated beside it. |
| `PolicyProofs` | Proofs about `PolicyTable`. |
| `ControlPlane` | The plane, its tools and boot sweep, the operator CLI, `PgStore`, `PgBank`, process death, the clock, and a foreign writer of the intents table. |
| `ConsentedPayment` | What the plane promises about money, in four actions: authenticate, offer, agree, move. |
| `PlaneInductive` | The inductive invariant `IInv` behind the theorems. |
| `PlaneClaims` | Statements the repository makes that the code over a shared store does not keep; one run each. |
| `MCControlPlane` | The instances TLC runs. |
| `Threads` | The conversations: the index of `threads.py` beside the checkpointer, and the requests of `app.py` that open, speak in and delete them. |
| `MCThreads` | The instance TLC runs. |
| `ThreadsProofs` | Proofs about `Threads`. |
| `Turn` | A turn: `turns.py` driving the agent graph, both gates and the trace middleware in every guardrail mode, the frames it yields and their fold in the client. |
| `MCTurn`, `TurnProofs` | The instance TLC runs; proofs about `Turn`. |
| `Page` | The web page and its requests, from being sent to being served to landing, with what the service makes of each and of the identity it carries. |
| `MCPage`, `PageProofs` | The instance TLC runs; proofs about `Page`. |
| `Scoring` | What a check finds in an answer, `metrics.py` and the comparison with a baseline, as operators over fractions. |
| `Golden` | The banking golden set: turns, checks and bars. |
| `EvalRun` | One evaluation: the runner's cases, then scoring, comparing, saving and reporting (`runner.py`, `store.py`, `cli.py`). |
| `MCEvalRun`, `EvalProofs` | The instances TLC runs; proofs about `EvalRun`. |
| `PlaneStepProofs`, `PlaneTheorems` | Proofs: types and the inductive step, action by action; the theorems. |
| `PlaneDeploymentProofs` | Proofs of what holds because of the deployment: one digest key on the servers; one server worker with one operator beside it; one worker. |

`ControlPlane` uses `Policy`; it implements `ConsentedPayment`
(`Promise == INSTANCE ConsentedPayment WITH ...`: authenticated intents, offers
and consents are read off the ledger, money moved is the bank's book). `Threads`
stands beside it: a turn runs the agent, and through it the plane, but shares
no state with it. `Turn` looks into what is one step (`RunTurn`) in `Threads` and
one set of calls in `ControlPlane`. `Page` and `EvalRun` are the two clients of those
endpoints; each has the service's part as seen from outside. `EvalRun` uses
`Scoring`, and its instances take their cases from `Golden`.

### State and steps of `ControlPlane`

`store[i]` is the row of intent `i`; `opened`, `logged`, `hops`, `offers`,
`consents` are what its ledger rows say (who opened the trail, which kinds of
event, which transitions, what each token was issued for and when, who agreed
to what and when); `payments` is `bank_payments`. `balance` and `paid_before`
belong to a process and a conversation and die with the process. Each worker
`w` has `pc[w]`, its `caller`, the intent `cur[w]` and **its own object**
`it[w]` (every read of the store builds a new one, `_to_intent`); `dirty[w]`
says that the object has changed and the `put` is the next thing to happen.

A call is cut where another worker can see or change something:

* the read and the checks that open it (`Confirm`, `Cancel`, `StepUp`, ...);
* every `store.put` (`Put`), so a crash or another worker fits before each;
* the two halves of `create_pix`: `Debit` (key lookup, balance check, in-memory
  debit) and `Pay` (the insert, and the answer or its absence);
* the bank query of `reconcile` (`AskBank`); each intent of a `sweep`, with its
  first and its second put.

Correspondence, handler by handler:

| Code | Steps |
|---|---|
| `propose` | `AskWhichContact`, or `Propose` . put . `CheckPreconditions` . put . `Decide` . put |
| `step_up` | `StepUp` . put . `FinishStepUp` . put . `Decide` . put |
| `confirm` | `DuplicateConfirmation`; `ConfirmExpired` . put . `SetReason` . put; `DigestMismatch`; or `Confirm` . put . `Authorize` . put . `Submit` . put . `Debit` . `Pay` . then `Complete`, `TimeOut` or `Fail` . put |
| `cancel` | `Cancel` . put . `SetReason` . put, or `CancelRefused` |
| `reconcile` | `Reconcile` . `AskBank` . put (. `SetReason` . put when the book is empty) |
| `sweep` | `Boot`, then for each row `SweepOne` . put . `SweepReason` . put, then `Serve` |

`cancel`, `confirm`, `propose` run on servers only and `step_up` in the CLI
only, since no tool reaches it; `reconcile` runs in both. A refused request that writes
nothing (an unknown reference, `status`) is a stuttering step.

### What is abstracted

* A ledger append is one step with the change of the object that follows it;
  the put after it is separate. Ledger rows are kept as sets.
* `confirm` reads the clock for the expiry check and again for `confirmed_at`;
  the model reads it once.
* `create_pix` looks up the key, checks and debits in one step.
* The database answers. An error of Postgres in the middle of a call, in a process that
  survives it, is not modelled: the call would end where it is, with nothing in the
  model's place of a dead worker, and a `SUBMITTED` row would wait for the next boot of some
  server. `NothingLeftSubmitted` and `SubmittedIsResolved` are about deaths.
* `payments` is the book, and `PaidOnce` is about it alone: that two calls may both debit
  the account in memory is under *known and not run*.
* A bank with an unknown account or recipient is not modelled: the plane builds
  the action from the contact book and the one account.
* The token is identified with the intent: `confirmation_id` is unique per row
  (`intents_confirmation_idx`), and what is checked is the principal.
* A name is related to the contacts it matches; amounts, names and secrets are
  members of small sets. A digest is the pair of key and action: an HMAC
  assumed to have no collisions.
* `COMPLETED -> REVERSED` and `PENDING` are in `TRANSITIONS`, but nothing in the
  code takes those edges.

### State and steps of `Threads`

`index[t]` is the record of conversation `t` (owner, title, turns), `spoken[t]`
the customers whose turns ran over its checkpoint. `completed`, `opener` and
`deleted` are history. A request `r` has `pc[r]`, its `customer`, what it is `on`,
whether it `streams`, and the record it has `seen`. Coroutines of one or several
server processes interleave at the awaits of the durable store, so each
request is cut there:

| Code | Steps |
|---|---|
| `POST /threads` | `StartThread` |
| streamed turn | `StreamTurn` (owner checked) . `RunTurn` . `ReadRecord` . `WriteRecord` |
| buffered turn | `SubmitTurn` (owner checked) . `ReadRecord` . `WriteRecord` . `RunTurn` |
| `DELETE` | `DeleteThread` (owner checked) . `Forget` |

and may be dropped before each (`Drop`: the client of a stream leaves, the
server dies). A refused request is a stuttering step. What is abstracted: a turn
is one step (that it may fail changes nothing in the index: a stream is recorded
all the same, a buffered turn was recorded before); a message has text in it, so
a title is the message it was cut from; timestamps; the in-process caller without
a customer, whom no endpoint serves. A request that comes in is one of the
constants `Requests`, and `InFlight` bounds how many are served at once.

### State and steps of `Turn`

`mode` is `TRAIL_GUARDRAILS`, `thread` the messages of the conversation's last
checkpoint. A turn `t` has a place `at[t]` in the graph or the runner, the
messages `mine[t]` its run carries, the tools it has still to start (`waiting`)
and those `running`, the `rounds` of its model and the `frames` it has
yielded. `overlapped` only observes which turns ran at the same time.

| Code | Steps |
|---|---|
| `run_turn` entering the graph | `OpenTurn` |
| `TraceMiddleware.abefore_agent`, `aafter_agent` | `OpenRail`, `CloseRail` |
| `InputGuard.abefore_agent`, `OutputGuard.aafter_agent` | `ScreenInput`, `ScreenOutput` |
| `awrap_model_call` | `StartModel` . `ModelReturns` or `ModelFails` |
| `awrap_tool_call` | `StartTool` . `ToolReturns` or `ToolFails`, the calls of one reply beside each other |
| the end of `run_turn` | `Answer` or `Fail` . `Trace` |
| `accumulateStage` in `ui/src/state.ts` | the operators `Rail`, `Blocked`, `Answers` |
| `_readable_messages` of `GET /threads/{id}` | the operator `Transcript` |

`Rail` and `Transcript` are the *positions* of what is shown: what the properties ask is
which entry comes before which.

The graph is LangGraph's and is modelled from how the code relies on it: a node
reads the messages of its run, and its result is added to them and saved as the
checkpoint (`Node`); a tool that raises cancels the calls beside it; the
recursion limit ends a turn between two nodes (`GiveUp`); nothing orders two runs
of one conversation. The checkpoint is saved with the node, though with
asynchronous durability it may come a moment later: a death in that moment leaves
what a death one node earlier would. What is abstracted: a text passes its
gate's check, breaches it or is empty; clipping, token counts, labels and
durations; the `turn` of a message is the model's name for it. `Drop` forgets
the frames nobody is left to read. A reply of the model has words or calls: one with
neither, which ends the turn with an empty answer and is left out of the transcript
(`app.py:318`), is not modelled here; `Page` has it, as an answer no transcript has.

### State and steps of `Page`

`session`, `thread`, `entries`, `threads` and `busy` are the component's own
state (`app.tsx`); `index` (whose each recorded conversation is), `spoken` (which records
count a turn), `history` (what the transcript of each is) and `named` are what the service
has; `calls` the requests in flight, each with the `token` it was sent with and the `stage` it has reached.
`astray` and `shut` only observe.

| Code | Steps |
|---|---|
| signing in, and the effect that follows it | `SignIn` (with `open_one`) |
| new, pick, remove, send | `New`, `Pick`, `Remove`, `Send`, each sending a request |
| the endpoints of `app.py` | `ServeOpen`, `ServeResume`, `ServeList`, `ServeTurn` . `Run` |
| `openThread`, `resume`, `refreshThreads`, `forgetThread` after their `await` | `Opened`, `Resumed`, `Listed`, `Removed` |
| the loop of `send` | `Frame`, then `TurnAnswered`, `TurnUnkept` or `TurnFailed` |
| `handleUnauthorized`, and the `catch` of each call | `SignOut`, `GiveUp` |
| a connection that breaks | `Break` |

The page and the service do not hold the same things, and `Entry` has a kind for each
difference. `openThread` shows the agent's greeting (`app.tsx:158-181`), which no checkpoint
has: the transcript of a conversation nobody has answered in is empty
(`test_app.py:353-362`). `_readable_messages` returns every message of the model with
words in it (`app.py:307-324`), so beside the answer it has the words sent with a tool call and
the reply that a gate refused, the `aside`s, which the live page never showed; and it leaves
out an answer without words, or one in blocks of content, which the live page showed and which
is `unkept`. A reopened conversation therefore shows more than the live one did, and may show
less; what both must show, once and in order, is every question and every other answer. The
sidebar lists the conversations whose record counts a turn (`list_threads`); `record_turn`
counts a failed one and not one whose stream broke (`Run`, `Break`).

What is abstracted: an entry is its kind and the number of its turn, and the asides of a
turn, `MaxAsides` at most, are alike; two requests in
flight that are the same are one; a frame does not say which stage it is about
(`Turn` does); the two halves of a removal, at the service and at the page, are
one step, and what changes nothing at the service (a refusal, a conversation not found)
is taken as its answer lands. Any identity may be refused at any time - a secret mistyped, a
token expired, keys that cannot be fetched - since `verify` and `verify_jwt` say
`None` for each. Verification itself is arithmetic on the request and is not modelled.

### State and steps of `EvalRun`

Each case `c` has a place `at[c]`, its conversation `thread[c]`, and the
`observations`, `findings` and `checks` of its outcome. `step` says how far the
evaluation is, `report` what it scored, `rows` what `eval_runs` holds. `found`
and `lost` only observe.

| Code | Steps |
|---|---|
| `evaluate`, the health check | `Start` |
| the semaphore of `run_golden_set` | `Enter` |
| `run_case` | `Opened` or `NotOpened`, then for each turn `Answered`, `ErrorFrame` or `Raised`, then `Scored`, then `Close` |
| `compute_metrics` | `Score` |
| `_persist` | `Connect` . `Compare` . `SaveRun` . `SaveFindings` |
| `render`, the exit code | `Render` |
| a query that raises, a process that dies | `Broken`, `Killed` |

What is abstracted: an answer is what the checks tell apart in it (does it lack, does
it invent, did the tools run, which gates fired, the judge's verdict, its time and
its price); a judge's reply is part of the answer it judges; a rate is a fraction, with
denominator 0 for the code's `None`. The report is its exit code.

## 3. The runs

Each passing run has a mutant per property: a plausible bug of the code under which
TLC finds the property violated.

| Run | Instance | Shows |
|---|---|---|
| `policy` | every boundary amount, 24 hours, both devices | `FollowsTheTable`, `SmallerIsNeverStricter`, `StepUpIsEnough` |
| `operator` | a server thread and the CLI; the customer's chat, the operator's session and a stranger; ambiguous names; R$ 100,13 (answer lost) and R$ 1.500 (stepped up under the CLI's own key); two ticks with night at the second, TTL 0; the saved action rewritten once; one crash | consent is to the action paid, in time and by who asked; a digest mismatch has a cause, a rewriting or a token issued under the operator's key; the answers match the book; no `SUBMITTED` after boot; `UNKNOWN` is never paid again |
| `solo` | one server thread, two intents, a balance too small for both, one crash, fairness | types, every saved hop is a logged edge, no intent stays `SUBMITTED` |
| `fleet` | two servers and the CLI with one digest key, a payment stepped up for its amount, one crash | evidence before money, large payments are authenticated, `IInv`, one payment per key, refinement of `ConsentedPayment` |
| `conversations` | four requests of two customers on one conversation, three at once | `ThreadsInv`, which has the types in it; an opened conversation stays its opener's, a turn carried through is listed |
| `turns` | two turns of one conversation, in every mode; the first may ask for two tools and go round, the second only answers | types; each gate is accounted for once and in its place; starts are settled; a refused question runs nothing; no answer the mounted output gate refuses; the client's *blocked*; answers stay readable; unanswered calls have a cause; every turn goes on to its trace frame |
| `page` | two sessions of two customers, two conversations opened with a greeting, two messages, one aside each, two requests in flight | types; one turn at a time and a composer that comes back; one live rail; questions and answers on screen are those the service keeps, once and in order |
| `evals` | three cases of the banking golden set, two at a time, after no run, and after a sound, a failed and a differently versioned one; every kind of answer and failure | types; every case counted; rates are rates; findings reach the report; a green run is clean; a crossed bar is reported; conversations are deleted; the run ends |

**Bounds.** `MaxTime` and `MaxCrashes` stop the clock and the crashes; an action
is rewritten once per intent. One intent suffices for a race because calls on
different intents share only the balance of a conversation; `solo` has two for
that. A TTL of 0 over two ticks has both sides of expiry, and the second tick is
at night. One crash may fall at any of the cuts; a second one hits states
the first boot already restored (the theorems have no such bound). One
conversation suffices in `conversations`, since requests on different ones share
nothing; four requests are enough for one to open, two to race and one to delete or
to come from elsewhere. In `turns` a round of two tools has every way two calls
run beside each other, and one more model call after it has a reply that saw
their results; a third turn would only meet what two leave in the checkpoint. In `page` two
conversations are one on screen and one elsewhere, two sessions are one
requests outlive and one they land in, two messages give an order of turns, one aside is
what tells a transcript from the screen, and two requests in flight are a race; a third could
only repeat one of them (the theorems have none of these bounds, and hold with a greeting or
without). In `evals` the three cases
are one of two turns that owes checks on both, one that a gate must block and one
that no gate may, the shapes that the golden set's metrics distinguish; two at a time over
three cases makes one wait. The histories are those `latest_baseline` tells apart.
Requests and customers in `conversations`, tools in `turns`, are interchangeable
(`SYMMETRY`; only invariants are checked). All runs but `policy` may end: intents settle,
the clock stops, requests, turns and the messages of a page run out, an evaluation is
over; hence `CHECK_DEADLOCK FALSE`.

`SecretOf` is `OneSecret` in `fleet`: the variable is in the environment of every process
(exported, the CLI run in the agent's container) or of none, so that a large payment is
stepped up *and* confirmed, without which the run would say nothing of one. It is
`HostCli` in `operator`: the CLI run from a shell that does not have the variable, which
seals with the default of `plane.py:113` what the server checks with the key of
`.env.example:263`. There a step-up spoils the confirmation, only small payments are
made, and `MismatchHasACause` says that nothing else spoils one.

**Which deployment a property is about.** `PaidByConsent`, `PaidOnce`,
`LargePaymentsAuthenticated`, `EvidenceBeforeMoney`, `KeepsThePromise` hold for
any number of workers and servers, `MismatchHasACause` where the servers have one
digest key. `AnswersMatchTheBook`, `NothingLeftSubmitted`,
`UnknownIsNeverRepaid`, `SavedHopsAreLogged` are about one server running one
call at a time (with the CLI beside it, but for the last): under concurrency
they fail, and how they fail is what the next section's runs show. `OneOfEach` and
`OneWorker` of `PlaneDeploymentProofs` state those deployments as hypotheses.

**Fairness** (`solo`). Weak fairness of each worker's next step: a running
thread is scheduled and Postgres answers. Weak fairness of the boot: a dead
container is restarted (`restart` policies, AgentCore). None on requests: no
customer or operator is assumed to come back. `Turn` needs none: a turn has
finitely many steps, so that none hangs is the invariant `GoesOnToItsTrace`, which says
that it always has its next step or is over; that the step is taken is the event
loop's business. `EvalRun` has weak fairness of the cases' steps and of the steps
of the report: every request it makes has a timeout, so a case always has a next step,
and nothing else is waited for; that it then ends (`RunEnds`) needs that no slot of
the semaphore is lost to a case that broke. `Page` states none: a browser may
wait for an answer for ever.

### Disagreements found

Each of these runs checks one statement of the repository and is *expected* to be
violated; the statement and its place are in `findings` of `PROJECT.json`.

| Run | Statement | What the code does |
|---|---|---|
| `confirm_cancel` | a cancelled intent is never paid | a stale cancel is saved over a confirmation |
| `live_sweep` | `FAILED` after reconcile: nothing was debited | a booting server sweeps a live worker's intent |
| `mid_flight` | the sweep resolves what the last process left mid-flight | `AUTHORIZED` is left for ever |
| `forgotten` | a fabricated fact fails the run | a later turn that errors replaces what the earlier ones' checks found |

In none of those about the plane does the book take a second payment or one without
consent: that is what the theorems say.

**Known and not run.** Reading the code for the models showed more, which no run
states. Of the plane:

* two confirms of one token both pass the state check of `state.py` and both execute;
  the second insert is a duplicate, but each has debited its in-memory account by
  then (`pgbank.py:99`; `test_invariants.py:425-427`, `runbook.md:259-261`);
* `trail step-up` from a host whose shell does not export `TRAIL_CONFIRMATION_SECRET` seals
  the token with another key than the agent's (`cli.py:538` passes none, `tools.py:73` that
  of the settings): the customer's confirmation is denied and ledgered as a digest mismatch
  though nothing was rewritten, where `cli.py:509-510` says that the operator's plane
  "decides exactly as the agent's does" (`operator` reaches this; `MismatchHasACause` excepts it);
* a reason set after the last put of a call is never saved (`plane.py:513`;
  `schema.sql:190`, `store.py:64`);
* the second put of a `sweep` takes a row that a reconcile has just settled back to `UNKNOWN`.

Of conversations: two first turns read the record untitled, and the second to
write retitles it and loses a count (`threads.py:157`, `:145`); a refused
question, and a reply the output gate refused, stay in the checkpoint and are
read again (`guards.py:202`).

Of the page, which is why `OneTurnAtATime` and `ShownIsWhatWasSaid` except what `shut` and
`astray` observe:

* a turn refused with 401 leaves the composer closed for the next session (`app.tsx:295`);
* a 401 to a request of an earlier session signs the current one out (`app.tsx:78-87`);
* a turn's frames and answer land in whatever conversation is shown by then
  (`app.tsx:285`, `:302`), and an older list may land after a newer one (`:141-151`);
* when the first conversation could not be opened, a picked one is shown without
  becoming the conversation messages go to, and they are dropped (`:212`, `:265`);
* a stream that just ends shows an empty answer (`:319`); the transcript and the list
  of the session before stay on screen after a sign-out;
* reopened, a conversation shows replies the gate refused, and does not show an answer that a
  provider sent in blocks of content (`app.py:318`, where `turns.py:73-76` joins them).

Of evaluations:

* a query that fails once connected loses the scorecard, where `_persist` says that
  storage never does (`cli.py:397-410`); the run's row is committed before its findings
  (`store.py:171`);
* a run in which every case errored is `COMPLETED` and the next one's baseline;
* the denominator of `turn_error_rate` is the observations kept, one per errored case
  (`metrics.py:200-202`);
* an exception is blamed on the last turn that answered (`runner.py:224`);
* a judge's unreadable reply counts as an errored turn;
* a drift inside the band is never reported, however many runs it goes on for.

## 4. What is proved

For every value of the constants that satisfies `ConstantsAssumption` (any
workers, processes, conversations, amounts, secrets, bounds, with or without
tampering):

| Theorem (`PlaneTheorems`) | Statement |
|---|---|
| `Inductive` | `Spec => []IInv` |
| `TypeCorrect` | `Spec => []TypeOK` |
| `Consented` | `Spec => []PaidByConsent` |
| `Authenticated` | `Spec => []LargePaymentsAuthenticated` |
| `Evidenced` | `Spec => []EvidenceBeforeMoney` |
| `NeverPaidTwice` | `Spec => PaidOnce` |
| `Implements` | `Spec => KeepsThePromise` |
| `NeverRefusedHalfway` | `Spec => []MovesAreLegal` |
| `BootSweepsAlone` | `Spec => []SweepsAlone` |
| `CallsEnd` | finitely many intents: `Spec => StepsGain` |
| `CallsAreShort` | finitely many intents: what a worker has `Left` is a natural number, at most 13 outside a sweep |

and in `PlaneDeploymentProofs`, where moreover the deployment is restricted, for any
intents, conversations, amounts, number of crashes and tampering:

- `OneServerKey`: the servers digest with one key, and nothing is said of the operator's.
  The agent's plane takes it from the settings (`tools.py:72`), which are one for a
  deployment; the CLI's takes it from its own environment (`cli.py:538`, `plane.py:106-114`).
- `OneOfEach`: at most one worker on a server and at most one off it, that is, a server
  that runs one call at a time and one operator at the CLI. The hypothesis is needed: two
  workers of a server confirm and cancel at once (`confirm_cancel`), and two
  operators may both step one intent up, of whom the slower puts its old copy over
  whatever became of it since, a payment included.
- `OneWorker`: nobody beside it. With an operator a reconcile may complete an intent
  between the two puts of a sweep, whose second puts `UNKNOWN` back.

| Theorem | Statement |
|---|---|
| `Unspoiled` | `OneServerKey` implies `Spec => []MismatchHasACause` |
| `Truthful` | `OneOfEach` implies `Spec => []AnswersMatchTheBook` |
| `ClosedMeansNotPaid` | `OneOfEach` implies `Spec => [](CancelledMeansNotPaid /\ FailedMeansNotPaid)` |
| `NeverForgotten` | `OneOfEach` implies `Spec => []Attended` |
| `Swept` | `OneOfEach` implies `Spec => []NothingLeftSubmitted` |
| `NeverRepaid` | `OneOfEach` implies `Spec => UnknownIsNeverRepaid` |
| `NoSilentHop` | `OneWorker` implies `Spec => SavedHopsAreLogged` |

`ClosedMeansNotPaid` is about two claims of the repository that runs refute
(`confirm_cancel` and `live_sweep`): each takes a second server worker, whose call or
whose boot's sweep runs beside the payment. The theorem says that nothing less refutes
them: no crash and nothing the operator does.

In `ThreadsProofs`, for any conversations, customers and requests:

| Theorem | Statement |
|---|---|
| `ThreadsInductive` | `Spec => []ThreadsInv` |
| `Kept` | `Spec => []OpenedIsKept` |
| `Listing` | `Spec => []CompletedIsListed` |

in `TurnProofs`, for any number of turns on one conversation, any tools, any number of
rounds and of tools asked for in each, in every guardrail mode:

| Theorem | Statement |
|---|---|
| `TurnInductive` | `Spec => []IInv` |
| `TurnTypes` | `Spec => []TypeOK` |
| `InOrder` | `Spec => []RailIsInOrder` |
| `Settling` | `Spec => []StartsSettle` |
| `Refusing` | `Spec => []RefusedNeverRuns` |
| `Screening` | `Spec => []AnswerIsScreened` |
| `Marking` | `Spec => []BlockedMeansRefused` |
| `Keeping` | `Spec => []AnsweredIsKept` |
| `Orphans` | `Spec => []OrphansHaveACause` |
| `TurnsGoOn` | `Spec => []GoingInv` |
| `Onward` | `IInv`, `GoingInv` and a turn that has begun and not ended: the values written there for its place are a step of it |
| `TurnsEnd` | `Spec => [][Nearer]_vars` |
| `DistanceIsNatural` | `Spec => [](\A t \in Turns : Distance(t) \in Nat \X Nat \X Nat)` |

and in `PolicyProofs` (any recipients, any amounts, every hour), `EvalProofs` (any
golden set, answers, bars, histories and number of slots) and `PageProofs` (any customers,
conversations, messages and requests in flight):

| Theorem | Statement |
|---|---|
| `Table` | `Spec => []FollowsTheTable` |
| `Monotone` | `Spec => []SmallerIsNeverStricter` |
| `NoTrap` | `Spec => StepUpIsEnough` |
| `EvalInductive` | `Spec => []EvalInv` |
| `Counting` | `Spec => []EveryCaseIsCounted` |
| `Reporting` | `Spec => []FindingsReachTheReport` |
| `Deleting` | `Spec => []ThreadsAreDeleted` |
| `ReportInductive` | `Spec => []ReportInv` |
| `EvalTypes` | `Spec => []TypeOK` |
| `Rating` | `Spec => []RatesAreRates` |
| `Crossing` | `Spec => []CrossingIsReported` |
| `Green` | `NothingLetThrough => (Spec => []GreenIsClean)` |
| `Fabrications` | `Spec => []SoundFabricationFails` |
| `SlotsBound` | `Spec => []InsideItsSlots` |
| `EvalOnward` | `EvalInv` and a run that is driving: a case that is in a slot, or that waits while a slot is free, has the step written there; when all are over the run is scored |
| `EvaluationsEnd` | `Spec => [][Nearer]_vars` |
| `EvalDistances` | the distances of a run and of its cases are natural numbers, always |
| `PageInductive` | `Spec => []PageInv` |
| `OneAtATime` | `Spec => []OneTurnAtATime` |
| `ScreenInductive` | `Spec => []ScreenInv` |
| `PageTypes` | `Spec => []TypeOK` |
| `OneRail` | `Spec => []OneLiveRail` |
| `Shown` | `Spec => []ShownIsWhatWasSaid` |

They rest on `AmountsAssumption`, `EvalAssumption` and `PageAssumption`, those about `Turn` on
`TurnAssumption` (there are finitely many tools, and a turn has a bound of at least one on
the model's replies: with none it could neither reply nor give up, which the attempt to
prove `Onward` showed, and the agent's loop asks the model at least once).
`EvalAssumption` says that the golden set is finite, that a bar is a number with a
direction, and that `eval_runs` holds what `save_run` writes. `Green` has one more
hypothesis, since whether an exit code of 0 means a clean run is up to the bars:
`NothingLetThrough` says that no turn may break and that every gate that has to fire
does, and `BankingBars` proves it of the bars of the banking golden set.

**The argument for `ControlPlane`.** `PaidByConsent` speaks of the ledger and the
book and is not inductive: the payment is made by a worker from an object it read several steps
before, which may no longer be the row. `IInv` therefore says what is true of
*copies*. `Copies`: any copy of an intent, saved or held by a worker or by a
sweep, belongs to whoever opened the trail, and a seal on it was put there with
an offer of the sealed action at that time; no copy's action is claimed to be
genuine, only its seal. `Stages`: what a worker that reached a point of a call
knows - at `confirmed` the digest has matched, so the action it holds was
offered, in time and to its caller; from `authorized` to `debited` that action
has been agreed to, and the evidence is in the ledger. `Chain`: offers are
within the limits, consents are to offers, payments are of consents. The ledger
only grows, so none of these facts is lost to another worker's step. Each
action is then shown to keep `IInv` one by one; the properties follow; and
`Implements` maps `Decide` (issuing a token) to `Offer`, `FinishStepUp` to
`Authenticate`, `Authorize` to `Agree`, `Pay` to `Move` and everything else to
a stutter. `FinishStepUp` is why `authenticated` is read from the ledger and not from the
row: the row can be overwritten, the ledger cannot.

**The argument for `Unspoiled`.** A false alarm would need a copy whose seal is not the
servers' of the action beside it, and copies are what the races of the plane pass around:
read before a call, saved over newer rows, stranded in a sweep. `SealInv` says that any copy
of an intent that is not `Excused`, wherever it is, carries the servers' seal of its own
action. Only `Decide` puts a seal on and only `Tamper` changes an action, so every other step
hands on a copy with the three fields (`issued`, `digest`, `action`) as they were. A
`Decide` in the operator's process follows a step-up that the ledger has (`OperatorInv`):
with the servers' key its seal is theirs, and with another the intent is excused from then
on, as the ledger only grows. Where the keys are one nobody is excused but what was
rewritten, and the theorem says what two keys refute: that a mismatch means a rewriting.

**The argument for one server and one operator.** What the store says of a payment is put
there by a worker from an object it read steps ago, so the question is what the row can
have become meanwhile, and who else has an object of it. `DeployInv` answers with five
facts beside where each call is (`Placed`). `Behind`: a worker busy with a row is at most
one edge of the machine ahead of it, except that late states (`UNKNOWN`, `COMPLETED`,
`FAILED`) may pass each other; and the two kinds of worker are busy with different parts of
the machine. `Lone`: so nobody else is busy with a row that is not late. `Sweeping`: what a
boot stranded is still `SUBMITTED`, untouched, and in its list once. `Knows` and `Book`: an
object or a row that says `COMPLETED` has the receipt of the book, one that says
`FAILED` has none, and the row of a payment is `SUBMITTED`, `UNKNOWN` or `COMPLETED`.
`Attended`: every `SUBMITTED` row is in a server worker's hands, in its list, or waits for
its server to boot. `Unanswered`: a timed-out intent is `SUBMITTED` or late, and nobody
is on the way to pay it. The steps fall into four kinds, which a lemma each carries over
the facts about everybody else: a hop or a quiet step of a call (`GoesOn`), the taking up of
a row (`TakesUp`), a put (`PutDeploy`), and what changes none of this (`Leaves`); then boot,
sweep, payment and crash by themselves. For `NoSilentHop` it is enough to add that what a
single worker will put is the row's state, or one logged hop from it (`HopInv`).

**The argument for `Threads`.** A fresh conversation has no request on it, and
every later one is checked against a record that names the opener; so all
requests on it are its opener's (`Mine`), whatever they have read. A record
without turns is an opened one (`Listed`), so a turn that finds somebody else's
record, and will not write, has found one with turns.

**The argument for `Turn`.** None of the properties is inductive, since each speaks of a
turn that is over. `TurnInv` says at every place of a turn what the properties will need
of it: how far its rail has got (`Opened`, `Screened`, `Ended`), what the last message it
carries can be and that its question is before it, that what was started is settled or
running - as cardinalities, so that tools returning in any order come out even -, and that
a cell is blocked exactly when the last message is a refusal. Each action
appends at most two frames and one message, and a few lemmas (`FrameAdded`, `CountAdded`) say
what that does to what is read off a stream. Two facts are about turns together. `AloneInv`: a turn nothing runs
beside is alone in the graph, so what is saved is what it carries, and every later turn
starts from it; then no later turn, failed or dropped ones included, can lose its answer.
`OrphanInv`: a call is followed by its results, or its turn is excused, or it is the last thing said in a turn that
is running its tools. For these two the actions are of three kinds: one opens a turn,
some add to the conversation (`Node`), the others leave it alone.

**The argument for `PolicyTable`.** The hour, the device and the assurance are always
among the few the rules ask about (`AlwaysAsked`), and for each of them the rules
are what the table says by arithmetic on the amount. A smaller amount has no
signal that a larger one lacks; and a step-up changes no other input of the rules.

**The argument for `EvalRun`.** `EvalInv` says at each place of a case what has been
counted: while it is driven, the checks of exactly the turns that answered, and no
turn that broke; from `closing` on, every check it declares, and if a turn broke, all
failed (`Counted`). What was `found` is kept unless a turn broke (`Kept`), and a
conversation is on the service only between opening and closing, or lost (`Deleted`). Cases
do not meet, so a step of one leaves the others' facts alone; `Phases` carries them to the
report. `ReportInv` has the rest: the report scores the outcomes as they are, and is
compared with a row that is still there, since filing only adds (`Filed`); a case that is
over was observed, and what a check found on the way stands beside a result that is
not a pass (`Weighed`) - the keys of a turn's checks are its own, so a later turn cannot
set it right. The properties are then about sets of any size. `Counts` and `CheckRate` compare
their cardinalities, `Extremes` gives the maximum behind a baseline and the minimum behind
a percentile, and `RatesHold` adds up the kinds: a case that neither passed nor broke has a
finding, which has a kind. `Below` is the arithmetic of a crossing: what is below the bar is
below what is not, in fractions. For `Green`, a bar of zero on broken turns makes
their set empty, so nothing found was dropped; a fabrication or a refused question
would have failed the run, and a gate that stayed open is a result of `guard_recall`
that is not a pass, which keeps it under one.

**The argument for `Page`.** `PageInv` is that every request is well formed and that
`busy` holds exactly when a turn is in flight or one was refused - and that a
page whose turn was refused has none in flight, without which the next turn to
end would open the composer that `shut` says is closed. Only `Send` adds a
turn, which needs the composer open; a turn that gets on is still the only one.
`ScreenInv` is about what is on screen: but for a placeholder at its end, it is a
sequence `s` without one (`Showing`), and how far `s` is from what the service keeps
(`Tracks`) follows the one turn: they agree when there is none; the service lacks the question
while it runs, and the page the answer once the service has it. `Agree` compares sets of
entries, so a reply's asides enter on one side and stay there. That each entry stands once and
in its place is `InOrder`, of what is kept as of `s`: nothing of either is later than the last
message sent (`Sooner`), and of the turn in flight nothing is kept until it is answered
(`Kept`), so what is appended comes last. A transcript that is fetched takes the place
of `s`; it is the one kept only if no turn met the fetch (`Alone`), and nobody has spoken in a
conversation before it is opened (`Numbered`), so that a greeting is all there is to show of it.
The filter that takes the placeholder away
is taken once, in the lemma `Without`: the entries that stay are `1..Len(s)`, and the n-th of
them is `n`.

**Progress.** The prover has neither ENABLED nor fairness. What it can prove of
"this ends" is that nothing is stuck and that nothing goes round, and both are proved of
three components, for any size.

- *Calls of the plane.* `transition` raises `IllegalTransition` for an edge the machine
  does not have, and a handler that met one halfway would leave a payment where it is.
  `NeverRefusedHalfway` says none does: a worker's own object is in the state its place
  expects whatever the row has become (`HoldsItsState`), since only its own moves change
  it, and a sweep's rows are as they were read. Only `cancel`, on a row as it is read, can
  be refused. Each step then takes one off `Left`, two for a place and one for a put, and
  leaves the others theirs: nothing in `plane.py` retries. A sweep counts its rows, hence
  the finite set of intents. With `NeverForgotten` this is `SubmittedIsResolved` but for
  the scheduling: somebody holds the intent, or a boot will find it, and whoever holds it
  is nearer to the end at every step.
- *Turns.* `TurnsGoOn` is the invariant that no place lacks a guard; `Onward` gives, at each
  place, the values of all variables that are a step, which is what ENABLED says there, with the
  witness written out. `Distance` is lexicographic: the stretches of the
  turn that lie ahead, the replies the model still has in this one, and the tools of the
  round to start and to wait for. `Onward` is the content of
  `GoesOnToItsTrace`.
- *Evaluations.* A slot is never lost: `EvalOnward` gives the step of a case, the timeout
  if nothing else, and `SlotsBound` that there are no more cases inside than slots. The
  distance of a case is its turns and its places, that of the run its steps. `RunEnds`
  adds only that steps which can be taken are.

`MovesAreLegal`, `OnTheWay`, `GoingInv`, the naturals and the four statements that a step
is nearer were first checked with TLC on the instances of `solo`, `fleet`, `operator`,
`turns` and `evals`.

**Only model-checked**: `GoesOnToItsTrace` of `Turn`, which is about ENABLED, and
liveness (`SubmittedIsResolved`, `RunEnds`), for the last step that those theorems leave:
that what can be taken is taken.

## 5. Not modelled

`query`, `status`, `explain` (reads); `MemoryStore` and the bank whose book is in
memory, the development pair; text parsing and rendering, and the printed report;
how an identity is verified (arithmetic on a header or a token) and how a database
secret is fetched; the readers that cut a byte stream into frames (`api.ts`,
`events.py`); telemetry, costs and settings (I/O and layout); `trail_guide`
(stateless); markup and styles of the UI; infrastructure. `PROJECT.json` lists every
component with its status.

## 6. Plan

1 to 5 and 7 are done.

1. `Policy`, `PolicyTable`, `ControlPlane`, `ConsentedPayment`, `PlaneClaims` and
   the proofs about them; the policy table for every amount (`PolicyProofs`).
2. `Threads` and its proofs.
3. `Turn` and its proofs.
4. `Page` and its proofs.
5. `EvalRun` and its proofs.
6. `OwnBook`: the plane over `MemoryStore` and `MockBank`, where handlers share
   one object and each conversation has its own book, as a second
   implementation of `ConsentedPayment` (or the run that shows where it is not).
7. Proofs: the reports of `EvalRun`; that calls, turns and evaluations get on and end.
8. The stream readers of `api.ts` and `events.py`: frames cut anywhere come out whole.
