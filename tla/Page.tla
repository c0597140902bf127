-------------------------------- MODULE Page --------------------------------
(***************************************************************************)
(* The web page (ui/src): one conversation on screen, the list of them in  *)
(* the sidebar, and the requests the page has in flight, each of which     *)
(* lands in its own time on whatever the page shows by then.               *)
(*                                                                         *)
(* A request is cut where it waits: it is sent, the service serves it, its *)
(* answer arrives.  What the service does is trail/app.py's part of it:    *)
(* whose the request is, whose the conversation, what the list and the     *)
(* transcript read.  What changes nothing at the service (a refusal, a     *)
(* request that finds nothing) is taken when it arrives.                   *)
(***************************************************************************)
EXTENDS Naturals, Sequences, FiniteSets, Functions

CONSTANTS
  Customers, None,
  holder,        \* who signs in each time; as long as the times somebody does
  Greets,        \* whether the agent opens a conversation with a greeting
  MaxThreads,    \* bound on the conversations opened
  MaxCalls,      \* bound on the requests in flight
  MaxTurns,      \* bound on the messages sent
  MaxAsides      \* bound on what a turn says beside its answer

ASSUME PageAssumption ==
  /\ holder \in Seq(Customers)
  /\ Greets \in BOOLEAN
  /\ MaxThreads \in Nat /\ MaxCalls \in Nat /\ MaxTurns \in Nat /\ MaxAsides \in Nat
  /\ None \notin Customers \cup Nat

\* Identities, conversations and turns are numbered as they come.
Tokens == 1..Len(holder)
Threads == 1..MaxThreads
Turns == 1..MaxTurns

\* What the service keeps of a turn is its question, its answer, and what the model said
\* beside it: words sent with a tool call, a reply the gate refused.  The page also shows a
\* greeting, an answer that no transcript has (one without words, or in blocks of content), an
\* error and a placeholder.
Entry ==
  [kind : {"greeting"}, turn : {0}]
    \cup [kind : {"user", "aside", "agent", "unkept", "error", "live"}, turn : Turns]
entry(kind, n) == [kind |-> kind, turn |-> n]

Operations == {"open", "resume", "delete", "list", "turn"}
Call ==
  [op : Operations,
   token : Tokens \cup {0},               \* the session it was sent with
   on : Threads \cup {None}, turn : Turns \cup {0},
   stage : {"sent", "streaming", "answered"},
   reply : {"none", "turn", "unkept", "error", "broken"},    \* what became of a turn
   messages : Seq(Entry), list : SUBSET Threads,
   alone : BOOLEAN]                       \* only observed: no turn ran meanwhile

VARIABLES
  \* the page: who is signed in, the conversation and its entries, the sidebar
  session, thread, entries, threads, busy,
  calls,              \* the requests in flight; two that are the same are one
  signed,             \* the identities given out so far
  index, spoken,      \* the service: the owners in its records of conversations, and
                      \* which of these count a turn,
  history, named,     \* their checkpoints, the identifiers it has given out
  sent,               \* the messages sent so far
  astray,             \* only observed: a turn failed, or met another request, since the
                      \* transcript was last fetched
  shut                \* only observed: a turn was refused, and nothing enables the
                      \* composer any more

page == <<session, thread, entries, threads, busy>>
service == <<index, spoken, history, named>>
vars == <<page, calls, signed, service, sent, astray, shut>>

TypeOK ==
  /\ session \in Tokens \cup {0}
  /\ thread \in Threads \cup {None}
  /\ entries \in Seq(Entry)
  /\ threads \subseteq Threads
  /\ busy \in BOOLEAN
  /\ calls \subseteq Call
  /\ signed \in Tokens \cup {0}
  /\ index \in [Threads -> Customers \cup {None}]
  /\ spoken \subseteq Threads
  /\ history \in [Threads -> Seq(Entry)]
  /\ named \in Threads \cup {0}
  /\ sent \in Turns \cup {0}
  /\ astray \in BOOLEAN /\ shut \in BOOLEAN

Init ==
  /\ session = 0 /\ thread = None /\ entries = <<>> /\ threads = {} /\ busy = FALSE
  /\ calls = {}
  /\ signed = 0
  /\ index = [t \in Threads |-> None] /\ spoken = {}
  /\ history = [t \in Threads |-> <<>>] /\ named = 0
  /\ sent = 0
  /\ astray = FALSE /\ shut = FALSE

-----------------------------------------------------------------------------
(* Requests. *)

InFlight(ops) == {r \in calls : r.op \in ops}

\* A request is sent with the identity the page holds when it is made.
Request(op, t, n, token) ==
  [op |-> op, token |-> token, on |-> t, turn |-> n, stage |-> "sent", reply |-> "none",
   messages |-> <<>>, list |-> {},
   alone |-> op \in {"open", "resume"} /\ InFlight({"turn"}) = {}]

Ask(op, t, token) ==
  /\ Cardinality(calls) < MaxCalls
  /\ calls' = calls \cup {Request(op, t, 0, token)}

\* The effect that follows signing in: a conversation is opened, once.
open_one(token) == Ask("open", None, token)

SignIn ==
  /\ session = 0 /\ signed < Len(holder)
  /\ signed' = signed + 1 /\ session' = signed + 1
  /\ open_one(signed + 1)
  /\ UNCHANGED <<thread, entries, threads, busy, service, sent, astray, shut>>

New ==
  /\ session # 0
  /\ Ask("open", None, session)
  /\ UNCHANGED <<page, signed, service, sent, astray, shut>>

Pick(t) ==
  /\ session # 0 /\ t \in threads
  /\ Ask("resume", t, session)
  /\ UNCHANGED <<page, signed, service, sent, astray, shut>>

\* forgetThread: the entry leaves the sidebar at once.
Remove(t) ==
  /\ session # 0 /\ t \in threads
  /\ threads' = threads \ {t}
  /\ Ask("delete", t, session)
  /\ UNCHANGED <<session, thread, entries, busy, signed, service, sent, astray, shut>>

\* Mutant: the composer does not wait for the turn in flight.
NeverDisabled == TRUE
\* The composer takes no message while a turn is in flight.
enabled == ~busy

Send ==
  /\ session # 0 /\ enabled /\ thread # None /\ sent < MaxTurns
  /\ Cardinality(calls) < MaxCalls
  /\ sent' = sent + 1
  /\ busy' = TRUE
  /\ entries' = Append(entries, entry("user", sent + 1))
  /\ calls' = {[r EXCEPT !.alone = FALSE] : r \in calls}
                \cup {Request("turn", thread, sent + 1, session)}
  /\ UNCHANGED <<session, thread, threads, signed, service, astray, shut>>

-----------------------------------------------------------------------------
(* The service. *)

\* The customer whose secret was typed, or nobody if it was another secret.
verify_identity(token) == {holder[token], None}
\* The customer, or nobody for any failure: an expired token, keys that cannot be fetched.
verify_jwt(token) == {holder[token], None}
\* What the service may make of the identity a request carries.
customer_id(token) ==
  IF token = 0 THEN {None} ELSE verify_identity(token) \cup verify_jwt(token)

visible_to(c, t) == index[t] = c
may_speak(c, t) == index[t] \in {c, None}

Sent(r, op) == r \in calls /\ r.op = op /\ r.stage = "sent"
Becomes(r, answer) == calls' = (calls \ {r}) \cup {answer}
\* The identity has served its purpose.
Answer(r) == [r EXCEPT !.stage = "answered", !.token = 0]

ServeOpen(r) ==
  /\ Sent(r, "open") /\ named < MaxThreads
  /\ \E c \in customer_id(r.token) \ {None} : index' = [index EXCEPT ![named + 1] = c]
  /\ named' = named + 1
  /\ Becomes(r, [Answer(r) EXCEPT !.on = named + 1])
  /\ UNCHANGED <<page, signed, spoken, history, sent, astray, shut>>

ServeResume(r) ==
  /\ Sent(r, "resume")
  /\ \E c \in customer_id(r.token) \ {None} : visible_to(c, r.on)
  /\ Becomes(r, [Answer(r) EXCEPT !.messages = history[r.on]])
  /\ UNCHANGED <<page, signed, service, sent, astray, shut>>

\* Those nobody has spoken in are left out.
ServeList(r) ==
  /\ Sent(r, "list")
  /\ \E c \in customer_id(r.token) \ {None} :
       Becomes(r, [Answer(r) EXCEPT !.list = {t \in spoken : visible_to(c, t)}])
  /\ UNCHANGED <<page, signed, service, sent, astray, shut>>

\* A turn on someone else's conversation is not found; any other is streamed.
ServeTurn(r) ==
  /\ Sent(r, "turn")
  /\ \E c \in customer_id(r.token) \ {None} : may_speak(c, r.on)
  /\ Becomes(r, [r EXCEPT !.stage = "streaming"])
  /\ UNCHANGED <<page, signed, service, sent, astray, shut>>

\* What the transcript of a checkpoint has of a turn: the question, what the model said on the
\* way, and its answer if it came to one with words in it, and as a text.
said(n, asides, answered) ==
  <<entry("user", n)>> \o [i \in 1..asides |-> entry("aside", n)]
    \o (IF answered THEN <<entry("agent", n)>> ELSE <<>>)

Keeps(r, asides, answered) ==
  history' = [history EXCEPT ![r.on] = @ \o said(r.turn, asides, answered)]

\* run_turn: the turn is answered, as a transcript has it or not, or fails and says so in an
\* error frame; and record_turn, which counts it either way.
Run(r) ==
  /\ r \in calls /\ r.stage = "streaming"
  /\ \E reply \in {"turn", "unkept", "error"}, asides \in 0..MaxAsides :
       /\ Keeps(r, asides, reply = "turn")
       /\ Becomes(r, [Answer(r) EXCEPT !.reply = reply])
  /\ index' = [index EXCEPT ![r.on] = IF @ = None THEN holder[r.token] ELSE @]
  /\ spoken' = spoken \cup {r.on}
  /\ UNCHANGED <<page, signed, named, sent, astray, shut>>

\* A stream breaks before its turn is over; the service drops it unrecorded, and keeps as
\* much of it as it came to.
Break(r) ==
  /\ r \in calls /\ r.stage = "streaming"
  /\ \/ UNCHANGED history
     \/ \E asides \in 0..MaxAsides, answered \in BOOLEAN : Keeps(r, asides, answered)
  /\ Becomes(r, [Answer(r) EXCEPT !.reply = "broken"])
  /\ UNCHANGED <<page, signed, index, spoken, named, sent, astray, shut>>

-----------------------------------------------------------------------------
(* What the page does with an answer. *)

Landed(r, op) == r \in calls /\ r.op = op /\ r.stage = "answered"
\* Its answer says nobody is signed in.
Refused(r) == r \in calls /\ r.stage = "sent" /\ None \in customer_id(r.token)
\* Its answer is an error, or there is none.
Lost(r) == r \in calls /\ r.stage # "streaming"

Finish(r) == calls' = calls \ {r}
\* refreshThreads, which nothing waits for.
Refresh(r) == Becomes(r, Request("list", None, 0, session))

\* handleUnauthorized: whoever is signed in by now is signed out; a refused turn returns
\* without re-enabling the composer.
SignOut(r) ==
  /\ Refused(r) /\ r.op # "delete"
  /\ session' = 0
  /\ Finish(r)
  /\ astray' = (astray \/ r.op = "turn")
  /\ shut' = (shut \/ r.op = "turn")
  /\ UNCHANGED <<thread, entries, threads, busy, signed, service, sent>>

\* A list or a conversation that could not be fetched changes nothing but a message.
GiveUp(r) ==
  /\ Lost(r) /\ r.op \in {"open", "resume", "list"}
  /\ Finish(r)
  /\ UNCHANGED <<page, signed, service, sent, astray, shut>>

\* Mutant: a transcript that arrives is put after what is shown.
AddedBelow(messages) == entries' = entries \o messages
\* The transcript takes the place of what is shown.
show(messages) == entries' = messages

\* The greeting is the agent's own string, which no checkpoint keeps.
greeting == IF Greets THEN <<entry("greeting", 0)>> ELSE <<>>

Opened(r) ==
  /\ Landed(r, "open")
  /\ thread' = r.on
  /\ show(greeting)
  /\ Refresh(r)
  /\ astray' = ~r.alone
  /\ UNCHANGED <<session, threads, busy, signed, service, sent, shut>>

\* A page that never opened a conversation shows one it does not hold.
Resumed(r) ==
  /\ Landed(r, "resume")
  /\ thread' = IF thread = None THEN None ELSE r.on
  /\ show(r.messages)
  /\ Finish(r)
  /\ astray' = ~r.alone
  /\ UNCHANGED <<session, threads, busy, signed, service, sent, shut>>

Listed(r) ==
  /\ Landed(r, "list")
  /\ threads' = r.list
  /\ Finish(r)
  /\ UNCHANGED <<session, thread, entries, busy, signed, service, sent, astray, shut>>

\* The record goes if it is this customer's, the checkpoint stays; whatever became of it,
\* the list is fetched again.  Its two halves, at the service and here, are one step.
Removed(r) ==
  /\ Sent(r, "delete")
  /\ \/ \E c \in customer_id(r.token) \ {None} :
          /\ visible_to(c, r.on)
          /\ index' = [index EXCEPT ![r.on] = None] /\ spoken' = spoken \ {r.on}
     \/ UNCHANGED <<index, spoken>>
  /\ Refresh(r)
  /\ UNCHANGED <<page, signed, history, named, sent, astray, shut>>

\* The places of the entries that stay, and what is left: entries.filter.
finals == {i \in DOMAIN entries : entries[i].kind # "live"}
without_live ==
  [n \in 1..Cardinality(finals) |->
     entries[CHOOSE i \in finals : Cardinality({j \in finals : j <= i}) = n]]

\* Mutant: the placeholder of the frame before is left.
AnotherRail(n) == Append(entries, entry("live", n))
\* Mutant: the placeholder belongs to no turn.
NobodysRail(n) == Append(without_live, entry("live", 0))
\* withLiveRail: a placeholder where the answer will be.
with_live_rail(n) == Append(without_live, entry("live", n))

Frame(r) ==
  /\ r \in calls /\ r.stage = "streaming"
  /\ entries' = with_live_rail(r.turn)
  /\ UNCHANGED <<session, thread, threads, busy, calls, signed, service, sent, astray, shut>>

\* The loop of `send` is over: its answer or its error lands on what is shown by now.
Ends(r, kind) ==
  /\ entries' = Append(without_live, entry(kind, r.turn))
  /\ busy' = FALSE
  /\ Refresh(r)
  /\ UNCHANGED <<session, thread, threads, signed, service, sent, shut>>

TurnAnswered(r) ==
  /\ Landed(r, "turn") /\ r.reply = "turn"
  /\ Ends(r, "agent")
  /\ UNCHANGED <<astray, shut>>

\* The page shows the answer a transcript leaves out, and an empty one when a stream just
\* ends.
TurnUnkept(r) ==
  /\ Landed(r, "turn") /\ r.reply \in {"unkept", "broken"}
  /\ Ends(r, "unkept")
  /\ astray' = (astray \/ r.reply = "broken")

TurnFailed(r) ==
  /\ Lost(r) /\ r.op = "turn"
  /\ Ends(r, "error")
  /\ astray' = TRUE

-----------------------------------------------------------------------------
Click ==
  \/ SignIn \/ New \/ Send
  \/ \E t \in Threads : Pick(t) \/ Remove(t)

Serve(r) == ServeOpen(r) \/ ServeResume(r) \/ ServeList(r) \/ ServeTurn(r) \/ Run(r)

Arrive(r) ==
  \/ SignOut(r) \/ GiveUp(r) \/ Opened(r) \/ Resumed(r) \/ Listed(r) \/ Removed(r)
  \/ TurnAnswered(r) \/ TurnUnkept(r) \/ TurnFailed(r)

Next ==
  \/ Click
  \/ \E r \in calls : Serve(r) \/ Arrive(r) \/ Frame(r) \/ Break(r)

Spec == Init /\ [][Next]_vars

-----------------------------------------------------------------------------
\* Composer.tsx, "while a turn is in flight the field is disabled", and only then: no
\* second turn runs beside one - whatever is opened, picked, removed or signed out of
\* meanwhile - and the composer comes back however the turn ended, unless it was refused.
OneTurnAtATime ==
  LET turns == InFlight({"turn"})
  IN  /\ \A q, r \in turns : q = r
      /\ busy <=> turns # {} \/ shut

\* app.tsx, LIVE_ID, "the transient entry that holds the rail while a turn streams": there
\* is one at most on screen, in whatever conversation, and it is that of the turn in flight.
OneLiveRail ==
  LET live == {i \in DOMAIN entries : entries[i].kind = "live"}
  IN  /\ \A i, j \in live : i = j
      /\ \A i \in live : \E r \in InFlight({"turn"}) : r.turn = entries[i].turn

\* What is on screen is kept, but for a greeting and an answer no transcript has; and what is
\* kept is on screen, but for what was said beside an answer.
Agree(shown, kept) ==
  /\ \A e \in shown \ kept : e.kind \in {"greeting", "unkept"}
  /\ \A e \in kept \ shown : e.kind = "aside"

\* The turns in the order they were sent, each with its one question first and its one answer
\* last.
Before(d, e) ==
  \/ d.turn < e.turn
  \/ d.turn = e.turn /\ d.kind \in {"user", "aside"} /\ e.kind # "user"
InOrder(s) == \A i, j \in DOMAIN s : i < j => Before(s[i], s[j])

\* app.tsx, openThread, resume and send, against _readable_messages of app.py: with no turn in
\* flight the page shows the conversation that the service keeps under the identifier the
\* page holds, every question and answer of it once and in the order of the turns, and
\* nothing of another, however many were opened, picked and removed - unless a turn failed, or
\* ran while another transcript was being fetched, since this one was.
ShownIsWhatWasSaid ==
  thread # None /\ ~busy /\ ~astray =>
    /\ Agree(Range(entries), Range(history[thread]))
    /\ InOrder(entries)
=============================================================================
