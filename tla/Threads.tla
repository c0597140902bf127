------------------------------ MODULE Threads ------------------------------
(***************************************************************************)
(* The conversations of src/trail/app.py: the index of runtime/threads.py  *)
(* (one record per conversation: owner, title, number of turns) beside the *)
(* checkpointer that holds what was said.                                  *)
(*                                                                         *)
(* A request is a coroutine; it is cut at the awaits of the index and of   *)
(* the turn, and between any two of them other requests run.  It may be    *)
(* dropped at any of them: the client of a stream goes away, or the server *)
(* does.                                                                   *)
(***************************************************************************)
EXTENDS Integers, FiniteSets

CONSTANTS
  Conversations,    \* thread ids
  Customers,
  Requests,         \* requests that come in; a message is named by the one that brings it
  InFlight,         \* bound on the requests served at once
  None              \* no value

Record == [owner : Customers, title : Requests \cup {None}, turns : Nat]

ASSUME ThreadsAssumption ==
  /\ InFlight \in Nat
  /\ None \notin Customers \cup Requests \cup Conversations \cup Record

Pcs == {"new", "run", "read", "write", "forget", "done"}

VARIABLES
  index,      \* the store: a record per conversation
  spoken,     \* the checkpointer: who has spoken in a conversation
  completed,  \* turns whose endpoint ran to its end
  opener,     \* who opened a conversation with POST /threads
  deleted,    \* conversations whose record was once dropped
  \* each request: where it is, whose, on which conversation, how it answers, and the
  \* record record_turn has read
  pc, customer, on, streams, seen

vars == <<index, spoken, completed, opener, deleted, pc, customer, on, streams, seen>>
history == <<completed, opener, deleted>>
request == <<customer, on, streams>>

TypeOK ==
  /\ index \in [Conversations -> Record \cup {None}]
  /\ spoken \in [Conversations -> SUBSET Customers]
  /\ completed \subseteq Requests
  /\ opener \in [Conversations -> Customers \cup {None}]
  /\ deleted \subseteq Conversations
  /\ pc \in [Requests -> Pcs]
  /\ customer \in [Requests -> Customers \cup {None}]
  /\ on \in [Requests -> Conversations \cup {None}]
  /\ streams \in [Requests -> BOOLEAN]
  /\ seen \in [Requests -> Record \cup {None}]

Init ==
  /\ index = [t \in Conversations |-> None]
  /\ spoken = [t \in Conversations |-> {}]
  /\ completed = {}
  /\ opener = [t \in Conversations |-> None]
  /\ deleted = {}
  /\ pc = [r \in Requests |-> "new"]
  /\ customer = [r \in Requests |-> None]
  /\ on = [r \in Requests |-> None]
  /\ streams = [r \in Requests |-> FALSE]
  /\ seen = [r \in Requests |-> None]

-----------------------------------------------------------------------------
Goto(r, label) == pc' = [pc EXCEPT ![r] = label]

Arriving(r) ==
  /\ pc[r] = "new"
  /\ Cardinality({q \in Requests : pc[q] \notin {"new", "done"}}) < InFlight

\* Request r, of customer c, is about conversation t.
Serve(r, c, t, stream) ==
  /\ customer' = [customer EXCEPT ![r] = c]
  /\ on' = [on EXCEPT ![r] = t]
  /\ streams' = [streams EXCEPT ![r] = stream]

\* Mutant: a conversation without turns is not listed, so it is taken for unknown.
may_speak_unlisted(c, t) ==
  index[t] # None /\ index[t].turns > 0 => index[t].owner = c

\* _refuse_someone_elses_thread: an id the index does not know is claimed, not refused.
may_speak(c, t) == index[t] # None => index[t].owner = c

visible_to(c, t) == index[t] # None /\ index[t].owner = c

\* A fresh uuid: no request has named it.
StartThread(r, c, t) ==
  /\ Arriving(r)
  /\ \A q \in Requests : on[q] # t
  /\ Serve(r, c, t, FALSE)
  /\ index' = [index EXCEPT ![t] = [owner |-> c, title |-> None, turns |-> 0]]
  /\ opener' = [opener EXCEPT ![t] = c]
  /\ Goto(r, "done")
  /\ UNCHANGED <<spoken, completed, deleted, seen>>

\* A streamed turn answers first and records itself after.
StreamTurn(r, c, t) ==
  /\ Arriving(r)
  /\ may_speak(c, t)
  /\ Serve(r, c, t, TRUE)
  /\ Goto(r, "run")
  /\ UNCHANGED <<index, spoken, history, seen>>

\* Mutant: a buffered turn runs at once, as a streamed one does.
SubmitTurn_run_first(r, c, t) ==
  /\ Arriving(r)
  /\ may_speak(c, t)
  /\ Serve(r, c, t, FALSE)
  /\ Goto(r, "run")
  /\ UNCHANGED <<index, spoken, history, seen>>

\* A buffered turn records itself first.
SubmitTurn(r, c, t) ==
  /\ Arriving(r)
  /\ may_speak(c, t)
  /\ Serve(r, c, t, FALSE)
  /\ Goto(r, "read")
  /\ UNCHANGED <<index, spoken, history, seen>>

\* Mutant: a stream that ended is not recorded.
RunTurn_unrecorded(r) ==
  /\ pc[r] = "run"
  /\ spoken' = [spoken EXCEPT ![on[r]] = @ \cup {customer[r]}]
  /\ Goto(r, "done")
  /\ completed' = completed \cup {r}
  /\ UNCHANGED <<index, opener, deleted, request, seen>>

\* run_turn: the agent reads and extends the conversation's checkpoint.
RunTurn(r) ==
  /\ pc[r] = "run"
  /\ spoken' = [spoken EXCEPT ![on[r]] = @ \cup {customer[r]}]
  /\ Goto(r, IF streams[r] THEN "read" ELSE "done")
  /\ completed' = IF streams[r] THEN completed ELSE completed \cup {r}
  /\ UNCHANGED <<index, opener, deleted, request, seen>>

\* record_turn, up to its first await.
ReadRecord(r) ==
  /\ pc[r] = "read"
  /\ seen' = [seen EXCEPT ![r] = index[on[r]]]
  /\ Goto(r, "write")
  /\ UNCHANGED <<index, spoken, history, request>>

\* What record_turn makes of the record it read: owner and title are set once.
bumped(r) ==
  LET old == seen[r] IN
  IF old = None THEN [owner |-> customer[r], title |-> r, turns |-> 1]
  ELSE [old EXCEPT !.title = IF @ = None THEN r ELSE @, !.turns = @ + 1]

\* record_turn, after its first await: a turn on someone else's record writes nothing.
WriteRecord(r) ==
  LET t == on[r] IN
  /\ pc[r] = "write"
  /\ index' = IF seen[r] # None /\ seen[r].owner # customer[r]
                THEN index
                ELSE [index EXCEPT ![t] = bumped(r)]
  /\ Goto(r, IF streams[r] THEN "done" ELSE "run")
  /\ completed' = IF streams[r] THEN completed \cup {r} ELSE completed
  /\ UNCHANGED <<spoken, opener, deleted, request, seen>>

\* A delete: the owner is checked in one await, the record dropped in the next.
DeleteThread(r, c, t) ==
  /\ Arriving(r)
  /\ visible_to(c, t)
  /\ Serve(r, c, t, FALSE)
  /\ Goto(r, "forget")
  /\ UNCHANGED <<index, spoken, history, seen>>

\* The checkpoint stays.
Forget(r) ==
  /\ pc[r] = "forget"
  /\ index' = [index EXCEPT ![on[r]] = None]
  /\ deleted' = deleted \cup {on[r]}
  /\ Goto(r, "done")
  /\ UNCHANGED <<spoken, completed, opener, request, seen>>

Drop(r) ==
  /\ pc[r] \notin {"new", "done"}
  /\ Goto(r, "done")
  /\ UNCHANGED <<index, spoken, history, request, seen>>

Next ==
  \E r \in Requests :
    \/ \E c \in Customers, t \in Conversations :
         \/ StartThread(r, c, t)
         \/ StreamTurn(r, c, t)
         \/ SubmitTurn(r, c, t)
         \/ DeleteThread(r, c, t)
    \/ RunTurn(r)
    \/ ReadRecord(r)
    \/ WriteRecord(r)
    \/ Forget(r)
    \/ Drop(r)

Spec == Init /\ [][Next]_vars

-----------------------------------------------------------------------------
has_turns(t) == index[t] # None /\ index[t].turns > 0
kept(t) == opener[t] # None /\ t \notin deleted

\* "A conversation belongs to the customer whose turn created it": whoever else has
\* requests in flight, a conversation that was opened and not deleted stays its opener's,
\* and nobody else's turn has run over its checkpoint (_refuse_someone_elses_thread,
\* record_turn).
OpenedIsKept ==
  \A t \in Conversations : kept(t) =>
    /\ index[t] # None /\ index[t].owner = opener[t]
    /\ spoken[t] \subseteq {opener[t]}

\* A sidebar shows every conversation in which a turn was carried through: recording a turn
\* in two awaits may lose a count, never the conversation (record_turn, list_threads).
CompletedIsListed ==
  \A r \in completed : on[r] \notin deleted =>
    has_turns(on[r])

\* What is true of every request, and makes the two properties above inductive.  A request
\* is about a conversation from when it is taken up; only those spoke in it.
Served ==
  /\ \A r \in Requests :
       /\ pc[r] = "new" => on[r] = None
       /\ pc[r] # "new" => on[r] \in Conversations /\ customer[r] \in Customers
  /\ completed \subseteq {r \in Requests : pc[r] = "done"}
  /\ \A t \in Conversations : spoken[t] \subseteq {customer[r] : r \in {q \in Requests : on[q] = t}}

\* Every request on an opened conversation is its opener's, and has read no other's record.
Mine ==
  \A r \in Requests : pc[r] # "new" /\ kept(on[r]) =>
    /\ customer[r] = opener[on[r]]
    /\ pc[r] = "write" => seen[r] # None /\ seen[r].owner = opener[on[r]]

\* A turn that will not write any more, or was written before it ran, is in the index.
Listed ==
  /\ \A t \in Conversations \ deleted : index[t] # None /\ ~has_turns(t) => opener[t] # None
  /\ \A r \in Requests : pc[r] # "new" /\ on[r] \notin deleted =>
       /\ pc[r] = "run" /\ ~streams[r] => has_turns(on[r])
       /\ pc[r] = "write" /\ seen[r] # None /\ seen[r].owner # customer[r] => has_turns(on[r])

\* The inductive invariant: who speaks in an opened conversation and what the index has of
\* each, at every await of a request (app.py, threads.py).
ThreadsInv ==
  TypeOK /\ Served /\ Mine /\ Listed /\ OpenedIsKept /\ CompletedIsListed
=============================================================================
