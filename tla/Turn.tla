-------------------------------- MODULE Turn --------------------------------
(***************************************************************************)
(* The turns of one conversation: runtime/turns.py drives the agent graph, *)
(* the middleware of runtime/middleware (the trace outside, the gates the  *)
(* guardrail mode mounts inside) screens and narrates it, and the frames   *)
(* it yields go to the client, which folds them into an answer and a rail. *)
(*                                                                         *)
(* The graph itself is LangGraph's: every node of it reads the messages    *)
(* its run carries and the checkpoint is saved after it.  Two turns of one *)
(* conversation are two runs over one checkpoint; nothing orders them.     *)
(***************************************************************************)
EXTENDS Naturals, Sequences, FiniteSets

CONSTANTS
  Turns,       \* the turns asked for; a message is named by the turn that wrote it
  Tools,       \* what the model may call
  Asks         \* bound on what a turn's replies ask for: how many tools in the first,
               \* in the second, and so on: at least one reply, and no more than that

ASSUME TurnAssumption == IsFiniteSet(Tools) /\ Asks \in [Turns -> Seq(Nat) \ {<<>>}]

Gates == {"guard_in", "guard_out"}
Modes == {"both", "input", "output", "none"}

\* What the properties tell apart in a text: the check of its gate passes it, or
\* refuses it, or there is none; "refusal" is the replacement a gate substitutes.
Texts == {"fine", "breach", "refusal", ""}

Message == [role : {"human", "ai", "tool"}, text : Texts, calls : SUBSET Tools,
            refused_by : Gates \cup {"nobody"}, turn : Turns]

Nodes == {"trace_in", "guard_in", "model", "tools", "guard_out", "trace_out"}
Places == Nodes \cup {"idle", "calling", "closed", "failed", "replied", "done", "dropped"}

VARIABLES
  mode,       \* TRAIL_GUARDRAILS
  thread,     \* the messages of the conversation's last checkpoint
  \* each turn: where it is, the messages its run carries, the tools it has still to
  \* start and those running, its model calls, the frames it has yielded
  at, mine, waiting, running, rounds, frames,
  overlapped  \* the turns that ran while another one did

vars == <<mode, thread, at, mine, waiting, running, rounds, frames, overlapped>>
tooling == <<waiting, running>>

Stage(kind, name, status) ==
  [event |-> "stage", kind |-> kind, name |-> name, status |-> status]
Frame ==
  [event : {"stage"}, kind : Gates \cup {"model", "tool", "io"},
   name : Gates \cup Tools \cup {"model", "model.tools", "model.answer", "finish"},
   status : {"start", "done", "skip", "blocked"}]
    \cup [event : {"turn"}, answer : Message] \cup [event : {"error", "trace"}]

TypeOK ==
  /\ mode \in Modes
  /\ thread \in Seq(Message)
  /\ at \in [Turns -> Places]
  /\ mine \in [Turns -> Seq(Message)]
  /\ waiting \in [Turns -> SUBSET Tools]
  /\ running \in [Turns -> SUBSET Tools]
  /\ rounds \in [Turns -> Nat]
  /\ frames \in [Turns -> Seq(Frame)]
  /\ overlapped \subseteq Turns

Init ==
  /\ mode \in Modes
  /\ thread = <<>>
  /\ at = [t \in Turns |-> "idle"]
  /\ mine = [t \in Turns |-> <<>>]
  /\ waiting = [t \in Turns |-> {}]
  /\ running = [t \in Turns |-> {}]
  /\ rounds = [t \in Turns |-> 0]
  /\ frames = [t \in Turns |-> <<>>]
  /\ overlapped = {}

-----------------------------------------------------------------------------
(* The dial: which gates a mode mounts and which it leaves out are two tables. *)

Mounted(m) ==
  [both |-> Gates, input |-> {"guard_in"}, output |-> {"guard_out"}, none |-> {}][m]
Omitted(m) ==
  [both |-> {}, input |-> {"guard_out"}, output |-> {"guard_in"}, none |-> Gates][m]

\* A gate the dial leaves out is reported where it would have run.
Skips(gate) == IF gate \in Omitted(mode) THEN <<Stage(gate, gate, "skip")>> ELSE <<>>

(* The middleware is the trace, then the mounted gates; after_agent hooks unwind in *)
(* reverse, so a run ends through the output gate if there is one.                  *)
Entry == IF "guard_in" \in Mounted(mode) THEN "guard_in" ELSE "model"
Exit == IF "guard_out" \in Mounted(mode) THEN "guard_out" ELSE "trace_out"

-----------------------------------------------------------------------------
Last(s) == s[Len(s)]

Human(t, text) ==
  [role |-> "human", text |-> text, calls |-> {}, refused_by |-> "nobody", turn |-> t]
Reply(t, text, calls) ==
  [role |-> "ai", text |-> text, calls |-> calls, refused_by |-> "nobody", turn |-> t]

\* The replacement a gate ends the turn with; it carries the gate's name.
Refusal(t, gate) ==
  [role |-> "ai", text |-> "refusal", calls |-> {}, refused_by |-> gate, turn |-> t]

\* Mutant: the hook forgets to return what the tool said.
NoResults(t, calls) == <<>>
\* What the tools said, in one message.
Results(t, calls) ==
  <<[role |-> "tool", text |-> "", calls |-> calls, refused_by |-> "nobody", turn |-> t]>>

\* Mutant: the flag is not looked at, so a gate screens its own refusal.
RefusedByNobody(ms) == "nobody"
\* Which gate has refused this turn already.
RefusedBy(ms) == Last(ms).refused_by

\* Mutant: the output gate reads the question instead of the reply.
ReadsTheQuestion(ms) == \E i \in 1..Len(ms) : ms[i].role = "human" /\ ms[i].text = "breach"
\* The verdict of a gate's check on the last message.
Breaches(ms) == Last(ms).text = "breach"

InGraph(t) == at[t] \in Nodes \cup {"calling"}

Goto(t, place) == at' = [at EXCEPT ![t] = place]
Emit(t, fs) == frames' = [frames EXCEPT ![t] = @ \o fs]

\* A node has run: it emitted fs, its messages are added to the run's, the checkpoint
\* is saved and the graph goes on at next.
Node(t, fs, ms, next) ==
  /\ Emit(t, fs)
  /\ mine' = [mine EXCEPT ![t] = @ \o ms]
  /\ thread' = mine[t] \o ms
  /\ Goto(t, next)

\* The run is over, and what it carries with it.
Leave(t, place) ==
  /\ Goto(t, place)
  /\ mine' = [mine EXCEPT ![t] = <<>>]
  /\ waiting' = [waiting EXCEPT ![t] = {}]
  /\ running' = [running EXCEPT ![t] = {}]
  /\ rounds' = [rounds EXCEPT ![t] = 0]
  /\ UNCHANGED <<mode, overlapped, thread>>

-----------------------------------------------------------------------------
\* Mutant: a run starts from its question alone.
Afresh == <<>>
\* The messages a run starts from: those of the conversation's last checkpoint.
Resumed == thread

\* The request reaches the graph: its run reads the conversation and takes the question
\* after what was said.  The first node saves both.
OpenTurn(t) ==
  /\ at[t] = "idle"
  /\ \E text \in {"fine", "breach"} :
        mine' = [mine EXCEPT ![t] = Append(Resumed, Human(t, text))]
  /\ LET others == {u \in Turns \ {t} : InGraph(u)} IN
     overlapped' = IF others = {} THEN overlapped ELSE overlapped \cup others \cup {t}
  /\ Goto(t, "trace_in")
  /\ UNCHANGED <<mode, thread, waiting, running, rounds, frames>>

\* TraceMiddleware.abefore_agent: the rail opens.
OpenRail(t) ==
  /\ at[t] = "trace_in"
  /\ Node(t, Skips("guard_in"), <<>>, Entry)
  /\ UNCHANGED <<mode, overlapped, tooling, rounds>>

\* Mutant: the refusal is appended, and the graph goes on.
NoJump == "model"
\* jump_to "end" leads out of the graph through the completion hooks.
JumpToEnd == Exit

\* InputGuard.abefore_agent: a refused question goes past the model and the tools.
ScreenInput(t) ==
  /\ at[t] = "guard_in"
  /\ IF Breaches(mine[t])
       THEN Node(t, <<Stage("guard_in", "guard_in", "blocked"),
                      Stage("model", "model", "skip")>>,
                 <<Refusal(t, "guard_in")>>, JumpToEnd)
       ELSE Node(t, <<Stage("guard_in", "guard_in", "done")>>, <<>>, "model")
  /\ UNCHANGED <<mode, overlapped, tooling, rounds>>

-----------------------------------------------------------------------------
\* Mutant: a call that raised is not reported.
FailedUnsaid(kind, name) == <<>>
\* A call that raised still ran, and says so.
Failed(kind, name) == <<Stage(kind, name, "blocked")>>

\* Mutant: the frame of a call for tools is not named.
Unnamed(calls) == IF calls = {} THEN "model.answer" ELSE ""
\* What a model call turned out to be for.
ModelRole(calls) == IF calls = {} THEN "model.answer" ELSE "model.tools"

\* awrap_model_call, up to the await of the handler.
StartModel(t) ==
  /\ at[t] = "model" /\ rounds[t] < Len(Asks[t])
  /\ rounds' = [rounds EXCEPT ![t] = @ + 1]
  /\ Emit(t, <<Stage("model", "model", "start")>>)
  /\ Goto(t, "calling")
  /\ UNCHANGED <<mode, overlapped, thread, mine, tooling>>

\* The model asks for tools, with or without words of its own, or it answers.
ModelReturns(t) ==
  /\ at[t] = "calling"
  /\ \E calls \in {c \in SUBSET Tools : Cardinality(c) <= Asks[t][rounds[t]]} :
     \E text \in {"breach", IF calls = {} THEN "fine" ELSE ""} :
        /\ Node(t, <<Stage("model", ModelRole(calls), "done")>>, <<Reply(t, text, calls)>>,
                IF calls = {} THEN Exit ELSE "tools")
        /\ waiting' = [waiting EXCEPT ![t] = calls]
  /\ UNCHANGED <<mode, overlapped, running, rounds>>

ModelFails(t) ==
  /\ at[t] = "calling"
  /\ Emit(t, Failed("model", "model"))
  /\ Leave(t, "failed")

\* The graph gives up a turn that goes round too often, between two nodes of it; how
\* often is too often is LangGraph's recursion limit.
GiveUp(t) ==
  /\ at[t] = "model" /\ rounds[t] > 0
  /\ Leave(t, "failed")
  /\ UNCHANGED frames

(* awrap_tool_call: the calls of a reply run beside each other, and what they return *)
(* is saved when the last is in.                                                     *)

StartTool(t, x) ==
  /\ at[t] = "tools" /\ x \in waiting[t]
  /\ waiting' = [waiting EXCEPT ![t] = @ \ {x}]
  /\ running' = [running EXCEPT ![t] = @ \cup {x}]
  /\ Emit(t, <<Stage("tool", x, "start")>>)
  /\ UNCHANGED <<mode, overlapped, thread, at, mine, rounds>>

ToolReturns(t, x) ==
  /\ at[t] = "tools" /\ x \in running[t]
  /\ running' = [running EXCEPT ![t] = @ \ {x}]
  /\ LET done == <<Stage("tool", x, "done")>> IN
     IF waiting[t] = {} /\ running[t] = {x}
       THEN Node(t, done, Results(t, Last(mine[t]).calls), "model")
       ELSE Emit(t, done) /\ UNCHANGED <<thread, mine, at>>
  /\ UNCHANGED <<mode, overlapped, waiting, rounds>>

\* A tool that raises fails the turn: the graph cancels the calls beside it.
ToolFails(t, x) ==
  /\ at[t] = "tools" /\ x \in running[t]
  /\ Emit(t, Failed("tool", x))
  /\ Leave(t, "failed")

-----------------------------------------------------------------------------
\* OutputGuard.aafter_agent.  Its refusal jumps to the end of the graph, and the way
\* there leads through this gate again: it has reported, and says no more.
ScreenOutput(t) ==
  /\ at[t] = "guard_out"
  /\ CASE RefusedBy(mine[t]) = "guard_out" -> Node(t, <<>>, <<>>, "trace_out")
       [] RefusedBy(mine[t]) = "guard_in" ->
            Node(t, <<Stage("guard_out", "guard_out", "skip")>>, <<>>, "trace_out")
       [] RefusedBy(mine[t]) = "nobody" /\ Breaches(mine[t]) ->
            Node(t, <<Stage("guard_out", "guard_out", "blocked")>>,
                 <<Refusal(t, "guard_out")>>, JumpToEnd)
       [] OTHER -> Node(t, <<Stage("guard_out", "guard_out", "done")>>, <<>>, "trace_out")
  /\ UNCHANGED <<mode, overlapped, tooling, rounds>>

\* TraceMiddleware.aafter_agent: the rail closes.
CloseRail(t) ==
  /\ at[t] = "trace_out"
  /\ Node(t, Append(Skips("guard_out"), Stage("io", "finish", "done")), <<>>, "closed")
  /\ UNCHANGED <<mode, overlapped, tooling, rounds>>

-----------------------------------------------------------------------------
(* The runner: once the graph has ended, the answer or the error, then the trace. *)

\* The last message the assistant wrote.
FinalMessage(ms) ==
  LET wrote == {i \in 1..Len(ms) : ms[i].role = "ai"}
  IN ms[CHOOSE i \in wrote : \A j \in wrote : j <= i]

Answer(t) ==
  /\ at[t] = "closed"
  /\ Emit(t, <<[event |-> "turn", answer |-> FinalMessage(mine[t])]>>)
  /\ Leave(t, "replied")

Fail(t) ==
  /\ at[t] = "failed"
  /\ Emit(t, <<[event |-> "error"]>>)
  /\ Goto(t, "replied")
  /\ UNCHANGED <<mode, overlapped, thread, mine, tooling, rounds>>

\* Mutant: the runner returns once it has yielded the error.
AnsweredOnly(t) == at[t] = "replied" /\ Last(frames[t]).event = "turn"
\* The answer or the error is out.
Replied(t) == at[t] = "replied"

Trace(t) ==
  /\ Replied(t)
  /\ Emit(t, <<[event |-> "trace"]>>)
  /\ Goto(t, "done")
  /\ UNCHANGED <<mode, overlapped, thread, mine, tooling, rounds>>

\* The reader of the stream goes away, or the server does: whatever the turn awaits is
\* cancelled, which is no exception to the hooks and to the runner.  What is left of it
\* is in the checkpoint.
Drop(t) ==
  /\ at[t] \notin {"idle", "done", "dropped"}
  /\ Leave(t, "dropped")
  /\ frames' = [frames EXCEPT ![t] = <<>>]

-----------------------------------------------------------------------------
Advance(t) ==
  \/ OpenRail(t) \/ ScreenInput(t)
  \/ StartModel(t) \/ ModelReturns(t) \/ ModelFails(t) \/ GiveUp(t)
  \/ \E x \in Tools : StartTool(t, x) \/ ToolReturns(t, x) \/ ToolFails(t, x)
  \/ ScreenOutput(t) \/ CloseRail(t)
  \/ Answer(t) \/ Fail(t) \/ Trace(t)

Next == \E t \in Turns : OpenTurn(t) \/ Advance(t) \/ Drop(t)

Spec == Init /\ [][Next]_vars

-----------------------------------------------------------------------------
(* The client: accumulateStage folds the frames as they arrive. *)

\* The frames of a stream that are on its rail, by where they came.
Rail(fs) == {i \in 1..Len(fs) : fs[i].event = "stage" /\ fs[i].status # "start"}

\* Mutant: the last frame decides.
LastIsBlocked(fs) ==
  \E i \in Rail(fs) : (\A j \in Rail(fs) : j <= i) /\ fs[i].status = "blocked"
Blocked(fs) == \E i \in Rail(fs) : fs[i].status = "blocked"

\* The reply a stream has brought, and what happened in it.
Answers(fs) == {fs[i].answer : i \in {j \in 1..Len(fs) : fs[j].event = "turn"}}
Has(fs, f) == \E i \in 1..Len(fs) : fs[i] = f
Count(fs, kind, statuses) ==
  Cardinality({i \in 1..Len(fs) :
                 fs[i].event = "stage" /\ fs[i].kind = kind /\ fs[i].status \in statuses})

\* GET /threads/{id}: where in the messages something was said, leaving out the calls and
\* what the tools returned.
Transcript(ms) == {i \in 1..Len(ms) : ms[i].role # "tool" /\ ms[i].text # ""}

-----------------------------------------------------------------------------
(* Safety.  Finished turns are those whose rail closed. *)

Finished(t) == Has(frames[t], Stage("io", "finish", "done"))

\* The rail of a finished turn accounts for both gates, once each, in the place where
\* they run: the input gate first, the output gate last before the end, whether a gate
\* ran, was left out by the dial or had nothing to screen (README.md:231-246).
RailIsInOrder ==
  \A t \in Turns : Finished(t) =>
    LET fs == frames[t] IN
    \A i \in Rail(fs) :
      /\ fs[i].kind = "guard_in" <=> \A j \in Rail(fs) : i <= j
      /\ fs[i].kind = "guard_out" <=> \E end \in Rail(fs) : {j \in Rail(fs) : j > i} = {end}
      /\ fs[i].kind = "io" <=> \A j \in Rail(fs) : j <= i

\* Every call a turn started is settled on its rail when the turn has ended by itself:
\* the model's always, the tools' unless one of them failed the turn beside the others
\* (trace.py:218-222, "a cell that renders as nothing").
StartsSettle ==
  \A t \in Turns : at[t] \in {"closed", "failed", "replied", "done"} =>
    /\ Count(frames[t], "model", {"start"})
         = Count(frames[t], "model", {"done", "blocked"})
    /\ Count(frames[t], "tool", {"blocked"}) = 0 =>
         Count(frames[t], "tool", {"start"}) = Count(frames[t], "tool", {"done"})

\* A question the input gate refused costs nothing: no model and no tool ran in its turn,
\* and the answer is the gate's.
RefusedNeverRuns ==
  \A t \in Turns : Has(frames[t], Stage("guard_in", "guard_in", "blocked")) =>
    /\ Count(frames[t], "model", {"start"}) + Count(frames[t], "tool", {"start"}) = 0
    /\ \A m \in Answers(frames[t]) : m = Refusal(t, "guard_in")

\* With the output gate mounted no reply its check refuses is anybody's answer; and the
\* answer is what this turn wrote, whatever ran beside it on the conversation.
AnswerIsScreened ==
  \A t \in Turns : \A m \in Answers(frames[t]) :
    /\ m.turn = t
    /\ "guard_out" \in Mounted(mode) => m.text # "breach"

\* The client marks a reply blocked exactly when a gate substituted it.
BlockedMeansRefused ==
  \A t \in Turns : \A m \in Answers(frames[t]) :
    Blocked(frames[t]) <=> m.text = "refusal"

\* What a turn answered can be read again, question before reply, unless another turn
\* ran on the conversation at the same time: the later checkpoint does not have the
\* other's.
AnsweredIsKept ==
  \A t \in Turns \ overlapped : \A m \in Answers(frames[t]) :
    \E i, j \in Transcript(thread) :
      i < j /\ thread[i].role = "human" /\ thread[i].turn = t /\ thread[j] = m

\* A call for tools that nothing answers, in a conversation at rest, was left by a turn
\* that failed or was dropped, or came of two turns at once.
OrphansHaveACause ==
  (\A t \in Turns : ~InGraph(t)) =>
    \A i \in 1..Len(thread) :
      thread[i].role = "ai" /\ thread[i].calls # {} =>
        \/ i < Len(thread) /\ thread[i + 1].role = "tool"
                           /\ thread[i + 1].calls = thread[i].calls
        \/ Answers(frames[thread[i].turn]) = {}
        \/ thread[i].turn \in overlapped

\* No turn that began hangs: until it has come to its trace frame, "always last, even
\* after an error" (turns.py:16), or is dropped, it has a step to take.
GoesOnToItsTrace ==
  \A t \in Turns : at[t] \notin {"idle", "done", "dropped"} => ENABLED Advance(t)
=============================================================================
