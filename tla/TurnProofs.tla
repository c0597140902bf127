----------------------------- MODULE TurnProofs -----------------------------
(***************************************************************************)
(* What the turns of a conversation keep, for any number of turns, of      *)
(* tools and of rounds, in every guardrail mode, whatever fails or is      *)
(* dropped: the rail's order, that starts are settled, that the gates'     *)
(* word is the last one, and what the conversation keeps of a turn.        *)
(***************************************************************************)
EXTENDS Turn, TLAPS, FiniteSetTheorems, SequenceTheorems

-----------------------------------------------------------------------------
(* A stream, by how far its rail has got.                                  *)

Settles(f, gate) == f.event = "stage" /\ f.kind = gate /\ f.status # "start"
Working(f) == f.event = "stage" /\ f.kind \in {"model", "tool"}
finish == Stage("io", "finish", "done")

\* The input gate is accounted for, and up to n the graph worked.
Opened(fs, n) ==
  n \in 1..Len(fs) /\ Settles(fs[1], "guard_in") /\ \A i \in 2..n : Working(fs[i])

\* And then the output gate.
Screened(fs, n) == n \in 2..Len(fs) /\ Opened(fs, n - 1) /\ Settles(fs[n], "guard_out")

\* And then the end, after which come no stages.
Ended(fs, n) ==
  /\ n \in 3..Len(fs) /\ Screened(fs, n - 1) /\ fs[n] = finish
  /\ \A i \in n + 1..Len(fs) : fs[i].event # "stage"

RailInv(t) ==
  LET fs == frames[t]
      end == Len(fs) IN
  /\ at[t] \in {"idle", "trace_in", "guard_in", "dropped"} => fs = <<>>
  /\ at[t] \in {"model", "calling", "tools", "failed"} => Opened(fs, end)
  /\ at[t] = "guard_out" => IF RefusedBy(mine[t]) = "guard_out" THEN Screened(fs, end)
                                                               ELSE Opened(fs, end)
  /\ at[t] = "trace_out" => IF "guard_out" \in Mounted(mode) THEN Screened(fs, end)
                                                            ELSE Opened(fs, end)
  /\ at[t] = "closed" => Ended(fs, end)
  /\ at[t] \in {"replied", "done"} /\ Finished(t) => \E n \in 1..end : Ended(fs, n)

\* What a run carries: its question, and last what the node before this one wrote.
QuestionInv(t) ==
  at[t] \in Nodes \cup {"calling", "closed"} =>
    \E i \in 1..Len(mine[t]) :
      /\ mine[t][i].role = "human" /\ mine[t][i].turn = t /\ mine[t][i].text # ""
      /\ at[t] \in {"guard_out", "trace_out", "closed"} => i < Len(mine[t])

LastInv(t) ==
  LET m == Last(mine[t]) IN
  /\ at[t] \in Nodes \cup {"calling", "closed"} => mine[t] # <<>> /\ m.turn = t
  /\ at[t] \in {"trace_in", "guard_in", "model", "calling"} =>
       m.role # "ai" /\ m.text # "refusal" /\ m.refused_by = "nobody"
  /\ at[t] = "tools" => m.role = "ai" /\ m.calls # {}
  /\ at[t] \in {"guard_out", "trace_out", "closed"} =>
       /\ m.role = "ai" /\ m.calls = {} /\ m.text # ""
       /\ m.text = "refusal" <=> m.refused_by # "nobody"
       /\ m.refused_by = "guard_in" => m = Refusal(t, "guard_in")
  /\ at[t] \in {"trace_out", "closed"} /\ "guard_out" \in Mounted(mode) => m.text # "breach"
  /\ at[t] = "guard_out" => "guard_out" \in Mounted(mode)
  /\ at[t] = "guard_in" => "guard_in" \in Mounted(mode)

refused == Stage("guard_in", "guard_in", "blocked")

\* What a stream says was started, and how it ended.
ModelStarts(fs) == Count(fs, "model", {"start"})
ModelEnds(fs) == Count(fs, "model", {"done", "blocked"})
ToolStarts(fs) == Count(fs, "tool", {"start"})
ToolEnds(fs) == Count(fs, "tool", {"done"})
ToolsBlocked(fs) == Count(fs, "tool", {"blocked"})

\* What is said to be blocked is refused.
BlockInv(t) ==
  LET fs == frames[t]
      m == Last(mine[t]) IN
  /\ at[t] \in {"model", "calling", "tools"} => ~Blocked(fs)
  /\ at[t] \in {"guard_out", "trace_out", "closed"} => (Blocked(fs) <=> m.text = "refusal")
  /\ Has(fs, refused) =>
       /\ at[t] \in {"guard_out", "trace_out", "closed", "replied", "done"}
       /\ ModelStarts(fs) = 0 /\ ToolStarts(fs) = 0
       /\ at[t] \in {"guard_out", "trace_out", "closed"} => m = Refusal(t, "guard_in")

\* What was started is settled or running.
CountInv(t) ==
  LET fs == frames[t] IN
  /\ at[t] # "tools" => waiting[t] = {} /\ running[t] = {}
  /\ waiting[t] \cap running[t] = {}
  /\ ModelStarts(fs) = ModelEnds(fs) + (IF at[t] = "calling" THEN 1 ELSE 0)
  /\ ToolsBlocked(fs) = 0 => ToolStarts(fs) = ToolEnds(fs) + Cardinality(running[t])

AnswerInv(t) ==
  /\ at[t] \notin {"replied", "done"} => Answers(frames[t]) = {}
  /\ \A m \in Answers(frames[t]) :
       /\ m.turn = t
       /\ "guard_out" \in Mounted(mode) => m.text # "breach"
       /\ Blocked(frames[t]) <=> m.text = "refusal"
       /\ Has(frames[t], refused) => m = Refusal(t, "guard_in")

TurnInv(t) ==
  RailInv(t) /\ QuestionInv(t) /\ LastInv(t) /\ BlockInv(t) /\ CountInv(t) /\ AnswerInv(t)

-----------------------------------------------------------------------------
(* The conversation, between its turns.                                    *)

\* The messages ms have the question of turn t and after it the reply m.
Holds(ms, t, m) ==
  \E i, j \in Transcript(ms) : i < j /\ ms[i].role = "human" /\ ms[i].turn = t /\ ms[j] = m

\* What a turn has answered, or is about to.
Said(t) == IF at[t] = "closed" THEN {Last(mine[t])} ELSE Answers(frames[t])

\* A turn nothing runs beside is alone in the graph, and reads what is saved.
AloneInv ==
  /\ \A t, u \in Turns : t # u /\ InGraph(t) /\ InGraph(u) => t \in overlapped
  /\ \A t \in Turns \ overlapped : \A m \in Said(t) :
       /\ Holds(thread, t, m)
       /\ \A u \in Turns \ {t} : InGraph(u) => Holds(mine[u], t, m)

\* The calls of ms[i] are followed by what the tools said.
Settled(ms, i) ==
  i < Len(ms) /\ ms[i + 1].role = "tool" /\ ms[i + 1].calls = ms[i].calls

\* Turn t is over, and has not answered; or it ran beside another one.
Excused(t) ==
  \/ at[t] \in {"failed", "dropped"}
  \/ at[t] \in {"replied", "done"} /\ Answers(frames[t]) = {}
  \/ t \in overlapped

Asking(ms) == {i \in 1..Len(ms) : ms[i].role = "ai" /\ ms[i].calls # {}}

OrphanInv ==
  /\ \A i \in Asking(thread) :
       Settled(thread, i) \/ Excused(thread[i].turn) \/ InGraph(thread[i].turn)
  /\ \A t \in Turns : InGraph(t) => \A i \in Asking(mine[t]) :
       \/ Settled(mine[t], i) \/ Excused(mine[t][i].turn)
       \/ i = Len(mine[t]) /\ at[t] = "tools"

IInv == TypeOK /\ (\A t \in Turns : TurnInv(t)) /\ AloneInv /\ OrphanInv

-----------------------------------------------------------------------------
(* Sequences that grow at their end.                                       *)

LEMMA Added ==
  ASSUME NEW S, NEW s \in Seq(S), NEW e \in S
  PROVE  /\ s \o <<e>> \in Seq(S) /\ Len(s \o <<e>>) = Len(s) + 1 /\ Len(s) \in Nat
         /\ \A i \in 1..Len(s) : (s \o <<e>>)[i] = s[i]
         /\ (s \o <<e>>)[Len(s) + 1] = e
         /\ Last(s \o <<e>>) = e
<1>1. <<e>> \in Seq(S) /\ Len(<<e>>) = 1 /\ <<e>>[1] = e
  OBVIOUS
<1>2. /\ s \o <<e>> \in Seq(S) /\ Len(s \o <<e>>) = Len(s) + 1
      /\ \A i \in 1..Len(s) + 1 :
           (s \o <<e>>)[i] = IF i <= Len(s) THEN s[i] ELSE <<e>>[i - Len(s)]
  BY <1>1, ConcatProperties
<1>3. Len(s) \in Nat
  BY LenProperties
<1>. QED
  BY <1>1, <1>2, <1>3 DEF Last

\* Two at once are one after the other.
LEMMA AddedTwo ==
  ASSUME NEW S, NEW s \in Seq(S), NEW e \in S, NEW f \in S
  PROVE  s \o <<e, f>> = (s \o <<e>>) \o <<f>>
<1>1. <<e>> \in Seq(S) /\ <<f>> \in Seq(S) /\ <<e, f>> \in Seq(S)
  OBVIOUS
<1>2. Len(<<e>>) = 1 /\ Len(<<f>>) = 1 /\ Len(<<e, f>>) = 2
        /\ <<e>>[1] = e /\ <<f>>[1] = f /\ <<e, f>>[1] = e /\ <<e, f>>[2] = f
  OBVIOUS
<1>3. /\ <<e>> \o <<f>> \in Seq(S) /\ Len(<<e>> \o <<f>>) = 2
      /\ (<<e>> \o <<f>>)[1] = e /\ (<<e>> \o <<f>>)[2] = f
  BY <1>1, <1>2, ConcatProperties
<1>4. <<e>> \o <<f>> = <<e, f>>
  <2>1. \A i \in 1..2 : (<<e>> \o <<f>>)[i] = <<e, f>>[i]
    BY <1>2, <1>3
  <2>. QED
    BY <1>1, <1>2, <1>3, <2>1, SeqEqual
<1>5. (s \o <<e>>) \o <<f>> = s \o (<<e>> \o <<f>>)
  BY <1>1, ConcatAssociative
<1>. QED
  BY <1>4, <1>5

LEMMA NothingAdded ==
  ASSUME NEW S, NEW s \in Seq(S)
  PROVE  s \o <<>> = s
BY ConcatEmptySeq

\* What one more frame does to what is read off a stream.
LEMMA FrameAdded ==
  ASSUME NEW fs \in Seq(Frame), NEW f \in Frame
  PROVE  /\ fs \o <<f>> \in Seq(Frame)
         /\ Blocked(fs \o <<f>>) <=> Blocked(fs) \/ (f.event = "stage" /\ f.status = "blocked")
         /\ \A h : Has(fs \o <<f>>, h) <=> Has(fs, h) \/ f = h
         /\ f.event # "turn" => Answers(fs \o <<f>>) = Answers(fs)
         /\ f.event = "turn" => Answers(fs \o <<f>>) = Answers(fs) \cup {f.answer}
<1>. DEFINE gs == fs \o <<f>>
<1>0. /\ gs \in Seq(Frame) /\ Len(gs) = Len(fs) + 1 /\ Len(fs) \in Nat
      /\ \A i \in 1..Len(fs) : gs[i] = fs[i]
      /\ gs[Len(fs) + 1] = f
      /\ 1..Len(gs) = 1..Len(fs) \cup {Len(fs) + 1}
  BY Added
<1>1. Rail(gs) = Rail(fs) \cup
        (IF f.event = "stage" /\ f.status # "start" THEN {Len(fs) + 1} ELSE {})
  BY <1>0 DEF Rail
<1>2. Blocked(gs) <=> Blocked(fs) \/ (f.event = "stage" /\ f.status = "blocked")
  BY <1>0, <1>1 DEF Blocked, Rail
<1>3. \A h : Has(gs, h) <=> Has(fs, h) \/ f = h
  BY <1>0 DEF Has
<1>4. ASSUME NEW m
      PROVE  m \in Answers(gs) <=> m \in Answers(fs) \/ (f.event = "turn" /\ m = f.answer)
  BY <1>0 DEF Answers
<1>. QED
  BY <1>0, <1>2, <1>3, <1>4

LEMMA CountAdded ==
  ASSUME NEW fs \in Seq(Frame), NEW f \in Frame, NEW kind, NEW statuses
  PROVE  /\ Count(fs, kind, statuses) \in Nat
         /\ f.event = "stage" /\ f.kind = kind /\ f.status \in statuses =>
              Count(fs \o <<f>>, kind, statuses) = Count(fs, kind, statuses) + 1
         /\ ~(f.event = "stage" /\ f.kind = kind /\ f.status \in statuses) =>
              Count(fs \o <<f>>, kind, statuses) = Count(fs, kind, statuses)
<1>. DEFINE gs == fs \o <<f>>
            Counted(hs) == {i \in 1..Len(hs) : hs[i].event = "stage" /\ hs[i].kind = kind
                                                /\ hs[i].status \in statuses}
<1>0. /\ Len(gs) = Len(fs) + 1 /\ Len(fs) \in Nat
      /\ \A i \in 1..Len(fs) : gs[i] = fs[i]
      /\ gs[Len(fs) + 1] = f
      /\ 1..Len(gs) = 1..Len(fs) \cup {Len(fs) + 1}
  BY Added
<1>1. Counted(gs) = Counted(fs) \cup
        (IF f.event = "stage" /\ f.kind = kind /\ f.status \in statuses THEN {Len(fs) + 1} ELSE {})
  BY <1>0
<1>2. IsFiniteSet(Counted(fs)) /\ Len(fs) + 1 \notin Counted(fs)
  <2>1. IsFiniteSet(1..Len(fs))
    BY <1>0, FS_Interval
  <2>. QED
    BY <1>0, <2>1, FS_Subset
<1>3. Cardinality(Counted(fs)) \in Nat
  BY <1>2, FS_CardinalityType
<1>4. Cardinality(Counted(fs) \cup {Len(fs) + 1}) = Cardinality(Counted(fs)) + 1
  BY <1>2, FS_AddElement
<1>5. Count(fs, kind, statuses) = Cardinality(Counted(fs))
        /\ Count(gs, kind, statuses) = Cardinality(Counted(gs))
  BY DEF Count
<1>. HIDE DEF Counted
<1>. QED
  BY <1>1, <1>3, <1>4, <1>5

-----------------------------------------------------------------------------
(* Frames, messages and what the parts of an action do.                    *)

LEMMA StageType ==
  ASSUME NEW kind \in Gates \cup {"model", "tool", "io"},
         NEW name \in Gates \cup Tools \cup {"model", "model.tools", "model.answer", "finish"},
         NEW status \in {"start", "done", "skip", "blocked"}
  PROVE  /\ Stage(kind, name, status) \in Frame
         /\ Stage(kind, name, status).event = "stage" /\ Stage(kind, name, status).kind = kind
         /\ Stage(kind, name, status).name = name /\ Stage(kind, name, status).status = status
BY DEF Stage, Frame

LEMMA ToolStage ==
  ASSUME NEW x \in Tools, NEW status \in {"start", "done", "skip", "blocked"}
  PROVE  /\ Stage("tool", x, status) \in Frame
         /\ Stage("tool", x, status).event = "stage" /\ Stage("tool", x, status).kind = "tool"
         /\ Stage("tool", x, status).name = x /\ Stage("tool", x, status).status = status
<1>1. x \in Gates \cup Tools \cup {"model", "model.tools", "model.answer", "finish"}
  OBVIOUS
<1>2. "tool" \in Gates \cup {"model", "tool", "io"}
  OBVIOUS
<1>. QED
  BY <1>1, <1>2, StageType

LEMMA OtherFrames ==
  /\ \A m \in Message : [event |-> "turn", answer |-> m] \in Frame
  /\ [event |-> "error"] \in Frame /\ [event |-> "trace"] \in Frame
BY DEF Frame

LEMMA Messages ==
  ASSUME NEW t \in Turns
  PROVE  /\ \A text \in {"fine", "breach"} : Human(t, text) \in Message
         /\ \A text \in Texts, calls \in SUBSET Tools : Reply(t, text, calls) \in Message
         /\ \A gate \in Gates : Refusal(t, gate) \in Message
BY DEF Human, Reply, Refusal, Message, Texts

Told(t, calls) ==
  [role |-> "tool", text |-> "", calls |-> calls, refused_by |-> "nobody", turn |-> t]

LEMMA ResultsType ==
  ASSUME NEW t \in Turns, NEW calls \in SUBSET Tools
  PROVE  Told(t, calls) \in Message /\ Results(t, calls) = <<Told(t, calls)>>
BY DEF Results, Told, Message, Texts

LEMMA SkipsType ==
  ASSUME NEW gate \in Gates
  PROVE  \/ Skips(gate) = <<>> /\ gate \notin Omitted(mode)
         \/ Skips(gate) = <<Stage(gate, gate, "skip")>> /\ gate \in Omitted(mode)
BY DEF Skips

LEMMA Dial ==
  ASSUME mode \in Modes
  PROVE  /\ \A gate \in Gates : gate \in Mounted(mode) <=> gate \notin Omitted(mode)
         /\ Entry \in {"guard_in", "model"} /\ Exit \in {"guard_out", "trace_out"}
         /\ Entry = "guard_in" <=> "guard_in" \in Mounted(mode)
         /\ Exit = "guard_out" <=> "guard_out" \in Mounted(mode)
<1>1. /\ \A gate \in Gates : gate \in Mounted(mode) <=> gate \notin Omitted(mode)
  <2>1. CASE mode = "both"
    BY <2>1 DEF Mounted, Omitted
  <2>2. CASE mode = "input"
    BY <2>2 DEF Mounted, Omitted, Gates
  <2>3. CASE mode = "output"
    BY <2>3 DEF Mounted, Omitted, Gates
  <2>4. CASE mode = "none"
    BY <2>4 DEF Mounted, Omitted
  <2>. QED
    BY <2>1, <2>2, <2>3, <2>4 DEF Modes
<1>. QED
  BY <1>1 DEF Entry, Exit

\* Everything of another turn stays as it is.
Untouched(u) ==
  /\ at'[u] = at[u] /\ mine'[u] = mine[u] /\ waiting'[u] = waiting[u]
  /\ running'[u] = running[u] /\ frames'[u] = frames[u]

Others(t) == \A u \in Turns \ {t} : Untouched(u)

\* The variables that Node and Emit change have their types.
NodeTyped ==
  /\ frames' \in [Turns -> Seq(Frame)] /\ mine' \in [Turns -> Seq(Message)]
  /\ thread' \in Seq(Message) /\ at' \in [Turns -> Places]

LEMMA NodeEffect ==
  ASSUME TypeOK, NEW t \in Turns, NEW fs \in Seq(Frame), NEW ms \in Seq(Message),
         NEW next \in Places, Node(t, fs, ms, next)
  PROVE  /\ NodeTyped
         /\ frames'[t] = frames[t] \o fs /\ mine'[t] = mine[t] \o ms /\ thread' = mine'[t]
         /\ at'[t] = next
         /\ \A u \in Turns \ {t} :
              at'[u] = at[u] /\ mine'[u] = mine[u] /\ frames'[u] = frames[u]
<1>1. frames[t] \o fs \in Seq(Frame) /\ mine[t] \o ms \in Seq(Message)
  BY ConcatProperties DEF TypeOK
<1>. QED
  BY <1>1 DEF Node, Emit, Goto, TypeOK, NodeTyped

LEMMA EmitEffect ==
  ASSUME TypeOK, NEW t \in Turns, NEW fs \in Seq(Frame), Emit(t, fs)
  PROVE  /\ frames' \in [Turns -> Seq(Frame)]
         /\ frames'[t] = frames[t] \o fs
         /\ \A u \in Turns \ {t} : frames'[u] = frames[u]
<1>1. frames[t] \o fs \in Seq(Frame)
  BY ConcatProperties DEF TypeOK
<1>. QED
  BY <1>1 DEF Emit, TypeOK

LEMMA LeaveEffect ==
  ASSUME TypeOK, NEW t \in Turns, NEW place \in Places, Leave(t, place)
  PROVE  /\ mode' \in Modes /\ thread' \in Seq(Message) /\ at' \in [Turns -> Places]
         /\ mine' \in [Turns -> Seq(Message)] /\ waiting' \in [Turns -> SUBSET Tools]
         /\ running' \in [Turns -> SUBSET Tools] /\ rounds' \in [Turns -> Nat]
         /\ overlapped' \subseteq Turns
         /\ at'[t] = place /\ mine'[t] = <<>> /\ waiting'[t] = {} /\ running'[t] = {}
         /\ UNCHANGED <<mode, overlapped, thread>>
         /\ \A u \in Turns \ {t} :
              /\ at'[u] = at[u] /\ mine'[u] = mine[u] /\ waiting'[u] = waiting[u]
              /\ running'[u] = running[u]
BY DEF Leave, Goto, TypeOK

\* A turn nothing touched keeps what holds of it.
LEMMA OthersKeep ==
  ASSUME NEW u, TurnInv(u), Untouched(u), UNCHANGED mode
  PROVE  TurnInv(u)'
<1>. USE DEF Untouched
<1>1. RailInv(u)'
  BY DEF TurnInv, RailInv, Opened, Screened, Ended, Finished, Has, Mounted
<1>2. QuestionInv(u)' /\ LastInv(u)'
  BY DEF TurnInv, QuestionInv, LastInv, Mounted
<1>3. BlockInv(u)'
  BY DEF TurnInv, BlockInv
<1>4. CountInv(u)'
  BY DEF TurnInv, CountInv
<1>5. AnswerInv(u)'
  BY DEF TurnInv, AnswerInv
<1>. QED
  BY <1>1, <1>2, <1>3, <1>4, <1>5 DEF TurnInv

-----------------------------------------------------------------------------
(* A stream that grows by a frame, and a run's messages by one.            *)

LEMMA RailGrows ==
  ASSUME NEW fs \in Seq(Frame), NEW f \in Frame, NEW gs, gs = fs \o <<f>>
  PROVE  /\ fs = <<>> /\ Settles(f, "guard_in") => Opened(gs, Len(gs))
         /\ Opened(fs, Len(fs)) /\ Working(f) => Opened(gs, Len(gs))
         /\ Opened(fs, Len(fs)) /\ Settles(f, "guard_out") => Screened(gs, Len(gs))
         /\ Screened(fs, Len(fs)) /\ f = finish => Ended(gs, Len(gs))
         /\ \A n \in 1..Len(fs) : Ended(fs, n) /\ f.event # "stage" =>
              n \in 1..Len(gs) /\ Ended(gs, n)
<1>0. /\ Len(gs) = Len(fs) + 1 /\ Len(fs) \in Nat
      /\ \A i \in 1..Len(fs) : gs[i] = fs[i]
      /\ gs[Len(fs) + 1] = f
  BY Added
<1>1. \A n \in 1..Len(fs) : Opened(fs, n) => Opened(gs, n)
  BY <1>0 DEF Opened
<1>2. \A n \in 1..Len(fs) : Screened(fs, n) => Screened(gs, n)
  <2>. SUFFICES ASSUME NEW n \in 1..Len(fs), Screened(fs, n) PROVE Screened(gs, n)
    OBVIOUS
  <2>1. n \in 2..Len(fs) /\ Opened(fs, n - 1) /\ n - 1 \in 1..Len(fs)
    BY <1>0 DEF Screened
  <2>. QED
    BY <1>0, <1>1, <2>1 DEF Screened
<1>7. fs = <<>> /\ Settles(f, "guard_in") => Opened(gs, Len(gs))
  <2>. SUFFICES ASSUME fs = <<>>, Settles(f, "guard_in") PROVE Opened(gs, Len(gs))
    OBVIOUS
  <2>1. Len(fs) = 0
    OBVIOUS
  <2>. QED
    BY <1>0, <2>1 DEF Opened
<1>3. Opened(fs, Len(fs)) /\ Working(f) => Opened(gs, Len(gs))
  BY <1>0 DEF Opened
<1>4. Opened(fs, Len(fs)) /\ Settles(f, "guard_out") => Screened(gs, Len(gs))
  BY <1>0, <1>1 DEF Opened, Screened
<1>5. Screened(fs, Len(fs)) /\ f = finish => Ended(gs, Len(gs))
  <2>. SUFFICES ASSUME Screened(fs, Len(fs)), f = finish PROVE Ended(gs, Len(gs))
    OBVIOUS
  <2>1. Len(fs) >= 2 /\ Len(fs) \in 1..Len(fs)
    BY <1>0 DEF Screened
  <2>2. Screened(gs, Len(gs) - 1)
    BY <1>0, <1>2, <2>1
  <2>3. Len(gs) \in 3..Len(gs) /\ \A i \in Len(gs) + 1..Len(gs) : FALSE
    BY <1>0, <2>1
  <2>. QED
    BY <1>0, <2>2, <2>3 DEF Ended
<1>6. ASSUME NEW n \in 1..Len(fs), Ended(fs, n), f.event # "stage"
      PROVE  n \in 1..Len(gs) /\ Ended(gs, n)
  <2>1. n \in 3..Len(fs) /\ Screened(fs, n - 1) /\ n - 1 \in 1..Len(fs) /\ fs[n] = finish
    BY <1>0, <1>6 DEF Ended
  <2>2. \A i \in n + 1..Len(gs) : gs[i].event # "stage"
    BY <1>0, <1>6 DEF Ended
  <2>. QED
    BY <1>0, <1>2, <2>1, <2>2 DEF Ended
<1>. QED
  BY <1>3, <1>4, <1>5, <1>6, <1>7

\* A rail that is not closed has no end.
LEMMA NotFinished ==
  ASSUME NEW fs \in Seq(Frame), Opened(fs, Len(fs))
  PROVE  ~Has(fs, finish)
<1>1. finish.event = "stage" /\ finish.kind = "io"
  BY DEF finish, Stage
<1>. QED
  BY <1>1 DEF Opened, Has, Settles, Working

\* What a run carries stays where it is.
LEMMA QuestionStays ==
  ASSUME NEW ms \in Seq(Message), NEW m \in Message, NEW t
  PROVE  /\ \A i \in 1..Len(ms) : (ms \o <<m>>)[i] = ms[i]
         /\ \A i \in 1..Len(ms) : i \in 1..Len(ms \o <<m>>) /\ i < Len(ms \o <<m>>)
BY Added

LEMMA EmptyStream ==
  /\ ~Blocked(<<>>) /\ Answers(<<>>) = {} /\ ~Has(<<>>, refused) /\ ~Has(<<>>, finish)
  /\ ModelStarts(<<>>) = 0 /\ ModelEnds(<<>>) = 0
  /\ ToolStarts(<<>>) = 0 /\ ToolEnds(<<>>) = 0 /\ ToolsBlocked(<<>>) = 0
<1>1. Len(<<>>) = 0 /\ 1..0 = {}
  OBVIOUS
<1>2. \A kind, statuses : Count(<<>>, kind, statuses) = 0
  BY <1>1, FS_EmptySet DEF Count
<1>. QED
  BY <1>1, <1>2 DEF Blocked, Rail, Answers, Has, ModelStarts, ModelEnds, ToolStarts, ToolEnds,
                    ToolsBlocked

\* What one more frame does to the books of a stream.
LEMMA Booked ==
  ASSUME NEW fs \in Seq(Frame), NEW f \in Frame
  PROVE  LET gs == fs \o <<f>>
             model == f.event = "stage" /\ f.kind = "model"
             tool == f.event = "stage" /\ f.kind = "tool" IN
         /\ IF model /\ f.status = "start" THEN ModelStarts(gs) = ModelStarts(fs) + 1
                                           ELSE ModelStarts(gs) = ModelStarts(fs)
         /\ IF model /\ f.status \in {"done", "blocked"} THEN ModelEnds(gs) = ModelEnds(fs) + 1
                                                        ELSE ModelEnds(gs) = ModelEnds(fs)
         /\ IF tool /\ f.status = "start" THEN ToolStarts(gs) = ToolStarts(fs) + 1
                                          ELSE ToolStarts(gs) = ToolStarts(fs)
         /\ IF tool /\ f.status = "done" THEN ToolEnds(gs) = ToolEnds(fs) + 1
                                         ELSE ToolEnds(gs) = ToolEnds(fs)
         /\ IF tool /\ f.status = "blocked" THEN ToolsBlocked(gs) = ToolsBlocked(fs) + 1
                                            ELSE ToolsBlocked(gs) = ToolsBlocked(fs)
         /\ ModelStarts(fs) \in Nat /\ ModelEnds(fs) \in Nat /\ ToolStarts(fs) \in Nat
         /\ ToolEnds(fs) \in Nat /\ ToolsBlocked(fs) \in Nat
BY CountAdded DEF ModelStarts, ModelEnds, ToolStarts, ToolEnds, ToolsBlocked

\* The question stays in what the run carries.
LEMMA QuestionKept ==
  ASSUME TypeOK, NEW t \in Turns, QuestionInv(t), at[t] \in Nodes \cup {"calling", "closed"}
  PROVE  /\ \A m \in Message : mine'[t] = mine[t] \o <<m>> => QuestionInv(t)'
         /\ mine'[t] = mine[t] /\ (at[t] \in {"guard_out", "trace_out", "closed"}
                                     \/ at'[t] \notin {"guard_out", "trace_out", "closed"})
              => QuestionInv(t)'
<1>1. PICK i \in 1..Len(mine[t]) :
        /\ mine[t][i].role = "human" /\ mine[t][i].turn = t /\ mine[t][i].text # ""
        /\ at[t] \in {"guard_out", "trace_out", "closed"} => i < Len(mine[t])
  BY DEF QuestionInv
<1>2. mine[t] \in Seq(Message)
  BY DEF TypeOK
<1>3. ASSUME NEW m \in Message, mine'[t] = mine[t] \o <<m>>
      PROVE  QuestionInv(t)'
  <2>1. i \in 1..Len(mine'[t]) /\ i < Len(mine'[t]) /\ mine'[t][i] = mine[t][i]
    BY <1>2, <1>3, QuestionStays
  <2>. QED
    BY <1>1, <2>1 DEF QuestionInv
<1>. QED
  BY <1>1, <1>3 DEF QuestionInv

LEMMA LastOf ==
  ASSUME NEW S, NEW s \in Seq(S), s # <<>>
  PROVE  Last(s) \in S /\ Len(s) \in 1..Len(s)
<1>1. Len(s) \in Nat /\ Len(s) # 0
  BY LenProperties, EmptySeq
<1>. QED
  BY <1>1, ElementOfSeq DEF Last

LEMMA RunningCounted ==
  ASSUME TypeOK, NEW t \in Turns
  PROVE  /\ Cardinality(running[t]) \in Nat
         /\ \A x \in Tools \ running[t] :
              Cardinality(running[t] \cup {x}) = Cardinality(running[t]) + 1
         /\ \A x \in running[t] : Cardinality(running[t] \ {x}) = Cardinality(running[t]) - 1
<1>1. IsFiniteSet(running[t])
  BY TurnAssumption, FS_Subset DEF TypeOK
<1>. QED
  BY <1>1, FS_CardinalityType, FS_AddElement, FS_RemoveElement

-----------------------------------------------------------------------------
(* The actions, one by one: the types, the turn they are of, the others.   *)

Kept(t) == TypeOK' /\ TurnInv(t)' /\ Others(t)

LEMMA OpenTurnKeeps ==
  ASSUME TypeOK, NEW t \in Turns, TurnInv(t), OpenTurn(t)
  PROVE  Kept(t)
<1>1. PICK text \in {"fine", "breach"} :
        mine' = [mine EXCEPT ![t] = Append(Resumed, Human(t, text))]
  BY DEF OpenTurn
<1>. DEFINE m == Human(t, text)
<1>2. m \in Message /\ m.role = "human" /\ m.text # "" /\ m.turn = t /\ m.text # "refusal"
        /\ m.refused_by = "nobody"
  BY Messages DEF Human
<1>. HIDE DEF m
<1>3. /\ Append(thread, m) \in Seq(Message) /\ Len(Append(thread, m)) = Len(thread) + 1
      /\ Append(thread, m)[Len(thread) + 1] = m /\ Len(thread) \in Nat
  <2>1. thread \in Seq(Message) /\ m \in Message
    BY <1>2 DEF TypeOK
  <2>2. Len(thread) \in Nat
    BY <2>1, LenProperties
  <2>. QED
    BY <2>1, <2>2, AppendProperties
<1>4. mine'[t] = Append(thread, m) /\ Last(mine'[t]) = m /\ mine'[t] # <<>>
  BY <1>1, <1>3 DEF Resumed, TypeOK, Last, m
<1>5. at[t] = "idle" /\ at'[t] = "trace_in" /\ frames'[t] = frames[t] /\ waiting'[t] = waiting[t]
        /\ running'[t] = running[t] /\ mode' = mode
  BY DEF OpenTurn, Goto, TypeOK
<1>6. TypeOK'
  <2>1. mine' \in [Turns -> Seq(Message)]
    BY <1>1, <1>3 DEF TypeOK, Resumed, m
  <2>2. overlapped' \subseteq Turns
    BY DEF OpenTurn, TypeOK
  <2>3. at' \in [Turns -> Places]
    BY DEF OpenTurn, TypeOK, Goto, Places, Nodes
  <2>. QED
    BY <2>1, <2>2, <2>3 DEF OpenTurn, TypeOK
<1>7. Others(t)
  BY <1>1 DEF OpenTurn, Goto, Others, Untouched, TypeOK
<1>8. frames[t] = <<>>
  BY <1>5 DEF TurnInv, RailInv
<1>9. RailInv(t)'
  BY <1>5, <1>8 DEF RailInv
<1>10. QuestionInv(t)'
  <2>1. Len(thread) + 1 \in 1..Len(mine'[t]) /\ mine'[t][Len(thread) + 1] = m
    BY <1>3, <1>4
  <2>. QED
    BY <1>2, <1>5, <2>1 DEF QuestionInv
<1>11. LastInv(t)'
  BY <1>2, <1>4, <1>5 DEF LastInv
<1>12. BlockInv(t)' /\ AnswerInv(t)'
  BY <1>5, <1>8, EmptyStream DEF BlockInv, AnswerInv
<1>13. CountInv(t)'
  BY <1>5 DEF CountInv, TurnInv
<1>. QED
  BY <1>6, <1>7, <1>9, <1>10, <1>11, <1>12, <1>13 DEF Kept, TurnInv

LEMMA OpenRailKeeps ==
  ASSUME TypeOK, NEW t \in Turns, TurnInv(t), OpenRail(t)
  PROVE  Kept(t)
<1>. DEFINE f == Stage("guard_in", "guard_in", "skip")
<1>1. f \in Frame /\ f.event = "stage" /\ f.kind = "guard_in" /\ f.status = "skip"
  BY StageType DEF Gates
<1>2. f # refused /\ Settles(f, "guard_in")
  BY <1>1 DEF refused, Stage, Settles
<1>. HIDE DEF f
<1>3. /\ mode \in Modes /\ mode' = mode /\ at[t] = "trace_in"
      /\ frames[t] = <<>> /\ <<>> \in Seq(Frame)
  BY DEF OpenRail, TypeOK, TurnInv, RailInv
<1>13. frames[t] \in Seq(Frame)
  BY DEF TypeOK
<1>4. \/ Skips("guard_in") = <<>> /\ Entry = "guard_in" /\ "guard_in" \in Mounted(mode)
      \/ Skips("guard_in") = <<f>> /\ Entry = "model"
  BY <1>3, Dial, SkipsType DEF Gates, f
<1>5. Skips("guard_in") \in Seq(Frame) /\ <<>> \in Seq(Message) /\ Entry \in Places
  <2>1. <<f>> \in Seq(Frame) /\ <<>> \in Seq(Frame)
    BY <1>1
  <2>2. Skips("guard_in") \in Seq(Frame)
    BY <1>4, <2>1
  <2>3. Entry \in Places
    BY <1>4 DEF Places, Nodes
  <2>. QED
    BY <2>2, <2>3
<1>6. /\ NodeTyped /\ frames'[t] = Skips("guard_in") /\ mine'[t] = mine[t] /\ at'[t] = Entry
      /\ \A u \in Turns \ {t} : at'[u] = at[u] /\ mine'[u] = mine[u] /\ frames'[u] = frames[u]
  <2>1. <<>> \o Skips("guard_in") = Skips("guard_in") /\ mine[t] \o <<>> = mine[t]
    BY <1>5, ConcatEmptySeq DEF TypeOK
  <2>. QED
    BY <1>3, <1>5, <2>1, NodeEffect DEF OpenRail
<1>7. TypeOK' /\ Others(t) /\ waiting'[t] = waiting[t] /\ running'[t] = running[t]
  BY <1>6 DEF OpenRail, TypeOK, NodeTyped, Others, Untouched, tooling
<1>8. \/ frames'[t] = <<>> /\ at'[t] = "guard_in" /\ "guard_in" \in Mounted(mode)
      \/ frames'[t] = frames[t] \o <<f>> /\ at'[t] = "model"
  <2>1. frames[t] \o <<f>> = <<f>>
    BY <1>1, <1>3, ConcatEmptySeq
  <2>. QED
    BY <1>4, <1>6, <2>1
<1>9. RailInv(t)'
  BY <1>1, <1>2, <1>3, <1>8, <1>13, RailGrows DEF RailInv
<1>10. QuestionInv(t)' /\ LastInv(t)'
  BY <1>3, <1>6, <1>8 DEF QuestionInv, LastInv, TurnInv, Nodes
<1>11. BlockInv(t)' /\ AnswerInv(t)'
  <2>1. ~Blocked(frames[t]) /\ ~Has(frames[t], refused) /\ Answers(frames[t]) = {}
    BY <1>3, EmptyStream
  <2>2. ~Blocked(frames'[t]) /\ ~Has(frames'[t], refused) /\ Answers(frames'[t]) = {}
    <3>1. CASE frames'[t] = frames[t] \o <<f>>
      BY <1>1, <1>2, <1>13, <2>1, <3>1, FrameAdded
    <3>2. CASE frames'[t] = <<>>
      BY <3>2, EmptyStream
    <3>. QED
      BY <1>8, <3>1, <3>2
  <2>. QED
    BY <1>8, <2>2 DEF BlockInv, AnswerInv
<1>12. CountInv(t)'
  <2>1. /\ ModelStarts(frames'[t]) = 0 /\ ModelEnds(frames'[t]) = 0
        /\ ToolStarts(frames'[t]) = 0 /\ ToolEnds(frames'[t]) = 0
    <3>1. /\ ModelStarts(frames[t]) = 0 /\ ModelEnds(frames[t]) = 0
          /\ ToolStarts(frames[t]) = 0 /\ ToolEnds(frames[t]) = 0
      BY <1>3, EmptyStream
    <3>2. CASE frames'[t] = frames[t] \o <<f>>
      BY <1>1, <1>13, <3>1, <3>2, Booked
    <3>3. CASE frames'[t] = <<>>
      BY <3>3, EmptyStream
    <3>. QED
      BY <1>8, <3>2, <3>3
  <2>2. waiting[t] = {} /\ running[t] = {} /\ Cardinality({}) = 0
    BY <1>3, FS_EmptySet DEF TurnInv, CountInv
  <2>. QED
    BY <1>7, <1>8, <2>1, <2>2 DEF CountInv
<1>. QED
  BY <1>7, <1>9, <1>10, <1>11, <1>12 DEF Kept, TurnInv

LEMMA ScreenInputKeeps ==
  ASSUME TypeOK, NEW t \in Turns, TurnInv(t), ScreenInput(t)
  PROVE  Kept(t)
<1>1. /\ mode \in Modes /\ mode' = mode /\ at[t] = "guard_in"
      /\ frames[t] \in Seq(Frame) /\ mine[t] \in Seq(Message)
      /\ UNCHANGED <<waiting, running, rounds, overlapped>>
  BY DEF ScreenInput, TypeOK, TurnInv, tooling
<1>0. frames[t] = <<>>
  BY <1>1 DEF TurnInv, RailInv
<1>2. waiting[t] = {} /\ running[t] = {} /\ Cardinality({}) = 0
  BY <1>1, FS_EmptySet DEF TurnInv, CountInv
<1>3. /\ ~Blocked(frames[t]) /\ ~Has(frames[t], refused) /\ Answers(frames[t]) = {}
      /\ ModelStarts(frames[t]) = 0 /\ ModelEnds(frames[t]) = 0
      /\ ToolStarts(frames[t]) = 0 /\ ToolEnds(frames[t]) = 0
  BY <1>0, EmptyStream
<1>4. CASE Breaches(mine[t])
  <2>. DEFINE g == Stage("model", "model", "skip")
              m == Refusal(t, "guard_in")
  <2>1. /\ refused \in Frame /\ g \in Frame /\ m \in Message
        /\ refused.event = "stage" /\ refused.kind = "guard_in" /\ refused.status = "blocked"
        /\ g.event = "stage" /\ g.kind = "model" /\ g.status = "skip"
    BY StageType, Messages DEF Gates, refused
  <2>2. m.role = "ai" /\ m.turn = t /\ m.calls = {} /\ m.text = "refusal"
          /\ m.refused_by = "guard_in"
    BY DEF Refusal
  <2>3. Settles(refused, "guard_in") /\ Working(g) /\ refused # g
    BY <2>1 DEF Settles, Working
  <2>4. Node(t, <<refused, g>>, <<m>>, Exit)
    BY <1>4 DEF ScreenInput, JumpToEnd, refused
  <2>. HIDE DEF g, m
  <2>5. <<refused, g>> \in Seq(Frame) /\ <<m>> \in Seq(Message) /\ Exit \in Places
    BY <1>1, <2>1, Dial DEF Places, Nodes
  <2>6. /\ NodeTyped /\ frames'[t] = frames[t] \o <<refused, g>> /\ mine'[t] = mine[t] \o <<m>>
        /\ at'[t] = Exit
        /\ \A u \in Turns \ {t} : at'[u] = at[u] /\ mine'[u] = mine[u] /\ frames'[u] = frames[u]
    BY <2>4, <2>5, NodeEffect
  <2>. DEFINE gs == frames[t] \o <<refused>>
  <2>7. gs \in Seq(Frame) /\ frames'[t] = gs \o <<g>>
    <3>1. gs \in Seq(Frame)
      BY <1>1, <2>1, FrameAdded
    <3>2. ASSUME NEW fs \in Seq(Frame), NEW e \in Frame, NEW f \in Frame
          PROVE  fs \o <<e, f>> = (fs \o <<e>>) \o <<f>>
      BY AddedTwo
    <3>. QED
      BY <1>1, <2>1, <2>6, <3>1, <3>2
  <2>8. Blocked(gs) /\ Has(gs, refused) /\ Answers(gs) = {}
    BY <1>1, <1>3, <2>1, FrameAdded
  <2>21. Opened(gs, Len(gs))
    BY <1>0, <1>1, <2>1, <2>3, RailGrows
  <2>9. /\ ModelStarts(gs) = 0 /\ ModelEnds(gs) = 0
        /\ ToolStarts(gs) = 0 /\ ToolEnds(gs) = 0
    BY <1>1, <1>3, <2>1, Booked
  <2>. HIDE DEF gs
  <2>10. /\ Blocked(frames'[t]) /\ Has(frames'[t], refused) /\ Answers(frames'[t]) = {}
         /\ Opened(frames'[t], Len(frames'[t]))
    <3>1. Opened(frames'[t], Len(frames'[t]))
      BY <2>1, <2>3, <2>7, <2>21, RailGrows
    <3>. QED
      BY <2>1, <2>7, <2>8, <3>1, FrameAdded
  <2>11. /\ ModelStarts(frames'[t]) = 0 /\ ModelEnds(frames'[t]) = 0
        /\ ToolStarts(frames'[t]) = 0 /\ ToolEnds(frames'[t]) = 0
    BY <2>1, <2>7, <2>9, Booked
  <2>12. /\ Last(mine'[t]) = m /\ mine'[t] # <<>> /\ Len(mine'[t]) = Len(mine[t]) + 1
         /\ Len(mine[t]) \in Nat /\ \A i \in 1..Len(mine[t]) : mine'[t][i] = mine[t][i]
    BY <1>1, <2>1, <2>6, Added
  <2>13. /\ at'[t] \in {"guard_out", "trace_out"}
         /\ at'[t] = "guard_out" <=> "guard_out" \in Mounted(mode)
    BY <1>1, <2>6, Dial
  <2>14. TypeOK' /\ Others(t)
    BY <1>1, <2>6 DEF TypeOK, NodeTyped, Others, Untouched
  <2>15. RailInv(t)'
    BY <1>1, <2>2, <2>10, <2>12, <2>13 DEF RailInv, RefusedBy
  <2>16. QuestionInv(t)'
    BY <1>1, <2>1, <2>6, QuestionKept DEF TurnInv, Nodes
  <2>17. LastInv(t)'
    BY <1>1, <2>2, <2>12, <2>13 DEF LastInv, m
  <2>18. BlockInv(t)'
    BY <2>2, <2>10, <2>11, <2>12, <2>13 DEF BlockInv, m
  <2>19. CountInv(t)'
    BY <1>1, <1>2, <2>11, <2>13 DEF CountInv
  <2>20. AnswerInv(t)'
    BY <2>10, <2>13 DEF AnswerInv
  <2>. QED
    BY <2>14, <2>15, <2>16, <2>17, <2>18, <2>19, <2>20 DEF Kept, TurnInv
<1>5. CASE ~Breaches(mine[t])
  <2>. DEFINE f == Stage("guard_in", "guard_in", "done")
  <2>1. f \in Frame /\ f.event = "stage" /\ f.kind = "guard_in" /\ f.status = "done"
    BY StageType DEF Gates
  <2>2. Settles(f, "guard_in") /\ f # refused
    BY <2>1 DEF Settles, refused, Stage
  <2>3. Node(t, <<f>>, <<>>, "model")
    BY <1>5 DEF ScreenInput
  <2>. HIDE DEF f
  <2>4. <<f>> \in Seq(Frame) /\ <<>> \in Seq(Message) /\ "model" \in Places
    BY <2>1 DEF Places, Nodes
  <2>5. /\ NodeTyped /\ frames'[t] = frames[t] \o <<f>> /\ mine'[t] = mine[t] /\ at'[t] = "model"
        /\ \A u \in Turns \ {t} : at'[u] = at[u] /\ mine'[u] = mine[u] /\ frames'[u] = frames[u]
    BY <1>1, <2>3, <2>4, NodeEffect, NothingAdded
  <2>6. /\ ~Blocked(frames'[t]) /\ ~Has(frames'[t], refused) /\ Answers(frames'[t]) = {}
        /\ Opened(frames'[t], Len(frames'[t]))
    <3>1. Opened(frames'[t], Len(frames'[t]))
      BY <1>0, <1>1, <2>1, <2>2, <2>5, RailGrows
    <3>. QED
      BY <1>1, <1>3, <2>1, <2>2, <2>5, <3>1, FrameAdded
  <2>7. /\ ModelStarts(frames'[t]) = 0 /\ ModelEnds(frames'[t]) = 0
        /\ ToolStarts(frames'[t]) = 0 /\ ToolEnds(frames'[t]) = 0
    BY <1>1, <1>3, <2>1, <2>5, Booked
  <2>8. TypeOK' /\ Others(t)
    BY <1>1, <2>5 DEF TypeOK, NodeTyped, Others, Untouched
  <2>9. RailInv(t)' /\ QuestionInv(t)' /\ LastInv(t)'
    BY <1>1, <2>5, <2>6 DEF RailInv, QuestionInv, LastInv, TurnInv, Nodes
  <2>10. BlockInv(t)' /\ AnswerInv(t)'
    BY <2>5, <2>6 DEF BlockInv, AnswerInv
  <2>11. CountInv(t)'
    BY <1>1, <1>2, <2>5, <2>7 DEF CountInv
  <2>. QED
    BY <2>8, <2>9, <2>10, <2>11 DEF Kept, TurnInv
<1>. QED
  BY <1>4, <1>5

LEMMA StartModelKeeps ==
  ASSUME TypeOK, NEW t \in Turns, TurnInv(t), StartModel(t)
  PROVE  Kept(t)
<1>. DEFINE f == Stage("model", "model", "start")
<1>1. f \in Frame /\ f.event = "stage" /\ f.kind = "model" /\ f.status = "start"
  BY StageType
<1>2. f # refused /\ Working(f)
  BY <1>1 DEF refused, Stage, Working
<1>3. /\ mode \in Modes /\ mode' = mode /\ at[t] = "model" /\ at'[t] = "calling"
      /\ frames[t] \in Seq(Frame) /\ mine[t] \in Seq(Message)
      /\ UNCHANGED <<mine, waiting, running, thread, overlapped>>
      /\ Emit(t, <<f>>)
  BY DEF StartModel, TypeOK, tooling, Goto, f
<1>. HIDE DEF f
<1>4. /\ frames' \in [Turns -> Seq(Frame)] /\ frames'[t] = frames[t] \o <<f>>
      /\ \A u \in Turns \ {t} : frames'[u] = frames[u]
  <2>1. <<f>> \in Seq(Frame)
    BY <1>1
  <2>. QED
    BY <1>3, <2>1, EmitEffect
<1>5. TypeOK' /\ Others(t)
  <2>1. rounds' \in [Turns -> Nat]
    BY DEF StartModel, TypeOK
  <2>2. at' \in [Turns -> Places] /\ \A u \in Turns \ {t} : at'[u] = at[u]
    BY DEF StartModel, TypeOK, Goto, Places
  <2>. QED
    BY <1>3, <1>4, <2>1, <2>2 DEF TypeOK, Others, Untouched
<1>6. /\ Opened(frames[t], Len(frames[t])) /\ ~Blocked(frames[t]) /\ ~Has(frames[t], refused)
      /\ Answers(frames[t]) = {} /\ waiting[t] = {} /\ running[t] = {}
  BY <1>3 DEF TurnInv, RailInv, BlockInv, AnswerInv, CountInv
<1>7. /\ ~Blocked(frames'[t]) /\ ~Has(frames'[t], refused) /\ Answers(frames'[t]) = {}
  BY <1>1, <1>2, <1>3, <1>4, <1>6, FrameAdded
<1>8. RailInv(t)'
  BY <1>1, <1>2, <1>3, <1>4, <1>6, RailGrows DEF RailInv
<1>9. QuestionInv(t)' /\ LastInv(t)'
  BY <1>3 DEF QuestionInv, LastInv, TurnInv, Nodes
<1>10. BlockInv(t)' /\ AnswerInv(t)'
  BY <1>3, <1>7 DEF BlockInv, AnswerInv
<1>11. CountInv(t)'
  <2>1. /\ ModelStarts(frames'[t]) = ModelStarts(frames[t]) + 1
        /\ ModelEnds(frames'[t]) = ModelEnds(frames[t])
        /\ ToolStarts(frames'[t]) = ToolStarts(frames[t])
        /\ ToolEnds(frames'[t]) = ToolEnds(frames[t])
        /\ ToolsBlocked(frames'[t]) = ToolsBlocked(frames[t])
        /\ ModelStarts(frames[t]) \in Nat /\ ModelEnds(frames[t]) \in Nat
        /\ ToolStarts(frames[t]) \in Nat /\ ToolEnds(frames[t]) \in Nat
        /\ ToolsBlocked(frames[t]) \in Nat
    BY <1>1, <1>3, <1>4, Booked
  <2>. QED
    BY <1>3, <1>6, <2>1 DEF CountInv, TurnInv
<1>. QED
  BY <1>5, <1>8, <1>9, <1>10, <1>11 DEF Kept, TurnInv

LEMMA ModelReturnsKeeps ==
  ASSUME TypeOK, NEW t \in Turns, TurnInv(t), ModelReturns(t)
  PROVE  Kept(t)
<1>0. PICK calls \in SUBSET Tools :
        \E text \in Texts :
          /\ text # "refusal" /\ (calls = {} => text # "")
          /\ Node(t, <<Stage("model", ModelRole(calls), "done")>>, <<Reply(t, text, calls)>>,
                  IF calls = {} THEN Exit ELSE "tools")
          /\ waiting' = [waiting EXCEPT ![t] = calls]
  <2>1. PICK calls \in SUBSET Tools :
          \E text \in {"breach", IF calls = {} THEN "fine" ELSE ""} :
            /\ Node(t, <<Stage("model", ModelRole(calls), "done")>>, <<Reply(t, text, calls)>>,
                    IF calls = {} THEN Exit ELSE "tools")
            /\ waiting' = [waiting EXCEPT ![t] = calls]
    BY DEF ModelReturns
  <2>2. \A text \in {"breach", IF calls = {} THEN "fine" ELSE ""} :
          text \in Texts /\ text # "refusal" /\ (calls = {} => text # "")
    BY DEF Texts
  <2>. QED
    BY <2>1, <2>2
<1>1. PICK text \in Texts :
        /\ text # "refusal" /\ (calls = {} => text # "")
        /\ Node(t, <<Stage("model", ModelRole(calls), "done")>>, <<Reply(t, text, calls)>>,
                IF calls = {} THEN Exit ELSE "tools")
        /\ waiting' = [waiting EXCEPT ![t] = calls]
  BY <1>0
<1>. DEFINE f == Stage("model", ModelRole(calls), "done")
            m == Reply(t, text, calls)
            next == IF calls = {} THEN Exit ELSE "tools"
<1>2. f \in Frame /\ f.event = "stage" /\ f.kind = "model" /\ f.status = "done"
  <2>1. ModelRole(calls) \in {"model.answer", "model.tools"}
    BY DEF ModelRole
  <2>. HIDE DEF m, next
  <2>. QED
    BY <2>1, StageType
<1>3. f # refused /\ Working(f)
  BY <1>2 DEF refused, Stage, Working
<1>4. /\ m \in Message /\ m.role = "ai" /\ m.turn = t /\ m.calls = calls
      /\ m.refused_by = "nobody" /\ m.text # "refusal" /\ (calls = {} => m.text # "")
  BY <1>1, Messages DEF Reply
<1>17. m \in Message
  BY <1>4
<1>18. frames[t] \in Seq(Frame) /\ mine[t] \in Seq(Message)
  BY DEF TypeOK
<1>5. /\ mode \in Modes /\ mode' = mode /\ at[t] = "calling"
      /\ UNCHANGED <<running, rounds, overlapped>>
      /\ Node(t, <<f>>, <<m>>, next)
  BY <1>1 DEF ModelReturns, TypeOK
<1>6. /\ next \in Places
      /\ calls # {} => next = "tools"
      /\ calls = {} => next \in {"guard_out", "trace_out"}
                       /\ (next = "guard_out" <=> "guard_out" \in Mounted(mode))
  BY <1>5, Dial DEF Places, Nodes
<1>. HIDE DEF f, m, next
<1>7. /\ NodeTyped /\ frames'[t] = frames[t] \o <<f>> /\ mine'[t] = mine[t] \o <<m>>
      /\ at'[t] = next
      /\ \A u \in Turns \ {t} : at'[u] = at[u] /\ mine'[u] = mine[u] /\ frames'[u] = frames[u]
  <2>1. <<f>> \in Seq(Frame) /\ <<m>> \in Seq(Message)
    BY <1>2, <1>17
  <2>. QED
    BY <1>5, <1>6, <2>1, NodeEffect
<1>8. TypeOK' /\ Others(t) /\ waiting'[t] = calls /\ running'[t] = running[t]
  BY <1>1, <1>5, <1>7 DEF TypeOK, NodeTyped, Others, Untouched
<1>9. /\ Opened(frames[t], Len(frames[t])) /\ ~Blocked(frames[t]) /\ ~Has(frames[t], refused)
      /\ Answers(frames[t]) = {} /\ waiting[t] = {} /\ running[t] = {}
  BY <1>5 DEF TurnInv, RailInv, BlockInv, AnswerInv, CountInv
<1>10. /\ ~Blocked(frames'[t]) /\ ~Has(frames'[t], refused) /\ Answers(frames'[t]) = {}
  <2>. DEFINE gs == frames[t] \o <<f>>
  <2>1. ~Blocked(gs) /\ ~Has(gs, refused) /\ Answers(gs) = {}
    BY <1>2, <1>3, <1>9, <1>18, FrameAdded
  <2>. QED
    BY <1>7, <2>1
<1>11. Last(mine'[t]) = m /\ mine'[t] # <<>>
  <2>1. Last(mine'[t]) = m /\ Len(mine'[t]) = Len(mine[t]) + 1 /\ Len(mine[t]) \in Nat
    BY <1>7, <1>17, <1>18, Added
  <2>. QED
    BY <2>1
<1>12. RailInv(t)'
  <2>1. Opened(frames'[t], Len(frames'[t]))
    BY <1>2, <1>3, <1>7, <1>9, <1>18, RailGrows
  <2>. QED
    BY <1>4, <1>5, <1>6, <1>7, <1>11, <2>1 DEF RailInv, RefusedBy
<1>13. QuestionInv(t)'
  BY <1>5, <1>7, <1>17, QuestionKept DEF TurnInv
<1>14. LastInv(t)'
  BY <1>4, <1>5, <1>6, <1>7, <1>11 DEF LastInv
<1>15. BlockInv(t)' /\ AnswerInv(t)'
  BY <1>4, <1>6, <1>7, <1>10, <1>11 DEF BlockInv, AnswerInv
<1>16. CountInv(t)'
  <2>1. /\ ModelStarts(frames'[t]) = ModelStarts(frames[t])
        /\ ModelEnds(frames'[t]) = ModelEnds(frames[t]) + 1
        /\ ToolStarts(frames'[t]) = ToolStarts(frames[t])
        /\ ToolEnds(frames'[t]) = ToolEnds(frames[t])
        /\ ToolsBlocked(frames'[t]) = ToolsBlocked(frames[t])
        /\ ModelStarts(frames[t]) \in Nat /\ ModelEnds(frames[t]) \in Nat
        /\ ToolStarts(frames[t]) \in Nat /\ ToolEnds(frames[t]) \in Nat
        /\ ToolsBlocked(frames[t]) \in Nat
    BY <1>2, <1>7, <1>18, Booked
  <2>2. at'[t] # "calling" /\ (at'[t] # "tools" => calls = {})
    BY <1>6, <1>7
  <2>. QED
    BY <1>5, <1>8, <1>9, <2>1, <2>2 DEF CountInv, TurnInv
<1>. QED
  BY <1>8, <1>12, <1>13, <1>14, <1>15, <1>16 DEF Kept, TurnInv

LEMMA ModelFailsKeeps ==
  ASSUME TypeOK, NEW t \in Turns, TurnInv(t), ModelFails(t)
  PROVE  Kept(t)
<1>. DEFINE f == Stage("model", "model", "blocked")
<1>1. f \in Frame /\ f.event = "stage" /\ f.kind = "model" /\ f.status = "blocked"
  BY StageType
<1>2. f # refused /\ Working(f)
  BY <1>1 DEF refused, Stage, Working
<1>3. /\ at[t] = "calling" /\ frames[t] \in Seq(Frame) /\ Emit(t, <<f>>) /\ Leave(t, "failed")
  BY DEF ModelFails, TypeOK, Failed, f
<1>. HIDE DEF f
<1>4. /\ frames' \in [Turns -> Seq(Frame)] /\ frames'[t] = frames[t] \o <<f>>
      /\ \A u \in Turns \ {t} : frames'[u] = frames[u]
  <2>1. <<f>> \in Seq(Frame)
    BY <1>1
  <2>. QED
    BY <1>3, <2>1, EmitEffect
<1>5. TypeOK' /\ Others(t) /\ at'[t] = "failed" /\ waiting'[t] = {} /\ running'[t] = {}
  BY <1>3, <1>4, LeaveEffect DEF TypeOK, Others, Untouched, Places
<1>6. /\ Opened(frames[t], Len(frames[t])) /\ ~Has(frames[t], refused)
      /\ Answers(frames[t]) = {} /\ running[t] = {}
  BY <1>3 DEF TurnInv, RailInv, BlockInv, AnswerInv, CountInv
<1>7. ~Has(frames'[t], refused) /\ Answers(frames'[t]) = {}
  BY <1>1, <1>2, <1>3, <1>4, <1>6, FrameAdded
<1>8. RailInv(t)'
  BY <1>1, <1>2, <1>3, <1>4, <1>5, <1>6, RailGrows DEF RailInv
<1>9. QuestionInv(t)' /\ LastInv(t)'
  BY <1>5 DEF QuestionInv, LastInv, Nodes
<1>10. BlockInv(t)' /\ AnswerInv(t)'
  BY <1>5, <1>7 DEF BlockInv, AnswerInv
<1>11. CountInv(t)'
  <2>1. /\ ModelStarts(frames'[t]) = ModelStarts(frames[t])
        /\ ModelEnds(frames'[t]) = ModelEnds(frames[t]) + 1
        /\ ToolStarts(frames'[t]) = ToolStarts(frames[t])
        /\ ToolEnds(frames'[t]) = ToolEnds(frames[t])
        /\ ToolsBlocked(frames'[t]) = ToolsBlocked(frames[t])
        /\ ModelStarts(frames[t]) \in Nat /\ ModelEnds(frames[t]) \in Nat
        /\ ToolStarts(frames[t]) \in Nat /\ ToolEnds(frames[t]) \in Nat
        /\ ToolsBlocked(frames[t]) \in Nat
    BY <1>1, <1>3, <1>4, Booked
  <2>. QED
    BY <1>3, <1>5, <1>6, <2>1 DEF CountInv, TurnInv
<1>. QED
  BY <1>5, <1>8, <1>9, <1>10, <1>11 DEF Kept, TurnInv

LEMMA GiveUpKeeps ==
  ASSUME TypeOK, NEW t \in Turns, TurnInv(t), GiveUp(t)
  PROVE  Kept(t)
<1>1. at[t] = "model" /\ Leave(t, "failed") /\ frames' = frames
  BY DEF GiveUp
<1>2. TypeOK' /\ Others(t) /\ at'[t] = "failed" /\ waiting'[t] = {} /\ running'[t] = {}
  BY <1>1, LeaveEffect DEF TypeOK, Others, Untouched, Places
<1>3. RailInv(t)'
  BY <1>1, <1>2 DEF RailInv, TurnInv
<1>4. QuestionInv(t)' /\ LastInv(t)'
  BY <1>2 DEF QuestionInv, LastInv, Nodes
<1>5. BlockInv(t)' /\ AnswerInv(t)'
  BY <1>1, <1>2 DEF BlockInv, AnswerInv, TurnInv
<1>6. CountInv(t)'
  BY <1>1, <1>2 DEF CountInv, TurnInv
<1>. QED
  BY <1>2, <1>3, <1>4, <1>5, <1>6 DEF Kept, TurnInv

LEMMA StartToolKeeps ==
  ASSUME TypeOK, NEW t \in Turns, TurnInv(t), NEW x \in Tools, StartTool(t, x)
  PROVE  Kept(t)
<1>. DEFINE f == Stage("tool", x, "start")
<1>1. f \in Frame /\ f.event = "stage" /\ f.kind = "tool" /\ f.status = "start"
  BY ToolStage
<1>2. f # refused /\ Working(f)
  BY <1>1 DEF refused, Stage, Working
<1>3. /\ mode \in Modes /\ mode' = mode /\ at[t] = "tools" /\ x \in waiting[t]
      /\ waiting'[t] = waiting[t] \ {x} /\ running'[t] = running[t] \cup {x}
      /\ UNCHANGED <<at, mine, rounds, thread, overlapped>>
      /\ Emit(t, <<f>>)
  BY DEF StartTool, TypeOK, f
<1>4. frames[t] \in Seq(Frame)
  BY DEF TypeOK
<1>. HIDE DEF f
<1>5. /\ frames' \in [Turns -> Seq(Frame)] /\ frames'[t] = frames[t] \o <<f>>
      /\ \A u \in Turns \ {t} : frames'[u] = frames[u]
  <2>1. <<f>> \in Seq(Frame)
    BY <1>1
  <2>. QED
    BY <1>3, <2>1, EmitEffect
<1>6. TypeOK' /\ Others(t)
  <2>1. /\ waiting' \in [Turns -> SUBSET Tools] /\ running' \in [Turns -> SUBSET Tools]
        /\ \A u \in Turns \ {t} : waiting'[u] = waiting[u] /\ running'[u] = running[u]
    BY DEF StartTool, TypeOK
  <2>. QED
    BY <1>3, <1>5, <2>1 DEF TypeOK, Others, Untouched
<1>7. /\ Opened(frames[t], Len(frames[t])) /\ ~Blocked(frames[t]) /\ ~Has(frames[t], refused)
      /\ Answers(frames[t]) = {} /\ waiting[t] \cap running[t] = {}
  BY <1>3 DEF TurnInv, RailInv, BlockInv, AnswerInv, CountInv
<1>8. ~Blocked(frames'[t]) /\ ~Has(frames'[t], refused) /\ Answers(frames'[t]) = {}
  <2>. DEFINE gs == frames[t] \o <<f>>
  <2>1. ~Blocked(gs) /\ ~Has(gs, refused) /\ Answers(gs) = {}
    BY <1>1, <1>2, <1>4, <1>7, FrameAdded
  <2>. QED
    BY <1>5, <2>1
<1>9. RailInv(t)'
  <2>1. Opened(frames'[t], Len(frames'[t]))
    BY <1>1, <1>2, <1>4, <1>5, <1>7, RailGrows
  <2>. QED
    BY <1>3, <2>1 DEF RailInv
<1>10. QuestionInv(t)' /\ LastInv(t)'
  BY <1>3 DEF QuestionInv, LastInv, TurnInv
<1>11. BlockInv(t)' /\ AnswerInv(t)'
  BY <1>3, <1>8 DEF BlockInv, AnswerInv
<1>12. CountInv(t)'
  <2>1. /\ ModelStarts(frames'[t]) = ModelStarts(frames[t])
        /\ ModelEnds(frames'[t]) = ModelEnds(frames[t])
        /\ ToolStarts(frames'[t]) = ToolStarts(frames[t]) + 1
        /\ ToolEnds(frames'[t]) = ToolEnds(frames[t])
        /\ ToolsBlocked(frames'[t]) = ToolsBlocked(frames[t])
        /\ ModelStarts(frames[t]) \in Nat /\ ModelEnds(frames[t]) \in Nat
        /\ ToolStarts(frames[t]) \in Nat /\ ToolEnds(frames[t]) \in Nat
        /\ ToolsBlocked(frames[t]) \in Nat
    BY <1>1, <1>4, <1>5, Booked
  <2>2. /\ Cardinality(running[t]) \in Nat
        /\ Cardinality(running'[t]) = Cardinality(running[t]) + 1
    BY <1>3, <1>7, RunningCounted
  <2>3. waiting'[t] \cap running'[t] = {}
    BY <1>3, <1>7
  <2>. QED
    BY <1>3, <2>1, <2>2, <2>3 DEF CountInv, TurnInv
<1>. QED
  BY <1>6, <1>9, <1>10, <1>11, <1>12 DEF Kept, TurnInv

\* One result is in, and others are out.
LEMMA ToolReturnsKeeps ==
  ASSUME TypeOK, NEW t \in Turns, TurnInv(t), NEW x \in Tools, ToolReturns(t, x)
  PROVE  Kept(t)
<1>. DEFINE f == Stage("tool", x, "done")
            last == waiting[t] = {} /\ running[t] = {x}
<1>1. f \in Frame /\ f.event = "stage" /\ f.kind = "tool" /\ f.status = "done"
  BY ToolStage
<1>2. f # refused /\ Working(f)
  BY <1>1 DEF refused, Stage, Working
<1>3. /\ mode \in Modes /\ mode' = mode /\ at[t] = "tools" /\ x \in running[t]
      /\ waiting'[t] = waiting[t] /\ running'[t] = running[t] \ {x}
      /\ UNCHANGED <<waiting, rounds, overlapped>>
      /\ running' \in [Turns -> SUBSET Tools]
      /\ \A u \in Turns \ {t} : running'[u] = running[u]
  BY DEF ToolReturns, TypeOK
<1>4. frames[t] \in Seq(Frame) /\ mine[t] \in Seq(Message)
  BY DEF TypeOK
<1>5. /\ Opened(frames[t], Len(frames[t])) /\ ~Blocked(frames[t]) /\ ~Has(frames[t], refused)
      /\ Answers(frames[t]) = {} /\ waiting[t] \cap running[t] = {}
  BY <1>3 DEF TurnInv, RailInv, BlockInv, AnswerInv, CountInv
<1>6. /\ ~last => Emit(t, <<f>>) /\ UNCHANGED <<thread, mine, at>>
      /\ last => Node(t, <<f>>, Results(t, Last(mine[t]).calls), "model")
  BY DEF ToolReturns
<1>. HIDE DEF f
<1>7. <<f>> \in Seq(Frame)
  BY <1>1
<1>8. ASSUME frames'[t] = frames[t] \o <<f>>
      PROVE  /\ ~Blocked(frames'[t]) /\ ~Has(frames'[t], refused) /\ Answers(frames'[t]) = {}
             /\ Opened(frames'[t], Len(frames'[t]))
             /\ at'[t] \in {"tools", "model"} /\ (at'[t] = "tools" \/ last) => CountInv(t)'
  <2>. DEFINE gs == frames[t] \o <<f>>
  <2>1. ~Blocked(gs) /\ ~Has(gs, refused) /\ Answers(gs) = {}
    BY <1>1, <1>2, <1>4, <1>5, FrameAdded
  <2>2. Opened(frames'[t], Len(frames'[t]))
    BY <1>1, <1>2, <1>4, <1>5, <1>8, RailGrows
  <2>3. /\ ModelStarts(frames'[t]) = ModelStarts(frames[t])
        /\ ModelEnds(frames'[t]) = ModelEnds(frames[t])
        /\ ToolStarts(frames'[t]) = ToolStarts(frames[t])
        /\ ToolEnds(frames'[t]) = ToolEnds(frames[t]) + 1
        /\ ToolsBlocked(frames'[t]) = ToolsBlocked(frames[t])
        /\ ModelStarts(frames[t]) \in Nat /\ ModelEnds(frames[t]) \in Nat
        /\ ToolStarts(frames[t]) \in Nat /\ ToolEnds(frames[t]) \in Nat
        /\ ToolsBlocked(frames[t]) \in Nat
    BY <1>1, <1>4, <1>8, Booked
  <2>4. /\ Cardinality(running[t]) \in Nat
        /\ Cardinality(running'[t]) = Cardinality(running[t]) - 1
    BY <1>3, RunningCounted
  <2>5. waiting'[t] \cap running'[t] = {} /\ (last => waiting'[t] = {} /\ running'[t] = {})
    BY <1>3, <1>5
  <2>6. at'[t] \in {"tools", "model"} /\ (at'[t] = "tools" \/ last) => CountInv(t)'
    BY <1>3, <2>3, <2>4, <2>5 DEF CountInv, TurnInv
  <2>. QED
    BY <1>8, <2>1, <2>2, <2>6
<1>9. CASE ~last
  <2>1. /\ frames' \in [Turns -> Seq(Frame)] /\ frames'[t] = frames[t] \o <<f>>
        /\ \A u \in Turns \ {t} : frames'[u] = frames[u]
    BY <1>6, <1>7, <1>9, EmitEffect
  <2>2. at' = at /\ mine' = mine /\ thread' = thread
    BY <1>6, <1>9
  <2>3. TypeOK' /\ Others(t)
    BY <1>3, <2>1, <2>2 DEF TypeOK, Others, Untouched
  <2>4. RailInv(t)' /\ BlockInv(t)' /\ AnswerInv(t)'
    BY <1>3, <1>8, <2>1, <2>2 DEF RailInv, BlockInv, AnswerInv
  <2>5. QuestionInv(t)' /\ LastInv(t)'
    BY <1>3, <2>2 DEF QuestionInv, LastInv, TurnInv
  <2>6. CountInv(t)'
    BY <1>3, <1>8, <2>1, <2>2
  <2>. QED
    BY <2>3, <2>4, <2>5, <2>6 DEF Kept, TurnInv
<1>10. CASE last
  <2>1. mine[t] # <<>>
    BY <1>3 DEF TurnInv, LastInv, Nodes
  <2>. DEFINE calls == Last(mine[t]).calls
  <2>2. calls \in SUBSET Tools
    <3>1. Last(mine[t]) \in Message
      BY <1>4, <2>1, LastOf
    <3>. QED
      BY <3>1 DEF Message
  <2>11. Node(t, <<f>>, Results(t, calls), "model")
    BY <1>6, <1>10
  <2>. HIDE DEF calls
  <2>. DEFINE m == Told(t, calls)
  <2>3. m.role = "tool" /\ m.turn = t /\ m.text = "" /\ m.refused_by = "nobody"
    BY DEF Told
  <2>12. Results(t, calls) = <<m>> /\ m \in Message
    BY <2>2, ResultsType
  <2>13. m \in Message
    BY <2>12
  <2>. HIDE DEF m
  <2>4. Node(t, <<f>>, <<m>>, "model") /\ <<m>> \in Seq(Message) /\ "model" \in Places
    <3>1. <<m>> \in Seq(Message)
      BY <2>13
    <3>2. Node(t, <<f>>, <<m>>, "model")
      BY <2>11, <2>12
    <3>. QED
      BY <3>1, <3>2 DEF Places, Nodes
  <2>5. /\ NodeTyped /\ frames'[t] = frames[t] \o <<f>> /\ mine'[t] = mine[t] \o <<m>>
        /\ at'[t] = "model"
        /\ \A u \in Turns \ {t} : at'[u] = at[u] /\ mine'[u] = mine[u] /\ frames'[u] = frames[u]
    BY <1>7, <2>4, NodeEffect
  <2>6. TypeOK' /\ Others(t)
    BY <1>3, <2>5 DEF TypeOK, NodeTyped, Others, Untouched
  <2>7. RailInv(t)' /\ BlockInv(t)' /\ AnswerInv(t)'
    BY <1>8, <2>5 DEF RailInv, BlockInv, AnswerInv
  <2>8. QuestionInv(t)'
    BY <1>3, <2>5, <2>13, QuestionKept DEF TurnInv, Nodes
  <2>9. LastInv(t)'
    <3>1. Last(mine'[t]) = m /\ Len(mine'[t]) = Len(mine[t]) + 1 /\ Len(mine[t]) \in Nat
      BY <1>4, <2>5, <2>13, Added
    <3>2. mine'[t] # <<>>
      BY <3>1
    <3>. QED
      BY <2>3, <2>5, <3>1, <3>2 DEF LastInv
  <2>10. CountInv(t)'
    BY <1>8, <1>10, <2>5
  <2>. QED
    BY <2>6, <2>7, <2>8, <2>9, <2>10 DEF Kept, TurnInv
<1>. QED
  BY <1>9, <1>10

LEMMA ToolFailsKeeps ==
  ASSUME TypeOK, NEW t \in Turns, TurnInv(t), NEW x \in Tools, ToolFails(t, x)
  PROVE  Kept(t)
<1>. DEFINE f == Stage("tool", x, "blocked")
<1>1. f \in Frame /\ f.event = "stage" /\ f.kind = "tool" /\ f.status = "blocked"
  BY ToolStage
<1>2. f # refused /\ Working(f)
  BY <1>1 DEF refused, Stage, Working
<1>3. at[t] = "tools" /\ Emit(t, <<f>>) /\ Leave(t, "failed")
  BY DEF ToolFails, Failed, f
<1>4. frames[t] \in Seq(Frame)
  BY DEF TypeOK
<1>. HIDE DEF f
<1>5. /\ frames' \in [Turns -> Seq(Frame)] /\ frames'[t] = frames[t] \o <<f>>
      /\ \A u \in Turns \ {t} : frames'[u] = frames[u]
  <2>1. <<f>> \in Seq(Frame)
    BY <1>1
  <2>. QED
    BY <1>3, <2>1, EmitEffect
<1>6. TypeOK' /\ Others(t) /\ at'[t] = "failed" /\ waiting'[t] = {} /\ running'[t] = {}
  BY <1>3, <1>5, LeaveEffect DEF TypeOK, Others, Untouched, Places
<1>7. /\ Opened(frames[t], Len(frames[t])) /\ ~Has(frames[t], refused)
      /\ Answers(frames[t]) = {}
  BY <1>3 DEF TurnInv, RailInv, BlockInv, AnswerInv
<1>8. ~Has(frames'[t], refused) /\ Answers(frames'[t]) = {}
  BY <1>1, <1>2, <1>4, <1>5, <1>7, FrameAdded
<1>9. RailInv(t)'
  <2>1. Opened(frames'[t], Len(frames'[t]))
    BY <1>1, <1>2, <1>4, <1>5, <1>7, RailGrows
  <2>. QED
    BY <1>6, <2>1 DEF RailInv
<1>10. QuestionInv(t)' /\ LastInv(t)'
  BY <1>6 DEF QuestionInv, LastInv, Nodes
<1>11. BlockInv(t)' /\ AnswerInv(t)'
  BY <1>6, <1>8 DEF BlockInv, AnswerInv
<1>12. CountInv(t)'
  <2>1. /\ ModelStarts(frames'[t]) = ModelStarts(frames[t])
        /\ ModelEnds(frames'[t]) = ModelEnds(frames[t])
        /\ ToolsBlocked(frames'[t]) = ToolsBlocked(frames[t]) + 1
        /\ ModelStarts(frames[t]) \in Nat /\ ModelEnds(frames[t]) \in Nat
        /\ ToolsBlocked(frames[t]) \in Nat
    BY <1>1, <1>4, <1>5, Booked
  <2>. QED
    BY <1>3, <1>6, <2>1 DEF CountInv, TurnInv
<1>. QED
  BY <1>6, <1>9, <1>10, <1>11, <1>12 DEF Kept, TurnInv

LEMMA ScreenOutputKeeps ==
  ASSUME TypeOK, NEW t \in Turns, TurnInv(t), ScreenOutput(t)
  PROVE  Kept(t)
<1>. DEFINE m == Last(mine[t])
            by == RefusedBy(mine[t])
<1>1. /\ mode \in Modes /\ mode' = mode /\ at[t] = "guard_out"
      /\ UNCHANGED <<waiting, running, rounds, overlapped>>
  BY DEF ScreenOutput, TypeOK, tooling
<1>2. frames[t] \in Seq(Frame) /\ mine[t] \in Seq(Message)
  BY DEF TypeOK
<1>3. /\ "guard_out" \in Mounted(mode) /\ Exit = "guard_out" /\ mine[t] # <<>> /\ m.turn = t
      /\ m.role = "ai" /\ m.calls = {} /\ m.text # "" /\ by = m.refused_by
      /\ (m.text = "refusal" <=> by # "nobody")
      /\ (by = "guard_in" => m = Refusal(t, "guard_in"))
  BY <1>1 DEF TurnInv, LastInv, RefusedBy, Exit, Nodes
<1>4. /\ (Blocked(frames[t]) <=> m.text = "refusal") /\ Answers(frames[t]) = {}
      /\ waiting[t] = {} /\ running[t] = {}
      /\ (by = "guard_out" => Screened(frames[t], Len(frames[t])))
      /\ (by # "guard_out" => Opened(frames[t], Len(frames[t])))
      /\ Has(frames[t], refused) => by = "guard_in"
                                    /\ ModelStarts(frames[t]) = 0 /\ ToolStarts(frames[t]) = 0
  <2>1. Refusal(t, "guard_in").refused_by = "guard_in"
    BY DEF Refusal
  <2>. QED
    BY <1>1, <1>3, <2>1 DEF TurnInv, RailInv, BlockInv, AnswerInv, CountInv
<1>5. ASSUME NodeTyped, \A u \in Turns \ {t} :
               at'[u] = at[u] /\ mine'[u] = mine[u] /\ frames'[u] = frames[u]
      PROVE  TypeOK' /\ Others(t)
  BY <1>1, <1>5 DEF TypeOK, NodeTyped, Others, Untouched
<1>6. ASSUME NEW status \in {"skip", "done", "blocked"},
             NEW ms \in Seq(Message), NEW next \in {"guard_out", "trace_out"}, by # "guard_out",
             Node(t, <<Stage("guard_out", "guard_out", status)>>, ms, next)
      PROVE  /\ TypeOK' /\ Others(t) /\ CountInv(t)' /\ Answers(frames'[t]) = {} /\ at'[t] = next
             /\ Screened(frames'[t], Len(frames'[t])) /\ mine'[t] = mine[t] \o ms
             /\ (Blocked(frames'[t]) <=> m.text = "refusal" \/ status = "blocked")
             /\ Has(frames'[t], refused) => by = "guard_in"
                                     /\ ModelStarts(frames'[t]) = 0 /\ ToolStarts(frames'[t]) = 0
  <2>. DEFINE f == Stage("guard_out", "guard_out", status)
  <2>1. f \in Frame /\ f.event = "stage" /\ f.kind = "guard_out" /\ f.status = status
    BY StageType DEF Gates
  <2>2. f # refused /\ Settles(f, "guard_out")
    BY <2>1 DEF refused, Stage, Settles
  <2>3. Node(t, <<f>>, ms, next) /\ next \in Places
    BY <1>6 DEF Places, Nodes
  <2>. HIDE DEF f
  <2>4. <<f>> \in Seq(Frame)
    BY <2>1
  <2>5. /\ NodeTyped /\ frames'[t] = frames[t] \o <<f>> /\ mine'[t] = mine[t] \o ms
        /\ at'[t] = next
        /\ \A u \in Turns \ {t} : at'[u] = at[u] /\ mine'[u] = mine[u] /\ frames'[u] = frames[u]
    BY <2>3, <2>4, NodeEffect
  <2>6. Screened(frames'[t], Len(frames'[t]))
    BY <1>2, <1>4, <1>6, <2>1, <2>2, <2>5, RailGrows
  <2>7. /\ ModelStarts(frames'[t]) = ModelStarts(frames[t])
        /\ ModelEnds(frames'[t]) = ModelEnds(frames[t])
        /\ ToolStarts(frames'[t]) = ToolStarts(frames[t])
        /\ ToolEnds(frames'[t]) = ToolEnds(frames[t])
        /\ ToolsBlocked(frames'[t]) = ToolsBlocked(frames[t])
    BY <1>2, <2>1, <2>5, Booked
  <2>8. CountInv(t)'
    BY <1>1, <1>4, <2>5, <2>7 DEF CountInv, TurnInv
  <2>. DEFINE gs == frames[t] \o <<f>>
  <2>9. /\ Answers(gs) = {} /\ (Blocked(gs) <=> m.text = "refusal" \/ status = "blocked")
        /\ (Has(gs, refused) <=> Has(frames[t], refused))
    BY <1>2, <1>4, <2>1, <2>2, FrameAdded
  <2>. QED
    BY <1>4, <1>5, <2>5, <2>6, <2>7, <2>8, <2>9
<1>7. CASE by = "guard_out"
  <2>1. Node(t, <<>>, <<>>, "trace_out") /\ "trace_out" \in Places
    BY <1>7 DEF ScreenOutput, Places, Nodes
  <2>2. <<>> \in Seq(Frame) /\ <<>> \in Seq(Message)
    OBVIOUS
  <2>3. /\ NodeTyped /\ frames'[t] = frames[t] /\ mine'[t] = mine[t] /\ at'[t] = "trace_out"
        /\ \A u \in Turns \ {t} : at'[u] = at[u] /\ mine'[u] = mine[u] /\ frames'[u] = frames[u]
    BY <1>2, <2>1, <2>2, NodeEffect, NothingAdded
  <2>4. RailInv(t)' /\ BlockInv(t)' /\ AnswerInv(t)'
    BY <1>1, <1>3, <1>4, <1>7, <2>3 DEF RailInv, BlockInv, AnswerInv
  <2>5. QuestionInv(t)'
    BY <1>1, <2>3, QuestionKept DEF TurnInv, Nodes
  <2>6. LastInv(t)' /\ CountInv(t)'
    BY <1>1, <1>3, <1>7, <2>3 DEF LastInv, CountInv, TurnInv
  <2>. QED
    BY <1>5, <2>3, <2>4, <2>5, <2>6 DEF Kept, TurnInv
<1>8. ASSUME NEW status \in {"skip", "done"}, by # "guard_out", m.text # "breach",
             Node(t, <<Stage("guard_out", "guard_out", status)>>, <<>>, "trace_out")
      PROVE  Kept(t)
  <2>1. <<>> \in Seq(Message)
    OBVIOUS
  <2>2. /\ TypeOK' /\ Others(t) /\ CountInv(t)' /\ Answers(frames'[t]) = {}
        /\ at'[t] = "trace_out" /\ Screened(frames'[t], Len(frames'[t]))
        /\ mine'[t] = mine[t] \o <<>>
        /\ (Blocked(frames'[t]) <=> m.text = "refusal")
        /\ Has(frames'[t], refused) => by = "guard_in"
                                 /\ ModelStarts(frames'[t]) = 0 /\ ToolStarts(frames'[t]) = 0
    BY <1>6, <1>8, <2>1
  <2>3. mine'[t] = mine[t]
    BY <1>2, <2>2, NothingAdded
  <2>4. RailInv(t)' /\ BlockInv(t)' /\ AnswerInv(t)'
    BY <1>1, <1>3, <2>2, <2>3 DEF RailInv, BlockInv, AnswerInv
  <2>5. QuestionInv(t)'
    BY <1>1, <2>2, <2>3, QuestionKept DEF TurnInv, Nodes
  <2>6. LastInv(t)'
    BY <1>1, <1>3, <1>8, <2>2, <2>3 DEF LastInv
  <2>. QED
    BY <2>2, <2>4, <2>5, <2>6 DEF Kept, TurnInv
<1>9. CASE by = "guard_in"
  <2>1. Node(t, <<Stage("guard_out", "guard_out", "skip")>>, <<>>, "trace_out")
    BY <1>9 DEF ScreenOutput
  <2>. QED
    BY <1>3, <1>8, <1>9, <2>1
<1>10. CASE by = "nobody" /\ Breaches(mine[t])
  <2>. DEFINE r == Refusal(t, "guard_out")
  <2>1. /\ r \in Message /\ r.role = "ai" /\ r.turn = t /\ r.calls = {} /\ r.text = "refusal"
        /\ r.refused_by = "guard_out"
    BY Messages DEF Refusal, Gates
  <2>2. Node(t, <<Stage("guard_out", "guard_out", "blocked")>>, <<r>>, "guard_out")
    BY <1>3, <1>10 DEF ScreenOutput, JumpToEnd
  <2>. HIDE DEF r
  <2>3. <<r>> \in Seq(Message)
    BY <2>1
  <2>4. /\ TypeOK' /\ Others(t) /\ CountInv(t)' /\ Answers(frames'[t]) = {}
        /\ at'[t] = "guard_out" /\ Screened(frames'[t], Len(frames'[t]))
        /\ mine'[t] = mine[t] \o <<r>> /\ Blocked(frames'[t]) /\ ~Has(frames'[t], refused)
    BY <1>6, <1>10, <2>2, <2>3
  <2>5. Last(mine'[t]) = r /\ mine'[t] # <<>>
    <3>1. Last(mine'[t]) = r /\ Len(mine'[t]) = Len(mine[t]) + 1 /\ Len(mine[t]) \in Nat
      BY <1>2, <2>1, <2>4, Added
    <3>. QED
      BY <3>1
  <2>6. RailInv(t)' /\ BlockInv(t)' /\ AnswerInv(t)'
    BY <2>1, <2>4, <2>5 DEF RailInv, BlockInv, AnswerInv, RefusedBy
  <2>7. QuestionInv(t)'
    BY <1>1, <2>1, <2>4, QuestionKept DEF TurnInv, Nodes
  <2>8. LastInv(t)'
    BY <1>1, <1>3, <2>1, <2>4, <2>5 DEF LastInv
  <2>. QED
    BY <2>4, <2>6, <2>7, <2>8 DEF Kept, TurnInv
<1>11. CASE by \notin Gates /\ ~(by = "nobody" /\ Breaches(mine[t]))
  <2>1. Node(t, <<Stage("guard_out", "guard_out", "done")>>, <<>>, "trace_out")
    BY <1>11 DEF ScreenOutput, Gates
  <2>2. by # "guard_out" /\ m.text # "breach"
    BY <1>3, <1>11 DEF Gates, Breaches
  <2>. QED
    BY <1>8, <2>1, <2>2
<1>. QED
  BY <1>7, <1>9, <1>10, <1>11 DEF Gates

LEMMA CloseRailKeeps ==
  ASSUME TypeOK, NEW t \in Turns, TurnInv(t), CloseRail(t)
  PROVE  Kept(t)
<1>. DEFINE s == Stage("guard_out", "guard_out", "skip")
            m == Last(mine[t])
<1>1. /\ s \in Frame /\ s.event = "stage" /\ s.kind = "guard_out" /\ s.status = "skip"
      /\ finish \in Frame /\ finish.event = "stage" /\ finish.kind = "io"
      /\ finish.status = "done"
  BY StageType DEF Gates, finish
<1>2. s # refused /\ finish # refused /\ Settles(s, "guard_out")
  BY <1>1 DEF refused, Stage, Settles
<1>3. /\ mode \in Modes /\ mode' = mode /\ at[t] = "trace_out"
      /\ UNCHANGED <<waiting, running, rounds, overlapped>>
      /\ Node(t, Append(Skips("guard_out"), finish), <<>>, "closed")
  BY DEF CloseRail, TypeOK, tooling, finish
<1>4. frames[t] \in Seq(Frame) /\ mine[t] \in Seq(Message)
  BY DEF TypeOK
<1>5. /\ waiting[t] = {} /\ running[t] = {} /\ Answers(frames[t]) = {}
      /\ (Blocked(frames[t]) <=> m.text = "refusal")
      /\ Has(frames[t], refused) => m = Refusal(t, "guard_in")
                                    /\ ModelStarts(frames[t]) = 0 /\ ToolStarts(frames[t]) = 0
  BY <1>3 DEF TurnInv, BlockInv, AnswerInv, CountInv
<1>6. \/ Skips("guard_out") = <<>> /\ "guard_out" \in Mounted(mode)
      \/ Skips("guard_out") = <<s>> /\ "guard_out" \notin Mounted(mode)
  BY <1>3, Dial, SkipsType DEF Gates, s
<1>. HIDE DEF s
<1>7. Skips("guard_out") \in Seq(Frame) /\ Append(Skips("guard_out"), finish) \in Seq(Frame)
        /\ <<>> \in Seq(Message) /\ "closed" \in Places
  <2>1. <<s>> \in Seq(Frame) /\ <<>> \in Seq(Frame)
    BY <1>1
  <2>2. Skips("guard_out") \in Seq(Frame)
    BY <1>6, <2>1
  <2>. QED
    BY <1>1, <2>2 DEF Places
<1>. DEFINE gs == frames[t] \o Skips("guard_out")
<1>8. /\ gs \in Seq(Frame) /\ Screened(gs, Len(gs)) /\ Answers(gs) = {}
      /\ (Blocked(gs) <=> Blocked(frames[t])) /\ (Has(gs, refused) <=> Has(frames[t], refused))
      /\ ModelStarts(gs) = ModelStarts(frames[t]) /\ ModelEnds(gs) = ModelEnds(frames[t])
      /\ ToolStarts(gs) = ToolStarts(frames[t]) /\ ToolEnds(gs) = ToolEnds(frames[t])
      /\ ToolsBlocked(gs) = ToolsBlocked(frames[t])
  <2>1. CASE Skips("guard_out") = <<>> /\ "guard_out" \in Mounted(mode)
    <3>1. gs = frames[t]
      BY <1>4, <2>1, NothingAdded
    <3>. QED
      BY <1>3, <1>4, <1>5, <2>1, <3>1 DEF TurnInv, RailInv
  <2>2. CASE Skips("guard_out") = <<s>> /\ "guard_out" \notin Mounted(mode)
    <3>1. Opened(frames[t], Len(frames[t])) /\ gs = frames[t] \o <<s>>
      BY <1>3, <2>2 DEF TurnInv, RailInv
    <3>. HIDE DEF gs
    <3>2. Screened(gs, Len(gs))
      BY <1>1, <1>2, <1>4, <3>1, RailGrows
    <3>3. /\ ModelStarts(gs) = ModelStarts(frames[t]) /\ ModelEnds(gs) = ModelEnds(frames[t])
          /\ ToolStarts(gs) = ToolStarts(frames[t]) /\ ToolEnds(gs) = ToolEnds(frames[t])
          /\ ToolsBlocked(gs) = ToolsBlocked(frames[t])
      BY <1>1, <1>4, <3>1, Booked
    <3>4. /\ gs \in Seq(Frame) /\ Answers(gs) = {} /\ (Blocked(gs) <=> Blocked(frames[t]))
          /\ (Has(gs, refused) <=> Has(frames[t], refused))
      BY <1>1, <1>2, <1>4, <1>5, <3>1, FrameAdded
    <3>. QED
      BY <3>2, <3>3, <3>4
  <2>. QED
    BY <1>6, <2>1, <2>2
<1>9. /\ NodeTyped /\ frames'[t] = frames[t] \o Append(Skips("guard_out"), finish)
      /\ mine'[t] = mine[t] /\ at'[t] = "closed"
      /\ \A u \in Turns \ {t} : at'[u] = at[u] /\ mine'[u] = mine[u] /\ frames'[u] = frames[u]
  BY <1>3, <1>4, <1>7, NodeEffect, NothingAdded
<1>10. frames'[t] = gs \o <<finish>>
  <2>1. <<finish>> \in Seq(Frame)
    BY <1>1
  <2>2. Append(Skips("guard_out"), finish) = Skips("guard_out") \o <<finish>>
    BY <1>1, <1>7, AppendIsConcat
  <2>3. frames[t] \o (Skips("guard_out") \o <<finish>>) = gs \o <<finish>>
    <3>1. frames[t] \in Seq(Frame) /\ Skips("guard_out") \in Seq(Frame)
      BY <1>4, <1>7
    <3>2. \A a, b, c \in Seq(Frame) : (a \o b) \o c = a \o (b \o c)
      BY ConcatAssociative
    <3>. QED
      BY <2>1, <3>1, <3>2
  <2>. QED
    BY <1>9, <2>2, <2>3
<1>. HIDE DEF gs
<1>11. Ended(frames'[t], Len(frames'[t]))
  BY <1>1, <1>8, <1>10, RailGrows
<1>12. /\ ModelStarts(frames'[t]) = ModelStarts(frames[t])
       /\ ModelEnds(frames'[t]) = ModelEnds(frames[t])
       /\ ToolStarts(frames'[t]) = ToolStarts(frames[t])
       /\ ToolEnds(frames'[t]) = ToolEnds(frames[t])
       /\ ToolsBlocked(frames'[t]) = ToolsBlocked(frames[t])
  BY <1>1, <1>8, <1>10, Booked
<1>13. /\ Answers(frames'[t]) = {} /\ (Blocked(frames'[t]) <=> m.text = "refusal")
       /\ (Has(frames'[t], refused) <=> Has(frames[t], refused))
  BY <1>1, <1>2, <1>5, <1>8, <1>10, FrameAdded
<1>14. TypeOK' /\ Others(t)
  BY <1>3, <1>9 DEF TypeOK, NodeTyped, Others, Untouched
<1>15. RailInv(t)' /\ BlockInv(t)' /\ AnswerInv(t)'
  BY <1>5, <1>9, <1>11, <1>12, <1>13 DEF RailInv, BlockInv, AnswerInv
<1>16. QuestionInv(t)'
  BY <1>3, <1>9, QuestionKept DEF TurnInv, Nodes
<1>17. LastInv(t)'
  BY <1>3, <1>9 DEF LastInv, TurnInv, Nodes
<1>18. CountInv(t)'
  BY <1>3, <1>5, <1>9, <1>12 DEF CountInv, TurnInv
<1>. QED
  BY <1>14, <1>15, <1>16, <1>17, <1>18 DEF Kept, TurnInv

\* The last message of a run that ended is the assistant's: it is the answer.
LEMMA FinalIsLast ==
  ASSUME NEW ms \in Seq(Message), ms # <<>>, Last(ms).role = "ai"
  PROVE  FinalMessage(ms) = Last(ms)
<1>. DEFINE wrote == {i \in 1..Len(ms) : ms[i].role = "ai"}
            i == CHOOSE k \in wrote : \A j \in wrote : j <= k
<1>1. Len(ms) \in 1..Len(ms) /\ Len(ms) \in Nat
  BY LastOf, LenProperties
<1>2. Len(ms) \in wrote /\ \A j \in wrote : j <= Len(ms)
  BY <1>1 DEF Last
<1>3. i \in wrote /\ \A j \in wrote : j <= i
  <2>1. \E k \in wrote : \A j \in wrote : j <= k
    BY <1>2
  <2>. HIDE DEF wrote
  <2>. QED
    BY <2>1
<1>4. i = Len(ms)
  <2>1. i \in 1..Len(ms) /\ i <= Len(ms) /\ Len(ms) <= i
    BY <1>2, <1>3
  <2>. HIDE DEF i
  <2>. QED
    BY <1>1, <2>1
<1>. QED
  BY <1>4 DEF FinalMessage, Last

LEMMA AnswerKeeps ==
  ASSUME TypeOK, NEW t \in Turns, TurnInv(t), Answer(t)
  PROVE  Kept(t) /\ Answers(frames'[t]) = {Last(mine[t])}
<1>. DEFINE m == Last(mine[t])
            f == [event |-> "turn", answer |-> m]
<1>1. at[t] = "closed" /\ frames[t] \in Seq(Frame) /\ mine[t] \in Seq(Message) /\ mine[t] # <<>>
  BY DEF Answer, TypeOK, TurnInv, LastInv
<1>2. /\ m \in Message /\ m.turn = t /\ m.role = "ai"
      /\ "guard_out" \in Mounted(mode) => m.text # "breach"
  BY <1>1, LastOf DEF TurnInv, LastInv
<1>3. FinalMessage(mine[t]) = m
  BY <1>1, <1>2, FinalIsLast
<1>4. Emit(t, <<f>>) /\ Leave(t, "replied")
  BY <1>3 DEF Answer
<1>. HIDE DEF m
<1>5. f \in Frame /\ f.event = "turn" /\ f.answer = m
  BY <1>2, OtherFrames
<1>6. f # refused /\ f # finish
  BY <1>5 DEF refused, finish, Stage
<1>. HIDE DEF f
<1>7. /\ frames' \in [Turns -> Seq(Frame)] /\ frames'[t] = frames[t] \o <<f>>
      /\ \A u \in Turns \ {t} : frames'[u] = frames[u]
  <2>1. <<f>> \in Seq(Frame)
    BY <1>5
  <2>. QED
    BY <1>4, <2>1, EmitEffect
<1>8. /\ TypeOK' /\ Others(t) /\ at'[t] = "replied" /\ waiting'[t] = {} /\ running'[t] = {}
      /\ mode' = mode
  BY <1>4, <1>7, LeaveEffect DEF TypeOK, Others, Untouched, Places
<1>9. /\ Ended(frames[t], Len(frames[t])) /\ Answers(frames[t]) = {} /\ running[t] = {}
      /\ (Blocked(frames[t]) <=> m.text = "refusal")
      /\ (Has(frames[t], refused) => m = Refusal(t, "guard_in")
                                     /\ ModelStarts(frames[t]) = 0 /\ ToolStarts(frames[t]) = 0)
  BY <1>1 DEF TurnInv, RailInv, BlockInv, AnswerInv, CountInv, m
<1>10. /\ Answers(frames'[t]) = {m} /\ (Blocked(frames'[t]) <=> m.text = "refusal")
       /\ (Has(frames'[t], refused) <=> Has(frames[t], refused))
  <2>. DEFINE gs == frames[t] \o <<f>>
  <2>1. Answers(gs) = Answers(frames[t]) \cup {m}
    BY <1>1, <1>5, FrameAdded
  <2>2. Blocked(gs) <=> Blocked(frames[t])
    BY <1>1, <1>5, FrameAdded
  <2>3. Has(gs, refused) <=> Has(frames[t], refused)
    BY <1>1, <1>5, <1>6, FrameAdded
  <2>. QED
    BY <1>7, <1>9, <2>1, <2>2, <2>3
<1>11. /\ ModelStarts(frames'[t]) = ModelStarts(frames[t])
       /\ ModelEnds(frames'[t]) = ModelEnds(frames[t])
       /\ ToolStarts(frames'[t]) = ToolStarts(frames[t])
       /\ ToolEnds(frames'[t]) = ToolEnds(frames[t])
       /\ ToolsBlocked(frames'[t]) = ToolsBlocked(frames[t])
  BY <1>1, <1>5, <1>7, Booked
<1>12. RailInv(t)'
  <2>1. Len(frames[t]) \in 1..Len(frames[t])
    BY <1>1, <1>9 DEF Ended
  <2>2. Len(frames[t]) \in 1..Len(frames'[t]) /\ Ended(frames'[t], Len(frames[t]))
    BY <1>1, <1>5, <1>7, <1>9, <2>1, RailGrows
  <2>. QED
    BY <1>8, <2>2 DEF RailInv
<1>13. QuestionInv(t)' /\ LastInv(t)'
  BY <1>8 DEF QuestionInv, LastInv, Nodes
<1>14. BlockInv(t)'
  BY <1>8, <1>9, <1>10, <1>11 DEF BlockInv
<1>15. AnswerInv(t)'
  BY <1>2, <1>8, <1>9, <1>10 DEF AnswerInv, Mounted
<1>16. CountInv(t)'
  BY <1>1, <1>8, <1>9, <1>11 DEF CountInv, TurnInv
<1>. QED
  BY <1>8, <1>10, <1>12, <1>13, <1>14, <1>15, <1>16 DEF Kept, TurnInv, m

\* The error and the trace are neither stages nor answers.
LEMMA SaidAside ==
  ASSUME TypeOK, NEW t \in Turns, NEW f \in {[event |-> "error"], [event |-> "trace"]},
         Emit(t, <<f>>)
  PROVE  /\ frames' \in [Turns -> Seq(Frame)]
         /\ \A u \in Turns \ {t} : frames'[u] = frames[u]
         /\ Answers(frames'[t]) = Answers(frames[t])
         /\ Blocked(frames'[t]) <=> Blocked(frames[t])
         /\ Has(frames'[t], refused) <=> Has(frames[t], refused)
         /\ Has(frames'[t], finish) <=> Has(frames[t], finish)
         /\ ModelStarts(frames'[t]) = ModelStarts(frames[t])
         /\ ModelEnds(frames'[t]) = ModelEnds(frames[t])
         /\ ToolStarts(frames'[t]) = ToolStarts(frames[t])
         /\ ToolEnds(frames'[t]) = ToolEnds(frames[t])
         /\ ToolsBlocked(frames'[t]) = ToolsBlocked(frames[t])
         /\ \A n \in 1..Len(frames[t]) : Ended(frames[t], n) =>
              n \in 1..Len(frames'[t]) /\ Ended(frames'[t], n)
<1>1. f \in Frame /\ f.event \notin {"stage", "turn"}
  BY OtherFrames
<1>2. f # refused /\ f # finish
  BY <1>1 DEF refused, finish, Stage
<1>3. frames[t] \in Seq(Frame)
  BY DEF TypeOK
<1>4. /\ frames' \in [Turns -> Seq(Frame)] /\ frames'[t] = frames[t] \o <<f>>
      /\ \A u \in Turns \ {t} : frames'[u] = frames[u]
  <2>1. <<f>> \in Seq(Frame)
    BY <1>1
  <2>. QED
    BY <2>1, EmitEffect
<1>5. /\ Answers(frames'[t]) = Answers(frames[t])
      /\ Blocked(frames'[t]) <=> Blocked(frames[t])
      /\ Has(frames'[t], refused) <=> Has(frames[t], refused)
      /\ Has(frames'[t], finish) <=> Has(frames[t], finish)
  <2>. DEFINE gs == frames[t] \o <<f>>
  <2>1. Answers(gs) = Answers(frames[t]) /\ (Blocked(gs) <=> Blocked(frames[t]))
    BY <1>1, <1>3, FrameAdded
  <2>2. /\ Has(gs, refused) <=> Has(frames[t], refused)
        /\ Has(gs, finish) <=> Has(frames[t], finish)
    BY <1>1, <1>2, <1>3, FrameAdded
  <2>. QED
    BY <1>4, <2>1, <2>2
<1>6. /\ ModelStarts(frames'[t]) = ModelStarts(frames[t])
      /\ ModelEnds(frames'[t]) = ModelEnds(frames[t])
      /\ ToolStarts(frames'[t]) = ToolStarts(frames[t])
      /\ ToolEnds(frames'[t]) = ToolEnds(frames[t])
      /\ ToolsBlocked(frames'[t]) = ToolsBlocked(frames[t])
  BY <1>1, <1>3, <1>4, Booked
<1>7. ASSUME NEW n \in 1..Len(frames[t]), Ended(frames[t], n)
      PROVE  n \in 1..Len(frames'[t]) /\ Ended(frames'[t], n)
  BY <1>1, <1>3, <1>4, <1>7, RailGrows
<1>. QED
  BY <1>4, <1>5, <1>6, <1>7

LEMMA FailKeeps ==
  ASSUME TypeOK, NEW t \in Turns, TurnInv(t), Fail(t)
  PROVE  Kept(t) /\ Answers(frames'[t]) = Answers(frames[t])
<1>1. /\ at[t] = "failed" /\ Emit(t, <<[event |-> "error"]>>)
      /\ at' \in [Turns -> Places] /\ at'[t] = "replied" /\ \A u \in Turns \ {t} : at'[u] = at[u]
      /\ UNCHANGED <<mode, overlapped, thread, mine, waiting, running, rounds>>
      /\ frames[t] \in Seq(Frame)
  BY DEF Fail, TypeOK, tooling, Goto, Places
<1>2. /\ frames' \in [Turns -> Seq(Frame)]
      /\ \A u \in Turns \ {t} : frames'[u] = frames[u]
      /\ Answers(frames'[t]) = Answers(frames[t])
      /\ Has(frames'[t], refused) <=> Has(frames[t], refused)
      /\ Has(frames'[t], finish) <=> Has(frames[t], finish)
      /\ ModelStarts(frames'[t]) = ModelStarts(frames[t])
      /\ ModelEnds(frames'[t]) = ModelEnds(frames[t])
      /\ ToolStarts(frames'[t]) = ToolStarts(frames[t])
      /\ ToolEnds(frames'[t]) = ToolEnds(frames[t])
      /\ ToolsBlocked(frames'[t]) = ToolsBlocked(frames[t])
  BY <1>1, SaidAside
<1>3. TypeOK' /\ Others(t)
  BY <1>1, <1>2 DEF TypeOK, Others, Untouched
<1>4. ~Has(frames[t], finish) /\ ~Has(frames[t], refused) /\ Answers(frames[t]) = {}
  BY <1>1, NotFinished DEF TurnInv, RailInv, BlockInv, AnswerInv
<1>5. RailInv(t)' /\ BlockInv(t)' /\ AnswerInv(t)'
  BY <1>1, <1>2, <1>4 DEF RailInv, BlockInv, AnswerInv, Finished, finish
<1>6. QuestionInv(t)' /\ LastInv(t)'
  BY <1>1 DEF QuestionInv, LastInv, Nodes
<1>7. CountInv(t)'
  BY <1>1, <1>2 DEF CountInv, TurnInv
<1>. QED
  BY <1>2, <1>3, <1>5, <1>6, <1>7 DEF Kept, TurnInv

LEMMA TraceKeeps ==
  ASSUME TypeOK, NEW t \in Turns, TurnInv(t), Trace(t)
  PROVE  Kept(t) /\ Answers(frames'[t]) = Answers(frames[t])
<1>1. /\ at[t] = "replied" /\ Emit(t, <<[event |-> "trace"]>>)
      /\ at' \in [Turns -> Places] /\ at'[t] = "done" /\ \A u \in Turns \ {t} : at'[u] = at[u]
      /\ UNCHANGED <<mode, overlapped, thread, mine, waiting, running, rounds>>
      /\ frames[t] \in Seq(Frame)
  BY DEF Trace, Replied, TypeOK, tooling, Goto, Places
<1>2. /\ frames' \in [Turns -> Seq(Frame)]
      /\ \A u \in Turns \ {t} : frames'[u] = frames[u]
      /\ Answers(frames'[t]) = Answers(frames[t])
      /\ Blocked(frames'[t]) <=> Blocked(frames[t])
      /\ Has(frames'[t], refused) <=> Has(frames[t], refused)
      /\ Has(frames'[t], finish) <=> Has(frames[t], finish)
      /\ ModelStarts(frames'[t]) = ModelStarts(frames[t])
      /\ ModelEnds(frames'[t]) = ModelEnds(frames[t])
      /\ ToolStarts(frames'[t]) = ToolStarts(frames[t])
      /\ ToolEnds(frames'[t]) = ToolEnds(frames[t])
      /\ ToolsBlocked(frames'[t]) = ToolsBlocked(frames[t])
      /\ \A n \in 1..Len(frames[t]) : Ended(frames[t], n) =>
           n \in 1..Len(frames'[t]) /\ Ended(frames'[t], n)
  BY <1>1, SaidAside
<1>3. TypeOK' /\ Others(t)
  BY <1>1, <1>2 DEF TypeOK, Others, Untouched
<1>4. RailInv(t)'
  <2>1. Has(frames[t], finish) => \E n \in 1..Len(frames[t]) : Ended(frames[t], n)
    BY <1>1 DEF TurnInv, RailInv, Finished, finish
  <2>2. Has(frames'[t], finish) => \E n \in 1..Len(frames'[t]) : Ended(frames'[t], n)
    BY <1>2, <2>1
  <2>. QED
    BY <1>1, <2>2 DEF RailInv, Finished, finish
<1>5. BlockInv(t)' /\ AnswerInv(t)'
  <2>1. BlockInv(t)'
    BY <1>1, <1>2 DEF BlockInv, TurnInv
  <2>2. AnswerInv(t)'
    BY <1>1, <1>2 DEF AnswerInv, TurnInv, Mounted
  <2>. QED
    BY <2>1, <2>2
<1>6. QuestionInv(t)' /\ LastInv(t)'
  BY <1>1 DEF QuestionInv, LastInv, Nodes
<1>7. CountInv(t)'
  BY <1>1, <1>2 DEF CountInv, TurnInv
<1>. QED
  BY <1>2, <1>3, <1>4, <1>5, <1>6, <1>7 DEF Kept, TurnInv

LEMMA DropKeeps ==
  ASSUME TypeOK, NEW t \in Turns, TurnInv(t), Drop(t)
  PROVE  Kept(t) /\ Answers(frames'[t]) = {}
<1>1. Leave(t, "dropped") /\ frames' = [frames EXCEPT ![t] = <<>>] /\ <<>> \in Seq(Frame)
  BY DEF Drop
<1>2. /\ TypeOK' /\ Others(t) /\ at'[t] = "dropped" /\ waiting'[t] = {} /\ running'[t] = {}
      /\ frames'[t] = <<>>
  BY <1>1, LeaveEffect DEF TypeOK, Others, Untouched, Places
<1>3. RailInv(t)' /\ BlockInv(t)' /\ AnswerInv(t)'
  BY <1>2, EmptyStream DEF RailInv, BlockInv, AnswerInv
<1>4. QuestionInv(t)' /\ LastInv(t)'
  BY <1>2 DEF QuestionInv, LastInv, Nodes
<1>5. CountInv(t)'
  BY <1>2, EmptyStream, FS_EmptySet DEF CountInv
<1>. QED
  BY <1>2, <1>3, <1>4, <1>5, EmptyStream DEF Kept, TurnInv

-----------------------------------------------------------------------------
(* The conversation: what is said in it stays in it.                       *)

LEMMA HoldsGrows ==
  ASSUME NEW ms \in Seq(Message), NEW x \in Message, NEW t, NEW m, Holds(ms, t, m)
  PROVE  Holds(ms \o <<x>>, t, m)
<1>. DEFINE ns == ms \o <<x>>
<1>1. /\ Len(ns) = Len(ms) + 1 /\ Len(ms) \in Nat
      /\ \A i \in 1..Len(ms) : ns[i] = ms[i]
  BY Added
<1>. HIDE DEF ns
<1>2. ASSUME NEW i \in Transcript(ms)
      PROVE  i \in 1..Len(ms) /\ i \in Transcript(ns) /\ ns[i] = ms[i]
  <2>1. i \in 1..Len(ms) /\ ms[i].role # "tool" /\ ms[i].text # ""
    BY DEF Transcript
  <2>2. i \in 1..Len(ms)
    BY <2>1
  <2>3. ns[i] = ms[i] /\ i \in 1..Len(ns)
    BY <1>1, <2>2
  <2>. QED
    BY <2>1, <2>3 DEF Transcript
<1>3. PICK i \in Transcript(ms), j \in Transcript(ms) :
        i < j /\ ms[i].role = "human" /\ ms[i].turn = t /\ ms[j] = m
  BY DEF Holds
<1>4. Holds(ns, t, m)
  BY <1>2, <1>3 DEF Holds
<1>. QED
  BY <1>4 DEF ns

LEMMA SettledGrows ==
  ASSUME NEW ms \in Seq(Message), NEW x \in Message
  PROVE  /\ \A i \in 1..Len(ms) : Settled(ms, i) => Settled(ms \o <<x>>, i)
         /\ x.role = "tool" /\ ms # <<>> /\ x.calls = Last(ms).calls =>
              Settled(ms \o <<x>>, Len(ms))
         /\ \A i \in Asking(ms \o <<x>>) :
              \/ i \in Asking(ms) /\ (ms \o <<x>>)[i] = ms[i]
              \/ i = Len(ms) + 1 /\ x.role = "ai" /\ x.calls # {}
<1>. DEFINE ns == ms \o <<x>>
<1>1. /\ Len(ns) = Len(ms) + 1 /\ Len(ms) \in Nat /\ ns[Len(ms) + 1] = x
      /\ \A i \in 1..Len(ms) : ns[i] = ms[i]
  BY Added
<1>. HIDE DEF ns
<1>2. ASSUME NEW i \in 1..Len(ms), Settled(ms, i) PROVE Settled(ns, i)
  <2>1. i + 1 \in 1..Len(ms)
    BY <1>1, <1>2 DEF Settled
  <2>. QED
    BY <1>1, <1>2, <2>1 DEF Settled
<1>3. ASSUME x.role = "tool", ms # <<>>, x.calls = Last(ms).calls PROVE Settled(ns, Len(ms))
  <2>1. Len(ms) \in 1..Len(ms)
    BY <1>3, LastOf
  <2>. QED
    BY <1>1, <1>3, <2>1 DEF Settled, Last
<1>4. ASSUME NEW i \in Asking(ns)
      PROVE  \/ i \in Asking(ms) /\ ns[i] = ms[i]
             \/ i = Len(ms) + 1 /\ x.role = "ai" /\ x.calls # {}
  BY <1>1 DEF Asking
<1>. QED
  BY <1>2, <1>3, <1>4 DEF ns

LEMMA AskingType ==
  ASSUME NEW ms \in Seq(Message), NEW i \in Asking(ms)
  PROVE  i \in 1..Len(ms) /\ ms[i].turn \in Turns
<1>1. i \in 1..Len(ms)
  BY DEF Asking
<1>2. ms[i] \in Message
  BY <1>1, ElementOfSeq
<1>. QED
  BY <1>1, <1>2 DEF Message

\* After the step.
NowExcused(u) ==
  \/ at'[u] \in {"failed", "dropped"}
  \/ at'[u] \in {"replied", "done"} /\ Answers(frames'[u]) = {}
  \/ u \in overlapped'
NowInGraph(u) == at'[u] \in Nodes \cup {"calling"}

\* A step that says nothing: the conversation is as it was, and a turn of it that leaves
\* the graph has an excuse for what it leaves open.
Resting ==
  /\ thread' = thread /\ overlapped' = overlapped
  /\ \A u \in Turns : NowInGraph(u) => /\ InGraph(u) /\ mine'[u] = mine[u]
                                       /\ at[u] = "tools" => at'[u] = "tools"
  /\ \A u \in Turns : /\ Said(u)' \subseteq Said(u)
                      /\ Excused(u) => NowExcused(u)
                      /\ InGraph(u) => NowInGraph(u) \/ NowExcused(u)

LEMMA RestingKeeps ==
  ASSUME TypeOK, AloneInv, OrphanInv, Resting
  PROVE  AloneInv' /\ OrphanInv'
<1>1. AloneInv'
  <2>1. ASSUME NEW t \in Turns, NEW u \in Turns, t # u, NowInGraph(t), NowInGraph(u)
        PROVE  t \in overlapped'
    BY <2>1 DEF AloneInv, Resting
  <2>2. ASSUME NEW t \in Turns \ overlapped', NEW m \in Said(t)'
        PROVE  /\ Holds(thread', t, m)
               /\ \A u \in Turns \ {t} : NowInGraph(u) => Holds(mine'[u], t, m)
    <3>1. t \in Turns \ overlapped /\ m \in Said(t)
      BY <2>2 DEF Resting
    <3>. QED
      BY <3>1 DEF AloneInv, Resting
  <2>. QED
    BY <2>1, <2>2 DEF AloneInv, InGraph, NowInGraph
<1>2. OrphanInv'
  <2>1. ASSUME NEW i \in Asking(thread)
        PROVE  Settled(thread, i) \/ NowExcused(thread[i].turn) \/ NowInGraph(thread[i].turn)
    <3>1. thread[i].turn \in Turns
      BY AskingType DEF TypeOK
    <3>. QED
      BY <2>1, <3>1 DEF OrphanInv, Resting
  <2>2. ASSUME NEW t \in Turns, NowInGraph(t), NEW i \in Asking(mine[t])
        PROVE  \/ Settled(mine[t], i) \/ NowExcused(mine[t][i].turn)
               \/ i = Len(mine[t]) /\ at'[t] = "tools"
    <3>1. mine[t] \in Seq(Message)
      BY DEF TypeOK
    <3>2. mine[t][i].turn \in Turns
      BY <3>1, AskingType
    <3>. QED
      BY <2>2, <3>2 DEF OrphanInv, Resting
  <2>3. thread' = thread /\ \A t \in Turns : NowInGraph(t) => mine'[t] = mine[t]
    BY DEF Resting
  <2>. QED
    BY <2>1, <2>2, <2>3 DEF OrphanInv, InGraph, NowInGraph, Excused, NowExcused
<1>. QED
  BY <1>1, <1>2

\* A step of a node: what the turn's run carries is the conversation now.
Saying(s) ==
  /\ InGraph(s) /\ (NowInGraph(s) \/ at'[s] = "closed")
  /\ overlapped' = overlapped /\ thread' = mine'[s]
  /\ \/ mine'[s] = mine[s] /\ at[s] # "tools" /\ at'[s] # "tools"
     \/ \E m \in Message :
          /\ mine'[s] = mine[s] \o <<m>> /\ NowInGraph(s)
          /\ at[s] = "tools" => m.role = "tool" /\ m.calls = Last(mine[s]).calls
          /\ m.role = "ai" /\ m.calls # {} => at'[s] = "tools"

LEMMA SayingKeeps ==
  ASSUME TypeOK, AloneInv, OrphanInv, NEW s \in Turns, Kept(s), TurnInv(s), Saying(s)
  PROVE  AloneInv' /\ OrphanInv'
<1>1. /\ InGraph(s) /\ thread' = mine'[s] /\ overlapped' = overlapped
      /\ mine[s] \in Seq(Message) /\ mine'[s] \in Seq(Message)
      /\ \A u \in Turns \ {s} : Untouched(u)
  BY DEF Saying, TypeOK, Kept, Others
<1>2. \A u \in Turns : NowInGraph(u) => InGraph(u)
  BY <1>1 DEF InGraph, NowInGraph, Untouched, Saying
<1>3. \A u \in Turns \ {s} : Said(u)' = Said(u) /\ (NowInGraph(u) <=> InGraph(u))
                             /\ mine'[u] = mine[u] /\ at'[u] = at[u]
  BY <1>1 DEF Said, InGraph, NowInGraph, Untouched
<1>4. \A t, m : Holds(mine[s], t, m) => Holds(mine'[s], t, m)
  BY <1>1, HoldsGrows DEF Saying
<1>5. \A u \in Turns : Excused(u) => NowExcused(u)
  <2>1. \A u \in Turns \ {s} : Excused(u) => NowExcused(u)
    BY <1>1 DEF Excused, NowExcused, Untouched
  <2>2. Excused(s) => NowExcused(s)
    BY <1>1 DEF Excused, NowExcused, InGraph, Nodes
  <2>. QED
    BY <2>1, <2>2
<1>6. AloneInv'
  <2>1. ASSUME NEW t \in Turns, NEW u \in Turns, t # u, NowInGraph(t), NowInGraph(u)
        PROVE  t \in overlapped'
    BY <1>1, <1>2, <2>1 DEF AloneInv
  <2>2. ASSUME NEW t \in Turns \ overlapped', NEW m \in Said(t)'
        PROVE  /\ Holds(thread', t, m)
               /\ \A u \in Turns \ {t} : NowInGraph(u) => Holds(mine'[u], t, m)
    <3>1. CASE t = s
      <4>1. at'[s] = "closed"
        <5>1. NowInGraph(s) => Said(s)' = {}
          BY DEF Kept, TurnInv, AnswerInv, Said, NowInGraph, Nodes
        <5>. QED
          BY <2>2, <3>1, <5>1 DEF Saying
      <4>2. m = Last(mine'[s])
        BY <2>2, <3>1, <4>1 DEF Said
      <4>3. PICK i \in 1..Len(mine'[s]) :
              /\ mine'[s][i].role = "human" /\ mine'[s][i].turn = s /\ mine'[s][i].text # ""
              /\ i < Len(mine'[s])
        BY <4>1 DEF Kept, TurnInv, QuestionInv
      <4>4. mine'[s] # <<>> /\ Last(mine'[s]).role = "ai" /\ Last(mine'[s]).text # ""
        BY <4>1 DEF Kept, TurnInv, LastInv
      <4>5. Len(mine'[s]) \in 1..Len(mine'[s])
        BY <1>1, <4>4, LastOf
      <4>6. i \in Transcript(mine'[s]) /\ Len(mine'[s]) \in Transcript(mine'[s])
        BY <4>3, <4>4, <4>5 DEF Transcript, Last
      <4>7. Holds(mine'[s], s, m)
        BY <4>2, <4>3, <4>6 DEF Holds, Last
      <4>8. \A u \in Turns \ {s} : ~NowInGraph(u)
        BY <1>1, <1>2, <2>2, <3>1 DEF AloneInv
      <4>. QED
        BY <1>1, <3>1, <4>7, <4>8
    <3>2. CASE t # s
      <4>1. m \in Said(t) /\ t \in Turns \ overlapped
        BY <1>1, <1>3, <2>2, <3>2
      <4>2. Holds(mine[s], t, m) /\ \A u \in Turns \ {t} : InGraph(u) => Holds(mine[u], t, m)
        BY <1>1, <3>2, <4>1 DEF AloneInv
      <4>3. Holds(mine'[s], t, m)
        BY <1>4, <4>2
      <4>4. ASSUME NEW u \in Turns \ {t}, NowInGraph(u) PROVE Holds(mine'[u], t, m)
        BY <1>2, <1>3, <4>2, <4>3, <4>4
      <4>. QED
        BY <1>1, <4>3, <4>4
    <3>. QED
      BY <3>1, <3>2
  <2>. QED
    BY <2>1, <2>2 DEF AloneInv, InGraph, NowInGraph
<1>7. ASSUME NEW i \in Asking(mine'[s])
      PROVE  \/ Settled(mine'[s], i) \/ NowExcused(mine'[s][i].turn)
             \/ i = Len(mine'[s]) /\ at'[s] = "tools"
  <2>1. \A k \in Asking(mine[s]) :
          \/ Settled(mine[s], k) \/ Excused(mine[s][k].turn)
          \/ k = Len(mine[s]) /\ at[s] = "tools"
    BY <1>1 DEF OrphanInv
  <2>2. \A k \in Asking(mine[s]) : mine[s][k].turn \in Turns /\ k \in 1..Len(mine[s])
    BY <1>1, AskingType
  <2>3. CASE mine'[s] = mine[s] /\ at[s] # "tools"
    BY <1>5, <1>7, <2>1, <2>2, <2>3
  <2>4. ASSUME NEW m \in Message, mine'[s] = mine[s] \o <<m>>,
               at[s] = "tools" => m.role = "tool" /\ m.calls = Last(mine[s]).calls,
               m.role = "ai" /\ m.calls # {} => at'[s] = "tools"
        PROVE  \/ Settled(mine'[s], i) \/ NowExcused(mine'[s][i].turn)
               \/ i = Len(mine'[s]) /\ at'[s] = "tools"
    <3>1. mine[s] # <<>> /\ Len(mine'[s]) = Len(mine[s]) + 1
      <4>1. mine[s] # <<>>
        BY <1>1 DEF TurnInv, LastInv, InGraph
      <4>. QED
        BY <1>1, <2>4, <4>1, Added
    <3>2. \/ i \in Asking(mine[s]) /\ mine'[s][i] = mine[s][i]
          \/ i = Len(mine[s]) + 1 /\ m.role = "ai" /\ m.calls # {}
      BY <1>1, <1>7, <2>4, SettledGrows
    <3>3. CASE i = Len(mine[s]) + 1 /\ m.role = "ai" /\ m.calls # {}
      BY <2>4, <3>1, <3>3
    <3>4. CASE i \in Asking(mine[s]) /\ mine'[s][i] = mine[s][i]
      <4>1. CASE Settled(mine[s], i)
        BY <1>1, <2>2, <2>4, <3>4, <4>1, SettledGrows
      <4>2. CASE Excused(mine[s][i].turn)
        BY <1>5, <2>2, <3>4, <4>2
      <4>3. CASE i = Len(mine[s]) /\ at[s] = "tools"
        BY <1>1, <2>4, <3>1, <4>3, SettledGrows
      <4>. QED
        BY <2>1, <3>4, <4>1, <4>2, <4>3
    <3>. QED
      BY <3>2, <3>3, <3>4
  <2>. QED
    BY <2>3, <2>4 DEF Saying
<1>8. OrphanInv'
  <2>1. ASSUME NEW i \in Asking(thread')
        PROVE  Settled(thread', i) \/ NowExcused(thread'[i].turn) \/ NowInGraph(thread'[i].turn)
    <3>1. CASE i = Len(mine'[s]) /\ at'[s] = "tools"
      <4>1. mine'[s][i].turn = s /\ NowInGraph(s)
        BY <3>1 DEF Kept, TurnInv, LastInv, Last, NowInGraph, Nodes
      <4>. QED
        BY <1>1, <4>1
    <3>. QED
      BY <1>1, <1>7, <2>1, <3>1
  <2>2. ASSUME NEW t \in Turns, NowInGraph(t), NEW i \in Asking(mine'[t])
        PROVE  \/ Settled(mine'[t], i) \/ NowExcused(mine'[t][i].turn)
               \/ i = Len(mine'[t]) /\ at'[t] = "tools"
    <3>1. CASE t = s
      BY <1>7, <2>2, <3>1
    <3>2. CASE t # s
      <4>1. mine'[t] = mine[t] /\ at'[t] = at[t] /\ InGraph(t) /\ mine[t] \in Seq(Message)
        BY <1>3, <2>2, <3>2 DEF TypeOK
      <4>2. i \in Asking(mine[t]) /\ mine[t][i].turn \in Turns
        BY <2>2, <4>1, AskingType
      <4>. QED
        BY <1>5, <4>1, <4>2 DEF OrphanInv
    <3>. QED
      BY <3>1, <3>2
  <2>. QED
    BY <2>1, <2>2 DEF OrphanInv, InGraph, NowInGraph, Excused, NowExcused
<1>. QED
  BY <1>6, <1>8

\* A turn that opens takes up what is saved; whoever is in the graph is beside it.
LEMMA OpeningKeeps ==
  ASSUME TypeOK, AloneInv, OrphanInv, NEW s \in Turns, TurnInv(s), Kept(s), OpenTurn(s)
  PROVE  AloneInv' /\ OrphanInv'
<1>1. PICK text \in {"fine", "breach"} :
        mine' = [mine EXCEPT ![s] = Append(Resumed, Human(s, text))]
  BY DEF OpenTurn
<1>. DEFINE h == Human(s, text)
            beside == {u \in Turns \ {s} : InGraph(u)}
<1>2. h \in Message /\ h.role = "human"
  BY Messages DEF Human
<1>3. mine'[s] = thread \o <<h>> /\ thread \in Seq(Message)
  <2>1. thread \in Seq(Message) /\ mine'[s] = Append(thread, h)
    BY <1>1 DEF TypeOK, Resumed
  <2>. HIDE DEF h
  <2>. QED
    BY <1>2, <2>1, AppendIsConcat
<1>. HIDE DEF h
<1>4. /\ at[s] = "idle" /\ at'[s] = "trace_in" /\ thread' = thread /\ frames' = frames
      /\ overlapped' = IF beside = {} THEN overlapped ELSE overlapped \cup beside \cup {s}
  BY DEF OpenTurn, Goto, TypeOK
<1>5. /\ ~InGraph(s) /\ NowInGraph(s)
      /\ \A u \in Turns \ {s} : Untouched(u)
  BY <1>4 DEF InGraph, NowInGraph, Nodes, Kept, Others
<1>6. /\ \A u \in Turns \ {s} : InGraph(u) => u \in overlapped' /\ s \in overlapped'
      /\ \A u \in overlapped : u \in overlapped'
  <2>1. \A u \in Turns \ {s} : InGraph(u) => u \in beside
    OBVIOUS
  <2>. HIDE DEF beside
  <2>. QED
    BY <1>4, <2>1
<1>7. \A u \in Turns : Excused(u) => NowExcused(u)
  <2>1. \A u \in Turns \ {s} : Excused(u) => NowExcused(u)
    BY <1>5, <1>6 DEF Excused, NowExcused, Untouched
  <2>2. Excused(s) => NowExcused(s)
    BY <1>4, <1>6 DEF Excused, NowExcused
  <2>. QED
    BY <2>1, <2>2
<1>8. /\ Said(s)' = {}
      /\ \A u \in Turns \ {s} : Said(u)' = Said(u) /\ (NowInGraph(u) <=> InGraph(u))
                                /\ mine'[u] = mine[u] /\ at'[u] = at[u]
  <2>1. Said(s)' = {}
    BY <1>4 DEF Kept, TurnInv, AnswerInv, Said
  <2>. QED
    BY <1>5, <2>1 DEF Said, InGraph, NowInGraph, Untouched
<1>9. AloneInv'
  <2>1. ASSUME NEW t \in Turns, NEW u \in Turns, t # u, NowInGraph(t), NowInGraph(u)
        PROVE  t \in overlapped'
    <3>1. CASE t = s \/ u = s
      BY <1>6, <1>8, <2>1, <3>1
    <3>2. CASE t # s /\ u # s
      BY <1>6, <1>8, <2>1, <3>2 DEF AloneInv
    <3>. QED
      BY <3>1, <3>2
  <2>2. ASSUME NEW t \in Turns \ overlapped', NEW m \in Said(t)'
        PROVE  /\ Holds(thread', t, m)
               /\ \A u \in Turns \ {t} : NowInGraph(u) => Holds(mine'[u], t, m)
    <3>1. t # s /\ t \in Turns \ overlapped /\ m \in Said(t)
      BY <1>6, <1>8, <2>2
    <3>2. Holds(thread, t, m) /\ \A u \in Turns \ {t} : InGraph(u) => Holds(mine[u], t, m)
      BY <3>1 DEF AloneInv
    <3>3. Holds(mine'[s], t, m)
      BY <1>2, <1>3, <3>2, HoldsGrows
    <3>4. ASSUME NEW u \in Turns \ {t}, NowInGraph(u) PROVE Holds(mine'[u], t, m)
      BY <1>8, <3>2, <3>3, <3>4
    <3>. QED
      BY <1>4, <3>2, <3>4
  <2>. QED
    BY <2>1, <2>2 DEF AloneInv, InGraph, NowInGraph
<1>10. \A i \in Asking(thread) :
         thread[i].turn \in Turns /\ i \in 1..Len(thread)
         /\ (Settled(thread, i) \/ Excused(thread[i].turn) \/ InGraph(thread[i].turn))
  BY <1>3, AskingType DEF OrphanInv
<1>11. OrphanInv'
  <2>1. ASSUME NEW i \in Asking(thread')
        PROVE  Settled(thread', i) \/ NowExcused(thread'[i].turn) \/ NowInGraph(thread'[i].turn)
    BY <1>4, <1>5, <1>7, <1>8, <1>10, <2>1
  <2>2. ASSUME NEW t \in Turns, NowInGraph(t), NEW i \in Asking(mine'[t])
        PROVE  \/ Settled(mine'[t], i) \/ NowExcused(mine'[t][i].turn)
               \/ i = Len(mine'[t]) /\ at'[t] = "tools"
    <3>1. CASE t = s
      <4>1. i \in Asking(thread) /\ mine'[s][i] = thread[i]
        BY <1>2, <1>3, <2>2, <3>1, SettledGrows
      <4>2. CASE Settled(thread, i)
        BY <1>2, <1>3, <1>10, <3>1, <4>1, <4>2, SettledGrows
      <4>3. CASE Excused(thread[i].turn)
        BY <1>7, <1>10, <3>1, <4>1, <4>3
      <4>4. CASE InGraph(thread[i].turn)
        <5>1. thread[i].turn \in overlapped'
          BY <1>5, <1>6, <1>10, <4>1, <4>4
        <5>. QED
          BY <3>1, <4>1, <5>1 DEF NowExcused
      <4>. QED
        BY <1>10, <4>1, <4>2, <4>3, <4>4
    <3>2. CASE t # s
      <4>1. mine'[t] = mine[t] /\ at'[t] = at[t] /\ InGraph(t) /\ mine[t] \in Seq(Message)
        BY <1>8, <2>2, <3>2 DEF TypeOK
      <4>2. i \in Asking(mine[t]) /\ mine[t][i].turn \in Turns
        BY <2>2, <4>1, AskingType
      <4>. QED
        BY <1>7, <4>1, <4>2 DEF OrphanInv
    <3>. QED
      BY <3>1, <3>2
  <2>. QED
    BY <2>1, <2>2 DEF OrphanInv, InGraph, NowInGraph, Excused, NowExcused
<1>. QED
  BY <1>9, <1>11

LEMMA SilentNode ==
  ASSUME TypeOK, NEW t \in Turns, InGraph(t), at[t] # "tools", overlapped' = overlapped,
         NEW fs, NEW next \in {"guard_in", "model", "trace_out", "closed"},
         Node(t, fs, <<>>, next)
  PROVE  Saying(t)
<1>1. mine[t] \o <<>> = mine[t]
  BY NothingAdded DEF TypeOK
<1>2. mine'[t] = mine[t] /\ thread' = mine'[t] /\ at'[t] = next
  BY <1>1 DEF Node, Goto, TypeOK
<1>. QED
  BY <1>2 DEF Saying, NowInGraph, Nodes

LEMMA SpeakingNode ==
  ASSUME TypeOK, NEW t \in Turns, InGraph(t), overlapped' = overlapped,
         NEW fs, NEW m \in Message, NEW next \in Nodes,
         Node(t, fs, <<m>>, next),
         at[t] = "tools" => m.role = "tool" /\ m.calls = Last(mine[t]).calls,
         m.role = "ai" /\ m.calls # {} => next = "tools"
  PROVE  Saying(t)
<1>1. mine'[t] = mine[t] \o <<m>> /\ thread' = mine'[t] /\ at'[t] = next
  BY DEF Node, Goto, TypeOK
<1>. QED
  BY <1>1 DEF Saying, NowInGraph

LEMMA Rests ==
  ASSUME NEW t \in Turns, Kept(t), thread' = thread, overlapped' = overlapped,
         NowInGraph(t) => InGraph(t) /\ mine'[t] = mine[t] /\ (at[t] = "tools" => at'[t] = "tools"),
         Said(t)' \subseteq Said(t), Excused(t) => NowExcused(t),
         InGraph(t) => NowInGraph(t) \/ NowExcused(t)
  PROVE  Resting
<1>1. \A u \in Turns \ {t} : Untouched(u)
  BY DEF Kept, Others
<1>2. \A u \in Turns \ {t} :
        /\ NowInGraph(u) => InGraph(u) /\ mine'[u] = mine[u] /\ at'[u] = at[u]
        /\ Said(u)' = Said(u) /\ (Excused(u) => NowExcused(u)) /\ (InGraph(u) => NowInGraph(u))
  BY <1>1 DEF Untouched, InGraph, NowInGraph, Excused, NowExcused, Said
<1>3. \A u \in Turns :
        /\ NowInGraph(u) => InGraph(u) /\ mine'[u] = mine[u] /\ (at[u] = "tools" => at'[u] = "tools")
        /\ Said(u)' \subseteq Said(u) /\ (Excused(u) => NowExcused(u))
        /\ InGraph(u) => NowInGraph(u) \/ NowExcused(u)
  BY <1>2
<1>. QED
  BY <1>3 DEF Resting

\* Going on in the graph without a word, and leaving it before there is an answer.
LEMMA RestsInGraph ==
  ASSUME NEW t \in Turns, Kept(t), TurnInv(t), thread' = thread, overlapped' = overlapped,
         InGraph(t), NowInGraph(t), mine'[t] = mine[t], at[t] = "tools" => at'[t] = "tools"
  PROVE  Resting
<1>1. Said(t)' = {}
  BY DEF Kept, TurnInv, AnswerInv, Said, NowInGraph, Nodes
<1>2. Excused(t) => NowExcused(t)
  BY DEF InGraph, Nodes, Excused, NowExcused
<1>. QED
  BY <1>1, <1>2, Rests

LEMMA RestsWhenLeft ==
  ASSUME NEW t \in Turns, Kept(t), thread' = thread, overlapped' = overlapped,
         at'[t] \in {"failed", "dropped"}
  PROVE  Resting
<1>1. Said(t)' = {} /\ ~NowInGraph(t) /\ NowExcused(t)
  BY DEF Kept, TurnInv, AnswerInv, Said, NowInGraph, NowExcused, Nodes
<1>. QED
  BY <1>1, Rests

-----------------------------------------------------------------------------
(* Every step.                                                             *)

LEMMA NodesKeep ==
  ASSUME TypeOK, AloneInv, OrphanInv, NEW t \in Turns, TurnInv(t),
         OpenRail(t) \/ ScreenInput(t) \/ ModelReturns(t) \/ ScreenOutput(t) \/ CloseRail(t)
  PROVE  Kept(t) /\ AloneInv' /\ OrphanInv'
<1>. SUFFICES Kept(t) /\ Saying(t)
  BY SayingKeeps
<1>1. CASE OpenRail(t)
  <2>1. Entry \in {"guard_in", "model"} /\ InGraph(t) /\ at[t] # "tools"
    BY <1>1, Dial DEF TypeOK, OpenRail, InGraph, Nodes
  <2>2. Node(t, Skips("guard_in"), <<>>, Entry) /\ overlapped' = overlapped
    BY <1>1 DEF OpenRail
  <2>. QED
    BY <1>1, <2>1, <2>2, SilentNode, OpenRailKeeps
<1>2. CASE ScreenInput(t)
  <2>1. InGraph(t) /\ at[t] # "tools" /\ Exit \in Nodes /\ overlapped' = overlapped
    BY <1>2, Dial DEF TypeOK, ScreenInput, InGraph, Nodes
  <2>2. CASE Breaches(mine[t])
    <3>. DEFINE m == Refusal(t, "guard_in")
    <3>1. m \in Message /\ m.calls = {}
      BY Messages DEF Refusal, Gates
    <3>2. PICK fs : Node(t, fs, <<m>>, Exit)
      BY <1>2, <2>2 DEF ScreenInput, JumpToEnd
    <3>. HIDE DEF m
    <3>. QED
      BY <1>2, <2>1, <3>1, <3>2, SpeakingNode, ScreenInputKeeps
  <2>3. CASE ~Breaches(mine[t])
    <3>1. PICK fs : Node(t, fs, <<>>, "model")
      BY <1>2, <2>3 DEF ScreenInput
    <3>. QED
      BY <1>2, <2>1, <3>1, SilentNode, ScreenInputKeeps
  <2>. QED
    BY <2>2, <2>3
<1>3. CASE ModelReturns(t)
  <2>1. InGraph(t) /\ at[t] # "tools" /\ overlapped' = overlapped /\ Exit \in Nodes
    BY <1>3, Dial DEF TypeOK, ModelReturns, InGraph, Nodes
  <2>2. PICK calls \in SUBSET Tools : \E text \in Texts :
          \E fs : Node(t, fs, <<Reply(t, text, calls)>>, IF calls = {} THEN Exit ELSE "tools")
    <3>1. PICK calls \in SUBSET Tools :
            \E text \in {"breach", IF calls = {} THEN "fine" ELSE ""} :
              Node(t, <<Stage("model", ModelRole(calls), "done")>>, <<Reply(t, text, calls)>>,
                   IF calls = {} THEN Exit ELSE "tools")
      BY <1>3 DEF ModelReturns
    <3>2. \A text \in {"breach", IF calls = {} THEN "fine" ELSE ""} : text \in Texts
      BY DEF Texts
    <3>. QED
      BY <3>1, <3>2
  <2>3. PICK text \in Texts :
          \E fs : Node(t, fs, <<Reply(t, text, calls)>>, IF calls = {} THEN Exit ELSE "tools")
    BY <2>2
  <2>. DEFINE m == Reply(t, text, calls)
              next == IF calls = {} THEN Exit ELSE "tools"
  <2>4. m \in Message /\ m.calls = calls
    BY Messages DEF Reply
  <2>5. PICK fs : Node(t, fs, <<m>>, next)
    BY <2>3
  <2>6. next \in Nodes /\ (calls # {} => next = "tools")
    BY <2>1 DEF Nodes
  <2>. HIDE DEF m, next
  <2>7. Saying(t)
    BY <2>1, <2>4, <2>5, <2>6, SpeakingNode
  <2>. QED
    BY <1>3, <2>7, ModelReturnsKeeps
<1>4. CASE ScreenOutput(t)
  <2>1. InGraph(t) /\ at[t] # "tools" /\ overlapped' = overlapped /\ Exit \in Nodes
    BY <1>4, Dial DEF TypeOK, ScreenOutput, InGraph, Nodes
  <2>. DEFINE m == Refusal(t, "guard_out")
  <2>2. \/ \E fs : Node(t, fs, <<>>, "trace_out")
        \/ \E fs : Node(t, fs, <<m>>, Exit)
    <3>1. CASE RefusedBy(mine[t]) = "guard_out"
      BY <1>4, <3>1 DEF ScreenOutput
    <3>2. CASE RefusedBy(mine[t]) = "guard_in"
      BY <1>4, <3>2 DEF ScreenOutput
    <3>3. CASE RefusedBy(mine[t]) = "nobody" /\ Breaches(mine[t])
      BY <1>4, <3>3 DEF ScreenOutput, JumpToEnd
    <3>4. CASE RefusedBy(mine[t]) \notin Gates
               /\ ~(RefusedBy(mine[t]) = "nobody" /\ Breaches(mine[t]))
      BY <1>4, <3>4 DEF ScreenOutput, Gates
    <3>. QED
      BY <3>1, <3>2, <3>3, <3>4 DEF Gates
  <2>3. m \in Message /\ m.calls = {}
    BY Messages DEF Refusal, Gates
  <2>. HIDE DEF m
  <2>4. Saying(t)
    BY <2>1, <2>2, <2>3, SilentNode, SpeakingNode
  <2>. QED
    BY <1>4, <2>4, ScreenOutputKeeps
<1>5. CASE CloseRail(t)
  <2>1. InGraph(t) /\ at[t] # "tools" /\ overlapped' = overlapped
    BY <1>5 DEF CloseRail, InGraph, Nodes
  <2>2. PICK fs : Node(t, fs, <<>>, "closed")
    BY <1>5 DEF CloseRail
  <2>. QED
    BY <1>5, <2>1, <2>2, SilentNode, CloseRailKeeps
<1>. QED
  BY <1>1, <1>2, <1>3, <1>4, <1>5

LEMMA ToolsKeep ==
  ASSUME TypeOK, AloneInv, OrphanInv, NEW t \in Turns, TurnInv(t), NEW x \in Tools,
         StartTool(t, x) \/ ToolReturns(t, x) \/ ToolFails(t, x)
  PROVE  Kept(t) /\ AloneInv' /\ OrphanInv'
<1>1. CASE StartTool(t, x)
  <2>1. Kept(t)
    BY <1>1, StartToolKeeps
  <2>2. /\ InGraph(t) /\ NowInGraph(t) /\ thread' = thread /\ overlapped' = overlapped
        /\ mine'[t] = mine[t] /\ at'[t] = at[t]
    BY <1>1 DEF StartTool, InGraph, NowInGraph, Nodes
  <2>. QED
    BY <2>1, <2>2, RestsInGraph, RestingKeeps
<1>2. CASE ToolReturns(t, x)
  <2>1. Kept(t) /\ InGraph(t) /\ overlapped' = overlapped
    BY <1>2, ToolReturnsKeeps DEF ToolReturns, InGraph, Nodes
  <2>2. CASE waiting[t] = {} /\ running[t] = {x}
    <3>1. mine[t] \in Seq(Message) /\ mine[t] # <<>>
      BY <2>1 DEF TypeOK, TurnInv, LastInv, InGraph
    <3>. DEFINE calls == Last(mine[t]).calls
                m == Told(t, calls)
    <3>2. Last(mine[t]) \in Message
      BY <3>1, LastOf
    <3>3. calls \in SUBSET Tools
      BY <3>2 DEF Message
    <3>4. m.role = "tool" /\ m.calls = calls
      BY DEF Told
    <3>5. PICK fs : Node(t, fs, Results(t, calls), "model")
      BY <1>2, <2>2 DEF ToolReturns
    <3>. HIDE DEF calls
    <3>6. Results(t, calls) = <<m>> /\ m \in Message
      BY <3>3, ResultsType
    <3>. HIDE DEF m
    <3>7. m \in Message /\ Node(t, fs, <<m>>, "model") /\ "model" \in Nodes
      BY <3>5, <3>6 DEF Nodes
    <3>8. Saying(t)
      BY <2>1, <3>4, <3>7, SpeakingNode DEF calls
    <3>. QED
      BY <2>1, <3>8, SayingKeeps
  <2>3. CASE ~(waiting[t] = {} /\ running[t] = {x})
    <3>1. UNCHANGED <<thread, mine, at>>
      BY <1>2, <2>3 DEF ToolReturns
    <3>2. NowInGraph(t)
      BY <2>1, <3>1 DEF InGraph, NowInGraph
    <3>. QED
      BY <2>1, <3>1, <3>2, RestsInGraph, RestingKeeps
  <2>. QED
    BY <2>2, <2>3
<1>3. CASE ToolFails(t, x)
  <2>1. Kept(t)
    BY <1>3, ToolFailsKeeps
  <2>2. thread' = thread /\ overlapped' = overlapped /\ at'[t] = "failed"
    BY <1>3 DEF ToolFails, Leave, Goto, TypeOK
  <2>. QED
    BY <2>1, <2>2, RestsWhenLeft, RestingKeeps
<1>. QED
  BY <1>1, <1>2, <1>3

LEMMA OthersOfATurnKeep ==
  ASSUME TypeOK, AloneInv, OrphanInv, NEW t \in Turns, TurnInv(t),
         \/ StartModel(t) \/ ModelFails(t) \/ GiveUp(t)
         \/ Answer(t) \/ Fail(t) \/ Trace(t) \/ Drop(t)
  PROVE  Kept(t) /\ AloneInv' /\ OrphanInv'
<1>. SUFFICES Kept(t) /\ Resting
  BY RestingKeeps
<1>1. CASE StartModel(t)
  <2>1. Kept(t)
    BY <1>1, StartModelKeeps
  <2>2. /\ InGraph(t) /\ NowInGraph(t) /\ thread' = thread /\ overlapped' = overlapped
        /\ mine'[t] = mine[t] /\ at[t] # "tools"
    BY <1>1 DEF StartModel, InGraph, NowInGraph, Nodes, Goto, TypeOK
  <2>. QED
    BY <2>1, <2>2, RestsInGraph
<1>2. CASE ModelFails(t) \/ GiveUp(t) \/ Drop(t)
  <2>1. Kept(t)
    BY <1>2, ModelFailsKeeps, GiveUpKeeps, DropKeeps
  <2>2. thread' = thread /\ overlapped' = overlapped /\ at'[t] \in {"failed", "dropped"}
    BY <1>2 DEF ModelFails, GiveUp, Drop, Leave, Goto, TypeOK
  <2>. QED
    BY <2>1, <2>2, RestsWhenLeft
<1>3. CASE Answer(t)
  <2>1. Kept(t) /\ Answers(frames'[t]) = {Last(mine[t])}
    BY <1>3, AnswerKeeps
  <2>2. /\ thread' = thread /\ overlapped' = overlapped /\ at[t] = "closed"
        /\ at'[t] = "replied"
    BY <1>3 DEF Answer, Leave, Goto, TypeOK
  <2>3. Said(t)' \subseteq Said(t)
    BY <2>1, <2>2 DEF Said
  <2>4. ~NowInGraph(t) /\ ~InGraph(t) /\ (Excused(t) => NowExcused(t))
    BY <2>2 DEF InGraph, NowInGraph, Nodes, Excused, NowExcused
  <2>. QED
    BY <2>1, <2>2, <2>3, <2>4, Rests
<1>4. CASE Fail(t) \/ Trace(t)
  <2>1. Kept(t) /\ Answers(frames'[t]) = Answers(frames[t])
    BY <1>4, FailKeeps, TraceKeeps
  <2>2. /\ thread' = thread /\ overlapped' = overlapped
        /\ at[t] \in {"failed", "replied"} /\ at'[t] \in {"replied", "done"}
        /\ at[t] = "failed" => Answers(frames[t]) = {}
    BY <1>4 DEF Fail, Trace, Replied, Goto, TypeOK, TurnInv, AnswerInv
  <2>3. Said(t)' \subseteq Said(t)
    BY <2>1, <2>2 DEF Said
  <2>4. ~NowInGraph(t) /\ ~InGraph(t) /\ (Excused(t) => NowExcused(t))
    BY <2>1, <2>2 DEF InGraph, NowInGraph, Nodes, Excused, NowExcused
  <2>. QED
    BY <2>1, <2>2, <2>3, <2>4, Rests
<1>. QED
  BY <1>1, <1>2, <1>3, <1>4

LEMMA TurnInit == Init => IInv
<1>. SUFFICES ASSUME Init PROVE IInv
  OBVIOUS
<1>1. TypeOK
  <2>1. <<>> \in Seq(Message) /\ <<>> \in Seq(Frame) /\ "idle" \in Places
    BY DEF Places
  <2>. QED
    BY <2>1 DEF Init, TypeOK
<1>2. ASSUME NEW t \in Turns PROVE TurnInv(t)
  <2>1. at[t] = "idle" /\ frames[t] = <<>> /\ waiting[t] = {} /\ running[t] = {}
    BY DEF Init
  <2>2. RailInv(t) /\ BlockInv(t) /\ AnswerInv(t)
    BY <2>1, EmptyStream DEF RailInv, BlockInv, AnswerInv
  <2>3. QuestionInv(t) /\ LastInv(t)
    BY <2>1 DEF QuestionInv, LastInv, Nodes
  <2>4. CountInv(t)
    BY <2>1, EmptyStream, FS_EmptySet DEF CountInv
  <2>. QED
    BY <2>2, <2>3, <2>4 DEF TurnInv
<1>3. \A t \in Turns : ~InGraph(t) /\ Said(t) = {}
  BY EmptyStream DEF Init, InGraph, Nodes, Said
<1>4. Asking(thread) = {}
  <2>1. thread = <<>> /\ Len(<<>>) = 0 /\ 1..0 = {}
    BY DEF Init
  <2>. QED
    BY <2>1 DEF Asking
<1>. QED
  BY <1>1, <1>2, <1>3, <1>4 DEF IInv, AloneInv, OrphanInv

\* A step of turn t, of whatever kind, keeps what holds of the turn and of the conversation.
LEMMA TurnStepKeeps ==
  ASSUME TypeOK, AloneInv, OrphanInv, NEW t \in Turns, TurnInv(t),
         OpenTurn(t) \/ Advance(t) \/ Drop(t)
  PROVE  Kept(t) /\ AloneInv' /\ OrphanInv'
<1>1. CASE OpenTurn(t)
  BY <1>1, OpenTurnKeeps, OpeningKeeps
<1>2. CASE \E x \in Tools : StartTool(t, x) \/ ToolReturns(t, x) \/ ToolFails(t, x)
  BY <1>2, ToolsKeep
<1>3. CASE OpenRail(t) \/ ScreenInput(t) \/ ModelReturns(t) \/ ScreenOutput(t) \/ CloseRail(t)
  BY <1>3, NodesKeep
<1>4. CASE \/ StartModel(t) \/ ModelFails(t) \/ GiveUp(t)
           \/ Answer(t) \/ Fail(t) \/ Trace(t) \/ Drop(t)
  BY <1>4, OthersOfATurnKeep
<1>. QED
  BY <1>1, <1>2, <1>3, <1>4 DEF Advance

LEMMA TurnNext == IInv /\ [Next]_vars => IInv'
<1>. SUFFICES ASSUME IInv, [Next]_vars PROVE IInv'
  OBVIOUS
<1>0. TypeOK /\ AloneInv /\ OrphanInv /\ \A t \in Turns : TurnInv(t)
  BY DEF IInv
<1>1. CASE UNCHANGED vars
  <2>1. \A t \in Turns : Untouched(t) /\ mode' = mode
    BY <1>1 DEF vars, Untouched
  <2>2. \A t \in Turns : TurnInv(t)'
    BY <1>0, <2>1, OthersKeep
  <2>3. TypeOK'
    BY <1>0, <1>1 DEF TypeOK, vars
  <2>4. Resting
    <3>1. \A u \in Turns : /\ Said(u)' = Said(u) /\ (Excused(u) <=> NowExcused(u))
                           /\ InGraph(u) <=> NowInGraph(u)
      BY <1>1 DEF vars, Said, Excused, NowExcused, InGraph, NowInGraph
    <3>. QED
      BY <1>1, <3>1 DEF Resting, vars
  <2>5. AloneInv' /\ OrphanInv'
    BY <1>0, <2>4, RestingKeeps
  <2>. QED
    BY <2>2, <2>3, <2>5 DEF IInv
<1>2. CASE Next
  <2>1. PICK t \in Turns : OpenTurn(t) \/ Advance(t) \/ Drop(t)
    BY <1>2 DEF Next
  <2>2. Kept(t) /\ AloneInv' /\ OrphanInv'
    BY <1>0, <2>1, TurnStepKeeps
  <2>3. mode' = mode
    BY <2>1 DEF OpenTurn, Advance, Drop, OpenRail, ScreenInput, ModelReturns, ScreenOutput,
                CloseRail, StartModel, ModelFails, GiveUp, Answer, Fail, Trace, StartTool,
                ToolReturns, ToolFails, Leave
  <2>4. ASSUME NEW u \in Turns PROVE TurnInv(u)'
    <3>1. CASE u = t
      BY <2>2, <3>1 DEF Kept
    <3>2. CASE u # t
      BY <1>0, <2>2, <2>3, <3>2, OthersKeep DEF Kept, Others
    <3>. QED
      BY <3>1, <3>2
  <2>. QED
    BY <2>2, <2>4 DEF Kept, IInv
<1>. QED
  BY <1>1, <1>2

\* What each turn's stream, its run and the conversation have to do with each other,
\* at every node and await of the graph and of the runner.
THEOREM TurnInductive == Spec => []IInv
BY TurnInit, TurnNext, PTL DEF Spec

-----------------------------------------------------------------------------
(* What follows from it.                                                   *)

LEMMA BooksType ==
  ASSUME NEW fs \in Seq(Frame)
  PROVE  /\ ModelStarts(fs) \in Nat /\ ModelEnds(fs) \in Nat
         /\ ToolStarts(fs) \in Nat /\ ToolEnds(fs) \in Nat
<1>1. [event |-> "trace"] \in Frame
  BY OtherFrames
<1>. QED
  BY <1>1, Booked

\* A rail that has its end is whole.
LEMMA FinishedIsEnded ==
  ASSUME TypeOK, NEW t \in Turns, TurnInv(t), Finished(t)
  PROVE  \E n \in 1..Len(frames[t]) : Ended(frames[t], n)
<1>. DEFINE fs == frames[t]
            end == Len(fs)
<1>1. fs \in Seq(Frame) /\ Has(fs, finish) /\ end \in Nat
  BY LenProperties DEF Finished, finish, TypeOK
<1>2. ~Opened(fs, end) /\ fs # <<>>
  BY <1>1, NotFinished, EmptyStream
<1>3. ~Screened(fs, end)
  <2>1. finish.event = "stage" /\ finish.kind = "io"
    BY DEF finish, Stage
  <2>2. Screened(fs, end) => \A i \in 1..end : ~Settles(fs[i], "io")
    BY <1>1 DEF Screened, Opened, Settles, Working
  <2>3. Settles(finish, "io")
    BY DEF Settles, finish, Stage
  <2>. QED
    BY <1>1, <2>2, <2>3 DEF Has
<1>4. at[t] \in {"closed", "replied", "done"}
  BY <1>2, <1>3 DEF TypeOK, TurnInv, RailInv, Places, Nodes
<1>5. CASE at[t] = "closed"
  <2>1. Ended(fs, end) /\ end \in 1..end
    BY <1>1, <1>5 DEF TurnInv, RailInv, Ended
  <2>. QED
    BY <2>1
<1>. QED
  BY <1>4, <1>5 DEF TurnInv, RailInv

\* The rail of an ended stream, place by place.
LEMMA RailPlaces ==
  ASSUME NEW fs \in Seq(Frame), NEW n \in 1..Len(fs), Ended(fs, n)
  PROVE  /\ n >= 3 /\ n \in Nat /\ Rail(fs) \subseteq 1..n
         /\ 1 \in Rail(fs) /\ n - 1 \in Rail(fs) /\ n \in Rail(fs)
         /\ \A i \in Rail(fs) : /\ fs[i].kind = "guard_in" <=> i = 1
                                /\ fs[i].kind = "guard_out" <=> i = n - 1
                                /\ fs[i].kind = "io" <=> i = n
<1>0. Len(fs) \in Nat
  BY LenProperties
<1>1. /\ n \in 3..Len(fs) /\ n - 1 \in 2..Len(fs) /\ fs[n] = finish
      /\ Settles(fs[1], "guard_in") /\ Settles(fs[n - 1], "guard_out")
      /\ \A i \in 2..n - 2 : Working(fs[i])
      /\ \A i \in n + 1..Len(fs) : fs[i].event # "stage"
  BY <1>0 DEF Ended, Screened, Opened
<1>2. finish.event = "stage" /\ finish.kind = "io" /\ finish.status = "done"
  BY DEF finish, Stage
<1>3. 1 \in Rail(fs) /\ n - 1 \in Rail(fs) /\ n \in Rail(fs)
  BY <1>0, <1>1, <1>2 DEF Rail, Settles
<1>4. ASSUME NEW i \in Rail(fs) PROVE i \in 1..n
  BY <1>0, <1>1, <1>4 DEF Rail
<1>5. ASSUME NEW i \in Rail(fs)
      PROVE  /\ fs[i].kind = "guard_in" <=> i = 1
             /\ fs[i].kind = "guard_out" <=> i = n - 1
             /\ fs[i].kind = "io" <=> i = n
  <2>1. i = 1 \/ i \in 2..n - 2 \/ i = n - 1 \/ i = n
    BY <1>0, <1>1, <1>4, <1>5
  <2>2. CASE i = 1
    BY <1>0, <1>1, <2>2 DEF Settles
  <2>3. CASE i \in 2..n - 2
    BY <1>0, <1>1, <2>3 DEF Working
  <2>4. CASE i = n - 1
    BY <1>0, <1>1, <2>4 DEF Settles
  <2>5. CASE i = n
    BY <1>0, <1>1, <1>2, <2>5
  <2>. QED
    BY <2>1, <2>2, <2>3, <2>4, <2>5
<1>6. n >= 3 /\ n \in Nat
  BY <1>0, <1>1
<1>. QED
  BY <1>3, <1>4, <1>5, <1>6

LEMMA RailFollows == IInv => RailIsInOrder
<1>. SUFFICES ASSUME IInv, NEW t \in Turns, Finished(t), NEW i \in Rail(frames[t])
              PROVE  LET fs == frames[t] IN
                     /\ fs[i].kind = "guard_in" <=> \A j \in Rail(fs) : i <= j
                     /\ fs[i].kind = "guard_out" <=>
                          \E end \in Rail(fs) : {j \in Rail(fs) : j > i} = {end}
                     /\ fs[i].kind = "io" <=> \A j \in Rail(fs) : j <= i
  BY DEF RailIsInOrder
<1>. DEFINE fs == frames[t]
<1>1. TypeOK /\ TurnInv(t) /\ fs \in Seq(Frame)
  BY DEF IInv, TypeOK
<1>2. PICK n \in 1..Len(fs) : Ended(fs, n)
  BY <1>1, FinishedIsEnded
<1>3. /\ n >= 3 /\ n \in Nat /\ Rail(fs) \subseteq 1..n
      /\ 1 \in Rail(fs) /\ n - 1 \in Rail(fs) /\ n \in Rail(fs)
      /\ fs[i].kind = "guard_in" <=> i = 1
      /\ fs[i].kind = "guard_out" <=> i = n - 1
      /\ fs[i].kind = "io" <=> i = n
  BY <1>1, <1>2, RailPlaces
<1>. HIDE DEF fs
<1>4. i \in 1..n /\ i \in Rail(fs)
  BY <1>3 DEF fs
<1>5. (\A j \in Rail(fs) : i <= j) <=> i = 1
  BY <1>3, <1>4
<1>6. (\A j \in Rail(fs) : j <= i) <=> i = n
  BY <1>3, <1>4
<1>7. (\E end \in Rail(fs) : {j \in Rail(fs) : j > i} = {end}) <=> i = n - 1
  <2>. DEFINE after == {j \in Rail(fs) : j > i}
  <2>1. CASE i = n - 1
    <3>1. \A j \in Rail(fs) : j > i <=> j = n
      BY <1>3, <2>1
    <3>2. after = {n}
      BY <1>3, <3>1
    <3>. QED
      BY <1>3, <2>1, <3>2
  <2>2. CASE i = n
    <3>1. \A j \in Rail(fs) : ~(j > i)
      BY <1>3, <2>2
    <3>2. after = {}
      BY <3>1
    <3>. QED
      BY <1>3, <2>2, <3>2
  <2>3. CASE i # n - 1 /\ i # n
    <3>1. n - 1 \in after /\ n \in after /\ n - 1 # n
      BY <1>3, <1>4, <2>3
    <3>2. \A end : after # {end}
      BY <3>1
    <3>. QED
      BY <2>3, <3>2
  <2>. QED
    BY <2>1, <2>2, <2>3
<1>. QED
  BY <1>3, <1>5, <1>6, <1>7 DEF fs

LEMMA StartsFollow == IInv => StartsSettle
<1>. SUFFICES ASSUME IInv, NEW t \in Turns, at[t] \in {"closed", "failed", "replied", "done"}
              PROVE  /\ ModelStarts(frames[t]) = ModelEnds(frames[t])
                     /\ ToolsBlocked(frames[t]) = 0 => ToolStarts(frames[t]) = ToolEnds(frames[t])
  BY DEF StartsSettle, ModelStarts, ModelEnds, ToolStarts, ToolEnds, ToolsBlocked
<1>1. CountInv(t) /\ frames[t] \in Seq(Frame)
  BY DEF IInv, TurnInv, TypeOK
<1>2. /\ running[t] = {} /\ Cardinality({}) = 0
      /\ ModelStarts(frames[t]) = ModelEnds(frames[t]) + 0
      /\ ToolsBlocked(frames[t]) = 0 =>
           ToolStarts(frames[t]) = ToolEnds(frames[t]) + Cardinality(running[t])
  BY <1>1, FS_EmptySet DEF CountInv
<1>. QED
  BY <1>1, <1>2, BooksType

LEMMA AnswersFollow ==
  IInv => RefusedNeverRuns /\ AnswerIsScreened /\ BlockedMeansRefused
<1>. SUFFICES ASSUME IInv, NEW t \in Turns
              PROVE  /\ Has(frames[t], refused) =>
                          /\ ModelStarts(frames[t]) + ToolStarts(frames[t]) = 0
                          /\ \A m \in Answers(frames[t]) : m = Refusal(t, "guard_in")
                     /\ \A m \in Answers(frames[t]) :
                          /\ m.turn = t
                          /\ "guard_out" \in Mounted(mode) => m.text # "breach"
                          /\ Blocked(frames[t]) <=> m.text = "refusal"
  BY DEF RefusedNeverRuns, AnswerIsScreened, BlockedMeansRefused, refused, ModelStarts,
         ToolStarts
<1>1. BlockInv(t) /\ AnswerInv(t)
  BY DEF IInv, TurnInv
<1>2. Has(frames[t], refused) => ModelStarts(frames[t]) + ToolStarts(frames[t]) = 0
  BY <1>1 DEF BlockInv
<1>. QED
  BY <1>1, <1>2 DEF AnswerInv

LEMMA KeepingFollows == IInv => AnsweredIsKept
<1>. SUFFICES ASSUME IInv, NEW t \in Turns \ overlapped, NEW m \in Answers(frames[t])
              PROVE  Holds(thread, t, m)
  BY DEF AnsweredIsKept, Holds
<1>1. AnswerInv(t) /\ AloneInv
  BY DEF IInv, TurnInv
<1>2. m \in Said(t)
  BY <1>1 DEF AnswerInv, Said
<1>. QED
  BY <1>1, <1>2 DEF AloneInv

LEMMA OrphansFollow == IInv => OrphansHaveACause
<1>. SUFFICES ASSUME IInv, \A t \in Turns : ~InGraph(t), NEW i \in Asking(thread)
              PROVE  \/ Settled(thread, i)
                     \/ Answers(frames[thread[i].turn]) = {}
                     \/ thread[i].turn \in overlapped
  BY DEF OrphansHaveACause, Asking, Settled
<1>. DEFINE u == thread[i].turn
<1>1. u \in Turns
  BY AskingType DEF IInv, TypeOK
<1>2. Settled(thread, i) \/ Excused(u)
  BY <1>1 DEF IInv, OrphanInv
<1>3. AnswerInv(u)
  BY <1>1 DEF IInv, TurnInv
<1>. HIDE DEF u
<1>4. Excused(u) => Answers(frames[u]) = {} \/ u \in overlapped
  BY <1>3 DEF Excused, AnswerInv
<1>. QED
  BY <1>2, <1>4 DEF u

\* A turn, its run and its stream are of their types (ThreadState, Frame, the event models
\* of events.py).
THEOREM TurnTypes == Spec => []TypeOK
<1>1. IInv => TypeOK
  BY DEF IInv
<1>. QED
  BY <1>1, TurnInductive, PTL

\* The rail a turn closed accounts for both gates in their places, in all four modes
\* (TraceMiddleware, InputGuard and OutputGuard).
THEOREM InOrder == Spec => []RailIsInOrder
BY RailFollows, TurnInductive, PTL

\* Whatever a turn started on its rail it settled there by the time it ended, a model call
\* that raised and tools that ran beside each other included (awrap_model_call,
\* awrap_tool_call).
THEOREM Settling == Spec => []StartsSettle
BY StartsFollow, TurnInductive, PTL

\* No model and no tool ran in a turn the input gate refused (InputGuard.abefore_agent).
THEOREM Refusing == Spec => []RefusedNeverRuns
<1>1. IInv => RefusedNeverRuns
  BY AnswersFollow
<1>. QED
  BY <1>1, TurnInductive, PTL

\* No reply the output gate's check refuses is an answer, and an answer is of the turn
\* that gives it (OutputGuard.aafter_agent, final_message).
THEOREM Screening == Spec => []AnswerIsScreened
<1>1. IInv => AnswerIsScreened
  BY AnswersFollow
<1>. QED
  BY <1>1, TurnInductive, PTL

\* A rail shows a blocked cell exactly when the answer is a gate's (isBlocked).
THEOREM Marking == Spec => []BlockedMeansRefused
<1>1. IInv => BlockedMeansRefused
  BY AnswersFollow
<1>. QED
  BY <1>1, TurnInductive, PTL

\* What was answered in a turn nothing ran beside is in the conversation for good, through
\* every later turn, failed and dropped ones too.
THEOREM Keeping == Spec => []AnsweredIsKept
BY KeepingFollows, TurnInductive, PTL

\* A call left without its result has a failed, a dropped or an overlapped turn behind it.
THEOREM Orphans == Spec => []OrphansHaveACause
BY OrphansFollow, TurnInductive, PTL
-----------------------------------------------------------------------------
(* That a turn goes on.  A successor is written out for every place a turn *)
(* can be at: a step to it is a step of the turn, so the turn has one.     *)
(* And no step of a turn, of whatever kind, leaves it as far from its end  *)
(* as it was.                                                              *)

Begun(t) == at[t] \notin {"idle", "done", "dropped"}

\* A turn at its tools has one to start or to wait for, and its replies do not run out.
Going(t) ==
  /\ rounds[t] <= Len(Asks[t])
  /\ at[t] = "calling" => rounds[t] > 0
  /\ at[t] = "tools" => waiting[t] # {} \/ running[t] # {}

GoingInv == \A t \in Turns : Going(t)

\* The values a step of turn t gives the variables, by those it gives to t's own.
Values(t, saved, place, ms, toStart, toEnd, n, fs) ==
  <<mode, saved, [at EXCEPT ![t] = place], [mine EXCEPT ![t] = ms],
    [waiting EXCEPT ![t] = toStart], [running EXCEPT ![t] = toEnd],
    [rounds EXCEPT ![t] = n], [frames EXCEPT ![t] = fs], overlapped>>

AfterNode(t, fs, ms, next) ==
  Values(t, mine[t] \o ms, next, mine[t] \o ms, waiting[t], running[t], rounds[t],
         frames[t] \o fs)

AfterEmit(t, fs, place) ==
  Values(t, thread, place, mine[t], waiting[t], running[t], rounds[t], frames[t] \o fs)

AfterLeave(t, fs, place) == Values(t, thread, place, <<>>, {}, {}, 0, frames[t] \o fs)

AfterScreenInput(t) ==
  IF Breaches(mine[t])
    THEN AfterNode(t, <<Stage("guard_in", "guard_in", "blocked"), Stage("model", "model", "skip")>>,
                   <<Refusal(t, "guard_in")>>, JumpToEnd)
    ELSE AfterNode(t, <<Stage("guard_in", "guard_in", "done")>>, <<>>, "model")

AfterStartModel(t) ==
  Values(t, thread, "calling", mine[t], waiting[t], running[t], rounds[t] + 1,
         frames[t] \o <<Stage("model", "model", "start")>>)

AfterStartTool(t, x) ==
  Values(t, thread, "tools", mine[t], waiting[t] \ {x}, running[t] \cup {x}, rounds[t],
         frames[t] \o <<Stage("tool", x, "start")>>)

AfterToolReturns(t, x) ==
  LET last == running[t] = {x}
      ms == IF last THEN mine[t] \o Results(t, Last(mine[t]).calls) ELSE mine[t]
  IN  Values(t, IF last THEN ms ELSE thread, IF last THEN "model" ELSE "tools", ms,
             waiting[t], running[t] \ {x}, rounds[t], frames[t] \o <<Stage("tool", x, "done")>>)

AfterTools(t) ==
  IF waiting[t] # {} THEN AfterStartTool(t, CHOOSE x \in waiting[t] : TRUE)
                     ELSE AfterToolReturns(t, CHOOSE x \in running[t] : TRUE)

AfterScreenOutput(t) ==
  IF RefusedBy(mine[t]) = "guard_out" THEN AfterNode(t, <<>>, <<>>, "trace_out")
  ELSE IF RefusedBy(mine[t]) = "guard_in"
    THEN AfterNode(t, <<Stage("guard_out", "guard_out", "skip")>>, <<>>, "trace_out")
  ELSE IF Breaches(mine[t])
    THEN AfterNode(t, <<Stage("guard_out", "guard_out", "blocked")>>,
                   <<Refusal(t, "guard_out")>>, JumpToEnd)
    ELSE AfterNode(t, <<Stage("guard_out", "guard_out", "done")>>, <<>>, "trace_out")

\* How far a turn is from its end: the stretch of its way, the replies it may still ask
\* for, and what is left of the round it is in.
Stretch(t) ==
  IF at[t] = "guard_out" /\ RefusedBy(mine[t]) = "guard_out" THEN 4
  ELSE [idle |-> 9, trace_in |-> 8, guard_in |-> 7, model |-> 6, calling |-> 6, tools |-> 6,
        guard_out |-> 5, trace_out |-> 3, closed |-> 2, failed |-> 2, replied |-> 1,
        done |-> 0, dropped |-> 0][at[t]]

RepliesLeft(t) == Len(Asks[t]) - rounds[t]

RoundLeft(t) ==
  IF at[t] = "calling" THEN 2 * Cardinality(Tools) + 2
  ELSE IF at[t] = "tools" THEN 2 * Cardinality(waiting[t]) + Cardinality(running[t]) + 1
  ELSE 0

Distance(t) == <<Stretch(t), RepliesLeft(t), RoundLeft(t)>>

\* In the order of Nat \X Nat \X Nat that compares the first number, then the second and
\* then the third.
Below(d, e) ==
  \/ d[1] < e[1]
  \/ d[1] = e[1] /\ d[2] < e[2]
  \/ d[1] = e[1] /\ d[2] = e[2] /\ d[3] < e[3]

Nearer == \E t \in Turns : /\ Below(Distance(t)', Distance(t))
                           /\ \A u \in Turns \ {t} : Distance(u)' = Distance(u)

\* The stretches of the way, place by place.
LEMMA Stretches ==
  ASSUME NEW t \in Turns, at[t] \in Places
  PROVE  /\ Stretch(t) \in 0..9
         /\ at[t] \in {"model", "calling", "tools"} <=> Stretch(t) = 6
         /\ at[t] = "idle" <=> Stretch(t) = 9
         /\ at[t] = "trace_in" <=> Stretch(t) = 8
         /\ at[t] = "guard_in" <=> Stretch(t) = 7
         /\ at[t] = "guard_out" =>
              Stretch(t) = IF RefusedBy(mine[t]) = "guard_out" THEN 4 ELSE 5
         /\ at[t] = "trace_out" <=> Stretch(t) = 3
         /\ at[t] \in {"closed", "failed"} <=> Stretch(t) = 2
         /\ at[t] = "replied" <=> Stretch(t) = 1
         /\ at[t] \in {"done", "dropped"} <=> Stretch(t) = 0
BY DEF Stretch, Places, Nodes

LEMMA StretchesAfter ==
  ASSUME NEW t \in Turns, at'[t] \in Places
  PROVE  /\ Stretch(t)' \in 0..9
         /\ at'[t] \in {"model", "calling", "tools"} <=> Stretch(t)' = 6
         /\ at'[t] = "trace_in" <=> Stretch(t)' = 8
         /\ at'[t] = "guard_in" <=> Stretch(t)' = 7
         /\ at'[t] = "guard_out" =>
              Stretch(t)' = IF RefusedBy(mine'[t]) = "guard_out" THEN 4 ELSE 5
         /\ at'[t] = "trace_out" <=> Stretch(t)' = 3
         /\ at'[t] \in {"closed", "failed"} <=> Stretch(t)' = 2
         /\ at'[t] = "replied" <=> Stretch(t)' = 1
         /\ at'[t] \in {"done", "dropped"} <=> Stretch(t)' = 0
BY DEF Stretch, Places, Nodes, RefusedBy

\* What is left of a round is counted.
LEMMA RoundCounted ==
  ASSUME TypeOK, NEW t \in Turns
  PROVE  /\ Cardinality(Tools) \in Nat /\ Cardinality(waiting[t]) \in Nat
         /\ Cardinality(running[t]) \in Nat /\ RoundLeft(t) \in Nat
         /\ \A calls \in SUBSET Tools :
              Cardinality(calls) \in Nat /\ Cardinality(calls) <= Cardinality(Tools)
<1>1. IsFiniteSet(Tools)
  BY TurnAssumption
<1>2. \A calls \in SUBSET Tools :
        Cardinality(calls) \in Nat /\ Cardinality(calls) <= Cardinality(Tools)
  BY <1>1, FS_Subset, FS_CardinalityType
<1>3. waiting[t] \in SUBSET Tools /\ running[t] \in SUBSET Tools
  BY DEF TypeOK
<1>4. Cardinality(Tools) \in Nat
  BY <1>1, FS_CardinalityType
<1>5. Cardinality(waiting[t]) \in Nat /\ Cardinality(running[t]) \in Nat
  BY <1>2, <1>3
<1>. QED
  BY <1>2, <1>4, <1>5 DEF RoundLeft

LEMMA AsksType ==
  ASSUME TypeOK, NEW t \in Turns
  PROVE  Len(Asks[t]) \in Nat /\ Len(Asks[t]) > 0 /\ rounds[t] \in Nat
<1>1. Asks[t] \in Seq(Nat) /\ Asks[t] # <<>>
  BY TurnAssumption
<1>2. Len(Asks[t]) \in Nat /\ Len(Asks[t]) # 0
  BY <1>1, LenProperties, EmptySeq
<1>. QED
  BY <1>2 DEF TypeOK

\* A step to the next stretch of the way is one nearer to its end.
LEMMA NextStretch ==
  ASSUME NEW t, Stretch(t) \in Nat, Stretch(t)' \in Nat, Stretch(t)' < Stretch(t)
  PROVE  Below(Distance(t)', Distance(t))
BY DEF Below, Distance

Forth(t) ==
  /\ Going(t)' /\ Below(Distance(t)', Distance(t))
  /\ \A u \in Turns \ {t} : rounds'[u] = rounds[u]

LEMMA LeavesForth ==
  ASSUME TypeOK, NEW t \in Turns, NEW place \in {"failed", "replied", "dropped"},
         Leave(t, place), Stretch(t) > [failed |-> 2, replied |-> 1, dropped |-> 0][place]
  PROVE  Forth(t)
<1>1. place \in Places
  BY DEF Places
<1>2. /\ at'[t] = place /\ rounds'[t] = 0 /\ at' \in [Turns -> Places]
      /\ \A u \in Turns \ {t} : rounds'[u] = rounds[u]
  <2>1. at'[t] = place /\ at' \in [Turns -> Places]
    BY <1>1, LeaveEffect
  <2>. QED
    BY <2>1 DEF Leave, TypeOK
<1>3. Going(t)'
  BY <1>2, AsksType DEF Going
<1>4. at[t] \in Places /\ at'[t] \in Places
  BY <1>1, <1>2 DEF TypeOK
<1>5. Stretch(t) \in 0..9
  BY <1>4, Stretches
<1>6. Stretch(t)' = [failed |-> 2, replied |-> 1, dropped |-> 0][place]
  BY <1>2, <1>4, StretchesAfter
<1>. QED
  BY <1>2, <1>3, <1>5, <1>6, NextStretch DEF Forth

\* A node of the graph leads to a later stretch.
LEMMA NodeForth ==
  ASSUME TypeOK, NEW t \in Turns, at'[t] \in Places \ {"calling", "tools"},
         Stretch(t)' < Stretch(t), Going(t), UNCHANGED rounds
  PROVE  Forth(t)
<1>1. Stretch(t) \in 0..9 /\ Stretch(t)' \in 0..9
  <2>1. at[t] \in Places /\ at'[t] \in Places
    BY DEF TypeOK
  <2>. QED
    BY <2>1, Stretches, StretchesAfter
<1>2. Going(t)'
  BY DEF Going
<1>. QED
  BY <1>1, <1>2, NextStretch DEF Forth

LEMMA OpenTurnForth ==
  ASSUME TypeOK, NEW t \in Turns, Going(t), OpenTurn(t)
  PROVE  Forth(t)
<1>1. at[t] = "idle" /\ at'[t] = "trace_in" /\ UNCHANGED rounds
  BY DEF OpenTurn, Goto, TypeOK
<1>2. "idle" \in Places /\ "trace_in" \in Places \ {"calling", "tools"}
  BY DEF Places, Nodes
<1>3. Stretch(t) = 9 /\ Stretch(t)' = 8
  BY <1>1, <1>2, Stretches, StretchesAfter
<1>. QED
  BY <1>1, <1>2, <1>3, NodeForth

LEMMA OpenRailForth ==
  ASSUME TypeOK, NEW t \in Turns, Going(t), OpenRail(t)
  PROVE  Forth(t)
<1>1. at[t] = "trace_in" /\ at'[t] = Entry /\ UNCHANGED rounds
  BY DEF OpenRail, Node, Goto, TypeOK
<1>2. Entry \in {"guard_in", "model"}
  BY Dial DEF TypeOK
<1>3. at[t] \in Places /\ at'[t] \in Places \ {"calling", "tools"}
  BY <1>1, <1>2 DEF Places, Nodes
<1>4. Stretch(t) = 8 /\ Stretch(t)' \in {7, 6}
  BY <1>1, <1>2, <1>3, Stretches, StretchesAfter
<1>. QED
  BY <1>1, <1>3, <1>4, NodeForth

LEMMA ScreenInputForth ==
  ASSUME TypeOK, NEW t \in Turns, Going(t), ScreenInput(t)
  PROVE  Forth(t)
<1>1. at[t] = "guard_in" /\ at'[t] \in {Exit, "model"} /\ UNCHANGED rounds
  BY DEF ScreenInput, JumpToEnd, Node, Goto, TypeOK
<1>2. Exit \in {"guard_out", "trace_out"}
  BY Dial DEF TypeOK
<1>3. at[t] \in Places /\ at'[t] \in Places \ {"calling", "tools"}
  BY <1>1, <1>2 DEF Places, Nodes
<1>4. Stretch(t) = 7 /\ Stretch(t)' \in 3..6
  BY <1>1, <1>2, <1>3, Stretches, StretchesAfter
<1>. QED
  BY <1>1, <1>3, <1>4, NodeForth

LEMMA ScreenOutputForth ==
  ASSUME TypeOK, NEW t \in Turns, TurnInv(t), Going(t), ScreenOutput(t)
  PROVE  Forth(t)
<1>1. at[t] = "guard_out" /\ UNCHANGED rounds /\ mine[t] \in Seq(Message)
  BY DEF ScreenOutput, TypeOK
<1>2. Exit = "guard_out"
  BY <1>1 DEF TurnInv, LastInv, Exit
<1>3. \/ at'[t] = "trace_out"
      \/ /\ at'[t] = "guard_out" /\ RefusedBy(mine[t]) # "guard_out"
         /\ mine'[t] = mine[t] \o <<Refusal(t, "guard_out")>>
  <2>1. CASE RefusedBy(mine[t]) = "guard_out"
    BY <2>1 DEF ScreenOutput, Node, Goto, TypeOK
  <2>2. CASE RefusedBy(mine[t]) = "guard_in"
    BY <2>2 DEF ScreenOutput, Node, Goto, TypeOK
  <2>3. CASE RefusedBy(mine[t]) = "nobody" /\ Breaches(mine[t])
    BY <1>2, <2>3 DEF ScreenOutput, Node, Goto, JumpToEnd, TypeOK
  <2>4. CASE /\ RefusedBy(mine[t]) # "guard_out" /\ RefusedBy(mine[t]) # "guard_in"
             /\ ~(RefusedBy(mine[t]) = "nobody" /\ Breaches(mine[t]))
    BY <2>4 DEF ScreenOutput, Node, Goto, TypeOK
  <2>. QED
    BY <2>1, <2>2, <2>3, <2>4
<1>4. at[t] \in Places /\ at'[t] \in Places \ {"calling", "tools"}
  BY <1>1, <1>3 DEF Places, Nodes
<1>5. Stretch(t) = IF RefusedBy(mine[t]) = "guard_out" THEN 4 ELSE 5
  BY <1>1, <1>4, Stretches
<1>6. CASE at'[t] = "trace_out"
  <2>1. Stretch(t)' = 3
    BY <1>4, <1>6, StretchesAfter
  <2>. QED
    BY <1>1, <1>4, <1>5, <2>1, NodeForth
<1>7. CASE /\ at'[t] = "guard_out" /\ RefusedBy(mine[t]) # "guard_out"
           /\ mine'[t] = mine[t] \o <<Refusal(t, "guard_out")>>
  <2>1. Refusal(t, "guard_out") \in Message /\ Refusal(t, "guard_out").refused_by = "guard_out"
    BY Messages DEF Refusal, Gates
  <2>2. Last(mine[t] \o <<Refusal(t, "guard_out")>>) = Refusal(t, "guard_out")
    BY <1>1, <2>1, Added
  <2>3. RefusedBy(mine'[t]) = "guard_out"
    BY <1>7, <2>1, <2>2 DEF RefusedBy
  <2>4. Stretch(t)' = 4 /\ Stretch(t) = 5
    BY <1>4, <1>5, <1>7, <2>3, StretchesAfter
  <2>. QED
    BY <1>1, <1>4, <2>4, NodeForth
<1>. QED
  BY <1>3, <1>6, <1>7

LEMMA ClosingForth ==
  ASSUME TypeOK, NEW t \in Turns, Going(t), CloseRail(t) \/ Fail(t) \/ Trace(t)
  PROVE  Forth(t)
<1>1. /\ \/ at[t] = "trace_out" /\ at'[t] = "closed"
         \/ at[t] = "failed" /\ at'[t] = "replied"
         \/ at[t] = "replied" /\ at'[t] = "done"
      /\ UNCHANGED rounds
  BY DEF CloseRail, Fail, Trace, Replied, Node, Goto, TypeOK
<1>2. at[t] \in Places /\ at'[t] \in Places \ {"calling", "tools"}
  BY <1>1 DEF Places, Nodes
<1>3. Stretch(t)' < Stretch(t)
  BY <1>1, <1>2, Stretches, StretchesAfter
<1>. QED
  BY <1>1, <1>2, <1>3, NodeForth

LEMMA LeavingForth ==
  ASSUME TypeOK, NEW t \in Turns,
         \/ ModelFails(t) \/ GiveUp(t) \/ Answer(t) \/ Drop(t)
         \/ \E x \in Tools : ToolFails(t, x)
  PROVE  Forth(t)
<1>0. at[t] \in Places
  BY DEF TypeOK
<1>1. CASE ModelFails(t) \/ GiveUp(t) \/ \E x \in Tools : ToolFails(t, x)
  <2>1. Leave(t, "failed") /\ at[t] \in {"model", "calling", "tools"}
    BY <1>1 DEF ModelFails, GiveUp, ToolFails
  <2>2. Stretch(t) = 6
    BY <1>0, <2>1, Stretches
  <2>. QED
    BY <2>1, <2>2, LeavesForth
<1>2. CASE Answer(t)
  <2>1. Leave(t, "replied") /\ at[t] = "closed"
    BY <1>2 DEF Answer
  <2>2. Stretch(t) = 2
    BY <1>0, <2>1, Stretches
  <2>. QED
    BY <2>1, <2>2, LeavesForth
<1>3. CASE Drop(t)
  <2>1. Leave(t, "dropped") /\ at[t] \notin {"done", "dropped"}
    BY <1>3 DEF Drop
  <2>2. Stretch(t) \in 1..9
    BY <1>0, <2>1, Stretches
  <2>. QED
    BY <2>1, <2>2, LeavesForth
<1>. QED
  BY <1>1, <1>2, <1>3

\* In a round of the model and its tools the stretch is the same, and less is left of it.
LEMMA RoundForth ==
  ASSUME TypeOK, NEW t \in Turns, at[t] \in {"model", "calling", "tools"}, at'[t] \in Places,
         rounds' \in [Turns -> Nat], Going(t)',
         \A u \in Turns \ {t} : rounds'[u] = rounds[u],
         at'[t] \in {"model", "calling", "tools"} =>
           \/ rounds'[t] = rounds[t] + 1
           \/ rounds'[t] = rounds[t] /\ RoundLeft(t)' < RoundLeft(t)
  PROVE  at'[t] \in {"model", "calling", "tools"} => Forth(t)
<1>. SUFFICES ASSUME at'[t] \in {"model", "calling", "tools"} PROVE Forth(t)
  OBVIOUS
<1>1. Stretch(t) = 6 /\ Stretch(t)' = 6
  <2>1. at[t] \in Places
    BY DEF TypeOK
  <2>. QED
    BY <2>1, Stretches, StretchesAfter
<1>2. CASE rounds'[t] = rounds[t] + 1
  <2>1. RepliesLeft(t)' < RepliesLeft(t)
    BY <1>2, AsksType DEF RepliesLeft
  <2>. QED
    BY <1>1, <2>1 DEF Forth, Below, Distance
<1>3. CASE rounds'[t] = rounds[t] /\ RoundLeft(t)' < RoundLeft(t)
  <2>1. RepliesLeft(t)' = RepliesLeft(t)
    BY <1>3 DEF RepliesLeft
  <2>. QED
    BY <1>1, <1>3, <2>1 DEF Forth, Below, Distance
<1>. QED
  BY <1>2, <1>3

LEMMA StartModelForth ==
  ASSUME TypeOK, NEW t \in Turns, Going(t), StartModel(t)
  PROVE  Forth(t)
<1>1. /\ at[t] = "model" /\ at'[t] = "calling" /\ rounds[t] < Len(Asks[t])
      /\ rounds' = [rounds EXCEPT ![t] = @ + 1]
  BY DEF StartModel, Goto, TypeOK
<1>2. /\ rounds' \in [Turns -> Nat] /\ rounds'[t] = rounds[t] + 1
      /\ \A u \in Turns \ {t} : rounds'[u] = rounds[u]
  BY <1>1 DEF TypeOK
<1>3. Going(t)'
  BY <1>1, <1>2, AsksType DEF Going
<1>4. at'[t] \in Places
  BY <1>1 DEF Places
<1>. QED
  BY <1>1, <1>2, <1>3, <1>4, RoundForth

LEMMA ModelReturnsForth ==
  ASSUME TypeOK, NEW t \in Turns, TurnInv(t), Going(t), ModelReturns(t)
  PROVE  Forth(t)
<1>1. PICK calls \in SUBSET Tools :
        /\ Goto(t, IF calls = {} THEN Exit ELSE "tools")
        /\ waiting' = [waiting EXCEPT ![t] = calls]
  BY DEF ModelReturns, Node
<1>2. at[t] = "calling" /\ UNCHANGED <<running, rounds>> /\ waiting'[t] = calls
  BY <1>1 DEF ModelReturns, TypeOK
<1>3. CASE calls = {}
  <2>1. at'[t] = Exit /\ Exit \in {"guard_out", "trace_out"}
    BY <1>1, <1>3, Dial DEF Goto, TypeOK
  <2>2. at[t] \in Places /\ at'[t] \in Places \ {"calling", "tools"}
    BY <1>2, <2>1 DEF Places, Nodes
  <2>3. Stretch(t) = 6 /\ Stretch(t)' \in 3..5
    BY <1>2, <2>1, <2>2, Stretches, StretchesAfter
  <2>. QED
    BY <1>2, <2>2, <2>3, NodeForth
<1>4. CASE calls # {}
  <2>1. at'[t] = "tools" /\ "tools" \in Places
    BY <1>1, <1>4 DEF Goto, TypeOK, Places, Nodes
  <2>2. running[t] = {}
    BY <1>2 DEF TurnInv, CountInv
  <2>3. Cardinality(running'[t]) = 0
    BY <1>2, <2>2, FS_EmptySet
  <2>4. RoundLeft(t) = 2 * Cardinality(Tools) + 2
    BY <1>2 DEF RoundLeft
  <2>5. RoundLeft(t)' = 2 * Cardinality(calls) + 0 + 1
    BY <1>2, <2>1, <2>3 DEF RoundLeft
  <2>6. RoundLeft(t)' < RoundLeft(t)
    BY <2>4, <2>5, RoundCounted
  <2>7. Going(t)' /\ rounds' \in [Turns -> Nat] /\ rounds'[t] = rounds[t]
    BY <1>2, <1>4, <2>1 DEF Going, TypeOK
  <2>. QED
    BY <1>2, <2>1, <2>6, <2>7, RoundForth
<1>. QED
  BY <1>3, <1>4

LEMMA StartToolForth ==
  ASSUME TypeOK, NEW t \in Turns, TurnInv(t), Going(t), NEW x \in Tools, StartTool(t, x)
  PROVE  Forth(t)
<1>1. /\ at[t] = "tools" /\ x \in waiting[t] /\ UNCHANGED <<at, rounds>>
      /\ waiting'[t] = waiting[t] \ {x} /\ running'[t] = running[t] \cup {x}
  BY DEF StartTool, TypeOK
<1>2. x \notin running[t]
  BY <1>1 DEF TurnInv, CountInv
<1>3. Cardinality(running'[t]) = Cardinality(running[t]) + 1
  BY <1>1, <1>2, RunningCounted
<1>4. Cardinality(waiting'[t]) = Cardinality(waiting[t]) - 1
  <2>1. IsFiniteSet(waiting[t])
    BY TurnAssumption, FS_Subset DEF TypeOK
  <2>. QED
    BY <1>1, <2>1, FS_RemoveElement
<1>5. RoundLeft(t)' < RoundLeft(t)
  BY <1>1, <1>3, <1>4, RoundCounted DEF RoundLeft
<1>6. Going(t)' /\ at'[t] \in Places /\ rounds' \in [Turns -> Nat]
  BY <1>1 DEF Going, TypeOK
<1>. QED
  BY <1>1, <1>5, <1>6, RoundForth

LEMMA ToolReturnsForth ==
  ASSUME TypeOK, NEW t \in Turns, Going(t), NEW x \in Tools, ToolReturns(t, x)
  PROVE  Forth(t)
<1>1. /\ at[t] = "tools" /\ x \in running[t] /\ UNCHANGED <<waiting, rounds>>
      /\ running'[t] = running[t] \ {x}
      /\ \/ waiting[t] = {} /\ running[t] = {x} /\ at'[t] = "model"
         \/ ~(waiting[t] = {} /\ running[t] = {x}) /\ at'[t] = "tools"
  BY DEF ToolReturns, Node, Goto, TypeOK
<1>2. Cardinality(running'[t]) = Cardinality(running[t]) - 1
  BY <1>1, RunningCounted
<1>3. RoundLeft(t)' < RoundLeft(t)
  BY <1>1, <1>2, RoundCounted DEF RoundLeft
<1>4. Going(t)'
  BY <1>1 DEF Going
<1>5. at'[t] \in Places /\ rounds' \in [Turns -> Nat]
  BY <1>1 DEF TypeOK, Places, Nodes
<1>. QED
  BY <1>1, <1>3, <1>4, <1>5, RoundForth

LEMMA StepForth ==
  ASSUME TypeOK, NEW t \in Turns, TurnInv(t), Going(t), OpenTurn(t) \/ Advance(t) \/ Drop(t)
  PROVE  Forth(t)
<1>1. CASE \E x \in Tools : StartTool(t, x) \/ ToolReturns(t, x)
  BY <1>1, StartToolForth, ToolReturnsForth
<1>2. CASE \/ ModelFails(t) \/ GiveUp(t) \/ Answer(t) \/ Drop(t)
           \/ \E x \in Tools : ToolFails(t, x)
  BY <1>2, LeavingForth
<1>3. CASE StartModel(t) \/ ModelReturns(t)
  BY <1>3, StartModelForth, ModelReturnsForth
<1>4. CASE OpenTurn(t) \/ OpenRail(t) \/ ScreenInput(t) \/ ScreenOutput(t)
  BY <1>4, OpenTurnForth, OpenRailForth, ScreenInputForth, ScreenOutputForth
<1>5. CASE CloseRail(t) \/ Fail(t) \/ Trace(t)
  BY <1>5, ClosingForth
<1>. QED
  BY <1>1, <1>2, <1>3, <1>4, <1>5 DEF Advance

LEMMA GoingNext ==
  ASSUME IInv, GoingInv, NEW t \in Turns, OpenTurn(t) \/ Advance(t) \/ Drop(t)
  PROVE  GoingInv' /\ Nearer
<1>1. TypeOK /\ TurnInv(t) /\ Going(t) /\ AloneInv /\ OrphanInv
  BY DEF IInv, GoingInv
<1>2. Forth(t) /\ Kept(t)
  BY <1>1, StepForth, TurnStepKeeps
<1>3. ASSUME NEW u \in Turns \ {t} PROVE Going(u)' /\ Distance(u)' = Distance(u)
  <2>1. /\ at'[u] = at[u] /\ mine'[u] = mine[u] /\ waiting'[u] = waiting[u]
        /\ running'[u] = running[u] /\ rounds'[u] = rounds[u]
    BY <1>2 DEF Forth, Kept, Others, Untouched
  <2>2. Going(u)'
    BY <2>1 DEF GoingInv, Going
  <2>3. Stretch(u)' = Stretch(u)
    BY <2>1 DEF Stretch, RefusedBy, Last
  <2>4. RepliesLeft(u)' = RepliesLeft(u) /\ RoundLeft(u)' = RoundLeft(u)
    BY <2>1 DEF RepliesLeft, RoundLeft
  <2>. QED
    BY <2>2, <2>3, <2>4 DEF Distance
<1>. QED
  BY <1>2, <1>3 DEF GoingInv, Nearer, Forth

\* A turn at its tools has one to wait for and its replies are counted: what a turn needs
\* to have a next step (ToolNode's gather, the recursion limit).
THEOREM TurnsGoOn == Spec => []GoingInv
<1>1. Init => GoingInv
  <2>. SUFFICES ASSUME Init, NEW t \in Turns PROVE Going(t)
    BY DEF GoingInv
  <2>1. TypeOK
    BY TurnInit DEF IInv
  <2>. QED
    BY <2>1, AsksType DEF Init, Going
<1>2. IInv /\ GoingInv /\ [Next]_vars => GoingInv'
  <2>1. CASE UNCHANGED vars
    BY <2>1 DEF GoingInv, Going, vars
  <2>2. CASE Next
    BY <2>2, GoingNext DEF Next
  <2>. QED
    BY <2>1, <2>2
<1>. QED
  BY <1>1, <1>2, TurnInductive, PTL DEF Spec

\* Nothing makes a turn go round for ever: each step of a run takes one turn nearer to its
\* end - its stretch of the way, the replies it may still ask for, what is left of the
\* round - and leaves the others where they are.
THEOREM TurnsEnd == Spec => [][Nearer]_vars
<1>1. IInv /\ GoingInv /\ [Next]_vars => [Nearer]_vars
  BY GoingNext DEF Next
<1>. QED
  BY <1>1, TurnInductive, TurnsGoOn, PTL DEF Spec

\* And those are distances: three natural numbers, so the way down is finite.
THEOREM DistanceIsNatural == Spec => [](\A t \in Turns : Distance(t) \in Nat \X Nat \X Nat)
<1>1. IInv /\ GoingInv => \A t \in Turns : Distance(t) \in Nat \X Nat \X Nat
  <2>. SUFFICES ASSUME TypeOK, GoingInv, NEW t \in Turns
                PROVE  Distance(t) \in Nat \X Nat \X Nat
    BY DEF IInv
  <2>1. at[t] \in Places
    BY DEF TypeOK
  <2>2. Stretch(t) \in 0..9
    BY <2>1, Stretches
  <2>3. RepliesLeft(t) \in Nat
    BY AsksType DEF GoingInv, Going, RepliesLeft
  <2>4. RoundLeft(t) \in Nat
    BY RoundCounted
  <2>. QED
    BY <2>2, <2>3, <2>4 DEF Distance
<1>. QED
  BY <1>1, TurnInductive, TurnsGoOn, PTL

LEMMA SameValue ==
  ASSUME NEW S, NEW f \in [Turns -> S], NEW t \in Turns
  PROVE  [f EXCEPT ![t] = f[t]] = f
OBVIOUS

LEMMA AfterNodeIsNode ==
  ASSUME TypeOK, NEW t \in Turns, NEW fs, NEW ms, NEW next,
         vars' = AfterNode(t, fs, ms, next)
  PROVE  Node(t, fs, ms, next) /\ UNCHANGED <<mode, overlapped, tooling, rounds>>
<1>1. /\ mode' = mode /\ overlapped' = overlapped /\ thread' = mine[t] \o ms
      /\ at' = [at EXCEPT ![t] = next] /\ mine' = [mine EXCEPT ![t] = mine[t] \o ms]
      /\ waiting' = [waiting EXCEPT ![t] = waiting[t]]
      /\ running' = [running EXCEPT ![t] = running[t]]
      /\ rounds' = [rounds EXCEPT ![t] = rounds[t]]
      /\ frames' = [frames EXCEPT ![t] = frames[t] \o fs]
  BY DEF AfterNode, Values, vars
<1>2. waiting' = waiting /\ running' = running /\ rounds' = rounds
  BY <1>1, SameValue DEF TypeOK
<1>. QED
  BY <1>1, <1>2 DEF Node, Emit, Goto, tooling

LEMMA AfterEmitIsEmit ==
  ASSUME TypeOK, NEW t \in Turns, NEW fs, NEW place, vars' = AfterEmit(t, fs, place)
  PROVE  /\ Emit(t, fs) /\ Goto(t, place)
         /\ UNCHANGED <<mode, overlapped, thread, mine, tooling, rounds>>
<1>1. /\ mode' = mode /\ overlapped' = overlapped /\ thread' = thread
      /\ at' = [at EXCEPT ![t] = place] /\ mine' = [mine EXCEPT ![t] = mine[t]]
      /\ waiting' = [waiting EXCEPT ![t] = waiting[t]]
      /\ running' = [running EXCEPT ![t] = running[t]]
      /\ rounds' = [rounds EXCEPT ![t] = rounds[t]]
      /\ frames' = [frames EXCEPT ![t] = frames[t] \o fs]
  BY DEF AfterEmit, Values, vars
<1>2. waiting' = waiting /\ running' = running /\ rounds' = rounds /\ mine' = mine
  BY <1>1, SameValue DEF TypeOK
<1>. QED
  BY <1>1, <1>2 DEF Emit, Goto, tooling

LEMMA AfterLeaveIsLeave ==
  ASSUME TypeOK, NEW t \in Turns, NEW fs, NEW place, vars' = AfterLeave(t, fs, place)
  PROVE  Emit(t, fs) /\ Leave(t, place)
BY DEF AfterLeave, Values, vars, Emit, Goto, Leave

\* From every place a turn can be at until it is over there is a step: whoever gives the
\* variables the values written there, which nothing keeps him from, takes a step of that
\* turn.  In it what the turn awaits comes back and nothing fails, but for a model that
\* asked for tools as often as it may (run_turn, trace.py and guards.py at every await).
THEOREM Onward ==
  ASSUME IInv, GoingInv, NEW t \in Turns, Begun(t)
  PROVE
    /\ at[t] \in {"trace_in", "guard_in", "model", "calling", "tools", "guard_out",
                  "trace_out", "closed", "failed", "replied"}
    /\ at[t] = "trace_in" /\ vars' = AfterNode(t, Skips("guard_in"), <<>>, Entry)
         => OpenRail(t)
    /\ at[t] = "guard_in" /\ vars' = AfterScreenInput(t) => ScreenInput(t)
    /\ at[t] = "model" /\ rounds[t] < Len(Asks[t]) /\ vars' = AfterStartModel(t)
         => StartModel(t)
    /\ at[t] = "model" /\ rounds[t] = Len(Asks[t]) /\ vars' = AfterLeave(t, <<>>, "failed")
         => GiveUp(t)
    /\ at[t] = "model" => rounds[t] < Len(Asks[t]) \/ rounds[t] = Len(Asks[t])
    /\ at[t] = "calling" /\ vars' = AfterNode(t, <<Stage("model", ModelRole({}), "done")>>,
                                              <<Reply(t, "fine", {})>>, Exit)
         => ModelReturns(t)
    /\ at[t] = "tools" /\ vars' = AfterTools(t)
         => \E x \in Tools : StartTool(t, x) \/ ToolReturns(t, x)
    /\ at[t] = "guard_out" /\ vars' = AfterScreenOutput(t) => ScreenOutput(t)
    /\ at[t] = "trace_out" /\ vars' = AfterNode(t, Append(Skips("guard_out"), finish), <<>>, "closed")
         => CloseRail(t)
    /\ at[t] = "closed"
         /\ vars' = AfterLeave(t, <<[event |-> "turn", answer |-> FinalMessage(mine[t])]>>, "replied")
         => Answer(t)
    /\ at[t] = "failed" /\ vars' = AfterEmit(t, <<[event |-> "error"]>>, "replied") => Fail(t)
    /\ at[t] = "replied" /\ vars' = AfterEmit(t, <<[event |-> "trace"]>>, "done") => Trace(t)
<1>0. TypeOK /\ TurnInv(t) /\ Going(t)
  BY DEF IInv, GoingInv
<1>1. at[t] \in {"trace_in", "guard_in", "model", "calling", "tools", "guard_out",
                 "trace_out", "closed", "failed", "replied"}
  BY <1>0 DEF TypeOK, Begun, Places, Nodes
<1>2. ASSUME at[t] = "trace_in", vars' = AfterNode(t, Skips("guard_in"), <<>>, Entry)
      PROVE  OpenRail(t)
  BY <1>0, <1>2, AfterNodeIsNode DEF OpenRail
<1>3. ASSUME at[t] = "guard_in", vars' = AfterScreenInput(t)
      PROVE  ScreenInput(t)
  BY <1>0, <1>3, AfterNodeIsNode DEF ScreenInput, AfterScreenInput
<1>4. ASSUME at[t] = "model", rounds[t] < Len(Asks[t]), vars' = AfterStartModel(t)
      PROVE  StartModel(t)
  <2>1. /\ mode' = mode /\ overlapped' = overlapped /\ thread' = thread
        /\ at' = [at EXCEPT ![t] = "calling"] /\ mine' = [mine EXCEPT ![t] = mine[t]]
        /\ waiting' = [waiting EXCEPT ![t] = waiting[t]]
        /\ running' = [running EXCEPT ![t] = running[t]]
        /\ rounds' = [rounds EXCEPT ![t] = rounds[t] + 1]
        /\ frames' = [frames EXCEPT ![t] = frames[t] \o <<Stage("model", "model", "start")>>]
    BY <1>4 DEF AfterStartModel, Values, vars
  <2>2. waiting' = waiting /\ running' = running /\ mine' = mine
    BY <1>0, <2>1, SameValue DEF TypeOK
  <2>. QED
    BY <1>4, <2>1, <2>2 DEF StartModel, Emit, Goto, tooling
<1>5. ASSUME at[t] = "model", rounds[t] = Len(Asks[t]), vars' = AfterLeave(t, <<>>, "failed")
      PROVE  GiveUp(t)
  <2>1. Emit(t, <<>>) /\ Leave(t, "failed") /\ rounds[t] > 0
    BY <1>0, <1>5, AfterLeaveIsLeave, AsksType
  <2>2. frames[t] \o <<>> = frames[t]
    BY <1>0, NothingAdded DEF TypeOK
  <2>3. frames' = frames
    BY <1>0, <2>1, <2>2, SameValue DEF Emit, TypeOK
  <2>. QED
    BY <1>5, <2>1, <2>3 DEF GiveUp
<1>6. at[t] = "model" => rounds[t] < Len(Asks[t]) \/ rounds[t] = Len(Asks[t])
  BY <1>0, AsksType DEF Going
<1>7. ASSUME at[t] = "calling",
             vars' = AfterNode(t, <<Stage("model", ModelRole({}), "done")>>,
                               <<Reply(t, "fine", {})>>, Exit)
      PROVE  ModelReturns(t)
  <2>1. /\ Node(t, <<Stage("model", ModelRole({}), "done")>>, <<Reply(t, "fine", {})>>, Exit)
        /\ UNCHANGED <<mode, overlapped, tooling, rounds>>
    BY <1>0, <1>7, AfterNodeIsNode
  <2>2. waiting[t] = {} /\ waiting' = [waiting EXCEPT ![t] = {}]
    <3>1. waiting[t] = {}
      BY <1>0, <1>7 DEF TurnInv, CountInv
    <3>. QED
      BY <1>0, <2>1, <3>1, SameValue DEF TypeOK, tooling
  <2>3. Cardinality({}) <= Asks[t][rounds[t]]
    <3>1. rounds[t] \in 1..Len(Asks[t])
      BY <1>0, <1>7, AsksType DEF Going
    <3>2. Asks[t] \in Seq(Nat)
      BY TurnAssumption
    <3>3. Asks[t][rounds[t]] \in Nat
      BY <3>1, <3>2, ElementOfSeq
    <3>. QED
      BY <3>3, FS_EmptySet
  <2>4. {} \in {c \in SUBSET Tools : Cardinality(c) <= Asks[t][rounds[t]]}
    BY <2>3
  <2>. QED
    BY <1>7, <2>1, <2>2, <2>4 DEF ModelReturns, tooling
<1>8. ASSUME at[t] = "tools", vars' = AfterTools(t)
      PROVE  \E x \in Tools : StartTool(t, x) \/ ToolReturns(t, x)
  <2>1. waiting[t] \in SUBSET Tools /\ running[t] \in SUBSET Tools
    BY <1>0 DEF TypeOK
  <2>2. CASE waiting[t] # {}
    <3>1. PICK x \in waiting[t] : vars' = AfterStartTool(t, x)
      BY <1>8, <2>2 DEF AfterTools
    <3>2. /\ mode' = mode /\ overlapped' = overlapped /\ thread' = thread
          /\ at' = [at EXCEPT ![t] = at[t]] /\ mine' = [mine EXCEPT ![t] = mine[t]]
          /\ waiting' = [waiting EXCEPT ![t] = @ \ {x}]
          /\ running' = [running EXCEPT ![t] = @ \cup {x}]
          /\ rounds' = [rounds EXCEPT ![t] = rounds[t]]
          /\ frames' = [frames EXCEPT ![t] = frames[t] \o <<Stage("tool", x, "start")>>]
      BY <1>8, <3>1 DEF AfterStartTool, Values, vars
    <3>3. at' = at /\ mine' = mine /\ rounds' = rounds
      BY <1>0, <3>2, SameValue DEF TypeOK
    <3>. QED
      BY <1>8, <2>1, <3>2, <3>3 DEF StartTool, Emit
  <2>3. CASE waiting[t] = {}
    <3>1. running[t] # {}
      BY <1>0, <1>8, <2>3 DEF Going
    <3>2. PICK x \in running[t] : vars' = AfterToolReturns(t, x)
      BY <1>8, <2>3, <3>1 DEF AfterTools
    <3>3. CASE running[t] = {x}
      <4>1. /\ mode' = mode /\ overlapped' = overlapped
            /\ thread' = mine[t] \o Results(t, Last(mine[t]).calls)
            /\ mine' = [mine EXCEPT ![t] = @ \o Results(t, Last(mine[t]).calls)]
            /\ at' = [at EXCEPT ![t] = "model"]
            /\ waiting' = [waiting EXCEPT ![t] = waiting[t]]
            /\ running' = [running EXCEPT ![t] = @ \ {x}]
            /\ rounds' = [rounds EXCEPT ![t] = rounds[t]]
            /\ frames' = [frames EXCEPT ![t] = frames[t] \o <<Stage("tool", x, "done")>>]
        BY <3>2, <3>3 DEF AfterToolReturns, Values, vars
      <4>2. waiting' = waiting /\ rounds' = rounds
        BY <1>0, <4>1, SameValue DEF TypeOK
      <4>. QED
        BY <1>8, <2>1, <2>3, <3>3, <4>1, <4>2 DEF ToolReturns, Node, Emit, Goto
    <3>4. CASE running[t] # {x}
      <4>1. /\ mode' = mode /\ overlapped' = overlapped /\ thread' = thread
            /\ mine' = [mine EXCEPT ![t] = mine[t]] /\ at' = [at EXCEPT ![t] = at[t]]
            /\ waiting' = [waiting EXCEPT ![t] = waiting[t]]
            /\ running' = [running EXCEPT ![t] = @ \ {x}]
            /\ rounds' = [rounds EXCEPT ![t] = rounds[t]]
            /\ frames' = [frames EXCEPT ![t] = frames[t] \o <<Stage("tool", x, "done")>>]
        BY <1>8, <3>2, <3>4 DEF AfterToolReturns, Values, vars
      <4>2. waiting' = waiting /\ rounds' = rounds /\ mine' = mine /\ at' = at
        BY <1>0, <4>1, SameValue DEF TypeOK
      <4>. QED
        BY <1>8, <2>1, <3>4, <4>1, <4>2 DEF ToolReturns, Emit
    <3>. QED
      BY <3>3, <3>4
  <2>. QED
    BY <2>2, <2>3
<1>9. ASSUME at[t] = "guard_out", vars' = AfterScreenOutput(t)
      PROVE  ScreenOutput(t)
  <2>1. RefusedBy(mine[t]) \in Gates \cup {"nobody"}
    <3>1. mine[t] # <<>> /\ mine[t] \in Seq(Message)
      BY <1>0, <1>9 DEF TurnInv, LastInv, Nodes, TypeOK
    <3>2. Last(mine[t]) \in Message
      BY <3>1, LastOf
    <3>. QED
      BY <3>2 DEF RefusedBy, Message
  <2>2. CASE RefusedBy(mine[t]) = "guard_out"
    BY <1>0, <1>9, <2>2, AfterNodeIsNode DEF ScreenOutput, AfterScreenOutput
  <2>3. CASE RefusedBy(mine[t]) = "guard_in"
    BY <1>0, <1>9, <2>3, AfterNodeIsNode DEF ScreenOutput, AfterScreenOutput
  <2>4. CASE RefusedBy(mine[t]) = "nobody" /\ Breaches(mine[t])
    BY <1>0, <1>9, <2>4, AfterNodeIsNode DEF ScreenOutput, AfterScreenOutput
  <2>5. CASE RefusedBy(mine[t]) = "nobody" /\ ~Breaches(mine[t])
    BY <1>0, <1>9, <2>5, AfterNodeIsNode DEF ScreenOutput, AfterScreenOutput
  <2>. QED
    BY <2>1, <2>2, <2>3, <2>4, <2>5 DEF Gates
<1>10. ASSUME at[t] = "trace_out",
              vars' = AfterNode(t, Append(Skips("guard_out"), finish), <<>>, "closed")
       PROVE  CloseRail(t)
  BY <1>0, <1>10, AfterNodeIsNode DEF CloseRail, finish
<1>11. ASSUME at[t] = "closed",
              vars' = AfterLeave(t, <<[event |-> "turn", answer |-> FinalMessage(mine[t])]>>,
                                 "replied")
       PROVE  Answer(t)
  BY <1>0, <1>11, AfterLeaveIsLeave DEF Answer
<1>12. ASSUME at[t] = "failed", vars' = AfterEmit(t, <<[event |-> "error"]>>, "replied")
       PROVE  Fail(t)
  BY <1>0, <1>12, AfterEmitIsEmit DEF Fail
<1>13. ASSUME at[t] = "replied", vars' = AfterEmit(t, <<[event |-> "trace"]>>, "done")
       PROVE  Trace(t)
  BY <1>0, <1>13, AfterEmitIsEmit DEF Trace, Replied
<1>. QED
  BY <1>1, <1>2, <1>3, <1>4, <1>5, <1>6, <1>7, <1>8, <1>9, <1>10, <1>11, <1>12, <1>13
=============================================================================
