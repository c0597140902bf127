----------------------------- MODULE PageProofs -----------------------------
(***************************************************************************)
(* For any number of conversations, sessions, messages and requests in     *)
(* flight: one turn at a time, with the composer closed exactly while it   *)
(* is in flight or after one was refused; one placeholder on screen, and   *)
(* it is that turn's; and, with no turn in flight, the questions and       *)
(* answers that the service keeps.                                         *)
(***************************************************************************)
EXTENDS Page, SequenceTheorems, FiniteSetTheorems, TLAPS

\* A request: a turn's and a transcript's have their conversation, a turn's its number, and
\* nothing else streams.
Good(r) ==
  /\ r \in Call
  /\ r.op \in {"turn", "resume"} => r.on \in Threads
  /\ r.op = "turn" => r.turn \in Turns
  /\ r.stage = "streaming" => r.op = "turn"

\* Every variable that a request is made from.
Typed ==
  /\ session \in Tokens \cup {0}
  /\ thread \in Threads \cup {None}
  /\ threads \subseteq Threads
  /\ busy \in BOOLEAN
  /\ \A r \in calls : Good(r)
  /\ signed \in Tokens \cup {0}
  /\ spoken \subseteq Threads
  /\ history \in [Threads -> Seq(Entry)]
  /\ named \in Threads \cup {0}
  /\ sent \in Turns \cup {0}
  /\ shut \in BOOLEAN

\* The property, and that a page whose turn was refused has none in flight.
OneTurn ==
  /\ \A q, r \in calls : q.op = "turn" /\ r.op = "turn" => q = r
  /\ busy <=> (\E r \in calls : r.op = "turn") \/ shut
  /\ shut => \A r \in calls : r.op # "turn"

PageInv == Typed /\ OneTurn

-----------------------------------------------------------------------------
(* Lemmas.                                                                   *)

\* The numbers identities, conversations and turns have.
LEMMA Numbers ==
  /\ MaxThreads \in Nat /\ MaxTurns \in Nat /\ Len(holder) \in Nat
  /\ \A n \in Threads \cup {0} : n < MaxThreads => n + 1 \in Threads
  /\ \A n \in Turns \cup {0} : n < MaxTurns => n + 1 \in Turns
  /\ \A n \in Tokens \cup {0} : n < Len(holder) => n + 1 \in Tokens
<1>1. MaxThreads \in Nat /\ MaxTurns \in Nat /\ Len(holder) \in Nat
  BY PageAssumption
<1>. QED
  BY <1>1 DEF Threads, Turns, Tokens

\* A request is one.
LEMMA Requested ==
  ASSUME NEW op \in Operations, NEW t \in Threads \cup {None}, NEW n \in Turns \cup {0},
         NEW token \in Tokens \cup {0}, op \in {"turn", "resume"} => t \in Threads,
         op = "turn" => n \in Turns
  PROVE  Good(Request(op, t, n, token)) /\ Request(op, t, n, token).op = op
<1>. DEFINE q == Request(op, t, n, token)
<1>1. q \in Call
  BY DEF Request, Call
<1>2. q.op = op /\ q.on = t /\ q.turn = n /\ q.stage = "sent"
  BY DEF Request
<1>. HIDE DEF q
<1>3. Good(q) /\ q.op = op
  BY <1>1, <1>2 DEF Good
<1>. QED
  BY <1>3 DEF q

\* An answer is to the same request.
LEMMA Answers ==
  ASSUME NEW r, Good(r)
  PROVE  /\ Good(Answer(r)) /\ Answer(r).op = r.op
         /\ Answer(r).stage = "answered" /\ Answer(r).turn = r.turn
<1>1. r \in Call
  BY DEF Good
<1>2. Answer(r) \in Call
  BY <1>1 DEF Answer, Call
<1>3. /\ Answer(r).op = r.op /\ Answer(r).on = r.on /\ Answer(r).turn = r.turn
      /\ Answer(r).stage = "answered"
  BY <1>1 DEF Answer, Call
<1>. QED
  BY <1>2, <1>3 DEF Good

\* No turn came and none went.
LEMMA NoTurn ==
  ASSUME OneTurn, UNCHANGED <<busy, shut>>,
         \A q : q.op = "turn" => (q \in calls <=> q \in calls')
  PROVE  OneTurn'
BY DEF OneTurn

\* The turn in flight gets on.
LEMMA SameTurn ==
  ASSUME OneTurn, UNCHANGED <<busy, shut>>, NEW r \in calls, NEW a,
         Becomes(r, a), a.op = r.op
  PROVE  OneTurn'
<1>1. CASE r.op = "turn"
  BY <1>1 DEF OneTurn, Becomes
<1>2. CASE r.op # "turn"
  BY <1>2, NoTurn DEF Becomes
<1>. QED
  BY <1>1, <1>2

\* The turn in flight is over, and the composer is open unless it was refused.
LEMMA TurnOver ==
  ASSUME OneTurn, NEW r \in calls, r.op = "turn", NEW rest,
         calls' = (calls \ {r}) \cup rest, \A q \in rest : q.op # "turn",
         busy' <=> shut'
  PROVE  OneTurn'
BY DEF OneTurn

-----------------------------------------------------------------------------
(* Sequences of entries.                                                     *)

Final(s) == \A i \in 1..Len(s) : s[i].kind # "live"

\* What the page shows of a turn is an entry.
LEMMA Entries ==
  ASSUME NEW n \in Turns, NEW kind \in {"user", "aside", "agent", "unkept", "error", "live"}
  PROVE  entry(kind, n) \in Entry /\ entry(kind, n).kind = kind /\ entry(kind, n).turn = n
BY DEF entry, Entry

\* Every entry of a transcript is one, and its turn a number.
LEMMA OfEntries ==
  ASSUME NEW s \in Seq(Entry)
  PROVE  /\ Range(s) = {s[i] : i \in 1..Len(s)}
         /\ \A e \in Range(s) : e \in Entry /\ e.turn \in Nat
<1>1. Range(s) \subseteq Entry /\ Range(s) = {s[i] : i \in 1..Len(s)}
  BY RangeOfSeq, RangeEquality
<1>2. \A e \in Entry : e.turn \in Nat
  BY DEF Entry, Turns
<1>. QED
  BY <1>1, <1>2

\* One transcript after another.
LEMMA Longer ==
  ASSUME NEW s \in Seq(Entry), NEW w \in Seq(Entry)
  PROVE  /\ s \o w \in Seq(Entry) /\ Range(s \o w) = Range(s) \cup Range(w)
         /\ Final(s) /\ Final(w) => Final(s \o w)
         /\ InOrder(s) /\ InOrder(w) /\ (\A d \in Range(s), e \in Range(w) : Before(d, e))
              => InOrder(s \o w)
<1>1. /\ s \o w \in Seq(Entry) /\ Len(s \o w) = Len(s) + Len(w)
      /\ \A i \in 1..(Len(s) + Len(w)) :
           (s \o w)[i] = IF i <= Len(s) THEN s[i] ELSE w[i - Len(s)]
      /\ Len(s) \in Nat /\ Len(w) \in Nat
  BY ConcatProperties
<1>2. Range(s \o w) = Range(s) \cup Range(w)
  BY RangeConcatenation
<1>3. \A i \in 1..Len(s \o w) :
        \/ i \in 1..Len(s) /\ (s \o w)[i] = s[i]
        \/ i > Len(s) /\ i - Len(s) \in 1..Len(w) /\ (s \o w)[i] = w[i - Len(s)]
  BY <1>1
<1>4. Final(s) /\ Final(w) => Final(s \o w)
  BY <1>3 DEF Final
<1>5. ASSUME InOrder(s), InOrder(w), \A d \in Range(s), e \in Range(w) : Before(d, e)
      PROVE  InOrder(s \o w)
  <2>. SUFFICES ASSUME NEW i \in 1..Len(s \o w), NEW j \in 1..Len(s \o w), i < j
                PROVE  Before((s \o w)[i], (s \o w)[j])
    BY <1>1 DEF InOrder
  <2>1. /\ \A k, l \in 1..Len(s) : k < l => Before(s[k], s[l])
        /\ \A k, l \in 1..Len(w) : k < l => Before(w[k], w[l])
    BY <1>5 DEF InOrder
  <2>2. \A k \in 1..Len(s), l \in 1..Len(w) : Before(s[k], w[l])
    BY <1>5, OfEntries
  <2>3. CASE j \in 1..Len(s)
    BY <1>1, <1>3, <2>1, <2>3
  <2>4. CASE i \in 1..Len(s) /\ j > Len(s)
    BY <1>1, <1>3, <2>2, <2>4
  <2>5. CASE i > Len(s)
    <3>1. /\ i - Len(s) \in 1..Len(w) /\ (s \o w)[i] = w[i - Len(s)]
          /\ j - Len(s) \in 1..Len(w) /\ (s \o w)[j] = w[j - Len(s)]
          /\ i - Len(s) < j - Len(s)
      BY <1>1, <1>3, <2>5
    <3>. QED
      BY <2>1, <3>1
  <2>. QED
    BY <1>1, <1>3, <2>3, <2>4, <2>5
<1>. QED
  BY <1>1, <1>2, <1>4, <1>5

\* A transcript of one entry.
LEMMA Single ==
  ASSUME NEW e \in Entry
  PROVE  /\ <<e>> \in Seq(Entry) /\ Range(<<e>>) = {e} /\ InOrder(<<e>>)
         /\ e.kind # "live" => Final(<<e>>)
<1>1. <<e>> \in Seq(Entry) /\ Len(<<e>>) = 1 /\ <<e>>[1] = e
  OBVIOUS
<1>2. Range(<<e>>) = {e}
  <2>1. DOMAIN <<e>> = {1}
    BY <1>1
  <2>. QED
    BY <1>1, <2>1 DEF Range
<1>3. InOrder(<<e>>)
  BY <1>1 DEF InOrder
<1>. QED
  BY <1>1, <1>2, <1>3 DEF Final

\* One of none.
LEMMA Nothing == <<>> \in Seq(Entry) /\ Range(<<>>) = {} /\ InOrder(<<>>) /\ Final(<<>>)
BY DEF Range, InOrder, Final

\* One more entry.
LEMMA OneMore ==
  ASSUME NEW s \in Seq(Entry), NEW e \in Entry
  PROVE  /\ Append(s, e) \in Seq(Entry) /\ Len(Append(s, e)) = Len(s) + 1 /\ Len(s) \in Nat
         /\ \A i \in 1..Len(s) : Append(s, e)[i] = s[i]
         /\ Append(s, e)[Len(s) + 1] = e
         /\ Range(Append(s, e)) = Range(s) \cup {e}
         /\ Final(s) /\ e.kind # "live" => Final(Append(s, e))
         /\ InOrder(s) /\ (\A d \in Range(s) : Before(d, e)) => InOrder(Append(s, e))
<1>1. /\ Append(s, e) \in Seq(Entry) /\ Len(Append(s, e)) = Len(s) + 1 /\ Len(s) \in Nat
      /\ \A i \in 1..Len(s) : Append(s, e)[i] = s[i]
      /\ Append(s, e)[Len(s) + 1] = e
  BY AppendProperties
<1>2. Append(s, e) = s \o <<e>>
  BY AppendIsConcat
<1>3. /\ <<e>> \in Seq(Entry) /\ Range(<<e>>) = {e} /\ InOrder(<<e>>)
      /\ e.kind # "live" => Final(<<e>>)
  BY Single
<1>4. PICK w \in Seq(Entry) : w = <<e>>
  BY <1>3
<1>5. /\ Range(s \o w) = Range(s) \cup Range(w)
      /\ Final(s) /\ Final(w) => Final(s \o w)
      /\ InOrder(s) /\ InOrder(w) /\ (\A d \in Range(s), x \in Range(w) : Before(d, x))
           => InOrder(s \o w)
  BY Longer
<1>. QED
  BY <1>1, <1>2, <1>3, <1>4, <1>5

\* What the checkpoint keeps of a turn: its question, asides and one answer.
LEMMA SaidIs ==
  ASSUME NEW n \in Turns, NEW k \in Nat, NEW answered \in BOOLEAN
  PROVE  /\ said(n, k, answered) \in Seq(Entry)
         /\ Final(said(n, k, answered)) /\ InOrder(said(n, k, answered))
         /\ Range(said(n, k, answered))
              \subseteq {entry("user", n), entry("aside", n), entry("agent", n)}
         /\ entry("user", n) \in Range(said(n, k, answered))
         /\ entry("agent", n) \in Range(said(n, k, answered)) <=> answered
<1>1. PICK u \in Entry, a \in Entry, z \in Entry :
        /\ u = entry("user", n) /\ a = entry("aside", n) /\ z = entry("agent", n)
        /\ u.kind = "user" /\ a.kind = "aside" /\ z.kind = "agent"
        /\ u.turn = n /\ a.turn = n /\ z.turn = n
  BY Entries
<1>2. PICK b : b = [i \in 1..k |-> a]
  OBVIOUS
<1>3. b \in Seq(Entry) /\ Len(b) = k /\ \A i \in 1..k : b[i] = a
  BY <1>2
<1>4. PICK c \in Seq(Entry) : c = IF answered THEN <<z>> ELSE <<>>
  <2>1. <<z>> \in Seq(Entry) /\ <<>> \in Seq(Entry)
    OBVIOUS
  <2>. QED
    BY <2>1
<1>5. said(n, k, answered) = (<<u>> \o b) \o c
  BY <1>1, <1>2, <1>4 DEF said
<1>6. Before(u, a) /\ Before(u, z) /\ Before(a, a) /\ Before(a, z)
  BY <1>1 DEF Before
<1>7. <<u>> \in Seq(Entry) /\ Range(<<u>>) = {u} /\ InOrder(<<u>>) /\ Final(<<u>>)
  BY <1>1, Single
<1>8. Range(b) \subseteq {a} /\ InOrder(b) /\ Final(b)
  <2>1. Range(b) \subseteq {a}
    BY <1>3, OfEntries
  <2>2. InOrder(b) /\ Final(b)
    BY <1>1, <1>3, <1>6 DEF InOrder, Final
  <2>. QED
    BY <2>1, <2>2
<1>9. Range(c) = (IF answered THEN {z} ELSE {}) /\ InOrder(c) /\ Final(c)
  BY <1>1, <1>4, Single, Nothing
<1>10. PICK d : d = <<u>> \o b
  OBVIOUS
<1>11. d \in Seq(Entry) /\ Range(d) = {u} \cup Range(b) /\ Final(d) /\ InOrder(d)
  <2>1. \A x \in Range(<<u>>), y \in Range(b) : Before(x, y)
    BY <1>6, <1>7, <1>8
  <2>. QED
    BY <1>3, <1>7, <1>8, <1>10, <2>1, Longer
<1>12. /\ d \o c \in Seq(Entry) /\ Range(d \o c) = Range(d) \cup Range(c)
       /\ Final(d \o c) /\ InOrder(d \o c)
  <2>1. \A x \in Range(d), y \in Range(c) : Before(x, y)
    BY <1>6, <1>8, <1>9, <1>11
  <2>. QED
    BY <1>9, <1>11, <2>1, Longer
<1>13. z # u /\ z # a
  BY <1>1
<1>. QED
  BY <1>1, <1>5, <1>8, <1>9, <1>10, <1>11, <1>12, <1>13

-----------------------------------------------------------------------------
(* What the customer does.                                                   *)

\* A request that is not a turn's joins those in flight.
LEMMA Asked ==
  ASSUME PageInv, NEW op \in Operations \ {"turn"}, NEW t \in Threads \cup {None},
         NEW token \in Tokens \cup {0}, op = "resume" => t \in Threads,
         Ask(op, t, token), UNCHANGED <<busy, shut>>
  PROVE  (\A r \in calls' : Good(r)) /\ OneTurn'
<1>. DEFINE q == Request(op, t, 0, token)
<1>1. Good(q) /\ q.op # "turn"
  BY Requested
<1>2. calls' = calls \cup {q}
  BY DEF Ask
<1>. HIDE DEF q
<1>3. OneTurn'
  BY <1>1, <1>2, NoTurn DEF PageInv
<1>. QED
  BY <1>1, <1>2, <1>3 DEF PageInv, Typed

LEMMA ClickKeeps == ASSUME PageInv, Click PROVE PageInv'
<1>0. Typed /\ OneTurn
  BY DEF PageInv
<1>1. CASE SignIn
  <2>1. signed + 1 \in Tokens
    BY <1>0, <1>1, Numbers DEF SignIn, Typed
  <2>2. (\A r \in calls' : Good(r)) /\ OneTurn'
    BY <1>1, <2>1, Asked DEF SignIn, open_one, Operations
  <2>. QED
    BY <1>0, <1>1, <2>1, <2>2 DEF SignIn, Typed, PageInv, service
<1>2. CASE New
  <2>1. (\A r \in calls' : Good(r)) /\ OneTurn'
    BY <1>0, <1>2, Asked DEF New, page, Operations, Typed
  <2>. QED
    BY <1>0, <1>2, <2>1 DEF New, Typed, PageInv, page, service
<1>3. ASSUME NEW t \in Threads, Pick(t) PROVE PageInv'
  <2>1. (\A r \in calls' : Good(r)) /\ OneTurn'
    BY <1>0, <1>3, Asked DEF Pick, page, Operations, Typed
  <2>. QED
    BY <1>0, <1>3, <2>1 DEF Pick, Typed, PageInv, page, service
<1>4. ASSUME NEW t \in Threads, Remove(t) PROVE PageInv'
  <2>1. (\A r \in calls' : Good(r)) /\ OneTurn'
    BY <1>0, <1>4, Asked DEF Remove, Operations, Typed
  <2>. QED
    BY <1>0, <1>4, <2>1 DEF Remove, Typed, PageInv, service
<1>5. CASE Send
  <2>. DEFINE q == Request("turn", thread, sent + 1, session)
              met == {[r EXCEPT !.alone = FALSE] : r \in calls}
  <2>1. sent + 1 \in Turns
    BY <1>0, <1>5, Numbers DEF Send, Typed
  <2>2. Good(q) /\ q.op = "turn"
    <3>1. thread \in Threads /\ session \in Tokens \cup {0} /\ "turn" \in Operations
      BY <1>0, <1>5 DEF Send, Typed, Operations
    <3>. QED
      BY <2>1, <3>1, Requested
  <2>3. ~shut /\ \A r \in calls : r.op # "turn"
    BY <1>0, <1>5 DEF Send, enabled, OneTurn
  <2>4. \A r \in met : Good(r) /\ r.op # "turn"
    <3>1. ASSUME NEW r \in calls
          PROVE  Good([r EXCEPT !.alone = FALSE]) /\ [r EXCEPT !.alone = FALSE].op = r.op
      <4>. DEFINE x == [r EXCEPT !.alone = FALSE]
      <4>1. Good(r) /\ r \in Call
        BY <1>0 DEF Typed, Good
      <4>2. x \in Call
        BY <4>1 DEF Call
      <4>3. x.op = r.op /\ x.on = r.on /\ x.turn = r.turn /\ x.stage = r.stage
        BY <4>1 DEF Call
      <4>. HIDE DEF x
      <4>4. Good(x)
        BY <4>1, <4>2, <4>3 DEF Good
      <4>. QED
        BY <4>3, <4>4 DEF x
    <3>. QED
      BY <2>3, <3>1
  <2>5. calls' = met \cup {q} /\ busy' /\ shut' = shut
    BY <1>5 DEF Send
  <2>. HIDE DEF q, met
  <2>6. OneTurn'
    BY <2>2, <2>3, <2>4, <2>5 DEF OneTurn
  <2>. QED
    BY <1>0, <1>5, <2>1, <2>2, <2>4, <2>5, <2>6 DEF Send, Typed, PageInv, service
<1>. QED
  BY <1>1, <1>2, <1>3, <1>4, <1>5 DEF Click

-----------------------------------------------------------------------------
(* What the service does.                                                    *)

\* A step of the service leaves the page alone and gets one request on.
LEMMA Gets ==
  ASSUME PageInv, NEW r \in calls, NEW a, Good(a), a.op = r.op, Becomes(r, a),
         UNCHANGED <<page, signed, sent, shut>>,
         spoken' \subseteq Threads, history' \in [Threads -> Seq(Entry)],
         named' \in Threads \cup {0}
  PROVE  PageInv'
<1>1. OneTurn'
  BY SameTurn DEF PageInv, page
<1>2. \A q \in calls' : Good(q)
  BY DEF PageInv, Typed, Becomes
<1>. QED
  BY <1>1, <1>2 DEF PageInv, Typed, page

\* What the checkpoint keeps of a turn is added to a transcript.
LEMMA Said ==
  ASSUME Typed, NEW r \in calls, r.stage = "streaming", NEW k \in Nat, NEW answered \in BOOLEAN,
         Keeps(r, k, answered)
  PROVE  history' \in [Threads -> Seq(Entry)]
<1>1. r.on \in Threads /\ r.turn \in Turns
  BY DEF Typed, Good
<1>2. history[r.on] \o said(r.turn, k, answered) \in Seq(Entry)
  BY <1>1, SaidIs, Longer DEF Typed
<1>. QED
  BY <1>1, <1>2 DEF Typed, Keeps

LEMMA ServeKeeps == ASSUME PageInv, NEW r \in calls, Serve(r) \/ Break(r) PROVE PageInv'
<1>0. Typed /\ Good(r) /\ r \in Call
  BY DEF PageInv, Typed, Good
<1>1. Good(Answer(r)) /\ Answer(r).op = r.op /\ Answer(r) \in Call
        /\ Answer(r).stage = "answered" /\ Answer(r).turn = r.turn
  BY <1>0, Answers DEF Good
<1>2. CASE ServeOpen(r)
  <2>. DEFINE a == [Answer(r) EXCEPT !.on = named + 1]
  <2>1. named + 1 \in Threads
    BY <1>0, <1>2, Numbers DEF ServeOpen, Typed
  <2>2. a \in Call /\ a.op = r.op /\ a.stage = "answered"
    BY <1>1, <2>1 DEF Call
  <2>3. r.op = "open"
    BY <1>2 DEF ServeOpen, Sent
  <2>4. /\ Becomes(r, a) /\ named' = named + 1
        /\ UNCHANGED <<page, signed, spoken, history, sent, shut>>
    BY <1>2 DEF ServeOpen
  <2>. HIDE DEF a
  <2>5. Good(a)
    BY <2>2, <2>3 DEF Good
  <2>. QED
    BY <1>0, <2>1, <2>2, <2>4, <2>5, Gets DEF Typed
<1>3. CASE ServeResume(r)
  <2>. DEFINE a == [Answer(r) EXCEPT !.messages = history[r.on]]
  <2>3. r.op = "resume"
    BY <1>3 DEF ServeResume, Sent
  <2>4. Becomes(r, a) /\ UNCHANGED <<page, signed, spoken, history, named, sent, shut>>
    BY <1>3 DEF ServeResume, service
  <2>1. history[r.on] \in Seq(Entry)
    BY <1>0, <2>3 DEF Good, Typed
  <2>2. a \in Call /\ a.op = r.op /\ a.on = Answer(r).on /\ a.stage = "answered"
    BY <1>1, <2>1 DEF Call
  <2>. HIDE DEF a
  <2>5. Good(a)
    BY <1>1, <2>2, <2>3 DEF Good
  <2>. QED
    BY <1>0, <2>2, <2>4, <2>5, Gets DEF Typed
<1>4. CASE ServeList(r)
  <2>1. PICK c : Becomes(r, [Answer(r) EXCEPT !.list = {t \in spoken : visible_to(c, t)}])
    BY <1>4 DEF ServeList
  <2>. DEFINE a == [Answer(r) EXCEPT !.list = {t \in spoken : visible_to(c, t)}]
  <2>2. a \in Call /\ a.op = r.op /\ a.stage = "answered"
    BY <1>0, <1>1 DEF Call, Typed
  <2>3. r.op = "list" /\ UNCHANGED <<page, signed, spoken, history, named, sent, shut>>
    BY <1>4 DEF ServeList, Sent, service
  <2>. HIDE DEF a
  <2>4. Good(a)
    BY <2>2, <2>3 DEF Good
  <2>. QED
    BY <1>0, <2>1, <2>2, <2>3, <2>4, Gets DEF Typed, a
<1>5. CASE ServeTurn(r)
  <2>. DEFINE a == [r EXCEPT !.stage = "streaming"]
  <2>1. a \in Call /\ a.op = r.op /\ a.on = r.on /\ a.turn = r.turn
    BY <1>0 DEF Call
  <2>2. /\ r.op = "turn" /\ Becomes(r, a)
        /\ UNCHANGED <<page, signed, spoken, history, named, sent, shut>>
    BY <1>5 DEF ServeTurn, Sent, service
  <2>. HIDE DEF a
  <2>3. Good(a)
    BY <1>0, <2>1, <2>2 DEF Good
  <2>. QED
    BY <1>0, <2>1, <2>2, <2>3, Gets DEF Typed
<1>6. ASSUME NEW reply \in {"turn", "unkept", "error", "broken"}, r.stage = "streaming",
             Becomes(r, [Answer(r) EXCEPT !.reply = reply]),
             UNCHANGED <<page, signed, named, sent, shut>>,
             spoken' \subseteq Threads, history' \in [Threads -> Seq(Entry)]
      PROVE  PageInv'
  <2>. DEFINE a == [Answer(r) EXCEPT !.reply = reply]
  <2>1. a \in Call /\ a.op = r.op /\ a.on = Answer(r).on /\ a.turn = r.turn
          /\ a.stage = "answered"
    BY <1>1 DEF Call
  <2>2. Good(a)
    BY <1>1, <2>1 DEF Good
  <2>. HIDE DEF a
  <2>. QED
    BY <1>0, <1>6, <2>1, <2>2, Gets DEF Typed, a
<1>7. CASE Run(r)
  <2>1. PICK reply \in {"turn", "unkept", "error"}, k \in 0..MaxAsides :
          Keeps(r, k, reply = "turn") /\ Becomes(r, [Answer(r) EXCEPT !.reply = reply])
    BY <1>7 DEF Run
  <2>2. k \in Nat /\ (reply = "turn") \in BOOLEAN /\ r.stage = "streaming"
    BY <1>7 DEF Run
  <2>3. history' \in [Threads -> Seq(Entry)]
    BY <1>0, <2>1, <2>2, Said
  <2>4. spoken' \subseteq Threads
    BY <1>0, <1>7 DEF Run, Typed, Good
  <2>. QED
    BY <1>6, <1>7, <2>1, <2>3, <2>4 DEF Run
<1>8. CASE Break(r)
  <2>1. history' \in [Threads -> Seq(Entry)]
    <3>1. CASE history' = history
      BY <1>0, <3>1 DEF Typed
    <3>2. ASSUME NEW k \in 0..MaxAsides, NEW answered \in BOOLEAN, Keeps(r, k, answered)
          PROVE  history' \in [Threads -> Seq(Entry)]
      <4>1. k \in Nat /\ r.stage = "streaming"
        BY <1>8 DEF Break
      <4>. QED
        BY <1>0, <3>2, <4>1, Said
    <3>. QED
      BY <1>8, <3>1, <3>2 DEF Break
  <2>2. spoken' \subseteq Threads
    BY <1>0, <1>8 DEF Break, Typed
  <2>. QED
    BY <1>6, <1>8, <2>1, <2>2 DEF Break
<1>. QED
  BY <1>2, <1>3, <1>4, <1>5, <1>7, <1>8 DEF Serve

-----------------------------------------------------------------------------
(* What the page does with an answer.                                        *)

\* A request that was not a turn's is done with, or followed by a fetch of the list.
LEMMA Done ==
  ASSUME PageInv, NEW r \in calls, r.op # "turn", Finish(r) \/ Refresh(r),
         UNCHANGED <<busy, signed, history, named, sent, shut>>, spoken' \subseteq Threads,
         session' \in Tokens \cup {0}, thread' \in Threads \cup {None}, threads' \subseteq Threads
  PROVE  PageInv'
<1>. DEFINE q == Request("list", None, 0, session)
<1>1. Good(q) /\ q.op # "turn"
  <2>1. session \in Tokens \cup {0} /\ "list" \in Operations /\ "list" # "turn"
    BY DEF PageInv, Typed, Operations
  <2>. QED
    BY <2>1, Requested
<1>2. /\ calls' \subseteq (calls \ {r}) \cup {q}
      /\ calls \ {r} \subseteq calls'
  BY DEF Finish, Refresh, Becomes
<1>. HIDE DEF q
<1>3. OneTurn'
  BY <1>1, <1>2, NoTurn DEF PageInv
<1>4. \A x \in calls' : Good(x)
  BY <1>1, <1>2 DEF PageInv, Typed
<1>. QED
  BY <1>3, <1>4 DEF PageInv, Typed

\* A turn is over, whatever became of it.
LEMMA Ended ==
  ASSUME PageInv, NEW r \in calls, r.op = "turn", NEW kind, Ends(r, kind)
  PROVE  PageInv'
<1>. DEFINE q == Request("list", None, 0, session)
<1>1. Good(q) /\ q.op # "turn"
  <2>1. session \in Tokens \cup {0} /\ "list" \in Operations /\ "list" # "turn"
    BY DEF PageInv, Typed, Operations
  <2>. QED
    BY <2>1, Requested
<1>2. calls' = (calls \ {r}) \cup {q} /\ ~busy' /\ busy' \in BOOLEAN /\ shut' = shut
  BY DEF Ends, Refresh, Becomes
<1>. HIDE DEF q
<1>3. ~shut
  BY DEF PageInv, OneTurn
<1>4. OneTurn'
  BY <1>1, <1>2, <1>3, TurnOver DEF PageInv
<1>5. \A x \in calls' : Good(x)
  BY <1>1, <1>2 DEF PageInv, Typed
<1>. QED
  BY <1>4, <1>5 DEF PageInv, Typed, Ends, service

LEMMA ArriveKeeps == ASSUME PageInv, NEW r \in calls, Arrive(r) PROVE PageInv'
<1>0. Typed /\ OneTurn /\ Good(r) /\ r \in Call
  BY DEF PageInv, Typed, Good
<1>1. CASE SignOut(r)
  <2>1. CASE r.op = "turn"
    <3>1. calls' = calls \ {r} /\ shut' /\ busy' = busy /\ busy
      BY <1>0, <1>1, <2>1 DEF SignOut, Finish, OneTurn
    <3>2. \A q \in calls' : q.op # "turn"
      BY <1>0, <2>1, <3>1 DEF OneTurn
    <3>3. OneTurn'
      BY <3>1, <3>2 DEF OneTurn
    <3>. QED
      BY <1>0, <1>1, <2>1, <3>1, <3>3 DEF SignOut, PageInv, Typed, service, Finish
  <2>2. CASE r.op # "turn"
    <3>1. shut' = shut
      BY <1>0, <1>1, <2>2 DEF SignOut, Typed
    <3>. QED
      BY <1>0, <1>1, <2>2, <3>1, Done DEF SignOut, service, Typed
  <2>. QED
    BY <2>1, <2>2
<1>2. CASE GiveUp(r)
  BY <1>0, <1>2, Done DEF GiveUp, page, service, Typed
<1>3. CASE Opened(r)
  <2>1. r.op # "turn" /\ r.on \in Threads \cup {None}
    BY <1>0, <1>3 DEF Opened, Landed, Call
  <2>. QED
    BY <1>0, <1>3, <2>1, Done DEF Opened, service, Typed
<1>4. CASE Resumed(r)
  <2>1. r.op # "turn" /\ r.on \in Threads \cup {None}
    BY <1>0, <1>4 DEF Resumed, Landed, Call
  <2>. QED
    BY <1>0, <1>4, <2>1, Done DEF Resumed, service, Typed
<1>5. CASE Listed(r)
  <2>1. r.op # "turn" /\ r.list \subseteq Threads
    BY <1>0, <1>5 DEF Listed, Landed, Call
  <2>. QED
    BY <1>0, <1>5, <2>1, Done DEF Listed, service, Typed
<1>6. CASE Removed(r)
  <2>1. r.op # "turn"
    BY <1>6 DEF Removed, Sent
  <2>. QED
    BY <1>0, <1>6, <2>1, Done DEF Removed, page, Typed
<1>7. CASE TurnAnswered(r) \/ TurnUnkept(r) \/ TurnFailed(r)
  BY <1>7, Ended DEF TurnAnswered, TurnUnkept, TurnFailed, Landed
<1>. QED
  BY <1>1, <1>2, <1>3, <1>4, <1>5, <1>6, <1>7 DEF Arrive

-----------------------------------------------------------------------------
LEMMA PageInit == Init => PageInv
<1>. SUFFICES ASSUME Init PROVE PageInv
  OBVIOUS
<1>1. OneTurn
  BY DEF Init, OneTurn
<1>2. <<>> \in Seq(Entry)
  OBVIOUS
<1>3. history \in [Threads -> Seq(Entry)]
  BY <1>2 DEF Init
<1>4. /\ session = 0 /\ thread = None /\ threads = {} /\ busy = FALSE /\ calls = {}
      /\ signed = 0 /\ spoken = {} /\ named = 0 /\ sent = 0 /\ shut = FALSE
  BY DEF Init
<1>5. busy \in BOOLEAN /\ shut \in BOOLEAN /\ (\A r \in calls : Good(r))
  BY <1>4
<1>6. /\ session \in Tokens \cup {0} /\ thread \in Threads \cup {None} /\ threads \subseteq Threads
      /\ signed \in Tokens \cup {0} /\ named \in Threads \cup {0} /\ sent \in Turns \cup {0}
      /\ spoken \subseteq Threads
  BY <1>4
<1>7. Typed
  BY <1>3, <1>5, <1>6 DEF Typed
<1>. QED
  BY <1>1, <1>7 DEF PageInv

\* The invariant holds of every state of the page.
THEOREM PageInductive == Spec => []PageInv
<1>1. PageInv /\ [Next]_vars => PageInv'
  <2>. SUFFICES ASSUME PageInv, [Next]_vars PROVE PageInv'
    OBVIOUS
  <2>1. CASE Click
    BY <2>1, ClickKeeps
  <2>2. ASSUME NEW r \in calls, Serve(r) \/ Break(r) PROVE PageInv'
    BY <2>2, ServeKeeps
  <2>3. ASSUME NEW r \in calls, Arrive(r) PROVE PageInv'
    BY <2>3, ArriveKeeps
  <2>4. ASSUME NEW r \in calls, Frame(r) PROVE PageInv'
    BY <2>4 DEF Frame, PageInv, Typed, OneTurn, service
  <2>5. CASE UNCHANGED vars
    BY <2>5 DEF vars, page, service, PageInv, Typed, OneTurn
  <2>. QED
    BY <2>1, <2>2, <2>3, <2>4, <2>5 DEF Next
<1>. QED
  BY <1>1, PageInit, PTL DEF Spec

\* No second turn beside one, and the composer open when none is in flight and none was
\* refused.
THEOREM OneAtATime == Spec => []OneTurnAtATime
<1>1. PageInv => OneTurnAtATime
  <2>. SUFFICES ASSUME OneTurn PROVE OneTurnAtATime
    BY DEF PageInv
  <2>1. InFlight({"turn"}) = {r \in calls : r.op = "turn"}
    BY DEF InFlight
  <2>. QED
    BY <2>1 DEF OneTurn, OneTurnAtATime
<1>. QED
  BY <1>1, PageInductive, PTL

-----------------------------------------------------------------------------
(* What is on screen.                                                        *)

\* Nothing refers to a conversation that was not opened yet, and nobody spoke there.
Numbered ==
  /\ thread \in (1..named) \cup {None}
  /\ threads \subseteq 1..named
  /\ \A r \in calls : /\ r.on \in (1..named) \cup {None}
                      /\ r.list \subseteq 1..named
                      /\ r.stage = "streaming" => r.token # 0
  /\ index \in [Threads -> Customers \cup {None}]
  /\ \A t \in Threads : t > named => index[t] = None /\ history[t] = <<>>

\* While a transcript no turn met is on its way there is no turn, and it is the one kept.
Alone ==
  \A r \in calls : r.alone =>
    /\ r.op \in {"open", "resume"}
    /\ \A q \in calls : q.op # "turn"
    /\ r.stage = "answered" =>
         /\ r.op = "open" /\ r.on # None => history[r.on] = <<>>
         /\ r.op = "resume" => r.messages = history[r.on]

\* The entries of s are of turns that were sent.
Sooner(s) == \A e \in Range(s) : e.turn <= sent

\* What the service keeps is in order, and of the turn in flight it is nothing until it is
\* answered.
Kept ==
  /\ \A t \in Threads : Final(history[t]) /\ InOrder(history[t]) /\ Sooner(history[t])
  /\ \A r \in calls :
       /\ Final(r.messages)
       /\ r.op = "turn" => r.turn = sent
       /\ r.op = "turn" /\ r.stage # "answered" =>
            \A t \in Threads : \A e \in Range(history[t]) : e.turn # sent

\* What is on screen, but for a placeholder at its end, is s.
Showing(s) ==
  /\ Final(s)
  /\ \/ entries = s
     \/ \E r \in calls : /\ r.op = "turn" /\ r.stage # "sent"
                         /\ entries = Append(s, entry("live", r.turn))

\* How far what is on screen is from what the service keeps: of the turn in flight the
\* service lacks the question until it is answered, and the page the answer after that.
Tracks(s) ==
  ~astray /\ thread # None =>
    /\ InOrder(s) /\ Sooner(s)
    /\ ~busy => Agree(Range(s), Range(history[thread]))
    /\ \A r \in calls : r.op = "turn" =>
         /\ r.on = thread
         /\ \A e \in Range(s) : e.turn = sent => e = entry("user", sent)
         /\ r.stage # "answered" =>
              Agree(Range(s), Range(history[thread]) \cup {entry("user", sent)})
         /\ r.stage = "answered" /\ r.reply = "turn" =>
              Agree(Range(s) \cup {entry("agent", sent)}, Range(history[thread]))
         /\ r.stage = "answered" /\ r.reply = "unkept" =>
              Agree(Range(s), Range(history[thread]))

Screen == astray \in BOOLEAN /\ \E s \in Seq(Entry) : Showing(s) /\ Tracks(s)

ScreenInv == Numbered /\ Alone /\ Kept /\ Screen

-----------------------------------------------------------------------------
(* The placeholder.                                                          *)

\* The placeholder at the end is what the filter takes away.
LEMMA Without ==
  ASSUME NEW s \in Seq(Entry), Final(s),
         \/ entries = s
         \/ \E e \in Entry : e.kind = "live" /\ entries = Append(s, e)
  PROVE  without_live = s
<1>1. Len(s) \in Nat /\ finals = 1..Len(s) /\ \A i \in 1..Len(s) : entries[i] = s[i]
  <2>1. CASE entries = s
    <3>1. DOMAIN entries = 1..Len(s) /\ Len(s) \in Nat
      BY <2>1
    <3>. QED
      BY <2>1, <3>1 DEF finals, Final
  <2>2. ASSUME NEW e \in Entry, e.kind = "live", entries = Append(s, e)
        PROVE  Len(s) \in Nat /\ finals = 1..Len(s) /\ \A i \in 1..Len(s) : entries[i] = s[i]
    <3>1. /\ DOMAIN entries = 1..(Len(s) + 1) /\ Len(s) \in Nat
          /\ \A i \in 1..Len(s) : entries[i] = s[i]
          /\ entries[Len(s) + 1] = e
      BY <2>2, OneMore
    <3>. QED
      BY <2>2, <3>1 DEF finals, Final
  <2>. QED
    BY <2>1, <2>2
<1>2. \A n \in Nat : Cardinality(1..n) = n
  BY FS_Interval
<1>3. Cardinality(finals) = Len(s)
  BY <1>1, <1>2
<1>4. ASSUME NEW i \in finals PROVE Cardinality({j \in finals : j <= i}) = i
  <2>1. {j \in finals : j <= i} = 1..i /\ i \in Nat
    BY <1>1
  <2>. QED
    BY <1>2, <2>1
<1>5. ASSUME NEW n \in 1..Len(s)
      PROVE  (CHOOSE i \in finals : Cardinality({j \in finals : j <= i}) = n) = n
  <2>1. \A i \in finals : Cardinality({j \in finals : j <= i}) = n <=> i = n
    BY <1>4
  <2>2. n \in finals
    BY <1>1
  <2>. QED
    BY <2>1, <2>2
<1>6. without_live = [n \in 1..Len(s) |-> entries[CHOOSE i \in finals :
                        Cardinality({j \in finals : j <= i}) = n]]
  BY <1>3 DEF without_live
<1>7. without_live = [n \in 1..Len(s) |-> s[n]]
  BY <1>1, <1>5, <1>6
<1>. QED
  BY <1>7

-----------------------------------------------------------------------------
(* A request that is not a turn's is made, gets on or is done with.          *)

\* A request that may join those in flight when n conversations have been opened.
Welcome(q, n) ==
  /\ q.op # "turn" /\ q.stage # "streaming"
  /\ q.on \in (1..n) \cup {None} /\ q.list \subseteq 1..n
  /\ Final(q.messages)
  /\ q.alone =>
       /\ q.op \in {"open", "resume"}
       /\ \A p \in calls : p.op # "turn"
       /\ q.stage = "answered" =>
            /\ q.op = "open" /\ q.on # None => history[q.on] = <<>>
            /\ q.op = "resume" => q.messages = history[q.on]

\* A fresh one may.
LEMMA Fresh ==
  ASSUME NEW op \in Operations \ {"turn"}, NEW n \in Nat, NEW t \in (1..n) \cup {None}, NEW token
  PROVE  Welcome(Request(op, t, 0, token), n)
<1>. DEFINE q == Request(op, t, 0, token)
<1>1. /\ q.op = op /\ q.on = t /\ q.stage = "sent" /\ q.messages = <<>> /\ q.list = {}
      /\ q.alone = (op \in {"open", "resume"} /\ InFlight({"turn"}) = {})
  BY DEF Request
<1>2. Final(<<>>)
  BY DEF Final
<1>3. InFlight({"turn"}) = {} => \A p \in calls : p.op # "turn"
  BY DEF InFlight
<1>. HIDE DEF q
<1>4. Welcome(q, n)
  BY <1>1, <1>2, <1>3 DEF Welcome
<1>. QED
  BY <1>4 DEF q

\* What is on screen stays as near what the service keeps, while the turn does not move.
LEMMA SameScreen ==
  ASSUME Screen, UNCHANGED <<thread, entries, busy, history, sent, astray>>,
         \A q : q.op = "turn" => (q \in calls <=> q \in calls')
  PROVE  Screen'
<1>1. PICK s \in Seq(Entry) : Showing(s) /\ Tracks(s)
  BY DEF Screen
<1>2. Showing(s)'
  BY <1>1 DEF Showing, Final
<1>3. Tracks(s)'
  BY <1>1 DEF Tracks, Sooner
<1>. QED
  BY <1>2, <1>3 DEF Screen

\* The requests in flight, when no turn came or went but one may be over.
LEMMA Joined ==
  ASSUME PageInv, Numbered, Alone, Kept, UNCHANGED <<history, sent>>,
         named' \in {named, named + 1}, threads' \subseteq 1..named',
         thread' \in (1..named) \cup {None},
         index' \in [Threads -> Customers \cup {None}],
         \A t \in Threads : t > named' => index'[t] = None,
         \A q : q.op = "turn" => (q \in calls' => q \in calls),
         NEW a, calls' \subseteq calls \cup {a}, Welcome(a, named')
  PROVE  Numbered' /\ Alone' /\ Kept'
<1>2. 1..named \subseteq 1..named' /\ (\A t \in Threads : t > named' => t > named)
  BY Numbers DEF PageInv, Typed, Threads
<1>3. \A q \in calls' : q \in calls \/ Welcome(q, named')
  OBVIOUS
<1>4. Numbered'
  BY <1>2, <1>3 DEF Numbered, Welcome
<1>5. Alone'
  <2>. SUFFICES ASSUME NEW r \in calls', r.alone
                PROVE  /\ r.op \in {"open", "resume"}
                       /\ \A q \in calls' : q.op # "turn"
                       /\ r.stage = "answered" =>
                            /\ r.op = "open" /\ r.on # None => history[r.on] = <<>>
                            /\ r.op = "resume" => r.messages = history[r.on]
    BY DEF Alone
  <2>1. CASE r \in calls
    BY <2>1 DEF Alone
  <2>2. CASE Welcome(r, named')
    BY <2>2 DEF Welcome
  <2>. QED
    BY <1>3, <2>1, <2>2
<1>6. Kept'
  BY <1>3 DEF Kept, Welcome, Final, Sooner
<1>. QED
  BY <1>4, <1>5, <1>6

LEMMA Trades ==
  ASSUME PageInv, ScreenInv, UNCHANGED <<thread, entries, busy, history, sent, astray>>,
         named' \in {named, named + 1}, threads' \subseteq 1..named',
         index' \in [Threads -> Customers \cup {None}],
         \A t \in Threads : t > named' => index'[t] = None,
         \A q : q.op = "turn" => (q \in calls <=> q \in calls'),
         NEW a, calls' \subseteq calls \cup {a}, Welcome(a, named')
  PROVE  ScreenInv'
<1>1. Screen'
  BY SameScreen DEF ScreenInv
<1>2. Numbered /\ Alone /\ Kept /\ thread' \in (1..named) \cup {None}
  BY DEF ScreenInv, Numbered
<1>3. Numbered' /\ Alone' /\ Kept'
  BY <1>2, Joined
<1>. QED
  BY <1>1, <1>3 DEF ScreenInv

\* It is made.
LEMMA AskedScreen ==
  ASSUME PageInv, ScreenInv, NEW op \in Operations \ {"turn"}, NEW t \in (1..named) \cup {None},
         NEW token, Ask(op, t, token), UNCHANGED <<thread, entries, busy, service, sent, astray>>,
         threads' \subseteq threads
  PROVE  ScreenInv'
<1>. DEFINE q == Request(op, t, 0, token)
<1>1. named \in Nat
  BY Numbers DEF PageInv, Typed, Threads
<1>2. Welcome(q, named') /\ q.op # "turn"
  <2>1. Welcome(q, named)
    BY <1>1, Fresh
  <2>. QED
    BY <2>1 DEF Welcome, service
<1>3. calls' = calls \cup {q}
  BY DEF Ask
<1>. HIDE DEF q
<1>4. /\ threads' \subseteq 1..named' /\ index' \in [Threads -> Customers \cup {None}]
      /\ \A n \in Threads : n > named' => index'[n] = None
  BY DEF ScreenInv, Numbered, service
<1>5. \A p : p.op = "turn" => (p \in calls <=> p \in calls')
  BY <1>2, <1>3
<1>6. calls' \subseteq calls \cup {q} /\ Welcome(q, named')
  BY <1>2, <1>3
<1>. QED
  BY <1>4, <1>5, <1>6, Trades DEF service

\* It is done with, or followed by a fetch of the list.
LEMMA DoneScreen ==
  ASSUME PageInv, ScreenInv, NEW r \in calls, r.op # "turn", Finish(r) \/ Refresh(r),
         UNCHANGED <<thread, entries, busy, history, named, sent, astray>>,
         index' \in [Threads -> Customers \cup {None}],
         \A t \in Threads : t > named => index'[t] = None, threads' \subseteq 1..named
  PROVE  ScreenInv'
<1>. DEFINE q == Request("list", None, 0, session)
<1>1. Welcome(q, named') /\ q.op # "turn"
  <2>1. named \in Nat /\ "list" \in Operations \ {"turn"} /\ None \in (1..named) \cup {None}
    BY Numbers DEF PageInv, Typed, Threads, Operations
  <2>2. Welcome(q, named)
    BY <2>1, Fresh
  <2>. QED
    BY <2>2 DEF Welcome
<1>2. calls' = calls \ {r} \/ calls' = (calls \ {r}) \cup {q}
  BY DEF Finish, Refresh, Becomes
<1>. HIDE DEF q
<1>3. \A p : p.op = "turn" => (p \in calls <=> p \in calls')
  BY <1>1, <1>2
<1>4. calls' \subseteq calls \cup {q} /\ Welcome(q, named')
  BY <1>1, <1>2
<1>. QED
  BY <1>3, <1>4, Trades

\* It gets on.
LEMMA GetsScreen ==
  ASSUME PageInv, ScreenInv, NEW r \in calls, r.op # "turn", NEW a, Becomes(r, a),
         UNCHANGED <<page, history, sent, astray>>,
         named' \in {named, named + 1}, index' \in [Threads -> Customers \cup {None}],
         \A t \in Threads : t > named' => index'[t] = None,
         Welcome(a, named')
  PROVE  ScreenInv'
<1>1. \A p : p.op = "turn" => (p \in calls <=> p \in calls')
  BY DEF Welcome, Becomes
<1>2. calls' \subseteq calls \cup {a} /\ Welcome(a, named')
  BY DEF Becomes
<1>3. threads' \subseteq 1..named'
  BY Numbers DEF ScreenInv, Numbered, PageInv, Typed, Threads, page
<1>. QED
  BY <1>1, <1>2, <1>3, Trades DEF page

\* The answer to a request that was not a turn's, before what it carries is filled in.
LEMMA AnswerWelcome ==
  ASSUME PageInv, ScreenInv, NEW r \in calls, r.op # "turn"
  PROVE  LET a == Answer(r)
         IN  /\ a \in Call /\ a.op = r.op /\ a.stage = "answered" /\ a.on = r.on
             /\ a.messages = r.messages /\ a.list = r.list /\ a.alone = r.alone
<1>1. r \in Call
  BY DEF PageInv, Typed, Good
<1>. QED
  BY <1>1 DEF Answer, Call

LEMMA ServeScreen ==
  ASSUME PageInv, ScreenInv, NEW r \in calls, ServeOpen(r) \/ ServeResume(r) \/ ServeList(r)
  PROVE  ScreenInv'
<1>0. r.op # "turn" /\ r.stage = "sent" /\ Good(r) /\ r \in Call /\ named \in Nat
  BY Numbers DEF ServeOpen, ServeResume, ServeList, Sent, PageInv, Typed, Good, Threads
<1>1. /\ Answer(r) \in Call /\ Answer(r).op = r.op /\ Answer(r).stage = "answered"
      /\ Answer(r).on = r.on /\ Answer(r).messages = r.messages /\ Answer(r).list = r.list
      /\ Answer(r).alone = r.alone
  BY <1>0, AnswerWelcome
<1>2. /\ r.on \in (1..named) \cup {None} /\ r.list \subseteq 1..named /\ Final(r.messages)
      /\ r.alone => r.op \in {"open", "resume"} /\ \A p \in calls : p.op # "turn"
  BY DEF ScreenInv, Numbered, Kept, Alone
<1>3. /\ index \in [Threads -> Customers \cup {None}]
      /\ \A t \in Threads : t > named => index[t] = None
  BY DEF ScreenInv, Numbered
<1>4. CASE ServeOpen(r)
  <2>. DEFINE a == [Answer(r) EXCEPT !.on = named + 1]
  <2>1. /\ a.op = "open" /\ a.stage = "answered" /\ a.on = named + 1
        /\ a.messages = r.messages /\ a.list = r.list /\ a.alone = r.alone
    BY <1>1, <1>4 DEF Call, ServeOpen, Sent
  <2>2. Becomes(r, a) /\ UNCHANGED <<page, history, sent, astray>> /\ named' = named + 1
    BY <1>4 DEF ServeOpen
  <2>. HIDE DEF a
  <2>3. named + 1 \in Threads
    BY <1>4, Numbers DEF ServeOpen, PageInv, Typed
  <2>4. PICK c \in customer_id(r.token) \ {None} : index' = [index EXCEPT ![named + 1] = c]
    BY <1>4 DEF ServeOpen
  <2>5. c \in Customers
    <3>1. r.token \in Tokens \cup {0}
      BY <1>0 DEF Call
    <3>2. \A k \in Tokens : holder[k] \in Customers
      BY PageAssumption DEF Tokens
    <3>. QED
      BY <2>4, <3>1, <3>2 DEF customer_id, verify_identity, verify_jwt
  <2>6. index' \in [Threads -> Customers \cup {None}]
    BY <1>3, <2>3, <2>4, <2>5
  <2>7. \A t \in Threads : t > named' => index'[t] = None
    BY <1>0, <1>3, <2>2, <2>4 DEF Threads
  <2>8. history[named + 1] = <<>>
    BY <1>0, <2>3 DEF ScreenInv, Numbered
  <2>9. Welcome(a, named + 1)
    BY <1>0, <1>2, <2>1, <2>8 DEF Welcome
  <2>. QED
    BY <1>0, <2>2, <2>6, <2>7, <2>9, GetsScreen
<1>5. CASE ServeResume(r)
  <2>. DEFINE a == [Answer(r) EXCEPT !.messages = history[r.on]]
  <2>1. r.op = "resume" /\ r.on \in Threads
    BY <1>0, <1>5 DEF ServeResume, Sent, Good
  <2>2. /\ a.op = r.op /\ a.stage = "answered" /\ a.on = r.on
        /\ a.messages = history[r.on] /\ a.list = r.list /\ a.alone = r.alone
    BY <1>1, <1>5 DEF Call, ServeResume, Sent
  <2>3. /\ Becomes(r, a) /\ UNCHANGED <<page, history, sent, astray>>
        /\ named' = named /\ index' = index
    BY <1>5 DEF ServeResume, service
  <2>. HIDE DEF a
  <2>4. Final(history[r.on])
    BY <2>1 DEF ScreenInv, Kept
  <2>5. Welcome(a, named)
    BY <1>0, <1>2, <2>1, <2>2, <2>4 DEF Welcome
  <2>. QED
    BY <1>0, <1>3, <2>3, <2>5, GetsScreen
<1>6. CASE ServeList(r)
  <2>1. PICK c \in customer_id(r.token) \ {None} :
          Becomes(r, [Answer(r) EXCEPT !.list = {t \in spoken : visible_to(c, t)}])
    BY <1>6 DEF ServeList
  <2>. DEFINE mine == {t \in spoken : visible_to(c, t)}
              a == [Answer(r) EXCEPT !.list = mine]
  <2>2. /\ a.op = "list" /\ a.stage = "answered" /\ a.on = r.on
        /\ a.messages = r.messages /\ a.list = mine /\ a.alone = r.alone
    BY <1>1, <1>6 DEF Call, ServeList, Sent
  <2>3. /\ Becomes(r, a) /\ UNCHANGED <<page, history, sent, astray>>
        /\ named' = named /\ index' = index
    BY <1>6, <2>1 DEF ServeList, service
  <2>4. mine \subseteq 1..named
    BY <1>0, <1>3, <2>1 DEF visible_to, Threads, PageInv, Typed
  <2>. HIDE DEF a, mine
  <2>5. r.op = "list" /\ ~r.alone
    BY <1>2, <1>6 DEF ServeList, Sent
  <2>6. Welcome(a, named)
    BY <1>2, <2>2, <2>4, <2>5 DEF Welcome
  <2>. QED
    BY <1>0, <1>3, <2>3, <2>6, GetsScreen
<1>. QED
  BY <1>4, <1>5, <1>6

-----------------------------------------------------------------------------
(* A transcript takes the place of what is shown.                            *)

LEMMA ShowsScreen ==
  ASSUME PageInv, ScreenInv, NEW r \in calls, r.op # "turn", Finish(r) \/ Refresh(r),
         UNCHANGED <<threads, busy, service, sent>>,
         thread' \in {None, r.on}, NEW s \in Seq(Entry), Final(s), entries' = s,
         astray' = ~r.alone,
         r.alone /\ thread' # None =>
           InOrder(s) /\ Sooner(s) /\ Agree(Range(s), Range(history[thread']))
  PROVE  ScreenInv'
<1>. DEFINE q == Request("list", None, 0, session)
<1>1. Welcome(q, named) /\ q.op # "turn"
  <2>1. named \in Nat /\ "list" \in Operations \ {"turn"} /\ None \in (1..named) \cup {None}
    BY Numbers DEF PageInv, Typed, Threads, Operations
  <2>2. Welcome(q, named)
    BY <2>1, Fresh
  <2>. QED
    BY <2>2 DEF Welcome
<1>2. calls' = calls \ {r} \/ calls' = (calls \ {r}) \cup {q}
  BY DEF Finish, Refresh, Becomes
<1>. HIDE DEF q
<1>3. Numbered /\ Alone /\ Kept
  BY DEF ScreenInv
<1>4. calls' \subseteq calls \cup {q} /\ \A p : p.op = "turn" => (p \in calls' => p \in calls)
  BY <1>1, <1>2
<1>5. /\ threads' \subseteq 1..named' /\ index' \in [Threads -> Customers \cup {None}]
      /\ \A t \in Threads : t > named' => index'[t] = None
      /\ thread' \in (1..named) \cup {None}
      /\ named' = named /\ history' = history /\ busy' = busy /\ sent' = sent
  BY <1>3 DEF Numbered, service
<1>6. Numbered' /\ Alone' /\ Kept'
  BY <1>1, <1>3, <1>4, <1>5, Joined
<1>7. r.alone => \A p \in calls' : p.op # "turn"
  BY <1>3, <1>4 DEF Alone
<1>8. Showing(s)'
  BY DEF Showing, Final
<1>9. Tracks(s)'
  BY <1>5, <1>7 DEF Tracks, Sooner
<1>10. astray' \in BOOLEAN
  BY DEF PageInv, Typed, Good, Call
<1>. QED
  BY <1>6, <1>8, <1>9, <1>10 DEF ScreenInv, Screen

-----------------------------------------------------------------------------
(* The turn in flight.                                                       *)

\* A message is sent.
LEMMA SendScreen == ASSUME PageInv, ScreenInv, Send PROVE ScreenInv'
<1>. DEFINE q == Request("turn", thread, sent + 1, session)
            met == {[r EXCEPT !.alone = FALSE] : r \in calls}
            e == entry("user", sent + 1)
<1>0. Typed /\ OneTurn /\ Numbered /\ Alone /\ Kept /\ Screen
  BY DEF PageInv, ScreenInv
<1>1. sent + 1 \in Turns /\ thread \in Threads /\ ~busy
  BY <1>0, Numbers DEF Send, Typed, enabled
<1>2. e \in Entry /\ e.kind = "user"
  BY <1>1, Entries
<1>3. /\ q.op = "turn" /\ q.on = thread /\ q.stage = "sent" /\ q.turn = sent + 1
      /\ q.messages = <<>> /\ q.list = {} /\ q.alone = FALSE /\ q.reply = "none"
  BY DEF Request
<1>4. \A r \in met : \E p \in calls : /\ r.op = p.op /\ r.on = p.on /\ r.stage = p.stage
                                      /\ r.messages = p.messages /\ r.list = p.list
                                      /\ r.token = p.token /\ r.alone = FALSE
  <2>. SUFFICES ASSUME NEW p \in calls, NEW r, r = [p EXCEPT !.alone = FALSE]
                PROVE  /\ r.op = p.op /\ r.on = p.on /\ r.stage = p.stage
                       /\ r.messages = p.messages /\ r.list = p.list
                       /\ r.token = p.token /\ r.alone = FALSE
    BY ZenonT(30)
  <2>1. p \in Call
    BY <1>0 DEF Typed, Good
  <2>. QED
    BY <2>1 DEF Call
<1>5. /\ calls' = met \cup {q} /\ busy' = TRUE /\ entries' = Append(entries, e)
      /\ UNCHANGED <<session, thread, threads, signed, index, history, named, astray, shut>>
  BY DEF Send, service
<1>6. \A r \in calls : r.op # "turn"
  BY <1>0, <1>1 DEF OneTurn
<1>7. Final(<<>>) /\ sent' = sent + 1 /\ sent \in Nat
  BY <1>0 DEF Final, Send, Typed, Turns
<1>. HIDE DEF q, met, e
<1>8. \A r \in calls' : r = q \/ r.op # "turn"
  BY <1>4, <1>5, <1>6
<1>9. Numbered'
  BY <1>0, <1>1, <1>3, <1>4, <1>5 DEF Numbered
<1>10. Alone'
  BY <1>3, <1>4, <1>5 DEF Alone
<1>11. Kept'
  <2>1. \A t \in Threads : \A x \in Range(history[t]) : x.turn \in Nat
    BY <1>0, OfEntries DEF Typed
  <2>2. \A t \in Threads : \A x \in Range(history'[t]) : x.turn <= sent' /\ x.turn # sent'
    BY <1>0, <1>5, <1>7, <2>1 DEF Kept, Sooner
  <2>3. \A r \in calls' : /\ Final(r.messages)
                          /\ r.op = "turn" => r.turn = sent + 1
    BY <1>0, <1>3, <1>4, <1>5, <1>6, <1>7, <1>8 DEF Kept
  <2>. QED
    BY <1>0, <1>5, <1>7, <2>2, <2>3 DEF Kept, Final, Sooner
<1>12. PICK s \in Seq(Entry) : Showing(s) /\ Tracks(s)
  BY <1>0 DEF Screen
<1>13. entries = s /\ Final(s)
  BY <1>6, <1>12 DEF Showing
<1>14. PICK w : w = Append(s, e)
  OBVIOUS
<1>15. /\ w \in Seq(Entry) /\ Final(w) /\ Range(w) = Range(s) \cup {e}
       /\ (\A d \in Range(s) : Before(d, e)) /\ InOrder(s) => InOrder(w)
  BY <1>2, <1>13, <1>14, OneMore
<1>16. e = entry("user", sent') /\ e.turn = sent'
  BY <1>1, <1>7, Entries DEF e
<1>17. Showing(w)'
  BY <1>5, <1>13, <1>14, <1>15 DEF Showing, Final
<1>18. ASSUME ~astray
       PROVE  /\ InOrder(w) /\ Sooner(w)'
              /\ \A x \in Range(w) : x.turn = sent' => x = e
              /\ Agree(Range(w), Range(history[thread]) \cup {e})
  <2>1. /\ InOrder(s) /\ Sooner(s) /\ Agree(Range(s), Range(history[thread]))
    BY <1>1, <1>12, <1>18, PageAssumption DEF Tracks, Threads
  <2>2. \A x \in Range(s) : x.turn \in Nat /\ x.turn <= sent
    BY <2>1, OfEntries DEF Sooner
  <2>3. \A x \in Range(s) : Before(x, e) /\ x.turn # sent' /\ x.turn <= sent'
    BY <1>7, <1>16, <2>2 DEF Before
  <2>4. Sooner(w)'
    <3>1. \A x \in Range(w) : x.turn <= sent'
      BY <1>7, <1>15, <1>16, <2>3
    <3>. QED
      BY <3>1 DEF Sooner
  <2>5. Agree(Range(w), Range(history[thread]) \cup {e})
    BY <1>15, <2>1 DEF Agree
  <2>. QED
    BY <1>15, <1>16, <2>1, <2>3, <2>4, <2>5
<1>19. Tracks(w)'
  BY <1>3, <1>5, <1>8, <1>16, <1>18 DEF Tracks
<1>. QED
  BY <1>0, <1>5, <1>9, <1>10, <1>11, <1>15, <1>17, <1>19 DEF ScreenInv, Screen

\* It gets on: what is on screen waits for what the checkpoint keeps of it.
LEMMA TurnGets ==
  ASSUME PageInv, ScreenInv, NEW r \in calls, r.op = "turn", r.stage # "answered", NEW a,
         a.op = "turn", a.on = r.on, a.turn = r.turn, a.list = r.list, a.messages = r.messages,
         a.alone = r.alone, a.stage # "sent", a.stage = "streaming" => a.token # 0,
         Becomes(r, a), UNCHANGED <<page, named, sent, astray>>,
         index' \in [Threads -> Customers \cup {None}],
         \A t \in Threads : t > named => index'[t] = None /\ history'[t] = <<>>,
         \A t \in Threads :
           /\ Final(history'[t]) /\ InOrder(history'[t])
           /\ \A e \in Range(history'[t]) : e.turn <= sent,
         a.stage # "answered" => history' = history,
         NEW said_now,
         said_now \subseteq {entry("user", r.turn), entry("aside", r.turn), entry("agent", r.turn)},
         entry("user", r.turn) \in said_now,
         a.stage = "answered" /\ a.reply \in {"turn", "unkept"} =>
           /\ Range(history'[r.on]) = Range(history[r.on]) \cup said_now
           /\ entry("agent", r.turn) \in said_now <=> a.reply = "turn"
  PROVE  ScreenInv'
<1>0. Typed /\ OneTurn /\ Numbered /\ Alone /\ Kept /\ Screen
  BY DEF PageInv, ScreenInv
<1>1. calls' = (calls \ {r}) \cup {a}
  BY DEF Becomes
<1>2. UNCHANGED <<thread, entries, threads, busy>>
  BY DEF page
<1>3. \A q \in calls : q.op = "turn" => q = r
  BY <1>0 DEF OneTurn
<1>4. \A q \in calls : q.alone => FALSE
  BY <1>0 DEF Alone
<1>5. busy
  BY <1>0 DEF OneTurn
<1>6. \A q \in calls' : q = a \/ (q \in calls /\ q.op # "turn")
  BY <1>1, <1>3
<1>7. Numbered'
  BY <1>0, <1>1, <1>2 DEF Numbered
<1>8. Alone'
  BY <1>4, <1>6 DEF Alone
<1>9. Kept'
  <2>1. \A t \in Threads : Sooner(history[t])'
    BY DEF Sooner
  <2>2. /\ Final(a.messages) /\ a.turn = sent
        /\ a.stage # "answered" => \A t \in Threads : \A e \in Range(history[t]) : e.turn # sent
    BY <1>0 DEF Kept
  <2>3. \A q \in calls' : /\ Final(q.messages)
                          /\ q.op = "turn" => q = a
    BY <1>0, <1>6, <2>2 DEF Kept
  <2>. QED
    BY <2>1, <2>2, <2>3 DEF Kept
<1>10. PICK s \in Seq(Entry) : Showing(s) /\ Tracks(s)
  BY <1>0 DEF Screen
<1>11. Showing(s)'
  <2>1. a \in calls'
    BY <1>1
  <2>2. CASE entries = s
    BY <1>2, <1>10, <2>2 DEF Showing, Final
  <2>3. CASE entries = Append(s, entry("live", r.turn))
    BY <1>2, <1>10, <2>1, <2>3 DEF Showing, Final
  <2>. QED
    BY <1>3, <1>10, <2>2, <2>3 DEF Showing
<1>12. PICK u, x, z : /\ u = entry("user", sent) /\ x = entry("aside", sent)
                      /\ z = entry("agent", sent)
  OBVIOUS
<1>13. r.turn = sent /\ x.kind = "aside"
  BY <1>0, <1>12 DEF Kept, entry
<1>14. ASSUME ~astray, thread # None
       PROVE  /\ r.on = thread /\ InOrder(s) /\ Sooner(s)
              /\ \A e \in Range(s) : e.turn = sent => e = u
              /\ Agree(Range(s), Range(history[thread]) \cup {u})
  BY <1>10, <1>12, <1>14 DEF Tracks
<1>15. ASSUME ~astray, thread # None, a.stage = "answered", a.reply = "turn"
       PROVE  Agree(Range(s) \cup {z}, Range(history'[thread]))
  BY <1>12, <1>13, <1>14, <1>15 DEF Agree
<1>16. ASSUME ~astray, thread # None, a.stage = "answered", a.reply = "unkept"
       PROVE  Agree(Range(s), Range(history'[thread]))
  BY <1>12, <1>13, <1>14, <1>16 DEF Agree
<1>17. Tracks(s)'
  BY <1>2, <1>5, <1>6, <1>12, <1>14, <1>15, <1>16 DEF Tracks, Sooner
<1>. QED
  BY <1>0, <1>7, <1>8, <1>9, <1>11, <1>17 DEF ScreenInv, Screen

\* What the checkpoint keeps of it comes after what was kept before.
LEMMA KeepsInOrder ==
  ASSUME PageInv, ScreenInv, NEW r \in calls, r.stage = "streaming", NEW k \in Nat,
         NEW answered \in BOOLEAN, Keeps(r, k, answered)
  PROVE  /\ Range(history'[r.on]) = Range(history[r.on]) \cup Range(said(r.turn, k, answered))
         /\ \A t \in Threads :
              /\ Final(history'[t]) /\ InOrder(history'[t])
              /\ \A e \in Range(history'[t]) : e.turn <= sent
              /\ t > named => history'[t] = <<>>
<1>0. Typed /\ Numbered /\ Kept /\ Good(r)
  BY DEF PageInv, Typed, ScreenInv
<1>1. r.op = "turn" /\ r.on \in Threads /\ r.turn \in Turns /\ r.turn = sent /\ sent \in Nat
  BY <1>0 DEF Good, Kept, Turns
<1>2. r.on \in 1..named /\ named \in Nat
  BY <1>0, <1>1, PageAssumption, Numbers DEF Numbered, Typed, Threads
<1>3. PICK h \in Seq(Entry) : h = history[r.on]
  BY <1>0, <1>1 DEF Typed
<1>4. PICK w : w = said(r.turn, k, answered)
  OBVIOUS
<1>5. /\ w \in Seq(Entry) /\ Final(w) /\ InOrder(w)
      /\ Range(w) \subseteq {entry("user", sent), entry("aside", sent), entry("agent", sent)}
  BY <1>1, <1>4, SaidIs
<1>6. \A e \in Range(w) : e.turn = sent
  BY <1>5 DEF entry
<1>7. \A d \in Range(h) : d.turn \in Nat /\ d.turn <= sent /\ d.turn # sent
  <2>1. \A d \in Range(h) : d.turn \in Nat
    BY OfEntries
  <2>. QED
    BY <1>0, <1>1, <1>3, <2>1 DEF Kept, Sooner
<1>8. Final(h) /\ InOrder(h)
  BY <1>0, <1>1, <1>3 DEF Kept
<1>9. /\ Range(h \o w) = Range(h) \cup Range(w) /\ Final(h \o w) /\ InOrder(h \o w)
  <2>1. \A d \in Range(h), e \in Range(w) : Before(d, e)
    BY <1>1, <1>6, <1>7 DEF Before
  <2>. QED
    BY <1>5, <1>8, <2>1, Longer
<1>10. history' = [history EXCEPT ![r.on] = h \o w]
  BY <1>3, <1>4 DEF Keeps
<1>11. \A e \in Range(h \o w) : e.turn <= sent
  BY <1>1, <1>6, <1>7, <1>9
<1>12. history'[r.on] = h \o w /\ \A t \in Threads : t # r.on => history'[t] = history[t]
  BY <1>0, <1>1, <1>10 DEF Typed
<1>13. ASSUME NEW t \in Threads
       PROVE  /\ Final(history'[t]) /\ InOrder(history'[t])
              /\ \A e \in Range(history'[t]) : e.turn <= sent
              /\ t > named => history'[t] = <<>>
  <2>1. CASE t = r.on
    <3>1. history'[t] = h \o w /\ ~(t > named)
      BY <1>2, <1>12, <2>1
    <3>. QED
      BY <1>9, <1>11, <3>1
  <2>2. CASE t # r.on
    BY <1>0, <1>12, <2>2 DEF Kept, Sooner, Numbered
  <2>. QED
    BY <2>1, <2>2
<1>. QED
  BY <1>3, <1>4, <1>9, <1>12, <1>13

\* What the service does of it.
LEMMA TurnServed ==
  ASSUME PageInv, ScreenInv, NEW r \in calls, ServeTurn(r) \/ Run(r) \/ Break(r)
  PROVE  ScreenInv'
<1>0. Typed /\ OneTurn /\ Numbered /\ Alone /\ Kept /\ Screen /\ Good(r) /\ r \in Call
  BY DEF PageInv, Typed, ScreenInv, Good
<1>1. r.op = "turn" /\ r.stage # "answered" /\ r.on \in Threads /\ r.turn \in Turns
  BY <1>0 DEF ServeTurn, Run, Break, Sent, Good
<1>2. /\ index \in [Threads -> Customers \cup {None}] /\ history \in [Threads -> Seq(Entry)]
      /\ \A t \in Threads : /\ t > named => index[t] = None /\ history[t] = <<>>
                            /\ Final(history[t])
      /\ named \in Nat /\ r.on \in 1..named
  BY <1>0, <1>1, Numbers, PageAssumption DEF Typed, Numbered, Kept, Threads
<1>3. CASE ServeTurn(r)
  <2>. DEFINE a == [r EXCEPT !.stage = "streaming"]
  <2>1. /\ a.op = "turn" /\ a.on = r.on /\ a.turn = r.turn /\ a.list = r.list
        /\ a.messages = r.messages /\ a.alone = r.alone /\ a.stage = "streaming"
        /\ a.token = r.token
    BY <1>0, <1>1 DEF Call
  <2>2. r.token # 0
    BY <1>3 DEF ServeTurn, customer_id
  <2>3. Becomes(r, a) /\ UNCHANGED <<page, index, history, named, sent, astray>>
    BY <1>3 DEF ServeTurn, service
  <2>. HIDE DEF a
  <2>4. \A t \in Threads : /\ Final(history'[t]) /\ InOrder(history'[t])
                           /\ \A e \in Range(history'[t]) : e.turn <= sent
    BY <1>0, <2>3 DEF Kept, Sooner
  <2>5. \A t \in Threads : t > named => index'[t] = None /\ history'[t] = <<>>
    BY <1>2, <2>3
  <2>. DEFINE one == {entry("user", r.turn)}
  <2>6. /\ one \subseteq {entry("user", r.turn), entry("aside", r.turn), entry("agent", r.turn)}
        /\ entry("user", r.turn) \in one
    OBVIOUS
  <2>. HIDE DEF one
  <2>. QED
    BY <1>1, <1>2, <2>1, <2>2, <2>3, <2>4, <2>5, <2>6, TurnGets
<1>4. ASSUME NEW reply \in {"turn", "unkept", "error", "broken"},
             Becomes(r, [Answer(r) EXCEPT !.reply = reply]), r.stage = "streaming",
             UNCHANGED <<page, named, sent, astray>>,
             index' \in [Threads -> Customers \cup {None}],
             \A t \in Threads : t > named => index'[t] = None,
             NEW k \in Nat, NEW answered \in BOOLEAN,
             Keeps(r, k, answered) \/ (history' = history /\ reply = "broken"),
             reply \in {"turn", "unkept"} => (answered <=> reply = "turn")
      PROVE  ScreenInv'
  <2>. DEFINE a == [Answer(r) EXCEPT !.reply = reply]
  <2>1. /\ a.op = "turn" /\ a.on = r.on /\ a.turn = r.turn /\ a.list = r.list
        /\ a.messages = r.messages /\ a.alone = r.alone /\ a.stage = "answered"
        /\ a.reply = reply
    BY <1>0, <1>1 DEF Answer, Call
  <2>2. Becomes(r, a)
    BY <1>4
  <2>. HIDE DEF a
  <2>3. \A t \in Threads : /\ Final(history'[t]) /\ InOrder(history'[t])
                           /\ \A e \in Range(history'[t]) : e.turn <= sent
                           /\ t > named => history'[t] = <<>>
    <3>1. CASE history' = history
      BY <1>0, <1>2, <3>1 DEF Kept, Sooner
    <3>2. CASE Keeps(r, k, answered)
      BY <1>4, <3>2, KeepsInOrder
    <3>. QED
      BY <1>4, <3>1, <3>2
  <2>. DEFINE now == Range(said(r.turn, k, answered))
  <2>4. /\ now \subseteq {entry("user", r.turn), entry("aside", r.turn), entry("agent", r.turn)}
        /\ entry("user", r.turn) \in now
        /\ entry("agent", r.turn) \in now <=> answered
    BY <1>1, <1>4, SaidIs
  <2>5. Keeps(r, k, answered) => Range(history'[r.on]) = Range(history[r.on]) \cup now
    BY <1>4, KeepsInOrder
  <2>. HIDE DEF now
  <2>6. a.stage = "answered" /\ a.reply \in {"turn", "unkept"} =>
           /\ Range(history'[r.on]) = Range(history[r.on]) \cup now
           /\ entry("agent", r.turn) \in now <=> a.reply = "turn"
    BY <1>4, <2>1, <2>4, <2>5
  <2>7. /\ \A t \in Threads : t > named => index'[t] = None /\ history'[t] = <<>>
        /\ \A t \in Threads : /\ Final(history'[t]) /\ InOrder(history'[t])
                              /\ \A e \in Range(history'[t]) : e.turn <= sent
    BY <1>4, <2>3
  <2>8. /\ a.stage # "sent" /\ (a.stage = "streaming" => a.token # 0)
        /\ a.stage # "answered" => history' = history
    BY <2>1
  <2>. QED
    BY <1>1, <1>4, <2>1, <2>2, <2>4, <2>6, <2>7, <2>8, TurnGets
<1>5. CASE Run(r)
  <2>1. PICK reply \in {"turn", "unkept", "error"}, k \in 0..MaxAsides :
          Keeps(r, k, reply = "turn") /\ Becomes(r, [Answer(r) EXCEPT !.reply = reply])
    BY <1>5 DEF Run
  <2>2. holder[r.token] \in Customers
    <3>1. r.token \in Tokens
      BY <1>0, <1>5 DEF Run, Numbered, Call
    <3>. QED
      BY <3>1, PageAssumption DEF Tokens
  <2>3. index' = [index EXCEPT ![r.on] = IF @ = None THEN holder[r.token] ELSE @]
    BY <1>5 DEF Run
  <2>4. /\ index' \in [Threads -> Customers \cup {None}]
        /\ \A t \in Threads : t > named => index'[t] = None
    BY <1>1, <1>2, <2>2, <2>3 DEF Threads
  <2>5. PICK answered \in BOOLEAN : answered = (reply = "turn")
    OBVIOUS
  <2>6. UNCHANGED <<page, named, sent, astray>> /\ r.stage = "streaming" /\ k \in Nat
    BY <1>5 DEF Run
  <2>7. Keeps(r, k, answered) /\ reply \in {"turn", "unkept", "error", "broken"}
    BY <2>1, <2>5
  <2>. QED
    BY <1>4, <2>1, <2>4, <2>5, <2>6, <2>7
<1>6. CASE Break(r)
  <2>1. /\ Becomes(r, [Answer(r) EXCEPT !.reply = "broken"])
        /\ UNCHANGED <<page, index, named, sent, astray>> /\ r.stage = "streaming"
    BY <1>6 DEF Break
  <2>2. PICK k \in Nat, answered \in BOOLEAN : Keeps(r, k, answered) \/ history' = history
    <3>1. CASE history' = history
      BY <3>1
    <3>2. CASE history' # history
      BY <1>6, <3>2 DEF Break
    <3>. QED
      BY <3>1, <3>2
  <2>. QED
    BY <1>2, <1>4, <2>1, <2>2
<1>. QED
  BY <1>3, <1>5, <1>6

\* It is over, and no request is left but what followed it.
LEMMA OverScreen ==
  ASSUME PageInv, ScreenInv, NEW r \in calls, r.op = "turn", Finish(r) \/ Refresh(r),
         UNCHANGED <<thread, threads, service, sent>>
  PROVE  Numbered' /\ Alone' /\ Kept' /\ \A q \in calls' : q.op # "turn"
<1>. DEFINE q == Request("list", None, 0, session)
<1>1. Welcome(q, named) /\ q.op # "turn"
  <2>1. named \in Nat /\ "list" \in Operations \ {"turn"} /\ None \in (1..named) \cup {None}
    BY Numbers DEF PageInv, Typed, Threads, Operations
  <2>2. Welcome(q, named)
    BY <2>1, Fresh
  <2>. QED
    BY <2>2 DEF Welcome
<1>2. calls' = calls \ {r} \/ calls' = (calls \ {r}) \cup {q}
  BY DEF Finish, Refresh, Becomes
<1>. HIDE DEF q
<1>3. Numbered /\ Alone /\ Kept
  BY DEF ScreenInv
<1>4. /\ calls' \subseteq calls \cup {q} /\ \A p : p.op = "turn" => (p \in calls' => p \in calls)
      /\ threads' \subseteq 1..named' /\ index' \in [Threads -> Customers \cup {None}]
      /\ \A t \in Threads : t > named' => index'[t] = None
      /\ thread' \in (1..named) \cup {None}
      /\ named' = named /\ history' = history /\ sent' = sent
  BY <1>1, <1>2, <1>3 DEF Numbered, service
<1>5. Numbered' /\ Alone' /\ Kept'
  BY <1>1, <1>3, <1>4, Joined
<1>6. \A p \in calls' : p.op # "turn"
  BY <1>1, <1>2 DEF PageInv, OneTurn
<1>. QED
  BY <1>5, <1>6

\* Its answer, its error or its silence takes the place of the placeholder.
LEMMA EndsScreen ==
  ASSUME PageInv, ScreenInv, NEW r \in calls, r.op = "turn",
         NEW kind \in {"agent", "unkept", "error"}, Ends(r, kind), astray' \in BOOLEAN,
         ~astray' => /\ ~astray /\ r.stage = "answered"
                     /\ \/ kind = "agent" /\ r.reply = "turn"
                        \/ kind = "unkept" /\ r.reply = "unkept"
  PROVE  ScreenInv'
<1>0. Typed /\ OneTurn /\ Numbered /\ Alone /\ Kept /\ Screen /\ r.turn \in Turns
  BY DEF PageInv, Typed, ScreenInv, Good
<1>1. PICK e \in Entry : e = entry(kind, r.turn) /\ e.kind = kind /\ e.turn = r.turn
  BY <1>0, Entries
<1>2. /\ entries' = Append(without_live, e) /\ ~busy'
      /\ UNCHANGED <<thread, threads, service, sent>> /\ Refresh(r)
  BY <1>1 DEF Ends
<1>3. Numbered' /\ Alone' /\ Kept' /\ \A q \in calls' : q.op # "turn"
  BY <1>2, OverScreen
<1>4. PICK s \in Seq(Entry) : Showing(s) /\ Tracks(s)
  BY <1>0 DEF Screen
<1>5. without_live = s
  <2>1. CASE entries = s
    BY <1>4, <2>1, Without DEF Showing
  <2>2. CASE entries = Append(s, entry("live", r.turn))
    <3>1. entry("live", r.turn) \in Entry /\ entry("live", r.turn).kind = "live"
      BY <1>0, Entries
    <3>2. Final(s)
      BY <1>4 DEF Showing
    <3>. QED
      BY <2>2, <3>1, <3>2, Without
  <2>. QED
    BY <1>0, <1>4, <2>1, <2>2 DEF Showing, OneTurn
<1>6. PICK w \in Seq(Entry) :
        /\ w = Append(s, e) /\ Final(w) /\ Range(w) = Range(s) \cup {e}
        /\ (\A d \in Range(s) : Before(d, e)) /\ InOrder(s) => InOrder(w)
  <2>1. Final(s) /\ e.kind # "live"
    BY <1>1, <1>4 DEF Showing
  <2>. QED
    BY <2>1, OneMore
<1>7. Showing(w)'
  BY <1>2, <1>5, <1>6 DEF Showing, Final
<1>8. r.turn = sent
  BY <1>0 DEF Kept
<1>9. ASSUME ~astray', thread # None
      PROVE  InOrder(w) /\ Sooner(w) /\ Agree(Range(w), Range(history[thread]))
  <2>1. /\ InOrder(s) /\ Sooner(s) /\ \A d \in Range(s) : d.turn = sent => d = entry("user", sent)
        /\ kind = "agent" => Agree(Range(s) \cup {entry("agent", sent)}, Range(history[thread]))
        /\ kind = "unkept" => Agree(Range(s), Range(history[thread]))
    BY <1>4, <1>9 DEF Tracks
  <2>2. \A d \in Range(s) : d.turn \in Nat /\ d.turn <= sent
    BY <2>1, OfEntries DEF Sooner
  <2>3. \A d \in Range(s) : Before(d, e)
    <3>1. entry("user", sent).kind = "user" /\ e.kind # "user" /\ e.turn = sent /\ sent \in Nat
      BY <1>0, <1>1, <1>8, Entries DEF Turns
    <3>. QED
      BY <2>1, <2>2, <3>1 DEF Before
  <2>4. Sooner(w)
    <3>1. e.turn <= sent
      BY <1>0, <1>1, <1>8 DEF Turns
    <3>. QED
      BY <1>6, <2>1, <3>1 DEF Sooner
  <2>5. CASE kind = "agent"
    BY <1>1, <1>6, <1>8, <2>1, <2>3, <2>4, <2>5
  <2>6. CASE kind = "unkept"
    <3>1. Agree(Range(w), Range(history[thread]))
      BY <1>1, <1>6, <2>1, <2>6 DEF Agree
    <3>. QED
      BY <1>6, <2>1, <2>3, <2>4, <3>1
  <2>. QED
    BY <1>9, <2>5, <2>6
<1>10. Tracks(w)'
  BY <1>2, <1>3, <1>9 DEF Tracks, Sooner, service
<1>. QED
  BY <1>3, <1>7, <1>10 DEF ScreenInv, Screen

\* It is refused: there was no placeholder yet.
LEMMA RefusedScreen ==
  ASSUME PageInv, ScreenInv, NEW r \in calls, r.op = "turn", SignOut(r) PROVE ScreenInv'
<1>0. OneTurn /\ Screen
  BY DEF PageInv, ScreenInv
<1>1. /\ r.stage = "sent" /\ astray' = TRUE /\ entries' = entries
      /\ UNCHANGED <<thread, threads, service, sent>> /\ Finish(r)
  BY DEF SignOut, Refused
<1>2. Numbered' /\ Alone' /\ Kept'
  BY <1>1, OverScreen
<1>3. PICK s \in Seq(Entry) : Showing(s) /\ Tracks(s)
  BY <1>0 DEF Screen
<1>4. entries = s /\ Final(s)
  BY <1>0, <1>1, <1>3 DEF Showing, OneTurn
<1>5. Showing(s)'
  BY <1>1, <1>4 DEF Showing, Final
<1>6. Tracks(s)'
  BY <1>1 DEF Tracks
<1>. QED
  BY <1>1, <1>2, <1>5, <1>6 DEF ScreenInv, Screen

\* A frame of its stream is drawn.
LEMMA FrameScreen == ASSUME PageInv, ScreenInv, NEW r \in calls, Frame(r) PROVE ScreenInv'
<1>0. /\ OneTurn /\ Numbered /\ Alone /\ Kept /\ Screen
      /\ r.op = "turn" /\ r.stage # "sent" /\ r.turn \in Turns
  BY DEF PageInv, ScreenInv, Frame, Typed, Good
<1>1. /\ UNCHANGED <<thread, threads, busy, calls, index, history, named, sent, astray>>
      /\ entries' = Append(without_live, entry("live", r.turn))
  BY DEF Frame, with_live_rail, service
<1>2. Numbered' /\ Alone' /\ Kept'
  BY <1>0, <1>1 DEF Numbered, Alone, Kept, Final, Sooner
<1>3. PICK s \in Seq(Entry) : Showing(s) /\ Tracks(s)
  BY <1>0 DEF Screen
<1>4. without_live = s
  <2>0. Final(s)
    BY <1>3 DEF Showing
  <2>1. CASE entries = s
    BY <2>0, <2>1, Without
  <2>2. CASE entries = Append(s, entry("live", r.turn))
    <3>1. entry("live", r.turn) \in Entry /\ entry("live", r.turn).kind = "live"
      BY <1>0, Entries
    <3>. QED
      BY <2>0, <2>2, <3>1, Without
  <2>. QED
    BY <1>0, <1>3, <2>1, <2>2 DEF Showing, OneTurn
<1>5. Showing(s)'
  BY <1>0, <1>1, <1>3, <1>4 DEF Showing, Final
<1>6. Tracks(s)'
  BY <1>1, <1>3 DEF Tracks, Sooner
<1>. QED
  BY <1>0, <1>1, <1>2, <1>5, <1>6 DEF ScreenInv, Screen

-----------------------------------------------------------------------------
(* Every step.                                                               *)

LEMMA ClickScreen == ASSUME PageInv, ScreenInv, Click PROVE ScreenInv'
<1>0. None \in (1..named) \cup {None} /\ \A t \in threads : t \in (1..named) \cup {None}
  BY DEF ScreenInv, Numbered
<1>1. CASE SignIn
  BY <1>0, <1>1, AskedScreen DEF SignIn, open_one, Operations
<1>2. CASE New
  BY <1>0, <1>2, AskedScreen DEF New, page, Operations
<1>3. ASSUME NEW t \in Threads, Pick(t) PROVE ScreenInv'
  BY <1>0, <1>3, AskedScreen DEF Pick, page, Operations
<1>4. ASSUME NEW t \in Threads, Remove(t) PROVE ScreenInv'
  <2>1. /\ t \in (1..named) \cup {None} /\ "delete" \in Operations \ {"turn"}
        /\ Ask("delete", t, session) /\ threads' \subseteq threads
        /\ UNCHANGED <<thread, entries, busy, service, sent, astray>>
    BY <1>0, <1>4 DEF Remove, Operations
  <2>. QED
    BY <2>1, AskedScreen
<1>5. CASE Send
  BY <1>5, SendScreen
<1>. QED
  BY <1>1, <1>2, <1>3, <1>4, <1>5 DEF Click

LEMMA ArriveScreen == ASSUME PageInv, ScreenInv, NEW r \in calls, Arrive(r) PROVE ScreenInv'
<1>0. /\ astray \in BOOLEAN /\ threads \subseteq 1..named /\ Final(r.messages)
      /\ r.list \subseteq 1..named
      /\ index \in [Threads -> Customers \cup {None}]
      /\ \A t \in Threads : t > named => index[t] = None
      /\ Good(r) /\ r \in Call
  BY DEF ScreenInv, Screen, Numbered, Kept, PageInv, Typed, Good
<1>1. CASE SignOut(r)
  <2>1. CASE r.op = "turn"
    BY <1>1, <2>1, RefusedScreen
  <2>2. CASE r.op # "turn"
    <3>1. astray' = astray
      BY <1>0, <1>1, <2>2 DEF SignOut
    <3>. QED
      BY <1>0, <1>1, <2>2, <3>1, DoneScreen DEF SignOut, service
  <2>. QED
    BY <2>1, <2>2
<1>2. CASE GiveUp(r)
  BY <1>0, <1>2, DoneScreen DEF GiveUp, page, service
<1>3. CASE Opened(r)
  <2>1. r.op = "open" /\ r.stage = "answered" /\ astray' = ~r.alone /\ Refresh(r)
    BY <1>3 DEF Opened, Landed
  <2>2. PICK w \in Seq(Entry) : w = greeting /\ Final(w) /\ InOrder(w) /\ Sooner(w)
                               /\ Agree(Range(w), {})
    <3>. DEFINE g == entry("greeting", 0)
    <3>1. g \in Entry /\ g.kind = "greeting" /\ g.turn = 0
      BY DEF entry, Entry
    <3>2. sent \in Nat
      BY DEF PageInv, Typed, Turns
    <3>3. PICK e \in Entry : e = g
      BY <3>1
    <3>4. /\ <<e>> \in Seq(Entry) /\ Range(<<e>>) = {e} /\ InOrder(<<e>>) /\ Final(<<e>>)
      BY <3>1, <3>3, Single
    <3>5. Sooner(<<e>>) /\ Agree({e}, {})
      BY <3>1, <3>2, <3>3, <3>4 DEF Sooner, Agree
    <3>6. Sooner(<<>>) /\ Agree({}, {})
      BY Nothing DEF Sooner, Agree
    <3>7. CASE Greets
      BY <3>3, <3>4, <3>5, <3>7 DEF greeting
    <3>8. CASE ~Greets
      BY <3>6, <3>8, Nothing DEF greeting
    <3>. QED
      BY <3>7, <3>8
  <2>3. r.alone /\ r.on # None => Range(history[r.on]) = {}
    BY <2>1, Nothing DEF ScreenInv, Alone
  <2>4. thread' = r.on /\ entries' = w /\ UNCHANGED <<threads, busy, service, sent>>
    BY <1>3, <2>2 DEF Opened, show
  <2>5. r.alone /\ thread' # None =>
           InOrder(w) /\ Sooner(w) /\ Agree(Range(w), Range(history[thread']))
    BY <2>2, <2>3, <2>4
  <2>6. thread' \in {None, r.on} /\ r.op # "turn"
    BY <2>1, <2>4
  <2>. QED
    BY <2>1, <2>2, <2>4, <2>5, <2>6, ShowsScreen
<1>4. CASE Resumed(r)
  <2>1. r.op = "resume" /\ r.stage = "answered" /\ astray' = ~r.alone /\ Finish(r)
    BY <1>4 DEF Resumed, Landed
  <2>2. entries' = r.messages /\ r.messages \in Seq(Entry)
    BY <1>0, <1>4 DEF Resumed, show, Call
  <2>3. thread' \in {None, r.on} /\ (r.alone => r.messages = history[r.on])
    BY <1>4, <2>1 DEF Resumed, ScreenInv, Alone
  <2>4. r.on \in Threads
    BY <1>0, <2>1 DEF Good
  <2>5. \A x : Agree(x, x)
    BY DEF Agree
  <2>6. r.alone /\ thread' # None =>
           /\ InOrder(r.messages) /\ Sooner(r.messages)
           /\ Agree(Range(r.messages), Range(history[thread']))
    BY <2>3, <2>4, <2>5 DEF ScreenInv, Kept
  <2>7. UNCHANGED <<threads, busy, service, sent>> /\ r.op # "turn"
    BY <1>4, <2>1 DEF Resumed
  <2>. QED
    BY <1>0, <2>1, <2>2, <2>3, <2>6, <2>7, ShowsScreen
<1>5. CASE Listed(r)
  BY <1>0, <1>5, DoneScreen DEF Listed, Landed, service
<1>6. CASE Removed(r)
  <2>1. r.op = "delete" /\ Refresh(r)
    BY <1>6 DEF Removed, Sent
  <2>2. UNCHANGED <<thread, entries, threads, busy, history, named, sent, astray>>
    BY <1>6 DEF Removed, page
  <2>3. index' = index \/ index' = [index EXCEPT ![r.on] = None]
    BY <1>6 DEF Removed
  <2>4. /\ index' \in [Threads -> Customers \cup {None}]
        /\ \A t \in Threads : t > named => index'[t] = None
    BY <1>0, <2>3
  <2>. QED
    BY <1>0, <2>1, <2>2, <2>4, DoneScreen
<1>7. CASE TurnAnswered(r)
  BY <1>0, <1>7, EndsScreen DEF TurnAnswered, Landed
<1>8. CASE TurnUnkept(r)
  BY <1>8, EndsScreen DEF TurnUnkept, Landed
<1>9. CASE TurnFailed(r)
  BY <1>9, EndsScreen DEF TurnFailed
<1>. QED
  BY <1>1, <1>2, <1>3, <1>4, <1>5, <1>6, <1>7, <1>8, <1>9 DEF Arrive

LEMMA ScreenInit == Init => ScreenInv
<1>. SUFFICES ASSUME Init PROVE ScreenInv
  OBVIOUS
<1>1. /\ thread = None /\ entries = <<>> /\ threads = {} /\ calls = {} /\ named = 0
      /\ index = [t \in Threads |-> None] /\ history = [t \in Threads |-> <<>>]
      /\ astray = FALSE
  BY DEF Init
<1>2. /\ Final(<<>>) /\ <<>> \in Seq(Entry) /\ InOrder(<<>>) /\ Range(<<>>) = {}
      /\ Sooner(<<>>)
  BY Nothing DEF Sooner
<1>3. Numbered
  BY <1>1 DEF Numbered
<1>4. Alone /\ Kept
  BY <1>1, <1>2 DEF Alone, Kept
<1>5. Showing(<<>>) /\ Tracks(<<>>)
  BY <1>1, <1>2 DEF Showing, Tracks
<1>6. Screen
  BY <1>1, <1>2, <1>5 DEF Screen
<1>. QED
  BY <1>3, <1>4, <1>6 DEF ScreenInv

\* What is on screen follows what the service keeps, in every state of the page.
THEOREM ScreenInductive == Spec => []ScreenInv
<1>1. PageInv /\ ScreenInv /\ [Next]_vars => ScreenInv'
  <2>. SUFFICES ASSUME PageInv, ScreenInv, [Next]_vars PROVE ScreenInv'
    OBVIOUS
  <2>1. CASE Click
    BY <2>1, ClickScreen
  <2>2. ASSUME NEW r \in calls, Serve(r) \/ Break(r) PROVE ScreenInv'
    BY <2>2, ServeScreen, TurnServed DEF Serve
  <2>3. ASSUME NEW r \in calls, Arrive(r) PROVE ScreenInv'
    BY <2>3, ArriveScreen
  <2>4. ASSUME NEW r \in calls, Frame(r) PROVE ScreenInv'
    BY <2>4, FrameScreen
  <2>5. CASE UNCHANGED vars
    <3>1. UNCHANGED <<thread, entries, threads, busy, calls, index, history, named, sent, astray>>
      BY <2>5 DEF vars, page, service
    <3>2. Numbered' /\ Alone' /\ Kept'
      BY <3>1 DEF ScreenInv, Numbered, Alone, Kept, Final, Sooner
    <3>3. Screen'
      BY <3>1, SameScreen DEF ScreenInv
    <3>. QED
      BY <3>2, <3>3 DEF ScreenInv
  <2>. QED
    BY <2>1, <2>2, <2>3, <2>4, <2>5 DEF Next
<1>. QED
  BY <1>1, ScreenInit, PageInductive, PTL DEF Spec

\* The variables have their types: the entries on screen, whatever landed on them.
THEOREM PageTypes == Spec => []TypeOK
<1>1. PageInv /\ ScreenInv => TypeOK
  <2>. SUFFICES ASSUME PageInv, ScreenInv PROVE TypeOK
    OBVIOUS
  <2>1. PICK s \in Seq(Entry) : Showing(s)
    BY DEF ScreenInv, Screen
  <2>2. \A r \in calls : r.op = "turn" => entry("live", r.turn) \in Entry
    BY Entries DEF PageInv, Typed, Good
  <2>3. entries \in Seq(Entry)
    BY <2>1, <2>2 DEF Showing
  <2>4. calls \subseteq Call
    BY DEF PageInv, Typed, Good
  <2>. QED
    BY <2>3, <2>4 DEF TypeOK, PageInv, Typed, ScreenInv, Numbered, Screen
<1>. QED
  BY <1>1, PageInductive, ScreenInductive, PTL

\* One placeholder at most, and it is the one of the turn in flight.
THEOREM OneRail == Spec => []OneLiveRail
<1>1. PageInv /\ ScreenInv => OneLiveRail
  <2>. SUFFICES ASSUME PageInv, ScreenInv PROVE OneLiveRail
    OBVIOUS
  <2>. DEFINE live == {i \in DOMAIN entries : entries[i].kind = "live"}
  <2>1. PICK s \in Seq(Entry) : Showing(s)
    BY DEF ScreenInv, Screen
  <2>2. CASE entries = s
    <3>1. DOMAIN entries = 1..Len(s)
      BY <2>2
    <3>2. live = {}
      BY <2>1, <2>2, <3>1 DEF Showing, Final
    <3>. QED
      BY <3>2 DEF OneLiveRail
  <2>3. ASSUME NEW r \in calls, r.op = "turn", entries = Append(s, entry("live", r.turn))
        PROVE  OneLiveRail
    <3>1. entry("live", r.turn) \in Entry /\ entry("live", r.turn).turn = r.turn
      BY <2>3, Entries DEF PageInv, Typed, Good
    <3>2. /\ DOMAIN entries = 1..(Len(s) + 1) /\ Len(s) \in Nat
          /\ \A i \in 1..Len(s) : entries[i] = s[i]
          /\ entries[Len(s) + 1] = entry("live", r.turn)
      BY <2>3, <3>1, OneMore
    <3>3. live \subseteq {Len(s) + 1}
      BY <2>1, <3>2 DEF Showing, Final
    <3>4. r \in InFlight({"turn"})
      BY <2>3 DEF InFlight
    <3>. QED
      BY <3>1, <3>2, <3>3, <3>4 DEF OneLiveRail
  <2>. QED
    BY <2>1, <2>2, <2>3 DEF Showing
<1>. QED
  BY <1>1, PageInductive, ScreenInductive, PTL

\* With no turn in flight, and none that failed or met a transcript on its way, the page shows
\* the questions and answers that the service keeps of the conversation, once and in their
\* order, and nothing else but its greeting, answers no transcript has and what was said beside one.
THEOREM Shown == Spec => []ShownIsWhatWasSaid
<1>1. PageInv /\ ScreenInv => ShownIsWhatWasSaid
  <2>. SUFFICES ASSUME PageInv, ScreenInv, thread # None, ~busy, ~astray
                PROVE  Agree(Range(entries), Range(history[thread])) /\ InOrder(entries)
    BY DEF ShownIsWhatWasSaid
  <2>1. \A r \in calls : r.op # "turn"
    BY DEF PageInv, OneTurn
  <2>2. PICK s \in Seq(Entry) : Showing(s) /\ Tracks(s)
    BY DEF ScreenInv, Screen
  <2>. QED
    BY <2>1, <2>2 DEF Showing, Tracks
<1>. QED
  BY <1>1, PageInductive, ScreenInductive, PTL
=============================================================================
