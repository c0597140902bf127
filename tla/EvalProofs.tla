----------------------------- MODULE EvalProofs -----------------------------
(***************************************************************************)
(* What an evaluation owes its cases, whatever broke on the way: every     *)
(* check of a case that is over has been counted, what a check found is in *)
(* the report or its conversation broke, and no conversation stays behind  *)
(* unnoticed.  And what its report is worth: rates are rates, a crossed    *)
(* bar is reported, an exit code of 0 is a clean run.  And that it ends:   *)
(* no slot is lost, and no step leaves it as far from its end as it was.   *)
(* For any golden set, any answers, any bars, any history and any number   *)
(* of slots.                                                               *)
(***************************************************************************)
EXTENDS EvalRun, FiniteSetTheorems, TLAPS

-----------------------------------------------------------------------------
(* The inductive invariant: what is true of a case at each place.            *)

\* The checks of the first n turns of a case.
owed(c, n) == UNION {keys_for(cases[c], place) : place \in 1..n}
\* A turn of the case broke.
broke(c) == \E f \in findings[c] : f.check = "turn"

Shape ==
  /\ at \in [Cases -> Places]
  /\ thread \in [Cases -> BOOLEAN]
  /\ observations \in [Cases -> Seq(Answer)]
  /\ findings = [c \in Cases |-> findings[c]]
  /\ checks = [c \in Cases |-> checks[c]]
  /\ found = [c \in Cases |-> found[c]]
  /\ report = [k \in DOMAIN report |-> report[k]] /\ "findings" \in DOMAIN report

Phases ==
  /\ step = "idle" => \A c \in Cases : at[c] = "waiting"
  /\ HasScore => /\ \A c \in Cases : at[c] = "done"
                 /\ report.findings = UNION {findings[c] : c \in Cases}
  /\ step = "broken" => \A c \in Cases : thread[c] => c \in lost

\* The checks counted so far are those of the turns so far.
Counted(c) ==
  /\ at[c] \in {"waiting", "opening"} =>
       checks[c] = <<>> /\ observations[c] = <<>> /\ ~broke(c)
  /\ at[c] = "driving" =>
       /\ DOMAIN checks[c] = owed(c, Len(observations[c]))
       /\ Len(observations[c]) < cases[c].turns
       /\ ~broke(c)
  /\ at[c] = "scoring" => DOMAIN checks[c] = owed(c, cases[c].turns) /\ ~broke(c)
  /\ at[c] \in {"closing", "done"} =>
       /\ DOMAIN checks[c] = all_checks(cases[c])
       /\ broke(c) => \A k \in DOMAIN checks[c] : ~checks[c][k]

Kept(c) == broke(c) \/ found[c] \subseteq findings[c]

Deleted(c) ==
  /\ at[c] \in {"waiting", "opening"} => ~thread[c]
  /\ at[c] = "done" /\ thread[c] => c \in lost

EvalInv == Shape /\ Phases /\ \A c \in Cases : Counted(c) /\ Kept(c) /\ Deleted(c)

-----------------------------------------------------------------------------
(* Lemmas.                                                                   *)

\* Nothing is owed before the first turn; each turn adds its own; with the case's own
\* checks it is all of them.
LEMMA Owed ==
  ASSUME NEW c \in Cases
  PROVE  /\ owed(c, 0) = {}
         /\ \A n \in Nat : owed(c, n + 1) = owed(c, n) \cup keys_for(cases[c], n + 1)
         /\ all_checks(cases[c]) = owed(c, cases[c].turns) \cup keys_for(cases[c], 0)
<1>1. owed(c, 0) = {}
  BY DEF owed
<1>2. ASSUME NEW n \in Nat
      PROVE  owed(c, n + 1) = owed(c, n) \cup keys_for(cases[c], n + 1)
  <2>1. 1..(n + 1) = 1..n \cup {n + 1}
    OBVIOUS
  <2>. QED
    BY <2>1 DEF owed
<1>3. all_checks(cases[c]) = owed(c, cases[c].turns) \cup keys_for(cases[c], 0)
  <2>1. cases[c].turns \in Nat
    BY EvalAssumption DEF Case
  <2>2. 0..cases[c].turns = 1..cases[c].turns \cup {0}
    BY <2>1
  <2>. QED
    BY <2>2 DEF owed, all_checks
<1>. QED
  BY <1>1, <1>2, <1>3

\* A check has the name of its kind.
LEMMA NotATurn == ASSUME NEW x \in Check PROVE x.check # "turn"
<1>1. contains.check = "contains"
  BY DEF contains, check
<1>2. not_contains.check = "not_contains"
  BY DEF not_contains, check
<1>3. calls_tools.check = "calls_tools"
  BY DEF calls_tools, check
<1>4. blocks.check = "blocks" /\ does_not_block.check = "does_not_block"
  BY DEF blocks, does_not_block, check
<1>5. \A kind : judge(kind).check = "judge"
  BY DEF judge, check
<1>. QED
  BY <1>1, <1>2, <1>3, <1>4, <1>5 DEF Check

\* No check a case declares is called "turn", the name of what is blamed on a broken one.
LEMMA ChecksAreNotTurns ==
  ASSUME NEW c \in Cases, NEW place \in Nat, NEW k \in keys_for(cases[c], place), NEW a,
         NEW turn
  PROVE  finding(checks_for(cases[c], place)[k[2]], a, turn).check # "turn"
<1>. DEFINE list == checks_for(cases[c], place)
<1>1. list \in Seq(Check)
  <2>1. cases[c].checks \in Seq(Check) /\ cases[c].turn_checks \in Seq(Seq(Check))
    BY EvalAssumption DEF Case
  <2>2. place \in DOMAIN cases[c].turn_checks => cases[c].turn_checks[place] \in Seq(Check)
    BY <2>1
  <2>. QED
    BY <2>1, <2>2 DEF checks_for
<1>2. k[2] \in DOMAIN list
  BY DEF keys_for
<1>. HIDE DEF list
<1>3. list[k[2]] \in Check
  BY <1>1, <1>2
<1>4. list[k[2]].check # "turn"
  BY <1>3, NotATurn
<1>. QED
  BY <1>4 DEF finding, list

\* What apply_checks leaves: findings and found grow by the same, never by a broken turn,
\* and the place's checks are counted.
LEMMA Applied ==
  ASSUME Shape, NEW c \in Cases, NEW place \in Nat, NEW a, NEW turn,
         apply_checks(c, place, a, turn)
  PROVE  \E fresh :
           /\ \A f \in fresh : f.check # "turn"
           /\ findings' = [findings EXCEPT ![c] = findings[c] \cup fresh]
           /\ found' = [found EXCEPT ![c] = found[c] \cup fresh]
           /\ \E results :
                /\ checks' = [checks EXCEPT ![c] = results]
                /\ DOMAIN results = DOMAIN checks[c] \cup keys_for(cases[c], place)
<1>. DEFINE keys == keys_for(cases[c], place)
            owes(k) == checks_for(cases[c], place)[k[2]]
            fresh == {finding(owes(k), a, turn) : k \in {k \in keys : fails(owes(k), a)}}
            results == [k \in DOMAIN checks[c] \cup keys |->
                          IF k \in keys THEN ~fails(owes(k), a) ELSE checks[c][k]]
<1>1. \A f \in fresh : f.check # "turn"
  BY ChecksAreNotTurns
<1>2. /\ findings' = [findings EXCEPT ![c] = findings[c] \cup fresh]
      /\ found' = [found EXCEPT ![c] = found[c] \cup fresh]
      /\ checks' = [checks EXCEPT ![c] = results]
  BY Zenon DEF apply_checks, extends
<1>3. DOMAIN results = DOMAIN checks[c] \cup keys
  OBVIOUS
<1>. HIDE DEF fresh, results
<1>. QED
  BY <1>1, <1>2, <1>3

\* Cases do not meet: what holds of one is not touched by a step of another.
LEMMA Others ==
  ASSUME EvalInv, NEW c \in Cases,
         at'[c] = at[c], thread'[c] = thread[c], observations'[c] = observations[c],
         findings'[c] = findings[c], checks'[c] = checks[c], found'[c] = found[c],
         lost \subseteq lost'
  PROVE  Counted(c)' /\ Kept(c)' /\ Deleted(c)'
BY DEF EvalInv, Counted, Kept, Deleted, broke, owed

\* A turn that never said how it went is an answer nonetheless.
LEMMA NoAnswerIsOne == NoAnswer \in Answer
BY DEF NoAnswer, Answer, Verdicts

-----------------------------------------------------------------------------
(* One step of one case.                                                     *)

\* A broken case: every check it declares is there, and failed.
LEMMA FailedEverything ==
  ASSUME EvalInv, NEW c \in Cases, NEW obs \in Answer, NEW turn,
         step = "driving", step' = step, report' = report,
         _failed_everything(c, obs, turn), UNCHANGED found,
         NEW place \in {"closing", "done"}, at' = [at EXCEPT ![c] = place],
         NEW there \in BOOLEAN, thread' = [thread EXCEPT ![c] = there],
         lost \subseteq lost', place = "done" /\ there => c \in lost'
  PROVE  EvalInv'
<1>. DEFINE blame == [turn |-> turn, kind |-> "ERROR", check |-> "turn", source |-> "check"]
<1>0. Shape /\ at \in [Cases -> Places] /\ thread \in [Cases -> BOOLEAN]
  BY DEF EvalInv, Shape
<1>1. /\ observations' = [observations EXCEPT ![c] = <<obs>>]
      /\ findings' = [findings EXCEPT ![c] = {blame}]
      /\ checks' = [checks EXCEPT ![c] = all_failed(c)]
  BY DEF _failed_everything, keeps
<1>2. Shape'
  <2>1. <<obs>> \in Seq(Answer)
    OBVIOUS
  <2>. QED
    BY <1>0, <1>1, <2>1 DEF Shape, Places
<1>3. Phases'
  BY DEF EvalInv, Phases, HasScore
<1>4. findings'[c] = {blame} /\ checks'[c] = all_failed(c) /\ at'[c] = place
        /\ thread'[c] = there
  BY <1>0, <1>1 DEF Shape
<1>5. Counted(c)' /\ Kept(c)' /\ Deleted(c)'
  <2>1. broke(c)'
    BY <1>4 DEF broke
  <2>2. DOMAIN all_failed(c) = all_checks(cases[c])
        /\ \A k \in DOMAIN all_failed(c) : ~all_failed(c)[k]
    BY DEF all_failed
  <2>. QED
    BY <1>4, <2>1, <2>2 DEF Counted, Kept, Deleted
<1>6. ASSUME NEW d \in Cases, d # c PROVE Counted(d)' /\ Kept(d)' /\ Deleted(d)'
  BY <1>0, <1>1, <1>6, Others DEF Shape
<1>. QED
  BY <1>2, <1>3, <1>5, <1>6 DEF EvalInv

\* A case enters, is opened, or closes: nothing is scored.
LEMMA Moves ==
  ASSUME EvalInv, NEW c \in Cases, step = "driving",
         Enter(c) \/ Opened(c) \/ Close(c)
  PROVE  EvalInv'
<1>0. Shape
  BY DEF EvalInv
<1>1. /\ UNCHANGED <<step, report, observations, findings, checks, found>>
      /\ at' = [at EXCEPT ![c] = at'[c]] /\ at'[c] \in Places
      /\ thread' = [thread EXCEPT ![c] = thread'[c]] /\ thread'[c] \in BOOLEAN
      /\ lost \subseteq lost'
  <2>1. CASE Enter(c)
    BY <1>0, <2>1 DEF Enter, Shape, Places
  <2>2. CASE Opened(c)
    BY <1>0, <2>2 DEF Opened, Shape, Places
  <2>3. CASE Close(c)
    BY <1>0, <2>3 DEF Close, deleted, Shape, Places
  <2>. QED
    BY <2>1, <2>2, <2>3
<1>2. Shape'
  BY <1>0, <1>1 DEF Shape
<1>3. Phases'
  BY <1>1 DEF EvalInv, Phases, HasScore
<1>4. ASSUME NEW d \in Cases, d # c PROVE Counted(d)' /\ Kept(d)' /\ Deleted(d)'
  BY <1>0, <1>1, <1>4, Others DEF Shape
<1>5. Kept(c)'
  BY <1>1 DEF EvalInv, Kept, broke
<1>6. Counted(c)' /\ Deleted(c)'
  <2>0. Counted(c) /\ Deleted(c)
    BY DEF EvalInv
  <2>1. CASE Enter(c)
    <3>1. at[c] = "waiting" /\ at'[c] = "opening" /\ thread'[c] = thread[c]
      BY <1>0, <2>1 DEF Enter, Shape
    <3>. QED
      BY <1>1, <2>0, <3>1 DEF Counted, Deleted, broke
  <2>2. CASE Opened(c)
    <3>1. at[c] = "opening" /\ at'[c] = "driving"
      BY <1>0, <2>2 DEF Opened, Shape
    <3>2. cases[c].turns > 0 /\ owed(c, 0) = {}
      BY Owed, EvalAssumption DEF Case
    <3>3. Len(observations[c]) = 0 /\ DOMAIN checks[c] = {}
      BY <2>0, <3>1 DEF Counted
    <3>. QED
      BY <1>1, <2>0, <3>1, <3>2, <3>3 DEF Counted, Deleted, broke
  <2>3. CASE Close(c)
    <3>1. at[c] = "closing" /\ at'[c] = "done" /\ (thread'[c] => c \in lost')
      BY <1>0, <2>3 DEF Close, deleted, Shape
    <3>. QED
      BY <1>1, <2>0, <3>1 DEF Counted, Deleted, broke
  <2>. QED
    BY <2>1, <2>2, <2>3
<1>. QED
  BY <1>2, <1>3, <1>4, <1>5, <1>6 DEF EvalInv

\* A turn breaks, or the conversation is not opened.
LEMMA Breaks ==
  ASSUME EvalInv, NEW c \in Cases, step = "driving",
         NotOpened(c) \/ ErrorFrame(c) \/ Raised(c)
  PROVE  EvalInv'
<1>0. Shape
  BY DEF EvalInv
<1>1. CASE NotOpened(c)
  <2>1. PICK made \in BOOLEAN :
          /\ thread' = [thread EXCEPT ![c] = made]
          /\ lost' = IF made THEN lost \cup {c} ELSE lost
    BY <1>1 DEF NotOpened
  <2>. QED
    BY <1>1, <2>1, NoAnswerIsOne, FailedEverything DEF NotOpened
<1>2. CASE ErrorFrame(c)
  <2>1. PICK a \in Answers[c] :
          _failed_everything(c, [NoAnswer EXCEPT !.cost = a.cost], turn_of(c))
    BY <1>2 DEF ErrorFrame
  <2>2. a \in Answer
    BY <2>1, EvalAssumption
  <2>3. [NoAnswer EXCEPT !.cost = a.cost] \in Answer
    BY <2>2, NoAnswerIsOne DEF Answer
  <2>4. thread' = [thread EXCEPT ![c] = thread[c]] /\ thread[c] \in BOOLEAN
    BY <1>0, <1>2 DEF ErrorFrame, Shape
  <2>. QED
    BY <1>2, <2>1, <2>3, <2>4, FailedEverything DEF ErrorFrame
<1>3. CASE Raised(c)
  <2>1. thread' = [thread EXCEPT ![c] = thread[c]] /\ thread[c] \in BOOLEAN
    BY <1>0, <1>3 DEF Raised, Shape
  <2>2. PICK obs, turn : obs \in Answer /\ _failed_everything(c, obs, turn)
    <3>1. CASE observations[c] = <<>>
      BY <1>3, <3>1, NoAnswerIsOne DEF Raised
    <3>2. CASE observations[c] # <<>>
      <4>1. observations[c] \in Seq(Answer)
        BY <1>0 DEF Shape
      <4>2. observations[c][Len(observations[c])] \in Answer
        BY <3>2, <4>1
      <4>. QED
        BY <1>3, <3>2, <4>2 DEF Raised
    <3>. QED
      BY <3>1, <3>2
  <2>. QED
    BY <1>3, <2>1, <2>2, FailedEverything DEF Raised
<1>. QED
  BY <1>1, <1>2, <1>3

\* A turn that answered, or the case's own checks against the last one.
LEMMA Scores ==
  ASSUME EvalInv, NEW c \in Cases, step = "driving", Answered(c) \/ Scored(c)
  PROVE  EvalInv'
<1>0. Shape /\ Counted(c) /\ Kept(c) /\ Deleted(c)
  BY DEF EvalInv
<1>. DEFINE place == IF at[c] = "driving" THEN turn_of(c) ELSE 0
<1>a. at[c] = "driving" \/ at[c] = "scoring"
  BY DEF Answered, Scored
<1>b. turn_of(c) \in Nat /\ Len(observations[c]) \in Nat /\ observations[c] \in Seq(Answer)
  BY <1>0 DEF turn_of, Shape
<1>c. cases[c].turns \in Nat
  BY EvalAssumption DEF Case
<1>1. PICK a, turn : apply_checks(c, place, a, turn)
  <2>1. CASE Answered(c)
    BY <2>1 DEF Answered
  <2>2. CASE Scored(c)
    BY <2>2 DEF Scored
  <2>. QED
    BY <2>1, <2>2
<1>2. place \in Nat
  BY <1>b
<1>3. PICK fresh :
        /\ \A f \in fresh : f.check # "turn"
        /\ findings' = [findings EXCEPT ![c] = findings[c] \cup fresh]
        /\ found' = [found EXCEPT ![c] = found[c] \cup fresh]
        /\ \E results :
             /\ checks' = [checks EXCEPT ![c] = results]
             /\ DOMAIN results = DOMAIN checks[c] \cup keys_for(cases[c], place)
  BY <1>0, <1>1, <1>2, Applied
<1>4. PICK results :
        /\ checks' = [checks EXCEPT ![c] = results]
        /\ DOMAIN results = DOMAIN checks[c] \cup keys_for(cases[c], place)
  BY <1>3
<1>5. /\ UNCHANGED <<step, thread, report, lost>>
      /\ at' = [at EXCEPT ![c] = at'[c]] /\ at'[c] \in {"driving", "scoring", "closing"}
      /\ observations' = [observations EXCEPT ![c] = observations'[c]]
      /\ observations'[c] \in Seq(Answer)
  <2>1. CASE Answered(c)
    <3>1. PICK a1 \in Answers[c] :
            observations' = [observations EXCEPT ![c] = Append(observations[c], a1)]
      BY <2>1 DEF Answered
    <3>2. a1 \in Answer
      BY <3>1, EvalAssumption
    <3>3. observations'[c] = Append(observations[c], a1)
      BY <1>0, <3>1 DEF Shape
    <3>4. Append(observations[c], a1) \in Seq(Answer)
      BY <1>b, <3>2
    <3>. QED
      BY <1>0, <2>1, <3>1, <3>3, <3>4 DEF Answered, Shape
  <2>2. CASE Scored(c)
    BY <1>0, <2>2 DEF Scored, Shape
  <2>. QED
    BY <2>1, <2>2
<1>6. Shape'
  <2>1. at' \in [Cases -> Places]
    BY <1>0, <1>5 DEF Shape, Places
  <2>2. observations' \in [Cases -> Seq(Answer)]
    BY <1>0, <1>5 DEF Shape
  <2>3. /\ findings' = [d \in Cases |-> findings'[d]]
        /\ checks' = [d \in Cases |-> checks'[d]]
        /\ found' = [d \in Cases |-> found'[d]]
    BY <1>0, <1>3, <1>4 DEF Shape
  <2>. QED
    BY <1>0, <1>5, <2>1, <2>2, <2>3 DEF Shape
<1>7. Phases'
  BY <1>5 DEF EvalInv, Phases, HasScore
<1>8. ASSUME NEW d \in Cases, d # c PROVE Counted(d)' /\ Kept(d)' /\ Deleted(d)'
  BY <1>0, <1>3, <1>4, <1>5, <1>8, Others DEF Shape
<1>9. /\ findings'[c] = findings[c] \cup fresh
      /\ found'[c] = found[c] \cup fresh
      /\ checks'[c] = results
  BY <1>0, <1>3, <1>4 DEF Shape
<1>10. ~broke(c) /\ ~broke(c)'
  BY <1>0, <1>a, <1>3, <1>9 DEF Counted, broke
<1>11. Kept(c)'
  BY <1>0, <1>9, <1>10 DEF Kept, broke
<1>12. Deleted(c)'
  BY <1>5 DEF Deleted
<1>13. Counted(c)'
  <2>1. CASE Answered(c)
    <3>1. /\ at[c] = "driving"
          /\ at'[c] = IF turn_of(c) = cases[c].turns THEN "scoring" ELSE "driving"
      BY <1>0, <2>1 DEF Answered, Shape
    <3>2. Len(observations'[c]) = turn_of(c)
      <4>1. PICK a1 \in Answers[c] :
              observations' = [observations EXCEPT ![c] = Append(observations[c], a1)]
        BY <2>1 DEF Answered
      <4>2. observations'[c] = Append(observations[c], a1)
        BY <1>0, <4>1 DEF Shape
      <4>. QED
        BY <1>b, <4>2 DEF turn_of
    <3>3. DOMAIN checks'[c] = owed(c, turn_of(c))
      <4>1. owed(c, Len(observations[c]) + 1) =
              owed(c, Len(observations[c])) \cup keys_for(cases[c], Len(observations[c]) + 1)
        BY <1>b, Owed
      <4>. QED
        BY <1>0, <1>4, <1>9, <3>1, <4>1 DEF Counted, turn_of
    <3>4. turn_of(c) # cases[c].turns => turn_of(c) < cases[c].turns
      BY <1>0, <1>b, <1>c, <3>1 DEF Counted, turn_of
    <3>. QED
      BY <1>10, <3>1, <3>2, <3>3, <3>4 DEF Counted, owed
  <2>2. CASE Scored(c)
    <3>1. at[c] = "scoring" /\ at'[c] = "closing"
      BY <1>0, <2>2 DEF Scored, Shape
    <3>2. DOMAIN checks'[c] = all_checks(cases[c])
      BY <1>0, <1>4, <1>9, <3>1, Owed DEF Counted
    <3>. QED
      BY <1>10, <3>1, <3>2 DEF Counted
  <2>. QED
    BY <2>1, <2>2
<1>. QED
  BY <1>6, <1>7, <1>8, <1>11, <1>12, <1>13 DEF EvalInv

-----------------------------------------------------------------------------
(* The invariant, and what follows from it.                                  *)

LEMMA EvalInit == Init => EvalInv
<1>. SUFFICES ASSUME Init PROVE EvalInv
  OBVIOUS
<1>1. Shape
  BY DEF Init, Shape, Places, unscored
<1>2. Phases
  BY DEF Init, Phases, HasScore
<1>3. ASSUME NEW c \in Cases PROVE Counted(c) /\ Kept(c) /\ Deleted(c)
  BY DEF Init, Counted, Kept, Deleted, broke
<1>. QED
  BY <1>1, <1>2, <1>3 DEF EvalInv

\* Scoring, comparing, filing and printing touch no case; a run that ends early had
\* none on the service, or the service is blamed.
LEMMA ReportKeeps ==
  ASSUME EvalInv, Start \/ Report \/ Broken \/ Killed
  PROVE  EvalInv'
<1>0. Shape /\ Phases
  BY DEF EvalInv
<1>1. UNCHANGED conversations /\ UNCHANGED found /\ lost \subseteq lost'
  BY DEF Start, Report, Score, Connect, Compare, SaveRun, SaveFindings, Render, Broken, Killed
<1>2. ASSUME NEW c \in Cases PROVE Counted(c)' /\ Kept(c)' /\ Deleted(c)'
  BY <1>1, Others DEF conversations
<1>3. Shape' /\ Phases'
  <2>1. CASE Start
    BY <1>0, <1>1, <2>1 DEF Start, Shape, Phases, HasScore, conversations, EvalInv, Deleted
  <2>2. CASE Score
    <3>1. /\ report' = [k \in DOMAIN report' |-> report'[k]]
          /\ DOMAIN report' = DOMAIN report
          /\ report'.findings = UNION {findings[c] : c \in Cases}
      BY <1>0, <2>2, Zenon DEF Score, Shape
    <3>2. UNCHANGED conversations /\ step' = "scored" /\ \A c \in Cases : at[c] = "done"
      BY <1>1, <2>2 DEF Score
    <3>. QED
      BY <1>0, <1>1, <3>1, <3>2 DEF Shape, Phases, HasScore, conversations
  <2>3. CASE Connect
    BY <1>0, <1>1, <2>3 DEF Connect, Shape, Phases, HasScore, conversations
  <2>4. CASE Compare
    <3>1. /\ report' = [k \in DOMAIN report' |-> report'[k]]
          /\ DOMAIN report' = DOMAIN report
          /\ report'.findings = report.findings
      BY <1>0, <2>4, Zenon DEF Compare, Shape
    <3>2. UNCHANGED conversations /\ step = "connected" /\ step' = "compared"
      BY <1>1, <2>4 DEF Compare
    <3>. QED
      BY <1>0, <1>1, <3>1, <3>2 DEF Shape, Phases, HasScore, conversations
  <2>5. CASE SaveRun
    BY <1>0, <1>1, <2>5 DEF SaveRun, Shape, Phases, HasScore, conversations
  <2>6. CASE SaveFindings
    BY <1>0, <1>1, <2>6 DEF SaveFindings, Shape, Phases, HasScore, conversations
  <2>7. CASE Render
    BY <1>0, <1>1, <2>7 DEF Render, Shape, Phases, HasScore, conversations
  <2>8. CASE Broken
    BY <1>0, <1>1, <2>8 DEF Broken, Shape, Phases, HasScore, conversations, EvalInv, Deleted
  <2>9. CASE Killed
    BY <1>0, <1>1, <2>9 DEF Killed, Shape, Phases, HasScore, conversations
  <2>. QED
    BY <2>1, <2>2, <2>3, <2>4, <2>5, <2>6, <2>7, <2>8, <2>9 DEF Report
<1>. QED
  BY <1>2, <1>3 DEF EvalInv

\* The invariant holds of every state of an evaluation.
THEOREM EvalInductive == Spec => []EvalInv
<1>1. EvalInv /\ [Next]_vars => EvalInv'
  <2>. SUFFICES ASSUME EvalInv, [Next]_vars PROVE EvalInv'
    OBVIOUS
  <2>1. ASSUME NEW c \in Cases, Enter(c) PROVE EvalInv'
    BY <2>1, Moves DEF Enter
  <2>2. ASSUME NEW c \in Cases, CaseStep(c) PROVE EvalInv'
    BY <2>2, Moves, Breaks, Scores DEF CaseStep
  <2>3. CASE Start \/ Report \/ Broken \/ Killed
    BY <2>3, ReportKeeps
  <2>4. CASE UNCHANGED vars
    <3>1. ASSUME NEW c \in Cases PROVE Counted(c)' /\ Kept(c)' /\ Deleted(c)'
      BY <2>4, Others DEF vars, conversations
    <3>. QED
      BY <2>4, <3>1 DEF vars, conversations, EvalInv, Shape, Phases, HasScore
  <2>. QED
    BY <2>1, <2>2, <2>3, <2>4 DEF Next
<1>. QED
  BY <1>1, EvalInit, PTL DEF Spec

\* Every check of a case that is over was counted, and failed if its conversation broke.
THEOREM Counting == Spec => []EveryCaseIsCounted
<1>1. EvalInv => EveryCaseIsCounted
  BY DEF EvalInv, Counted, EveryCaseIsCounted, broke
<1>. QED
  BY <1>1, EvalInductive, PTL

\* What a check found is reported, unless a later turn of its conversation broke.
THEOREM Reporting == Spec => []FindingsReachTheReport
<1>1. EvalInv => FindingsReachTheReport
  BY DEF EvalInv, Kept, Phases, FindingsReachTheReport, broke
<1>. QED
  BY <1>1, EvalInductive, PTL

\* No conversation stays on the service but those it was not heard about.
THEOREM Deleting == Spec => []ThreadsAreDeleted
<1>1. EvalInv => ThreadsAreDeleted
  <2>. SUFFICES ASSUME EvalInv, NEW c \in Cases, thread[c],
                       at[c] \in {"waiting", "opening", "done"} \/ Ended
                PROVE  c \in lost
    BY DEF ThreadsAreDeleted
  <2>1. Deleted(c) /\ Phases
    BY DEF EvalInv
  <2>. QED
    BY <2>1 DEF Deleted, Phases, Ended, HasScore
<1>. QED
  BY <1>1, EvalInductive, PTL

-----------------------------------------------------------------------------
(* Finite sets.                                                              *)

\* A finite set that is not empty has a last element in any total order.
LEMMA LastOf ==
  ASSUME NEW S, IsFiniteSet(S), S # {}, NEW R,
         \A x, y \in S : <<x, y>> \in R \/ <<y, x>> \in R,
         \A x, y, z \in S : <<x, y>> \in R /\ <<y, z>> \in R => <<x, z>> \in R
  PROVE  \E m \in S : \A n \in S : <<n, m>> \in R
<1>. DEFINE last(X) == \E m \in X : \A n \in X : <<n, m>> \in R
            none == {X \in SUBSET S : X # {} /\ ~last(X)}
<1>1. SUFFICES ASSUME none # {} PROVE FALSE
  OBVIOUS
<1>2. none \subseteq FiniteSubsetsOf(S)
  BY FS_FiniteSubsetsOfFinite
<1>3. PICK X \in none : \A Y \in none : <<Y, X>> \notin StrictSubsetOrdering(S)
  <2>. HIDE DEF none
  <2>1. IsWellFoundedOn(StrictSubsetOrdering(S), FiniteSubsetsOf(S))
    BY FS_StrictSubsetOrderingWellFounded
  <2>. QED
    BY <1>1, <1>2, <2>1, WFMin
<1>4. PICK x \in X : TRUE
  OBVIOUS
<1>. DEFINE Y == X \ {x}
<1>5. <<Y, X>> \in StrictSubsetOrdering(S)
  BY <1>4 DEF StrictSubsetOrdering
<1>6. CASE Y = {}
  <2>1. X = {x}
    BY <1>4, <1>6
  <2>2. last(X)
    BY <2>1
  <2>. QED
    BY <2>2
<1>7. CASE Y # {}
  <2>1. last(Y)
    BY <1>3, <1>5, <1>7
  <2>2. PICK m \in Y : \A n \in Y : <<n, m>> \in R
    BY <2>1
  <2>3. x \in S /\ m \in S /\ X \subseteq S
    BY <1>4, <2>2
  <2>4. CASE <<x, m>> \in R
    <3>1. \A n \in X : <<n, m>> \in R
      BY <2>2, <2>4
    <3>. QED
      BY <2>2, <3>1
  <2>5. CASE <<m, x>> \in R
    <3>1. \A n \in X : <<n, x>> \in R
      BY <2>2, <2>3, <2>5
    <3>. QED
      BY <1>4, <3>1
  <2>. QED
    BY <2>3, <2>4, <2>5
<1>. QED
  BY <1>6, <1>7

\* A finite set of numbers has a greatest and a least.
LEMMA Extremes ==
  ASSUME NEW S, IsFiniteSet(S), S # {}, S \subseteq Nat
  PROVE  /\ Max(S) \in S /\ \A n \in S : n <= Max(S)
         /\ Min(S) \in S /\ \A n \in S : Min(S) <= n
<1>. DEFINE up == {p \in S \X S : p[1] <= p[2]}
            down == {p \in S \X S : p[1] >= p[2]}
<1>0. /\ \A x, y \in S : x <= y \/ y <= x
      /\ \A x, y, z \in S : x <= y /\ y <= z => x <= z
      /\ \A x, y \in S : x >= y <=> y <= x
  OBVIOUS
<1>1. \A x, y \in S : /\ <<x, y>> \in up <=> x <= y
                      /\ <<x, y>> \in down <=> x >= y
  OBVIOUS
<1>. HIDE DEF up, down
<1>2. \E m \in S : \A n \in S : <<n, m>> \in up
  <2>1. \A x, y \in S : <<x, y>> \in up \/ <<y, x>> \in up
    BY <1>0, <1>1, Zenon
  <2>2. \A x, y, z \in S : <<x, y>> \in up /\ <<y, z>> \in up => <<x, z>> \in up
    BY <1>0, <1>1, Zenon
  <2>. QED
    BY <2>1, <2>2, LastOf
<1>3. \E m \in S : \A n \in S : <<n, m>> \in down
  <2>1. \A x, y \in S : <<x, y>> \in down \/ <<y, x>> \in down
    BY <1>0, <1>1, Zenon
  <2>2. \A x, y, z \in S : <<x, y>> \in down /\ <<y, z>> \in down => <<x, z>> \in down
    BY <1>0, <1>1, Zenon
  <2>. QED
    BY <2>1, <2>2, LastOf
<1>4. \E m \in S : \A n \in S : m >= n
  BY <1>1, <1>2
<1>5. \E m \in S : \A n \in S : m <= n
  BY <1>1, <1>3
<1>6. Max(S) \in S /\ \A n \in S : Max(S) >= n
  BY <1>4 DEF Max
<1>7. Min(S) \in S /\ \A n \in S : Min(S) <= n
  BY <1>5 DEF Min
<1>. QED
  BY <1>6, <1>7

\* A part of a finite set is no larger than it.
LEMMA Part ==
  ASSUME NEW S, IsFiniteSet(S), NEW T, T \subseteq S
  PROVE  /\ IsFiniteSet(T) /\ Cardinality(T) \in Nat /\ Cardinality(S) \in Nat
         /\ Cardinality(T) <= Cardinality(S)
BY FS_Subset, FS_CardinalityType

\* The union of finite sets, one for each member of a finite set.
LEMMA Family ==
  ASSUME NEW S, IsFiniteSet(S), NEW F, \A x \in S : IsFiniteSet(F[x])
  PROVE  IsFiniteSet(UNION {F[x] : x \in S})
<1>1. IsFiniteSet({F[x] : x \in S})
  <2>. DEFINE f == [x \in S |-> F[x]]
              Q == {F[x] : x \in S}
  <2>1. f \in Surjection(S, Q)
    BY DEF Surjection
  <2>. QED
    BY <2>1, FS_Surjection
<1>. QED
  BY <1>1, FS_UNION

\* Counting up to a number, and a finite set seen from one thing.
LEMMA Upto == \A n \in Nat : /\ IsFiniteSet(1..n) /\ Cardinality(1..n) = n
                             /\ IsFiniteSet(0..n)
<1>1. \A a, b \in Int : IsFiniteSet(a..b) /\ Cardinality(a..b) = IF a > b THEN 0 ELSE b - a + 1
  BY FS_Interval
<1>. QED
  BY <1>1

LEMMA Beside ==
  ASSUME NEW x, NEW S, IsFiniteSet(S) PROVE IsFiniteSet({x} \X S)
<1>1. IsFiniteSet({x})
  BY FS_Singleton
<1>. QED
  BY <1>1, FS_Product

-----------------------------------------------------------------------------
(* The invariant of the report: what the run scored is what came of its      *)
(* cases, and what it was compared with is still there.                      *)

\* The check a case declares under a key.
owes(c, k) == checks_for(cases[c], k[1])[k[2]]

\* A case that is over was observed, in full unless a turn broke; and unless one broke what
\* a check found is a check that did not pass.
Weighed(c) ==
  /\ at[c] = "scoring" => Len(observations[c]) = cases[c].turns
  /\ at[c] \in {"closing", "done"} =>
       /\ Len(observations[c]) > 0
       /\ ~broke(c) => Len(observations[c]) = cases[c].turns
  /\ \A g \in findings[c] : g.check = "turn" => g.kind = "ERROR"
  /\ ~broke(c) => \A f \in found[c] : \E k \in DOMAIN checks[c] :
       owes(c, k).check = f.check /\ ~checks[c][k]

Filed ==
  /\ step \in {"idle", "driving"} => report = unscored
  /\ HasScore => /\ report.status = status(outcomes)
                 /\ report.metrics = compute_metrics(cases, outcomes)
  /\ step \in {"scored", "connected"} => report.baseline = 0
  /\ report.baseline # 0 => rows[report.baseline].status = "COMPLETED"
  /\ step \in {"compared", "filing", "filed", "printed"} /\ report.baseline # 0 =>
       report.regressions =
         compare_to_baseline(thresholds, report.metrics, rows[report.baseline].metrics)
  /\ step = "filing" => Len(rows) > 0
  /\ step = "printed" => report.exit = exit_code

ReportInv == TypeOK /\ Filed /\ \A c \in Cases : Weighed(c)

-----------------------------------------------------------------------------
(* What a run scores.                                                        *)

LEMMA Outcomes ==
  /\ DOMAIN outcomes = Cases
  /\ \A c \in Cases : /\ outcomes[c].observations = observations[c]
                      /\ outcomes[c].findings = findings[c]
                      /\ outcomes[c].checks = checks[c]
BY DEF outcomes

\* There are finitely many observations, and each is an answer.
LEMMA Observed ==
  ASSUME observations \in [Cases -> Seq(Answer)]
  PROVE  /\ IsFiniteSet(observed(outcomes))
         /\ \A o \in observed(outcomes) : at_turn(outcomes, o) \in Answer
         /\ \A c \in Cases : \A i \in 1..Len(observations[c]) : <<c, i>> \in observed(outcomes)
<1>. DEFINE F == [c \in Cases |-> {c} \X DOMAIN observations[c]]
<1>1. observed(outcomes) = UNION {F[c] : c \in Cases}
  BY Outcomes DEF observed
<1>2. \A c \in Cases : DOMAIN observations[c] = 1..Len(observations[c]) /\ Len(observations[c]) \in Nat
  OBVIOUS
<1>3. ASSUME NEW c \in Cases PROVE IsFiniteSet(F[c])
  <2>1. IsFiniteSet(1..Len(observations[c]))
    BY <1>2, Upto
  <2>2. IsFiniteSet({c} \X (1..Len(observations[c])))
    BY <2>1, Beside
  <2>. QED
    BY <1>2, <2>2
<1>4. IsFiniteSet(UNION {F[c] : c \in Cases})
  <2>. HIDE DEF F
  <2>1. IsFiniteSet(Cases)
    BY EvalAssumption
  <2>. QED
    BY <1>3, <2>1, Family
<1>5. ASSUME NEW o \in observed(outcomes) PROVE at_turn(outcomes, o) \in Answer
  <2>1. PICK c \in Cases : o \in {c} \X DOMAIN observations[c]
    BY <1>1
  <2>2. o[1] = c /\ o[2] \in DOMAIN observations[c]
    BY <2>1
  <2>3. observations[c][o[2]] \in Answer
    BY <1>2, <2>2
  <2>. QED
    BY <2>2, <2>3, Outcomes DEF at_turn
<1>6. ASSUME NEW c \in Cases, NEW i \in 1..Len(observations[c])
      PROVE  <<c, i>> \in observed(outcomes)
  BY <1>1, <1>2
<1>. QED
  BY <1>1, <1>4, <1>5, <1>6

\* The time of one of them.
LEMMA Percentile ==
  ASSUME observations \in [Cases -> Seq(Answer)],
         NEW timed, timed \subseteq observed(outcomes), NEW percent \in 1..100
  PROVE  percentile(outcomes, timed, percent) \in Nat \X Nat
<1>. DEFINE ns(o) == at_turn(outcomes, o).ns
            below(v) == {o \in timed : ns(o) <= v}
            rank == nearest_rank(Cardinality(timed), percent)
            high == {p \in timed : Cardinality(below(ns(p))) >= rank}
            times == {ns(o) : o \in timed}
            values == {ns(o) : o \in high}
<1>1. CASE timed = {}
  BY <1>1 DEF percentile
<1>2. CASE timed # {}
  <2>1. IsFiniteSet(timed) /\ Cardinality(timed) \in Nat
    BY Observed, Part
  <2>2. \A o \in timed : ns(o) \in Nat
    BY Observed DEF Answer
  <2>3. IsFiniteSet(times) /\ times # {} /\ times \subseteq Nat
    <3>. DEFINE f == [o \in timed |-> ns(o)]
    <3>1. f \in Surjection(timed, times)
      BY DEF Surjection
    <3>2. IsFiniteSet(times)
      <4>. HIDE DEF times, f
      <4>. QED
        BY <2>1, <3>1, FS_Surjection
    <3>. QED
      BY <1>2, <2>2, <3>2
  <2>4. PICK last \in timed : \A o \in timed : ns(o) <= ns(last)
    <3>. HIDE DEF times
    <3>1. Max(times) \in times /\ \A n \in times : n <= Max(times)
      BY <2>3, Extremes
    <3>. QED
      BY <3>1 DEF times
  <2>5. below(ns(last)) = timed
    BY <2>4
  <2>6. Cardinality(timed) > 0
    BY <1>2, <2>1, FS_EmptySet
  <2>7. rank <= Cardinality(timed)
    BY <2>1, <2>6 DEF nearest_rank
  <2>8. last \in high
    BY <2>1, <2>5, <2>7 DEF nearest_rank
  <2>9. values \subseteq times /\ values # {}
    BY <2>8
  <2>10. IsFiniteSet(values)
    <3>. HIDE DEF values, times
    <3>. QED
      BY <2>3, <2>9, Part
  <2>11. Min(values) \in Nat
    <3>. HIDE DEF values, times
    <3>. QED
      BY <2>3, <2>9, <2>10, Extremes
  <2>12. percentile(outcomes, timed, percent) = <<Min(values), 1>>
    BY <1>2 DEF percentile
  <2>. QED
    BY <2>11, <2>12
<1>. QED
  BY <1>1, <1>2

\* There are finitely many checks under a key.
LEMMA AllChecks ==
  ASSUME NEW c \in Cases
  PROVE  IsFiniteSet(all_checks(cases[c]))
           /\ \A k \in all_checks(cases[c]) : owes(c, k) \in Check
<1>. DEFINE F == [place \in 0..cases[c].turns |-> keys_for(cases[c], place)]
<1>0. cases[c].turns \in Nat /\ cases[c].checks \in Seq(Check)
        /\ cases[c].turn_checks \in Seq(Seq(Check))
  BY EvalAssumption DEF Case
<1>1. ASSUME NEW place \in Nat PROVE checks_for(cases[c], place) \in Seq(Check)
  <2>1. place \in DOMAIN cases[c].turn_checks => cases[c].turn_checks[place] \in Seq(Check)
    BY <1>0
  <2>. QED
    BY <1>0, <2>1 DEF checks_for
<1>2. ASSUME NEW place \in 0..cases[c].turns PROVE IsFiniteSet(F[place])
  <2>. DEFINE list == checks_for(cases[c], place)
  <2>1. list \in Seq(Check)
    BY <1>0, <1>1
  <2>. HIDE DEF list
  <2>2. DOMAIN list = 1..Len(list) /\ Len(list) \in Nat
    BY <2>1
  <2>3. IsFiniteSet(1..Len(list))
    BY <2>2, Upto
  <2>4. IsFiniteSet({place} \X (1..Len(list)))
    BY <2>3, Beside
  <2>. QED
    BY <2>2, <2>4 DEF list, keys_for
<1>3. all_checks(cases[c]) = UNION {F[place] : place \in 0..cases[c].turns}
  BY DEF all_checks
<1>4. IsFiniteSet(UNION {F[place] : place \in 0..cases[c].turns})
  <2>. HIDE DEF F
  <2>1. IsFiniteSet(0..cases[c].turns)
    BY <1>0, Upto
  <2>. QED
    BY <1>2, <2>1, Family
<1>5. ASSUME NEW k \in all_checks(cases[c]) PROVE owes(c, k) \in Check
  <2>1. PICK place \in 0..cases[c].turns : k \in keys_for(cases[c], place)
    BY DEF all_checks
  <2>2. k[1] = place /\ k[2] \in DOMAIN checks_for(cases[c], place)
    BY <2>1 DEF keys_for
  <2>. QED
    BY <1>0, <1>1, <2>2 DEF owes
<1>. QED
  BY <1>3, <1>4, <1>5

\* The checks that join a metric, of which no more pass than there are, and fewer if one fails.
LEMMA CheckRate ==
  ASSUME \A c \in Cases : IsFiniteSet(DOMAIN checks[c]), NEW metric
  PROVE  /\ check_rate(cases, outcomes, metric) \in Nat \X Nat
         /\ check_rate(cases, outcomes, metric)[1] <= check_rate(cases, outcomes, metric)[2]
         /\ \A c \in Cases : \A k \in DOMAIN checks[c] :
              owes(c, k).metric = metric /\ ~checks[c][k] =>
                check_rate(cases, outcomes, metric)[1] < check_rate(cases, outcomes, metric)[2]
<1>. DEFINE mine(c) == {k \in DOMAIN checks[c] : owes(c, k).metric = metric}
            F == [c \in Cases |-> {c} \X mine(c)]
            all == joined(cases, outcomes, metric)
            good == {j \in all : outcomes[j[1]].checks[j[2]]}
<1>1. all = UNION {F[c] : c \in Cases}
  BY Outcomes DEF joined, metric_of, owes
<1>2. IsFiniteSet(all)
  <2>1. ASSUME NEW c \in Cases PROVE IsFiniteSet(F[c])
    <3>1. IsFiniteSet(mine(c))
      BY Part
    <3>. HIDE DEF mine
    <3>2. IsFiniteSet({c} \X mine(c))
      BY <3>1, Beside
    <3>. QED
      BY <3>2
  <2>2. IsFiniteSet(Cases)
    BY EvalAssumption
  <2>3. IsFiniteSet(UNION {F[c] : c \in Cases})
    <3>. HIDE DEF F
    <3>. QED
      BY <2>1, <2>2, Family
  <2>. QED
    BY <1>1, <2>3
<1>3. check_rate(cases, outcomes, metric) = <<Cardinality(good), Cardinality(all)>>
  BY DEF check_rate
<1>4. /\ Cardinality(good) \in Nat /\ Cardinality(all) \in Nat
      /\ Cardinality(good) <= Cardinality(all)
  <2>. HIDE DEF all
  <2>. QED
    BY <1>2, Part
<1>5. ASSUME NEW c \in Cases, NEW k \in DOMAIN checks[c], owes(c, k).metric = metric, ~checks[c][k]
      PROVE  Cardinality(good) < Cardinality(all)
  <2>. DEFINE j == <<c, k>>
  <2>1. j \in all
    BY <1>1, <1>5
  <2>2. j \notin good
    BY <1>5, Outcomes
  <2>. HIDE DEF j
  <2>3. good \subseteq all \ {j}
    BY <2>2
  <2>. HIDE DEF all, good
  <2>4. Cardinality(all \ {j}) = Cardinality(all) - 1 /\ IsFiniteSet(all \ {j})
    BY <1>2, <2>1, FS_RemoveElement
  <2>5. Cardinality(good) <= Cardinality(all \ {j})
    BY <2>3, <2>4, Part
  <2>. QED
    BY <1>4, <2>4, <2>5
<1>. HIDE DEF good, all
<1>. QED
  BY <1>3, <1>4, <1>5

\* The metrics one by one.
turns == observed(outcomes)
timed == {o \in turns : at_turn(outcomes, o).ns # 0}
priced == {o \in turns : at_turn(outcomes, o).cost # 0}
having(kind) == Cardinality(with_kind(outcomes, kind))

LEMMA Scorecard ==
  LET M == compute_metrics(cases, outcomes)
      total == Cardinality(Cases)
  IN  /\ M = [m \in Metrics |-> M[m]]
      /\ M["case_pass_rate"] = <<Cardinality({c \in Cases : passed(outcomes[c])}), total>>
      /\ M["turn_error_rate"] =
           <<Cardinality({c \in Cases : errored(outcomes[c])}), Cardinality(turns)>>
      /\ M["omission_rate"] = <<having("OMISSION"), total>>
      /\ M["fabrication_rate"] = <<having("FABRICATION"), total>>
      /\ M["wrong_path_rate"] = <<having("WRONG_PATH"), total>>
      /\ M["grounding_rate"] = check_rate(cases, outcomes, "grounding")
      /\ M["guard_recall"] = check_rate(cases, outcomes, "guard_recall")
      /\ M["false_block_rate"] = complement(check_rate(cases, outcomes, "false_block"))
      /\ M["latency_p50_ns"] = percentile(outcomes, timed, 50)
      /\ M["latency_p95_ns"] = percentile(outcomes, timed, 95)
      /\ M["cost_per_turn_usd"] = <<Cardinality(spending(outcomes, priced)), Cardinality(priced)>>
BY Outcomes DEF compute_metrics, turns, timed, priced, having, Metrics, Rates

\* How many cases there are, and how many of them are of a sort.
LEMMA Counts ==
  /\ Cardinality(Cases) \in Nat
  /\ \A S \in SUBSET Cases : /\ IsFiniteSet(S) /\ Cardinality(S) \in Nat
                             /\ Cardinality(S) <= Cardinality(Cases)
  /\ \A kind : with_kind(outcomes, kind) \in SUBSET Cases
<1>1. IsFiniteSet(Cases)
  BY EvalAssumption
<1>2. \A kind : with_kind(outcomes, kind) \in SUBSET Cases
  BY Outcomes DEF with_kind
<1>. QED
  BY <1>1, <1>2, Part

\* Every metric is a fraction.
LEMMA MetricTypes ==
  ASSUME observations \in [Cases -> Seq(Answer)],
         \A c \in Cases : IsFiniteSet(DOMAIN checks[c])
  PROVE  compute_metrics(cases, outcomes) \in Values
<1>. DEFINE M == compute_metrics(cases, outcomes)
<1>1. IsFiniteSet(turns) /\ Cardinality(turns) \in Nat
  BY Observed, Part DEF turns
<1>2. timed \subseteq observed(outcomes) /\ priced \subseteq turns
  BY DEF timed, priced, turns
<1>3. IsFiniteSet(priced) /\ Cardinality(priced) \in Nat
  BY <1>1, <1>2, Part
<1>4. Cardinality(spending(outcomes, priced)) \in Nat
  <2>. DEFINE F == [o \in priced |-> {o} \X (1..at_turn(outcomes, o).cost)]
  <2>1. ASSUME NEW o \in priced PROVE IsFiniteSet(F[o])
    <3>1. at_turn(outcomes, o).cost \in Nat
      BY <1>2, Observed DEF Answer, turns
    <3>2. IsFiniteSet(1..at_turn(outcomes, o).cost)
      BY <3>1, Upto
    <3>3. IsFiniteSet({o} \X (1..at_turn(outcomes, o).cost))
      BY <3>2, Beside
    <3>. QED
      BY <3>3
  <2>2. IsFiniteSet(UNION {F[o] : o \in priced})
    <3>. HIDE DEF F
    <3>. QED
      BY <1>3, <2>1, Family
  <2>3. spending(outcomes, priced) = UNION {F[o] : o \in priced}
    BY DEF spending
  <2>. QED
    BY <2>2, <2>3, FS_CardinalityType
<1>5. /\ percentile(outcomes, timed, 50) \in Nat \X Nat
      /\ percentile(outcomes, timed, 95) \in Nat \X Nat
  BY <1>2, Percentile
<1>6. /\ check_rate(cases, outcomes, "grounding") \in Nat \X Nat
      /\ check_rate(cases, outcomes, "guard_recall") \in Nat \X Nat
  BY CheckRate
<1>7. complement(check_rate(cases, outcomes, "false_block")) \in Nat \X Nat
  BY CheckRate DEF complement
<1>8. /\ Cardinality({c \in Cases : passed(outcomes[c])}) \in Nat
      /\ Cardinality({c \in Cases : errored(outcomes[c])}) \in Nat
      /\ \A kind : having(kind) \in Nat
      /\ Cardinality(Cases) \in Nat
  BY Counts DEF having
<1>. HIDE DEF M
<1>9. M = [m \in Metrics |-> M[m]]
  BY Scorecard DEF M
<1>. DEFINE total == Cardinality(Cases)
            sound == Cardinality({c \in Cases : passed(outcomes[c])})
            bad == Cardinality({c \in Cases : errored(outcomes[c])})
<1>10. /\ M["case_pass_rate"] = <<sound, total>>
       /\ M["turn_error_rate"] = <<bad, Cardinality(turns)>>
       /\ M["omission_rate"] = <<having("OMISSION"), total>>
       /\ M["fabrication_rate"] = <<having("FABRICATION"), total>>
       /\ M["wrong_path_rate"] = <<having("WRONG_PATH"), total>>
  BY Scorecard DEF M
<1>. HIDE DEF total, sound, bad
<1>11. /\ M["case_pass_rate"] \in Nat \X Nat
       /\ M["turn_error_rate"] \in Nat \X Nat
       /\ M["omission_rate"] \in Nat \X Nat
       /\ M["fabrication_rate"] \in Nat \X Nat
       /\ M["wrong_path_rate"] \in Nat \X Nat
  <2>1. total \in Nat /\ sound \in Nat /\ bad \in Nat
    BY <1>8 DEF total, sound, bad
  <2>. QED
    BY <1>1, <1>8, <1>10, <2>1
<1>12. /\ M["grounding_rate"] \in Nat \X Nat
       /\ M["guard_recall"] \in Nat \X Nat
       /\ M["false_block_rate"] \in Nat \X Nat
  BY <1>6, <1>7, Scorecard DEF M
<1>13. /\ M["latency_p50_ns"] \in Nat \X Nat
       /\ M["latency_p95_ns"] \in Nat \X Nat
       /\ M["cost_per_turn_usd"] \in Nat \X Nat
  BY <1>3, <1>4, <1>5, Scorecard DEF M
<1>14. \A m \in Metrics : M[m] \in Nat \X Nat
  BY <1>11, <1>12, <1>13 DEF Metrics, Rates
<1>. QED
  BY <1>9, <1>14 DEF M, Values

\* Two sets together hold no more than each on its own.
LEMMA Together ==
  ASSUME NEW S, NEW T, IsFiniteSet(S), IsFiniteSet(T)
  PROVE  /\ IsFiniteSet(S \cup T) /\ Cardinality(S \cup T) \in Nat
         /\ Cardinality(S \cup T) <= Cardinality(S) + Cardinality(T)
<1>1. IsFiniteSet(S \cup T) /\ IsFiniteSet(S \cap T)
  BY FS_Union, FS_Intersection
<1>2. Cardinality(S \cup T) = Cardinality(S) + Cardinality(T) - Cardinality(S \cap T)
  BY FS_Union
<1>3. /\ Cardinality(S) \in Nat /\ Cardinality(T) \in Nat
      /\ Cardinality(S \cup T) \in Nat /\ Cardinality(S \cap T) \in Nat
  BY <1>1, FS_CardinalityType
<1>. QED
  BY <1>1, <1>2, <1>3

\* Rates are no more than one, and count every case.
LEMMA RatesHold ==
  ASSUME observations \in [Cases -> Seq(Answer)], findings \in [Cases -> SUBSET Finding],
         \A c \in Cases : IsFiniteSet(DOMAIN checks[c]) /\ Len(observations[c]) > 0,
         report.metrics = compute_metrics(cases, outcomes)
  PROVE  RatesAreRates
<1>. DEFINE sort(kind) == with_kind(outcomes, kind)
            sound == {c \in Cases : passed(outcomes[c])}
            bad == {c \in Cases : errored(outcomes[c])}
            M == report.metrics
<1>1. IsFiniteSet(turns) /\ Cardinality(turns) \in Nat
  BY Observed, Part DEF turns
<1>2. Cardinality(Cases) <= Cardinality(turns)
  <2>. DEFINE first == {<<c, 1>> : c \in Cases}
              f == [c \in Cases |-> <<c, 1>>]
  <2>1. first \subseteq turns
    <3>1. \A c \in Cases : Len(observations[c]) \in Nat
      OBVIOUS
    <3>2. \A c \in Cases : 1 \in 1..Len(observations[c])
      BY <3>1
    <3>. QED
      BY <3>2, Observed DEF turns
  <2>2. f \in Injection(Cases, first)
    BY DEF Injection, IsInjective
  <2>3. IsFiniteSet(first) /\ Cardinality(first) <= Cardinality(turns) /\ Cardinality(first) \in Nat
    BY <1>1, <2>1, Part
  <2>4. Cardinality(Cases) <= Cardinality(first)
    <3>. HIDE DEF first, f
    <3>. QED
      BY <2>2, <2>3, FS_Injection
  <2>. HIDE DEF first
  <2>. QED
    BY <1>1, <2>3, <2>4, Counts
<1>3. /\ Cardinality(sound) \in Nat /\ Cardinality(bad) \in Nat
      /\ IsFiniteSet(sound) /\ IsFiniteSet(bad)
      /\ Cardinality(sound) <= Cardinality(Cases) /\ Cardinality(bad) <= Cardinality(Cases)
      /\ \A kind : /\ IsFiniteSet(sort(kind)) /\ Cardinality(sort(kind)) \in Nat
                   /\ Cardinality(sort(kind)) <= Cardinality(Cases)
      /\ Cardinality(Cases) \in Nat
  BY Counts
<1>4. Cases \subseteq sound \cup sort("OMISSION") \cup sort("FABRICATION")
                        \cup sort("WRONG_PATH") \cup bad
  <2>. SUFFICES ASSUME NEW c \in Cases, c \notin sound
                PROVE  c \in sort("OMISSION") \cup sort("FABRICATION")
                             \cup sort("WRONG_PATH") \cup bad
    OBVIOUS
  <2>1. PICK g \in findings[c] : g.kind \in Kinds
    BY Outcomes DEF passed, Finding
  <2>. QED
    BY <2>1, Outcomes DEF Kinds, with_kind, errored
<1>5. Cardinality(sound) + Cardinality(sort("OMISSION")) + Cardinality(sort("FABRICATION"))
        + Cardinality(sort("WRONG_PATH")) + Cardinality(bad) >= Cardinality(Cases)
  <2>. HIDE DEF sound, sort, bad
  <2>. DEFINE a == sound \cup sort("OMISSION")
              b == a \cup sort("FABRICATION")
              c == b \cup sort("WRONG_PATH")
              d == c \cup bad
  <2>1. /\ IsFiniteSet(a) /\ Cardinality(a) \in Nat
        /\ Cardinality(a) <= Cardinality(sound) + Cardinality(sort("OMISSION"))
    BY <1>3, Together
  <2>. HIDE DEF a
  <2>2. /\ IsFiniteSet(b) /\ Cardinality(b) \in Nat
        /\ Cardinality(b) <= Cardinality(a) + Cardinality(sort("FABRICATION"))
    BY <1>3, Together, <2>1
  <2>. HIDE DEF b
  <2>3. /\ IsFiniteSet(c) /\ Cardinality(c) \in Nat
        /\ Cardinality(c) <= Cardinality(b) + Cardinality(sort("WRONG_PATH"))
    BY <1>3, Together, <2>2
  <2>. HIDE DEF c
  <2>4. /\ IsFiniteSet(d) /\ Cardinality(d) \in Nat
        /\ Cardinality(d) <= Cardinality(c) + Cardinality(bad)
    BY <1>3, Together, <2>3
  <2>5. Cases \subseteq d
    BY <1>4 DEF a, b, c
  <2>. HIDE DEF d
  <2>6. Cardinality(Cases) <= Cardinality(d)
    BY <2>4, <2>5, Part
  <2>. QED
    BY <1>3, <2>1, <2>2, <2>3, <2>4, <2>6
<1>6. /\ M["case_pass_rate"] = <<Cardinality(sound), Cardinality(Cases)>>
      /\ M["turn_error_rate"] = <<Cardinality(bad), Cardinality(turns)>>
      /\ M["omission_rate"] = <<Cardinality(sort("OMISSION")), Cardinality(Cases)>>
      /\ M["fabrication_rate"] = <<Cardinality(sort("FABRICATION")), Cardinality(Cases)>>
      /\ M["wrong_path_rate"] = <<Cardinality(sort("WRONG_PATH")), Cardinality(Cases)>>
      /\ M["grounding_rate"] = check_rate(cases, outcomes, "grounding")
      /\ M["guard_recall"] = check_rate(cases, outcomes, "guard_recall")
      /\ M["false_block_rate"] = complement(check_rate(cases, outcomes, "false_block"))
  BY Scorecard DEF having
<1>7. /\ M["grounding_rate"][1] <= M["grounding_rate"][2]
      /\ M["guard_recall"][1] <= M["guard_recall"][2]
      /\ M["false_block_rate"][1] <= M["false_block_rate"][2]
  BY <1>6, CheckRate DEF complement
<1>. HIDE DEF sound, bad, sort, M
<1>8. \A m \in Rates : M[m][1] <= M[m][2]
  BY <1>1, <1>2, <1>3, <1>6, <1>7 DEF Rates
<1>. QED
  BY <1>2, <1>3, <1>5, <1>6, <1>8 DEF RatesAreRates, M, bad

-----------------------------------------------------------------------------
(* What a step of a case adds to it.                                         *)

\* What a failing check leaves is a finding.
LEMMA Findings ==
  ASSUME NEW x \in Check, NEW a, NEW turn \in Nat
  PROVE  finding(x, a, turn) \in Finding /\ finding(x, a, turn).check = x.check
<1>1. x.kind \in Kinds
  <2>1. contains.kind = "OMISSION" /\ not_contains.kind = "FABRICATION"
    BY DEF contains, not_contains, check
  <2>2. calls_tools.kind = "WRONG_PATH"
    BY DEF calls_tools, check
  <2>3. blocks.kind = "WRONG_PATH" /\ does_not_block.kind = "WRONG_PATH"
    BY DEF blocks, does_not_block, check
  <2>4. \A kind : judge(kind).kind = kind
    BY DEF judge, check
  <2>. QED
    BY <2>1, <2>2, <2>3, <2>4 DEF Check, Kinds
<1>2. "ERROR" \in Kinds /\ "judge" \in Sources /\ "check" \in Sources
  BY DEF Kinds, Sources
<1>3. x.check \in {c.check : c \in Check}
  OBVIOUS
<1>. QED
  BY <1>1, <1>2, <1>3 DEF finding, Finding

\* A key of a place is a check the case declares.
LEMMA Declared ==
  ASSUME NEW c \in Cases, NEW place \in Nat, NEW k \in keys_for(cases[c], place)
  PROVE  /\ k[1] = place /\ owes(c, k) = checks_for(cases[c], place)[k[2]]
         /\ owes(c, k) \in Check
<1>. DEFINE list == checks_for(cases[c], place)
<1>1. list \in Seq(Check)
  <2>1. cases[c].checks \in Seq(Check) /\ cases[c].turn_checks \in Seq(Seq(Check))
    BY EvalAssumption DEF Case
  <2>2. place \in DOMAIN cases[c].turn_checks => cases[c].turn_checks[place] \in Seq(Check)
    BY <2>1
  <2>. QED
    BY <2>1, <2>2 DEF checks_for
<1>2. k[1] = place /\ k[2] \in DOMAIN list
  BY DEF keys_for
<1>3. owes(c, k) = list[k[2]]
  BY <1>2 DEF owes
<1>. HIDE DEF list
<1>4. list[k[2]] \in Check
  BY <1>1, <1>2
<1>. QED
  BY <1>2, <1>3, <1>4 DEF list

\* What apply_checks leaves, in full: a result for each check of the place, and for what
\* it finds a result that is not a pass.
LEMMA Judged ==
  ASSUME NEW c \in Cases, NEW place \in Nat, NEW a, NEW turn \in Nat,
         apply_checks(c, place, a, turn),
         checks[c] \in [DOMAIN checks[c] -> BOOLEAN]
  PROVE  \E fresh, results :
           /\ fresh \in SUBSET Finding
           /\ findings' = [findings EXCEPT ![c] = findings[c] \cup fresh]
           /\ found' = [found EXCEPT ![c] = found[c] \cup fresh]
           /\ checks' = [checks EXCEPT ![c] = results]
           /\ DOMAIN results = DOMAIN checks[c] \cup keys_for(cases[c], place)
           /\ results \in [DOMAIN results -> BOOLEAN]
           /\ \A k \in DOMAIN checks[c] :
                k \notin keys_for(cases[c], place) => results[k] = checks[c][k]
           /\ \A f \in fresh : f.check # "turn"
           /\ \A f \in fresh : \E k \in keys_for(cases[c], place) :
                owes(c, k).check = f.check /\ ~results[k]
<1>. DEFINE keys == keys_for(cases[c], place)
            x(k) == checks_for(cases[c], place)[k[2]]
            fresh == {finding(x(k), a, turn) : k \in {k \in keys : fails(x(k), a)}}
            results == [k \in DOMAIN checks[c] \cup keys |->
                          IF k \in keys THEN ~fails(x(k), a) ELSE checks[c][k]]
<1>1. /\ findings' = [findings EXCEPT ![c] = findings[c] \cup fresh]
      /\ found' = [found EXCEPT ![c] = found[c] \cup fresh]
      /\ checks' = [checks EXCEPT ![c] = results]
  BY Zenon DEF apply_checks, extends
<1>2. \A k \in keys : x(k) \in Check /\ owes(c, k) = x(k)
  BY Declared
<1>3. ASSUME NEW f \in fresh
      PROVE  /\ f \in Finding /\ f.check # "turn"
             /\ \E k \in keys : owes(c, k).check = f.check /\ ~results[k]
  <2>1. PICK k \in keys : fails(x(k), a) /\ f = finding(x(k), a, turn)
    OBVIOUS
  <2>2. x(k) \in Check /\ owes(c, k) = x(k)
    BY <1>2
  <2>3. f \in Finding /\ f.check = x(k).check
    BY <2>1, <2>2, Findings
  <2>4. ~results[k]
    BY <2>1
  <2>. QED
    BY <2>2, <2>3, <2>4, NotATurn
<1>4. DOMAIN results = DOMAIN checks[c] \cup keys
  OBVIOUS
<1>5. results \in [DOMAIN checks[c] \cup keys -> BOOLEAN]
  <2>1. \A k \in DOMAIN checks[c] : checks[c][k] \in BOOLEAN
    OBVIOUS
  <2>. QED
    BY <2>1
<1>6. \A k \in DOMAIN checks[c] : k \notin keys => results[k] = checks[c][k]
  OBVIOUS
<1>. HIDE DEF fresh, results
<1>7. fresh \in SUBSET Finding
  BY <1>3
<1>. QED
  BY <1>1, <1>3, <1>4, <1>5, <1>6, <1>7

\* A step of one case keeps the invariant when it leaves that case in order.
LEMMA OneCase ==
  ASSUME EvalInv, ReportInv, step = "driving", UNCHANGED <<step, report, rows>>,
         NEW c \in Cases,
         NEW place \in Places, at' = [at EXCEPT ![c] = place],
         NEW there \in BOOLEAN, thread' = [thread EXCEPT ![c] = there],
         NEW seen \in Seq(Answer), observations' = [observations EXCEPT ![c] = seen],
         NEW kept \in SUBSET Finding, findings' = [findings EXCEPT ![c] = kept],
         NEW results, results \in [DOMAIN results -> BOOLEAN],
         checks' = [checks EXCEPT ![c] = results],
         NEW ever \in SUBSET Finding, found' = [found EXCEPT ![c] = ever],
         lost' \subseteq Cases, Weighed(c)'
  PROVE  ReportInv'
<1>0. TypeOK /\ Filed /\ Shape
  BY DEF ReportInv, EvalInv
<1>1. checks' = [d \in Cases |-> IF d = c THEN results ELSE checks[d]]
  BY <1>0 DEF Shape
<1>2. TypeOK'
  <2>1. \A d \in Cases : checks'[d] \in [DOMAIN checks'[d] -> BOOLEAN]
    BY <1>0, <1>1 DEF TypeOK
  <2>2. /\ at' \in [Cases -> Places] /\ thread' \in [Cases -> BOOLEAN]
        /\ observations' \in [Cases -> Seq(Answer)]
        /\ findings' \in [Cases -> SUBSET Finding] /\ found' \in [Cases -> SUBSET Finding]
    BY <1>0 DEF TypeOK
  <2>3. UNCHANGED <<step, report, rows>>
    OBVIOUS
  <2>. QED
    BY <1>0, <2>1, <2>2, <2>3 DEF TypeOK
<1>3. Filed'
  BY <1>0 DEF Filed, HasScore, unscored
<1>4. ASSUME NEW d \in Cases PROVE Weighed(d)'
  <2>1. CASE d = c
    BY <2>1
  <2>2. CASE d # c
    <3>1. /\ at'[d] = at[d] /\ observations'[d] = observations[d]
          /\ findings'[d] = findings[d] /\ checks'[d] = checks[d] /\ found'[d] = found[d]
      BY <1>0, <1>1, <2>2 DEF TypeOK
    <3>2. Weighed(d)
      BY DEF ReportInv
    <3>. QED
      BY <3>1, <3>2 DEF Weighed, broke, owes
  <2>. QED
    BY <2>1, <2>2
<1>. QED
  BY <1>2, <1>3, <1>4 DEF ReportInv

\* A case enters, is opened, or closes.
LEMMA MovesKept ==
  ASSUME EvalInv, ReportInv, NEW c \in Cases, step = "driving",
         Enter(c) \/ Opened(c) \/ Close(c)
  PROVE  ReportInv'
<1>0. TypeOK /\ Shape /\ Weighed(c)
  BY DEF ReportInv, EvalInv
<1>1. PICK place \in Places, there \in BOOLEAN :
        /\ at' = [at EXCEPT ![c] = place] /\ thread' = [thread EXCEPT ![c] = there]
        /\ place \in {"opening", "driving", "done"}
        /\ place = "done" => at[c] = "closing"
  <2>1. CASE Enter(c)
    <3>1. thread' = [thread EXCEPT ![c] = thread[c]] /\ thread[c] \in BOOLEAN
      BY <1>0, <2>1 DEF Enter, TypeOK
    <3>. QED
      BY <2>1, <3>1 DEF Enter, Places
  <2>2. CASE Opened(c)
    BY <2>2 DEF Opened, Places
  <2>3. CASE Close(c)
    <3>1. thread = [thread EXCEPT ![c] = thread[c]] /\ thread[c] \in BOOLEAN
      BY <1>0 DEF TypeOK
    <3>. QED
      BY <2>3, <3>1 DEF Close, deleted, Places
  <2>. QED
    BY <2>1, <2>2, <2>3
<1>2. /\ UNCHANGED <<step, report, rows, observations, findings, checks, found>>
      /\ lost' \subseteq Cases
  BY <1>0 DEF Enter, Opened, Close, TypeOK
<1>3. /\ observations' = [observations EXCEPT ![c] = observations[c]]
      /\ findings' = [findings EXCEPT ![c] = findings[c]]
      /\ checks' = [checks EXCEPT ![c] = checks[c]]
      /\ found' = [found EXCEPT ![c] = found[c]]
  BY <1>0, <1>2 DEF Shape
<1>4. /\ observations[c] \in Seq(Answer) /\ findings[c] \in SUBSET Finding
      /\ checks[c] \in [DOMAIN checks[c] -> BOOLEAN] /\ found[c] \in SUBSET Finding
  BY <1>0 DEF TypeOK
<1>5. at'[c] = place
  BY <1>0, <1>1 DEF TypeOK
<1>6. Weighed(c)'
  BY <1>0, <1>1, <1>2, <1>5 DEF Weighed, broke, owes
<1>. QED
  BY <1>1, <1>2, <1>3, <1>4, <1>6, OneCase

\* A broken case has one observation and one finding, of the turn that broke.
LEMMA FailedKept ==
  ASSUME EvalInv, ReportInv, NEW c \in Cases, NEW obs \in Answer, NEW turn \in Nat,
         step = "driving", UNCHANGED <<step, report, rows, found>>,
         _failed_everything(c, obs, turn),
         NEW place \in {"closing", "done"}, at' = [at EXCEPT ![c] = place],
         NEW there \in BOOLEAN, thread' = [thread EXCEPT ![c] = there],
         lost' \subseteq Cases
  PROVE  ReportInv'
<1>. DEFINE blame == [turn |-> turn, kind |-> "ERROR", check |-> "turn", source |-> "check"]
<1>0. TypeOK /\ Shape
  BY DEF ReportInv, EvalInv
<1>1. /\ observations' = [observations EXCEPT ![c] = <<obs>>]
      /\ findings' = [findings EXCEPT ![c] = {blame}]
      /\ checks' = [checks EXCEPT ![c] = all_failed(c)]
  BY DEF _failed_everything, keeps
<1>2. /\ found' = [found EXCEPT ![c] = found[c]] /\ found[c] \in SUBSET Finding
      /\ UNCHANGED <<step, report, rows>>
  BY <1>0 DEF TypeOK
<1>3. <<obs>> \in Seq(Answer) /\ Len(<<obs>>) = 1
  OBVIOUS
<1>4. {blame} \in SUBSET Finding
  BY DEF Finding, Kinds, Sources
<1>5. all_failed(c) \in [DOMAIN all_failed(c) -> BOOLEAN]
  BY DEF all_failed
<1>6. Weighed(c)'
  <2>1. /\ at'[c] = place /\ observations'[c] = <<obs>> /\ findings'[c] = {blame}
        /\ Len(observations'[c]) = 1
    BY <1>0, <1>1, <1>3 DEF TypeOK
  <2>2. broke(c)'
    BY <2>1 DEF broke
  <2>. QED
    BY <2>1, <2>2 DEF Weighed
<1>7. place \in Places
  BY DEF Places
<1>. HIDE DEF blame
<1>. QED
  BY <1>1, <1>2, <1>3, <1>4, <1>5, <1>6, <1>7, OneCase

\* A turn breaks, or the conversation is not opened.
LEMMA BreaksKept ==
  ASSUME EvalInv, ReportInv, NEW c \in Cases, step = "driving",
         NotOpened(c) \/ ErrorFrame(c) \/ Raised(c)
  PROVE  ReportInv'
<1>0. TypeOK
  BY DEF ReportInv
<1>1. CASE NotOpened(c)
  <2>1. PICK made \in BOOLEAN :
          /\ thread' = [thread EXCEPT ![c] = made]
          /\ lost' = IF made THEN lost \cup {c} ELSE lost
    BY <1>1 DEF NotOpened
  <2>2. lost' \subseteq Cases
    BY <1>0, <2>1 DEF TypeOK
  <2>. QED
    BY <1>1, <2>1, <2>2, NoAnswerIsOne, FailedKept DEF NotOpened
<1>2. CASE ErrorFrame(c)
  <2>1. PICK a \in Answers[c] :
          _failed_everything(c, [NoAnswer EXCEPT !.cost = a.cost], turn_of(c))
    BY <1>2 DEF ErrorFrame
  <2>2. a \in Answer
    BY <2>1, EvalAssumption
  <2>3. [NoAnswer EXCEPT !.cost = a.cost] \in Answer
    BY <2>2, NoAnswerIsOne DEF Answer
  <2>4. thread' = [thread EXCEPT ![c] = thread[c]] /\ thread[c] \in BOOLEAN
          /\ lost' \subseteq Cases
    BY <1>0, <1>2 DEF ErrorFrame, TypeOK
  <2>5. turn_of(c) \in Nat
    <3>1. observations[c] \in Seq(Answer)
      BY <1>0 DEF TypeOK
    <3>. QED
      BY <3>1 DEF turn_of
  <2>. QED
    BY <1>2, <2>1, <2>3, <2>4, <2>5, FailedKept DEF ErrorFrame
<1>3. CASE Raised(c)
  <2>1. thread' = [thread EXCEPT ![c] = thread[c]] /\ thread[c] \in BOOLEAN
          /\ lost' \subseteq Cases
    BY <1>0, <1>3 DEF Raised, TypeOK
  <2>2. PICK obs \in Answer, turn \in Nat : _failed_everything(c, obs, turn)
    <3>1. CASE observations[c] = <<>>
      BY <1>3, <3>1, NoAnswerIsOne DEF Raised
    <3>2. CASE observations[c] # <<>>
      <4>1. observations[c] \in Seq(Answer)
        BY <1>0 DEF TypeOK
      <4>2. observations[c][Len(observations[c])] \in Answer /\ Len(observations[c]) \in Nat
        BY <3>2, <4>1
      <4>. QED
        BY <1>3, <3>2, <4>2 DEF Raised
    <3>. QED
      BY <3>1, <3>2
  <2>. QED
    BY <1>3, <2>1, <2>2, FailedKept DEF Raised
<1>. QED
  BY <1>1, <1>2, <1>3

\* A turn that answered, or the case's own checks against the last one.
LEMMA ScoresKept ==
  ASSUME EvalInv, ReportInv, NEW c \in Cases, step = "driving", Answered(c) \/ Scored(c)
  PROVE  ReportInv'
<1>0. TypeOK /\ Shape /\ Counted(c) /\ Weighed(c)
  BY DEF EvalInv, ReportInv
<1>. DEFINE place == IF at[c] = "driving" THEN turn_of(c) ELSE 0
<1>1. /\ observations[c] \in Seq(Answer) /\ Len(observations[c]) \in Nat
      /\ turn_of(c) = Len(observations[c]) + 1
      /\ checks[c] \in [DOMAIN checks[c] -> BOOLEAN]
      /\ findings[c] \in SUBSET Finding /\ found[c] \in SUBSET Finding
  BY <1>0 DEF TypeOK, turn_of
<1>2. place \in Nat /\ (at[c] = "driving" \/ at[c] = "scoring")
  BY <1>1 DEF Answered, Scored
<1>3. PICK a, turn : turn \in Nat /\ apply_checks(c, place, a, turn)
  <2>1. CASE Answered(c)
    BY <1>1, <2>1 DEF Answered
  <2>2. CASE Scored(c)
    BY <1>1, <2>2 DEF Scored
  <2>. QED
    BY <2>1, <2>2
<1>4. PICK fresh, results :
        /\ fresh \in SUBSET Finding
        /\ findings' = [findings EXCEPT ![c] = findings[c] \cup fresh]
        /\ found' = [found EXCEPT ![c] = found[c] \cup fresh]
        /\ checks' = [checks EXCEPT ![c] = results]
        /\ DOMAIN results = DOMAIN checks[c] \cup keys_for(cases[c], place)
        /\ results \in [DOMAIN results -> BOOLEAN]
        /\ \A k \in DOMAIN checks[c] :
             k \notin keys_for(cases[c], place) => results[k] = checks[c][k]
        /\ \A f \in fresh : f.check # "turn"
        /\ \A f \in fresh : \E k \in keys_for(cases[c], place) :
             owes(c, k).check = f.check /\ ~results[k]
  <2>. HIDE DEF place
  <2>. QED
    BY <1>1, <1>2, <1>3, Judged
<1>5. \A k \in DOMAIN checks[c] : k \notin keys_for(cases[c], place)
  <2>1. DOMAIN checks[c] = owed(c, IF at[c] = "driving" THEN Len(observations[c]) ELSE cases[c].turns)
    BY <1>0, <1>2 DEF Counted
  <2>2. \A n \in Nat : \A k \in owed(c, n) : k[1] \in 1..n
    BY DEF owed, keys_for
  <2>3. \A k \in keys_for(cases[c], place) : k[1] = place
    BY DEF keys_for
  <2>4. cases[c].turns \in Nat
    BY EvalAssumption DEF Case
  <2>. QED
    BY <1>1, <1>2, <2>1, <2>2, <2>3, <2>4
<1>6. PICK seen \in Seq(Answer) :
        /\ observations' = [observations EXCEPT ![c] = seen]
        /\ Answered(c) => Len(seen) = turn_of(c)
        /\ Scored(c) => seen = observations[c]
  <2>0. ~(Answered(c) /\ Scored(c))
    BY DEF Answered, Scored
  <2>1. CASE Answered(c)
    <3>1. PICK a1 \in Answers[c] :
            observations' = [observations EXCEPT ![c] = Append(observations[c], a1)]
      BY <2>1 DEF Answered
    <3>2. a1 \in Answer
      BY <3>1, EvalAssumption
    <3>3. /\ Append(observations[c], a1) \in Seq(Answer)
          /\ Len(Append(observations[c], a1)) = turn_of(c)
      BY <1>1, <3>2
    <3>. QED
      BY <2>0, <2>1, <3>1, <3>3
  <2>2. CASE Scored(c)
    <3>1. observations' = [observations EXCEPT ![c] = observations[c]]
      BY <1>0, <2>2 DEF Scored, TypeOK
    <3>. QED
      BY <1>1, <2>0, <2>2, <3>1
  <2>. QED
    BY <2>1, <2>2
<1>7. PICK next \in Places :
        /\ at' = [at EXCEPT ![c] = next]
        /\ Answered(c) => next = IF turn_of(c) = cases[c].turns THEN "scoring" ELSE "driving"
        /\ Scored(c) => next = "closing"
  BY DEF Answered, Scored, Places
<1>8. /\ UNCHANGED <<step, report, rows>> /\ lost' \subseteq Cases
      /\ thread' = [thread EXCEPT ![c] = thread[c]] /\ thread[c] \in BOOLEAN
  BY <1>0 DEF Answered, Scored, TypeOK
<1>9. /\ at'[c] = next /\ observations'[c] = seen /\ findings'[c] = findings[c] \cup fresh
      /\ found'[c] = found[c] \cup fresh /\ checks'[c] = results
  BY <1>0, <1>4, <1>6, <1>7 DEF TypeOK, Shape
<1>10. Weighed(c)'
  <2>1. ~broke(c)
    BY <1>0, <1>2 DEF Counted
  <2>2. ASSUME NEW f \in found[c] \cup fresh
        PROVE  \E k \in DOMAIN results : owes(c, k).check = f.check /\ ~results[k]
    <3>1. CASE f \in found[c]
      <4>1. PICK k \in DOMAIN checks[c] : owes(c, k).check = f.check /\ ~checks[c][k]
        BY <1>0, <2>1, <3>1 DEF Weighed
      <4>. QED
        BY <1>4, <1>5, <4>1
    <3>2. CASE f \in fresh
      BY <1>4, <3>2
    <3>. QED
      BY <3>1, <3>2
  <2>3. \A g \in findings[c] \cup fresh : g.check = "turn" => g.kind = "ERROR"
    BY <1>0, <1>4 DEF Weighed
  <2>4. CASE Answered(c)
    <3>1. at'[c] = "scoring" => Len(observations'[c]) = cases[c].turns
      BY <1>6, <1>7, <1>9, <2>4
    <3>2. at'[c] \in {"driving", "scoring"}
      BY <1>7, <1>9, <2>4
    <3>. QED
      BY <1>9, <2>2, <2>3, <3>1, <3>2 DEF Weighed, owes
  <2>5. CASE Scored(c)
    <3>1. at[c] = "scoring" /\ at'[c] = "closing" /\ observations'[c] = observations[c]
      BY <1>6, <1>7, <1>9, <2>5 DEF Scored
    <3>2. Len(observations[c]) = cases[c].turns /\ cases[c].turns > 0
      BY <1>0, <3>1, EvalAssumption DEF Weighed, Case
    <3>. QED
      BY <1>9, <2>2, <2>3, <3>1, <3>2 DEF Weighed, owes
  <2>. QED
    BY <2>4, <2>5
<1>11. findings[c] \cup fresh \in SUBSET Finding /\ found[c] \cup fresh \in SUBSET Finding
  BY <1>1, <1>4
<1>. HIDE DEF place
<1>. QED
  BY <1>4, <1>6, <1>7, <1>8, <1>10, <1>11, OneCase

-----------------------------------------------------------------------------
(* What a step of the report adds to it.                                     *)

\* A case that is over has finitely many results and at least one observation.
LEMMA Over ==
  ASSUME EvalInv, ReportInv, \A c \in Cases : at[c] = "done"
  PROVE  /\ observations \in [Cases -> Seq(Answer)] /\ findings \in [Cases -> SUBSET Finding]
         /\ \A c \in Cases : IsFiniteSet(DOMAIN checks[c]) /\ Len(observations[c]) > 0
<1>1. ASSUME NEW c \in Cases PROVE IsFiniteSet(DOMAIN checks[c])
  <2>1. DOMAIN checks[c] = all_checks(cases[c])
    BY DEF EvalInv, Counted
  <2>. QED
    BY <2>1, AllChecks
<1>2. ASSUME NEW c \in Cases PROVE Len(observations[c]) > 0
  BY DEF ReportInv, Weighed
<1>. QED
  BY <1>1, <1>2 DEF ReportInv, TypeOK

\* The metrics of a run that was scored are all there.
LEMMA ScoredValues ==
  ASSUME EvalInv, ReportInv, HasScore PROVE report.metrics \in Values
<1>1. \A c \in Cases : at[c] = "done"
  BY DEF EvalInv, Phases
<1>2. report.metrics = compute_metrics(cases, outcomes)
  BY DEF ReportInv, Filed
<1>. QED
  BY <1>1, <1>2, Over, MetricTypes

\* What the cases left stands as it was.
LEMMA CasesStand ==
  ASSUME ReportInv, UNCHANGED <<conversations, found>>
  PROVE  outcomes' = outcomes /\ \A c \in Cases : Weighed(c)'
<1>1. UNCHANGED <<at, thread, observations, findings, checks, found>>
  BY DEF conversations
<1>2. outcomes' = outcomes
  BY <1>1 DEF outcomes
<1>3. ASSUME NEW c \in Cases PROVE Weighed(c)'
  BY <1>1 DEF ReportInv, Weighed, broke, owes
<1>. QED
  BY <1>2, <1>3

LEMMA ScoreKept == ASSUME EvalInv, ReportInv, Score PROVE TypeOK' /\ Filed'
<1>0. TypeOK /\ Filed
  BY DEF ReportInv
<1>1. /\ step = "driving" /\ step' = "scored" /\ \A c \in Cases : at[c] = "done"
      /\ UNCHANGED <<at, thread, observations, findings, checks, found, rows, lost>>
      /\ outcomes' = outcomes
  BY DEF Score, conversations, outcomes
<1>. DEFINE M == compute_metrics(cases, outcomes)
            S == status(outcomes)
            F == UNION {findings[c] : c \in Cases}
<1>2. report' = [report EXCEPT !.status = S, !.metrics = M, !.findings = F]
  BY DEF Score
<1>3. M \in Values
  BY <1>1, Over, MetricTypes
<1>4. S \in {"COMPLETED", "FAILED"}
  BY DEF status
<1>5. F \in SUBSET Finding
  BY <1>0 DEF TypeOK
<1>. HIDE DEF M, S, F
<1>6. /\ report'.status = S /\ report'.metrics = M /\ report'.baseline = report.baseline
      /\ report' \in [status : {"COMPLETED", "FAILED"}, metrics : Values \cup {<<>>},
                      findings : SUBSET Finding, baseline : 0..Len(rows),
                      regressions : SUBSET Metrics, exit : 0..2]
  BY <1>0, <1>2, <1>3, <1>4, <1>5 DEF TypeOK
<1>7. TypeOK'
  BY <1>0, <1>1, <1>6 DEF TypeOK, Steps
<1>8. Filed'
  BY <1>0, <1>1, <1>6 DEF Filed, M, S, unscored
<1>. QED
  BY <1>7, <1>8

\* The last sound run of this golden set is among the rows.
LEMMA LatestBaseline ==
  ASSUME TypeOK
  PROVE  \/ latest_baseline(version) = 0
         \/ /\ latest_baseline(version) \in 1..Len(rows)
            /\ rows[latest_baseline(version)].status = "COMPLETED"
<1>. DEFINE B == baselines(version)
<1>1. Len(rows) \in Nat /\ DOMAIN rows = 1..Len(rows)
  BY DEF TypeOK
<1>2. B \subseteq 1..Len(rows) /\ \A i \in B : rows[i].status = "COMPLETED"
  BY <1>1 DEF baselines
<1>3. CASE B = {}
  BY <1>3 DEF latest_baseline
<1>4. CASE B # {}
  <2>1. IsFiniteSet(1..Len(rows))
    BY <1>1, Upto
  <2>. HIDE DEF B
  <2>2. IsFiniteSet(B)
    BY <1>2, <2>1, Part
  <2>3. B \subseteq Nat
    BY <1>2
  <2>4. Max(B) \in B
    BY <1>4, <2>2, <2>3, Extremes
  <2>5. latest_baseline(version) = Max(B)
    BY <1>4 DEF B, latest_baseline
  <2>. QED
    BY <1>2, <2>4, <2>5
<1>. QED
  BY <1>3, <1>4

LEMMA CompareKept == ASSUME EvalInv, ReportInv, Compare PROVE TypeOK' /\ Filed'
<1>0. TypeOK /\ Filed
  BY DEF ReportInv
<1>1. /\ step = "connected" /\ step' = "compared"
      /\ UNCHANGED <<at, thread, observations, findings, checks, found, rows, lost>>
      /\ outcomes' = outcomes
  BY DEF Compare, conversations, outcomes
<1>2. PICK b, R :
        /\ b = latest_baseline(version)
        /\ R = IF b = 0 THEN {}
               ELSE compare_to_baseline(thresholds, report.metrics, rows[b].metrics)
        /\ report' = [report EXCEPT !.baseline = b, !.regressions = R]
  BY DEF Compare
<1>3. b \in 0..Len(rows) /\ (b # 0 => rows[b].status = "COMPLETED")
  <2>1. Len(rows) \in Nat
    BY <1>0 DEF TypeOK
  <2>. QED
    BY <1>0, <1>2, <2>1, LatestBaseline
<1>4. R \in SUBSET Metrics
  BY <1>2 DEF compare_to_baseline
<1>5. /\ report'.status = report.status /\ report'.metrics = report.metrics
      /\ report'.baseline = b /\ report'.regressions = R
      /\ report' \in [status : {"COMPLETED", "FAILED"}, metrics : Values \cup {<<>>},
                      findings : SUBSET Finding, baseline : 0..Len(rows),
                      regressions : SUBSET Metrics, exit : 0..2]
  BY <1>0, <1>2, <1>3, <1>4 DEF TypeOK
<1>6. TypeOK'
  BY <1>0, <1>1, <1>5 DEF TypeOK, Steps
<1>7. report.status = status(outcomes) /\ report.metrics = compute_metrics(cases, outcomes)
  BY <1>0, <1>1 DEF Filed, HasScore
<1>8. Filed'
  BY <1>1, <1>2, <1>3, <1>5, <1>7 DEF Filed
<1>. QED
  BY <1>6, <1>8

\* Filing adds a row and marks it; the rows before it keep what they say.
LEMMA SaveKept ==
  ASSUME EvalInv, ReportInv, SaveRun \/ SaveFindings PROVE TypeOK' /\ Filed'
<1>0. TypeOK /\ Filed
  BY DEF ReportInv
<1>1. /\ step \in {"compared", "filing"} /\ step' \in {"filing", "filed"}
      /\ UNCHANGED <<at, thread, observations, findings, checks, found, report, lost>>
      /\ outcomes' = outcomes
  BY DEF SaveRun, SaveFindings, conversations, outcomes
<1>2. Len(rows) \in Nat /\ rows \in Seq(Row)
  BY <1>0 DEF TypeOK
<1>3. /\ rows' \in Seq(Row) /\ Len(rows') \in Nat /\ Len(rows) <= Len(rows')
      /\ \A i \in 1..Len(rows) : /\ rows'[i].status = rows[i].status
                                 /\ rows'[i].metrics = rows[i].metrics
      /\ step' = "filing" => Len(rows') > 0
  <2>1. CASE SaveRun
    <3>. DEFINE row == [version |-> version, status |-> report.status,
                        metrics |-> report.metrics, findings |-> FALSE]
    <3>1. row \in Row
      <4>1. report.metrics \in Values
        BY <2>1, ScoredValues DEF SaveRun, HasScore
      <4>2. report.status \in {"COMPLETED", "FAILED"} /\ version \in Versions
        BY <1>0, EvalAssumption DEF TypeOK
      <4>. QED
        BY <4>1, <4>2 DEF Row
    <3>2. rows' = Append(rows, row)
      BY <2>1 DEF SaveRun
    <3>. HIDE DEF row
    <3>. QED
      BY <1>2, <3>1, <3>2
  <2>2. CASE SaveFindings
    <3>1. rows' = [rows EXCEPT ![Len(rows)] = [rows[Len(rows)] EXCEPT !.findings = TRUE]]
      BY <2>2 DEF SaveFindings
    <3>2. Len(rows) > 0
      BY <1>0, <2>2 DEF SaveFindings, Filed
    <3>. DEFINE row == [rows[Len(rows)] EXCEPT !.findings = TRUE]
    <3>3. rows[Len(rows)] \in Row
      BY <1>2, <3>2
    <3>4. row \in Row /\ row.status = rows[Len(rows)].status
            /\ row.metrics = rows[Len(rows)].metrics
      BY <3>3 DEF Row
    <3>. HIDE DEF row
    <3>5. rows' = [rows EXCEPT ![Len(rows)] = row]
      BY <3>1 DEF row
    <3>. QED
      BY <1>2, <3>2, <3>4, <3>5
  <2>. QED
    BY <2>1, <2>2
<1>4. report.baseline \in 0..Len(rows) /\ report.baseline \in 0..Len(rows')
  BY <1>0, <1>2, <1>3 DEF TypeOK
<1>5. TypeOK'
  BY <1>0, <1>1, <1>3, <1>4 DEF TypeOK, Steps
<1>6. report.baseline # 0 => /\ rows'[report.baseline].status = rows[report.baseline].status
                             /\ rows'[report.baseline].metrics = rows[report.baseline].metrics
  BY <1>2, <1>3, <1>4
<1>7. Filed'
  BY <1>0, <1>1, <1>3, <1>6 DEF Filed, HasScore
<1>. QED
  BY <1>5, <1>7

LEMMA RenderKept == ASSUME EvalInv, ReportInv, Render PROVE TypeOK' /\ Filed'
<1>0. TypeOK /\ Filed
  BY DEF ReportInv
<1>1. /\ step = "filed" /\ step' = "printed"
      /\ UNCHANGED <<at, thread, observations, findings, checks, found, rows, lost>>
      /\ outcomes' = outcomes
  BY DEF Render, conversations, outcomes
<1>2. PICK e : e = exit_code /\ report' = [report EXCEPT !.exit = e]
  BY DEF Render
<1>3. e \in 0..2
  BY <1>2 DEF exit_code
<1>4. /\ report'.status = report.status /\ report'.metrics = report.metrics
      /\ report'.baseline = report.baseline /\ report'.regressions = report.regressions
      /\ report'.exit = e
      /\ report' \in [status : {"COMPLETED", "FAILED"}, metrics : Values \cup {<<>>},
                      findings : SUBSET Finding, baseline : 0..Len(rows),
                      regressions : SUBSET Metrics, exit : 0..2]
  BY <1>0, <1>2, <1>3 DEF TypeOK
<1>5. TypeOK'
  BY <1>0, <1>1, <1>4 DEF TypeOK, Steps
<1>6. exit_code' = exit_code
  BY <1>4 DEF exit_code, crossed
<1>7. Filed'
  BY <1>0, <1>1, <1>2, <1>4, <1>6 DEF Filed, HasScore
<1>. QED
  BY <1>5, <1>7

LEMMA ReportStepsKept ==
  ASSUME EvalInv, ReportInv, Start \/ Report \/ Broken \/ Killed
  PROVE  ReportInv'
<1>0. TypeOK /\ Filed
  BY DEF ReportInv
<1>1. UNCHANGED <<conversations, found>>
  BY DEF Start, Report, Score, Connect, Compare, SaveRun, SaveFindings, Render, Broken, Killed
<1>2. outcomes' = outcomes /\ \A c \in Cases : Weighed(c)'
  BY <1>1, CasesStand
<1>3. TypeOK' /\ Filed'
  <2>1. CASE Score
    BY <2>1, ScoreKept
  <2>2. CASE Compare
    BY <2>2, CompareKept
  <2>3. CASE SaveRun \/ SaveFindings
    BY <2>3, SaveKept
  <2>4. CASE Render
    BY <2>4, RenderKept
  <2>5. CASE Start \/ Broken \/ Killed
    <3>1. /\ step' \in {"driving", "broken"} /\ (step' = "driving" => step = "idle")
          /\ UNCHANGED <<report, rows>> /\ lost' \subseteq Cases
      BY <1>0, <2>5 DEF Start, Broken, Killed, TypeOK
    <3>2. TypeOK'
      BY <1>0, <1>1, <3>1 DEF TypeOK, Steps, conversations
    <3>. QED
      BY <1>0, <3>1, <3>2 DEF Filed, HasScore
  <2>6. CASE Connect
    <3>1. step = "scored" /\ step' \in {"connected", "filed"} /\ UNCHANGED <<report, rows, lost>>
      BY <2>6 DEF Connect
    <3>2. TypeOK'
      BY <1>0, <1>1, <3>1 DEF TypeOK, Steps, conversations
    <3>3. step' = "filed" => report.baseline = 0
      BY <1>0, <3>1 DEF Filed
    <3>. QED
      BY <1>0, <1>2, <3>1, <3>2, <3>3 DEF Filed, HasScore
  <2>. QED
    BY <2>1, <2>2, <2>3, <2>4, <2>5, <2>6 DEF Report
<1>. QED
  BY <1>2, <1>3 DEF ReportInv

LEMMA ReportInit == Init => ReportInv
<1>. SUFFICES ASSUME Init PROVE ReportInv
  OBVIOUS
<1>1. report = unscored /\ rows \in Seq(Row)
  BY EvalAssumption DEF Init
<1>2. report \in [status : {"COMPLETED", "FAILED"}, metrics : Values \cup {<<>>},
                  findings : SUBSET Finding, baseline : 0..Len(rows),
                  regressions : SUBSET Metrics, exit : 0..2]
  BY <1>1 DEF unscored
<1>3. TypeOK
  BY <1>1, <1>2 DEF Init, TypeOK, Steps, Places
<1>4. Filed
  BY <1>1 DEF Init, Filed, HasScore, unscored
<1>5. ASSUME NEW c \in Cases PROVE Weighed(c)
  BY DEF Init, Weighed, broke
<1>. QED
  BY <1>3, <1>4, <1>5 DEF ReportInv

\* The invariant of the report holds of every state of an evaluation.
THEOREM ReportInductive == Spec => []ReportInv
<1>1. EvalInv /\ ReportInv /\ [Next]_vars => ReportInv'
  <2>. SUFFICES ASSUME EvalInv, ReportInv, [Next]_vars PROVE ReportInv'
    OBVIOUS
  <2>1. ASSUME NEW c \in Cases, Enter(c) PROVE ReportInv'
    BY <2>1, MovesKept DEF Enter
  <2>2. ASSUME NEW c \in Cases, CaseStep(c) PROVE ReportInv'
    BY <2>2, MovesKept, BreaksKept, ScoresKept DEF CaseStep
  <2>3. CASE Start \/ Report \/ Broken \/ Killed
    BY <2>3, ReportStepsKept
  <2>4. CASE UNCHANGED vars
    <3>1. UNCHANGED <<conversations, found>> /\ TypeOK /\ Filed
      BY <2>4 DEF vars, ReportInv
    <3>2. outcomes' = outcomes /\ \A c \in Cases : Weighed(c)'
      BY <3>1, CasesStand
    <3>3. TypeOK'
      BY <2>4, <3>1 DEF vars, conversations, TypeOK
    <3>4. Filed'
      BY <2>4, <3>1, <3>2 DEF vars, Filed, HasScore, exit_code, crossed
    <3>. QED
      BY <3>2, <3>3, <3>4 DEF ReportInv
  <2>. QED
    BY <2>1, <2>2, <2>3, <2>4 DEF Next
<1>. QED
  BY <1>1, EvalInductive, ReportInit, PTL DEF Spec

\* A run, its cases and the rows it files have the types they are declared with.
THEOREM EvalTypes == Spec => []TypeOK
<1>1. ReportInv => TypeOK
  BY DEF ReportInv
<1>. QED
  BY <1>1, ReportInductive, PTL

\* No rate of a scored run exceeds one, and each case counts in one of them.
THEOREM Rating == Spec => []RatesAreRates
<1>1. EvalInv /\ ReportInv => RatesAreRates
  <2>. SUFFICES ASSUME EvalInv, ReportInv, HasScore PROVE RatesAreRates
    BY DEF RatesAreRates
  <2>1. \A c \in Cases : at[c] = "done"
    BY DEF EvalInv, Phases
  <2>2. report.metrics = compute_metrics(cases, outcomes)
    BY DEF ReportInv, Filed
  <2>. QED
    BY <2>1, <2>2, Over, RatesHold
<1>. QED
  BY <1>1, EvalInductive, ReportInductive, PTL

-----------------------------------------------------------------------------
(* The comparison with an earlier run, and the exit code.                    *)

\* Fractions: what is below the bar is below what is not.
LEMMA Below ==
  ASSUME NEW v \in Nat \X Nat, NEW w \in Nat \X Nat, NEW bar \in Int \X (Nat \ {0}),
         v[2] # 0, w[2] # 0
  PROVE  /\ less(v, bar) /\ ~less(w, bar) => less(v, w)
         /\ less(bar, v) /\ ~less(bar, w) => less(w, v)
<1>1. PICK n \in Nat, d \in Nat : v = <<n, d>> /\ d > 0
  OBVIOUS
<1>2. PICK p \in Nat, q \in Nat : w = <<p, q>> /\ q > 0
  OBVIOUS
<1>3. PICK a \in Int, b \in Nat : bar = <<a, b>> /\ b > 0
  OBVIOUS
<1>4. \A x, y, z \in Int : x < y /\ z > 0 => x * z < y * z
  OBVIOUS
<1>5. \A x, y, z \in Int : x <= y /\ z > 0 => x * z <= y * z
  OBVIOUS
<1>6. \A x, y, z \in Int : x * z < y * z /\ z > 0 => x < y
  OBVIOUS
<1>7. /\ n * b \in Int /\ a * d \in Int /\ p * b \in Int /\ a * q \in Int
      /\ n * q \in Int /\ p * d \in Int
  OBVIOUS
<1>8. /\ (n * b) * q = (n * q) * b /\ (p * b) * d = (p * d) * b
      /\ (a * d) * q = (a * q) * d
  OBVIOUS
<1>9. ASSUME n * b < a * d, a * q <= p * b PROVE n * q < p * d
  <2>1. (n * b) * q < (a * d) * q
    BY <1>2, <1>4, <1>7, <1>9
  <2>2. (a * q) * d <= (p * b) * d
    BY <1>1, <1>5, <1>7, <1>9
  <2>3. (n * q) * b < (p * d) * b
    BY <1>7, <1>8, <2>1, <2>2
  <2>. QED
    BY <1>3, <1>6, <1>7, <2>3
<1>10. ASSUME a * d < n * b, p * b <= a * q PROVE p * d < n * q
  <2>1. (a * d) * q < (n * b) * q
    BY <1>2, <1>4, <1>7, <1>10
  <2>2. (p * b) * d <= (a * q) * d
    BY <1>1, <1>5, <1>7, <1>10
  <2>3. (p * d) * b < (n * q) * b
    BY <1>7, <1>8, <2>1, <2>2
  <2>. QED
    BY <1>3, <1>6, <1>7, <2>3
<1>11. /\ less(v, bar) <=> n * b < a * d
       /\ less(w, bar) <=> p * b < a * q
       /\ less(bar, v) <=> a * d < n * b
       /\ less(bar, w) <=> a * q < p * b
       /\ less(v, w) <=> n * q < p * d
       /\ less(w, v) <=> p * d < n * q
  BY <1>1, <1>2, <1>3 DEF less
<1>. QED
  BY <1>7, <1>9, <1>10, <1>11

\* A metric that cleared its bar and no longer does got worse, however little it moved.
LEMMA Crossings ==
  ASSUME NEW before \in Values, NEW now \in Values, NEW m \in Metrics,
         taken(before[m]), clears(thresholds, m, before[m]), ~clears(thresholds, m, now[m])
  PROVE  m \in compare_to_baseline(thresholds, now, before)
<1>. DEFINE v == now[m]
            w == before[m]
<1>1. v \in Nat \X Nat /\ w \in Nat \X Nat
  BY DEF Values
<1>2. m \in DOMAIN thresholds /\ v[2] # 0 /\ w[2] # 0
  BY DEF clears, taken
<1>. DEFINE bar == thresholds[m].value
<1>3. bar \in Int \X (Nat \ {0}) /\ thresholds[m].direction \in {">=", "<="}
  BY <1>2, EvalAssumption DEF Bar
<1>. HIDE DEF v, w, bar
<1>4. /\ less(v, bar) /\ ~less(w, bar) => less(v, w)
      /\ less(bar, v) /\ ~less(bar, w) => less(w, v)
  BY <1>1, <1>2, <1>3, Below
<1>5. worse(thresholds, m, v, w)
  BY <1>2, <1>3, <1>4 DEF clears, taken, worse, v, w, bar
<1>. QED
  BY <1>2, <1>5 DEF compare_to_baseline, taken, v, w

\* A metric that no longer clears its bar is reported, and the run it is compared with was
\* sound.
THEOREM Crossing == Spec => []CrossingIsReported
<1>1. EvalInv /\ ReportInv => CrossingIsReported
  <2>. SUFFICES ASSUME EvalInv, ReportInv,
                       step \in {"compared", "filing", "filed", "printed"},
                       report.baseline # 0, NEW before, before = rows[report.baseline].metrics
                PROVE  /\ rows[report.baseline].status = "COMPLETED"
                       /\ \A m \in Metrics :
                            taken(before[m]) /\ clears(thresholds, m, before[m])
                              /\ ~clears(thresholds, m, report.metrics[m])
                            => m \in report.regressions
    BY DEF CrossingIsReported
  <2>1. TypeOK /\ Filed
    BY DEF ReportInv
  <2>2. report.metrics \in Values
    BY ScoredValues DEF HasScore
  <2>3. before \in Values
    <3>1. rows \in Seq(Row) /\ report.baseline \in 1..Len(rows)
      BY <2>1 DEF TypeOK
    <3>2. rows[report.baseline] \in Row
      BY <3>1
    <3>. QED
      BY <3>2 DEF Row
  <2>4. report.regressions = compare_to_baseline(thresholds, report.metrics, before)
    BY <2>1 DEF Filed
  <2>5. rows[report.baseline].status = "COMPLETED"
    BY <2>1 DEF Filed
  <2>6. \A m \in Metrics :
          taken(before[m]) /\ clears(thresholds, m, before[m])
            /\ ~clears(thresholds, m, report.metrics[m])
          => m \in report.regressions
    BY <2>2, <2>3, <2>4, Crossings
  <2>. QED
    BY <2>5, <2>6
<1>. QED
  BY <1>1, EvalInductive, ReportInductive, PTL

\* The bars that make an exit code of 0 mean something: no turn may break, and every gate
\* that has to fire fires.
NothingLetThrough ==
  /\ {"turn_error_rate", "guard_recall"} \subseteq DOMAIN thresholds
  /\ thresholds["turn_error_rate"] = threshold(<<0, 1>>, "<=")
  /\ thresholds["guard_recall"] = threshold(<<1, 1>>, ">=")

\* The banking assistant's bars are such.
Banking == INSTANCE Golden
LEMMA BankingBars == thresholds = Banking!THRESHOLDS => NothingLetThrough
BY DEF NothingLetThrough, threshold, Banking!THRESHOLDS, Banking!threshold

\* The one check that is called "blocks" joins guard_recall.
LEMMA BlocksIsOne ==
  ASSUME NEW x \in Check, x.check = "blocks" PROVE x.metric = "guard_recall"
<1>1. contains.check = "contains" /\ not_contains.check = "not_contains"
  BY DEF contains, not_contains, check
<1>2. calls_tools.check = "calls_tools" /\ does_not_block.check = "does_not_block"
  BY DEF calls_tools, does_not_block, check
<1>3. \A kind : judge(kind).check = "judge"
  BY DEF judge, check
<1>4. blocks.metric = "guard_recall"
  BY DEF blocks, check
<1>. QED
  BY <1>1, <1>2, <1>3, <1>4 DEF Check

\* A run that exits with 0 broke no turn.
LEMMA NoneBroke ==
  ASSUME EvalInv, ReportInv, NothingLetThrough, step = "printed", report.exit = 0,
         NEW c \in Cases
  PROVE  ~errored(outcomes[c])
<1>. DEFINE bad == {d \in Cases : errored(outcomes[d])}
            rate == report.metrics["turn_error_rate"]
<1>1. /\ report.exit = exit_code /\ report.metrics = compute_metrics(cases, outcomes)
      /\ \A d \in Cases : at[d] = "done"
  BY DEF EvalInv, ReportInv, Filed, Phases, HasScore
<1>2. clears(thresholds, "turn_error_rate", rate)
  <2>1. "turn_error_rate" \in Metrics
    BY DEF Metrics, Rates
  <2>. QED
    BY <1>1, <2>1 DEF exit_code, crossed
<1>3. rate = <<Cardinality(bad), Cardinality(turns)>>
  BY <1>1, Scorecard
<1>4. IsFiniteSet(bad) /\ Cardinality(bad) \in Nat
  BY Counts
<1>5. IsFiniteSet(turns) /\ Cardinality(turns) \in Nat /\ Cardinality(turns) # 0
  <2>1. observations \in [Cases -> Seq(Answer)] /\ Len(observations[c]) > 0
    BY <1>1, Over
  <2>2. <<c, 1>> \in turns
    <3>1. Len(observations[c]) \in Nat
      BY <2>1
    <3>2. 1 \in 1..Len(observations[c])
      BY <2>1, <3>1
    <3>. QED
      BY <2>1, <3>2, Observed DEF turns
  <2>3. IsFiniteSet(turns)
    BY <2>1, Observed DEF turns
  <2>. QED
    BY <2>2, <2>3, FS_CardinalityType, FS_EmptySet
<1>. HIDE DEF bad, rate
<1>6. Cardinality(bad) = 0
  <2>1. ~less(<<0, 1>>, rate)
    BY <1>2, <1>3, <1>5 DEF clears, taken, NothingLetThrough, threshold
  <2>. QED
    BY <1>3, <1>4, <1>5, <2>1 DEF less
<1>7. bad = {}
  BY <1>4, <1>6, FS_EmptySet
<1>. QED
  BY <1>7 DEF bad

\* A run that exits with 0 passed every check that joins guard_recall.
LEMMA AllBlocked ==
  ASSUME EvalInv, ReportInv, NothingLetThrough, step = "printed", report.exit = 0,
         NEW c \in Cases, NEW k \in DOMAIN checks[c], owes(c, k).metric = "guard_recall"
  PROVE  checks[c][k]
<1>. SUFFICES ASSUME ~checks[c][k] PROVE FALSE
  OBVIOUS
<1>. DEFINE rate == report.metrics["guard_recall"]
<1>1. /\ report.exit = exit_code /\ report.metrics = compute_metrics(cases, outcomes)
      /\ \A d \in Cases : at[d] = "done"
  BY DEF EvalInv, ReportInv, Filed, Phases, HasScore
<1>2. clears(thresholds, "guard_recall", rate)
  <2>1. "guard_recall" \in Metrics
    BY DEF Metrics, Rates
  <2>. QED
    BY <1>1, <2>1 DEF exit_code, crossed
<1>3. rate = check_rate(cases, outcomes, "guard_recall")
  BY <1>1, Scorecard
<1>4. rate \in Nat \X Nat /\ rate[1] < rate[2]
  <2>1. \A d \in Cases : IsFiniteSet(DOMAIN checks[d])
    BY <1>1, Over
  <2>. QED
    BY <1>3, <2>1, CheckRate
<1>. HIDE DEF rate
<1>5. ~less(rate, <<1, 1>>)
  BY <1>2, <1>4 DEF clears, taken, NothingLetThrough, threshold
<1>. QED
  BY <1>4, <1>5 DEF less

\* With such bars an exit code of 0 means a clean run: nothing fabricated, nothing broken,
\* no gate that let through or shut out what it should not have, every turn driven.
THEOREM Green == NothingLetThrough => (Spec => []GreenIsClean)
<1>1. NothingLetThrough /\ EvalInv /\ ReportInv => GreenIsClean
  <2>. SUFFICES ASSUME NothingLetThrough, EvalInv, ReportInv,
                       step = "printed", report.exit = 0, NEW c \in Cases
                PROVE  /\ \A f \in found[c] : /\ f.kind \notin {"FABRICATION", "ERROR"}
                                              /\ f.check \notin {"does_not_block", "blocks"}
                       /\ Len(observations[c]) = cases[c].turns
    BY DEF GreenIsClean
  <2>1. at[c] = "done" /\ Kept(c) /\ Weighed(c)
    BY DEF EvalInv, ReportInv, Phases, HasScore
  <2>2. \A g \in findings[c] : g.kind # "ERROR"
    BY NoneBroke, Outcomes DEF errored
  <2>3. ~broke(c)
    BY <2>1, <2>2 DEF Weighed, broke
  <2>4. found[c] \subseteq findings[c] /\ Len(observations[c]) = cases[c].turns
    BY <2>1, <2>3 DEF Kept, Weighed
  <2>5. \A g \in findings[c] : g.kind # "FABRICATION" /\ g.check # "does_not_block"
    <3>1. report.status = status(outcomes) /\ report.exit = exit_code
      BY DEF ReportInv, Filed, HasScore
    <3>2. violations(outcomes) = {}
      BY <3>1 DEF exit_code, status
    <3>. QED
      BY <3>2, Outcomes DEF violations
  <2>6. ASSUME NEW f \in found[c] PROVE f.check # "blocks"
    <3>1. PICK k \in DOMAIN checks[c] : owes(c, k).check = f.check /\ ~checks[c][k]
      BY <2>1, <2>3 DEF Weighed
    <3>2. owes(c, k) \in Check
      <4>1. DOMAIN checks[c] = all_checks(cases[c])
        BY <2>1 DEF EvalInv, Counted
      <4>. QED
        BY <4>1, AllChecks
    <3>. QED
      BY <3>1, <3>2, BlocksIsOne, AllBlocked
  <2>. QED
    BY <2>2, <2>4, <2>5, <2>6
<1>. SUFFICES ASSUME NothingLetThrough PROVE Spec => []GreenIsClean
  OBVIOUS
<1>2. EvalInv /\ ReportInv => GreenIsClean
  BY <1>1
<1>. QED
  BY <1>2, EvalInductive, ReportInductive, PTL

-----------------------------------------------------------------------------
(* That an evaluation goes on: it drives no more cases than it has slots,  *)
(* a case that is over gives its slot back, and every step takes one case  *)
(* or the run itself nearer to its end.                                    *)

\* A run is never inside more conversations than it was given slots (runner.py, the
\* semaphore of run_golden_set), whatever breaks in them.
InsideItsSlots == Cardinality(Inside) <= concurrency

LEMMA InsideIsFinite ==
  /\ IsFiniteSet(Inside) /\ Cardinality(Inside) \in Nat
  /\ \A S \in SUBSET Inside : Cardinality(S) \in Nat /\ Cardinality(S) <= Cardinality(Inside)
<1>1. IsFiniteSet(Inside)
  BY EvalAssumption, FS_Subset DEF Inside
<1>. QED
  BY <1>1, FS_Subset, FS_CardinalityType

LEMMA SlotTaken ==
  ASSUME EvalInv, NEW c \in Cases, Enter(c)
  PROVE  InsideItsSlots'
<1>1. /\ at[c] = "waiting" /\ Cardinality(Inside) < concurrency
      /\ at' = [at EXCEPT ![c] = "opening"] /\ at \in [Cases -> Places]
  BY DEF Enter, EvalInv, Shape
<1>2. Inside' = Inside \cup {c} /\ c \notin Inside
  BY <1>1 DEF Inside
<1>3. Cardinality(Inside') = Cardinality(Inside) + 1
  BY <1>2, InsideIsFinite, FS_AddElement
<1>. QED
  BY <1>1, <1>3, InsideIsFinite, EvalAssumption DEF InsideItsSlots

LEMMA SlotKept ==
  ASSUME EvalInv, InsideItsSlots, NEW c \in Cases, CaseStep(c)
  PROVE  InsideItsSlots'
<1>1. /\ at[c] \in {"opening", "driving", "scoring", "closing"} /\ at \in [Cases -> Places]
      /\ at' = [at EXCEPT ![c] = at'[c]]
  BY DEF CaseStep, Opened, NotOpened, Answered, ErrorFrame, Raised, Scored, Close, EvalInv, Shape
<1>2. Inside' \subseteq Inside
  BY <1>1 DEF Inside
<1>3. Cardinality(Inside') <= Cardinality(Inside) /\ Cardinality(Inside') \in Nat
  BY <1>2, InsideIsFinite
<1>. QED
  BY <1>3, InsideIsFinite, EvalAssumption DEF InsideItsSlots

LEMMA AtStands ==
  ASSUME Start \/ Report \/ Broken \/ Killed
  PROVE  UNCHANGED conversations
BY DEF Start, Report, Score, Connect, Compare, SaveRun, SaveFindings, Render, Broken, Killed

\* Over any golden set and any number of slots, the slots are what bounds the run.
THEOREM SlotsBound == Spec => []InsideItsSlots
<1>1. Init => InsideItsSlots
  <2>. SUFFICES ASSUME Init PROVE InsideItsSlots
    OBVIOUS
  <2>1. Inside = {}
    BY DEF Init, Inside
  <2>. QED
    BY <2>1, FS_EmptySet, EvalAssumption DEF InsideItsSlots
<1>2. EvalInv /\ InsideItsSlots /\ [Next]_vars => InsideItsSlots'
  <2>. SUFFICES ASSUME EvalInv, InsideItsSlots, [Next]_vars PROVE InsideItsSlots'
    OBVIOUS
  <2>1. CASE UNCHANGED conversations
    BY <2>1 DEF InsideItsSlots, Inside, conversations
  <2>2. CASE \E c \in Cases : Enter(c) \/ CaseStep(c)
    BY <2>2, SlotTaken, SlotKept
  <2>. QED
    BY <2>1, <2>2, AtStands DEF Next, vars
<1>. QED
  BY <1>1, <1>2, EvalInductive, PTL DEF Spec

\* The values a step of case c gives the variables, by those it gives to c's own.
CaseValues(c, place, there, obs, faults, counted, everything, unheard) ==
  <<step, <<[at EXCEPT ![c] = place], [thread EXCEPT ![c] = there],
            [observations EXCEPT ![c] = obs], [findings EXCEPT ![c] = faults],
            [checks EXCEPT ![c] = counted]>>,
    report, rows, [found EXCEPT ![c] = everything], unheard>>

AfterMove(c, place, there) ==
  CaseValues(c, place, there, observations[c], findings[c], checks[c], found[c], lost)

\* The stream of a case timed out.
AfterRaised(c) ==
  LET n == Len(observations[c]) IN
  CaseValues(c, "closing", thread[c],
             <<IF observations[c] = <<>> THEN NoAnswer ELSE observations[c][n]>>,
             {[turn |-> IF observations[c] = <<>> THEN 1 ELSE n,
               kind |-> "ERROR", check |-> "turn", source |-> "check"]},
             all_failed(c), found[c], lost)

\* The case's own checks have been run against its last turn.
AfterScored(c) ==
  LET a == observations[c][Len(observations[c])]
      keys == keys_for(cases[c], 0)
      failing(k) == fails(checks_for(cases[c], 0)[k[2]], a)
      fresh == {finding(checks_for(cases[c], 0)[k[2]], a, Len(observations[c])) :
                  k \in {k \in keys : failing(k)}}
  IN  CaseValues(c, "closing", thread[c], observations[c], findings[c] \cup fresh,
                 [k \in DOMAIN checks[c] \cup keys |->
                    IF k \in keys THEN ~failing(k) ELSE checks[c][k]],
                 found[c] \cup fresh, lost)

LEMMA CaseValuesAre ==
  ASSUME Shape, NEW c \in Cases, NEW place, NEW there, NEW obs, NEW faults, NEW counted,
         NEW everything, NEW unheard,
         vars' = CaseValues(c, place, there, obs, faults, counted, everything, unheard)
  PROVE  /\ UNCHANGED <<step, report, rows>>
         /\ at' = [at EXCEPT ![c] = place]
         /\ thread' = [thread EXCEPT ![c] = there]
         /\ observations' = [observations EXCEPT ![c] = obs]
         /\ findings' = [findings EXCEPT ![c] = faults]
         /\ checks' = [checks EXCEPT ![c] = counted]
         /\ found' = [found EXCEPT ![c] = everything] /\ lost' = unheard
         /\ there = thread[c] => thread' = thread
         /\ obs = observations[c] => observations' = observations
         /\ faults = findings[c] => findings' = findings
         /\ counted = checks[c] => checks' = checks
         /\ everything = found[c] => found' = found
<1>1. /\ UNCHANGED <<step, report, rows>>
      /\ at' = [at EXCEPT ![c] = place]
      /\ thread' = [thread EXCEPT ![c] = there]
      /\ observations' = [observations EXCEPT ![c] = obs]
      /\ findings' = [findings EXCEPT ![c] = faults]
      /\ checks' = [checks EXCEPT ![c] = counted]
      /\ found' = [found EXCEPT ![c] = everything] /\ lost' = unheard
  BY DEF CaseValues, vars, conversations
<1>2. /\ there = thread[c] => thread' = thread
      /\ obs = observations[c] => observations' = observations
  BY <1>1 DEF Shape
<1>3. faults = findings[c] => findings' = findings
  BY <1>1 DEF Shape
<1>4. counted = checks[c] => checks' = checks
  BY <1>1 DEF Shape
<1>5. everything = found[c] => found' = found
  BY <1>1 DEF Shape
<1>. QED
  BY <1>1, <1>2, <1>3, <1>4, <1>5

LEMMA MoveIs ==
  ASSUME Shape, NEW c \in Cases, NEW place, NEW there, vars' = AfterMove(c, place, there)
  PROVE  /\ UNCHANGED <<step, report, rows, observations, findings, checks, found, lost>>
         /\ at' = [at EXCEPT ![c] = place]
         /\ thread' = [thread EXCEPT ![c] = there]
         /\ there = thread[c] => thread' = thread
<1>1. vars' = CaseValues(c, place, there, observations[c], findings[c], checks[c], found[c], lost)
  BY DEF AfterMove
<1>. QED
  BY <1>1, CaseValuesAre

\* No slot is lost: as long as a case is not over, one is inside a slot or a slot is free
\* for one that waits, and either has a step, as a timeout if as nothing else; once all are
\* over there is a score.  Whoever gives the variables the values written there, which
\* nothing keeps him from, takes that step (runner.py, run_case, run_golden_set).
THEOREM EvalOnward ==
  ASSUME EvalInv, step = "driving"
  PROVE
    /\ \/ \E c \in Cases : at[c] \in {"opening", "driving", "scoring", "closing"}
       \/ \E c \in Cases : at[c] = "waiting" /\ Cardinality(Inside) < concurrency
       \/ \A c \in Cases : at[c] = "done"
    /\ \A c \in Cases :
         /\ at[c] = "waiting" /\ Cardinality(Inside) < concurrency
              /\ vars' = AfterMove(c, "opening", thread[c]) => Enter(c)
         /\ at[c] = "opening" /\ vars' = AfterMove(c, "driving", TRUE) => CaseStep(c)
         /\ at[c] = "driving" /\ vars' = AfterRaised(c) => CaseStep(c)
         /\ at[c] = "scoring" /\ vars' = AfterScored(c) => CaseStep(c)
         /\ at[c] = "closing" /\ vars' = AfterMove(c, "done", FALSE) => CaseStep(c)
    /\ (\A c \in Cases : at[c] = "done")
         /\ vars' = <<"scored", conversations,
                      [report EXCEPT !.status = status(outcomes),
                                     !.metrics = compute_metrics(cases, outcomes),
                                     !.findings = UNION {findings[c] : c \in Cases}],
                      rows, found, lost>>
       => Score
<1>0. Shape
  BY DEF EvalInv
<1>1. \/ \E c \in Cases : at[c] \in {"opening", "driving", "scoring", "closing"}
      \/ \E c \in Cases : at[c] = "waiting" /\ Cardinality(Inside) < concurrency
      \/ \A c \in Cases : at[c] = "done"
  <2>. SUFFICES ASSUME ~\E c \in Cases : at[c] \in {"opening", "driving", "scoring", "closing"},
                       NEW c \in Cases, at[c] # "done"
                PROVE  at[c] = "waiting" /\ Cardinality(Inside) < concurrency
    OBVIOUS
  <2>1. \A d \in Cases : at[d] \in {"waiting", "done"}
    BY <1>0 DEF Shape, Places
  <2>2. Inside = {}
    BY <2>1 DEF Inside
  <2>. QED
    BY <2>1, <2>2, FS_EmptySet, EvalAssumption
<1>2. ASSUME NEW c \in Cases, at[c] = "waiting", Cardinality(Inside) < concurrency,
             vars' = AfterMove(c, "opening", thread[c])
      PROVE  Enter(c)
  BY <1>0, <1>2, MoveIs DEF Enter
<1>3. ASSUME NEW c \in Cases, at[c] = "opening", vars' = AfterMove(c, "driving", TRUE)
      PROVE  CaseStep(c)
  <2>1. Opened(c)
    BY <1>0, <1>3, MoveIs DEF Opened
  <2>. QED
    BY <2>1 DEF CaseStep
<1>4. ASSUME NEW c \in Cases, at[c] = "driving", vars' = AfterRaised(c)
      PROVE  CaseStep(c)
  <2>. DEFINE n == Len(observations[c])
              obs == IF observations[c] = <<>> THEN NoAnswer ELSE observations[c][n]
              turn == IF observations[c] = <<>> THEN 1 ELSE n
              blame == {[turn |-> turn, kind |-> "ERROR", check |-> "turn", source |-> "check"]}
  <2>1. /\ UNCHANGED <<step, report, rows, thread, found, lost>>
        /\ at' = [at EXCEPT ![c] = "closing"]
        /\ observations' = [observations EXCEPT ![c] = <<obs>>]
        /\ findings' = [findings EXCEPT ![c] = blame]
        /\ checks' = [checks EXCEPT ![c] = all_failed(c)]
    BY <1>0, <1>4, CaseValuesAre DEF AfterRaised
  <2>2. _failed_everything(c, obs, turn)
    BY <2>1 DEF _failed_everything, keeps
  <2>3. Raised(c)
    BY <1>4, <2>1, <2>2 DEF Raised
  <2>. QED
    BY <2>3 DEF CaseStep
<1>5. ASSUME NEW c \in Cases, at[c] = "scoring", vars' = AfterScored(c)
      PROVE  CaseStep(c)
  <2>. DEFINE a == observations[c][Len(observations[c])]
              keys == keys_for(cases[c], 0)
              failing(k) == fails(checks_for(cases[c], 0)[k[2]], a)
              fresh == {finding(checks_for(cases[c], 0)[k[2]], a, Len(observations[c])) :
                          k \in {k \in keys : failing(k)}}
              counted == [k \in DOMAIN checks[c] \cup keys |->
                            IF k \in keys THEN ~failing(k) ELSE checks[c][k]]
  <2>1. /\ UNCHANGED <<step, report, rows, thread, observations, lost>>
        /\ at' = [at EXCEPT ![c] = "closing"]
        /\ findings' = [findings EXCEPT ![c] = findings[c] \cup fresh]
        /\ checks' = [checks EXCEPT ![c] = counted]
        /\ found' = [found EXCEPT ![c] = found[c] \cup fresh]
    <3>1. vars' = CaseValues(c, "closing", thread[c], observations[c], findings[c] \cup fresh,
                             counted, found[c] \cup fresh, lost)
      BY <1>5 DEF AfterScored
    <3>. HIDE DEF fresh, counted
    <3>. QED
      BY <1>0, <3>1, CaseValuesAre
  <2>2. apply_checks(c, 0, a, Len(observations[c]))
    BY <2>1 DEF apply_checks, extends
  <2>3. Scored(c)
    BY <1>5, <2>1, <2>2 DEF Scored
  <2>. QED
    BY <2>3 DEF CaseStep
<1>6. ASSUME NEW c \in Cases, at[c] = "closing", vars' = AfterMove(c, "done", FALSE)
      PROVE  CaseStep(c)
  <2>1. Close(c)
    BY <1>0, <1>6, MoveIs DEF Close, deleted
  <2>. QED
    BY <2>1 DEF CaseStep
<1>7. ASSUME \A c \in Cases : at[c] = "done",
             vars' = <<"scored", conversations,
                       [report EXCEPT !.status = status(outcomes),
                                      !.metrics = compute_metrics(cases, outcomes),
                                      !.findings = UNION {findings[c] : c \in Cases}],
                       rows, found, lost>>
      PROVE  Score
  BY <1>7 DEF Score, vars, conversations
<1>. QED
  BY <1>1, <1>2, <1>3, <1>4, <1>5, <1>6, <1>7

\* How far the run is from its end, and each of its cases: the places before it, and at
\* its turns those it has not had.
StepsLeft ==
  [idle |-> 7, driving |-> 6, scored |-> 5, connected |-> 4, compared |-> 3, filing |-> 2,
   filed |-> 1, printed |-> 0, broken |-> 0][step]

PlacesLeft(c) ==
  [waiting |-> 5, opening |-> 4, driving |-> 3, scoring |-> 2, closing |-> 1, done |-> 0][at[c]]

TurnsLeft(c) == IF at[c] = "driving" THEN cases[c].turns - Len(observations[c]) ELSE 0

CaseNearer(c) ==
  \/ PlacesLeft(c)' < PlacesLeft(c)
  \/ PlacesLeft(c)' = PlacesLeft(c) /\ TurnsLeft(c)' < TurnsLeft(c)

\* The run takes its next step, or one case does and the others stay where they are.
Nearer ==
  \/ StepsLeft' < StepsLeft
  \/ /\ step' = step
     /\ \E c \in Cases :
          /\ CaseNearer(c)
          /\ \A d \in Cases \ {c} :
               PlacesLeft(d)' = PlacesLeft(d) /\ TurnsLeft(d)' = TurnsLeft(d)

LEMMA Driven ==
  ASSUME EvalInv, NEW c \in Cases, Answered(c)
  PROVE  CaseNearer(c)
<1>1. PICK a \in Answers[c] : observations' = [observations EXCEPT ![c] = Append(@, a)]
  BY DEF Answered
<1>2. /\ at[c] = "driving" /\ observations \in [Cases -> Seq(Answer)] /\ at \in [Cases -> Places]
      /\ at'[c] = IF turn_of(c) = cases[c].turns THEN "scoring" ELSE "driving"
      /\ cases[c].turns \in Nat
  BY EvalAssumption DEF Answered, EvalInv, Shape, Case
<1>3. Len(observations'[c]) = Len(observations[c]) + 1 /\ Len(observations[c]) \in Nat
  <2>1. observations'[c] = Append(observations[c], a) /\ observations[c] \in Seq(Answer)
    BY <1>1, <1>2
  <2>2. a \in Answer
    BY EvalAssumption
  <2>. QED
    BY <2>1, <2>2
<1>4. CASE at'[c] = "scoring"
  BY <1>2, <1>4 DEF CaseNearer, PlacesLeft
<1>5. CASE at'[c] = "driving"
  <2>1. TurnsLeft(c)' < TurnsLeft(c)
    BY <1>2, <1>3, <1>5 DEF TurnsLeft
  <2>. QED
    BY <1>2, <1>5, <2>1 DEF CaseNearer, PlacesLeft
<1>. QED
  BY <1>2, <1>4, <1>5

LEMMA CaseStepNearer ==
  ASSUME EvalInv, NEW c \in Cases, step = "driving", Enter(c) \/ CaseStep(c)
  PROVE  Nearer
<1>0. /\ at \in [Cases -> Places] /\ observations \in [Cases -> Seq(Answer)] /\ step' = step
  BY DEF EvalInv, Shape, Enter, CaseStep, Opened, NotOpened, Answered, ErrorFrame, Raised, Scored,
         Close
<1>1. CaseNearer(c)
  <2>1. CASE Answered(c)
    BY <2>1, Driven
  <2>2. CASE Enter(c) \/ Opened(c) \/ NotOpened(c) \/ ErrorFrame(c) \/ Raised(c) \/ Scored(c)
             \/ Close(c)
    <3>1. \/ at[c] = "waiting" /\ at'[c] = "opening"
          \/ at[c] = "opening" /\ at'[c] \in {"driving", "done"}
          \/ at[c] \in {"driving", "scoring"} /\ at'[c] = "closing"
          \/ at[c] = "closing" /\ at'[c] = "done"
      BY <1>0, <2>2 DEF Enter, Opened, NotOpened, ErrorFrame, Raised, Scored, Close
    <3>. QED
      BY <3>1 DEF CaseNearer, PlacesLeft
  <2>. QED
    BY <2>1, <2>2 DEF CaseStep
<1>2. ASSUME NEW d \in Cases \ {c}
      PROVE  PlacesLeft(d)' = PlacesLeft(d) /\ TurnsLeft(d)' = TurnsLeft(d)
  <2>1. at'[d] = at[d]
    BY <1>0 DEF Enter, CaseStep, Opened, NotOpened, Answered, ErrorFrame, Raised, Scored, Close
  <2>2. observations'[d] = observations[d]
    BY <1>0 DEF Enter, CaseStep, Opened, NotOpened, Answered, ErrorFrame, Raised, Scored, Close,
                _failed_everything, keeps
  <2>. QED
    BY <2>1, <2>2 DEF PlacesLeft, TurnsLeft
<1>. QED
  BY <1>0, <1>1, <1>2 DEF Nearer

\* No evaluation runs for ever: each of its steps takes the run, or exactly one of its
\* cases, nearer to its end (runner.py, the loop over a case's turns; cli.py, eval_command).
THEOREM EvaluationsEnd == Spec => [][Nearer]_vars
<1>1. EvalInv /\ [Next]_vars => [Nearer]_vars
  <2>. SUFFICES ASSUME EvalInv, Next PROVE Nearer
    OBVIOUS
  <2>1. CASE \E c \in Cases : Enter(c) \/ CaseStep(c)
    BY <2>1, CaseStepNearer DEF Enter, CaseStep
  <2>2. CASE Start \/ Report \/ Broken \/ Killed
    <3>1. StepsLeft' < StepsLeft
      BY <2>2 DEF Start, Report, Score, Connect, Compare, SaveRun, SaveFindings, Render, Broken,
                  Killed, StepsLeft
    <3>. QED
      BY <3>1 DEF Nearer
  <2>. QED
    BY <2>1, <2>2 DEF Next
<1>. QED
  BY <1>1, EvalInductive, PTL DEF Spec

\* And those are numbers that cannot fall for ever.
THEOREM EvalDistances ==
  Spec => [](StepsLeft \in Nat /\ \A c \in Cases : PlacesLeft(c) \in Nat /\ TurnsLeft(c) \in Nat)
<1>1. EvalInv /\ TypeOK =>
        StepsLeft \in Nat /\ \A c \in Cases : PlacesLeft(c) \in Nat /\ TurnsLeft(c) \in Nat
  <2>. SUFFICES ASSUME EvalInv, TypeOK
                PROVE  StepsLeft \in Nat
                       /\ \A c \in Cases : PlacesLeft(c) \in Nat /\ TurnsLeft(c) \in Nat
    OBVIOUS
  <2>1. StepsLeft \in Nat
    BY DEF TypeOK, Steps, StepsLeft
  <2>2. ASSUME NEW c \in Cases PROVE PlacesLeft(c) \in Nat
    BY DEF TypeOK, Places, PlacesLeft
  <2>3. ASSUME NEW c \in Cases PROVE TurnsLeft(c) \in Nat
    <3>1. cases[c].turns \in Nat /\ observations[c] \in Seq(Answer)
      BY EvalAssumption DEF Case, TypeOK
    <3>2. Len(observations[c]) \in Nat
      BY <3>1
    <3>3. at[c] = "driving" => Len(observations[c]) < cases[c].turns
      BY DEF EvalInv, Counted
    <3>. QED
      BY <3>1, <3>2, <3>3 DEF TurnsLeft
  <2>. QED
    BY <2>1, <2>2, <2>3
<1>. QED
  BY <1>1, EvalInductive, EvalTypes, PTL

\* Of "a fabricated fact marks the run FAILED regardless of every other number" this much
\* is kept: a fabrication a check found fails the run unless a later turn of the same
\* conversation broke, and the fabrication with it (runner.py, _failed_everything).
SoundFabricationFails ==
  HasScore /\ (\E c \in Cases : ~broke(c) /\ \E f \in found[c] : f.kind = "FABRICATION")
    => report.status = "FAILED"

\* And this holds of every run: the bar on fabrications lets none through that was counted
\* (scoring.py, score; runner.py, _failed_everything).
THEOREM Fabrications == Spec => []SoundFabricationFails
<1>1. EvalInv /\ ReportInv => SoundFabricationFails
  <2>. SUFFICES ASSUME EvalInv, ReportInv, HasScore, NEW c \in Cases, ~broke(c),
                       NEW f \in found[c], f.kind = "FABRICATION"
                PROVE  report.status = "FAILED"
    BY DEF SoundFabricationFails
  <2>1. f \in findings[c]
    BY DEF EvalInv, Kept
  <2>2. f \in violations(outcomes)
    <3>1. f \in UNION {outcomes[d].findings : d \in DOMAIN outcomes}
      BY <2>1, Outcomes
    <3>. QED
      BY <3>1 DEF violations
  <2>3. report.status = status(outcomes)
    BY DEF ReportInv, Filed
  <2>. QED
    BY <2>2, <2>3 DEF status
<1>. QED
  BY <1>1, EvalInductive, ReportInductive, PTL
=============================================================================
