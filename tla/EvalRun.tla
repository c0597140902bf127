------------------------------- MODULE EvalRun -------------------------------
(***************************************************************************)
(* One evaluation of the mounted agent (`trail eval`): the runner drives   *)
(* the cases of the golden set over HTTP, a bounded number at a time,      *)
(* scores what came of them, compares the score with the last sound run of *)
(* the same golden set, files it and prints it.                            *)
(*                                                                         *)
(* The service is whatever the runner sees of it: it answers, reports an   *)
(* error, refuses, or is not heard from again.  A judge's word is part of  *)
(* the answer it judges.  Earlier evaluations are the rows they filed.     *)
(***************************************************************************)
EXTENDS Scoring

CONSTANTS
  cases,         \* the golden set: what each case drives and owes
  thresholds,    \* its bars
  version,       \* what the golden set is stamped with
  Versions,      \* and what it was stamped with earlier
  Answers,       \* what a turn of a case may come back with
  Histories,     \* what eval_runs may hold of earlier evaluations
  concurrency    \* cases driven at a time

Cases == DOMAIN cases

\* What a run scores, and what it leaves in eval_runs.
Values == [Metrics -> Nat \X Nat]
Row == [version : Versions, status : {"COMPLETED", "FAILED"}, metrics : Values,
        findings : BOOLEAN]

ASSUME EvalAssumption ==
  /\ \A c \in Cases :
       cases[c] \in Case /\ Len(cases[c].turn_checks) <= cases[c].turns
  /\ IsFiniteSet(Cases)
  /\ \A m \in DOMAIN thresholds : thresholds[m] \in Bar
  /\ Answers \in [Cases -> SUBSET Answer]
  /\ version \in Versions /\ Histories \subseteq Seq(Row)
  /\ concurrency \in Nat \ {0}

\* A turn that never said how it went: no text, no time, and no price.
NoAnswer == [lacks |-> TRUE, invents |-> FALSE, grounded |-> FALSE, blocked |-> {},
             verdict |-> "fail", ns |-> 0, cost |-> 0]

Places == {"waiting", "opening", "driving", "scoring", "closing", "done"}
Steps == {"idle", "driving", "scored", "connected", "compared", "filing", "filed",
          "printed", "broken"}

VARIABLES
  step,           \* how far the evaluation is
  at, thread,     \* each case: where its conversation is; is it on the service
  observations, findings, checks,   \* what came of it so far
  report, rows,   \* what the run scored; eval_runs
  found, lost     \* only observed: everything a check ever found; the cases whose
                  \* conversation the service was not heard about, or nobody deleted

conversations == <<at, thread, observations, findings, checks>>
vars == <<step, conversations, report, rows, found, lost>>

unscored == [status |-> "COMPLETED", metrics |-> <<>>, findings |-> {},
             baseline |-> 0, regressions |-> {}, exit |-> 2]

TypeOK ==
  /\ step \in Steps
  /\ at \in [Cases -> Places]
  /\ thread \in [Cases -> BOOLEAN]
  /\ observations \in [Cases -> Seq(Answer)]
  /\ findings \in [Cases -> SUBSET Finding]
  /\ \A c \in Cases : checks[c] \in [DOMAIN checks[c] -> BOOLEAN]
  /\ report \in [status : {"COMPLETED", "FAILED"}, metrics : Values \cup {<<>>},
                 findings : SUBSET Finding, baseline : 0..Len(rows),
                 regressions : SUBSET Metrics, exit : 0..2]
  /\ rows \in Seq(Row)
  /\ found \in [Cases -> SUBSET Finding]
  /\ lost \subseteq Cases

Init ==
  /\ step = "idle"
  /\ at = [c \in Cases |-> "waiting"]
  /\ thread = [c \in Cases |-> FALSE]
  /\ observations = [c \in Cases |-> <<>>]
  /\ findings = [c \in Cases |-> {}]
  /\ checks = [c \in Cases |-> <<>>]
  /\ report = unscored
  /\ rows \in Histories
  /\ found = [c \in Cases |-> {}]
  /\ lost = {}

-----------------------------------------------------------------------------
(* evaluate: load the golden set and ask the service for its health. *)

Start ==
  /\ step = "idle"
  /\ step' \in {"driving", "broken"}
  /\ UNCHANGED <<conversations, report, rows, found, lost>>

-----------------------------------------------------------------------------
(* run_golden_set and run_case. *)

\* Mutant: a case that is done keeps its slot.
InsideOrDone == {c \in Cases : at[c] # "waiting"}
\* The cases inside the semaphore.
Inside == {c \in Cases : at[c] \notin {"waiting", "done"}}

Enter(c) ==
  /\ step = "driving"
  /\ at[c] = "waiting"
  /\ Cardinality(Inside) < concurrency
  /\ at' = [at EXCEPT ![c] = "opening"]
  /\ UNCHANGED <<step, thread, observations, findings, checks, report, rows,
                 found, lost>>

\* Mutant: an errored case keeps the checks it passed.
KeptChecks(c) ==
  [k \in all_checks(cases[c]) |-> k \in DOMAIN checks[c] /\ checks[c][k]]
\* Every check the case declares, failed.
all_failed(c) == [k \in all_checks(cases[c]) |-> FALSE]

\* Mutant: the observation of the turn that broke is not kept.
KeepsNothing(c, obs) == observations' = [observations EXCEPT ![c] = <<>>]
\* The one observation an errored case keeps.
keeps(c, obs) == observations' = [observations EXCEPT ![c] = <<obs>>]

\* The outcome of a case whose conversation never completed.
_failed_everything(c, obs, turn) ==
  /\ keeps(c, obs)
  /\ findings' = [findings EXCEPT ![c] =
       {[turn |-> turn, kind |-> "ERROR", check |-> "turn", source |-> "check"]}]
  /\ checks' = [checks EXCEPT ![c] = all_failed(c)]

Opened(c) ==
  /\ at[c] = "opening"
  /\ at' = [at EXCEPT ![c] = "driving"]
  /\ thread' = [thread EXCEPT ![c] = TRUE]
  /\ UNCHANGED <<step, observations, findings, checks, report, rows, found, lost>>

\* POST /threads fails; a conversation was made or not before the answer was lost.  The
\* runner has no identifier to delete.
NotOpened(c) ==
  /\ at[c] = "opening"
  /\ _failed_everything(c, NoAnswer, 1)
  /\ at' = [at EXCEPT ![c] = "done"]
  /\ \E made \in BOOLEAN :
       /\ thread' = [thread EXCEPT ![c] = made]
       /\ lost' = IF made THEN lost \cup {c} ELSE lost
  /\ UNCHANGED <<step, report, rows, found>>

\* Mutant: the findings of a turn take the place of those before it.
LatestOnly(c, fresh) == findings' = [findings EXCEPT ![c] = fresh]
\* The findings of a turn join those before it.
extends(c, fresh) == findings' = [findings EXCEPT ![c] = @ \cup fresh]

\* apply_checks: run what a place owes against an answer, keep the passes too.
apply_checks(c, place, a, turn) ==
  LET keys == keys_for(cases[c], place)
      fresh == {finding(checks_for(cases[c], place)[k[2]], a, turn) :
                  k \in {k \in keys : fails(checks_for(cases[c], place)[k[2]], a)}}
  IN  /\ extends(c, fresh)
      /\ found' = [found EXCEPT ![c] = @ \cup fresh]
      /\ checks' = [checks EXCEPT ![c] =
           [k \in DOMAIN @ \cup keys |->
              IF k \in keys THEN ~fails(checks_for(cases[c], place)[k[2]], a) ELSE @[k]]]

turn_of(c) == Len(observations[c]) + 1

\* A turn answers, and is judged by what had to be true as it happened.
Answered(c) ==
  /\ at[c] = "driving"
  /\ \E a \in Answers[c] :
       /\ observations' = [observations EXCEPT ![c] = Append(@, a)]
       /\ apply_checks(c, turn_of(c), a, turn_of(c))
  /\ at' = [at EXCEPT ![c] = IF turn_of(c) = cases[c].turns THEN "scoring" ELSE "driving"]
  /\ UNCHANGED <<step, thread, report, rows, lost>>

\* An error frame: the turn's stages came, and what they cost.
ErrorFrame(c) ==
  /\ at[c] = "driving"
  /\ \E cost \in {a.cost : a \in Answers[c]} :
       _failed_everything(c, [NoAnswer EXCEPT !.cost = cost], turn_of(c))
  /\ at' = [at EXCEPT ![c] = "closing"]
  /\ UNCHANGED <<step, thread, report, rows, found, lost>>

\* The stream breaks, times out or is refused: what is kept, and blamed, is the last
\* turn that answered.
Raised(c) ==
  /\ at[c] = "driving"
  /\ IF observations[c] = <<>> THEN _failed_everything(c, NoAnswer, 1)
     ELSE _failed_everything(c, observations[c][Len(observations[c])], Len(observations[c]))
  /\ at' = [at EXCEPT ![c] = "closing"]
  /\ UNCHANGED <<step, thread, report, rows, found, lost>>

\* The case's own checks, against its last turn.
Scored(c) ==
  /\ at[c] = "scoring"
  /\ apply_checks(c, 0, observations[c][Len(observations[c])], Len(observations[c]))
  /\ at' = [at EXCEPT ![c] = "closing"]
  /\ UNCHANGED <<step, thread, observations, report, rows, lost>>

\* Mutant: only a case that did not break deletes its conversation.
DeletedIfSound(c) == thread' = [thread EXCEPT ![c] = errored([findings |-> findings[c]])]
\* The conversation is gone.
deleted(c) == thread' = [thread EXCEPT ![c] = FALSE]

\* On the way out, always; a failure to delete is only logged.
Close(c) ==
  /\ at[c] = "closing"
  /\ at' = [at EXCEPT ![c] = "done"]
  /\ \/ deleted(c) /\ UNCHANGED lost
     \/ lost' = lost \cup {c} /\ UNCHANGED thread
  /\ UNCHANGED <<step, observations, findings, checks, report, rows, found>>

CaseStep(c) ==
  /\ step = "driving"
  /\ \/ Opened(c) \/ NotOpened(c) \/ Answered(c) \/ ErrorFrame(c) \/ Raised(c)
     \/ Scored(c) \/ Close(c)

-----------------------------------------------------------------------------
(* compute_metrics, _persist and render. *)

outcomes == [c \in Cases |->
  [observations |-> observations[c], findings |-> findings[c], checks |-> checks[c]]]

Score ==
  /\ step = "driving"
  /\ \A c \in Cases : at[c] = "done"
  /\ step' = "scored"
  /\ report' = [report EXCEPT !.status = status(outcomes),
                              !.metrics = compute_metrics(cases, outcomes),
                              !.findings = UNION {findings[c] : c \in Cases}]
  /\ UNCHANGED <<conversations, rows, found, lost>>

\* Without a database the run is not recorded and has no baseline.
Connect ==
  /\ step = "scored"
  /\ step' \in {"connected", "filed"}
  /\ UNCHANGED <<conversations, report, rows, found, lost>>

\* The runs a run of golden set v may be compared with.
baselines(v) == {i \in DOMAIN rows : rows[i].version = v /\ rows[i].status = "COMPLETED"}

latest_baseline(v) == IF baselines(v) = {} THEN 0 ELSE Max(baselines(v))

Compare ==
  /\ step = "connected"
  /\ step' = "compared"
  /\ LET b == latest_baseline(version)
     IN  report' = [report EXCEPT
           !.baseline = b,
           !.regressions = IF b = 0 THEN {}
                           ELSE compare_to_baseline(thresholds, report.metrics, rows[b].metrics)]
  /\ UNCHANGED <<conversations, rows, found, lost>>

\* save_run, on an autocommit connection: the row, then its findings.
SaveRun ==
  /\ step = "compared"
  /\ step' = "filing"
  /\ rows' = Append(rows, [version |-> version, status |-> report.status,
                           metrics |-> report.metrics, findings |-> FALSE])
  /\ UNCHANGED <<conversations, report, found, lost>>

SaveFindings ==
  /\ step = "filing"
  /\ step' = "filed"
  /\ rows' = [rows EXCEPT ![Len(rows)].findings = TRUE]
  /\ UNCHANGED <<conversations, report, found, lost>>

\* No scorecard: a query of _persist raises and nothing catches it, or the process dies.
Broken ==
  /\ step \in {"scored", "connected", "compared", "filing", "filed"}
  /\ step' = "broken"
  /\ UNCHANGED <<conversations, report, rows, found, lost>>

crossed == {m \in Metrics : ~clears(thresholds, m, report.metrics[m])}

\* Mutant: the exit code looks at the status alone.
StatusOnly == IF report.status = "FAILED" THEN 1 ELSE 0
\* What `make eval` gates a merge on.
exit_code == IF report.status = "FAILED" \/ crossed # {} THEN 1 ELSE 0

Render ==
  /\ step = "filed"
  /\ step' = "printed"
  /\ report' = [report EXCEPT !.exit = exit_code]
  /\ UNCHANGED <<conversations, rows, found, lost>>

\* The process dies among its cases: the conversations it holds stay on the service.
Killed ==
  /\ step = "driving"
  /\ step' = "broken"
  /\ lost' = lost \cup {c \in Cases : thread[c]}
  /\ UNCHANGED <<conversations, report, rows, found>>

Report == Score \/ Connect \/ Compare \/ SaveRun \/ SaveFindings \/ Render

Next ==
  \/ Start
  \/ \E c \in Cases : Enter(c) \/ CaseStep(c)
  \/ Report \/ Broken \/ Killed

\* Every request has a timeout and the runner waits for nothing else; evaluations are
\* asked for by people, and nothing makes a query raise or kills a process.
Spec ==
  /\ Init /\ [][Next]_vars
  /\ WF_vars(\E c \in Cases : Enter(c) \/ CaseStep(c))
  /\ WF_vars(Report)

-----------------------------------------------------------------------------
Ended == step \in {"printed", "broken"}
HasScore == step \in {"scored", "connected", "compared", "filing", "filed", "printed"}

\* runner.py, "an errored case fails its checks rather than skipping them": a case that
\* is over has a result for every check it declares, and if a turn of it broke, none of
\* them is a pass.
EveryCaseIsCounted ==
  \A c \in Cases : at[c] \in {"closing", "done"} =>
    /\ DOMAIN checks[c] = all_checks(cases[c])
    /\ (\E f \in findings[c] : f.check = "turn") => \A k \in DOMAIN checks[c] : ~checks[c][k]

\* metrics.py, "the denominator is every case": no rate exceeds one, and no failed case
\* is missing from the kinds a score is broken into, whatever broke on the way.
RatesAreRates ==
  HasScore =>
    LET n(m) == report.metrics[m][1]
        d(m) == report.metrics[m][2]
        broken == Cardinality({c \in Cases : errored(outcomes[c])})
    IN  /\ \A m \in Rates : n(m) <= d(m)
        /\ d("case_pass_rate") = Cardinality(Cases)
        /\ n("case_pass_rate") + n("omission_rate") + n("fabrication_rate")
             + n("wrong_path_rate") + broken >= Cardinality(Cases)
        /\ d("turn_error_rate") >= Cardinality(Cases)

\* README, "a multi-turn case cannot pass by recovering at the end": what a check found
\* along a conversation is still there when the run is scored, unless a later turn of
\* the same conversation broke.
FindingsReachTheReport ==
  \A c \in Cases : \A f \in found[c] :
    \/ f \in findings[c] /\ (HasScore => f \in report.findings)
    \/ \E g \in findings[c] : g.check = "turn"

\* cli.py, "the exit code is the criterion, so `make eval` can gate a merge": when it is
\* 0, no check of any turn of the run found a fabrication, no gate refused a legitimate
\* question, every gate that had to fire did, and every conversation was completed -
\* also where a broken turn took its conversation's findings with it.
GreenIsClean ==
  step = "printed" /\ report.exit = 0 =>
    /\ \A c \in Cases : \A f \in found[c] :
         f.kind \notin {"FABRICATION", "ERROR"} /\ f.check \notin {"does_not_block", "blocks"}
    /\ \A c \in Cases : Len(observations[c]) = cases[c].turns

\* metrics.py, DRIFT: crossing a threshold always counts as a regression - a metric that
\* cleared its bar in the last sound run of this golden set and no longer does is
\* reported, however little it moved; and the run it is compared with was sound.
CrossingIsReported ==
  step \in {"compared", "filing", "filed", "printed"} /\ report.baseline # 0 =>
    LET before == rows[report.baseline].metrics
        now == report.metrics
    IN  /\ rows[report.baseline].status = "COMPLETED"
        /\ \A m \in Metrics :
             taken(before[m]) /\ clears(thresholds, m, before[m]) /\ ~clears(thresholds, m, now[m])
               => m \in report.regressions

\* runner.py, "the thread is deleted on the way out, always": a case that is over has no
\* conversation left on the service, unless the service was not heard from when it was
\* opened or deleted, or the run was killed.
ThreadsAreDeleted ==
  \A c \in Cases :
    thread[c] /\ (at[c] \in {"waiting", "opening", "done"} \/ Ended) => c \in lost

\* An evaluation that was started ends: no slot is lost to a case that broke.
RunEnds == step = "driving" ~> Ended

-----------------------------------------------------------------------------
\* metrics.py, "a fabricated fact marks the run FAILED regardless of every other number":
\* a run in which a check found a fabrication is not one later runs are judged by.
FabricationFailsTheRun ==
  HasScore /\ (\E c \in Cases : \E f \in found[c] : f.kind = "FABRICATION")
    => report.status = "FAILED"
=============================================================================
