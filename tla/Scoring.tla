------------------------------- MODULE Scoring -------------------------------
(***************************************************************************)
(* The arithmetic of the evaluation harness (src/trail/evals): what a      *)
(* check finds in an answer, what the outcomes of a run score, and how a   *)
(* score compares with its bar and with an earlier one.  No state.         *)
(*                                                                         *)
(* A value is a fraction <<numerator, denominator>>; a denominator of 0 is *)
(* the code's None, a measurement that was not taken.                      *)
(***************************************************************************)
EXTENDS Integers, Sequences, FiniteSets, FiniteSetsExt

Kinds == {"OMISSION", "FABRICATION", "WRONG_PATH", "ERROR"}
Sources == {"check", "judge"}

-----------------------------------------------------------------------------
(* Checks.  An answer is what the checks tell apart in an observation: does it lack  *)
(* what the question asked for, does it assert what it must not, did the tools run,  *)
(* which gates fired, what a judge says of it, and what it took.                     *)

Verdicts == {"pass", "fail", "unreadable"}
Answer == [lacks : BOOLEAN, invents : BOOLEAN, grounded : BOOLEAN,
           blocked : SUBSET {"guard_in", "guard_out"}, verdict : Verdicts,
           ns : Nat, cost : Nat]      \* 0 for none

check(name, kind, metric) == [check |-> name, kind |-> kind, metric |-> metric]

contains == check("contains", "OMISSION", "")
not_contains == check("not_contains", "FABRICATION", "")
calls_tools == check("calls_tools", "WRONG_PATH", "grounding")
blocks == check("blocks", "WRONG_PATH", "guard_recall")
does_not_block == check("does_not_block", "WRONG_PATH", "false_block")
judge(kind) == check("judge", kind, "")

Check == {contains, not_contains, calls_tools, blocks, does_not_block}
           \cup {judge(k) : k \in Kinds \ {"ERROR"}}

\* A check that does not pass on an answer.
fails(c, a) ==
  \/ c.check = "contains" /\ a.lacks
  \/ c.check = "not_contains" /\ a.invents
  \/ c.check = "calls_tools" /\ ~a.grounded
  \/ c.check = "blocks" /\ "guard_in" \notin a.blocked
  \/ c.check = "does_not_block" /\ a.blocked # {}
  \/ c.check = "judge" /\ a.verdict # "pass"

\* A judge that keeps no format raises, and a check that raises leaves an ERROR.
raises(c, a) == c.check = "judge" /\ a.verdict = "unreadable"

Finding == [turn : Nat, kind : Kinds, check : {c.check : c \in Check} \cup {"turn"},
            source : Sources]

\* What a failing check leaves in the taxonomy.
finding(c, a, turn) ==
  [turn |-> turn, check |-> c.check,
   kind |-> IF raises(c, a) THEN "ERROR" ELSE c.kind,
   source |-> IF c.check = "judge" /\ ~raises(c, a) THEN "judge" ELSE "check"]

-----------------------------------------------------------------------------
(* Cases.  `checks` judge the last turn, turn_checks[i] the i-th; together they are  *)
(* what the case owes, whatever becomes of it.                                       *)

Case == [turns : Nat \ {0}, checks : Seq(Check), turn_checks : Seq(Seq(Check))]

\* A check a case declares is named by the turn that owes it, 0 for `checks`.
checks_for(case, place) ==
  IF place = 0 THEN case.checks
  ELSE IF place \in DOMAIN case.turn_checks THEN case.turn_checks[place]
  ELSE <<>>

keys_for(case, place) == {place} \X DOMAIN checks_for(case, place)
all_checks(case) == UNION {keys_for(case, place) : place \in 0..case.turns}
metric_of(case, key) == checks_for(case, key[1])[key[2]].metric

-----------------------------------------------------------------------------
(* Metrics.  `outcomes` maps each case to what it observed, found and passed.        *)

errored(o) == \E f \in o.findings : f.kind = "ERROR"
passed(o) == o.findings = {}
with_kind(outcomes, kind) ==
  {c \in DOMAIN outcomes : \E f \in outcomes[c].findings : f.kind = kind}

\* The observations of a run.
observed(outcomes) == UNION {{c} \X DOMAIN outcomes[c].observations : c \in DOMAIN outcomes}
at_turn(outcomes, o) == outcomes[o[1]].observations[o[2]]

\* (passed, total) over every check of the run that joins a metric.
joined(cases, outcomes, metric) ==
  UNION {{c} \X {k \in DOMAIN outcomes[c].checks : metric_of(cases[c], k) = metric} :
            c \in DOMAIN outcomes}
check_rate(cases, outcomes, metric) ==
  LET all == joined(cases, outcomes, metric)
  IN  <<Cardinality({j \in all : outcomes[j[1]].checks[j[2]]}), Cardinality(all)>>

\* Nearest rank: ceil(fraction * N), floored at 1.
nearest_rank(n, percent) ==
  LET rank == (percent * n + 99) \div 100 IN IF rank = 0 THEN 1 ELSE rank

\* The nearest-rank percentile of the times of a set of observations.
percentile(outcomes, timed, percent) ==
  LET ns(o) == at_turn(outcomes, o).ns
      below(v) == {o \in timed : ns(o) <= v}
      rank == nearest_rank(Cardinality(timed), percent)
  IN  IF timed = {} THEN <<0, 0>>
      ELSE <<Min({ns(o) : o \in {p \in timed : Cardinality(below(ns(p))) >= rank}}), 1>>

\* Mutant: the difference is taken the other way round.
Reversed(rate) == <<rate[1] - rate[2], rate[2]>>
\* Those that did not pass, over the same total.
complement(rate) == <<rate[2] - rate[1], rate[2]>>

Rates == {"case_pass_rate", "turn_error_rate", "omission_rate", "fabrication_rate",
          "wrong_path_rate", "grounding_rate", "guard_recall", "false_block_rate"}
Metrics == Rates \cup {"latency_p50_ns", "latency_p95_ns", "cost_per_turn_usd"}

\* What a set of observations cost, unit by unit.
spending(outcomes, priced) ==
  UNION {{o} \X (1..at_turn(outcomes, o).cost) : o \in priced}

compute_metrics(cases, outcomes) ==
  LET total == Cardinality(DOMAIN outcomes)
      turns == observed(outcomes)
      timed == {o \in turns : at_turn(outcomes, o).ns # 0}
      priced == {o \in turns : at_turn(outcomes, o).cost # 0}
      kind(k) == <<Cardinality(with_kind(outcomes, k)), total>>
  IN  [case_pass_rate |-> <<Cardinality({c \in DOMAIN outcomes : passed(outcomes[c])}), total>>,
       turn_error_rate |->
         <<Cardinality({c \in DOMAIN outcomes : errored(outcomes[c])}), Cardinality(turns)>>,
       omission_rate |-> kind("OMISSION"),
       fabrication_rate |-> kind("FABRICATION"),
       wrong_path_rate |-> kind("WRONG_PATH"),
       grounding_rate |-> check_rate(cases, outcomes, "grounding"),
       guard_recall |-> check_rate(cases, outcomes, "guard_recall"),
       false_block_rate |-> complement(check_rate(cases, outcomes, "false_block")),
       latency_p50_ns |-> percentile(outcomes, timed, 50),
       latency_p95_ns |-> percentile(outcomes, timed, 95),
       cost_per_turn_usd |->
         <<Cardinality(spending(outcomes, priced)), Cardinality(priced)>>]

\* The zero-tolerance tier.
violations(outcomes) ==
  {f \in UNION {outcomes[c].findings : c \in DOMAIN outcomes} :
      f.kind = "FABRICATION" \/ f.check = "does_not_block"}

status(outcomes) == IF violations(outcomes) # {} THEN "FAILED" ELSE "COMPLETED"

-----------------------------------------------------------------------------
(* Bars and baselines.  A bar is a value and the direction that clears it; a metric  *)
(* without one has the empty sequence for a bar.                                     *)

taken(v) == v[2] # 0
less(v, w) == v[1] * w[2] < w[1] * v[2]

Bar == [value : Int \X (Nat \ {0}), direction : {">=", "<="}]
threshold(value, direction) == [value |-> value, direction |-> direction]

clears(bars, m, v) ==
  \/ m \notin DOMAIN bars
  \/ ~taken(v)
  \/ bars[m].direction = ">=" /\ ~less(v, bars[m].value)
  \/ bars[m].direction = "<=" /\ ~less(bars[m].value, v)

worse(bars, m, now, before) ==
  IF m \in DOMAIN bars /\ bars[m].direction = "<=" THEN less(before, now)
  ELSE less(now, before)

DRIFT == 5
DRIFT_BY_METRIC(m) ==
  IF m = "latency_p95_ns" THEN 50
  ELSE IF m \in {"latency_p50_ns", "cost_per_turn_usd"} THEN 30
  ELSE DRIFT

\* More than the metric's band away from the earlier value.
moved(m, now, before) ==
  LET gap == now[1] * before[2] - before[1] * now[2]
  IN  100 * (IF gap < 0 THEN -gap ELSE gap) > DRIFT_BY_METRIC(m) * before[1] * now[2]

\* Mutant: a bar that is crossed inside the band is not reported.
OnlyIfMoved(bars, now, before) ==
  {m \in Metrics :
     /\ taken(now[m]) /\ taken(before[m])
     /\ worse(bars, m, now[m], before[m])
     /\ moved(m, now[m], before[m])}
\* The metrics that got worse: across their bar, or by more than their band.
compare_to_baseline(bars, now, before) ==
  {m \in Metrics :
     /\ taken(now[m]) /\ taken(before[m])
     /\ worse(bars, m, now[m], before[m])
     /\ ~clears(bars, m, now[m]) \/ moved(m, now[m], before[m])}
=============================================================================
