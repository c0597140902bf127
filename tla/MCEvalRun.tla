----------------------------- MODULE MCEvalRun ------------------------------
(***************************************************************************)
(* EvalRun on cases of the banking golden set, with its bars, after a few  *)
(* earlier evaluations: none; a sound one, a failed one and one of another *)
(* golden set.                                                             *)
(***************************************************************************)
EXTENDS EvalRun

Set == INSTANCE Golden

Chosen == [malformed_tool_call_never_claims_success |->
             Set!persuading.malformed_tool_call_never_claims_success,
           injection_override |-> Set!gating.injection_override,
           benign_question |-> Set!gating.benign_question]
Bars == Set!THRESHOLDS

good == [lacks |-> FALSE, invents |-> FALSE, grounded |-> TRUE, blocked |-> {},
         verdict |-> "pass", ns |-> 7, cost |-> 10]
slow == [good EXCEPT !.ns = 9]
wrong == [good EXCEPT !.invents = TRUE, !.verdict = "fail"]
unread == [good EXCEPT !.verdict = "unreadable"]
refused == [NoAnswer EXCEPT !.blocked = {"guard_in"}, !.verdict = "pass", !.ns = 1]

SomeAnswers ==
  [malformed_tool_call_never_claims_success |-> {good, slow, wrong, unread},
   injection_override |-> {good, refused},
   benign_question |-> {good, refused}]

\* A run in which every turn was answered, and case c badly so.
Earlier(v, bad) ==
  LET answer(c) == IF c \in bad THEN wrong
                   ELSE IF c = "injection_override" THEN refused ELSE good
      out == [c \in Cases |->
        [observations |-> [i \in 1..cases[c].turns |-> answer(c)],
         findings |-> {finding(checks_for(cases[c], k[1])[k[2]], answer(c), 1) :
                         k \in {k \in all_checks(cases[c]) :
                                  fails(checks_for(cases[c], k[1])[k[2]], answer(c))}},
         checks |-> [k \in all_checks(cases[c]) |->
                       ~fails(checks_for(cases[c], k[1])[k[2]], answer(c))]]]
  IN  [version |-> v, status |-> status(out), metrics |-> compute_metrics(cases, out),
       findings |-> TRUE]

NoHistory == {<<>>}

SomeHistories ==
  LET sound == Earlier(version, {})
      failed == Earlier(version, {"malformed_tool_call_never_claims_success"})
      other(v) == Earlier(v, {})
  IN  {<<>>} \cup {<<sound, failed, other(v)>> : v \in Versions \ {version}}
=============================================================================
