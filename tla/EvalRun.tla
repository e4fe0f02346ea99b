------------------------------- MODULE EvalRun -------------------------------
(***************************************************************************)
(* eval/: sessions that answer the cases of one run, one after the other,  *)
(* inside the day's budget, and append a verdict for each to its results   *)
(* file, so that a later session resumes where an earlier one stopped.     *)
(*                                                                         *)
(* A session dies at any step, an append that it dies in leaves the file   *)
(* without its last newline, and the quota day turns between any two       *)
(* steps. One process evaluates at a time, and only one run is kept: its   *)
(* name, its meta file and its report are made of what is modelled here.   *)
(* A charge for retries is one step: a day that turns inside it, as it may *)
(* inside a reservation, is left to the reservation.                       *)
(***************************************************************************)
EXTENDS AnswerPipeline, Compare

CONSTANTS Case,       \* what each question expects when it is a golden case
          MaxSessions,
          MaxCrashes

\* What CompareSpec and GoldenCase let through: one expectation, on the path it
\* can be met on. A top of the result is only compared in ordered mode.
IsCompareSpec(s) ==
    /\ s.mode \in {"ordered", "set", "scalar"}
    /\ s.topK \in Nat \ {0} /\ s.decimals \in 0..12 /\ s.acceptPercent \in BOOLEAN
IsGoldenCase(c) ==
    /\ c.kind \in {"data", "sources", "no_data", "refused"}
    /\ c.route \in {"data", "conceptual"} /\ c.injection \in BOOLEAN
    /\ c.kind = "data" => c.route = "data" /\ IsCompareSpec(c.compare)
    /\ c.kind = "sources" => c.route = "conceptual" /\ c.sources # {}

\* What a line of the results file records.
Verdicts ==
    [id : Questions, outcome : {"passed", "failed", "error"},
     route : {Null, "data", "conceptual"}, routeOk : BOOLEAN]

ASSUME EvalAssumption ==
    /\ Null \notin Verdicts \cup {"complete", "incomplete"}
    /\ MaxSessions \in Nat /\ MaxCrashes \in Nat
    /\ \A x \in DOMAIN Case : x \in Questions /\ ~Question[x].blank /\ IsGoldenCase(Case[x])

VARIABLES session, \* the session under way
          lines,   \* the results file: a record, or Garbage, per line
          tail,    \* how its last line ends: "newline", "whole" or "part"
          exit,    \* the exit of the last session
          sessions, crashes

rvars == <<session, lines, tail, exit, sessions, crashes>>

Garbage == Null

NoSession == [pc |-> "off", skip |-> {}, began |-> "newline", stopped |-> FALSE, verdict |-> Null]

Cases == Range(setting.cases)

\* completed_ids and _read_results: a line that is not a record counts for nothing.
Records == {lines[i] : i \in {j \in DOMAIN lines : lines[j] # Garbage}}
CompletedIds == {r.id : r \in Records}

Goto(pc) == session' = [session EXCEPT !.pc = pc]

-----------------------------------------------------------------------------
(* Before the first case                                                   *)

\* A new run, or --resume of one an earlier session got to record.
Begin ==
    /\ setting.host = "eval" /\ session.pc = "off"
    /\ sessions < MaxSessions
    /\ session' = [NoSession EXCEPT !.pc = "references", !.began = tail]
    /\ exit' = Null
    /\ sessions' = sessions + 1
    /\ UNCHANGED <<lines, tail, crashes, q, gvars>>

\* The command raises: nothing is reported.
Abort ==
    /\ setting.faults
    /\ session.pc \in {"references", "build"}
    /\ session' = NoSession /\ exit' = "raised"
    /\ UNCHANGED <<lines, tail, sessions, crashes, q, gvars>>

\* _load_expected: the cases to come have their reference results.
LoadReferences ==
    /\ session.pc = "references"
    /\ Goto("build")
    /\ UNCHANGED <<lines, tail, exit, sessions, crashes, q, gvars>>

Build ==
    /\ session.pc = "build"
    /\ session' = [session EXCEPT !.pc = "cases", !.skip = CompletedIds]
    /\ UNCHANGED <<lines, tail, exit, sessions, crashes, q, gvars>>

-----------------------------------------------------------------------------
(* The cases                                                               *)

\* Mutant of Pending: a session goes on at the line it finds the file at.
PendingByPosition ==
    {i \in DOMAIN setting.cases : i > Len(lines) /\ setting.cases[i] \notin session.skip}

\* The places of the cases to come: those recorded before are left out.
Pending == {i \in DOMAIN setting.cases : setting.cases[i] \notin session.skip}

NextCase ==
    /\ session.pc = "cases"
    /\ \E i \in Pending :
          /\ \A j \in Pending : i <= j
          /\ Ask(setting.cases[i])
    /\ UNCHANGED rvars

\* compute_expected: the reference goes through the guard and under its cap.
ReferenceRows(x) == ResultOf(EnforceLimit(Case[x].reference)).rows

\* Mutant of ActualRoute: the route of the answer, which a refusal to write SQL
\* or a failure has moved.
AnsweredRoute(r) == IF r.answer = Null THEN Null ELSE r.answer.route

\* _router_decision
ActualRoute(r) ==
    CASE "route" \notin r.spans -> Null
      [] "sql_generation" \in r.spans -> "data"
      [] OTHER -> "conceptual"

Verdict(x, outcome) ==
    [id |-> x, outcome |-> outcome, route |-> ActualRoute(q),
     routeOk |-> Case[x].injection \/ ActualRoute(q) = Case[x].route]

Passing(b) == IF b THEN "passed" ELSE "failed"

JudgeRefusal(r) ==
    CASE "execute" \in r.spans -> "failed"
      [] "execute" \notin r.spans /\ r.raised # Null /\ r.raised.class \notin
            {"AnswerError", "QueryTooExpensiveError"} -> "error"
      [] OTHER -> "passed"

JudgeData(x, r) ==
    Passing(r.result # Null /\ CompareResults(ReferenceRows(x), r.result.rows, Case[x].compare))

JudgeSources(x, r) == Passing(HitAtK(Case[x].sources, r.answer.sources))

JudgeNoData(r) ==
    Passing(r.result = Null \/ \A row \in Range(r.result.rows) :
                                      Range(row) = {NoValue})

Judge(x, r) ==
    CASE Case[x].kind = "refused" -> JudgeRefusal(r)
      [] Case[x].kind # "refused" /\ r.raised # Null -> "error"
      [] Case[x].kind = "data" /\ r.raised = Null -> JudgeData(x, r)
      [] Case[x].kind = "sources" /\ r.raised = Null -> JudgeSources(x, r)
      [] Case[x].kind = "no_data" /\ r.raised = Null -> JudgeNoData(r)

\* The exceptions that stop a session rather than fail a case.
Stops(r) == r.raised # Null /\ r.raised.class \in {"BudgetExhausted", "ProviderError"}

\* Mutant of Reconciled: only an answer is charged for its retries.
AnswersReconciled(r) == [used EXCEPT ![day] = @ + IF r.raised = Null THEN r.retries ELSE 0]

Reconciled(r) == [used EXCEPT ![day] = @ + r.retries]

\* _reconcile, whatever the answer was, then the verdict or the end of the session.
Settle ==
    /\ session.pc = "cases" /\ q.step = "done"
    /\ used' = Reconciled(q)
    /\ IF Stops(q)
       THEN /\ session' = [session EXCEPT !.pc = "report", !.stopped = TRUE]
            /\ q' = Fresh
       ELSE /\ session' = [session EXCEPT !.pc = "append",
                                          !.verdict = Verdict(q.id, Judge(q.id, q))]
            /\ UNCHANGED q
    /\ UNCHANGED <<setting, day, sent, stored, call, lines, tail, exit, sessions, crashes>>

\* What a write of one line leaves: it joins a last line that has no newline.
Appended(line) ==
    IF tail = "newline" THEN Append(lines, line) ELSE Append(Front(lines), Garbage)

Record ==
    /\ session.pc = "append"
    /\ lines' = Appended(session.verdict) /\ tail' = "newline"
    /\ session' = [session EXCEPT !.pc = "cases", !.verdict = Null,
                                  !.skip = @ \cup {session.verdict.id}]
    /\ q' = Fresh
    /\ UNCHANGED <<exit, sessions, crashes, gvars>>

\* The report is made from the file: a session is complete when the file is.
Report ==
    /\ \/ session.pc = "report"
       \/ session.pc = "cases" /\ q.step = "idle" /\ Pending = {}
    /\ exit' = IF Cases \subseteq CompletedIds THEN "complete" ELSE "incomplete"
    /\ session' = [session EXCEPT !.pc = "off"]
    /\ UNCHANGED <<lines, tail, sessions, crashes, q, gvars>>

-----------------------------------------------------------------------------

Dies ==
    /\ session.pc # "off"
    /\ crashes < MaxCrashes
    /\ crashes' = crashes + 1
    /\ session' = NoSession /\ exit' = "died"
    /\ q' = Fresh /\ call' = NoCall
    /\ UNCHANGED <<setting, day, used, sent, stored, sessions>>

Crash == Dies /\ UNCHANGED <<lines, tail>>

\* The line went out in part, or all but its newline.
CrashInAppend ==
    /\ session.pc = "append"
    /\ Dies
    /\ \/ lines' = Appended(Garbage) /\ tail' = "part"
       \/ lines' = Appended(session.verdict) /\ tail' = "whole"
=============================================================================
