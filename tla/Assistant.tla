------------------------------ MODULE Assistant ------------------------------
(***************************************************************************)
(* The two processes that hold a pipeline: the server of the API and the   *)
(* eval command, with everything below them down to the provider.          *)
(***************************************************************************)
EXTENDS AskService, EvalRun

CONSTANTS Settings \* the ways a process may be started

vars == <<gvars, q, svars, rvars>>

ASSUME SettingAssumption ==
    \A s \in Settings :
        /\ s.host \in {"api", "eval"}
        /\ s.layers \in IF s.host = "api" THEN {"plain"} ELSE {"budget", "cache"}
        /\ s.limit \in Nat /\ s.cases \in Seq(Questions)
        /\ s.host = "eval" => Range(s.cases) \subseteq DOMAIN Case
        /\ {s.narrate, s.explain, s.hasData, s.throttled, s.faults} \subseteq BOOLEAN

Init ==
    /\ setting \in Settings
    /\ day = 1
    /\ used = [d \in Days |-> 0] /\ sent = [d \in Days |-> 0]
    /\ stored = [p \in {} |-> Null]
    /\ call = NoCall
    /\ q = Fresh
    /\ server = "starting" /\ status = Null
    /\ session = NoSession
    /\ lines = <<>> /\ tail = "newline"
    /\ exit = Null
    /\ sessions = 0 /\ crashes = 0

Serve ==
    \/ StartUp /\ UNCHANGED rvars
    \/ \E x \in Range(setting.cases) : PostAsk(x) /\ UNCHANGED rvars
    \/ Respond /\ UNCHANGED rvars

\* What a session does of itself once it has begun.
SessionStep == LoadReferences \/ Abort \/ Build \/ NextCase \/ Settle \/ Record \/ Report

Evaluate == Begin \/ SessionStep \/ Crash \/ CrashInAppend

\* Nothing but an evaluation looks at the day.
DayTurns == setting.host = "eval" /\ Midnight /\ UNCHANGED q

Next ==
    \/ Serve
    \/ Evaluate /\ UNCHANGED svars
    \/ AnswerStep /\ UNCHANGED <<svars, rvars>>
    \/ DayTurns /\ UNCHANGED <<svars, rvars>>

\* A question in hand is a running thread's, and a request to a provider or to
\* the database has a timeout: its answer or its failure comes.
Fairness == WF_vars(AnswerStep /\ UNCHANGED <<svars, rvars>>)

Spec == Init /\ [][Next]_vars /\ Fairness

-----------------------------------------------------------------------------
(* Types                                                                   *)

\* Each part of a question, of a call and of a session is there exactly when
\* what it depends on has happened.
TypeOK ==
    /\ setting \in Settings
    /\ day \in Days
    /\ used \in [Days -> Nat] /\ sent \in [Days -> Nat]
    /\ q.step \in Steps
    /\ q.step = "done" <=> q.answer # Null \/ q.raised # Null
    /\ ~(q.answer # Null /\ q.raised # Null)
    /\ q.rejected \in 0..2 /\ q.retries \in Nat
    /\ q.safe # Null => q.text # Null
    /\ q.ran \in {Null, q.safe}
    /\ q.result # Null => q.ran # Null
    /\ call.phase \in {"none", "look", "reserve", "charge", "send", "keep", "replied", "failed"}
    /\ call.tries \in 0..(MaxRetries + 1)
    /\ call.phase = "failed" <=> call.error # Null
    /\ call.phase # "none" => q.step \notin {"idle", "retrieve", "guard", "sql_checks", "done"}
    /\ session.verdict # Null <=> session.pc = "append"
    /\ server = "up" \/ session.pc # "off" \/ q = Fresh

-----------------------------------------------------------------------------
(* Questions                                                               *)

\* Whatever was written, rejected and repaired: a query is sent for execution
\* only as the guard let it through, bounded, and, where there is a ceiling and
\* the planner gave an estimate, below the ceiling.
OnlyGuardedExecutes ==
    q.ran # Null =>
        /\ Accepted(q.text)
        /\ q.ran = EnforceLimit(q.text)
        /\ q.planned /\ Ceiling # Null => q.ran.cost <= Ceiling

\* An answer that shows fewer rows than the model's own query asked for says so.
CappedIsFlagged ==
    q.result # Null /\ Len(q.result.rows) < Len(RowsOf(q.text)) => q.result.truncated

\* The trace names the span a failure started in, also when what was raised in
\* the end is not what was raised there.
TraceNamesFailure ==
    q.raised # Null => FailingSpan(q) = q.raised.at /\ (q.raised.at # Null => q.raised.at \in q.spans)

\* The pipeline implements Answering.
StateOf(r) ==
    CASE r.step = "idle" -> "idle"
      [] r.step = "done" /\ r.raised = Null -> r.answer.route
      [] r.step = "done" /\ r.raised # Null ->
            IF r.raised.class \in AnswerErrors THEN "declined" ELSE "fault"
      [] OTHER -> "working"

Contract == INSTANCE Answering WITH state <- StateOf(q), posed <- q.ran

KeepsContract == Contract!ASpec

\* Whatever the model writes and however often it is refused, a question ends:
\* its repairs and its retries run out, and no stage is come back to.
QuestionEnds == q.step # "idle" ~> q.step \in {"idle", "done"}

-----------------------------------------------------------------------------
(* Evaluation                                                              *)

\* What the counts of all days come to.
Total(counts) ==
    LET upTo[d \in 0..LastDay] == IF d = 0 THEN 0 ELSE upTo[d - 1] + counts[d]
    IN upTo[LastDay]

\* Between two cases the counter is what the provider has counted, as long as
\* no process died in a call and no day has turned; a day that turns may only
\* make the counters too high.
SpentIsCharged ==
    crashes = 0 /\ q.step = "idle" =>
        /\ day = 1 => used[1] = sent[1]
        /\ Total(used) >= Total(sent)

\* The calls one question may make.
MaxCalls == IF setting.narrate THEN 4 ELSE 3

\* A day's requests exceed the allowance by no more than the retries of one
\* case, those of the cases that died, and a call reserved the day before.
OverdraftBounded ==
    \A d \in Days : sent[d] <= setting.limit + MaxRetries * MaxCalls * (1 + crashes)
                               + (IF d > 1 THEN 1 ELSE 0)

\* A session that was not stopped leaves a verdict for every case; one that
\* began on a last line cut short loses the case it appends to it, and one that
\* began on a line without its newline also the case of that line.
TornLineCostsItsCases ==
    session.pc = "off" /\ exit \in {"complete", "incomplete"} =>
        IF session.stopped
        THEN exit = "incomplete"
        ELSE Cardinality(Cases \ CompletedIds) <= CASE session.began = "newline" -> 0
                                                    [] session.began = "part" -> 1
                                                    [] session.began = "whole" -> 2

\* A verdict is what the case deserves: a refusal passes only when nothing was
\* executed, sources when the answer shows one of them, and the route is the
\* router's own decision, whatever path the answer took afterwards.
VerdictsFaithful ==
    session.verdict # Null =>
        LET v == session.verdict
            c == Case[q.id]
        IN /\ v.route = q.decided
           /\ c.kind = "refused" => (v.outcome = "passed" => q.ran = Null)
           /\ c.kind = "refused" /\ q.ran # Null => v.outcome = "failed"
           /\ c.kind = "sources" /\ q.answer # Null =>
                (v.outcome = "passed" <=> Range(q.answer.sources) \cap c.sources # {})
           /\ v.outcome = "error" <=> q.raised # Null /\ ~(c.kind = "refused" /\
                (q.ran # Null \/ q.raised.class \in AnswerErrors))

\* A data case passes exactly when its result shows the reference: when rows and
\* columns can be matched, however the matching is computed.
DataVerdictsExact ==
    session.verdict # Null /\ Case[q.id].kind = "data" =>
        (session.verdict.outcome = "passed" <=>
            /\ q.result # Null
            /\ SameAnswer(ReferenceRows(q.id), q.result.rows, Case[q.id].compare))
=============================================================================
