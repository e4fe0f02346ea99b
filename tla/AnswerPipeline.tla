--------------------------- MODULE AnswerPipeline ---------------------------
(***************************************************************************)
(* rag/pipeline.py: one question from its route to its answer, with the    *)
(* router, the generator, the guard and the executor it goes through, and  *)
(* the spans and failures its trace records on the way.                    *)
(*                                                                         *)
(* A pipeline shares nothing that changes between its questions, so one    *)
(* question at a time says what a pipeline does with any of them. A reply  *)
(* of the model is a member of the menu of its question; prompts and prose *)
(* are abstracted to what they are about. Retrieval is KnowledgeBase's     *)
(* business: here it finds one of the results the question may have.       *)
(***************************************************************************)
EXTENDS Generators

CONSTANTS Questions, \* their ids
          Question   \* what is known of each

Steps == {"idle", "retrieve", "route", "sql_generation", "guard", "sql_repair", "sql_checks",
          "execute", "narration", "conceptual_answer", "done"}

Classes == {"AnswerError", "QueryTooExpensiveError", "UnsafeQueryError", "QueryExecutionError",
            "DatabaseError", "ProviderError", "BudgetExhausted"}

\* Nothing builds a pipeline with another top_k: a scope finds no more passages.
TopK == 4
Ranking(found) == found \in Seq({found[i] : i \in DOMAIN found}) /\ Len(found) <= TopK

\* What is raised: a class, the span it starts in, what it is raised from.
RootExceptions == [class : Classes, at : Steps \cup {Null}, cause : {Null}]
Exceptions ==
    RootExceptions \cup [class : Classes, at : Steps \cup {Null}, cause : RootExceptions]

\* blank: nothing but spaces; data, conceptual: its wording has a marker of that
\* kind; words, queries: what the model may reply to the router and to a request
\* for SQL; finds: what retrieval may return, from all and internal documents.
ASSUME QuestionAssumption ==
    /\ Null \notin Exceptions \cup {"data", "conceptual"}
    /\ \A x \in Questions :
          /\ Question[x].blank \in BOOLEAN
          /\ Question[x].data \in BOOLEAN /\ Question[x].conceptual \in BOOLEAN
          /\ Question[x].queries \subseteq Queries \cup {Refusal, Malformed}
          /\ \A found \in Question[x].finds :
                /\ found # Null
                /\ Ranking(found.all) /\ Ranking(found.internal)
                /\ Null # [route |-> "conceptual", sources |-> found.all]
                /\ Null # [route |-> "data", sources |-> found.internal]

VARIABLE q \* the question in hand and the trace of its answer

Fresh ==
    [step |-> "idle",   \* the stage it is at
     id |-> Null,
     decided |-> Null,  \* auxiliary: what the router chose
     sources |-> Null,  \* what retrieval found
     text |-> Null,     \* the query the model wrote last
     safe |-> Null,     \* the query that passed the guard
     planned |-> FALSE, \* its cost has been compared with the ceiling
     ran |-> Null,      \* the query that was sent for execution
     result |-> Null,
     answer |-> Null,   \* the route and the sources of the Answer returned
     raised |-> Null,   \* the exception that ended it instead
     broken |-> FALSE,  \* auxiliary: the database or a provider failed it
     spans |-> {},      \* Trace.spans, by name
     rejected |-> 0,    \* guard spans annotated with rejected=True
     noted |-> {},      \* _Active._failures
     retries |-> 0]     \* requests past the first, over its generation calls

-----------------------------------------------------------------------------
(* Spans and exceptions                                                    *)

\* An exception, the span it starts in and the exception it is raised from.
Exception(class, at, cause) == [class |-> class, at |-> at, cause |-> cause]

Noting(r, e, span) == [r EXCEPT !.noted = @ \cup {[exc |-> e, span |-> span]}]
Ends(r, e) == [r EXCEPT !.step = "done", !.raised = e]

\* An exception leaves the span it was raised in, and ends the answer.
Fails(r, class, span) ==
    LET e == Exception(class, span, Null) IN Ends(Noting(r, e, span), e)

\* Mutant of FailingSpan: only the exception that ended the answer is looked up.
SpanOfRaised(r) ==
    LET noted == {n \in r.noted : n.exc = r.raised}
    IN IF noted = {} THEN Null ELSE (CHOOSE n \in noted : TRUE).span

\* Trace.error_span: that of the exception, or else of the one it was raised from.
FailingSpan(r) ==
    LET noted(e) == {n \in r.noted : n.exc = e}
        spanOf(e) == (CHOOSE n \in noted(e) : TRUE).span
    IN CASE noted(r.raised) # {} -> spanOf(r.raised)
         [] noted(r.raised) = {} /\ noted(r.raised.cause) # {} -> spanOf(r.raised.cause)
         [] OTHER -> Null

At(step) == q.step = step /\ call.phase = "none"
Enter(r, step) == [r EXCEPT !.step = step, !.spans = @ \cup {step}]

\* A stage without a model call: nothing of the generator changes.
Does(r) == q' = r /\ UNCHANGED gvars

\* The call of a stage returned or raised; its retries are on the trace.
Answered(step) == q.step = step /\ call.phase = "replied"
Returned == [q EXCEPT !.retries = @ + Retries(call)]

\* Mutant of Ended: the generator is left holding its last call.
EndedHolding(r) == q' = r /\ UNCHANGED gvars

Ended(r) == q' = r /\ call' = NoCall /\ UNCHANGED <<setting, day, used, sent, stored>>

-----------------------------------------------------------------------------

Ask(x) ==
    /\ At("idle")
    /\ LET asked == [Fresh EXCEPT !.id = x]
       IN Does(IF Question[x].blank
               THEN Ends(asked, Exception("AnswerError", Null, Null))
               ELSE Enter(asked, "retrieve"))

Retrieve ==
    /\ At("retrieve")
    /\ \/ \E found \in Question[q.id].finds : Does(Enter([q EXCEPT !.sources = found], "route"))
       \/ /\ setting.faults
          /\ \E class \in {"ProviderError", "DatabaseError"} :
                Does(Fails([q EXCEPT !.broken = TRUE], class, "retrieve"))

\* _answer_conceptual without narration returns at once.
Conceptual(r) ==
    IF setting.narrate
    THEN Enter(r, "conceptual_answer")
    ELSE [r EXCEPT !.step = "done",
                   !.answer = [route |-> "conceptual", sources |-> r.sources.all]]

Decide(r, route) ==
    LET decided == [r EXCEPT !.decided = route]
    IN IF route = "conceptual" THEN Conceptual(decided) ELSE Enter(decided, "sql_generation")

DefaultRoute == "data"

\* classify_lexically: markers of one kind only.
Lexical(x) ==
    CASE Question[x].data /\ ~Question[x].conceptual -> "data"
      [] Question[x].conceptual /\ ~Question[x].data -> "conceptual"
      [] OTHER -> Null

RouteLexically ==
    /\ At("route") /\ Lexical(q.id) # Null
    /\ Does(Decide(q, Lexical(q.id)))

\* _classify_with_model accepts two words and takes any other reply for none.
RouteByModel ==
    /\ Answered("route")
    /\ Ended(Decide(Returned, IF call.reply \in {"data", "conceptual"}
                              THEN call.reply
                              ELSE DefaultRoute))

\* A provider's failure is swallowed; an exhausted budget is not.
RouteByDefault ==
    /\ q.step = "route" /\ call.phase = "failed" /\ call.error = "ProviderError"
    /\ Ended(Decide(Returned, DefaultRoute))

\* _generate_sql, and the three kinds of reply extract_sql tells apart.
GenerateSql ==
    /\ Answered("sql_generation")
    /\ Ended(CASE call.reply = Refusal -> Conceptual(Returned)
               [] call.reply = Malformed -> Fails(Returned, "AnswerError", "sql_generation")
               [] OTHER -> Enter([Returned EXCEPT !.text = call.reply], "guard"))

\* Mutant of Rejected: the trace has the rejection and the count has not.
RejectedUncounted(r) == Noting(r, Exception("UnsafeQueryError", "guard", Null), "guard")

Rejected(r) ==
    Noting([r EXCEPT !.rejected = @ + 1], Exception("UnsafeQueryError", "guard", Null), "guard")

Passes(r) == Enter([r EXCEPT !.safe = EnforceLimit(r.text)], "sql_checks")

Guard ==
    /\ At("guard") /\ q.rejected = 0
    /\ Does(IF Accepted(q.text) THEN Passes(q) ELSE Enter(Rejected(q), "sql_repair"))

\* Mutant of Repair: the repaired query is not shown to the guard.
RepairUnguarded ==
    /\ Answered("sql_repair")
    /\ Ended(IF call.reply \in {Refusal, Malformed}
             THEN Fails(Returned, "AnswerError", "sql_repair")
             ELSE Passes([Returned EXCEPT !.text = call.reply]))

Repair ==
    /\ Answered("sql_repair")
    /\ Ended(IF call.reply \in {Refusal, Malformed}
             THEN Fails(Returned, "AnswerError", "sql_repair")
             ELSE [Returned EXCEPT !.text = call.reply, !.step = "guard"])

\* Mutant of GuardAgain: the second query is only given its limit.
GuardAgainLimits == At("guard") /\ q.rejected = 1 /\ Does(Passes(q))

\* The second rejection is raised outside the span, from the guard's own.
GuardAgain ==
    /\ At("guard") /\ q.rejected = 1
    /\ Does(IF Accepted(q.text)
            THEN Passes(q)
            ELSE Ends(Rejected(q), Exception("AnswerError", "guard",
                                             Exception("UnsafeQueryError", "guard", Null))))

\* Only the server of the API is given the ceiling.
Ceiling == IF setting.host = "api" THEN MaxPlanCost ELSE Null

\* _check_sql: a plan that cannot be had is no reason to refuse the query.
CheckSql ==
    /\ At("sql_checks")
    /\ \/ ~setting.explain /\ Does(Enter(q, "execute"))
       \/ setting.explain /\ setting.faults /\ Does(Enter(q, "execute"))
       \/ /\ setting.explain
          /\ Does(IF Ceiling # Null /\ q.safe.cost > Ceiling
                  THEN Fails(q, "QueryTooExpensiveError", "sql_checks")
                  ELSE Enter([q EXCEPT !.planned = TRUE], "execute"))

DataAnswer(r) ==
    [r EXCEPT !.step = "done", !.answer = [route |-> "data", sources |-> r.sources.internal]]

\* Without narration, and for an empty result of an empty fact, no prose is asked for.
Execute ==
    /\ At("execute")
    /\ LET posed == [q EXCEPT !.ran = q.safe]
           result == ResultOf(q.safe)
           read == [posed EXCEPT !.result = result]
       IN \/ Does(IF ~setting.narrate \/ (result.rows = <<>> /\ ~setting.hasData)
                  THEN DataAnswer(read)
                  ELSE Enter(read, "narration"))
          \/ /\ setting.faults
             /\ Does(Fails([posed EXCEPT !.broken = TRUE], "QueryExecutionError", "execute"))

Narrate ==
    /\ Answered("narration")
    /\ Ended(DataAnswer(Returned))

AnswerConceptual ==
    /\ Answered("conceptual_answer")
    /\ Ended([Returned EXCEPT !.step = "done",
                              !.answer = [route |-> "conceptual", sources |-> q.sources.all]])

\* Every other stage lets what its call raises through.
CallFails ==
    /\ call.phase = "failed"
    /\ ~(q.step = "route" /\ call.error = "ProviderError")
    /\ Ended(Fails([Returned EXCEPT !.broken = TRUE], call.error, q.step))

-----------------------------------------------------------------------------
(* The call of a stage, step by step                                       *)

\* What the prompt of a stage is built from.
Prompt(r) ==
    [stage |-> r.step, id |-> r.id,
     text |-> IF r.step = "sql_repair" THEN r.text ELSE Null,
     result |-> r.result,
     sources |-> CASE r.step \in {"route", "sql_repair"} -> Null
                   [] r.step = "conceptual_answer" -> r.sources.all
                   [] OTHER -> r.sources.internal]

\* What the model may reply, as the code that reads it tells replies apart.
Menu(r) ==
    CASE r.step = "route" -> Question[r.id].words
      [] r.step \in {"sql_generation", "sql_repair"} -> Question[r.id].queries
      [] OTHER -> {"prose"}

Calls ==
    /\ \/ q.step \in {"sql_generation", "sql_repair", "narration", "conceptual_answer"}
       \/ q.step = "route" /\ Lexical(q.id) = Null
    /\ call.phase = "none"
    /\ Generate(Prompt(q))
    /\ UNCHANGED <<q, setting, day, used, sent, stored>>

CallSteps == Look \/ Reserve \/ Charge \/ Request(Menu(q)) \/ Keep

\* What _answer does once it has a question.
AnswerStep ==
    \/ Retrieve \/ RouteLexically \/ RouteByModel \/ RouteByDefault
    \/ GenerateSql \/ Guard \/ Repair \/ GuardAgain \/ CheckSql
    \/ Execute \/ Narrate \/ AnswerConceptual \/ CallFails
    \/ Calls
    \/ CallSteps /\ UNCHANGED q
=============================================================================
