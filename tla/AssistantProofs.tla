--------------------------- MODULE AssistantProofs ---------------------------
(***************************************************************************)
(* What holds of every question, whatever the policy, the questions, the   *)
(* replies, the bounds and the way a process is started: only guarded      *)
(* queries are executed, a capped result says so, the pipeline keeps the   *)
(* contract of Answering, and the trace of an answer names the span its    *)
(* failure started in, on every path.                                      *)
(***************************************************************************)
EXTENDS Assistant, TLAPS

-----------------------------------------------------------------------------
(* The invariant: what is known of a question at each stage, and of the    *)
(* reply its call has in hand or may find in the cache.                    *)

Fields == {"step", "id", "decided", "sources", "text", "safe", "planned", "ran", "result",
           "answer", "raised", "broken", "spans", "rejected", "noted", "retries"}
CallFields == {"phase", "prompt", "seen", "tries", "reply", "error"}

Early == {"idle", "retrieve", "route", "sql_generation", "guard", "sql_repair"}
SqlStages == {"sql_generation", "sql_repair"}
CallStages == {"route", "sql_generation", "sql_repair", "narration", "conceptual_answer"}

\* A query passed the guard before it was planned, executed and answered from.
Guarded(r) ==
    /\ r.safe = Null => r.ran = Null /\ r.result = Null /\ ~r.planned
    /\ r.safe # Null => r.text \in Queries /\ Accepted(r.text) /\ r.safe = EnforceLimit(r.text)
    /\ r.ran # Null => r.ran = r.safe
    /\ r.planned \in BOOLEAN
    /\ r.planned /\ Ceiling # Null => r.safe.cost <= Ceiling
    /\ r.result # Null => r.result = ResultOf(r.safe)

Staged(r) ==
    /\ r.step \in Steps
    /\ r.step # "idle" => r.id \in Questions
    /\ r.step # "done" => r.raised = Null
    /\ r.step \in Early \cup {"conceptual_answer"} => r.safe = Null
    /\ r.step \in {"guard", "sql_repair"} => r.text \in Queries
    /\ r.step \in {"sql_checks", "execute", "narration"} => r.safe # Null
    /\ r.step \in {"sql_checks", "execute"} => r.ran = Null
    /\ r.step = "narration" => r.ran # Null

QuestionInv(r) == DOMAIN r = Fields /\ Staged(r) /\ Guarded(r)

CallInv ==
    /\ DOMAIN call = CallFields
    /\ call.phase # "none" => q.step \in CallStages /\ call.prompt = Prompt(q)
    /\ call.phase \in {"keep", "replied"} /\ q.step \in SqlStages =>
            call.reply \in Question[q.id].queries
    /\ call.phase = "failed" => call.error \in {"BudgetExhausted", "ProviderError"}

StoredInv ==
    \A p \in DOMAIN stored : p.stage \in SqlStages => stored[p] \in Question[p.id].queries

HostInv ==
    /\ setting \in Settings
    /\ "pc" \in DOMAIN session
    /\ server # "starting" => setting.host = "api"
    /\ session.pc # "off" => setting.host = "eval"
    /\ session.pc = "append" => q.step = "done"

PipelineInv == QuestionInv(q) /\ CallInv /\ StoredInv /\ HostInv

\* A process that starts has no question, no call and an empty cache.
THEOREM PipelineInit == Init => PipelineInv
BY DEF Init, PipelineInv, QuestionInv, Staged, Guarded, CallInv, StoredInv, HostInv, Fresh, NoCall,
       Fields, CallFields, Steps, Early, SqlStages, CallStages, NoSession

-----------------------------------------------------------------------------
(* What the helpers of a stage leave alone                                 *)

\* r is what s was of the question and its query.
Same(r, s) ==
    /\ DOMAIN r = Fields
    /\ r.id = s.id /\ r.text = s.text /\ r.safe = s.safe /\ r.planned = s.planned
    /\ r.ran = s.ran /\ r.result = s.result

\* What is known of a query does not depend on the rest of the record.
LEMMA SameGuarded ==
    ASSUME NEW r, NEW s, Same(r, s), Guarded(s)
    PROVE  Guarded(r)
BY DEF Same, Guarded

\* Two changes that leave the question and its query alone leave them alone together.
LEMMA SameTwice ==
    ASSUME NEW r, NEW s, NEW t, Same(r, s), Same(s, t)
    PROVE  Same(r, t)
BY DEF Same

\* Opening a span moves the stage only.
LEMMA EnterSame ==
    ASSUME NEW r, DOMAIN r = Fields, NEW s
    PROVE  Same(Enter(r, s), r) /\ Enter(r, s).step = s /\ Enter(r, s).raised = r.raised
BY DEF Enter, Same, Fields

\* Noting a failure adds to the trace only.
LEMMA NotingSame ==
    ASSUME NEW r, DOMAIN r = Fields, NEW e, NEW s
    PROVE  /\ Same(Noting(r, e, s), r)
           /\ Noting(r, e, s).step = r.step /\ Noting(r, e, s).raised = r.raised
BY DEF Noting, Same, Fields

\* Ending with an exception leaves the question and its query alone.
LEMMA EndsSame ==
    ASSUME NEW r, DOMAIN r = Fields, NEW e
    PROVE  Same(Ends(r, e), r) /\ Ends(r, e).step = "done" /\ Ends(r, e).raised = e
BY DEF Ends, Same, Fields

\* So does failing in a span, which raises what starts there.
LEMMA FailsSame ==
    ASSUME NEW r, DOMAIN r = Fields, NEW class, NEW span
    PROVE  /\ Same(Fails(r, class, span), r)
           /\ Fails(r, class, span).step = "done"
           /\ Fails(r, class, span).raised = Exception(class, span, Null)
<1> DEFINE e == Exception(class, span, Null)
           n == Noting(r, e, span)
<1>1. Same(n, r)
  BY NotingSame
<1>2. DOMAIN n = Fields
  BY <1>1 DEF Same
<1>3. Same(Ends(n, e), n) /\ Ends(n, e).step = "done" /\ Ends(n, e).raised = e
  BY <1>2, EndsSame
<1> HIDE DEF n
<1> QED
  BY <1>1, <1>3, SameTwice DEF Fails, n

\* Adding a call's retries to the trace leaves everything else alone.
LEMMA ReturnedSame ==
    ASSUME DOMAIN q = Fields
    PROVE  Same(Returned, q) /\ Returned.step = q.step /\ Returned.raised = q.raised
BY DEF Returned, Same, Fields

\* _answer_conceptual goes on to its prose or answers at once.
LEMMA ConceptualSame ==
    ASSUME NEW r, DOMAIN r = Fields
    PROVE  /\ Same(Conceptual(r), r) /\ Conceptual(r).raised = r.raised
           /\ \/ Conceptual(r).step = "conceptual_answer"
              \/ Conceptual(r).step = "done" /\ Conceptual(r).answer.route = "conceptual"
<1>1. CASE setting.narrate
  BY <1>1, EnterSame DEF Conceptual
<1>2. CASE ~setting.narrate
  BY <1>2 DEF Conceptual, Same, Fields
<1> QED
  BY <1>1, <1>2

\* A route leads to the SQL or to the conceptual answer.
LEMMA DecideSame ==
    ASSUME NEW r, DOMAIN r = Fields, NEW route
    PROVE  /\ Same(Decide(r, route), r) /\ Decide(r, route).raised = r.raised
           /\ \/ Decide(r, route).step \in {"conceptual_answer", "sql_generation"}
              \/ Decide(r, route).step = "done" /\ Decide(r, route).answer.route = "conceptual"
<1> DEFINE d == [r EXCEPT !.decided = route]
<1>1. Same(d, r) /\ d.raised = r.raised
  BY DEF Same, Fields
<1>2. DOMAIN d = Fields
  BY <1>1 DEF Same
<1> HIDE DEF d
<1>3. /\ Same(Conceptual(d), d) /\ Conceptual(d).raised = d.raised
      /\ \/ Conceptual(d).step = "conceptual_answer"
         \/ Conceptual(d).step = "done" /\ Conceptual(d).answer.route = "conceptual"
  BY <1>2, ConceptualSame
<1>4. /\ Same(Enter(d, "sql_generation"), d)
      /\ Enter(d, "sql_generation").step = "sql_generation"
      /\ Enter(d, "sql_generation").raised = d.raised
  BY <1>2, EnterSame
<1>5. Decide(r, route) = IF route = "conceptual" THEN Conceptual(d) ELSE Enter(d, "sql_generation")
  BY DEF Decide, d
<1> QED
  BY <1>1, <1>3, <1>4, <1>5, SameTwice

\* A rejection is counted and noted; the query stays.
LEMMA RejectedSame ==
    ASSUME NEW r, DOMAIN r = Fields
    PROVE  Same(Rejected(r), r) /\ Rejected(r).step = r.step /\ Rejected(r).raised = r.raised
<1> DEFINE n == [r EXCEPT !.rejected = @ + 1]
           e == Exception("UnsafeQueryError", "guard", Null)
<1>1. Same(n, r) /\ n.step = r.step /\ n.raised = r.raised
  BY DEF Same, Fields
<1>2. DOMAIN n = Fields
  BY <1>1 DEF Same
<1> HIDE DEF n, e
<1>3. /\ Same(Noting(n, e, "guard"), n)
      /\ Noting(n, e, "guard").step = n.step /\ Noting(n, e, "guard").raised = n.raised
  BY <1>2, NotingSame
<1> QED
  BY <1>1, <1>3, SameTwice DEF Rejected, n, e

\* A query that passes is the one written, with the guard's limit.
LEMMA PassesSame ==
    ASSUME NEW r, DOMAIN r = Fields
    PROVE  /\ DOMAIN Passes(r) = Fields
           /\ Passes(r).step = "sql_checks" /\ Passes(r).safe = EnforceLimit(r.text)
           /\ Passes(r).id = r.id /\ Passes(r).text = r.text /\ Passes(r).raised = r.raised
           /\ Passes(r).planned = r.planned
           /\ Passes(r).ran = r.ran /\ Passes(r).result = r.result
BY DEF Passes, Enter, Fields

\* A data answer leaves the query it was made from alone.
LEMMA DataAnswerSame ==
    ASSUME NEW r, DOMAIN r = Fields
    PROVE  /\ Same(DataAnswer(r), r) /\ DataAnswer(r).raised = r.raised
           /\ DataAnswer(r).step = "done" /\ DataAnswer(r).answer.route = "data"
BY DEF DataAnswer, Same, Fields

-----------------------------------------------------------------------------
(* The guard                                                               *)

\* What the guard lets through has a limit, and is still what it let through:
\* sql/guard.py, validate_sql and _enforce_limit.
LEMMA EnforceBounds ==
    ASSUME NEW query \in Queries, Accepted(query)
    PROVE  /\ EnforceLimit(query) \in Queries /\ EnforceLimit(query) # Null
           /\ Accepted(EnforceLimit(query)) /\ EnforceLimit(query).limit \in 0..MaxRows
           /\ EnforceLimit(query).matches = query.matches
           /\ query.limit \notin Nat => EnforceLimit(query).limit = MaxRows
<1> DEFINE bounded == [query EXCEPT !.limit = MaxRows]
<1>1. CASE query.limit \in Nat /\ query.limit <= MaxRows
  BY <1>1, PolicyAssumption DEF EnforceLimit, Queries
<1>2. CASE ~(query.limit \in Nat /\ query.limit <= MaxRows)
  <2>1. EnforceLimit(query) = bounded
    BY <1>2 DEF EnforceLimit
  <2>2. MaxRows \in Nat /\ MaxRows \in 0..MaxRows
    BY PolicyAssumption
  <2>3. bounded \in Queries
    BY <2>2 DEF Queries
  <2>4. /\ bounded.limit = MaxRows /\ bounded.matches = query.matches
        /\ bounded.statements = query.statements /\ bounded.root = query.root
        /\ bounded.nodes = query.nodes /\ bounded.functions = query.functions
        /\ bounded.tables = query.tables /\ bounded.ctes = query.ctes
    BY DEF Queries
  <2> HIDE DEF bounded
  <2>5. Accepted(bounded)
    BY <2>4 DEF Accepted, ReferencedTables
  <2> QED
    BY <2>1, <2>2, <2>3, <2>4, <2>5, PolicyAssumption
<1> QED
  BY <1>1, <1>2

-----------------------------------------------------------------------------
(* What follows what                                                       *)

\* From s to r is a step of Answering, or none.
Follows(s, r) ==
    \/ StateOf(r) = StateOf(s) /\ r.ran = s.ran
    \/ StateOf(s) = "idle" /\ StateOf(r) \in {"working", "declined"} /\ r.ran = s.ran
    \/ /\ StateOf(s) = "working" /\ s.ran = Null /\ r.ran = s.safe /\ s.safe # Null
       /\ StateOf(r) \in {"working", "data", "fault"}
    \/ /\ StateOf(s) = "working" /\ r.ran = s.ran
       /\ \/ StateOf(r) = "data" /\ s.ran # Null
          \/ StateOf(r) \in {"conceptual", "declined"} /\ s.ran = Null
          \/ StateOf(r) = "fault"
    \/ StateOf(r) = "idle" /\ r.ran = Null

Working == Steps \ {"idle", "done"}

\* What a stage makes of the question keeps the invariant and the contract when
\* it is what the question was and either goes on or ends as it may.
LEMMA StageKeeps ==
    ASSUME NEW s, QuestionInv(s), s.step \in Working,
           NEW r, Same(r, s), Staged(r),
           \/ r.step \in Working
           \/ /\ r.step = "done" /\ r.raised = Null
              /\ \/ r.answer.route = "data" /\ s.ran # Null
                 \/ r.answer.route = "conceptual" /\ s.ran = Null
           \/ /\ r.step = "done" /\ r.raised # Null
              /\ r.raised.class \in AnswerErrors => s.ran = Null
    PROVE  QuestionInv(r) /\ Follows(s, r)
<1>1. QuestionInv(r)
  BY SameGuarded DEF QuestionInv, Same
<1>2. StateOf(s) = "working"
  BY DEF StateOf, Working
<1>3. r.ran = s.ran
  BY DEF Same
<1>4. CASE r.step \in Working
  BY <1>1, <1>2, <1>3, <1>4 DEF Follows, StateOf, Working
<1>5. CASE r.step = "done" /\ r.raised = Null
  BY <1>1, <1>2, <1>3, <1>5 DEF Follows, StateOf, Working
<1>6. CASE r.step = "done" /\ r.raised # Null
  BY <1>1, <1>2, <1>3, <1>6 DEF Follows, StateOf, Working
<1> QED
  BY <1>4, <1>5, <1>6 DEF Working, Staged

\* What is raised is not Null.
LEMMA RaisedSomething ==
    ASSUME NEW class \in Classes, NEW span \in Steps \cup {Null},
           NEW cause \in {Null} \cup RootExceptions
    PROVE  /\ Exception(class, span, cause) # Null
           /\ Exception(class, span, cause).class = class
           /\ cause = Null => Exception(class, span, cause) \in RootExceptions
BY QuestionAssumption DEF Exception, Exceptions, RootExceptions

\* A question that is asked starts fresh, or ends at once when it is blank.
LEMMA AskKeeps ==
    ASSUME PipelineInv, NEW x \in Questions, Ask(x)
    PROVE  QuestionInv(q') /\ Follows(q, q') /\ call.phase = "none"
<1> DEFINE asked == [Fresh EXCEPT !.id = x]
           e == Exception("AnswerError", Null, Null)
<1>1. /\ DOMAIN asked = Fields /\ asked.id = x /\ asked.step = "idle" /\ asked.raised = Null
      /\ asked.safe = Null /\ asked.planned = FALSE /\ asked.ran = Null /\ asked.result = Null
  BY DEF Fresh, Fields
<1>2. q.step = "idle" /\ q.ran = Null /\ call.phase = "none"
  BY DEF Ask, At, PipelineInv, QuestionInv, Staged, Guarded, Early
<1>3. q' = IF Question[x].blank THEN Ends(asked, e) ELSE Enter(asked, "retrieve")
  BY DEF Ask, Does
<1> HIDE DEF asked
<1>4. Same(Ends(asked, e), asked) /\ Ends(asked, e).step = "done" /\ Ends(asked, e).raised = e
  BY <1>1, EndsSame
<1>5. /\ Same(Enter(asked, "retrieve"), asked)
      /\ Enter(asked, "retrieve").step = "retrieve"
      /\ Enter(asked, "retrieve").raised = Null
  BY <1>1, EnterSame
<1>6. e.class = "AnswerError"
  BY DEF Exception
<1>12. e # Null
  BY RaisedSomething DEF Classes
<1> HIDE DEF e
<1>7. Same(q', asked)
  BY <1>3, <1>4, <1>5
<1>8. q'.id = x /\ q'.safe = Null /\ q'.planned = FALSE /\ q'.ran = Null /\ q'.result = Null
      /\ DOMAIN q' = Fields
  BY <1>1, <1>7 DEF Same
<1>9. \/ q'.step = "done" /\ q'.raised = e
      \/ q'.step = "retrieve" /\ q'.raised = Null
  BY <1>3, <1>4, <1>5
<1>10. QuestionInv(q')
  BY <1>8, <1>9 DEF QuestionInv, Staged, Guarded, Steps, Early
<1>11. StateOf(q) = "idle" /\ StateOf(q') \in {"working", "declined"}
  BY <1>2, <1>6, <1>12, <1>9 DEF StateOf, AnswerErrors
<1> QED
  BY <1>2, <1>8, <1>10, <1>11 DEF Follows

\* Every exit by Fails is a fault, or an AnswerError before anything was executed.
LEMMA FailsKeeps ==
    ASSUME NEW s, QuestionInv(s), s.step \in Working, NEW t, Same(t, s),
           NEW class \in Classes, NEW span \in Steps, class \in AnswerErrors => s.ran = Null
    PROVE  QuestionInv(Fails(t, class, span)) /\ Follows(s, Fails(t, class, span))
<1> DEFINE r == Fails(t, class, span)
           e == Exception(class, span, Null)
<1>1. DOMAIN t = Fields
  BY DEF Same
<1>2. Same(r, t) /\ r.step = "done" /\ r.raised = e
  BY <1>1, FailsSame
<1>3. e # Null /\ e.class = class
  BY RaisedSomething
<1> HIDE DEF r, e
<1>4. Same(r, s)
  BY <1>2, SameTwice
<1>5. Staged(r)
  BY <1>2, <1>4 DEF QuestionInv, Staged, Same, Working, Steps, Early
<1>6. QuestionInv(r) /\ Follows(s, r)
  BY <1>2, <1>3, <1>4, <1>5, StageKeeps
<1> QED
  BY <1>6 DEF r

\* The way to a conceptual answer executes nothing.
LEMMA ConceptualKeeps ==
    ASSUME NEW s, QuestionInv(s), s.step \in {"route", "sql_generation"},
           NEW t, Same(t, s), t.raised = Null
    PROVE  QuestionInv(Conceptual(t)) /\ Follows(s, Conceptual(t))
<1> DEFINE r == Conceptual(t)
<1>1. DOMAIN t = Fields
  BY DEF Same
<1>2. /\ Same(r, t) /\ r.raised = Null
      /\ r.step = "conceptual_answer" \/ (r.step = "done" /\ r.answer.route = "conceptual")
  BY <1>1, ConceptualSame
<1> HIDE DEF r
<1>3. Same(r, s)
  BY <1>2, SameTwice
<1>4. s.safe = Null /\ s.ran = Null /\ s.id \in Questions /\ s.step \in Working
  BY DEF QuestionInv, Staged, Guarded, Early, Working, Steps
<1>5. Staged(r)
  BY <1>2, <1>3, <1>4 DEF Staged, Same, Steps, Early
<1>6. QuestionInv(r) /\ Follows(s, r)
  BY <1>2, <1>3, <1>4, <1>5, StageKeeps DEF Working, Steps
<1> QED
  BY <1>6 DEF r

\* Going on to a stage that is reached before any query has passed the guard.
LEMMA EntersKeeps ==
    ASSUME NEW s, QuestionInv(s), s.step \in Working, s.safe = Null,
           NEW t, Same(t, s), t.raised = Null,
           NEW step \in {"route", "sql_generation"}
    PROVE  QuestionInv(Enter(t, step)) /\ Follows(s, Enter(t, step))
<1> DEFINE r == Enter(t, step)
<1>1. Same(r, t) /\ r.raised = Null /\ r.step = step
  BY EnterSame DEF Same
<1> HIDE DEF r
<1>2. Same(r, s)
  BY <1>1, SameTwice
<1>3. Staged(r)
  BY <1>1, <1>2 DEF QuestionInv, Staged, Same, Steps, Early, Working
<1>4. QuestionInv(r) /\ Follows(s, r)
  BY <1>1, <1>2, <1>3, StageKeeps DEF Working, Steps
<1> QED
  BY <1>4 DEF r

\* Neither does the routing.
LEMMA DecideKeeps ==
    ASSUME NEW s, QuestionInv(s), s.step = "route", NEW t, Same(t, s), t.raised = Null, NEW route
    PROVE  QuestionInv(Decide(t, route)) /\ Follows(s, Decide(t, route))
<1> DEFINE d == [t EXCEPT !.decided = route]
<1>1. Same(d, t) /\ d.raised = Null
  BY DEF Same, Fields
<1> HIDE DEF d
<1>2. Same(d, s)
  BY <1>1, SameTwice
<1>3. s.safe = Null /\ s.step \in Working
  BY DEF QuestionInv, Staged, Early, Working, Steps
<1>4. QuestionInv(Conceptual(d)) /\ Follows(s, Conceptual(d))
  BY <1>1, <1>2, ConceptualKeeps
<1>5. QuestionInv(Enter(d, "sql_generation")) /\ Follows(s, Enter(d, "sql_generation"))
  BY <1>1, <1>2, <1>3, EntersKeeps
<1>6. Decide(t, route) = IF route = "conceptual" THEN Conceptual(d) ELSE Enter(d, "sql_generation")
  BY DEF Decide, d
<1> QED
  BY <1>4, <1>5, <1>6

-----------------------------------------------------------------------------
(* One lemma per action: what it makes of the question                     *)

\* What is known of the question wherever a stage acts on it.
LEMMA AtWork ==
    ASSUME PipelineInv, q.step \in Working
    PROVE  /\ QuestionInv(q) /\ DOMAIN q = Fields /\ q.raised = Null
           /\ Same(q, q)
           /\ Same(Returned, q) /\ Returned.step = q.step /\ Returned.raised = Null
BY ReturnedSame DEF PipelineInv, QuestionInv, Staged, Working, Same

\* Retrieval, found or failed.
LEMMA RetrieveKeeps ==
    ASSUME PipelineInv, Retrieve
    PROVE  QuestionInv(q') /\ Follows(q, q')
<1>1. q.step = "retrieve" /\ q.step \in Working
  BY DEF Retrieve, At, Working, Steps
<1>2. q.safe = Null /\ q.ran = Null
  BY <1>1 DEF PipelineInv, QuestionInv, Staged, Guarded, Early
<1>3. ASSUME NEW found \in Question[q.id].finds, Does(Enter([q EXCEPT !.sources = found], "route"))
      PROVE  QuestionInv(q') /\ Follows(q, q')
  <2> DEFINE t == [q EXCEPT !.sources = found]
  <2>1. Same(t, q) /\ t.raised = Null
    BY <1>1, AtWork DEF Same, Fields
  <2>2. q' = Enter(t, "route")
    BY <1>3 DEF Does
  <2> HIDE DEF t
  <2> QED
    BY <1>1, <1>2, <2>1, <2>2, AtWork, EntersKeeps
<1>4. ASSUME NEW class \in {"ProviderError", "DatabaseError"},
             Does(Fails([q EXCEPT !.broken = TRUE], class, "retrieve"))
      PROVE  QuestionInv(q') /\ Follows(q, q')
  <2> DEFINE t == [q EXCEPT !.broken = TRUE]
  <2>1. Same(t, q)
    BY <1>1, AtWork DEF Same, Fields
  <2>2. q' = Fails(t, class, "retrieve") /\ class \in Classes /\ "retrieve" \in Steps
    BY <1>4 DEF Does, Classes, Steps
  <2> HIDE DEF t
  <2> QED
    BY <1>1, <1>2, <2>1, <2>2, AtWork, FailsKeeps
<1> QED
  BY <1>3, <1>4 DEF Retrieve

\* The three ways a route is decided.
LEMMA RouteKeeps ==
    ASSUME PipelineInv, RouteLexically \/ RouteByModel \/ RouteByDefault
    PROVE  QuestionInv(q') /\ Follows(q, q')
<1>1. q.step = "route" /\ q.step \in Working
  BY DEF RouteLexically, RouteByModel, RouteByDefault, At, Answered, Working, Steps
<1>2. PICK t \in {q, Returned} : \E route : q' = Decide(t, route)
  BY DEF RouteLexically, RouteByModel, RouteByDefault, Does, Ended
<1>3. PICK route : q' = Decide(t, route)
  BY <1>2
<1>4. Same(t, q) /\ t.raised = Null
  BY <1>1, AtWork
<1> QED
  BY <1>1, <1>3, <1>4, AtWork, DecideKeeps

\* A query that goes to the guard, the first and the repaired one.
LEMMA GuardedNext ==
    ASSUME PipelineInv, q.step \in {"sql_generation", "sql_repair"},
           NEW query \in Queries, NEW r, DOMAIN r = Fields,
           r.step = "guard", r.text = query, r.raised = Null,
           r.id = q.id, r.safe = q.safe, r.planned = q.planned, r.ran = q.ran, r.result = q.result
    PROVE  QuestionInv(r) /\ Follows(q, r)
<1>1. q.safe = Null /\ q.id \in Questions /\ QuestionInv(q)
  BY DEF PipelineInv, QuestionInv, Staged, Early
<1>2. QuestionInv(r)
  BY <1>1 DEF QuestionInv, Staged, Guarded, Steps, Early
<1>3. StateOf(q) = "working" /\ StateOf(r) = "working"
  BY DEF StateOf
<1> QED
  BY <1>2, <1>3 DEF Follows

\* The three kinds of reply extract_sql tells apart.
LEMMA GenerateSqlKeeps ==
    ASSUME PipelineInv, GenerateSql
    PROVE  QuestionInv(q') /\ Follows(q, q')
<1>1. q.step = "sql_generation" /\ q.step \in Working /\ call.phase = "replied"
  BY DEF GenerateSql, Answered, Working, Steps
<1>2. q.safe = Null /\ q.ran = Null /\ q.id \in Questions
  BY <1>1 DEF PipelineInv, QuestionInv, Staged, Guarded, Early
<1>3. call.reply \in Queries \cup {Refusal, Malformed}
  BY <1>1, <1>2, QuestionAssumption DEF PipelineInv, CallInv, SqlStages
<1>4. CASE call.reply = Refusal
  <2>1. q' = Conceptual(Returned)
    BY <1>4, PolicyAssumption DEF GenerateSql, Ended
  <2> QED
    BY <1>1, <2>1, AtWork, ConceptualKeeps
<1>5. CASE call.reply # Refusal /\ call.reply = Malformed
  <2>1. q' = Fails(Returned, "AnswerError", "sql_generation")
    BY <1>5, PolicyAssumption DEF GenerateSql, Ended
  <2>2. "AnswerError" \in Classes /\ "sql_generation" \in Steps
    BY DEF Classes, Steps
  <2> QED
    BY <1>1, <1>2, <2>1, <2>2, AtWork, FailsKeeps
<1>6. CASE call.reply # Refusal /\ call.reply # Malformed
  <2> DEFINE t == [Returned EXCEPT !.text = call.reply]
  <2>1. q' = Enter(t, "guard")
    BY <1>6 DEF GenerateSql, Ended
  <2>2. Same(Returned, q) /\ Returned.raised = Null /\ DOMAIN Returned = Fields
    BY <1>1, AtWork DEF Same
  <2>3. /\ DOMAIN t = Fields /\ t.text = call.reply /\ t.raised = Null
        /\ t.id = q.id /\ t.safe = q.safe /\ t.planned = q.planned
        /\ t.ran = q.ran /\ t.result = q.result
    BY <2>2 DEF Same, Fields
  <2> HIDE DEF t
  <2>4. Same(q', t) /\ q'.step = "guard" /\ q'.raised = Null
    BY <2>1, <2>3, EnterSame
  <2> QED
    BY <1>1, <1>3, <1>6, <2>3, <2>4, GuardedNext DEF Same
<1> QED
  BY <1>4, <1>5, <1>6

\* A query that passes the guard is known by what the guard made of it.
LEMMA PassesKeeps ==
    ASSUME PipelineInv, q.step = "guard", Accepted(q.text)
    PROVE  QuestionInv(Passes(q)) /\ Follows(q, Passes(q))
<1> DEFINE r == Passes(q)
<1>1. /\ QuestionInv(q) /\ DOMAIN q = Fields /\ q.raised = Null /\ q.id \in Questions
      /\ q.safe = Null /\ q.ran = Null /\ q.result = Null /\ q.planned = FALSE
      /\ q.text \in Queries
  BY DEF PipelineInv, QuestionInv, Staged, Guarded, Early
<1>2. /\ DOMAIN r = Fields /\ r.step = "sql_checks" /\ r.safe = EnforceLimit(q.text)
      /\ r.id = q.id /\ r.text = q.text /\ r.raised = Null /\ r.planned = FALSE
      /\ r.ran = Null /\ r.result = Null
  BY <1>1, PassesSame
<1>3. EnforceLimit(q.text) # Null
  BY <1>1, EnforceBounds
<1> HIDE DEF r
<1>4. Staged(r)
  BY <1>1, <1>2, <1>3 DEF Staged, Steps, Early
<1>5. Guarded(r)
  BY <1>1, <1>2, <1>3 DEF Guarded
<1>6. StateOf(q) = "working" /\ StateOf(r) = "working"
  BY <1>2 DEF StateOf
<1>7. QuestionInv(r) /\ Follows(q, r)
  BY <1>1, <1>2, <1>4, <1>5, <1>6 DEF QuestionInv, Follows
<1> QED
  BY <1>7 DEF r

\* The first look of the guard.
LEMMA GuardKeeps ==
    ASSUME PipelineInv, Guard
    PROVE  QuestionInv(q') /\ Follows(q, q')
<1>1. q.step = "guard" /\ q.step \in Working
  BY DEF Guard, At, Working, Steps
<1>2. CASE Accepted(q.text)
  <2>1. q' = Passes(q)
    BY <1>2 DEF Guard, Does
  <2> QED
    BY <1>1, <1>2, <2>1, PassesKeeps
<1>3. CASE ~Accepted(q.text)
  <2>1. q' = Enter(Rejected(q), "sql_repair")
    BY <1>3 DEF Guard, Does
  <2>2. Same(Rejected(q), q) /\ Rejected(q).raised = Null /\ DOMAIN Rejected(q) = Fields
    BY <1>1, AtWork, RejectedSame DEF Same
  <2>3. Same(q', Rejected(q)) /\ q'.step = "sql_repair" /\ q'.raised = Null
    BY <2>1, <2>2, EnterSame
  <2>4. Same(q', q)
    BY <2>2, <2>3, SameTwice
  <2>5. q.safe = Null /\ q.id \in Questions /\ q.text \in Queries
    BY <1>1 DEF PipelineInv, QuestionInv, Staged, Early
  <2>6. Staged(q')
    BY <2>3, <2>4, <2>5 DEF Staged, Same, Steps, Early
  <2> QED
    BY <1>1, <2>3, <2>4, <2>6, AtWork, StageKeeps DEF Working, Steps
<1> QED
  BY <1>2, <1>3

\* A repaired query goes back to the guard.
LEMMA RepairKeeps ==
    ASSUME PipelineInv, Repair
    PROVE  QuestionInv(q') /\ Follows(q, q')
<1>1. q.step = "sql_repair" /\ q.step \in Working /\ call.phase = "replied"
  BY DEF Repair, Answered, Working, Steps
<1>2. q.safe = Null /\ q.ran = Null /\ q.id \in Questions
  BY <1>1 DEF PipelineInv, QuestionInv, Staged, Guarded, Early
<1>3. call.reply \in Queries \cup {Refusal, Malformed}
  BY <1>1, <1>2, QuestionAssumption DEF PipelineInv, CallInv, SqlStages
<1>4. CASE call.reply \in {Refusal, Malformed}
  <2>1. q' = Fails(Returned, "AnswerError", "sql_repair")
    BY <1>4 DEF Repair, Ended
  <2>2. "AnswerError" \in Classes /\ "sql_repair" \in Steps
    BY DEF Classes, Steps
  <2> QED
    BY <1>1, <1>2, <2>1, <2>2, AtWork, FailsKeeps
<1>5. CASE call.reply \notin {Refusal, Malformed}
  <2>1. q' = [Returned EXCEPT !.text = call.reply, !.step = "guard"]
    BY <1>5 DEF Repair, Ended
  <2>2. Same(Returned, q) /\ Returned.raised = Null /\ DOMAIN Returned = Fields
    BY <1>1, AtWork DEF Same
  <2>3. /\ DOMAIN q' = Fields /\ q'.step = "guard" /\ q'.text = call.reply /\ q'.raised = Null
        /\ q'.id = q.id /\ q'.safe = q.safe /\ q'.planned = q.planned
        /\ q'.ran = q.ran /\ q'.result = q.result
    BY <2>1, <2>2 DEF Same, Fields
  <2> QED
    BY <1>1, <1>3, <1>5, <2>3, GuardedNext
<1> QED
  BY <1>4, <1>5

\* The second look of the guard passes the query or ends the answer.
LEMMA GuardAgainKeeps ==
    ASSUME PipelineInv, GuardAgain
    PROVE  QuestionInv(q') /\ Follows(q, q')
<1>1. q.step = "guard" /\ q.step \in Working
  BY DEF GuardAgain, At, Working, Steps
<1>2. CASE Accepted(q.text)
  <2>1. q' = Passes(q)
    BY <1>2 DEF GuardAgain, Does
  <2> QED
    BY <1>1, <1>2, <2>1, PassesKeeps
<1>3. CASE ~Accepted(q.text)
  <2> DEFINE cause == Exception("UnsafeQueryError", "guard", Null)
             e == Exception("AnswerError", "guard", cause)
  <2>1. q' = Ends(Rejected(q), e)
    BY <1>3 DEF GuardAgain, Does
  <2>2. cause \in RootExceptions
    BY RaisedSomething DEF Classes, Steps
  <2> HIDE DEF cause
  <2>3. e # Null /\ e.class = "AnswerError"
    BY <2>2, RaisedSomething DEF Classes, Steps
  <2> HIDE DEF e
  <2>4. Same(Rejected(q), q) /\ DOMAIN Rejected(q) = Fields
    BY <1>1, AtWork, RejectedSame DEF Same
  <2>5. Same(q', Rejected(q)) /\ q'.step = "done" /\ q'.raised = e
    BY <2>1, <2>4, EndsSame
  <2>6. Same(q', q)
    BY <2>4, <2>5, SameTwice
  <2>7. q.id \in Questions /\ q.ran = Null
    BY <1>1 DEF PipelineInv, QuestionInv, Staged, Guarded, Early
  <2>8. Staged(q')
    BY <2>5, <2>6, <2>7 DEF Staged, Same, Steps, Early
  <2> QED
    BY <1>1, <2>3, <2>5, <2>6, <2>7, <2>8, AtWork, StageKeeps
<1> QED
  BY <1>2, <1>3

\* What is known of a query that passed the guard.
LEMMA SafeQuery ==
    ASSUME QuestionInv(q), q.safe # Null
    PROVE  /\ q.text \in Queries /\ Accepted(q.text)
           /\ q.safe \in Queries /\ q.safe = EnforceLimit(q.text)
           /\ Accepted(q.safe) /\ q.safe.limit \in 0..MaxRows
BY EnforceBounds DEF QuestionInv, Guarded

\* The plan is compared with the ceiling, or cannot be had.
LEMMA CheckSqlKeeps ==
    ASSUME PipelineInv, CheckSql
    PROVE  QuestionInv(q') /\ Follows(q, q')
<1>1. q.step = "sql_checks" /\ q.step \in Working
  BY DEF CheckSql, At, Working, Steps
<1>2. /\ QuestionInv(q) /\ DOMAIN q = Fields /\ q.raised = Null
      /\ q.safe # Null /\ q.ran = Null /\ q.id \in Questions
  BY <1>1, AtWork DEF QuestionInv, Staged
<1>3. CASE q' = Enter(q, "execute")
  <2>1. Same(q', q) /\ q'.step = "execute" /\ q'.raised = Null
    BY <1>2, <1>3, EnterSame
  <2>2. Staged(q')
    BY <1>2, <2>1 DEF Staged, Same, Steps, Early
  <2> QED
    BY <1>1, <1>2, <2>1, <2>2, StageKeeps DEF Working, Steps
<1>4. CASE q' = Fails(q, "QueryTooExpensiveError", "sql_checks")
  <2>1. "QueryTooExpensiveError" \in Classes /\ "sql_checks" \in Steps
    BY DEF Classes, Steps
  <2> QED
    BY <1>1, <1>2, <1>4, <2>1, AtWork, FailsKeeps
<1>5. CASE ~(Ceiling # Null /\ q.safe.cost > Ceiling) /\ q' = Enter([q EXCEPT !.planned = TRUE], "execute")
  <2> DEFINE t == [q EXCEPT !.planned = TRUE]
  <2>1. /\ DOMAIN t = Fields /\ t.planned = TRUE /\ t.raised = Null
        /\ t.id = q.id /\ t.text = q.text /\ t.safe = q.safe /\ t.ran = q.ran
        /\ t.result = q.result
    BY <1>2 DEF Fields
  <2>2. q' = Enter(t, "execute")
    BY <1>5
  <2> HIDE DEF t
  <2>3. Same(q', t) /\ q'.step = "execute" /\ q'.raised = Null
    BY <2>1, <2>2, EnterSame
  <2>4. q.safe.cost \in Nat /\ Ceiling \in Nat \cup {Null}
    BY <1>2, SafeQuery, PolicyAssumption DEF Queries, Ceiling
  <2>5. Ceiling # Null => q.safe.cost <= Ceiling
    BY <1>5, <2>4
  <2>6. Guarded(q')
    BY <1>2, <2>1, <2>3, <2>5 DEF QuestionInv, Guarded, Same
  <2>7. Staged(q')
    BY <1>2, <2>1, <2>3 DEF Staged, Same, Steps, Early
  <2>8. StateOf(q) = "working" /\ StateOf(q') = "working"
    BY <1>1, <2>3 DEF StateOf
  <2> QED
    BY <2>1, <2>3, <2>6, <2>7, <2>8 DEF QuestionInv, Follows, Same
<1> QED
  BY <1>3, <1>4, <1>5 DEF CheckSql, Does

\* What is executed is what passed the guard.
LEMMA ExecuteKeeps ==
    ASSUME PipelineInv, Execute
    PROVE  QuestionInv(q') /\ Follows(q, q')
<1> DEFINE posed == [q EXCEPT !.ran = q.safe]
           result == ResultOf(q.safe)
           read == [posed EXCEPT !.result = result]
           broken == [posed EXCEPT !.broken = TRUE]
<1>1. q.step = "execute" /\ q.step \in Working
  BY DEF Execute, At, Working, Steps
<1>2. /\ QuestionInv(q) /\ DOMAIN q = Fields /\ q.raised = Null
      /\ q.safe # Null /\ q.ran = Null /\ q.id \in Questions
  BY <1>1, AtWork DEF QuestionInv, Staged
<1>3. /\ DOMAIN read = Fields /\ read.raised = Null /\ read.id = q.id /\ read.text = q.text
      /\ read.safe = q.safe /\ read.planned = q.planned /\ read.ran = q.safe
      /\ read.result = result
  BY <1>2 DEF Fields
<1>4. /\ DOMAIN broken = Fields /\ broken.id = q.id /\ broken.text = q.text
      /\ broken.safe = q.safe /\ broken.planned = q.planned /\ broken.ran = q.safe
      /\ broken.result = q.result
  BY <1>2 DEF Fields
<1>5. \/ q' = DataAnswer(read)
      \/ q' = Enter(read, "narration")
      \/ q' = Fails(broken, "QueryExecutionError", "execute")
  BY DEF Execute, Does
<1>6. Guarded(read) /\ Guarded(broken)
  BY <1>2, <1>3, <1>4 DEF QuestionInv, Guarded
<1> HIDE DEF read, broken, result
<1>7. StateOf(q) = "working"
  BY <1>1 DEF StateOf
<1>8. CASE q' = DataAnswer(read)
  <2>1. Same(q', read) /\ q'.raised = Null /\ q'.step = "done" /\ q'.answer.route = "data"
    BY <1>3, <1>8, DataAnswerSame
  <2>2. Guarded(q') /\ DOMAIN q' = Fields
    BY <1>6, <2>1, SameGuarded DEF Same
  <2>3. Staged(q')
    BY <1>2, <1>3, <2>1 DEF Staged, Same, Steps, Early
  <2>4. StateOf(q') = "data" /\ q'.ran = q.safe
    BY <1>3, <2>1 DEF StateOf, Same
  <2> QED
    BY <1>2, <1>7, <2>2, <2>3, <2>4 DEF QuestionInv, Follows
<1>9. CASE q' = Enter(read, "narration")
  <2>1. Same(q', read) /\ q'.raised = Null /\ q'.step = "narration"
    BY <1>3, <1>9, EnterSame
  <2>2. Guarded(q') /\ DOMAIN q' = Fields
    BY <1>6, <2>1, SameGuarded DEF Same
  <2>3. Staged(q')
    BY <1>2, <1>3, <2>1 DEF Staged, Same, Steps, Early
  <2>4. StateOf(q') = "working" /\ q'.ran = q.safe
    BY <1>3, <2>1 DEF StateOf, Same
  <2> QED
    BY <1>2, <1>7, <2>2, <2>3, <2>4 DEF QuestionInv, Follows
<1>10. CASE q' = Fails(broken, "QueryExecutionError", "execute")
  <2> DEFINE e == Exception("QueryExecutionError", "execute", Null)
  <2>1. e # Null /\ e.class = "QueryExecutionError"
    BY RaisedSomething DEF Classes, Steps
  <2> HIDE DEF e
  <2>2. Same(q', broken) /\ q'.step = "done" /\ q'.raised = e
    BY <1>4, <1>10, FailsSame DEF e
  <2>3. Guarded(q') /\ DOMAIN q' = Fields
    BY <1>6, <2>2, SameGuarded DEF Same
  <2>4. Staged(q')
    BY <1>2, <1>4, <2>2 DEF Staged, Same, Steps, Early
  <2>5. StateOf(q') = "fault" /\ q'.ran = q.safe
    BY <1>4, <2>1, <2>2 DEF StateOf, Same, AnswerErrors
  <2> QED
    BY <1>2, <1>7, <2>3, <2>4, <2>5 DEF QuestionInv, Follows
<1> QED
  BY <1>5, <1>8, <1>9, <1>10

\* The prose of a data answer.
LEMMA NarrateKeeps ==
    ASSUME PipelineInv, Narrate
    PROVE  QuestionInv(q') /\ Follows(q, q')
<1>1. q.step = "narration" /\ q.step \in Working /\ q' = DataAnswer(Returned)
  BY DEF Narrate, Answered, Ended, Working, Steps
<1>2. QuestionInv(q) /\ q.ran # Null /\ q.id \in Questions
  BY <1>1, AtWork DEF QuestionInv, Staged
<1>3. Same(Returned, q) /\ Returned.raised = Null /\ DOMAIN Returned = Fields
  BY <1>1, AtWork DEF Same
<1>4. /\ Same(q', Returned) /\ q'.raised = Null
      /\ q'.step = "done" /\ q'.answer.route = "data"
  BY <1>1, <1>3, DataAnswerSame
<1>5. Same(q', q)
  BY <1>3, <1>4, SameTwice
<1>6. Staged(q')
  BY <1>2, <1>4, <1>5 DEF Staged, Same, Steps, Early
<1> QED
  BY <1>1, <1>2, <1>4, <1>5, <1>6, StageKeeps

\* The prose of a conceptual answer.
LEMMA AnswerConceptualKeeps ==
    ASSUME PipelineInv, AnswerConceptual
    PROVE  QuestionInv(q') /\ Follows(q, q')
<1>1. q.step = "conceptual_answer" /\ q.step \in Working
  BY DEF AnswerConceptual, Answered, Working, Steps
<1>2. QuestionInv(q) /\ q.ran = Null /\ q.id \in Questions
  BY <1>1, AtWork DEF QuestionInv, Staged, Guarded
<1>3. Same(Returned, q) /\ Returned.raised = Null /\ DOMAIN Returned = Fields
  BY <1>1, AtWork DEF Same
<1>4. /\ Same(q', Returned) /\ q'.raised = Null
      /\ q'.step = "done" /\ q'.answer.route = "conceptual"
  BY <1>3 DEF AnswerConceptual, Ended, Same, Fields
<1>5. Same(q', q)
  BY <1>3, <1>4, SameTwice
<1>6. Staged(q')
  BY <1>2, <1>4, <1>5 DEF Staged, Same, Steps, Early
<1> QED
  BY <1>1, <1>2, <1>4, <1>5, <1>6, StageKeeps

\* A call that raises ends the answer in the span of its stage.
LEMMA CallFailsKeeps ==
    ASSUME PipelineInv, CallFails
    PROVE  QuestionInv(q') /\ Follows(q, q')
<1>1. /\ call.phase = "failed" /\ q.step \in CallStages
      /\ call.error \in {"BudgetExhausted", "ProviderError"}
  BY DEF CallFails, PipelineInv, CallInv
<1>2. q.step \in Working /\ q.step \in Steps
  BY <1>1 DEF Working, Steps, CallStages
<1> DEFINE t == [Returned EXCEPT !.broken = TRUE]
<1>3. q' = Fails(t, call.error, q.step)
  BY DEF CallFails, Ended
<1>4. Same(Returned, q)
  BY <1>2, AtWork
<1>5. Same(t, Returned)
  BY <1>4 DEF Same, Fields
<1> HIDE DEF t
<1>6. Same(t, q)
  BY <1>4, <1>5, SameTwice
<1>7. QuestionInv(q)
  BY <1>2, AtWork
<1>8. call.error \in Classes /\ call.error \notin AnswerErrors
  BY <1>1 DEF Classes, AnswerErrors
<1> QED
  BY <1>2, <1>3, <1>6, <1>7, <1>8, FailsKeeps

-----------------------------------------------------------------------------
(* The pipeline as a whole                                                 *)

\* A step of a stage that is not a step of its call.
StageStep ==
    \/ Retrieve \/ RouteLexically \/ RouteByModel \/ RouteByDefault
    \/ GenerateSql \/ Guard \/ Repair \/ GuardAgain \/ CheckSql
    \/ Execute \/ Narrate \/ AnswerConceptual \/ CallFails

\* The stages together.
LEMMA StageStepKeeps ==
    ASSUME PipelineInv, StageStep
    PROVE  QuestionInv(q') /\ Follows(q, q') /\ q.step \in Working
<1>1. QuestionInv(q') /\ Follows(q, q')
  BY RetrieveKeeps, RouteKeeps, GenerateSqlKeeps, GuardKeeps, RepairKeeps, GuardAgainKeeps,
     CheckSqlKeeps, ExecuteKeeps, NarrateKeeps, AnswerConceptualKeeps, CallFailsKeeps DEF StageStep
<1>2. call.phase # "none" => q.step \in CallStages
  BY DEF PipelineInv, CallInv
<1>3. q.step \in Working
  BY <1>2 DEF StageStep, Retrieve, RouteLexically, RouteByModel, RouteByDefault, GenerateSql, Guard,
     Repair, GuardAgain, CheckSql, Execute, Narrate, AnswerConceptual, CallFails,
     At, Answered, Working, Steps, CallStages
<1> QED
  BY <1>1, <1>3

\* After a stage's step the generator holds no call, and nothing else of it moved.
LEMMA StageStepCalls ==
    ASSUME StageStep
    PROVE  /\ call' = NoCall \/ (call' = call /\ call.phase = "none")
           /\ setting' = setting /\ stored' = stored
BY DEF StageStep, Retrieve, RouteLexically, RouteByModel, RouteByDefault, GenerateSql, Guard,
   Repair, GuardAgain, CheckSql, Execute, Narrate, AnswerConceptual, CallFails,
   At, Does, Ended, gvars

\* A question that is left, answered or not.
LEMMA FreshKeeps == QuestionInv(Fresh) /\ StateOf(Fresh) = "idle" /\ Fresh.ran = Null
BY DEF QuestionInv, Staged, Guarded, Fresh, Fields, Steps, Early, StateOf

\* A call under way is that of the stage the question is at, step by step.
LEMMA CallStepKeeps ==
    ASSUME PipelineInv, Calls \/ (CallSteps /\ UNCHANGED q)
    PROVE  CallInv' /\ StoredInv' /\ q' = q /\ setting' = setting
<1>1. CASE Calls
  <2>1. /\ q' = q /\ stored' = stored /\ setting' = setting
        /\ q.step \in CallStages /\ call' = [NoCall EXCEPT !.prompt = Prompt(q), !.phase = call'.phase]
        /\ call'.phase \in {"look", "reserve", "send"}
    BY <1>1 DEF Calls, Generate, NoCall, CallStages
  <2>2. DOMAIN call' = CallFields /\ call'.prompt = Prompt(q)
    BY <2>1 DEF NoCall, CallFields
  <2>3. Prompt(q') = Prompt(q)
    BY <2>1
  <2>4. CallInv'
    BY <2>1, <2>2, <2>3 DEF CallInv
  <2> QED
    BY <2>1, <2>4 DEF PipelineInv, StoredInv
<1>2. CASE CallSteps /\ UNCHANGED q
  <2>1. /\ CallInv /\ StoredInv /\ q' = q /\ setting' = setting /\ call.phase # "none"
        /\ q.step \in CallStages /\ call.prompt = Prompt(q) /\ DOMAIN call = CallFields
    BY <1>2 DEF CallSteps, Look, Reserve, Charge, Request, Keep, PipelineInv, CallInv
  <2>2. Prompt(q).stage = q.step /\ Prompt(q).id = q.id /\ Prompt(q') = Prompt(q)
    BY <2>1 DEF Prompt
  <2>3. q.step \in SqlStages => Menu(q) = Question[q.id].queries
    BY DEF Menu, SqlStages
  <2>4. CASE Look
    <3>1. /\ stored' = stored
          /\ \/ /\ call.prompt \in DOMAIN stored
                /\ call' = [call EXCEPT !.phase = "replied", !.reply = stored[call.prompt]]
             \/ call' = [call EXCEPT !.phase = "reserve"]
      BY <2>4 DEF Look
    <3>2. q.step \in SqlStages /\ call.prompt \in DOMAIN stored =>
                stored[call.prompt] \in Question[q.id].queries
      BY <2>1, <2>2 DEF StoredInv
    <3>3. CallInv'
      BY <2>1, <2>2, <3>1, <3>2 DEF CallInv, CallFields
    <3> QED
      BY <2>1, <3>1, <3>3 DEF StoredInv
  <2>5. CASE Reserve \/ Charge
    <3>1. stored' = stored /\ CallInv'
      BY <2>1, <2>2, <2>5 DEF CallInv, CallFields, Reserve, Charge
    <3> QED
      BY <2>1, <3>1 DEF StoredInv
  <2>6. CASE Request(Menu(q))
    <3>1. /\ stored' = stored
          /\ DOMAIN call' = CallFields /\ call'.prompt = call.prompt
          /\ \/ call'.phase \in {"keep", "replied"} /\ call'.reply \in Menu(q)
             \/ call'.phase = "send"
             \/ call'.phase = "failed" /\ call'.error = "ProviderError"
      BY <2>1, <2>6 DEF Request, Replied, Raised, CallFields
    <3>2. CallInv'
      BY <2>1, <2>2, <2>3, <3>1 DEF CallInv
    <3> QED
      BY <2>1, <3>1, <3>2 DEF StoredInv
  <2>7. CASE Keep
    <3>1. /\ call.phase = "keep" /\ call' = [call EXCEPT !.phase = "replied"]
          /\ stored' = [p \in DOMAIN stored \cup {call.prompt} |->
                          IF p = call.prompt THEN call.reply ELSE stored[p]]
      BY <2>7 DEF Keep
    <3>2. CallInv'
      BY <2>1, <2>2, <3>1 DEF CallInv, CallFields
    <3>3. q.step \in SqlStages => call.reply \in Question[q.id].queries
      BY <2>1, <3>1 DEF CallInv
    <3>4. StoredInv'
      BY <2>1, <2>2, <3>1, <3>3 DEF StoredInv
    <3> QED
      BY <2>1, <3>2, <3>4
  <2> QED
    BY <1>2, <2>4, <2>5, <2>6, <2>7 DEF CallSteps
<1> QED
  BY <1>1, <1>2

\* Nothing of the question or of its call moves.
LEMMA StillKeeps ==
    ASSUME PipelineInv, q' = q, call' = call, stored' = stored, setting' = setting, HostInv'
    PROVE  PipelineInv' /\ Follows(q, q')
<1>1. QuestionInv(q)' /\ CallInv' /\ StoredInv'
  BY DEF PipelineInv, QuestionInv, Staged, Guarded, CallInv, StoredInv, Ceiling, Prompt
<1>2. Follows(q, q')
  BY DEF Follows
<1> QED
  BY <1>1, <1>2 DEF PipelineInv

\* The question in hand becomes another, or none, and no call is under way.
LEMMA TurnKeeps ==
    ASSUME PipelineInv, QuestionInv(q'), setting' = setting, stored' = stored,
           call' = NoCall \/ (call' = call /\ call.phase = "none"), HostInv'
    PROVE  PipelineInv'
<1>1. QuestionInv(q)'
  BY DEF QuestionInv, Staged, Guarded, Ceiling
<1>2. CallInv'
  BY DEF PipelineInv, CallInv, NoCall, CallFields
<1>3. StoredInv'
  BY DEF PipelineInv, StoredInv
<1> QED
  BY <1>1, <1>2, <1>3 DEF PipelineInv

\* The server and the eval command are never both at work.
LEMMA OneHost ==
    ASSUME PipelineInv
    PROVE  /\ setting \in Settings /\ (server = "up" => session.pc = "off")
           /\ \A i \in DOMAIN setting.cases : setting.cases[i] \in Questions
           /\ session.pc = "append" => q.step = "done"
           /\ q.step = "done" => call.phase = "none"
BY SettingAssumption DEF PipelineInv, HostInv, CallInv, CallStages

\* The server's own steps.
LEMMA ServeKeeps ==
    ASSUME PipelineInv, Serve
    PROVE  PipelineInv' /\ Follows(q, q')
<1>1. CASE StartUp /\ UNCHANGED rvars
  <2>1. HostInv'
    BY <1>1 DEF StartUp, PipelineInv, HostInv, gvars, rvars
  <2> QED
    BY <1>1, <2>1, StillKeeps DEF StartUp, gvars
<1>2. ASSUME NEW x \in Range(setting.cases), PostAsk(x), UNCHANGED rvars
      PROVE  PipelineInv' /\ Follows(q, q')
  <2>1. x \in Questions
    BY OneHost DEF Range
  <2>2. QuestionInv(q') /\ Follows(q, q') /\ call.phase = "none"
    BY <1>2, <2>1, AskKeeps DEF PostAsk
  <2>3. setting' = setting /\ stored' = stored /\ call' = call
    BY <1>2 DEF PostAsk, Ask, Does, gvars
  <2>4. HostInv'
    BY <1>2, <2>3, OneHost DEF PostAsk, PipelineInv, HostInv, rvars
  <2> QED
    BY <2>2, <2>3, <2>4, TurnKeeps
<1>3. CASE Respond /\ UNCHANGED rvars
  <2>1. q' = Fresh /\ setting' = setting /\ stored' = stored /\ call' = call /\ call.phase = "none"
    BY <1>3, OneHost DEF Respond, gvars
  <2>2. HostInv'
    BY <1>3, <2>1, OneHost DEF Respond, PipelineInv, HostInv, rvars
  <2> QED
    BY <2>1, <2>2, FreshKeeps, TurnKeeps DEF Follows
<1> QED
  BY <1>1, <1>2, <1>3 DEF Serve

\* The evaluation's own steps, deaths included.
LEMMA EvaluateKeeps ==
    ASSUME PipelineInv, Evaluate, UNCHANGED svars
    PROVE  PipelineInv' /\ Follows(q, q')
<1> USE DEF svars
<1>1. CASE Begin \/ Abort \/ LoadReferences \/ Build \/ Report
  <2>1. q' = q /\ call' = call /\ stored' = stored /\ setting' = setting
    BY <1>1 DEF Begin, Abort, LoadReferences, Build, Report, gvars
  <2>2. session'.pc # "off" => setting.host = "eval"
    BY <1>1 DEF Begin, Abort, LoadReferences, Build, Report, Goto, NoSession, PipelineInv, HostInv
  <2>3. session'.pc # "append" /\ "pc" \in DOMAIN session'
    <3>1. CASE Begin \/ Abort
      <4>1. session' \in {NoSession, [NoSession EXCEPT !.pc = "references", !.began = tail]}
        BY <3>1 DEF Begin, Abort
      <4>2. NoSession.pc = "off" /\ DOMAIN NoSession = {"pc", "skip", "began", "stopped", "verdict"}
        BY DEF NoSession
      <4> QED
        BY <4>1, <4>2
    <3>2. CASE LoadReferences \/ Build \/ Report
      BY <3>2 DEF LoadReferences, Build, Report, Goto, PipelineInv, HostInv
    <3> QED
      BY <1>1, <3>1, <3>2
  <2>4. HostInv'
    BY <2>1, <2>2, <2>3 DEF PipelineInv, HostInv
  <2> QED
    BY <2>1, <2>4, StillKeeps
<1>2. CASE NextCase
  <2>1. PICK i \in Pending : Ask(setting.cases[i])
    BY <1>2 DEF NextCase
  <2>2. setting.cases[i] \in Questions
    BY OneHost DEF Pending
  <2>3. QuestionInv(q') /\ Follows(q, q') /\ call.phase = "none"
    BY <2>1, <2>2, AskKeeps
  <2>4. setting' = setting /\ stored' = stored /\ call' = call
    BY <2>1 DEF Ask, Does, gvars
  <2>5. HostInv'
    BY <1>2, <2>4 DEF NextCase, PipelineInv, HostInv, rvars
  <2> QED
    BY <2>3, <2>4, <2>5, TurnKeeps
<1>3. CASE Settle \/ Record
  <2>1. /\ q.step = "done" /\ call.phase = "none" /\ session.pc # "off"
        /\ setting' = setting /\ stored' = stored /\ call' = call /\ q' \in {q, Fresh}
    BY <1>3, OneHost DEF Settle, Record, gvars
  <2>2. (session'.pc = "append" => q' = q) /\ "pc" \in DOMAIN session'
    BY <1>3 DEF Settle, Record, PipelineInv, HostInv
  <2>3. HostInv'
    BY <2>1, <2>2 DEF PipelineInv, HostInv
  <2>4. CASE q' = q
    BY <2>1, <2>3, <2>4, StillKeeps
  <2>5. CASE q' = Fresh
    BY <2>1, <2>3, <2>5, FreshKeeps, TurnKeeps DEF Follows
  <2> QED
    BY <2>1, <2>4, <2>5
<1>4. CASE Crash \/ CrashInAppend
  <2>1. /\ q' = Fresh /\ call' = NoCall /\ session' = NoSession
        /\ setting' = setting /\ stored' = stored
    BY <1>4 DEF Crash, CrashInAppend, Dies
  <2>2. HostInv'
    BY <1>4, <2>1 DEF PipelineInv, HostInv, NoSession, Crash, CrashInAppend, Dies
  <2> QED
    BY <2>1, <2>2, FreshKeeps, TurnKeeps DEF Follows
<1> QED
  BY <1>1, <1>2, <1>3, <1>4 DEF Evaluate, SessionStep

\* The steps of a question in hand.
LEMMA AnswerStepKeeps ==
    ASSUME PipelineInv, AnswerStep, UNCHANGED <<svars, rvars>>
    PROVE  PipelineInv' /\ Follows(q, q')
<1> USE DEF svars, rvars
<1>1. CASE StageStep
  <2>1. QuestionInv(q') /\ Follows(q, q') /\ q.step \in Working
    BY <1>1, StageStepKeeps
  <2>2. /\ call' = NoCall \/ (call' = call /\ call.phase = "none")
        /\ setting' = setting /\ stored' = stored
    BY <1>1, StageStepCalls
  <2>3. HostInv'
    BY <2>1, <2>2 DEF PipelineInv, HostInv, Working
  <2> QED
    BY <2>1, <2>2, <2>3, TurnKeeps
<1>2. CASE Calls \/ (CallSteps /\ UNCHANGED q)
  <2>1. CallInv' /\ StoredInv' /\ q' = q /\ setting' = setting
    BY <1>2, CallStepKeeps
  <2>2. HostInv' /\ QuestionInv(q)'
    BY <2>1 DEF PipelineInv, HostInv, QuestionInv, Staged, Guarded, Ceiling
  <2> QED
    BY <2>1, <2>2 DEF PipelineInv, Follows
<1> QED
  BY <1>1, <1>2 DEF AnswerStep, StageStep

\* Every step keeps the invariant, and is one Answering allows or none.
LEMMA StepKeeps ==
    ASSUME PipelineInv, [Next]_vars
    PROVE  PipelineInv' /\ Follows(q, q')
<1>1. CASE DayTurns /\ UNCHANGED <<svars, rvars>>
  <2>1. q' = q /\ call' = call /\ stored' = stored /\ setting' = setting
    BY <1>1 DEF DayTurns, Midnight
  <2>2. HostInv'
    BY <1>1, <2>1 DEF PipelineInv, HostInv, svars, rvars
  <2> QED
    BY <2>1, <2>2, StillKeeps
<1>2. CASE UNCHANGED vars
  <2>1. HostInv'
    BY <1>2 DEF PipelineInv, HostInv, vars, gvars, svars, rvars
  <2> QED
    BY <1>2, <2>1, StillKeeps DEF vars, gvars
<1> QED
  BY <1>1, <1>2, ServeKeeps, EvaluateKeeps, AnswerStepKeeps DEF Next

-----------------------------------------------------------------------------
(* The theorems                                                            *)

\* PipelineInv is inductive.
THEOREM PipelineHolds == Spec => []PipelineInv
<1>1. PipelineInv /\ [Next]_vars => PipelineInv'
  BY StepKeeps
<1> QED
  BY PipelineInit, <1>1, PTL DEF Spec

\* Whatever the model writes, only what the guard let through is executed, with
\* the limit the guard gave it: rag/pipeline.py, _validate_with_retry and _guard.
THEOREM GuardHolds == Spec => []OnlyGuardedExecutes
<1>1. PipelineInv => OnlyGuardedExecutes
  BY DEF PipelineInv, QuestionInv, Guarded, OnlyGuardedExecutes
<1> QED
  BY <1>1, PipelineHolds, PTL

\* A result that shows fewer rows than the query asked for is marked truncated:
\* sql/executor.py compares with the cap that sql/guard.py enforced.
THEOREM CapHolds == Spec => []CappedIsFlagged
<1>1. PipelineInv => CappedIsFlagged
  <2> SUFFICES ASSUME PipelineInv, q.result # Null, Len(q.result.rows) < Len(RowsOf(q.text))
               PROVE  q.result.truncated
    BY DEF CappedIsFlagged
  <2> DEFINE t == q.text
             s == q.safe
  <2>1. t \in Queries /\ s = EnforceLimit(t) /\ s \in Queries /\ q.result = ResultOf(s)
    BY SafeQuery DEF PipelineInv, QuestionInv, Guarded
  <2>2. t.matches \in Seq(Seq(Values)) /\ MaxRows \in Nat
    BY <2>1, PolicyAssumption DEF Queries
  <2>3. s # t
    BY <2>1 DEF ResultOf
  <2>4. s.limit = MaxRows /\ s.matches = t.matches
    BY <2>1, <2>3 DEF EnforceLimit, Queries
  <2> HIDE DEF s, t
  <2>5. RowsOf(s) = IF MaxRows < Len(t.matches) THEN SubSeq(t.matches, 1, MaxRows) ELSE t.matches
    BY <2>2, <2>4 DEF RowsOf
  <2>6. Len(RowsOf(t)) <= Len(t.matches)
    BY <2>1, <2>2 DEF RowsOf, Queries
  <2>7. Len(RowsOf(s)) < Len(RowsOf(t))
    BY <2>1 DEF ResultOf, t
  <2>8. MaxRows < Len(t.matches) /\ Len(RowsOf(s)) = MaxRows
    BY <2>2, <2>5, <2>6, <2>7
  <2>9. Len(RowsOf(s)) >= MaxRows
    BY <2>2, <2>8
  <2> QED
    <3>1. q.result = [rows |-> RowsOf(s), truncated |-> TRUE]
      BY <2>1, <2>9 DEF ResultOf
    <3> QED
      BY <3>1
<1> QED
  BY <1>1, PipelineHolds, PTL

\* A step that Follows is a step of Answering.
LEMMA FollowsAllowed ==
    ASSUME PipelineInv, Follows(q, q')
    PROVE  [Contract!ANext]_Contract!avars
<1>1. q.safe # Null => Contract!Bounded(q.safe)
  <2>1. q.safe # Null => Accepted(q.safe) /\ q.safe.limit \in 0..MaxRows
    BY SafeQuery DEF PipelineInv
  <2> QED
    BY <2>1 DEF Contract!Bounded, Contract!Accepted, Contract!ReferencedTables,
       Contract!ForbiddenNodes, Contract!DefaultSchema,
       Accepted, ReferencedTables, ForbiddenNodes, DefaultSchema
<1> QED
  BY <1>1 DEF Follows, Contract!ANext, Contract!Asked, Contract!Executed, Contract!Closed,
     Contract!Left, Contract!avars

\* Every way a question can go is one Answering allows: rag/pipeline.py, answer,
\* with the generator, the router, the guard and the executor it calls.
THEOREM ContractHolds == Spec => KeepsContract
<1>1. Init => Contract!AInit
  BY DEF Init, Fresh, StateOf, Contract!AInit
<1>2. PipelineInv /\ [Next]_vars => [Contract!ANext]_Contract!avars
  BY StepKeeps, FollowsAllowed
<1> QED
  BY <1>1, <1>2, PipelineHolds, PTL DEF Spec, KeepsContract, Contract!ASpec

-----------------------------------------------------------------------------
(* The trace names the span a failure started in                           *)

\* What a span notes is what was first raised in it.
Recorded(r) ==
    \A n \in r.noted : n.exc \in RootExceptions /\ n.span = n.exc.at /\ n.span \in r.spans

\* The stage at work has a span; a query is repaired after the guard refused it.
Entered(r) ==
    /\ r.step \in Working => r.step \in r.spans
    /\ r.step = "sql_repair" => "guard" \in r.spans

\* What ends an answer starts in no span, or it was noted, or what it is raised from was.
Named(r) ==
    r.raised # Null =>
        \/ r.raised.at = Null /\ r.noted = {}
        \/ /\ r.raised.at \in r.spans
           /\ \E n \in r.noted : (n.exc = r.raised \/ n.exc = r.raised.cause) /\ n.span = r.raised.at

TraceInv(r) == Recorded(r) /\ Entered(r) /\ Named(r)

\* What is known of a question's trace while a stage acts on it.
LEMMA TraceAtWork ==
    ASSUME PipelineInv, TraceInv(q), q.step \in Working
    PROVE  /\ DOMAIN q = Fields /\ q.raised = Null /\ q.step \in q.spans
           /\ DOMAIN Returned = Fields /\ Returned.raised = Null /\ Returned.step = q.step
           /\ Returned.noted = q.noted /\ Returned.spans = q.spans
           /\ Recorded(q) /\ Recorded(Returned)
<1>1. DOMAIN q = Fields /\ q.raised = Null
  BY AtWork
<1> QED
  BY <1>1 DEF Returned, TraceInv, Recorded, Entered, Fields

-----------------------------------------------------------------------------
(* What the helpers of a stage make of a trace                             *)

\* A record that goes on has a trace as long as its stage has a span.
LEMMA GoesOn ==
    ASSUME NEW r, Recorded(r), r.raised = Null, r.step = "done" \/ r.step \in r.spans,
           r.step # "sql_repair" \/ "guard" \in r.spans
    PROVE  TraceInv(r)
BY DEF TraceInv, Entered, Named, Working

\* A stage that is entered has its span.
LEMMA EnterTrace ==
    ASSUME NEW r, DOMAIN r = Fields, Recorded(r), r.raised = Null, NEW s,
           s # "sql_repair" \/ "guard" \in r.spans
    PROVE  TraceInv(Enter(r, s))
<1>1. /\ Enter(r, s).step = s /\ Enter(r, s).noted = r.noted /\ Enter(r, s).raised = Null
      /\ Enter(r, s).spans = r.spans \cup {s}
  BY DEF Enter, Fields
<1> HIDE DEF Enter
<1>2. Recorded(Enter(r, s))
  BY <1>1 DEF Recorded
<1> QED
  BY <1>1, <1>2, GoesOn

\* What fails in a span is noted with it.
LEMMA FailsTrace ==
    ASSUME NEW r, DOMAIN r = Fields, Recorded(r), NEW class \in Classes,
           NEW span \in Steps, span \in r.spans
    PROVE  TraceInv(Fails(r, class, span))
<1> DEFINE e == Exception(class, span, Null)
           f == Fails(r, class, span)
           n == [exc |-> e, span |-> span]
<1>1. e \in RootExceptions /\ e.at = span
  BY DEF Exception, RootExceptions
<1>2. /\ f.step = "done" /\ f.raised = e /\ f.noted = r.noted \cup {n}
      /\ f.spans = r.spans
  BY DEF Fails, Ends, Noting, Fields
<1>3. n.exc = e /\ n.span = span
  OBVIOUS
<1> HIDE DEF e, f, n
<1>4. Recorded(f)
  BY <1>1, <1>2, <1>3 DEF Recorded
<1>5. Named(f)
  BY <1>1, <1>2, <1>3 DEF Named
<1> QED
  BY <1>2, <1>4, <1>5 DEF TraceInv, Entered, Working, f

\* The way to a conceptual answer notes nothing.
LEMMA ConceptualTrace ==
    ASSUME NEW r, DOMAIN r = Fields, Recorded(r), r.raised = Null
    PROVE  TraceInv(Conceptual(r))
<1>1. CASE setting.narrate
  BY <1>1, EnterTrace DEF Conceptual
<1>2. CASE ~setting.narrate
  <2> DEFINE c == [r EXCEPT !.step = "done",
                            !.answer = [route |-> "conceptual", sources |-> r.sources.all]]
  <2>1. c.step = "done" /\ c.noted = r.noted /\ c.spans = r.spans /\ c.raised = Null
    BY DEF Fields
  <2> HIDE DEF c
  <2> QED
    BY <1>2, <2>1, GoesOn DEF Conceptual, Recorded, c
<1> QED
  BY <1>1, <1>2

\* Neither does the routing.
LEMMA DecideTrace ==
    ASSUME NEW r, DOMAIN r = Fields, Recorded(r), r.raised = Null, NEW route
    PROVE  TraceInv(Decide(r, route))
<1> DEFINE d == [r EXCEPT !.decided = route]
<1>1. DOMAIN d = Fields /\ d.noted = r.noted /\ d.spans = r.spans /\ d.raised = Null
  BY DEF Fields
<1> HIDE DEF d
<1>2. Recorded(d)
  BY <1>1 DEF Recorded
<1> QED
  BY <1>1, <1>2, ConceptualTrace, EnterTrace DEF Decide, d

\* A rejection is noted in the guard's span.
LEMMA RejectedTrace ==
    ASSUME NEW r, DOMAIN r = Fields, Recorded(r), "guard" \in r.spans
    PROVE  /\ DOMAIN Rejected(r) = Fields /\ Recorded(Rejected(r))
           /\ Rejected(r).spans = r.spans /\ Rejected(r).raised = r.raised
           /\ \E n \in Rejected(r).noted :
                 n.exc = Exception("UnsafeQueryError", "guard", Null) /\ n.span = "guard"
<1> DEFINE e == Exception("UnsafeQueryError", "guard", Null)
           n == [exc |-> e, span |-> "guard"]
           j == Rejected(r)
<1>1. e \in RootExceptions /\ e.at = "guard"
  BY DEF Exception, RootExceptions, Classes, Steps
<1>2. /\ DOMAIN j = Fields /\ j.noted = r.noted \cup {n} /\ j.spans = r.spans
      /\ j.raised = r.raised
  BY DEF Rejected, Noting, Fields
<1>3. n.exc = e /\ n.span = "guard"
  OBVIOUS
<1> HIDE DEF e, n, j
<1>4. Recorded(j)
  BY <1>1, <1>2, <1>3 DEF Recorded
<1> QED
  BY <1>2, <1>3, <1>4 DEF e, j

\* A query that passes notes nothing.
LEMMA PassesTrace ==
    ASSUME NEW r, DOMAIN r = Fields, Recorded(r), r.raised = Null
    PROVE  TraceInv(Passes(r))
<1> DEFINE p == [r EXCEPT !.safe = EnforceLimit(r.text)]
<1>1. DOMAIN p = Fields /\ p.noted = r.noted /\ p.spans = r.spans /\ p.raised = Null
  BY DEF Fields
<1> HIDE DEF p
<1>2. Recorded(p)
  BY <1>1 DEF Recorded
<1> QED
  BY <1>1, <1>2, EnterTrace DEF Passes, p

\* Nor does a data answer.
LEMMA DataAnswerTrace ==
    ASSUME NEW r, DOMAIN r = Fields, Recorded(r), r.raised = Null
    PROVE  TraceInv(DataAnswer(r))
<1>1. /\ DataAnswer(r).step = "done" /\ DataAnswer(r).noted = r.noted
      /\ DataAnswer(r).spans = r.spans /\ DataAnswer(r).raised = Null
  BY DEF DataAnswer, Fields
<1> HIDE DEF DataAnswer
<1> QED
  BY <1>1, GoesOn DEF Recorded

-----------------------------------------------------------------------------
(* What each stage makes of it                                             *)

\* t differs from r in nothing the trace is about.
Alike(t, r) ==
    DOMAIN t = Fields /\ t.noted = r.noted /\ t.spans = r.spans /\ t.raised = r.raised

\* What is recorded does not depend on the rest of the record.
LEMMA AlikeRecorded ==
    ASSUME NEW t, NEW r, Alike(t, r), Recorded(r)
    PROVE  DOMAIN t = Fields /\ Recorded(t) /\ t.raised = r.raised /\ t.spans = r.spans
BY DEF Alike, Recorded

\* A blank question ends before any span.
LEMMA AskTrace ==
    ASSUME NEW x, Ask(x) PROVE TraceInv(q')
<1> DEFINE asked == [Fresh EXCEPT !.id = x]
           e == Exception("AnswerError", Null, Null)
<1>1. DOMAIN asked = Fields /\ asked.noted = {} /\ asked.raised = Null
  BY DEF Fresh, Fields
<1>2. Recorded(asked)
  BY <1>1 DEF Recorded
<1>3. e.at = Null
  BY DEF Exception
<1>4. q' = Ends(asked, e) \/ q' = Enter(asked, "retrieve")
  BY DEF Ask, Does
<1> HIDE DEF asked, e
<1>5. CASE q' = Ends(asked, e)
  <2>1. q'.step = "done" /\ q'.raised = e /\ q'.noted = {}
    BY <1>1, <1>5 DEF Ends, Fields
  <2> QED
    BY <1>3, <2>1 DEF TraceInv, Recorded, Entered, Named, Working
<1>6. CASE q' = Enter(asked, "retrieve")
  BY <1>1, <1>2, <1>6, EnterTrace
<1> QED
  BY <1>4, <1>5, <1>6

\* Retrieval, found or failed.
LEMMA RetrieveTrace ==
    ASSUME PipelineInv, TraceInv(q), Retrieve PROVE TraceInv(q')
<1>1. q.step = "retrieve" /\ q.step \in Working /\ q.step \in Steps
  BY DEF Retrieve, At, Working, Steps
<1>2. CASE \E found : q' = Enter([q EXCEPT !.sources = found], "route")
  <2>1. PICK found : q' = Enter([q EXCEPT !.sources = found], "route")
    BY <1>2
  <2>2. Alike([q EXCEPT !.sources = found], q)
    BY <1>1, TraceAtWork DEF Alike, Fields
  <2> QED
    BY <1>1, <2>1, <2>2, TraceAtWork, AlikeRecorded, EnterTrace
<1>3. CASE \E class \in Classes : q' = Fails([q EXCEPT !.broken = TRUE], class, "retrieve")
  <2>1. Alike([q EXCEPT !.broken = TRUE], q)
    BY <1>1, TraceAtWork DEF Alike, Fields
  <2> QED
    BY <1>1, <1>3, <2>1, TraceAtWork, AlikeRecorded, FailsTrace
<1> QED
  BY <1>2, <1>3 DEF Retrieve, Does, Classes

\* The three ways a route is decided.
LEMMA RouteTrace ==
    ASSUME PipelineInv, TraceInv(q), RouteLexically \/ RouteByModel \/ RouteByDefault
    PROVE  TraceInv(q')
<1>1. q.step \in Working
  BY DEF RouteLexically, RouteByModel, RouteByDefault, At, Answered, Working, Steps
<1>2. \E t \in {q, Returned} : \E route : q' = Decide(t, route)
  BY DEF RouteLexically, RouteByModel, RouteByDefault, Does, Ended
<1> QED
  BY <1>1, <1>2, TraceAtWork, DecideTrace

\* The three kinds of reply extract_sql tells apart.
LEMMA GenerateSqlTrace ==
    ASSUME PipelineInv, TraceInv(q), GenerateSql PROVE TraceInv(q')
<1>1. q.step = "sql_generation" /\ q.step \in Working /\ q.step \in Steps
  BY DEF GenerateSql, Answered, Working, Steps
<1> DEFINE t == [Returned EXCEPT !.text = call.reply]
<1>2. Alike(t, Returned)
  BY <1>1, TraceAtWork DEF Alike, Fields
<1>3. \/ q' = Conceptual(Returned)
      \/ q' = Fails(Returned, "AnswerError", "sql_generation")
      \/ q' = Enter(t, "guard")
  BY DEF GenerateSql, Ended
<1> HIDE DEF t
<1>4. CASE q' = Conceptual(Returned)
  BY <1>1, <1>4, TraceAtWork, ConceptualTrace
<1>5. CASE q' = Fails(Returned, "AnswerError", "sql_generation")
  <2>1. "AnswerError" \in Classes
    BY DEF Classes
  <2> QED
    BY <1>1, <1>5, <2>1, TraceAtWork, FailsTrace
<1>6. CASE q' = Enter(t, "guard")
  BY <1>1, <1>2, <1>6, TraceAtWork, AlikeRecorded, EnterTrace
<1> QED
  BY <1>3, <1>4, <1>5, <1>6

\* The second rejection is raised from the one that the guard's span noted.
LEMMA GuardTrace ==
    ASSUME PipelineInv, TraceInv(q), Guard \/ GuardAgain PROVE TraceInv(q')
<1>1. q.step = "guard" /\ q.step \in Working
  BY DEF Guard, GuardAgain, At, Working, Steps
<1> DEFINE e == Exception("UnsafeQueryError", "guard", Null)
           last == Exception("AnswerError", "guard", e)
<1>2. \/ q' = Passes(q)
      \/ q' = Enter(Rejected(q), "sql_repair")
      \/ q' = Ends(Rejected(q), last)
  BY DEF Guard, GuardAgain, Does
<1>3. /\ DOMAIN q = Fields /\ Recorded(q) /\ q.raised = Null /\ "guard" \in q.spans
  BY <1>1, TraceAtWork
<1>4. /\ DOMAIN Rejected(q) = Fields /\ Recorded(Rejected(q))
      /\ Rejected(q).spans = q.spans /\ Rejected(q).raised = Null
      /\ \E n \in Rejected(q).noted : n.exc = e /\ n.span = "guard"
  BY <1>3, RejectedTrace
<1>5. last.at = "guard" /\ last.cause = e
  BY DEF Exception
<1> HIDE DEF e, last
<1>6. CASE q' = Passes(q)
  BY <1>3, <1>6, PassesTrace
<1>7. CASE q' = Enter(Rejected(q), "sql_repair")
  BY <1>3, <1>4, <1>7, EnterTrace
<1>8. CASE q' = Ends(Rejected(q), last)
  <2>1. /\ q'.step = "done" /\ q'.raised = last /\ q'.noted = Rejected(q).noted
        /\ q'.spans = q.spans
    BY <1>4, <1>8 DEF Ends, Fields
  <2>2. Recorded(q')
    BY <1>4, <2>1 DEF Recorded
  <2>3. Named(q')
    BY <1>3, <1>4, <1>5, <2>1 DEF Named
  <2> QED
    BY <2>1, <2>2, <2>3 DEF TraceInv, Entered, Working
<1> QED
  BY <1>2, <1>6, <1>7, <1>8

\* A repaired query goes back into the guard's span.
LEMMA RepairTrace ==
    ASSUME PipelineInv, TraceInv(q), Repair PROVE TraceInv(q')
<1>1. q.step = "sql_repair" /\ q.step \in Working /\ q.step \in Steps
  BY DEF Repair, Answered, Working, Steps
<1> DEFINE t == [Returned EXCEPT !.text = call.reply, !.step = "guard"]
<1>2. q' = Fails(Returned, "AnswerError", "sql_repair") \/ q' = t
  BY DEF Repair, Ended
<1>3. CASE q' = Fails(Returned, "AnswerError", "sql_repair")
  <2>1. "AnswerError" \in Classes
    BY DEF Classes
  <2> QED
    BY <1>1, <1>3, <2>1, TraceAtWork, FailsTrace
<1>4. CASE q' = t
  <2>1. Alike(t, Returned) /\ t.step = "guard"
    BY <1>1, TraceAtWork DEF Alike, Fields
  <2>2. "guard" \in q.spans
    BY <1>1 DEF TraceInv, Entered
  <2> HIDE DEF t
  <2> QED
    BY <1>1, <1>4, <2>1, <2>2, TraceAtWork, AlikeRecorded, GoesOn
<1> QED
  BY <1>2, <1>3, <1>4

\* A query that is too expensive fails in the span of the checks.
LEMMA CheckSqlTrace ==
    ASSUME PipelineInv, TraceInv(q), CheckSql PROVE TraceInv(q')
<1>1. q.step = "sql_checks" /\ q.step \in Working /\ q.step \in Steps
  BY DEF CheckSql, At, Working, Steps
<1> DEFINE t == [q EXCEPT !.planned = TRUE]
<1>2. Alike(t, q)
  BY <1>1, TraceAtWork DEF Alike, Fields
<1>3. \/ q' = Enter(q, "execute") \/ q' = Enter(t, "execute")
      \/ q' = Fails(q, "QueryTooExpensiveError", "sql_checks")
  BY DEF CheckSql, Does
<1>4. "QueryTooExpensiveError" \in Classes
  BY DEF Classes
<1> HIDE DEF t
<1> QED
  BY <1>1, <1>2, <1>3, <1>4, TraceAtWork, AlikeRecorded, EnterTrace, FailsTrace

\* A query that fails does so in the span of its execution.
LEMMA ExecuteTrace ==
    ASSUME PipelineInv, TraceInv(q), Execute PROVE TraceInv(q')
<1>1. q.step = "execute" /\ q.step \in Working /\ q.step \in Steps
  BY DEF Execute, At, Working, Steps
<1> DEFINE posed == [q EXCEPT !.ran = q.safe]
           read == [posed EXCEPT !.result = ResultOf(q.safe)]
           broken == [posed EXCEPT !.broken = TRUE]
<1>2. Alike(read, q) /\ Alike(broken, q)
  BY <1>1, TraceAtWork DEF Alike, Fields
<1>3. \/ q' = DataAnswer(read) \/ q' = Enter(read, "narration")
      \/ q' = Fails(broken, "QueryExecutionError", "execute")
  BY DEF Execute, Does
<1>4. "QueryExecutionError" \in Classes
  BY DEF Classes
<1> HIDE DEF read, broken
<1>5. CASE q' = DataAnswer(read)
  BY <1>1, <1>2, <1>5, TraceAtWork, AlikeRecorded, DataAnswerTrace
<1>6. CASE q' = Enter(read, "narration")
  BY <1>1, <1>2, <1>6, TraceAtWork, AlikeRecorded, EnterTrace
<1>7. CASE q' = Fails(broken, "QueryExecutionError", "execute")
  BY <1>1, <1>2, <1>4, <1>7, TraceAtWork, AlikeRecorded, FailsTrace
<1> QED
  BY <1>3, <1>5, <1>6, <1>7

\* The two kinds of prose.
LEMMA ProseTrace ==
    ASSUME PipelineInv, TraceInv(q), Narrate \/ AnswerConceptual PROVE TraceInv(q')
<1>1. q.step \in Working
  BY DEF Narrate, AnswerConceptual, Answered, Working, Steps
<1> DEFINE t == [Returned EXCEPT !.step = "done",
                                 !.answer = [route |-> "conceptual", sources |-> q.sources.all]]
<1>2. q' = DataAnswer(Returned) \/ q' = t
  BY DEF Narrate, AnswerConceptual, Ended
<1>3. Alike(t, Returned) /\ t.step = "done"
  BY <1>1, TraceAtWork DEF Alike, Fields
<1> HIDE DEF t
<1> QED
  BY <1>1, <1>2, <1>3, TraceAtWork, AlikeRecorded, GoesOn, DataAnswerTrace

\* A call that raises does so in the span of its stage.
LEMMA CallFailsTrace ==
    ASSUME PipelineInv, TraceInv(q), CallFails PROVE TraceInv(q')
<1>1. /\ q.step \in Working /\ q.step \in Steps /\ call.error \in Classes
  BY DEF CallFails, PipelineInv, CallInv, CallStages, Working, Steps, Classes
<1> DEFINE t == [Returned EXCEPT !.broken = TRUE]
<1>2. q' = Fails(t, call.error, q.step)
  BY DEF CallFails, Ended
<1>3. Alike(t, Returned)
  BY <1>1, TraceAtWork DEF Alike, Fields
<1> HIDE DEF t
<1> QED
  BY <1>1, <1>2, <1>3, TraceAtWork, AlikeRecorded, FailsTrace

-----------------------------------------------------------------------------
(* The pipeline as a whole                                                 *)

\* A question that is left has nothing in its trace.
LEMMA FreshTrace == TraceInv(Fresh)
BY DEF TraceInv, Recorded, Entered, Named, Working, Fresh

\* Every step keeps what is noted, the server's and the evaluation's included.
LEMMA StepTraces ==
    ASSUME PipelineInv, TraceInv(q), [Next]_vars PROVE TraceInv(q')
<1>1. CASE Serve
  <2>1. q' = q \/ (\E x : Ask(x)) \/ q' = Fresh
    BY <1>1 DEF Serve, StartUp, PostAsk, Respond
  <2> QED
    BY <2>1, AskTrace, FreshTrace
<1>2. CASE Evaluate
  <2>1. q' = q \/ (\E x : Ask(x)) \/ q' = Fresh
    BY <1>2 DEF Evaluate, SessionStep, Begin, LoadReferences, Abort, Build, NextCase, Settle,
       Record, Report, Crash, CrashInAppend, Dies
  <2> QED
    BY <2>1, AskTrace, FreshTrace
<1>3. CASE AnswerStep
  <2>1. q' = q \/ StageStep
    BY <1>3 DEF AnswerStep, StageStep, Calls
  <2>2. CASE StageStep
    BY <2>2, RetrieveTrace, RouteTrace, GenerateSqlTrace, GuardTrace, RepairTrace, CheckSqlTrace,
       ExecuteTrace, ProseTrace, CallFailsTrace DEF StageStep
  <2> QED
    BY <2>1, <2>2
<1>4. CASE DayTurns \/ UNCHANGED vars
  BY <1>4 DEF DayTurns, vars
<1> QED
  BY <1>1, <1>2, <1>3, <1>4 DEF Next

\* An exception that ends an answer is traced to the span it started in, also when
\* another one was raised from it (observability/trace.py, error_span).
LEMMA TraceNames ==
    ASSUME PipelineInv, TraceInv(q) PROVE TraceNamesFailure
<1> SUFFICES ASSUME q.raised # Null
             PROVE  /\ FailingSpan(q) = q.raised.at
                    /\ q.raised.at # Null => q.raised.at \in q.spans
  BY DEF TraceNamesFailure
<1>1. CASE q.raised.at = Null /\ q.noted = {}
  BY <1>1 DEF FailingSpan
<1>2. CASE /\ q.raised.at \in q.spans
           /\ \E n \in q.noted : (n.exc = q.raised \/ n.exc = q.raised.cause) /\ n.span = q.raised.at
  <2> DEFINE noted(e) == {n \in q.noted : n.exc = e}
  <2>1. \A e : \A n \in noted(e) : n.span = e.at
    BY DEF TraceInv, Recorded
  <2>2. ASSUME noted(q.raised) # {} PROVE FailingSpan(q) = q.raised.at
    BY <2>1, <2>2 DEF FailingSpan
  <2>3. ASSUME noted(q.raised) = {} PROVE FailingSpan(q) = q.raised.at
    <3>1. PICK n \in q.noted : n.exc = q.raised.cause /\ n.span = q.raised.at
      BY <1>2, <2>3
    <3>2. \A m \in noted(q.raised.cause) : m.span = q.raised.at
      BY <2>1, <3>1
    <3> QED
      BY <2>3, <3>1, <3>2 DEF FailingSpan
  <2> QED
    BY <1>2, <2>2, <2>3
<1> QED
  BY <1>1, <1>2 DEF TraceInv, Named

\* What is known of the trace in hand.
Traced == TraceInv(q)

\* The trace keeps what is noted, whoever acts.
LEMMA TracesHold == Spec => []Traced
<1>1. Init => Traced
  BY FreshTrace DEF Init, Traced
<1>2. PipelineInv /\ Traced /\ [Next]_vars => Traced'
  <2> SUFFICES ASSUME PipelineInv, TraceInv(q), [Next]_vars PROVE Traced'
    BY DEF Traced
  <2>1. TraceInv(q')
    BY StepTraces
  <2> QED
    BY <2>1 DEF Traced, TraceInv, Recorded, Entered, Named
<1> QED
  BY <1>1, <1>2, PipelineHolds, PTL DEF Spec

\* Whatever ends an answer, its trace names the span the failure started in
\* (observability/trace.py, Trace.error_span).
THEOREM TraceHolds == Spec => []TraceNamesFailure
<1>1. PipelineInv /\ Traced => TraceNamesFailure
  BY TraceNames DEF Traced
<1> QED
  BY <1>1, TracesHold, PipelineHolds, PTL

-----------------------------------------------------------------------------
(* What the trace says of the route, of what was executed and shown        *)

SqlWork == {"sql_generation", "guard", "sql_repair", "sql_checks", "execute", "narration"}

\* A route is decided before the SQL or the prose, and an answer is on one.
Routed(r) ==
    /\ r.decided \in {Null, "data", "conceptual"}
    /\ r.step \in {"idle", "retrieve", "route"} => r.decided = Null
    /\ r.step \in SqlWork => r.decided = "data"
    /\ r.step = "conceptual_answer" \/ r.answer # Null => r.decided # Null
    /\ r.step = "done" => r.answer # Null \/ r.raised # Null

\* Only an exhausted budget leaves the router without a route.
Spanned(r) ==
    /\ r.decided # Null => "route" \in r.spans
    /\ r.decided = Null /\ "route" \in r.spans =>
            r.step = "route" \/ (r.raised # Null /\ r.raised.class = "BudgetExhausted")
    /\ "sql_generation" \in r.spans <=> r.decided = "data"
    /\ "execute" \in r.spans <=> r.step = "execute" \/ r.ran # Null

\* What is shown was found.
Shown(r) ==
    /\ r.step \in Working \ {"retrieve"} => r.sources \in Question[r.id].finds
    /\ r.step # "done" => r.answer = Null
    /\ r.answer # Null =>
        /\ r.raised = Null /\ r.sources \in Question[r.id].finds
        /\ r.answer.sources \in {r.sources.all, r.sources.internal}

RouteInv(r) == Routed(r) /\ Spanned(r) /\ Shown(r)

\* r has the route, the sources and the query of s, and these spans more.
Keeps(r, s, more) ==
    /\ DOMAIN r = Fields
    /\ r.id = s.id /\ r.decided = s.decided /\ r.sources = s.sources /\ r.ran = s.ran
    /\ r.spans = s.spans \cup more

\* What the helpers of a stage keep.
LEMMA EnterKeepsRoute ==
    ASSUME NEW r, DOMAIN r = Fields, NEW s
    PROVE  /\ Keeps(Enter(r, s), r, {s}) /\ Enter(r, s).step = s
           /\ Enter(r, s).answer = r.answer /\ Enter(r, s).raised = r.raised
BY DEF Enter, Keeps, Fields

\* An exception ends the answer and leaves the rest.
LEMMA FailsKeepsRoute ==
    ASSUME NEW r, DOMAIN r = Fields, NEW class \in Classes, NEW span \in Steps
    PROVE  /\ Keeps(Fails(r, class, span), r, {}) /\ Fails(r, class, span).step = "done"
           /\ Fails(r, class, span).answer = r.answer
           /\ Fails(r, class, span).raised # Null /\ Fails(r, class, span).raised.class = class
<1> DEFINE e == Exception(class, span, Null)
<1>1. e # Null /\ e.class = class
  BY RaisedSomething
<1> HIDE DEF e
<1> QED
  BY <1>1 DEF Fails, Ends, Noting, Keeps, Fields, e

\* What is known of the route while a stage acts on a question.
LEMMA RouteAtWork ==
    ASSUME PipelineInv, RouteInv(q), q.step \in Working
    PROVE  /\ DOMAIN q = Fields /\ q.raised = Null /\ q.answer = Null
           /\ Keeps(Returned, q, {}) /\ Returned.step = q.step
           /\ Returned.raised = Null /\ Returned.answer = Null
<1>1. DOMAIN q = Fields /\ q.raised = Null
  BY AtWork
<1> QED
  BY <1>1 DEF Returned, RouteInv, Shown, Working, Keeps, Fields

\* No route is not a route.
LEMMA Unrouted == Null \notin {"data", "conceptual"}
BY QuestionAssumption

\* What a stage that keeps a decided route goes on to, or fails with.
LEMMA RouteGoesOn ==
    ASSUME NEW s, RouteInv(s), s.step \in SqlWork \cup {"conceptual_answer"},
           s.step # "execute",
           NEW r, r.answer = Null, NEW more, Keeps(r, s, more), more \subseteq Steps \ {"route", "sql_generation"},
           "execute" \in more <=> r.step = "execute",
           \/ r.step = "conceptual_answer"
           \/ r.step \in SqlWork /\ r.decided = "data"
           \/ r.step = "done" /\ r.raised # Null
    PROVE  RouteInv(r)
<1>0. /\ s.decided \in {"data", "conceptual"} /\ s.decided # Null
      /\ s.decided = r.decided /\ s.ran = r.ran
  BY Unrouted DEF RouteInv, Routed, SqlWork, Keeps
<1>1. Routed(r)
  BY <1>0 DEF Routed, SqlWork
<1>2. Spanned(r)
  <2>1. /\ "route" \in r.spans
        /\ "sql_generation" \in r.spans <=> "sql_generation" \in s.spans
        /\ "execute" \in r.spans <=> "execute" \in s.spans \/ r.step = "execute"
    BY <1>0 DEF RouteInv, Spanned, Keeps
  <2> QED
    BY <1>0, <2>1 DEF RouteInv, Spanned
<1>3. Shown(r)
  BY DEF RouteInv, Shown, Keeps, SqlWork, Working, Steps
<1> QED
  BY <1>1, <1>2, <1>3 DEF RouteInv

\* On a route, with what was found, and with nothing shown yet.
OnRoute(r) ==
    /\ DOMAIN r = Fields /\ r.id \in Questions /\ r.sources \in Question[r.id].finds
    /\ r.raised = Null /\ r.answer = Null /\ r.decided \in {"data", "conceptual"}
    /\ "route" \in r.spans /\ ("sql_generation" \in r.spans <=> r.decided = "data")
    /\ "execute" \in r.spans <=> r.ran # Null

\* The way to a conceptual answer stays on the route that was decided.
LEMMA ConceptualRoutes ==
    ASSUME NEW r, OnRoute(r)
    PROVE  RouteInv(Conceptual(r))
<1> DEFINE a == [route |-> "conceptual", sources |-> r.sources.all]
           t == [r EXCEPT !.step = "done", !.answer = a]
<1>1. CASE setting.narrate
  <2> DEFINE e == Enter(r, "conceptual_answer")
  <2>1. /\ Keeps(e, r, {"conceptual_answer"}) /\ e.step = "conceptual_answer"
        /\ e.answer = Null /\ e.raised = Null
    BY EnterKeepsRoute DEF OnRoute
  <2> HIDE DEF e
  <2>2. Routed(e)
    BY <2>1, Unrouted DEF OnRoute, Keeps, Routed, SqlWork
  <2>3. Spanned(e)
    BY <2>1, Unrouted DEF OnRoute, Keeps, Spanned
  <2>4. Shown(e)
    BY <2>1 DEF OnRoute, Keeps, Shown
  <2> QED
    BY <1>1, <2>2, <2>3, <2>4 DEF RouteInv, Conceptual, e
<1>2. CASE ~setting.narrate
  <2>1. /\ Keeps(t, r, {}) /\ t.step = "done" /\ t.answer = a /\ t.raised = Null
    BY DEF OnRoute, Keeps, Fields
  <2>2. a # Null /\ a.sources = r.sources.all
    BY QuestionAssumption DEF OnRoute
  <2> HIDE DEF t, a
  <2>3. Routed(t)
    BY <2>1, <2>2, Unrouted DEF OnRoute, Keeps, Routed, SqlWork
  <2>4. Spanned(t)
    BY <2>1, Unrouted DEF OnRoute, Keeps, Spanned
  <2>5. Shown(t)
    BY <2>1, <2>2 DEF OnRoute, Keeps, Shown, Working
  <2> QED
    BY <1>2, <2>3, <2>4, <2>5 DEF RouteInv, Conceptual, t, a
<1> QED
  BY <1>1, <1>2

\* So does the way to a data answer.
LEMMA DataAnswerRoutes ==
    ASSUME NEW r, OnRoute(r), r.decided = "data"
    PROVE  RouteInv(DataAnswer(r))
<1> DEFINE a == [route |-> "data", sources |-> r.sources.internal]
           t == [r EXCEPT !.step = "done", !.answer = a]
<1>1. Keeps(t, r, {}) /\ t.step = "done" /\ t.answer = a /\ t.raised = Null
  BY DEF OnRoute, Keeps, Fields
<1>2. a # Null /\ a.sources = r.sources.internal
  BY QuestionAssumption DEF OnRoute
<1> HIDE DEF t, a
<1>3. Routed(t)
  BY <1>1, <1>2, Unrouted DEF OnRoute, Keeps, Routed, SqlWork
<1>4. Spanned(t)
  BY <1>1, Unrouted DEF OnRoute, Keeps, Spanned
<1>5. Shown(t)
  BY <1>1, <1>2 DEF OnRoute, Keeps, Shown, Working
<1> QED
  BY <1>3, <1>4, <1>5 DEF RouteInv, DataAnswer, t, a

\* A blank question is on no route, and shows nothing.
LEMMA AskRoutes ==
    ASSUME NEW x, Ask(x) PROVE RouteInv(q')
<1> DEFINE asked == [Fresh EXCEPT !.id = x]
           e == Exception("AnswerError", Null, Null)
<1>1. /\ DOMAIN asked = Fields /\ asked.spans = {} /\ asked.raised = Null /\ asked.answer = Null
      /\ asked.decided = Null /\ asked.ran = Null
  BY DEF Fresh, Fields
<1>2. q' = Ends(asked, e) \/ q' = Enter(asked, "retrieve")
  BY DEF Ask, Does
<1>3. e # Null
  BY RaisedSomething DEF Classes
<1> HIDE DEF asked, e
<1>4. CASE q' = Ends(asked, e)
  <2>1. /\ q'.step = "done" /\ q'.raised = e /\ q'.spans = {} /\ q'.decided = Null
        /\ q'.ran = Null /\ q'.answer = Null
    BY <1>1, <1>4 DEF Ends, Fields
  <2> QED
    BY <1>3, <2>1, Unrouted DEF RouteInv, Routed, Spanned, Shown, Working, SqlWork
<1>5. CASE q' = Enter(asked, "retrieve")
  <2>1. /\ q'.step = "retrieve" /\ q'.spans = {"retrieve"} /\ q'.decided = Null
        /\ q'.ran = Null /\ q'.answer = Null
    BY <1>1, <1>5 DEF Enter, Fields
  <2> QED
    BY <2>1, Unrouted DEF RouteInv, Routed, Spanned, Shown, Working, SqlWork
<1> QED
  BY <1>2, <1>4, <1>5

\* Retrieval comes before the route.
LEMMA RetrieveRoutes ==
    ASSUME PipelineInv, RouteInv(q), Retrieve PROVE RouteInv(q')
<1>1. q.step = "retrieve" /\ q.step \in Working /\ q.step \in Steps
  BY DEF Retrieve, At, Working, Steps
<1>2. /\ q.decided = Null /\ "sql_generation" \notin q.spans /\ q.answer = Null
      /\ "route" \notin q.spans /\ ("execute" \in q.spans <=> q.ran # Null)
  BY <1>1, RouteAtWork, Unrouted DEF RouteInv, Routed, Spanned
<1>3. CASE \E found \in Question[q.id].finds : q' = Enter([q EXCEPT !.sources = found], "route")
  <2>1. PICK found \in Question[q.id].finds : q' = Enter([q EXCEPT !.sources = found], "route")
    BY <1>3
  <2>2. /\ q'.step = "route" /\ q'.spans = q.spans \cup {"route"} /\ q'.decided = Null
        /\ q'.ran = q.ran /\ q'.answer = Null /\ q'.id = q.id /\ q'.sources = found
    BY <1>1, <1>2, <2>1, RouteAtWork DEF Enter, Fields
  <2> QED
    BY <1>2, <2>2, Unrouted DEF RouteInv, Routed, Spanned, Shown, Working, SqlWork
<1>4. CASE \E class \in {"ProviderError", "DatabaseError"} :
              q' = Fails([q EXCEPT !.broken = TRUE], class, "retrieve")
  <2> DEFINE t == [q EXCEPT !.broken = TRUE]
  <2>1. Keeps(t, q, {}) /\ t.answer = Null
    BY <1>1, <1>2, RouteAtWork DEF Keeps, Fields
  <2>2. DOMAIN t = Fields
    BY <2>1 DEF Keeps
  <2>3. PICK class \in Classes : q' = Fails(t, class, "retrieve")
    BY <1>4 DEF Classes
  <2> HIDE DEF t
  <2>4. Keeps(q', t, {}) /\ q'.step = "done" /\ q'.answer = Null /\ q'.raised # Null
    BY <1>1, <2>1, <2>2, <2>3, FailsKeepsRoute
  <2> QED
    BY <1>2, <2>1, <2>4, Unrouted DEF RouteInv, Routed, Spanned, Shown, Working, SqlWork, Keeps
<1> QED
  BY <1>3, <1>4 DEF Retrieve, Does

\* The three ways a route is decided, whichever it is.
LEMMA RouteRoutes ==
    ASSUME PipelineInv, TraceInv(q), RouteInv(q), RouteLexically \/ RouteByModel \/ RouteByDefault
    PROVE  RouteInv(q')
<1>1. q.step = "route" /\ q.step \in Working
  BY DEF RouteLexically, RouteByModel, RouteByDefault, At, Answered, Working, Steps
<1>2. \E t \in {q, Returned} : \E route \in {"data", "conceptual"} : q' = Decide(t, route)
  <2>1. RouteLexically => \E route \in {"data", "conceptual"} : q' = Decide(q, route)
    BY DEF RouteLexically, Lexical, Does
  <2>2. RouteByModel \/ RouteByDefault =>
            \E route \in {"data", "conceptual"} : q' = Decide(Returned, route)
    BY DEF RouteByModel, RouteByDefault, DefaultRoute, Ended
  <2> QED
    BY <2>1, <2>2
<1>3. PICK t \in {q, Returned}, route \in {"data", "conceptual"} : q' = Decide(t, route)
  BY <1>2
<1>4. /\ DOMAIN t = Fields /\ t.raised = Null /\ t.answer = Null /\ t.id = q.id
      /\ t.sources = q.sources /\ t.ran = q.ran /\ t.spans = q.spans
  BY <1>1, RouteAtWork DEF Keeps
<1> DEFINE d == [t EXCEPT !.decided = route]
<1>5. /\ DOMAIN d = Fields /\ d.raised = Null /\ d.answer = Null /\ d.id = q.id
      /\ d.sources = q.sources /\ d.ran = q.ran /\ d.spans = q.spans /\ d.decided = route
  BY <1>4 DEF Fields
<1>6. /\ q.id \in Questions /\ q.sources \in Question[q.id].finds /\ "route" \in q.spans
      /\ "sql_generation" \notin q.spans /\ ("execute" \in q.spans <=> q.ran # Null)
  BY <1>1, Unrouted DEF RouteInv, Routed, Spanned, Shown, PipelineInv, QuestionInv, Staged,
     TraceInv, Entered
<1>7. q' = IF route = "conceptual" THEN Conceptual(d) ELSE Enter(d, "sql_generation")
  BY <1>3 DEF Decide, d
<1> HIDE DEF d
<1>8. CASE route = "conceptual"
  <2>1. OnRoute(d)
    BY <1>5, <1>6, <1>8 DEF OnRoute
  <2> QED
    BY <1>7, <1>8, <2>1, ConceptualRoutes
<1>9. CASE route = "data"
  <2>1. /\ Keeps(q', d, {"sql_generation"}) /\ q'.step = "sql_generation" /\ q'.answer = Null
    BY <1>5, <1>7, <1>9, EnterKeepsRoute
  <2> QED
    BY <1>5, <1>6, <1>9, <2>1, Unrouted
    DEF RouteInv, Routed, Spanned, Shown, Working, SqlWork, Keeps
<1> QED
  BY <1>8, <1>9

\* What is known on the SQL path, and in the prose.
LEMMA RouteAtSql ==
    ASSUME PipelineInv, RouteInv(q), q.step \in SqlWork \cup {"conceptual_answer"}
    PROVE  /\ q.step \in Working \ {"retrieve"} /\ q.id \in Questions
           /\ q.decided \in {"data", "conceptual"} /\ (q.step \in SqlWork => q.decided = "data")
           /\ (q.step # "execute" => OnRoute(Returned))
<1>1. q.step \in Working \ {"retrieve"}
  BY DEF SqlWork, Working, Steps
<1>2. q.id \in Questions
  BY <1>1 DEF PipelineInv, QuestionInv, Staged, Working
<1>4. q.decided \in {"data", "conceptual"} /\ (q.step \in SqlWork => q.decided = "data")
  BY Unrouted DEF RouteInv, Routed
<1>3. q.step # "execute" => OnRoute(Returned)
  BY <1>1, <1>2, <1>4, Unrouted, RouteAtWork DEF RouteInv, Spanned, Shown, OnRoute, Keeps
<1> QED
  BY <1>1, <1>2, <1>3, <1>4

\* The three kinds of reply extract_sql tells apart: a refusal leaves the route.
LEMMA GenerateSqlRoutes ==
    ASSUME PipelineInv, RouteInv(q), GenerateSql PROVE RouteInv(q')
<1>1. q.step = "sql_generation" /\ q.step \in SqlWork /\ q.step \in Working /\ q.step \in Steps
  BY DEF GenerateSql, Answered, SqlWork, Working, Steps
<1> DEFINE t == [Returned EXCEPT !.text = call.reply]
<1>2. Keeps(t, q, {}) /\ t.answer = Null /\ DOMAIN Returned = Fields
  BY <1>1, RouteAtWork DEF Keeps, Fields
<1>3. \/ q' = Conceptual(Returned)
      \/ q' = Fails(Returned, "AnswerError", "sql_generation")
      \/ q' = Enter(t, "guard")
  BY DEF GenerateSql, Ended
<1> HIDE DEF t
<1>4. CASE q' = Conceptual(Returned)
  BY <1>1, <1>4, RouteAtSql, ConceptualRoutes
<1>5. CASE q' = Fails(Returned, "AnswerError", "sql_generation")
  <2>1. Keeps(q', Returned, {}) /\ q'.step = "done" /\ q'.answer = Null /\ q'.raised # Null
    BY <1>1, <1>2, <1>5, RouteAtWork, FailsKeepsRoute DEF Classes
  <2>2. Keeps(q', q, {})
    BY <1>1, <2>1, RouteAtWork DEF Keeps
  <2> QED
    BY <1>1, <2>1, <2>2, RouteGoesOn
<1>6. CASE q' = Enter(t, "guard")
  <2>1. Keeps(q', t, {"guard"}) /\ q'.step = "guard" /\ q'.answer = Null
    BY <1>2, <1>6, EnterKeepsRoute DEF Keeps
  <2>2. Keeps(q', q, {"guard"}) /\ q'.decided = "data"
    BY <1>1, <1>2, <2>1, RouteAtSql DEF Keeps
  <2> QED
    BY <1>1, <2>1, <2>2, RouteGoesOn DEF SqlWork, Steps
<1> QED
  BY <1>3, <1>4, <1>5, <1>6

\* Both looks of the guard.
LEMMA GuardRoutes ==
    ASSUME PipelineInv, RouteInv(q), Guard \/ GuardAgain PROVE RouteInv(q')
<1>1. q.step = "guard" /\ q.step \in SqlWork /\ q.step \in Working
  BY DEF Guard, GuardAgain, At, SqlWork, Working, Steps
<1> DEFINE e == Exception("UnsafeQueryError", "guard", Null)
           last == Exception("AnswerError", "guard", e)
           passed == [q EXCEPT !.safe = EnforceLimit(q.text)]
           refused == Rejected(q)
<1>2. \/ q' = Enter(passed, "sql_checks")
      \/ q' = Enter(refused, "sql_repair")
      \/ q' = Ends(refused, last)
  BY DEF Guard, GuardAgain, Does, Passes
<1>3. q.decided = "data" /\ DOMAIN q = Fields /\ q.answer = Null
  BY <1>1, RouteAtSql, RouteAtWork
<1>4. Keeps(passed, q, {}) /\ passed.answer = Null
  BY <1>3 DEF Keeps, Fields
<1>5. Keeps(refused, q, {}) /\ refused.answer = Null
  BY <1>3 DEF Rejected, Noting, Keeps, Fields
<1>6. last # Null
  BY RaisedSomething DEF Classes, Steps
<1> HIDE DEF e, last, passed, refused
<1>7. CASE q' = Enter(passed, "sql_checks")
  <2>1. Keeps(q', passed, {"sql_checks"}) /\ q'.step = "sql_checks" /\ q'.answer = Null
    BY <1>4, <1>7, EnterKeepsRoute DEF Keeps
  <2>2. Keeps(q', q, {"sql_checks"}) /\ q'.decided = "data"
    BY <1>3, <1>4, <2>1 DEF Keeps
  <2> QED
    BY <1>1, <2>1, <2>2, RouteGoesOn DEF SqlWork, Steps
<1>8. CASE q' = Enter(refused, "sql_repair")
  <2>1. Keeps(q', refused, {"sql_repair"}) /\ q'.step = "sql_repair" /\ q'.answer = Null
    BY <1>5, <1>8, EnterKeepsRoute DEF Keeps
  <2>2. Keeps(q', q, {"sql_repair"}) /\ q'.decided = "data"
    BY <1>3, <1>5, <2>1 DEF Keeps
  <2> QED
    BY <1>1, <2>1, <2>2, RouteGoesOn DEF SqlWork, Steps
<1>9. CASE q' = Ends(refused, last)
  <2>1. Keeps(q', q, {}) /\ q'.step = "done" /\ q'.answer = Null /\ q'.raised # Null
    BY <1>5, <1>6, <1>9 DEF Ends, Keeps, Fields
  <2> QED
    BY <1>1, <2>1, RouteGoesOn
<1> QED
  BY <1>2, <1>7, <1>8, <1>9

\* A repaired query goes back to the guard.
LEMMA RepairRoutes ==
    ASSUME PipelineInv, RouteInv(q), Repair PROVE RouteInv(q')
<1>1. q.step = "sql_repair" /\ q.step \in SqlWork /\ q.step \in Working /\ q.step \in Steps
  BY DEF Repair, Answered, SqlWork, Working, Steps
<1> DEFINE t == [Returned EXCEPT !.text = call.reply, !.step = "guard"]
<1>2. q' = Fails(Returned, "AnswerError", "sql_repair") \/ q' = t
  BY DEF Repair, Ended
<1>3. DOMAIN Returned = Fields /\ q.decided = "data"
  BY <1>1, RouteAtWork, RouteAtSql DEF Keeps
<1>4. CASE q' = Fails(Returned, "AnswerError", "sql_repair")
  <2>1. Keeps(q', Returned, {}) /\ q'.step = "done" /\ q'.answer = Null /\ q'.raised # Null
    BY <1>1, <1>3, <1>4, RouteAtWork, FailsKeepsRoute DEF Classes
  <2>2. Keeps(q', q, {})
    BY <1>1, <2>1, RouteAtWork DEF Keeps
  <2> QED
    BY <1>1, <2>1, <2>2, RouteGoesOn
<1>5. CASE q' = t
  <2>1. Keeps(t, q, {}) /\ t.step = "guard" /\ t.answer = Null
    BY <1>1, <1>3, RouteAtWork DEF Keeps, Fields
  <2>2. t.decided = "data"
    BY <1>3, <2>1 DEF Keeps
  <2> HIDE DEF t
  <2> QED
    BY <1>1, <1>5, <2>1, <2>2, RouteGoesOn DEF SqlWork
<1> QED
  BY <1>2, <1>4, <1>5

\* The planner's look.
LEMMA CheckSqlRoutes ==
    ASSUME PipelineInv, RouteInv(q), CheckSql PROVE RouteInv(q')
<1>1. q.step = "sql_checks" /\ q.step \in SqlWork /\ q.step \in Working /\ q.step \in Steps
  BY DEF CheckSql, At, SqlWork, Working, Steps
<1>2. \/ q' = Fails(q, "QueryTooExpensiveError", "sql_checks")
      \/ \E t \in {q, [q EXCEPT !.planned = TRUE]} : q' = Enter(t, "execute")
  BY DEF CheckSql, Does
<1>3. q.decided = "data" /\ DOMAIN q = Fields /\ q.answer = Null
  BY <1>1, RouteAtSql, RouteAtWork
<1>4. CASE q' = Fails(q, "QueryTooExpensiveError", "sql_checks")
  <2>1. Keeps(q', q, {}) /\ q'.step = "done" /\ q'.answer = Null /\ q'.raised # Null
    BY <1>1, <1>3, <1>4, FailsKeepsRoute DEF Classes
  <2> QED
    BY <1>1, <2>1, RouteGoesOn
<1>5. CASE \E t \in {q, [q EXCEPT !.planned = TRUE]} : q' = Enter(t, "execute")
  <2>1. PICK t \in {q, [q EXCEPT !.planned = TRUE]} : q' = Enter(t, "execute")
    BY <1>5
  <2>2. Keeps(t, q, {}) /\ t.answer = Null
    BY <1>3 DEF Keeps, Fields
  <2>3. Keeps(q', t, {"execute"}) /\ q'.step = "execute" /\ q'.answer = Null
    BY <2>1, <2>2, EnterKeepsRoute DEF Keeps
  <2>4. Keeps(q', q, {"execute"}) /\ q'.decided = "data"
    BY <1>3, <2>2, <2>3 DEF Keeps
  <2> QED
    BY <1>1, <2>3, <2>4, RouteGoesOn DEF SqlWork, Steps
<1> QED
  BY <1>2, <1>4, <1>5

\* What is executed has a span, whether it fails or not.
LEMMA ExecuteRoutes ==
    ASSUME PipelineInv, RouteInv(q), Execute PROVE RouteInv(q')
<1>1. q.step = "execute" /\ q.step \in SqlWork /\ q.step \in Working \ {"retrieve"} /\ q.step \in Steps
  BY DEF Execute, At, SqlWork, Working, Steps
<1> DEFINE posed == [q EXCEPT !.ran = q.safe]
           read == [posed EXCEPT !.result = ResultOf(q.safe)]
           broken == [posed EXCEPT !.broken = TRUE]
<1>2. /\ q.decided = "data" /\ q.id \in Questions /\ DOMAIN q = Fields
      /\ q.raised = Null /\ q.answer = Null /\ q.safe # Null
  BY <1>1, RouteAtSql, RouteAtWork DEF PipelineInv, QuestionInv, Staged
<1>3. /\ q.sources \in Question[q.id].finds /\ {"route", "sql_generation", "execute"} \subseteq q.spans
  BY <1>1, <1>2, Unrouted DEF RouteInv, Spanned, Shown
<1>4. \A t \in {read, broken} :
          /\ DOMAIN t = Fields /\ t.id = q.id /\ t.decided = "data" /\ t.sources = q.sources
          /\ t.ran = q.safe /\ t.spans = q.spans /\ t.answer = Null /\ t.raised = Null
  BY <1>2 DEF Fields
<1>5. \/ q' = DataAnswer(read) \/ q' = Enter(read, "narration")
      \/ q' = Fails(broken, "QueryExecutionError", "execute")
  BY DEF Execute, Does
<1> HIDE DEF read, broken
<1>6. OnRoute(read) /\ read.decided = "data" /\ read.id = q.id /\ read.sources = q.sources
  BY <1>2, <1>3, <1>4 DEF OnRoute
<1>7. CASE q' = DataAnswer(read)
  BY <1>6, <1>7, DataAnswerRoutes
<1>8. CASE q' = Enter(read, "narration")
  <2>1. Keeps(q', read, {"narration"}) /\ q'.step = "narration" /\ q'.answer = Null
    BY <1>6, <1>8, EnterKeepsRoute DEF OnRoute
  <2> QED
    BY <1>2, <1>3, <1>4, <2>1, Unrouted DEF RouteInv, Routed, Spanned, Shown, SqlWork, Keeps
<1>9. CASE q' = Fails(broken, "QueryExecutionError", "execute")
  <2>1. Keeps(q', broken, {}) /\ q'.step = "done" /\ q'.answer = Null /\ q'.raised # Null
    BY <1>1, <1>4, <1>9, FailsKeepsRoute DEF Classes
  <2> QED
    BY <1>2, <1>3, <1>4, <2>1, Unrouted
    DEF RouteInv, Routed, Spanned, Shown, SqlWork, Keeps, Working
<1> QED
  BY <1>5, <1>7, <1>8, <1>9

\* The prose of an answer, of either kind.
LEMMA ProseRoutes ==
    ASSUME PipelineInv, RouteInv(q), Narrate \/ AnswerConceptual PROVE RouteInv(q')
<1>1. CASE Narrate
  <2>1. q.step = "narration" /\ q' = DataAnswer(Returned)
    BY <1>1 DEF Narrate, Answered, Ended
  <2>2. q.step \in SqlWork /\ q.step \in Working
    BY <2>1 DEF SqlWork, Working, Steps
  <2>3. OnRoute(Returned) /\ Returned.decided = "data"
    BY <2>1, <2>2, RouteAtSql, RouteAtWork DEF Keeps
  <2> QED
    BY <2>1, <2>3, DataAnswerRoutes
<1>2. CASE AnswerConceptual
  <2> DEFINE a == [route |-> "conceptual", sources |-> q.sources.all]
             t == [Returned EXCEPT !.step = "done", !.answer = a]
  <2>1. q.step = "conceptual_answer" /\ q' = t
    BY <1>2 DEF AnswerConceptual, Answered, Ended
  <2>2. q.step \in Working /\ OnRoute(Returned) /\ Keeps(Returned, q, {})
    BY <2>1, RouteAtSql, RouteAtWork DEF Working, Steps
  <2>3. Keeps(t, q, {}) /\ t.step = "done" /\ t.answer = a /\ t.raised = Null
    BY <2>2 DEF OnRoute, Keeps, Fields
  <2>4. a # Null /\ a.sources = q.sources.all
    BY <2>2, QuestionAssumption DEF OnRoute, Keeps
  <2> HIDE DEF t, a
  <2>5. Routed(t)
    BY <2>2, <2>3, <2>4, Unrouted DEF OnRoute, Keeps, Routed, SqlWork
  <2>6. Spanned(t)
    BY <2>2, <2>3, Unrouted DEF OnRoute, Keeps, Spanned
  <2>7. Shown(t)
    BY <2>2, <2>3, <2>4 DEF OnRoute, Keeps, Shown, Working
  <2> QED
    BY <2>1, <2>5, <2>6, <2>7 DEF RouteInv
<1> QED
  BY <1>1, <1>2

\* A call that raises ends the question; in the router only an exhausted budget does.
LEMMA CallFailsRoutes ==
    ASSUME PipelineInv, TraceInv(q), RouteInv(q), CallFails PROVE RouteInv(q')
<1>1. /\ q.step \in CallStages /\ q.step \in Working \ {"retrieve", "execute"} /\ q.step \in Steps
      /\ call.error \in {"BudgetExhausted", "ProviderError"} /\ call.error \in Classes
      /\ q.step = "route" => call.error = "BudgetExhausted"
  BY DEF CallFails, PipelineInv, CallInv, CallStages, Working, Steps, Classes
<1> DEFINE t == [Returned EXCEPT !.broken = TRUE]
<1>2. q' = Fails(t, call.error, q.step)
  BY DEF CallFails, Ended
<1>3. Keeps(t, q, {}) /\ t.answer = Null
  BY <1>1, RouteAtWork DEF Keeps, Fields
<1>4. DOMAIN t = Fields
  BY <1>3 DEF Keeps
<1> HIDE DEF t
<1>5. /\ Keeps(q', t, {}) /\ q'.step = "done" /\ q'.answer = Null
      /\ q'.raised # Null /\ q'.raised.class = call.error
  BY <1>1, <1>2, <1>3, <1>4, FailsKeepsRoute
<1>6. Keeps(q', q, {})
  BY <1>3, <1>5 DEF Keeps
<1>7. CASE q.step = "route"
  BY <1>1, <1>5, <1>6, <1>7, Unrouted
  DEF RouteInv, Routed, Spanned, Shown, SqlWork, Working, Keeps
<1>8. CASE q.step # "route"
  <2>1. q.step \in SqlWork \cup {"conceptual_answer"} /\ q.step # "execute"
    BY <1>1, <1>8 DEF CallStages, SqlWork
  <2> QED
    BY <1>5, <1>6, <2>1, RouteGoesOn
<1> QED
  BY <1>7, <1>8

\* A question that is left is on no route.
LEMMA FreshRoutes == RouteInv(Fresh)
BY Unrouted DEF RouteInv, Routed, Spanned, Shown, SqlWork, Working, Fresh

\* Every step keeps the route, the server's and the evaluation's included.
LEMMA StepRoutes ==
    ASSUME PipelineInv, TraceInv(q), RouteInv(q), [Next]_vars PROVE RouteInv(q')
<1>1. CASE Serve
  <2>1. q' = q \/ (\E x : Ask(x)) \/ q' = Fresh
    BY <1>1 DEF Serve, StartUp, PostAsk, Respond
  <2> QED
    BY <2>1, AskRoutes, FreshRoutes
<1>2. CASE Evaluate
  <2>1. q' = q \/ (\E x : Ask(x)) \/ q' = Fresh
    BY <1>2 DEF Evaluate, SessionStep, Begin, LoadReferences, Abort, Build, NextCase, Settle,
       Record, Report, Crash, CrashInAppend, Dies
  <2> QED
    BY <2>1, AskRoutes, FreshRoutes
<1>3. CASE AnswerStep
  <2>1. q' = q \/ StageStep
    BY <1>3 DEF AnswerStep, StageStep, Calls
  <2>2. CASE StageStep
    BY <2>2, RetrieveRoutes, RouteRoutes, GenerateSqlRoutes, GuardRoutes, RepairRoutes,
       CheckSqlRoutes, ExecuteRoutes, ProseRoutes, CallFailsRoutes DEF StageStep
  <2> QED
    BY <2>1, <2>2
<1>4. CASE DayTurns \/ UNCHANGED vars
  BY <1>4 DEF DayTurns, vars
<1> QED
  BY <1>1, <1>2, <1>3, <1>4 DEF Next

\* What is known of the route in hand.
Routes == RouteInv(q)

\* What the spans of a trace say of the route is what was decided, and an answer
\* shows what was found for its route.
THEOREM RouteHolds == Spec => []Routes
<1>1. Init => Routes
  BY FreshRoutes DEF Init, Routes
<1>2. PipelineInv /\ Traced /\ Routes /\ [Next]_vars => Routes'
  <2> SUFFICES ASSUME PipelineInv, TraceInv(q), RouteInv(q), [Next]_vars PROVE Routes'
    BY DEF Routes, Traced
  <2>1. RouteInv(q')
    BY StepRoutes
  <2> QED
    BY <2>1 DEF Routes, RouteInv, Routed, Spanned, Shown
<1> QED
  BY <1>1, <1>2, PipelineHolds, TracesHold, PTL DEF Spec
=============================================================================
