---------------------------- MODULE EvalProofs ----------------------------
(***************************************************************************)
(* What an evaluation spends: the requests of every case against the       *)
(* counter of the day, for any allowance, retries, deaths and turns of     *)
(* the day; and what its sessions leave behind: a record for every case,   *)
(* but for those that a line cut short has cost, however often the command *)
(* dies and is run again.                                                  *)
(***************************************************************************)
EXTENDS AssistantProofs, FiniteSetTheorems, WellFoundedInduction

-----------------------------------------------------------------------------
(* The requests of one question                                            *)

Prose == {"narration", "conceptual_answer"}
Unrefused == {"idle", "retrieve", "route", "sql_generation", "conceptual_answer"}

\* The calls a question has made by the time it reaches its stage.
CallsMade(r) ==
    CASE r.step \in {"idle", "retrieve", "route"} -> 0
      [] r.step = "sql_generation" -> 1
      [] r.step \in {"sql_repair", "conceptual_answer"} \/ (r.step = "guard" /\ r.rejected = 0) -> 2
      [] r.step \in {"sql_checks", "execute", "narration"} \/ (r.step = "guard" /\ r.rejected # 0) -> 3
      [] r.step = "done" -> MaxCalls

\* Its retries fit the calls it has made, and its rejections the stage it is at.
Tallied(r) ==
    /\ r.retries \in Nat /\ r.retries <= MaxRetries * CallsMade(r)
    /\ r.rejected \in 0..2
    /\ r.step \in Unrefused => r.rejected = 0
    /\ r.step \in {"guard", "sql_checks", "execute", "narration"} => r.rejected <= 1
    /\ r.step = "sql_repair" => r.rejected = 1
    /\ r.step \in Prose => setting.narrate

\* It has one end, and a result only of what was executed.
Formed(r) ==
    /\ r.step = "done" => r.answer # Null \/ r.raised # Null
    /\ r.answer # Null => r.step = "done" /\ r.raised = Null
    /\ r.result # Null => r.ran # Null
    /\ r.step \in Working \ {"retrieve"} => r.sources \in Question[r.id].finds

Phases == {"none", "look", "reserve", "charge", "send", "keep", "replied", "failed"}

\* A call has made no request before it is sent, and never more than it may.
CallTallied ==
    /\ call.phase \in Phases
    /\ call.tries \in 0..(MaxRetries + 1)
    /\ call.phase = "send" => call.tries <= MaxRetries
    /\ call.phase \in {"none", "look", "reserve", "charge"} => call.tries = 0
    /\ call.phase = "failed" <=> call.error # Null

TallyInv ==
    /\ Tallied(q) /\ Formed(q) /\ CallTallied
    /\ q.step = "idle" => q = Fresh
    /\ setting.narrate \in BOOLEAN

-----------------------------------------------------------------------------
(* What the helpers of a stage make of the tallies                         *)

\* r has the tallies, the result and the sources of s, and n retries more.
Carries(r, s, n) ==
    /\ DOMAIN r = Fields
    /\ r.id = s.id /\ r.sources = s.sources /\ r.retries = s.retries + n
    /\ r.ran = s.ran /\ r.result = s.result

\* Two changes that carry the tallies carry them together.
LEMMA CarriesTwice ==
    ASSUME NEW r, NEW s, NEW t, NEW n, s.retries \in Nat, Carries(r, s, 0), Carries(s, t, n)
    PROVE  Carries(r, t, n)
BY DEF Carries

\* Opening a span moves the stage only.
LEMMA EnterCarries ==
    ASSUME NEW r, DOMAIN r = Fields, r.retries \in Nat, NEW s
    PROVE  /\ Carries(Enter(r, s), r, 0) /\ Enter(r, s).step = s
           /\ Enter(r, s).rejected = r.rejected /\ Enter(r, s).answer = r.answer
           /\ Enter(r, s).raised = r.raised
BY DEF Enter, Carries, Fields

\* Ending with an exception leaves the tallies alone.
LEMMA EndsCarries ==
    ASSUME NEW r, DOMAIN r = Fields, r.retries \in Nat, NEW e
    PROVE  /\ Carries(Ends(r, e), r, 0) /\ Ends(r, e).step = "done" /\ Ends(r, e).raised = e
           /\ Ends(r, e).rejected = r.rejected /\ Ends(r, e).answer = r.answer
BY DEF Ends, Carries, Fields

\* So does failing in a span.
LEMMA FailsCarries ==
    ASSUME NEW r, DOMAIN r = Fields, r.retries \in Nat, NEW class \in Classes, NEW span \in Steps
    PROVE  /\ Carries(Fails(r, class, span), r, 0) /\ Fails(r, class, span).step = "done"
           /\ Fails(r, class, span).rejected = r.rejected
           /\ Fails(r, class, span).answer = r.answer
           /\ Fails(r, class, span).raised # Null
<1> DEFINE e == Exception(class, span, Null)
           n == Noting(r, e, span)
<1>1. Carries(n, r, 0) /\ n.rejected = r.rejected /\ n.answer = r.answer
  BY DEF Noting, Carries, Fields
<1>2. DOMAIN n = Fields /\ n.retries \in Nat
  BY <1>1 DEF Carries
<1> HIDE DEF n
<1>3. /\ Carries(Ends(n, e), n, 0) /\ Ends(n, e).step = "done" /\ Ends(n, e).raised = e
      /\ Ends(n, e).rejected = n.rejected /\ Ends(n, e).answer = n.answer
  BY <1>2, EndsCarries
<1>4. e # Null
  BY RaisedSomething
<1> QED
  BY <1>1, <1>2, <1>3, <1>4 DEF Fails, n, Carries

\* A rejection is counted.
LEMMA RejectedCarries ==
    ASSUME NEW r, DOMAIN r = Fields, r.retries \in Nat, r.rejected \in Nat
    PROVE  /\ Carries(Rejected(r), r, 0) /\ Rejected(r).step = r.step
           /\ Rejected(r).rejected = r.rejected + 1
           /\ Rejected(r).answer = r.answer /\ Rejected(r).raised = r.raised
BY DEF Rejected, Noting, Carries, Fields

\* A query that passes goes on to its checks.
LEMMA PassesCarries ==
    ASSUME NEW r, DOMAIN r = Fields, r.retries \in Nat
    PROVE  /\ Carries(Passes(r), r, 0) /\ Passes(r).step = "sql_checks"
           /\ Passes(r).rejected = r.rejected
           /\ Passes(r).answer = r.answer /\ Passes(r).raised = r.raised
BY DEF Passes, Enter, Carries, Fields

\* A data answer is an answer.
LEMMA DataAnswerCarries ==
    ASSUME NEW r, DOMAIN r = Fields, r.retries \in Nat, r.id \in Questions,
           r.sources \in Question[r.id].finds
    PROVE  /\ Carries(DataAnswer(r), r, 0) /\ DataAnswer(r).step = "done"
           /\ DataAnswer(r).rejected = r.rejected
           /\ DataAnswer(r).answer # Null /\ DataAnswer(r).raised = r.raised
<1>1. /\ Carries(DataAnswer(r), r, 0) /\ DataAnswer(r).step = "done"
      /\ DataAnswer(r).rejected = r.rejected /\ DataAnswer(r).raised = r.raised
      /\ DataAnswer(r).answer = [route |-> "data", sources |-> r.sources.internal]
  BY DEF DataAnswer, Carries, Fields
<1> QED
  BY <1>1, QuestionAssumption

\* The way to a conceptual answer makes one more call, or answers at once.
LEMMA ConceptualCarries ==
    ASSUME NEW r, DOMAIN r = Fields, r.retries \in Nat, r.id \in Questions,
           r.sources \in Question[r.id].finds
    PROVE  /\ Carries(Conceptual(r), r, 0)
           /\ Conceptual(r).rejected = r.rejected /\ Conceptual(r).raised = r.raised
           /\ \/ /\ setting.narrate /\ Conceptual(r).step = "conceptual_answer"
                 /\ Conceptual(r).answer = r.answer
              \/ ~setting.narrate /\ Conceptual(r).step = "done" /\ Conceptual(r).answer # Null
<1>1. CASE setting.narrate
  BY <1>1, EnterCarries DEF Conceptual
<1>2. CASE ~setting.narrate
  <2>1. /\ Carries(Conceptual(r), r, 0) /\ Conceptual(r).step = "done"
        /\ Conceptual(r).rejected = r.rejected /\ Conceptual(r).raised = r.raised
        /\ Conceptual(r).answer = [route |-> "conceptual", sources |-> r.sources.all]
    BY <1>2 DEF Conceptual, Carries, Fields
  <2> QED
    BY <1>2, <2>1, QuestionAssumption
<1> QED
  BY <1>1, <1>2

\* So does the routing, or it goes on to the SQL.
LEMMA DecideCarries ==
    ASSUME NEW r, DOMAIN r = Fields, r.retries \in Nat, r.id \in Questions,
           r.sources \in Question[r.id].finds, NEW route
    PROVE  /\ Carries(Decide(r, route), r, 0)
           /\ Decide(r, route).rejected = r.rejected /\ Decide(r, route).raised = r.raised
           /\ \/ /\ setting.narrate /\ Decide(r, route).step = "conceptual_answer"
                 /\ Decide(r, route).answer = r.answer
              \/ Decide(r, route).step = "sql_generation" /\ Decide(r, route).answer = r.answer
              \/ /\ ~setting.narrate /\ Decide(r, route).step = "done"
                 /\ Decide(r, route).answer # Null
<1> DEFINE d == [r EXCEPT !.decided = route]
<1>1. /\ Carries(d, r, 0) /\ d.rejected = r.rejected /\ d.raised = r.raised
      /\ d.answer = r.answer /\ d.retries \in Nat
  BY DEF Carries, Fields
<1>2. DOMAIN d = Fields /\ d.id \in Questions /\ d.sources \in Question[d.id].finds
  BY <1>1 DEF Carries
<1> HIDE DEF d
<1>3. CASE route = "conceptual"
  <2>1. Decide(r, route) = Conceptual(d)
    BY <1>3 DEF Decide, d
  <2> QED
    BY <1>1, <1>2, <2>1, ConceptualCarries DEF Carries
<1>4. CASE route # "conceptual"
  <2>1. Decide(r, route) = Enter(d, "sql_generation")
    BY <1>4 DEF Decide, d
  <2> QED
    BY <1>1, <1>2, <2>1, EnterCarries DEF Carries
<1> QED
  BY <1>3, <1>4

-----------------------------------------------------------------------------
(* One lemma per action                                                    *)

\* What a stage makes of the tallies: the retries of its call are counted.
Went ==
    /\ Tallied(q)' /\ Formed(q)' /\ q'.step # "idle"
    /\ q'.retries = q.retries + Retries(call) /\ q'.id = q.id

\* No call has made no retry.
LEMMA NoneRetried ==
    ASSUME TallyInv, call.phase = "none"
    PROVE  Retries(call) = 0
BY DEF TallyInv, CallTallied, Retries

\* What is known of the tallies wherever a stage acts on a question.
LEMMA TalliesAtWork ==
    ASSUME PipelineInv, TallyInv, q.step \in Working
    PROVE  /\ DOMAIN q = Fields /\ q.id \in Questions /\ q.raised = Null /\ q.answer = Null
           /\ q.retries \in Nat /\ q.rejected \in 0..2
           /\ q.step # "retrieve" => q.sources \in Question[q.id].finds
           /\ Retries(call) \in 0..MaxRetries
           /\ Carries(Returned, q, Retries(call)) /\ Returned.step = q.step
           /\ Returned.rejected = q.rejected
           /\ Returned.answer = Null /\ Returned.raised = Null /\ Returned.retries \in Nat
<1>1. /\ DOMAIN q = Fields /\ q.id \in Questions /\ q.raised = Null /\ q.answer = Null
      /\ q.retries \in Nat /\ q.rejected \in 0..2
      /\ q.step # "retrieve" => q.sources \in Question[q.id].finds
  BY DEF PipelineInv, QuestionInv, Staged, TallyInv, Tallied, Formed, Working
<1>2. Retries(call) \in 0..MaxRetries
  BY GeneratorAssumption DEF TallyInv, CallTallied, Retries
<1> QED
  BY <1>1, <1>2, GeneratorAssumption DEF Returned, Carries, Fields

\* The calls a stage adds leave room for the retries it adds.
LEMMA Room ==
    ASSUME NEW a \in Nat, NEW b \in Nat, NEW c \in Nat, NEW k \in {0, 1}, b + k <= c,
           NEW m \in Nat, m <= a * b, NEW n \in Nat, n <= a * k
    PROVE  m + n <= a * c
<1>1. a * b + a * k = a * (b + k)
  OBVIOUS
<1>2. a * (b + k) <= a * c
  <2>1. PICK d \in Nat : c = (b + k) + d
    OBVIOUS
  <2>2. a * c = a * (b + k) + a * d /\ a * d \in Nat /\ a * (b + k) \in Nat
    BY <2>1
  <2> QED
    BY <2>2
<1>3. a * b \in Nat /\ a * k \in Nat /\ a * c \in Nat
  OBVIOUS
<1> QED
  BY <1>1, <1>2, <1>3

\* So the retries of a question keep fitting its calls.
LEMMA RetriesFit ==
    ASSUME PipelineInv, TallyInv, q.step \in Working, setting' = setting,
           \/ q'.retries = q.retries /\ CallsMade(q) <= CallsMade(q')
           \/ q'.retries = q.retries + Retries(call) /\ CallsMade(q) + 1 <= CallsMade(q'),
           q'.step \in Steps, q'.rejected \in 0..2
    PROVE  q'.retries \in Nat /\ q'.retries <= MaxRetries * CallsMade(q')
<1>1. q.retries \in Nat /\ q.retries <= MaxRetries * CallsMade(q) /\ Retries(call) \in 0..MaxRetries
  BY TalliesAtWork DEF TallyInv, Tallied
<1>2. q.step \in Steps /\ MaxCalls \in Nat /\ MaxRetries \in Nat
  BY GeneratorAssumption DEF Working, MaxCalls
<1>3. CallsMade(q) \in Nat /\ CallsMade(q') \in Nat
  BY <1>2, TalliesAtWork DEF CallsMade, Steps
<1>4. CASE q'.retries = q.retries /\ CallsMade(q) <= CallsMade(q')
  BY <1>1, <1>2, <1>3, <1>4, Room
<1>5. CASE q'.retries = q.retries + Retries(call) /\ CallsMade(q) + 1 <= CallsMade(q')
  BY <1>1, <1>2, <1>3, <1>5, Room
<1> QED
  BY <1>4, <1>5

\* A question that is asked has made no call.
LEMMA AskTallies ==
    ASSUME NEW x \in Questions, Ask(x), TallyInv
    PROVE  /\ Tallied(q)' /\ Formed(q)' /\ q'.step # "idle" /\ q'.retries = 0 /\ q'.id = x
           /\ setting' = setting /\ call' = call /\ call.phase = "none"
<1> DEFINE asked == [Fresh EXCEPT !.id = x]
           e == Exception("AnswerError", Null, Null)
<1>1. /\ DOMAIN asked = Fields /\ asked.id = x /\ asked.retries = 0 /\ asked.rejected = 0
      /\ asked.answer = Null /\ asked.raised = Null /\ asked.ran = Null /\ asked.result = Null
  BY DEF Fresh, Fields
<1>2. q' = IF Question[x].blank THEN Ends(asked, e) ELSE Enter(asked, "retrieve")
  BY DEF Ask, Does
<1>3. setting' = setting /\ call' = call /\ call.phase = "none"
  BY DEF Ask, Does, At, gvars
<1>4. e # Null
  BY RaisedSomething DEF Classes
<1> HIDE DEF asked, e
<1>5. /\ Carries(q', asked, 0) /\ q'.rejected = 0 /\ q'.answer = Null
      /\ \/ q'.step = "done" /\ q'.raised # Null
         \/ q'.step = "retrieve" /\ q'.raised = Null
  BY <1>1, <1>2, <1>4, EnterCarries, EndsCarries
<1>6. q'.retries = 0 /\ q'.result = Null /\ q'.id = x
  BY <1>1, <1>5 DEF Carries
<1>7. CallsMade(q') \in Nat /\ CallsMade(q)' = CallsMade(q')
  BY <1>3, <1>5 DEF CallsMade, MaxCalls
<1>8. Tallied(q)'
  <2>1. 0 <= MaxRetries * CallsMade(q')
    BY <1>7, GeneratorAssumption
  <2> QED
    BY <1>3, <1>5, <1>6, <1>7, <2>1 DEF Tallied, Unrefused, Prose
<1>9. Formed(q)'
  BY <1>5, <1>6 DEF Formed, Working, Steps
<1> QED
  BY <1>3, <1>5, <1>6, <1>8, <1>9

\* Retrieval, found or failed.
LEMMA RetrieveTallies ==
    ASSUME PipelineInv, TallyInv, Retrieve
    PROVE  Went
<1>1. q.step = "retrieve" /\ setting' = setting /\ q.step \in Working
  BY DEF Retrieve, At, Does, gvars, Working, Steps
<1>2. q.retries + Retries(call) = q.retries
  BY <1>1, NoneRetried, TalliesAtWork DEF Retrieve, At
<1>3. ASSUME NEW found \in Question[q.id].finds, Does(Enter([q EXCEPT !.sources = found], "route"))
      PROVE  Went
  <2> DEFINE t == [q EXCEPT !.sources = found]
  <2>1. /\ DOMAIN t = Fields /\ t.id = q.id /\ t.sources = found /\ t.retries = q.retries
        /\ t.rejected = q.rejected /\ t.answer = Null /\ t.raised = Null
        /\ t.ran = q.ran /\ t.result = q.result /\ t.retries \in Nat
    BY <1>1, TalliesAtWork DEF Fields
  <2>2. q' = Enter(t, "route")
    BY <1>3 DEF Does
  <2> HIDE DEF t
  <2>3. /\ q'.id = q.id /\ q'.sources = found /\ q'.retries = q.retries /\ q'.step = "route"
        /\ q'.rejected = q.rejected /\ q'.answer = Null /\ q'.raised = Null
        /\ q'.ran = q.ran /\ q'.result = q.result
    BY <2>1, <2>2, EnterCarries DEF Carries
  <2>4. CallsMade(q) = 0 /\ CallsMade(q') = 0 /\ CallsMade(q)' = CallsMade(q')
    BY <1>1, <2>3 DEF CallsMade
  <2>5. Tallied(q)'
    BY <1>1, <2>3, <2>4, RetriesFit DEF TallyInv, Tallied, Unrefused, Prose, Steps
  <2>6. Formed(q)'
    BY <2>3 DEF TallyInv, Formed
  <2> QED
    BY <1>2, <2>3, <2>5, <2>6 DEF Went
<1>4. ASSUME NEW class \in {"ProviderError", "DatabaseError"},
             Does(Fails([q EXCEPT !.broken = TRUE], class, "retrieve"))
      PROVE  Went
  <2> DEFINE t == [q EXCEPT !.broken = TRUE]
  <2>1. /\ Carries(t, q, 0) /\ t.rejected = q.rejected /\ t.answer = Null /\ t.retries \in Nat
    BY <1>1, TalliesAtWork DEF Carries, Fields
  <2>2. q' = Fails(t, class, "retrieve") /\ class \in Classes /\ "retrieve" \in Steps
    BY <1>4 DEF Does, Classes, Steps
  <2> HIDE DEF t
  <2>3. /\ q'.retries = q.retries /\ q'.id = q.id /\ q'.step = "done"
        /\ q'.rejected = q.rejected /\ q'.answer = Null /\ q'.raised # Null
        /\ q'.ran = q.ran /\ q'.result = q.result
    BY <1>1, <2>1, <2>2, FailsCarries, TalliesAtWork DEF Carries
  <2>4. CallsMade(q) = 0 /\ CallsMade(q') \in {3, 4} /\ CallsMade(q)' = CallsMade(q')
    BY <1>1, <2>3 DEF CallsMade, MaxCalls
  <2>5. Tallied(q)'
    BY <1>1, <2>3, <2>4, RetriesFit DEF TallyInv, Tallied, Unrefused, Prose, Steps
  <2>6. Formed(q)'
    BY <2>3 DEF TallyInv, Formed, Working
  <2> QED
    BY <1>2, <2>3, <2>5, <2>6 DEF Went
<1> QED
  BY <1>3, <1>4 DEF Retrieve

\* What a stage that neither searches nor executes makes of a question.
LEMMA CarriesOn ==
    ASSUME PipelineInv, TallyInv, q.step \in Working \ {"retrieve"}, setting' = setting,
           \/ Carries(q', q, 0) /\ call.phase = "none" /\ CallsMade(q) <= CallsMade(q')
           \/ Carries(q', q, Retries(call)) /\ CallsMade(q) + 1 <= CallsMade(q'),
           \/ q'.step \in Working \ {"retrieve"} /\ q'.answer = Null
           \/ q'.step = "done" /\ q'.answer # Null /\ q'.raised = Null
           \/ q'.step = "done" /\ q'.answer = Null /\ q'.raised # Null,
           q'.rejected \in 0..2, q'.step \in Unrefused => q'.rejected = 0,
           q'.step \in {"guard", "sql_checks", "execute", "narration"} => q'.rejected <= 1,
           q'.step = "sql_repair" => q'.rejected = 1,
           q'.step \in Prose => setting.narrate
    PROVE  Went
<1>1. /\ q.retries \in Nat /\ q.sources \in Question[q.id].finds
      /\ q.result # Null => q.ran # Null
  BY TalliesAtWork DEF TallyInv, Formed
<1>2. /\ q'.id = q.id /\ q'.sources = q.sources /\ q'.ran = q.ran /\ q'.result = q.result
      /\ \/ q'.retries = q.retries /\ CallsMade(q) <= CallsMade(q')
         \/ q'.retries = q.retries + Retries(call) /\ CallsMade(q) + 1 <= CallsMade(q')
  BY <1>1 DEF Carries
<1>3. q'.step \in Steps /\ q'.step # "idle"
  BY DEF Working, Steps
<1>4. q'.retries \in Nat /\ q'.retries <= MaxRetries * CallsMade(q')
  BY <1>2, <1>3, RetriesFit
<1>5. CallsMade(q)' = CallsMade(q')
  BY DEF CallsMade, MaxCalls
<1>6. Tallied(q)'
  BY <1>4, <1>5 DEF Tallied
<1>7. Formed(q)'
  BY <1>1, <1>2 DEF Formed, Working
<1>8. q'.retries = q.retries + Retries(call)
  BY <1>1, NoneRetried DEF Carries
<1> QED
  BY <1>2, <1>3, <1>6, <1>7, <1>8 DEF Went

\* The three ways a route is decided.
LEMMA RouteTallies ==
    ASSUME PipelineInv, TallyInv, RouteLexically \/ RouteByModel \/ RouteByDefault
    PROVE  Went
<1>1. q.step = "route" /\ q.step \in Working \ {"retrieve"} /\ setting' = setting
  BY DEF RouteLexically, RouteByModel, RouteByDefault, At, Answered, Does, Ended, gvars,
     Working, Steps
<1>2. CallsMade(q) = 0 /\ q.rejected = 0
  BY <1>1 DEF CallsMade, TallyInv, Tallied, Unrefused
<1>3. PICK t \in {q, Returned} :
          (\E route : q' = Decide(t, route)) /\ (t = Returned \/ call.phase = "none")
  BY DEF RouteLexically, RouteByModel, RouteByDefault, Does, Ended, At
<1>4. PICK route : q' = Decide(t, route)
  BY <1>3
<1>5. /\ DOMAIN t = Fields /\ t.retries \in Nat /\ t.id \in Questions
      /\ t.sources \in Question[t.id].finds /\ t.answer = Null /\ t.raised = Null
      /\ t.rejected = 0
      /\ (Carries(t, q, 0) /\ call.phase = "none") \/ Carries(t, q, Retries(call))
  BY <1>1, <1>2, <1>3, TalliesAtWork DEF Carries
<1>6. /\ (Carries(q', q, 0) /\ call.phase = "none") \/ Carries(q', q, Retries(call))
      /\ q'.rejected = 0 /\ q'.raised = Null
      /\ \/ setting.narrate /\ q'.step = "conceptual_answer" /\ q'.answer = Null
         \/ q'.step = "sql_generation" /\ q'.answer = Null
         \/ q'.step = "done" /\ q'.answer # Null
  <2>1. /\ Carries(q', t, 0) /\ q'.rejected = t.rejected /\ q'.raised = t.raised
        /\ \/ setting.narrate /\ q'.step = "conceptual_answer" /\ q'.answer = t.answer
           \/ q'.step = "sql_generation" /\ q'.answer = t.answer
           \/ ~setting.narrate /\ q'.step = "done" /\ q'.answer # Null
    BY <1>4, <1>5, DecideCarries
  <2>2. q.retries \in Nat
    BY <1>1, TalliesAtWork
  <2>3. (Carries(q', q, 0) /\ call.phase = "none") \/ Carries(q', q, Retries(call))
    BY <1>5, <2>1, <2>2 DEF Carries
  <2> QED
    BY <1>5, <2>1, <2>3
<1>7. CallsMade(q') \in {1, 2, 3, 4}
  BY <1>6 DEF CallsMade, MaxCalls
<1> QED
  BY <1>1, <1>2, <1>6, <1>7, CarriesOn DEF Working, Steps, Unrefused, Prose

\* The three kinds of reply extract_sql tells apart.
LEMMA GenerateSqlTallies ==
    ASSUME PipelineInv, TallyInv, GenerateSql
    PROVE  Went
<1>1. q.step = "sql_generation" /\ q.step \in Working \ {"retrieve"} /\ setting' = setting
  BY DEF GenerateSql, Answered, Ended, Working, Steps
<1>2. CallsMade(q) = 1 /\ q.rejected = 0
  BY <1>1 DEF CallsMade, TallyInv, Tallied, Unrefused
<1>3. /\ DOMAIN Returned = Fields /\ Returned.retries \in Nat /\ Returned.id \in Questions
      /\ Returned.sources \in Question[Returned.id].finds /\ Returned.rejected = 0
      /\ Returned.answer = Null /\ Returned.raised = Null /\ Carries(Returned, q, Retries(call))
  BY <1>1, <1>2, TalliesAtWork DEF Carries
<1>4. CASE q' = Conceptual(Returned)
  <2>1. /\ Carries(q', Returned, 0) /\ q'.rejected = 0 /\ q'.raised = Null
        /\ \/ setting.narrate /\ q'.step = "conceptual_answer" /\ q'.answer = Null
           \/ q'.step = "done" /\ q'.answer # Null
    BY <1>3, <1>4, ConceptualCarries
  <2>2. Carries(q', q, Retries(call)) /\ CallsMade(q') \in {2, 3, 4}
    BY <1>3, <2>1, CarriesTwice DEF CallsMade, MaxCalls
  <2> QED
    BY <1>1, <1>2, <2>1, <2>2, CarriesOn DEF Working, Steps, Unrefused, Prose
<1>5. CASE q' = Fails(Returned, "AnswerError", "sql_generation")
  <2>1. /\ Carries(q', Returned, 0) /\ q'.rejected = 0 /\ q'.raised # Null /\ q'.answer = Null
        /\ q'.step = "done"
    BY <1>3, <1>5, FailsCarries DEF Classes, Steps
  <2>2. Carries(q', q, Retries(call)) /\ CallsMade(q') \in {2, 3, 4}
    BY <1>3, <2>1, CarriesTwice DEF CallsMade, MaxCalls
  <2> QED
    BY <1>1, <1>2, <2>1, <2>2, CarriesOn DEF Working, Steps, Unrefused, Prose
<1>6. CASE q' = Enter([Returned EXCEPT !.text = call.reply], "guard")
  <2> DEFINE t == [Returned EXCEPT !.text = call.reply]
  <2>1. /\ Carries(t, Returned, 0) /\ DOMAIN t = Fields /\ t.retries \in Nat
        /\ t.rejected = 0 /\ t.answer = Null
    BY <1>3 DEF Carries, Fields
  <2> HIDE DEF t
  <2>2. Carries(q', t, 0) /\ q'.rejected = 0 /\ q'.answer = Null /\ q'.step = "guard"
    BY <1>6, <2>1, EnterCarries DEF t
  <2>3. Carries(q', q, Retries(call)) /\ CallsMade(q') = 2
    BY <1>3, <2>1, <2>2, CarriesTwice DEF CallsMade
  <2> QED
    BY <1>1, <1>2, <2>2, <2>3, CarriesOn DEF Working, Steps, Unrefused, Prose
<1> QED
  BY <1>4, <1>5, <1>6 DEF GenerateSql, Ended

\* Both looks of the guard.
LEMMA GuardTallies ==
    ASSUME PipelineInv, TallyInv, Guard \/ GuardAgain
    PROVE  Went
<1>1. q.step = "guard" /\ q.step \in Working \ {"retrieve"} /\ setting' = setting
      /\ call.phase = "none"
  BY DEF Guard, GuardAgain, At, Does, gvars, Working, Steps
<1>2. /\ DOMAIN q = Fields /\ q.retries \in Nat /\ q.answer = Null /\ q.raised = Null
      /\ q.rejected \in {0, 1}
  BY <1>1, TalliesAtWork DEF TallyInv, Tallied
<1>3. CallsMade(q) = IF q.rejected = 0 THEN 2 ELSE 3
  BY <1>1 DEF CallsMade
<1>4. CASE q' = Passes(q)
  <2>1. /\ Carries(q', q, 0) /\ q'.rejected = q.rejected /\ q'.step = "sql_checks"
        /\ q'.answer = Null
    BY <1>2, <1>4, PassesCarries
  <2>2. CallsMade(q') = 3
    BY <2>1 DEF CallsMade
  <2> QED
    BY <1>1, <1>2, <1>3, <2>1, <2>2, CarriesOn DEF Working, Steps, Unrefused, Prose
<1>5. /\ Carries(Rejected(q), q, 0) /\ Rejected(q).rejected = q.rejected + 1
      /\ Rejected(q).answer = Null /\ DOMAIN Rejected(q) = Fields
      /\ Rejected(q).retries \in Nat
  BY <1>2, RejectedCarries DEF Carries
<1>6. CASE q.rejected = 0 /\ q' = Enter(Rejected(q), "sql_repair")
  <2>1. /\ Carries(q', Rejected(q), 0) /\ q'.rejected = 1 /\ q'.step = "sql_repair"
        /\ q'.answer = Null
    BY <1>5, <1>6, EnterCarries
  <2>2. Carries(q', q, 0) /\ CallsMade(q') = 2
    BY <1>5, <2>1, CarriesTwice DEF CallsMade
  <2> QED
    BY <1>1, <1>3, <1>6, <2>1, <2>2, CarriesOn DEF Working, Steps, Unrefused, Prose
<1>7. ASSUME NEW e, e # Null, q.rejected = 1, q' = Ends(Rejected(q), e)
      PROVE  Went
  <2>1. /\ Carries(q', Rejected(q), 0) /\ q'.rejected = 2 /\ q'.step = "done"
        /\ q'.answer = Null /\ q'.raised # Null
    BY <1>5, <1>7, EndsCarries
  <2>2. Carries(q', q, 0) /\ CallsMade(q') \in {3, 4}
    BY <1>5, <2>1, CarriesTwice DEF CallsMade, MaxCalls
  <2> QED
    BY <1>1, <1>3, <1>7, <2>1, <2>2, CarriesOn DEF Working, Steps, Unrefused, Prose
<1>8. CASE Guard
  BY <1>4, <1>6, <1>8 DEF Guard, Does
<1>9. CASE GuardAgain
  <2> DEFINE cause == Exception("UnsafeQueryError", "guard", Null)
  <2>1. cause \in RootExceptions
    BY RaisedSomething DEF Classes, Steps
  <2> HIDE DEF cause
  <2>2. Exception("AnswerError", "guard", cause) # Null
    BY <2>1, RaisedSomething DEF Classes, Steps
  <2>3. q' = Passes(q) \/ q' = Ends(Rejected(q), Exception("AnswerError", "guard", cause))
    BY <1>9 DEF GuardAgain, Does, cause
  <2>4. q.rejected = 1
    BY <1>9 DEF GuardAgain
  <2> QED
    BY <1>4, <1>7, <2>2, <2>3, <2>4
<1> QED
  BY <1>8, <1>9

\* A repaired query goes back to the guard.
LEMMA RepairTallies ==
    ASSUME PipelineInv, TallyInv, Repair
    PROVE  Went
<1>1. q.step = "sql_repair" /\ q.step \in Working \ {"retrieve"} /\ setting' = setting
  BY DEF Repair, Answered, Ended, Working, Steps
<1>2. CallsMade(q) = 2 /\ q.rejected = 1
  BY <1>1 DEF CallsMade, TallyInv, Tallied
<1>3. /\ DOMAIN Returned = Fields /\ Returned.retries \in Nat /\ Returned.rejected = 1
      /\ Returned.answer = Null /\ Carries(Returned, q, Retries(call))
  BY <1>1, <1>2, TalliesAtWork DEF Carries
<1>4. CASE q' = Fails(Returned, "AnswerError", "sql_repair")
  <2>1. /\ Carries(q', Returned, 0) /\ q'.rejected = 1 /\ q'.raised # Null /\ q'.answer = Null
        /\ q'.step = "done"
    BY <1>3, <1>4, FailsCarries DEF Classes, Steps
  <2>2. Carries(q', q, Retries(call)) /\ CallsMade(q') \in {3, 4}
    BY <1>3, <2>1, CarriesTwice DEF CallsMade, MaxCalls
  <2> QED
    BY <1>1, <1>2, <2>1, <2>2, CarriesOn DEF Working, Steps, Unrefused, Prose
<1>5. CASE q' = [Returned EXCEPT !.text = call.reply, !.step = "guard"]
  <2>1. /\ Carries(q', Returned, 0) /\ q'.rejected = 1 /\ q'.answer = Null /\ q'.step = "guard"
    BY <1>3, <1>5 DEF Carries, Fields
  <2>2. Carries(q', q, Retries(call)) /\ CallsMade(q') = 3
    BY <1>3, <2>1, CarriesTwice DEF CallsMade
  <2> QED
    BY <1>1, <1>2, <2>1, <2>2, CarriesOn DEF Working, Steps, Unrefused, Prose
<1> QED
  BY <1>4, <1>5 DEF Repair, Ended

\* The planner's look.
LEMMA CheckSqlTallies ==
    ASSUME PipelineInv, TallyInv, CheckSql
    PROVE  Went
<1>1. q.step = "sql_checks" /\ q.step \in Working \ {"retrieve"} /\ setting' = setting
      /\ call.phase = "none"
  BY DEF CheckSql, At, Does, gvars, Working, Steps
<1>2. /\ DOMAIN q = Fields /\ q.retries \in Nat /\ q.answer = Null /\ q.raised = Null
      /\ q.rejected \in {0, 1} /\ CallsMade(q) = 3
  BY <1>1, TalliesAtWork DEF TallyInv, Tallied, CallsMade
<1>3. CASE q' = Fails(q, "QueryTooExpensiveError", "sql_checks")
  <2>1. /\ Carries(q', q, 0) /\ q'.step = "done" /\ q'.rejected = q.rejected
        /\ q'.answer = Null /\ q'.raised # Null
    BY <1>2, <1>3, FailsCarries DEF Classes, Steps
  <2>2. CallsMade(q') \in {3, 4}
    BY <2>1 DEF CallsMade, MaxCalls
  <2> QED
    BY <1>1, <1>2, <2>1, <2>2, CarriesOn DEF Working, Steps, Unrefused, Prose
<1>4. ASSUME NEW t, Carries(t, q, 0), t.rejected = q.rejected, t.answer = Null,
             q' = Enter(t, "execute")
      PROVE  Went
  <2>1. DOMAIN t = Fields /\ t.retries \in Nat
    BY <1>2, <1>4 DEF Carries
  <2>2. /\ Carries(q', t, 0) /\ q'.step = "execute" /\ q'.rejected = q.rejected
        /\ q'.answer = Null
    BY <1>4, <2>1, EnterCarries
  <2>3. Carries(q', q, 0) /\ CallsMade(q') = 3
    BY <1>2, <1>4, <2>1, <2>2, CarriesTwice DEF CallsMade
  <2> QED
    BY <1>1, <1>2, <2>2, <2>3, CarriesOn DEF Working, Steps, Unrefused, Prose
<1>5. Carries(q, q, 0)
  BY <1>2 DEF Carries
<1> DEFINE planned == [q EXCEPT !.planned = TRUE]
<1>6. Carries(planned, q, 0) /\ planned.rejected = q.rejected /\ planned.answer = Null
  BY <1>2 DEF Carries, Fields
<1>7. \/ q' = Fails(q, "QueryTooExpensiveError", "sql_checks")
      \/ q' = Enter(q, "execute")
      \/ q' = Enter(planned, "execute")
  BY DEF CheckSql, Does
<1> HIDE DEF planned
<1> QED
  BY <1>2, <1>3, <1>4, <1>5, <1>6, <1>7

\* What is executed has a result, or has failed.
LEMMA ExecuteTallies ==
    ASSUME PipelineInv, TallyInv, Execute
    PROVE  Went
<1> DEFINE posed == [q EXCEPT !.ran = q.safe]
           read == [posed EXCEPT !.result = ResultOf(q.safe)]
           broken == [posed EXCEPT !.broken = TRUE]
<1>1. q.step = "execute" /\ q.step \in Working \ {"retrieve"} /\ setting' = setting
  BY DEF Execute, At, Does, gvars, Working, Steps
<1>2. /\ DOMAIN q = Fields /\ q.id \in Questions /\ q.retries \in Nat
      /\ q.answer = Null /\ q.raised = Null /\ q.sources \in Question[q.id].finds
      /\ q.rejected \in {0, 1} /\ CallsMade(q) = 3
  BY <1>1, TalliesAtWork DEF TallyInv, Tallied, CallsMade
<1>3. q.safe # Null
  BY <1>1 DEF PipelineInv, QuestionInv, Staged
<1>4. \A t \in {read, broken} :
        /\ DOMAIN t = Fields /\ t.id = q.id /\ t.sources = q.sources /\ t.retries = q.retries
        /\ t.rejected = q.rejected /\ t.answer = Null /\ t.raised = Null
        /\ t.result # Null => t.ran # Null
  <2>1. /\ DOMAIN read = Fields /\ read.id = q.id /\ read.sources = q.sources
        /\ read.retries = q.retries /\ read.rejected = q.rejected /\ read.answer = Null
        /\ read.raised = Null /\ read.ran = q.safe
    BY <1>2 DEF Fields
  <2>2. /\ DOMAIN broken = Fields /\ broken.id = q.id /\ broken.sources = q.sources
        /\ broken.retries = q.retries /\ broken.rejected = q.rejected /\ broken.answer = Null
        /\ broken.raised = Null /\ broken.ran = q.safe
    BY <1>2 DEF Fields
  <2> HIDE DEF read, broken
  <2> QED
    BY <1>3, <2>1, <2>2
<1>5. \/ q' = DataAnswer(read)
      \/ setting.narrate /\ q' = Enter(read, "narration")
      \/ q' = Fails(broken, "QueryExecutionError", "execute")
  BY DEF Execute, Does
<1> HIDE DEF read, broken
<1>6. /\ q'.id = q.id /\ q'.sources = q.sources /\ q'.retries = q.retries
      /\ q'.rejected = q.rejected /\ (q'.result # Null => q'.ran # Null)
      /\ \/ q'.step = "done" /\ q'.answer # Null /\ q'.raised = Null
         \/ q'.step = "narration" /\ q'.answer = Null /\ setting.narrate
         \/ q'.step = "done" /\ q'.answer = Null /\ q'.raised # Null
  <2>1. CASE q' = DataAnswer(read)
    BY <1>2, <1>4, <2>1, DataAnswerCarries DEF Carries
  <2>2. CASE setting.narrate /\ q' = Enter(read, "narration")
    BY <1>2, <1>4, <2>2, EnterCarries DEF Carries
  <2>3. CASE q' = Fails(broken, "QueryExecutionError", "execute")
    <3>1. DOMAIN broken = Fields /\ broken.retries \in Nat
      BY <1>2, <1>4
    <3>2. /\ Carries(q', broken, 0) /\ q'.step = "done" /\ q'.rejected = broken.rejected
          /\ q'.answer = broken.answer /\ q'.raised # Null
      BY <2>3, <3>1, FailsCarries DEF Classes, Steps
    <3> QED
      BY <1>2, <1>4, <3>2 DEF Carries
  <2> QED
    BY <1>5, <2>1, <2>2, <2>3
<1>7. CallsMade(q') \in {3, 4} /\ CallsMade(q)' = CallsMade(q')
  BY <1>1, <1>6 DEF CallsMade, MaxCalls
<1>8. q'.step \in Steps /\ q'.rejected \in 0..2
  BY <1>2, <1>6 DEF Steps
<1>9. q'.retries \in Nat /\ q'.retries <= MaxRetries * CallsMade(q')
  BY <1>1, <1>2, <1>6, <1>7, <1>8, RetriesFit
<1>10. Tallied(q)'
  BY <1>1, <1>2, <1>6, <1>7, <1>8, <1>9 DEF Tallied, Unrefused, Prose
<1>11. Formed(q)'
  BY <1>2, <1>6 DEF Formed
<1>12. q'.retries = q.retries + Retries(call)
  BY <1>2, <1>6, NoneRetried DEF Execute, At
<1> QED
  BY <1>6, <1>10, <1>11, <1>12 DEF Went

\* The prose of an answer, of either kind.
LEMMA ProseTallies ==
    ASSUME PipelineInv, TallyInv, Narrate \/ AnswerConceptual
    PROVE  Went
<1>1. /\ q.step \in Prose /\ q.step \in Working \ {"retrieve"} /\ setting' = setting
      /\ q.step \in {"narration", "conceptual_answer"} /\ setting.narrate
  BY DEF Narrate, AnswerConceptual, Answered, Ended, Working, Steps, Prose, TallyInv, Tallied
<1>2. CallsMade(q) \in {2, 3} /\ q.rejected \in 0..2
  BY <1>1, TalliesAtWork DEF CallsMade
<1>3. /\ DOMAIN Returned = Fields /\ Returned.retries \in Nat /\ Returned.id \in Questions
      /\ Returned.sources = q.sources /\ q.id \in Questions
      /\ q.sources \in Question[q.id].finds /\ Returned.id = q.id
      /\ Returned.sources \in Question[Returned.id].finds /\ Returned.rejected = q.rejected
      /\ Returned.answer = Null /\ Returned.raised = Null /\ Carries(Returned, q, Retries(call))
      /\ q.retries \in Nat
  BY <1>1, TalliesAtWork DEF Carries
<1>4. /\ Carries(q', Returned, 0) /\ q'.step = "done" /\ q'.rejected = q.rejected
      /\ q'.answer # Null /\ q'.raised = Null
  <2>1. CASE Narrate
    <3>1. q' = DataAnswer(Returned)
      BY <2>1 DEF Narrate, Ended
    <3> QED
      BY <1>3, <3>1, DataAnswerCarries
  <2>2. CASE AnswerConceptual
    <3>1. q' = [Returned EXCEPT !.step = "done",
                  !.answer = [route |-> "conceptual", sources |-> q.sources.all]]
      BY <2>2 DEF AnswerConceptual, Ended
    <3>2. Null # [route |-> "conceptual", sources |-> q.sources.all]
      BY <1>3, QuestionAssumption
    <3> QED
      BY <1>3, <3>1, <3>2 DEF Carries, Fields
  <2> QED
    BY <2>1, <2>2
<1>5. Carries(q', q, Retries(call)) /\ CallsMade(q') = 4
  <2>1. Carries(q', q, Retries(call))
    BY <1>3, <1>4 DEF Carries
  <2> QED
    BY <1>1, <1>4, <2>1 DEF CallsMade, MaxCalls
<1> QED
  BY <1>1, <1>2, <1>4, <1>5, CarriesOn DEF Working, Steps, Unrefused, Prose

\* A call that raised ends the question.
LEMMA CallFailsTallies ==
    ASSUME PipelineInv, TallyInv, CallFails
    PROVE  Went
<1>1. /\ call.phase = "failed" /\ q.step \in CallStages /\ setting' = setting
      /\ call.error \in {"BudgetExhausted", "ProviderError"}
  BY DEF CallFails, Ended, PipelineInv, CallInv
<1>2. q.step \in Working \ {"retrieve"} /\ q.step \in Steps /\ call.error \in Classes
  BY <1>1 DEF Working, Steps, CallStages, Classes
<1> DEFINE t == [Returned EXCEPT !.broken = TRUE]
<1>3. /\ Carries(t, q, Retries(call)) /\ t.rejected = q.rejected /\ t.answer = Null
      /\ t.retries \in Nat /\ q.rejected \in 0..2 /\ q.retries \in Nat /\ DOMAIN t = Fields
  BY <1>2, TalliesAtWork DEF Carries, Fields
<1>4. q' = Fails(t, call.error, q.step)
  BY DEF CallFails, Ended
<1> HIDE DEF t
<1>5. /\ Carries(q', t, 0) /\ q'.step = "done" /\ q'.rejected = q.rejected
      /\ q'.answer = Null /\ q'.raised # Null
  BY <1>2, <1>3, <1>4, FailsCarries
<1>6. Carries(q', q, Retries(call))
  BY <1>3, <1>5 DEF Carries
<1>7. CallsMade(q) + 1 <= CallsMade(q')
  <2>1. q.step \in Prose => setting.narrate
    BY DEF TallyInv, Tallied
  <2>2. CallsMade(q') = IF setting.narrate THEN 4 ELSE 3
    BY <1>5 DEF CallsMade, MaxCalls
  <2>3. CallsMade(q) \in 0..3 /\ (~setting.narrate => CallsMade(q) \in 0..2)
    BY <1>1, <2>1 DEF CallsMade, CallStages, Prose
  <2> QED
    BY <2>2, <2>3
<1> QED
  BY <1>1, <1>2, <1>3, <1>5, <1>6, <1>7, CarriesOn DEF Working, Steps, Unrefused, Prose

\* What a stage leaves of a call is none.
LEMMA StageTallies ==
    ASSUME PipelineInv, TallyInv, StageStep
    PROVE  TallyInv' /\ Went
<1>1. Went
  BY RetrieveTallies, RouteTallies, GenerateSqlTallies, GuardTallies, RepairTallies,
     CheckSqlTallies, ExecuteTallies, ProseTallies, CallFailsTallies DEF StageStep
<1>2. (call' = NoCall \/ call' = call) /\ setting' = setting
  BY StageStepCalls
<1>3. CallTallied'
  <2>1. NoCall.phase = "none" /\ NoCall.tries = 0 /\ NoCall.error = Null
    BY DEF NoCall
  <2> QED
    BY <1>2, <2>1, GeneratorAssumption DEF TallyInv, CallTallied, Phases
<1> QED
  BY <1>1, <1>2, <1>3 DEF Went, TallyInv

\* A step of a call makes at most one request, and that only when it sends.
LEMMA CallStepTallies ==
    ASSUME PipelineInv, TallyInv, Calls \/ (CallSteps /\ UNCHANGED q)
    PROVE  TallyInv' /\ q' = q /\ setting' = setting
<1>1. q' = q /\ setting' = setting /\ DOMAIN call = CallFields
  BY CallStepKeeps DEF PipelineInv, CallInv
<1>2. call.tries \in 0..(MaxRetries + 1) /\ MaxRetries \in Nat
  BY GeneratorAssumption DEF TallyInv, CallTallied
<1>3. CallTallied'
  <2>1. CASE Calls
    <3>1. /\ call'.tries = 0 /\ call'.error = Null
          /\ call'.phase \in {"look", "reserve", "send"}
      BY <2>1 DEF Calls, Generate, NoCall
    <3> QED
      BY <1>2, <3>1 DEF CallTallied, Phases
  <2>2. CASE Look \/ Reserve \/ Charge \/ Keep
    <3>1. /\ call.phase \in {"look", "reserve", "charge", "keep"}
          /\ call'.tries = call.tries
          /\ \/ call'.phase \in {"reserve", "charge", "send", "replied"} /\ call'.error = call.error
             \/ call'.phase = "failed" /\ call'.error = "BudgetExhausted"
          /\ call.phase = "keep" => call'.phase = "replied"
      BY <1>1, <2>2 DEF Look, Reserve, Charge, Keep, CallFields
    <3> QED
      BY <1>2, <3>1, GeneratorAssumption DEF TallyInv, CallTallied, Phases
  <2>3. CASE Request(Menu(q))
    <3>1. /\ call.phase = "send" /\ call'.tries = call.tries + 1
          /\ \/ call'.phase \in {"keep", "replied"} /\ call'.error = call.error
             \/ call'.phase = "send" /\ call'.error = call.error /\ call.tries < MaxRetries
             \/ call'.phase = "failed" /\ call'.error = "ProviderError"
      BY <1>1, <2>3 DEF Request, Replied, Raised, CallFields
    <3> QED
      BY <1>2, <3>1, GeneratorAssumption DEF TallyInv, CallTallied, Phases
  <2> QED
    BY <2>1, <2>2, <2>3 DEF CallSteps
<1> QED
  BY <1>1, <1>3 DEF TallyInv, Tallied, Formed, CallsMade, MaxCalls

\* A question that is left has made no call.
LEMMA FreshTallied ==
    /\ Fresh.retries = 0 /\ Fresh.rejected = 0 /\ Fresh.answer = Null /\ Fresh.raised = Null
    /\ Fresh.result = Null /\ Fresh.step = "idle"
BY DEF Fresh

\* The question in hand is left, or nothing of it moves.
LEMMA LeftTallies ==
    ASSUME TallyInv, q' \in {q, Fresh}, setting' = setting, call' \in {call, NoCall}
    PROVE  TallyInv'
<1>1. CallTallied'
  <2>1. NoCall.phase = "none" /\ NoCall.tries = 0 /\ NoCall.error = Null
    BY DEF NoCall
  <2> QED
    BY <2>1, GeneratorAssumption DEF TallyInv, CallTallied, Phases
<1>2. CASE q' = q
  BY <1>1, <1>2 DEF TallyInv, Tallied, Formed, CallsMade, MaxCalls
<1>3. CASE q' = Fresh
  <2>1. CallsMade(q)' = 0 /\ 0 <= MaxRetries * 0
    BY <1>3, FreshTallied, GeneratorAssumption DEF CallsMade
  <2>2. Tallied(q)' /\ Formed(q)'
    BY <1>3, <2>1, FreshTallied, GeneratorAssumption DEF Tallied, Formed, Unrefused, Prose, Working
  <2> QED
    BY <1>1, <1>3, <2>2 DEF TallyInv
<1> QED
  BY <1>2, <1>3

\* A process starts without a question or a call.
LEMMA TallyInit == Init => TallyInv
<1> SUFFICES ASSUME Init PROVE TallyInv
  OBVIOUS
<1>1. q = Fresh /\ call = NoCall /\ setting.narrate \in BOOLEAN
  BY SettingAssumption DEF Init
<1>2. CallTallied
  BY <1>1, GeneratorAssumption DEF CallTallied, NoCall, Phases
<1>3. CallsMade(q) = 0 /\ 0 <= MaxRetries * 0
  BY <1>1, FreshTallied, GeneratorAssumption DEF CallsMade
<1>4. Tallied(q) /\ Formed(q)
  BY <1>1, <1>3, FreshTallied, GeneratorAssumption DEF Tallied, Formed, Unrefused, Prose, Working
<1> QED
  BY <1>1, <1>2, <1>4 DEF TallyInv

\* A case that is asked, by a client or by a session.
LEMMA AskedTallies ==
    ASSUME PipelineInv, TallyInv, NEW x \in Questions, Ask(x)
    PROVE  TallyInv'
<1>1. /\ Tallied(q)' /\ Formed(q)' /\ q'.step # "idle"
      /\ setting' = setting /\ call' = call
  BY AskTallies
<1>2. CallTallied'
  BY <1>1 DEF TallyInv, CallTallied
<1> QED
  BY <1>1, <1>2 DEF TallyInv

\* Every step keeps the tallies.
LEMMA StepTallies ==
    ASSUME PipelineInv, TallyInv, [Next]_vars
    PROVE  TallyInv'
<1>1. CASE UNCHANGED vars \/ DayTurns
  BY <1>1, LeftTallies DEF vars, gvars, DayTurns, Midnight
<1>2. CASE Serve
  <2>1. CASE StartUp \/ Respond
    BY <2>1, LeftTallies DEF StartUp, Respond, gvars
  <2>2. CASE \E x \in Range(setting.cases) : PostAsk(x)
    <3>1. PICK x \in Questions : Ask(x)
      BY <2>2, OneHost DEF Range, PostAsk
    <3> QED
      BY <3>1, AskedTallies
  <2> QED
    BY <1>2, <2>1, <2>2 DEF Serve
<1>3. CASE Evaluate
  <2>1. CASE NextCase
    <3>1. PICK x \in Questions : Ask(x)
      BY <2>1, OneHost DEF NextCase, Pending
    <3> QED
      BY <3>1, AskedTallies
  <2>2. CASE Begin \/ LoadReferences \/ Abort \/ Build \/ Report
    BY <2>2, LeftTallies DEF Begin, LoadReferences, Abort, Build, Report, gvars
  <2>3. CASE Settle \/ Record \/ Crash \/ CrashInAppend
    BY <2>3, LeftTallies DEF Settle, Record, Crash, CrashInAppend, Dies, gvars
  <2> QED
    BY <1>3, <2>1, <2>2, <2>3 DEF Evaluate, SessionStep
<1>4. CASE AnswerStep
  BY <1>4, StageTallies, CallStepTallies DEF AnswerStep, StageStep
<1> QED
  BY <1>1, <1>2, <1>3, <1>4 DEF Next

\* The retries of a question fit the calls it has made.
THEOREM TallyHolds == Spec => []TallyInv
<1>1. PipelineInv /\ TallyInv /\ [Next]_vars => TallyInv'
  BY StepTallies
<1> QED
  BY TallyInit, <1>1, PipelineHolds, PTL DEF Spec

-----------------------------------------------------------------------------
(* Sums over days                                                          *)

\* A set of numbers that is not empty has a least one.
LEMMA HasFirst ==
    ASSUME NEW T \in SUBSET Nat, NEW n \in T
    PROVE  \E m \in T : \A k \in T : m <= k
<1> DEFINE R == OpToRel(<, Nat)
<1>1. IsWellFoundedOn(R, Nat)
  BY NatLessThanWellFounded
<1>2. \A x, y \in Nat : <<y, x>> \in R <=> y < x
  BY DEF OpToRel
<1> HIDE DEF R
<1>3. PICK m \in T : \A k \in T : ~(<<k, m>> \in R)
  BY <1>1, WFMin
<1>4. ASSUME NEW k \in T PROVE m <= k
  <2>1. k \in Nat /\ m \in Nat
    OBVIOUS
  <2>2. ~(k < m)
    BY <1>2, <1>3, <2>1
  <2> QED
    BY <2>1, <2>2
<1> QED
  BY <1>4

\* g is the running sum of f up to n.
Sums(g, f, n) ==
    /\ g \in [0..n -> Nat] /\ g[0] = 0
    /\ \A d \in 1..n : g[d] = g[d - 1] + f[d]

\* There is a running sum of every counter.
LEMMA SumsExist ==
    ASSUME NEW f \in [Days -> Nat], NEW n \in 0..LastDay
    PROVE  \E g : Sums(g, f, n)
<1> DEFINE T == {m \in 0..LastDay : ~ \E g : Sums(g, f, m)}
<1> SUFFICES ASSUME n \in T PROVE FALSE
  OBVIOUS
<1>1. PICK m \in T : \A k \in T : m <= k
  <2> T \in SUBSET Nat
    BY GeneratorAssumption
  <2> HIDE DEF T
  <2> QED
      BY HasFirst
<1>2. CASE m = 0
  <2>1. Sums([d \in 0..0 |-> 0], f, 0)
    BY DEF Sums
  <2> QED
    BY <1>2, <2>1
<1>3. CASE m # 0
  <2>1. m \in Nat /\ m - 1 \in 0..LastDay /\ m \in Days /\ m - 1 \notin T
    BY <1>1, <1>3, GeneratorAssumption DEF Days
  <2>2. PICK g : Sums(g, f, m - 1)
    BY <2>1
  <2> DEFINE h == [d \in 0..m |-> IF d = m THEN g[m - 1] + f[m] ELSE g[d]]
  <2>3. h \in [0..m -> Nat]
    <3>1. f[m] \in Nat /\ g[m - 1] \in Nat
      BY <2>1, <2>2 DEF Sums
    <3>2. \A d \in 0..m : d # m => g[d] \in Nat
      BY <2>1, <2>2 DEF Sums
    <3> QED
      BY <3>1, <3>2
  <2>4. h[0] = 0
    BY <1>3, <2>1, <2>2 DEF Sums
  <2>5. \A d \in 1..m : h[d] = h[d - 1] + f[d]
    <3> TAKE d \in 1..m
    <3>1. CASE d = m
      BY <2>1, <3>1
    <3>2. CASE d # m
      BY <2>1, <2>2, <3>2 DEF Sums
    <3> QED
      BY <3>1, <3>2
  <2>6. Sums(h, f, m)
    BY <2>3, <2>4, <2>5 DEF Sums
  <2> QED
    BY <1>1, <2>6
<1> QED
  BY <1>2, <1>3


\* Running sums are one function.
LEMMA SumsAgree ==
    ASSUME NEW f \in [Days -> Nat], NEW g, Sums(g, f, LastDay), NEW h,
           h = [d \in 0..LastDay |-> IF d = 0 THEN 0 ELSE h[d - 1] + f[d]]
    PROVE  h = g
<1> DEFINE T == {m \in 0..LastDay : h[m] # g[m]}
<1>1. ASSUME NEW n \in T PROVE FALSE
  <2>1. T \in SUBSET Nat
    BY GeneratorAssumption
  <2>2. PICK m \in T : \A k \in T : m <= k
    <3> HIDE DEF T
    <3> QED
      BY <1>1, <2>1, HasFirst
  <2>3. m # 0
    BY <2>2, GeneratorAssumption DEF Sums
  <2>4. m \in Nat /\ m - 1 \in 0..LastDay /\ m \in 1..LastDay /\ m - 1 \notin T
    BY <2>2, <2>3, GeneratorAssumption
  <2>5. h[m - 1] = g[m - 1]
    BY <2>4
  <2>6. h[m] = h[m - 1] + f[m]
    BY <2>3, <2>4
  <2>7. g[m] = g[m - 1] + f[m]
    BY <2>4 DEF Sums
  <2> QED
    BY <2>2, <2>5, <2>6, <2>7
<1>2. \A d \in 0..LastDay : h[d] = g[d]
  BY <1>1
<1>3. DOMAIN h = 0..LastDay /\ h = [d \in DOMAIN h |-> h[d]]
  OBVIOUS
<1>4. g = [d \in 0..LastDay |-> g[d]]
  BY DEF Sums
<1> QED
  BY <1>2, <1>3, <1>4

\* A total is the last of the running sums.
LEMMA TotalIsSum ==
    ASSUME NEW f \in [Days -> Nat], NEW g, Sums(g, f, LastDay)
    PROVE  Total(f) = g[LastDay]
<1> DEFINE P(h) == h = [d \in 0..LastDay |-> IF d = 0 THEN 0 ELSE h[d - 1] + f[d]]
           G == CHOOSE h : P(h)
<1>1. P(g)
  <2>1. g = [d \in 0..LastDay |-> g[d]]
    BY DEF Sums
  <2>2. \A d \in 0..LastDay : g[d] = IF d = 0 THEN 0 ELSE g[d - 1] + f[d]
    <3> TAKE d \in 0..LastDay
    <3>1. CASE d = 0
      BY <3>1 DEF Sums
    <3>2. CASE d # 0
      <4>1. d \in 1..LastDay
        BY <3>2, GeneratorAssumption
      <4> QED
        BY <3>2, <4>1 DEF Sums
    <3> QED
      BY <3>1, <3>2
  <2> QED
      BY <2>1, <2>2
<1>2. P(G)
  <2> HIDE DEF P
  <2> QED
      BY <1>1
<1>3. G = g
  <2> HIDE DEF G
  <2> QED
      BY <1>2, SumsAgree
<1>4. Total(f) = G[LastDay]
  BY DEF Total
<1> QED
      BY <1>3, <1>4

\* A total moves by what one of its counts moves.
LEMMA TotalMoves ==
    ASSUME NEW f \in [Days -> Nat], NEW e \in Days, NEW v \in Nat
    PROVE  /\ Total(f) \in Nat /\ Total([f EXCEPT ![e] = v]) \in Nat
           /\ Total([f EXCEPT ![e] = v]) + f[e] = Total(f) + v
<1> DEFINE r == [f EXCEPT ![e] = v]
<1>1. r \in [Days -> Nat] /\ r[e] = v /\ \A d \in Days : d # e => r[d] = f[d]
  OBVIOUS
<1> HIDE DEF r
<1>2. LastDay \in 0..LastDay /\ LastDay \in Nat
  BY GeneratorAssumption
<1>3. PICK g : Sums(g, f, LastDay)
  BY <1>2, SumsExist
<1>4. PICK h : Sums(h, r, LastDay)
  BY <1>1, <1>2, SumsExist
<1>5. Total(f) = g[LastDay] /\ Total(r) = h[LastDay]
  BY <1>1, <1>3, <1>4, TotalIsSum
<1>6. g \in [0..LastDay -> Nat] /\ h \in [0..LastDay -> Nat]
  BY <1>3, <1>4 DEF Sums
<1> DEFINE moved(m) == IF m < e THEN h[m] = g[m] ELSE h[m] + f[e] = g[m] + v
           T == {m \in 0..LastDay : ~moved(m)}
<1>7. ASSUME NEW n \in T PROVE FALSE
  <2>1. T \in SUBSET Nat /\ e \in Nat /\ e > 0
    BY GeneratorAssumption DEF Days
  <2>2. PICK m \in T : \A k \in T : m <= k
    <3> HIDE DEF T
    <3> QED
      BY <1>7, <2>1, HasFirst
  <2>3. m # 0
    BY <1>3, <1>4, <2>1, <2>2 DEF Sums
  <2>4. m \in Nat /\ m - 1 \in 0..LastDay /\ m \in 1..LastDay /\ m - 1 \notin T
    BY <2>2, <2>3, GeneratorAssumption
  <2>5. moved(m - 1)
    BY <2>4
  <2>6. g[m] = g[m - 1] + f[m] /\ h[m] = h[m - 1] + r[m]
    BY <1>3, <1>4, <2>4 DEF Sums
  <2>7. g[m] \in Nat /\ h[m] \in Nat /\ g[m - 1] \in Nat /\ h[m - 1] \in Nat /\ f[e] \in Nat
    BY <1>6, <2>4
  <2>8. m \in Days /\ f[m] \in Nat
    BY <2>4 DEF Days
  <2>9. moved(m)
    <3>1. CASE m < e
      BY <1>1, <2>1, <2>4, <2>5, <2>6, <2>7, <2>8, <3>1
    <3>2. CASE m = e
      BY <1>1, <2>1, <2>4, <2>5, <2>6, <2>7, <2>8, <3>2
    <3>3. CASE m > e
      BY <1>1, <2>1, <2>4, <2>5, <2>6, <2>7, <2>8, <3>3
    <3> QED
      BY <2>1, <2>4, <3>1, <3>2, <3>3
  <2> QED
    BY <2>2, <2>9
<1>8. moved(LastDay)
  BY <1>2, <1>7
<1> QED
  BY <1>2, <1>5, <1>6, <1>8 DEF r, Days

-----------------------------------------------------------------------------
(* The day's counter against the requests                                  *)

\* The retries of one case, those of the cases that died, the request of a call
\* that was reserved the day before, the request a reserved call is about to
\* make, and the retries that are not charged yet.
Excess == MaxRetries * MaxCalls
Lost == Excess * crashes
Late == IF day > 1 THEN 1 ELSE 0
Due == IF call.phase = "send" /\ call.tries = 0 THEN 1 ELSE 0
Uncharged == IF session.pc = "append" THEN 0 ELSE q.retries + Retries(call)

\* The counters and the requests are of days that have begun.
Books ==
    /\ day \in Days
    /\ used \in [Days -> Nat] /\ sent \in [Days -> Nat]
    /\ \A d \in Days : d > day => used[d] = 0 /\ sent[d] = 0
    /\ crashes \in Nat

\* What a reservation has read is the counter, or the day has turned since.
Reserved ==
    call.phase = "charge" =>
        /\ call.seen \in Nat /\ call.seen < setting.limit
        /\ \/ call.seen = used[day]
           \/ day > 1 /\ used[day] = 0 /\ sent[day] = 0

\* What was sent and not counted is retries not charged yet, or lost, or late.
Counted ==
    /\ sent[day] + Due <= used[day] + Lost + Uncharged + Late
    /\ call.phase = "send" => sent[day] + Due <= setting.limit + Lost + Uncharged + Late

\* As long as nothing dies and no day turns the counter is exact, and when a
\* day turns it is only ever too high.
Exact ==
    crashes = 0 =>
        /\ day = 1 => sent[1] + Due = used[1] + Uncharged
        /\ Total(sent) + Due <= Total(used) + Uncharged

\* A generator that is not wrapped counts nothing.
Unbudgeted ==
    /\ \A d \in Days : used[d] = 0 /\ sent[d] = 0
    /\ call.phase \notin {"look", "reserve", "charge"}

BudgetInv ==
    /\ Books
    /\ setting.layers = "plain" => Unbudgeted
    /\ setting.layers # "plain" => Reserved /\ Counted /\ Exact
    /\ OverdraftBounded

\* A question has at most the retries its calls may make.
TallyBounds ==
    /\ Retries(call) \in 0..MaxRetries /\ q.retries \in Nat /\ Excess \in Nat
    /\ Uncharged \in Nat /\ Uncharged <= Excess

\* The tallies bound the retries that are not charged yet.
LEMMA TallyNumbers == PipelineInv /\ TallyInv => TallyBounds
<1> SUFFICES ASSUME PipelineInv, TallyInv PROVE TallyBounds
  OBVIOUS
<1>1. MaxRetries \in Nat /\ MaxCalls \in Nat
  BY GeneratorAssumption DEF MaxCalls
<1>2. Excess \in Nat
  BY <1>1 DEF Excess
<1>3. Retries(call) \in 0..MaxRetries /\ q.retries \in Nat
  BY <1>1 DEF TallyInv, CallTallied, Tallied, Retries
<1>4. /\ q.retries <= MaxRetries * CallsMade(q) /\ q.step \in Steps /\ q.rejected \in 0..2
      /\ q.step \in Prose => setting.narrate
  BY DEF TallyInv, Tallied, PipelineInv, QuestionInv, Staged
<1>5. CallsMade(q) \in Nat
  BY <1>1, <1>4 DEF CallsMade, Steps
<1>6. \/ Retries(call) = 0 /\ CallsMade(q) <= MaxCalls
      \/ Retries(call) <= MaxRetries /\ CallsMade(q) + 1 <= MaxCalls
  <2>1. CASE call.phase = "none"
    BY <1>4, <2>1, NoneRetried DEF CallsMade, MaxCalls, Steps, Prose
  <2>2. CASE call.phase # "none"
    <3>1. q.step \in CallStages
      BY <2>2 DEF PipelineInv, CallInv
    <3>2. CallsMade(q) \in 0..3 /\ (~setting.narrate => CallsMade(q) \in 0..2)
      BY <1>4, <3>1 DEF CallsMade, CallStages, Prose
    <3>3. CallsMade(q) + 1 <= MaxCalls
      BY <3>2 DEF MaxCalls
    <3> QED
      BY <1>3, <3>3
  <2> QED
    BY <2>1, <2>2
<1>7. q.retries + Retries(call) <= Excess
  BY <1>1, <1>3, <1>4, <1>5, <1>6, Room DEF Excess
<1> QED
  BY <1>2, <1>3, <1>7 DEF TallyBounds, Uncharged

\* The numbers the bounds are made of.
LEMMA BudgetNumbers ==
    ASSUME PipelineInv, TallyInv, BudgetInv
    PROVE  /\ Excess \in Nat /\ Lost \in Nat /\ Late \in {0, 1} /\ Due \in {0, 1}
           /\ Retries(call) \in 0..MaxRetries /\ q.retries \in Nat
           /\ Uncharged \in Nat /\ Uncharged <= Excess
           /\ setting.limit \in Nat /\ used[day] \in Nat /\ sent[day] \in Nat
           /\ MaxRetries * MaxCalls * (1 + crashes) = Excess + Lost
           /\ Total(used) \in Nat /\ Total(sent) \in Nat
<1>1. crashes \in Nat /\ setting \in Settings /\ Excess \in Nat
  BY TallyNumbers DEF TallyBounds, BudgetInv, Books, PipelineInv, HostInv
<1>2. Lost \in Nat
  BY <1>1 DEF Lost
<1>3. MaxRetries * MaxCalls * (1 + crashes) = Excess + Lost
  <2>1. \A e \in Nat : e * (1 + crashes) = e + e * crashes
    BY <1>1
  <2> QED
    BY <1>1, <2>1 DEF Excess, Lost
<1>4. /\ setting.limit \in Nat /\ used[day] \in Nat /\ sent[day] \in Nat
      /\ Late \in {0, 1} /\ Due \in {0, 1}
  BY <1>1, SettingAssumption DEF BudgetInv, Books, Late, Due
<1>5. Total(used) \in Nat /\ Total(sent) \in Nat
  BY <1>4, TotalMoves DEF BudgetInv, Books
<1> QED
  BY <1>1, <1>2, <1>3, <1>4, <1>5, TallyNumbers DEF TallyBounds

\* What OverdraftBounded says of a day.
LEMMA HeldNumbers ==
    ASSUME PipelineInv, TallyInv, BudgetInv, NEW d \in Days
    PROVE  /\ sent[d] \in Nat
           /\ sent[d] <= setting.limit + (Excess + Lost) + (IF d > 1 THEN 1 ELSE 0)
BY BudgetNumbers DEF BudgetInv, Books, OverdraftBounded

\* A step of the generator, of the pipeline or of a session that neither sends
\* nor counts keeps the books.
LEMMA QuietKeepsBooks ==
    ASSUME PipelineInv, TallyInv, BudgetInv,
           setting' = setting, day' = day, used' = used, sent' = sent, crashes' = crashes,
           setting.layers # "plain" =>
                /\ Uncharged' = Uncharged /\ Due' = Due
                /\ call'.phase = "send" => call.phase = "send"
                /\ Reserved',
           setting.layers = "plain" => call'.phase \notin {"look", "reserve", "charge"}
    PROVE  BudgetInv'
<1>1. Lost' = Lost /\ Late' = Late
  BY DEF Lost, Excess, MaxCalls, Late
<1>2. Books' /\ OverdraftBounded'
  BY DEF BudgetInv, Books, OverdraftBounded, MaxCalls
<1>3. setting.layers # "plain" => Counted' /\ Exact'
  BY <1>1 DEF BudgetInv, Counted, Exact
<1>4. setting.layers = "plain" => Unbudgeted'
  BY DEF BudgetInv, Unbudgeted
<1> QED
  BY <1>2, <1>3, <1>4 DEF BudgetInv

\* A reservation is written: eval/budget.py, reserve.
LEMMA ChargeKeepsBooks ==
    ASSUME PipelineInv, TallyInv, BudgetInv, Charge, UNCHANGED <<q, rvars>>
    PROVE  BudgetInv'
<1>1. /\ setting' = setting /\ day' = day /\ sent' = sent /\ crashes' = crashes
      /\ session' = session /\ call.phase = "charge" /\ q' = q
      /\ used' = [used EXCEPT ![day] = call.seen + 1]
      /\ call'.phase = "send" /\ call'.tries = call.tries
  BY DEF Charge, rvars, PipelineInv, CallInv, CallFields
<1>2. call.tries = 0 /\ setting.layers # "plain"
  BY <1>1 DEF TallyInv, CallTallied, BudgetInv, Unbudgeted
<1>3. /\ Due = 0 /\ Due' = 1 /\ Uncharged' = Uncharged /\ Lost' = Lost /\ Late' = Late
      /\ Retries(call) = 0
  BY <1>1, <1>2 DEF Due, Uncharged, Retries, Lost, Excess, MaxCalls, Late
<1>4. /\ call.seen \in Nat /\ call.seen < setting.limit
      /\ \/ call.seen = used[day]
         \/ day > 1 /\ used[day] = 0 /\ sent[day] = 0
      /\ day \in Days /\ used \in [Days -> Nat] /\ sent \in [Days -> Nat] /\ LastDay \in Nat
  BY <1>1, <1>2, GeneratorAssumption DEF BudgetInv, Books, Reserved
<1>5. used'[day] = call.seen + 1 /\ used' \in [Days -> Nat]
  BY <1>1, <1>4
<1>6. Books'
  BY <1>1, <1>4, <1>5 DEF BudgetInv, Books, Days
<1>7. Counted'
  <2>1. sent[day] + Due <= used[day] + Lost + Uncharged + Late
    BY <1>2 DEF BudgetInv, Counted
  <2>2. sent[day] + 1 <= (call.seen + 1) + Lost + Uncharged + Late
    BY <1>3, <1>4, <2>1, BudgetNumbers
  <2>3. sent[day] + 1 <= setting.limit + Lost + Uncharged + Late
    BY <1>4, <2>2, BudgetNumbers
  <2> QED
    BY <1>1, <1>3, <1>5, <2>2, <2>3 DEF Counted
<1>8. Exact'
  <2> DEFINE v == call.seen + 1
             w == [used EXCEPT ![day] = v]
  <2>4. v \in Nat /\ used' = w
    BY <1>1, <1>4
  <2> HIDE DEF v
  <2>5. Total(w) + used[day] = Total(used) + v /\ Total(w) \in Nat
    BY <1>4, <2>4, TotalMoves
  <2> HIDE DEF w
  <2>1. Total(used') + used[day] = Total(used) + (call.seen + 1) /\ Total(used') \in Nat
    BY <2>4, <2>5 DEF v
  <2>2. Total(used') >= Total(used) + 1
    BY <1>4, <2>1, BudgetNumbers
  <2>3. day = 1 => call.seen = used[1]
    BY <1>4
  <2> QED
    BY <1>1, <1>2, <1>3, <1>5, <2>1, <2>2, <2>3, BudgetNumbers DEF BudgetInv, Exact
<1>9. OverdraftBounded'
  BY <1>1 DEF BudgetInv, OverdraftBounded, MaxCalls
<1> QED
  BY <1>1, <1>2, <1>6, <1>7, <1>8, <1>9 DEF BudgetInv, Reserved

\* A request goes out, the first of a reserved call or a retry.
LEMMA RequestKeepsBooks ==
    ASSUME PipelineInv, TallyInv, BudgetInv, PipelineInv', TallyInv', Request(Menu(q)), UNCHANGED <<q, rvars>>
    PROVE  BudgetInv'
<1>1. /\ setting' = setting /\ day' = day /\ used' = used /\ crashes' = crashes
      /\ session' = session /\ call.phase = "send" /\ q' = q
      /\ sent' = IF setting.layers = "plain" THEN sent ELSE [sent EXCEPT ![day] = @ + 1]
      /\ call'.tries = call.tries + 1
      /\ call'.phase \in {"send", "keep", "replied", "failed"}
  BY DEF Request, Replied, Raised, rvars, PipelineInv, CallInv, CallFields
<1>2. call.tries \in Nat /\ session.pc # "append"
  BY <1>1, OneHost, GeneratorAssumption DEF TallyInv, CallTallied
<1>3. CASE setting.layers = "plain"
  BY <1>1, <1>3 DEF BudgetInv, Books, Unbudgeted, OverdraftBounded, MaxCalls
<1>4. CASE setting.layers # "plain"
  <2>1. /\ Due' = 0 /\ Lost' = Lost /\ Late' = Late /\ Excess' = Excess
        /\ Uncharged' = Uncharged + (1 - Due)
    BY <1>1, <1>2, BudgetNumbers DEF Due, Uncharged, Retries, Lost, Excess, MaxCalls, Late
  <2>2. day \in Days /\ sent \in [Days -> Nat] /\ LastDay \in Nat
    BY GeneratorAssumption DEF BudgetInv, Books
  <2>3. sent'[day] = sent[day] + 1 /\ sent' \in [Days -> Nat]
    BY <1>1, <1>4, <2>2
  <2>4. Books'
    BY <1>1, <1>4, <2>2, <2>3 DEF BudgetInv, Books, Days
  <2>5. Counted'
    BY <1>1, <1>4, <2>1, <2>3, BudgetNumbers DEF BudgetInv, Counted
  <2>6. Exact'
    <3> DEFINE v == sent[day] + 1
               w == [sent EXCEPT ![day] = v]
    <3>3. v \in Nat /\ sent' = w
      BY <1>1, <1>4, <2>2
    <3> HIDE DEF v
    <3>4. Total(w) + sent[day] = Total(sent) + v /\ Total(w) \in Nat
      BY <2>2, <3>3, TotalMoves
    <3> HIDE DEF w
    <3>1. Total(sent') + sent[day] = Total(sent) + (sent[day] + 1) /\ Total(sent') \in Nat
      BY <3>3, <3>4 DEF v
    <3>2. Total(sent') = Total(sent) + 1
      BY <3>1, BudgetNumbers
    <3> QED
      BY <1>1, <1>4, <2>1, <2>3, <3>2, BudgetNumbers DEF BudgetInv, Exact
  <2>7. OverdraftBounded'
    <3> SUFFICES ASSUME NEW d \in Days
                 PROVE  sent'[d] <= setting.limit + (Excess + Lost) + (IF d > 1 THEN 1 ELSE 0)
      BY <1>1, BudgetNumbers DEF OverdraftBounded, MaxCalls
    <3>1. CASE d = day
      <4>1. sent[day] + Due <= setting.limit + Lost + Uncharged + Late
        BY <1>1, <1>4 DEF BudgetInv, Counted
      <4>2. Uncharged' \in Nat /\ Uncharged' <= Excess'
        <5>1. TallyBounds'
          BY TallyNumbers, PTL
        <5> QED
          BY <5>1 DEF TallyBounds
      <4> QED
        BY <2>1, <2>3, <3>1, <4>1, <4>2, BudgetNumbers DEF Late
    <3>2. CASE d # day
      BY <1>1, <1>4, <2>2, <3>2, HeldNumbers
    <3> QED
      BY <3>1, <3>2
  <2> QED
    BY <1>1, <1>4, <2>4, <2>5, <2>6, <2>7 DEF BudgetInv, Reserved
<1> QED
  BY <1>3, <1>4

\* A new day begins with a counter and requests of its own.
LEMMA MidnightKeepsBooks ==
    ASSUME PipelineInv, TallyInv, BudgetInv, DayTurns, UNCHANGED <<svars, rvars>>
    PROVE  BudgetInv'
<1>1. /\ setting' = setting /\ used' = used /\ sent' = sent /\ call' = call /\ q' = q
      /\ crashes' = crashes /\ session' = session
      /\ day + 1 \in Days /\ day' = day + 1
  BY DEF DayTurns, Midnight, rvars
<1>2. day \in Nat /\ day >= 1 /\ Days \subseteq Nat /\ day \in Days
  BY GeneratorAssumption DEF BudgetInv, Books, Days
<1>3. used[day'] = 0 /\ sent[day'] = 0 /\ day' > 1 /\ day' \in Days
  BY <1>1, <1>2 DEF BudgetInv, Books
<1>4. Books'
  BY <1>1, <1>2, <1>3 DEF BudgetInv, Books
<1>5. OverdraftBounded'
  BY <1>1 DEF BudgetInv, OverdraftBounded, MaxCalls
<1>6. setting.layers = "plain" => Unbudgeted'
  BY <1>1 DEF BudgetInv, Unbudgeted
<1>7. Late' = 1 /\ Due' = Due /\ Uncharged' = Uncharged /\ Lost' = Lost
  BY <1>1, <1>3 DEF Late, Due, Uncharged, Lost, Excess, MaxCalls
<1>8. setting.layers # "plain" => Reserved' /\ Counted' /\ Exact'
  <2> SUFFICES ASSUME setting.layers # "plain" PROVE Reserved' /\ Counted' /\ Exact'
    OBVIOUS
  <2>1. Reserved'
    BY <1>1, <1>3 DEF BudgetInv, Reserved
  <2>2. Counted'
    BY <1>1, <1>3, <1>7, BudgetNumbers DEF Counted
  <2>3. Exact'
    BY <1>1, <1>3, <1>7 DEF BudgetInv, Exact
  <2> QED
    BY <2>1, <2>2, <2>3
<1> QED
  BY <1>1, <1>4, <1>5, <1>6, <1>8 DEF BudgetInv

\* The retries of a case are charged when it is over: eval/runner.py, _reconcile.
LEMMA SettleKeepsBooks ==
    ASSUME PipelineInv, TallyInv, BudgetInv, Settle
    PROVE  BudgetInv'
<1>1. /\ setting' = setting /\ day' = day /\ sent' = sent /\ call' = call /\ crashes' = crashes
      /\ session.pc = "cases" /\ q.step = "done" /\ call.phase = "none"
      /\ used' = [used EXCEPT ![day] = @ + q.retries]
      /\ \/ q' = Fresh
         \/ session'.pc = "append" /\ q' = q
  BY OneHost DEF Settle, Reconciled, PipelineInv, HostInv
<1>2. Retries(call) = 0 /\ Due = 0 /\ Due' = 0 /\ Uncharged = q.retries /\ q.retries \in Nat
      /\ Lost' = Lost /\ Late' = Late
  BY <1>1, NoneRetried, BudgetNumbers DEF Due, Uncharged, Lost, Excess, MaxCalls, Late
<1>3. Uncharged' = 0
  <2>1. Retries(call)' = 0
    BY <1>1, <1>2
  <2> QED
    BY <1>1, <2>1, FreshTallied DEF Uncharged
<1>4. setting.layers # "plain"
  BY <1>1, SettingAssumption DEF PipelineInv, HostInv
<1>5. day \in Days /\ used \in [Days -> Nat] /\ sent \in [Days -> Nat] /\ LastDay \in Nat
  BY GeneratorAssumption DEF BudgetInv, Books
<1>6. used'[day] = used[day] + q.retries /\ used' \in [Days -> Nat]
  BY <1>1, <1>2, <1>5
<1>7. Books'
  BY <1>1, <1>5, <1>6 DEF BudgetInv, Books, Days
<1>8. Counted'
  BY <1>1, <1>2, <1>3, <1>4, <1>6, BudgetNumbers DEF BudgetInv, Counted
<1>9. Exact'
  <2> DEFINE v == used[day] + q.retries
             w == [used EXCEPT ![day] = v]
  <2>1. v \in Nat /\ used' = w
    BY <1>1, <1>2, <1>5
  <2> HIDE DEF v
  <2>2. Total(w) + used[day] = Total(used) + v /\ Total(w) \in Nat
    BY <1>5, <2>1, TotalMoves
  <2> HIDE DEF w
  <2>3. Total(used') = Total(used) + q.retries
    BY <2>1, <2>2, BudgetNumbers DEF v
  <2> QED
    BY <1>1, <1>2, <1>3, <1>4, <1>5, <1>6, <2>3, BudgetNumbers DEF BudgetInv, Exact
<1>10. OverdraftBounded'
  BY <1>1 DEF BudgetInv, OverdraftBounded, MaxCalls
<1> QED
  BY <1>1, <1>4, <1>7, <1>8, <1>9, <1>10 DEF BudgetInv, Reserved

\* What the case in hand has not been charged for dies with the process.
LEMMA DeathKeepsBooks ==
    ASSUME PipelineInv, TallyInv, BudgetInv, Dies
    PROVE  BudgetInv'
<1>1. /\ setting' = setting /\ day' = day /\ used' = used /\ sent' = sent
      /\ crashes' = crashes + 1 /\ q' = Fresh /\ call' = NoCall /\ crashes \in Nat
  BY DEF Dies, BudgetInv, Books
<1>2. call'.phase = "none" /\ call'.tries = 0 /\ Due' = 0 /\ Late' = Late
  BY <1>1 DEF NoCall, Due, Late
<1>3. Excess' = Excess /\ Lost' = Lost + Excess
  <2>1. \A e \in Nat : e * (crashes + 1) = e * crashes + e
    BY <1>1
  <2> QED
    BY <1>1, <2>1, BudgetNumbers DEF Lost, Excess, MaxCalls
<1>4. Uncharged' \in Nat
  BY <1>1, <1>2, FreshTallied DEF Uncharged, Retries
<1>5. Books' /\ (setting.layers = "plain" => Unbudgeted')
  BY <1>1, <1>2 DEF BudgetInv, Books, Unbudgeted
<1>6. setting.layers # "plain" => Counted'
  BY <1>1, <1>2, <1>3, <1>4, BudgetNumbers DEF BudgetInv, Counted
<1>7. OverdraftBounded'
  <2> SUFFICES ASSUME NEW d \in Days
               PROVE  sent[d] <= setting.limit + (Excess + Lost + Excess)
                                    + (IF d > 1 THEN 1 ELSE 0)
    <3>1. \A e \in Nat : e * (1 + (crashes + 1)) = e + e * crashes + e
      BY <1>1
    <3>2. (MaxRetries * MaxCalls * (1 + crashes))' = Excess + Lost + Excess
      BY <1>1, <3>1, BudgetNumbers DEF Excess, Lost, MaxCalls
    <3> QED
      BY <1>1, <3>2 DEF OverdraftBounded
  <2> QED
    BY HeldNumbers, BudgetNumbers
<1> QED
  BY <1>1, <1>2, <1>5, <1>6, <1>7 DEF BudgetInv, Reserved, Exact

\* A process starts with empty books.
LEMMA BudgetInit == Init => BudgetInv
<1> SUFFICES ASSUME Init PROVE BudgetInv
  OBVIOUS
<1>1. /\ day = 1 /\ used = [d \in Days |-> 0] /\ sent = [d \in Days |-> 0] /\ crashes = 0
      /\ call = NoCall /\ q = Fresh /\ setting \in Settings
  BY DEF Init
<1>2. Books /\ sent[day] = 0 /\ used[day] = 0 /\ used = sent
  BY <1>1, GeneratorAssumption DEF Books, Days
<1>3. call.phase = "none" /\ call.tries = 0 /\ Retries(call) = 0 /\ Due = 0
  BY <1>1 DEF NoCall, Due, Retries
<1>4. Uncharged = 0 /\ Late = 0
  BY <1>1, <1>3, FreshTallied DEF Uncharged, Late
<1>5. Excess \in Nat /\ Lost = 0 /\ setting.limit \in Nat
  <2>1. Excess \in Nat
    BY GeneratorAssumption DEF Excess, MaxCalls
  <2> QED
    BY <1>1, <2>1, SettingAssumption DEF Lost
<1>6. Total(used) \in Nat /\ Total(sent) = Total(used)
  BY <1>2, TotalMoves DEF Books
<1>7. Counted /\ Exact /\ Reserved /\ Unbudgeted
  BY <1>1, <1>2, <1>3, <1>4, <1>5, <1>6 DEF Counted, Exact, Reserved, Unbudgeted
<1>8. OverdraftBounded
  <2>1. MaxRetries * MaxCalls * (1 + crashes) = Excess
    BY <1>1, <1>5 DEF Excess
  <2> QED
    BY <1>1, <1>5, <2>1 DEF OverdraftBounded
<1> QED
  BY <1>2, <1>7, <1>8 DEF BudgetInv

\* A question is asked when nothing is uncharged.
LEMMA AskKeepsBooks ==
    ASSUME PipelineInv, TallyInv, BudgetInv, NEW x \in Questions, Ask(x),
           session' = session, crashes' = crashes
    PROVE  BudgetInv'
<1>1. /\ q'.retries = 0 /\ q = Fresh
      /\ call' = call /\ call.phase = "none"
      /\ setting' = setting /\ day' = day /\ used' = used /\ sent' = sent
  BY AskTallies DEF Ask, At, Does, gvars, TallyInv
<1>2. Uncharged' = Uncharged /\ Due' = Due /\ Reserved'
  BY <1>1, FreshTallied DEF Uncharged, Due, Reserved
<1> QED
  BY <1>1, <1>2, QuietKeepsBooks

\* A stage counts what its call retried, and sends nothing.
LEMMA StageKeepsBooks ==
    ASSUME PipelineInv, TallyInv, BudgetInv, StageStep, UNCHANGED rvars
    PROVE  BudgetInv'
<1>1. /\ setting' = setting /\ day' = day /\ used' = used /\ sent' = sent
      /\ crashes' = crashes /\ session' = session
      /\ call.phase \in {"none", "replied", "failed"}
  BY DEF rvars, StageStep, Retrieve, RouteLexically, RouteByModel, RouteByDefault, GenerateSql,
     Guard, Repair, GuardAgain, CheckSql, Execute, Narrate, AnswerConceptual, CallFails,
     At, Answered, Does, Ended, gvars
<1>2. /\ call'.phase = "none" /\ Retries(call)' = 0 /\ Due' = 0 /\ Due = 0 /\ Reserved'
  <2>1. NoCall.phase = "none" /\ NoCall.tries = 0
    BY DEF NoCall
  <2>2. call' = NoCall \/ (call' = call /\ call.phase = "none")
    BY StageStepCalls
  <2>3. Retries(call)' = 0
    BY <2>1, <2>2, NoneRetried DEF Retries
  <2> QED
    BY <1>1, <2>1, <2>2, <2>3 DEF Due, Reserved
<1>3. q'.retries = q.retries + Retries(call)
  BY StageTallies DEF Went
<1>4. Uncharged' = Uncharged
  BY <1>1, <1>2, <1>3, BudgetNumbers DEF Uncharged
<1> QED
  BY <1>1, <1>2, <1>4, QuietKeepsBooks

\* A call that neither writes the counter nor makes a request.
LEMMA CallKeepsBooks ==
    ASSUME PipelineInv, TallyInv, BudgetInv, UNCHANGED rvars, q' = q,
           Calls \/ Look \/ Reserve \/ Keep
    PROVE  BudgetInv'
<1>1. /\ setting' = setting /\ day' = day /\ used' = used /\ sent' = sent
      /\ crashes' = crashes /\ session' = session
  BY DEF rvars, Calls, Look, Reserve, Keep
<1>2. CASE Calls
  <2>1. /\ call.phase = "none" /\ call'.tries = 0
        /\ call'.phase \in {"look", "reserve", "send"}
        /\ call'.phase = "send" <=> setting.layers \notin {"budget", "cache"}
    BY <1>2 DEF Calls, Generate, NoCall
  <2>2. setting.layers \in {"plain", "budget", "cache"}
    BY SettingAssumption DEF PipelineInv, HostInv
  <2>3. Retries(call) = 0 /\ Retries(call)' = 0
    BY <2>1, NoneRetried DEF Retries
  <2>4. Uncharged' = Uncharged
    BY <1>1, <2>3 DEF Uncharged
  <2> QED
    BY <1>1, <2>1, <2>2, <2>4, QuietKeepsBooks DEF Due, Reserved
<1>3. CASE Look \/ Reserve \/ Keep
  <2>1. /\ call'.tries = call.tries /\ call.phase # "send" /\ call'.phase # "send"
        /\ setting.layers = "plain" => call'.phase \notin {"look", "reserve", "charge"}
        /\ call'.phase = "charge" => call.phase = "reserve" /\ ~Spent(used[day]) /\ call'.seen = used[day]
    BY <1>3 DEF Look, Reserve, Keep, PipelineInv, CallInv, CallFields, BudgetInv, Unbudgeted
  <2>2. Uncharged' = Uncharged /\ Due' = Due
    BY <1>1, <2>1 DEF Uncharged, Due, Retries
  <2>3. Reserved'
    BY <1>1, <2>1, BudgetNumbers DEF Reserved, Spent
  <2> QED
    BY <1>1, <2>1, <2>2, <2>3, QuietKeepsBooks
<1> QED
  BY <1>2, <1>3

\* What a session does between its cases neither sends nor counts.
LEMMA SessionKeepsBooks ==
    ASSUME PipelineInv, TallyInv, BudgetInv,
           Begin \/ LoadReferences \/ Abort \/ Build \/ Record \/ Report
    PROVE  BudgetInv'
<1>1. /\ setting' = setting /\ day' = day /\ used' = used /\ sent' = sent
      /\ crashes' = crashes /\ call' = call
  BY DEF Begin, LoadReferences, Abort, Build, Record, Report, Goto, gvars
<1>2. /\ session'.pc # "append"
      /\ \/ q' = q /\ session.pc # "append"
         \/ q' = Fresh /\ session.pc = "append"
  <2>1. NoSession.pc = "off" /\ [NoSession EXCEPT !.pc = "references", !.began = tail].pc = "references"
    BY DEF NoSession
  <2>2. CASE Begin \/ Abort
    BY <2>1, <2>2 DEF Begin, Abort
  <2>3. CASE LoadReferences \/ Build \/ Record \/ Report
    BY <2>3 DEF LoadReferences, Build, Record, Report, Goto, PipelineInv, HostInv
  <2> QED
    BY <2>2, <2>3
<1>3. session.pc = "append" => Retries(call) = 0
  BY OneHost, NoneRetried
<1>4. Uncharged' = Uncharged
  <2>1. Retries(call)' = Retries(call)
    BY <1>1
  <2> QED
    BY <1>2, <1>3, <2>1, FreshTallied DEF Uncharged
<1> QED
  BY <1>1, <1>4, QuietKeepsBooks DEF Due, Reserved, BudgetInv, Unbudgeted

\* Every step keeps the books.
LEMMA StepKeepsBooks ==
    ASSUME PipelineInv, TallyInv, BudgetInv, [Next]_vars
    PROVE  BudgetInv'
<1>1. PipelineInv' /\ TallyInv'
  BY StepKeeps, StepTallies
<1>2. CASE Serve
  <2>1. CASE \E x \in Range(setting.cases) : PostAsk(x) /\ UNCHANGED rvars
    <3>1. PICK x \in Questions : Ask(x) /\ UNCHANGED rvars
      BY <2>1, OneHost DEF Range, PostAsk
    <3> QED
      BY <3>1, AskKeepsBooks DEF rvars
  <2>2. CASE (StartUp \/ Respond) /\ UNCHANGED rvars
    <3>1. /\ setting' = setting /\ day' = day /\ used' = used /\ sent' = sent
          /\ crashes' = crashes /\ call' = call
      BY <2>2 DEF StartUp, Respond, gvars, rvars
    <3>2. setting.layers = "plain"
      BY <2>2, SettingAssumption DEF StartUp, Respond, PipelineInv, HostInv
    <3> QED
      BY <3>1, <3>2, QuietKeepsBooks DEF BudgetInv, Unbudgeted
  <2> QED
    BY <1>2, <2>1, <2>2 DEF Serve
<1>3. CASE Evaluate
  <2>1. CASE NextCase
    <3>1. PICK x \in Questions : Ask(x)
      BY <2>1, OneHost DEF NextCase, Pending
    <3> QED
      BY <2>1, <3>1, AskKeepsBooks DEF NextCase, rvars
  <2>2. CASE Crash \/ CrashInAppend
    BY <2>2, DeathKeepsBooks DEF Crash, CrashInAppend
  <2> QED
    BY <1>3, <2>1, <2>2, SettleKeepsBooks, SessionKeepsBooks DEF Evaluate, SessionStep
<1>4. CASE AnswerStep /\ UNCHANGED <<svars, rvars>>
  <2>1. CASE Calls \/ (CallSteps /\ UNCHANGED q)
    <3>1. q' = q
      BY <2>1 DEF Calls
    <3> QED
      BY <1>1, <1>4, <2>1, <3>1, CallKeepsBooks, ChargeKeepsBooks, RequestKeepsBooks DEF CallSteps
  <2> QED
    BY <1>4, <2>1, StageKeepsBooks DEF AnswerStep, StageStep
<1>5. CASE DayTurns /\ UNCHANGED <<svars, rvars>>
  BY <1>5, MidnightKeepsBooks
<1>6. CASE UNCHANGED vars
  BY <1>6, QuietKeepsBooks DEF vars, gvars, rvars, Uncharged, Due, Reserved, BudgetInv, Unbudgeted
<1> QED
  BY <1>2, <1>3, <1>4, <1>5, <1>6 DEF Next

-----------------------------------------------------------------------------
(* The theorems                                                            *)

\* BudgetInv is inductive, given the tallies of the question in hand.
THEOREM BudgetHolds == Spec => []BudgetInv
<1>1. PipelineInv /\ TallyInv /\ BudgetInv /\ [Next]_vars => BudgetInv'
  BY StepKeepsBooks
<1> QED
  BY BudgetInit, <1>1, PipelineHolds, TallyHolds, PTL DEF Spec

\* However often a provider is throttled, a session dies or the day turns, a
\* day's requests exceed the allowance by no more than the retries of one case,
\* those of the cases that died and one late call: eval/budget.py, reserve and
\* charge_retries, with eval/runner.py, _reconcile.
THEOREM OverdraftHolds == Spec => []OverdraftBounded
<1>1. BudgetInv => OverdraftBounded
  BY DEF BudgetInv
<1> QED
  BY <1>1, BudgetHolds, PTL

\* Between two cases of a run in which nothing died the counter is what the
\* provider has counted, or, when a day has turned, not below it.
THEOREM SpentHolds == Spec => []SpentIsCharged
<1>1. PipelineInv /\ TallyInv /\ BudgetInv => SpentIsCharged
  <2> SUFFICES ASSUME PipelineInv, TallyInv, BudgetInv, crashes = 0, q.step = "idle"
               PROVE  /\ day = 1 => used[1] = sent[1]
                      /\ Total(used) >= Total(sent)
    BY DEF SpentIsCharged
  <2>1. /\ q.retries = 0 /\ call.phase = "none" /\ Due = 0
    BY FreshTallied DEF TallyInv, PipelineInv, CallInv, CallStages, Due
  <2>2. Uncharged = 0
    BY <2>1, NoneRetried DEF Uncharged
  <2>3. CASE setting.layers = "plain"
    <3>1. used = sent
      BY <2>3 DEF BudgetInv, Books, Unbudgeted
    <3> QED
      BY <3>1, BudgetNumbers
  <2>4. CASE setting.layers # "plain"
    <3>1. day = 1 => used[1] \in Nat /\ sent[1] \in Nat
      BY BudgetNumbers
    <3> QED
      BY <2>1, <2>2, <2>4, <3>1, BudgetNumbers DEF BudgetInv, Exact
  <2> QED
    BY <2>3, <2>4
<1> QED
  BY <1>1, PipelineHolds, TallyHolds, BudgetHolds, PTL

-----------------------------------------------------------------------------
(* What a session leaves in its file                                       *)

Underway == {"cases", "append", "report"}

\* The case in hand is one of the cases and was not recorded before; there is
\* one only while a server or a session works on it.
InHand ==
    /\ session.pc \notin {"cases", "append"} /\ server # "up" => q = Fresh
    /\ session.pc # "off" /\ q.step # "idle" => q.id \in Cases \ session.skip

\* A verdict is there to be appended, and is that of the case in hand.
InAppend ==
    /\ session.verdict # Null <=> session.pc = "append"
    /\ session.verdict # Null => session.verdict \in Verdicts /\ session.verdict.id = q.id

\* A last line cut short is no record, and there is one.
Filed ==
    /\ lines \in Seq(Verdicts \cup {Garbage})
    /\ tail # "newline" => lines # <<>>
    /\ tail = "part" => lines[Len(lines)] = Garbage

\* No more cases than the first append of a session may cost.
Within(lost, began) ==
    /\ began = "newline" => lost = {}
    /\ began = "part" => \E a : lost \subseteq {a}
    /\ began = "whole" => \E a, b : lost \subseteq {a, b}

\* What is recorded is skipped; what is skipped is recorded, but for what the
\* first append of the session has cost.
Skipped ==
    /\ session.pc \in {"references", "build"} => tail = session.began
    /\ session.pc \in Underway =>
        /\ CompletedIds \subseteq session.skip
        /\ \/ tail = session.began /\ session.skip = CompletedIds
           \/ tail = "newline" /\ Within(session.skip \ CompletedIds, session.began)

\* A session stops at a case it has not recorded, and reports it missing.
Stopping ==
    /\ session.pc # "off" => (session.stopped <=> session.pc = "report")
    /\ session.pc = "report" => ~(Cases \subseteq CompletedIds)

SessionFields == {"pc", "skip", "began", "stopped", "verdict"}

SessionInv ==
    /\ DOMAIN session = SessionFields
    /\ session.pc \in {"off", "references", "build"} \cup Underway
    /\ {tail, session.began} \subseteq {"newline", "part", "whole"}
    /\ InHand /\ InAppend /\ Filed /\ Skipped /\ Stopping
    /\ TornLineCostsItsCases

-----------------------------------------------------------------------------
(* The results file                                                        *)

\* What a file of lines records.
RecordsOf(file) == {file[i] : i \in {j \in DOMAIN file : file[j] # Garbage}}

\* A line after a whole line is one more line.
LEMMA AppendRecords ==
    ASSUME NEW S, NEW file \in Seq(S), NEW line
    PROVE  RecordsOf(Append(file, line)) =
                RecordsOf(file) \cup (IF line = Garbage THEN {} ELSE {line})
<1> DEFINE g == Append(file, line)
           n == Len(file)
<1>1. n \in Nat /\ DOMAIN file = 1..n
  OBVIOUS
<1>2. Len(g) = n + 1 /\ g[n + 1] = line /\ DOMAIN g = 1..(n + 1)
  OBVIOUS
<1>3. \A i \in 1..n : g[i] = file[i]
  OBVIOUS
<1> HIDE DEF g, n
<1>4. \A i \in 1..(n + 1) : i \in 1..n \/ i = n + 1
  BY <1>1
<1>5. 1..n \subseteq 1..(n + 1) /\ n + 1 \in 1..(n + 1)
  BY <1>1
<1>6. \A r \in RecordsOf(g) : r \in RecordsOf(file) \/ (r = line /\ line # Garbage)
  BY <1>1, <1>2, <1>3, <1>4 DEF RecordsOf
<1>7. \A r \in RecordsOf(file) : r \in RecordsOf(g)
  BY <1>1, <1>2, <1>3, <1>5 DEF RecordsOf
<1>8. line # Garbage => line \in RecordsOf(g)
  BY <1>2, <1>5 DEF RecordsOf
<1> QED
  BY <1>6, <1>7, <1>8 DEF g

\* A line that joins the last one is lost with it.
LEMMA JoinedRecords ==
    ASSUME NEW S, NEW file \in Seq(S), file # <<>>
    PROVE  /\ RecordsOf(Append(Front(file), Garbage)) \subseteq RecordsOf(file)
           /\ RecordsOf(file) \subseteq
                RecordsOf(Append(Front(file), Garbage)) \cup {file[Len(file)]}
           /\ file[Len(file)] = Garbage => RecordsOf(Append(Front(file), Garbage)) = RecordsOf(file)
<1> DEFINE front == Front(file)
           n == Len(file) - 1
<1>1. n \in Nat /\ DOMAIN file = 1..(n + 1) /\ Len(file) = n + 1
  OBVIOUS
<1>2. front \in Seq(S) /\ Len(front) = n /\ DOMAIN front = 1..n
  BY <1>1 DEF Front
<1>3. \A i \in 1..n : front[i] = file[i]
  BY <1>1 DEF Front
<1>4. RecordsOf(Append(front, Garbage)) = RecordsOf(front)
  BY <1>2, AppendRecords
<1> HIDE DEF front, n
<1>5. \A i \in 1..(n + 1) : i \in 1..n \/ i = n + 1
  BY <1>1
<1>6. 1..n \subseteq 1..(n + 1)
  BY <1>1
<1>7. \A r \in RecordsOf(front) : r \in RecordsOf(file)
  BY <1>1, <1>2, <1>3, <1>6 DEF RecordsOf
<1>8. \A r \in RecordsOf(file) :
        r \in RecordsOf(front) \/ (r = file[n + 1] /\ file[n + 1] # Garbage)
  BY <1>1, <1>2, <1>3, <1>5 DEF RecordsOf
<1> QED
  BY <1>1, <1>4, <1>7, <1>8 DEF front

\* A write of one line leaves a file of lines, the last of them the line or Garbage.
LEMMA AppendedFile ==
    ASSUME NEW S, Garbage \in S, lines \in Seq(S), tail # "newline" => lines # <<>>, NEW line \in S
    PROVE  /\ Appended(line) \in Seq(S) /\ Appended(line) # <<>>
           /\ Appended(line)[Len(Appended(line))] \in {line, Garbage}
<1>1. CASE tail = "newline"
  BY <1>1 DEF Appended
<1>2. CASE tail # "newline"
  <2>1. Front(lines) \in Seq(S)
    BY <1>2 DEF Front
  <2> HIDE DEF Front
  <2> QED
    BY <1>2, <2>1 DEF Appended
<1> QED
  BY <1>1, <1>2

\* Without a write the file records what it recorded.
LEMMA SameRecords ==
    ASSUME lines' = lines
    PROVE  CompletedIds' = CompletedIds
BY DEF CompletedIds, Records, Garbage

\* The cases of a session are golden cases.
LEMMA GoldenCases ==
    ASSUME PipelineInv, session.pc # "off"
    PROVE  Cases \subseteq DOMAIN Case /\ Cases \subseteq Questions /\ server # "up"
<1>1. setting \in Settings /\ setting.host = "eval" /\ server # "up"
  BY OneHost DEF PipelineInv, HostInv
<1> QED
  BY <1>1, SettingAssumption, OneHost DEF Cases, Range

\* A verdict is a record of the results file.
LEMMA VerdictRecorded ==
    ASSUME NEW x \in DOMAIN Case
    PROVE  /\ Verdict(x, Judge(x, q)) \in Verdicts
           /\ Verdict(x, Judge(x, q)).id = x /\ Verdict(x, Judge(x, q)) # Null
<1>1. x \in Questions /\ Case[x].kind \in {"data", "sources", "no_data", "refused"}
      /\ Case[x].injection \in BOOLEAN
  BY EvalAssumption DEF IsGoldenCase
<1>2. \A b : Passing(b) \in {"passed", "failed"}
  BY DEF Passing
<1>3. Judge(x, q) \in {"passed", "failed", "error"}
  <2>1. CASE Case[x].kind = "refused"
    BY <2>1 DEF Judge, JudgeRefusal
  <2>2. CASE Case[x].kind # "refused" /\ q.raised # Null
    BY <2>2 DEF Judge
  <2>3. CASE Case[x].kind = "data" /\ q.raised = Null
    BY <1>2, <2>3 DEF Judge, JudgeData
  <2>4. CASE Case[x].kind = "sources" /\ q.raised = Null
    BY <1>2, <2>4 DEF Judge, JudgeSources
  <2>5. CASE Case[x].kind = "no_data" /\ q.raised = Null
    BY <1>2, <2>5 DEF Judge, JudgeNoData
  <2> QED
    BY <1>1, <2>1, <2>2, <2>3, <2>4, <2>5
<1>4. ActualRoute(q) \in {Null, "data", "conceptual"}
  BY DEF ActualRoute
<1>5. (Case[x].injection \/ ActualRoute(q) = Case[x].route) \in BOOLEAN
  BY <1>1
<1>6. Verdict(x, Judge(x, q)) \in Verdicts /\ Verdict(x, Judge(x, q)).id = x
  <2> HIDE DEF Judge, ActualRoute
  <2> QED
    BY <1>1, <1>3, <1>4, <1>5 DEF Verdict, Verdicts
<1> QED
  BY <1>6, EvalAssumption

\* A process starts without a session and without a file.
LEMMA SessionInit == Init => SessionInv
<1> SUFFICES ASSUME Init PROVE SessionInv
  OBVIOUS
<1>1. /\ session = NoSession /\ q = Fresh /\ lines = <<>> /\ tail = "newline" /\ exit = Null
      /\ server = "starting"
  BY DEF Init
<1>2. /\ DOMAIN session = SessionFields /\ session.pc = "off" /\ session.verdict = Null
      /\ session.began = "newline"
  BY <1>1 DEF NoSession, SessionFields
<1>3. Filed
  BY <1>1 DEF Filed
<1>4. TornLineCostsItsCases
  BY <1>1, EvalAssumption DEF TornLineCostsItsCases
<1> QED
  BY <1>1, <1>2, <1>3, <1>4 DEF SessionInv, InHand, InAppend, Skipped, Stopping, Underway

\* A step that leaves the session and its file alone keeps what is known of them.
LEMMA HandKeepsSession ==
    ASSUME SessionInv, UNCHANGED <<rvars, setting>>, InHand', session.verdict # Null => q'.id = q.id
    PROVE  SessionInv'
<1>1. /\ session' = session /\ lines' = lines /\ tail' = tail /\ exit' = exit
      /\ CompletedIds' = CompletedIds /\ Cases' = Cases
  BY SameRecords DEF rvars, Cases
<1>2. InAppend' /\ Filed' /\ Skipped' /\ Stopping' /\ TornLineCostsItsCases'
  BY <1>1 DEF SessionInv, InAppend, Filed, Skipped, Stopping, TornLineCostsItsCases, Garbage
<1> QED
  BY <1>1, <1>2 DEF SessionInv

\* Steps of a server, of a question in hand and of the day.
LEMMA OthersKeepSession ==
    ASSUME PipelineInv, TallyInv, SessionInv,
           \/ Serve
           \/ AnswerStep /\ UNCHANGED <<svars, rvars>>
           \/ DayTurns /\ UNCHANGED <<svars, rvars>>
           \/ UNCHANGED vars
    PROVE  SessionInv'
<1>1. CASE StartUp /\ UNCHANGED rvars
  <2>1. /\ q' = q /\ setting' = setting /\ server = "starting" /\ Cases' = Cases
        /\ session' = session
    BY <1>1 DEF StartUp, gvars, rvars, Cases
  <2>2. InHand'
    BY <2>1 DEF SessionInv, InHand
  <2> QED
    BY <1>1, <2>1, <2>2, HandKeepsSession
<1>2. ASSUME NEW x \in Range(setting.cases), PostAsk(x), UNCHANGED rvars
      PROVE  SessionInv'
  <2>1. /\ server = "up" /\ server' = server /\ setting' = setting /\ session' = session
        /\ session.pc = "off" /\ session.verdict = Null
    BY <1>2, OneHost DEF PostAsk, Ask, Does, gvars, rvars, SessionInv, InAppend
  <2>2. InHand'
    BY <2>1 DEF InHand
  <2> QED
    BY <1>2, <2>1, <2>2, HandKeepsSession
<1>3. CASE Respond /\ UNCHANGED rvars
  <2>1. /\ server = "up" /\ server' = server /\ setting' = setting /\ session' = session
        /\ session.pc = "off" /\ session.verdict = Null
    BY <1>3, OneHost DEF Respond, gvars, rvars, SessionInv, InAppend
  <2>2. InHand'
    BY <2>1 DEF InHand
  <2> QED
    BY <1>3, <2>1, <2>2, HandKeepsSession
<1>4. CASE AnswerStep /\ UNCHANGED <<svars, rvars>>
  <2>1. /\ session' = session /\ server' = server /\ UNCHANGED rvars
    BY <1>4 DEF svars, rvars
  <2>2. CASE StageStep
    <3>1. q.step \in Working /\ q'.id = q.id /\ setting' = setting
      BY <2>2, StageStepKeeps, StageTallies, StageStepCalls DEF Went
    <3>2. q # Fresh /\ q.step # "idle" /\ q.step # "done"
      BY <3>1, FreshTallied DEF Working
    <3>3. InHand' /\ Cases' = Cases
      BY <2>1, <3>1, <3>2 DEF SessionInv, InHand, Cases
    <3> QED
      BY <2>1, <3>1, <3>3, HandKeepsSession
  <2>3. CASE Calls \/ (CallSteps /\ UNCHANGED q)
    <3>1. q' = q /\ setting' = setting
      BY <2>3, CallStepTallies
    <3>2. InHand'
      BY <2>1, <3>1 DEF SessionInv, InHand, Cases
    <3> QED
      BY <2>1, <3>1, <3>2, HandKeepsSession
  <2> QED
    BY <1>4, <2>2, <2>3 DEF AnswerStep, StageStep
<1>5. CASE (DayTurns /\ UNCHANGED <<svars, rvars>>) \/ UNCHANGED vars
  <2>1. UNCHANGED rvars /\ session' = session /\ server' = server /\ q' = q /\ setting' = setting
    BY <1>5 DEF DayTurns, Midnight, vars, gvars, svars, rvars
  <2>2. InHand'
    BY <2>1 DEF SessionInv, InHand, Cases
  <2> QED
    BY <2>1, <2>2, HandKeepsSession
<1> QED
  BY <1>1, <1>2, <1>3, <1>4, <1>5 DEF Serve

\* Before its first case a session only looks at the file.
LEMMA BeginningKeepsSession ==
    ASSUME PipelineInv, SessionInv, UNCHANGED svars, Begin \/ Abort \/ LoadReferences \/ Build
    PROVE  SessionInv'
<1>1. /\ lines' = lines /\ tail' = tail /\ q' = q /\ setting' = setting /\ server' = server
      /\ CompletedIds' = CompletedIds /\ Cases' = Cases
  BY SameRecords DEF svars, Begin, Abort, LoadReferences, Build, Goto, gvars, Cases
<1>2. q = Fresh /\ server # "up"
  BY GoldenCases, OneHost DEF Begin, Abort, LoadReferences, Build, SessionInv, InHand, HostInv, PipelineInv
<1>3. Filed'
  BY <1>1 DEF SessionInv, Filed, Garbage
<1>4. CASE Begin
  <2>1. /\ DOMAIN session' = SessionFields /\ session'.pc = "references" /\ session'.began = tail
        /\ session'.stopped = FALSE /\ session'.verdict = Null
    BY <1>4 DEF Begin, NoSession, SessionFields
  <2> QED
    BY <1>1, <1>2, <1>3, <2>1, FreshTallied
    DEF SessionInv, InHand, InAppend, Skipped, Stopping, Underway, TornLineCostsItsCases
<1>5. CASE Abort
  <2>1. /\ DOMAIN session' = SessionFields /\ session'.pc = "off"
        /\ session'.stopped = FALSE /\ session'.verdict = Null /\ exit' = "raised"
        /\ session'.began = "newline"
    BY <1>5 DEF Abort, NoSession, SessionFields
  <2> QED
    BY <1>1, <1>2, <1>3, <2>1, FreshTallied
    DEF SessionInv, InHand, InAppend, Skipped, Stopping, Underway, TornLineCostsItsCases
<1>6. CASE LoadReferences
  <2>1. /\ DOMAIN session' = SessionFields /\ session'.pc = "build"
        /\ session'.began = session.began /\ session.pc = "references"
        /\ session'.stopped = session.stopped /\ session'.verdict = session.verdict
    BY <1>6 DEF LoadReferences, Goto, SessionInv, SessionFields
  <2> QED
    BY <1>1, <1>2, <1>3, <2>1, FreshTallied
    DEF SessionInv, InHand, InAppend, Skipped, Stopping, Underway, TornLineCostsItsCases
<1>7. CASE Build
  <2>1. /\ DOMAIN session' = SessionFields /\ session'.pc = "cases"
        /\ session'.began = session.began /\ session.pc = "build" /\ session'.skip = CompletedIds
        /\ session'.stopped = session.stopped /\ session'.verdict = session.verdict
    BY <1>7 DEF Build, SessionInv, SessionFields
  <2> QED
    BY <1>1, <1>2, <1>3, <2>1, FreshTallied
    DEF SessionInv, InHand, InAppend, Skipped, Stopping, Underway, TornLineCostsItsCases
<1> QED
  BY <1>4, <1>5, <1>6, <1>7

\* The next case is one that is not skipped.
LEMMA NextCaseKeepsSession ==
    ASSUME PipelineInv, TallyInv, SessionInv, UNCHANGED svars, NextCase
    PROVE  SessionInv'
<1>1. PICK i \in Pending : Ask(setting.cases[i])
  BY DEF NextCase
<1>2. /\ setting.cases[i] \in Questions /\ setting.cases[i] \in Cases \ session.skip
      /\ UNCHANGED rvars /\ session' = session /\ session.pc = "cases"
  BY OneHost DEF Pending, Cases, Range, NextCase, rvars
<1>3. q'.id = setting.cases[i] /\ setting' = setting /\ Cases' = Cases
  BY <1>1, <1>2, AskTallies DEF Cases
<1>4. InHand' /\ session.verdict = Null
  BY <1>2, <1>3 DEF InHand, SessionInv, InAppend
<1> QED
  BY <1>2, <1>3, <1>4, HandKeepsSession

\* A case that is over has a verdict, or stops the session unrecorded.
LEMMA SettleKeepsSession ==
    ASSUME PipelineInv, TallyInv, SessionInv, UNCHANGED svars, Settle
    PROVE  SessionInv'
<1>1. /\ session.pc = "cases" /\ q.step = "done" /\ lines' = lines /\ tail' = tail
      /\ exit' = exit /\ setting' = setting /\ server' = server
      /\ CompletedIds' = CompletedIds /\ Cases' = Cases
  BY SameRecords DEF svars, Settle, Cases
<1>2. Filed' /\ q.id \in Cases \ session.skip /\ CompletedIds \subseteq session.skip
  BY <1>1 DEF SessionInv, Filed, Garbage, InHand, Skipped, Underway
<1>3. CASE Stops(q)
  <2>1. /\ DOMAIN session' = SessionFields /\ session'.pc = "report" /\ session'.stopped = TRUE
        /\ session'.began = session.began /\ session'.skip = session.skip
        /\ session'.verdict = session.verdict /\ q' = Fresh
    BY <1>3 DEF Settle, SessionInv, SessionFields
  <2> QED
    BY <1>1, <1>2, <2>1, FreshTallied
    DEF SessionInv, InHand, InAppend, Skipped, Stopping, Underway, TornLineCostsItsCases
<1>4. CASE ~Stops(q)
  <2> DEFINE v == Verdict(q.id, Judge(q.id, q))
  <2>1. /\ DOMAIN session' = SessionFields /\ session'.pc = "append"
        /\ session'.stopped = session.stopped
        /\ session'.began = session.began /\ session'.skip = session.skip
        /\ session'.verdict = v /\ q' = q
    BY <1>4 DEF Settle, SessionInv, SessionFields
  <2>2. v \in Verdicts /\ v.id = q.id /\ v # Null
    BY <1>1, <1>2, GoldenCases, VerdictRecorded
  <2> HIDE DEF v
  <2> QED
    BY <1>1, <1>2, <2>1, <2>2
    DEF SessionInv, InHand, InAppend, Skipped, Stopping, Underway, TornLineCostsItsCases
<1> QED
  BY <1>3, <1>4

\* What a write does to the cases recorded, by how the last line ended.
LEMMA WriteRecords ==
    ASSUME SessionInv, NEW v \in Verdicts, lines' = Appended(v)
    PROVE  /\ CompletedIds' \subseteq CompletedIds \cup {v.id}
           /\ tail = "newline" => CompletedIds' = CompletedIds \cup {v.id}
           /\ tail = "part" => CompletedIds' = CompletedIds
           /\ tail = "whole" => \E lost : CompletedIds \subseteq CompletedIds' \cup {lost}
<1>1. /\ CompletedIds = {r.id : r \in RecordsOf(lines)}
      /\ CompletedIds' = {r.id : r \in RecordsOf(lines')}
  BY DEF CompletedIds, Records, RecordsOf, Garbage
<1>2. v # Garbage
  BY EvalAssumption DEF Garbage
<1>3. lines \in Seq(Verdicts \cup {Garbage}) /\ (tail # "newline" => lines # <<>>)
      /\ (tail = "part" => lines[Len(lines)] = Garbage)
      /\ tail \in {"newline", "part", "whole"}
  BY DEF SessionInv, Filed
<1>4. CASE tail = "newline"
  <2>1. RecordsOf(lines') = RecordsOf(lines) \cup {v}
    BY <1>2, <1>3, <1>4, AppendRecords DEF Appended
  <2> QED
    BY <1>1, <1>4, <2>1
<1>5. CASE tail # "newline"
  <2>1. lines' = Append(Front(lines), Garbage) /\ lines # <<>>
    BY <1>3, <1>5 DEF Appended
  <2>2. /\ RecordsOf(lines') \subseteq RecordsOf(lines)
        /\ RecordsOf(lines) \subseteq RecordsOf(lines') \cup {lines[Len(lines)]}
        /\ lines[Len(lines)] = Garbage => RecordsOf(lines') = RecordsOf(lines)
    BY <1>3, <2>1, JoinedRecords
  <2>3. CompletedIds \subseteq CompletedIds' \cup {lines[Len(lines)].id}
    BY <1>1, <2>2
  <2> QED
    BY <1>1, <1>3, <1>5, <2>2, <2>3
<1> QED
  BY <1>4, <1>5

\* A verdict is appended: eval/runner.py, _append.
LEMMA RecordKeepsSession ==
    ASSUME PipelineInv, TallyInv, SessionInv, UNCHANGED svars, Record
    PROVE  SessionInv'
<1> DEFINE v == session.verdict
           kept == session.skip \cup {v.id}
<1>1. /\ session.pc = "append" /\ lines' = Appended(v) /\ tail' = "newline" /\ exit' = exit
      /\ q' = Fresh /\ DOMAIN session' = SessionFields /\ session'.pc = "cases"
      /\ session'.verdict = Null /\ session'.skip = kept
      /\ session'.began = session.began /\ session'.stopped = session.stopped
      /\ setting' = setting /\ Cases' = Cases
  BY DEF Record, gvars, Cases, SessionInv, SessionFields
<1>2. /\ v \in Verdicts /\ CompletedIds \subseteq session.skip
      /\ lines \in Seq(Verdicts \cup {Garbage}) /\ (tail # "newline" => lines # <<>>)
      /\ tail \in {"newline", "part", "whole"}
      /\ \/ tail = session.began /\ session.skip = CompletedIds
         \/ tail = "newline" /\ Within(session.skip \ CompletedIds, session.began)
  BY <1>1 DEF SessionInv, InAppend, Skipped, Filed, Underway
<1>3. Filed'
  <2>1. Appended(v) \in Seq(Verdicts \cup {Garbage}) /\ Appended(v) # <<>>
    BY <1>2, AppendedFile
  <2> QED
    BY <1>1, <2>1 DEF Filed, Garbage
<1>4. /\ CompletedIds' \subseteq CompletedIds \cup {v.id}
      /\ tail = "newline" => CompletedIds' = CompletedIds \cup {v.id}
      /\ tail = "part" => CompletedIds' = CompletedIds
      /\ tail = "whole" => \E lost : CompletedIds \subseteq CompletedIds' \cup {lost}
  BY <1>1, <1>2, WriteRecords
<1> HIDE DEF v
<1>5. CompletedIds' \subseteq kept
  BY <1>2, <1>4
<1>6. Within(kept \ CompletedIds', session.began)
  <2>1. CASE tail = "newline"
    <3>1. kept \ CompletedIds' \subseteq session.skip \ CompletedIds
      BY <1>4, <2>1
    <3> QED
      BY <1>2, <2>1, <3>1 DEF Within
  <2>2. CASE tail = "part" /\ session.began = "part" /\ session.skip = CompletedIds
    <3>1. kept \ CompletedIds' \subseteq {v.id}
      BY <1>4, <2>2
    <3> QED
      BY <2>2, <3>1 DEF Within
  <2>3. CASE tail = "whole" /\ session.began = "whole" /\ session.skip = CompletedIds
    <3>1. PICK lost : CompletedIds \subseteq CompletedIds' \cup {lost}
      BY <1>4, <2>3
    <3>2. kept \ CompletedIds' \subseteq {v.id, lost}
      BY <2>3, <3>1
    <3> QED
      BY <2>3, <3>2 DEF Within
  <2> QED
    BY <1>2, <2>1, <2>2, <2>3
<1>7. Skipped'
  BY <1>1, <1>5, <1>6 DEF Skipped, Underway
<1> QED
  BY <1>1, <1>3, <1>7, FreshTallied
  DEF SessionInv, InHand, InAppend, Stopping, Underway, TornLineCostsItsCases

\* What may be lost are so many cases.
LEMMA WithinCounted ==
    ASSUME NEW lost, NEW began \in {"newline", "part", "whole"}, Within(lost, began)
    PROVE  Cardinality(lost) <= CASE began = "newline" -> 0
                                  [] began = "part" -> 1
                                  [] began = "whole" -> 2
<1>1. CASE began = "newline"
  BY <1>1, FS_EmptySet DEF Within
<1>2. CASE began = "part"
  <2>1. PICK a : lost \subseteq {a}
    BY <1>2 DEF Within
  <2>2. IsFiniteSet({a}) /\ Cardinality({a}) = 1
    BY FS_Singleton
  <2>3. Cardinality(lost) <= 1
    BY <2>1, <2>2, FS_Subset
  <2> QED
    BY <1>2, <2>3
<1>3. CASE began = "whole"
  <2>1. PICK a, b : lost \subseteq {a, b}
    BY <1>3 DEF Within
  <2>2. IsFiniteSet({a}) /\ Cardinality({a}) = 1
    BY FS_Singleton
  <2>3. IsFiniteSet({a} \cup {b}) /\ Cardinality({a} \cup {b}) \in {1, 2}
    BY <2>2, FS_AddElement
  <2>4. lost \subseteq {a} \cup {b}
    BY <2>1
  <2>5. Cardinality(lost) <= Cardinality({a} \cup {b}) /\ Cardinality(lost) \in Nat
    BY <2>3, <2>4, FS_Subset, FS_CardinalityType
  <2>6. Cardinality(lost) <= 2
    BY <2>3, <2>5
  <2> QED
    BY <1>3, <2>6
<1> QED
  BY <1>1, <1>2, <1>3

\* A session that was not stopped has skipped every case: eval/cli.py, _execute.
LEMMA ReportKeepsSession ==
    ASSUME PipelineInv, TallyInv, SessionInv, UNCHANGED svars, Report
    PROVE  SessionInv'
<1>1. /\ lines' = lines /\ tail' = tail /\ q' = q /\ setting' = setting /\ server' = server
      /\ CompletedIds' = CompletedIds /\ Cases' = Cases
      /\ DOMAIN session' = SessionFields /\ session'.pc = "off" /\ session'.stopped = session.stopped
      /\ session'.began = session.began /\ session'.verdict = session.verdict
      /\ exit' = IF Cases \subseteq CompletedIds THEN "complete" ELSE "incomplete"
      /\ \/ session.pc = "report"
         \/ session.pc = "cases" /\ q.step = "idle" /\ Pending = {}
  BY SameRecords DEF svars, Report, gvars, Cases, SessionInv, SessionFields
<1>2. Filed' /\ q = Fresh /\ session.verdict = Null
  BY <1>1, GoldenCases DEF SessionInv, Filed, Garbage, InHand, InAppend, TallyInv
<1>3. TornLineCostsItsCases'
  <2>1. CASE session.pc = "report"
    BY <1>1, <2>1 DEF SessionInv, Stopping, TornLineCostsItsCases
  <2>2. CASE session.pc = "cases" /\ Pending = {}
    <3>1. session.stopped # TRUE /\ CompletedIds \subseteq session.skip
      BY <2>2 DEF SessionInv, Stopping, Skipped, Underway
    <3>2. Cases \ CompletedIds \subseteq session.skip \ CompletedIds
      BY <2>2 DEF Pending, Cases, Range
    <3>3. /\ Within(session.skip \ CompletedIds, session.began)
          /\ session.began \in {"newline", "part", "whole"}
      BY <2>2 DEF SessionInv, Skipped, Underway, Within
    <3>4. Within(Cases \ CompletedIds, session.began)
      BY <3>2, <3>3 DEF Within
    <3> QED
      BY <1>1, <2>2, <3>1, <3>3, <3>4, WithinCounted DEF TornLineCostsItsCases
  <2> QED
    BY <1>1, <2>1, <2>2
<1> QED
  BY <1>1, <1>2, <1>3, FreshTallied
  DEF SessionInv, InHand, InAppend, Skipped, Stopping, Underway

\* A process that dies in an append leaves a line without its newline.
LEMMA DeathKeepsSession ==
    ASSUME PipelineInv, TallyInv, SessionInv, UNCHANGED svars, Crash \/ CrashInAppend
    PROVE  SessionInv'
<1>1. /\ q' = Fresh /\ exit' = "died" /\ DOMAIN session' = SessionFields /\ session'.pc = "off"
      /\ session'.stopped = FALSE /\ session'.verdict = Null /\ session'.began = "newline"
  BY DEF Crash, CrashInAppend, Dies, NoSession, SessionFields
<1>2. /\ lines \in Seq(Verdicts \cup {Garbage}) /\ (tail # "newline" => lines # <<>>)
      /\ tail \in {"newline", "part", "whole"}
      /\ session.pc = "append" => session.verdict \in Verdicts
  BY DEF SessionInv, Filed, InAppend
<1>3. Filed' /\ tail' \in {"newline", "part", "whole"}
  <2>1. CASE UNCHANGED <<lines, tail>>
    BY <1>2, <2>1 DEF SessionInv, Filed, Garbage
  <2>2. CASE lines' = Appended(Garbage) /\ tail' = "part"
    <3>1. /\ Appended(Garbage) \in Seq(Verdicts \cup {Garbage}) /\ Appended(Garbage) # <<>>
          /\ Appended(Garbage)[Len(Appended(Garbage))] = Garbage
      BY <1>2, AppendedFile
    <3> HIDE DEF Garbage
    <3> QED
      BY <2>2, <3>1 DEF Filed, Garbage
  <2>3. CASE session.pc = "append" /\ lines' = Appended(session.verdict) /\ tail' = "whole"
    <3>1. /\ Appended(session.verdict) \in Seq(Verdicts \cup {Garbage})
          /\ Appended(session.verdict) # <<>>
      BY <1>2, <2>3, AppendedFile
    <3> QED
      BY <2>3, <3>1 DEF Filed, Garbage
  <2> QED
    BY <2>1, <2>2, <2>3 DEF Crash, CrashInAppend
<1> QED
  BY <1>1, <1>3, FreshTallied
  DEF SessionInv, InHand, InAppend, Skipped, Stopping, Underway, TornLineCostsItsCases

\* Every step keeps what is known of the session and of its file.
LEMMA StepKeepsSession ==
    ASSUME PipelineInv, TallyInv, SessionInv, [Next]_vars
    PROVE  SessionInv'
<1>1. CASE Evaluate /\ UNCHANGED svars
  BY <1>1, BeginningKeepsSession, NextCaseKeepsSession, SettleKeepsSession, RecordKeepsSession,
     ReportKeepsSession, DeathKeepsSession DEF Evaluate, SessionStep
<1> QED
  BY <1>1, OthersKeepSession DEF Next

-----------------------------------------------------------------------------
(* What a verdict says of its case                                         *)

\* The verdict in hand is of the answer in hand, which did not stop the session.
Judged ==
    session.verdict # Null =>
        session.verdict = Verdict(q.id, Judge(q.id, q)) /\ q.step = "done" /\ ~Stops(q)

\* A verdict is made of what was answered and stays until it is recorded.
LEMMA StepJudges ==
    ASSUME PipelineInv, TallyInv, SessionInv, Judged, [Next]_vars
    PROVE  Judged'
<1>1. DOMAIN session = SessionFields /\ (session.verdict # Null <=> session.pc = "append")
  BY DEF SessionInv, InAppend
<1>2. CASE Settle
  <2> DEFINE v == Verdict(q.id, Judge(q.id, q))
  <2>1. CASE Stops(q)
    <3>1. session.verdict = Null
      BY <1>1, <1>2 DEF Settle
    <3>2. session'.verdict = Null
      BY <1>1, <1>2, <2>1, <3>1 DEF Settle, SessionFields
    <3> QED
      BY <3>2 DEF Judged
  <2>2. CASE ~Stops(q)
    <3>1. session'.verdict = v /\ q' = q /\ q.step = "done"
      BY <1>1, <1>2, <2>2 DEF Settle, SessionFields
    <3> QED
      BY <2>2, <3>1 DEF Judged, Verdict, Judge, JudgeRefusal, JudgeData, JudgeSources, JudgeNoData,
         ActualRoute, Stops
  <2> QED
    BY <2>1, <2>2
<1>3. CASE session'.verdict = Null
  BY <1>3 DEF Judged
<1>4. CASE session' = session /\ q' = q
  BY <1>4 DEF Judged, Verdict, Judge, JudgeRefusal, JudgeData, JudgeSources, JudgeNoData,
     ActualRoute, Stops
<1>5. CASE session'.verdict = session.verdict /\ session.pc # "append"
  BY <1>1, <1>3, <1>5
<1>6. CASE Evaluate
  <2>1. CASE Begin \/ Abort \/ Record \/ Crash \/ CrashInAppend
    <3>1. NoSession.verdict = Null /\ [NoSession EXCEPT !.pc = "references", !.began = tail].verdict = Null
      BY DEF NoSession
    <3>2. Record => session'.verdict = Null
      BY <1>1 DEF Record, SessionFields
    <3>3. session'.verdict = Null
      BY <2>1, <3>1, <3>2 DEF Begin, Abort, Crash, CrashInAppend, Dies
    <3> QED
      BY <1>3, <3>3
  <2>2. CASE LoadReferences \/ Build \/ NextCase \/ Report
    <3>1. session'.verdict = session.verdict /\ session.pc # "append"
      BY <1>1, <2>2 DEF LoadReferences, Build, NextCase, Report, Goto, SessionFields, rvars
    <3> QED
      BY <1>5, <3>1
  <2> QED
    BY <1>2, <1>6, <2>1, <2>2 DEF Evaluate, SessionStep
<1>7. CASE Serve
  <2>1. session' = session /\ (session.pc = "off" \/ q' = q)
    BY <1>7, OneHost DEF Serve, StartUp, PostAsk, Respond, rvars
  <2> QED
    BY <1>4, <1>5, <2>1
<1>8. CASE AnswerStep /\ UNCHANGED <<svars, rvars>>
  <2>1. session' = session
    BY <1>8 DEF rvars
  <2>2. CASE StageStep
    <3>1. q.step # "done"
      BY <2>2, StageStepKeeps, StageTallies, StageStepCalls DEF Working
    <3>2. session.pc # "append"
      BY <3>1 DEF PipelineInv, HostInv
    <3> QED
      BY <1>5, <2>1, <3>2
  <2>3. CASE q' = q
    BY <1>4, <2>1, <2>3
  <2> QED
    BY <1>8, <2>2, <2>3 DEF AnswerStep, StageStep, Calls
<1>9. CASE (DayTurns /\ UNCHANGED <<svars, rvars>>) \/ UNCHANGED vars
  BY <1>4, <1>9 DEF DayTurns, Midnight, vars, gvars, svars, rvars
<1> QED
  BY <1>6, <1>7, <1>8, <1>9 DEF Next

-----------------------------------------------------------------------------
(* The theorems                                                            *)

\* SessionInv is inductive, given what is known of the question in hand.
THEOREM SessionHolds == Spec => []SessionInv
<1>1. PipelineInv /\ TallyInv /\ SessionInv /\ [Next]_vars => SessionInv'
  BY StepKeepsSession
<1> QED
  BY SessionInit, <1>1, PipelineHolds, TallyHolds, PTL DEF Spec

\* A session that was not stopped leaves a verdict for every case, but for those
\* a line cut short has cost it, and a session that was stopped says so:
\* eval/runner.py, run_cases and _append, with eval/cli.py, _execute.
THEOREM TornLineHolds == Spec => []TornLineCostsItsCases
<1>1. SessionInv => TornLineCostsItsCases
  BY DEF SessionInv
<1> QED
  BY <1>1, SessionHolds, PTL

\* A verdict says what its answer deserves: its route is the one decided, a
\* refusal passes only when nothing was executed, sources only when one of them is
\* shown, and an error is an error: eval/runner.py, _judge and _router_decision.
LEMMA VerdictIsFaithful ==
    ASSUME PipelineInv, SessionInv, RouteInv(q), Judged PROVE VerdictsFaithful
<1> SUFFICES ASSUME session.verdict # Null
             PROVE  /\ session.verdict.route = q.decided
                    /\ Case[q.id].kind = "refused" =>
                            (session.verdict.outcome = "passed" => q.ran = Null)
                    /\ Case[q.id].kind = "refused" /\ q.ran # Null =>
                            session.verdict.outcome = "failed"
                    /\ Case[q.id].kind = "sources" /\ q.answer # Null =>
                            (session.verdict.outcome = "passed" <=>
                                Range(q.answer.sources) \cap Case[q.id].sources # {})
                    /\ session.verdict.outcome = "error" <=>
                            q.raised # Null /\ ~(Case[q.id].kind = "refused" /\
                                (q.ran # Null \/ q.raised.class \in AnswerErrors))
  BY DEF VerdictsFaithful
<1> DEFINE c == Case[q.id]
           outcome == Judge(q.id, q)
<1>1. /\ session.verdict.route = ActualRoute(q) /\ session.verdict.outcome = outcome
      /\ q.step = "done" /\ ~Stops(q)
  BY DEF Judged, Verdict
<1>2. /\ q.answer # Null => q.raised = Null
      /\ q.raised = Null => q.answer # Null
      /\ q.decided \in {Null, "data", "conceptual"}
      /\ "execute" \in q.spans <=> q.ran # Null
      /\ "sql_generation" \in q.spans <=> q.decided = "data"
      /\ "route" \in q.spans <=> q.decided # Null
  BY <1>1 DEF RouteInv, Routed, Spanned, Shown, Stops
<1>3. ActualRoute(q) = q.decided
  BY <1>2, Unrouted DEF ActualRoute
<1>4. c.kind \in {"data", "sources", "no_data", "refused"}
  <2>1. q.id \in DOMAIN Case
    BY <1>1, SettingAssumption
    DEF SessionInv, InHand, InAppend, PipelineInv, HostInv, Cases
  <2> QED
    BY <2>1, EvalAssumption DEF IsGoldenCase
<1>5. CASE c.kind = "refused"
  BY <1>1, <1>2, <1>3, <1>5 DEF Judge, JudgeRefusal, AnswerErrors
<1>6. CASE c.kind # "refused" /\ q.raised # Null
  BY <1>1, <1>2, <1>3, <1>6 DEF Judge
<1>7. CASE c.kind # "refused" /\ q.raised = Null
  <2>1. outcome \in {"passed", "failed"}
    BY <1>4, <1>7 DEF Judge, JudgeData, JudgeSources, JudgeNoData, Passing
  <2>2. ASSUME c.kind = "sources"
        PROVE  outcome = "passed" <=> Range(q.answer.sources) \cap c.sources # {}
    <3> DEFINE shown == q.answer.sources
    <3>1. Ranking(shown)
      <4>1. q.id \in Questions
        BY <1>1 DEF PipelineInv, QuestionInv, Staged
      <4> QED
        BY <1>2, <1>7, <4>1, QuestionAssumption DEF RouteInv, Shown
    <3> HIDE DEF shown
    <3>2. 1..Least(HitK, Len(shown)) = DOMAIN shown
      BY <3>1 DEF Ranking, TopK, HitK, Least
    <3>3. outcome = "passed" <=> \E i \in DOMAIN shown : shown[i] \in c.sources
      BY <1>7, <2>2, <3>2 DEF Judge, JudgeSources, Passing, HitAtK, shown
    <3> QED
      BY <3>3 DEF Range, shown
  <2> QED
    BY <1>1, <1>3, <1>7, <2>1, <2>2
<1> QED
  BY <1>5, <1>6, <1>7

\* So it is in every state: the verdict is made of the answer in hand.
THEOREM VerdictsHold == Spec => []VerdictsFaithful
<1>1. Init => Judged
  BY DEF Init, Judged, NoSession
<1>2. PipelineInv /\ TallyInv /\ SessionInv /\ Judged /\ [Next]_vars => Judged'
  BY StepJudges
<1>3. PipelineInv /\ SessionInv /\ Routes /\ Judged => VerdictsFaithful
  BY VerdictIsFaithful DEF Routes
<1> QED
  BY <1>1, <1>2, <1>3, PipelineHolds, TallyHolds, SessionHolds, RouteHolds, PTL DEF Spec

\* The parts of a question, of a call and of a session are there exactly when
\* what they depend on has happened.
THEOREM TypeHolds == Spec => []TypeOK
<1>1. PipelineInv /\ TallyInv /\ BudgetInv /\ SessionInv => TypeOK
  <2> SUFFICES ASSUME PipelineInv, TallyInv, BudgetInv, SessionInv PROVE TypeOK
    OBVIOUS
  <2>1. setting \in Settings /\ day \in Days /\ used \in [Days -> Nat] /\ sent \in [Days -> Nat]
    BY DEF PipelineInv, HostInv, BudgetInv, Books
  <2>2. /\ q.step \in Steps
        /\ q.step = "done" <=> q.answer # Null \/ q.raised # Null
        /\ ~(q.answer # Null /\ q.raised # Null)
        /\ q.rejected \in 0..2 /\ q.retries \in Nat
    BY DEF PipelineInv, QuestionInv, Staged, TallyInv, Tallied, Formed
  <2>3. /\ q.safe # Null => q.text # Null
        /\ q.ran \in {Null, q.safe}
        /\ q.result # Null => q.ran # Null
    BY PolicyAssumption DEF PipelineInv, QuestionInv, Guarded, TallyInv, Formed
  <2>4. /\ call.phase \in {"none", "look", "reserve", "charge", "send", "keep", "replied", "failed"}
        /\ call.tries \in 0..(MaxRetries + 1)
        /\ call.phase = "failed" <=> call.error # Null
        /\ call.phase # "none" => q.step \notin {"idle", "retrieve", "guard", "sql_checks", "done"}
    BY DEF TallyInv, CallTallied, Phases, PipelineInv, CallInv, CallStages
  <2>5. /\ session.verdict # Null <=> session.pc = "append"
        /\ server = "up" \/ session.pc # "off" \/ q = Fresh
    BY DEF SessionInv, InAppend, InHand
  <2> QED
    BY <2>1, <2>2, <2>3, <2>4, <2>5 DEF TypeOK
<1> QED
  BY <1>1, PipelineHolds, TallyHolds, BudgetHolds, SessionHolds, PTL
=============================================================================
