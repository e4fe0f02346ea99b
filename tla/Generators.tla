----------------------------- MODULE Generators -----------------------------
(***************************************************************************)
(* The generator a pipeline holds: a model behind the retries of           *)
(* providers/gemini.py and, in an evaluation, behind the budget and the    *)
(* cache of eval/budget.py and eval/cache.py.                              *)
(*                                                                         *)
(* One call of `generate' is a sequence of steps, between which the quota  *)
(* day may turn and the process may die: a look at the cache, a read of    *)
(* the day's counter, its write, one request after another to the          *)
(* provider, and the write of the cache. The spacing of calls and the      *)
(* backoff between requests only take time and are left out. The two       *)
(* reads of the counter that a reservation makes are one step: a day that  *)
(* turns between them gives what a day that turns before both gives.       *)
(***************************************************************************)
EXTENDS SqlGuard

CONSTANTS LastDay,    \* bound: the quota days of a behaviour
          MaxRetries  \* ModelConfig.max_retries

ASSUME GeneratorAssumption ==
    /\ LastDay \in Nat \ {0}
    /\ MaxRetries \in Nat
    /\ Null \notin {"BudgetExhausted", "ProviderError"}

Days == 1..LastDay

VARIABLES setting, \* how this process was started; nothing changes it
          day,     \* today, as the provider counts days
          used,    \* the counter kept on disk for each day
          sent,    \* auxiliary: requests for it that the provider received on each day
          stored,  \* the replies in the cache, by prompt
          call     \* the call of generate under way

gvars == <<setting, day, used, sent, stored, call>>

Layers == {"plain", "budget", "cache"}

NoCall == [phase |-> "none", prompt |-> Null, seen |-> 0, tries |-> 0, reply |-> Null,
           error |-> Null]

\* _execute wraps the generator for an evaluation; other pipelines call the model.
Generate(prompt) ==
    call' = [NoCall EXCEPT !.prompt = prompt,
                           !.phase = CASE setting.layers = "cache" -> "look"
                                       [] setting.layers = "budget" -> "reserve"
                                       [] OTHER -> "send"]

Look ==
    /\ call.phase = "look"
    /\ call' = IF call.prompt \in DOMAIN stored
               THEN [call EXCEPT !.phase = "replied", !.reply = stored[call.prompt]]
               ELSE [call EXCEPT !.phase = "reserve"]
    /\ UNCHANGED <<setting, day, used, sent, stored>>

\* Mutant of Spent: the allowance off by one.
PastLimit(counted) == counted > setting.limit

\* What reserve refuses at.
Spent(counted) == counted >= setting.limit

Reserve ==
    /\ call.phase = "reserve"
    /\ call' = IF Spent(used[day])
               THEN [call EXCEPT !.phase = "failed", !.error = "BudgetExhausted"]
               ELSE [call EXCEPT !.phase = "charge", !.seen = used[day]]
    /\ UNCHANGED <<setting, day, used, sent, stored>>

\* The file is named again: it is that of the day it is by now.
Charge ==
    /\ call.phase = "charge"
    /\ used' = [used EXCEPT ![day] = call.seen + 1]
    /\ call' = [call EXCEPT !.phase = "send"]
    /\ UNCHANGED <<setting, day, sent, stored>>

\* The generator returned, or raised.
Replied(c, r) ==
    [c EXCEPT !.reply = r, !.phase = IF setting.layers = "cache" THEN "keep" ELSE "replied"]
Raised(c) == [c EXCEPT !.phase = "failed", !.error = "ProviderError"]

\* One request of _Retrying.run: a reply out of `menu', an error worth another
\* request, or one that is not, an empty reply included.
Request(menu) ==
    /\ call.phase = "send"
    /\ sent' = IF setting.layers = "plain" THEN sent ELSE [sent EXCEPT ![day] = @ + 1]
    /\ LET tried == [call EXCEPT !.tries = @ + 1]
       IN \/ \E r \in menu : call' = Replied(tried, r)
          \/ /\ setting.throttled
             /\ call' = IF call.tries < MaxRetries THEN tried ELSE Raised(tried)
          \/ setting.faults /\ call' = Raised(tried)
    /\ UNCHANGED <<setting, day, used, stored>>

Keep ==
    /\ call.phase = "keep"
    /\ stored' = [p \in DOMAIN stored \cup {call.prompt} |->
                    IF p = call.prompt THEN call.reply ELSE stored[p]]
    /\ call' = [call EXCEPT !.phase = "replied"]
    /\ UNCHANGED <<setting, day, used, sent>>

\* What record_provider_call adds to the trace: the requests past the first.
Retries(c) == IF c.tries > 1 THEN c.tries - 1 ELSE 0

Midnight ==
    /\ day + 1 \in Days
    /\ day' = day + 1
    /\ UNCHANGED <<setting, used, sent, stored, call>>
=============================================================================
