---------------------------- MODULE MCAssistant ----------------------------
(***************************************************************************)
(* Small instances of Assistant for TLC: a policy of two rows, questions   *)
(* of each wording, replies that meet each check of the guard, and the     *)
(* ways of starting a process that make its parts meet.                    *)
(***************************************************************************)
EXTENDS Assistant

MCTables == {<<"gold", "fact">>, <<"gold", "station">>}

N(u) == Number(u, 0)
Three == <<<<N(1)>>, <<N(2)>>, <<N(3)>>>>

\* A query over the fact that passes the guard as it is.
Plain(rows) ==
    [statements |-> 1, root |-> "Select", nodes |-> {}, functions |-> {},
     tables |-> {<<Null, "fact">>}, ctes |-> {}, limit |-> Null, cost |-> 1, matches |-> rows]

Limited(n) == [Plain(Three) EXCEPT !.limit = n]

\* One query for each thing the guard refuses.
Refused ==
    {[Plain(Three) EXCEPT !.statements = 2],
     [Plain(Three) EXCEPT !.root = "Values"],
     [Plain(Three) EXCEPT !.nodes = {"Lock"}],
     [Plain(Three) EXCEPT !.functions = {"pg_sleep"}],
     [Plain(Three) EXCEPT !.tables = @ \cup {<<"ops", "runs">>}]}

\* A union over a common table expression, and a query the planner finds dear.
Named == [Plain(<<<<N(1)>>>>) EXCEPT !.root = "Union", !.tables = @ \cup {<<Null, "top">>},
                                     !.ctes = {"top"}]
Dear == [Plain(Three) EXCEPT !.cost = 9]

Anything ==
    Refused \cup {Plain(Three), Plain(<<>>), Limited(1), Limited(2), Limited(5), Limited(Opaque),
                  Named, Dear, Refusal, Malformed}

Two == Plain(<<<<N(1)>>, <<N(2)>>>>)
Locked == [Two EXCEPT !.nodes = {"Lock"}]

Found == [all |-> <<"term", "doc">>, internal |-> <<"doc">>]
Missed == [all |-> <<"doc">>, internal |-> <<"doc">>]

Asks(data, conceptual, queries) ==
    [blank |-> FALSE, data |-> data, conceptual |-> conceptual,
     words |-> {"data", "conceptual", "other"}, queries |-> queries, finds |-> {Found}]

\* Results of two rows and two columns, for the comparison.
Cells == {N(1), N(2)}
Pairs == {<<a, b>> : a \in Cells, b \in Cells}
Tables == {<<r, s>> : r \in Pairs, s \in Pairs}
Wanted == <<<<N(1), N(2)>>, <<N(2), N(1)>>>>
Others == {Plain(<<>>), Plain(<<<<Number(905, 1)>>>>), Plain(<<<<NoValue, Number(90, 0)>>>>),
           Plain(<<<<Text("a"), Number(91, 0)>>>>)}

\* Two shares that are one to three places, beside a truth value or a number.
Share(units, places, cell) == <<Number(units, places), cell>>
Shares == {Share(x.units, x.places, c) : x \in {Number(905, 3), Number(9051, 4), Number(9049, 4)},
                                        c \in {Flag(TRUE), N(0)}}
Close == <<Share(9051, 4, Flag(TRUE)), Share(9049, 4, N(1))>>

MCQuestion ==
    [api_data |-> Asks(TRUE, FALSE, Anything),
     api_unclear |-> Asks(TRUE, TRUE, {Two, Locked, Refusal}),
     api_concept |-> Asks(FALSE, TRUE, {Refusal}),
     api_blank |-> [Asks(FALSE, FALSE, {}) EXCEPT !.blank = TRUE],
     data |-> Asks(TRUE, FALSE, {Two, Locked, Refusal, Malformed}),
     again |-> Asks(TRUE, FALSE, {Two, Locked}),
     concept |-> [Asks(FALSE, TRUE, {Refusal}) EXCEPT !.finds = {Found, Missed}],
     refusal |-> Asks(FALSE, FALSE, {Locked, Two, Refusal}),
     nothing |-> Asks(TRUE, FALSE, {Plain(<<>>), Two, Plain(<<<<NoValue>>>>)}),
     set |-> Asks(TRUE, FALSE, {Plain(t) : t \in Tables} \cup Others),
     ordered |-> Asks(TRUE, FALSE, {Plain(t) : t \in Tables} \cup Others),
     first |-> Asks(TRUE, FALSE, {Plain(t) : t \in Tables} \cup Others),
     close |-> Asks(TRUE, FALSE, {Plain(<<r, t>>) : r \in Shares, t \in Shares}),
     scalar |-> Asks(TRUE, FALSE, {Plain(t) : t \in Tables} \cup Others)]

MCQuestions == DOMAIN MCQuestion

Compares(mode, topK, percent) ==
    [mode |-> mode, topK |-> topK, decimals |-> 4, acceptPercent |-> percent]

\* A golden case of each kind; only the fields of its kind are read.
OfKind(kind, route) ==
    [kind |-> kind, route |-> route, injection |-> kind = "refused", reference |-> Null,
     compare |-> Null, sources |-> {}]
OfData(reference, spec) ==
    [OfKind("data", "data") EXCEPT !.reference = reference, !.compare = spec]

MCCase ==
    [data |-> OfData(Plain(Three), Compares("set", 9, FALSE)),
     again |-> OfData(Plain(Three), Compares("set", 9, FALSE)),
     concept |-> [OfKind("sources", "conceptual") EXCEPT !.sources = {"term"}],
     refusal |-> OfKind("refused", "data"),
     nothing |-> OfKind("no_data", "data"),
     set |-> OfData(Plain(Wanted), Compares("set", 9, FALSE)),
     ordered |-> OfData(Plain(Wanted), Compares("ordered", 9, FALSE)),
     first |-> OfData(Plain(Wanted), Compares("ordered", 1, FALSE)),
     close |-> OfData(Plain(Close), Compares("set", 9, FALSE)),
     scalar |-> OfData(Plain(<<<<Number(905, 3)>>>>), Compares("scalar", 9, TRUE))]

Api(cases, hasData, narrate) ==
    [host |-> "api", layers |-> "plain", limit |-> 0, cases |-> cases, narrate |-> narrate,
     explain |-> TRUE, hasData |-> hasData, throttled |-> TRUE, faults |-> TRUE]
Eval(cases, layers, limit, narrate, throttled, faults) ==
    [host |-> "eval", layers |-> layers, limit |-> limit, cases |-> cases, narrate |-> narrate,
     explain |-> TRUE, hasData |-> TRUE, throttled |-> throttled, faults |-> faults]

\* A server with and without data, every reply and every fault.
Servers ==
    {Api(<<"api_data", "api_unclear", "api_concept", "api_blank">>, TRUE, TRUE),
     Api(<<"api_data">>, FALSE, TRUE)}

\* One case at a time, with every result it may be compared with.
Comparisons ==
    {Eval(<<x>>, "budget", 5, FALSE, FALSE, FALSE) :
        x \in {"data", "set", "ordered", "first", "close", "scalar", "nothing"}}

\* An allowance that runs out among retries, and a cache under narration and faults.
Throttled == {Eval(<<"refusal", "again">>, "budget", 3, FALSE, TRUE, FALSE)}
Cached == {Eval(<<"again", "concept">>, "cache", 2, TRUE, FALSE, TRUE)}

MCSettings == Servers \cup Comparisons \cup Throttled \cup Cached
=============================================================================
