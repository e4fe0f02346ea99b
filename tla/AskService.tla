----------------------------- MODULE AskService -----------------------------
(***************************************************************************)
(* api/: a server that builds one pipeline before it takes a request and   *)
(* turns what the pipeline returns or raises into a status.                *)
(***************************************************************************)
EXTENDS AnswerPipeline

VARIABLES server, \* whether build_state has returned, or raised
          status  \* the status of the last response, Null while one is due

svars == <<server, status>>

Unprocessable == 422
Unavailable == 503

\* The exceptions that are an AnswerError.
AnswerErrors == {"AnswerError", "QueryTooExpensiveError"}

\* Startup measures the database and constructs the providers: either may fail.
StartUp ==
    /\ setting.host = "api" /\ server = "starting"
    /\ \/ server' = "up"
       \/ setting.faults /\ server' = "down"
    /\ UNCHANGED <<status, q, gvars>>

PostAsk(x) ==
    /\ server = "up"
    /\ Ask(x)
    /\ status' = Null
    /\ UNCHANGED server

StatusOf(r) ==
    CASE r.raised = Null -> 200
      [] r.raised # Null /\ r.raised.class \in AnswerErrors -> Unprocessable
      [] OTHER -> Unavailable

Respond ==
    /\ server = "up" /\ q.step = "done"
    /\ status' = StatusOf(q)
    /\ q' = Fresh
    /\ UNCHANGED <<server, gvars>>
=============================================================================
