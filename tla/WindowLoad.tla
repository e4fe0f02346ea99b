----------------------------- MODULE WindowLoad -----------------------------
(***************************************************************************)
(* What the Gold loader promises a reader of gold.* and of ops.load_runs,  *)
(* with none of its machinery: no staging table, no locks, no connections. *)
(*                                                                         *)
(*   - the fact changes only by replacing one load window, in one step,    *)
(*     with the clean rows the load's export holds for that window;        *)
(*   - under the policy "fail" an export with any rejected row in the      *)
(*     window changes nothing;                                             *)
(*   - a dimension only grows;                                             *)
(*   - an audit entry is closed once, as `succeeded' only when its load    *)
(*     landed, and as `failed' only when it did not, or when the database  *)
(*     never acknowledged the commit.                                      *)
(***************************************************************************)
EXTENDS GoldRows, Sequences

CONSTANTS FactJobs,   \* the [export, scope, policy] a load may be asked for
          DimExports, \* the exports whose dimensions may be loaded
          InitDims    \* the dimension keys there at the start

VARIABLES rows,   \* the rows of fact_stop_event
          known,  \* known[d]: the keys of dimension d
          audit   \* the audit entries, each [status, fate]

wvars == <<rows, known, audit>>

\* The rows of the window, stamped with the load that brings them.
Stamped(i, S) == {[r EXCEPT !.run = i] : r \in S}

WInit == rows = {} /\ known = InitDims /\ audit = << >>

WOpen ==
    /\ audit' = Append(audit, [status |-> "running", fate |-> "pending"])
    /\ UNCHANGED <<rows, known>>

Unlanded(i) == audit[i].status = "running" /\ audit[i].fate = "pending"

Lands(i, fate) == audit' = [audit EXCEPT ![i].fate = fate]

\* The dimensions may have grown between the check of a row and the commit.
WReplace(i, j, fate) ==
    LET window == RowsIn(j.export.rows, j.scope) IN
    /\ Unlanded(i)
    /\ Lands(i, fate)
    /\ UNCHANGED known
    /\ \E ds \in SUBSET known["dim_date"], ss \in SUBSET known["dim_station"],
          rs \in SUBSET known["dim_relation"] :
          LET seen  == [dim_date |-> ds, dim_station |-> ss, dim_relation |-> rs]
              clean == ValidRows(window, seen)
          IN /\ j.policy = "fail" => clean = window
             /\ rows' = (rows \ RowsIn(rows, j.scope)) \cup Stamped(i, clean)

WGrow(i, x, d, fate) ==
    /\ Unlanded(i)
    /\ Lands(i, fate)
    /\ UNCHANGED rows
    /\ known' = [known EXCEPT ![d] = @ \cup x.dims[d]]

WClose(i) ==
    /\ audit[i].status = "running"
    /\ audit' = [audit EXCEPT ![i].status =
                   IF audit[i].fate = "landed" THEN "succeeded" ELSE "failed"]
    /\ UNCHANGED <<rows, known>>

WNext ==
    \/ WOpen
    \/ \E i \in DOMAIN audit :
          \/ WClose(i)
          \/ \E fate \in {"landed", "unacked"} :
                \/ \E j \in FactJobs : WReplace(i, j, fate)
                \/ \E x \in DimExports, d \in Dims : WGrow(i, x, d, fate)

WSpec == WInit /\ [][WNext]_wvars

=============================================================================
