------------------------------ MODULE SqlGuard ------------------------------
(***************************************************************************)
(* The guard of rag/sql: what validate_sql lets through and how it bounds  *)
(* it, and what the executor makes of the rows that come back.             *)
(*                                                                         *)
(* A query is what the guard reads of its syntax tree, with the rows it    *)
(* would return if it had no limit and what the planner says it costs. A   *)
(* limit is a number, Null when there is none, or Opaque when it is an     *)
(* expression or a FETCH clause, whose number the guard cannot read.       *)
(***************************************************************************)
EXTENDS Integers, Sequences

CONSTANTS Null, Opaque,     \* model values
          Refusal, Malformed, \* the reply NO_SQL, and one that keeps to no format
          AllowedTables,    \* SqlPolicy.allowed_tables, as <<schema, name>>
          BlockedFunctions, \* SqlPolicy.blocked_functions
          MaxRows,          \* SqlPolicy.max_rows
          MaxPlanCost       \* SqlChecksConfig.max_plan_cost, or Null

\* The values of a row, as Compare tells them apart, and the queries.
Values ==
    [units : Int, places : Nat] \cup [flag : BOOLEAN] \cup [text : STRING] \cup [null : {TRUE}]

Queries ==
    [statements : Nat, root : STRING, nodes : SUBSET STRING, functions : SUBSET STRING,
     tables : SUBSET ((STRING \cup {Null}) \X STRING), ctes : SUBSET STRING,
     limit : Nat \cup {Null, Opaque}, cost : Nat, matches : Seq(Seq(Values))]

ASSUME PolicyAssumption ==
    /\ MaxRows \in Nat \ {0}
    /\ MaxPlanCost \in Nat \cup {Null}
    /\ Null \notin Nat /\ Opaque \notin Nat /\ Opaque # Null
    /\ Null \notin Queries /\ Refusal \notin Queries /\ Malformed \notin Queries
    /\ Refusal # Null /\ Malformed # Null /\ Refusal # Malformed

DefaultSchema == "gold"

ForbiddenNodes ==
    {"Insert", "Update", "Delete", "Drop", "Create", "Alter", "TruncateTable", "Merge", "Grant",
     "Copy", "Command", "Transaction", "Commit", "Rollback", "Use", "Attach", "Set", "Into",
     "Lock"}

\* A name without a schema is that of a common table expression where one has it.
ReferencedTables(query) ==
    {<<IF t[1] = Null THEN DefaultSchema ELSE t[1], t[2]>> :
        t \in {u \in query.tables : u[1] # Null \/ u[2] \notin query.ctes}}

\* What validate_sql lets through, whichever check is the first to fail.
Accepted(query) ==
    /\ query.statements = 1
    /\ query.root \in {"Select", "Union"}
    /\ query.nodes \cap ForbiddenNodes = {}
    /\ query.functions \cap BlockedFunctions = {}
    /\ ReferencedTables(query) \subseteq AllowedTables

EnforceLimit(query) ==
    IF query.limit \in Nat /\ query.limit <= MaxRows
    THEN query
    ELSE [query EXCEPT !.limit = MaxRows]

-----------------------------------------------------------------------------
(* The executor                                                            *)

\* The rows the database returns for a query.
RowsOf(query) ==
    IF query.limit \in Nat /\ query.limit < Len(query.matches)
    THEN SubSeq(query.matches, 1, query.limit)
    ELSE query.matches

\* Mutant of ResultOf: the cap itself is taken for a complete result.
ResultPastCap(query) == [rows |-> RowsOf(query), truncated |-> Len(RowsOf(query)) > MaxRows]

\* The flag compares with the policy's cap, whatever limit the query itself has.
ResultOf(query) ==
    [rows |-> RowsOf(query), truncated |-> Len(RowsOf(query)) >= MaxRows]
=============================================================================
