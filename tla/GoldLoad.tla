------------------------------ MODULE GoldLoad ------------------------------
(***************************************************************************)
(* The Gold loader: ingestion/loader.py with db/run_log.py and the two     *)
(* commands of scripts/manage.py that drive it, load-dims and load-fact.   *)
(*                                                                         *)
(* Each loader is one process running such a command against the shared    *)
(* PostgreSQL database. The unit of interleaving is one SQL statement      *)
(* under READ COMMITTED: every statement sees what was committed when it   *)
(* began plus its own transaction's changes. A statement that can wait is  *)
(* a snapshot and then one step per row: at a row another open transaction *)
(* changed it waits for that transaction, holding the rows it has already  *)
(* changed. The order of the rows is the server's, so a statement may be   *)
(* at any row it has left; waits that close a cycle end by an abort.       *)
(* The audit entries of ops.load_runs are written on connections of their  *)
(* own, so opening and closing one are commits of their own.               *)
(***************************************************************************)
EXTENDS GoldRows, Sequences

CONSTANTS Loaders,      \* processes that run loader commands
          JobsOf,       \* JobsOf[l]: the commands loader l may run
          InitDims,     \* dimension keys an earlier load-dims left
          Faults,       \* the failures that happen, a subset of AllFaults
          MaxCommands   \* bound: commands started over a behaviour

AllFaults == {"crash",     \* a loader process dies
              "db",        \* a statement raises SQLAlchemyError
              "lost_ack",  \* COMMIT is applied but its answer never arrives
              "audit"}     \* closing an audit entry raises

Tables == Dims \cup {"fact_stop_event"}

\* A Gold export directory with its _manifest/coverage.json: `total', `first',
\* `last' and `declared' are what the manifest declares, `manifest' whether it
\* is readable and consistent, `broken' the tables whose files are missing or
\* break their contract.
Export == [layout   : {"partitioned", "single"},
           rows     : SUBSET Row,
           dims     : [Dims -> SUBSET Keys],
           manifest : BOOLEAN,
           total    : Nat,
           first    : Dates,
           last     : Dates,
           declared : [Dims -> Nat],
           broken   : SUBSET Tables]

Job == [kind : {"dims", "fact"}, export : Export, scope : Scope,
        policy : {"fail", "skip"}]

\* A partitioned read prunes to the scope by date_key, which comes from the
\* path; the single file goes through a contract that forbids NULL keys and
\* out-of-range values.
ExportFits(x) ==
    /\ IsFiniteSet(x.rows)
    /\ \A d \in Dims : IsFiniteSet(x.dims[d])
    /\ \A r \in x.rows : r.run = 0
    /\ x.layout = "single" => \A r \in x.rows : ~HasNullKey(r) /\ r.fits

ASSUME LoadAssumption ==
    /\ Faults \subseteq AllFaults
    /\ MaxCommands \in Nat
    /\ InitDims \in [Dims -> SUBSET Keys]
    /\ \A l \in Loaders : \A j \in JobsOf[l] : j \in Job /\ ExportFits(j.export)

-----------------------------------------------------------------------------
VARIABLES
    fact,     \* committed fact_stop_event: tuples [tid, row]; `tid' is the run
              \* that inserted the tuple, which an ON CONFLICT update keeps
    staging,  \* committed stg_fact_stop_event
    dims,     \* dims[d]: committed keys of dimension d
    runs,     \* ops.load_runs, by id. `fate' is auxiliary: what became of the
              \* load's transaction
    pc,       \* where each loader is in its command
    job,      \* the command it runs
    entry,    \* the id of the audit entry it holds
    tx,       \* its transaction: uncommitted changes, snapshots and tallies
    exit,     \* outcome of its last command: the process exit status
    commands  \* commands started so far (bounded by MaxCommands)

database == <<fact, staging, dims>>
vars == <<fact, staging, dims, runs, pc, job, entry, tx, exit, commands>>

\* Between commands, inside a transaction, and holding an audit entry.
AtRest  == {"idle", "exited", "dead"}
FactTx  == {"clearing", "staged", "counted", "validated", "deleting", "cleared",
            "promoting", "upserting", "upserted"}
InTx    == FactTx \cup {"dim_opened"}
Holding == InTx \cup {"opened", "committed", "failing"}
PCs     == AtRest \cup Holding \cup {"dim_next", "closed"}

EmptyTx == [stgSnap |-> {}, stgDel |-> {}, stgIns |-> {},
            factSnap |-> {}, factDel |-> {}, source |-> {}, factIns |-> {},
            read |-> 0, inserted |-> 0, dirty |-> FALSE]

Tuple == [tid : Nat, row : Row]

AuditEntry == [table : Tables, status : {"running", "succeeded", "failed"},
               fate : {"pending", "landed", "unacked"},
               read : Nat, rejected : Int, inserted : Nat, updated : Nat]

Transaction == [stgSnap : SUBSET Row, stgDel : SUBSET Row, stgIns : SUBSET Row,
                factSnap : SUBSET Tuple, factDel : SUBSET Tuple,
                source : SUBSET Row, factIns : SUBSET Tuple,
                read : Nat, inserted : Nat, dirty : BOOLEAN]

\* The types of the variables. The counts of an entry are natural numbers, but
\* for the rejections of the fact, which load_fact obtains by subtraction.
TypeOK ==
    /\ fact \subseteq Tuple
    /\ staging \subseteq Row
    /\ dims \in [Dims -> SUBSET Keys]
    /\ runs \in Seq(AuditEntry)
    /\ pc \in [Loaders -> PCs]
    /\ job \in [Loaders -> Job \cup {Null}]
    /\ entry \in [Loaders -> Nat]
    /\ tx \in [Loaders -> Transaction]
    /\ exit \in [Loaders -> {"none", "ok", "error"}]
    /\ commands \in Nat

Init ==
    /\ fact = {} /\ staging = {} /\ dims = InitDims
    /\ runs = << >>
    /\ pc = [l \in Loaders |-> "idle"]
    /\ job = [l \in Loaders |-> Null]
    /\ entry = [l \in Loaders |-> 0]
    /\ tx = [l \in Loaders |-> EmptyTx]
    /\ exit = [l \in Loaders |-> "none"]
    /\ commands = 0

-----------------------------------------------------------------------------
(* Audit entries (db/run_log.py)                                           *)

OpenEntry(table) ==
    [table |-> table, status |-> "running", fate |-> "pending",
     read |-> 0, rejected |-> 0, inserted |-> 0, updated |-> 0]

\* start_run, for the given table, as the next thing loader l does.
StartRun(l, table, next) ==
    /\ runs' = Append(runs, OpenEntry(table))
    /\ entry' = [entry EXCEPT ![l] = Len(runs) + 1]
    /\ pc' = [pc EXCEPT ![l] = next]

\* Mutant of Tally: the operands of the update count swapped.
SwappedTally(l) ==
    [read |-> tx[l].read, inserted |-> tx[l].inserted, rejected |-> 0,
     updated |-> tx[l].inserted - tx[l].read]

\* The counts a load reports: the fact never reports an update, a dimension
\* reports no rejection.
Tally(l) ==
    LET isFact == runs[entry[l]].table = "fact_stop_event"
        rest   == tx[l].read - tx[l].inserted
    IN  [read |-> tx[l].read, inserted |-> tx[l].inserted,
         rejected |-> IF isFact THEN rest ELSE 0,
         updated  |-> IF isFact THEN 0 ELSE rest]

\* finish_run when the load committed, fail_run (which keeps no tallies) when
\* it raised.
Closed(l) ==
    LET e == runs[entry[l]] IN
    IF pc[l] = "committed"
      THEN [e EXCEPT !.status = "succeeded", !.read = Tally(l).read,
                     !.inserted = Tally(l).inserted,
                     !.rejected = Tally(l).rejected, !.updated = Tally(l).updated]
      ELSE [e EXCEPT !.status = "failed"]

CloseEntry(l) == runs' = [runs EXCEPT ![entry[l]] = Closed(l)]

-----------------------------------------------------------------------------
(* Starting a command                                                      *)

\* load-fact reads the manifest, then opens its audit entry; load-dims opens
\* one for its first dimension.
Begin(l, j) ==
    /\ pc[l] \in AtRest
    /\ commands < MaxCommands
    /\ j.export.manifest
    /\ IF j.kind = "fact" THEN StartRun(l, "fact_stop_event", "opened")
                          ELSE StartRun(l, "dim_date", "dim_opened")
    /\ job' = [job EXCEPT ![l] = j]
    /\ tx' = [tx EXCEPT ![l] = EmptyTx]
    /\ exit' = [exit EXCEPT ![l] = "none"]
    /\ commands' = commands + 1
    /\ UNCHANGED database

\* The process is gone, and its transaction with it.
Leave(l, rest, status) ==
    /\ pc' = [pc EXCEPT ![l] = rest]
    /\ job' = [job EXCEPT ![l] = Null]
    /\ entry' = [entry EXCEPT ![l] = 0]
    /\ tx' = [tx EXCEPT ![l] = EmptyTx]
    /\ exit' = [exit EXCEPT ![l] = status]

\* A missing or inconsistent manifest, or start_run raising: the command ends
\* before it wrote anything.
Refuse(l, j) ==
    /\ pc[l] \in AtRest
    /\ commands < MaxCommands
    /\ ~j.export.manifest \/ "db" \in Faults
    /\ Leave(l, "exited", "error")
    /\ commands' = commands + 1
    /\ UNCHANGED <<database, runs>>

-----------------------------------------------------------------------------
(* The transaction of load_fact                                            *)

\* Moves loader l to `next' with its transaction changed to t.
TxStep(l, next, t) ==
    /\ pc' = [pc EXCEPT ![l] = next]
    /\ tx' = [tx EXCEPT ![l] = t]
    /\ UNCHANGED <<database, runs, job, entry, exit, commands>>

\* An exception leaves engine.begin(): the transaction is rolled back and its
\* locks are released.
RollBack(l) == TxStep(l, "failing", EmptyTx)

\* What loader l's statements see of staging.
StagingView(l) == (staging \ tx[l].stgDel) \cup tx[l].stgIns

\* The rows _stage_fact reads: a partitioned export is pruned to the scope, a
\* single file is read whole.
ReadRows(j) == IF j.export.layout = "partitioned" THEN RowsIn(j.export.rows, j.scope)
                                                  ELSE j.export.rows

\* _stage_fact, "DELETE FROM staging": the statement's snapshot.
BeginClearing(l) ==
    /\ pc[l] = "opened"
    /\ TxStep(l, "clearing", [tx[l] EXCEPT !.stgSnap = staging])

StagedUnlocked(l, r) == \A m \in Loaders \ {l} : r \notin tx[m].stgDel

\* The DELETE passes one row of its snapshot; a row that is gone is no longer deleted.
ClearRow(l) ==
    /\ pc[l] = "clearing"
    /\ \E r \in tx[l].stgSnap :
         /\ StagedUnlocked(l, r)
         /\ TxStep(l, "clearing", [tx[l] EXCEPT !.stgSnap = @ \ {r},
                                               !.stgDel = @ \cup ({r} \cap staging)])

\* The rows of the export are copied in.
Stage(l) ==
    /\ pc[l] = "clearing" /\ tx[l].stgSnap = {}
    /\ "fact_stop_event" \notin job[l].export.broken
    /\ TxStep(l, "staged",
         [tx[l] EXCEPT !.stgIns = {[r EXCEPT !.run = entry[l]] : r \in ReadRows(job[l])}])

\* A source file is missing, unreadable or breaks its contract.
StageFails(l) ==
    /\ pc[l] = "clearing" /\ tx[l].stgSnap = {}
    /\ "fact_stop_event" \in job[l].export.broken
    /\ RollBack(l)

\* _staged_in_scope
CountStaged(l) ==
    /\ pc[l] = "staged"
    /\ TxStep(l, "counted",
         [tx[l] EXCEPT !.read = Cardinality(RowsIn(StagingView(l), job[l].scope))])

\* validate_staged_fact over all of staging, whatever the scope.
Validate(l) ==
    /\ pc[l] = "counted"
    /\ LET bad == Violated(StagingView(l), dims) IN
       IF bad /\ job[l].policy = "fail"
         THEN RollBack(l)
         ELSE TxStep(l, "validated", [tx[l] EXCEPT !.dirty = bad])

\* The grains of the fact an open transaction has deleted or written.
Touched(m) == GrainsOf({f.row : f \in tx[m].factDel \cup tx[m].factIns})

\* Mutant of Unlocked: the statement runs on a second connection, so the load
\* waits for its own transaction too.
SecondConnection(l, grain) == \A m \in Loaders : grain \notin Touched(m)

Unlocked(l, grain) == \A m \in Loaders \ {l} : grain \notin Touched(m)

\* _delete_fact_scope: the statement's snapshot.
BeginDelete(l) ==
    /\ pc[l] = "validated"
    /\ TxStep(l, "deleting",
         [tx[l] EXCEPT !.factSnap = {f \in fact : InScope(f.row, job[l].scope)}])

\* Mutant of Doomed: the scope is not cleared, a reload accretes.
NothingDoomed(s) == {}

\* The latest version of tuple s of a snapshot, if it is still there.
Doomed(s) == {f \in fact : s.tid = f.tid /\ Grain(s.row) = Grain(f.row)}

\* The DELETE passes one tuple of its snapshot; for one that is gone it does not wait.
DeleteRow(l) ==
    /\ pc[l] = "deleting"
    /\ \E s \in tx[l].factSnap :
         /\ Doomed(s) # {} => Unlocked(l, Grain(s.row))
         /\ TxStep(l, "deleting", [tx[l] EXCEPT !.factSnap = @ \ {s},
                                               !.factDel = @ \cup Doomed(s)])

DeleteScope(l) ==
    /\ pc[l] = "deleting" /\ tx[l].factSnap = {}
    /\ TxStep(l, "cleared", tx[l])

\* Mutant of Source: neither selection looks at the scope.
UnscopedSource(l) == IF tx[l].dirty THEN ValidRows(StagingView(l), dims) ELSE StagingView(l)

\* _promote's projection: with violations the validity rules alone select, and
\* the scope is not looked at.
Source(l) == IF tx[l].dirty THEN ValidRows(StagingView(l), dims)
                            ELSE RowsIn(StagingView(l), job[l].scope)

\* Mutant of CountPromoted: what was staged is reported as promoted.
CountStagedAgain(l) ==
    /\ pc[l] = "cleared"
    /\ TxStep(l, "promoting", [tx[l] EXCEPT !.inserted = Cardinality(StagingView(l))])

\* _promote counts its source first, in a statement of its own ...
CountPromoted(l) ==
    /\ pc[l] = "cleared"
    /\ TxStep(l, "promoting", [tx[l] EXCEPT !.inserted = Cardinality(Source(l))])

\* ... and then runs INSERT ... SELECT ... ON CONFLICT DO UPDATE.
BeginUpsert(l) ==
    /\ pc[l] = "promoting"
    /\ TxStep(l, "upserting", [tx[l] EXCEPT !.source = Source(l)])

\* Row r as transaction l writes it: a conflicting tuple is updated in place, any other
\* row is a new tuple.
Written(l, r) ==
    LET old == {f \in fact \ tx[l].factDel : Grain(f.row) = Grain(r)} IN
    [tid |-> IF old = {} THEN entry[l] ELSE (CHOOSE f \in old : TRUE).tid, row |-> r]

\* The statement writes one row of its source, unless a constraint stops it there: a row
\* without a partition, or one whose grain the statement has written already.
UpsertRow(l) ==
    /\ pc[l] = "upserting"
    /\ \E r \in tx[l].source :
         /\ Unlocked(l, Grain(r))
         /\ IF Placeable(r) /\ Grain(r) \notin GrainsOf({f.row : f \in tx[l].factIns})
              THEN TxStep(l, "upserting", [tx[l] EXCEPT !.source = @ \ {r},
                                                      !.factIns = @ \cup {Written(l, r)}])
              ELSE RollBack(l)

\* The foreign keys are looked up when all rows are written.
Upsert(l) ==
    /\ pc[l] = "upserting" /\ tx[l].source = {}
    /\ IF Referenced({f.row : f \in tx[l].factIns}, dims) THEN TxStep(l, "upserted", tx[l])
                                                         ELSE RollBack(l)

\* Transaction l has a row left that transaction m has changed.
WaitsFor(l, m) ==
    \/ tx[l].stgSnap \cap tx[m].stgDel # {}
    \/ \E s \in tx[l].factSnap : Doomed(s) # {} /\ Grain(s.row) \in Touched(m)
    \/ \E r \in tx[l].source : Grain(r) \in Touched(m)

\* Every transaction of some set that l is in waits for another one of that set.
Deadlocked(l) ==
    \E S \in SUBSET Loaders : l \in S /\ \A m \in S : \E n \in S \ {m} : WaitsFor(m, n)

\* The server finds the cycle and aborts one of the transactions in it.
Aborted(l) == pc[l] \in InTx /\ Deadlocked(l) /\ RollBack(l)

\* Mutant of Merged: a plain INSERT and no unique index.
PlainInsert(t) == (fact \ t.factDel) \cup t.factIns

\* What the fact is once the changes of transaction t are in.
Merged(t) ==
    LET written == GrainsOf({f.row : f \in t.factIns}) IN
    {f \in fact : f \notin t.factDel /\ Grain(f.row) \notin written} \cup t.factIns

\* Mutant of Acked: an error of COMMIT is taken for success.
AckAssumed(l, acked) ==
    /\ acked \/ "lost_ack" \in Faults
    /\ runs' = [runs EXCEPT ![entry[l]].fate = IF acked THEN "landed" ELSE "unacked"]
    /\ pc' = [pc EXCEPT ![l] = "committed"]

\* Leaving engine.begin() commits. A lost answer raises although it did.
Acked(l, acked) ==
    /\ acked \/ "lost_ack" \in Faults
    /\ runs' = [runs EXCEPT ![entry[l]].fate = IF acked THEN "landed" ELSE "unacked"]
    /\ pc' = [pc EXCEPT ![l] = IF acked THEN "committed" ELSE "failing"]

Commit(l, acked) ==
    /\ pc[l] = "upserted"
    /\ fact' = Merged(tx[l])
    /\ staging' = StagingView(l)
    /\ Acked(l, acked)
    /\ tx' = [tx EXCEPT ![l] = [EmptyTx EXCEPT !.read = tx[l].read,
                                               !.inserted = tx[l].inserted]]
    /\ UNCHANGED <<dims, job, entry, exit, commands>>

-----------------------------------------------------------------------------
(* load_dimensions: one transaction, and one audit entry, per dimension    *)

Table(l) == runs[entry[l]].table

\* The batches of one dimension are upserted in a single transaction; rows
\* absent from the export stay.
UpsertDimension(l, acked) ==
    /\ pc[l] = "dim_opened"
    /\ Table(l) \notin job[l].export.broken
    /\ LET new == job[l].export.dims[Table(l)] IN
       /\ dims' = [dims EXCEPT ![Table(l)] = @ \cup new]
       /\ tx' = [tx EXCEPT ![l].read = Cardinality(new),
                           ![l].inserted = Cardinality(new \ dims[Table(l)])]
    /\ Acked(l, acked)
    /\ UNCHANGED <<fact, staging, job, entry, exit, commands>>

UpsertDimensionFails(l) ==
    /\ pc[l] = "dim_opened"
    /\ Table(l) \in job[l].export.broken
    /\ RollBack(l)

\* _DIMENSIONS in order; dim_relation is the last.
NextDim(t) == IF t = "dim_date" THEN "dim_station" ELSE "dim_relation"

StartNextDimension(l) ==
    /\ pc[l] = "dim_next"
    /\ StartRun(l, NextDim(Table(l)), "dim_opened")
    /\ tx' = [tx EXCEPT ![l] = EmptyTx]
    /\ UNCHANGED <<database, job, exit, commands>>

-----------------------------------------------------------------------------
(* Closing the audit entry and leaving                                     *)

\* finish_run, after the commit.
FinishRun(l) ==
    /\ pc[l] = "committed"
    /\ CloseEntry(l)
    /\ pc' = [pc EXCEPT ![l] = IF Table(l) \in {"dim_date", "dim_station"}
                                 THEN "dim_next" ELSE "closed"]
    /\ UNCHANGED <<database, job, entry, tx, exit, commands>>

\* The command ends with EXIT_ERROR.
ExitError(l) == Leave(l, "exited", "error") /\ UNCHANGED <<database, commands>>

\* fail_run, after the rollback; then the exception goes on.
FailRun(l) == pc[l] = "failing" /\ CloseEntry(l) /\ ExitError(l)

\* Mutant of CloseRaises: finish_run inside the try block, so that its own
\* failure is answered by fail_run.
FinishInsideTry(l) ==
    /\ "audit" \in Faults
    /\ pc[l] = "committed"
    /\ pc' = [pc EXCEPT ![l] = "failing"]
    /\ UNCHANGED <<database, runs, job, entry, tx, exit, commands>>

\* Closing the entry raises, before or after the update was applied.
CloseRaises(l) ==
    /\ "audit" \in Faults
    /\ pc[l] \in {"committed", "failing"}
    /\ CloseEntry(l) \/ UNCHANGED runs
    /\ ExitError(l)

\* start_run for the next dimension raises.
StartNextRaises(l) == pc[l] = "dim_next" /\ "db" \in Faults /\ ExitError(l) /\ UNCHANGED runs

\* count_fact_rows, read again from the export on disk.
OnDisk(j, read) == IF j.export.layout = "partitioned"
                     THEN Cardinality(RowsIn(j.export.rows, j.scope)) ELSE read

\* Mutant of FactCovered: compares what was read, not what was promoted.
FactRead(j, read, inserted) ==
    IF IsFull(j.scope) THEN read = j.export.total ELSE read = OnDisk(j, read)

\* Mutant of FactCovered: the end of the window is taken for a day of it.
FactReach(j, read, inserted) ==
    IF IsFull(j.scope)
      THEN inserted = j.export.total
      ELSE /\ j.scope.start # Null => j.scope.start >= j.export.first
           /\ j.scope.end # Null => j.scope.end <= j.export.last + 2
           /\ inserted = OnDisk(j, read)

\* assert_fact_coverage
FactCovered(j, read, inserted) ==
    IF IsFull(j.scope)
      THEN inserted = j.export.total
      ELSE /\ j.scope.start # Null => j.scope.start >= j.export.first
           /\ j.scope.end # Null => j.scope.end <= j.export.last + 1
           /\ inserted = OnDisk(j, read)

\* assert_dimension_counts
DimsCovered(j) == \A d \in Dims : Cardinality(j.export.dims[d]) = j.export.declared[d]

Covered(l) == IF job[l].kind = "fact" THEN FactCovered(job[l], tx[l].read, tx[l].inserted)
                                      ELSE DimsCovered(job[l])

\* The manifest gate runs last, on the counts the load returned.
Gate(l) ==
    /\ pc[l] = "closed"
    /\ Leave(l, "exited", IF Covered(l) THEN "ok" ELSE "error")
    /\ UNCHANGED <<database, runs, commands>>

-----------------------------------------------------------------------------
(* Failures                                                                *)

\* Any statement of an open transaction may raise.
StatementFails(l) ==
    /\ "db" \in Faults
    /\ pc[l] \in InTx \cup {"opened"}
    /\ RollBack(l)

\* The process dies; the server rolls its transaction back.
Crash(l) ==
    /\ "crash" \in Faults
    /\ pc[l] \notin AtRest
    /\ Leave(l, "dead", "none")
    /\ UNCHANGED <<database, runs, commands>>

Step(l) ==
    \/ BeginClearing(l) \/ ClearRow(l) \/ Stage(l) \/ StageFails(l)
    \/ CountStaged(l) \/ Validate(l)
    \/ BeginDelete(l) \/ DeleteRow(l) \/ DeleteScope(l)
    \/ CountPromoted(l) \/ BeginUpsert(l) \/ UpsertRow(l) \/ Upsert(l) \/ Aborted(l)
    \/ \E acked \in BOOLEAN : Commit(l, acked) \/ UpsertDimension(l, acked)
    \/ UpsertDimensionFails(l) \/ StartNextDimension(l)
    \/ FinishRun(l) \/ FailRun(l) \/ Gate(l)

Fault(l) == StatementFails(l) \/ CloseRaises(l) \/ StartNextRaises(l) \/ Crash(l)

Command(l) == \E j \in JobsOf[l] : Begin(l, j) \/ Refuse(l, j)

Next == \E l \in Loaders : Command(l) \/ Step(l) \/ Fault(l)

\* A started command is a running process: it keeps taking steps.
Spec == Init /\ [][Next]_vars /\ \A l \in Loaders : WF_vars(Step(l))

-----------------------------------------------------------------------------
(* What must hold                                                          *)

\* What load_fact does not check and its promises need. No load of part of a single
\* file is under the policy skip. Loads that may run at once are of partitioned exports,
\* of windows without a date in common, and under the policy fail.
KeepApart(jobsOf) ==
    /\ \A l \in DOMAIN jobsOf : \A j \in jobsOf[l] :
          j.kind = "fact" /\ j.policy = "skip" /\ j.export.layout = "single" => IsFull(j.scope)
    /\ \A l, m \in DOMAIN jobsOf : l # m => \A i \in jobsOf[l], j \in jobsOf[m] :
          /\ i.kind = "fact" => i.policy = "fail"
          /\ i.kind = "fact" /\ j.kind = "fact" =>
                /\ j.export.layout = "partitioned"
                /\ \A d \in Dates \cup {Null} :
                      ~(InScope([date |-> d], i.scope) /\ InScope([date |-> d], j.scope))

\* An audit entry never lies about its load: `succeeded' is written only for a
\* transaction that committed, and `failed' only for one that did not, unless
\* the database lost the answer to COMMIT (load_fact, run_log).
AuditTruthful ==
    \A i \in DOMAIN runs :
        /\ runs[i].status = "succeeded" => runs[i].fate = "landed"
        /\ runs[i].status = "failed" => runs[i].fate # "landed"

\* The tallies load_fact computes from its two count statements agree with the
\* rows its INSERT really wrote, and no load rejects a negative number of rows.
TallyTruthful ==
    \A l \in Loaders : pc[l] = "upserted" =>
        tx[l].inserted = Cardinality(tx[l].factIns) /\ tx[l].inserted <= tx[l].read

\* Whatever the rules let through, at whatever moment they read staging and the
\* dimensions: the fact holds one row per grain, and every row has its keys,
\* its dimension rows and its partition.
FactSound ==
    /\ \A f \in fact : Storable(f.row, dims)
    /\ \A f, g \in fact : Grain(f.row) = Grain(g.row) => f = g

\* The days a window asks for by its bounds are days the export declares.
Declared(x, sc) ==
    \A d \in Dates : /\ sc.start # Null /\ d >= sc.start => d >= x.first
                     /\ sc.end # Null /\ d < sc.end => d <= x.last

\* EXIT_OK means the window is complete in the fact: a full load has every row
\* the manifest declares, a partial one every row of the export's window, and no
\* day it was asked for lies outside the days the manifest declares.
ExitOkMeansLanded ==
    [][\A l \in Loaders :
         Gate(l) /\ job[l].kind = "fact" /\ exit'[l] = "ok" =>
           /\ Declared(job[l].export, job[l].scope)
           /\ Cardinality(RowsIn({f.row : f \in fact}, job[l].scope)) =
                IF IsFull(job[l].scope) THEN job[l].export.total
                  ELSE Cardinality(RowsIn(job[l].export.rows, job[l].scope))]_vars

\* A load changes nothing outside its window: "date_range loads [start, end)".
OutsideWindowUntouched ==
    [][\A l \in Loaders : pc[l] = "upserted" /\ fact' # fact =>
         \A f \in (fact \ fact') \cup (fact' \ fact) : InScope(f.row, job[l].scope)]_vars

\* An export that holds fewer rows than its manifest declares is never promoted:
\* no full load of one lands.
TruncatedNeverLands ==
    \A l \in Loaders :
        pc[l] = "committed" /\ job[l].kind = "fact" /\ IsFull(job[l].scope)
          => Cardinality(job[l].export.rows) >= job[l].export.total

\* The loader keeps the promise of WindowLoad.
Promise == INSTANCE WindowLoad WITH
    FactJobs   <- {j \in UNION {JobsOf[l] : l \in Loaders} : j.kind = "fact"},
    DimExports <- {j.export : j \in UNION {JobsOf[l] : l \in Loaders}},
    rows       <- {f.row : f \in fact},
    known      <- dims,
    audit      <- [i \in DOMAIN runs |-> [status |-> runs[i].status, fate |-> runs[i].fate]]

KeepsPromise == Promise!WSpec

\* No load waits for ever on another, even when two of them reach the rows they share in
\* opposite orders: a command that was started ends, by exiting or by dying.
LoadTerminates == \A l \in Loaders : (pc[l] \notin AtRest) ~> (pc[l] \in AtRest)

=============================================================================
