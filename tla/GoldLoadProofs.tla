--------------------------- MODULE GoldLoadProofs ---------------------------
(***************************************************************************)
(* Proofs about GoldLoad, for every set of loaders, keys, exports, jobs    *)
(* and faults: the types, the truth of the audit, and the soundness of the *)
(* fact under any interleaving of loads; and, for loads that keep apart    *)
(* (Apart), the truth of their tallies, the completeness of what exits     *)
(* with EXIT_OK, and the refinement of WindowLoad.                         *)
(***************************************************************************)
EXTENDS GoldLoad, FiniteSetTheorems, TLAPS

-----------------------------------------------------------------------------
(* The inductive invariants                                                *)

\* Staged rows are finitely many, so that they can be counted.
Countable ==
    /\ IsFiniteSet(staging)
    /\ \A l \in Loaders : IsFiniteSet(tx[l].stgIns)

\* A loader between Begin and the close of its entry holds a running entry of
\* its own, whose fate follows its place in the command.
Held(l) ==
    /\ pc[l] \notin AtRest => job[l] \in JobsOf[l] /\ entry[l] \in DOMAIN runs
    /\ pc[l] \in Holding => runs[entry[l]].status = "running"
    /\ pc[l] \in InTx \cup {"opened"} => runs[entry[l]].fate = "pending"
    /\ pc[l] = "committed" => runs[entry[l]].fate = "landed"
    /\ pc[l] = "failing" => runs[entry[l]].fate # "landed"
    /\ pc[l] = "dim_opened" => runs[entry[l]].table \in Dims
    /\ pc[l] \in FactTx \cup {"opened"} => runs[entry[l]].table = "fact_stop_event"
    /\ pc[l] = "committed" /\ runs[entry[l]].table \in Dims
         => tx[l].inserted <= tx[l].read

OwnEntry(l, m) == pc[l] \in Holding /\ pc[m] \in Holding /\ l # m => entry[l] # entry[m]

Audit ==
    /\ \A l \in Loaders : Held(l)
    /\ \A l, m \in Loaders : OwnEntry(l, m)
    /\ AuditTruthful

\* What an open transaction has upserted satisfies the constraints of a row, and once
\* the statement is over the foreign keys as well.
Upserted ==
    \A l \in Loaders :
        /\ \A f \in tx[l].factIns : Placeable(f.row)
        /\ \A f, g \in tx[l].factIns : Grain(f.row) = Grain(g.row) => f = g
        /\ pc[l] = "upserted" => \A f \in tx[l].factIns : Storable(f.row, dims)

-----------------------------------------------------------------------------
(* Lemmas on the operators                                                 *)

\* An empty transaction is a transaction.
LEMMA EmptyTxType == EmptyTx \in Transaction
BY DEF EmptyTx, Transaction

\* Selecting by scope keeps a part of the rows.
LEMMA RowsInSubset == ASSUME NEW S, NEW sc PROVE RowsIn(S, sc) \subseteq S
BY DEF RowsIn

\* Selecting the valid rows keeps a part of the rows.
LEMMA ValidRowsSubset == ASSUME NEW S, NEW d PROVE ValidRows(S, d) \subseteq S
BY DEF ValidRows

\* A row that can be stored can still be stored once the dimensions have grown.
LEMMA StorableMonotone ==
    ASSUME NEW r, NEW d1, NEW d2, \A k \in Dims : d1[k] \subseteq d2[k], Storable(r, d1)
    PROVE  Storable(r, d2)
BY DEF Storable, IsOrphan

\* A load reads rows, finitely many of them.
LEMMA ReadRowsType ==
    ASSUME NEW l \in Loaders, job[l] \in Job, ExportFits(job[l].export)
    PROVE  ReadRows(job[l]) \subseteq Row /\ IsFiniteSet(ReadRows(job[l]))
<1>1. job[l].export.rows \subseteq Row
  BY DEF Job, Export
<1>2. IsFiniteSet(job[l].export.rows)
  BY DEF ExportFits
<1>3. ReadRows(job[l]) \subseteq job[l].export.rows
  BY RowsInSubset DEF ReadRows
<1>. QED
  BY <1>1, <1>2, <1>3, FS_Subset

\* Stamping rows with a run keeps them finitely many.
LEMMA StampedFinite ==
    ASSUME NEW S, IsFiniteSet(S), NEW i
    PROVE  IsFiniteSet({[r EXCEPT !.run = i] : r \in S})
<1>. DEFINE stamped == {[r EXCEPT !.run = i] : r \in S}
            stamp == [r \in S |-> [r EXCEPT !.run = i]]
<1>1. stamp \in Surjection(S, stamped)
  BY DEF Surjection
<1>. HIDE DEF stamp
<1>. QED
  BY <1>1, FS_Surjection

\* What a transaction sees of staging are rows, finitely many of them.
LEMMA StagingViewType ==
    ASSUME TypeOK, Countable, NEW l \in Loaders
    PROVE  StagingView(l) \subseteq Row /\ IsFiniteSet(StagingView(l))
<1>1. staging \subseteq Row /\ tx[l].stgIns \subseteq Row
  BY DEF TypeOK, Transaction
<1>2. IsFiniteSet(staging \ tx[l].stgDel)
  BY FS_Difference DEF Countable
<1>3. IsFiniteSet(tx[l].stgIns)
  BY DEF Countable
<1>4. IsFiniteSet(StagingView(l))
  BY <1>2, <1>3, FS_Union DEF StagingView
<1>. QED
  BY <1>1, <1>4 DEF StagingView

\* What _promote selects are rows, finitely many of them.
LEMMA SourceType ==
    ASSUME TypeOK, Countable, NEW l \in Loaders
    PROVE  Source(l) \subseteq Row /\ IsFiniteSet(Source(l))
<1>1. Source(l) \subseteq StagingView(l)
  BY RowsInSubset, ValidRowsSubset DEF Source
<1>. QED
  BY <1>1, StagingViewType, FS_Subset

\* What an upsert writes for a row is a tuple.
LEMMA WrittenType ==
    ASSUME TypeOK, NEW l \in Loaders, NEW r \in tx[l].source
    PROVE  Written(l, r) \in Tuple /\ Written(l, r).row = r
<1> DEFINE old == {f \in fact \ tx[l].factDel : Grain(f.row) = Grain(r)}
<1>1. r \in Row
  BY DEF TypeOK, Transaction
<1>2. CASE old = {}
  BY <1>1, <1>2 DEF TypeOK, Tuple, Written
<1>3. CASE old # {}
  <2>1. (CHOOSE f \in old : TRUE) \in old
    BY <1>3
  <2>2. (CHOOSE f \in old : TRUE) \in Tuple
    BY <2>1 DEF TypeOK
  <2> QED
    BY <1>1, <1>3, <2>2 DEF Tuple, Written
<1> QED
  BY <1>2, <1>3

-----------------------------------------------------------------------------
(* Steps inside a transaction                                              *)

\* A step of a transaction keeps the types, if its result is a transaction.
LEMMA TxStepType ==
    ASSUME TypeOK, NEW l \in Loaders, NEW next \in PCs, NEW t \in Transaction,
           TxStep(l, next, t)
    PROVE  TypeOK'
BY DEF TypeOK, TxStep, database

\* A step of an open transaction keeps the audit as it is.
LEMMA TxStepAudit ==
    ASSUME TypeOK, Audit, NEW l \in Loaders, NEW next, NEW t,
           pc[l] \in InTx \cup {"opened"},
           \/ next = "failing"
           \/ next \in FactTx /\ pc[l] # "dim_opened",
           TxStep(l, next, t)
    PROVE  Audit'
<1>. USE DEF Holding, InTx, FactTx, AtRest
<1>1. ASSUME NEW m \in Loaders PROVE Held(m)'
  <2>1. CASE m = l
    BY <2>1 DEF TypeOK, Audit, Held, TxStep
  <2>2. CASE m # l
    BY <2>2 DEF TypeOK, Audit, Held, TxStep
  <2>. QED
    BY <2>1, <2>2
<1>2. ASSUME NEW m \in Loaders, NEW n \in Loaders PROVE OwnEntry(m, n)'
  BY DEF TypeOK, Audit, OwnEntry, TxStep
<1>3. AuditTruthful'
  BY DEF Audit, AuditTruthful, TxStep
<1>. QED
  BY <1>1, <1>2, <1>3 DEF Audit

-----------------------------------------------------------------------------
(* Type correctness                                                        *)

\* What the types and the audit need of each other, and of staging.
IInv == TypeOK /\ Countable /\ Audit

\* The tables are empty and nobody loads.
LEMMA InitIInv == Init => IInv
<1>. SUFFICES ASSUME Init PROVE IInv
  OBVIOUS
<1>1. TypeOK
  BY LoadAssumption, EmptyTxType DEF Init, TypeOK, PCs, AtRest
<1>2. Countable
  BY FS_EmptySet DEF Init, Countable, EmptyTx
<1>3. Audit
  BY DEF Init, Audit, Held, OwnEntry, AuditTruthful, Holding, InTx, FactTx, AtRest
<1>. QED
  BY <1>1, <1>2, <1>3 DEF IInv

\* The steps of load_fact's transaction are TxSteps to a well-typed transaction.
LEMMA FactStep ==
    ASSUME IInv, NEW l \in Loaders,
           \/ BeginClearing(l) \/ ClearRow(l) \/ Stage(l) \/ StageFails(l)
           \/ CountStaged(l) \/ Validate(l)
           \/ BeginDelete(l) \/ DeleteRow(l) \/ DeleteScope(l)
           \/ CountPromoted(l) \/ BeginUpsert(l)
           \/ UpsertRow(l) \/ Upsert(l) \/ UpsertDimensionFails(l) \/ Aborted(l) \/ StatementFails(l)
    PROVE  /\ pc[l] \in InTx \cup {"opened"}
           /\ \E next \in FactTx \cup {"failing"}, t \in Transaction :
                 /\ TxStep(l, next, t)
                 /\ next = "failing" => t = EmptyTx
                 /\ pc[l] = "dim_opened" => next = "failing"
                 /\ t.stgIns # tx[l].stgIns => IsFiniteSet(t.stgIns)
<1>. USE DEF InTx, FactTx
<1>a. tx[l] \in Transaction /\ EmptyTx \in Transaction /\ IsFiniteSet(EmptyTx.stgIns)
  BY EmptyTxType, FS_EmptySet DEF IInv, TypeOK, EmptyTx
<1>b. pc[l] \in InTx \cup {"opened"} => job[l] \in Job /\ ExportFits(job[l].export)
                                      /\ entry[l] \in Nat
  BY LoadAssumption DEF IInv, TypeOK, Audit, Held, AtRest
<1>1. CASE BeginClearing(l)
  <2>1. [tx[l] EXCEPT !.stgSnap = staging] \in Transaction
    BY <1>a DEF IInv, TypeOK, Transaction
  <2>. QED
    BY <1>1, <1>a, <2>1 DEF BeginClearing, Transaction
<1>2. CASE Stage(l)
  <2>. DEFINE own == {[r EXCEPT !.run = entry[l]] : r \in ReadRows(job[l])}
              t == [tx[l] EXCEPT !.stgIns = own]
  <2>1. ReadRows(job[l]) \subseteq Row /\ IsFiniteSet(ReadRows(job[l]))
    BY <1>2, <1>b, ReadRowsType DEF Stage
  <2>2. own \subseteq Row
    BY <1>2, <1>b, <2>1 DEF Row, Stage
  <2>3. IsFiniteSet(own)
    BY <2>1, StampedFinite
  <2>4. t \in Transaction /\ t.stgIns = own
    BY <1>a, <2>2 DEF IInv, TypeOK, Transaction
  <2>. QED
    BY <1>2, <2>3, <2>4 DEF Stage
<1>3. CASE StageFails(l) \/ UpsertDimensionFails(l) \/ Aborted(l) \/ StatementFails(l)
  BY <1>3, <1>a DEF StageFails, UpsertDimensionFails, Aborted, StatementFails, RollBack
<1>4. CASE CountStaged(l)
  <2>. DEFINE seen == RowsIn(StagingView(l), job[l].scope)
  <2>1. Cardinality(seen) \in Nat
    BY StagingViewType, RowsInSubset, FS_Subset, FS_CardinalityType DEF IInv
  <2>2. [tx[l] EXCEPT !.read = Cardinality(seen)] \in Transaction
    BY <1>a, <2>1 DEF Transaction
  <2>. QED
    BY <1>4, <1>a, <2>2 DEF CountStaged, Transaction
<1>5. CASE Validate(l)
  <2>1. \A b \in BOOLEAN : [tx[l] EXCEPT !.dirty = b] \in Transaction
    BY <1>a DEF Transaction
  <2>2. Violated(StagingView(l), dims) \in BOOLEAN
    BY DEF Violated
  <2>. QED
    BY <1>5, <1>a, <2>1, <2>2 DEF Validate, RollBack, Transaction
<1>6. CASE BeginDelete(l)
  <2>. DEFINE snap == {f \in fact : InScope(f.row, job[l].scope)}
  <2>1. [tx[l] EXCEPT !.factSnap = snap] \in Transaction
    BY <1>a DEF IInv, TypeOK, Transaction
  <2>. QED
    BY <1>6, <1>a, <2>1 DEF BeginDelete, Transaction
<1>7. CASE DeleteScope(l) \/ (Upsert(l) /\ Referenced({f.row : f \in tx[l].factIns}, dims))
  BY <1>7, <1>a DEF DeleteScope, Upsert
<1>8. CASE CountPromoted(l)
  <2>1. Cardinality(Source(l)) \in Nat
    BY SourceType, FS_CardinalityType DEF IInv
  <2>2. [tx[l] EXCEPT !.inserted = Cardinality(Source(l))] \in Transaction
    BY <1>a, <2>1 DEF Transaction
  <2>. QED
    BY <1>8, <1>a, <2>2 DEF CountPromoted, Transaction
<1>9. CASE BeginUpsert(l)
  <2>1. [tx[l] EXCEPT !.source = Source(l)] \in Transaction
    BY <1>a, SourceType DEF IInv, Transaction
  <2>. QED
    BY <1>9, <1>a, <2>1 DEF BeginUpsert, Transaction
<1>10. CASE Upsert(l) /\ ~Referenced({f.row : f \in tx[l].factIns}, dims)
  BY <1>10, <1>a DEF Upsert, RollBack
<1>11. CASE ClearRow(l)
  <2>1. PICK r \in tx[l].stgSnap :
          TxStep(l, "clearing", [tx[l] EXCEPT !.stgSnap = @ \ {r},
                                              !.stgDel = @ \cup ({r} \cap staging)])
    BY <1>11 DEF ClearRow
  <2>2. [tx[l] EXCEPT !.stgSnap = @ \ {r}, !.stgDel = @ \cup ({r} \cap staging)]
          \in Transaction
    BY <1>a DEF Transaction
  <2> QED
    BY <1>11, <1>a, <2>1, <2>2 DEF ClearRow, Transaction
<1>12. CASE DeleteRow(l)
  <2>1. PICK s \in tx[l].factSnap :
          TxStep(l, "deleting", [tx[l] EXCEPT !.factSnap = @ \ {s},
                                              !.factDel = @ \cup Doomed(s)])
    BY <1>12 DEF DeleteRow
  <2>2. Doomed(s) \subseteq Tuple
    BY DEF Doomed, IInv, TypeOK
  <2>3. [tx[l] EXCEPT !.factSnap = @ \ {s}, !.factDel = @ \cup Doomed(s)] \in Transaction
    BY <1>a, <2>2 DEF Transaction
  <2> QED
    BY <1>12, <1>a, <2>1, <2>3 DEF DeleteRow, Transaction
<1>13. CASE UpsertRow(l)
  <2>1. PICK r \in tx[l].source :
          \/ RollBack(l)
          \/ TxStep(l, "upserting", [tx[l] EXCEPT !.source = @ \ {r},
                                                 !.factIns = @ \cup {Written(l, r)}])
    BY <1>13 DEF UpsertRow
  <2>2. Written(l, r) \in Tuple
    BY WrittenType DEF IInv
  <2>3. [tx[l] EXCEPT !.source = @ \ {r}, !.factIns = @ \cup {Written(l, r)}] \in Transaction
    BY <1>a, <2>2 DEF Transaction
  <2> QED
    BY <1>13, <1>a, <2>1, <2>3 DEF UpsertRow, RollBack, Transaction
<1>. QED
  BY <1>1, <1>2, <1>3, <1>4, <1>5, <1>6, <1>7, <1>8, <1>9, <1>10, <1>11, <1>12, <1>13

\* A step of a transaction to a typed transaction keeps the invariant.
LEMMA TxStepIInv ==
    ASSUME IInv, NEW l \in Loaders, pc[l] \in InTx \cup {"opened"},
           NEW next \in FactTx \cup {"failing"}, NEW t \in Transaction,
           TxStep(l, next, t),
           pc[l] = "dim_opened" => next = "failing",
           t.stgIns # tx[l].stgIns => IsFiniteSet(t.stgIns)
    PROVE  IInv'
<1>1. TypeOK'
  BY TxStepType DEF IInv, PCs, Holding, InTx
<1>2. Countable'
  BY DEF IInv, TypeOK, Countable, TxStep, database
<1>3. Audit'
  BY TxStepAudit DEF IInv
<1>. QED
  BY <1>1, <1>2, <1>3 DEF IInv

\* Every transaction action of a loader keeps the invariant.
LEMMA FactStepIInv ==
    ASSUME IInv, NEW l \in Loaders,
           \/ BeginClearing(l) \/ ClearRow(l) \/ Stage(l) \/ StageFails(l)
           \/ CountStaged(l) \/ Validate(l)
           \/ BeginDelete(l) \/ DeleteRow(l) \/ DeleteScope(l)
           \/ CountPromoted(l) \/ BeginUpsert(l)
           \/ UpsertRow(l) \/ Upsert(l) \/ UpsertDimensionFails(l) \/ Aborted(l) \/ StatementFails(l)
    PROVE  IInv'
<1>1. PICK next \in FactTx \cup {"failing"}, t \in Transaction :
         /\ TxStep(l, next, t)
         /\ next = "failing" => t = EmptyTx
         /\ pc[l] = "dim_opened" => next = "failing"
         /\ t.stgIns # tx[l].stgIns => IsFiniteSet(t.stgIns)
  BY FactStep
<1>. QED
  BY <1>1, FactStep, TxStepIInv

-----------------------------------------------------------------------------
(* Opening an audit entry                                                  *)

\* A fresh entry keeps the invariant, whoever opens it: its id is no one else's.
LEMMA StartRunIInv ==
    ASSUME IInv, NEW l \in Loaders, NEW table \in Tables, NEW next \in {"opened", "dim_opened"},
           NEW j \in JobsOf[l],
           next = "opened" => table = "fact_stop_event",
           next = "dim_opened" => table \in Dims,
           StartRun(l, table, next),
           job' = [job EXCEPT ![l] = j], tx' = [tx EXCEPT ![l] = EmptyTx],
           exit' \in [Loaders -> {"none", "ok", "error"}], commands' \in Nat,
           UNCHANGED database
    PROVE  IInv'
<1>. USE DEF Holding, InTx, FactTx, AtRest
<1>1. OpenEntry(table) \in AuditEntry
  BY DEF OpenEntry, AuditEntry
<1>2. /\ runs \in Seq(AuditEntry) /\ Len(runs) \in Nat
      /\ DOMAIN runs = 1..Len(runs)
  BY DEF IInv, TypeOK
<1>3. /\ runs' \in Seq(AuditEntry)
      /\ DOMAIN runs' = 1..(Len(runs) + 1)
      /\ runs'[Len(runs) + 1] = OpenEntry(table)
      /\ \A i \in DOMAIN runs : runs'[i] = runs[i]
  BY <1>1, <1>2 DEF StartRun
<1>4. TypeOK'
  <2>1. job' \in [Loaders -> Job \cup {Null}]
    BY LoadAssumption DEF IInv, TypeOK
  <2>2. tx' \in [Loaders -> Transaction]
    BY EmptyTxType DEF IInv, TypeOK
  <2>3. pc' \in [Loaders -> PCs] /\ entry' \in [Loaders -> Nat]
    BY <1>2 DEF IInv, TypeOK, StartRun, PCs
  <2>. QED
    BY <1>3, <2>1, <2>2, <2>3 DEF IInv, TypeOK, database
<1>5. Countable'
  BY FS_EmptySet DEF IInv, TypeOK, Countable, database, EmptyTx
<1>6. ASSUME NEW m \in Loaders PROVE Held(m)'
  <2>1. CASE m = l
    BY <1>2, <1>3, <2>1 DEF IInv, TypeOK, StartRun, Held, OpenEntry
  <2>2. CASE m # l
    <3>1. pc'[m] = pc[m] /\ job'[m] = job[m] /\ entry'[m] = entry[m] /\ tx'[m] = tx[m]
      BY <2>2 DEF IInv, TypeOK, StartRun
    <3>2. pc[m] \notin AtRest => /\ entry[m] \in DOMAIN runs
                                 /\ runs'[entry[m]] = runs[entry[m]]
                                 /\ entry[m] \in DOMAIN runs'
      BY <1>2, <1>3 DEF IInv, Audit, Held
    <3>. QED
      BY <3>1, <3>2 DEF IInv, Audit, Held
  <2>. QED
    BY <2>1, <2>2
<1>7. ASSUME NEW m \in Loaders, NEW n \in Loaders PROVE OwnEntry(m, n)'
  <2>1. \A k \in Loaders \ {l} : pc[k] \in Holding => entry[k] \in 1..Len(runs)
    BY <1>2 DEF IInv, Audit, Held
  <2>2. entry'[l] = Len(runs) + 1 /\ \A k \in Loaders \ {l} : entry'[k] = entry[k] /\ pc'[k] = pc[k]
    BY DEF IInv, TypeOK, StartRun
  <2>3. CASE m # l /\ n # l
    BY <2>2, <2>3 DEF IInv, Audit, OwnEntry
  <2>4. CASE m = l \/ n = l
    BY <1>2, <2>1, <2>2, <2>4 DEF OwnEntry
  <2>. QED
    BY <2>3, <2>4
<1>8. AuditTruthful'
  BY <1>2, <1>3 DEF IInv, Audit, AuditTruthful, OpenEntry
<1>. QED
  BY <1>4, <1>5, <1>6, <1>7, <1>8 DEF IInv, Audit

\* Beginning a command keeps the invariant.
LEMMA BeginIInv ==
    ASSUME IInv, NEW l \in Loaders, NEW j \in JobsOf[l], Begin(l, j)
    PROVE  IInv'
<1>1. /\ exit' \in [Loaders -> {"none", "ok", "error"}] /\ commands' \in Nat
      /\ job' = [job EXCEPT ![l] = j] /\ tx' = [tx EXCEPT ![l] = EmptyTx]
      /\ UNCHANGED database
  BY DEF Begin, IInv, TypeOK
<1>2. CASE StartRun(l, "fact_stop_event", "opened")
  BY <1>1, <1>2, StartRunIInv DEF Tables
<1>3. CASE StartRun(l, "dim_date", "dim_opened")
  BY <1>1, <1>3, StartRunIInv DEF Tables, Dims
<1>. QED
  BY <1>2, <1>3 DEF Begin

\* Going on to the next dimension keeps the invariant.
LEMMA StartNextDimensionIInv ==
    ASSUME IInv, NEW l \in Loaders, StartNextDimension(l)
    PROVE  IInv'
<1>1. job[l] \in JobsOf[l] /\ job' = [job EXCEPT ![l] = job[l]]
  BY DEF StartNextDimension, IInv, TypeOK, Audit, Held, AtRest
<1>2. NextDim(Table(l)) \in Dims
  BY DEF NextDim, Dims
<1>. QED
  BY <1>1, <1>2, StartRunIInv DEF StartNextDimension, IInv, TypeOK, Tables

-----------------------------------------------------------------------------
(* Committing, closing the audit entry and leaving                         *)

\* COMMIT changes one entry's fate, and only that.
LEMMA AckedAudit ==
    ASSUME IInv, NEW l \in Loaders, NEW acked \in BOOLEAN, Acked(l, acked),
           pc[l] \in {"upserted", "dim_opened"},
           pc[l] = "dim_opened" => tx'[l].inserted <= tx'[l].read,
           \A m \in Loaders \ {l} : tx'[m] = tx[m],
           UNCHANGED <<job, entry>>
    PROVE  Audit' /\ runs' \in Seq(AuditEntry) /\ pc' \in [Loaders -> PCs]
<1>. USE DEF Holding, InTx, FactTx, AtRest
<1>. DEFINE e == entry[l]
            fate == IF acked THEN "landed" ELSE "unacked"
<1>1. /\ e \in DOMAIN runs /\ runs \in Seq(AuditEntry)
      /\ runs[e] \in AuditEntry /\ runs[e].status = "running"
      /\ fate \in {"landed", "unacked"}
  BY DEF IInv, TypeOK, Audit, Held
<1>2. runs' = [runs EXCEPT ![e] = [runs[e] EXCEPT !.fate = fate]]
  BY DEF Acked
<1>a. fate = "landed" <=> acked
  OBVIOUS
<1>. HIDE DEF fate
<1>3. [runs[e] EXCEPT !.fate = fate] \in AuditEntry
  BY <1>1 DEF AuditEntry
<1>4. runs' \in Seq(AuditEntry) /\ DOMAIN runs' = DOMAIN runs
  BY <1>1, <1>2, <1>3
<1>5. /\ runs'[e].fate = fate /\ runs'[e].status = "running"
      /\ runs'[e].table = runs[e].table
      /\ \A i \in DOMAIN runs \ {e} : runs'[i] = runs[i]
  BY <1>1, <1>2 DEF AuditEntry
<1>6. pc' \in [Loaders -> PCs]
  BY DEF Acked, IInv, TypeOK, PCs
<1>7. ASSUME NEW m \in Loaders PROVE Held(m)'
  <2>1. CASE m = l
    <3>1. /\ pc'[l] = IF acked THEN "committed" ELSE "failing"
          /\ job'[l] = job[l] /\ entry'[l] = e /\ job[l] \in JobsOf[l]
      BY DEF IInv, TypeOK, Audit, Held, Acked
    <3>2. pc[l] = "upserted" => runs[e].table \notin Dims
      BY DEF IInv, Audit, Held, Dims
    <3>. QED
      BY <1>a, <1>1, <1>4, <1>5, <2>1, <3>1, <3>2 DEF Held
  <2>2. CASE m # l
    <3>1. pc'[m] = pc[m] /\ job'[m] = job[m] /\ entry'[m] = entry[m] /\ tx'[m] = tx[m]
      BY <2>2 DEF IInv, TypeOK, Acked
    <3>2. pc[m] \in Holding => entry[m] # e
      BY <2>2 DEF IInv, Audit, OwnEntry
    <3>. QED
      BY <1>4, <1>5, <3>1, <3>2 DEF IInv, Audit, Held
  <2>. QED
    BY <2>1, <2>2
<1>8. ASSUME NEW m \in Loaders, NEW n \in Loaders PROVE OwnEntry(m, n)'
  BY DEF IInv, TypeOK, Audit, OwnEntry, Acked
<1>9. AuditTruthful'
  BY <1>4, <1>5 DEF IInv, Audit, AuditTruthful
<1>. QED
  BY <1>4, <1>6, <1>7, <1>8, <1>9 DEF Audit

\* The commit of load_fact keeps the invariant.
LEMMA CommitIInv ==
    ASSUME IInv, NEW l \in Loaders, NEW acked \in BOOLEAN, Commit(l, acked)
    PROVE  IInv'
<1>1. Audit' /\ runs' \in Seq(AuditEntry) /\ pc' \in [Loaders -> PCs]
  BY AckedAudit DEF Commit, IInv, TypeOK
<1>2. staging' \subseteq Row /\ IsFiniteSet(staging')
  BY StagingViewType DEF Commit, IInv
<1>3. fact' \subseteq Tuple
  BY DEF Commit, IInv, TypeOK, Merged, Transaction
<1>4. tx' \in [Loaders -> Transaction]
  BY EmptyTxType DEF Commit, IInv, TypeOK, Transaction
<1>5. \A m \in Loaders : IsFiniteSet(tx'[m].stgIns)
  BY FS_EmptySet DEF Commit, IInv, TypeOK, Countable, EmptyTx
<1>. QED
  BY <1>1, <1>2, <1>3, <1>4, <1>5 DEF Commit, IInv, TypeOK, Countable

\* The upsert of a dimension keeps the invariant: it cannot insert more keys
\* than it reads.
LEMMA UpsertDimensionIInv ==
    ASSUME IInv, NEW l \in Loaders, NEW acked \in BOOLEAN, UpsertDimension(l, acked)
    PROVE  IInv'
<1>. DEFINE d == Table(l)
            new == job[l].export.dims[d]
<1>1. /\ pc[l] = "dim_opened" /\ d \in Dims
      /\ job[l] \in Job /\ ExportFits(job[l].export)
  BY LoadAssumption DEF UpsertDimension, IInv, Audit, Held, Table, AtRest
<1>2. new \subseteq Keys /\ IsFiniteSet(new)
  BY <1>1 DEF Job, Export, ExportFits
<1>. HIDE DEF new
<1>3. /\ Cardinality(new) \in Nat /\ Cardinality(new \ dims[d]) \in Nat
      /\ Cardinality(new \ dims[d]) <= Cardinality(new)
  BY <1>2, FS_Subset, FS_CardinalityType
<1>. DEFINE n == Cardinality(new)
            k == Cardinality(new \ dims[d])
            t == [tx[l] EXCEPT !.read = n, !.inserted = k]
<1>4. tx' = [tx EXCEPT ![l] = t]
  BY DEF UpsertDimension, new, IInv, TypeOK
<1>. HIDE DEF n, k
<1>a. n \in Nat /\ k \in Nat /\ k <= n
  BY <1>3 DEF n, k
<1>b. /\ t \in Transaction
      /\ t.inserted <= t.read /\ t.stgIns = tx[l].stgIns
  BY <1>a DEF IInv, TypeOK, Transaction
<1>5. tx' \in [Loaders -> Transaction]
  BY <1>4, <1>b DEF IInv, TypeOK
<1>6. /\ tx'[l].inserted <= tx'[l].read
      /\ \A m \in Loaders : tx'[m].stgIns = tx[m].stgIns
      /\ \A m \in Loaders \ {l} : tx'[m] = tx[m]
  BY <1>4, <1>b DEF IInv, TypeOK
<1>7. Audit' /\ runs' \in Seq(AuditEntry) /\ pc' \in [Loaders -> PCs]
  BY <1>1, <1>6, AckedAudit DEF UpsertDimension
<1>8. dims' \in [Dims -> SUBSET Keys]
  BY <1>1, <1>2 DEF UpsertDimension, new, IInv, TypeOK
<1>. QED
  BY <1>5, <1>6, <1>7, <1>8 DEF UpsertDimension, IInv, TypeOK, Countable

\* Closing an entry writes a truth, and touches no other entry.
LEMMA CloseEntryRuns ==
    ASSUME IInv, NEW l \in Loaders, pc[l] \in {"committed", "failing"}, CloseEntry(l)
    PROVE  /\ runs' \in Seq(AuditEntry) /\ DOMAIN runs' = DOMAIN runs
           /\ \A i \in DOMAIN runs \ {entry[l]} : runs'[i] = runs[i]
           /\ AuditTruthful'
<1>. DEFINE e == entry[l]
<1>1. /\ e \in DOMAIN runs /\ runs \in Seq(AuditEntry) /\ runs[e] \in AuditEntry
      /\ tx[l] \in Transaction
      /\ pc[l] = "committed" => runs[e].fate = "landed"
      /\ pc[l] = "failing" => runs[e].fate # "landed"
      /\ pc[l] = "committed" /\ runs[e].table \in Dims => tx[l].inserted <= tx[l].read
  BY DEF IInv, TypeOK, Audit, Held, Holding, AtRest
<1>2. Tally(l).read \in Nat /\ Tally(l).inserted \in Nat /\ Tally(l).rejected \in Int
  BY <1>1 DEF Tally, Transaction
<1>3. pc[l] = "committed" => Tally(l).updated \in Nat
  BY <1>1 DEF Tally, Transaction, AuditEntry, Tables, Dims
<1>4. /\ Closed(l) \in AuditEntry
      /\ Closed(l).fate = runs[e].fate
      /\ Closed(l).status = IF pc[l] = "committed" THEN "succeeded" ELSE "failed"
  BY <1>1, <1>2, <1>3 DEF Closed, AuditEntry
<1>5. runs' = [runs EXCEPT ![e] = Closed(l)]
  BY DEF CloseEntry
<1>6. /\ runs' \in Seq(AuditEntry) /\ DOMAIN runs' = DOMAIN runs
      /\ runs'[e] = Closed(l)
      /\ \A i \in DOMAIN runs \ {e} : runs'[i] = runs[i]
  BY <1>1, <1>4, <1>5
<1>7. AuditTruthful'
  BY <1>1, <1>4, <1>6 DEF IInv, Audit, AuditTruthful
<1>. QED
  BY <1>6, <1>7

\* A loader that leaves, closing its entry or not, keeps the invariant.
LEMMA LeaveIInv ==
    ASSUME IInv, NEW l \in Loaders, NEW rest \in AtRest, NEW status \in {"none", "ok", "error"},
           Leave(l, rest, status),
           \/ UNCHANGED runs
           \/ pc[l] \in {"committed", "failing"} /\ CloseEntry(l),
           UNCHANGED database, commands' \in Nat
    PROVE  IInv'
<1>. USE DEF Holding, InTx, FactTx, AtRest
<1>1. /\ runs' \in Seq(AuditEntry) /\ DOMAIN runs' = DOMAIN runs
      /\ \A m \in Loaders \ {l} : pc[m] \in Holding => runs'[entry[m]] = runs[entry[m]]
      /\ AuditTruthful'
  <2>1. CASE UNCHANGED runs
    BY <2>1 DEF IInv, TypeOK, Audit, AuditTruthful
  <2>2. CASE pc[l] \in {"committed", "failing"} /\ CloseEntry(l)
    <3>1. \A m \in Loaders \ {l} : pc[m] \in Holding => /\ entry[m] # entry[l]
                                                       /\ entry[m] \in DOMAIN runs
      BY <2>2 DEF IInv, Audit, Held, OwnEntry
    <3>. QED
      BY <2>2, <3>1, CloseEntryRuns
  <2>. QED
    BY <2>1, <2>2
<1>2. TypeOK'
  BY <1>1, EmptyTxType DEF Leave, IInv, TypeOK, database, PCs
<1>3. Countable'
  BY FS_EmptySet DEF Leave, IInv, TypeOK, Countable, database, EmptyTx
<1>4. ASSUME NEW m \in Loaders PROVE Held(m)'
  BY <1>1 DEF Leave, IInv, TypeOK, Audit, Held
<1>5. ASSUME NEW m \in Loaders, NEW n \in Loaders PROVE OwnEntry(m, n)'
  BY DEF Leave, IInv, TypeOK, Audit, OwnEntry
<1>. QED
  BY <1>1, <1>2, <1>3, <1>4, <1>5 DEF IInv, Audit

\* Closing a successful run keeps the invariant.
LEMMA FinishRunIInv ==
    ASSUME IInv, NEW l \in Loaders, FinishRun(l)
    PROVE  IInv'
<1>. USE DEF Holding, InTx, FactTx, AtRest
<1>1. /\ runs' \in Seq(AuditEntry) /\ DOMAIN runs' = DOMAIN runs
      /\ \A i \in DOMAIN runs \ {entry[l]} : runs'[i] = runs[i]
      /\ AuditTruthful'
  BY CloseEntryRuns DEF FinishRun
<1>2. TypeOK'
  BY <1>1 DEF FinishRun, IInv, TypeOK, database, PCs
<1>3. Countable'
  BY DEF FinishRun, IInv, Countable, database
<1>4. ASSUME NEW m \in Loaders PROVE Held(m)'
  <2>1. CASE m = l
    BY <1>1, <2>1 DEF FinishRun, IInv, TypeOK, Audit, Held
  <2>2. CASE m # l
    <3>1. pc[m] \in Holding => entry[m] # entry[l]
      BY <2>2 DEF FinishRun, IInv, Audit, OwnEntry
    <3>. QED
      BY <1>1, <2>2, <3>1 DEF FinishRun, IInv, TypeOK, Audit, Held
  <2>. QED
    BY <2>1, <2>2
<1>5. ASSUME NEW m \in Loaders, NEW n \in Loaders PROVE OwnEntry(m, n)'
  BY DEF FinishRun, IInv, TypeOK, Audit, OwnEntry
<1>. QED
  BY <1>1, <1>2, <1>3, <1>4, <1>5 DEF IInv, Audit

\* No step of any loader breaks the invariant.
LEMMA NextIInv ==
    ASSUME IInv, [Next]_vars
    PROVE  IInv'
<1>1. CASE UNCHANGED vars
  BY <1>1 DEF IInv, vars, TypeOK, Countable, Audit, Held, OwnEntry, AuditTruthful
<1>2. ASSUME NEW l \in Loaders, Command(l) PROVE IInv'
  <2>1. PICK j \in JobsOf[l] : Begin(l, j) \/ Refuse(l, j)
    BY <1>2 DEF Command
  <2>2. CASE Begin(l, j)
    BY <2>2, BeginIInv
  <2>3. CASE Refuse(l, j)
    BY <2>3, LeaveIInv DEF Refuse, AtRest, IInv, TypeOK
  <2>. QED
    BY <2>1, <2>2, <2>3
<1>3. ASSUME NEW l \in Loaders, Step(l) PROVE IInv'
  <2>1. CASE \/ BeginClearing(l) \/ ClearRow(l) \/ Stage(l) \/ StageFails(l)
             \/ CountStaged(l) \/ Validate(l)
             \/ BeginDelete(l) \/ DeleteRow(l) \/ DeleteScope(l)
             \/ CountPromoted(l) \/ BeginUpsert(l)
             \/ UpsertRow(l) \/ Upsert(l) \/ UpsertDimensionFails(l) \/ Aborted(l)
    BY <2>1, FactStepIInv
  <2>2. CASE \E acked \in BOOLEAN : Commit(l, acked) \/ UpsertDimension(l, acked)
    BY <2>2, CommitIInv, UpsertDimensionIInv
  <2>3. CASE StartNextDimension(l)
    BY <2>3, StartNextDimensionIInv
  <2>4. CASE FinishRun(l)
    BY <2>4, FinishRunIInv
  <2>5. CASE FailRun(l)
    BY <2>5, LeaveIInv DEF FailRun, ExitError, AtRest, IInv, TypeOK
  <2>6. CASE Gate(l)
    BY <2>6, LeaveIInv DEF Gate, AtRest, IInv, TypeOK
  <2>. QED
    BY <1>3, <2>1, <2>2, <2>3, <2>4, <2>5, <2>6 DEF Step
<1>4. ASSUME NEW l \in Loaders, Fault(l) PROVE IInv'
  <2>1. CASE StatementFails(l)
    BY <2>1, FactStepIInv
  <2>2. CASE CloseRaises(l)
    BY <2>2, LeaveIInv DEF CloseRaises, ExitError, AtRest, IInv, TypeOK
  <2>3. CASE StartNextRaises(l)
    BY <2>3, LeaveIInv DEF StartNextRaises, ExitError, AtRest, IInv, TypeOK
  <2>4. CASE Crash(l)
    BY <2>4, LeaveIInv DEF Crash, AtRest, IInv, TypeOK
  <2>. QED
    BY <1>4, <2>1, <2>2, <2>3, <2>4 DEF Fault
<1>. QED
  BY <1>1, <1>2, <1>3, <1>4 DEF Next

\* The variables keep their types in every behaviour, whatever the exports, the
\* jobs, the number of loaders and the faults.
THEOREM TypeCorrect == Spec => []TypeOK
<1>1. IInv => TypeOK
  BY DEF IInv
<1>. QED
  BY <1>1, InitIInv, NextIInv, PTL DEF Spec

\* An audit entry never says `succeeded' of a load that did not commit, nor
\* `failed' of one whose commit was acknowledged (loader.py, run_log.py).
THEOREM AuditIsTruthful == Spec => []AuditTruthful
<1>1. IInv => AuditTruthful
  BY DEF IInv, Audit
<1>. QED
  BY <1>1, InitIInv, NextIInv, PTL DEF Spec

-----------------------------------------------------------------------------
(* Soundness of the fact                                                   *)

\* FactSound alone is not inductive: the commit of a load moves what it has
\* upserted, perhaps many steps ago, into the fact.
Sound == Upserted /\ FactSound

\* A step that leaves the database alone, and in which no transaction writes or ends
\* its upsert, keeps the fact sound.
LEMMA QuietSound ==
    ASSUME Sound, UNCHANGED <<fact, dims>>,
           \A m \in Loaders :
              \/ tx'[m].factIns = {}
              \/ /\ tx'[m].factIns = tx[m].factIns
                 /\ pc'[m] = "upserted" => pc[m] = "upserted"
    PROVE  Sound'
BY DEF Sound, Upserted, FactSound

\* A transaction step that does not upsert keeps the fact sound.
LEMMA TxStepSound ==
    ASSUME TypeOK, Sound, NEW l \in Loaders, NEW next, NEW t, TxStep(l, next, t),
           \/ t.factIns = {}
           \/ t.factIns = tx[l].factIns /\ next # "upserted"
    PROVE  Sound'
<1>1. /\ tx'[l] = t /\ pc'[l] = next /\ UNCHANGED <<fact, dims>>
      /\ \A m \in Loaders \ {l} : tx'[m] = tx[m] /\ pc'[m] = pc[m]
  BY DEF TypeOK, TxStep, database
<1>. QED
  BY <1>1, QuietSound

\* A loader that empties its transaction without committing keeps it sound.
LEMMA EmptiedSound ==
    ASSUME TypeOK, Sound, NEW l \in Loaders, tx' = [tx EXCEPT ![l] = EmptyTx],
           NEW next, pc' = [pc EXCEPT ![l] = next], UNCHANGED database
    PROVE  Sound'
<1>1. /\ tx'[l].factIns = {} /\ UNCHANGED <<fact, dims>>
      /\ \A m \in Loaders \ {l} : tx'[m] = tx[m] /\ pc'[m] = pc[m]
  BY DEF TypeOK, EmptyTx, database
<1>. QED
  BY <1>1, QuietSound

\* The actions of the transaction but for the upsert's.
LEMMA FactStepSound ==
    ASSUME TypeOK, Sound, NEW l \in Loaders,
           \/ BeginClearing(l) \/ ClearRow(l) \/ Stage(l) \/ StageFails(l)
           \/ CountStaged(l) \/ Validate(l)
           \/ BeginDelete(l) \/ DeleteRow(l) \/ DeleteScope(l)
           \/ CountPromoted(l) \/ BeginUpsert(l)
           \/ UpsertDimensionFails(l) \/ Aborted(l) \/ StatementFails(l)
    PROVE  Sound'
<1>. USE TxStepSound
<1>1. tx[l] \in Transaction /\ EmptyTx.factIns = {}
  BY DEF TypeOK, EmptyTx
<1>2. CASE BeginClearing(l)
  BY <1>1, <1>2 DEF BeginClearing, Transaction
<1>3. CASE Stage(l)
  BY <1>1, <1>3 DEF Stage, Transaction
<1>4. CASE StageFails(l) \/ UpsertDimensionFails(l) \/ Aborted(l) \/ StatementFails(l)
  BY <1>1, <1>4 DEF StageFails, UpsertDimensionFails, Aborted, StatementFails, RollBack
<1>5. CASE CountStaged(l)
  BY <1>1, <1>5 DEF CountStaged, Transaction
<1>6. CASE Validate(l)
  BY <1>1, <1>6 DEF Validate, RollBack, Transaction
<1>7. CASE BeginDelete(l)
  BY <1>1, <1>7 DEF BeginDelete, Transaction
<1>8. CASE ClearRow(l) \/ DeleteRow(l) \/ DeleteScope(l)
  BY <1>1, <1>8 DEF ClearRow, DeleteRow, DeleteScope, Transaction
<1>9. CASE CountPromoted(l)
  BY <1>1, <1>9 DEF CountPromoted, Transaction
<1>10. CASE BeginUpsert(l)
  BY <1>1, <1>10 DEF BeginUpsert, Transaction
<1>. QED
  BY <1>2, <1>3, <1>4, <1>5, <1>6, <1>7, <1>8, <1>9, <1>10

\* The upsert: what it writes has passed the constraints.
LEMMA UpsertSound ==
    ASSUME TypeOK, Sound, NEW l \in Loaders, UpsertRow(l) \/ Upsert(l)
    PROVE  Sound'
<1>. DEFINE ins == tx[l].factIns
<1>0. tx[l] \in Transaction /\ EmptyTx.factIns = {}
  BY DEF TypeOK, EmptyTx
<1>1. ASSUME NEW next, NEW t, TxStep(l, next, t),
             \A f \in t.factIns : Placeable(f.row),
             \A f, g \in t.factIns : Grain(f.row) = Grain(g.row) => f = g,
             next = "upserted" => \A f \in t.factIns : Storable(f.row, dims)
      PROVE  Sound'
  <2>1. /\ tx'[l] = t /\ pc'[l] = next /\ UNCHANGED <<fact, dims>>
        /\ \A m \in Loaders \ {l} : tx'[m] = tx[m] /\ pc'[m] = pc[m]
    BY <1>1 DEF TypeOK, TxStep, database
  <2>. QED
    BY <1>1, <2>1 DEF Sound, Upserted, FactSound
<1>2. CASE UpsertRow(l)
  <2>1. PICK r \in tx[l].source :
          IF Placeable(r) /\ Grain(r) \notin GrainsOf({f.row : f \in ins})
            THEN TxStep(l, "upserting", [tx[l] EXCEPT !.source = @ \ {r},
                                                    !.factIns = @ \cup {Written(l, r)}])
            ELSE RollBack(l)
    BY <1>2 DEF UpsertRow
  <2>2. CASE Placeable(r) /\ Grain(r) \notin GrainsOf({f.row : f \in ins})
    <3>. DEFINE t == [tx[l] EXCEPT !.source = @ \ {r}, !.factIns = @ \cup {Written(l, r)}]
    <3>1. TxStep(l, "upserting", t) /\ t.factIns = ins \cup {Written(l, r)}
      BY <1>0, <2>1, <2>2 DEF Transaction
    <3>2. Written(l, r).row = r
      BY WrittenType
    <3>3. \A f \in ins : Placeable(f.row) /\ Grain(f.row) # Grain(r)
      BY <2>2 DEF GrainsOf, Sound, Upserted
    <3>4. \A f, g \in ins : Grain(f.row) = Grain(g.row) => f = g
      BY DEF Sound, Upserted
    <3>5. \A f \in t.factIns : Placeable(f.row)
      BY <2>2, <3>1, <3>2, <3>3
    <3>6. \A f, g \in t.factIns : Grain(f.row) = Grain(g.row) => f = g
      BY <3>1, <3>2, <3>3, <3>4
    <3>. HIDE DEF t
    <3>. QED
      BY <1>1, <3>1, <3>5, <3>6
  <2>3. CASE ~(Placeable(r) /\ Grain(r) \notin GrainsOf({f.row : f \in ins}))
    BY <1>0, <2>1, <2>3, TxStepSound DEF RollBack
  <2>. QED
    BY <2>2, <2>3
<1>3. CASE Upsert(l)
  <2>1. CASE Referenced({f.row : f \in ins}, dims)
    <3>1. /\ \A f \in ins : Placeable(f.row)
          /\ \A f, g \in ins : Grain(f.row) = Grain(g.row) => f = g
      BY DEF Sound, Upserted
    <3>2. \A f \in ins : Storable(f.row, dims)
      BY <2>1, <3>1 DEF Referenced, Storable, Placeable
    <3>. QED
      BY <1>1, <1>3, <2>1, <3>1, <3>2 DEF Upsert
  <2>2. CASE ~Referenced({f.row : f \in ins}, dims)
    BY <1>0, <1>3, <2>2, TxStepSound DEF Upsert, RollBack
  <2>. QED
    BY <2>1, <2>2
<1>. QED
  BY <1>2, <1>3

\* The commit: a row that stays and a row that lands differ in their grain.
LEMMA CommitSound ==
    ASSUME TypeOK, Sound, NEW l \in Loaders, NEW acked \in BOOLEAN, Commit(l, acked)
    PROVE  Sound'
<1>. DEFINE ins == tx[l].factIns
<1>1. fact' = Merged(tx[l]) /\ UNCHANGED dims
  BY DEF Commit
<1>2. \A f \in fact' : f \in ins \/ (f \in fact /\ \A g \in ins : Grain(g.row) # Grain(f.row))
  BY <1>1 DEF Merged, GrainsOf
<1>3. FactSound'
  <2>1. \A f \in ins : Storable(f.row, dims)
    BY DEF Sound, Upserted, Commit
  <2>. QED
    BY <1>1, <1>2, <2>1 DEF Sound, FactSound, Upserted
<1>4. \A m \in Loaders : \/ tx'[m].factIns = {}
                         \/ tx'[m].factIns = tx[m].factIns /\ pc'[m] = pc[m]
  BY DEF Commit, Acked, TypeOK, EmptyTx
<1>5. Upserted'
  BY <1>1, <1>4 DEF Sound, Upserted
<1>. QED
  BY <1>3, <1>5 DEF Sound

\* A dimension only grows: what could be stored can still be.
LEMMA UpsertDimensionSound ==
    ASSUME TypeOK, Sound, NEW l \in Loaders, NEW acked \in BOOLEAN, UpsertDimension(l, acked)
    PROVE  Sound'
<1>1. \A k \in Dims : dims[k] \subseteq dims'[k]
  BY DEF UpsertDimension, TypeOK
<1>2. \A r : Storable(r, dims) => Storable(r, dims')
  BY <1>1, StorableMonotone
<1>3. /\ fact' = fact /\ \A m \in Loaders : tx'[m].factIns = tx[m].factIns
      /\ \A m \in Loaders : pc'[m] = "upserted" => pc[m] = "upserted"
  BY DEF UpsertDimension, Acked, TypeOK, Transaction
<1>. QED
  BY <1>2, <1>3 DEF Sound, Upserted, FactSound

\* No step of any loader makes the fact unsound.
LEMMA NextSound ==
    ASSUME TypeOK, Sound, [Next]_vars
    PROVE  Sound'
<1>1. CASE UNCHANGED vars
  BY <1>1, QuietSound DEF vars
<1>2. ASSUME NEW l \in Loaders, Command(l) PROVE Sound'
  BY <1>2, EmptiedSound DEF Command, Begin, StartRun, Refuse, Leave
<1>3. ASSUME NEW l \in Loaders, Step(l) PROVE Sound'
  <2>1. CASE \/ BeginClearing(l) \/ ClearRow(l) \/ Stage(l) \/ StageFails(l)
             \/ CountStaged(l) \/ Validate(l)
             \/ BeginDelete(l) \/ DeleteRow(l) \/ DeleteScope(l)
             \/ CountPromoted(l) \/ BeginUpsert(l)
             \/ UpsertDimensionFails(l) \/ Aborted(l)
    BY <2>1, FactStepSound
  <2>2. CASE UpsertRow(l) \/ Upsert(l)
    BY <2>2, UpsertSound
  <2>3. CASE \E acked \in BOOLEAN : Commit(l, acked) \/ UpsertDimension(l, acked)
    BY <2>3, CommitSound, UpsertDimensionSound
  <2>4. CASE StartNextDimension(l)
    BY <2>4, EmptiedSound DEF StartNextDimension, StartRun
  <2>5. CASE FinishRun(l)
    <3>1. \A m \in Loaders : /\ tx'[m].factIns = tx[m].factIns
                              /\ pc'[m] = "upserted" => pc[m] = "upserted"
      BY <2>5 DEF FinishRun, TypeOK
    <3>. QED
      BY <2>5, <3>1, QuietSound DEF FinishRun, database
  <2>6. CASE FailRun(l) \/ Gate(l)
    BY <2>6, EmptiedSound DEF FailRun, ExitError, Gate, Leave
  <2>. QED
    BY <1>3, <2>1, <2>2, <2>3, <2>4, <2>5, <2>6 DEF Step
<1>4. ASSUME NEW l \in Loaders, Fault(l) PROVE Sound'
  <2>1. CASE StatementFails(l)
    BY <2>1, FactStepSound
  <2>2. CASE CloseRaises(l) \/ StartNextRaises(l) \/ Crash(l)
    BY <2>2, EmptiedSound DEF CloseRaises, StartNextRaises, Crash, ExitError, Leave
  <2>. QED
    BY <1>4, <2>1, <2>2 DEF Fault
<1>. QED
  BY <1>1, <1>2, <1>3, <1>4 DEF Next

\* Whatever the loads, however they interleave, and wherever they fail: the fact
\* holds one row per grain, and every row has its keys, its dimension rows, its
\* checks and its partition (loader.py _promote, db/models.py fact_stop_event).
THEOREM FactIsSound == Spec => []FactSound
<1>1. Init => Sound
  BY DEF Init, Sound, Upserted, FactSound, EmptyTx
<1>2. IInv => TypeOK
  BY DEF IInv
<1>3. Sound => FactSound
  BY DEF Sound
<1>. QED
  BY <1>1, <1>2, <1>3, InitIInv, NextIInv, NextSound, PTL DEF Spec

-----------------------------------------------------------------------------
(* Loads that keep apart                                                   *)

\* The assumption of this part: loads keep apart.
Apart == KeepApart([l \in Loaders |-> JobsOf[l]])

\* The rows a load stages, and those of them it is to promote.
Own(l) == {[r EXCEPT !.run = entry[l]] : r \in ReadRows(job[l])}
Mine(l) == RowsIn(Own(l), job[l].scope)

\* Rows another load has left in staging do not concern load l.
Strange(l, S) ==
    /\ \A r \in S : ~InScope(r, job[l].scope)
    /\ job[l].policy = "skip" => S = {}

InWindow(l) == {f \in fact : InScope(f.row, job[l].scope)}
RowsOf(F) == {f.row : f \in F}

\* What _promote selects, told from the load's own rows alone.
Chosen(l) == IF tx[l].dirty THEN ValidRows(Mine(l), dims) ELSE Mine(l)

\* S is what the rules let through of the load's rows, under keys the dimensions hold.
Selected(l, S) ==
    /\ \E ds \in SUBSET dims["dim_date"], ss \in SUBSET dims["dim_station"],
          rs \in SUBSET dims["dim_relation"] :
         S = ValidRows(Mine(l), [dim_date |-> ds, dim_station |-> ss, dim_relation |-> rs])
    /\ job[l].policy = "fail" => S = Mine(l)

\* The rows the INSERT has written and the rows it has left.
Upserting(l) == tx[l].source \cup RowsOf(tx[l].factIns)

\* What each step of load_fact relies on, from the DELETE of staging to the gate.
Staged(l) ==
    /\ pc[l] \notin AtRest => (job[l].kind = "fact" <=> Table(l) = "fact_stop_event")
    /\ pc[l] = "dim_next" => Table(l) # "fact_stop_event"
    /\ pc[l] = "clearing" => Strange(l, (staging \ tx[l].stgSnap) \ tx[l].stgDel)
    /\ pc[l] \in FactTx \ {"clearing"} =>
         tx[l].stgIns = Own(l) /\ Strange(l, staging \ tx[l].stgDel)
    /\ pc[l] \in FactTx \ {"clearing", "staged"} => tx[l].read = Cardinality(Mine(l))
    /\ pc[l] \in FactTx \ {"clearing", "staged", "counted"} =>
         IF tx[l].dirty THEN job[l].policy = "skip" ELSE Mine(l) = ValidRows(Mine(l), dims)
    /\ pc[l] \in {"opened", "clearing", "staged", "counted", "validated"} => tx[l].factDel = {}
    /\ pc[l] \in (FactTx \cup {"opened"}) \ {"upserting", "upserted"} => tx[l].factIns = {}
    /\ pc[l] = "deleting" => tx[l].factSnap \cup tx[l].factDel = InWindow(l)
    /\ pc[l] \in {"cleared", "promoting", "upserting", "upserted"} =>
         tx[l].factDel = InWindow(l)
    /\ pc[l] = "promoting" => tx[l].inserted = Cardinality(Chosen(l))
    /\ pc[l] = "upserting" => /\ tx[l].inserted = Cardinality(Upserting(l))
                              /\ Selected(l, Upserting(l))
                              /\ \A f, g \in tx[l].factIns : f.row = g.row => f = g
    /\ pc[l] = "upserted" => /\ tx[l].inserted = Cardinality(tx[l].factIns)
                             /\ tx[l].inserted = Cardinality(RowsOf(tx[l].factIns))
                             /\ Selected(l, RowsOf(tx[l].factIns))
    /\ pc[l] \in {"committed", "closed"} /\ job[l].kind = "fact" =>
         /\ tx[l].read = Cardinality(Mine(l))
         /\ tx[l].inserted = Cardinality(RowsOf(InWindow(l)))

AllStaged == \A l \in Loaders : Staged(l)

-----------------------------------------------------------------------------
(* Rows, stamped and selected                                              *)

\* Apart, loader by loader.
LEMMA ApartFacts ==
    ASSUME Apart
    PROVE  /\ \A l \in Loaders : \A j \in JobsOf[l] :
                 j.kind = "fact" /\ j.policy = "skip" /\ j.export.layout = "single"
                   => IsFull(j.scope)
           /\ \A l, m \in Loaders : l # m => \A i \in JobsOf[l], j \in JobsOf[m] :
                 /\ i.kind = "fact" => i.policy = "fail"
                 /\ i.kind = "fact" /\ j.kind = "fact" =>
                       /\ j.export.layout = "partitioned"
                       /\ \A d \in Dates \cup {Null} :
                             ~(InScope([date |-> d], i.scope) /\ InScope([date |-> d], j.scope))
<1> DEFINE jobs == [l \in Loaders |-> JobsOf[l]]
<1>1. DOMAIN jobs = Loaders /\ \A l \in Loaders : jobs[l] = JobsOf[l]
  OBVIOUS
<1>2. KeepApart(jobs)
  BY DEF Apart
<1> HIDE DEF jobs
<1> QED
  BY <1>1, <1>2 DEF KeepApart

\* Being in a window is a matter of the date.
LEMMA ScopeOfDate ==
    ASSUME NEW r, NEW sc PROVE InScope(r, sc) <=> InScope([date |-> r.date], sc)
BY DEF InScope

\* The job and the entry of a loader that is in a command.
LEMMA JobFacts ==
    ASSUME IInv, NEW l \in Loaders, pc[l] \notin AtRest
    PROVE  /\ job[l] \in JobsOf[l] /\ job[l] \in Job /\ ExportFits(job[l].export)
           /\ entry[l] \in DOMAIN runs /\ entry[l] \in Nat
BY LoadAssumption DEF IInv, TypeOK, Audit, Held

\* A stamp changes nothing a rule, a scope or a constraint looks at.
LEMMA StampKeeps ==
    ASSUME NEW r \in Row, NEW i \in Nat
    PROVE  LET s == [r EXCEPT !.run = i] IN
           /\ s \in Row /\ s.date = r.date /\ s.point = r.point
           /\ s.station = r.station /\ s.relation = r.relation
           /\ \A sc : InScope(s, sc) <=> InScope(r, sc)
           /\ HasNullKey(s) <=> HasNullKey(r)
           /\ \A d : IsOrphan(s, d) <=> IsOrphan(r, d)
           /\ Grain(s) = Grain(r)
<1> DEFINE s == [r EXCEPT !.run = i]
<1>1. /\ s \in Row /\ s.date = r.date /\ s.point = r.point
      /\ s.station = r.station /\ s.relation = r.relation
  BY DEF Row
<1> HIDE DEF s
<1>2. \A sc : InScope(s, sc) <=> InScope(r, sc)
  BY <1>1 DEF InScope
<1>3. HasNullKey(s) <=> HasNullKey(r)
  BY <1>1 DEF HasNullKey
<1>4. \A k : KeyIn(s, k) = KeyIn(r, k)
  BY <1>1 DEF KeyIn
<1>5. \A d : IsOrphan(s, d) <=> IsOrphan(r, d)
  BY <1>4 DEF IsOrphan
<1>6. Grain(s) = Grain(r)
  BY <1>1 DEF Grain
<1> QED
  BY <1>1, <1>2, <1>3, <1>5, <1>6 DEF s

\* Rows of one run are told apart by the rest: a stamp keeps their number.
LEMMA StampInjective ==
    ASSUME NEW a \in Row, NEW b \in Row, a.run = b.run, NEW i,
           [a EXCEPT !.run = i] = [b EXCEPT !.run = i]
    PROVE  a = b
<1>1. a.date = b.date /\ a.point = b.point
  <2>1. [a EXCEPT !.run = i].date = a.date /\ [b EXCEPT !.run = i].date = b.date
    BY DEF Row
  <2>2. [a EXCEPT !.run = i].point = a.point /\ [b EXCEPT !.run = i].point = b.point
    BY DEF Row
  <2> QED
    BY <2>1, <2>2
<1>2. a.station = b.station /\ a.relation = b.relation
  <2>1. [a EXCEPT !.run = i].station = a.station /\ [b EXCEPT !.run = i].station = b.station
    BY DEF Row
  <2>2. [a EXCEPT !.run = i].relation = a.relation /\ [b EXCEPT !.run = i].relation = b.relation
    BY DEF Row
  <2> QED
    BY <2>1, <2>2
<1>3. a.copy = b.copy /\ a.fits = b.fits
  <2>1. [a EXCEPT !.run = i].copy = a.copy /\ [b EXCEPT !.run = i].copy = b.copy
    BY DEF Row
  <2>2. [a EXCEPT !.run = i].fits = a.fits /\ [b EXCEPT !.run = i].fits = b.fits
    BY DEF Row
  <2> QED
    BY <2>1, <2>2
<1> DEFINE fields(r) == [run |-> r.run, date |-> r.date, point |-> r.point,
                         station |-> r.station, relation |-> r.relation,
                         copy |-> r.copy, fits |-> r.fits]
<1>4. a = fields(a) /\ b = fields(b)
  BY DEF Row
<1>5. fields(a) = fields(b)
  BY <1>1, <1>2, <1>3
<1> QED
  BY <1>4, <1>5, Zenon

\* What a load stages and promotes are rows, finitely many of them.
LEMMA OwnType ==
    ASSUME IInv, NEW l \in Loaders, pc[l] \notin AtRest
    PROVE  /\ Own(l) \subseteq Row /\ IsFiniteSet(Own(l))
           /\ Mine(l) \subseteq Own(l) /\ IsFiniteSet(Mine(l)) /\ Cardinality(Mine(l)) \in Nat
           /\ \A r \in Mine(l) : InScope(r, job[l].scope)
<1>1. ReadRows(job[l]) \subseteq Row /\ IsFiniteSet(ReadRows(job[l])) /\ entry[l] \in Nat
  BY JobFacts, ReadRowsType
<1>2. Own(l) \subseteq Row /\ IsFiniteSet(Own(l))
  <2>1. \A r \in ReadRows(job[l]) : [r EXCEPT !.run = entry[l]] \in Row
    BY <1>1, StampKeeps
  <2>2. IsFiniteSet(Own(l))
    BY <1>1, StampedFinite DEF Own
  <2> QED
    BY <2>1, <2>2 DEF Own
<1>3. Mine(l) \in SUBSET Own(l) /\ \A r \in Mine(l) : InScope(r, job[l].scope)
  BY DEF Mine, RowsIn
<1> QED
  BY <1>2, <1>3, FS_Subset, FS_CardinalityType

\* The rows to promote are those of the export's window, stamped; as many of them.
LEMMA MineIsWindow ==
    ASSUME IInv, NEW l \in Loaders, pc[l] \notin AtRest
    PROVE  LET window == RowsIn(job[l].export.rows, job[l].scope)
           IN  /\ Mine(l) = {[r EXCEPT !.run = entry[l]] : r \in window}
               /\ Cardinality(Mine(l)) = Cardinality(window)
<1> DEFINE sc == job[l].scope
           rows == job[l].export.rows
           window == RowsIn(rows, sc)
           stamped == {[r EXCEPT !.run = entry[l]] : r \in window}
<1>1. rows \subseteq Row /\ IsFiniteSet(rows) /\ entry[l] \in Nat /\ \A r \in rows : r.run = 0
  BY JobFacts DEF Job, Export, ExportFits
<1>2. window \subseteq rows /\ \A r \in rows : r \in window <=> InScope(r, sc)
  BY DEF RowsIn
<1>3. ReadRows(job[l]) \subseteq rows /\ window \subseteq ReadRows(job[l])
  BY <1>2 DEF ReadRows
<1>4. \A r \in rows : InScope([r EXCEPT !.run = entry[l]], sc) <=> InScope(r, sc)
  BY <1>1, StampKeeps
<1>5. Mine(l) = stamped
  <2> HIDE DEF window, rows, sc
  <2>1. Mine(l) = {s \in Own(l) : InScope(s, sc)}
    BY DEF Mine, RowsIn, sc
  <2>2. Own(l) = {[r EXCEPT !.run = entry[l]] : r \in ReadRows(job[l])}
    BY DEF Own
  <2>3. ASSUME NEW s \in Mine(l) PROVE s \in stamped
    <3>1. PICK r \in ReadRows(job[l]) : s = [r EXCEPT !.run = entry[l]]
      BY <2>1, <2>2
    <3>2. r \in window
      BY <1>2, <1>3, <1>4, <2>1, <3>1
    <3> QED
      BY <3>1, <3>2
  <2>4. ASSUME NEW r \in window PROVE [r EXCEPT !.run = entry[l]] \in Mine(l)
    BY <1>2, <1>3, <1>4, <2>1, <2>2
  <2>5. ASSUME NEW s \in stamped PROVE s \in Mine(l)
    BY <2>4
  <2> HIDE DEF stamped
  <2> QED
    BY <2>3, <2>5
<1>6. Cardinality(stamped) = Cardinality(window)
  <2> DEFINE stamp == [r \in window |-> [r EXCEPT !.run = entry[l]]]
  <2>1. IsFiniteSet(window)
    BY <1>1, <1>2, FS_Subset
  <2>2. stamp \in [window -> stamped] /\ \A s \in stamped : \E r \in window : stamp[r] = s
    OBVIOUS
  <2>3. ASSUME NEW a \in window, NEW b \in window, stamp[a] = stamp[b] PROVE a = b
    <3>1. a \in Row /\ b \in Row /\ a.run = b.run
      BY <1>1, <1>2
    <3>2. [a EXCEPT !.run = entry[l]] = [b EXCEPT !.run = entry[l]]
      BY <2>3
    <3> QED
      BY <3>1, <3>2, StampInjective
  <2> HIDE DEF stamp
  <2>4. stamp \in Bijection(window, stamped)
    BY <2>2, <2>3 DEF Bijection, Injection, Surjection, IsInjective
  <2> QED
    BY <2>1, <2>4, FS_Bijection DEF ExistsBijection
<1> QED
  BY <1>5, <1>6

\* A row that passes goes on passing among fewer rows and with more keys.
LEMMA PassesMonotone ==
    ASSUME NEW S, NEW T \in SUBSET S, NEW d1, NEW d2, \A k \in Dims : d1[k] \subseteq d2[k],
           NEW r, Passes(r, S, d1)
    PROVE  Passes(r, T, d2)
BY DEF Passes, IsDuplicated, IsOrphan

\* The rules go by what a stamp leaves alone.
LEMMA ValidStamped ==
    ASSUME NEW S \in SUBSET Row, \A r \in S : r.run = 0, NEW i \in Nat, NEW d
    PROVE  ValidRows({[r EXCEPT !.run = i] : r \in S}, d)
             = {[r EXCEPT !.run = i] : r \in ValidRows(S, d)}
<1> DEFINE stamp(r) == [r EXCEPT !.run = i]
           T == {stamp(r) : r \in S}
<1>1. \A r \in S : /\ stamp(r) \in T
                   /\ HasNullKey(stamp(r)) <=> HasNullKey(r)
                   /\ IsOrphan(stamp(r), d) <=> IsOrphan(r, d)
                   /\ Grain(stamp(r)) = Grain(r)
  BY StampKeeps
<1>2. \A a, b \in S : a # b => stamp(a) # stamp(b)
  <2> SUFFICES ASSUME NEW a \in S, NEW b \in S, stamp(a) = stamp(b) PROVE a = b
    OBVIOUS
  <2>1. a \in Row /\ b \in Row /\ a.run = b.run
    OBVIOUS
  <2> QED
    BY <2>1, StampInjective
<1>3. \A t \in T : \E r \in S : t = stamp(r)
  OBVIOUS
<1> HIDE DEF stamp, T
<1>4. ASSUME NEW r \in S PROVE IsDuplicated(stamp(r), T) <=> IsDuplicated(r, S)
  <2>1. ASSUME IsDuplicated(r, S) PROVE IsDuplicated(stamp(r), T)
    <3>1. PICK a \in S, b \in S : /\ a # b /\ ~HasNullKey(a) /\ ~HasNullKey(b)
                                  /\ Grain(a) = Grain(r) /\ Grain(b) = Grain(r)
      BY <2>1 DEF IsDuplicated
    <3>2. /\ stamp(a) \in T /\ stamp(b) \in T /\ stamp(a) # stamp(b)
          /\ ~HasNullKey(stamp(a)) /\ ~HasNullKey(stamp(b))
          /\ Grain(stamp(a)) = Grain(stamp(r)) /\ Grain(stamp(b)) = Grain(stamp(r))
      BY <1>1, <1>2, <3>1
    <3> QED
      BY <3>2 DEF IsDuplicated
  <2>2. ASSUME IsDuplicated(stamp(r), T) PROVE IsDuplicated(r, S)
    <3>1. PICK u \in T, v \in T : /\ u # v /\ ~HasNullKey(u) /\ ~HasNullKey(v)
                                  /\ Grain(u) = Grain(stamp(r)) /\ Grain(v) = Grain(stamp(r))
      BY <2>2 DEF IsDuplicated
    <3>2. PICK a \in S : u = stamp(a)
      BY <1>3
    <3>3. PICK b \in S : v = stamp(b)
      BY <1>3
    <3>4. /\ a # b /\ ~HasNullKey(a) /\ ~HasNullKey(b)
          /\ Grain(a) = Grain(r) /\ Grain(b) = Grain(r)
      BY <1>1, <3>1, <3>2, <3>3
    <3> QED
      BY <3>4 DEF IsDuplicated
  <2> QED
    BY <2>1, <2>2
<1>5. \A r \in S : Passes(stamp(r), T, d) <=> Passes(r, S, d)
  BY <1>1, <1>4 DEF Passes
<1>6. ValidRows(T, d) = {stamp(r) : r \in ValidRows(S, d)}
  <2>1. ASSUME NEW t \in ValidRows(T, d) PROVE t \in {stamp(r) : r \in ValidRows(S, d)}
    BY <1>3, <1>5 DEF ValidRows
  <2>2. ASSUME NEW r \in ValidRows(S, d) PROVE stamp(r) \in ValidRows(T, d)
    BY <1>1, <1>5 DEF ValidRows
  <2> QED
    BY <2>1, <2>2
<1> QED
  BY <1>6 DEF stamp, T

\* All rows of a load pass where all of staging does, and go on passing.
LEMMA AllPass ==
    ASSUME NEW S, NEW T \in SUBSET S, NEW d1, NEW d2, \A k \in Dims : d1[k] \subseteq d2[k],
           \A r \in T : Passes(r, S, d1)
    PROVE  T = ValidRows(T, d2)
<1>1. \A r \in T : Passes(r, T, d2)
  BY PassesMonotone
<1> QED
  BY <1>1 DEF ValidRows

-----------------------------------------------------------------------------
(* What a load sees of staging and does to the fact                        *)

\* In its window, a load that has staged sees its own rows only; under the policy
\* skip it sees nothing else at all.
LEMMA ViewIsOwn ==
    ASSUME Apart, IInv, NEW l \in Loaders, Staged(l), pc[l] \in FactTx \ {"clearing"}
    PROVE  /\ RowsIn(StagingView(l), job[l].scope) = Mine(l)
           /\ Mine(l) \subseteq StagingView(l)
           /\ job[l].policy = "skip" => StagingView(l) = Mine(l)
<1> DEFINE sc == job[l].scope
           old == staging \ tx[l].stgDel
<1>1. /\ tx[l].stgIns = Own(l) /\ \A r \in old : ~InScope(r, sc)
      /\ job[l].policy = "skip" => old = {}
  BY DEF Staged, Strange
<1>2. StagingView(l) = old \cup Own(l)
  BY <1>1 DEF StagingView
<1>3. Mine(l) = {r \in Own(l) : InScope(r, sc)}
  BY DEF Mine, RowsIn
<1> HIDE DEF old, sc
<1>4. RowsIn(StagingView(l), sc) = Mine(l) /\ Mine(l) \subseteq StagingView(l)
  BY <1>1, <1>2, <1>3 DEF RowsIn
<1>5. ASSUME job[l].policy = "skip" PROVE Own(l) = Mine(l)
  <2>1. /\ pc[l] \notin AtRest /\ runs[entry[l]].table = "fact_stop_event"
    BY DEF IInv, Audit, Held, FactTx, AtRest
  <2>2. job[l].kind = "fact" /\ job[l] \in JobsOf[l] /\ job[l] \in Job
    BY <2>1, JobFacts DEF Staged, Table
  <2>3. \A r \in ReadRows(job[l]) : InScope(r, sc)
    <3>1. CASE job[l].export.layout = "partitioned"
      BY <3>1 DEF ReadRows, RowsIn, sc
    <3>2. CASE job[l].export.layout = "single"
      BY <1>5, <2>2, <3>2, ApartFacts DEF IsFull, InScope, sc
    <3> QED
      BY <2>2, <3>1, <3>2 DEF Job, Export
  <2>4. ReadRows(job[l]) \subseteq Row /\ entry[l] \in Nat
    BY <2>1, JobFacts, ReadRowsType
  <2>5. \A r \in Own(l) : InScope(r, sc)
    BY <2>3, <2>4, StampKeeps DEF Own
  <2> QED
    BY <1>3, <2>5
<1> QED
  BY <1>1, <1>2, <1>4, <1>5 DEF sc

\* So what _promote selects is told from the load's own rows.
LEMMA SourceIsChosen ==
    ASSUME Apart, IInv, NEW l \in Loaders, Staged(l),
           pc[l] \in FactTx \ {"clearing", "staged", "counted"}
    PROVE  Source(l) = Chosen(l) /\ Selected(l, Chosen(l))
<1>1. /\ RowsIn(StagingView(l), job[l].scope) = Mine(l)
      /\ job[l].policy = "skip" => StagingView(l) = Mine(l)
  BY ViewIsOwn
<1>2. IF tx[l].dirty THEN job[l].policy = "skip" ELSE Mine(l) = ValidRows(Mine(l), dims)
  BY DEF Staged
<1>3. Source(l) = Chosen(l)
  BY <1>1, <1>2 DEF Source, Chosen
<1>4. Chosen(l) = ValidRows(Mine(l), dims)
  BY <1>2 DEF Chosen
<1>5. dims = [dim_date |-> dims["dim_date"], dim_station |-> dims["dim_station"],
              dim_relation |-> dims["dim_relation"]]
  BY DEF IInv, TypeOK, Dims
<1>6. job[l].policy = "fail" => Chosen(l) = Mine(l)
  BY <1>2 DEF Chosen
<1> QED
  BY <1>3, <1>4, <1>5, <1>6, Zenon DEF Selected

\* What is selected is some of the load's rows.
LEMMA SelectedMine ==
    ASSUME NEW l, NEW S, Selected(l, S) PROVE S \subseteq Mine(l)
BY DEF Selected, ValidRows

\* Tuples that differ in their rows are as many as their rows.
LEMMA TuplesOfRows ==
    ASSUME NEW F, IsFiniteSet(RowsOf(F)), \A f, g \in F : f.row = g.row => f = g
    PROVE  Cardinality(F) = Cardinality(RowsOf(F))
<1> DEFINE tuple == [r \in RowsOf(F) |-> CHOOSE f \in F : f.row = r]
<1>1. ASSUME NEW r \in RowsOf(F) PROVE tuple[r] \in F /\ tuple[r].row = r
  <2>1. \E f \in F : f.row = r
    BY DEF RowsOf
  <2> QED
    BY <2>1
<1>2. ASSUME NEW f \in F PROVE f.row \in RowsOf(F)
  BY DEF RowsOf
<1>3. tuple = [r \in RowsOf(F) |-> tuple[r]]
  OBVIOUS
<1> HIDE DEF tuple
<1>4. tuple \in [RowsOf(F) -> F]
  BY <1>1, <1>3
<1>5. \A f \in F : \E r \in RowsOf(F) : tuple[r] = f
  BY <1>1, <1>2
<1>6. \A a, b \in RowsOf(F) : tuple[a] = tuple[b] => a = b
  BY <1>1
<1>7. tuple \in Bijection(RowsOf(F), F)
  BY <1>4, <1>5, <1>6 DEF Bijection, Injection, Surjection, IsInjective
<1> QED
  BY <1>7, FS_Bijection DEF ExistsBijection

\* A commit replaces the window by what was upserted, and nothing else.
LEMMA MergedRows ==
    ASSUME Apart, IInv, NEW l \in Loaders, Staged(l), pc[l] = "upserted"
    PROVE  LET sc == job[l].scope
               S == RowsOf(tx[l].factIns)
           IN  /\ {f \in Merged(tx[l]) : InScope(f.row, sc)} = tx[l].factIns
               /\ RowsOf(Merged(tx[l])) = (RowsOf(fact) \ RowsIn(RowsOf(fact), sc)) \cup S
               /\ \A r \in S : InScope(r, sc)
               /\ \A f : ~InScope(f.row, sc) => (f \in Merged(tx[l]) <=> f \in fact)
<1> DEFINE sc == job[l].scope
           ins == tx[l].factIns
<1>1. tx[l].factDel = InWindow(l) /\ Selected(l, RowsOf(ins))
  BY DEF Staged
<1>2. \A r \in RowsOf(ins) : InScope(r, sc)
  <2>1. pc[l] \notin AtRest
    BY DEF AtRest
  <2> QED
    BY <1>1, <2>1, SelectedMine, OwnType
<1>3. \A f \in ins : f.row \in RowsOf(ins)
  BY DEF RowsOf
<1>4. \A f \in fact, g \in ins : Grain(f.row) = Grain(g.row) => InScope(f.row, sc)
  BY <1>2, <1>3 DEF Grain, InScope
<1> HIDE DEF sc, ins
<1> DEFINE out == {f \in fact : ~InScope(f.row, sc)}
<1>5. Merged(tx[l]) = out \cup ins
  <2> DEFINE kept == {f \in fact : f \notin tx[l].factDel
                                   /\ Grain(f.row) \notin GrainsOf({f_1.row : f_1 \in ins})}
  <2>1. Merged(tx[l]) = kept \cup ins
    BY DEF Merged, ins
  <2>2. ASSUME NEW f \in fact PROVE f \in tx[l].factDel <=> InScope(f.row, sc)
    BY <1>1 DEF InWindow, sc
  <2>3. ASSUME NEW f \in out PROVE f \in kept
    BY <1>4, <2>2 DEF GrainsOf
  <2>4. ASSUME NEW f \in kept PROVE f \in out
    BY <2>2
  <2> HIDE DEF kept, out
  <2> QED
    BY <2>1, <2>3, <2>4 DEF kept, out
<1>6. {f \in Merged(tx[l]) : InScope(f.row, sc)} = ins
  <2>1. \A f \in ins : InScope(f.row, sc)
    BY <1>2, <1>3
  <2> QED
    BY <1>5, <2>1
<1>7. RowsOf(Merged(tx[l])) = (RowsOf(fact) \ RowsIn(RowsOf(fact), sc)) \cup RowsOf(ins)
  <2>1. RowsOf(out) = RowsOf(fact) \ RowsIn(RowsOf(fact), sc)
    BY DEF RowsOf, RowsIn
  <2>2. RowsOf(out \cup ins) = RowsOf(out) \cup RowsOf(ins)
    BY Zenon DEF RowsOf
  <2> QED
    BY <1>5, <2>1, <2>2
<1>8. \A f : ~InScope(f.row, sc) => (f \in Merged(tx[l]) <=> f \in fact)
  BY <1>2, <1>3, <1>5
<1> QED
  BY <1>2, <1>6, <1>7, <1>8 DEF sc, ins

-----------------------------------------------------------------------------
(* Each step of a load keeps what its next one relies on                   *)

\* What a step inside a transaction leaves as it is.
LEMMA OwnTxStep ==
    ASSUME IInv, NEW l \in Loaders, NEW next, NEW t, TxStep(l, next, t)
    PROVE  /\ pc'[l] = next /\ tx'[l] = t /\ job' = job /\ UNCHANGED <<fact, staging, dims>>
           /\ Own(l)' = Own(l) /\ Mine(l)' = Mine(l) /\ InWindow(l)' = InWindow(l)
           /\ Table(l)' = Table(l)
           /\ \A S : Strange(l, S)' <=> Strange(l, S)
           /\ \A S : Selected(l, S)' <=> Selected(l, S)
<1>1. /\ pc'[l] = next /\ tx'[l] = t
      /\ UNCHANGED <<fact, staging, dims, job, entry, runs>>
  BY DEF TxStep, database, IInv, TypeOK
<1>2. Own(l)' = Own(l) /\ InWindow(l)' = InWindow(l) /\ Table(l)' = Table(l)
  BY <1>1 DEF Own, InWindow, Table
<1>3. Mine(l)' = Mine(l)
  BY <1>1, <1>2 DEF Mine
<1>4. \A S : Strange(l, S)' <=> Strange(l, S)
  BY <1>1 DEF Strange
<1>5. \A S : Selected(l, S)' <=> Selected(l, S)
  BY <1>1, <1>3 DEF Selected
<1> QED
  BY <1>1, <1>2, <1>3, <1>4, <1>5

\* A rolled back load stages nothing.
LEMMA RollBackStaged ==
    ASSUME IInv, NEW l \in Loaders, Staged(l), pc[l] \in InTx \cup {"opened"}, RollBack(l)
    PROVE  Staged(l)'
<1>1. pc'[l] = "failing" /\ job' = job /\ Table(l)' = Table(l)
  BY OwnTxStep DEF RollBack
<1> QED
  BY <1>1 DEF Staged, AtRest, FactTx, InTx

\* From the DELETE of staging to the rows staged.
LEMMA StageStaged ==
    ASSUME IInv, NEW l \in Loaders, Staged(l), BeginClearing(l) \/ ClearRow(l) \/ Stage(l)
    PROVE  Staged(l)'
<1>1. /\ pc[l] \notin AtRest /\ tx[l] \in Transaction
      /\ tx[l].factIns = {} /\ tx[l].factDel = {}
      /\ job[l].kind = "fact" <=> Table(l) = "fact_stop_event"
  BY DEF BeginClearing, ClearRow, Stage, AtRest, FactTx, IInv, TypeOK, Staged
<1>2. ASSUME NEW t, TxStep(l, "clearing", t), t.factIns = {}, t.factDel = {},
             Strange(l, (staging \ t.stgSnap) \ t.stgDel)
      PROVE  Staged(l)'
  <2>1. Strange(l, (staging \ tx[l].stgSnap) \ tx[l].stgDel)'
    BY <1>2, OwnTxStep DEF Strange
  <2> QED
    BY <1>1, <1>2, <2>1, OwnTxStep DEF Staged, AtRest, FactTx
<1>3. CASE BeginClearing(l)
  <2> DEFINE t == [tx[l] EXCEPT !.stgSnap = staging]
  <2>1. /\ TxStep(l, "clearing", t) /\ t.stgSnap = staging
        /\ t.factIns = tx[l].factIns /\ t.factDel = tx[l].factDel
    BY <1>1, <1>3 DEF BeginClearing, Transaction
  <2> HIDE DEF t
  <2> QED
    BY <1>1, <1>2, <2>1 DEF Strange
<1>4. CASE ClearRow(l)
  <2>1. PICK r \in tx[l].stgSnap :
          TxStep(l, "clearing", [tx[l] EXCEPT !.stgSnap = @ \ {r},
                                              !.stgDel = @ \cup ({r} \cap staging)])
    BY <1>4 DEF ClearRow
  <2> DEFINE t == [tx[l] EXCEPT !.stgSnap = @ \ {r}, !.stgDel = @ \cup ({r} \cap staging)]
  <2>2. /\ TxStep(l, "clearing", t)
        /\ t.stgSnap = tx[l].stgSnap \ {r} /\ t.stgDel = tx[l].stgDel \cup ({r} \cap staging)
        /\ t.factIns = tx[l].factIns /\ t.factDel = tx[l].factDel
    BY <1>1, <2>1 DEF Transaction
  <2> HIDE DEF t
  <2>3. Strange(l, (staging \ tx[l].stgSnap) \ tx[l].stgDel)
    BY <1>4 DEF ClearRow, Staged
  <2>4. (staging \ t.stgSnap) \ t.stgDel \subseteq (staging \ tx[l].stgSnap) \ tx[l].stgDel
    BY <2>2
  <2> QED
    BY <1>1, <1>2, <2>2, <2>3, <2>4 DEF Strange
<1>5. CASE Stage(l)
  <2> DEFINE t == [tx[l] EXCEPT !.stgIns = Own(l)]
  <2>1. /\ TxStep(l, "staged", t) /\ t.stgIns = Own(l) /\ t.stgDel = tx[l].stgDel
        /\ t.factIns = tx[l].factIns /\ t.factDel = tx[l].factDel
    BY <1>1, <1>5 DEF Stage, Transaction, Own
  <2> HIDE DEF t
  <2>2. tx[l].stgSnap = {} /\ Strange(l, (staging \ tx[l].stgSnap) \ tx[l].stgDel)
    BY <1>5 DEF Stage, Staged
  <2>3. Strange(l, staging \ tx[l].stgDel)
    BY <2>2 DEF Strange
  <2>4. tx'[l].stgIns = Own(l)' /\ Strange(l, staging \ tx[l].stgDel)'
    BY <2>1, <2>3, OwnTxStep DEF Strange
  <2> QED
    BY <1>1, <2>1, <2>4, OwnTxStep DEF Staged, AtRest, FactTx
<1> QED
  BY <1>3, <1>4, <1>5

\* Counting the rows in scope, and checking them.
LEMMA CheckStaged ==
    ASSUME Apart, IInv, NEW l \in Loaders, Staged(l), CountStaged(l) \/ Validate(l)
    PROVE  Staged(l)'
<1>1. pc[l] \notin AtRest /\ tx[l] \in Transaction /\ pc[l] \in FactTx \ {"clearing"}
  BY DEF CountStaged, Validate, AtRest, FactTx, IInv, TypeOK
<1>2. /\ RowsIn(StagingView(l), job[l].scope) = Mine(l) /\ Mine(l) \subseteq StagingView(l)
      /\ tx[l].stgIns = Own(l) /\ Strange(l, staging \ tx[l].stgDel)
      /\ tx[l].factIns = {} /\ tx[l].factDel = {}
  BY <1>1, ViewIsOwn DEF Staged, CountStaged, Validate
<1>3. CASE CountStaged(l)
  <2> DEFINE t == [tx[l] EXCEPT !.read = Cardinality(Mine(l))]
  <2>1. /\ TxStep(l, "counted", t) /\ t.read = Cardinality(Mine(l))
        /\ t.stgIns = tx[l].stgIns /\ t.stgDel = tx[l].stgDel
        /\ t.factIns = tx[l].factIns /\ t.factDel = tx[l].factDel
    BY <1>1, <1>2, <1>3 DEF CountStaged, Transaction
  <2> HIDE DEF t
  <2>2. Strange(l, staging \ tx[l].stgDel)'
    BY <1>2, <2>1, OwnTxStep DEF Strange
  <2> QED
    BY <1>1, <1>2, <2>1, <2>2, OwnTxStep DEF Staged, AtRest, FactTx
<1>4. CASE Validate(l)
  <2> DEFINE bad == Violated(StagingView(l), dims)
             t == [tx[l] EXCEPT !.dirty = bad]
  <2>1. CASE bad /\ job[l].policy = "fail"
    BY <1>4, <2>1, RollBackStaged DEF Validate, InTx, FactTx
  <2>2. CASE ~(bad /\ job[l].policy = "fail")
    <3>1. /\ TxStep(l, "validated", t) /\ t.dirty = bad
          /\ t.stgIns = tx[l].stgIns /\ t.stgDel = tx[l].stgDel /\ t.read = tx[l].read
          /\ t.factIns = tx[l].factIns /\ t.factDel = tx[l].factDel
      BY <1>1, <1>4, <2>2 DEF Validate, Transaction
    <3>2. tx[l].read = Cardinality(Mine(l))
      BY <1>4 DEF Staged, Validate, FactTx
    <3>3. IF bad THEN job[l].policy = "skip" ELSE Mine(l) = ValidRows(Mine(l), dims)
      <4>1. job[l].policy \in {"fail", "skip"}
        BY <1>1, JobFacts DEF Job
      <4>2. ASSUME ~bad PROVE Mine(l) = ValidRows(Mine(l), dims)
        <5>1. \A r \in Mine(l) : Passes(r, StagingView(l), dims)
          BY <1>2, <4>2 DEF Violated
        <5>2. PICK S, T, d : S = StagingView(l) /\ T = Mine(l) /\ d = dims
          OBVIOUS
        <5>3. T \in SUBSET S /\ \A r \in T : Passes(r, S, d)
          BY <1>2, <5>1, <5>2
        <5>4. T = ValidRows(T, d)
          BY <5>3, AllPass
        <5> QED
          BY <5>2, <5>4
      <4> QED
        BY <2>2, <4>1, <4>2
    <3> HIDE DEF t, bad
    <3>4. Strange(l, staging \ tx[l].stgDel)'
      BY <1>2, <3>1, OwnTxStep DEF Strange
    <3>5. IF tx'[l].dirty THEN job'[l].policy = "skip"
                          ELSE Mine(l)' = ValidRows(Mine(l)', dims')
      BY <3>1, <3>3, OwnTxStep
    <3> QED
      BY <1>1, <1>2, <3>1, <3>2, <3>4, <3>5, OwnTxStep DEF Staged, AtRest, FactTx
  <2> QED
    BY <2>1, <2>2
<1> QED
  BY <1>3, <1>4

\* The part of the facts that the DELETE and the promotion only pass on.
LEMMA PassedOn ==
    ASSUME IInv, NEW l \in Loaders, Staged(l),
           pc[l] \in FactTx \ {"clearing", "staged", "counted"},
           NEW next \in FactTx, NEW t, TxStep(l, next, t),
           t.stgIns = tx[l].stgIns, t.stgDel = tx[l].stgDel, t.read = tx[l].read,
           t.dirty = tx[l].dirty
    PROVE  /\ tx'[l].stgIns = Own(l)' /\ Strange(l, staging \ tx[l].stgDel)'
           /\ tx'[l].read = Cardinality(Mine(l)')
           /\ IF tx'[l].dirty THEN job'[l].policy = "skip"
                              ELSE Mine(l)' = ValidRows(Mine(l)', dims')
           /\ job'[l].kind = "fact" <=> Table(l)' = "fact_stop_event"
           /\ InWindow(l)' = InWindow(l) /\ pc'[l] = next /\ tx'[l] = t
           /\ Chosen(l)' = Chosen(l) /\ \A S : Selected(l, S)' <=> Selected(l, S)
<1>1. /\ tx[l].stgIns = Own(l) /\ Strange(l, staging \ tx[l].stgDel)
      /\ tx[l].read = Cardinality(Mine(l))
      /\ IF tx[l].dirty THEN job[l].policy = "skip" ELSE Mine(l) = ValidRows(Mine(l), dims)
      /\ job[l].kind = "fact" <=> Table(l) = "fact_stop_event"
  BY DEF Staged, FactTx, AtRest
<1>2. Strange(l, staging \ tx[l].stgDel)'
  BY <1>1, OwnTxStep DEF Strange
<1>3. Chosen(l)' = Chosen(l)
  BY OwnTxStep DEF Chosen
<1> QED
  BY <1>1, <1>2, <1>3, OwnTxStep

\* The rows of the window, deleted one after the other.
LEMMA DeleteStaged ==
    ASSUME IInv, NEW l \in Loaders, Staged(l), BeginDelete(l) \/ DeleteRow(l) \/ DeleteScope(l)
    PROVE  Staged(l)'
<1>1. /\ pc[l] \in FactTx \ {"clearing", "staged", "counted"} /\ tx[l] \in Transaction
      /\ tx[l].factIns = {}
  BY DEF BeginDelete, DeleteRow, DeleteScope, FactTx, IInv, TypeOK, Staged
<1>2. CASE BeginDelete(l)
  <2> DEFINE t == [tx[l] EXCEPT !.factSnap = InWindow(l)]
  <2>1. /\ TxStep(l, "deleting", t) /\ t.factSnap = InWindow(l)
        /\ t.stgIns = tx[l].stgIns /\ t.stgDel = tx[l].stgDel /\ t.read = tx[l].read
        /\ t.dirty = tx[l].dirty /\ t.factDel = tx[l].factDel /\ t.factIns = tx[l].factIns
    BY <1>1, <1>2 DEF BeginDelete, Transaction, InWindow
  <2>2. tx[l].factDel = {}
    BY <1>2 DEF BeginDelete, Staged
  <2> HIDE DEF t
  <2>3. /\ pc'[l] = "deleting" /\ tx'[l].factIns = {}
        /\ tx'[l].factSnap \cup tx'[l].factDel = InWindow(l)'
    BY <1>1, <2>1, <2>2, OwnTxStep
  <2> QED
    BY <1>1, <2>1, <2>3, PassedOn DEF Staged, FactTx
<1>3. CASE DeleteRow(l)
  <2>1. PICK s \in tx[l].factSnap :
          TxStep(l, "deleting", [tx[l] EXCEPT !.factSnap = @ \ {s},
                                              !.factDel = @ \cup Doomed(s)])
    BY <1>3 DEF DeleteRow
  <2> DEFINE t == [tx[l] EXCEPT !.factSnap = @ \ {s}, !.factDel = @ \cup Doomed(s)]
  <2>2. /\ TxStep(l, "deleting", t) /\ t.factSnap = tx[l].factSnap \ {s}
        /\ t.factDel = tx[l].factDel \cup Doomed(s)
        /\ t.stgIns = tx[l].stgIns /\ t.stgDel = tx[l].stgDel /\ t.read = tx[l].read
        /\ t.dirty = tx[l].dirty /\ t.factIns = tx[l].factIns
    BY <1>1, <2>1 DEF Transaction
  <2> HIDE DEF t
  <2>3. tx[l].factSnap \cup tx[l].factDel = InWindow(l)
    BY <1>3 DEF DeleteRow, Staged
  <2>4. s \in fact /\ InScope(s.row, job[l].scope)
    BY <2>3 DEF InWindow
  <2>5. \A f \in fact : Grain(s.row) = Grain(f.row) => InScope(f.row, job[l].scope)
    BY <2>4 DEF Grain, InScope
  <2>6. s \in Doomed(s) /\ Doomed(s) \subseteq InWindow(l)
    BY <2>4, <2>5 DEF Doomed, InWindow
  <2>7. t.factSnap \cup t.factDel = InWindow(l)
    BY <2>2, <2>3, <2>6
  <2> QED
    BY <1>1, <2>2, <2>7, PassedOn DEF Staged, FactTx
<1>4. CASE DeleteScope(l)
  <2>1. TxStep(l, "cleared", tx[l]) /\ tx[l].factDel = InWindow(l)
    BY <1>4 DEF DeleteScope, Staged
  <2> QED
    BY <1>1, <2>1, PassedOn DEF Staged, FactTx
<1> QED
  BY <1>2, <1>3, <1>4

\* The count and the snapshot of the promotion.
LEMMA PromoteStaged ==
    ASSUME Apart, IInv, NEW l \in Loaders, Staged(l), CountPromoted(l) \/ BeginUpsert(l)
    PROVE  Staged(l)'
<1>1. /\ pc[l] \in FactTx \ {"clearing", "staged", "counted"} /\ tx[l] \in Transaction
      /\ tx[l].factDel = InWindow(l) /\ tx[l].factIns = {}
  BY DEF CountPromoted, BeginUpsert, FactTx, IInv, TypeOK, Staged
<1>2. Source(l) = Chosen(l) /\ Selected(l, Chosen(l))
  BY <1>1, SourceIsChosen
<1>3. CASE CountPromoted(l)
  <2> DEFINE t == [tx[l] EXCEPT !.inserted = Cardinality(Chosen(l))]
  <2>1. /\ TxStep(l, "promoting", t) /\ t.inserted = Cardinality(Chosen(l))
        /\ t.stgIns = tx[l].stgIns /\ t.stgDel = tx[l].stgDel /\ t.read = tx[l].read
        /\ t.dirty = tx[l].dirty /\ t.factDel = tx[l].factDel /\ t.factIns = tx[l].factIns
    BY <1>1, <1>2, <1>3 DEF CountPromoted, Transaction
  <2> HIDE DEF t
  <2>2. /\ pc'[l] = "promoting" /\ tx'[l].factDel = InWindow(l)'
        /\ tx'[l].inserted = Cardinality(Chosen(l)') /\ tx'[l].factIns = {}
    BY <1>1, <2>1, PassedOn DEF FactTx
  <2> QED
    BY <1>1, <2>1, <2>2, PassedOn DEF Staged, FactTx
<1>4. CASE BeginUpsert(l)
  <2> DEFINE t == [tx[l] EXCEPT !.source = Chosen(l)]
  <2>1. /\ TxStep(l, "upserting", t) /\ t.source = Chosen(l) /\ t.inserted = tx[l].inserted
        /\ t.stgIns = tx[l].stgIns /\ t.stgDel = tx[l].stgDel /\ t.read = tx[l].read
        /\ t.dirty = tx[l].dirty /\ t.factDel = tx[l].factDel /\ t.factIns = tx[l].factIns
    BY <1>1, <1>2, <1>4 DEF BeginUpsert, Transaction
  <2>2. tx[l].inserted = Cardinality(Chosen(l))
    BY <1>4 DEF BeginUpsert, Staged
  <2> HIDE DEF t
  <2>a. Upserting(l)' = Chosen(l)
    <3>1. tx'[l].source = Chosen(l) /\ tx'[l].factIns = {}
      BY <1>1, <2>1, OwnTxStep
    <3> QED
      BY <3>1 DEF Upserting, RowsOf
  <2>3. Selected(l, Upserting(l))'
    <3>1. Mine(l)' = Mine(l) /\ UNCHANGED <<dims, job>>
      BY <2>1, OwnTxStep
    <3> QED
      BY <1>2, <2>a, <3>1 DEF Selected
  <2>4. /\ tx'[l].inserted = Cardinality(Upserting(l)')
        /\ \A f, g \in tx'[l].factIns : f.row = g.row => f = g
    BY <1>1, <2>1, <2>2, <2>a, OwnTxStep
  <2>5. pc'[l] = "upserting" /\ tx'[l].factDel = InWindow(l)'
    BY <1>1, <2>1, OwnTxStep
  <2> QED
    BY <1>1, <2>1, <2>3, <2>4, <2>5, PassedOn DEF Staged, FactTx
<1> QED
  BY <1>3, <1>4

\* The rows promoted, one tuple each.
LEMMA UpsertStaged ==
    ASSUME Apart, IInv, NEW l \in Loaders, Staged(l), UpsertRow(l) \/ Upsert(l)
    PROVE  Staged(l)'
<1>1. /\ pc[l] \in FactTx \ {"clearing", "staged", "counted"} /\ pc[l] \notin AtRest
      /\ tx[l] \in Transaction /\ tx[l].factDel = InWindow(l)
      /\ tx[l].inserted = Cardinality(Upserting(l)) /\ Selected(l, Upserting(l))
      /\ \A f, g \in tx[l].factIns : f.row = g.row => f = g
  BY DEF UpsertRow, Upsert, FactTx, AtRest, IInv, TypeOK, Staged
<1>2. CASE UpsertRow(l)
  <2>1. PICK r \in tx[l].source :
          IF Placeable(r) /\ Grain(r) \notin GrainsOf(RowsOf(tx[l].factIns))
            THEN TxStep(l, "upserting", [tx[l] EXCEPT !.source = @ \ {r},
                                                    !.factIns = @ \cup {Written(l, r)}])
            ELSE RollBack(l)
    BY <1>2 DEF UpsertRow, RowsOf
  <2>2. CASE RollBack(l)
    BY <1>1, <2>2, RollBackStaged DEF InTx
  <2>3. CASE /\ TxStep(l, "upserting", [tx[l] EXCEPT !.source = @ \ {r},
                                                    !.factIns = @ \cup {Written(l, r)}])
             /\ Grain(r) \notin GrainsOf(RowsOf(tx[l].factIns))
    <3>0. PICK w : w = Written(l, r)
      OBVIOUS
    <3> DEFINE t == [tx[l] EXCEPT !.source = @ \ {r}, !.factIns = @ \cup {w}]
    <3>1. /\ TxStep(l, "upserting", t) /\ t.inserted = tx[l].inserted
          /\ t.source = tx[l].source \ {r} /\ t.factIns = tx[l].factIns \cup {w}
          /\ t.stgIns = tx[l].stgIns /\ t.stgDel = tx[l].stgDel /\ t.read = tx[l].read
          /\ t.dirty = tx[l].dirty /\ t.factDel = tx[l].factDel
      BY <1>1, <2>3, <3>0 DEF Transaction
    <3> HIDE DEF t
    <3>2. w.row = r
      BY <3>0, WrittenType DEF IInv
    <3>3. RowsOf(t.factIns) = RowsOf(tx[l].factIns) \cup {r}
      BY <3>1, <3>2 DEF RowsOf
    <3>4. t.source \cup RowsOf(t.factIns) = Upserting(l)
      BY <3>1, <3>3 DEF Upserting
    <3>5. tx'[l] = t /\ pc'[l] = "upserting" /\ Mine(l)' = Mine(l) /\ UNCHANGED <<dims, job>>
      BY <3>1, OwnTxStep
    <3>6. Upserting(l)' = Upserting(l)
      BY <3>4, <3>5 DEF Upserting, RowsOf
    <3>7. Selected(l, Upserting(l))'
      BY <1>1, <3>5, <3>6 DEF Selected
    <3>8. tx'[l].inserted = Cardinality(Upserting(l)') /\ tx'[l].factDel = InWindow(l)'
      BY <1>1, <3>1, <3>5, <3>6, OwnTxStep
    <3>9. \A f, g \in tx'[l].factIns : f.row = g.row => f = g
      <4>1. \A f \in tx[l].factIns : f.row # r
        BY <2>3 DEF RowsOf, GrainsOf
      <4> QED
        BY <1>1, <3>1, <3>2, <3>5, <4>1
    <3> QED
      BY <1>1, <3>1, <3>5, <3>7, <3>8, <3>9, PassedOn DEF Staged, FactTx, AtRest
  <2> QED
    BY <2>1, <2>2, <2>3
<1>3. CASE Upsert(l)
  <2>1. CASE RollBack(l)
    BY <1>1, <2>1, RollBackStaged DEF InTx
  <2>2. CASE TxStep(l, "upserted", tx[l])
    <3>1. /\ tx'[l] = tx[l] /\ pc'[l] = "upserted" /\ Mine(l)' = Mine(l)
          /\ InWindow(l)' = InWindow(l) /\ UNCHANGED <<dims, job>>
      BY <2>2, OwnTxStep
    <3>2. Upserting(l) = RowsOf(tx[l].factIns)
      BY <1>3 DEF Upsert, Upserting
    <3>3. IsFiniteSet(RowsOf(tx[l].factIns))
      BY <1>1, <3>2, SelectedMine, OwnType, FS_Subset
    <3>4. Cardinality(tx[l].factIns) = Cardinality(RowsOf(tx[l].factIns))
      BY <1>1, <3>3, TuplesOfRows
    <3>5. RowsOf(tx[l].factIns)' = RowsOf(tx[l].factIns)
      BY <3>1 DEF RowsOf
    <3>6. Selected(l, RowsOf(tx[l].factIns))'
      BY <1>1, <3>1, <3>2, <3>5 DEF Selected
    <3>7. /\ tx'[l].inserted = Cardinality(tx'[l].factIns)
          /\ tx'[l].inserted = Cardinality(RowsOf(tx[l].factIns)')
          /\ tx'[l].factDel = InWindow(l)'
      BY <1>1, <3>1, <3>2, <3>4, <3>5
    <3> QED
      BY <1>1, <2>2, <3>1, <3>6, <3>7, PassedOn DEF Staged, FactTx, AtRest
  <2> QED
    BY <1>3, <2>1, <2>2 DEF Upsert
<1> QED
  BY <1>2, <1>3

\* Committed: the window holds what was promoted.
LEMMA CommitStaged ==
    ASSUME Apart, IInv, NEW l \in Loaders, Staged(l), NEW acked \in BOOLEAN, Commit(l, acked)
    PROVE  Staged(l)'
<1>1. /\ pc[l] = "upserted" /\ pc'[l] \in {"committed", "failing"} /\ tx[l] \in Transaction
      /\ UNCHANGED <<job, entry>>
      /\ tx'[l].read = tx[l].read /\ tx'[l].inserted = tx[l].inserted
  BY DEF Commit, Acked, EmptyTx, IInv, TypeOK
<1>2. /\ tx[l].read = Cardinality(Mine(l))
      /\ tx[l].inserted = Cardinality(RowsOf(tx[l].factIns))
      /\ job[l].kind = "fact" <=> Table(l) = "fact_stop_event"
  BY <1>1 DEF Staged, FactTx, AtRest
<1>3. Table(l)' = Table(l)
  BY <1>1, JobFacts DEF Commit, Acked, Table, IInv, TypeOK, AtRest, AuditEntry
<1>4. Mine(l)' = Mine(l)
  BY <1>1 DEF Mine, Own
<1>5. InWindow(l)' = tx[l].factIns
  <2>1. {f \in Merged(tx[l]) : InScope(f.row, job[l].scope)} = tx[l].factIns
    BY <1>1, MergedRows
  <2> QED
    BY <1>1, <2>1 DEF InWindow, Commit
<1>6. RowsOf(InWindow(l))' = RowsOf(tx[l].factIns)
  BY <1>5 DEF RowsOf
<1> QED
  BY <1>1, <1>2, <1>3, <1>4, <1>6 DEF Staged, FactTx, AtRest

\* A dimension's steps concern no fact.
LEMMA DimensionStaged ==
    ASSUME IInv, NEW l \in Loaders, Staged(l),
           \/ \E acked \in BOOLEAN : UpsertDimension(l, acked)
           \/ StartNextDimension(l)
    PROVE  Staged(l)'
<1>1. CASE \E acked \in BOOLEAN : UpsertDimension(l, acked)
  <2>1. PICK acked \in BOOLEAN : UpsertDimension(l, acked)
    BY <1>1
  <2>2. /\ pc[l] = "dim_opened" /\ pc'[l] \in {"committed", "failing"}
        /\ UNCHANGED <<job, entry>> /\ Table(l) \in Dims
        /\ job[l].kind = "fact" <=> Table(l) = "fact_stop_event"
    BY <2>1 DEF UpsertDimension, Acked, IInv, TypeOK, Audit, Held, Staged, AtRest, Table
  <2>3. Table(l)' = Table(l)
    BY <2>1, <2>2, JobFacts DEF UpsertDimension, Acked, Table, IInv, TypeOK, AtRest, AuditEntry
  <2> QED
    BY <2>2, <2>3 DEF Staged, FactTx, AtRest, Dims
<1>2. CASE StartNextDimension(l)
  <2>1. /\ pc[l] = "dim_next" /\ pc'[l] = "dim_opened" /\ UNCHANGED job
        /\ job[l].kind # "fact" 
    BY <1>2 DEF StartNextDimension, StartRun, IInv, TypeOK, Staged, AtRest
  <2>2. Table(l)' = NextDim(Table(l))
    BY <1>2 DEF StartNextDimension, StartRun, Table, OpenEntry, IInv, TypeOK
  <2>3. Table(l)' # "fact_stop_event"
    BY <2>2 DEF NextDim
  <2> QED
    BY <2>1, <2>3 DEF Staged, FactTx, AtRest
<1> QED
  BY <1>1, <1>2

\* The audit entry closed, the counts stay for the gate.
LEMMA FinishStaged ==
    ASSUME IInv, NEW l \in Loaders, Staged(l), FinishRun(l)
    PROVE  Staged(l)'
<1>1. /\ pc[l] = "committed" /\ UNCHANGED <<database, job, entry, tx>>
      /\ pc'[l] = IF Table(l) \in {"dim_date", "dim_station"} THEN "dim_next" ELSE "closed"
  BY DEF FinishRun, IInv, TypeOK
<1>2. Table(l)' = Table(l)
  BY <1>1, JobFacts DEF FinishRun, CloseEntry, Closed, Table, IInv, TypeOK, AtRest, AuditEntry
<1>3. Mine(l)' = Mine(l) /\ RowsOf(InWindow(l))' = RowsOf(InWindow(l))
  BY <1>1 DEF Mine, Own, InWindow, database, RowsOf
<1>4. /\ job[l].kind = "fact" <=> Table(l) = "fact_stop_event"
      /\ job[l].kind = "fact" =>
           tx[l].read = Cardinality(Mine(l)) /\ tx[l].inserted = Cardinality(RowsOf(InWindow(l)))
  BY <1>1 DEF Staged, AtRest
<1> QED
  BY <1>1, <1>2, <1>3, <1>4 DEF Staged, FactTx, AtRest

\* A command starts with nothing staged.
LEMMA BeginStaged ==
    ASSUME IInv, NEW l \in Loaders, NEW j \in JobsOf[l], Begin(l, j)
    PROVE  Staged(l)'
<1>1. job'[l] = j /\ j.kind \in {"dims", "fact"}
  BY LoadAssumption DEF Begin, IInv, TypeOK, Job
<1>2. CASE j.kind = "fact"
  <2>1. /\ pc'[l] = "opened" /\ Table(l)' = "fact_stop_event"
        /\ tx'[l].factDel = {} /\ tx'[l].factIns = {}
    BY <1>2 DEF Begin, StartRun, Table, OpenEntry, EmptyTx, IInv, TypeOK
  <2> QED
    BY <1>1, <1>2, <2>1 DEF Staged, FactTx, AtRest
<1>3. CASE j.kind = "dims"
  <2>1. pc'[l] = "dim_opened" /\ Table(l)' = "dim_date"
    BY <1>3 DEF Begin, StartRun, Table, OpenEntry, IInv, TypeOK
  <2> QED
    BY <1>1, <1>3, <2>1 DEF Staged, FactTx, AtRest
<1> QED
  BY <1>1, <1>2, <1>3

\* Nothing concerns a loader at rest.
LEMMA RestStaged ==
    ASSUME NEW l \in Loaders, pc[l] \in AtRest
    PROVE  Staged(l)
BY DEF Staged, FactTx, AtRest

-----------------------------------------------------------------------------
(* The steps of the others                                                 *)

\* What a step of one loader leaves to the others, and what it may change.
LEMMA Bystander ==
    ASSUME IInv, NEW m \in Loaders, Command(m) \/ Step(m) \/ Fault(m), NEW l \in Loaders \ {m}
    PROVE  /\ pc'[l] = pc[l] /\ job'[l] = job[l] /\ entry'[l] = entry[l] /\ tx'[l] = tx[l]
           /\ \A i \in DOMAIN runs : runs'[i].table = runs[i].table
           /\ \/ UNCHANGED database
              \/ \E acked \in BOOLEAN : Commit(m, acked) \/ UpsertDimension(m, acked)
<1> DEFINE others == /\ pc'[l] = pc[l] /\ job'[l] = job[l]
                     /\ entry'[l] = entry[l] /\ tx'[l] = tx[l]
           tables == \A i \in DOMAIN runs : runs'[i].table = runs[i].table
<1>1. CASE Command(m)
  <2>1. PICK j \in JobsOf[m] : Begin(m, j) \/ Refuse(m, j)
    BY <1>1 DEF Command
  <2>2. CASE Begin(m, j)
    <3>1. others /\ UNCHANGED database /\ \E e : runs' = Append(runs, e)
      BY <2>2 DEF Begin, StartRun, IInv, TypeOK
    <3> QED
      BY <3>1 DEF IInv, TypeOK
  <2>3. CASE Refuse(m, j)
    BY <2>3 DEF Refuse, Leave, IInv, TypeOK
  <2> QED
    BY <2>1, <2>2, <2>3
<1>2. CASE \/ BeginClearing(m) \/ ClearRow(m) \/ Stage(m) \/ StageFails(m)
           \/ CountStaged(m) \/ Validate(m)
           \/ BeginDelete(m) \/ DeleteRow(m) \/ DeleteScope(m)
           \/ CountPromoted(m) \/ BeginUpsert(m)
           \/ UpsertRow(m) \/ Upsert(m) \/ UpsertDimensionFails(m) \/ Aborted(m) \/ StatementFails(m)
  <2>1. PICK next, t : TxStep(m, next, t)
    BY <1>2, FactStep
  <2> QED
    BY <2>1 DEF TxStep, IInv, TypeOK
<1>3. ASSUME NEW acked \in BOOLEAN, Commit(m, acked) \/ UpsertDimension(m, acked)
      PROVE  others /\ tables
  <2>1. pc[m] \in {"upserted", "dim_opened"} /\ entry[m] \in DOMAIN runs
    BY <1>3, JobFacts DEF Commit, UpsertDimension, AtRest
  <2>2. others /\ \E fate : runs' = [runs EXCEPT ![entry[m]].fate = fate]
    BY <1>3 DEF Commit, UpsertDimension, Acked, IInv, TypeOK
  <2> QED
    BY <2>1, <2>2 DEF IInv, TypeOK, AuditEntry
<1>4. CASE FinishRun(m) \/ FailRun(m) \/ CloseRaises(m)
  <2>1. pc[m] \in {"committed", "failing"} /\ entry[m] \in DOMAIN runs
    BY <1>4, JobFacts DEF FinishRun, FailRun, CloseRaises, AtRest
  <2>2. others /\ (CloseEntry(m) \/ UNCHANGED runs) /\ UNCHANGED database
    BY <1>4 DEF FinishRun, FailRun, CloseRaises, ExitError, Leave, IInv, TypeOK
  <2>3. Closed(m).table = runs[entry[m]].table
    BY <2>1 DEF Closed, IInv, TypeOK, AuditEntry
  <2> QED
    BY <2>1, <2>2, <2>3 DEF CloseEntry, IInv, TypeOK
<1>5. CASE Gate(m) \/ StartNextRaises(m) \/ Crash(m)
  BY <1>5 DEF Gate, StartNextRaises, Crash, ExitError, Leave, IInv, TypeOK
<1>6. CASE StartNextDimension(m)
  BY <1>6 DEF StartNextDimension, StartRun, IInv, TypeOK
<1> QED
  BY <1>1, <1>2, <1>3, <1>4, <1>5, <1>6, Zenon DEF Step, Fault

\* What concerns a load that another one's step may have changed: no row comes to
\* staging in its window, its window of the fact stays, and the dimensions only grow,
\* not at all under the policy skip.
Undisturbed(l) ==
    /\ \A r \in staging' \ staging : ~InScope(r, job[l].scope)
    /\ job[l].policy = "skip" => staging' \subseteq staging /\ dims' = dims
    /\ InWindow(l)' = InWindow(l)
    /\ \A k \in Dims : dims[k] \subseteq dims'[k]

\* Then the load is where it was.
LEMMA UndisturbedStaged ==
    ASSUME IInv, NEW l \in Loaders, Staged(l), pc[l] \notin AtRest,
           pc'[l] = pc[l], job'[l] = job[l], entry'[l] = entry[l], tx'[l] = tx[l],
           runs'[entry[l]].table = runs[entry[l]].table,
           job[l].kind = "fact" => Undisturbed(l)
    PROVE  Staged(l)'
<1>1. Table(l)' = Table(l) /\ Own(l)' = Own(l) /\ Mine(l)' = Mine(l)
  BY DEF Table, Own, Mine
<1>2. CASE job[l].kind # "fact"
  <2>1. pc[l] \notin FactTx
    BY <1>2 DEF Staged, IInv, Audit, Held, Table
  <2> QED
    BY <1>1, <1>2, <2>1 DEF Staged, FactTx, AtRest
<1>3. CASE job[l].kind = "fact"
  <2>1. /\ Strange(l, (staging \ tx[l].stgSnap) \ tx[l].stgDel)
             => Strange(l, (staging \ tx[l].stgSnap) \ tx[l].stgDel)'
        /\ Strange(l, staging \ tx[l].stgDel) => Strange(l, staging \ tx[l].stgDel)'
    BY <1>3 DEF Strange, Undisturbed
  <2>2. InWindow(l)' = InWindow(l)
    BY <1>3 DEF Undisturbed
  <2>3. RowsOf(InWindow(l))' = RowsOf(InWindow(l))
    BY <2>2 DEF RowsOf
  <2>4. ASSUME Mine(l) = ValidRows(Mine(l), dims) PROVE Mine(l) = ValidRows(Mine(l), dims')
    <3>1. \A r \in Mine(l) : Passes(r, Mine(l), dims)
      BY <2>4 DEF ValidRows
    <3> QED
      BY <1>3, <3>1, AllPass DEF Undisturbed
  <2>5. job[l].policy = "skip" => dims' = dims
    BY <1>3 DEF Undisturbed
  <2>6. \A k \in Dims : dims[k] \subseteq dims'[k]
    BY <1>3 DEF Undisturbed
  <2>7. ASSUME pc[l] = "promoting" PROVE Chosen(l)' = Chosen(l)
    <3>1. tx[l].dirty => dims' = dims
      BY <2>5, <2>7 DEF Staged, FactTx
    <3> QED
      BY <1>1, <3>1 DEF Chosen
  <2>8. /\ Selected(l, Upserting(l)) => Selected(l, Upserting(l))'
        /\ Selected(l, RowsOf(tx[l].factIns)) => Selected(l, RowsOf(tx[l].factIns))'
        /\ RowsOf(tx[l].factIns)' = RowsOf(tx[l].factIns) /\ Upserting(l)' = Upserting(l)
    <3>1. /\ dims["dim_date"] \subseteq dims'["dim_date"]
          /\ dims["dim_station"] \subseteq dims'["dim_station"]
          /\ dims["dim_relation"] \subseteq dims'["dim_relation"]
      BY <2>6 DEF Dims
    <3>2. RowsOf(tx[l].factIns)' = RowsOf(tx[l].factIns)
      BY DEF RowsOf
    <3>3. Upserting(l)' = Upserting(l) /\ job'[l].policy = job[l].policy
      BY <3>2 DEF Upserting
    <3>4. \A S : Selected(l, S) =>
            /\ \E ds \in SUBSET dims'["dim_date"], ss \in SUBSET dims'["dim_station"],
                  rs \in SUBSET dims'["dim_relation"] :
                 S = ValidRows(Mine(l), [dim_date |-> ds, dim_station |-> ss,
                                         dim_relation |-> rs])
            /\ job[l].policy = "fail" => S = Mine(l)
      BY <3>1 DEF Selected
    <3>5. Selected(l, Upserting(l)) => Selected(l, Upserting(l))'
      <4> SUFFICES ASSUME Selected(l, Upserting(l)) PROVE Selected(l, Upserting(l))'
        OBVIOUS
      <4>1. /\ \E ds \in SUBSET dims'["dim_date"], ss \in SUBSET dims'["dim_station"],
                  rs \in SUBSET dims'["dim_relation"] :
                 Upserting(l) = ValidRows(Mine(l), [dim_date |-> ds, dim_station |-> ss,
                                                    dim_relation |-> rs])
            /\ job[l].policy = "fail" => Upserting(l) = Mine(l)
        BY <3>4
      <4> QED
        BY <1>1, <3>3, <4>1 DEF Selected
    <3>6. Selected(l, RowsOf(tx[l].factIns)) => Selected(l, RowsOf(tx[l].factIns))'
      <4> SUFFICES ASSUME Selected(l, RowsOf(tx[l].factIns))
                   PROVE  Selected(l, RowsOf(tx[l].factIns))'
        OBVIOUS
      <4>1. /\ \E ds \in SUBSET dims'["dim_date"], ss \in SUBSET dims'["dim_station"],
                  rs \in SUBSET dims'["dim_relation"] :
                 RowsOf(tx[l].factIns) = ValidRows(Mine(l), [dim_date |-> ds, dim_station |-> ss,
                                                             dim_relation |-> rs])
            /\ job[l].policy = "fail" => RowsOf(tx[l].factIns) = Mine(l)
        BY <3>4
      <4> QED
        BY <1>1, <3>2, <3>3, <4>1 DEF Selected
    <3> QED
      BY <3>2, <3>3, <3>5, <3>6
  <2>9. /\ pc[l] \in FactTx \ {"clearing", "staged", "counted"} =>
             IF tx[l].dirty THEN job[l].policy = "skip" ELSE Mine(l) = ValidRows(Mine(l), dims')
    BY <2>4 DEF Staged
  <2> QED
    BY <1>1, <1>3, <2>1, <2>2, <2>3, <2>7, <2>8, <2>9 DEF Staged, FactTx, AtRest
<1> QED
  BY <1>2, <1>3

\* Loads that keep apart do not disturb each other.
LEMMA ApartUndisturbed ==
    ASSUME Apart, IInv, AllStaged, NEW m \in Loaders, NEW l \in Loaders \ {m},
           pc[l] \notin AtRest, job[l].kind = "fact",
           NEW acked \in BOOLEAN, Commit(m, acked) \/ UpsertDimension(m, acked)
    PROVE  Undisturbed(l)
<1>1. /\ pc[m] \notin AtRest /\ job[l] \in JobsOf[l] /\ job[m] \in JobsOf[m]
      /\ job[l].policy = "fail"
  <2>1. pc[m] \notin AtRest
    BY DEF Commit, UpsertDimension, AtRest
  <2> QED
    BY <2>1, JobFacts, ApartFacts
<1>2. job[l].policy # "skip"
  BY <1>1
<1>3. CASE UpsertDimension(m, acked)
  <2>1. UNCHANGED <<fact, staging>> /\ job'[l] = job[l]
    BY <1>3 DEF UpsertDimension
  <2>2. \A k \in Dims : dims[k] \subseteq dims'[k]
    BY <1>3 DEF UpsertDimension, IInv, TypeOK
  <2> QED
    BY <1>2, <2>1, <2>2 DEF Undisturbed, InWindow
<1>4. CASE Commit(m, acked)
  <2>1. /\ pc[m] = "upserted" /\ fact' = Merged(tx[m]) /\ staging' = StagingView(m)
        /\ UNCHANGED <<dims, job>>
    BY <1>4 DEF Commit
  <2>2. Staged(m) /\ tx[m].stgIns = Own(m) /\ job[m].kind = "fact"
    BY <1>1, <2>1 DEF AllStaged, Staged, FactTx, AtRest, IInv, Audit, Held, Table
  <2>3. /\ job[m].export.layout = "partitioned"
        /\ \A d \in Dates \cup {Null} : ~(InScope([date |-> d], job[l].scope)
                                          /\ InScope([date |-> d], job[m].scope))
    BY <1>1, <2>2, ApartFacts
  <2>4. ASSUME NEW r \in Row, InScope(r, job[m].scope) PROVE ~InScope(r, job[l].scope)
    <3>1. r.date \in Dates \cup {Null}
      BY DEF Row
    <3> QED
      BY <2>3, <2>4, <3>1, ScopeOfDate
  <2>5. \A r \in staging' \ staging : ~InScope(r, job[l].scope)
    <3>1. \A r \in Own(m) : InScope(r, job[m].scope)
      <4>1. ReadRows(job[m]) \subseteq Row /\ entry[m] \in Nat
        BY <1>1, JobFacts, ReadRowsType
      <4>2. \A r \in ReadRows(job[m]) : InScope(r, job[m].scope)
        BY <2>3 DEF ReadRows, RowsIn
      <4> QED
        BY <4>1, <4>2, StampKeeps DEF Own
    <3>2. Own(m) \subseteq Row
      BY <1>1, OwnType
    <3> QED
      BY <2>1, <2>2, <2>4, <3>1, <3>2 DEF StagingView
  <2>6. InWindow(l)' = InWindow(l)
    <3>1. fact \subseteq Tuple /\ tx[m].factIns \subseteq Tuple
      BY DEF IInv, TypeOK, Transaction
    <3>2. fact' \subseteq Tuple
      BY <2>1, <3>1 DEF Merged
    <3>3. \A f : ~InScope(f.row, job[m].scope) => (f \in fact' <=> f \in fact)
      BY <2>1, <2>2, MergedRows
    <3>4. \A f \in fact \cup fact' : InScope(f.row, job[l].scope) => (f \in fact' <=> f \in fact)
      BY <2>4, <3>1, <3>2, <3>3 DEF Tuple
    <3> QED
      BY <2>1, <3>4 DEF InWindow
  <2> QED
    BY <1>2, <2>1, <2>5, <2>6 DEF Undisturbed
<1> QED
  BY <1>3, <1>4

\* The invariant of loads that keep apart.
LEMMA NextStaged ==
    ASSUME Apart, IInv, AllStaged, [Next]_vars
    PROVE  AllStaged'
<1>1. CASE UNCHANGED vars
  <2>1. UNCHANGED <<fact, staging, dims, runs, pc, job, entry, tx>>
    BY <1>1 DEF vars
  <2>2. ASSUME NEW l \in Loaders PROVE Staged(l)'
    <3>1. Undisturbed(l)
      BY <2>1 DEF Undisturbed, InWindow
    <3>2. CASE pc[l] \in AtRest
      BY <2>1, <3>2 DEF Staged, FactTx, AtRest
    <3>3. CASE pc[l] \notin AtRest
      BY <2>1, <3>1, <3>3, UndisturbedStaged DEF AllStaged
    <3> QED
      BY <3>2, <3>3
  <2> QED
    BY <2>2 DEF AllStaged
<1>2. ASSUME NEW m \in Loaders, Command(m) \/ Step(m) \/ Fault(m) PROVE AllStaged'
  <2>1. ASSUME NEW l \in Loaders \ {m} PROVE Staged(l)'
    <3>1. /\ pc'[l] = pc[l] /\ job'[l] = job[l] /\ entry'[l] = entry[l] /\ tx'[l] = tx[l]
          /\ \A i \in DOMAIN runs : runs'[i].table = runs[i].table
          /\ \/ UNCHANGED database
             \/ \E acked \in BOOLEAN : Commit(m, acked) \/ UpsertDimension(m, acked)
      BY <1>2, Bystander
    <3>2. CASE pc[l] \in AtRest
      BY <3>1, <3>2 DEF Staged, FactTx, AtRest
    <3>3. CASE pc[l] \notin AtRest
      <4>1. ASSUME job[l].kind = "fact" PROVE Undisturbed(l)
        <5>1. CASE UNCHANGED database
          BY <3>1, <5>1 DEF Undisturbed, InWindow, database
        <5>2. CASE \E acked \in BOOLEAN : Commit(m, acked) \/ UpsertDimension(m, acked)
          BY <3>3, <4>1, <5>2, ApartUndisturbed
        <5> QED
          BY <3>1, <5>1, <5>2
      <4>2. Staged(l) /\ runs'[entry[l]].table = runs[entry[l]].table
        BY <3>1, <3>3, JobFacts DEF AllStaged
      <4> QED
        BY <3>1, <3>3, <4>1, <4>2, UndisturbedStaged
    <3> QED
      BY <3>2, <3>3
  <2>2. Staged(m)'
    <3> Staged(m)
      BY DEF AllStaged
    <3>1. CASE Command(m)
      <4>1. PICK j \in JobsOf[m] : Begin(m, j) \/ Refuse(m, j)
        BY <3>1 DEF Command
      <4>2. CASE Refuse(m, j)
        BY <4>2 DEF Refuse, Leave, IInv, TypeOK, Staged, FactTx, AtRest
      <4> QED
        BY <4>1, <4>2, BeginStaged
    <3>2. CASE StageFails(m) \/ UpsertDimensionFails(m) \/ Aborted(m) \/ StatementFails(m)
      BY <3>2, RollBackStaged DEF StageFails, UpsertDimensionFails, Aborted, StatementFails,
                                  InTx, FactTx
    <3>3. CASE FailRun(m) \/ CloseRaises(m) \/ Gate(m) \/ StartNextRaises(m) \/ Crash(m)
      <4>1. pc'[m] \in AtRest
        BY <3>3 DEF FailRun, CloseRaises, Gate, StartNextRaises, Crash, ExitError, Leave,
                    IInv, TypeOK, AtRest
      <4> QED
        BY <4>1 DEF Staged, FactTx, AtRest
    <3>4. CASE \E acked \in BOOLEAN : Commit(m, acked) \/ UpsertDimension(m, acked)
      BY <3>4, CommitStaged, DimensionStaged
    <3> QED
      BY <1>2, <3>1, <3>2, <3>3, <3>4, StageStaged, CheckStaged, DeleteStaged, PromoteStaged,
         UpsertStaged, DimensionStaged, FinishStaged DEF Step, Fault
  <2> QED
    BY <2>1, <2>2 DEF AllStaged
<1> QED
  BY <1>1, <1>2 DEF Next

\* At the start every loader is at rest.
LEMMA InitStaged == Init => AllStaged
BY DEF Init, AllStaged, Staged, FactTx, AtRest

\* Loads that keep apart count what they write: the rows _promote counted are the ones
\* its INSERT wrote, and never more than _staged_in_scope had counted.
THEOREM TallyIsTruthful == ASSUME Apart PROVE Spec => []TallyTruthful
<1>1. ASSUME IInv, AllStaged PROVE TallyTruthful
  <2> SUFFICES ASSUME NEW l \in Loaders, pc[l] = "upserted"
               PROVE  tx[l].inserted = Cardinality(tx[l].factIns) /\ tx[l].inserted <= tx[l].read
    BY DEF TallyTruthful
  <2>1. /\ tx[l].inserted = Cardinality(tx[l].factIns) /\ tx[l].read = Cardinality(Mine(l))
        /\ tx[l].inserted = Cardinality(RowsOf(tx[l].factIns))
        /\ Selected(l, RowsOf(tx[l].factIns))
    BY <1>1 DEF AllStaged, Staged, FactTx
  <2>2. RowsOf(tx[l].factIns) \subseteq Mine(l)
    BY <2>1, SelectedMine
  <2>3. IsFiniteSet(Mine(l))
    BY <1>1, OwnType DEF AtRest
  <2> QED
    BY <2>1, <2>2, <2>3, FS_Subset
<1>2. IInv /\ AllStaged /\ [Next]_vars => AllStaged'
  BY NextStaged
<1> QED
  BY <1>1, <1>2, InitIInv, NextIInv, InitStaged, PTL DEF Spec

\* EXIT_OK of a load of the fact means its window is complete: with every row the
\* manifest declares, for a full load, or every row of the export's window
\* (assert_fact_coverage), if loads keep apart.
THEOREM ExitOkIsLanded == ASSUME Apart PROVE Spec => ExitOkMeansLanded
<1> DEFINE landed(l) ==
       Cardinality(RowsIn({f.row : f \in fact}, job[l].scope)) =
         IF IsFull(job[l].scope) THEN job[l].export.total
                                 ELSE Cardinality(RowsIn(job[l].export.rows, job[l].scope))
<1>1. ASSUME IInv, AllStaged, NEW l \in Loaders, Gate(l), job[l].kind = "fact", exit'[l] = "ok"
      PROVE  Declared(job[l].export, job[l].scope) /\ landed(l)
  <2>1. pc[l] = "closed" /\ FactCovered(job[l], tx[l].read, tx[l].inserted)
    BY <1>1 DEF Gate, Leave, Covered, IInv, TypeOK
  <2>2. tx[l].read = Cardinality(Mine(l)) /\ tx[l].inserted = Cardinality(RowsOf(InWindow(l)))
    BY <1>1, <2>1 DEF AllStaged, Staged
  <2>3. RowsOf(InWindow(l)) = RowsIn({f.row : f \in fact}, job[l].scope)
    BY DEF RowsOf, InWindow, RowsIn
  <2>4. Cardinality(Mine(l)) = Cardinality(RowsIn(job[l].export.rows, job[l].scope))
    BY <1>1, <2>1, MineIsWindow DEF AtRest
  <2>5. landed(l)
    BY <2>1, <2>2, <2>3, <2>4 DEF FactCovered, OnDisk
  <2>6. Declared(job[l].export, job[l].scope)
    <3>1. /\ job[l].scope.start \in Dates \cup {Null} /\ job[l].scope.end \in Dates \cup {Null}
          /\ job[l].export.first \in Int /\ job[l].export.last \in Int /\ Dates \subseteq Int
      BY <1>1, <2>1, JobFacts, RowsAssumption DEF Job, Export, Scope, AtRest
    <3>2. PICK sc, x : sc = job[l].scope /\ x = job[l].export
      OBVIOUS
    <3>3. /\ sc.start # Null => sc.start >= x.first /\ sc.start \in Int
          /\ sc.end # Null => sc.end <= x.last + 1 /\ sc.end \in Int
          /\ x.first \in Int /\ x.last \in Int
      BY <2>1, <3>1, <3>2 DEF FactCovered, IsFull
    <3>4. ASSUME NEW d \in Dates
          PROVE  /\ sc.start # Null /\ d >= sc.start => d >= x.first
                 /\ sc.end # Null /\ d < sc.end => d <= x.last
      <4>1. d \in Int
        BY <3>1
      <4>2. sc.start # Null /\ d >= sc.start => d >= x.first
        BY <3>3, <4>1
      <4>3. sc.end # Null /\ d < sc.end => d <= x.last
        BY <3>3, <4>1
      <4> QED
        BY <4>2, <4>3
    <3>5. Declared(x, sc)
      BY <3>4, Zenon DEF Declared
    <3> QED
      BY <3>2, <3>5
  <2> QED
    BY <2>5, <2>6
<1>2. IInv /\ AllStaged /\ [Next]_vars => AllStaged'
  BY NextStaged
<1>3. IInv /\ AllStaged =>
        [\A l \in Loaders : Gate(l) /\ job[l].kind = "fact" /\ exit'[l] = "ok" =>
                               /\ Declared(job[l].export, job[l].scope)
                               /\ landed(l)]_vars
  <2> SUFFICES ASSUME IInv, AllStaged, NEW l \in Loaders,
                      Gate(l), job[l].kind = "fact", exit'[l] = "ok"
               PROVE  Declared(job[l].export, job[l].scope) /\ landed(l)
    OBVIOUS
  <2> QED
    BY <1>1
<1> QED
  BY <1>2, <1>3, InitIInv, NextIInv, InitStaged, PTL DEF Spec, ExitOkMeansLanded

-----------------------------------------------------------------------------
(* The loader implements WindowLoad                                        *)

\* WindowLoad's rules are the loader's.
LEMMA PromiseRows ==
    /\ \A S, sc : Promise!RowsIn(S, sc) = RowsIn(S, sc)
    /\ \A S, d : Promise!ValidRows(S, d) = ValidRows(S, d)
    /\ Promise!Dims = Dims
<1>1. \A S, sc : Promise!RowsIn(S, sc) = RowsIn(S, sc)
  BY DEF Promise!RowsIn, RowsIn, Promise!InScope, InScope
<1>2. \A r : Promise!HasNullKey(r) <=> HasNullKey(r)
  BY DEF Promise!HasNullKey, HasNullKey
<1>3. Promise!Dims = Dims
  BY DEF Promise!Dims, Dims
<1>4. \A r, k : Promise!KeyIn(r, k) = KeyIn(r, k)
  BY DEF Promise!KeyIn, KeyIn
<1>5. \A r, d : Promise!IsOrphan(r, d) <=> IsOrphan(r, d)
  BY <1>3, <1>4 DEF Promise!IsOrphan, IsOrphan
<1>6. \A r, S : Promise!IsDuplicated(r, S) <=> IsDuplicated(r, S)
  BY <1>2 DEF Promise!IsDuplicated, IsDuplicated, Promise!Grain, Grain
<1>7. \A r, S, d : Promise!Passes(r, S, d) <=> Passes(r, S, d)
  BY <1>2, <1>5, <1>6 DEF Promise!Passes, Passes
<1>8. \A S, d : Promise!ValidRows(S, d) = ValidRows(S, d)
  BY <1>7 DEF Promise!ValidRows, ValidRows
<1> QED
  BY <1>1, <1>3, <1>8

\* The audit as WindowLoad shows it.
Shown == [i \in DOMAIN runs |-> [status |-> runs[i].status, fate |-> runs[i].fate]]

\* Opening an entry is WOpen.
LEMMA OpenShown ==
    ASSUME IInv, NEW l, NEW table, NEW next, StartRun(l, table, next), UNCHANGED database
    PROVE  Promise!WOpen
<1>1. runs \in Seq(AuditEntry) /\ runs' = Append(runs, OpenEntry(table))
  BY DEF IInv, TypeOK, StartRun
<1> DEFINE new == [status |-> "running", fate |-> "pending"]
<1>2. Shown \in Seq({[status |-> e.status, fate |-> e.fate] : e \in AuditEntry})
      /\ Len(Shown) = Len(runs)
  BY <1>1 DEF Shown
<1>3. Shown' = Append(Shown, new)
  BY <1>1, <1>2 DEF Shown, OpenEntry
<1>4. {f.row : f \in fact}' = {f.row : f \in fact} /\ dims' = dims
  BY DEF database
<1> QED
  BY <1>3, <1>4 DEF Promise!WOpen, Shown

\* The fate of a load, as the audit shows it.
LEMMA FateShown ==
    ASSUME IInv, NEW l \in Loaders, pc[l] \in InTx, NEW acked \in BOOLEAN, Acked(l, acked)
    PROVE  /\ entry[l] \in DOMAIN Shown /\ Shown[entry[l]].status = "running"
           /\ Shown[entry[l]].fate = "pending"
           /\ \E fate \in {"landed", "unacked"} : Shown' = [Shown EXCEPT ![entry[l]].fate = fate]
<1> DEFINE e == entry[l]
           fate == IF acked THEN "landed" ELSE "unacked"
<1>1. /\ e \in DOMAIN runs /\ runs \in Seq(AuditEntry)
      /\ runs[e].status = "running" /\ runs[e].fate = "pending"
      /\ runs' = [runs EXCEPT ![e].fate = fate]
  BY DEF IInv, TypeOK, Audit, Held, Acked, Holding, InTx, FactTx, AtRest
<1>2. Shown' = [Shown EXCEPT ![e].fate = fate]
  <2> HIDE DEF fate, e
  <2>1. runs[e] \in AuditEntry /\ DOMAIN runs' = DOMAIN runs
    BY <1>1
  <2>2. /\ runs'[e].fate = fate /\ runs'[e].status = runs[e].status
        /\ \A i \in DOMAIN runs \ {e} : runs'[i] = runs[i]
    BY <1>1, <2>1 DEF AuditEntry
  <2>3. /\ Shown' = [i \in DOMAIN runs |-> [status |-> runs'[i].status, fate |-> runs'[i].fate]]
        /\ Shown = [i \in DOMAIN runs |-> [status |-> runs[i].status, fate |-> runs[i].fate]]
    BY <2>1 DEF Shown
  <2> DEFINE other == [Shown EXCEPT ![e].fate = fate]
  <2>4. ASSUME NEW i \in DOMAIN runs PROVE Shown'[i] = other[i]
    <3>1. CASE i = e
      <4>1. other[e] = [status |-> runs[e].status, fate |-> fate]
        BY <1>1, <2>3
      <4> QED
        BY <2>2, <2>3, <3>1, <4>1
    <3>2. CASE i # e
      BY <2>2, <2>3, <3>2
    <3> QED
      BY <3>1, <3>2
  <2>5. other = [i \in DOMAIN runs |-> other[i]]
    BY <2>3
  <2> HIDE DEF other
  <2> QED
    BY <2>3, <2>4, <2>5 DEF other
<1>3. /\ e \in DOMAIN Shown /\ Shown[e].status = "running" /\ Shown[e].fate = "pending"
      /\ fate \in {"landed", "unacked"}
  BY <1>1 DEF Shown
<1> HIDE DEF fate
<1> QED
  BY <1>2, <1>3

\* The steps of WNext, each with its witnesses.
LEMMA PromiseSteps ==
    ASSUME NEW i \in DOMAIN Shown
    PROVE  /\ Promise!WClose(i) => Promise!WNext
           /\ \A fate \in {"landed", "unacked"} :
                 /\ \A l \in Loaders : \A j \in JobsOf[l] :
                       j.kind = "fact" /\ Promise!WReplace(i, j, fate) => Promise!WNext
                 /\ \A l \in Loaders : \A j \in JobsOf[l], d \in Dims :
                       Promise!WGrow(i, j.export, d, fate) => Promise!WNext
<1>1. i \in DOMAIN [k \in DOMAIN runs |-> [status |-> runs[k].status, fate |-> runs[k].fate]]
  BY DEF Shown
<1>2. Promise!WClose(i) => Promise!WNext
  BY <1>1 DEF Promise!WNext
<1>3. ASSUME NEW fate \in {"landed", "unacked"}, NEW l \in Loaders, NEW j \in JobsOf[l],
             j.kind = "fact", Promise!WReplace(i, j, fate)
      PROVE  Promise!WNext
  <2>1. j \in {k \in UNION {JobsOf[m] : m \in Loaders} : k.kind = "fact"}
    BY <1>3
  <2> QED
    BY <1>1, <1>3, <2>1 DEF Promise!WNext
<1>4. ASSUME NEW fate \in {"landed", "unacked"}, NEW l \in Loaders, NEW j \in JobsOf[l],
             NEW d \in Dims, Promise!WGrow(i, j.export, d, fate)
      PROVE  Promise!WNext
  <2>1. j.export \in {k.export : k \in UNION {JobsOf[m] : m \in Loaders}} /\ d \in Promise!Dims
    BY <1>4, PromiseRows
  <2> QED
    BY <1>1, <1>4, <2>1 DEF Promise!WNext
<1> QED
  BY <1>2, <1>3, <1>4

\* A commit is WReplace, of the load's window by the clean rows of its export.
LEMMA CommitReplaces ==
    ASSUME Apart, IInv, AllStaged, NEW l \in Loaders, NEW acked \in BOOLEAN, Commit(l, acked)
    PROVE  Promise!WNext
<1>0. PICK i, j : i = entry[l] /\ j = job[l]
  OBVIOUS
<1> DEFINE window == RowsIn(j.export.rows, j.scope)
           stamp(S) == {[r EXCEPT !.run = i] : r \in S}
<1>1. /\ pc[l] = "upserted" /\ pc[l] \in InTx /\ pc[l] \notin AtRest
      /\ fact' = Merged(tx[l]) /\ UNCHANGED dims /\ Acked(l, acked) /\ Staged(l)
  BY DEF Commit, InTx, FactTx, AtRest, AllStaged
<1>2. /\ j \in JobsOf[l] /\ j.kind = "fact" /\ i \in Nat
      /\ window \subseteq Row /\ \A r \in window : r.run = 0
  <2>1. j.kind = "fact"
    BY <1>0, <1>1 DEF Staged, FactTx, AtRest, IInv, Audit, Held, Table
  <2>2. window \subseteq j.export.rows
    BY DEF RowsIn
  <2> QED
    BY <1>0, <1>1, <2>1, <2>2, JobFacts DEF Job, Export, ExportFits
<1>3. Selected(l, RowsOf(tx[l].factIns)) /\ Mine(l) = stamp(window)
  BY <1>0, <1>1, MineIsWindow DEF Staged
<1>4. PICK ds \in SUBSET dims["dim_date"], ss \in SUBSET dims["dim_station"],
           rs \in SUBSET dims["dim_relation"] :
        RowsOf(tx[l].factIns) = ValidRows(Mine(l), [dim_date |-> ds, dim_station |-> ss,
                                                    dim_relation |-> rs])
  BY <1>3 DEF Selected
<1> DEFINE clean == ValidRows(window, [dim_date |-> ds, dim_station |-> ss,
                                       dim_relation |-> rs])
<1>5. RowsOf(tx[l].factIns) = stamp(clean)
  BY <1>2, <1>3, <1>4, ValidStamped
<1>6. j.policy = "fail" => clean = window
  <2> SUFFICES ASSUME j.policy = "fail" PROVE window \subseteq clean
    BY DEF ValidRows
  <2>1. stamp(clean) = stamp(window)
    BY <1>0, <1>3, <1>5 DEF Selected
  <2>2. ASSUME NEW r \in window PROVE r \in clean
    <3>1. PICK q \in clean : [r EXCEPT !.run = i] = [q EXCEPT !.run = i]
      BY <2>1
    <3>2. q \in window
      BY <3>1 DEF ValidRows
    <3>3. r \in Row /\ q \in Row /\ r.run = q.run
      BY <1>2, <3>2
    <3> QED
      BY <3>1, <3>3, StampInjective
  <2> QED
    BY <2>2
<1>7. RowsOf(fact)' = (RowsOf(fact) \ RowsIn(RowsOf(fact), j.scope)) \cup stamp(clean)
  <2>1. RowsOf(Merged(tx[l]))
          = (RowsOf(fact) \ RowsIn(RowsOf(fact), j.scope)) \cup RowsOf(tx[l].factIns)
    BY <1>0, <1>1, MergedRows
  <2>2. RowsOf(fact)' = RowsOf(Merged(tx[l]))
    BY <1>1 DEF RowsOf
  <2> QED
    BY <1>5, <2>1, <2>2
<1>8. PICK fate \in {"landed", "unacked"} : Shown' = [Shown EXCEPT ![i].fate = fate]
  BY <1>0, <1>1, FateShown
<1>9. i \in DOMAIN Shown /\ Shown[i].status = "running" /\ Shown[i].fate = "pending"
  BY <1>0, <1>1, FateShown
<1> HIDE DEF clean, window
<1>10. Promise!WReplace(i, j, fate)
  <2>1. Promise!Unlanded(i) /\ Promise!Lands(i, fate)
    BY <1>8, <1>9 DEF Promise!Unlanded, Promise!Lands, Shown
  <2>2. /\ Promise!RowsIn(j.export.rows, j.scope) = window
        /\ Promise!RowsIn({f.row : f \in fact}, j.scope) = RowsIn(RowsOf(fact), j.scope)
        /\ Promise!ValidRows(window, [dim_date |-> ds, dim_station |-> ss,
                                      dim_relation |-> rs]) = clean
        /\ Promise!Stamped(i, clean) = stamp(clean)
    BY PromiseRows DEF window, clean, RowsOf, Promise!Stamped
  <2>3. {f.row : f \in fact}' =
          ({f.row : f \in fact} \ Promise!RowsIn({f.row : f \in fact}, j.scope))
             \cup Promise!Stamped(i, clean)
    BY <1>7, <2>2 DEF RowsOf
  <2> QED
    BY <1>1, <1>6, <2>1, <2>2, <2>3 DEF Promise!WReplace
<1> QED
  BY <1>0, <1>2, <1>9, <1>10, PromiseSteps

\* A dimension's upsert is WGrow.
LEMMA DimensionGrows ==
    ASSUME IInv, NEW l \in Loaders, NEW acked \in BOOLEAN, UpsertDimension(l, acked)
    PROVE  Promise!WNext
<1>1. PICK i, j, d : i = entry[l] /\ j = job[l] /\ d = Table(l)
  OBVIOUS
<1>2. /\ pc[l] \in InTx /\ pc[l] \notin AtRest /\ Acked(l, acked) /\ d \in Dims
      /\ UNCHANGED fact /\ dims' = [dims EXCEPT ![d] = @ \cup j.export.dims[d]]
  BY <1>1 DEF UpsertDimension, InTx, AtRest, IInv, Audit, Held, Table
<1>3. j \in JobsOf[l]
  BY <1>1, <1>2, JobFacts
<1>4. PICK fate \in {"landed", "unacked"} : Shown' = [Shown EXCEPT ![i].fate = fate]
  BY <1>1, <1>2, FateShown
<1>5. i \in DOMAIN Shown /\ Shown[i].status = "running" /\ Shown[i].fate = "pending"
  BY <1>1, <1>2, FateShown
<1>6. Promise!Unlanded(i) /\ Promise!Lands(i, fate)
  BY <1>4, <1>5 DEF Promise!Unlanded, Promise!Lands, Shown
<1>7. {f.row : f \in fact}' = {f.row : f \in fact}
  BY <1>2
<1>8. Promise!WGrow(i, j.export, d, fate)
  BY <1>2, <1>6, <1>7 DEF Promise!WGrow
<1> QED
  BY <1>2, <1>3, <1>5, <1>8, PromiseSteps

\* Closing an entry is WClose.
LEMMA CloseShown ==
    ASSUME IInv, NEW l \in Loaders, pc[l] \in {"committed", "failing"}, CloseEntry(l),
           UNCHANGED database
    PROVE  Promise!WNext
<1>1. PICK i : i = entry[l]
  OBVIOUS
<1>2. PICK status : status = IF runs[i].fate = "landed" THEN "succeeded" ELSE "failed"
  OBVIOUS
<1>3. /\ i \in DOMAIN runs /\ runs \in Seq(AuditEntry) /\ runs[i].status = "running"
      /\ pc[l] = "committed" <=> runs[i].fate = "landed"
  BY <1>1 DEF IInv, TypeOK, Audit, Held, Holding, AtRest
<1>4. runs[i] \in AuditEntry /\ runs' = [runs EXCEPT ![i] = Closed(l)]
  BY <1>1, <1>3 DEF CloseEntry
<1>5. Closed(l).status = status /\ Closed(l).fate = runs[i].fate
  BY <1>1, <1>2, <1>3, <1>4 DEF Closed, AuditEntry
<1>6. /\ DOMAIN runs' = DOMAIN runs /\ runs'[i].status = status /\ runs'[i].fate = runs[i].fate
      /\ \A k \in DOMAIN runs \ {i} : runs'[k] = runs[k]
  BY <1>3, <1>4, <1>5
<1>7. /\ Shown' = [k \in DOMAIN runs |-> [status |-> runs'[k].status, fate |-> runs'[k].fate]]
      /\ Shown = [k \in DOMAIN runs |-> [status |-> runs[k].status, fate |-> runs[k].fate]]
  BY <1>6 DEF Shown
<1>8. Shown' = [Shown EXCEPT ![i].status = status]
  <2> DEFINE other == [Shown EXCEPT ![i].status = status]
  <2>1. ASSUME NEW k \in DOMAIN runs PROVE Shown'[k] = other[k]
    <3>1. CASE k = i
      <4>1. other[i] = [status |-> status, fate |-> runs[i].fate]
        BY <1>3, <1>7
      <4> QED
        BY <1>6, <1>7, <3>1, <4>1
    <3>2. CASE k # i
      BY <1>6, <1>7, <3>2
    <3> QED
      BY <3>1, <3>2
  <2>2. other = [k \in DOMAIN runs |-> other[k]]
    BY <1>7
  <2> HIDE DEF other
  <2> QED
    BY <1>7, <2>1, <2>2 DEF other
<1>9. {f.row : f \in fact}' = {f.row : f \in fact} /\ UNCHANGED dims
  BY DEF database
<1>10. i \in DOMAIN Shown /\ Shown[i].status = "running" /\ Shown[i].fate = runs[i].fate
  BY <1>3, <1>7
<1>11. Promise!WClose(i)
  BY <1>2, <1>8, <1>9, <1>10 DEF Promise!WClose, Shown
<1> QED
  BY <1>10, <1>11, PromiseSteps

\* Every step of the loaders is a step of WindowLoad or none.
LEMMA NextPromise ==
    ASSUME Apart, IInv, AllStaged, [Next]_vars
    PROVE  [Promise!WNext]_(Promise!wvars)
<1>1. ASSUME UNCHANGED <<fact, dims, runs>> PROVE UNCHANGED Promise!wvars
  BY <1>1 DEF Promise!wvars
<1>2. ASSUME NEW l \in Loaders, Command(l) \/ Step(l) \/ Fault(l)
      PROVE  Promise!WNext \/ UNCHANGED <<fact, dims, runs>>
  <2>1. CASE Command(l)
    <3>1. PICK j \in JobsOf[l] : Begin(l, j) \/ Refuse(l, j)
      BY <2>1 DEF Command
    <3>2. CASE Begin(l, j)
      BY <3>2, OpenShown DEF Begin, Promise!WNext
    <3>3. CASE Refuse(l, j)
      BY <3>3 DEF Refuse, database
    <3> QED
      BY <3>1, <3>2, <3>3
  <2>2. CASE \/ BeginClearing(l) \/ ClearRow(l) \/ Stage(l) \/ StageFails(l)
             \/ CountStaged(l) \/ Validate(l)
             \/ BeginDelete(l) \/ DeleteRow(l) \/ DeleteScope(l)
             \/ CountPromoted(l) \/ BeginUpsert(l)
             \/ UpsertRow(l) \/ Upsert(l) \/ UpsertDimensionFails(l) \/ Aborted(l) \/ StatementFails(l)
    <3>1. PICK next, t : TxStep(l, next, t)
      BY <2>2, FactStep
    <3> QED
      BY <3>1 DEF TxStep, database
  <2>3. CASE \E acked \in BOOLEAN : Commit(l, acked) \/ UpsertDimension(l, acked)
    BY <2>3, CommitReplaces, DimensionGrows
  <2>4. CASE FinishRun(l) \/ FailRun(l) \/ CloseRaises(l)
    <3>1. /\ pc[l] \in {"committed", "failing"} /\ UNCHANGED database
          /\ CloseEntry(l) \/ UNCHANGED runs
      BY <2>4 DEF FinishRun, FailRun, CloseRaises, ExitError
    <3>2. CASE CloseEntry(l)
      BY <3>1, <3>2, CloseShown
    <3>3. CASE UNCHANGED runs
      BY <3>1, <3>3 DEF database
    <3> QED
      BY <3>1, <3>2, <3>3
  <2>5. CASE Gate(l) \/ StartNextRaises(l) \/ Crash(l)
    BY <2>5 DEF Gate, StartNextRaises, Crash, ExitError, database
  <2>6. CASE StartNextDimension(l)
    BY <2>6, OpenShown DEF StartNextDimension, Promise!WNext
  <2> QED
    BY <1>2, <2>1, <2>2, <2>3, <2>4, <2>5, <2>6, Zenon DEF Step, Fault
<1>3. CASE UNCHANGED vars
  BY <1>1, <1>3 DEF vars
<1>4. CASE Next
  BY <1>1, <1>2, <1>4 DEF Next
<1> QED
  BY <1>3, <1>4

\* Loads that keep apart implement WindowLoad: the fact changes only by replacing one
\* window, in one step, by the clean rows an export holds for it; a dimension only grows;
\* an audit entry is closed once and tells what became of its load.
THEOREM PromiseIsKept == ASSUME Apart PROVE Spec => KeepsPromise
<1>1. Init => Promise!WInit
  BY DEF Init, Promise!WInit
<1>2. IInv /\ AllStaged /\ [Next]_vars => [Promise!WNext]_(Promise!wvars)
  BY NextPromise
<1>3. IInv /\ AllStaged /\ [Next]_vars => AllStaged'
  BY NextStaged
<1> QED
  BY <1>1, <1>2, <1>3, InitIInv, NextIInv, InitStaged, PTL DEF Spec, KeepsPromise, Promise!WSpec

=============================================================================
