------------------------ MODULE KnowledgeBaseProofs ------------------------
(***************************************************************************)
(* Proofs about KnowledgeBase, for every set of builders, retrievers,      *)
(* corpora, models and positions. Whatever interleaves: the types, that a  *)
(* vector fits its column and its label, and that a search of the internal *)
(* documents fills up. With one builder at a time: that a vector is of its *)
(* text, that a build which succeeds is complete, that nothing is paid for *)
(* twice, and the refinement of DocIndex.                                  *)
(***************************************************************************)
EXTENDS KnowledgeBase, FiniteSetTheorems, WellFoundedInduction, TLAPS

-----------------------------------------------------------------------------
(* The inductive invariants                                                *)

\* A transaction that has touched the table keeps it from being dropped.
TableHeld == \A b \in Builders : InSync(b) => width # 0

IInv == TypeOK /\ VectorsFit /\ TableHeld

\* One builder at a time.
Lone == \A b, c \in Builders : pc[b] # "idle" /\ pc[c] # "idle" => b = c

\* Ids are not shared, and the sequence is past them all.
Ids ==
    /\ \A p, q \in DOMAIN rows : rows[p].id = rows[q].id => p = q
    /\ \A p \in DOMAIN rows : rows[p].id < nextId

\* The ids of the rows that the corpus of builder b has no chunk for.
Absent(b) == IdsAt(rows, DOMAIN rows \ Places(job[b].chunks))

\* Past sync_chunks the table holds the corpus.
Holds(b) ==
    /\ DOMAIN rows = Places(job[b].chunks)
    /\ \A c \in job[b].chunks : rows[c.pos].text = c.text

\* A chunk that is left to embed is a row as it stands.
Faithful(b, c) ==
    /\ c.pos \in DOMAIN rows
    /\ rows[c.pos].id = c.id
    /\ rows[c.pos].text = c.text
    /\ ~job[b].force => Lacks(rows[c.pos], job[b].model)

\* A row has the builder's vector unless it is left to embed.
Covered(b, p) ==
    \/ rows[p].vector = [text |-> rows[p].text, model |-> job[b].model]
    \/ \E c \in todo[b] : c.pos = p

Progress(b) ==
    /\ pc[b] = "delete" => seen[b] = Absent(b)
    /\ pc[b] = "upsert" => deleted[b] = Absent(b)
    /\ pc[b] \notin {"idle", "sync"} => ~Duplicated(job[b].chunks)
    /\ pc[b] \in {"pending", "embed", "save", "stats"} => Holds(b)
    /\ \A c \in todo[b] : Faithful(b, c)
    /\ pc[b] \in {"embed", "save", "stats"} => \A p \in DOMAIN rows : Covered(b, p)

SInv == Lone /\ Ids /\ VectorOfItsText /\ \A b \in Builders : Progress(b)

-----------------------------------------------------------------------------
(* Lemmas on the operators                                                 *)

\* A set of positions is finite.
LEMMA PositionsFinite ==
    ASSUME NEW P \in SUBSET Positions PROVE IsFiniteSet(P) /\ P \subseteq Nat
BY FS_Subset, KbAssumption

\* A rank is a natural number, and in a set smaller than the set.
LEMMA RankType ==
    ASSUME NEW P \in SUBSET Positions, NEW p \in Positions
    PROVE  /\ Rank(P, p) \in Nat
           /\ p \in P => Rank(P, p) < Cardinality(P)
<1> DEFINE B == {q \in P : q < p}
<1>1. IsFiniteSet(P) /\ P \subseteq Nat
  BY PositionsFinite
<1>2. /\ IsFiniteSet(B) /\ Cardinality(B) \in Nat /\ Cardinality(P) \in Nat
      /\ Cardinality(B) <= Cardinality(P)
      /\ Cardinality(P) = Cardinality(B) => P = B
  BY <1>1, FS_Subset, FS_CardinalityType
<1>3. p \in P => P # B
  BY <1>1
<1> QED
  BY <1>2, <1>3 DEF Rank

\* Ranks grow with the positions of the set.
LEMMA RankMonotone ==
    ASSUME NEW P \in SUBSET Positions, NEW p \in P, NEW q \in Positions, p < q
    PROVE  Rank(P, p) < Rank(P, q)
<1> DEFINE B(x) == {r \in P : r < x}
<1>1. IsFiniteSet(P) /\ P \subseteq Nat /\ p \in Nat /\ q \in Nat
  BY PositionsFinite, KbAssumption
<1>2. B(p) \in SUBSET B(q) /\ p \in B(q) /\ p \notin B(p)
  <2>1. \A r \in P : r < p => r < q
    BY <1>1
  <2>2. p < q /\ ~(p < p)
    BY <1>1
  <2> QED
    BY <2>1, <2>2
<1>3. IsFiniteSet(B(q))
  BY <1>1, FS_Subset
<1>4. IsFiniteSet(B(p)) /\ Cardinality(B(p)) <= Cardinality(B(q))
      /\ Cardinality(B(p)) # Cardinality(B(q))
  BY <1>2, <1>3, FS_Subset
<1>5. Cardinality(B(p)) \in Nat /\ Cardinality(B(q)) \in Nat
  BY <1>3, <1>4, FS_CardinalityType
<1> QED
  BY <1>4, <1>5 DEF Rank

\* Two positions of a set have different ranks.
LEMMA RankInjective ==
    ASSUME NEW P \in SUBSET Positions, NEW p \in P, NEW q \in P, Rank(P, p) = Rank(P, q)
    PROVE  p = q
<1>1. p \in Nat /\ q \in Nat /\ p \in Positions /\ q \in Positions
  BY KbAssumption
<1>2. Rank(P, p) \in Nat /\ Rank(P, q) \in Nat
  BY <1>1, RankType
<1>3. CASE p < q
  BY <1>1, <1>2, <1>3, RankMonotone
<1>4. CASE q < p
  BY <1>1, <1>2, <1>4, RankMonotone
<1> QED
  BY <1>1, <1>3, <1>4

\* Fewer than n+1 positions have a rank below n.
LEMMA RankBounds ==
    ASSUME NEW P \in SUBSET Positions, NEW Q \in SUBSET P, NEW n \in Nat \ {0},
           \A p \in Q : Rank(P, p) < n
    PROVE  Cardinality(Q) <= n
<1> DEFINE T == 0..(n - 1)
           f == [p \in Q |-> Rank(P, p)]
<1>1. IsFiniteSet(Q) /\ Cardinality(Q) \in Nat
  BY PositionsFinite, FS_CardinalityType
<1>2. IsFiniteSet(T) /\ Cardinality(T) = n
  BY FS_Interval
<1>3. f \in [Q -> T]
  BY RankType
<1>4. \A p, q \in Q : f[p] = f[q] => p = q
  BY RankInjective
<1>5. ~(Cardinality(T) < Cardinality(Q))
  <2> HIDE DEF f, T
  <2> QED
    BY <1>1, <1>2, <1>3, <1>4, FS_PigeonHole
<1> QED
  BY <1>1, <1>2, <1>5

\* The positions of a set of chunks, and the text at one of them.
LEMMA TextAtType ==
    ASSUME NEW C \in SUBSET Chunk, NEW p \in Places(C)
    PROVE  /\ TextAt(C, p) \in Texts
           /\ p \in Positions
           /\ \E c \in C : c.pos = p /\ c.text = TextAt(C, p)
BY DEF Chunk, Places, TextAt

\* Where no position is claimed twice, a chunk's text is the text at its position.
LEMMA TextAtUnique ==
    ASSUME NEW C \in SUBSET Chunk, NEW c \in C, ~Duplicated(C)
    PROVE  c.pos \in Places(C) /\ TextAt(C, c.pos) = c.text
BY DEF Places, TextAt, Duplicated

\* An id the INSERT assigns is past the sequence and within its new bounds.
LEMMA NewIdType ==
    ASSUME NEW C \in SUBSET Chunk, NEW next \in Nat, NEW p \in Places(C)
    PROVE  /\ NewId(C, next, p) \in Nat
           /\ next <= NewId(C, next, p)
           /\ NewId(C, next, p) < next + Cardinality(Places(C))
           /\ Cardinality(Places(C)) \in Nat
<1>1. Places(C) \in SUBSET Positions
  BY DEF Places, Chunk
<1>2. IsFiniteSet(Places(C)) /\ Cardinality(Places(C)) \in Nat
  BY <1>1, PositionsFinite, FS_CardinalityType
<1> QED
  BY <1>1, <1>2, RankType DEF NewId

\* The chunks of a corpus have a number.
LEMMA PlacesCount ==
    ASSUME NEW C \in SUBSET Chunk PROVE Cardinality(Places(C)) \in Nat
<1>1. Places(C) \in SUBSET Positions
  BY DEF Places, Chunk
<1> QED
  BY <1>1, PositionsFinite, FS_CardinalityType

\* Deleting rows, upserting a corpus and writing a batch leave a table a table.
LEMMA WithoutTable ==
    ASSUME NEW r, IsTable(r), NEW ids PROVE IsTable(Without(r, ids))
BY DEF IsTable, Without

\* Upserting chunks leaves a table.
LEMMA UpsertedTable ==
    ASSUME NEW r, IsTable(r), NEW C \in SUBSET Chunk, NEW next \in Nat
    PROVE  IsTable(Upserted(r, C, next))
<1> DEFINE u == Upserted(r, C, next)
<1>1. DOMAIN u = DOMAIN r \cup Places(C)
  BY DEF Upserted
<1>2. DOMAIN u \subseteq Positions
  BY <1>1, TextAtType DEF IsTable
<1>3. ASSUME NEW p \in DOMAIN u PROVE u[p] \in Row
  <2>1. CASE p \notin Places(C)
    BY <1>1, <1>3, <2>1 DEF Upserted, IsTable
  <2>2. CASE p \in Places(C) /\ p \notin DOMAIN r
    <3>1. u[p] = Unembedded(NewId(C, next, p), TextAt(C, p))
      BY <2>2 DEF Upserted
    <3> QED
      BY <2>2, <3>1, NewIdType, TextAtType DEF Unembedded, Row
  <2>3. CASE p \in Places(C) /\ p \in DOMAIN r
    <3>1. r[p] \in Row
      BY <2>3 DEF IsTable
    <3>2. u[p] = r[p] \/ u[p] = Unembedded(r[p].id, TextAt(C, p))
      BY <2>3 DEF Upserted
    <3> QED
      BY <2>3, <3>1, <3>2, TextAtType DEF Unembedded, Row
  <2> QED
    BY <2>1, <2>2, <2>3
<1>4. u = [p \in DOMAIN u |-> u[p]]
  BY DEF Upserted
<1> QED
  BY <1>2, <1>3, <1>4 DEF IsTable

\* The value of a row after a batch.
LEMMA EmbeddedRow ==
    ASSUME NEW r, NEW batch \in SUBSET Stored, NEW m, NEW p \in DOMAIN r,
           NEW c \in batch, c.id = r[p].id
    PROVE  \E d \in batch : /\ d.id = r[p].id
                            /\ Embedded(r, batch, m)[p] = WithVector(r[p], d.text, m)
BY DEF Embedded

\* So does storing vectors.
LEMMA EmbeddedTable ==
    ASSUME NEW r, IsTable(r), NEW batch \in SUBSET Stored, NEW m \in Models
    PROVE  IsTable(Embedded(r, batch, m))
<1> DEFINE u == Embedded(r, batch, m)
<1>1. DOMAIN u = DOMAIN r /\ u = [p \in DOMAIN r |-> u[p]]
  BY DEF Embedded
<1>2. ASSUME NEW p \in DOMAIN r PROVE u[p] \in Row
  <2>1. r[p] \in Row
    BY DEF IsTable
  <2>2. CASE \E c \in batch : c.id = r[p].id
    <3>0. PICK c \in batch : c.id = r[p].id
      BY <2>2
    <3>1. PICK d \in batch : u[p] = WithVector(r[p], d.text, m)
      BY <3>0, EmbeddedRow
    <3>2. [text |-> d.text, model |-> m] \in Vector
      BY DEF Stored, Vector
    <3> QED
      BY <2>1, <3>1, <3>2 DEF Row, WithVector
  <2>3. CASE ~\E c \in batch : c.id = r[p].id
    BY <2>1, <2>3 DEF Embedded
  <2> QED
    BY <2>2, <2>3
<1> QED
  BY <1>1, <1>2 DEF IsTable

\* What is read as pending is a set of stored chunks.
LEMMA PendingType ==
    ASSUME NEW r, IsTable(r), NEW m, NEW force PROVE Pending(r, m, force) \in SUBSET Stored
BY DEF Pending, IsTable, Row, Stored

-----------------------------------------------------------------------------
(* Types, fitting vectors and the held table                               *)

\* There is no table and nobody builds.
LEMMA InitIInv == Init => IInv
<1> SUFFICES ASSUME Init PROVE IInv
  OBVIOUS
<1>1. NoAsker \in Asker
  BY DEF NoAsker, Asker
<1>2. IsTable(NoRows)
  BY DEF NoRows, IsTable
<1>3. VectorsFit
  BY DEF Init, NoRows, VectorsFit
<1>4. Null \notin Jobs
  BY BuildAssumption
<1>5. NoAsker.pc = "none"
  BY DEF NoAsker
<1>6. TypeOK
  BY <1>1, <1>2, <1>4, <1>5, BuildAssumption DEF Init, TypeOK, InSync, PCs
<1>7. TableHeld
  BY DEF Init, TableHeld, InSync
<1> QED
  BY <1>3, <1>6, <1>7 DEF IInv

\* Retrievers keep their type when the table changes.
LEMMA UnsteadyType ==
    ASSUME asker \in [Askers -> Asker], Unsteady,
           \A a \in Askers : asker[a].pc # "none" => asker[a].model \in Models
    PROVE  /\ asker' \in [Askers -> Asker]
           /\ \A a \in Askers : asker'[a].pc # "none" => asker'[a].model \in Models
<1>1. ASSUME NEW a \in Askers
      PROVE  /\ [asker[a] EXCEPT !.steady = FALSE] \in Asker
             /\ [asker[a] EXCEPT !.steady = FALSE].pc = asker[a].pc
             /\ [asker[a] EXCEPT !.steady = FALSE].model = asker[a].model
  BY DEF Asker
<1>2. /\ asker' = [a \in Askers |-> [asker[a] EXCEPT !.steady = FALSE]]
  BY DEF Unsteady
<1> QED
  BY <1>1, <1>2

\* Commands are counted up to their bound.
LEMMA CommandType ==
    ASSUME commands \in 0..MaxCommands, Command PROVE commands' \in 0..MaxCommands
BY BuildAssumption DEF Command

\* kb-init makes an empty table of its model's dimension, or finds one.
LEMMA KbInitIInv == ASSUME IInv, NEW m \in Models, KbInit(m) PROVE IInv'
<1>1. TypeOK'
  BY CommandType DEF IInv, TypeOK, KbInit, building, InSync
<1>2. VectorsFit'
  BY DEF IInv, TypeOK, KbInit, VectorsFit, NoRows
<1>3. TableHeld'
  <2>1. Width[m] # 0
    BY KbAssumption
  <2> QED
    BY <2>1 DEF KbInit, building, TableHeld, InSync
<1> QED
  BY <1>1, <1>2, <1>3 DEF IInv

\* kb-drop leaves no row.
LEMMA KbDropIInv == ASSUME IInv, KbDrop PROVE IInv'
<1>1. IsTable(NoRows)
  BY DEF NoRows, IsTable
<1>2. TypeOK'
  BY <1>1, CommandType, UnsteadyType DEF IInv, TypeOK, KbDrop, building, InSync
<1>3. VectorsFit'
  BY DEF KbDrop, VectorsFit, NoRows
<1>4. TableHeld'
  BY DEF KbDrop, building, TableHeld, InSync
<1> QED
  BY <1>2, <1>3, <1>4 DEF IInv

\* A step of a builder that leaves the table alone.
LEMMA QuietVectorsFit == ASSUME VectorsFit, UNCHANGED table PROVE VectorsFit'
BY DEF VectorsFit, table

\* A build begins, or is refused.
LEMMA BeginIInv ==
    ASSUME IInv, NEW b \in Builders, NEW j \in Jobs, Begin(b, j) \/ Refuse(b, j) PROVE IInv'
<1>1. Null \notin Jobs
  BY BuildAssumption
<1>2. CASE Begin(b, j)
  <2>1. TypeOK'
    BY <1>1, <1>2, CommandType DEF IInv, TypeOK, Begin, Goto, table, InSync, PCs
  <2>2. TableHeld'
    BY <1>2 DEF IInv, TypeOK, TableHeld, Begin, Goto, table, InSync
  <2> QED
    BY <1>2, <2>1, <2>2, QuietVectorsFit DEF IInv, Begin
<1>3. CASE Refuse(b, j)
  <2>1. TypeOK'
    BY <1>3, CommandType DEF IInv, TypeOK, Refuse, table, InSync
  <2>2. TableHeld'
    BY <1>3 DEF IInv, TableHeld, Refuse, table, InSync
  <2> QED
    BY <1>3, <2>1, <2>2, QuietVectorsFit DEF IInv, Refuse
<1> QED
  BY <1>2, <1>3

\* Ids are numbers.
LEMMA IdsAtType == ASSUME IsTable(rows), NEW P PROVE IdsAt(rows, P) \in SUBSET Nat
BY DEF IsTable, IdsAt, Row

\* A build looks for the rows to delete and waits for its locks.
LEMMA SyncIInv ==
    ASSUME IInv, NEW b \in Builders, BeginDelete(b) \/ Delete(b) PROVE IInv'
<1>1. CASE BeginDelete(b)
  <2> DEFINE ids == IdsAt(rows, DOMAIN rows \ Places(job[b].chunks))
  <2>1. ids \in SUBSET Nat
    BY IdsAtType DEF IInv, TypeOK
  <2>2. TypeOK'
    <3> HIDE DEF ids
    <3>1. /\ pc[b] = "sync" /\ pc' = [pc EXCEPT ![b] = "delete"]
          /\ seen' = [seen EXCEPT ![b] = ids]
          /\ UNCHANGED <<table, job, deleted, todo, exit, asker, commands>>
      BY <1>1 DEF BeginDelete, Goto, ids
    <3> QED
      BY <2>1, <3>1 DEF IInv, TypeOK, table, InSync, PCs
  <2>3. TableHeld'
    BY <1>1 DEF IInv, TypeOK, TableHeld, BeginDelete, Goto, table, InSync
  <2> QED
    BY <1>1, <2>2, <2>3, QuietVectorsFit DEF IInv, BeginDelete
<1>2. CASE Delete(b)
  <2>1. TypeOK'
    BY <1>2 DEF IInv, TypeOK, Delete, Goto, table, InSync, PCs
  <2>2. TableHeld'
    BY <1>2 DEF IInv, TypeOK, TableHeld, Delete, Goto, table, InSync
  <2> QED
    BY <1>2, <2>1, <2>2, QuietVectorsFit DEF IInv, Delete
<1> QED
  BY <1>1, <1>2

\* The corpus of a build under way.
LEMMA JobType ==
    ASSUME TypeOK, NEW b \in Builders, pc[b] # "idle"
    PROVE  /\ job[b] \in Jobs /\ job[b].model \in Models /\ job[b].chunks \in SUBSET Chunk
           /\ job[b].force \in BOOLEAN
BY BuildAssumption DEF TypeOK, Job

\* A row of the upserted table is a kept row or has neither vector nor model.
LEMMA UpsertedRow ==
    ASSUME NEW r, NEW ids, NEW C, NEW next,
           NEW p \in DOMAIN Upserted(Without(r, ids), C, next)
    PROVE  LET u == Upserted(Without(r, ids), C, next)[p] IN
           \/ p \in DOMAIN r /\ u = r[p]
           \/ u.vector = Null /\ u.model = Null
BY DEF Upserted, Without, Unembedded

\* The rows the corpus no longer has go, and its chunks are upserted.
LEMMA UpsertIInv == ASSUME IInv, NEW b \in Builders, Upsert(b) PROVE IInv'
<1>1. job[b].chunks \in SUBSET Chunk
  BY JobType DEF IInv, Upsert
<1>2. IsTable(rows')
  BY <1>1, WithoutTable, UpsertedTable DEF IInv, TypeOK, Upsert
<1>3. nextId' \in Nat
  BY <1>1, PlacesCount DEF IInv, TypeOK, Upsert
<1>4. width # 0
  BY DEF IInv, TableHeld, Upsert, InSync
<1>5. TypeOK'
  <2>1. /\ asker' \in [Askers -> Asker]
        /\ \A a \in Askers : asker'[a].pc # "none" => asker'[a].model \in Models
    BY UnsteadyType DEF IInv, TypeOK, Upsert
  <2>2. /\ pc[b] = "upsert" /\ pc' = [pc EXCEPT ![b] = "pending"]
        /\ deleted' = [deleted EXCEPT ![b] = {}]
        /\ UNCHANGED <<width, job, seen, todo, exit, commands>>
    BY DEF Upsert, Goto
  <2> QED
    BY <1>2, <1>3, <1>4, <2>1, <2>2 DEF IInv, TypeOK, InSync, PCs
<1>6. VectorsFit'
  BY UpsertedRow DEF IInv, VectorsFit, Upsert
<1>7. TableHeld'
  BY DEF IInv, TypeOK, TableHeld, Upsert, Goto, InSync
<1> QED
  BY <1>5, <1>6, <1>7 DEF IInv

\* The rows without a vector by the model are read.
LEMMA ReadPendingIInv == ASSUME IInv, NEW b \in Builders, ReadPending(b) PROVE IInv'
<1>1. Pending(rows, job[b].model, job[b].force) \in SUBSET Stored
  BY PendingType DEF IInv, TypeOK
<1>2. TypeOK'
  BY <1>1 DEF IInv, TypeOK, ReadPending, NextBatch, Goto, table, InSync, PCs
<1>3. TableHeld'
  BY DEF IInv, TypeOK, TableHeld, ReadPending, NextBatch, Goto, table, InSync
<1> QED
  BY <1>2, <1>3, QuietVectorsFit DEF IInv, ReadPending

\* The provider embeds a batch.
LEMMA EmbedIInv == ASSUME IInv, NEW b \in Builders, Embed(b) PROVE IInv'
<1>1. TypeOK'
  BY DEF IInv, TypeOK, Embed, Goto, table, InSync, PCs
<1>2. TableHeld'
  BY DEF IInv, TypeOK, TableHeld, Embed, Goto, table, InSync
<1> QED
  BY <1>1, <1>2, QuietVectorsFit DEF IInv, Embed

\* The vectors of a batch are stored.
LEMMA SaveIInv == ASSUME IInv, NEW b \in Builders, Save(b) PROVE IInv'
<1>1. job[b].model \in Models /\ Batch(b) \in SUBSET Stored
  BY JobType DEF IInv, TypeOK, Save, Batch
<1>2. IsTable(rows')
  BY <1>1, EmbeddedTable DEF IInv, TypeOK, Save
<1>3. width # 0
  BY <1>1, KbAssumption DEF Save
<1>4. TypeOK'
  BY <1>2, <1>3, UnsteadyType DEF IInv, TypeOK, Save, NextBatch, Goto, InSync, PCs
<1>5. VectorsFit'
  <2> SUFFICES ASSUME NEW p \in DOMAIN rows'
               PROVE  IF rows'[p].vector = Null THEN rows'[p].model = Null
                      ELSE /\ rows'[p].vector.model = rows'[p].model
                           /\ Width[rows'[p].model] = width'
    BY DEF VectorsFit
  <2>1. p \in DOMAIN rows /\ width' = width /\ width = Width[job[b].model]
        /\ rows' = Embedded(rows, Batch(b), job[b].model) /\ rows[p] \in Row
    BY DEF Save, Embedded, IInv, TypeOK, IsTable
  <2>2. CASE \E c \in Batch(b) : c.id = rows[p].id
    <3>1. PICK c \in Batch(b) : rows'[p] = WithVector(rows[p], c.text, job[b].model)
      BY <1>1, <2>1, <2>2, EmbeddedRow
    <3>2. [text |-> c.text, model |-> job[b].model] \in Vector
      BY <1>1 DEF Stored, Vector
    <3> QED
      BY <2>1, <3>1, <3>2, KbAssumption DEF WithVector, Row
  <2>3. CASE ~\E c \in Batch(b) : c.id = rows[p].id
    BY <2>1, <2>3 DEF Embedded, IInv, VectorsFit
  <2> QED
    BY <2>2, <2>3
<1>6. TableHeld'
  BY DEF IInv, TypeOK, TableHeld, Save, NextBatch, Goto, InSync
<1> QED
  BY <1>4, <1>5, <1>6 DEF IInv

\* A build ends, however it does.
LEMMA LeaveIInv ==
    ASSUME IInv, NEW b \in Builders, NEW status \in {"ok", "error"}, Leave(b, status)
    PROVE  IInv'
<1>1. Null \notin Jobs
  BY BuildAssumption
<1>2. TypeOK'
  BY <1>1 DEF IInv, TypeOK, Leave, Goto, table, InSync, PCs
<1>3. TableHeld'
  BY DEF IInv, TypeOK, TableHeld, Leave, Goto, table, InSync
<1> QED
  BY <1>2, <1>3, QuietVectorsFit DEF IInv, Leave

\* What a search returns are passages.
LEMMA FoundType ==
    ASSUME IsTable(rows), NEW q, NEW excluded PROVE Found(q, excluded) \in SUBSET Passage
<1>1. Search(rows, q, excluded) \subseteq Searchable(rows)
  BY DEF Search, AboveFloor, Nearest
<1> QED
  BY <1>1 DEF IsTable, Row, Found, Searchable, Passage

\* A retriever is constructed or asked.
LEMMA AskerIInv ==
    ASSUME IInv, NEW a \in Askers,
           \/ \E m \in Models : Construct(a, m)
           \/ \E question \in Questions : Ask(a, question)
           \/ AskInternal(a)
    PROVE  IInv'
<1>0. asker \in [Askers -> Asker] /\ asker[a] \in Asker
  BY DEF IInv, TypeOK
<1> DEFINE Typed == /\ asker' \in [Askers -> Asker] /\ commands' \in 0..MaxCommands
                    /\ \A c \in Askers : asker'[c].pc # "none" => asker'[c].model \in Models
                    /\ UNCHANGED <<table, building>>
<1>1. ASSUME NEW m \in Models, Construct(a, m) PROVE Typed
  BY <1>0, <1>1, CommandType DEF IInv, TypeOK, Construct, Asker, NoAsker
<1>2. ASSUME NEW question \in Questions, Ask(a, question) PROVE Typed
  <2> DEFINE q == [question |-> question, model |-> asker[a].model]
             found == Found(q, {})
  <2>1. q \in Query
    BY <1>2 DEF IInv, TypeOK, Ask, Query
  <2>2. found \in SUBSET Passage
    BY FoundType DEF IInv, TypeOK
  <2>3. asker' = [asker EXCEPT ![a].pc = "asked", ![a].query = q, ![a].all = found,
                               ![a].internal = {}, ![a].steady = TRUE]
    BY <1>2 DEF Ask
  <2>4. asker[a].pc # "none"
    BY <1>2 DEF Ask
  <2> HIDE DEF q, found
  <2>5. asker' \in [Askers -> Asker]
    BY <1>0, <2>1, <2>2, <2>3 DEF Asker
  <2>6. \A c \in Askers : asker'[c].pc # "none" => asker'[c].model \in Models
    BY <1>0, <2>3, <2>4 DEF IInv, TypeOK, Asker
  <2> QED
    BY <1>2, <2>5, <2>6, CommandType DEF IInv, TypeOK, Ask
<1>3. ASSUME AskInternal(a) PROVE Typed
  <2> DEFINE found == Internal(a)
             reset == [NoAsker EXCEPT !.pc = "ready", !.model = asker[a].model]
  <2>1. found \in SUBSET Passage
    BY <1>0, FoundType DEF IInv, TypeOK, Internal, Asker
  <2>2. /\ asker[a].pc = "asked"
        /\ \/ asker' = [asker EXCEPT ![a].pc = "answered", ![a].internal = found]
           \/ asker' = [asker EXCEPT ![a] = reset]
    BY <1>3 DEF AskInternal
  <2>3. asker[a].model \in Models
    BY <2>2 DEF IInv, TypeOK
  <2>4. reset \in Asker /\ reset.model \in Models
    BY <2>3 DEF Asker, NoAsker
  <2> HIDE DEF found, reset
  <2>5. CASE asker' = [asker EXCEPT ![a] = reset]
    <3>1. asker' \in [Askers -> Asker]
      BY <1>0, <2>4, <2>5
    <3>2. \A c \in Askers : asker'[c].pc # "none" => asker'[c].model \in Models
      BY <1>0, <2>4, <2>5 DEF IInv, TypeOK
    <3> QED
      BY <1>3, <3>1, <3>2 DEF IInv, TypeOK, AskInternal
  <2>6. CASE asker' = [asker EXCEPT ![a].pc = "answered", ![a].internal = found]
    <3>1. asker' \in [Askers -> Asker]
      BY <1>0, <2>1, <2>6 DEF Asker
    <3>2. \A c \in Askers : asker'[c].pc # "none" => asker'[c].model \in Models
      BY <1>0, <2>3, <2>6 DEF IInv, TypeOK, Asker
    <3> QED
      BY <1>3, <3>1, <3>2 DEF IInv, TypeOK, AskInternal
  <2> QED
    BY <2>2, <2>5, <2>6
<1>4. Typed
  BY <1>1, <1>2, <1>3 DEF Construct
<1>5. TypeOK'
  BY <1>4 DEF IInv, TypeOK, table, building, InSync
<1>6. TableHeld'
  BY <1>4 DEF IInv, TableHeld, table, building, InSync
<1> QED
  BY <1>4, <1>5, <1>6, QuietVectorsFit DEF IInv

\* Every step keeps the invariant.
LEMMA NextIInv == IInv /\ [Next]_vars => IInv'
<1> SUFFICES ASSUME IInv, [Next]_vars PROVE IInv'
  OBVIOUS
<1>1. CASE \E m \in Models : KbInit(m)
  BY <1>1, KbInitIInv
<1>2. CASE KbDrop
  BY <1>2, KbDropIInv
<1>3. ASSUME NEW b \in Builders, Step(b) \/ \E j \in Jobs : Begin(b, j) \/ Refuse(b, j)
      PROVE  IInv'
  <2>1. CASE Finish(b) \/ Stop(b)
    <3>1. Leave(b, "ok") \/ Leave(b, "error")
      BY <2>1 DEF Finish, Stop
    <3> QED
      BY <3>1, LeaveIInv
  <2> QED
    BY <1>3, <2>1, BeginIInv, SyncIInv, UpsertIInv, ReadPendingIInv, EmbedIInv, SaveIInv
       DEF Step
<1>4. ASSUME NEW a \in Askers,
             \/ \E m \in Models : Construct(a, m)
             \/ \E question \in Questions : Ask(a, question)
             \/ AskInternal(a)
      PROVE  IInv'
  BY <1>4, AskerIInv
<1>5. CASE UNCHANGED vars
  BY <1>5 DEF IInv, TypeOK, VectorsFit, TableHeld, InSync, vars
<1> QED
  BY <1>1, <1>2, <1>3, <1>4, <1>5 DEF Next

\* The types of the knowledge base, and where a build may hold locks, chunks to
\* embed and a job.
THEOREM TypeCorrect == Spec => []TypeOK
<1>1. Init => IInv
  BY InitIInv
<1>2. IInv /\ [Next]_vars => IInv'
  BY NextIInv
<1>3. IInv => TypeOK
  BY DEF IInv
<1> QED
  BY <1>1, <1>2, <1>3, PTL DEF Spec

\* Builds, drops and creations of the table may overlap in any way: a vector fits
\* its column and the model recorded beside it.
THEOREM VectorsAlwaysFit == Spec => []VectorsFit
<1>1. Init => IInv
  BY InitIInv
<1>2. IInv /\ [Next]_vars => IInv'
  BY NextIInv
<1>3. IInv => VectorsFit
  BY DEF IInv
<1> QED
  BY <1>1, <1>2, <1>3, PTL DEF Spec

-----------------------------------------------------------------------------
(* One builder at a time                                                   *)

\* The row ids of a table are its own.
OwnIds(r, next) ==
    /\ \A p, q \in DOMAIN r : r[p].id = r[q].id => p = q
    /\ \A p \in DOMAIN r : r[p].id < next

\* Deleting the absent ids leaves the rows whose position the corpus has.
LEMMA WithoutAbsent ==
    ASSUME NEW r, NEW C, NEW next, OwnIds(r, next)
    PROVE  LET w == Without(r, IdsAt(r, DOMAIN r \ Places(C))) IN
           /\ DOMAIN w = DOMAIN r \cap Places(C)
           /\ \A p \in DOMAIN w : w[p] = r[p]
BY DEF Without, IdsAt, OwnIds

\* An upsert into rows with ids of their own gives the new ones ids of their own.
LEMMA UpsertedOwnIds ==
    ASSUME NEW r, IsTable(r), NEW C \in SUBSET Chunk, NEW next \in Nat, OwnIds(r, next)
    PROVE  OwnIds(Upserted(r, C, next), next + Cardinality(Places(C)))
<1> DEFINE u == Upserted(r, C, next)
<1>1. DOMAIN u = DOMAIN r \cup Places(C)
  BY DEF Upserted
<1>2. ASSUME NEW p \in DOMAIN u
      PROVE  u[p].id = IF p \in DOMAIN r THEN r[p].id ELSE NewId(C, next, p)
  BY DEF Upserted, Unembedded
<1>3. Cardinality(Places(C)) \in Nat
  BY PlacesCount
<1>4. \A p \in Places(C) : /\ NewId(C, next, p) \in Nat /\ next <= NewId(C, next, p)
                           /\ NewId(C, next, p) < next + Cardinality(Places(C))
  BY NewIdType
<1>5. \A p \in DOMAIN r : r[p].id \in Nat /\ r[p].id < next
  BY DEF OwnIds, IsTable, Row
<1>6. \A p, q \in Places(C) : NewId(C, next, p) = NewId(C, next, q) => p = q
  <2>1. Places(C) \in SUBSET Positions
    BY DEF Places, Chunk
  <2>2. \A p \in Places(C) : Rank(Places(C), p) \in Nat
    BY <2>1, RankType
  <2> QED
    BY <2>1, <2>2, RankInjective DEF NewId
<1> HIDE DEF u
<1>7. ASSUME NEW p \in DOMAIN u, NEW q \in DOMAIN u, u[p].id = u[q].id PROVE p = q
  <2>1. CASE p \in DOMAIN r /\ q \in DOMAIN r
    BY <1>2, <1>7, <2>1 DEF OwnIds
  <2>2. CASE p \notin DOMAIN r /\ q \notin DOMAIN r
    BY <1>1, <1>2, <1>6, <1>7, <2>2
  <2>3. CASE p \in DOMAIN r /\ q \notin DOMAIN r
    BY <1>1, <1>2, <1>4, <1>5, <1>7, <2>3
  <2>4. CASE p \notin DOMAIN r /\ q \in DOMAIN r
    BY <1>1, <1>2, <1>4, <1>5, <1>7, <2>4
  <2> QED
    BY <2>1, <2>2, <2>3, <2>4
<1>8. ASSUME NEW p \in DOMAIN u PROVE u[p].id < next + Cardinality(Places(C))
  BY <1>1, <1>2, <1>3, <1>4, <1>5
<1> QED
  BY <1>7, <1>8 DEF OwnIds, u

\* Deletion leaves ids of their own.
LEMMA WithoutOwnIds ==
    ASSUME NEW r, IsTable(r), NEW ids, NEW next, OwnIds(r, next)
    PROVE  OwnIds(Without(r, ids), next)
BY DEF OwnIds, Without

\* A synchronised table: a row for each chunk, the old one where the text stayed.
LEMMA SyncedRows ==
    ASSUME NEW r, IsTable(r), NEW C \in SUBSET Chunk, NEW next \in Nat, OwnIds(r, next)
    PROVE  LET u == Upserted(Without(r, IdsAt(r, DOMAIN r \ Places(C))), C, next) IN
           /\ DOMAIN u = Places(C)
           /\ \A p \in Places(C) :
                 IF p \in DOMAIN r /\ r[p].text = TextAt(C, p) THEN u[p] = r[p]
                 ELSE /\ u[p].text = TextAt(C, p) /\ u[p].vector = Null
                      /\ u[p].id = IF p \in DOMAIN r THEN r[p].id ELSE NewId(C, next, p)
           /\ OwnIds(u, next + Cardinality(Places(C)))
<1> DEFINE w == Without(r, IdsAt(r, DOMAIN r \ Places(C)))
           u == Upserted(w, C, next)
<1>1. /\ DOMAIN w = DOMAIN r \cap Places(C)
      /\ \A p \in DOMAIN w : w[p] = r[p]
  BY WithoutAbsent
<1>2. DOMAIN u = Places(C)
  BY <1>1 DEF Upserted
<1>3. ASSUME NEW p \in Places(C)
      PROVE  /\ IF p \in DOMAIN r /\ r[p].text = TextAt(C, p) THEN u[p] = r[p]
                ELSE /\ u[p].text = TextAt(C, p) /\ u[p].vector = Null
                     /\ u[p].id = IF p \in DOMAIN r THEN r[p].id ELSE NewId(C, next, p)
             /\ u[p].id = IF p \in DOMAIN r THEN r[p].id ELSE NewId(C, next, p)
  <2> HIDE DEF w
  <2>1. p \in DOMAIN w <=> p \in DOMAIN r
    BY <1>1
  <2>2. p \in DOMAIN r => w[p] = r[p]
    BY <1>1
  <2>3. u[p] = IF p \notin DOMAIN w THEN Unembedded(NewId(C, next, p), TextAt(C, p))
               ELSE IF w[p].text = TextAt(C, p) THEN w[p]
               ELSE Unembedded(w[p].id, TextAt(C, p))
    BY DEF Upserted
  <2> QED
    BY <2>1, <2>2, <2>3 DEF Unembedded
<1>4. OwnIds(u, next + Cardinality(Places(C)))
  <2>1. IsTable(w) /\ OwnIds(w, next)
    BY WithoutTable, WithoutOwnIds
  <2> HIDE DEF w
  <2> QED
    BY <2>1, UpsertedOwnIds
<1> HIDE DEF u
<1> QED
  BY <1>2, <1>3, <1>4 DEF u

\* An idle builder has nothing in progress.
LEMMA IdleProgress ==
    ASSUME TypeOK, NEW b \in Builders, pc[b] = "idle" PROVE Progress(b)
BY DEF TypeOK, Progress

\* A step of one builder, when the others rest: what remains to show of SInv.
LEMMA OneStep ==
    ASSUME IInv, IInv', SInv, NEW b \in Builders, NEW l \in PCs, pc[b] # "idle", Goto(b, l)
    PROVE  /\ Lone'
           /\ \A c \in Builders : c # b => Progress(c)'
<1>1. \A c \in Builders : c # b => pc[c] = "idle" /\ pc'[c] = "idle"
  BY DEF IInv, TypeOK, SInv, Lone, Goto
<1>2. Lone'
  BY <1>1 DEF Lone
<1>3. ASSUME NEW c \in Builders, c # b PROVE Progress(c)'
  BY <1>1, <1>3 DEF IInv, TypeOK, Progress
<1> QED
  BY <1>2, <1>3

\* What the table shows is untouched.
LEMMA SameTable ==
    ASSUME Ids, VectorOfItsText, UNCHANGED table PROVE Ids' /\ VectorOfItsText'
BY DEF Ids, VectorOfItsText, table

\* The commands on the table, while nobody builds.
LEMMA CommandSInv ==
    ASSUME Exclusive, IInv, IInv', SInv, KbDrop \/ \E m \in Models : KbInit(m)
    PROVE  SInv'
<1>1. \A b \in Builders : pc'[b] = "idle"
  BY DEF KbDrop, KbInit, Alone, building
<1>2. \A b \in Builders : Progress(b)'
  BY <1>1 DEF IInv, TypeOK, Progress
<1>3. (rows' = rows /\ nextId' = nextId) \/ rows' = NoRows
  BY DEF KbDrop, KbInit
<1>4. Ids' /\ VectorOfItsText'
  BY <1>3 DEF SInv, Ids, VectorOfItsText, NoRows
<1> QED
  BY <1>1, <1>2, <1>4 DEF SInv, Lone

\* The first step of the only build.
LEMMA BeginSInv ==
    ASSUME Exclusive, IInv, IInv', SInv, NEW b \in Builders, NEW j \in Jobs,
           Begin(b, j) \/ Refuse(b, j)
    PROVE  SInv'
<1>1. /\ \A c \in Builders : pc[c] = "idle"
      /\ UNCHANGED table
      /\ pc' = pc \/ pc' = [pc EXCEPT ![b] = "sync"]
  BY DEF Begin, Refuse, Alone, Goto
<1>2. \A c \in Builders : pc'[c] \in {"idle", "sync"} /\ (pc'[c] # "idle" => c = b)
  BY <1>1 DEF IInv, TypeOK
<1>3. \A c \in Builders : Progress(c)'
  BY <1>2 DEF IInv, TypeOK, Progress
<1> QED
  BY <1>1, <1>2, <1>3, SameTable DEF SInv, Lone

\* Until it upserts, a build leaves the table as it is.
LEMMA SyncSInv ==
    ASSUME IInv, IInv', SInv, NEW b \in Builders, BeginDelete(b) \/ Delete(b) PROVE SInv'
<1>1. /\ UNCHANGED <<table, job, todo>>
      /\ pc[b] # "idle"
      /\ Goto(b, "delete") \/ Goto(b, "upsert")
  BY DEF BeginDelete, Delete
<1>2. Lone' /\ \A c \in Builders : c # b => Progress(c)'
  BY <1>1, OneStep DEF PCs, BeginDelete, Delete
<1>3. todo[b] = {}
  BY DEF IInv, TypeOK, BeginDelete, Delete
<1>4. Progress(b)'
  <2>1. CASE BeginDelete(b)
    BY <1>3, <2>1 DEF IInv, TypeOK, SInv, Progress, BeginDelete, Goto, Absent, table
  <2>2. CASE Delete(b)
    <3>1. seen[b] = Absent(b) /\ ~Duplicated(job[b].chunks)
      BY <2>2 DEF SInv, Progress, Delete
    <3>2. Absent(b) \subseteq IdsAt(rows, DOMAIN rows)
      BY DEF Absent, IdsAt
    <3>3. seen[b] \cap IdsAt(rows, DOMAIN rows) = Absent(b)
      BY <3>1, <3>2
    <3>4. deleted'[b] = Absent(b) /\ pc'[b] = "upsert"
      BY <2>2, <3>3 DEF IInv, TypeOK, Delete, Goto
    <3>5. Absent(b)' = Absent(b)
      BY <1>1 DEF Absent, table
    <3> QED
      BY <1>1, <1>3, <3>1, <3>4, <3>5 DEF Progress
  <2> QED
    BY <2>1, <2>2
<1> QED
  BY <1>1, <1>2, <1>4, SameTable DEF SInv

\* The upsert of a lone builder leaves the table holding its corpus.
LEMMA UpsertRows ==
    ASSUME IInv, SInv, NEW b \in Builders, Upsert(b)
    PROVE  LET C == job[b].chunks IN
           /\ C \in SUBSET Chunk /\ ~Duplicated(C)
           /\ DOMAIN rows' = Places(C)
           /\ \A p \in Places(C) :
                 IF p \in DOMAIN rows /\ rows[p].text = TextAt(C, p) THEN rows'[p] = rows[p]
                 ELSE rows'[p].text = TextAt(C, p) /\ rows'[p].vector = Null
           /\ OwnIds(rows', nextId')
<1>1. /\ job[b].chunks \in SUBSET Chunk /\ ~Duplicated(job[b].chunks)
      /\ deleted[b] = Absent(b)
  BY JobType DEF IInv, SInv, Progress, Upsert
<1>2. IsTable(rows) /\ nextId \in Nat /\ OwnIds(rows, nextId)
  BY DEF IInv, TypeOK, SInv, Ids, OwnIds
<1>3. /\ rows' = Upserted(Without(rows, Absent(b)), job[b].chunks, nextId)
      /\ nextId' = nextId + Cardinality(Places(job[b].chunks))
  BY <1>1 DEF Upsert
<1> QED
  BY <1>1, <1>2, <1>3, SyncedRows DEF Absent

\* After the upsert the table holds exactly the corpus.
LEMMA UpsertSInv == ASSUME IInv, IInv', SInv, NEW b \in Builders, Upsert(b) PROVE SInv'
<1> DEFINE C == job[b].chunks
<1>1. /\ C \in SUBSET Chunk /\ ~Duplicated(C)
      /\ DOMAIN rows' = Places(C)
      /\ \A p \in Places(C) :
            IF p \in DOMAIN rows /\ rows[p].text = TextAt(C, p) THEN rows'[p] = rows[p]
            ELSE rows'[p].text = TextAt(C, p) /\ rows'[p].vector = Null
      /\ OwnIds(rows', nextId')
  BY UpsertRows
<1>2. pc[b] = "upsert" /\ Goto(b, "pending") /\ UNCHANGED <<job, todo>>
  BY DEF Upsert
<1>3. Lone' /\ \A c \in Builders : c # b => Progress(c)'
  BY <1>2, OneStep DEF PCs
<1>4. Ids'
  BY <1>1 DEF Ids, OwnIds
<1>5. VectorOfItsText'
  BY <1>1 DEF SInv, VectorOfItsText
<1>6. Holds(b)'
  <2>1. \A p \in Places(C) : rows'[p].text = TextAt(C, p)
    BY <1>1
  <2>2. \A c \in C : c.pos \in Places(C) /\ TextAt(C, c.pos) = c.text
    BY <1>1, TextAtUnique
  <2> QED
    BY <1>1, <1>2, <2>1, <2>2 DEF Holds
<1>7. todo'[b] = {} /\ pc'[b] = "pending"
  BY <1>2 DEF IInv, TypeOK, Goto
<1>8. Progress(b)'
  BY <1>1, <1>2, <1>6, <1>7 DEF Progress
<1> QED
  BY <1>3, <1>4, <1>5, <1>8 DEF SInv

\* What is to be embedded is what the table lacks, or all of it when forced.
LEMMA ReadPendingSInv ==
    ASSUME IInv, IInv', SInv, NEW b \in Builders, ReadPending(b) PROVE SInv'
<1>1. /\ pc[b] = "pending" /\ UNCHANGED <<table, job>>
      /\ Goto(b, "stats") \/ Goto(b, "embed")
      /\ todo'[b] = Pending(rows, job[b].model, job[b].force)
  BY DEF IInv, TypeOK, ReadPending, NextBatch
<1>2. Lone' /\ \A c \in Builders : c # b => Progress(c)'
  BY <1>1, OneStep DEF PCs
<1>3. Holds(b) /\ ~Duplicated(job[b].chunks)
  BY <1>1 DEF SInv, Progress
<1>4. ASSUME NEW c \in todo'[b] PROVE Faithful(b, c)'
  BY <1>1, <1>4 DEF Pending, Faithful, table
<1>5. ASSUME NEW p \in DOMAIN rows PROVE Covered(b, p)'
  <2>1. CASE job[b].force \/ Lacks(rows[p], job[b].model)
    <3>1. [id |-> rows[p].id, pos |-> p, text |-> rows[p].text] \in todo'[b]
      BY <1>1, <2>1 DEF Pending
    <3> QED
      BY <3>1 DEF Covered
  <2>2. CASE ~Lacks(rows[p], job[b].model)
    <3>1. /\ rows[p].vector # Null /\ rows[p].vector \in Vector
          /\ rows[p].vector.model = job[b].model
      BY <2>2 DEF Lacks, IInv, TypeOK, VectorsFit, IsTable, Row
    <3>2. rows[p].vector.text = rows[p].text
      BY <3>1 DEF SInv, VectorOfItsText
    <3>3. rows[p].vector = [text |-> rows[p].text, model |-> job[b].model]
      BY <3>1, <3>2 DEF Vector
    <3> QED
      BY <1>1, <3>3 DEF Covered, table
  <2> QED
    BY <2>1, <2>2
<1>6. Progress(b)'
  <2>1. Holds(b)'
    BY <1>1, <1>3 DEF Holds, table
  <2>2. pc'[b] \in {"stats", "embed"}
    BY <1>1 DEF IInv, TypeOK, Goto
  <2> QED
    BY <1>1, <1>3, <1>4, <1>5, <2>1, <2>2 DEF Progress, table
<1> QED
  BY <1>1, <1>2, <1>6, SameTable DEF SInv

\* The provider's answer moves nothing.
LEMMA EmbedSInv == ASSUME IInv, IInv', SInv, NEW b \in Builders, Embed(b) PROVE SInv'
<1>1. /\ pc[b] = "embed" /\ UNCHANGED <<table, job, todo>> /\ Goto(b, "save")
  BY DEF Embed
<1>2. Lone' /\ \A c \in Builders : c # b => Progress(c)'
  BY <1>1, OneStep DEF PCs
<1>3. Progress(b)'
  BY <1>1 DEF IInv, TypeOK, SInv, Progress, Goto, table, Holds, Faithful, Covered
<1> QED
  BY <1>1, <1>2, <1>3, SameTable DEF SInv

\* The batch of a lone builder is saved to the rows it was read from.
LEMMA SavedRows ==
    ASSUME IInv, SInv, NEW b \in Builders, Save(b), NEW p \in DOMAIN rows
    PROVE  /\ DOMAIN rows' = DOMAIN rows
           /\ p \in Places(Batch(b)) =>
                rows'[p] = WithVector(rows[p], rows[p].text, job[b].model)
           /\ p \notin Places(Batch(b)) => rows'[p] = rows[p]
<1>1. rows' = Embedded(rows, Batch(b), job[b].model) /\ DOMAIN rows' = DOMAIN rows
  BY DEF Save, Embedded
<1>2. \A c \in Batch(b) : Faithful(b, c) /\ c \in todo[b]
  BY DEF SInv, Progress, Batch
<1>3. \A c \in Batch(b) : c.id = rows[p].id <=> c.pos = p
  BY <1>2 DEF Faithful, SInv, Ids
<1>4. Batch(b) \in SUBSET Stored
  BY DEF IInv, TypeOK, Batch
<1>5. CASE p \in Places(Batch(b))
  <2>1. PICK c \in Batch(b) : c.pos = p
    BY <1>5 DEF Places
  <2>2. c.id = rows[p].id
    BY <1>3, <2>1
  <2>3. PICK d \in Batch(b) : /\ d.id = rows[p].id
                              /\ rows'[p] = WithVector(rows[p], d.text, job[b].model)
    BY <1>1, <1>4, <2>2, EmbeddedRow
  <2>4. d.text = rows[p].text
    BY <1>2, <1>3, <2>3 DEF Faithful
  <2> QED
    BY <1>1, <1>5, <2>3, <2>4
<1>6. CASE p \notin Places(Batch(b))
  <2>1. ~\E c \in Batch(b) : c.id = rows[p].id
    BY <1>3, <1>6 DEF Places
  <2> QED
    BY <1>1, <1>6, <2>1 DEF Embedded
<1> QED
  BY <1>5, <1>6

\* A vector is stored beside the text it is of.
LEMMA SaveSInv == ASSUME IInv, IInv', SInv, NEW b \in Builders, Save(b) PROVE SInv'
<1> DEFINE m == job[b].model
<1>1. /\ pc[b] = "save" /\ UNCHANGED <<nextId, job>>
      /\ Goto(b, "stats") \/ Goto(b, "embed")
      /\ todo'[b] = todo[b] \ Batch(b)
  BY DEF IInv, TypeOK, Save, NextBatch
<1>2. Lone' /\ \A c \in Builders : c # b => Progress(c)'
  BY <1>1, OneStep DEF PCs
<1>3. DOMAIN rows' = DOMAIN rows
  BY DEF Save, Embedded
<1>4. \A p \in DOMAIN rows :
         /\ rows[p] \in Row
         /\ p \in Places(Batch(b)) => rows'[p] = WithVector(rows[p], rows[p].text, m)
         /\ p \notin Places(Batch(b)) => rows'[p] = rows[p]
  BY SavedRows DEF IInv, TypeOK, IsTable
<1>5. \A p \in DOMAIN rows :
         /\ rows'[p].id = rows[p].id /\ rows'[p].text = rows[p].text
         /\ p \in Places(Batch(b)) => rows'[p].vector = [text |-> rows[p].text, model |-> m]
  BY <1>4 DEF WithVector, Row
<1>6. Ids'
  BY <1>1, <1>3, <1>5 DEF SInv, Ids
<1>7. VectorOfItsText'
  <2> SUFFICES ASSUME NEW p \in DOMAIN rows, rows'[p].vector # Null
               PROVE  rows'[p].vector.text = rows'[p].text
    BY <1>3 DEF VectorOfItsText
  <2>1. CASE p \in Places(Batch(b))
    <3>1. rows'[p].vector = [text |-> rows[p].text, model |-> m]
      BY <1>5, <2>1
    <3>2. rows'[p].vector.text = rows[p].text
      BY <3>1
    <3> QED
      BY <1>5, <3>2
  <2>2. CASE p \notin Places(Batch(b))
    BY <1>4, <2>2 DEF SInv, VectorOfItsText
  <2> QED
    BY <2>1, <2>2
<1>8. Holds(b) /\ ~Duplicated(job[b].chunks) /\ \A c \in todo[b] : Faithful(b, c)
  BY <1>1 DEF SInv, Progress
<1>9. \A c \in todo[b] : c.pos \in Places(Batch(b)) => c \in Batch(b)
  BY DEF Places, Batch
<1>10. ASSUME NEW c \in todo'[b] PROVE Faithful(b, c)'
  <2>1. c \in todo[b] /\ c.pos \notin Places(Batch(b))
    BY <1>1, <1>9, <1>10
  <2>2. rows'[c.pos] = rows[c.pos]
    BY <1>4, <1>8, <2>1 DEF Faithful
  <2> QED
    BY <1>1, <1>3, <1>8, <2>1, <2>2 DEF Faithful
<1>11. ASSUME NEW p \in DOMAIN rows' PROVE Covered(b, p)'
  <2>1. CASE p \in Places(Batch(b))
    BY <1>1, <1>3, <1>5, <1>11, <2>1 DEF Covered
  <2>2. CASE p \notin Places(Batch(b))
    <3>1. rows'[p] = rows[p] /\ Covered(b, p)
      BY <1>1, <1>3, <1>4, <1>11, <2>2 DEF SInv, Progress
    <3>2. \A c \in todo[b] : c.pos = p => c \in todo'[b]
      BY <1>1, <2>2 DEF Places
    <3> QED
      BY <1>1, <3>1, <3>2 DEF Covered
  <2> QED
    BY <2>1, <2>2
<1>12. Progress(b)'
  <2>1. Holds(b)'
    BY <1>1, <1>3, <1>5, <1>8, TextAtType DEF Holds, Places
  <2>2. pc'[b] \in {"stats", "embed"}
    BY <1>1 DEF IInv, TypeOK, Goto
  <2> QED
    BY <1>1, <1>8, <1>10, <1>11, <2>1, <2>2 DEF Progress
<1> QED
  BY <1>2, <1>6, <1>7, <1>12 DEF SInv

\* A build that ends leaves the table as it is.
LEMMA LeaveSInv ==
    ASSUME IInv, IInv', SInv, NEW b \in Builders, NEW status, pc[b] # "idle", Leave(b, status)
    PROVE  SInv'
<1>1. Goto(b, "idle") /\ UNCHANGED table
  BY DEF Leave
<1>2. Lone' /\ \A c \in Builders : c # b => Progress(c)'
  BY <1>1, OneStep DEF PCs
<1>3. pc'[b] = "idle"
  BY <1>1 DEF IInv, TypeOK, Goto
<1>4. Progress(b)'
  BY <1>3 DEF IInv, TypeOK, Progress
<1> QED
  BY <1>1, <1>2, <1>4, SameTable DEF SInv

\* Nothing of the table or of a build moves.
LEMMA QuietSInv == ASSUME SInv, UNCHANGED <<table, building>> PROVE SInv'
BY DEF SInv, Lone, Ids, VectorOfItsText, Progress, Absent, Holds, Faithful, Covered,
       table, building

\* An empty table and nobody building.
LEMMA InitSInv == Init => SInv
<1> SUFFICES ASSUME Init PROVE SInv
  OBVIOUS
<1>1. \A b \in Builders : Progress(b)
  BY DEF Init, Progress
<1>2. Ids /\ VectorOfItsText
  BY DEF Init, NoRows, Ids, VectorOfItsText
<1> QED
  BY <1>1, <1>2 DEF Init, SInv, Lone

\* Every step of builds that do not overlap keeps the invariant.
LEMMA NextSInv == ASSUME Exclusive PROVE IInv /\ SInv /\ [Next]_vars => SInv'
<1> SUFFICES ASSUME IInv, SInv, [Next]_vars PROVE SInv'
  OBVIOUS
<1>0. IInv'
  BY NextIInv
<1>1. CASE KbDrop \/ \E m \in Models : KbInit(m)
  BY <1>0, <1>1, CommandSInv
<1>2. ASSUME NEW b \in Builders, Step(b) \/ \E j \in Jobs : Begin(b, j) \/ Refuse(b, j)
      PROVE  SInv'
  <2>1. CASE Finish(b) \/ Stop(b)
    <3>1. pc[b] # "idle" /\ (Leave(b, "ok") \/ Leave(b, "error"))
      BY <2>1 DEF Finish, Stop
    <3> QED
      BY <1>0, <3>1, LeaveSInv
  <2> QED
    BY <1>0, <1>2, <2>1, BeginSInv, SyncSInv, UpsertSInv, ReadPendingSInv, EmbedSInv,
       SaveSInv DEF Step
<1>3. ASSUME NEW a \in Askers,
             \/ \E m \in Models : Construct(a, m)
             \/ \E question \in Questions : Ask(a, question)
             \/ AskInternal(a)
      PROVE  SInv'
  BY <1>3, QuietSInv DEF Construct, Ask, AskInternal
<1>4. CASE UNCHANGED vars
  BY <1>4, QuietSInv DEF vars, table, building
<1> QED
  BY <1>1, <1>2, <1>3, <1>4 DEF Next

\* A build that is about to succeed.
LEMMA SInvImplies ==
    ASSUME IInv, SInv PROVE VectorOfItsText /\ BuiltMeansComplete
<1>1. VectorOfItsText
  BY DEF SInv
<1>2. BuiltMeansComplete
  <2> SUFFICES ASSUME NEW b \in Builders, pc[b] = "stats"
               PROVE  /\ DOMAIN rows = Places(job[b].chunks)
                      /\ \A c \in job[b].chunks :
                            /\ rows[c.pos].text = c.text
                            /\ rows[c.pos].vector = [text |-> c.text, model |-> job[b].model]
    BY DEF BuiltMeansComplete
  <2>1. Holds(b) /\ todo[b] = {} /\ \A p \in DOMAIN rows : Covered(b, p)
    BY DEF IInv, TypeOK, SInv, Progress
  <2>2. \A c \in job[b].chunks : c.pos \in DOMAIN rows
    BY <2>1 DEF Holds, Places
  <2> QED
    BY <2>1, <2>2 DEF Holds, Covered
<1> QED
  BY <1>1, <1>2

\* Builds that do not overlap never leave the vector of one text beside another.
THEOREM VectorsAreOfTheirTexts == ASSUME Exclusive PROVE Spec => []VectorOfItsText
<1>1. Init => IInv /\ SInv
  BY InitIInv, InitSInv
<1>2. IInv /\ SInv /\ [Next]_vars => IInv' /\ SInv'
  BY NextIInv, NextSInv
<1>3. IInv /\ SInv => VectorOfItsText
  BY SInvImplies
<1> QED
  BY <1>1, <1>2, <1>3, PTL DEF Spec

\* A build that succeeds has completed the table, whatever was interrupted before.
THEOREM SuccessIsComplete == ASSUME Exclusive PROVE Spec => []BuiltMeansComplete
<1>1. Init => IInv /\ SInv
  BY InitIInv, InitSInv
<1>2. IInv /\ SInv /\ [Next]_vars => IInv' /\ SInv'
  BY NextIInv, NextSInv
<1>3. IInv /\ SInv => BuiltMeansComplete
  BY SInvImplies
<1> QED
  BY <1>1, <1>2, <1>3, PTL DEF Spec

\* What an unforced build is about to send lacks the vector it asks for.
LEMMA SendsWhatLacks ==
    ASSUME IInv, SInv, NEW b \in Builders, pc[b] = "embed", ~job[b].force,
           NEW c \in Batch(b), NEW p \in DOMAIN rows, rows[p].id = c.id
    PROVE  rows[p].vector # [text |-> c.text, model |-> job[b].model]
<1>1. Faithful(b, c)
  BY DEF SInv, Progress, Batch
<1>2. p = c.pos /\ Lacks(rows[p], job[b].model)
  BY <1>1 DEF Faithful, SInv, Ids
<1>3. CASE rows[p].vector = Null
  <2>1. c \in Stored /\ job[b].model \in Models
    BY JobType DEF IInv, TypeOK, Batch
  <2>2. [text |-> c.text, model |-> job[b].model] \in Vector
    BY <2>1 DEF Stored, Vector
  <2> QED
    BY <1>3, <2>2, KbAssumption
<1>4. CASE rows[p].vector # Null
  BY <1>2, <1>4 DEF IInv, VectorsFit, Lacks
<1> QED
  BY <1>3, <1>4

\* What a step makes of the vector of a row that keeps its id and its text.
VectorStays(p) ==
    LET old == rows[p] new == rows'[p] IN
    old.vector # Null /\ new.id = old.id /\ new.text = old.text =>
       \/ new.vector = old.vector
       \/ \E b \in Builders :
             /\ pc[b] = "save" /\ \E c \in Batch(b) : c.id = old.id
             /\ new.vector = [text |-> old.text, model |-> job[b].model]

\* A lone build's upsert spares the vectors of unchanged texts, and its saves
\* replace those of their own batch.
LEMMA StepSpares ==
    ASSUME IInv, SInv, [Next]_vars, NEW p \in DOMAIN rows \cap DOMAIN rows'
    PROVE  VectorStays(p)
<1>1. ASSUME NEW b \in Builders, Upsert(b) PROVE VectorStays(p)
  <2>1. p \in Places(job[b].chunks)
    BY <1>1, UpsertRows
  <2> QED
    BY <1>1, <2>1, UpsertRows DEF VectorStays
<1>2. ASSUME NEW b \in Builders, Save(b) PROVE VectorStays(p)
  <2>1. CASE p \in Places(Batch(b))
    <3>1. rows'[p] = WithVector(rows[p], rows[p].text, job[b].model)
      BY <1>2, <2>1, SavedRows
    <3>2. rows[p] \in Row
      BY DEF IInv, TypeOK, IsTable
    <3>3. rows'[p].vector = [text |-> rows[p].text, model |-> job[b].model]
      BY <3>1, <3>2 DEF WithVector, Row
    <3>4. PICK c \in Batch(b) : c.pos = p
      BY <2>1 DEF Places
    <3>5. c.id = rows[p].id
      BY <3>4 DEF SInv, Progress, Batch, Faithful
    <3>6. pc[b] = "save"
      BY <1>2 DEF Save
    <3> QED
      BY <3>3, <3>4, <3>5, <3>6 DEF VectorStays
  <2>2. CASE p \notin Places(Batch(b))
    BY <1>2, <2>2, SavedRows DEF VectorStays
  <2> QED
    BY <2>1, <2>2
<1>3. CASE rows' = NoRows
  BY <1>3 DEF NoRows
<1>4. CASE UNCHANGED rows
  BY <1>4 DEF VectorStays
<1>5. \/ UNCHANGED rows \/ rows' = NoRows
      \/ \E b \in Builders : Upsert(b) \/ Save(b)
  BY DEF Next, vars, KbInit, KbDrop, Step, Begin, Refuse, BeginDelete, Delete, ReadPending,
         Embed, Finish, Stop, Leave, Construct, Ask, AskInternal, table
<1> QED
  BY <1>1, <1>2, <1>3, <1>4, <1>5

\* While builds do not overlap, a chunk whose row keeps its text is paid for once.
THEOREM NoSecondPayment == ASSUME Exclusive PROVE Spec => ChunkPaidOnce
<1> DEFINE Sent == \A b \in Builders :
                      pc[b] = "embed" /\ pc'[b] = "save" /\ ~job[b].force =>
                         \A c \in Batch(b), p \in DOMAIN rows :
                            rows[p].id = c.id =>
                               rows[p].vector # [text |-> c.text, model |-> job[b].model]
           Spared == \A p \in DOMAIN rows \cap DOMAIN rows' : VectorStays(p)
<1>1. Init => IInv /\ SInv
  BY InitIInv, InitSInv
<1>2. IInv /\ SInv /\ [Next]_vars => IInv' /\ SInv'
  BY NextIInv, NextSInv
<1>3. IInv /\ SInv /\ [Next]_vars => [Spared /\ Sent]_vars
  BY StepSpares, SendsWhatLacks
<1>4. [][Spared /\ Sent]_vars => ChunkPaidOnce
  BY PTL DEF ChunkPaidOnce, VectorStays
<1> QED
  BY <1>1, <1>2, <1>3, <1>4, PTL DEF Spec

-----------------------------------------------------------------------------
(* The refinement of DocIndex                                              *)

\* What a reader sees of the table.
Shown == [p \in DOMAIN rows |-> [text |-> rows[p].text, vector |-> rows[p].vector]]

\* An empty table is an empty index.
LEMMA InitRefines == Init => Index!DInit
BY DEF Init, Index!DInit, NoRows, Index!NoRows

\* Deletion and upsert together put a whole corpus.
LEMMA UpsertRefines == ASSUME IInv, SInv, NEW b \in Builders, Upsert(b) PROVE Index!DNext
<1> DEFINE C == job[b].chunks
<1>1. /\ C \in SUBSET Chunk /\ ~Duplicated(C)
      /\ DOMAIN rows' = Places(C)
      /\ \A p \in Places(C) :
            IF p \in DOMAIN rows /\ rows[p].text = TextAt(C, p) THEN rows'[p] = rows[p]
            ELSE rows'[p].text = TextAt(C, p) /\ rows'[p].vector = Null
  BY UpsertRows
<1>2. width # 0 /\ width' = width /\ job[b] \in Jobs
  BY JobType DEF IInv, TableHeld, InSync, Upsert
<1>3. Shown' = [p \in Places(C) |->
                  IF p \in DOMAIN Shown /\ Shown[p].text = TextAt(C, p)
                  THEN Shown[p] ELSE [text |-> TextAt(C, p), vector |-> Null]]
  <2>1. \A p \in Places(C) :
           [text |-> rows'[p].text, vector |-> rows'[p].vector] =
              IF p \in DOMAIN Shown /\ Shown[p].text = TextAt(C, p)
              THEN Shown[p] ELSE [text |-> TextAt(C, p), vector |-> Null]
    BY <1>1 DEF Shown
  <2> QED
    BY <1>1, <2>1 DEF Shown
<1>4. Index!DSync(C)
  BY <1>1, <1>2, <1>3
     DEF Index!DSync, Shown, Index!Bare, Index!Places, Index!TextAt, Index!Duplicated,
         Places, TextAt, Duplicated
<1> QED
  BY <1>2, <1>4 DEF Index!DNext, Index!DSync

\* A batch of vectors is put at once.
LEMMA SaveRefines == ASSUME IInv, SInv, NEW b \in Builders, Save(b) PROVE Index!DNext
<1> DEFINE m == job[b].model
           P == Places(Batch(b))
<1>1. \A p \in DOMAIN rows :
         /\ rows[p] \in Row
         /\ p \in P => rows'[p] = WithVector(rows[p], rows[p].text, m)
         /\ p \notin P => rows'[p] = rows[p]
  BY SavedRows DEF IInv, TypeOK, IsTable
<1>2. DOMAIN rows' = DOMAIN rows /\ width' = width /\ width = Width[m] /\ m \in Models
  BY JobType DEF IInv, Save, Embedded
<1>3. P \subseteq DOMAIN rows
  BY DEF SInv, Progress, Faithful, Batch, Places
<1>4. Cardinality(P) <= BatchSize
  <2>0. todo[b] \in SUBSET Stored /\ Batch(b) \subseteq todo[b]
    BY DEF IInv, TypeOK, Batch
  <2>1. Places(todo[b]) \in SUBSET Positions /\ P \in SUBSET Places(todo[b])
    BY <2>0 DEF Stored, Places
  <2>2. \A p \in P : Rank(Places(todo[b]), p) < BatchSize
    BY DEF Places, Batch
  <2> QED
    BY <2>1, <2>2, RankBounds, BuildAssumption
<1>5. Shown' = [p \in DOMAIN Shown |->
                  IF p \in P
                  THEN [Shown[p] EXCEPT !.vector = [text |-> Shown[p].text, model |-> m]]
                  ELSE Shown[p]]
  <2>1. \A p \in DOMAIN rows :
           [text |-> rows'[p].text, vector |-> rows'[p].vector] =
              IF p \in P
              THEN [Shown[p] EXCEPT !.vector = [text |-> Shown[p].text, model |-> m]]
              ELSE Shown[p]
    <3> SUFFICES ASSUME NEW p \in DOMAIN rows
                 PROVE  [text |-> rows'[p].text, vector |-> rows'[p].vector] =
                          IF p \in P
                          THEN [Shown[p] EXCEPT !.vector = [text |-> Shown[p].text, model |-> m]]
                          ELSE Shown[p]
      OBVIOUS
    <3>1. Shown[p] = [text |-> rows[p].text, vector |-> rows[p].vector]
      BY DEF Shown
    <3>2. CASE p \in P
      <4>1. rows'[p].text = rows[p].text
            /\ rows'[p].vector = [text |-> rows[p].text, model |-> m]
        BY <1>1, <3>2 DEF WithVector, Row
      <4> QED
        BY <3>1, <3>2, <4>1
    <3>3. CASE p \notin P
      BY <1>1, <3>1, <3>3
    <3> QED
      BY <3>2, <3>3
  <2> QED
    BY <1>2, <2>1 DEF Shown
<1>6. DOMAIN Shown = DOMAIN rows
  BY DEF Shown
<1>7. Index!Cardinality(P) = Cardinality(P)
  BY DEF Index!Cardinality, Cardinality, Index!IsFiniteSet, IsFiniteSet
<1>8. Index!DFill(P, m)
  <2> HIDE DEF P, m
  <2> QED
    BY <1>2, <1>4, <1>5, <1>7, Zenon DEF Index!DFill, Shown
<1> QED
  <2> HIDE DEF P, m
  <2>1. P \in SUBSET DOMAIN Shown
    BY <1>3, <1>6
  <2> QED
    BY <1>2, <1>8, <2>1, Zenon DEF Index!DNext, Index!DFill, Shown

\* Every step is a step of the index or none.
LEMMA NextRefines ==
    ASSUME Exclusive PROVE IInv /\ SInv /\ [Next]_vars => [Index!DNext]_(Index!dvars)
<1> SUFFICES ASSUME IInv, SInv, [Next]_vars PROVE Index!DNext \/ UNCHANGED Index!dvars
  OBVIOUS
<1>1. ASSUME NEW m \in Models, KbInit(m) PROVE Index!DNext
  BY <1>1 DEF KbInit, Index!DNext, Index!DCreate
<1>2. CASE KbDrop
  BY <1>2 DEF KbDrop, Index!DNext, Index!DDrop, NoRows, Index!NoRows
<1>3. ASSUME UNCHANGED table PROVE UNCHANGED Index!dvars
  BY <1>3 DEF table, Index!dvars
<1>4. ASSUME NEW b \in Builders, Step(b) \/ \E j \in Jobs : Begin(b, j) \/ Refuse(b, j)
      PROVE  Index!DNext \/ UNCHANGED Index!dvars
  <2>1. Upsert(b) \/ Save(b) \/ UNCHANGED table
    BY <1>4 DEF Step, Begin, Refuse, BeginDelete, Delete, ReadPending, Embed, Finish, Stop,
                Leave
  <2> QED
    BY <1>3, <2>1, UpsertRefines, SaveRefines
<1>5. ASSUME NEW a \in Askers,
             \/ \E m \in Models : Construct(a, m)
             \/ \E question \in Questions : Ask(a, question)
             \/ AskInternal(a)
      PROVE  UNCHANGED table
  BY <1>5 DEF Construct, Ask, AskInternal
<1>6. CASE UNCHANGED vars
  BY <1>3, <1>6 DEF vars, table
<1> QED
  BY <1>1, <1>2, <1>3, <1>4, <1>5, <1>6 DEF Next

\* Builds that do not overlap implement DocIndex.
THEOREM ImplementsIndex == ASSUME Exclusive PROVE Spec => KeepsIndex
<1>1. Init => IInv /\ SInv /\ Index!DInit
  BY InitIInv, InitSInv, InitRefines
<1>2. IInv /\ SInv /\ [Next]_vars => IInv' /\ SInv'
  BY NextIInv, NextSInv
<1>3. IInv /\ SInv /\ [Next]_vars => [Index!DNext]_(Index!dvars)
  BY NextRefines
<1> QED
  BY <1>1, <1>2, <1>3, PTL DEF Spec, KeepsIndex, Index!DSpec

-----------------------------------------------------------------------------
(* Searches                                                                *)

\* How many passages of P come before p in the order of the search.
Standing(r, q, P, p) == Cardinality({o \in P : Before(r, q, o, p)})

\* What can be searched for has a distance and an id of its own.
Sortable(r) == IsTable(r) /\ \A o, p \in DOMAIN r : r[o].id = r[p].id => o = p

\* The order of a search is a strict total order.
LEMMA SearchOrder ==
    ASSUME NEW r, Sortable(r), NEW q \in Query, NEW P \in SUBSET Searchable(r)
    PROVE  /\ P \subseteq Positions
           /\ \A p \in P : Away(r, q, p) \in Int
           /\ \A p \in P : ~Before(r, q, p, p)
           /\ \A o, p \in P : o # p => Before(r, q, o, p) \/ Before(r, q, p, o)
           /\ \A n, o, p \in P : Before(r, q, n, o) /\ Before(r, q, o, p) => Before(r, q, n, p)
<1>1. \A p \in P : /\ p \in DOMAIN r /\ p \in Positions
                   /\ r[p].id \in Nat /\ r[p].vector \in Vector
  BY DEF Sortable, IsTable, Row, Searchable
<1>2. \A p \in P : Away(r, q, p) \in Int
  BY <1>1, KbAssumption DEF Away
<1>3. \A o, p \in P : r[o].id = r[p].id => o = p
  BY <1>1 DEF Sortable
<1> QED
  BY <1>1, <1>2, <1>3 DEF Before

\* What comes before a passage is a smaller part of the set, and grows along the order.
LEMMA StandingGrows ==
    ASSUME NEW r, Sortable(r), NEW q \in Query, NEW P \in SUBSET Searchable(r), NEW p \in P
    PROVE  /\ IsFiniteSet(P)
           /\ Standing(r, q, P, p) \in Nat
           /\ \A o \in P : Before(r, q, o, p) => Standing(r, q, P, o) < Standing(r, q, P, p)
<1> DEFINE B(x) == {o \in P : Before(r, q, o, x)}
<1>1. IsFiniteSet(P)
  BY SearchOrder, PositionsFinite
<1>2. \A x \in P : IsFiniteSet(B(x)) /\ Cardinality(B(x)) \in Nat
  <2> SUFFICES ASSUME NEW x \in P PROVE IsFiniteSet(B(x)) /\ Cardinality(B(x)) \in Nat
    OBVIOUS
  <2>1. B(x) \in SUBSET P
    OBVIOUS
  <2> QED
    BY <1>1, <2>1, FS_Subset, FS_CardinalityType
<1>3. ASSUME NEW o \in P, Before(r, q, o, p)
      PROVE  Cardinality(B(o)) < Cardinality(B(p))
  <2>1. B(o) \in SUBSET B(p) /\ o \in B(p) /\ o \notin B(o)
    BY <1>3, SearchOrder
  <2> HIDE DEF B
  <2> QED
    BY <1>2, <2>1, FS_Subset
<1> QED
  BY <1>1, <1>2, <1>3 DEF Standing

\* A set of natural numbers that is not empty has a least element.
LEMMA LeastNat ==
    ASSUME NEW S \in SUBSET Nat, S # {} PROVE \E m \in S : \A k \in S : m <= k
<1>1. PICK m \in S : \A k \in S : <<k, m>> \notin OpToRel(<, Nat)
  BY NatLessThanWellFounded, WFMin
<1>2. \A k \in S : ~(k < m)
  BY <1>1 DEF OpToRel
<1> QED
  BY <1>2

\* The limit cuts nothing off, or leaves TopK passages.
LEMMA NearestFills ==
    ASSUME NEW r, Sortable(r), NEW q \in Query, NEW P \in SUBSET Searchable(r)
    PROVE  /\ IsFiniteSet(Nearest(r, q, P))
           /\ Nearest(r, q, P) = P \/ Cardinality(Nearest(r, q, P)) = TopK
<1> DEFINE N == Nearest(r, q, P)
<1>1. IsFiniteSet(P) \/ P = {}
  BY StandingGrows
<1>2. IsFiniteSet(N) /\ Cardinality(N) \in Nat /\ N \subseteq P
  <2>1. N \in SUBSET P
    BY DEF Nearest
  <2> QED
    BY <1>1, <2>1, FS_EmptySet, FS_Subset, FS_CardinalityType
<1>3. \A p \in P : Standing(r, q, P, p) \in Nat
  BY StandingGrows
<1>4. \A p \in P : p \in N <=> Standing(r, q, P, p) < TopK
  BY DEF Nearest, Standing
<1>5. TopK \in Nat \ {0}
  BY KbAssumption
<1>6. Cardinality(N) <= TopK
  <2> DEFINE f == [p \in N |-> Standing(r, q, P, p)]
  <2>1. f \in [N -> 0..(TopK - 1)]
    BY <1>2, <1>3, <1>4, <1>5
  <2>2. ASSUME NEW o \in N, NEW p \in N, f[o] = f[p] PROVE o = p
    <3>1. o \in P /\ p \in P /\ Standing(r, q, P, o) = Standing(r, q, P, p)
      BY <1>2, <2>2
    <3>2. o # p => Before(r, q, o, p) \/ Before(r, q, p, o)
      BY <3>1, SearchOrder
    <3>3. /\ Before(r, q, o, p) => Standing(r, q, P, o) < Standing(r, q, P, p)
          /\ Before(r, q, p, o) => Standing(r, q, P, p) < Standing(r, q, P, o)
      BY <3>1, StandingGrows
    <3> QED
      BY <1>3, <3>1, <3>2, <3>3
  <2>3. f \in Injection(N, 0..(TopK - 1))
    BY <2>1, <2>2 DEF Injection, IsInjective
  <2>4. IsFiniteSet(0..(TopK - 1)) /\ Cardinality(0..(TopK - 1)) = TopK
    BY <1>5, FS_Interval
  <2> QED
    BY <2>3, <2>4, FS_Injection
<1>7. ASSUME N # P PROVE Cardinality(N) >= TopK
  <2> DEFINE S == {Standing(r, q, P, p) : p \in P \ N}
  <2>1. S \in SUBSET Nat /\ S # {}
    BY <1>2, <1>3, <1>7
  <2>2. PICK m \in P \ N : \A o \in P \ N : Standing(r, q, P, m) <= Standing(r, q, P, o)
    <3>1. \E n \in S : \A k \in S : n <= k
      <4> HIDE DEF S
      <4> QED
        BY <2>1, LeastNat
    <3> QED
      BY <3>1
  <2> DEFINE B == {o \in P : Before(r, q, o, m)}
  <2>3. B \in SUBSET N
    <3> SUFFICES ASSUME NEW o \in P, Before(r, q, o, m), o \notin N PROVE FALSE
      OBVIOUS
    <3>1. Standing(r, q, P, o) < Standing(r, q, P, m)
      BY StandingGrows
    <3> QED
      BY <1>3, <2>2, <3>1
  <2>4. Cardinality(B) >= TopK
    BY <1>3, <1>4, <1>5, <2>2 DEF Standing
  <2>5. Cardinality(B) <= Cardinality(N) /\ Cardinality(B) \in Nat
    <3> HIDE DEF B, N
    <3> QED
      BY <1>2, <2>3, FS_Subset, FS_CardinalityType
  <2> QED
    BY <1>2, <1>5, <2>4, <2>5
<1> HIDE DEF N
<1>8. N = P \/ Cardinality(N) = TopK
  BY <1>2, <1>5, <1>6, <1>7
<1> QED
  BY <1>2, <1>8 DEF N

\* The floor takes off the end only: where a passage above it is missing, there are
\* TopK others.
LEMMA SearchFills ==
    ASSUME NEW r, Sortable(r), NEW q \in Query, NEW excluded
    PROVE  LET P == Searchable(r) \ excluded
               found == Search(r, q, excluded)
           IN  /\ IsFiniteSet(found)
               /\ Cardinality(found) = TopK \/ AboveFloor(r, q, P) = found
<1> DEFINE P == Searchable(r) \ excluded
           N == Nearest(r, q, P)
           found == AboveFloor(r, q, N)
<1>0. found = Search(r, q, excluded) /\ P \in SUBSET Searchable(r) /\ N \subseteq P
  BY DEF Search, Nearest
<1>1. IsFiniteSet(N) /\ (N = P \/ Cardinality(N) = TopK)
  BY <1>0, NearestFills
<1>2. IsFiniteSet(found)
  <2>1. found \in SUBSET N
    BY DEF AboveFloor
  <2> QED
    BY <1>1, <2>1, FS_Subset
<1>3. ASSUME NEW p \in AboveFloor(r, q, P), p \notin found PROVE found = N
  <2>1. p \in P /\ p \notin N /\ Away(r, q, p) <= Floor
    BY <1>3 DEF AboveFloor
  <2>2. \A o \in N : Away(r, q, o) <= Floor
    <3> SUFFICES ASSUME NEW o \in N PROVE Away(r, q, o) <= Floor
      OBVIOUS
    <3>0. o \in P
      BY <1>0
    <3>1. Standing(r, q, P, o) < TopK /\ ~(Standing(r, q, P, p) < TopK)
      BY <2>1 DEF Nearest, Standing
    <3>2. Standing(r, q, P, o) \in Nat /\ Standing(r, q, P, p) \in Nat /\ TopK \in Nat
      BY <1>0, <2>1, <3>0, StandingGrows, KbAssumption
    <3>3. ~Before(r, q, p, o) /\ o # p
      <4>1. Before(r, q, p, o) => Standing(r, q, P, p) < Standing(r, q, P, o)
        BY <1>0, <2>1, <3>0, StandingGrows
      <4> HIDE DEF P
      <4> QED
        BY <3>1, <3>2, <4>1
    <3>4. Before(r, q, o, p) /\ Away(r, q, o) \in Int /\ Away(r, q, p) \in Int
      BY <1>0, <2>1, <3>0, <3>3, SearchOrder
    <3> QED
      BY <2>1, <3>4, KbAssumption DEF Before
  <2> QED
    BY <2>2 DEF AboveFloor
<1>4. found \subseteq AboveFloor(r, q, P)
  BY <1>0 DEF AboveFloor
<1>5. Cardinality(found) = TopK \/ AboveFloor(r, q, P) = found
  <2> SUFFICES ASSUME AboveFloor(r, q, P) # found PROVE Cardinality(found) = TopK
    OBVIOUS
  <2>1. PICK p \in AboveFloor(r, q, P) : p \notin found
    <3> HIDE DEF found, P
    <3> QED
      BY <1>4
  <2>2. found = N
    BY <1>3, <2>1
  <2>3. N # P
    BY <2>1, <2>2
  <2> QED
    BY <1>1, <2>2, <2>3
<1> HIDE DEF found, P, N
<1> QED
  BY <1>0, <1>2, <1>5 DEF P

\* An excluded passage keeps no other one from being found.
LEMMA ExclusionHidesNothing ==
    ASSUME NEW r, Sortable(r), NEW q \in Query, NEW excluded
    PROVE  Search(r, q, {}) \ excluded \subseteq Search(r, q, excluded)
<1> DEFINE A == Searchable(r) \ {}
           P == Searchable(r) \ excluded
<1> SUFFICES ASSUME NEW p \in Search(r, q, {}), p \notin excluded
             PROVE  p \in Search(r, q, excluded)
  OBVIOUS
<1>1. p \in A /\ p \in P /\ Away(r, q, p) <= Floor /\ Standing(r, q, A, p) < TopK
  BY DEF Search, AboveFloor, Nearest, Standing
<1>2. Standing(r, q, P, p) <= Standing(r, q, A, p)
  <2> DEFINE B(X) == {o \in X : Before(r, q, o, p)}
  <2>1. B(P) \in SUBSET B(A) /\ B(A) \in SUBSET A
    OBVIOUS
  <2>2. IsFiniteSet(A)
    BY <1>1, StandingGrows
  <2>3. IsFiniteSet(B(A))
    BY <2>1, <2>2, FS_Subset
  <2> QED
    BY <2>1, <2>3, FS_Subset DEF Standing
<1>3. Standing(r, q, P, p) \in Nat /\ Standing(r, q, A, p) \in Nat /\ TopK \in Nat
  BY <1>1, StandingGrows, KbAssumption
<1>4. Standing(r, q, P, p) < TopK
  BY <1>1, <1>2, <1>3
<1> QED
  BY <1>1, <1>4 DEF Search, AboveFloor, Nearest, Standing

-----------------------------------------------------------------------------
(* What the retrievers have found                                          *)

\* As long as nothing was committed, the answer is that of the table as it stands.
Current(a) ==
    /\ asker[a].pc \in {"asked", "answered"} => asker[a].query \in Query
    /\ asker[a].steady =>
          /\ asker[a].pc \in {"asked", "answered"} => asker[a].all = Found(asker[a].query, {})
          /\ asker[a].pc = "answered" => asker[a].internal = Internal(a)

AInv == Ids /\ \A a \in Askers : Current(a)

\* What a commit makes of the retrievers: none of them is steady.
LEMMA UnsteadyCurrent ==
    ASSUME IInv, \A a \in Askers : Current(a), Unsteady PROVE \A a \in Askers : Current(a)'
<1> SUFFICES ASSUME NEW a \in Askers PROVE Current(a)'
  OBVIOUS
<1>1. asker'[a] = [asker[a] EXCEPT !.steady = FALSE] /\ asker[a] \in Asker
  BY DEF Unsteady, IInv, TypeOK
<1>2. asker'[a].pc = asker[a].pc /\ asker'[a].query = asker[a].query /\ ~asker'[a].steady
  BY <1>1 DEF Asker
<1> QED
  BY <1>2 DEF Current

\* A step that touches neither the table nor a retriever.
LEMMA QuietAInv == ASSUME AInv, UNCHANGED <<table, asker>> PROVE AInv'
BY DEF AInv, Ids, Current, Internal, Found, table

\* kb-init and kb-drop leave a table without a row.
LEMMA CommandAInv ==
    ASSUME IInv, AInv, KbDrop \/ \E m \in Models : KbInit(m) PROVE AInv'
<1>1. CASE KbDrop
  <2>1. Ids'
    BY <1>1 DEF KbDrop, Ids, NoRows
  <2>2. \A a \in Askers : Current(a)'
    BY <1>1, UnsteadyCurrent DEF KbDrop, AInv
  <2> QED
    BY <2>1, <2>2 DEF AInv
<1>2. ASSUME NEW m \in Models, KbInit(m) PROVE AInv'
  BY <1>2 DEF KbInit, AInv, Ids, Current, Internal, Found
<1> QED
  BY <1>1, <1>2

\* The commits of a build, whoever else builds.
LEMMA CommitAInv ==
    ASSUME IInv, AInv, NEW b \in Builders, Upsert(b) \/ Save(b) PROVE AInv'
<1>1. \A a \in Askers : Current(a)'
  BY UnsteadyCurrent DEF Upsert, Save, AInv
<1>2. IsTable(rows) /\ nextId \in Nat /\ OwnIds(rows, nextId)
  BY DEF IInv, TypeOK, AInv, Ids, OwnIds
<1>3. CASE Upsert(b)
  <2>1. job[b].chunks \in SUBSET Chunk
    BY <1>3, JobType DEF IInv, Upsert
  <2>2. OwnIds(Without(rows, deleted[b]), nextId) /\ IsTable(Without(rows, deleted[b]))
    BY <1>2, WithoutOwnIds, WithoutTable
  <2>3. OwnIds(rows', nextId')
    BY <1>2, <1>3, <2>1, <2>2, UpsertedOwnIds DEF Upsert
  <2> QED
    BY <1>1, <2>3 DEF AInv, Ids, OwnIds
<1>4. CASE Save(b)
  <2>1. DOMAIN rows' = DOMAIN rows /\ nextId' = nextId
    BY <1>4 DEF Save, Embedded
  <2>2. ASSUME NEW p \in DOMAIN rows PROVE rows'[p].id = rows[p].id
    <3>1. \/ rows'[p] = rows[p]
          \/ \E t : rows'[p] = WithVector(rows[p], t, job[b].model)
      BY <1>4 DEF Save, Embedded
    <3>2. rows[p] \in Row
      BY <1>2 DEF IsTable
    <3> QED
      BY <3>1, <3>2 DEF WithVector, Row
  <2>3. Ids'
    BY <2>1, <2>2 DEF AInv, Ids
  <2> QED
    BY <1>1, <2>3 DEF AInv
<1> QED
  BY <1>3, <1>4

\* A retriever's own steps.
LEMMA AskerAInv ==
    ASSUME IInv, AInv, NEW a \in Askers,
           \/ \E m \in Models : Construct(a, m)
           \/ \E question \in Questions : Ask(a, question)
           \/ AskInternal(a)
    PROVE  AInv'
<1>0. asker \in [Askers -> Asker] /\ asker[a] \in Asker
  BY DEF IInv, TypeOK
<1>1. UNCHANGED table /\ Ids'
  BY DEF Construct, Ask, AskInternal, table, AInv, Ids
<1>2. \A q, X : Found(q, X)' = Found(q, X)
  BY <1>1 DEF Found, table
<1>3. \A c \in Askers : c # a => asker'[c] = asker[c]
  BY <1>0 DEF Construct, Ask, AskInternal
<1>4. \A c \in Askers : c # a => Current(c)'
  BY <1>2, <1>3 DEF AInv, Current, Internal
<1>5. Current(a)'
  <2>1. ASSUME NEW m \in Models, Construct(a, m) PROVE Current(a)'
    <3>1. asker'[a].pc = "ready"
      BY <1>0, <2>1 DEF Construct, NoAsker
    <3> QED
      BY <3>1 DEF Current
  <2>2. ASSUME NEW question \in Questions, Ask(a, question) PROVE Current(a)'
    <3> DEFINE q == [question |-> question, model |-> asker[a].model]
    <3>1. q \in Query
      BY <2>2 DEF Ask, IInv, TypeOK, Query
    <3>2. /\ asker'[a].pc = "asked" /\ asker'[a].query = q
          /\ asker'[a].all = Found(q, {})
      BY <1>0, <2>2 DEF Ask, Asker
    <3> QED
      BY <1>2, <3>1, <3>2 DEF Current
  <2>3. CASE AskInternal(a)
    <3>1. CASE asker'[a].pc = "answered"
      <4>1. /\ asker[a].pc = "asked"
            /\ asker'[a].query = asker[a].query /\ asker'[a].all = asker[a].all
            /\ asker'[a].steady = asker[a].steady /\ asker'[a].internal = Internal(a)
        <5> DEFINE answer == [asker[a] EXCEPT !.pc = "answered", !.internal = Internal(a)]
        <5>1. asker[a].pc = "asked" /\ asker'[a] = answer
          BY <1>0, <2>3, <3>1, Zenon DEF AskInternal, NoAsker
        <5>2. /\ answer.query = asker[a].query /\ answer.all = asker[a].all
              /\ answer.steady = asker[a].steady /\ answer.internal = Internal(a)
          BY <1>0 DEF Asker
        <5> QED
          BY <5>1, <5>2
      <4>2. Internal(a)' = IF External = {} THEN asker'[a].all
                           ELSE Found(asker'[a].query, External)
        BY <1>1 DEF Internal, Found, table
      <4>3. Internal(a)' = Internal(a)
        BY <4>1, <4>2 DEF Internal
      <4>4. Found(asker[a].query, {})' = Found(asker[a].query, {})
        BY <1>1, <4>1 DEF Found, table
      <4> QED
        BY <3>1, <4>1, <4>3, <4>4 DEF AInv, Current
    <3>2. CASE asker'[a].pc # "answered"
      <4>1. asker'[a].pc = "ready"
        BY <1>0, <2>3, <3>2 DEF AskInternal, Asker, NoAsker
      <4> QED
        BY <4>1 DEF Current
    <3> QED
      BY <3>1, <3>2
  <2> QED
    BY <2>1, <2>2, <2>3
<1> QED
  BY <1>1, <1>4, <1>5 DEF AInv

\* No retriever has asked anything, and there is no row.
LEMMA InitAInv == Init => AInv
BY DEF Init, AInv, Ids, Current, NoRows, NoAsker

\* Every step, of any number of builders, keeps the ids and the answers apart.
LEMMA NextAInv == IInv /\ AInv /\ [Next]_vars => AInv'
<1> SUFFICES ASSUME IInv, AInv, [Next]_vars PROVE AInv'
  OBVIOUS
<1>1. CASE KbDrop \/ \E m \in Models : KbInit(m)
  BY <1>1, CommandAInv
<1>2. ASSUME NEW b \in Builders, Step(b) \/ \E j \in Jobs : Begin(b, j) \/ Refuse(b, j)
      PROVE  AInv'
  <2>1. Upsert(b) \/ Save(b) \/ UNCHANGED <<table, asker>>
    BY <1>2 DEF Step, Begin, Refuse, BeginDelete, Delete, ReadPending, Embed, Finish, Stop,
                Leave
  <2> QED
    BY <2>1, CommitAInv, QuietAInv
<1>3. ASSUME NEW a \in Askers,
             \/ \E m \in Models : Construct(a, m)
             \/ \E question \in Questions : Ask(a, question)
             \/ AskInternal(a)
      PROVE  AInv'
  BY <1>3, AskerAInv
<1>4. CASE UNCHANGED vars
  BY <1>4, QuietAInv DEF vars, table
<1> QED
  BY <1>1, <1>2, <1>3, <1>4 DEF Next

\* What is found for a question is as many passages as there are positions.
LEMMA FoundCount ==
    ASSUME NEW q, NEW X, IsFiniteSet(Search(rows, q, X))
    PROVE  Cardinality(Found(q, X)) = Cardinality(Search(rows, q, X))
<1> DEFINE S == Search(rows, q, X)
           passage(p) == [pos |-> p, text |-> rows[p].text, vector |-> rows[p].vector]
           f == [p \in S |-> passage(p)]
<1>1. Found(q, X) = {passage(p) : p \in S}
  BY DEF Found
<1>2. \A p \in S : f[p].pos = p
  OBVIOUS
<1>3. f \in Bijection(S, Found(q, X))
  <2>1. f \in [S -> Found(q, X)] /\ \A x \in Found(q, X) : \E p \in S : f[p] = x
    BY <1>1
  <2> HIDE DEF f
  <2>2. \A o, p \in S : f[o] = f[p] => o = p
    BY <1>2
  <2> QED
    BY <2>1, <2>2 DEF Bijection, Injection, Surjection, IsInjective
<1> HIDE DEF f
<1> QED
  BY <1>3, FS_Bijection DEF ExistsBijection

\* Whatever is built, dropped and asked at once, an answer whose two searches saw
\* one table is full of internal passages, and has those the other scope found.
THEOREM InternalIsFull == Spec => []InternalFillsUp
<1>1. Init => IInv /\ AInv
  BY InitIInv, InitAInv
<1>2. IInv /\ AInv /\ [Next]_vars => IInv' /\ AInv'
  BY NextIInv, NextAInv
<1>3. IInv /\ AInv => InternalFillsUp
  <2> SUFFICES ASSUME IInv, AInv, NEW a \in Askers,
                      asker[a].pc = "answered", asker[a].steady
               PROVE  /\ {x \in asker[a].all : x.pos \notin External} \subseteq asker[a].internal
                      /\ \/ Cardinality(asker[a].internal) = TopK
                         \/ \A p \in AboveFloor(rows, asker[a].query, Searchable(rows) \ External) :
                               \E x \in asker[a].internal : x.pos = p
    BY DEF InternalFillsUp
  <2> DEFINE q == asker[a].query
  <2>1. Sortable(rows) /\ q \in Query
    BY DEF IInv, TypeOK, AInv, Ids, Current, Sortable
  <2>2. asker[a].all = Found(q, {}) /\ asker[a].internal = Found(q, External)
    BY DEF AInv, Current, Internal
  <2>3. Search(rows, q, {}) \ External \subseteq Search(rows, q, External)
    BY <2>1, ExclusionHidesNothing
  <2>4. /\ IsFiniteSet(Search(rows, q, External))
        /\ \/ Cardinality(Search(rows, q, External)) = TopK
           \/ AboveFloor(rows, q, Searchable(rows) \ External) = Search(rows, q, External)
    BY <2>1, SearchFills
  <2>5. Cardinality(asker[a].internal) = Cardinality(Search(rows, q, External))
    BY <2>2, <2>4, FoundCount
  <2>6. {x \in asker[a].all : x.pos \notin External} \subseteq asker[a].internal
    BY <2>2, <2>3 DEF Found
  <2>7. \A p \in Search(rows, q, External) : \E x \in asker[a].internal : x.pos = p
    <3> SUFFICES ASSUME NEW p \in Search(rows, q, External)
                 PROVE  \E x \in asker[a].internal : x.pos = p
      OBVIOUS
    <3> DEFINE passage == [pos |-> p, text |-> rows[p].text, vector |-> rows[p].vector]
    <3>1. passage \in asker[a].internal /\ passage.pos = p
      BY <2>2 DEF Found
    <3> QED
      BY <3>1
  <2>8. \/ Cardinality(asker[a].internal) = TopK
        \/ \A p \in AboveFloor(rows, asker[a].query, Searchable(rows) \ External) :
              \E x \in asker[a].internal : x.pos = p
    <3>1. CASE Cardinality(Search(rows, q, External)) = TopK
      BY <2>5, <3>1
    <3>2. CASE AboveFloor(rows, q, Searchable(rows) \ External) = Search(rows, q, External)
      BY <2>7, <3>2
    <3> QED
      BY <2>4, <3>1, <3>2
  <2> QED
    BY <2>6, <2>8
<1> QED
  BY <1>1, <1>2, <1>3, PTL DEF Spec
=============================================================================
