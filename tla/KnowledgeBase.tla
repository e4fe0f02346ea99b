--------------------------- MODULE KnowledgeBase ---------------------------
(***************************************************************************)
(* The knowledge base of rag/store: kb-init and kb-drop, kb-build by any   *)
(* number of builders, and the retrievers of long-lived pipelines.         *)
(*                                                                         *)
(* A build is one transaction that makes the table match the corpus, one   *)
(* read of what lacks a vector, and then, for each batch, a call of the    *)
(* provider and a transaction of its own. Steps of different processes     *)
(* interleave statement by statement under READ COMMITTED.                 *)
(***************************************************************************)
EXTENDS KbTable

CONSTANTS Builders,    \* processes that run kb-build
          Askers,      \* processes that hold a Retriever
          Jobs,        \* the builds that may be asked for
          BatchSize,   \* chunks per provider call
          Exclusive,   \* whether kb-init, kb-drop and kb-build never overlap
          Faults,      \* whether a build may "stop": an error or its death
          MaxCommands  \* bound: kb-init, kb-drop, kb-build and questions

Job == [model : Models, chunks : SUBSET Chunk, force : BOOLEAN]

ASSUME BuildAssumption ==
    /\ Null \notin Jobs
    /\ Jobs \subseteq Job /\ \A j \in Jobs : IsFiniteSet(j.chunks)
    /\ BatchSize \in Nat \ {0}
    /\ Exclusive \in BOOLEAN
    /\ Faults \subseteq {"stop"}
    /\ MaxCommands \in Nat

VARIABLES width,    \* the dimension of the vector column, 0 when there is no table
          rows,     \* the committed rows of kb_chunk, by position
          nextId,   \* the identity sequence
          pc,       \* where each builder is
          job,      \* the arguments of its command
          seen,     \* the ids its DELETE saw as absent from the corpus
          deleted,  \* the ids it has deleted and not committed yet
          todo,     \* the chunks it still has to embed
          exit,     \* the exit status of its last command
          asker,    \* each retriever and its last answer
          commands  \* commands given so far

vars == <<width, rows, nextId, pc, job, seen, deleted, todo, exit, asker, commands>>
table == <<width, rows, nextId>>
building == <<pc, job, seen, deleted, todo, exit>>

PCs == {"idle", "sync", "delete", "upsert", "pending", "embed", "save", "stats"}

\* Inside the transaction of sync_chunks, once it has touched the table.
InSync(b) == pc[b] \in {"delete", "upsert"}

\* A retriever, its last question and the passages found for it; `steady' is
\* auxiliary: nothing was committed since its first search.
Passage == [pos : Positions, text : Texts, vector : Vector]
Asker == [pc : {"none", "ready", "asked", "answered"}, query : Query \cup {Null},
          model : Models \cup {Null}, all : SUBSET Passage, internal : SUBSET Passage,
          steady : BOOLEAN]

NoAsker == [pc |-> "none", query |-> Null, model |-> Null, all |-> {}, internal |-> {},
            steady |-> TRUE]

Init ==
    /\ width = 0 /\ rows = NoRows /\ nextId = 1
    /\ pc = [b \in Builders |-> "idle"]
    /\ job = [b \in Builders |-> Null]
    /\ seen = [b \in Builders |-> {}]
    /\ deleted = [b \in Builders |-> {}]
    /\ todo = [b \in Builders |-> {}]
    /\ exit = [b \in Builders |-> "none"]
    /\ asker = [a \in Askers |-> NoAsker]
    /\ commands = 0

-----------------------------------------------------------------------------
(* kb-init and kb-drop                                                     *)

Command ==
    /\ commands < MaxCommands
    /\ commands' = commands + 1

\* Nobody is in the middle of a command, where commands never overlap.
Alone == Exclusive => \A b \in Builders : pc[b] = "idle"

\* A commit: what the retrievers have found is of an earlier table.
Unsteady == asker' = [a \in Askers |-> [asker[a] EXCEPT !.steady = FALSE]]

\* create_all with checkfirst: a table that is there keeps its dimension.
KbInit(m) ==
    /\ Command /\ Alone
    /\ width = 0
    /\ width' = Width[m]
    /\ UNCHANGED <<rows, nextId, building, asker>>

\* DROP SCHEMA waits for every transaction that has touched the table.
KbDrop ==
    /\ Command /\ Alone
    /\ width # 0
    /\ \A b \in Builders : ~InSync(b)
    /\ width' = 0 /\ rows' = NoRows /\ nextId' = 1
    /\ Unsteady
    /\ UNCHANGED building

-----------------------------------------------------------------------------
(* kb-build                                                                *)

Goto(b, l) == pc' = [pc EXCEPT ![b] = l]

\* verify_dimension, then load_corpus: past it the build may touch the table.
Begin(b, j) ==
    /\ Command /\ Alone
    /\ pc[b] = "idle"
    /\ width = Width[j.model]
    /\ Goto(b, "sync")
    /\ job' = [job EXCEPT ![b] = j]
    /\ UNCHANGED <<table, seen, deleted, todo, exit, asker>>

\* The table is missing or has another dimension.
Refuse(b, j) ==
    /\ Command /\ Alone
    /\ pc[b] = "idle"
    /\ width # Width[j.model]
    /\ exit' = [exit EXCEPT ![b] = "error"]
    /\ UNCHANGED <<table, pc, job, seen, deleted, todo, asker>>

\* The DELETE of sync_chunks takes its snapshot.
BeginDelete(b) ==
    /\ pc[b] = "sync"
    /\ width # 0
    /\ ~Duplicated(job[b].chunks)
    /\ Goto(b, "delete")
    /\ seen' = [seen EXCEPT ![b] = IdsAt(rows, DOMAIN rows \ Places(job[b].chunks))]
    /\ UNCHANGED <<table, job, deleted, todo, exit, asker, commands>>

\* The first BatchSize chunks of what is left.
Batch(b) == {c \in todo[b] : Rank(Places(todo[b]), c.pos) < BatchSize}

\* The rows another build has deleted and not committed.
Locked(b) == UNION {deleted[c] : c \in Builders \ {b}}

\* The rows whose fate builder b waits for.
Awaited(b) ==
    CASE pc[b] = "delete" -> seen[b]
      [] pc[b] = "upsert" -> IdsAt(rows, Places(job[b].chunks))
      [] pc[b] = "save" -> {c.id : c \in Batch(b)}
      [] OTHER -> {}

Unlocked(b) == Awaited(b) \cap Locked(b) = {}

Delete(b) ==
    /\ pc[b] = "delete"
    /\ Unlocked(b)
    /\ Goto(b, "upsert")
    /\ deleted' = [deleted EXCEPT ![b] = seen[b] \cap IdsAt(rows, DOMAIN rows)]
    /\ seen' = [seen EXCEPT ![b] = {}]
    /\ UNCHANGED <<table, job, todo, exit, asker, commands>>

\* The upsert, and the commit of both statements.
Upsert(b) ==
    /\ pc[b] = "upsert"
    /\ Unlocked(b)
    /\ Goto(b, "pending")
    /\ rows' = Upserted(Without(rows, deleted[b]), job[b].chunks, nextId)
    /\ nextId' = nextId + Cardinality(Places(job[b].chunks))
    /\ deleted' = [deleted EXCEPT ![b] = {}]
    /\ Unsteady
    /\ UNCHANGED <<width, job, seen, todo, exit, commands>>

\* Mutant of NextBatch: the early return for "nothing pending" is gone.
AlwaysEmbed(b) == Goto(b, "embed")

\* After a batch, or after the read of the pending chunks.
NextBatch(b) == Goto(b, IF todo'[b] = {} THEN "stats" ELSE "embed")

ReadPending(b) ==
    /\ pc[b] = "pending"
    /\ width # 0
    /\ todo' = [todo EXCEPT ![b] = Pending(rows, job[b].model, job[b].force)]
    /\ NextBatch(b)
    /\ UNCHANGED <<table, job, seen, deleted, exit, asker, commands>>

\* The provider returns the batch's vectors.
Embed(b) ==
    /\ pc[b] = "embed"
    /\ Goto(b, "save")
    /\ UNCHANGED <<table, job, seen, deleted, todo, exit, asker, commands>>

\* One UPDATE by id for each vector, committed together. A row that is gone is
\* no error; a vector of another dimension than the column's is.
Save(b) ==
    /\ pc[b] = "save"
    /\ width = Width[job[b].model]
    /\ Unlocked(b)
    /\ rows' = Embedded(rows, Batch(b), job[b].model)
    /\ todo' = [todo EXCEPT ![b] = @ \ Batch(b)]
    /\ NextBatch(b)
    /\ Unsteady
    /\ UNCHANGED <<width, nextId, job, seen, deleted, exit, commands>>

\* Mutant of Leave: the transaction is not rolled back, and keeps its locks.
LeaveOpen(b, status) ==
    /\ Goto(b, "idle")
    /\ exit' = [exit EXCEPT ![b] = status]
    /\ job' = [job EXCEPT ![b] = Null]
    /\ seen' = [seen EXCEPT ![b] = {}]
    /\ todo' = [todo EXCEPT ![b] = {}]
    /\ UNCHANGED <<table, deleted, asker, commands>>

Leave(b, status) ==
    /\ Goto(b, "idle")
    /\ exit' = [exit EXCEPT ![b] = status]
    /\ job' = [job EXCEPT ![b] = Null]
    /\ seen' = [seen EXCEPT ![b] = {}]
    /\ deleted' = [deleted EXCEPT ![b] = {}]
    /\ todo' = [todo EXCEPT ![b] = {}]
    /\ UNCHANGED <<table, asker, commands>>

\* kb_stats, and the exit status of success.
Finish(b) ==
    /\ pc[b] = "stats"
    /\ width # 0
    /\ Leave(b, "ok")

\* What raises whatever else happens: a corpus with two chunks at one position, a
\* table that is gone, a column of another dimension.
MustStop(b) ==
    \/ pc[b] = "sync" /\ Duplicated(job[b].chunks)
    \/ pc[b] \in {"sync", "pending", "save", "stats"} /\ width = 0
    \/ pc[b] = "save" /\ width # Width[job[b].model]

\* PostgreSQL breaks a cycle of waits by failing one of its statements.
WaitsFor(b, c) == b # c /\ Awaited(b) \cap deleted[c] # {}
Deadlocked(b) ==
    \E S \in SUBSET Builders :
        /\ b \in S
        /\ \A c \in S : (\E d \in S : WaitsFor(c, d)) /\ (\E d \in S : WaitsFor(d, c))

\* An error anywhere, or the death of the process: the open transaction is
\* rolled back, what was committed stays.
Stop(b) ==
    /\ pc[b] # "idle"
    /\ "stop" \in Faults \/ MustStop(b) \/ Deadlocked(b)
    /\ Leave(b, "error")

-----------------------------------------------------------------------------
(* Retrievers                                                              *)

\* Retriever.__init__: the only time that compatibility is checked.
Construct(a, m) ==
    /\ Command
    /\ width = Width[m]
    /\ asker' = [asker EXCEPT ![a] = [NoAsker EXCEPT !.pc = "ready", !.model = m]]
    /\ UNCHANGED <<table, building>>

Found(q, excluded) ==
    {[pos |-> p, text |-> rows[p].text, vector |-> rows[p].vector] :
        p \in Search(rows, q, excluded)}

\* A search fails on a missing table, and on a column of another dimension.
Answers(a) == width = Width[asker[a].model]

\* retrieve_scoped: the search over every source.
Ask(a, question) ==
    LET q == [question |-> question, model |-> asker[a].model] IN
    /\ Command
    /\ asker[a].pc \in {"ready", "answered"}
    /\ Answers(a)
    /\ asker' = [asker EXCEPT ![a].pc = "asked", ![a].query = q,
                              ![a].all = Found(q, {}), ![a].internal = {}, ![a].steady = TRUE]
    /\ UNCHANGED <<table, building>>

\* The same vector over the internal documents only, in a statement of its own. If
\* nothing is external, there is no second search.
Internal(a) ==
    IF External = {} THEN asker[a].all ELSE Found(asker[a].query, External)

AskInternal(a) ==
    /\ asker[a].pc = "asked"
    /\ IF External = {} \/ Answers(a)
       THEN asker' = [asker EXCEPT ![a].pc = "answered", ![a].internal = Internal(a)]
       ELSE asker' = [asker EXCEPT ![a] = [NoAsker EXCEPT !.pc = "ready",
                                                          !.model = asker[a].model]]
    /\ UNCHANGED <<table, building, commands>>

-----------------------------------------------------------------------------
Step(b) ==
    \/ BeginDelete(b) \/ Delete(b) \/ Upsert(b) \/ ReadPending(b)
    \/ Embed(b) \/ Save(b) \/ Finish(b) \/ Stop(b)

Next ==
    \/ \E m \in Models : KbInit(m)
    \/ KbDrop
    \/ \E b \in Builders : Step(b) \/ \E j \in Jobs : Begin(b, j) \/ Refuse(b, j)
    \/ \E a \in Askers :
          \/ \E m \in Models : Construct(a, m)
          \/ \E question \in Questions : Ask(a, question)
          \/ AskInternal(a)

\* A build that was started is a process that runs; nobody has to start one.
Fairness == \A b \in Builders : WF_vars(Step(b))

Spec == Init /\ [][Next]_vars /\ Fairness

-----------------------------------------------------------------------------
(* Properties                                                              *)

\* The types, and where a build's working state may be used: locks are held inside
\* its transaction only, and the provider is never called with an empty batch.
TypeOK ==
    /\ \A b \in Builders :
          /\ pc[b] = "idle" <=> job[b] = Null
          /\ pc[b] # "delete" => seen[b] = {}
          /\ pc[b] # "upsert" => deleted[b] = {}
          /\ pc[b] \in {"embed", "save"} <=> todo[b] # {}
    /\ width = 0 => rows = NoRows
    /\ \A a \in Askers : asker[a].pc # "none" => asker[a].model \in Models
    /\ width \in {0} \cup {Width[m] : m \in Models}
    /\ IsTable(rows)
    /\ nextId \in Nat
    /\ pc \in [Builders -> PCs]
    /\ job \in [Builders -> Jobs \cup {Null}]
    /\ seen \in [Builders -> SUBSET Nat]
    /\ deleted \in [Builders -> SUBSET Nat]
    /\ todo \in [Builders -> SUBSET Stored]
    /\ exit \in [Builders -> {"none", "ok", "error"}]
    /\ asker \in [Askers -> Asker]
    /\ commands \in 0..MaxCommands

\* A stored vector has the dimension of its column, is of the model recorded
\* beside it, and is recorded at all whenever a model is: whatever drops, creates
\* and rebuilds the table while a build still holds vectors of the old one.
VectorsFit ==
    \A p \in DOMAIN rows :
        IF rows[p].vector = Null THEN rows[p].model = Null
        ELSE rows[p].vector.model = rows[p].model /\ Width[rows[p].model] = width

\* The vector beside a text is a vector of that text (sync_chunks: a stale vector
\* silently poisons the search).
VectorOfItsText ==
    \A p \in DOMAIN rows :
        rows[p].vector # Null => rows[p].vector.text = rows[p].text

\* A build about to exit with success has the table hold its corpus, each chunk
\* with a vector of its model, whatever interrupted builds came before.
BuiltMeansComplete ==
    \A b \in Builders :
        pc[b] = "stats" =>
            /\ DOMAIN rows = Places(job[b].chunks)
            /\ \A c \in job[b].chunks :
                   /\ rows[c.pos].text = c.text
                   /\ rows[c.pos].vector = [text |-> c.text, model |-> job[b].model]

\* A chunk is paid for once by a model, for as long as its row keeps its text: the
\* vector stored in the row gives way to none but that of a batch that was embedded,
\* and no build, unless forced, sends the provider a chunk whose row holds the
\* vector of its text by the build's model. The row is what counts and not the text:
\* a text that moves to another position is bought again there, and so is a batch
\* whose build died between the provider's answer and the save.
ChunkPaidOnce ==
    [][/\ \A p \in DOMAIN rows \cap DOMAIN rows' :
             LET old == rows[p] new == rows'[p] IN
             old.vector # Null /\ new.id = old.id /\ new.text = old.text =>
                \/ new.vector = old.vector
                \/ \E b \in Builders :
                      /\ pc[b] = "save" /\ \E c \in Batch(b) : c.id = old.id
                      /\ new.vector = [text |-> old.text, model |-> job[b].model]
       /\ \A b \in Builders :
             pc[b] = "embed" /\ pc'[b] = "save" /\ ~job[b].force =>
                \A c \in Batch(b), p \in DOMAIN rows :
                   rows[p].id = c.id =>
                      rows[p].vector # [text |-> c.text, model |-> job[b].model]
      ]_vars

\* The internal passages among those of every source are found among internal
\* documents too, and these are fewer than TopK only when there are no others near
\* enough: the exclusion comes before the limit, and an external document that
\* ranks first hides nothing.
InternalFillsUp ==
    \A a \in Askers :
        asker[a].pc = "answered" /\ asker[a].steady =>
            /\ {x \in asker[a].all : x.pos \notin External} \subseteq asker[a].internal
            /\ \/ Cardinality(asker[a].internal) = TopK
               \/ \A p \in AboveFloor(rows, asker[a].query, Searchable(rows) \ External) :
                     \E x \in asker[a].internal : x.pos = p

\* A build that was started ends, whatever it has to wait for.
BuildEnds == \A b \in Builders : pc[b] # "idle" ~> pc[b] = "idle"

\* One builder at a time implements DocIndex: a reader of the table sees the
\* corpus of some build, each text alone or beside its own vector.
Index == INSTANCE DocIndex WITH
    there <- width,
    shown <- [p \in DOMAIN rows |-> [text |-> rows[p].text, vector |-> rows[p].vector]]

KeepsIndex == Index!DSpec
=============================================================================
