# rail-punctuality-rag in TLA+

Formal models of the system in this repository, their TLC configurations, and
theorems about them that TLAPS checks. `PROJECT.json` lists the components, the
runs, the map from definitions to source lines, the hazards and the theorems.

## 1. The system

A PostgreSQL mirror of a Gold export of Belgian rail punctuality data, a
knowledge base of documentation chunks in pgvector, and an assistant that
answers questions by generating SQL or by citing the documentation. Operators
run `scripts/manage.py`; users call the HTTP API or `manage.py ask`.

| Component | State | Operations | Talks to |
|---|---|---|---|
| Gold loader (`ingestion/loader.py`) | `gold.fact_stop_event`, `gold.stg_fact_stop_event`, the three dimensions | `load_dimensions`, `load_fact` (stage, count, validate, clear, promote) | audit, readers, validation; shares tables with every other load |
| Load audit (`db/run_log.py`) | `ops.load_runs` | `start_run`, `finish_run`, `fail_run`, each on its own connection | read by the profile snapshot |
| Manifest gate (`ingestion/manifest.py`) | none; `_manifest/coverage.json` | `read_manifest`, `assert_dimension_counts`, `assert_fact_coverage` | called by the load commands |
| Readers (`fact_source.py`, `gold_source.py`, `data_contracts.py`) | the export directory | read a layout within a scope, count it | loader, gate |
| Schema (`db/models.py`, `schema.py`, `partitions.py`) | namespaces, constraints, monthly partitions without DEFAULT | `db-init`, `db-drop`, readiness | everything in Gold |
| Finalize (`derivations.py`, `db/rollups.py`) | station activity, `agg_station_day`, `agg_relation_day` | `finalize`, `refresh-rollups`, `assert_rollups_fresh` | reads the fact while loads run |
| Profile (`rag/context/profile.py`) | `ops.profile_snapshot`, one row | `load_profile`: key, read, measure, write | audit, fact; read at pipeline start |
| Knowledge base (`rag/store/`) | `kb_chunk` rows with hash, vector and model | `kb-init`, `kb-drop`, `kb-build` (sync, pending, embed, save), search | embedder; searched by the pipeline |
| Answer pipeline (`rag/pipeline.py`, `router.py`, `rag/sql/`) | built once: profile, prompt, partitions, retriever | `answer`: retrieve, route, generate, guard, repair, check, execute, narrate | providers, knowledge base, database |
| Providers (`rag/providers/`) | none | generate, embed, with retries | remote API |
| Evaluation (`eval/`) | budget file per quota day, results file, caches | `eval`: plan, run cases, resume | pipeline, providers |
| HTTP API (`api/`) | the pipeline and readiness | ask, health, readiness | pipeline |
| Documents (`ingestion/docs/`) | artefact, `.part`, manifest, parsed JSONL | `docs-fetch`, `docs-parse` | remote site; feeds kb-build |
| Observability (`observability/trace.py`) | the active trace in a ContextVar | spans, annotations, provider calls | everyone |

What is hard about it: nothing takes a lock of the application's own. Loads,
finalizes, builds and evaluations are separate processes that meet in shared
tables and files; each is several statements, several transactions or several
files long; and the audit trail is on purpose not part of the transaction it
describes.

What makes each component correct:

- *Loader*: a load replaces exactly its window, or changes nothing; the fact
  satisfies its grain, keys and partitions whatever interleaves; the counts are
  those of the rows written; a command that exits with success has landed its
  window; no load waits for ever.
- *Audit*: an entry never contradicts what happened to the data.
- *Manifest gate*: no truncated export is promoted; a success means complete.
- *Finalize*: both rollups describe one state of the fact; a stale one is
  noticed; the previous content survives a failure.
- *Profile*: a reused profile describes the data it is served with.
- *Knowledge base*: a vector is of the text it stands beside and of the model
  recorded with it; an interrupted build is completed by the next one.
- *Pipeline*: nothing the guard refused reaches the executor; every question
  ends in one answer or one error; at most one repair; a cut result is flagged;
  the trace names the span a failure started in.
- *Evaluation*: a verdict is what the case deserves, a stopped run resumes with
  the rest, the day's counter is not behind what was sent, and the allowance is
  overdrawn by retries only.
- *HTTP API*: a fault of the system is never reported as a fault of the question.
- *Documents*: a file under an artefact's name has the pinned digest; a parsed
  document has every character once, page furniture and repeated headers apart;
  chunks keep every character, and hold next to nothing of other sections than the
  one whose heading they have.

## 2. Modules

| Module | Kind | Models |
|---|---|---|
| `GoldRows` | pure | rows, load scopes, the rules of `validation.py`, the constraints of `fact_stop_event` |
| `GoldLoad` | state machine | `loader.py`, `run_log.py`, the manifest gate, `load-dims` and `load-fact` |
| `WindowLoad` | abstract specification | what a load promises a reader of `gold.*` and `ops.load_runs` |
| `MCGoldLoad` | TLC instance | exports, jobs and keys for the five configurations |
| `GoldLoadProofs` | theorems | the types, the audit, the soundness of the fact and, for loads that keep apart, the tallies, the gate and the refinement of `WindowLoad` |
| `KbTable` | pure | the rows of `rag.kb_chunk` and what single statements of `rag/store/repository.py` do with them |
| `KnowledgeBase` | state machine | `kb-init`, `kb-drop`, `kb-build` (`rag/store/builder.py`), and the retrievers of long-lived pipelines |
| `DocIndex` | abstract specification | what the knowledge base promises a reader of `kb_chunk` |
| `MCKnowledgeBase` | TLC instance | corpora, models and distances for the two configurations |
| `KnowledgeBaseProofs` | theorems | its types, its vectors, complete and economical builds, the refinement of `DocIndex` |
| `GoldServe` | state machine | the stored profile and the daily rollups against loads: `load_profile`, `finalize`, `refresh-rollups`, `assert_rollups_fresh`, the start of a pipeline, `db-init`, `db-drop` |
| `MCGoldServe` | TLC instance | landings and processes for the two configurations |
| `GoldServeProofs` | theorems | its types, recent profiles, rollups that never go back |
| `SqlGuard` | pure | what `validate_sql` accepts, `_enforce_limit`, the executor's truncation |
| `Compare` | pure | `eval/compare.py` as it computes, and a definition of what it decides |
| `Generators` | state machine | one call of `generate`: the cache, the budget, the retries of `providers/gemini.py` |
| `AnswerPipeline` | state machine | `rag/pipeline.py` and `rag/router.py`: one question, its trace, its failures |
| `AskService` | state machine | `api/`: startup, `POST /ask`, the mapping of exceptions to statuses |
| `EvalRun` | state machine | `eval/runner.py`, `eval/cli.py`: sessions, cases, verdicts, the results file, deaths |
| `Assistant` | composition | the server and the evaluation over one pipeline, and their properties |
| `Answering` | abstract specification | what the pipeline promises whoever asks |
| `MCAssistant` | TLC instance | a policy, questions, replies, golden cases, ways of starting |
| `AssistantProofs` | theorems | only guarded queries execute, cut results are flagged, the refinement of `Answering`, the trace names where a failure started |
| `EvalProofs` | theorems | what an evaluation spends (overdrafts are bounded, what is spent is charged), what its sessions leave in the results file, and the types of `Assistant` |
| `PdfReader` | pure | `pdf_reader.py`: from the words, characters and marks of pages to blocks; what blocks are meant to keep |
| `Passages` | pure | `store/chunking.py` and `store/glossary.py` |
| `DocPipeline` | state machine | `docs-fetch`, `docs-parse` and the reading half of `kb-build`, over one disk |
| `MCDocPipeline` | TLC instance | documents, corpora and scenarios |
| `FoldTheorems` | theorems | what the folds of the community modules return, for any operator they fold with |
| `ReadingProofs` | theorems | the passages of a text keep all of it, for every text and every pair of limits; the blocks of a document keep its characters, for every document and registry |
| `DocPipelineProofs` | theorems | types; what is at an artefact's path is a document its version was pinned to; what a parse manifest vouches for, and what a reader is given, is all of it; the blocks of a document keep its characters, the chunks of the corpus its text |

### How GoldLoad corresponds to the code

Each element of `Loaders` is a process that runs load commands. The unit of
interleaving is one SQL statement under READ COMMITTED, PostgreSQL's default,
which `db/engine.py` leaves in place. A statement sees what was committed when it
began and its own transaction's changes. One that meets a row which another open
transaction has changed waits for it and keeps the rows it has already changed. So
the statements that can wait are a snapshot (`BeginClearing`, `BeginDelete`,
`BeginUpsert`), one step per row (`ClearRow`, `DeleteRow`, `UpsertRow`), whose guard
is the wait (`StagedUnlocked`, `Unlocked`), and an end (`Stage`, `DeleteScope`,
`Upsert`). In which order a statement reaches its rows is the server's affair: it
takes any row it has left, and counts as waiting for whoever holds one of those
(`WaitsFor`). Transactions that wait for each other in a cycle are `Deadlocked`, and
the server aborts one of them (`Aborted`), which `load_fact` handles as any other
error of a statement.

| Variable | Stands for |
|---|---|
| `fact`, `staging`, `dims` | committed rows. A tuple of the fact carries the run that inserted it (`tid`), because a DELETE re-reads the rows of its snapshot and an `ON CONFLICT` update keeps the tuple |
| `tx[l]` | loader l's transaction: what it deleted and inserted, its snapshots, its two counts, `dirty` for `bool(violations)` |
| `runs` | `ops.load_runs`; `fate` is auxiliary, what became of the load's transaction |
| `pc`, `job`, `entry` | where the command is, its arguments, `entry_id` |
| `exit` | the exit status |
| `commands` | bounds a behaviour, by `MaxCommands` |

| Actions | Code |
|---|---|
| `Begin`, `Refuse` | `_cmd_load_dims` or `_cmd_load_fact` up to `start_run` |
| `BeginClearing`, `ClearRow`, `Stage`, `StageFails` | `_stage_fact` with the readers |
| `CountStaged`, `Validate` | `_staged_in_scope`, `validate_staged_fact` and the policy |
| `BeginDelete`, `DeleteRow`, `DeleteScope` | `_delete_fact_scope` |
| `CountPromoted`, `BeginUpsert`, `UpsertRow`, `Upsert` | `_promote`: its count, then its INSERT, whose foreign keys are looked up when its rows are written |
| `Aborted` | a deadlock, as a SQLAlchemyError |
| `Commit` | leaving `engine.begin()`; `acked = FALSE` is a lost answer to COMMIT |
| `UpsertDimension`, `UpsertDimensionFails`, `StartNextDimension` | the loop of `load_dimensions` |
| `FinishRun`, `FailRun`, `CloseRaises`, `StartNextRaises` | `run_log.py`; `_close` may raise before or after its update is applied |
| `Gate` | `assert_dimension_counts`, `assert_fact_coverage`, the exit status |
| `StatementFails`, `Crash` | a SQLAlchemyError; the death of a process |

Abstracted: a row keeps its date, its (stop point, train) pair, its station and
relation keys, a tag that tells equal-grain rows of one export apart, and whether
its other columns pass the NOT NULL and CHECK constraints; `measured_arrivals` is
derived in SQL from a column that is kept in `fits` and cannot disagree with its
CHECK. Batches of one transaction are one statement, since nothing is visible
between them, and rejected samples, messages and logging are left out.
`UpsertDimension` is one action: its rows become visible at its commit and its key
set does not depend on what it waited for. So a load of the dimensions never waits
here; in the code two of them can wait for each other's keys, and the server would
abort one. Two equal rows of an export are one.
The five rule queries of `validate_staged_fact` are one action, though under
READ COMMITTED each is a statement: what they decide together is a snapshot the
later statements do not share anyway.

### How KnowledgeBase corresponds to the code

Each element of `Builders` is a process that runs `kb-build`; each element of
`Askers` holds a `Retriever` that was constructed once. A build is one
transaction that makes the table match the corpus, one read of what lacks a
vector, and then, for each batch, a call of the provider and a transaction of its
own. The DELETE of the first transaction is two actions, its snapshot and its
effect, as in `GoldLoad`.

| Variable | Stands for |
|---|---|
| `width` | the dimension in the type of `kb_chunk.embedding`; 0 when there is no table |
| `rows`, `nextId` | the committed rows by position, the identity sequence |
| `pc`, `job` | where a builder is; model, corpus and `--force` |
| `seen`, `deleted` | its open transaction: what the DELETE will remove, what it has removed |
| `todo` | `pending_chunks` minus the batches saved |
| `asker` | what `Retriever.__init__` verified, the last question, the two scopes found for it; `steady` is auxiliary, no commit since its first search |
| `exit`, `commands` | the exit status; bounds a behaviour, by `MaxCommands` |

| Actions | Code |
|---|---|
| `KbInit`, `KbDrop` | `create_kb_schema`, `drop_kb_schema` |
| `Begin`, `Refuse` | `verify_dimension`, the embedder's dimension, `load_corpus` with the declared glossaries |
| `BeginDelete`, `Delete`, `Upsert` | `sync_chunks`; its commit is part of `Upsert` |
| `ReadPending` | `pending_chunks` |
| `Embed`, `Save` | one pass of the loop: the provider's answer, `save_embeddings` |
| `Finish` | `kb_stats` and the exit status |
| `Stop` | an error of any step, the death of the process, or the victim of a deadlock |
| `Construct`, `Ask`, `AskInternal` | `Retriever.__init__` and the two searches of `retrieve_scoped` |

Abstracted: positions are numbers in the order of the chunks as proposed, a text
stands for its digest, a vector is the pair of the text and the model it was
computed from, and a distance is a constant function of two vectors. The corpus
is read with the checks before it, since nothing else writes it. The updates of
one batch are one action that waits for all its rows at once. In the code they
wait one after the other, so a batch may hold some rows while it waits and be in a
cycle with a sync; either way it ends as `Save` or as `Stop`, with all or none of
the batch. Ids count the rows an INSERT proposes, as PostgreSQL's identity
does, but not those of statements that failed: the gaps have no effect. A refused
`kb-drop` without `--yes`, and a `kb-init` on a table that is there, change
nothing.

### How GoldServe corresponds to the code

Each commit that changes Gold makes a version, `facts[v]` is the set of days that
version v holds, and everything derived from Gold is known by the versions it was
computed from. Which rows a load writes is the business of `GoldLoad`; here a load
is its three commits, as `WindowLoad` has them: the entry opened, the window
replaced, the entry closed.

| Variable | Stands for |
|---|---|
| `there`, `facts` | the Gold schema and its content, by version |
| `rollup` | the version `agg_station_day` and `agg_relation_day` were built from, 0 when empty |
| `runs`, `sequence`, `now` | `max(id)` and `max(finished_at)` of `ops.load_runs`; its identity sequence; the server's clock, which a closing transaction reads when it begins, not when it commits |
| `snapshot` | the row of `ops.profile_snapshot`; `at` is auxiliary, the version at which its key was read |
| `load`, `refresher`, `server` | where each load, each finalize or refresh, and each starting pipeline is, with what it has read |
| `promised`, `unlogged` | auxiliary: the newest version at which a rebuild began that has succeeded; Gold changed and `load_runs` does not show it |
| `commands` | bounds a behaviour, by `MaxCommands` |

| Actions | Code |
|---|---|
| `TakeId`, `OpenRun`, `Land`, `LoadFails`, `BeginClose`, `Close`, `Vanish` | `start_run`, whose INSERT takes an id that it commits later, perhaps after a larger one; the transaction of a load; `_close`; the death of the process or a close that fails |
| `BeginFinalize`, `DeriveActivity` | `_cmd_finalize`, `derive_station_activity`: it changes what the profile samples and writes no entry in `load_runs` |
| `BeginRefresh`, `Truncate`, `FillFirst`, `FillLast`, `RefreshFails`, `RefreshStops` | `refresh_rollups`: each TRUNCATE, each INSERT .. SELECT, the commit; a statement that finds no table; any other error or death, wherever the rebuild is |
| `Start`, `KeyDates`, `KeyRuns`, `NoKey` | `AnswerPipeline.__init__`, `_snapshot_key` |
| `ReadSnapshot`, `Unreadable`, `MeasureFact`, `MeasureDims`, `WriteSnapshot`, `Unwritten` | the rest of `load_profile` |
| `CheckFact`, `CheckFirst`, `CheckSecond`, `StartFails` | `assert_rollups_fresh`; a check or a measurement that raises |
| `DbDrop`, `DbInit` | `drop_schema` without `--include-ops`, `create_schema` |

Abstracted: `MeasureDims` is the four statements on the dimensions at once. The
integrity check and the index statements of `finalize` change nothing modelled;
where they fail, the command stops, as `RefreshFails` does. The read of the
partitions between the profile and the check is left out, and so is what
`Retriever.__init__` does, which `KnowledgeBase` has. `DbDrop` waits for all
transactions that touched Gold at once: in the code it takes one table after the
other, and PostgreSQL would fail it or a reader if they met in a cycle.

### How Assistant corresponds to the code

A pipeline is constructed once and shares nothing that changes between its
questions, so one question at a time says what a pipeline does with any. Around it
stands one of two hosts, chosen by `setting`: the server of the API, whose
pipeline calls the model behind the retries only, or `manage.py eval`, which puts
`BudgetedGenerator` and, unless `--no-cache`, `CachedGenerator` in front of it.
One step is what one process does between two points at which it may die, the
quota day may turn, or the provider may answer in a way of its own.

| Variable | Stands for |
|---|---|
| `setting` | the host, the layers of the generator, the daily limit, the cases, `narrate`, `explain`, `has_data`, and which faults may happen |
| `day`, `used`, `stored` | the quota day; the budget file of each day; the replies in the cache, by prompt |
| `sent` | auxiliary: the requests the provider received on each day |
| `call` | the call of `generate` under way: where it is, its prompt, what it read of the counter, its attempts, its reply or error |
| `q` | the locals of `_answer` and the trace of the question: `spans`, `rejected`, `noted` (`_Active._failures`), `retries`, and what was answered or raised. `decided` and `broken` are auxiliary |
| `server`, `status` | whether `build_state` returned; the status of the last response |
| `session` | the evaluation under way: where it is, the ids it skips, its verdict |
| `lines`, `tail` | the results file, and whether its last line has its newline |
| `exit`, `sessions`, `crashes` | how the last session ended; bounds, by `MaxSessions` and `MaxCrashes` |

| Actions | Code |
|---|---|
| `Ask`, `Retrieve` | `_answer` up to `retrieve_scoped` |
| `RouteLexically`, `RouteByModel`, `RouteByDefault` | `classify`: markers, the model's word, the default after a `ProviderError` |
| `GenerateSql`, `Guard`, `Repair`, `GuardAgain` | `_generate_sql`, `_validate_with_retry`, `_guard` |
| `CheckSql`, `Execute`, `Narrate`, `AnswerConceptual` | `_check_sql`, `execute_safe_query`, `_narrate`, `_answer_conceptual` |
| `CallFails` | an exception of `generate` that its stage lets through |
| `Look`, `Reserve`, `Charge`, `Request`, `Keep` | `CachedGenerator.generate`, `DailyBudget.reserve`, one attempt of `_Retrying.run`, the write of the cache |
| `Midnight` | the provider's day turns, between any two steps |
| `StartUp`, `PostAsk`, `Respond` | `build_state`, the endpoint, the exception handlers |
| `Begin`, `Abort`, `LoadReferences`, `Build` | `_execute` up to the first case |
| `NextCase`, `Settle`, `Record`, `Report` | one pass of `run_cases`: the answer, `_reconcile`, the verdict, the append; the end of the session |
| `Crash`, `CrashInAppend` | the death of the process; a line that goes out in part or without its newline |

Abstracted: a query is what the guard reads of its syntax tree, with the rows it would
return and what the planner says of it; a reply of the model is a member of the menu
of its question; a prompt is what it is built from. Numbers in results are units with
a count of decimal places, as `compare.py` rounds them; truth values, text and NULL
are values of their own, though a truth value equals the number 1 or 0. The spacing of
calls (`RateLimiter`) and the backoff only take time. An evaluation runs alone, over
one run of one name; its meta file and its report are made of what is modelled. Lint
findings and the count of partitions are annotations that decide nothing.

`Compare` has the matching of `_matchable` as it is written, with its `seen` set
and its displaced owners. `SameAnswer` is the reference: some choice of columns and
scales and some permutation of the rows under which every pair of cells agrees.

### How DocPipeline corresponds to the code

| Variable | Stands for |
|---|---|
| `registry` | the entry that a command loads from the registry: version, digest, parse block |
| `disk` | the bytes of each inode: a fetch writes to the file it has opened, also when the name has gone to another |
| `part`, `raw` | by version, the inode at the `.part` path and at the artefact's |
| `manifest` | the digest in the fetch manifest, by its document; `Torn` between the two halves of `write_text` |
| `stream`, `meta` | the JSONL of the blocks; the parse manifest |
| `fetch[f]`, `parse` | where each fetch and the parse are, with what they have read |
| `loaded` | what the last reader made of the declared version's stream, and of the corpus |
| `scene` | what is pinned, declared and sent, the corpus, and the bounds of a behaviour |
| `pinned`, `declared`, `shared` | auxiliary: the pins and the parse blocks each version has had; the versions two downloads wrote at once |

| Actions | Code |
|---|---|
| `StartFetch`, `Verify` | `fetch_source`: an artefact that is there is verified only (`_verified_outcome`) |
| `Request`, `Refused`, `Receive`, `BreaksOff` | `_stream_to`: a response that is no success leaves `.part` alone (`Refused`); a good one opens it; a transport error, before the response or while it comes, unlinks whatever has that name, be it another fetch's (`BreaksOff`) |
| `Compare`, `Replace`, `OpenManifest`, `WriteManifest` | the digest against the pin, `os.replace`, the manifest |
| `StartParse`, `ReadPdf` | `docs-parse` against the fetch manifest, `parse_document` |
| `OpenStream`, `WriteBlock`, `OpenMeta`, `WriteMeta` | the stream and its manifest |
| `Load` | `load_declared_glossaries` and `load_corpus`, up to the store |
| `FetchDies`, `ParseDies`, `DeleteArtefact`, `Repin` | deaths at any step; what the error messages ask a person to do; a commit that changes the version, the pin or the parse block |

Bytes are chunks of a document, and a digest stands for the bytes it is of. A page
is a set of words and a set of horizontal marks, with lengths in tenths of a
point; a word has its characters, each with its glyph, its place and its glyph
without case, and beside them what is left of the word once digits are masked
(`masked`, which furniture is recognised by) and once case is folded as well
(`like`, which headings are). `PdfReader` computes as the code does: clusters, votes
for column edges, the quorum, row edges, lines, headings, furniture, coverage,
cells. A cell holds the characters whose centres are in it (`CellOf`), so a word
across the edge of a column is cut in two; whether anything was lost is judged by
counting the glyphs of the page's words and of its cells (`Covered`). That a cell
takes characters by their centre, and that it may miss one (`slips`), is how
`pdfplumber` behaves, and external. Spacing is left out, as are the labels of
passages.

The glossary reads a stream with the parse block of the moment (`Sections`, one per
parse block of the registry): a row of an undeclared section, without its key column,
or without a key and nothing to continue, raises (`Fold1`, `FoldRow`); any other
column the row lacks is read as empty (`RenderRow`).

## 3. What the runs check

All configurations set `CHECK_DEADLOCK FALSE`: an operator runs finitely many
commands, after which the system rests. `Dates` are 1..4, of which 1..3 have a
partition; two points, two stations (one of them in no dimension at first), one
relation and two copies are enough for every rule and constraint to be broken by
one row, for a duplicated grain, and for a window with days on either side of it.

| Run | Loaders, faults, commands | Shows |
|---|---|---|
| `load_serial` | 1; crash, failing statement, failing audit write; 3 | from empty dimensions, three commands in any order over 14 fact jobs and 3 dimension jobs |
| `load_disjoint` | 2 on windows that do not meet; lost COMMIT answers; 3 | interleaved loads, and dimensions that grow meanwhile |
| `load_overlap` | 2 on overlapping windows, one skipping bad rows; none; 3 | soundness and termination under contention, deadlocks among the rows of one statement included |
| `scope_leak` | 1; none; 1 | **violation**, see below |
| `late_gate` | 1; none; 1 | **violation**, see below |

| Run | Builders, retrievers, faults, commands | Shows |
|---|---|---|
| `kb_serial` | 1, 1; a stop anywhere; 6 | builds one at a time, over 7 jobs: edited and moved texts, models of the same and of another dimension, a forced build, a refused and an empty corpus |
| `kb_concurrent` | 2, 0; none but deadlocks and what must raise; 5 | builds that overlap each other, `kb-drop` and `kb-init` |

Three commands let a load meet the leavings of a failed one and those of the one
before; two contending loaders are the least that can interleave, and a third one
adds no kind of conflict, for conflicts are between pairs of statements.

- `TypeOK`: also that no count but the fact's rejections can be negative.
- `AuditTruthful`: `succeeded` only for a load that committed, `failed` only for
  one whose commit was not acknowledged. `finish_run` outside the `try` of
  `load_fact` is what it rests on.
- `TallyTruthful`: the two counts are of the rows that the INSERT, a later
  statement, writes.
- `FactSound`: one row per grain, and keys, dimension rows and partition for each,
  with overlapping loads too.
- `ExitOkMeansLanded`: a load that ends with success has in the fact all the rows
  that the manifest (full load) or the export (partial load) has for the window, and
  no bound of its window asks for a day outside those the manifest declares.
- `KeepsPromise`: `GoldLoad` implements `WindowLoad` under the mapping
  `rows` = the rows of `fact`, `known` = `dims`, `audit` = status and fate of
  `runs`. Every step is then a stutter, the opening or closing of an entry, the
  growth of one dimension, or the replacement of exactly one window by the
  clean rows of its export.
- `LoadTerminates`: a command that was started ends. Between tables the waits follow
  one order (staging, then the fact), but two loads that share rows may reach them in
  opposite orders, so they do close cycles; what ends them is that the server aborts
  one of the loads and that the aborted one lets go of all it holds.

In `MCKnowledgeBase`, `Positions` are 1..3, of which 3 is of an external
document, and batches hold 2 chunks, so that a build has a full batch and a last
one. Two of the three models share a dimension, as the profiles `gemini` and
`fake` do, and a corpus claims one position twice. Six commands are `kb-init`, two
builds, a retriever and two questions, or a table dropped and made again with
another dimension between builds.

- `TypeOK`: also that locks are held inside a sync only, and that the provider
  is never called with an empty batch.
- `VectorsFit`: a vector has its column's dimension and the model recorded with
  it, and a row without one records no model, with overlapping builds and a table
  that is dropped and created under them too.
- `VectorOfItsText`: no vector stands beside a text that it was not computed
  from.
- `BuiltMeansComplete`: what a successful `kb-build` leaves, after any number of
  stopped ones.
- `ChunkPaidOnce`: a stored vector lasts while its row keeps its text, or gives way
  to one of a batch that was embedded for it, and an unforced build sends no chunk
  whose row holds its vector by that model. It says nothing of texts that move to
  another position, and nothing of a batch whose build died before the save: both
  are bought again.
- `InternalFillsUp`: the second scope loses no internal passage to an external
  one.
- `KeepsIndex`: `KnowledgeBase` implements `DocIndex` with `shown` = the text and
  vector at each position: a reader sees a whole corpus appear in one step,
  keeping the vectors of unchanged texts, and vectors arrive at most a batch at a
  time.
- `BuildEnds`: a build ends. Two syncs may each delete what the other one will
  upsert and then wait for each other; what ends them is that PostgreSQL fails
  one (`Deadlocked`), and that the failed one lets go of its locks.

`VectorOfItsText`, and with it `KeepsIndex`, are checked for builds that do not
overlap (`Exclusive`). Overlapping builds do break them, because
`save_embeddings` writes by id and does not ask whether the text is still the
one it embedded. The repository promises nothing for two builds at once, so this
is a hazard and not a finding.

| Run | Loads, rebuilds, pipelines, faults, commands | Shows |
|---|---|---|
| `serve_profile` | 2, 0, 2; vanishing loads; 4 | the stored profile between loads that land and close in any order |
| `serve_rollups` | 1, 2, 1; rebuilds that stop; 3 | finalize and refresh against each other, a load and the check |

Four commands are two loads and two starts, so that one pipeline can store what
another one reads while both loads land; two rebuilds are the least that can
overtake each other. Statements also fail in both runs, whenever `db-drop` has
taken the schema away.

- `TypeOK`: also that no rollup is of a version to come and no key names a load
  run that is still to be opened or closed.
- `ServedIsRecent`: what makes the key of `load_profile` a key. It is read
  before anything is measured, and whoever stores a profile stores it under the
  key read before; so older data never sits under a key that stays valid. It
  rests on the key having the last `finished_at` beside the last id, and on
  `max(finished_at)` passing the key's when a load that has landed closes. Where a
  load vanished after it landed, only an id larger than all committed ones makes
  up for it: one that was taken early and is committed late moves nothing.
- `PromisedKept`: neither rollup is older than Gold was when the last successful
  rebuild began, and the station rollup is never newer than the relation
  rollup. They may be of different versions.
- `StartsEnd`, `RefreshesEnd`: a start and a rebuild end, though a reader of a
  rollup and a TRUNCATE keep each other waiting: both take the rollups in one
  order.

| Run | Instance | Shows |
|---|---|---|
| `assistant` | a server with and without data; seven cases of one comparison each; two cases on a short allowance with throttling; two cases behind the cache with narration and faults | questions and evaluations, from the route to the status or the verdict |
| `docs` | each document alone; every corpus of up to four lines; two downloads at once from a server that changes what it sends; commands that die and are run again; a registry that changes its pin or its parse block | documents from the pin to the passages |
| `dropped_text` | each document alone | **violation**, see below |

In `MCAssistant` a policy has `MaxRows = 2` and `MaxPlanCost = 5`, and a query
matches three rows, so that limits fall below, on and above the cap; there is one
query for each check of the guard to refuse, a limit that cannot be read, and a
query that is too dear. `MaxRetries = 1`, `LastDay = 2`, `MaxSessions = 3` and
`MaxCrashes = 2`: a session can die twice and a third one find both last lines, a
call can be retried once and be refused, and midnight can fall between any two
steps. Comparisons are over all 2 x 2 results of two values, in sets, in order and
in order up to a top, with numbers written to fewer places and as percentages
besides. Some 600,000 states.

- `TypeOK`: also that each part of a question, a call and a session is there
  exactly when what it depends on has happened.
- `OnlyGuardedExecutes`: what reaches the database passed the guard, is bounded,
  and is below the ceiling where there is one and the planner gave an estimate,
  whatever was written, rejected and repaired before.
- `CappedIsFlagged`: an answer with fewer rows than its query asked for says so.
  The limit the guard adds lets no more rows through than the cap, so the flag has
  to take the cap itself for a cut.
- `TraceNamesFailure`: `error_span` names where a failure started, also for the
  `AnswerError` that a second rejection raises outside the guard's span.
- `KeepsContract`: the pipeline, with all around it, implements `Answering`: a data
  answer comes with one query, executed once; the other ways of ending executed
  nothing; a fault is not taken for an answer.
- `QuestionEnds`: whatever the model writes and however often it is refused, a
  question ends in an answer or an error.
- `SpentIsCharged`: the counter is what the provider has counted, between cases
  and as long as nothing died; a day that turns makes it too high at most.
- `OverdraftBounded`: by how much a day may pass its allowance: the retries of one
  case, those of the cases that died, and one call reserved the day before.
- `TornLineCostsItsCases`: a session that was not stopped has a verdict for every
  case, but for the one or two that a torn last line takes with it.
- `VerdictsFaithful`: verdicts against what was decided, executed and shown,
  whatever path the answer took.
- `DataVerdictsExact`: data verdicts against `SameAnswer`, over all results of two
  rows and two columns and some of one; among them shares written to three and to
  four places, of which one fits two references and the other only one, so that
  an owner has to give up its slot.

In `MCDocPipeline` a download is two chunks, so that it can be cut; pages have one
to three rows, an underline, a panel, a footer, an entry that goes on over the page
and a section that opens under a line of the one before. Words lie across the edge
of a column (`split`), across that of the table with their centre inside (`cut`) or,
beside one that does, outside (`swapped`, where what the first loses the second makes
up for), and beyond it (`margin`); a character slips out of its cell (`slipped`); a
page has no heading, no table, or columns that are not declared. A registry may
declare two headings that differ in case only (`alike`), and rename a column, rename
the key column or drop a section after the parse (`Redeclaring`). `MaxChars = 5` and
`MinChars = 2`, with paragraphs of 1, 3 and 9 characters, so that pieces are short,
gathered, and cut. Some 165,000 states, with fetchers taken as alike.

- `TypeOK`: also that a fetch about to replace received the pinned document and
  that a stream being written is a prefix of the blocks.
- `ArtefactPinned`: no failing or dying fetch leaves other bytes under an
  artefact's name than those of a pin. Not so where two downloads wrote one
  `.part` at once: the digest is of what was received, and what is renamed is the
  file.
- `NothingSilentlyLost`: a document that is parsed has each character in exactly one
  block, but for page furniture, a repeated header, and two cases which nobody means:
  a line is inside the table or outside by the centre of its box, while each of its
  words is by its own, so that they may disagree; and a character may be missing for
  which a word outside the table has one of the same glyph in a cell (`MadeUpFor`),
  because coverage compares counts of glyphs. The first is what `dropped_text` shows.
- `VouchedIsWhole`: a parse manifest whose digest and count fit, beside a stream every
  line of which can be read, vouches for the whole document, for a version that has
  had one pin and one parse block (`PinnedOnce`). The digest alone would not:
  `docs-parse` rewrites the stream first and the manifest last (`manage.py:262-265`),
  so that in between, and for good when it dies there, the digest of the parse before
  stands beside the start of a stream. With two pins not even both would: when the
  registry goes back to the first one, its manifest may be beside as many lines of the
  second one's stream, if the parse of that died.
- `CutOnlyByDeath`: the reader compares neither, and loses passages only of a
  stream that is being written, whose writer died, or that an older pin or parse
  block has left: a column that the registry renames without a new parse is read as
  empty.
- `CorpusKept`: chunks keep every character in order. A chunk has the heading of the
  section it begins in. `_merge_short_pieces` also puts a short section's text under the
  heading before it, so a chunk may hold text of other sections; as long as two short
  pieces fit into one chunk (`Roomy`, as with the defaults of 1500 and 120) that is
  less than `min_chars` of each, though of as many sections as follow.

`ServedIsRecent` is about keys read while `load_runs` shows every change as closed
(`Logged`). Otherwise the code does reuse a stale profile: between a load's commit
and the close of its entry, after a load whose process died in between, and after
a `finalize`, which changes the order of the sampled stations without an entry.

`KeepsPromise` and `TallyTruthful` are checked for one loader and for disjoint
windows. With overlapping windows TLC violates both, for the code does not
prevent it: staging is shared and its DELETE misses what another load has not
committed yet, and the DELETE of the fact misses rows that another load inserts
after its snapshot. Nothing in the repository promises otherwise, so these are
hazards and not findings. `KeepApart` states what separates the two, and
`MCGoldLoad` assumes it of the jobs of `load_serial` and `load_disjoint` and its
negation of those of `load_overlap` and `scope_leak`; under it both are proved.

### Findings

1. `late_gate`: the README (lines 107, 144) says that a truncated export is never
   loaded because the manifest is checked first. `read_manifest` checks the
   manifest's own consistency only; the row count is compared after `load_fact`
   has committed (`manage.py:169-183`).
2. `scope_leak`: under `--on-violation skip`, `_promote` filters on validity and
   drops the scope (`loader.py:241-246`). The partitioned layout stages only the
   scope, so nothing leaks there; the single-file layout stages everything, and a
   load of one day writes the others. `load_serial` leaves that combination out.
3. `dropped_text`: `parse_document` raises `ParseError` "if any text on any page would
   be dropped" (`pdf_reader.py:333-334`). A line whose centre is inside the table is
   not printed (`pdf_reader.py:377-381`), and coverage is asked of the words whose own
   centre is inside (`pdf_reader.py:266`): a word in the margin of a row is in no block,
   and nothing is raised. The run excepts furniture and headers (`DropsNoText`).

### Fairness

`WF_vars(Step(l))` for each loader: a started command is a running process, and
its next statement is eventually executed; a lock that is released lets the
waiting statement go on. `WF_vars(Step(b))` for each builder, for the same
reasons; `Stop` is in it, and in both PostgreSQL's deadlock detection, which runs
whenever a statement has waited long enough. `WF_vars(RefreshStep(r))`, which
never counts on `RefreshStops`, and
`WF_vars(ServerStep(s))` in `GoldServe`; loads need no fairness there, for
nothing waits for one, and PostgreSQL grants locks in the order of the requests,
so a TRUNCATE is not overtaken by readers for ever. In `Assistant`,
`WF_vars(AnswerStep)` with the hosts unchanged: a question in hand is a running
thread's, and requests to the provider (`timeout_s`) and to the database
(`statement_timeout`) have timeouts; nothing is assumed of the hosts.
`DocPipeline` states safety only. Nothing is assumed about commands being started, and
faults are never forced.

## 4. What is proved

In `GoldLoadProofs`, for every set of loaders, keys, exports, jobs, faults and
every bound, from `RowsAssumption` (dates are integers, partitions are among
them, NULL is no key) and `LoadAssumption` (jobs are well typed and exports are
finite and as their layout's reader leaves them):

- `TypeCorrect`: `Spec => []TypeOK`. `TypeOK` is not inductive: the update count
  of a dimension is a difference, and natural only because the loader's
  transaction read at least as many keys as it inserted; counts are numbers only
  because staging is finite. `IInv` adds `Countable` and `Audit`.
- `AuditIsTruthful`: `Spec => []AuditTruthful`, from `Audit` in `IInv`: a loader
  in the middle of a command holds a running entry, no two loaders hold the same
  one, and the entry's fate follows the loader's place in the command.
- `FactIsSound`: `Spec => []FactSound`, from `Sound`, which adds `Upserted`: what
  an open transaction has upserted satisfies the constraints on its own, those of a
  row as soon as it is written and the foreign keys when the statement is over. The
  commit merges it with rows of other grains; a dimension that grows keeps every
  storable row storable (`StorableMonotone`).

Three more assume `Apart`, that is `KeepApart` of the loaders' jobs: no load of part
of a single file is under the policy skip, and loads that may run at once are of
partitioned exports, of windows without a date in common, and under the policy fail.
The code checks none of this. One loader at a time may do anything but the leak of
finding 2; crashes, failures and lost acknowledgements are never excluded.

- `TallyIsTruthful`: `Spec => []TallyTruthful`.
- `ExitOkIsLanded`: `Spec => ExitOkMeansLanded`. The gate compares counts only; that
  they are counts of the rows in the window is what is proved.
- `PromiseIsKept`: `Spec => KeepsPromise`, the refinement of `WindowLoad`.

They rest on `AllStaged`: `Staged(l)` tells, place by place in the command, what load
`l` has established from its own rows alone. What it stages is `Own(l)` and the rest
of staging is out of its window; what it read is the count of `Mine(l)`, the export's
window, stamped; what it has deleted and has left to delete are the window as it is;
what it selects are the rows of `Mine(l)` that pass under some keys the dimensions
hold (`Selected`), which is what `WReplace` asks for; and after the commit its counts
are those of the window in the fact, until the gate. `Undisturbed` is what a step of
another load must leave alone for that to survive, and `ApartUndisturbed` shows that
under `Apart` a commit or a dimension does. `StampKeeps`, `StampInjective` and
`ValidStamped` carry the rules and the counts over the stamp of a run, `MergedRows`
tells what a commit makes of the fact, and `CommitReplaces`, `DimensionGrows`,
`OpenShown` and `CloseShown` name the step of `WindowLoad` for each step of a loader.

Each proof has one lemma per action or per group of actions with the same effect
(`StartRunIInv`, `LeaveIInv`, `FactStepIInv`, `QuietSound`, ...), joined by
`NextIInv`, `NextSound` and `NextStaged`.

Only model-checked: `LoadTerminates` (liveness under fairness is beyond the prover).

In `KnowledgeBaseProofs`, for every set of builders, retrievers, positions,
texts, models, corpora and batch size, from `KbAssumption` (positions are
finitely many numbers, dimensions are positive, NULL is none of the values) and
`BuildAssumption` (corpora are finite):

- `TypeCorrect` and `VectorsAlwaysFit`, for any interleaving, from `IInv` =
  `TypeOK`, `VectorsFit` and `TableHeld`: a build inside its sync holds the
  table, so `kb-drop` cannot come between.
- `VectorsAreOfTheirTexts`, `SuccessIsComplete`, `NoSecondPayment` and
  `ImplementsIndex`, where commands do not overlap (`ASSUME Exclusive`). None
  of them is inductive. `SInv` adds `Lone` (at most one builder is not idle),
  `Ids` (ids are distinct and below `nextId`, so that a save by id reaches the row
  that was read) and `Progress`: between the steps of a build, the table holds the
  corpus, and `todo` is exactly what it still lacks, or under `--force` what has
  not been sent. `ImplementsIndex` maps `Upsert` to `DSync` and `Save` to `DFill`.

- `InternalIsFull`: `Spec => []InternalFillsUp`, again for any interleaving. `AInv`
  says that ids are distinct, so that distance and id order a search totally, and that
  the two answers of a retriever are those of the table for as long as nothing is
  committed (`Current`). What is left is about one search: where the limit cuts
  anything off, the first passage it cuts has `TopK` others before it
  (`NearestFills`); and the floor, which comes after it, cuts off an end of what is
  left only (`SearchFills`).

Only model-checked: `BuildEnds`, which is liveness.

In `GoldServeProofs`, for every set of loads, rebuilds and pipelines, from
`ServeAssumption` (dates are finitely many integers, landings are of dates, NULL is
no key):

- `TypeCorrect`, from `TInv`, which adds that an uncommitted rebuild was read from
  an existing version and that only a pipeline with a key reads or writes the
  snapshot.
- `ProfilesAreRecent`: `Spec => []ServedIsRecent`. `RInv` says of every key that a
  pipeline or the snapshot holds what it is worth (`Dated`): if Gold has moved on
  since it was read and `load_runs` has not, then some load has landed whose close
  will move it, with a stamp later than the key's, or the change is unlogged. So
  when a pipeline reads the key and everything is logged, a holder of the same
  key read it at this very version (`Paired`), and what it measured is not older.
- `RollupsKeepPromise`: `Spec => []PromisedKept`, from `PInv`: at most one rebuild
  is past its first TRUNCATE (`Alone`), and what it has read by then is not behind
  what was promised (`NotBehind`).

Only model-checked: `StartsEnd` and `RefreshesEnd`, which are liveness.

In `AssistantProofs`, for every policy, question, menu of replies, golden case, way
of starting and bound, from `PolicyAssumption` (the cap is positive, the special
replies are no queries), `GeneratorAssumption`, `QuestionAssumption` (a menu of
queries holds queries and the two special replies; a scope finds `TopK` passages at
most, since nothing builds a pipeline with another `top_k`), `EvalAssumption` (a golden
case is of a question that is not blank) and `SettingAssumption` (an evaluation
is of golden cases). `Null` stands for Python's `None`, and the assumptions say
that it is none of the values that are kept beside it:

- `GuardHolds`: `Spec => []OnlyGuardedExecutes`, `CapHolds`:
  `Spec => []CappedIsFlagged`, and `ContractHolds`: `Spec => KeepsContract`.
- None of them is inductive. A query is executed steps after it was guarded, so
  `PipelineInv` says for each stage what is known by then (`Staged`), and that a
  query past the guard is `EnforceLimit` of an accepted text (`Guarded`). A query
  comes from a reply, and a reply may come out of the cache, stored by an earlier
  question or session: so the reply in hand (`CallInv`) and every stored one
  (`StoredInv`) fits the stage of its prompt. `HostInv` keeps the two hosts, which
  both begin and end questions, apart.
- `CapHolds` rests on `EnforceLimit` leaving a limit in `0..MaxRows`: rows are lost
  against the model's own query only by the cap, and then the cap is reached.

In its second part, from `PipelineHolds` and the same assumptions:

- `TraceHolds`: `Spec => []TraceNamesFailure`. `TraceInv` adds what the look-up rests
  on: a failure is noted with the span it starts in (`Recorded`), every stage at work
  has a span and a query is repaired only after the guard had one (`Entered`), and
  what ends an answer was noted, or raised from what was, or started in no span
  (`Named`).
- `RouteHolds`: `Spec => []Routes`, the invariant the verdicts of an evaluation rest
  on. It says stage by stage what is decided (`Routed`), what the spans tell of the
  route and of the execution (`Spanned`: only an exhausted budget leaves a `route`
  span without a route), and that an answer shows what was found (`Shown`).

In `EvalProofs`, from the same assumptions, for any allowance, number of retries,
of deaths and of days:

- `OverdraftHolds`: `Spec => []OverdraftBounded`, and `SpentHolds`:
  `Spec => []SpentIsCharged`. Neither is inductive: a retry is sent at once and
  charged when its case is over. `TallyInv` bounds the retries a question and the
  call in hand may have made by the calls that lead to its stage (`Tallied`), and
  `BudgetInv` keeps the books at every step in between: what was sent is what was
  counted, and what is not charged yet, was lost with a process, or belongs to a
  call reserved the day before (`Counted`); as long as nothing died the counter is
  exact (`Exact`); and what a reservation has read is still the counter
  (`Reserved`), unless the day has turned since.
- A total over the days is a recursive function. That it moves by what one day
  moves (`TotalMoves`) is an induction, made with the least counterexample in a
  set of days (`HasFirst`), since no theorem with an operator parameter can be used.

In its second part, for any cases and any sequence of sessions and deaths:

- `TornLineHolds`: `Spec => []TornLineCostsItsCases`. `SessionInv` says that what is
  recorded is skipped, and what is skipped is recorded but for what the first
  append of the session has cost (`Skipped`): nothing when the file ended in a
  newline, the case it appends when part of a line was there, also the case of
  that line when only its newline was missing (`Within`).
- `VerdictsHold`: `Spec => []VerdictsFaithful`, from `Routes` and from `Judged`: the
  verdict in hand is that of the answer in hand, which did not stop the session.
  That hit-at-4 sees every source of an answer rests on `TopK` being 4 as well.
- `TypeHolds`: `Spec => []TypeOK`, which takes all four invariants.

Only model-checked: `QuestionEnds`, which is liveness, and `DataVerdictsExact`,
where a recursion over rows and columns is compared with what it is to decide.

In `DocPipelineProofs`, for every set of fetchers, versions, documents, scenarios
and number of chunks, from `DocAssumption` (versions are numbers, Null is none, a
download has one chunk at least, a scenario's first pin and parse block are among its
own and its corpus is a text, as `IsText` has it), `DocumentAssumption` (a document is
a list of pages, as `IsDocument` has it) and `SectionAssumption` (a parse block is one
that `SectionSpec` and `ParseSpec` let through: the names of its sections, and those
of the columns of each, are distinct as they are written):

- `ArtefactIsPinned`: `Spec => []ArtefactPinned`. It is not inductive: a digest is
  taken of what a fetch received, while what is published is whatever stands at
  `.part` when it is renamed. `FInv` closes the gap. `Separate`: no file belongs to
  two versions, though open files outlive their names. `Sole`: while one fetch alone
  downloads a version, the file it has opened holds just what it received, is not yet
  published, and no other file is at `.part`; it may have lost that name to a request
  that failed before its response. `Published`: what is at the artefact's path is a
  document its version has been pinned to. Versions two fetches have downloaded at
  once (`shared`) are left out of the theorem, as they are of the property: they do
  publish what nobody verified.

- `TypeIsSound`: `Spec => []TypeOK`. `PInv` adds that a stream being written is
  never longer than the blocks it is a prefix of, and all of them when its manifest
  is opened; `RInv`, that the first chunk received is of the document sent, so that
  what equals the pin's bytes was sent as the pin.
- `ManifestVouches`, `ReaderIsGivenAll`: `Spec => []VouchedIsWhole` and `Spec =>
  []CutOnlyByDeath`, from `Parsed`, which is about versions that have had one pin, one
  parse block and no two downloads at once (`Settled`): what `docs-parse` reads there
  is the pin's document (`ArtefactOfSettled`, from `FInv`), though its digest and its
  blocks come from two reads of a file that fetches and people change in between, and
  it cuts it up as the version's parse block says (`SInv`); a stream without a cut
  line is a prefix of that document's blocks, and its manifest, if it has one, has
  their number. What a reader was given stays as it was, while the premises of both
  promises (no second entry, no death, no shared download) only get harder to meet.

- `CorpusIsKept`: `Spec => []CorpusKept`, from `ChunksKeep` of `ReadingProofs`.
- `CharactersAreKept`: `Spec => []NothingSilentlyLost`, from `DocumentKeepsCharacters` of
  `ReadingProofs` and from `PInv`: the blocks about to be written are what the reader
  makes of the document it has read.

In `ReadingProofs`, for any limits (`LimitAssumption`: `MaxChars` is positive) and
any text (`IsText`: no paragraph is empty, and each character is told apart from
those of other paragraphs, a label that lets one say which character a chunk holds;
nothing in the chunker compares characters):

- `ChunksKeep`: the chunks of a text hold its characters, all of them and in order;
  each has the heading of the section it begins in and, when `Roomy` holds, less than
  `min_chars` of every other. The chunker is five passes over sequences (sections,
  gathering, cutting, concatenation, merging), and each has an invariant of its own: a
  section holds the paragraphs since its heading (`WithLine`), and sections come in
  order (`Successive`); what is gathered and what is in the buffer are together what
  was read (`Gather`), and the first two parts of a section are not both short
  (`Opened`: what did not fit beside a short part is longer than it); the slices of a
  paragraph make it up again (`HardSplit`); merging moves a piece's characters to the
  chunk before and never touches the first ones of a chunk, which its heading is of
  (`Merge`). A section that a chunk does not begin in can only enter it with its first
  piece, which is short; a second short one in a row is what that excludes, so the
  chunk holds that piece and nothing else of the section (`Ends`, `Hosts`). None but
  the first chunk is short, and one over the limit ends in a short paragraph.

And for any parse block of the registry (`IsParseSpec`: nothing is assumed of names
that differ in case or in digits only) and any document (`IsDocument`: finitely many
words and marks, at whole numbers, wherever they are; a character is of one word of one
page, so that one can say which of the printed characters a block holds, while `glyph`
is what the reader compares):

- `DocumentKeepsCharacters`: when `parse_document` returns blocks, each character of
  the document is in exactly one of them, the cells of a row being different ones, or
  is one of those that `KeepsEveryCharacter` lists: page furniture, a repeated header,
  a word that its line takes across the edge of the table, a character that another
  one makes up for. `NothingSilentlyLost` says this of one parse. No step of the reader
  is about all of it, so the proof goes along the passes:
  - *Lines* (`LinesOfPage`): the words of a page, sorted and grouped, are in one line
    each, and lines share no words.
  - *Edges* (`Edges`): what `_cluster` returns rises strictly, though it returns means
    and those are rounded: each mean is between the first and the last value of its
    group (`Clustered`), and groups are further apart than the tolerance. This is
    what makes cells disjoint (`OneCell`): a character's centre is between two edges
    of one pair at most, of any marks, also when its word is cut by an edge.
  - *Coverage* (`AllReturned`): what is drawn is no more than what is returned, glyph
    by glyph. So where no cell returns a character that is drawn, one does return
    another of its glyph that was not counted as drawn, of a word outside the table:
    that one makes up for it, and where there is none every character is returned.
  - *One place* (`OneInFirst`, `OneInSecond`, `FlattenOnePlace`): a character in one
    block of one part of a sequence, and in none of the others, is in one block.
  - *A page* (`PageKeeps`): a line is outside the table as a whole (`TextInOnePlace`)
    or is inside; a character of a word inside is in a cell or made up for, and so in
    a row that is not empty (`TableInOnePlace`); the row is dropped only as a repeated
    header (`HeaderHas`); and a line of the page's furniture is on two pages at
    least, because the quorum is (`FurnitureRecurs`).
  Words of other pages have other characters (`PageLacks`), and the pages together are
  the document. The check of column counts is what makes a row have all its cells
  (`PageFits`): blocks take as many cells as the section declares columns, whose names
  differ.

All of it stands on `FoldTheorems`. A theorem whose parameter is an operator cannot be
used, so neither can the library's induction theorems; but a module with a constant
operator can be instantiated. `FoldTheorems` proves of `FoldLeft(Op, b, s)`, for
`CONSTANT Op(_, _)`, what it is for the empty sequence and for one more element
(`FoldLeftAppend`), by induction made with least elements of sets of numbers; each
pass folds with a named operator, and instantiates the module with it.

Every safety property of the run `docs` is a theorem here. `_cluster` rounds a mean to a
tenth of a point, in the model as in the theorem; the code's floats do not.

## 5. Plan

In order of importance; each module is written so that it can be proved about.

1. **Done**: `GoldRows`, `GoldLoad`, `WindowLoad`, `GoldLoadProofs`.
2. **Done**: `GoldServe`, `GoldServeProofs`. Left for it: a run for the docstring of
   `load_profile` ("reusing the stored one while the data is unchanged") against
   `finalize`, and the refinement of `WindowLoad` by its loads.
3. **Done**: `KbTable`, `KnowledgeBase`, `DocIndex`, `KnowledgeBaseProofs`.
4. **Done**: `SqlGuard`, `Generators`, `AnswerPipeline`, `AskService`, `EvalRun`,
   `Compare`, composed in `Assistant`, with `Answering`, `AssistantProofs` and
   `EvalProofs`. Left for it: two evaluations at once.
5. **Done**: `PdfReader`, `Passages`, `DocPipeline`, `FoldTheorems`, `ReadingProofs`,
   `DocPipelineProofs`.
6. Left of the pure algorithms: monthly partition bounds (`db/partitions.py`) and
   the figures of `eval/report.py`, both over dates and fractions that would be
   written down once more rather than modelled.
7. Every safety property of a passing run is a theorem but one: `DataVerdictsExact`
   of `Assistant` is no theorem of all numbers: of a value halfway between two roundings
   the code takes one, and `SameCell` accepts both. The configuration has none such.

## 6. Not modelled, and why

Without a protocol: prompt wording, report figures and layout, trace timings and
tokens, the rendering of the profile, logging, configuration and argument parsing,
the dry run of `eval`, the readiness probe, lint findings and partition
annotations, the provider factory and the fake provider. SQL parsing, vector
distance, `pdfplumber` and the remote models are libraries and services: only
their outcomes matter and are left nondeterministic where a module meets them. The
drawing of a page is reduced to words, characters and horizontal marks.

With one, but left out: two evaluations at once, which share the budget, the cache
and, for one run id, the results file, with no lock; `RateLimiter`, which spaces
calls in time; the batching of embeddings inside the provider, whose outcome
`KnowledgeBase.Embed` has.

### Remarks for a reader of the code

What came up while modelling and no run is about: the code does what its callers
expect, or a docstring promises a little more than it does:

- Budget: `estimate_calls` calls its figure an upper bound (`runner.py:75`); it is
  not, for a conceptual case that the router's model sends to data. `manage.py ask`
  and `eval` build their pipelines without a cost ceiling; only the API has it.
- Errors: the docstring of `answer` (`pipeline.py:135`) has every failure come out as
  an `AnswerError`; failures of the database and of providers come out as they are,
  and the API maps them.
- Limits: a `FETCH` clause or a `LIMIT` expression is replaced by the cap, also when
  it asked for less. Reference results are capped at `max_rows` too.
- Results file: a record cut by a death takes the next one with it; a whole record
  without its newline makes two. Both cases are run again by a resume.
- Expected results are cached by query and window, so a reload of the same window
  leaves stale references (`expected.py:80`).
- Downloads at once: the fetcher says that bytes reach their final path only after
  their digest matches (`fetcher.py:5`). The digest is of what a process received;
  what it renames is whatever stands at `.part`, a name all fetches of a source
  share. A second fetch, begun between the comparison and `os.replace`, empties the
  file the first one moves. `ArtefactIsPinned` shows that nothing else does harm.
- Documents: a death between `os.replace` and the manifest leaves an artefact that
  neither command accepts until it is deleted. `docs-parse` compares with the fetch
  manifest, which `fetcher.py:11` says verification never does. Its digest and its
  parse are two reads of the file. `kb-build` does not look at the parse manifest.
- Reader: what the margin of a row loses is finding 3. On the same ground a word of a
  cell may be printed twice, when its line is outside and the word inside; and a page
  may lose a character of the table for which one of the same glyph, of a word across
  the table's edge, is counted.
- Glossary: `load_glossary` announces an error for blocks that do not match the declared
  sections (`glossary.py:169`). It looks up the section and the key column only; any
  other declared column that a row lacks is read as empty, and the cells the row has
  instead are in no passage (`glossary.py:61`).
- Scopes: `ScopedPassages` says that `internal_only` is a subset of `all_sources`
  (`retriever.py:31`). Each scope has a limit of its own, so behind an external passage
  the internal scope holds one that the other has not.
- Chunks: short sections go on being merged past `max_chars`, and their headings
  vanish. A stray line before a continuation row makes `glossary_chunks` raise.
