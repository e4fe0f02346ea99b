------------------------------ MODULE KbTable ------------------------------
(***************************************************************************)
(* The rows of rag.kb_chunk and what single statements do with them: the   *)
(* upsert of a corpus, the selection of the chunks that lack a vector, the *)
(* writing of a batch of vectors, and the ranked searches.                 *)
(***************************************************************************)
EXTENDS Integers, FiniteSets

CONSTANTS Null,      \* SQL NULL
          Positions, \* the (doc_id, chunk_index) pairs, numbered in the order of chunks
          External,  \* the positions of documents declared as external sources
          Texts,     \* what a chunk's embedding_text may be
          Models,    \* the embedding models
          Width,     \* Width[m]: the dimension of model m's vectors
          Questions,
          Distance,  \* Distance[q][v]: the cosine distance of query q and vector v
          TopK,      \* LIMIT of a search
          Floor      \* the distance beyond which min_similarity drops a passage

\* A vector is what it was computed from: a text, by a model.
Vector == [text : Texts, model : Models]

\* An embedded question.
Query == [question : Questions, model : Models]

ASSUME KbAssumption ==
    /\ Positions \subseteq Nat /\ IsFiniteSet(Positions)
    /\ External \subseteq Positions
    /\ Width \in [Models -> Nat \ {0}]
    /\ Null \notin Texts /\ Null \notin Models /\ Null \notin Vector
    /\ Distance \in [Query -> [Vector -> Int]]
    /\ TopK \in Nat \ {0} /\ Floor \in Int

\* content_hash digests embedding_text, so a row's text stands for both.
Row == [id : Nat, text : Texts, vector : Vector \cup {Null}, model : Models \cup {Null}]

\* The table holds a row for some of the positions, one for each.
IsTable(rows) == DOMAIN rows \subseteq Positions /\ rows \in [DOMAIN rows -> Row]

NoRows == [p \in {} |-> Null]

\* A passage of the corpus, tied to its position.
Chunk == [pos : Positions, text : Texts]

Places(C) == {c.pos : c \in C}
TextAt(C, p) == (CHOOSE c \in C : c.pos = p).text

\* Two chunks claim one position.
Duplicated(C) == \E c, d \in C : c # d /\ c.pos = d.pos

-----------------------------------------------------------------------------
(* Synchronising and embedding                                             *)

\* The place of p in the order of a set of positions, from 0.
Rank(P, p) == Cardinality({q \in P : q < p})

\* The identity column counts every row the INSERT proposes, in their order.
NewId(C, next, p) == next + Rank(Places(C), p)

Unembedded(i, t) == [id |-> i, text |-> t, vector |-> Null, model |-> Null]

\* Mutant of Upserted: ON CONFLICT leaves the vector of the old text.
KeepsVector(rows, C, next) ==
    [p \in DOMAIN rows \cup Places(C) |->
        IF p \notin Places(C) THEN rows[p]
        ELSE IF p \notin DOMAIN rows THEN Unembedded(NewId(C, next, p), TextAt(C, p))
        ELSE [rows[p] EXCEPT !.text = TextAt(C, p)]]

\* Mutant of Upserted: without the WHERE, unchanged text loses its vector.
ResetsAll(rows, C, next) ==
    [p \in DOMAIN rows \cup Places(C) |->
        IF p \notin Places(C) THEN rows[p]
        ELSE IF p \notin DOMAIN rows THEN Unembedded(NewId(C, next, p), TextAt(C, p))
        ELSE Unembedded(rows[p].id, TextAt(C, p))]

\* Mutant of Upserted: the vector is set to NULL and its model is not.
KeepsModel(rows, C, next) ==
    [p \in DOMAIN rows \cup Places(C) |->
        IF p \notin Places(C) THEN rows[p]
        ELSE IF p \notin DOMAIN rows THEN Unembedded(NewId(C, next, p), TextAt(C, p))
        ELSE IF rows[p].text = TextAt(C, p) THEN rows[p]
        ELSE [rows[p] EXCEPT !.text = TextAt(C, p), !.vector = Null]]

\* INSERT .. ON CONFLICT (doc_id, chunk_index) DO UPDATE WHERE the hash differs.
Upserted(rows, C, next) ==
    [p \in DOMAIN rows \cup Places(C) |->
        IF p \notin Places(C) THEN rows[p]
        ELSE IF p \notin DOMAIN rows THEN Unembedded(NewId(C, next, p), TextAt(C, p))
        ELSE IF rows[p].text = TextAt(C, p) THEN rows[p]
        ELSE Unembedded(rows[p].id, TextAt(C, p))]

\* The rows left once those with the given ids are deleted.
Without(rows, ids) == [p \in {q \in DOMAIN rows : rows[q].id \notin ids} |-> rows[p]]

IdsAt(rows, P) == {rows[p].id : p \in P \cap DOMAIN rows}

\* A chunk as read back for embedding, with the id its vector is saved under.
Stored == [id : Nat, pos : Positions, text : Texts]

\* Mutants of Lacks: a swap of models goes unnoticed; every chunk is sent again.
NoVector(row, m) == row.vector = Null
Always(row, m) == TRUE

Lacks(row, m) == row.vector = Null \/ row.model # m

Pending(rows, m, force) ==
    {[id |-> rows[p].id, pos |-> p, text |-> rows[p].text] :
        p \in {q \in DOMAIN rows : force \/ Lacks(rows[q], m)}}

\* A row with the vector that model m gave for text t.
WithVector(row, t, m) == [row EXCEPT !.vector = [text |-> t, model |-> m], !.model = m]

\* The vectors of a batch, written to the rows that bear its ids.
Embedded(rows, batch, m) ==
    [p \in DOMAIN rows |->
        IF \E c \in batch : c.id = rows[p].id
        THEN WithVector(rows[p], (CHOOSE c \in batch : c.id = rows[p].id).text, m)
        ELSE rows[p]]

-----------------------------------------------------------------------------
(* Searching                                                               *)

Searchable(rows) == {p \in DOMAIN rows : rows[p].vector # Null}

Away(rows, q, p) == Distance[q][rows[p].vector]

\* ORDER BY distance, id.
Before(rows, q, o, p) ==
    \/ Away(rows, q, o) < Away(rows, q, p)
    \/ Away(rows, q, o) = Away(rows, q, p) /\ rows[o].id < rows[p].id

\* The first TopK of P in that order.
Nearest(rows, q, P) ==
    {p \in P : Cardinality({o \in P : Before(rows, q, o, p)}) < TopK}

AboveFloor(rows, q, P) == {p \in P : Away(rows, q, p) <= Floor}

\* Mutant of Search: the exclusion comes after the limit.
SearchThenExclude(rows, q, excluded) ==
    AboveFloor(rows, q, Nearest(rows, q, Searchable(rows))) \ excluded

Search(rows, q, excluded) ==
    AboveFloor(rows, q, Nearest(rows, q, Searchable(rows) \ excluded))

=============================================================================
