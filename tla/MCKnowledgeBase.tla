-------------------------- MODULE MCKnowledgeBase --------------------------
(***************************************************************************)
(* Small instances of KnowledgeBase for TLC: three positions, the last one *)
(* of an external document, two texts, and three models of which two share *)
(* a dimension, as the profiles gemini and fake do.                        *)
(***************************************************************************)
EXTENDS KnowledgeBase, TLC

CONSTANTS t1, t2,           \* texts
          gemini, fake, big, \* models
          question,
          ba, bb,           \* builders
          api               \* a process with a retriever

MCPositions == 1..3
MCWidth     == (gemini :> 768) @@ (fake :> 768) @@ (big :> 3072)

\* The nearest text of one model is the farthest of the other.
MCDistance ==
    [q \in Query |-> [v \in Vector |->
        IF v.text = t1 THEN 1 ELSE IF v.model = q.model THEN 0 ELSE 2]]

At(p, t) == [pos |-> p, text |-> t]

Corpus    == {At(1, t1), At(2, t1), At(3, t2)}
Edited    == {At(1, t2), At(2, t1)}
Moved     == {At(2, t2), At(3, t1)}
Ambiguous == {At(1, t1), At(1, t2)}

Build(m, C)   == [model |-> m, chunks |-> C, force |-> FALSE]
Rebuild(m, C) == [model |-> m, chunks |-> C, force |-> TRUE]

\* Builds in any order: edits, a model of the same and of another dimension, a
\* forced build, a corpus that is refused, and an empty one.
SerialJobs == {Build(gemini, Corpus), Build(gemini, Edited), Build(fake, Corpus),
               Build(big, Moved), Rebuild(gemini, Corpus), Build(gemini, Ambiguous),
               Build(fake, {})}

\* Builds at once, of corpora that delete each other's positions.
ConcurrentJobs == {Build(gemini, Corpus), Build(fake, Edited), Build(gemini, Moved),
                   Build(big, Corpus)}
=============================================================================
