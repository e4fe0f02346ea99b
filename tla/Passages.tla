------------------------------ MODULE Passages ------------------------------
(***************************************************************************)
(* rag/store/chunking.py and rag/store/glossary.py: the passages made of a *)
(* markdown document and of the blocks of a parsed glossary.               *)
(*                                                                         *)
(* A line of markdown is a heading, or a paragraph with its blank line; a  *)
(* paragraph is the sequence of its characters. A piece of text is a       *)
(* sequence of paragraphs, which a break of two characters joins. Labels   *)
(* and spacing inside a glossary entry are left out. A RagError is the     *)
(* result Null.                                                            *)
(***************************************************************************)
EXTENDS PdfReader

CONSTANTS MaxChars, \* the chunker's limits, DEFAULT_MAX_CHARS and DEFAULT_MIN_CHARS
          MinChars

ASSUME LimitAssumption == MaxChars \in Nat \ {0} /\ MinChars \in Nat

IsHeading(line) == DOMAIN line = {"heading"}

Break == 2
Longer(n, paragraph) == n + Len(paragraph)
SizeOf(piece) == FoldLeft(Longer, 0, piece) + Break * AtLeast(Len(piece) - 1, 0)

\* Each heading with the paragraphs up to the next; what precedes them has none.
WithLine(sections, line) ==
    IF IsHeading(line)
    THEN Append(sections, [heading |-> line.heading, body |-> <<>>])
    ELSE Append(Front(sections), [Last(sections) EXCEPT !.body = Append(@, line.chars)])

SplitSections(lines) == FoldLeft(WithLine, <<[heading |-> Null, body |-> <<>>]>>, lines)

HardSplit(paragraph) ==
    LET count == (Len(paragraph) + MaxChars - 1) \div MaxChars
        last(i) == IF i * MaxChars <= Len(paragraph) THEN i * MaxChars ELSE Len(paragraph)
    IN [i \in 1..count |-> <<SubSeq(paragraph, (i - 1) * MaxChars + 1, last(i))>>]

\* Paragraphs are gathered as long as they fit; one too long by itself is cut.
Gather(s, paragraph) ==
    LET candidate == Append(s.buffer, paragraph)
        flushed == IF s.buffer = <<>> THEN s.parts ELSE Append(s.parts, s.buffer)
    IN CASE SizeOf(candidate) <= MaxChars -> [s EXCEPT !.buffer = candidate]
         [] SizeOf(candidate) > MaxChars /\ Len(paragraph) <= MaxChars ->
                [parts |-> flushed, buffer |-> <<paragraph>>]
         [] OTHER -> [parts |-> flushed \o HardSplit(paragraph), buffer |-> <<>>]

SplitToSize(body) ==
    IF SizeOf(body) <= MaxChars THEN <<body>>
    ELSE LET s == FoldLeft(Gather, [parts |-> <<>>, buffer |-> <<>>], body)
         IN IF s.buffer = <<>> THEN s.parts ELSE Append(s.parts, s.buffer)

\* Mutant of Merge: a piece joins one before it that is short.
MergeIntoShort(merged, piece) ==
    IF merged # <<>> /\ SizeOf(Last(merged).content) < MinChars
    THEN Append(Front(merged), [Last(merged) EXCEPT !.content = @ \o piece.content])
    ELSE Append(merged, piece)

\* A short piece joins the one before it, whose heading it takes.
Merge(merged, piece) ==
    IF merged # <<>> /\ SizeOf(piece.content) < MinChars
    THEN Append(Front(merged), [Last(merged) EXCEPT !.content = @ \o piece.content])
    ELSE Append(merged, piece)

MergeShortPieces(pieces) == FoldLeft(Merge, <<>>, pieces)

\* A section without text has no piece.
PiecesOf(section) ==
    LET parts == IF section.body = <<>> THEN <<>> ELSE SplitToSize(section.body)
    IN [i \in DOMAIN parts |-> [heading |-> section.heading, content |-> parts[i]]]

ChunkMarkdown(lines) ==
    LET sections == SplitSections(lines)
    IN MergeShortPieces(FlattenSeq([i \in DOMAIN sections |-> PiecesOf(sections[i])]))

-----------------------------------------------------------------------------
(* Glossaries                                                              *)

\* _render_row: the declared columns after the key; one the row lacks holds nothing.
RenderRow(row, section) ==
    FlattenSeq([c \in DOMAIN section.columns |->
                    LET name == section.columns[c].name
                    IN IF c > 1 /\ name \in DOMAIN row.cells THEN row.cells[name] ELSE <<>>])

Entry(block, key, words, fromTable) ==
    [section |-> block.section, key |-> key, content |-> words, fromTable |-> fromTable]

\* A row of the table of a declared section, under its key or without one.
FoldRow(entries, row, section) ==
    LET key == row.cells[section.columns[1].name]
        body == RenderRow(row, section)
        continues == /\ entries # <<>> /\ Last(entries).fromTable
                     /\ Last(entries).section = row.section
    IN CASE section.columns[1].name \notin DOMAIN row.cells -> Null
         [] section.columns[1].name \in DOMAIN row.cells /\ key # <<>> ->
                Append(entries, Entry(row, key, IF body = <<>> THEN key ELSE body, TRUE))
         [] section.columns[1].name \in DOMAIN row.cells /\ key = <<>> ->
                IF continues
                THEN Append(Front(entries), [Last(entries) EXCEPT !.content = @ \o body])
                ELSE Null

IsDeclared(heading, sections) == \E s \in ToSet(sections) : s.heading = heading

\* One more block: only a row looks its section up.
Fold1(entries, block, sections) ==
    CASE entries = Null \/ block.type = "heading" -> entries
      [] entries # Null /\ block.type = "paragraph" ->
            Append(entries, Entry(block, <<>>, block.text, FALSE))
      [] entries # Null /\ block.type = "table_row" ->
            IF IsDeclared(block.section, sections)
            THEN FoldRow(entries, block, SectionNamed(block.section, sections))
            ELSE Null

GlossaryChunks(blocks, sections) ==
    FoldLeft(LAMBDA entries, block : Fold1(entries, block, sections), <<>>, blocks)

-----------------------------------------------------------------------------
(* What the chunks of a corpus are meant to keep                           *)

\* A text has no empty paragraph, and each of its characters is told apart from
\* those of the other paragraphs.
CharsOf(line) == IF IsHeading(line) THEN <<>> ELSE line.chars
IsText(lines) ==
    /\ lines \in Seq(ToSet(lines))
    /\ \A i \in DOMAIN lines :
        /\ CharsOf(lines[i]) \in Seq(ToSet(CharsOf(lines[i])))
        /\ CharsOf(lines[i]) = <<>> => IsHeading(lines[i])
        /\ \A j \in DOMAIN lines :
                i = j \/ ToSet(CharsOf(lines[i])) \cap ToSet(CharsOf(lines[j])) = {}

\* Every character of the text is in one chunk, in order.
KeepsEveryChar(lines, chunks) ==
    FlattenSeq([i \in DOMAIN chunks |-> FlattenSeq(chunks[i].content)])
    = FlattenSeq([i \in DOMAIN lines |-> CharsOf(lines[i])])

\* A section is known by the line of its heading, 0 before the first: the one the
\* first k lines end in, the one a character stands in, and its heading.
SectionAt(lines, k) == Max({0} \cup {i \in 1..k : IsHeading(lines[i])})
SectionOver(lines, char) ==
    SectionAt(lines, CHOOSE i \in DOMAIN lines : char \in ToSet(CharsOf(lines[i])))
HeadingOf(lines, s) == IF s = 0 THEN Null ELSE lines[s].heading

\* The paragraphs with text of a section, and whether it is little, and together.
OfSection(lines, content, s) ==
    {p \in DOMAIN content : \E char \in ToSet(content[p]) : SectionOver(lines, char) = s}
Little(lines, content, s) ==
    \E lo, hi \in DOMAIN content : /\ OfSection(lines, content, s) = lo..hi
                                   /\ SizeOf(SubSeq(content, lo, hi)) < MinChars

\* Whether two pieces that are short fit into one chunk, as with the defaults.
Roomy == 2 * MinChars <= MaxChars

\* A chunk is under the heading of the section it begins in, and holds next to
\* nothing of any other.
UnderItsHeading(lines, chunk) ==
    LET home == SectionOver(lines, chunk.content[1][1])
    IN /\ chunk.heading = HeadingOf(lines, home)
       /\ Roomy => \A s \in 0..Len(lines) : \/ s = home
                                            \/ OfSection(lines, chunk.content, s) = {}
                                            \/ Little(lines, chunk.content, s)
=============================================================================
