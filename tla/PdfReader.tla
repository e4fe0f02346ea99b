------------------------------ MODULE PdfReader ------------------------------
(***************************************************************************)
(* ingestion/docs/pdf_reader.py: the blocks of a document, from the words  *)
(* and the horizontal marks its pages carry.                               *)
(*                                                                         *)
(* A page is a set of words and a set of marks. Lengths are tenths of a    *)
(* point; means are rounded to one. A word has the characters it prints,   *)
(* and what is left of it once digits are masked, and once case is folded  *)
(* as well. A character is a drawing of its glyph at one place; folded is  *)
(* that glyph without its case. pdfplumber puts a character in the cell    *)
(* its centre is in; one that slips it returns in no cell. Spacing is left *)
(* out. Any ParseError is the result Null.                                 *)
(***************************************************************************)
EXTENDS Integers, Sequences, SequencesExt, FiniteSetsExt

CONSTANT Null \* a model value

\* What SectionSpec and ParseSpec let through: the names themselves are distinct. A
\* section is a heading, what it is like, and columns; a column is a name and what
\* is left of it once case is folded.
IsParseSpec(sections) ==
    /\ sections \in Seq(ToSet(sections)) /\ sections # <<>>
    /\ \A i, j \in DOMAIN sections : sections[i].heading = sections[j].heading => i = j
    /\ \A s \in ToSet(sections) :
        /\ s.columns \in Seq(ToSet(s.columns)) /\ s.columns # <<>>
        /\ \A c, d \in DOMAIN s.columns : s.columns[c].name = s.columns[d].name => c = d

MaxRuleThickness == 20
MinRuleWidth == 400
EdgeTolerance == 20
LineTolerance == 30
WordHeight == 80

Abs(n) == IF n < 0 THEN -n ELSE n
Close(a, b) == Abs(a - b) <= EdgeTolerance
AtLeast(n, least) == IF n >= least THEN n ELSE least

\* The elements of a finite set, those with the least keys first.
Before(a, b) == a[1] < b[1] \/ (a[1] = b[1] /\ a[2] < b[2])
FirstOf(S, key) == CHOOSE x \in S : \A y \in S : ~Before(key[y], key[x])
InOrder(S, key) ==
    LET first[n \in 0..Cardinality(S)] ==
            IF n = 0 THEN <<>>
            ELSE LET s == first[n - 1] IN Append(s, FirstOf(S \ ToSet(s), key))
    IN first[Cardinality(S)]

Ascending(S) == InOrder(S, [n \in S |-> <<n, 0>>])

\* The elements of a sequence at these positions.
Chosen(s, positions) == LET at == Ascending(positions) IN [k \in DOMAIN at |-> s[at[k]]]

\* Neighbours no further apart than the tolerance are one value, their mean.
WithValue(groups, v) ==
    IF groups # <<>> /\ v - Last(Last(groups)) <= EdgeTolerance
    THEN Append(Front(groups), Append(Last(groups), v))
    ELSE Append(groups, <<v>>)
Plus(a, b) == a + b
Mean(group) == (2 * FoldLeft(Plus, 0, group) + Len(group)) \div (2 * Len(group))
Cluster(sorted) ==
    LET groups == FoldLeft(WithValue, <<>>, sorted) IN [i \in DOMAIN groups |-> Mean(groups[i])]

\* The marks thin and wide enough to be an edge of a table.
PageRules(page) ==
    {r \in page.rules : r.thick <= MaxRuleThickness /\ r.right - r.left >= MinRuleWidth}

\* The edges a page votes for are drawn again at another height.
Votes(page) ==
    LET rules == PageRules(page)
        marks == {<<r.left, r, 1>> : r \in rules} \cup {<<r.right, r, 2>> : r \in rules}
        ends == InOrder(marks, [m \in marks |-> <<m[1], 0>>])
        heights(e) == {r.y : r \in {s \in rules : Close(s.left, e) \/ Close(s.right, e)}}
    IN {e \in ToSet(Cluster([i \in DOMAIN ends |-> ends[i][1]])) : Cardinality(heights(e)) >= 2}

ColumnQuorum(n) == AtLeast(n \div 2, 1)

\* Null when the pages of a section share no grid.
ColumnEdges(pages) ==
    LET votes(e) == Cardinality({i \in DOMAIN pages : e \in Votes(pages[i])})
        voted == UNION {Votes(pages[i]) : i \in DOMAIN pages}
        agreed == Cluster(Ascending({e \in voted : votes(e) >= ColumnQuorum(Len(pages))}))
    IN IF Len(agreed) < 2 THEN Null ELSE agreed

\* The heights of the marks that span a column.
RowEdges(page, columns) ==
    LET aligned == {r \in PageRules(page) : \E c \in 1..(Len(columns) - 1) :
                        Close(r.left, columns[c]) /\ Close(r.right, columns[c + 1])}
        drawn == InOrder(aligned, [r \in aligned |-> <<r.y, 0>>])
    IN Cluster([i \in DOMAIN drawn |-> drawn[i].y])

\* Null for a page that carries no table.
PageGrid(page, columns) ==
    LET rows == RowEdges(page, columns)
    IN IF Len(rows) < 2 THEN Null ELSE [columns |-> columns, rows |-> rows]

-----------------------------------------------------------------------------
(* Lines of text                                                           *)

DownThePage(words) == InOrder(words, [w \in words |-> <<w.top, w.left>>])
LeftToRight(words) == InOrder(words, [w \in words |-> <<w.left, 0>>])

\* Words are of one line when they are near its highest one.
WithWord(lines, w) ==
    IF lines # <<>> /\ w.top - Last(lines)[1].top <= LineTolerance
    THEN Append(Front(lines), Append(Last(lines), w))
    ELSE Append(lines, <<w>>)
PageLines(page) ==
    LET lines == FoldLeft(WithWord, <<>>, DownThePage(page.words))
    IN [i \in DOMAIN lines |-> LeftToRight(ToSet(lines[i]))]

\* _normalise, with and without casefold, and the characters that are printed.
MaskedOf(line) == [i \in DOMAIN line |-> line[i].masked]
LikeOf(line) == [i \in DOMAIN line |-> line[i].like]
TextOf(line) == FlattenSeq([i \in DOMAIN line |-> line[i].chars])
TopOfLine(line) == Min({w.top : w \in ToSet(line)})

\* Whether the centre of the box of these words is inside the table.
Inside(line, grid) ==
    LET words == ToSet(line)
        across == Min({w.left : w \in words}) + Max({w.right : w \in words})
        down == TopOfLine(line) + Max({w.top : w \in words}) + WordHeight
    IN /\ across \in 2 * grid.columns[1]..2 * Last(grid.columns)
       /\ down \in 2 * grid.rows[1]..2 * Last(grid.rows)

RunningQuorum(n) == AtLeast((4 * n) \div 5, 2)

\* What repeats outside the tables of enough pages is page furniture.
RunningLines(outside) ==
    LET printed(i) == {MaskedOf(l) : l \in ToSet(outside[i])}
    IN {masked \in UNION {printed(i) : i \in DOMAIN outside} :
            Cardinality({i \in DOMAIN outside : masked \in printed(i)}) >= RunningQuorum(Len(outside))}

\* The heading a line is like, or Null: of two that are alike, the later one.
Wanted(line, sections) ==
    LET alike == {j \in DOMAIN sections : sections[j].like = LikeOf(line)}
    IN IF alike = {} THEN Null ELSE sections[Max(alike)].heading

\* The first line of a page that is a declared heading, or Null, and that heading.
HeadingLine(page, sections) ==
    LET lines == PageLines(page)
        found == {k \in DOMAIN lines : Wanted(lines[k], sections) # Null}
    IN IF found = {} THEN Null ELSE lines[Min(found)]
HeadingOn(page, sections) ==
    LET found == HeadingLine(page, sections) IN IF found = Null THEN Null ELSE Wanted(found, sections)

-----------------------------------------------------------------------------
(* Tables                                                                  *)

CharsOn(page) == UNION {ToSet(w.chars) : w \in page.words}

\* A cell holds the characters whose centres are in it, whatever their words.
CellOf(page, grid, r, c) ==
    LET holds(x) == /\ ~x.slips
                    /\ 2 * grid.columns[c] <= x.left + x.right
                    /\ x.left + x.right < 2 * grid.columns[c + 1]
                    /\ 2 * grid.rows[r] <= 2 * x.top + WordHeight
                    /\ 2 * x.top + WordHeight < 2 * grid.rows[r + 1]
    IN DownThePage({x \in CharsOn(page) : holds(x)})

ExtractGridRows(page, grid) ==
    [r \in 1..(Len(grid.rows) - 1) |->
        [c \in 1..(Len(grid.columns) - 1) |-> CellOf(page, grid, r, c)]]

\* The characters of the words inside the table, and those its cells return.
DrawnIn(page, grid) == UNION {ToSet(w.chars) : w \in {v \in page.words : Inside(<<v>>, grid)}}
ReturnedBy(rows) == UNION {ToSet(FlattenSeq(rows[r])) : r \in DOMAIN rows}

OfGlyph(chars, glyph) == {x \in chars : x.glyph = glyph}

\* Mutant of Covered: that each glyph comes back at all is enough.
GlyphsCovered(drawn, returned) == {x.glyph : x \in drawn} \subseteq {x.glyph : x \in returned}

\* assert_grid_coverage: as multisets of glyphs, what is drawn is returned.
Covered(drawn, returned) ==
    \A glyph \in {x.glyph : x \in drawn} :
        Cardinality(OfGlyph(drawn, glyph)) <= Cardinality(OfGlyph(returned, glyph))

\* A repeated header row and an empty row are no data.
FoldedOf(cell) == [i \in DOMAIN cell |-> cell[i].folded]
HeaderMatches(row, section) == \A c \in DOMAIN row : FoldedOf(row[c]) = section.columns[c].folded

\* dict(zip(columns, row)).
NamesOf(section) == {column.name : column \in ToSet(section.columns)}
ColumnNamed(section, name) == CHOOSE c \in DOMAIN section.columns : section.columns[c].name = name
NamedCells(section, row) == [name \in NamesOf(section) |-> row[ColumnNamed(section, name)]]

RowsToBlocks(section, rows) ==
    LET kept == Ascending({r \in DOMAIN rows : /\ ~(r = 1 /\ HeaderMatches(rows[1], section))
                                               /\ \E c \in DOMAIN rows[r] : rows[r][c] # <<>>})
    IN [i \in DOMAIN kept |->
            [type |-> "table_row", section |-> section.heading, cells |-> NamedCells(section, rows[kept[i]])]]

-----------------------------------------------------------------------------
(* The document                                                            *)

SectionNamed(heading, sections) == CHOOSE s \in ToSet(sections) : s.heading = heading

\* The section each page belongs to: the last one whose heading came up, or Null.
SectionOfPages(doc, sections) ==
    LET of[i \in 0..Len(doc)] ==
            IF i = 0 THEN Null
            ELSE IF HeadingOn(doc[i], sections) # Null THEN HeadingOn(doc[i], sections) ELSE of[i - 1]
    IN of

\* Above a heading that opens a section, the text is of the section that ends.
OwnerOf(line, doc, i, m) ==
    LET opens == HeadingOn(doc[i], m.sections)
    IN IF /\ opens # Null
          /\ m.sectionOf[i - 1] \notin {Null, opens}
          /\ TopOfLine(line) < TopOfLine(HeadingLine(doc[i], m.sections))
       THEN m.sectionOf[i - 1]
       ELSE m.sectionOf[i]

LineBlock(line, doc, i, m) ==
    IF LikeOf(line) = SectionNamed(m.sectionOf[i], m.sections).like
    THEN [type |-> "heading", section |-> m.sectionOf[i], text |-> TextOf(line)]
    ELSE [type |-> "paragraph", section |-> OwnerOf(line, doc, i, m), text |-> TextOf(line)]

\* The grid of each section, agreed across its own pages; Null where there is none.
GridColumns(doc, sectionOf) ==
    [h \in {sectionOf[i] : i \in DOMAIN doc} |->
        ColumnEdges(Chosen(doc, {i \in DOMAIN doc : sectionOf[i] = h}))]

GridsOn(doc, sectionOf, columns) ==
    [i \in DOMAIN doc |-> IF columns[sectionOf[i]] = Null THEN Null
                          ELSE PageGrid(doc[i], columns[sectionOf[i]])]

Grids(doc, sectionOf) == GridsOn(doc, sectionOf, GridColumns(doc, sectionOf))

\* The lines of each page that are in none of its tables.
Outside(doc, grid) ==
    [i \in DOMAIN doc |->
        LET lines == PageLines(doc[i])
        IN Chosen(lines, {k \in DOMAIN lines : grid[i] = Null \/ ~Inside(lines[k], grid[i])})]

\* What the passes over a document leave for its blocks to be made of.
Furnished(sections, sectionOf, grid, outside) ==
    [sections |-> sections, sectionOf |-> sectionOf, grid |-> grid, outside |-> outside,
     furniture |-> RunningLines(outside)]

OnGrid(doc, sections, sectionOf, grid) == Furnished(sections, sectionOf, grid, Outside(doc, grid))
InSections(doc, sections, sectionOf) == OnGrid(doc, sections, sectionOf, Grids(doc, sectionOf))
Measured(doc, sections) == InSections(doc, sections, SectionOfPages(doc, sections))

\* Whether the document has the structure the registry declares.
AsDeclared(doc, m) ==
    /\ doc # <<>>
    /\ Null \notin ToSet(m.grid)
    /\ \A i \in DOMAIN doc :
        /\ m.sectionOf[i] # Null
        /\ Covered(DrawnIn(doc[i], m.grid[i]), ReturnedBy(ExtractGridRows(doc[i], m.grid[i])))
        /\ Len(m.grid[i].columns) - 1 = Len(SectionNamed(m.sectionOf[i], m.sections).columns)

PageBlocks(doc, i, m) ==
    LET lines == Chosen(m.outside[i],
                        {k \in DOMAIN m.outside[i] : MaskedOf(m.outside[i][k]) \notin m.furniture})
    IN [k \in DOMAIN lines |-> LineBlock(lines[k], doc, i, m)]
       \o RowsToBlocks(SectionNamed(m.sectionOf[i], m.sections), ExtractGridRows(doc[i], m.grid[i]))

BlocksFrom(doc, m) ==
    IF AsDeclared(doc, m)
    THEN FlattenSeq([i \in DOMAIN doc |-> PageBlocks(doc, i, m)])
    ELSE Null

ParseDocument(doc, sections) == BlocksFrom(doc, Measured(doc, sections))

-----------------------------------------------------------------------------
(* What the blocks of a document are meant to keep                         *)

\* A document is a sequence of pages, each with finitely many words and marks at
\* whole numbers; no character is of two words.
IsDocument(doc) ==
    /\ doc \in Seq(ToSet(doc))
    /\ \A page \in ToSet(doc) :
        /\ IsFiniteSet(page.words) /\ IsFiniteSet(page.rules)
        /\ \A w \in page.words :
            /\ {w.left, w.right, w.top} \subseteq Int
            /\ w.chars \in Seq(ToSet(w.chars))
            /\ \A x \in ToSet(w.chars) : {x.left, x.right, x.top} \subseteq Int
        /\ \A r \in page.rules : {r.left, r.right, r.y, r.thick} \subseteq Int
    /\ \A i, j \in DOMAIN doc : \A v \in doc[i].words, w \in doc[j].words :
            (i = j /\ v = w) \/ ToSet(v.chars) \cap ToSet(w.chars) = {}

\* The blocks a character is in, the cells of one row being different blocks.
BlocksWith(x, blocks) ==
    {<<i, 0>> : i \in {j \in DOMAIN blocks : /\ blocks[j].type # "table_row"
                                           /\ x \in ToSet(blocks[j].text)}}
    \cup UNION {{<<i, c>> : c \in {d \in DOMAIN blocks[i].cells : x \in ToSet(blocks[i].cells[d])}} :
                i \in {j \in DOMAIN blocks : blocks[j].type = "table_row"}}

\* A line of which another page has one that differs in digits only.
Recurs(doc, line) ==
    Cardinality({i \in DOMAIN doc :
                    MaskedOf(line) \in {MaskedOf(l) : l \in ToSet(PageLines(doc[i]))}}) > 1

\* A character of a first row that spells the names of the columns.
InHeader(x, rows, section) == HeaderMatches(rows[1], section) /\ x \in ToSet(FlattenSeq(rows[1]))

\* A character drawn with the glyph of x, by a word outside the table, that a cell
\* returns: it makes up for x where glyphs are counted.
MadeUpFor(x, page, grid, rows) ==
    \E w \in page.words :
        ~Inside(<<w>>, grid) /\ OfGlyph(ToSet(w.chars), x.glyph) \cap ReturnedBy(rows) # {}

\* What is left out on purpose: page furniture, and a header that is repeated.
MeantToGo(x, line, doc, i, m) ==
    \/ Recurs(doc, line)
    \/ InHeader(x, ExtractGridRows(doc[i], m.grid[i]), SectionNamed(m.sectionOf[i], m.sections))

\* No character goes that is not meant to.
DropsNoText(doc, sections, blocks) ==
    LET m == Measured(doc, sections)
    IN \A i \in DOMAIN m.grid : \A line \in ToSet(PageLines(doc[i])) : \A w \in ToSet(line) :
       \A x \in ToSet(w.chars) : BlocksWith(x, blocks) # {} \/ MeantToGo(x, line, doc, i, m)

\* Each character is in one block, or is meant to go, with two exceptions that are
\* not meant. A line is inside a table or outside as a whole, its words each for
\* itself; and coverage is counted, so that one character may stand for another.
KeepsEveryCharacter(doc, sections, blocks) ==
    LET m == Measured(doc, sections)
    IN \A i \in DOMAIN m.grid : \A line \in ToSet(PageLines(doc[i])) : \A w \in ToSet(line) :
       \A x \in ToSet(w.chars) :
            \/ Cardinality(BlocksWith(x, blocks)) = 1
            \/ BlocksWith(x, blocks) = {} /\ MeantToGo(x, line, doc, i, m)
            \/ Inside(line, m.grid[i]) # Inside(<<w>>, m.grid[i])
            \/ MadeUpFor(x, doc[i], m.grid[i], ExtractGridRows(doc[i], m.grid[i]))
=============================================================================
