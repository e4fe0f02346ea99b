---------------------------- MODULE MCDocPipeline ----------------------------
(***************************************************************************)
(* Small instances of DocPipeline for TLC: documents of one, two or three  *)
(* pages, each with something the reader has to tell apart, and corpora of *)
(* a few lines. A glyph is a letter; a word has as many as it needs.       *)
(***************************************************************************)
EXTENDS DocPipeline

Lower(glyph) ==
    CASE glyph = "T" -> "t" [] glyph = "D" -> "d" [] glyph = "A" -> "a" [] OTHER -> glyph
Mask(glyph) == IF glyph \in {"1", "2"} THEN "#" ELSE glyph

\* A word of page p: its letters side by side, each as wide as the last is.
Across(p, letters, left, top, wide) ==
    [chars |-> [k \in DOMAIN letters |->
                    [glyph |-> letters[k], folded |-> Lower(letters[k]), page |-> p, top |-> top,
                     left |-> left + (k - 1) * wide, right |-> left + k * wide, slips |-> FALSE]],
     masked |-> [k \in DOMAIN letters |-> Mask(letters[k])],
     like |-> [k \in DOMAIN letters |-> Lower(Mask(letters[k]))],
     left |-> left, right |-> left + Len(letters) * wide, top |-> top]
Word(p, letters, left, top) == Across(p, letters, left, top, 100)

\* A section named in capitals, its columns in small letters or in capitals.
Column(letters) == [name |-> letters, folded |-> [k \in DOMAIN letters |-> Lower(letters[k])]]
Section(letters, first, second) ==
    [heading |-> letters, like |-> <<[k \in DOMAIN letters |-> Lower(letters[k])]>>,
     columns |-> <<Column(first), Column(second)>>]
Definitions == Section(<<"D">>, <<"T">>, <<"d", "f">>)
Abbreviations == Section(<<"A">>, <<"s">>, <<"l">>)

\* As the documents are; two headings that are alike; a column, or a key, of another
\* name; a section that is gone.
MCSections ==
    [usual |-> <<Definitions, Abbreviations>>,
     alike |-> <<Definitions, Section(<<"d">>, <<"T">>, <<"d", "f">>)>>,
     renamed |-> <<[Definitions EXCEPT !.columns[2] = Column(<<"m">>)], Abbreviations>>,
     rekeyed |-> <<[Definitions EXCEPT !.columns[1] = Column(<<"t">>)], Abbreviations>>,
     dropped |-> <<Abbreviations>>]

\* Two columns, 500 to 2500 and 2500 to 5000, and a mark per column under each row.
Ruled(heights) ==
    {[left |-> s[1], right |-> s[2], y |-> y, thick |-> 5] :
        s \in {<<500, 2500>>, <<2500, 5000>>}, y \in heights}
Underline == [left |-> 600, right |-> 1100, y |-> 1250, thick |-> 5]
Panel == [left |-> 500, right |-> 4000, y |-> 1100, thick |-> 200]

\* Two cells of a row, at a height.
Row(p, key, value, top) == {Word(p, key, 600, top), Word(p, value, 2600, top)}
Header(p) == Row(p, <<"t">>, <<"D", "f">>, 1050)
Footer(p, number) == Word(p, <<"p", number>>, 4000, 7500)
Title(p, letters) == Word(p, letters, 500, 500)

Rows2 == Ruled({1000, 1200, 1400})

First == [words |-> {Title(1, <<"D">>), Footer(1, "1")} \cup Header(1)
                    \cup Row(1, <<"k">>, <<"r", "s">>, 1250),
          rules |-> Rows2 \cup {Underline, Panel}]

\* The entry goes on in a row without a key; a hyperlink is underlined below.
Second == [words |-> {Footer(2, "2"), Word(2, <<"o">>, 2600, 1050)}
                     \cup Row(2, <<"n">>, <<"c", "r">>, 1250),
           rules |-> Rows2 \cup {[Underline EXCEPT !.y = 3000]}]

\* Another section opens under a line of the one before.
Opening == [words |-> {Footer(2, "2"), Word(2, <<"e">>, 600, 300), Title(2, <<"A">>)}
                      \cup Row(2, <<"i">>, <<"g">>, 1050) \cup Row(2, <<"u">>, <<"o">>, 1250),
            rules |-> Rows2]

With(page, words) == [page EXCEPT !.words = @ \cup words]
Lost == [Word(1, <<"k">>, 2450, 1250) EXCEPT !.chars[1].slips = TRUE]

\* Words across an edge: of a column, of the table with the centre inside, and of
\* the table with the centre outside.
Split == Across(1, <<"w", "z">>, 2300, 1250, 250)
Overhang == Across(1, <<"k", "k", "y">>, 4450, 1250, 250)
Aside == Across(1, <<"y", "x", "x">>, 4800, 1250, 200)
Margin == Word(1, <<"v">>, 5100, 1250)

MCPages ==
    [glossary |-> <<First, Second>>,
     revised |-> <<First, Opening>>,
     leaflet |-> <<First>>,
     reprint |-> <<With(First, {Word(1, <<"g">>, 2800, 1250)})>>,
     stray |-> <<First, With(Second, {Word(2, <<"q">>, 600, 300)})>>,
     split |-> <<With(First, {Split}), Second>>,
     margin |-> <<With(First, {Margin}), Second>>,
     swapped |-> <<With(First, {Overhang, Aside})>>,
     empty |-> <<>>,
     slipped |-> <<With(First, {Lost})>>,
     cut |-> <<With(First, {Overhang})>>,
     headless |-> <<Second>>,
     bare |-> <<[First EXCEPT !.rules = {Underline}]>>,
     tableless |-> <<First, [Second EXCEPT !.rules = Ruled({1000})]>>,
     wider |-> <<[First EXCEPT !.rules = @ \cup
                    {[left |-> 2500, right |-> 4000, y |-> y, thick |-> 5] : y \in {1000, 1200}}]>>]

\* The lines of a corpus, each with characters of its own.
Line(kind, n) == IF kind = 0 THEN [heading |-> n] ELSE [chars |-> [i \in 1..kind |-> <<n, i>>]]
Corpora == UNION {{[i \in 1..n |-> Line(k[i], i)] : k \in [1..n -> {0, 1, 3, 9}]} : n \in 0..4}

Scene(docs, sends, fetchers, limits, faults) ==
    [first |-> docs[1], pins |-> ToSet(docs), spec |-> "usual", specs |-> {"usual"},
     sends |-> sends, corpus |-> <<>>, fetchers |-> fetchers,
     commands |-> limits[1], deaths |-> limits[2], repins |-> limits[3], faults |-> faults]
Declaring(scenario, specs) == [scenario EXCEPT !.spec = specs[1], !.specs = ToSet(specs)]

One == {CHOOSE f \in Fetchers : TRUE}

\* Each document on its own, headings that are alike, and each corpus.
Alone == {Scene(<<d>>, {d}, One, <<3, 0, 0>>, FALSE) : d \in DOMAIN MCPages}
         \cup {Declaring(Scene(<<"glossary">>, {"glossary"}, One, <<3, 0, 0>>, FALSE), <<"alike">>)}
Beside == {[Scene(<<"glossary">>, {}, {}, <<1, 0, 0>>, FALSE) EXCEPT !.corpus = c] : c \in Corpora}

\* Downloads at once, from a server that changes what it sends.
AtOnce == {Scene(<<"leaflet">>, {"leaflet", "reprint"}, Fetchers, <<3, 1, 0>>, TRUE)}

\* Commands that die, and are run again.
Dying == {Scene(<<"leaflet">>, {"leaflet"}, One, <<5, 2, 0>>, FALSE)}

\* A registry that changes what it pins, and one that changes what it declares.
Changing == {Scene(<<"leaflet", "reprint">>, {"leaflet", "reprint"}, One, limits, FALSE) :
                limits \in {<<4, 0, 1>>, <<3, 1, 1>>}}
Redeclaring == {Declaring(Scene(<<"leaflet">>, {"leaflet"}, One, <<3, 0, 1>>, FALSE),
                          <<"usual", spec>>) : spec \in {"renamed", "rekeyed", "dropped"}}

MCScenarios == Alone \cup Beside \cup AtOnce \cup Dying \cup Changing \cup Redeclaring

\* The fetchers are alike.
Symmetry == Permutations(Fetchers)
=============================================================================
