------------------------------- MODULE Compare -------------------------------
(***************************************************************************)
(* eval/compare.py: whether an actual result matches a reference result.   *)
(*                                                                         *)
(* A cell is a number, written with so many decimal places, a truth value, *)
(* a text in the normal form _normalise gives it, or no value. A spec is a *)
(* CompareSpec.                                                            *)
(* compare_results is written as the code computes it, the pairing of rows *)
(* by augmenting paths included; SameAnswer says what it is meant to       *)
(* decide. Numbers are exact here: the code rounds binary floats, and the  *)
(* two agree where no value lies halfway between two roundings.            *)
(***************************************************************************)
EXTENDS Integers, Sequences, SequencesExt

\* units * 10 ^ -places, a truth value, and a text.
Number(units, places) == [units |-> units, places |-> places]
Flag(b) == [flag |-> b]
Text(t) == [text |-> t]
NoValue == [null |-> TRUE]

IsNumber(cell) == DOMAIN cell = {"units", "places"}
IsFlag(cell) == DOMAIN cell = {"flag"}

Least(a, b) == IF a <= b THEN a ELSE b
Greatest(a, b) == IF a >= b THEN a ELSE b

\* The nearest integer to n / d, to the even one of two.
Nearest(n, d) ==
    LET low == n \div d
        twice == 2 * (n % d)
    IN IF twice < d \/ (twice = d /\ low % 2 = 0) THEN low ELSE low + 1

\* round(number / 10 ^ shift, decimals), in units of 10 ^ -decimals.
Rounded(number, shift, decimals) ==
    LET drop == number.places + shift - decimals
    IN IF drop <= 0 THEN number.units * 10 ^ (-drop) ELSE Nearest(number.units, 10 ^ drop)

\* The decimal places of units * 10 ^ -places once trailing zeros are gone.
SignificantPlaces(units, places) ==
    CHOOSE p \in 0..places :
        /\ units % 10 ^ (places - p) = 0
        /\ p > 0 => units % 10 ^ (places - p + 1) # 0

MinRatioPlaces == 3

\* A scale is the number of places it shifts: 0, or 2 for a percentage.
Scales(spec) == IF spec.acceptPercent THEN {0, 2} ELSE {0}

\* True is 1 and False is 0, wherever they meet a number.
Worth(cell) == IF cell.flag THEN 1 ELSE 0

\* _normalise, and what it makes equal.
Normalised(cell, decimals) ==
    IF IsNumber(cell) THEN Number(Rounded(cell, 0, decimals), decimals)
    ELSE IF IsFlag(cell) THEN Number(Worth(cell) * 10 ^ decimals, decimals)
    ELSE cell

\* A number written to fewer places than asked for is judged at its own precision.
ValuesMatch(wanted, got, spec, scale) ==
    IF IsNumber(wanted) /\ IsNumber(got)
    THEN LET target == Rounded(wanted, 0, spec.decimals)
             places == got.places + scale
             needed == Least(Least(MinRatioPlaces, spec.decimals),
                             SignificantPlaces(target, spec.decimals))
         IN IF places >= spec.decimals
            THEN Rounded(got, scale, spec.decimals) = target
            ELSE places >= needed /\ Rounded(got, scale, places) = Rounded(wanted, 0, places)
    ELSE Normalised(wanted, spec.decimals) = Normalised(got, spec.decimals)

\* Mutant of Matchable: an owner never gives up its slot for another one.
FirstFree(n, fits) ==
    LET from[item \in 1..(n + 1), used \in SUBSET (1..n)] ==
            \/ item > n
            \/ \E slot \in (1..n) \ used :
                  /\ <<item, slot>> \in fits
                  /\ \A s \in 1..(slot - 1) : s \notin used => <<item, s>> \notin fits
                  /\ from[item + 1, used \cup {slot}]
    IN from[1, {}]

\* Whether every item of 1..n is paired with a slot it fits (fits holds the
\* pairs), each with a slot of its own: each item takes the first slot it fits
\* that is free or whose owner finds another one, and no slot is looked at twice
\* for one item.
Matchable(n, fits) ==
    LET State == [seen : SUBSET (1..n), owner : [1..n -> 0..n]]
        from[item \in 1..n, slot \in 1..(n + 1), s \in State] ==
            IF slot > n THEN [placed |-> FALSE, seen |-> s.seen, owner |-> s.owner]
            ELSE IF slot \in s.seen \/ <<item, slot>> \notin fits THEN from[item, slot + 1, s]
            ELSE LET looked == [s EXCEPT !.seen = @ \cup {slot}]
                     moved == IF s.owner[slot] = 0
                              THEN [placed |-> TRUE, seen |-> looked.seen, owner |-> s.owner]
                              ELSE from[s.owner[slot], 1, looked]
                 IN IF moved.placed
                    THEN [moved EXCEPT !.owner[slot] = item]
                    ELSE from[item, slot + 1, [seen |-> moved.seen, owner |-> moved.owner]]
        all[item \in 1..(n + 1), owner \in [1..n -> 0..n]] ==
            item > n \/ LET r == from[item, 1, [seen |-> {}, owner |-> owner]]
                        IN r.placed /\ all[item + 1, r.owner]
    IN all[1, [i \in 1..n |-> 0]]

-----------------------------------------------------------------------------

\* The actual columns, with a scale, whose values match reference column c.
CandidateColumns(c, expected, got, spec) ==
    LET n == Len(expected)
        Fits(option, i, j) == ValuesMatch(expected[i][c], got[j][option[1]], spec, option[2])
    IN {option \in (1..Len(got[1])) \X Scales(spec) :
            IF spec.mode = "ordered"
            THEN \A i \in 1..n : Fits(option, i, i)
            ELSE Matchable(n, {p \in (1..n) \X (1..n) : Fits(option, p[1], p[2])})}

\* Mutant of Assign: each column matches, and no row has to.
AssignColumns(candidates, expected, got, spec) ==
    \E chosen \in [DOMAIN candidates -> UNION Range(candidates)] :
        /\ \A c \in DOMAIN candidates : chosen[c] \in candidates[c]
        /\ \A c, d \in DOMAIN candidates : c # d => chosen[c][1] # chosen[d][1]

\* Different columns, and the rows agree under all of them at once.
Assign(candidates, expected, got, spec) ==
    \E chosen \in [DOMAIN candidates -> UNION Range(candidates)] :
        /\ \A c \in DOMAIN candidates : chosen[c] \in candidates[c]
        /\ \A c, d \in DOMAIN candidates : c # d => chosen[c][1] # chosen[d][1]
        /\ \/ spec.mode = "ordered"
           \/ LET n == Len(expected)
              IN Matchable(n, {p \in (1..n) \X (1..n) :
                     \A c \in DOMAIN candidates :
                         ValuesMatch(expected[p[1]][c], got[p[2]][chosen[c][1]], spec,
                                     chosen[c][2])})

CompareScalar(reference, actual, spec) ==
    /\ Len(reference) = 1 /\ Len(reference[1]) = 1
    /\ \E cell \in Range(actual[1]), scale \in Scales(spec) :
            ValuesMatch(reference[1][1], cell, spec, scale)

TopOf(rows, spec) ==
    IF spec.mode = "ordered" /\ spec.topK < Len(rows) THEN SubSeq(rows, 1, spec.topK) ELSE rows

CompareTables(reference, actual, spec) ==
    LET expected == TopOf(reference, spec)
        got == TopOf(actual, spec)
        candidates == [c \in DOMAIN expected[1] |-> CandidateColumns(c, expected, got, spec)]
    IN /\ Len(expected) = Len(got)
       /\ Len(got[1]) >= Len(expected[1])
       /\ \A c \in DOMAIN candidates : candidates[c] # {}
       /\ Assign(candidates, expected, got, spec)

\* compare_results
CompareResults(reference, actual, spec) ==
    IF reference = <<>> \/ actual = <<>> THEN reference = actual
    ELSE IF spec.mode = "scalar" THEN CompareScalar(reference, actual, spec)
    ELSE CompareTables(reference, actual, spec)

\* hit_at_k over the sources of an answer.
HitK == 4
HitAtK(wanted, returned) == \E i \in 1..Least(HitK, Len(returned)) : returned[i] \in wanted

-----------------------------------------------------------------------------
(* What compare_results is meant to decide                                 *)

\* Whether units * 10 ^ -places is within half of 10 ^ -half of m * 10 ^ -p.
Near(units, places, m, p, half) ==
    LET most == Greatest(places, Greatest(p, half))
        off == 2 * (units * 10 ^ (most - places) - m * 10 ^ (most - p))
    IN off \in -(10 ^ (most - half))..10 ^ (most - half)

\* A number that stands for a truth value.
Stands(number, flag, decimals) ==
    Near(number.units, number.places, Worth(flag), 0, decimals)

\* Two numbers are one value at the coarser of their precisions, which has to be
\* the asked one, or three places, or enough to write the reference with.
SameCell(wanted, got, spec, scale) ==
    IF ~IsNumber(wanted) \/ ~IsNumber(got)
    THEN \/ wanted = got
         \/ IsNumber(wanted) /\ IsFlag(got) /\ Stands(wanted, got, spec.decimals)
         \/ IsFlag(wanted) /\ IsNumber(got) /\ Stands(got, wanted, spec.decimals)
    ELSE LET p == Least(got.places + scale, spec.decimals)
             whole == (wanted.units * 10 ^ p) \div 10 ^ wanted.places
         IN \E m \in {whole, whole + 1} :
                /\ Near(wanted.units, wanted.places, m, p, p)
                /\ Near(got.units, got.places + scale, m, p, p)
                /\ \/ p = spec.decimals \/ p >= MinRatioPlaces
                   \/ Near(wanted.units, wanted.places, m, p, spec.decimals)

Injections(S, T) == {f \in [S -> T] : \A x, y \in S : x # y => f[x] # f[y]}

\* Some columns of the actual result, each on one scale, show the rows of the
\* reference: in its order, or in any order.
SameAnswer(reference, actual, spec) ==
    LET R == TopOf(reference, spec)
        A == TopOf(actual, spec)
    IN IF R = <<>> \/ A = <<>> THEN R = A
       ELSE IF spec.mode = "scalar"
       THEN /\ Len(R) = 1 /\ Len(R[1]) = 1
            /\ \E c \in DOMAIN A[1], s \in Scales(spec) : SameCell(R[1][1], A[1][c], spec, s)
       ELSE /\ Len(R) = Len(A)
            /\ \E col \in Injections(DOMAIN R[1], DOMAIN A[1]),
                  scale \in [DOMAIN R[1] -> Scales(spec)],
                  row \in Injections(DOMAIN R, DOMAIN A) :
                    /\ spec.mode = "ordered" => \A i \in DOMAIN R : row[i] = i
                    /\ \A i \in DOMAIN R, c \in DOMAIN R[1] :
                            SameCell(R[i][c], A[row[i]][col[c]], spec, scale[c])
=============================================================================
