---------------------------- MODULE ReadingProofs ----------------------------
(***************************************************************************)
(* That the passages of a corpus keep all of its text, next to none of it  *)
(* under a heading of another section, for every text and limits; that the *)
(* blocks of a document keep each of its characters, for every document and*)
(* every declaration of its sections; and what the operators on sequences  *)
(* that this rests on return.                                              *)
(***************************************************************************)
EXTENDS Passages, SequenceTheorems, FiniteSetTheorems, WellFoundedInduction, TLAPS

SizeFold == INSTANCE FoldTheorems WITH Op <- Longer
SectionFold == INSTANCE FoldTheorems WITH Op <- WithLine
GatherFold == INSTANCE FoldTheorems WITH Op <- Gather
MergeFold == INSTANCE FoldTheorems WITH Op <- Merge
LineFold == INSTANCE FoldTheorems WITH Op <- WithWord
ClusterFold == INSTANCE FoldTheorems WITH Op <- WithValue
SumFold == INSTANCE FoldTheorems WITH Op <- Plus

-----------------------------------------------------------------------------
(* Sequences                                                               *)

\* What has zero, and each number that follows one it has, has them all.
LEMMA UpTo ==
    ASSUME NEW n \in Nat, NEW S, 0 \in S, \A k \in 1..n : k - 1 \in S => k \in S
    PROVE  n \in S
<1>1. \A k \in 0..n : k \in S
  BY SizeFold!UpTo
<1> QED
  BY <1>1

\* Concatenation, element by element.
Flattens(g, k, seqs) == g = [i \in 1..k |-> IF i = 1 THEN seqs[i] ELSE g[i - 1] \o seqs[i]]

LEMMA FlattenExists ==
    ASSUME NEW seqs, NEW n \in Nat PROVE \E g : Flattens(g, n, seqs)
<1> DEFINE S == {k \in 0..n : \E g : Flattens(g, k, seqs)}
<1>1. 0 \in S
  <2> DEFINE g == [i \in 1..0 |-> {}]
  <2>1. g = [i \in 1..0 |-> IF i = 1 THEN seqs[i] ELSE g[i - 1] \o seqs[i]]
    OBVIOUS
  <2> HIDE DEF g
  <2>2. Flattens(g, 0, seqs) /\ 0 \in 0..n
    BY <2>1 DEF Flattens
  <2> QED
    BY <2>2
<1>2. ASSUME NEW k \in 1..n, k - 1 \in S PROVE k \in S
  <2>1. PICK g : Flattens(g, k - 1, seqs)
    BY <1>2
  <2> DEFINE h == [i \in 1..k |-> IF i = 1 THEN seqs[i] ELSE g[i - 1] \o seqs[i]]
  <2>2. \A j \in 1..(k - 1) : g[j] = IF j = 1 THEN seqs[j] ELSE g[j - 1] \o seqs[j]
    BY <2>1 DEF Flattens
  <2>3. \A j \in 1..(k - 1) : h[j] = IF j = 1 THEN seqs[j] ELSE g[j - 1] \o seqs[j]
    OBVIOUS
  <2>4. \A j \in 1..(k - 1) : h[j] = g[j]
    BY <2>2, <2>3, Zenon
  <2>5. \A i \in 1..k : i # 1 => i - 1 \in 1..(k - 1)
    OBVIOUS
  <2>6. \A i \in 1..k : (IF i = 1 THEN seqs[i] ELSE g[i - 1] \o seqs[i])
                        = IF i = 1 THEN seqs[i] ELSE h[i - 1] \o seqs[i]
    <3> HIDE DEF h
    <3> QED
      BY <2>4, <2>5
  <2>7. h = [i \in 1..k |-> IF i = 1 THEN seqs[i] ELSE h[i - 1] \o seqs[i]]
    BY <2>6, Zenon
  <2> HIDE DEF h
  <2>8. Flattens(h, k, seqs)
    BY <2>7, Zenon DEF Flattens
  <2>9. k \in 0..n
    OBVIOUS
  <2> QED
    BY <2>8, <2>9, Zenon
<1> HIDE DEF S
<1>3. n \in S
  BY <1>1, <1>2, UpTo
<1> QED
  BY <1>3 DEF S

LEMMA FlattensOf ==
    ASSUME NEW E, NEW ss \in Seq(E), ss # <<>>
    PROVE  \E g : Flattens(g, Len(ss), ss) /\ FlattenSeq(ss) = g[Len(ss)]
<1> DEFINE g == CHOOSE g : g = [i \in 1..Len(ss) |-> IF i = 1 THEN ss[i] ELSE g[i - 1] \o ss[i]]
<1>1. Flattens(g, Len(ss), ss)
  <2>1. Len(ss) \in Nat
    OBVIOUS
  <2>2. \E f : Flattens(f, Len(ss), ss)
    BY <2>1, FlattenExists
  <2>3. \E f : f = [i \in 1..Len(ss) |-> IF i = 1 THEN ss[i] ELSE f[i - 1] \o ss[i]]
    BY <2>2, Zenon DEF Flattens
  <2> QED
    BY <2>3, Zenon DEF Flattens
<1>2. FlattenSeq(ss) = g[Len(ss)]
  <2>1. Len(ss) # 0
    OBVIOUS
  <2> QED
    BY <2>1, Zenon DEF FlattenSeq
<1> HIDE DEF g
<1> QED
  BY <1>1, <1>2

LEMMA FlattenEmpty == FlattenSeq(<<>>) = <<>>
  BY DEF FlattenSeq

\* The concatenation of the elements is one of sequences of the same kind.
LEMMA FlattenType ==
    ASSUME NEW E, NEW ss \in Seq(Seq(E)) PROVE FlattenSeq(ss) \in Seq(E)
<1>1. CASE ss = <<>>
  <2>1. <<>> \in Seq(E)
    OBVIOUS
  <2> QED
    BY <1>1, <2>1, FlattenEmpty, Zenon
<1>2. CASE ss # <<>>
  <2>1. PICK g : Flattens(g, Len(ss), ss) /\ FlattenSeq(ss) = g[Len(ss)]
    BY <1>2, FlattensOf
  <2> DEFINE S == {0} \cup {k \in 1..Len(ss) : g[k] \in Seq(E)}
  <2>2. ASSUME NEW k \in 1..Len(ss), k - 1 \in S PROVE k \in S
    <3>1. g[k] = IF k = 1 THEN ss[k] ELSE g[k - 1] \o ss[k]
      BY <2>1 DEF Flattens
    <3>2. ss[k] \in Seq(E)
      OBVIOUS
    <3>3. k # 1 => g[k - 1] \in Seq(E)
      BY <2>2
    <3>4. k # 1 => g[k - 1] \o ss[k] \in Seq(E)
      BY <3>2, <3>3
    <3>5. g[k] \in Seq(E)
      BY <3>1, <3>2, <3>4, Zenon
    <3> QED
      BY <3>5
  <2>3. 0 \in S /\ Len(ss) \in Nat
    OBVIOUS
  <2> HIDE DEF S
  <2>4. Len(ss) \in S
    BY <2>2, <2>3, UpTo
  <2> QED
    BY <1>2, <2>1, <2>4 DEF S
<1> QED
  BY <1>1, <1>2

LEMMA AppendOf ==
    ASSUME NEW X, NEW s \in Seq(X), NEW x \in X
    PROVE  /\ Append(s, x) \in Seq(X) /\ Append(s, x) # <<>>
           /\ Len(s) \in Nat /\ Len(Append(s, x)) = Len(s) + 1
           /\ Append(s, x)[Len(s) + 1] = x /\ \A i \in 1..Len(s) : Append(s, x)[i] = s[i]
  OBVIOUS

\* One element more.
LEMMA FlattenAppend ==
    ASSUME NEW E, NEW ss \in Seq(Seq(E)), NEW s \in Seq(E)
    PROVE  FlattenSeq(Append(ss, s)) = FlattenSeq(ss) \o s
<1> DEFINE ts == Append(ss, s)
           n == Len(ss)
<1>1. /\ ts \in Seq(Seq(E)) /\ ts # <<>> /\ n \in Nat /\ Len(ts) = n + 1 /\ ts[n + 1] = s
      /\ \A i \in 1..n : ts[i] = ss[i]
  <2>1. PICK X : X = Seq(E)
    OBVIOUS
  <2>2. ss \in Seq(X) /\ s \in X
    BY <2>1
  <2>3. /\ ts \in Seq(X) /\ ts # <<>> /\ n \in Nat /\ Len(ts) = n + 1 /\ ts[n + 1] = s
        /\ \A i \in 1..n : ts[i] = ss[i]
    BY <2>2, AppendOf
  <2> QED
    BY <2>1, <2>3
<1> HIDE DEF ts
<1>2. PICK f : Flattens(f, n + 1, ts) /\ FlattenSeq(ts) = f[n + 1]
  BY <1>1, FlattensOf
<1>3. f[n + 1] = IF n + 1 = 1 THEN s ELSE f[n] \o s
  <2>1. n + 1 \in 1..(n + 1) /\ (n + 1) - 1 = n
    BY <1>1
  <2>2. f[n + 1] = IF n + 1 = 1 THEN ts[n + 1] ELSE f[(n + 1) - 1] \o ts[n + 1]
    BY <1>2, <2>1 DEF Flattens
  <2> QED
    BY <1>1, <2>1, <2>2
<1>4. CASE ss = <<>>
  <2>1. n = 0
    BY <1>4
  <2> QED
    BY <1>2, <1>3, <1>4, <2>1, FlattenEmpty DEF ts
<1>5. CASE ss # <<>>
  <2>1. PICK g : Flattens(g, n, ss) /\ FlattenSeq(ss) = g[n]
    BY <1>5, FlattensOf
  <2> DEFINE S == {0} \cup {k \in 1..n : f[k] = g[k]}
  <2>2. ASSUME NEW k \in 1..n, k - 1 \in S PROVE k \in S
    <3>1. k \in 1..(n + 1)
      BY <1>1
    <3>2. f[k] = IF k = 1 THEN ts[k] ELSE f[k - 1] \o ts[k]
      BY <1>2, <3>1 DEF Flattens
    <3>3. g[k] = IF k = 1 THEN ss[k] ELSE g[k - 1] \o ss[k]
      BY <2>1 DEF Flattens
    <3>4. k # 1 => f[k - 1] = g[k - 1]
      BY <2>2
    <3>5. ts[k] = ss[k]
      BY <1>1
    <3> QED
      BY <3>2, <3>3, <3>4, <3>5
  <2>3. 0 \in S
    OBVIOUS
  <2> HIDE DEF S
  <2>4. n \in S
    BY <1>1, <2>2, <2>3, UpTo
  <2>5. n # 0
    BY <1>5
  <2>6. f[n] = g[n]
    BY <2>4, <2>5 DEF S
  <2>7. n + 1 # 1
    BY <1>1, <2>5
  <2> QED
    BY <1>2, <1>3, <2>1, <2>6, <2>7 DEF ts
<1> QED
  BY <1>4, <1>5

\* What has the empty sequence, and each sequence with one element more, has them all.
LEMMA SeqInduction ==
    ASSUME NEW X, NEW S, <<>> \in S, \A s \in Seq(X), x \in X : s \in S => Append(s, x) \in S
    PROVE  \A s \in Seq(X) : s \in S
<1> SUFFICES ASSUME NEW s \in Seq(X) PROVE s \in S
  OBVIOUS
<1> DEFINE P == {k \in 0..Len(s) : SubSeq(s, 1, k) \in S}
<1>1. 0 \in P
  <2>1. SubSeq(s, 1, 0) = <<>> /\ 0 \in 0..Len(s)
    OBVIOUS
  <2> QED
    BY <2>1
<1>2. ASSUME NEW k \in 1..Len(s), k - 1 \in P PROVE k \in P
  <2>1. /\ SubSeq(s, 1, k - 1) \in Seq(X) /\ s[k] \in X /\ k \in 0..Len(s)
        /\ SubSeq(s, 1, k) = Append(SubSeq(s, 1, k - 1), s[k])
    OBVIOUS
  <2>2. SubSeq(s, 1, k - 1) \in S
    BY <1>2
  <2> QED
    BY <2>1, <2>2
<1>3. Len(s) \in Nat /\ SubSeq(s, 1, Len(s)) = s
  OBVIOUS
<1> HIDE DEF P
<1>4. Len(s) \in P
  BY <1>1, <1>2, <1>3, UpTo
<1> QED
  BY <1>3, <1>4 DEF P

LEMMA AppendConcat ==
    ASSUME NEW X, NEW a \in Seq(X), NEW b \in Seq(X), NEW x \in X
    PROVE  a \o Append(b, x) = Append(a \o b, x) /\ a \o b \in Seq(X)
  OBVIOUS

\* The concatenation of two sequences of sequences.
LEMMA FlattenConcat ==
    ASSUME NEW E, NEW a \in Seq(Seq(E)), NEW b \in Seq(Seq(E))
    PROVE  FlattenSeq(a \o b) = FlattenSeq(a) \o FlattenSeq(b)
<1> DEFINE S == {s \in Seq(Seq(E)) : FlattenSeq(a \o s) = FlattenSeq(a) \o FlattenSeq(s)}
<1>1. <<>> \in S
  <2>1. <<>> \in Seq(Seq(E)) /\ a \o <<>> = a
    OBVIOUS
  <2>2. FlattenSeq(a) \o <<>> = FlattenSeq(a)
    BY FlattenType
  <2> QED
    BY <2>1, <2>2, FlattenEmpty
<1>2. ASSUME NEW s \in Seq(Seq(E)), NEW x \in Seq(E), s \in S PROVE Append(s, x) \in S
  <2>1. PICK X : X = Seq(E)
    OBVIOUS
  <2>2. Append(s, x) \in Seq(X) /\ a \o Append(s, x) = Append(a \o s, x) /\ a \o s \in Seq(X)
    BY <2>1, AppendConcat, AppendOf
  <2>3. FlattenSeq(Append(a \o s, x)) = FlattenSeq(a \o s) \o x
    BY <2>1, <2>2, FlattenAppend
  <2>4. FlattenSeq(Append(s, x)) = FlattenSeq(s) \o x
    BY FlattenAppend
  <2>5. (FlattenSeq(a) \o FlattenSeq(s)) \o x = FlattenSeq(a) \o (FlattenSeq(s) \o x)
    <3>1. FlattenSeq(a) \in Seq(E) /\ FlattenSeq(s) \in Seq(E)
      BY FlattenType
    <3> QED
      BY <3>1, ConcatAssociative
  <2>6. FlattenSeq(a \o s) = FlattenSeq(a) \o FlattenSeq(s)
    BY <1>2
  <2>7. FlattenSeq(a \o Append(s, x)) = FlattenSeq(a) \o FlattenSeq(Append(s, x))
    BY <2>2, <2>3, <2>4, <2>5, <2>6
  <2> QED
    BY <2>1, <2>2, <2>7
<1> HIDE DEF S
<1>3. \A s \in Seq(Seq(E)) : s \in S
  BY <1>1, <1>2, SeqInduction
<1> QED
  BY <1>3 DEF S

LEMMA FlattenOne == ASSUME NEW E, NEW s \in Seq(E) PROVE FlattenSeq(<<s>>) = s
<1>1. <<>> \in Seq(Seq(E)) /\ Append(<<>>, s) = <<s>> /\ <<>> \o s = s
  OBVIOUS
<1> QED
  BY <1>1, FlattenAppend, FlattenEmpty

-----------------------------------------------------------------------------
(* The size of a piece                                                     *)

Total(piece) == FoldLeft(Longer, 0, piece)

LEMMA SizeFolds == \A b, s : FoldLeft(Longer, b, s) = SizeFold!Folded(b, s)
<1> SUFFICES ASSUME NEW b, NEW s PROVE FoldLeft(Longer, b, s) = SizeFold!Folded(b, s)
  OBVIOUS
<1> QED
  BY DEF SizeFold!Folded, FoldLeft, SizeFold!FoldLeft, MapThenFoldSet, SizeFold!MapThenFoldSet,
         Max, SizeFold!Max

LEMMA TotalSteps ==
    /\ Total(<<>>) = 0
    /\ \A X : \A s \in Seq(X) : \A x \in X : Total(Append(s, x)) = Total(s) + Len(x)
<1>1. Total(<<>>) = 0
  BY SizeFolds, SizeFold!FoldLeftEmpty DEF Total
<1>2. ASSUME NEW X, NEW s \in Seq(X), NEW x \in X PROVE Total(Append(s, x)) = Total(s) + Len(x)
  <2>0. \A t : Total(t) = SizeFold!Folded(0, t)
    BY SizeFolds, Zenon DEF Total
  <2>1. Total(Append(s, x)) = Longer(Total(s), x)
    BY <2>0, SizeFold!FoldLeftAppend
  <2> QED
    BY <2>1 DEF Longer
<1> QED
  BY <1>1, <1>2

LEMMA TotalType == ASSUME NEW E, NEW p \in Seq(Seq(E)) PROVE Total(p) \in Nat
<1> DEFINE S == {s \in Seq(Seq(E)) : Total(s) \in Nat}
<1>1. <<>> \in S
  <2>1. <<>> \in Seq(Seq(E))
    OBVIOUS
  <2> QED
    BY <2>1, TotalSteps
<1>2. ASSUME NEW s \in Seq(Seq(E)), NEW x \in Seq(E), s \in S PROVE Append(s, x) \in S
  <2>1. PICK X : X = Seq(E)
    OBVIOUS
  <2>2. Append(s, x) \in Seq(X)
    BY <2>1, AppendOf
  <2>3. Total(Append(s, x)) = Total(s) + Len(x)
    BY TotalSteps
  <2> QED
    BY <1>2, <2>1, <2>2, <2>3
<1> HIDE DEF S
<1>3. \A s \in Seq(Seq(E)) : s \in S
  BY <1>1, <1>2, SeqInduction
<1> QED
  BY <1>3 DEF S

\* A piece that another one joins grows, and its last paragraph is no longer than it.
LEMMA SizeGrows ==
    ASSUME NEW E, NEW a \in Seq(Seq(E)), NEW b \in Seq(Seq(E))
    PROVE  /\ SizeOf(a) \in Nat
           /\ SizeOf(a \o b) >= SizeOf(a)
           /\ b # <<>> => Last(b) \in Seq(E) /\ Len(Last(b)) <= SizeOf(b)
<1>1. ASSUME NEW s \in Seq(Seq(E))
      PROVE  /\ Total(s) \in Nat /\ Len(s) \in Nat
             /\ SizeOf(s) = Total(s) + 2 * (IF Len(s) >= 1 THEN Len(s) - 1 ELSE 0)
  BY TotalType DEF SizeOf, Total, Break, AtLeast
<1>2. Total(a \o b) >= Total(a)
  <2> DEFINE S == {s \in Seq(Seq(E)) : Total(a \o s) >= Total(a)}
  <2>1. <<>> \in S
    <3>1. <<>> \in Seq(Seq(E)) /\ a \o <<>> = a
      OBVIOUS
    <3> QED
      BY <1>1, <3>1
  <2>2. ASSUME NEW s \in Seq(Seq(E)), NEW x \in Seq(E), s \in S PROVE Append(s, x) \in S
    <3>1. PICK X : X = Seq(E)
      OBVIOUS
    <3>2. Append(s, x) \in Seq(X) /\ a \o Append(s, x) = Append(a \o s, x) /\ a \o s \in Seq(X)
      BY <3>1, AppendConcat, AppendOf
    <3>3. Total(Append(a \o s, x)) = Total(a \o s) + Len(x)
      BY <3>1, <3>2, TotalSteps
    <3>4. a \o s \in Seq(Seq(E)) /\ Append(s, x) \in Seq(Seq(E)) /\ Len(x) \in Nat
      BY <3>1, <3>2
    <3>5. Total(a \o s) \in Nat /\ Total(a) \in Nat
      BY <1>1, <3>4
    <3>6. Total(a \o s) >= Total(a)
      BY <2>2
    <3>7. Total(a \o Append(s, x)) >= Total(a)
      BY <3>2, <3>3, <3>4, <3>5, <3>6
    <3> QED
      BY <3>4, <3>7
  <2> HIDE DEF S
  <2>3. \A s \in Seq(Seq(E)) : s \in S
    BY <2>1, <2>2, SeqInduction
  <2> QED
    BY <2>3 DEF S
<1>3. a \o b \in Seq(Seq(E)) /\ Len(a \o b) = Len(a) + Len(b)
  OBVIOUS
<1>4. ASSUME b # <<>> PROVE Last(b) \in Seq(E) /\ Len(Last(b)) <= SizeOf(b)
  <2>1. PICK X : X = Seq(E)
    OBVIOUS
  <2>2. PICK s \in Seq(X), x \in X : b = Append(s, x)
    <3>1. b \in Seq(X)
      BY <2>1
    <3> QED
      BY <1>4, <3>1, SequenceEmptyOrAppend
  <2>3. Last(b) = x
    BY <2>2, AppendOf DEF Last
  <2>4. Total(b) = Total(s) + Len(x)
    BY <2>2, TotalSteps
  <2>5. Total(s) \in Nat /\ Len(x) \in Nat /\ x \in Seq(E)
    BY <1>1, <2>1, <2>2
  <2>6. SizeOf(b) = Total(b) + 2 * (IF Len(b) >= 1 THEN Len(b) - 1 ELSE 0) /\ Len(b) \in Nat
    BY <1>1
  <2> QED
    BY <2>3, <2>4, <2>5, <2>6
<1>5. SizeOf(a) \in Nat
  BY <1>1
<1>6. SizeOf(a \o b) >= SizeOf(a)
  <2>1. /\ Total(a) \in Nat /\ Len(a) \in Nat /\ Len(b) \in Nat
        /\ SizeOf(a) = Total(a) + 2 * (IF Len(a) >= 1 THEN Len(a) - 1 ELSE 0)
    BY <1>1
  <2>2. /\ Total(a \o b) \in Nat
        /\ SizeOf(a \o b) = Total(a \o b) + 2 * (IF Len(a \o b) >= 1 THEN Len(a \o b) - 1 ELSE 0)
    BY <1>1, <1>3
  <2> QED
    BY <1>2, <1>3, <2>1, <2>2
<1> QED
  BY <1>4, <1>5, <1>6

LEMMA SizeOfOne == ASSUME NEW E, NEW s \in Seq(E) PROVE SizeOf(<<s>>) = Len(s)
<1>1. <<>> \in Seq(Seq(E)) /\ Append(<<>>, s) = <<s>> /\ Len(<<s>>) = 1 /\ Len(s) \in Nat
  OBVIOUS
<1>2. Total(<<s>>) = Len(s)
  <2>1. Total(Append(<<>>, s)) = Total(<<>>) + Len(s)
    BY <1>1, TotalSteps
  <2> QED
    BY <1>1, <2>1, TotalSteps
<1> QED
  BY <1>1, <1>2 DEF SizeOf, Total, Break, AtLeast

-----------------------------------------------------------------------------
(* A paragraph that is cut                                                 *)

LEMMA Quotient ==
    ASSUME NEW n \in Nat, NEW M \in Nat, M > 0
    PROVE  n \div M \in Nat /\ (n \div M) * M <= n /\ n < (n \div M) * M + M
  OBVIOUS

LEMMA Product == ASSUME NEW i \in Nat, NEW j \in Nat, NEW M \in Nat, i <= j
                 PROVE  i * M \in Nat /\ i * M <= j * M
  OBVIOUS

LEMMA Multiples ==
    ASSUME NEW m \in Nat, NEW M \in Nat, m > 0, M > 0, NEW c, c = (m + M - 1) \div M
    PROVE  /\ c \in Nat /\ c >= 1 /\ m <= c * M
           /\ \A i \in 1..c : (i - 1) * M \in Nat /\ (i - 1) * M < m /\ i * M = (i - 1) * M + M
<1>1. c \in Nat /\ c * M <= m + M - 1 /\ m + M - 1 < c * M + M
  BY Quotient
<1>2. c >= 1
  <2>1. c = 0 => c * M = 0
    OBVIOUS
  <2> QED
    BY <1>1, <2>1
<1>3. c * M \in Nat
  BY <1>1, Product
<1>4. ASSUME NEW i \in 1..c
      PROVE  (i - 1) * M \in Nat /\ (i - 1) * M < m /\ i * M = (i - 1) * M + M
  <2>1. PICK j \in Nat : j = i - 1 /\ j + 1 <= c
    BY <1>1
  <2>2. (j + 1) * M <= c * M /\ (j + 1) * M \in Nat /\ j * M \in Nat
    BY <1>1, <2>1, Product
  <2>3. (j + 1) * M = j * M + M
    OBVIOUS
  <2>4. i = j + 1
    BY <2>1
  <2> QED
    BY <1>1, <1>3, <2>1, <2>2, <2>3, <2>4
<1> QED
  BY <1>1, <1>2, <1>3, <1>4

-----------------------------------------------------------------------------
(* Pieces                                                                  *)

\* Paragraphs over some characters, pieces of them, and those within the limit.
Para(D) == Seq(D) \ {<<>>}
Piece(D) == Seq(Para(D)) \ {<<>>}
Fitting(D) == {p \in Piece(D) : SizeOf(p) <= MaxChars}

\* The text of some pieces.
TextOfParts(parts) == FlattenSeq(FlattenSeq(parts))

LEMMA Subseqs == ASSUME NEW X, NEW Y, X \subseteq Y, NEW s \in Seq(X) PROVE s \in Seq(Y)
  OBVIOUS

LEMMA Kinds ==
    ASSUME NEW D
    PROVE  /\ \A s \in Seq(Para(D)) : s \in Seq(Seq(D))
           /\ Piece(D) \subseteq Seq(Para(D)) /\ Piece(D) \subseteq Seq(Seq(D))
           /\ Fitting(D) \subseteq Piece(D)
           /\ \A s \in Seq(Piece(D)) : s \in Seq(Seq(Seq(D))) /\ s \in Seq(Seq(Para(D)))
           /\ \A s \in Seq(Fitting(D)) : s \in Seq(Piece(D))
<1>1. \A s \in Seq(Para(D)) : s \in Seq(Seq(D))
  <2>1. Para(D) \subseteq Seq(D)
    BY DEF Para
  <2> QED
    BY <2>1, Subseqs
<1>2. Piece(D) \subseteq Seq(Para(D)) /\ Fitting(D) \subseteq Piece(D)
  BY DEF Piece, Fitting
<1>3. Piece(D) \subseteq Seq(Seq(D))
  BY <1>1, <1>2
<1>4. \A s \in Seq(Piece(D)) : s \in Seq(Seq(Seq(D))) /\ s \in Seq(Seq(Para(D)))
  BY <1>2, <1>3, Subseqs
<1>5. \A s \in Seq(Fitting(D)) : s \in Seq(Piece(D))
  BY <1>2, Subseqs
<1> QED
  BY <1>1, <1>2, <1>3, <1>4, <1>5

LEMMA PartsAppend ==
    ASSUME NEW E, NEW parts \in Seq(Seq(Seq(E))), NEW p \in Seq(Seq(E))
    PROVE  /\ TextOfParts(Append(parts, p)) = TextOfParts(parts) \o FlattenSeq(p)
           /\ TextOfParts(parts) \in Seq(E)
<1>1. PICK X : X = Seq(E)
  OBVIOUS
<1>2. parts \in Seq(Seq(X)) /\ p \in Seq(X)
  BY <1>1
<1>3. FlattenSeq(Append(parts, p)) = FlattenSeq(parts) \o p /\ FlattenSeq(parts) \in Seq(X)
  BY <1>2, FlattenAppend, FlattenType
<1>4. FlattenSeq(FlattenSeq(parts) \o p) = FlattenSeq(FlattenSeq(parts)) \o FlattenSeq(p)
  BY <1>1, <1>2, <1>3, FlattenConcat
<1>5. FlattenSeq(FlattenSeq(parts)) \in Seq(E)
  BY <1>1, <1>3, FlattenType
<1> QED
  BY <1>3, <1>4, <1>5 DEF TextOfParts

LEMMA PartsConcat ==
    ASSUME NEW E, NEW a \in Seq(Seq(Seq(E))), NEW b \in Seq(Seq(Seq(E)))
    PROVE  TextOfParts(a \o b) = TextOfParts(a) \o TextOfParts(b)
<1>1. PICK X : X = Seq(E)
  OBVIOUS
<1>2. a \in Seq(Seq(X)) /\ b \in Seq(Seq(X))
  BY <1>1
<1>3. FlattenSeq(a \o b) = FlattenSeq(a) \o FlattenSeq(b)
      /\ FlattenSeq(a) \in Seq(X) /\ FlattenSeq(b) \in Seq(X)
  BY <1>2, FlattenConcat, FlattenType
<1>4. FlattenSeq(FlattenSeq(a) \o FlattenSeq(b)) = FlattenSeq(FlattenSeq(a)) \o FlattenSeq(FlattenSeq(b))
  BY <1>1, <1>3, FlattenConcat
<1> QED
  BY <1>3, <1>4 DEF TextOfParts

LEMMA PartsEmpty == TextOfParts(<<>>) = <<>>
  BY FlattenEmpty DEF TextOfParts

\* A paragraph on its own is a piece.
LEMMA OneParagraph ==
    ASSUME NEW D, NEW q \in Para(D)
    PROVE  /\ <<q>> \in Piece(D) /\ SizeOf(<<q>>) = Len(q) /\ Len(q) \in Nat /\ Len(q) > 0
           /\ FlattenSeq(<<q>>) = q /\ q \in Seq(D)
<1>1. q \in Seq(D) /\ q # <<>>
  BY DEF Para
<1>2. <<q>> \in Piece(D)
  BY DEF Piece
<1> QED
  BY <1>1, <1>2, SizeOfOne, FlattenOne

\* The cut is of pieces that fit, and loses nothing.
LEMMA HardSplitKeeps ==
    ASSUME NEW D, NEW q \in Para(D)
    PROVE  HardSplit(q) \in Seq(Fitting(D)) /\ TextOfParts(HardSplit(q)) = q
<1> DEFINE m == Len(q)
           M == MaxChars
           c == (m + M - 1) \div M
           last(i) == IF i * M <= m THEN i * M ELSE m
           cut(i) == SubSeq(q, (i - 1) * M + 1, last(i))
           h == HardSplit(q)
<1>1. q \in Seq(D) /\ m \in Nat /\ m > 0
  BY OneParagraph
<1>2. M \in Nat /\ M > 0
  BY LimitAssumption
<1>3. h = [i \in 1..c |-> <<cut(i)>>]
  BY DEF HardSplit
<1> HIDE DEF M, h
<1>4. /\ c \in Nat /\ c >= 1 /\ m <= c * M
      /\ \A i \in 1..c : (i - 1) * M \in Nat /\ (i - 1) * M < m /\ i * M = (i - 1) * M + M
  BY <1>1, <1>2, Multiples
<1> HIDE DEF m, c
<1>5. ASSUME NEW i \in 1..c
      PROVE  /\ last(i) \in Nat /\ (i - 1) * M < last(i) /\ last(i) <= m /\ last(i) <= (i - 1) * M + M
             /\ cut(i) \in Para(D) /\ Len(cut(i)) <= M
  <2>1. (i - 1) * M \in Nat /\ (i - 1) * M < m /\ i * M = (i - 1) * M + M
    BY <1>4
  <2>2. PICK low \in Nat, high \in Nat : low = (i - 1) * M /\ high = last(i)
    BY <1>1, <1>2, <2>1
  <2>3. low < high /\ high <= m /\ high <= low + M
    BY <1>1, <1>2, <2>1, <2>2
  <2>4. SubSeq(q, low + 1, high) \in Seq(D) /\ Len(SubSeq(q, low + 1, high)) = high - low
    BY <1>1, <2>3 DEF m
  <2>5. cut(i) = SubSeq(q, low + 1, high)
    BY <2>2
  <2>6. cut(i) \in Seq(D) /\ cut(i) # <<>> /\ Len(cut(i)) <= M
    <3> HIDE DEF cut, last
    <3>1. cut(i) \in Seq(D) /\ Len(cut(i)) = high - low
      BY <2>4, <2>5
    <3> QED
      BY <1>2, <2>3, <3>1
  <2> HIDE DEF cut, last
  <2> QED
    BY <2>2, <2>3, <2>6 DEF Para
<1>6. \A i \in 1..c : <<cut(i)>> \in Fitting(D)
  <2> HIDE DEF cut
  <2> QED
    BY <1>5, OneParagraph DEF Fitting, M
<1>7. h \in Seq(Fitting(D)) /\ Len(h) = c
  <2> HIDE DEF cut
  <2> QED
    BY <1>3, <1>4, <1>6
<1> HIDE DEF cut, last
<1> DEFINE S == {k \in 0..c : TextOfParts(SubSeq(h, 1, k)) = SubSeq(q, 1, last(k))}
<1>8. 0 \in S
  <2>1. SubSeq(h, 1, 0) = <<>> /\ 0 \in 0..c /\ 0 * M = 0
    BY <1>2, <1>4, <1>7
  <2>2. SubSeq(q, 1, last(0)) = <<>>
    BY <1>1, <2>1 DEF last
  <2> QED
    BY <2>1, <2>2, PartsEmpty
<1>9. ASSUME NEW k \in 1..c, k - 1 \in S PROVE k \in S
  <2>1. PICK low \in Nat, high \in Nat : /\ low = (k - 1) * M /\ high = last(k) /\ low < high
                                         /\ high <= m /\ low = last(k - 1)
    <3>1. (k - 1) * M \in Nat /\ (k - 1) * M < m
      BY <1>4
    <3>2. last(k - 1) = (k - 1) * M
      BY <1>1, <3>1 DEF last
    <3> QED
      BY <1>5, <3>1, <3>2
  <2>2. /\ SubSeq(h, 1, k) = Append(SubSeq(h, 1, k - 1), h[k])
        /\ SubSeq(h, 1, k - 1) \in Seq(Fitting(D)) /\ h[k] \in Fitting(D)
    BY <1>4, <1>7
  <2>3. h[k] = <<cut(k)>> /\ cut(k) = SubSeq(q, low + 1, high) /\ FlattenSeq(h[k]) = cut(k)
    BY <1>3, <1>5, <2>1, OneParagraph DEF cut
  <2>4. TextOfParts(SubSeq(h, 1, k)) = TextOfParts(SubSeq(h, 1, k - 1)) \o FlattenSeq(h[k])
    <3>1. SubSeq(h, 1, k - 1) \in Seq(Seq(Seq(D))) /\ h[k] \in Seq(Seq(D))
      BY <2>2, Kinds
    <3> QED
      BY <2>2, <3>1, PartsAppend
  <2>5. TextOfParts(SubSeq(h, 1, k - 1)) = SubSeq(q, 1, low)
    BY <1>9, <2>1
  <2>6. SubSeq(q, 1, low) \o SubSeq(q, low + 1, high) = SubSeq(q, 1, high)
    BY <1>1, <2>1 DEF m
  <2>7. k \in 0..c
    BY <1>4
  <2> QED
    BY <2>1, <2>3, <2>4, <2>5, <2>6, <2>7
<1>10. c \in S
  <2> HIDE DEF S
  <2> QED
    BY <1>4, <1>8, <1>9, UpTo
<1>11. SubSeq(h, 1, c) = h
  BY <1>4, <1>7
<1>12. SubSeq(q, 1, last(c)) = q
  <2>1. last(c) = m
    BY <1>1, <1>2, <1>4, <1>5 DEF last
  <2> QED
    BY <1>1, <2>1 DEF m
<1>13. TextOfParts(h) = q
  BY <1>10, <1>11, <1>12
<1> QED
  BY <1>7, <1>13 DEF h

-----------------------------------------------------------------------------
(* A section that is split                                                 *)

LEMMA GatherFolds == \A b, s : FoldLeft(Gather, b, s) = GatherFold!Folded(b, s)
<1> SUFFICES ASSUME NEW b, NEW s PROVE FoldLeft(Gather, b, s) = GatherFold!Folded(b, s)
  OBVIOUS
<1> QED
  BY DEF GatherFold!Folded, FoldLeft, GatherFold!FoldLeft, MapThenFoldSet,
         GatherFold!MapThenFoldSet, Max, GatherFold!Max

\* The parts so far and what is gathered hold the paragraphs so far.
Gathering(D) == [parts : Seq(Fitting(D)), buffer : Fitting(D) \cup {<<>>}]
Gathered(s, paragraphs) ==
    TextOfParts(s.parts) \o FlattenSeq(s.buffer) = FlattenSeq(paragraphs)

\* What was gathered becomes a part.
Flushed(s) == IF s.buffer = <<>> THEN s.parts ELSE Append(s.parts, s.buffer)

LEMMA FlushKeeps ==
    ASSUME NEW D, NEW s \in Gathering(D)
    PROVE  /\ Flushed(s) \in Seq(Fitting(D))
           /\ TextOfParts(Flushed(s)) = TextOfParts(s.parts) \o FlattenSeq(s.buffer)
           /\ TextOfParts(s.parts) \in Seq(D) /\ FlattenSeq(s.buffer) \in Seq(D)
<1>1. s.parts \in Seq(Fitting(D)) /\ s.buffer \in Fitting(D) \cup {<<>>}
  BY DEF Gathering
<1>2. s.parts \in Seq(Seq(Seq(D))) /\ TextOfParts(s.parts) \in Seq(D)
  <2>1. s.parts \in Seq(Seq(Seq(D)))
    BY <1>1, Kinds
  <2>2. <<>> \in Seq(Seq(D))
    OBVIOUS
  <2> QED
    BY <2>1, <2>2, PartsAppend
<1>3. CASE s.buffer = <<>>
  <2>1. Flushed(s) = s.parts /\ FlattenSeq(s.buffer) = <<>>
    BY <1>3, FlattenEmpty DEF Flushed
  <2>2. TextOfParts(s.parts) \o <<>> = TextOfParts(s.parts) /\ <<>> \in Seq(D)
    BY <1>2
  <2> QED
    BY <1>1, <1>2, <2>1, <2>2
<1>4. CASE s.buffer # <<>>
  <2>1. s.buffer \in Fitting(D) /\ s.buffer \in Seq(Seq(D))
    BY <1>1, <1>4, Kinds
  <2>2. Append(s.parts, s.buffer) \in Seq(Fitting(D))
    BY <1>1, <2>1, AppendOf
  <2>3. FlattenSeq(s.buffer) \in Seq(D)
    BY <2>1, FlattenType
  <2> QED
    BY <1>2, <1>4, <2>1, <2>2, <2>3, PartsAppend DEF Flushed
<1> QED
  BY <1>3, <1>4

LEMMA MakeGathering ==
    ASSUME NEW D, NEW a \in Seq(Fitting(D)), NEW b \in Fitting(D) \cup {<<>>}, NEW P,
           TextOfParts(a) \o FlattenSeq(b) = FlattenSeq(P)
    PROVE  LET s == [parts |-> a, buffer |-> b] IN s \in Gathering(D) /\ Gathered(s, P)
<1> DEFINE s == [parts |-> a, buffer |-> b]
<1>1. s \in Gathering(D)
  BY DEF Gathering
<1>2. s.parts = a /\ s.buffer = b
  OBVIOUS
<1> HIDE DEF s
<1>3. Gathered(s, P)
  BY <1>2 DEF Gathered
<1> QED
  BY <1>1, <1>3 DEF s

LEMMA GatherStep ==
    ASSUME NEW D, NEW s \in Gathering(D), NEW body \in Seq(Para(D)), NEW q \in Para(D),
           Gathered(s, body)
    PROVE  Gather(s, q) \in Gathering(D) /\ Gathered(Gather(s, q), Append(body, q))
<1>1. s.parts \in Seq(Fitting(D)) /\ s.buffer \in Fitting(D) \cup {<<>>}
  BY DEF Gathering
<1>2. /\ q \in Seq(D) /\ Len(q) \in Nat /\ <<q>> \in Piece(D) /\ SizeOf(<<q>>) = Len(q)
      /\ FlattenSeq(<<q>>) = q
  BY OneParagraph
<1>3. FlattenSeq(Append(body, q)) = FlattenSeq(body) \o q /\ FlattenSeq(body) \in Seq(D)
  <2>1. body \in Seq(Seq(D))
    BY Kinds
  <2> QED
    BY <1>2, <2>1, FlattenAppend, FlattenType
<1>4. s.buffer \in Seq(Para(D)) /\ s.buffer \in Seq(Seq(D))
  <2>1. <<>> \in Seq(Para(D)) /\ <<>> \in Seq(Seq(D))
    OBVIOUS
  <2>2. s.buffer \in Fitting(D) => s.buffer \in Seq(Para(D)) /\ s.buffer \in Seq(Seq(D))
    BY Kinds
  <2> QED
    BY <1>1, <2>1, <2>2, Zenon
<1> DEFINE candidate == Append(s.buffer, q)
<1>5. /\ candidate \in Piece(D) /\ SizeOf(candidate) \in Nat
      /\ FlattenSeq(candidate) = FlattenSeq(s.buffer) \o q
  <2>1. candidate \in Seq(Para(D)) /\ candidate # <<>>
    BY <1>4, AppendOf
  <2>2. candidate \in Piece(D) /\ candidate \in Seq(Seq(D))
    BY <2>1, Kinds DEF Piece
  <2>3. FlattenSeq(candidate) = FlattenSeq(s.buffer) \o q
    BY <1>2, <1>4, FlattenAppend
  <2> QED
    BY <2>2, <2>3, SizeGrows
<1>6. /\ Flushed(s) \in Seq(Fitting(D))
      /\ TextOfParts(Flushed(s)) = TextOfParts(s.parts) \o FlattenSeq(s.buffer)
      /\ TextOfParts(s.parts) \in Seq(D) /\ FlattenSeq(s.buffer) \in Seq(D)
  BY FlushKeeps
<1>7. TextOfParts(s.parts) \o (FlattenSeq(s.buffer) \o q) = FlattenSeq(Append(body, q))
  <2>1. (TextOfParts(s.parts) \o FlattenSeq(s.buffer)) \o q
        = TextOfParts(s.parts) \o (FlattenSeq(s.buffer) \o q)
    <3> HIDE DEF candidate
    <3> QED
      BY <1>2, <1>6, ConcatAssociative
  <2> QED
    BY <1>3, <2>1, Zenon DEF Gathered
<1>8. TextOfParts(Flushed(s)) \o q = FlattenSeq(Append(body, q))
  BY <1>3, <1>6 DEF Gathered
<1> HIDE DEF candidate
<1>9. MaxChars \in Nat
  BY LimitAssumption
<1>10. CASE SizeOf(candidate) <= MaxChars
  <2>1. Gather(s, q) = [s EXCEPT !.buffer = candidate]
    BY <1>5, <1>9, <1>10 DEF Gather, candidate
  <2>2. s = [parts |-> s.parts, buffer |-> s.buffer]
    BY DEF Gathering
  <2>3. Gather(s, q) = [parts |-> s.parts, buffer |-> candidate]
    BY <2>1, <2>2
  <2>4. candidate \in Fitting(D)
    BY <1>5, <1>10 DEF Fitting
  <2>5. TextOfParts(s.parts) \o FlattenSeq(candidate) = FlattenSeq(Append(body, q))
    BY <1>5, <1>7, Zenon
  <2> QED
    BY <1>1, <2>3, <2>4, <2>5, MakeGathering
<1>11. CASE ~(SizeOf(candidate) <= MaxChars) /\ Len(q) <= MaxChars
  <2>1. Gather(s, q) = [parts |-> Flushed(s), buffer |-> <<q>>]
    BY <1>5, <1>9, <1>11 DEF Gather, Flushed, candidate
  <2>2. <<q>> \in Fitting(D)
    BY <1>2, <1>11 DEF Fitting
  <2>3. TextOfParts(Flushed(s)) \o FlattenSeq(<<q>>) = FlattenSeq(Append(body, q))
    BY <1>2, <1>8, Zenon
  <2> QED
    BY <1>6, <2>1, <2>2, <2>3, MakeGathering
<1>12. CASE ~(SizeOf(candidate) <= MaxChars) /\ ~(Len(q) <= MaxChars)
  <2>1. Gather(s, q) = [parts |-> Flushed(s) \o HardSplit(q), buffer |-> <<>>]
    BY <1>2, <1>5, <1>9, <1>12 DEF Gather, Flushed, candidate
  <2>2. HardSplit(q) \in Seq(Fitting(D)) /\ TextOfParts(HardSplit(q)) = q
    BY HardSplitKeeps
  <2>3. Flushed(s) \o HardSplit(q) \in Seq(Fitting(D))
    BY <1>6, <2>2
  <2>4. TextOfParts(Flushed(s) \o HardSplit(q)) = TextOfParts(Flushed(s)) \o q
    <3>1. Flushed(s) \in Seq(Seq(Seq(D))) /\ HardSplit(q) \in Seq(Seq(Seq(D)))
      BY <1>6, <2>2, Kinds
    <3> QED
      BY <2>2, <3>1, PartsConcat
  <2>5. FlattenSeq(Append(body, q)) \o <<>> = FlattenSeq(Append(body, q))
    BY <1>2, <1>3
  <2>6. TextOfParts(Flushed(s) \o HardSplit(q)) \o FlattenSeq(<<>>) = FlattenSeq(Append(body, q))
    BY <1>8, <2>4, <2>5, FlattenEmpty, Zenon
  <2> QED
    BY <2>1, <2>3, <2>6, MakeGathering
<1> QED
  BY <1>10, <1>11, <1>12

\* A section is split into pieces that fit, and loses nothing.
LEMMA SplitToSizeKeeps ==
    ASSUME NEW D, NEW body \in Piece(D)
    PROVE  SplitToSize(body) \in Seq(Fitting(D)) /\ TextOfParts(SplitToSize(body)) = FlattenSeq(body)
<1>1. body \in Seq(Para(D)) /\ body \in Seq(Seq(D)) /\ FlattenSeq(body) \in Seq(D)
  BY Kinds, FlattenType
<1>2. CASE SizeOf(body) <= MaxChars
  <2>1. body \in Fitting(D) /\ SplitToSize(body) = <<body>>
    BY <1>2 DEF Fitting, SplitToSize
  <2>2. TextOfParts(<<body>>) = FlattenSeq(body)
    BY <1>1, FlattenOne DEF TextOfParts
  <2> QED
    BY <2>1, <2>2
<1>3. CASE ~(SizeOf(body) <= MaxChars)
  <2> DEFINE start == [parts |-> <<>>, buffer |-> <<>>]
             run(b) == GatherFold!Folded(start, b)
             S == {b \in Seq(Para(D)) : run(b) \in Gathering(D) /\ Gathered(run(b), b)}
  <2>1. <<>> \in S
    <3>1. run(<<>>) = start
      BY GatherFold!FoldLeftEmpty
    <3>2. <<>> \in Seq(Fitting(D)) /\ <<>> \in Seq(Para(D))
      OBVIOUS
    <3>3. TextOfParts(<<>>) \o FlattenSeq(<<>>) = FlattenSeq(<<>>)
      <4>1. <<>> \o <<>> = <<>>
        OBVIOUS
      <4> QED
        BY <4>1, PartsEmpty, FlattenEmpty
    <3>4. start \in Gathering(D) /\ Gathered(start, <<>>)
      BY <3>2, <3>3, MakeGathering
    <3> QED
      BY <3>1, <3>2, <3>4, Zenon
  <2>2. ASSUME NEW b \in Seq(Para(D)), NEW q \in Para(D), b \in S PROVE Append(b, q) \in S
    <3>1. run(Append(b, q)) = Gather(run(b), q)
      BY GatherFold!FoldLeftAppend
    <3>2. Append(b, q) \in Seq(Para(D))
      BY AppendOf
    <3>3. Gather(run(b), q) \in Gathering(D) /\ Gathered(Gather(run(b), q), Append(b, q))
      BY <2>2, GatherStep
    <3> QED
      BY <3>1, <3>2, <3>3, Zenon
  <2> HIDE DEF S
  <2>3. body \in S
    BY <1>1, <2>1, <2>2, SeqInduction
  <2>4. run(body) \in Gathering(D) /\ Gathered(run(body), body)
    BY <2>3 DEF S
  <2>5. SplitToSize(body) = Flushed(run(body))
    <3>1. FoldLeft(Gather, start, body) = run(body)
      BY GatherFolds, Zenon
    <3>2. SplitToSize(body) = Flushed(FoldLeft(Gather, start, body))
      BY <1>3, Zenon DEF SplitToSize, Flushed
    <3> QED
      BY <3>1, <3>2, Zenon
  <2> HIDE DEF run
  <2> QED
    BY <2>4, <2>5, FlushKeeps DEF Gathered
<1> QED
  BY <1>2, <1>3

-----------------------------------------------------------------------------
(* Where a section that is split begins                                    *)

Short(piece) == SizeOf(piece) < MinChars

\* The first two of the parts are not both short.
Opened(parts) == Len(parts) > 1 /\ Short(parts[1]) => ~Short(parts[2])

\* After a short part, and only that, comes a paragraph that did not fit with it.
Opening(s) ==
    /\ Opened(s.parts)
    /\ Len(s.parts) = 1 /\ Short(s.parts[1]) => s.buffer # <<>> /\ Len(s.buffer[1]) >= MinChars

LEMMA SizeAppend ==
    ASSUME NEW E, NEW s \in Seq(Seq(E)), NEW x \in Seq(E), s # <<>>
    PROVE  /\ SizeOf(Append(s, x)) = SizeOf(s) + 2 + Len(x)
           /\ SizeOf(s) \in Nat /\ Len(s[1]) \in Nat /\ Len(s[1]) <= SizeOf(s)
<1>1. PICK X : X = Seq(E)
  OBVIOUS
<1>2. /\ s \in Seq(X) /\ x \in X /\ Append(s, x) \in Seq(X) /\ Len(Append(s, x)) = Len(s) + 1
      /\ Len(s) \in Nat /\ Len(s) >= 1 /\ Len(x) \in Nat
  BY <1>1
<1>3. Total(Append(s, x)) = Total(s) + Len(x) /\ Total(s) \in Nat /\ Total(Append(s, x)) \in Nat
  BY <1>1, <1>2, TotalSteps, TotalType
<1>4. SizeOf(Append(s, x)) = SizeOf(s) + 2 + Len(x) /\ SizeOf(s) \in Nat
  <2>1. /\ SizeOf(s) = Total(s) + 2 * AtLeast(Len(s) - 1, 0)
        /\ SizeOf(Append(s, x)) = Total(Append(s, x)) + 2 * AtLeast(Len(Append(s, x)) - 1, 0)
    BY DEF SizeOf, Total, Break
  <2>2. AtLeast(Len(s) - 1, 0) = Len(s) - 1 /\ AtLeast(Len(Append(s, x)) - 1, 0) = Len(s)
    BY <1>2 DEF AtLeast
  <2>3. PICK n \in Nat, z \in Nat, t \in Nat :
            n = Len(s) /\ n >= 1 /\ z = Len(x) /\ t = Total(s)
    BY <1>2, <1>3
  <2>4. SizeOf(s) = t + 2 * (n - 1)
    BY <2>1, <2>2, <2>3
  <2>5. SizeOf(Append(s, x)) = (t + z) + 2 * n
    BY <1>3, <2>1, <2>2, <2>3
  <2>6. t + 2 * (n - 1) \in Nat /\ (t + z) + 2 * n = (t + 2 * (n - 1)) + 2 + z
    BY <2>3
  <2> QED
    BY <2>3, <2>4, <2>5, <2>6
<1>5. Len(s[1]) \in Nat /\ Len(s[1]) <= SizeOf(s)
  <2>1. s[1] \in X /\ s[1] \in Seq(E) /\ Len(s[1]) \in Nat
    BY <1>1, <1>2
  <2>2. PICK one \in Seq(X), rest \in Seq(X) : one = <<s[1]>> /\ s = one \o rest
    <3>1. <<s[1]>> \in Seq(X) /\ Tail(s) \in Seq(X)
      BY <1>2, <2>1
    <3>2. s = <<s[1]>> \o Tail(s)
      BY <1>2
    <3> QED
      BY <3>1, <3>2
  <2>3. SizeOf(one \o rest) >= SizeOf(one)
    BY <1>1, SizeGrows
  <2>4. SizeOf(one) = Len(s[1])
    BY <2>1, <2>2, SizeOfOne
  <2> QED
    BY <2>1, <2>2, <2>3, <2>4
<1> QED
  BY <1>4, <1>5

\* A paragraph that is cut is cut into full slices, but for the last.
LEMMA HardSplitOpens ==
    ASSUME NEW D, NEW q \in Para(D), Len(q) > MaxChars
    PROVE  Len(HardSplit(q)) > 1 /\ SizeOf(HardSplit(q)[1]) = MaxChars
<1> DEFINE count == (Len(q) + MaxChars - 1) \div MaxChars
           last(i) == IF i * MaxChars <= Len(q) THEN i * MaxChars ELSE Len(q)
           slice(i) == <<SubSeq(q, (i - 1) * MaxChars + 1, last(i))>>
<1>1. MaxChars \in Nat /\ MaxChars > 0 /\ q \in Seq(D) /\ Len(q) \in Nat
  BY LimitAssumption DEF Para
<1>2. count \in Nat /\ count > 1
  <2>1. PICK c, n \in Nat, M \in Nat : c = count /\ n = Len(q) /\ M = MaxChars
    BY <1>1
  <2>2. c \in Nat /\ n <= c * M
    BY <1>1, <2>1, Multiples
  <2>3. c <= 1 => c * M <= 1 * M
    BY <2>2, Product
  <2>4. c * M \in Nat
    BY <2>2, Product
  <2>5. n > M
    BY <2>1
  <2>6. ~(c <= 1)
    BY <2>2, <2>3, <2>4, <2>5
  <2> HIDE DEF count
  <2> QED
    BY <2>1, <2>2, <2>6
<1>3. HardSplit(q) = [i \in 1..count |-> slice(i)]
  BY Zenon DEF HardSplit
<1>4. slice(1) = <<SubSeq(q, 1, MaxChars)>>
  <2>1. 1 * MaxChars = MaxChars /\ (1 - 1) * MaxChars + 1 = 1
    BY <1>1
  <2>2. last(1) = MaxChars
    BY <1>1, <2>1
  <2> QED
    BY <2>1, <2>2, Zenon
<1> HIDE DEF count, slice
<1>5. Len(HardSplit(q)) = count /\ HardSplit(q)[1] = slice(1)
  BY <1>2, <1>3
<1>6. SubSeq(q, 1, MaxChars) \in Seq(D) /\ Len(SubSeq(q, 1, MaxChars)) = MaxChars
  BY <1>1
<1> QED
  BY <1>2, <1>4, <1>5, <1>6, SizeOfOne

LEMMA OpenedFlushed ==
    ASSUME NEW D, NEW s \in Gathering(D), Opening(s) PROVE Opened(Flushed(s))
<1>1. PICK F : F = Fitting(D)
  OBVIOUS
<1>2. /\ s.parts \in Seq(F) /\ Len(s.parts) \in Nat /\ DOMAIN s.parts = 1..Len(s.parts)
      /\ s.buffer \in F \cup {<<>>}
  BY <1>1 DEF Gathering
<1>3. MinChars \in Nat
  BY LimitAssumption
<1>5. ASSUME s.buffer # <<>>
      PROVE  /\ SizeOf(s.buffer) \in Nat
             /\ Len(s.buffer[1]) \in Nat /\ Len(s.buffer[1]) <= SizeOf(s.buffer)
  <2>1. s.buffer \in Seq(Seq(D))
    BY <1>1, <1>2, <1>5, Kinds
  <2>2. <<>> \in Seq(D)
    OBVIOUS
  <2> QED
    BY <1>5, <2>1, <2>2, SizeAppend
<1>8. /\ Flushed(s) \in Seq(F) /\ Len(Flushed(s)) \in Nat
      /\ s.buffer = <<>> => Flushed(s) = s.parts
      /\ s.buffer # <<>> => /\ Len(Flushed(s)) = Len(s.parts) + 1
                            /\ Flushed(s)[Len(s.parts) + 1] = s.buffer
                            /\ \A i \in 1..Len(s.parts) : Flushed(s)[i] = s.parts[i]
  <2>1. Flushed(s) \in Seq(F)
    BY <1>1, FlushKeeps
  <2>2. s.buffer # <<>> => s.buffer \in F
    BY <1>2
  <2> QED
    BY <1>2, <2>1, <2>2 DEF Flushed
<1>9. Opened(Flushed(s))
  <2>1. CASE s.buffer = <<>>
    BY <1>8, <2>1 DEF Opening
  <2>2. CASE s.buffer # <<>>
    <3>1. CASE Len(s.parts) = 0
      BY <1>8, <2>2, <3>1 DEF Opened
    <3>2. CASE Len(s.parts) = 1
      <4>1. Flushed(s)[1] = s.parts[1] /\ Flushed(s)[2] = s.buffer
        BY <1>8, <2>2, <3>2
      <4>2. Short(s.parts[1]) => Len(s.buffer[1]) >= MinChars
        BY <3>2 DEF Opening
      <4>3. Short(s.parts[1]) => ~Short(s.buffer)
        BY <1>3, <1>5, <2>2, <4>2 DEF Short
      <4> QED
        BY <4>1, <4>3, Zenon DEF Opened
    <3>3. CASE Len(s.parts) > 1
      <4>1. Flushed(s)[1] = s.parts[1] /\ Flushed(s)[2] = s.parts[2]
        BY <1>2, <1>8, <2>2, <3>3
      <4> QED
        BY <3>3, <4>1, Zenon DEF Opened, Opening
    <3>4. \A n \in Nat : n = 0 \/ n = 1 \/ n > 1
      OBVIOUS
    <3> QED
      BY <1>2, <3>1, <3>2, <3>3, <3>4, Zenon
  <2> QED
    BY <2>1, <2>2
<1> QED
  BY <1>9

LEMMA OpeningStep ==
    ASSUME NEW D, NEW s \in Gathering(D), NEW q \in Para(D), Roomy, Opening(s)
    PROVE  Opening(Gather(s, q))
<1>1. PICK F, P : F = Fitting(D) /\ P = Para(D)
  OBVIOUS
<1>2. /\ s.parts \in Seq(F) /\ Len(s.parts) \in Nat /\ DOMAIN s.parts = 1..Len(s.parts)
      /\ s.buffer \in F \cup {<<>>}
  BY <1>1 DEF Gathering
<1>3. /\ q \in Seq(D) /\ Len(q) \in Nat /\ SizeOf(<<q>>) = Len(q)
      /\ MaxChars \in Nat /\ MinChars \in Nat /\ 2 * MinChars <= MaxChars
  BY OneParagraph, LimitAssumption DEF Roomy
<1>4. s.buffer \in Seq(Seq(D)) /\ s.buffer \in Seq(P)
  <2>1. s.buffer # <<>> => s.buffer \in Seq(Para(D)) /\ s.buffer \in Seq(Seq(D))
    BY <1>1, <1>2, Kinds
  <2>2. <<>> \in Seq(Seq(D)) /\ <<>> \in Seq(Para(D))
    OBVIOUS
  <2> QED
    BY <1>1, <2>1, <2>2, Zenon
<1>5. ASSUME s.buffer # <<>>
      PROVE  /\ SizeOf(Append(s.buffer, q)) = SizeOf(s.buffer) + 2 + Len(q)
             /\ SizeOf(s.buffer) \in Nat
             /\ Len(s.buffer[1]) \in Nat /\ Len(s.buffer[1]) <= SizeOf(s.buffer)
  BY <1>3, <1>4, <1>5, SizeAppend
<1> DEFINE candidate == Append(s.buffer, q)
<1>6. SizeOf(candidate) \in Nat
  <2>1. s.buffer = <<>> => candidate = <<q>>
    OBVIOUS
  <2>2. s.buffer = <<>> => SizeOf(candidate) \in Nat
    BY <1>3, <2>1
  <2>3. s.buffer # <<>> => SizeOf(candidate) \in Nat
    BY <1>3, <1>5
  <2> QED
    BY <2>2, <2>3
<1>7. CASE SizeOf(candidate) <= MaxChars
  <2>1. Gather(s, q) = [s EXCEPT !.buffer = candidate]
    BY <1>3, <1>6, <1>7 DEF Gather
  <2>2. s = [parts |-> s.parts, buffer |-> s.buffer]
    BY DEF Gathering
  <2>3. Gather(s, q).parts = s.parts /\ Gather(s, q).buffer = candidate
    BY <2>1, <2>2
  <2>4. s.buffer # <<>> => candidate # <<>> /\ candidate[1] = s.buffer[1]
    BY <1>4
  <2> HIDE DEF candidate
  <2> QED
    BY <2>3, <2>4, Zenon DEF Opening
<1> HIDE DEF candidate
<1>8. /\ Flushed(s) \in Seq(F) /\ Len(Flushed(s)) \in Nat
      /\ s.buffer = <<>> => Flushed(s) = s.parts
      /\ s.buffer # <<>> => /\ Len(Flushed(s)) = Len(s.parts) + 1
                            /\ Flushed(s)[Len(s.parts) + 1] = s.buffer
                            /\ \A i \in 1..Len(s.parts) : Flushed(s)[i] = s.parts[i]
  <2>1. Flushed(s) \in Seq(F)
    BY <1>1, FlushKeeps
  <2>2. s.buffer # <<>> => s.buffer \in F
    BY <1>2
  <2> QED
    BY <1>2, <2>1, <2>2 DEF Flushed
<1>9. Opened(Flushed(s))
  BY OpenedFlushed
<1>10. CASE ~(SizeOf(candidate) <= MaxChars) /\ Len(q) <= MaxChars
  <2>1. Gather(s, q) = [parts |-> Flushed(s), buffer |-> <<q>>]
    BY <1>3, <1>6, <1>10 DEF Gather, Flushed, candidate
  <2>2. Gather(s, q).parts = Flushed(s) /\ Gather(s, q).buffer = <<q>>
    BY <2>1
  <2>3. s.buffer # <<>>
    <3>1. s.buffer = <<>> => candidate = <<q>>
      BY DEF candidate
    <3> QED
      BY <1>3, <1>10, <3>1
  <2>4. ASSUME Len(Flushed(s)) = 1, Short(Flushed(s)[1]) PROVE Len(q) >= MinChars
    <3>1. Flushed(s)[1] = s.buffer
      BY <1>2, <1>8, <2>3, <2>4
    <3>2. SizeOf(s.buffer) < MinChars
      BY <2>4, <3>1 DEF Short
    <3>3. SizeOf(s.buffer) + 2 + Len(q) > MaxChars
      BY <1>3, <1>5, <1>6, <1>10, <2>3 DEF candidate
    <3> QED
      BY <1>3, <1>5, <2>3, <3>2, <3>3
  <2>5. <<q>> # <<>> /\ <<q>>[1] = q
    OBVIOUS
  <2> QED
    BY <1>9, <2>2, <2>4, <2>5, Zenon DEF Opening
<1>11. CASE ~(SizeOf(candidate) <= MaxChars) /\ ~(Len(q) <= MaxChars)
  <2>1. PICK h : h = HardSplit(q)
    OBVIOUS
  <2>2. Gather(s, q) = [parts |-> Flushed(s) \o h, buffer |-> <<>>]
    BY <1>3, <1>6, <1>11, <2>1 DEF Gather, Flushed, candidate
  <2>3. h \in Seq(F) /\ Len(h) > 1 /\ SizeOf(h[1]) = MaxChars /\ Len(h) \in Nat
    BY <1>1, <1>3, <1>11, <2>1, HardSplitKeeps, HardSplitOpens
  <2>4. ~Short(h[1])
    BY <1>3, <2>3 DEF Short
  <2>5. PICK a \in Seq(F) : a = Flushed(s)
    BY <1>8
  <2>6. /\ Len(a \o h) = Len(a) + Len(h) /\ Len(a) \in Nat
        /\ \A i \in 1..(Len(a) + Len(h)) : (a \o h)[i] = IF i <= Len(a) THEN a[i] ELSE h[i - Len(a)]
    BY <2>3
  <2>7. Opened(a \o h)
    <3>1. CASE Len(a) = 0
      <4>1. (a \o h)[1] = h[1]
        BY <2>3, <2>6, <3>1
      <4> QED
        BY <2>4, <4>1, Zenon DEF Opened
    <3>2. CASE Len(a) = 1
      <4>1. (a \o h)[2] = h[1]
        BY <2>3, <2>6, <3>2
      <4> QED
        BY <2>4, <4>1, Zenon DEF Opened
    <3>3. CASE Len(a) > 1
      <4>1. (a \o h)[1] = a[1] /\ (a \o h)[2] = a[2]
        BY <2>3, <2>6, <3>3
      <4> QED
        BY <1>9, <2>5, <3>3, <4>1, Zenon DEF Opened
    <3>4. \A n \in Nat : n = 0 \/ n = 1 \/ n > 1
      OBVIOUS
    <3> QED
      BY <2>6, <3>1, <3>2, <3>3, <3>4, Zenon
  <2>8. Gather(s, q).parts = a \o h /\ Len(a \o h) # 1
    BY <2>2, <2>3, <2>5, <2>6
  <2> QED
    BY <2>7, <2>8 DEF Opening
<1> QED
  BY <1>7, <1>10, <1>11

LEMMA SplitOpens ==
    ASSUME NEW D, NEW body \in Piece(D), Roomy PROVE Opened(SplitToSize(body))
<1>1. body \in Seq(Para(D))
  BY Kinds
<1>2. CASE SizeOf(body) <= MaxChars
  <2>1. SplitToSize(body) = <<body>> /\ Len(<<body>>) = 1
    BY <1>2 DEF SplitToSize
  <2> QED
    BY <2>1 DEF Opened
<1>3. CASE ~(SizeOf(body) <= MaxChars)
  <2> DEFINE start == [parts |-> <<>>, buffer |-> <<>>]
             run(b) == GatherFold!Folded(start, b)
             S == {b \in Seq(Para(D)) : run(b) \in Gathering(D) /\ Gathered(run(b), b) /\ Opening(run(b))}
  <2>1. <<>> \in S
    <3>1. run(<<>>) = start
      BY GatherFold!FoldLeftEmpty
    <3>2. <<>> \in Seq(Fitting(D)) /\ <<>> \in Seq(Para(D)) /\ Len(<<>>) = 0
      OBVIOUS
    <3>3. TextOfParts(<<>>) \o FlattenSeq(<<>>) = FlattenSeq(<<>>)
      <4>1. <<>> \o <<>> = <<>>
        OBVIOUS
      <4> QED
        BY <4>1, PartsEmpty, FlattenEmpty
    <3>4. start \in Gathering(D) /\ Gathered(start, <<>>)
      BY <3>2, <3>3, MakeGathering
    <3>5. Opening(start)
      BY <3>2 DEF Opening, Opened
    <3> QED
      BY <3>1, <3>2, <3>4, <3>5, Zenon
  <2>2. ASSUME NEW b \in Seq(Para(D)), NEW q \in Para(D), b \in S PROVE Append(b, q) \in S
    <3>1. run(Append(b, q)) = Gather(run(b), q)
      BY GatherFold!FoldLeftAppend
    <3>2. Append(b, q) \in Seq(Para(D))
      BY AppendOf
    <3>3. run(b) \in Gathering(D) /\ Gathered(run(b), b) /\ Opening(run(b))
      BY <2>2
    <3> HIDE DEF run, S
    <3>4. Gather(run(b), q) \in Gathering(D) /\ Gathered(Gather(run(b), q), Append(b, q))
      BY <3>3, GatherStep
    <3>5. Opening(Gather(run(b), q))
      BY <3>3, OpeningStep
    <3> QED
      BY <3>1, <3>2, <3>4, <3>5, Zenon DEF S
  <2> HIDE DEF S
  <2>3. body \in S
    BY <1>1, <2>1, <2>2, SeqInduction
  <2>4. run(body) \in Gathering(D) /\ Opening(run(body))
    BY <2>3 DEF S
  <2>5. SplitToSize(body) = Flushed(run(body))
    <3>1. FoldLeft(Gather, start, body) = run(body)
      BY GatherFolds, Zenon
    <3>2. SplitToSize(body) = Flushed(FoldLeft(Gather, start, body))
      BY <1>3, Zenon DEF SplitToSize, Flushed
    <3> QED
      BY <3>1, <3>2, Zenon
  <2> HIDE DEF run
  <2> QED
    BY <2>4, <2>5, OpenedFlushed
<1> QED
  BY <1>2, <1>3

-----------------------------------------------------------------------------
(* A text and its headings                                                 *)

\* The characters of a text, those of a section, and the headings.
CharsIn(lines) == UNION {ToSet(CharsOf(lines[i])) : i \in DOMAIN lines}
Under(lines, s) == {c \in CharsIn(lines) : SectionOver(lines, c) = s}
Headings(lines) == {HeadingOf(lines, s) : s \in 0..Len(lines)}

\* The section some paragraphs begin in.
Home(lines, paragraphs) == SectionOver(lines, paragraphs[1][1])

LEMMA SectionSteps ==
    ASSUME NEW lines
    PROVE  /\ SectionAt(lines, 0) = 0
           /\ \A k \in Nat \ {0} :
                SectionAt(lines, k) = IF IsHeading(lines[k]) THEN k ELSE SectionAt(lines, k - 1)
           /\ \A k \in Nat : SectionAt(lines, k) \in 0..k
<1> DEFINE above(k) == {0} \cup {i \in 1..k : IsHeading(lines[i])}
<1>1. \A k : SectionAt(lines, k) = Max(above(k))
  BY DEF SectionAt
<1>2. Max(above(0)) = 0
  <2>1. above(0) = {0}
    OBVIOUS
  <2> HIDE DEF above
  <2> QED
    BY <2>1 DEF Max
<1>3. ASSUME NEW k \in Nat \ {0}
      PROVE  Max(above(k)) = IF IsHeading(lines[k]) THEN k ELSE Max(above(k - 1))
  <2>1. CASE IsHeading(lines[k])
    <3>1. k \in above(k) /\ above(k) \in SUBSET (0..k)
      BY <2>1
    <3>2. Max(above(k)) = k
      <4>1. \A y \in above(k) : y \in 0..k
        OBVIOUS
      <4>2. \A y \in above(k) : k >= y
        BY <4>1
      <4>3. \A x \in above(k) : (\A y \in above(k) : x >= y) => x = k
        <5> HIDE DEF above
        <5> QED
          BY <3>1, <4>1, <4>2
      <4> HIDE DEF above
      <4> QED
        BY <3>1, <4>2, <4>3, Zenon DEF Max
    <3> QED
      BY <2>1, <3>2
  <2>2. CASE ~IsHeading(lines[k])
    <3>1. above(k) = above(k - 1)
      <4>1. \A i \in 1..k : IsHeading(lines[i]) => i \in 1..(k - 1)
        BY <2>2
      <4>2. 1..(k - 1) \subseteq 1..k
        OBVIOUS
      <4> QED
        BY <4>1, <4>2
    <3> HIDE DEF above
    <3> QED
      BY <2>2, <3>1
  <2> QED
    BY <2>1, <2>2
<1> HIDE DEF above
<1>4. \A k \in Nat \ {0} :
        SectionAt(lines, k) = IF IsHeading(lines[k]) THEN k ELSE SectionAt(lines, k - 1)
  BY <1>1, <1>3
<1>5. ASSUME NEW n \in Nat PROVE SectionAt(lines, n) \in 0..n
  <2> DEFINE S == {k \in Nat : SectionAt(lines, k) \in 0..k}
  <2>1. 0 \in S
    BY <1>1, <1>2
  <2>2. ASSUME NEW k \in 1..n, k - 1 \in S PROVE k \in S
    BY <1>4, <2>2
  <2> HIDE DEF S
  <2>3. n \in S
    BY <2>1, <2>2, UpTo
  <2> QED
    BY <2>3 DEF S
<1> QED
  BY <1>1, <1>2, <1>4, <1>5

\* A paragraph is over the characters of the section it stands in.
LEMMA ParagraphUnder ==
    ASSUME NEW lines, IsText(lines), NEW k \in DOMAIN lines, ~IsHeading(lines[k])
    PROVE  lines[k].chars \in Para(Under(lines, SectionAt(lines, k)))
<1> DEFINE q == lines[k].chars
           D == Under(lines, SectionAt(lines, k))
<1>1. CharsOf(lines[k]) = q /\ q \in Seq(ToSet(q)) /\ q # <<>>
  BY DEF IsText, CharsOf
<1>2. ASSUME NEW c \in ToSet(q) PROVE c \in D
  <2>1. c \in ToSet(CharsOf(lines[k])) /\ c \in CharsIn(lines)
    BY <1>1, <1>2 DEF CharsIn
  <2>2. \A j \in DOMAIN lines : c \in ToSet(CharsOf(lines[j])) => j = k
    BY <2>1 DEF IsText
  <2>3. (CHOOSE i \in DOMAIN lines : c \in ToSet(CharsOf(lines[i]))) = k
    BY <2>1, <2>2, Zenon
  <2>4. SectionOver(lines, c) = SectionAt(lines, k)
    BY <2>3, Zenon DEF SectionOver
  <2> QED
    BY <2>1, <2>4 DEF Under
<1>3. ToSet(q) \subseteq D
  BY <1>2
<1> HIDE DEF q, D
<1>4. q \in Seq(D)
  BY <1>1, <1>3, Subseqs
<1> QED
  BY <1>1, <1>4 DEF Para, q, D

\* Paragraphs over the characters of one section begin in it.
LEMMA HomeIs ==
    ASSUME NEW lines, NEW s, NEW p \in Piece(Under(lines, s))
    PROVE  Home(lines, p) = s /\ \A i \in DOMAIN p : p[i] \in Para(Under(lines, s))
<1>1. PICK X : X = Para(Under(lines, s))
  OBVIOUS
<1>2. p \in Seq(X) /\ p # <<>>
  BY <1>1 DEF Piece
<1>3. p[1] \in X /\ \A i \in DOMAIN p : p[i] \in X
  BY <1>2
<1>4. p[1][1] \in Under(lines, s)
  BY <1>1, <1>3 DEF Para
<1> QED
  BY <1>1, <1>3, <1>4 DEF Under, Home

-----------------------------------------------------------------------------
(* The text that sections and pieces hold                                  *)

Bodies(sections) == [i \in DOMAIN sections |-> FlattenSeq(sections[i].body)]
Contents(pieces) == [i \in DOMAIN pieces |-> FlattenSeq(pieces[i].content)]
SectionText(sections) == FlattenSeq(Bodies(sections))
PieceText(pieces) == FlattenSeq(Contents(pieces))

\* Sections and pieces with some headings over some characters.
SectionsOver(H, E) == [heading : H, body : Seq(Seq(E))]
PiecesOver(H, E) == [heading : H, content : Seq(Seq(E))]

LEMMA SectionTextSteps ==
    ASSUME NEW H, NEW E, NEW S, S = SectionsOver(H, E), NEW ss \in Seq(S), NEW x \in S
    PROVE  /\ SectionText(ss) \in Seq(E) /\ FlattenSeq(x.body) \in Seq(E)
           /\ SectionText(Append(ss, x)) = SectionText(ss) \o FlattenSeq(x.body)
<1>1. \A y \in S : FlattenSeq(y.body) \in Seq(E)
  BY FlattenType DEF SectionsOver
<1>2. Bodies(ss) \in Seq(Seq(E))
  BY <1>1 DEF Bodies
<1>3. Bodies(Append(ss, x)) = Append(Bodies(ss), FlattenSeq(x.body))
  BY DEF Bodies
<1> QED
  BY <1>1, <1>2, <1>3, FlattenAppend, FlattenType DEF SectionText

LEMMA PieceTextSteps ==
    ASSUME NEW H, NEW E, NEW S, S = PiecesOver(H, E), NEW ps \in Seq(S), NEW x \in S
    PROVE  /\ PieceText(ps) \in Seq(E) /\ FlattenSeq(x.content) \in Seq(E)
           /\ PieceText(Append(ps, x)) = PieceText(ps) \o FlattenSeq(x.content)
<1>1. \A y \in S : FlattenSeq(y.content) \in Seq(E)
  BY FlattenType DEF PiecesOver
<1>2. Contents(ps) \in Seq(Seq(E))
  BY <1>1 DEF Contents
<1>3. Contents(Append(ps, x)) = Append(Contents(ps), FlattenSeq(x.content))
  BY DEF Contents
<1> QED
  BY <1>1, <1>2, <1>3, FlattenAppend, FlattenType DEF PieceText

LEMMA PieceTextConcat ==
    ASSUME NEW H, NEW E, NEW S, S = PiecesOver(H, E), NEW a \in Seq(S), NEW b \in Seq(S)
    PROVE  PieceText(a \o b) = PieceText(a) \o PieceText(b)
<1>1. \A y \in S : FlattenSeq(y.content) \in Seq(E)
  BY FlattenType DEF PiecesOver
<1> DEFINE A == Contents(a)
           B == Contents(b)
           C == Contents(a \o b)
<1>2. /\ Len(a) \in Nat /\ DOMAIN a = 1..Len(a) /\ Len(b) \in Nat /\ DOMAIN b = 1..Len(b)
      /\ DOMAIN (a \o b) = 1..(Len(a) + Len(b))
      /\ \A i \in 1..(Len(a) + Len(b)) : (a \o b)[i] = IF i <= Len(a) THEN a[i] ELSE b[i - Len(a)]
  OBVIOUS
<1>3. A \in Seq(Seq(E)) /\ B \in Seq(Seq(E)) /\ Len(A) = Len(a) /\ Len(B) = Len(b)
  <2>1. (\A i \in 1..Len(a) : A[i] \in Seq(E)) /\ \A i \in 1..Len(b) : B[i] \in Seq(E)
    BY <1>1, <1>2 DEF Contents
  <2> QED
    BY <1>2, <2>1 DEF Contents
<1>4. /\ A \o B \in Seq(Seq(E)) /\ Len(A \o B) = Len(a) + Len(b)
      /\ \A i \in 1..(Len(a) + Len(b)) : (A \o B)[i] = IF i <= Len(a) THEN A[i] ELSE B[i - Len(a)]
  <2> HIDE DEF A, B
  <2>1. PICK X : X = Seq(E)
    OBVIOUS
  <2>2. A \in Seq(X) /\ B \in Seq(X)
    BY <1>3, <2>1
  <2>3. /\ A \o B \in Seq(X) /\ Len(A \o B) = Len(A) + Len(B)
        /\ \A i \in 1..(Len(A) + Len(B)) : (A \o B)[i] = IF i <= Len(A) THEN A[i] ELSE B[i - Len(A)]
    BY <2>2, ConcatProperties
  <2> QED
    BY <1>3, <2>1, <2>3
<1>5. C \in Seq(Seq(E)) /\ Len(C) = Len(a) + Len(b)
  <2>1. \A i \in 1..(Len(a) + Len(b)) : FlattenSeq((a \o b)[i].content) \in Seq(E)
    <3>1. PICK X : X = S
      OBVIOUS
    <3>2. \A i \in 1..(Len(a) + Len(b)) : (a \o b)[i] \in X
      BY <3>1
    <3> QED
      BY <1>1, <3>1, <3>2, Zenon
  <2>2. C = [i \in 1..(Len(a) + Len(b)) |-> FlattenSeq((a \o b)[i].content)]
    BY <1>2, Zenon DEF Contents
  <2>3. Len(a) + Len(b) \in Nat
    BY <1>2
  <2> HIDE DEF C
  <2> QED
    BY <2>1, <2>2, <2>3
<1>6. ASSUME NEW i \in 1..(Len(a) + Len(b)) PROVE C[i] = (A \o B)[i]
  <2>1. i <= Len(a) => i \in DOMAIN a
    BY <1>2
  <2>2. ~(i <= Len(a)) => i - Len(a) \in DOMAIN b
    BY <1>2
  <2>3. C[i] = FlattenSeq((a \o b)[i].content)
    BY <1>2, Zenon DEF Contents
  <2>4. C[i] = IF i <= Len(a) THEN A[i] ELSE B[i - Len(a)]
    BY <1>2, <2>1, <2>2, <2>3, Zenon DEF Contents
  <2> QED
    BY <1>4, <2>4, Zenon
<1>7. C = A \o B
  <2> HIDE DEF A, B, C
  <2> QED
    BY <1>4, <1>5, <1>6, SeqEqual
<1> QED
  BY <1>3, <1>7, FlattenConcat DEF PieceText

\* What the parts of a section print, part by part.
LEMMA FlattenTwice ==
    ASSUME NEW E, NEW parts \in Seq(Seq(Seq(E)))
    PROVE  FlattenSeq([i \in DOMAIN parts |-> FlattenSeq(parts[i])]) = TextOfParts(parts)
<1>1. PICK P : P = Seq(Seq(E))
  OBVIOUS
<1> DEFINE each(ps) == [i \in DOMAIN ps |-> FlattenSeq(ps[i])]
           S == {ps \in Seq(P) : FlattenSeq(each(ps)) = TextOfParts(ps)}
<1>2. <<>> \in S
  <2>1. DOMAIN <<>> = 1..0 /\ <<>> \in Seq(P)
    OBVIOUS
  <2>2. each(<<>>) = [i \in 1..0 |-> FlattenSeq(<<>>[i])]
    BY <2>1, Zenon
  <2>3. [i \in 1..0 |-> FlattenSeq(<<>>[i])] = <<>>
    OBVIOUS
  <2> QED
    BY <2>1, <2>2, <2>3, FlattenEmpty, PartsEmpty
<1>3. ASSUME NEW ps \in Seq(P), NEW p \in P, ps \in S PROVE Append(ps, p) \in S
  <2>1. \A x \in P : FlattenSeq(x) \in Seq(E)
    BY <1>1, FlattenType
  <2>2. each(ps) \in Seq(Seq(E)) /\ FlattenSeq(p) \in Seq(E)
    <3>1. \A i \in DOMAIN ps : FlattenSeq(ps[i]) \in Seq(E)
      BY <2>1
    <3>2. DOMAIN ps = 1..Len(ps) /\ Len(ps) \in Nat
      OBVIOUS
    <3> QED
      BY <2>1, <3>1, <3>2
  <2>3. each(Append(ps, p)) = Append(each(ps), FlattenSeq(p))
    OBVIOUS
  <2>4. FlattenSeq(each(ps)) = TextOfParts(ps)
    BY <1>3
  <2> HIDE DEF each
  <2>5. FlattenSeq(each(Append(ps, p))) = FlattenSeq(each(ps)) \o FlattenSeq(p)
    BY <2>2, <2>3, FlattenAppend
  <2>6. TextOfParts(Append(ps, p)) = TextOfParts(ps) \o FlattenSeq(p)
    BY <1>1, PartsAppend
  <2>7. Append(ps, p) \in Seq(P)
    BY AppendOf
  <2> QED
    BY <2>4, <2>5, <2>6, <2>7
<1> HIDE DEF S
<1>4. parts \in Seq(P)
  BY <1>1
<1>5. parts \in S
  BY <1>2, <1>3, <1>4, SeqInduction
<1> QED
  BY <1>5 DEF S

LEMMA FrontLast ==
    ASSUME NEW X, NEW s \in Seq(X), s # <<>>
    PROVE  Front(s) \in Seq(X) /\ Last(s) \in X /\ s = Append(Front(s), Last(s))
  BY DEF Front, Last

LEMMA LastOf == ASSUME NEW X, NEW s \in Seq(X), NEW x \in X PROVE Last(Append(s, x)) = x
  BY AppendOf DEF Last

-----------------------------------------------------------------------------
(* Sections                                                                *)

\* A section of a text: its paragraphs are over the characters of the section they
\* begin in, whose heading it has.
SectionOf(lines) ==
    {s \in SectionsOver(Headings(lines), CharsIn(lines)) :
        s.body # <<>> => /\ s.heading = HeadingOf(lines, Home(lines, s.body))
                         /\ s.body \in Seq(Para(Under(lines, Home(lines, s.body))))}

\* Sections come one after the other.
Successive(lines, ss) ==
    \A i, j \in DOMAIN ss : i < j /\ ss[i].body # <<>> /\ ss[j].body # <<>>
                            => Home(lines, ss[i].body) < Home(lines, ss[j].body)

CharsUpTo(lines, k) == [i \in 1..k |-> CharsOf(lines[i])]

\* What the sections are after the first lines.
Sectioned(lines, k, ss) ==
    /\ ss \in Seq(SectionOf(lines)) /\ ss # <<>>
    /\ Last(ss).heading = HeadingOf(lines, SectionAt(lines, k))
    /\ SectionText(ss) = FlattenSeq(CharsUpTo(lines, k))
    /\ Successive(lines, ss)
    /\ \A i \in DOMAIN ss : ss[i].body # <<>> =>
            /\ Home(lines, ss[i].body) \in Nat
            /\ i < Len(ss) => Home(lines, ss[i].body) < SectionAt(lines, k)
            /\ i = Len(ss) => Home(lines, ss[i].body) = SectionAt(lines, k)

\* One more section, or the last one with more text.
LEMMA SuccessiveNext ==
    ASSUME NEW lines, NEW X, NEW fr \in Seq(X), NEW x \in X, NEW at \in Nat,
           Successive(lines, fr),
           \A i \in DOMAIN fr : fr[i].body # <<>> =>
                Home(lines, fr[i].body) \in Nat /\ Home(lines, fr[i].body) < at,
           x.body # <<>> => Home(lines, x.body) = at
    PROVE  LET ss == Append(fr, x)
           IN /\ Successive(lines, ss)
              /\ \A i \in DOMAIN ss : ss[i].body # <<>> =>
                    /\ Home(lines, ss[i].body) \in Nat
                    /\ i < Len(ss) => Home(lines, ss[i].body) < at
                    /\ i = Len(ss) => Home(lines, ss[i].body) = at
<1> DEFINE ss == Append(fr, x)
<1>1. /\ Len(fr) \in Nat /\ DOMAIN fr = 1..Len(fr) /\ Len(ss) = Len(fr) + 1
      /\ DOMAIN ss = 1..(Len(fr) + 1) /\ ss[Len(fr) + 1] = x
      /\ \A i \in 1..Len(fr) : ss[i] = fr[i]
  BY AppendOf
<1> HIDE DEF ss
<1>2. \A i \in DOMAIN ss : i < Len(ss) => i \in DOMAIN fr /\ ss[i] = fr[i]
  BY <1>1
<1>3. \A i \in DOMAIN ss : i = Len(ss) => ss[i] = x
  BY <1>1
<1>4. \A i \in DOMAIN ss : i < Len(ss) \/ i = Len(ss)
  BY <1>1
<1>5. ASSUME NEW i \in DOMAIN ss, ss[i].body # <<>>
      PROVE  /\ Home(lines, ss[i].body) \in Nat
             /\ i < Len(ss) => Home(lines, ss[i].body) < at
             /\ i = Len(ss) => Home(lines, ss[i].body) = at
  <2>1. i < Len(ss) => Home(lines, ss[i].body) \in Nat /\ Home(lines, ss[i].body) < at
    BY <1>2, <1>5, Zenon
  <2>2. i = Len(ss) => Home(lines, ss[i].body) = at
    BY <1>3, <1>5, Zenon
  <2> QED
    BY <1>4, <2>1, <2>2
<1>6. ASSUME NEW i \in DOMAIN ss, NEW j \in DOMAIN ss, i < j, ss[i].body # <<>>, ss[j].body # <<>>
      PROVE  Home(lines, ss[i].body) < Home(lines, ss[j].body)
  <2>1. i < Len(ss)
    BY <1>1, <1>6
  <2>2. CASE j < Len(ss)
    BY <1>2, <1>6, <2>1, <2>2, Zenon DEF Successive
  <2>3. CASE j = Len(ss)
    <3>1. Home(lines, ss[i].body) < at /\ Home(lines, ss[j].body) = at
      BY <1>5, <1>6, <2>1, <2>3
    <3> QED
      BY <3>1
  <2> QED
    BY <1>4, <2>2, <2>3
<1>7. Successive(lines, ss)
  BY <1>6 DEF Successive
<1> QED
  BY <1>5, <1>7 DEF ss

LEMMA CharsSteps ==
    ASSUME NEW lines, IsText(lines), NEW k \in 0..Len(lines)
    PROVE  /\ CharsUpTo(lines, k) \in Seq(Seq(CharsIn(lines)))
           /\ k > 0 => CharsUpTo(lines, k) = Append(CharsUpTo(lines, k - 1), CharsOf(lines[k]))
<1>0. lines \in Seq(ToSet(lines)) /\ Len(lines) \in Nat /\ DOMAIN lines = 1..Len(lines)
  BY DEF IsText
<1>1. ASSUME NEW i \in DOMAIN lines PROVE CharsOf(lines[i]) \in Seq(CharsIn(lines))
  <2>1. CharsOf(lines[i]) \in Seq(ToSet(CharsOf(lines[i])))
    BY DEF IsText
  <2>2. ToSet(CharsOf(lines[i])) \subseteq CharsIn(lines)
    BY DEF CharsIn
  <2> QED
    BY <2>1, <2>2, Subseqs
<1>2. PICK X : X = Seq(CharsIn(lines))
  OBVIOUS
<1>3. \A i \in 1..k : CharsOf(lines[i]) \in X
  BY <1>0, <1>1, <1>2
<1>4. CharsUpTo(lines, k) \in Seq(X)
  BY <1>3 DEF CharsUpTo
<1>5. k > 0 => CharsUpTo(lines, k) = Append(CharsUpTo(lines, k - 1), CharsOf(lines[k]))
  BY <1>3 DEF CharsUpTo
<1> QED
  BY <1>2, <1>4, <1>5

LEMMA SectionStep ==
    ASSUME NEW lines, IsText(lines), NEW k \in 1..Len(lines), NEW ss, Sectioned(lines, k - 1, ss)
    PROVE  Sectioned(lines, k, WithLine(ss, lines[k]))
<1> DEFINE E == CharsIn(lines)
           H == Headings(lines)
           new == WithLine(ss, lines[k])
<1>0. /\ lines \in Seq(ToSet(lines)) /\ Len(lines) \in Nat /\ DOMAIN lines = 1..Len(lines)
      /\ k \in DOMAIN lines /\ k \in 0..Len(lines) /\ k - 1 \in 0..Len(lines) /\ k \in Nat \ {0}
      /\ k > 0 /\ k - 1 \in Nat /\ k \in Nat
  BY DEF IsText
<1>1. PICK X, S, at, h, last :
            /\ X = SectionOf(lines) /\ S = SectionsOver(H, E)
            /\ at = SectionAt(lines, k) /\ h = HeadingOf(lines, at) /\ last = SectionAt(lines, k - 1)
  OBVIOUS
<1>2. /\ ss \in Seq(X) /\ ss # <<>> /\ X \subseteq S /\ ss \in Seq(S)
  <2>1. X \subseteq S
    BY <1>1 DEF SectionOf
  <2> QED
    BY <1>1, <2>1, Subseqs DEF Sectioned
<1>3. at \in 0..k /\ at \in Nat /\ last \in 0..(k - 1) /\ last \in Nat /\ h \in H
  <2>1. at \in 0..k /\ last \in 0..(k - 1)
    BY <1>0, <1>1, SectionSteps
  <2>2. at \in Nat /\ last \in Nat /\ at \in 0..Len(lines)
    BY <1>0, <2>1
  <2> QED
    BY <1>1, <2>1, <2>2 DEF Headings
<1>4. /\ CharsUpTo(lines, k - 1) \in Seq(Seq(E)) /\ CharsOf(lines[k]) \in Seq(E)
      /\ FlattenSeq(CharsUpTo(lines, k)) = FlattenSeq(CharsUpTo(lines, k - 1)) \o CharsOf(lines[k])
      /\ FlattenSeq(CharsUpTo(lines, k - 1)) \in Seq(E)
  <2>1. CharsOf(lines[k]) \in Seq(E)
    <3>1. CharsOf(lines[k]) \in Seq(ToSet(CharsOf(lines[k])))
      BY <1>0 DEF IsText
    <3>2. ToSet(CharsOf(lines[k])) \subseteq E
      BY <1>0 DEF CharsIn
    <3> QED
      BY <3>1, <3>2, Subseqs
  <2>2. CharsUpTo(lines, k - 1) \in Seq(Seq(E))
    BY <1>0, CharsSteps
  <2>3. CharsUpTo(lines, k) = Append(CharsUpTo(lines, k - 1), CharsOf(lines[k]))
    BY <1>0, CharsSteps
  <2> QED
    BY <2>1, <2>2, <2>3, FlattenAppend, FlattenType
<1>5. /\ SectionText(ss) = FlattenSeq(CharsUpTo(lines, k - 1))
      /\ Successive(lines, ss) /\ Last(ss).heading = HeadingOf(lines, last)
      /\ \A i \in DOMAIN ss : ss[i].body # <<>> =>
            /\ Home(lines, ss[i].body) \in Nat
            /\ i < Len(ss) => Home(lines, ss[i].body) < last
            /\ i = Len(ss) => Home(lines, ss[i].body) = last
  BY <1>1 DEF Sectioned
<1>6. CASE IsHeading(lines[k])
  <2> DEFINE x == [heading |-> h, body |-> <<>>]
  <2>0. at = k /\ h = lines[k].heading
    BY <1>0, <1>1, <1>6, SectionSteps DEF HeadingOf
  <2>1. new = Append(ss, x) /\ CharsOf(lines[k]) = <<>>
    BY <1>6, <2>0 DEF WithLine, CharsOf
  <2>2. x \in S /\ x.body = <<>> /\ x.heading = h
    BY <1>1, <1>3 DEF SectionsOver
  <2> HIDE DEF x, new, E, H
  <2>3. x \in X
    BY <1>1, <2>2 DEF SectionOf, E, H
  <2>4. SectionText(new) = SectionText(ss) \o FlattenSeq(x.body)
    <3>1. x \in S
      BY <2>2
    <3>2. SectionText(Append(ss, x)) = SectionText(ss) \o FlattenSeq(x.body)
      BY <1>1, <1>2, <3>1, SectionTextSteps
    <3> QED
      BY <2>1, <3>2, Zenon
  <2>5. new \in Seq(X) /\ new # <<>> /\ Last(new) = x
    BY <1>2, <2>1, <2>3, AppendOf, LastOf
  <2>6. SectionText(new) = FlattenSeq(CharsUpTo(lines, k))
    BY <1>4, <1>5, <2>1, <2>2, <2>4, FlattenEmpty
  <2>7. /\ Successive(lines, new)
        /\ \A i \in DOMAIN new : new[i].body # <<>> =>
            /\ Home(lines, new[i].body) \in Nat
            /\ i < Len(new) => Home(lines, new[i].body) < at
            /\ i = Len(new) => Home(lines, new[i].body) = at
    <3>1. ASSUME NEW i \in DOMAIN ss, ss[i].body # <<>>
          PROVE  Home(lines, ss[i].body) \in Nat /\ Home(lines, ss[i].body) < at
      <4>1. i \in 1..Len(ss) /\ Len(ss) \in Nat
        BY <1>2
      <4>2. Home(lines, ss[i].body) \in Nat /\ Home(lines, ss[i].body) <= last
        BY <1>3, <1>5, <3>1, <4>1
      <4>3. last < at
        BY <1>0, <1>3, <2>0
      <4> QED
        BY <1>3, <4>2, <4>3
    <3> QED
      BY <1>2, <1>3, <1>5, <2>1, <2>2, <2>3, <3>1, SuccessiveNext
  <2>8. Sectioned(lines, k, new)
    BY <1>1, <2>2, <2>5, <2>6, <2>7 DEF Sectioned
  <2> QED
    BY <2>8 DEF new
<1>7. CASE ~IsHeading(lines[k])
  <2> DEFINE q == lines[k].chars
             fr == Front(ss)
             l == Last(ss)
             x == [heading |-> h, body |-> Append(l.body, q)]
  <2>0. at = last
    BY <1>0, <1>1, <1>7, SectionSteps
  <2>1. /\ fr \in Seq(X) /\ l \in X /\ ss = Append(fr, l)
        /\ fr \in Seq(S) /\ l \in S
    BY <1>2, FrontLast
  <2>2. l.heading = h /\ CharsOf(lines[k]) = q
    BY <1>1, <1>5, <1>7, <2>0 DEF CharsOf
  <2> HIDE DEF fr, l
  <2>3. q \in Para(Under(lines, at)) /\ q \in Seq(E)
    BY <1>0, <1>1, <1>4, <1>7, <2>2, ParagraphUnder
  <2> HIDE DEF q
  <2>4. /\ l.body \in Seq(Para(Under(lines, at))) /\ l.body \in Seq(Seq(E))
        /\ \A i \in DOMAIN fr : fr[i].body # <<>> =>
                Home(lines, fr[i].body) \in Nat /\ Home(lines, fr[i].body) < at
        /\ Successive(lines, fr)
    <3>1. /\ Len(fr) \in Nat /\ DOMAIN fr = 1..Len(fr) /\ Len(ss) = Len(fr) + 1
          /\ DOMAIN ss = 1..(Len(fr) + 1) /\ ss[Len(fr) + 1] = l
          /\ \A i \in 1..Len(fr) : ss[i] = fr[i]
      BY <2>1, AppendOf
    <3>2. l.body # <<>> => Home(lines, l.body) = at
      BY <1>5, <2>0, <3>1
    <3>3. l.body # <<>> => l.body \in Seq(Para(Under(lines, at)))
      BY <1>1, <2>1, <3>2 DEF SectionOf
    <3>4. l.body = <<>> => l.body \in Seq(Para(Under(lines, at)))
      OBVIOUS
    <3>5. l.body \in Seq(Seq(E))
      BY <1>1, <2>1 DEF SectionsOver
    <3>6. \A i \in DOMAIN fr : i < Len(ss) /\ i \in DOMAIN ss /\ ss[i] = fr[i]
      BY <3>1
    <3>7. \A i \in DOMAIN fr : fr[i].body # <<>> =>
                Home(lines, fr[i].body) \in Nat /\ Home(lines, fr[i].body) < at
      BY <1>5, <2>0, <3>6, Zenon
    <3>8. Successive(lines, fr)
      BY <1>5, <3>6, Zenon DEF Successive
    <3> QED
      BY <3>3, <3>4, <3>5, <3>7, <3>8
  <2>5. /\ Append(l.body, q) \in Seq(Para(Under(lines, at))) /\ Append(l.body, q) \in Seq(Seq(E))
        /\ Append(l.body, q) # <<>>
    BY <2>3, <2>4, AppendOf
  <2>6. x \in S /\ x.body = Append(l.body, q) /\ x.heading = h
    BY <1>1, <1>3, <2>5 DEF SectionsOver
  <2>7. new = Append(fr, x)
    <3>1. l = [heading |-> l.heading, body |-> l.body]
      BY <1>1, <2>1 DEF SectionsOver
    <3>2. new = Append(fr, [l EXCEPT !.body = Append(@, q)])
      BY <1>7 DEF WithLine, fr, l, q
    <3>3. [l EXCEPT !.body = Append(@, q)] = [heading |-> l.heading, body |-> Append(l.body, q)]
      BY <3>1
    <3> QED
      BY <2>2, <3>2, <3>3, Zenon
  <2> HIDE DEF x, new, E, H
  <2>8. x \in X /\ Home(lines, x.body) = at
    <3>1. x.body \in Piece(Under(lines, at))
      BY <2>5, <2>6 DEF Piece
    <3>2. Home(lines, x.body) = at
      BY <3>1, HomeIs
    <3>3. x.body \in Seq(Para(Under(lines, Home(lines, x.body)))) /\ x.heading = HeadingOf(lines, Home(lines, x.body))
      BY <1>1, <2>5, <2>6, <3>2, Zenon
    <3> QED
      BY <1>1, <2>6, <3>2, <3>3 DEF SectionOf, H, E
  <2>9. new \in Seq(X) /\ new # <<>> /\ Last(new) = x
    <3>1. Append(fr, x) \in Seq(X) /\ Append(fr, x) # <<>>
      BY <2>1, <2>8, AppendOf
    <3>2. Last(Append(fr, x)) = x
      BY <2>1, <2>8, LastOf
    <3> QED
      BY <2>7, <3>1, <3>2, Zenon
  <2>10. /\ SectionText(new) = SectionText(fr) \o FlattenSeq(x.body)
         /\ SectionText(ss) = SectionText(fr) \o FlattenSeq(l.body)
         /\ SectionText(fr) \in Seq(E) /\ FlattenSeq(l.body) \in Seq(E)
    <3>0. x \in S
      BY <2>6
    <3>1. SectionText(Append(fr, x)) = SectionText(fr) \o FlattenSeq(x.body)
      BY <1>1, <2>1, <3>0, SectionTextSteps
    <3>2. /\ SectionText(Append(fr, l)) = SectionText(fr) \o FlattenSeq(l.body)
          /\ SectionText(fr) \in Seq(E) /\ FlattenSeq(l.body) \in Seq(E)
      BY <1>1, <2>1, SectionTextSteps
    <3> QED
      BY <2>1, <2>7, <3>1, <3>2, Zenon
  <2>11. FlattenSeq(x.body) = FlattenSeq(l.body) \o q
    BY <2>3, <2>4, <2>6, FlattenAppend
  <2>12. SectionText(fr) \o (FlattenSeq(l.body) \o q) = (SectionText(fr) \o FlattenSeq(l.body)) \o q
    <3>1. PICK s \in Seq(E), t \in Seq(E), u \in Seq(E) :
                s = SectionText(fr) /\ t = FlattenSeq(l.body) /\ u = q
      BY <2>3, <2>10
    <3>2. (s \o t) \o u = s \o (t \o u)
      BY ConcatAssociative
    <3> QED
      BY <3>1, <3>2
  <2>13. SectionText(new) = FlattenSeq(CharsUpTo(lines, k))
    BY <1>4, <1>5, <2>2, <2>10, <2>11, <2>12
  <2>14. /\ Successive(lines, new)
         /\ \A i \in DOMAIN new : new[i].body # <<>> =>
            /\ Home(lines, new[i].body) \in Nat
            /\ i < Len(new) => Home(lines, new[i].body) < at
            /\ i = Len(new) => Home(lines, new[i].body) = at
    BY <1>3, <2>1, <2>4, <2>7, <2>8, SuccessiveNext
  <2>15. Sectioned(lines, k, new)
    BY <1>1, <2>6, <2>9, <2>13, <2>14 DEF Sectioned
  <2> QED
    BY <2>15 DEF new
<1> QED
  BY <1>6, <1>7

LEMMA NoText == SectionText(<<>>) = <<>> /\ PieceText(<<>>) = <<>>
<1>1. DOMAIN <<>> = 1..0
  OBVIOUS
<1>2. [i \in 1..0 |-> FlattenSeq(<<>>[i].body)] = <<>>
  OBVIOUS
<1>3. [i \in 1..0 |-> FlattenSeq(<<>>[i].content)] = <<>>
  OBVIOUS
<1>4. Bodies(<<>>) = <<>> /\ Contents(<<>>) = <<>>
  BY <1>1, <1>2, <1>3, Zenon DEF Bodies, Contents
<1> QED
  BY <1>4, FlattenEmpty DEF SectionText, PieceText

LEMMA SectionFolds == \A b, s : FoldLeft(WithLine, b, s) = SectionFold!Folded(b, s)
<1> SUFFICES ASSUME NEW b, NEW s PROVE FoldLeft(WithLine, b, s) = SectionFold!Folded(b, s)
  OBVIOUS
<1> QED
  BY DEF SectionFold!Folded, FoldLeft, SectionFold!FoldLeft, MapThenFoldSet,
         SectionFold!MapThenFoldSet, Max, SectionFold!Max

\* The sections of a text hold it all, each paragraph in the one it stands in.
LEMMA SplitSectionsKeeps ==
    ASSUME NEW lines, IsText(lines)
    PROVE  Sectioned(lines, Len(lines), SplitSections(lines))
<1> DEFINE n == Len(lines)
           first == [heading |-> Null, body |-> <<>>]
           start == <<first>>
           run(k) == SectionFold!Folded(start, SubSeq(lines, 1, k))
           T == {k \in 0..n : Sectioned(lines, k, run(k))}
<1>0. PICK L : L = ToSet(lines)
  OBVIOUS
<1>1. lines \in Seq(L) /\ n \in Nat /\ SubSeq(lines, 1, 0) = <<>> /\ SubSeq(lines, 1, n) = lines
  BY <1>0 DEF IsText
<1>2. 0 \in T
  <2>1. PICK X, S : X = SectionOf(lines) /\ S = SectionsOver(Headings(lines), CharsIn(lines))
    OBVIOUS
  <2>2. Null \in Headings(lines) /\ HeadingOf(lines, SectionAt(lines, 0)) = Null
    <3>1. 0 \in 0..Len(lines) /\ HeadingOf(lines, 0) = Null
      BY <1>1 DEF HeadingOf
    <3> QED
      BY <3>1, SectionSteps DEF Headings
  <2>3. first \in S /\ first.body = <<>> /\ first.heading = Null
    BY <2>1, <2>2 DEF SectionsOver
  <2> HIDE DEF first
  <2>5. first \in X
    BY <2>1, <2>3 DEF SectionOf
  <2>6. start = Append(<<>>, first) /\ <<>> \in Seq(S) /\ <<>> \in Seq(X) /\ first \in S
    BY <2>3
  <2> HIDE DEF start
  <2>7. PICK e \in Seq(S) : e = <<>> /\ e \in Seq(X) /\ start = Append(e, first)
    BY <2>6
  <2>8. /\ start \in Seq(X) /\ start # <<>> /\ Last(start) = first
        /\ SectionText(start) = SectionText(<<>>) \o FlattenSeq(first.body)
    <3>1. Append(e, first) \in Seq(X) /\ Append(e, first) # <<>>
      BY <2>5, <2>7, AppendOf
    <3>2. Last(Append(e, first)) = first
      BY <2>5, <2>7, LastOf
    <3>3. SectionText(Append(e, first)) = SectionText(e) \o FlattenSeq(first.body)
      BY <2>1, <2>6, SectionTextSteps
    <3> QED
      BY <2>7, <3>1, <3>2, <3>3, Zenon
  <2>9. CharsUpTo(lines, 0) = <<>>
    BY DEF CharsUpTo
  <2>10. <<>> \o <<>> = <<>>
    OBVIOUS
  <2>11. SectionText(start) = FlattenSeq(CharsUpTo(lines, 0))
    BY <2>3, <2>8, <2>9, <2>10, NoText, FlattenEmpty, Zenon
  <2>12. Sectioned(lines, 0, start)
    <3>1. \A i \in DOMAIN start : i = 1 /\ start[i] = first
      BY <2>6, <2>7, <2>5, AppendOf
    <3>2. \A i \in DOMAIN start : start[i].body = <<>>
      BY <2>3, <3>1, Zenon
    <3>3. Successive(lines, start)
      BY <3>2 DEF Successive
    <3> QED
      BY <2>1, <2>2, <2>3, <2>8, <2>11, <3>2, <3>3 DEF Sectioned
  <2>13. run(0) = start
    BY <1>1, SectionFold!FoldLeftEmpty DEF start
  <2>14. 0 \in 0..n
    BY <1>1
  <2> QED
    BY <2>12, <2>13, <2>14, Zenon
<1>3. ASSUME NEW k \in 1..n, k - 1 \in T PROVE k \in T
  <2>1. run(k) = WithLine(run(k - 1), lines[k])
    BY <1>1, SectionFold!FoldLeftStep
  <2>2. Sectioned(lines, k - 1, run(k - 1)) /\ k \in 0..n
    BY <1>1, <1>3
  <2>3. Sectioned(lines, k, WithLine(run(k - 1), lines[k]))
    BY <2>2, SectionStep
  <2> QED
    BY <2>1, <2>2, <2>3, Zenon
<1> HIDE DEF T
<1>4. n \in T
  BY <1>1, <1>2, <1>3, UpTo
<1>5. Sectioned(lines, n, run(n))
  BY <1>4 DEF T
<1>6. SplitSections(lines) = SectionFold!Folded(start, lines)
  BY SectionFolds, Zenon DEF SplitSections
<1> HIDE DEF start
<1> QED
  BY <1>1, <1>5, <1>6

-----------------------------------------------------------------------------
(* The pieces of the sections                                              *)

\* A piece of a text: it is of the section it begins in, whose heading it has, and
\* it fits.
PieceOf(lines) ==
    {p \in PiecesOver(Headings(lines), CharsIn(lines)) :
        /\ p.heading = HeadingOf(lines, Home(lines, p.content))
        /\ p.content \in Fitting(Under(lines, Home(lines, p.content)))}

LEMMA PiecesOfKeeps ==
    ASSUME NEW lines, NEW section \in SectionOf(lines)
    PROVE  /\ PiecesOf(section) \in Seq(PieceOf(lines))
           /\ PieceText(PiecesOf(section)) = FlattenSeq(section.body)
           /\ PiecesOf(section) # <<>> => section.body # <<>>
           /\ \A i \in DOMAIN PiecesOf(section) :
                Home(lines, PiecesOf(section)[i].content) = Home(lines, section.body)
           /\ Roomy => Opened([i \in DOMAIN PiecesOf(section) |-> PiecesOf(section)[i].content])
<1> DEFINE h == section.heading
           D == Under(lines, Home(lines, section.body))
           E == CharsIn(lines)
           parts == IF section.body = <<>> THEN <<>> ELSE SplitToSize(section.body)
           piece(i) == [heading |-> h, content |-> parts[i]]
<1>1. /\ h \in Headings(lines) /\ D \subseteq E
      /\ section.body # <<>> => section.body \in Seq(Para(D)) /\ h = HeadingOf(lines, Home(lines, section.body))
  BY DEF SectionOf, SectionsOver, Under
<1>2. PiecesOf(section) = [i \in DOMAIN parts |-> piece(i)]
  BY Zenon DEF PiecesOf
<1>3. /\ parts \in Seq(Fitting(D)) /\ TextOfParts(parts) = FlattenSeq(section.body)
      /\ parts # <<>> => section.body # <<>>
      /\ Roomy => Opened(parts)
  <2>1. CASE section.body = <<>>
    <3>1. parts = <<>> /\ <<>> \in Seq(Fitting(D)) /\ Len(<<>>) = 0
      BY <2>1
    <3>2. Opened(<<>>)
      BY <3>1 DEF Opened
    <3> QED
      BY <2>1, <3>1, <3>2, PartsEmpty, FlattenEmpty, Zenon
  <2>2. CASE section.body # <<>>
    <3>1. section.body \in Piece(D) /\ parts = SplitToSize(section.body)
      BY <1>1, <2>2 DEF Piece
    <3>2. /\ SplitToSize(section.body) \in Seq(Fitting(D))
          /\ TextOfParts(SplitToSize(section.body)) = FlattenSeq(section.body)
          /\ Roomy => Opened(SplitToSize(section.body))
      <4> HIDE DEF D, parts
      <4> QED
        BY <3>1, SplitToSizeKeeps, SplitOpens
    <3> HIDE DEF D, parts
    <3> QED
      BY <2>2, <3>1, <3>2, Zenon
  <2> QED
    BY <2>1, <2>2
<1> HIDE DEF parts, D, h
<1>4. PICK F : F = Fitting(D)
  OBVIOUS
<1>5. parts \in Seq(F) /\ DOMAIN parts = 1..Len(parts) /\ Len(parts) \in Nat
  BY <1>3, <1>4
<1>6. ASSUME NEW i \in DOMAIN parts
      PROVE  /\ piece(i) \in PieceOf(lines) /\ piece(i).content = parts[i]
             /\ Home(lines, parts[i]) = Home(lines, section.body)
  <2>0. i \in 1..Len(parts) /\ parts # <<>>
    BY <1>5
  <2>1. parts[i] \in Fitting(D)
    BY <1>4, <1>5
  <2>2. parts[i] \in Seq(Seq(E))
    <3>1. parts[i] \in Seq(Seq(D))
      BY <2>1, Kinds
    <3>2. Seq(D) \subseteq Seq(E)
      BY <1>1, Subseqs
    <3> QED
      BY <3>1, <3>2, Subseqs
  <2>3. piece(i) \in PiecesOver(Headings(lines), E) /\ piece(i).content = parts[i] /\ piece(i).heading = h
    BY <1>1, <2>2 DEF PiecesOver
  <2> HIDE DEF piece
  <2>4. Home(lines, parts[i]) = Home(lines, section.body)
    <3>1. parts[i] \in Piece(Under(lines, Home(lines, section.body)))
      BY <2>1 DEF Fitting, D
    <3> QED
      BY <3>1, HomeIs
  <2>5. h = HeadingOf(lines, Home(lines, section.body))
    BY <1>1, <1>3, <2>0
  <2>6. /\ piece(i).heading = HeadingOf(lines, Home(lines, piece(i).content))
        /\ piece(i).content \in Fitting(Under(lines, Home(lines, piece(i).content)))
    BY <2>1, <2>3, <2>4, <2>5, Zenon DEF D
  <2> QED
    BY <2>3, <2>4, <2>6 DEF PieceOf
<1>7. PiecesOf(section) \in Seq(PieceOf(lines))
  <2> HIDE DEF piece
  <2>1. PICK P : P = PieceOf(lines)
    OBVIOUS
  <2>2. \A i \in 1..Len(parts) : piece(i) \in P
    BY <1>5, <1>6, <2>1
  <2>3. [i \in 1..Len(parts) |-> piece(i)] \in Seq(P)
    BY <1>5, <2>2
  <2> QED
    BY <1>2, <1>5, <2>1, <2>3
<1>8. Contents(PiecesOf(section)) = [i \in DOMAIN parts |-> FlattenSeq(parts[i])]
  <2>1. DOMAIN PiecesOf(section) = DOMAIN parts
    BY <1>2
  <2>2. \A i \in DOMAIN parts : PiecesOf(section)[i].content = parts[i]
    BY <1>2, <1>6
  <2> QED
    BY <2>1, <2>2, Zenon DEF Contents
<1>9. parts \in Seq(Seq(Seq(D)))
  BY <1>3, Kinds
<1>10. DOMAIN PiecesOf(section) = DOMAIN parts /\ \A i \in DOMAIN parts : PiecesOf(section)[i].content = parts[i]
  BY <1>2, <1>6
<1>11. PiecesOf(section) # <<>> => section.body # <<>>
  <2>1. parts = <<>> => PiecesOf(section) = <<>>
    <3>1. ASSUME parts = <<>> PROVE PiecesOf(section) = <<>>
      <4>1. DOMAIN parts = 1..0
        BY <3>1
      <4>2. [j \in 1..0 |-> piece(j)] = <<>>
        OBVIOUS
      <4> QED
        BY <1>2, <4>1, <4>2, Zenon
    <3> QED
      BY <3>1
  <2> QED
    BY <1>3, <2>1
<1>12. ASSUME NEW i \in DOMAIN PiecesOf(section)
       PROVE  Home(lines, PiecesOf(section)[i].content) = Home(lines, section.body)
  <2>1. i \in DOMAIN parts /\ PiecesOf(section)[i].content = parts[i]
    BY <1>10
  <2>2. Home(lines, parts[i]) = Home(lines, section.body)
    BY <1>6, <2>1
  <2> QED
    BY <2>1, <2>2
<1>13. Roomy => Opened([i \in DOMAIN PiecesOf(section) |-> PiecesOf(section)[i].content])
  <2>1. [i \in DOMAIN PiecesOf(section) |-> PiecesOf(section)[i].content] = [i \in DOMAIN parts |-> parts[i]]
    BY <1>10, Zenon
  <2>2. [i \in DOMAIN parts |-> parts[i]] = parts
    BY <1>5
  <2> QED
    BY <1>3, <2>1, <2>2, Zenon
<1>14. PieceText(PiecesOf(section)) = FlattenSeq(section.body)
  BY <1>3, <1>8, <1>9, FlattenTwice, Zenon DEF PieceText
<1> QED
  BY <1>7, <1>11, <1>12, <1>13, <1>14

AllPieces(sections) == FlattenSeq([i \in DOMAIN sections |-> PiecesOf(sections[i])])

LEMMA AllPiecesKeep ==
    ASSUME NEW lines, NEW sections \in Seq(SectionOf(lines))
    PROVE  /\ AllPieces(sections) \in Seq(PieceOf(lines))
           /\ PieceText(AllPieces(sections)) = SectionText(sections)
<1> DEFINE each(ss) == [i \in DOMAIN ss |-> PiecesOf(ss[i])]
<1>1. PICK X, P, S, R, H, E :
        /\ X = SectionOf(lines) /\ P = PieceOf(lines) /\ S = SectionsOver(H, E) /\ R = PiecesOver(H, E)
        /\ H = Headings(lines) /\ E = CharsIn(lines)
  OBVIOUS
<1>2. X \subseteq S /\ P \subseteq R
  BY <1>1 DEF SectionOf, PieceOf
<1> DEFINE T == {ss \in Seq(X) : /\ AllPieces(ss) \in Seq(P)
                                 /\ PieceText(AllPieces(ss)) = SectionText(ss)}
<1>3. <<>> \in T
  <2>1. DOMAIN <<>> = 1..0 /\ <<>> \in Seq(X) /\ <<>> \in Seq(P)
    OBVIOUS
  <2>2. [i \in 1..0 |-> PiecesOf(<<>>[i])] = <<>>
    OBVIOUS
  <2>3. AllPieces(<<>>) = <<>>
    BY <2>1, <2>2, FlattenEmpty, Zenon DEF AllPieces
  <2> QED
    BY <2>1, <2>3, NoText
<1>4. ASSUME NEW ss \in Seq(X), NEW x \in X, ss \in T PROVE Append(ss, x) \in T
  <2>1. \A y \in X : PiecesOf(y) \in Seq(P)
    BY <1>1, PiecesOfKeeps
  <2>2. each(ss) \in Seq(Seq(P)) /\ PiecesOf(x) \in Seq(P)
    <3>1. \A i \in DOMAIN ss : PiecesOf(ss[i]) \in Seq(P)
      BY <2>1
    <3>2. DOMAIN ss = 1..Len(ss) /\ Len(ss) \in Nat
      OBVIOUS
    <3> QED
      BY <2>1, <3>1, <3>2
  <2>3. each(Append(ss, x)) = Append(each(ss), PiecesOf(x))
    OBVIOUS
  <2>4. AllPieces(ss) = FlattenSeq(each(ss)) /\ AllPieces(Append(ss, x)) = FlattenSeq(each(Append(ss, x)))
    BY Zenon DEF AllPieces
  <2> HIDE DEF each
  <2>5. AllPieces(Append(ss, x)) = AllPieces(ss) \o PiecesOf(x)
    BY <2>2, <2>3, <2>4, FlattenAppend
  <2>6. AllPieces(ss) \in Seq(P) /\ PieceText(AllPieces(ss)) = SectionText(ss)
    BY <1>4
  <2>7. AllPieces(Append(ss, x)) \in Seq(P)
    BY <2>2, <2>5, <2>6, ConcatProperties
  <2>8. AllPieces(ss) \in Seq(R) /\ PiecesOf(x) \in Seq(R)
    BY <1>2, <2>2, <2>6, Subseqs
  <2>9. PieceText(AllPieces(Append(ss, x))) = PieceText(AllPieces(ss)) \o PieceText(PiecesOf(x))
    BY <1>1, <2>5, <2>8, PieceTextConcat
  <2>10. PieceText(PiecesOf(x)) = FlattenSeq(x.body)
    BY <1>1, PiecesOfKeeps
  <2>11. ss \in Seq(S) /\ x \in S
    BY <1>2, Subseqs
  <2>12. SectionText(Append(ss, x)) = SectionText(ss) \o FlattenSeq(x.body)
    BY <1>1, <2>11, SectionTextSteps
  <2>13. Append(ss, x) \in Seq(X)
    BY AppendOf
  <2> QED
    BY <2>6, <2>7, <2>9, <2>10, <2>12, <2>13
<1> HIDE DEF T
<1>5. sections \in Seq(X)
  BY <1>1
<1>6. sections \in T
  BY <1>3, <1>4, <1>5, SeqInduction
<1> QED
  BY <1>1, <1>6 DEF T

\* Pieces are in the order of their sections, and of one section the first two are
\* not both short.
Follows(lines, ps) ==
    \A n \in DOMAIN ps : n > 1 =>
        /\ Home(lines, ps[n - 1].content) <= Home(lines, ps[n].content)
        /\ Home(lines, ps[n - 1].content) = Home(lines, ps[n].content) /\ Roomy
             /\ Short(ps[n - 1].content) /\ Short(ps[n].content)
           => n > 2 /\ Home(lines, ps[n - 2].content) = Home(lines, ps[n].content)

\* Pieces of one section after those of sections before it.
LEMMA FollowsConcat ==
    ASSUME NEW lines, NEW P, NEW a \in Seq(P), NEW b \in Seq(P), NEW at \in Nat, Follows(lines, a),
           \A i \in DOMAIN a : Home(lines, a[i].content) \in Nat /\ Home(lines, a[i].content) < at,
           \A i \in DOMAIN b : Home(lines, b[i].content) = at,
           Roomy => Opened([i \in DOMAIN b |-> b[i].content])
    PROVE  Follows(lines, a \o b)
<1> DEFINE c == a \o b
<1>1. /\ Len(a) \in Nat /\ Len(b) \in Nat /\ DOMAIN c = 1..(Len(a) + Len(b))
      /\ DOMAIN a = 1..Len(a) /\ DOMAIN b = 1..Len(b)
      /\ \A i \in 1..Len(a) : c[i] = a[i]
      /\ \A j \in 1..Len(b) : c[Len(a) + j] = b[j]
  OBVIOUS
<1> HIDE DEF c
<1>2. ASSUME NEW n \in DOMAIN c, n > 1
      PROVE  /\ Home(lines, c[n - 1].content) <= Home(lines, c[n].content)
             /\ Home(lines, c[n - 1].content) = Home(lines, c[n].content) /\ Roomy
                  /\ Short(c[n - 1].content) /\ Short(c[n].content)
                => n > 2 /\ Home(lines, c[n - 2].content) = Home(lines, c[n].content)
  <2>1. n - 1 \in DOMAIN c
    BY <1>1, <1>2
  <2>2. CASE n <= Len(a)
    <3>1. n \in DOMAIN a /\ c[n] = a[n] /\ c[n - 1] = a[n - 1] /\ (n > 2 => c[n - 2] = a[n - 2])
      BY <1>1, <1>2, <2>1, <2>2
    <3> QED
      BY <1>2, <3>1 DEF Follows
  <2>3. CASE n = Len(a) + 1
    <3>0. n - 1 = Len(a) /\ n = Len(a) + 1 /\ Len(a) \in 1..Len(a) /\ 1 \in 1..Len(b)
      BY <1>1, <1>2, <2>1, <2>3
    <3>1. c[n - 1] = a[Len(a)] /\ Len(a) \in DOMAIN a /\ c[n] = b[1] /\ 1 \in DOMAIN b
      BY <1>1, <3>0
    <3>2. PICK x, y : x = Home(lines, c[n - 1].content) /\ y = Home(lines, c[n].content)
      OBVIOUS
    <3>3. x \in Nat /\ x < at /\ y = at
      BY <3>1, <3>2
    <3>4. x <= y /\ x # y
      BY <3>3
    <3> QED
      BY <3>2, <3>4
  <2>4. CASE n > Len(a) + 1
    <3>1. PICK m \in DOMAIN b : m = n - Len(a) /\ m > 1
      BY <1>1, <2>4
    <3>2. /\ c[n] = b[m] /\ c[n - 1] = b[m - 1] /\ m - 1 \in DOMAIN b
          /\ m > 2 => n > 2 /\ c[n - 2] = b[m - 2] /\ m - 2 \in DOMAIN b
      <4>1. /\ n = Len(a) + m /\ n - 1 = Len(a) + (m - 1) /\ n - 2 = Len(a) + (m - 2)
            /\ m \in 1..Len(b) /\ m - 1 \in 1..Len(b) /\ (m > 2 => m - 2 \in 1..Len(b) /\ n > 2)
        <5>1. PICK k \in Nat, l \in Nat : k = Len(a) /\ l = Len(b) /\ m \in 1..l /\ n \in 1..(k + l)
          BY <1>1
        <5>2. m = n - k
          BY <3>1, <5>1, Zenon
        <5>3. m > 1
          BY <3>1
        <5>4. n = k + m /\ n - 1 = k + (m - 1) /\ n - 2 = k + (m - 2)
          BY <5>1, <5>2
        <5>5. m - 1 \in 1..l /\ (m > 2 => m - 2 \in 1..l /\ n > 2)
          BY <5>1, <5>2, <5>3
        <5> QED
          BY <5>1, <5>4, <5>5
      <4> QED
        BY <1>1, <4>1
    <3>3. Home(lines, c[n - 1].content) = at /\ Home(lines, c[n].content) = at
      BY <3>1, <3>2
    <3>4. at <= at
      OBVIOUS
    <3>5. CASE m > 2
      <4>1. n > 2 /\ Home(lines, c[n - 2].content) = at
        BY <3>2, <3>5
      <4> QED
        BY <3>3, <3>4, <4>1
    <3>6. CASE m = 2
      <4>1. PICK cs : cs = [i \in DOMAIN b |-> b[i].content]
        OBVIOUS
      <4>2. Len(cs) > 1 /\ cs[1] = c[n - 1].content /\ cs[2] = c[n].content
        <5>1. 1 \in DOMAIN b /\ 2 \in DOMAIN b /\ b[1] = c[n - 1] /\ b[2] = c[n]
          BY <3>1, <3>2, <3>6
        <5>2. cs[1] = b[1].content /\ cs[2] = b[2].content
          BY <4>1, <5>1
        <5>3. Len(cs) = Len(b) /\ Len(b) > 1
          BY <1>1, <4>1, <5>1
        <5> QED
          BY <5>1, <5>2, <5>3
      <4>3. Roomy => ~(Short(c[n - 1].content) /\ Short(c[n].content))
        BY <4>1, <4>2, Zenon DEF Opened
      <4> QED
        BY <3>3, <3>4, <4>3
    <3> QED
      BY <1>1, <3>1, <3>5, <3>6
  <2> QED
    BY <1>1, <2>2, <2>3, <2>4
<1>3. Follows(lines, c)
  BY <1>2 DEF Follows
<1> QED
  BY <1>3 DEF c

LEMMA AllPiecesFollow ==
    ASSUME NEW lines, NEW sections \in Seq(SectionOf(lines)), Successive(lines, sections),
           \A i \in DOMAIN sections : sections[i].body # <<>> => Home(lines, sections[i].body) \in Nat
    PROVE  /\ Follows(lines, AllPieces(sections))
           /\ \A n \in DOMAIN AllPieces(sections) : Home(lines, AllPieces(sections)[n].content) \in Nat
<1> DEFINE each(ss) == [i \in DOMAIN ss |-> PiecesOf(ss[i])]
           Orderly(ss) == /\ Successive(lines, ss)
                          /\ \A i \in DOMAIN ss : ss[i].body # <<>> => Home(lines, ss[i].body) \in Nat
           Of(ss) == \A n \in DOMAIN AllPieces(ss) : \E i \in DOMAIN ss :
                /\ ss[i].body # <<>>
                /\ Home(lines, AllPieces(ss)[n].content) = Home(lines, ss[i].body)
<1>1. PICK X, P : X = SectionOf(lines) /\ P = PieceOf(lines)
  OBVIOUS
<1> DEFINE T == {ss \in Seq(X) : Orderly(ss) => Follows(lines, AllPieces(ss)) /\ Of(ss)}
<1>2. <<>> \in T
  <2>1. DOMAIN <<>> = 1..0 /\ DOMAIN <<>> = {} /\ <<>> \in Seq(X)
    OBVIOUS
  <2>2. [i \in 1..0 |-> PiecesOf(<<>>[i])] = <<>>
    OBVIOUS
  <2>3. AllPieces(<<>>) = <<>>
    BY <2>1, <2>2, FlattenEmpty, Zenon DEF AllPieces
  <2>4. Follows(lines, <<>>)
    BY <2>1 DEF Follows
  <2>5. Of(<<>>)
    BY <2>1, <2>3
  <2> HIDE DEF Orderly, Of
  <2> QED
    BY <2>1, <2>3, <2>4, <2>5
<1>3. ASSUME NEW ss \in Seq(X), NEW x \in X, ss \in T PROVE Append(ss, x) \in T
  <2> DEFINE more == Append(ss, x)
  <2>1. \A y \in X : PiecesOf(y) \in Seq(P)
    BY <1>1, PiecesOfKeeps
  <2>2. each(ss) \in Seq(Seq(P)) /\ PiecesOf(x) \in Seq(P)
    <3>1. \A i \in DOMAIN ss : PiecesOf(ss[i]) \in Seq(P)
      BY <2>1
    <3>2. DOMAIN ss = 1..Len(ss) /\ Len(ss) \in Nat
      OBVIOUS
    <3> QED
      BY <2>1, <3>1, <3>2
  <2>3. each(more) = Append(each(ss), PiecesOf(x))
    OBVIOUS
  <2>4. AllPieces(ss) = FlattenSeq(each(ss)) /\ AllPieces(more) = FlattenSeq(each(more))
    BY Zenon DEF AllPieces
  <2>5. /\ more \in Seq(X) /\ Len(ss) \in Nat /\ DOMAIN ss = 1..Len(ss) /\ DOMAIN more = 1..(Len(ss) + 1)
        /\ more[Len(ss) + 1] = x /\ \A i \in DOMAIN ss : more[i] = ss[i] /\ i \in DOMAIN more /\ i < Len(ss) + 1
    BY AppendOf
  <2> HIDE DEF each, more
  <2>6. PICK a \in Seq(P), b \in Seq(P) : a = AllPieces(ss) /\ b = PiecesOf(x) /\ AllPieces(more) = a \o b
    <3>1. AllPieces(more) = AllPieces(ss) \o PiecesOf(x)
      BY <2>2, <2>3, <2>4, FlattenAppend
    <3>2. AllPieces(ss) \in Seq(P)
      BY <1>1, AllPiecesKeep
    <3> QED
      BY <2>2, <3>1, <3>2
  <2>7. ASSUME Orderly(more) PROVE Follows(lines, AllPieces(more)) /\ Of(more)
    <3>1. /\ Orderly(ss)
          /\ x.body # <<>> => Home(lines, x.body) \in Nat
          /\ x.body # <<>> => \A i \in DOMAIN ss : ss[i].body # <<>> =>
                                Home(lines, ss[i].body) < Home(lines, x.body)
      <4>1. Len(ss) + 1 \in DOMAIN more
        BY <2>5
      <4>2. x.body # <<>> => Home(lines, x.body) \in Nat
        BY <2>5, <2>7, <4>1
      <4>3. x.body # <<>> => \A i \in DOMAIN ss : ss[i].body # <<>> =>
                                Home(lines, ss[i].body) < Home(lines, x.body)
        BY <2>5, <2>7, <4>1, Zenon DEF Successive
      <4>4. Successive(lines, ss)
        BY <2>5, <2>7, Zenon DEF Successive
      <4>5. \A i \in DOMAIN ss : ss[i].body # <<>> => Home(lines, ss[i].body) \in Nat
        BY <2>5, <2>7, Zenon
      <4> QED
        BY <4>2, <4>3, <4>4, <4>5
    <3>2. Follows(lines, a) /\ Of(ss)
      <4>1. Orderly(ss) => Follows(lines, AllPieces(ss)) /\ Of(ss)
        BY <1>3
      <4> QED
        BY <2>6, <3>1, <4>1
    <3>3. \A n \in DOMAIN a : \E i \in DOMAIN ss :
                ss[i].body # <<>> /\ Home(lines, a[n].content) = Home(lines, ss[i].body)
      BY <2>6, <3>2
    <3>4. /\ b # <<>> => x.body # <<>>
          /\ \A i \in DOMAIN b : Home(lines, b[i].content) = Home(lines, x.body)
          /\ Roomy => Opened([i \in DOMAIN b |-> b[i].content])
      BY <1>1, <2>6, PiecesOfKeeps
    <3>5. Follows(lines, a \o b)
      <4>1. CASE b = <<>>
        <5>1. a \o b = a
          BY <4>1
        <5> QED
          BY <3>2, <5>1
      <4>2. CASE b # <<>>
        <5>1. PICK at \in Nat : at = Home(lines, x.body)
          BY <3>1, <3>4, <4>2
        <5>2. \A i \in DOMAIN a : Home(lines, a[i].content) \in Nat /\ Home(lines, a[i].content) < at
          BY <3>1, <3>3, <3>4, <4>2, <5>1, Zenon
        <5> QED
          BY <3>2, <3>4, <5>1, <5>2, FollowsConcat
      <4> QED
        BY <4>1, <4>2
    <3>6. Of(more)
      <4>1. ASSUME NEW n \in DOMAIN (a \o b)
            PROVE  \E i \in DOMAIN more : /\ more[i].body # <<>>
                                          /\ Home(lines, (a \o b)[n].content) = Home(lines, more[i].body)
        <5>1. CASE n \in DOMAIN a
          <6>1. (a \o b)[n] = a[n]
            BY <5>1
          <6> QED
            BY <2>5, <3>3, <5>1, <6>1
        <5>2. CASE n \notin DOMAIN a
          <6>1. PICK m \in DOMAIN b : (a \o b)[n] = b[m]
            <7>1. n - Len(a) \in DOMAIN b /\ (a \o b)[n] = b[n - Len(a)]
              BY <4>1, <5>2
            <7> QED
              BY <7>1
          <6>2. b # <<>>
            BY <6>1
          <6>3. Len(ss) + 1 \in DOMAIN more /\ more[Len(ss) + 1] = x
            BY <2>5
          <6> QED
            BY <3>4, <6>1, <6>2, <6>3
        <5> QED
          BY <5>1, <5>2
      <4> QED
        BY <2>6, <4>1
    <3> QED
      BY <2>6, <3>5, <3>6
  <2> HIDE DEF Orderly, Of
  <2> QED
    BY <2>5, <2>7 DEF more
<1> HIDE DEF T
<1>4. sections \in Seq(X)
  BY <1>1
<1>5. sections \in T
  BY <1>2, <1>3, <1>4, SeqInduction
<1>6. Orderly(sections)
  OBVIOUS
<1>7. Follows(lines, AllPieces(sections)) /\ Of(sections)
  <2> HIDE DEF Orderly, Of
  <2> QED
    BY <1>5, <1>6 DEF T
<1> QED
  BY <1>7

-----------------------------------------------------------------------------
(* Pieces that are merged                                                  *)

LEMMA MergeFolds == \A b, s : FoldLeft(Merge, b, s) = MergeFold!Folded(b, s)
<1> SUFFICES ASSUME NEW b, NEW s PROVE FoldLeft(Merge, b, s) = MergeFold!Folded(b, s)
  OBVIOUS
<1> QED
  BY DEF MergeFold!Folded, FoldLeft, MergeFold!FoldLeft, MapThenFoldSet,
         MergeFold!MapThenFoldSet, Max, MergeFold!Max

\* The section a paragraph begins in, and paragraphs that stay in theirs.
Begins(lines, q) == SectionOver(lines, q[1])
Uniform(lines, content) ==
    \A i \in DOMAIN content : content[i] \in Para(Under(lines, Begins(lines, content[i])))

LEMMA SectionPositions ==
    ASSUME NEW lines, NEW content, Uniform(lines, content), NEW t
    PROVE  OfSection(lines, content, t) = {i \in DOMAIN content : Begins(lines, content[i]) = t}
<1>1. ASSUME NEW i \in DOMAIN content
      PROVE  (\E char \in ToSet(content[i]) : SectionOver(lines, char) = t)
             <=> Begins(lines, content[i]) = t
  <2>1. PICK q, s, D : q = content[i] /\ s = Begins(lines, q) /\ D = Under(lines, s)
    OBVIOUS
  <2>2. q \in Seq(D) /\ q # <<>>
    BY <2>1 DEF Uniform, Para
  <2>3. ToSet(q) \subseteq D /\ q[1] \in ToSet(q)
    BY <2>2 DEF ToSet
  <2>4. \A char \in ToSet(q) : SectionOver(lines, char) = s
    BY <2>1, <2>3 DEF Under
  <2> QED
    BY <2>1, <2>3, <2>4, Zenon
<1> QED
  BY <1>1 DEF OfSection

\* What a chunk of a text is meant to be.
ChunkOf(lines) ==
    {c \in PiecesOver(Headings(lines), CharsIn(lines)) :
        /\ c.content \in Piece(CharsIn(lines))
        /\ Uniform(lines, c.content)
        /\ UnderItsHeading(lines, c)
        /\ SizeOf(c.content) > MaxChars => Len(Last(c.content)) < MinChars}

\* Where the chunks may go on: the last one ends in the section of the last piece,
\* of which it holds no more than one short piece unless it begins there.
Ends(lines, pieces, chunks) ==
    LET c == Last(chunks).content
        s == Home(lines, Last(pieces).content)
    IN /\ \A i \in DOMAIN c : Begins(lines, c[i]) \in Nat /\ Begins(lines, c[i]) <= s
       /\ Roomy /\ s # Home(lines, c) => /\ Len(pieces) > 1 /\ Short(Last(pieces).content)
                                         /\ Home(lines, pieces[Len(pieces) - 1].content) # s

\* What the merged chunks are after some pieces.
MergedFrom(lines, pieces, chunks) ==
    /\ chunks \in Seq(ChunkOf(lines))
    /\ \A i \in DOMAIN chunks : i > 1 => SizeOf(chunks[i].content) >= MinChars
    /\ PieceText(chunks) = PieceText(pieces)
    /\ chunks # <<>> => pieces # <<>> /\ Ends(lines, pieces, chunks)

\* Pieces in the order of their sections.
Orderly(lines, pieces) ==
    /\ Follows(lines, pieces)
    /\ \A n \in DOMAIN pieces : Home(lines, pieces[n].content) \in Nat

LEMMA PieceIsChunk ==
    ASSUME NEW lines, NEW p \in PieceOf(lines)
    PROVE  /\ p \in ChunkOf(lines) /\ SizeOf(p.content) \in Nat
           /\ \A i \in DOMAIN p.content : Begins(lines, p.content[i]) = Home(lines, p.content)
<1> DEFINE s == Home(lines, p.content)
           D == Under(lines, s)
           E == CharsIn(lines)
<1>1. p \in PiecesOver(Headings(lines), E) /\ p.content \in Fitting(D) /\ D \subseteq E
  BY DEF PieceOf, Under
<1>2. p.heading = HeadingOf(lines, s)
  BY DEF PieceOf
<1> HIDE DEF D, E, s
<1>3. /\ p.content \in Seq(Para(D)) /\ p.content # <<>> /\ p.content \in Seq(Seq(D))
      /\ SizeOf(p.content) <= MaxChars /\ p.content \in Piece(D)
  BY <1>1, Kinds DEF Fitting, Piece
<1>4. \A i \in DOMAIN p.content : p.content[i] \in Para(D) /\ Begins(lines, p.content[i]) = s
  <2>1. PICK X : X = Para(D)
    OBVIOUS
  <2>2. \A i \in DOMAIN p.content : p.content[i] \in X
    BY <1>3, <2>1
  <2>3. \A q \in X : q[1] \in D
    BY <2>1 DEF Para
  <2> QED
    BY <2>1, <2>2, <2>3 DEF Under, D, Begins
<1>5. Uniform(lines, p.content)
  BY <1>4, Zenon DEF Uniform, D
<1>6. p.content \in Piece(E)
  <2>1. Para(D) \subseteq Para(E)
    BY <1>1, Subseqs DEF Para
  <2>2. p.content \in Seq(Para(E))
    BY <1>3, <2>1, Subseqs
  <2> QED
    BY <1>3, <2>2 DEF Piece
<1>7. SizeOf(p.content) \in Nat /\ MaxChars \in Nat
  BY <1>3, SizeGrows, LimitAssumption
<1>8. ~(SizeOf(p.content) > MaxChars)
  BY <1>3, <1>7
<1>9. UnderItsHeading(lines, p)
  <2>1. SectionOver(lines, p.content[1][1]) = s
    BY DEF s, Home
  <2>2. ASSUME NEW t, t # s PROVE OfSection(lines, p.content, t) = {}
    BY <1>4, <1>5, <2>2, SectionPositions
  <2> QED
    BY <1>2, <2>1, <2>2, Zenon DEF UnderItsHeading
<1>10. p \in ChunkOf(lines)
  BY <1>1, <1>5, <1>6, <1>8, <1>9 DEF ChunkOf, E
<1> QED
  BY <1>4, <1>7, <1>10 DEF s

LEMMA ConcatEnds ==
    ASSUME NEW X, NEW a \in Seq(X), NEW b \in Seq(X), a # <<>>, b # <<>>
    PROVE  a \o b \in Seq(X) /\ a \o b # <<>> /\ (a \o b)[1] = a[1] /\ Last(a \o b) = Last(b)
  BY DEF Last

\* Parts of two texts that are joined.
LEMMA PartsOfJoined ==
    ASSUME NEW Q, NEW a \in Seq(Q), NEW b \in Seq(Q)
    PROVE  /\ \A lo, hi \in DOMAIN a : SubSeq(a \o b, lo, hi) = SubSeq(a, lo, hi)
           /\ SubSeq(a \o b, Len(a) + 1, Len(a) + Len(b)) = b
<1>1. /\ a \o b \in Seq(Q) /\ Len(a) \in Nat /\ Len(b) \in Nat
      /\ DOMAIN a = 1..Len(a) /\ DOMAIN b = 1..Len(b)
      /\ \A i \in 1..Len(a) : (a \o b)[i] = a[i]
      /\ \A j \in 1..Len(b) : (a \o b)[Len(a) + j] = b[j]
  OBVIOUS
<1> DEFINE c == a \o b
<1>2. ASSUME NEW lo \in DOMAIN a, NEW hi \in DOMAIN a PROVE SubSeq(c, lo, hi) = SubSeq(a, lo, hi)
  <2>1. SubSeq(c, lo, hi) = [i \in 1..(hi - lo + 1) |-> c[i + lo - 1]]
    OBVIOUS
  <2>2. SubSeq(a, lo, hi) = [i \in 1..(hi - lo + 1) |-> a[i + lo - 1]]
    OBVIOUS
  <2>3. \A i \in 1..(hi - lo + 1) : i + lo - 1 \in 1..Len(a)
    BY <1>1
  <2> HIDE DEF c
  <2>4. \A i \in 1..(hi - lo + 1) : c[i + lo - 1] = a[i + lo - 1]
    BY <1>1, <2>3, Zenon DEF c
  <2> QED
    BY <2>1, <2>2, <2>4
<1>3. SubSeq(c, Len(a) + 1, Len(a) + Len(b)) = b
  <2>1. PICK k \in Nat, l \in Nat : k = Len(a) /\ l = Len(b)
    BY <1>1
  <2>2. PICK m \in Int, n \in Int : m = k + 1 /\ n = k + l
    OBVIOUS
  <2>3. \A d \in Seq(Q) : SubSeq(d, m, n) = [i \in 1..(n - m + 1) |-> d[i + m - 1]]
    OBVIOUS
  <2>4. n - m + 1 = l /\ \A i \in 1..l : i + m - 1 = k + i
    BY <2>1, <2>2
  <2> HIDE DEF c
  <2>5. \A i \in 1..l : c[i + m - 1] = b[i]
    BY <1>1, <2>1, <2>4, Zenon DEF c
  <2>6. b = [i \in 1..l |-> b[i]]
    BY <1>1, <2>1
  <2>7. c \in Seq(Q)
    BY <1>1 DEF c
  <2>8. SubSeq(c, m, n) = [i \in 1..l |-> c[i + m - 1]]
    BY <2>3, <2>4, <2>7
  <2>9. SubSeq(c, m, n) = b
    BY <2>5, <2>6, <2>8
  <2> QED
    BY <2>1, <2>2, <2>9
<1> QED
  BY <1>2, <1>3

\* A piece b of section t joins paragraphs a of others.
Hosts(lines, a, b, t) ==
    /\ Uniform(lines, a \o b)
    /\ \A u : u # t => OfSection(lines, a \o b, u) = OfSection(lines, a, u)
    /\ \A u : u # t /\ Little(lines, a, u) => Little(lines, a \o b, u)
    /\ (\A i \in DOMAIN a : Begins(lines, a[i]) # t) /\ Short(b) => Little(lines, a \o b, t)
    /\ \A i \in DOMAIN (a \o b) :
         \/ i \in DOMAIN a /\ Begins(lines, (a \o b)[i]) = Begins(lines, a[i])
         \/ Begins(lines, (a \o b)[i]) = t

LEMMA Guests ==
    ASSUME NEW lines, NEW Q, NEW a \in Seq(Q), NEW b \in Seq(Q), b # <<>>,
           Uniform(lines, a), Uniform(lines, b),
           NEW t, \A i \in DOMAIN b : Begins(lines, b[i]) = t
    PROVE  Hosts(lines, a, b, t)
<1> DEFINE c == a \o b
<1>1. /\ c \in Seq(Q) /\ Len(a) \in Nat /\ Len(b) \in Nat /\ Len(b) > 0
      /\ DOMAIN a = 1..Len(a) /\ DOMAIN b = 1..Len(b) /\ DOMAIN c = 1..(Len(a) + Len(b))
      /\ \A i \in 1..Len(a) : c[i] = a[i]
      /\ \A j \in 1..Len(b) : c[Len(a) + j] = b[j]
  OBVIOUS
<1>2. /\ \A lo, hi \in DOMAIN a : SubSeq(c, lo, hi) = SubSeq(a, lo, hi)
      /\ SubSeq(c, Len(a) + 1, Len(a) + Len(b)) = b
  BY PartsOfJoined
<1> HIDE DEF c
<1>3. \A i \in DOMAIN c : i \in DOMAIN a \/ \E j \in DOMAIN b : i = Len(a) + j
  <2>1. PICK k \in Nat, l \in Nat : k = Len(a) /\ l = Len(b)
    BY <1>1
  <2>2. \A i \in 1..(k + l) : i \in 1..k \/ (i - k \in 1..l /\ i = k + (i - k))
    OBVIOUS
  <2> QED
    BY <1>1, <2>1, <2>2
<1>4. \A i \in DOMAIN c : \/ i \in DOMAIN a /\ c[i] = a[i]
                          \/ \E j \in DOMAIN b : i = Len(a) + j /\ c[i] = b[j]
  BY <1>1, <1>3, Zenon
<1>5. Uniform(lines, c)
  BY <1>4, Zenon DEF Uniform
<1>6. \A i \in DOMAIN c : \/ i \in DOMAIN a /\ c[i] = a[i] /\ Begins(lines, c[i]) = Begins(lines, a[i])
                          \/ i \notin DOMAIN a /\ Begins(lines, c[i]) = t
  <2>1. ASSUME NEW j \in DOMAIN b PROVE Len(a) + j \notin DOMAIN a
    BY <1>1
  <2> QED
    BY <1>4, <2>1, Zenon
<1>7. DOMAIN a \subseteq DOMAIN c
  BY <1>1
<1>8. ASSUME NEW u, u # t
      PROVE  /\ OfSection(lines, c, u) = OfSection(lines, a, u)
             /\ Little(lines, a, u) => Little(lines, c, u)
  <2>1. OfSection(lines, c, u) = {i \in DOMAIN c : Begins(lines, c[i]) = u}
    BY <1>5, SectionPositions
  <2>2. OfSection(lines, a, u) = {i \in DOMAIN a : Begins(lines, a[i]) = u}
    BY SectionPositions
  <2>3. OfSection(lines, c, u) = OfSection(lines, a, u)
    BY <1>6, <1>7, <1>8, <2>1, <2>2
  <2>4. ASSUME Little(lines, a, u) PROVE Little(lines, c, u)
    <3>1. PICK lo \in DOMAIN a, hi \in DOMAIN a :
                OfSection(lines, a, u) = lo..hi /\ SizeOf(SubSeq(a, lo, hi)) < MinChars
      BY <2>4 DEF Little
    <3>2. lo \in DOMAIN c /\ hi \in DOMAIN c /\ SubSeq(c, lo, hi) = SubSeq(a, lo, hi)
      BY <1>2, <1>7, <3>1
    <3> QED
      BY <2>3, <3>1, <3>2, Zenon DEF Little
  <2> QED
    BY <2>3, <2>4
<1>9. ASSUME \A i \in DOMAIN a : Begins(lines, a[i]) # t, Short(b) PROVE Little(lines, c, t)
  <2>1. OfSection(lines, c, t) = {i \in DOMAIN c : Begins(lines, c[i]) = t}
    BY <1>5, SectionPositions
  <2>2. OfSection(lines, c, t) = {i \in DOMAIN c : i \notin DOMAIN a}
    BY <1>6, <1>9, <2>1
  <2>3. PICK k \in Nat, l \in Nat : k = Len(a) /\ l = Len(b) /\ l > 0
    BY <1>1
  <2>4. {i \in 1..(k + l) : i \notin 1..k} = (k + 1)..(k + l)
    <3>1. \A i \in 1..(k + l) : i \notin 1..k => i \in (k + 1)..(k + l)
      OBVIOUS
    <3>2. \A i \in (k + 1)..(k + l) : i \in 1..(k + l) /\ i \notin 1..k
      OBVIOUS
    <3> QED
      BY <3>1, <3>2
  <2>5. k + 1 \in 1..(k + l) /\ k + l \in 1..(k + l)
    BY <2>3
  <2>6. OfSection(lines, c, t) = (k + 1)..(k + l)
    BY <1>1, <2>2, <2>3, <2>4
  <2>7. k + 1 \in DOMAIN c /\ k + l \in DOMAIN c
    BY <1>1, <2>3, <2>5, Zenon
  <2>8. SubSeq(c, k + 1, k + l) = b
    BY <1>2, <2>3, Zenon
  <2> QED
    BY <1>9, <2>6, <2>7, <2>8, Zenon DEF Little, Short
<1>10. \A i \in DOMAIN c : \/ i \in DOMAIN a /\ Begins(lines, c[i]) = Begins(lines, a[i])
                           \/ Begins(lines, c[i]) = t
  BY <1>6
<1> QED
  BY <1>5, <1>8, <1>9, <1>10, Zenon DEF c, Hosts

\* A chunk that takes in a short piece.
Joined(c, p) == [heading |-> c.heading, content |-> c.content \o p.content]

LEMMA Absorbs ==
    ASSUME NEW lines, NEW c \in ChunkOf(lines), NEW p \in PieceOf(lines), Short(p.content),
           Roomy /\ Home(lines, p.content) # Home(lines, c.content) =>
                \A i \in DOMAIN c.content : Begins(lines, c.content[i]) # Home(lines, p.content)
    PROVE  /\ Joined(c, p) \in ChunkOf(lines)
           /\ SizeOf(c.content) >= MinChars => SizeOf(Joined(c, p).content) >= MinChars
           /\ FlattenSeq(Joined(c, p).content) = FlattenSeq(c.content) \o FlattenSeq(p.content)
           /\ Home(lines, Joined(c, p).content) = Home(lines, c.content)
           /\ \A i \in DOMAIN Joined(c, p).content :
                \/ /\ i \in DOMAIN c.content
                   /\ Begins(lines, Joined(c, p).content[i]) = Begins(lines, c.content[i])
                \/ Begins(lines, Joined(c, p).content[i]) = Home(lines, p.content)
<1> DEFINE x == Joined(c, p)
<1>1. PICK E, H, Q : E = CharsIn(lines) /\ H = Headings(lines) /\ Q = Para(E)
  OBVIOUS
<1>2. /\ c.content \in Piece(E) /\ p.content \in Piece(E) /\ c.heading \in H
      /\ SizeOf(p.content) \in Nat /\ Uniform(lines, c.content) /\ Uniform(lines, p.content)
      /\ UnderItsHeading(lines, c) /\ SizeOf(p.content) < MinChars
      /\ \A i \in DOMAIN p.content : Begins(lines, p.content[i]) = Home(lines, p.content)
  BY <1>1, PieceIsChunk DEF ChunkOf, PiecesOver, Short
<1>3. /\ c.content \in Seq(Q) /\ c.content # <<>> /\ p.content \in Seq(Q) /\ p.content # <<>>
      /\ c.content \in Seq(Seq(E)) /\ p.content \in Seq(Seq(E))
  BY <1>1, <1>2, Kinds DEF Piece
<1>4. x.heading = c.heading /\ x.content = c.content \o p.content
  BY DEF Joined
<1>5. /\ x.content \in Seq(Q) /\ x.content # <<>> /\ x.content[1] = c.content[1]
      /\ Last(x.content) = Last(p.content)
  <2>1. PICK a \in Seq(Q), b \in Seq(Q) : a = c.content /\ b = p.content /\ a # <<>> /\ b # <<>>
    BY <1>3
  <2>2. a \o b \in Seq(Q) /\ a \o b # <<>> /\ (a \o b)[1] = a[1] /\ Last(a \o b) = Last(b)
    BY <2>1, ConcatEnds
  <2> QED
    BY <1>4, <2>1, <2>2, Zenon
<1>6. x.content \in Piece(E) /\ x.content \in Seq(Seq(E))
  <2>1. x.content \in Piece(E)
    BY <1>1, <1>5 DEF Piece
  <2> QED
    BY <2>1, Kinds
<1>7. x \in PiecesOver(H, E)
  BY <1>2, <1>4, <1>6 DEF PiecesOver, Joined
<1>8. Last(p.content) \in Seq(E) /\ Len(Last(p.content)) <= SizeOf(p.content)
  BY <1>3, SizeGrows
<1>9. Len(Last(x.content)) < MinChars
  <2>1. Len(Last(p.content)) \in Nat /\ MinChars \in Nat
    BY <1>8, LimitAssumption
  <2> QED
    BY <1>2, <1>5, <1>8, <2>1
<1>10. SizeOf(x.content) >= SizeOf(c.content) /\ SizeOf(c.content) \in Nat /\ SizeOf(x.content) \in Nat
  <2>1. SizeOf(c.content \o p.content) >= SizeOf(c.content) /\ SizeOf(c.content) \in Nat
    BY <1>3, SizeGrows
  <2>2. SizeOf(x.content) \in Nat
    BY <1>6, SizeGrows
  <2> QED
    BY <1>4, <2>1, <2>2
<1>11. FlattenSeq(x.content) = FlattenSeq(c.content) \o FlattenSeq(p.content)
  BY <1>3, <1>4, FlattenConcat
<1>12. MinChars \in Nat
  BY LimitAssumption
<1> DEFINE a == c.content
           b == p.content
           t == Home(lines, b)
           home == Home(lines, a)
<1>13. a = c.content /\ b = p.content /\ t = Home(lines, b) /\ home = Home(lines, a)
  OBVIOUS
<1>14. a \in Seq(Q) /\ b \in Seq(Q) /\ b # <<>>
  BY <1>3
<1> HIDE DEF a, b, t, home
<1>15. Hosts(lines, a, b, t)
  <2>1. Uniform(lines, a) /\ Uniform(lines, b) /\ \A i \in DOMAIN b : Begins(lines, b[i]) = t
    BY <1>2, <1>13, Zenon
  <2> QED
    BY <1>14, <2>1, Guests
<1>16. x.content[1][1] = a[1][1] /\ Home(lines, x.content) = home
  BY <1>5, <1>13, Zenon DEF Home
<1>17. UnderItsHeading(lines, x)
  <2>1. x.heading = HeadingOf(lines, home)
    BY <1>2, <1>4, <1>13, Zenon DEF UnderItsHeading, Home
  <2>2. ASSUME Roomy, NEW u \in 0..Len(lines), u # home
        PROVE  OfSection(lines, x.content, u) = {} \/ Little(lines, x.content, u)
    <3>1. OfSection(lines, a, u) = {} \/ Little(lines, a, u)
      BY <1>2, <1>13, <2>2, Zenon DEF UnderItsHeading, Home
    <3>2. CASE u # t
      BY <1>4, <1>13, <1>15, <3>1, <3>2, Zenon DEF Hosts
    <3>3. CASE u = t
      <4>1. \A i \in DOMAIN a : Begins(lines, a[i]) # t
        BY <1>13, <2>2, <3>3, Zenon
      <4>2. Short(b)
        BY <1>13
      <4> QED
        BY <1>4, <1>13, <1>15, <3>3, <4>1, <4>2, Zenon DEF Hosts
    <3> QED
      BY <3>2, <3>3
  <2>3. SectionOver(lines, x.content[1][1]) = home
    BY <1>16 DEF Home
  <2> HIDE DEF x
  <2> QED
    BY <2>1, <2>2, <2>3, Zenon DEF UnderItsHeading
<1>18. x \in ChunkOf(lines)
  <2>1. Uniform(lines, x.content)
    BY <1>4, <1>13, <1>15, Zenon DEF Hosts
  <2> HIDE DEF x
  <2> QED
    BY <1>1, <1>6, <1>7, <1>9, <1>17, <2>1 DEF ChunkOf
<1>19. \A i \in DOMAIN x.content :
            \/ i \in DOMAIN c.content /\ Begins(lines, x.content[i]) = Begins(lines, c.content[i])
            \/ Begins(lines, x.content[i]) = Home(lines, p.content)
  BY <1>4, <1>13, <1>15, Zenon DEF Hosts
<1>20. SizeOf(c.content) >= MinChars => SizeOf(x.content) >= MinChars
  BY <1>10, <1>12
<1> QED
  BY <1>11, <1>13, <1>16, <1>18, <1>19, <1>20

\* What the order of pieces says of the last two.
Continues(lines, pieces, p) ==
    /\ Len(Append(pieces, p)) > 1
    /\ Append(pieces, p)[Len(Append(pieces, p)) - 1] = Last(pieces)
    /\ Home(lines, Last(pieces).content) \in Nat
    /\ Home(lines, Last(pieces).content) <= Home(lines, p.content)
    /\ /\ Home(lines, Last(pieces).content) = Home(lines, p.content) /\ Roomy
       /\ Short(Last(pieces).content) /\ Short(p.content)
       => Len(pieces) > 1 /\ Home(lines, pieces[Len(pieces) - 1].content) = Home(lines, p.content)

LEMMA LastFollows ==
    ASSUME NEW lines, NEW P, NEW pieces \in Seq(P), NEW p \in P, Orderly(lines, Append(pieces, p))
    PROVE  /\ Orderly(lines, pieces) /\ Home(lines, p.content) \in Nat
           /\ Last(Append(pieces, p)) = p
           /\ pieces # <<>> => Continues(lines, pieces, p)
<1> DEFINE more == Append(pieces, p)
<1>1. PICK k \in Nat : k = Len(pieces)
  OBVIOUS
<1>2. /\ Len(more) = k + 1 /\ more[k + 1] = p /\ DOMAIN more = 1..(k + 1) /\ DOMAIN pieces = 1..k
      /\ \A i \in 1..k : more[i] = pieces[i]
      /\ Last(more) = p /\ Last(pieces) = pieces[k]
  BY <1>1 DEF Last
<1> HIDE DEF more
<1>3. Orderly(lines, more)
  BY DEF more
<1>4. Home(lines, p.content) \in Nat
  <2>1. k + 1 \in DOMAIN more
    BY <1>2
  <2> QED
    BY <1>2, <1>3, <2>1, Zenon DEF Orderly
<1>5. Orderly(lines, pieces)
  <2>1. ASSUME NEW n \in DOMAIN pieces
        PROVE  n \in DOMAIN more /\ more[n] = pieces[n]
               /\ (n > 1 => more[n - 1] = pieces[n - 1]) /\ (n > 2 => more[n - 2] = pieces[n - 2])
    BY <1>2
  <2>2. \A n \in DOMAIN pieces : Home(lines, pieces[n].content) \in Nat
    BY <1>3, <2>1, Zenon DEF Orderly
  <2>3. Follows(lines, more)
    BY <1>3 DEF Orderly
  <2>4. ASSUME NEW n \in DOMAIN pieces, n > 1
        PROVE  /\ Home(lines, pieces[n - 1].content) <= Home(lines, pieces[n].content)
               /\ Home(lines, pieces[n - 1].content) = Home(lines, pieces[n].content) /\ Roomy
                    /\ Short(pieces[n - 1].content) /\ Short(pieces[n].content)
                  => n > 2 /\ Home(lines, pieces[n - 2].content) = Home(lines, pieces[n].content)
    BY <2>1, <2>3, <2>4, Zenon DEF Follows
  <2>5. Follows(lines, pieces)
    BY <2>4 DEF Follows
  <2> QED
    BY <2>2, <2>5 DEF Orderly
<1>6. ASSUME pieces # <<>> PROVE Continues(lines, pieces, p)
  <2>1. k > 0
    BY <1>1, <1>6
  <2>2. /\ (k + 1) - 1 = k /\ (k + 1) - 2 = k - 1 /\ k + 1 > 1 /\ k \in 1..k /\ k + 1 \in 1..(k + 1)
        /\ k + 1 > 2 => k > 1 /\ k - 1 \in 1..k
    BY <2>1
  <2>3. more[k] = Last(pieces) /\ (k + 1 > 2 => more[k - 1] = pieces[k - 1]) /\ k + 1 \in DOMAIN more
    BY <1>2, <2>2, Zenon
  <2>4. /\ Home(lines, more[(k + 1) - 1].content) <= Home(lines, more[k + 1].content)
        /\ Home(lines, more[(k + 1) - 1].content) = Home(lines, more[k + 1].content) /\ Roomy
             /\ Short(more[(k + 1) - 1].content) /\ Short(more[k + 1].content)
           => k + 1 > 2 /\ Home(lines, more[(k + 1) - 2].content) = Home(lines, more[k + 1].content)
    BY <1>3, <2>2, <2>3, Zenon DEF Orderly, Follows
  <2>5. Home(lines, Last(pieces).content) \in Nat
    BY <1>2, <1>5, <2>2, Zenon DEF Orderly
  <2>6. Len(more) > 1 /\ more[Len(more) - 1] = Last(pieces)
    BY <1>2, <2>2, <2>3, Zenon
  <2> QED
    BY <1>1, <1>2, <2>2, <2>3, <2>4, <2>5, <2>6, Zenon DEF Continues, more
<1> QED
  BY <1>2, <1>4, <1>5, <1>6, Zenon DEF more

LEMMA MergeStep ==
    ASSUME NEW lines, NEW pieces \in Seq(PieceOf(lines)), NEW p \in PieceOf(lines), NEW chunks,
           MergedFrom(lines, pieces, chunks), Orderly(lines, Append(pieces, p))
    PROVE  MergedFrom(lines, Append(pieces, p), Merge(chunks, p))
<1>1. PICK C, P, R, H, E :
        /\ C = ChunkOf(lines) /\ P = PieceOf(lines) /\ R = PiecesOver(H, E)
        /\ H = Headings(lines) /\ E = CharsIn(lines)
  OBVIOUS
<1>2. C \subseteq R /\ P \subseteq R
  BY <1>1 DEF ChunkOf, PieceOf
<1>3. p \in C /\ p \in R /\ p \in P /\ SizeOf(p.content) \in Nat /\ MinChars \in Nat
  BY <1>1, <1>2, PieceIsChunk, LimitAssumption
<1>4. chunks \in Seq(C) /\ chunks \in Seq(R) /\ pieces \in Seq(R)
  BY <1>1, <1>2, Subseqs DEF MergedFrom
<1>5. /\ PieceText(Append(pieces, p)) = PieceText(chunks) \o FlattenSeq(p.content)
      /\ PieceText(chunks) \in Seq(E) /\ FlattenSeq(p.content) \in Seq(E)
  <2>1. PieceText(Append(pieces, p)) = PieceText(pieces) \o FlattenSeq(p.content)
    BY <1>1, <1>3, <1>4, PieceTextSteps
  <2>2. PieceText(chunks) \in Seq(E) /\ FlattenSeq(p.content) \in Seq(E)
    BY <1>1, <1>3, <1>4, PieceTextSteps
  <2> QED
    BY <2>1, <2>2, Zenon DEF MergedFrom
<1>6. /\ \A i \in DOMAIN chunks : i > 1 => SizeOf(chunks[i].content) >= MinChars
      /\ chunks # <<>> => pieces # <<>> /\ Ends(lines, pieces, chunks)
  BY DEF MergedFrom
<1>7. PICK t \in Nat :
        /\ t = Home(lines, p.content) /\ Last(Append(pieces, p)) = p
        /\ pieces # <<>> => Continues(lines, pieces, p)
  <2>1. pieces \in Seq(P) /\ p \in P
    BY <1>1
  <2>2. Home(lines, p.content) \in Nat
    BY <2>1, LastFollows, Zenon
  <2>3. Last(Append(pieces, p)) = p
    BY <2>1, LastOf
  <2>4. pieces # <<>> => Continues(lines, pieces, p)
    BY <2>1, LastFollows, Zenon
  <2> QED
    BY <2>2, <2>3, <2>4
<1>8. Append(pieces, p) # <<>>
  <2>1. Len(Append(pieces, p)) = Len(pieces) + 1 /\ Len(pieces) \in Nat
    OBVIOUS
  <2>2. Len(<<>>) = 0
    OBVIOUS
  <2> QED
    BY <2>1, <2>2
<1> DEFINE new == Merge(chunks, p)
<1>9. CASE chunks # <<>> /\ SizeOf(p.content) < MinChars
  <2> DEFINE fr == Front(chunks)
             c == Last(chunks)
  <2>1. /\ fr \in Seq(C) /\ c \in C /\ chunks = Append(fr, c) /\ fr \in Seq(R) /\ c \in R
    BY <1>4, <1>9, FrontLast
  <2>2. new = Append(fr, [c EXCEPT !.content = @ \o p.content])
    BY <1>9, Zenon DEF Merge
  <2> HIDE DEF fr, c, new
  <2>3. PICK x : x = Joined(c, p) /\ new = Append(fr, x)
    <3>1. c = [heading |-> c.heading, content |-> c.content]
      BY <1>1, <2>1 DEF PiecesOver
    <3>2. \A y : [c EXCEPT !.content = y] = [heading |-> c.heading, content |-> y]
      BY <3>1
    <3> QED
      BY <2>2, <3>2, Zenon DEF Joined
  <2>8. /\ \A i \in DOMAIN c.content : /\ Begins(lines, c.content[i]) \in Nat
                                       /\ Begins(lines, c.content[i]) <= t
        /\ Roomy /\ t # Home(lines, c.content) =>
                /\ Home(lines, Last(pieces).content) # t
                /\ \A i \in DOMAIN c.content : Begins(lines, c.content[i]) # t
    <3>1. PICK s : s = Home(lines, Last(pieces).content)
      OBVIOUS
    <3>2. /\ \A i \in DOMAIN c.content : /\ Begins(lines, c.content[i]) \in Nat
                                         /\ Begins(lines, c.content[i]) <= s
          /\ Roomy /\ s # Home(lines, c.content) =>
                /\ Len(pieces) > 1 /\ Short(Last(pieces).content)
                /\ Home(lines, pieces[Len(pieces) - 1].content) # s
      BY <1>6, <1>9, <3>1, Zenon DEF Ends, c
    <3>3. /\ s \in Nat /\ s <= t
          /\ s = t /\ Roomy /\ Short(Last(pieces).content) /\ Short(p.content)
                => Home(lines, pieces[Len(pieces) - 1].content) = t
      BY <1>6, <1>9, <1>7, <3>1, Zenon DEF Continues
    <3>4. \A i \in DOMAIN c.content : Begins(lines, c.content[i]) <= t
      BY <3>2, <3>3
    <3>5. ASSUME Roomy, t # Home(lines, c.content) PROVE s # t
      <4>1. Short(p.content)
        BY <1>9 DEF Short
      <4> QED
        BY <3>2, <3>3, <3>5, <4>1, Zenon
    <3>6. s # t => \A i \in DOMAIN c.content : Begins(lines, c.content[i]) # t
      BY <3>2, <3>3
    <3> QED
      BY <3>1, <3>2, <3>4, <3>5, <3>6, Zenon
  <2>4. /\ x \in C
        /\ SizeOf(c.content) >= MinChars => SizeOf(x.content) >= MinChars
        /\ FlattenSeq(x.content) = FlattenSeq(c.content) \o FlattenSeq(p.content)
        /\ Home(lines, x.content) = Home(lines, c.content)
        /\ \A i \in DOMAIN x.content :
                \/ i \in DOMAIN c.content /\ Begins(lines, x.content[i]) = Begins(lines, c.content[i])
                \/ Begins(lines, x.content[i]) = t
    <3>1. c \in ChunkOf(lines)
      BY <1>1, <2>1
    <3>2. /\ Short(p.content)
          /\ Roomy /\ Home(lines, p.content) # Home(lines, c.content) =>
                \A i \in DOMAIN c.content : Begins(lines, c.content[i]) # Home(lines, p.content)
      BY <1>9, <1>7, <2>8, Zenon DEF Short
    <3>3. /\ x \in ChunkOf(lines)
          /\ SizeOf(c.content) >= MinChars => SizeOf(x.content) >= MinChars
          /\ FlattenSeq(x.content) = FlattenSeq(c.content) \o FlattenSeq(p.content)
          /\ Home(lines, x.content) = Home(lines, c.content)
          /\ \A i \in DOMAIN x.content :
                \/ i \in DOMAIN c.content /\ Begins(lines, x.content[i]) = Begins(lines, c.content[i])
                \/ Begins(lines, x.content[i]) = Home(lines, p.content)
      BY <2>3, <3>1, <3>2, Absorbs, Zenon
    <3> QED
      BY <1>1, <1>7, <3>3, Zenon
  <2>5. /\ new \in Seq(C) /\ Len(fr) \in Nat /\ Len(new) = Len(fr) + 1 /\ Len(chunks) = Len(fr) + 1
        /\ new[Len(fr) + 1] = x /\ chunks[Len(fr) + 1] = c
        /\ \A i \in 1..Len(fr) : new[i] = chunks[i]
    <3>1. /\ Append(fr, x) \in Seq(C) /\ Len(fr) \in Nat /\ Len(Append(fr, x)) = Len(fr) + 1
          /\ Append(fr, x)[Len(fr) + 1] = x /\ \A i \in 1..Len(fr) : Append(fr, x)[i] = fr[i]
      BY <2>1, <2>4, AppendOf
    <3>2. /\ Len(Append(fr, c)) = Len(fr) + 1 /\ Append(fr, c)[Len(fr) + 1] = c
          /\ \A i \in 1..Len(fr) : Append(fr, c)[i] = fr[i]
      BY <2>1, AppendOf
    <3> QED
      BY <2>1, <2>3, <3>1, <3>2, Zenon
  <2>6. ASSUME NEW i \in DOMAIN new, i > 1 PROVE SizeOf(new[i].content) >= MinChars
    <3>1. DOMAIN new = 1..(Len(fr) + 1) /\ DOMAIN chunks = 1..(Len(fr) + 1)
      BY <1>4, <2>5
    <3>2. SizeOf(chunks[i].content) >= MinChars
      BY <1>6, <2>6, <3>1
    <3>3. CASE i \in 1..Len(fr)
      BY <2>5, <3>2, <3>3
    <3>4. CASE i = Len(fr) + 1
      BY <2>4, <2>5, <3>2, <3>4
    <3> QED
      BY <2>5, <3>1, <3>3, <3>4
  <2>7. PieceText(new) = PieceText(chunks) \o FlattenSeq(p.content)
    <3>1. x \in R
      BY <1>2, <2>4
    <3>2. PieceText(Append(fr, x)) = PieceText(fr) \o FlattenSeq(x.content)
      BY <1>1, <2>1, <3>1, PieceTextSteps
    <3>3. /\ PieceText(Append(fr, c)) = PieceText(fr) \o FlattenSeq(c.content)
          /\ PieceText(fr) \in Seq(E) /\ FlattenSeq(c.content) \in Seq(E)
      BY <1>1, <2>1, PieceTextSteps
    <3>4. PICK s \in Seq(E), v \in Seq(E), u \in Seq(E) :
                s = PieceText(fr) /\ v = FlattenSeq(c.content) /\ u = FlattenSeq(p.content)
      BY <1>5, <3>3
    <3>5. (s \o v) \o u = s \o (v \o u)
      BY ConcatAssociative
    <3> QED
      BY <2>1, <2>3, <2>4, <3>2, <3>3, <3>4, <3>5
  <2>9. Ends(lines, Append(pieces, p), new)
    <3>1. Last(new) = x
      BY <2>3, <2>5 DEF Last
    <3>2. /\ Len(Append(pieces, p)) > 1
          /\ Append(pieces, p)[Len(Append(pieces, p)) - 1] = Last(pieces)
      BY <1>6, <1>9, <1>7, Zenon DEF Continues
    <3>3. ASSUME NEW i \in DOMAIN x.content
          PROVE  Begins(lines, x.content[i]) \in Nat /\ Begins(lines, x.content[i]) <= t
      <4>1. t <= t
        OBVIOUS
      <4> QED
        BY <2>4, <2>8, <4>1, Zenon
    <3>4. Short(p.content)
      BY <1>9 DEF Short
    <3> HIDE DEF new
    <3> QED
      BY <1>7, <2>4, <2>8, <3>1, <3>2, <3>3, <3>4, Zenon DEF Ends
  <2> QED
    BY <1>1, <1>5, <1>8, <2>5, <2>6, <2>7, <2>9 DEF MergedFrom, new
<1>10. CASE ~(chunks # <<>> /\ SizeOf(p.content) < MinChars)
  <2>1. new = Append(chunks, p)
    BY <1>10, Zenon DEF Merge
  <2>2. /\ Append(chunks, p) \in Seq(C) /\ Len(chunks) \in Nat /\ Len(Append(chunks, p)) = Len(chunks) + 1
        /\ Append(chunks, p)[Len(chunks) + 1] = p
        /\ \A i \in 1..Len(chunks) : Append(chunks, p)[i] = chunks[i]
    BY <1>3, <1>4, AppendOf
  <2>3. PieceText(Append(chunks, p)) = PieceText(chunks) \o FlattenSeq(p.content)
    BY <1>1, <1>3, <1>4, PieceTextSteps
  <2> HIDE DEF new
  <2>4. ASSUME NEW i \in DOMAIN new, i > 1 PROVE SizeOf(new[i].content) >= MinChars
    <3>1. DOMAIN new = 1..(Len(chunks) + 1) /\ DOMAIN chunks = 1..Len(chunks)
      BY <1>4, <2>1, <2>2
    <3>2. CASE i \in 1..Len(chunks)
      BY <1>6, <2>1, <2>2, <2>4, <3>1, <3>2
    <3>3. CASE i = Len(chunks) + 1
      <4>1. chunks # <<>>
        <5>1. Len(chunks) # 0
          BY <2>2, <2>4, <3>3
        <5> QED
          BY <5>1
      <4>2. SizeOf(p.content) >= MinChars
        BY <1>3, <1>10, <4>1
      <4> QED
        BY <2>1, <2>2, <3>3, <4>2
    <3> QED
      BY <2>2, <3>1, <3>2, <3>3
  <2>5. Ends(lines, Append(pieces, p), new)
    <3>1. Last(new) = p
      BY <1>3, <1>4, <2>1, LastOf
    <3>2. ASSUME NEW i \in DOMAIN p.content
          PROVE  Begins(lines, p.content[i]) \in Nat /\ Begins(lines, p.content[i]) <= t
      <4>1. Begins(lines, p.content[i]) = t
        BY <1>7, PieceIsChunk
      <4> QED
        BY <4>1
    <3> QED
      BY <1>7, <3>1, <3>2, Zenon DEF Ends
  <2> QED
    BY <1>1, <1>5, <1>8, <2>1, <2>2, <2>3, <2>4, <2>5 DEF MergedFrom, new
<1> QED
  BY <1>9, <1>10

\* What the chunks of a corpus are meant to keep.
Keeps(lines, chunks) ==
    /\ KeepsEveryChar(lines, chunks)
    /\ \A i \in DOMAIN chunks :
        /\ UnderItsHeading(lines, chunks[i])
        /\ i > 1 => SizeOf(chunks[i].content) >= MinChars
        /\ SizeOf(chunks[i].content) > MaxChars => Len(Last(chunks[i].content)) < MinChars

\* The chunker keeps all of every text, each chunk under the heading of the section
\* it begins in and, where two short pieces fit into one chunk, with no more than one
\* short piece of any other section; none but the first is short, and none is over
\* the limit but for a short paragraph at its end.
THEOREM ChunksKeep ==
    ASSUME NEW lines, IsText(lines) PROVE Keeps(lines, ChunkMarkdown(lines))
<1> DEFINE sections == SplitSections(lines)
           pieces == AllPieces(sections)
           chunks == ChunkMarkdown(lines)
           run(ps) == MergeFold!Folded(<<>>, ps)
<1>1. PICK P : P = PieceOf(lines)
  OBVIOUS
<1>2. Sectioned(lines, Len(lines), sections)
  BY SplitSectionsKeeps
<1> HIDE DEF sections
<1>3. Orderly(lines, pieces)
  BY <1>2, AllPiecesFollow DEF Orderly, Sectioned
<1>4. pieces \in Seq(P) /\ PieceText(pieces) = SectionText(sections)
  BY <1>1, <1>2, AllPiecesKeep DEF Sectioned
<1>5. chunks = run(pieces)
  BY MergeFolds, Zenon DEF ChunkMarkdown, MergeShortPieces, AllPieces, sections
<1> HIDE DEF pieces
<1> DEFINE T == {ps \in Seq(P) : Orderly(lines, ps) => MergedFrom(lines, ps, run(ps))}
<1>6. <<>> \in T
  <2>1. PICK C : C = ChunkOf(lines)
    OBVIOUS
  <2>2. PICK e \in Seq(C) : e = <<>> /\ DOMAIN e = {} /\ e \in Seq(P)
    <3>1. <<>> \in Seq(C) /\ DOMAIN <<>> = {} /\ <<>> \in Seq(P)
      OBVIOUS
    <3> QED
      BY <3>1, Zenon
  <2>3. MergedFrom(lines, e, e)
    BY <2>1, <2>2, Zenon DEF MergedFrom
  <2>4. run(<<>>) = <<>>
    BY MergeFold!FoldLeftEmpty
  <2> QED
    BY <2>2, <2>3, <2>4
<1>7. ASSUME NEW ps \in Seq(P), NEW p \in P, ps \in T PROVE Append(ps, p) \in T
  <2>1. run(Append(ps, p)) = Merge(run(ps), p)
    BY MergeFold!FoldLeftAppend
  <2>2. Orderly(lines, ps) => MergedFrom(lines, ps, run(ps))
    BY <1>7
  <2> HIDE DEF run
  <2>3. Orderly(lines, Append(ps, p)) => MergedFrom(lines, Append(ps, p), Merge(run(ps), p))
    <3>1. Orderly(lines, Append(ps, p)) => Orderly(lines, ps)
      BY LastFollows
    <3> QED
      BY <1>1, <2>2, <3>1, MergeStep
  <2>4. Append(ps, p) \in Seq(P)
    BY AppendOf
  <2> QED
    BY <2>1, <2>3, <2>4, Zenon
<1> HIDE DEF T
<1>8. pieces \in T
  BY <1>4, <1>6, <1>7, SeqInduction
<1> HIDE DEF run
<1>9. MergedFrom(lines, pieces, chunks)
  BY <1>5, <1>8, <1>3, Zenon DEF T
<1> HIDE DEF chunks
<1>10. KeepsEveryChar(lines, chunks)
  <2>1. DOMAIN lines = 1..Len(lines)
    <3>1. PICK L : lines \in Seq(L)
      BY DEF IsText
    <3> QED
      BY <3>1
  <2>2. FlattenSeq(CharsUpTo(lines, Len(lines))) = FlattenSeq([i \in DOMAIN lines |-> CharsOf(lines[i])])
    BY <2>1, Zenon DEF CharsUpTo
  <2>3. PieceText(chunks) = FlattenSeq([i \in DOMAIN chunks |-> FlattenSeq(chunks[i].content)])
    BY Zenon DEF PieceText, Contents
  <2>4. PieceText(chunks) = FlattenSeq(CharsUpTo(lines, Len(lines)))
    BY <1>2, <1>4, <1>9 DEF MergedFrom, Sectioned
  <2> QED
    BY <2>2, <2>3, <2>4, Zenon DEF KeepsEveryChar
<1>11. ASSUME NEW i \in DOMAIN chunks
       PROVE  /\ UnderItsHeading(lines, chunks[i])
              /\ i > 1 => SizeOf(chunks[i].content) >= MinChars
              /\ SizeOf(chunks[i].content) > MaxChars => Len(Last(chunks[i].content)) < MinChars
  <2>1. PICK C : C = ChunkOf(lines) /\ chunks \in Seq(C)
    BY <1>9 DEF MergedFrom
  <2>2. PICK c \in C : c = chunks[i]
    BY <2>1
  <2>3. /\ UnderItsHeading(lines, c)
        /\ SizeOf(c.content) > MaxChars => Len(Last(c.content)) < MinChars
    BY <2>1 DEF ChunkOf
  <2>4. i > 1 => SizeOf(chunks[i].content) >= MinChars
    BY <1>9 DEF MergedFrom
  <2> QED
    BY <2>2, <2>3, <2>4, Zenon
<1>12. Keeps(lines, chunks)
  BY <1>10, <1>11 DEF Keeps
<1> QED
  BY <1>12 DEF chunks

-----------------------------------------------------------------------------
(* Sorting                                                                 *)

Keyed(S, key) == \A x \in S : key[x] \in Int \X Int
IsFirst(x, T, key) == x \in T /\ \A y \in T : ~Before(key[y], key[x])

LEMMA BeforeOrders ==
    /\ \A a \in Int \X Int : ~Before(a, a)
    /\ \A a, b, c \in Int \X Int : Before(a, b) /\ ~Before(c, b) => ~Before(c, a)
    /\ \A a, b, c \in Int \X Int : ~Before(b, a) /\ ~Before(c, b) => ~Before(c, a)
    /\ \A a, b \in Int \X Int : Before(a, b) => ~Before(b, a)
  BY DEF Before

\* A finite set that is not empty has a first element.
LEMMA FirstExists ==
    ASSUME NEW S, NEW key, Keyed(S, key), IsFiniteSet(S), S # {}
    PROVE  \E x : IsFirst(x, S, key)
<1> DEFINE N == Cardinality(S)
           Has(T) == T = {} \/ \E x : IsFirst(x, T, key)
           P == {k \in 0..N : \A T \in SUBSET S : Cardinality(T) = k => Has(T)}
<1>1. N \in Nat
  BY FS_CardinalityType
<1>2. \A T \in SUBSET S : IsFiniteSet(T)
  BY FS_Subset
<1>3. 0 \in P
  <2>1. \A T \in SUBSET S : Cardinality(T) = 0 => T = {}
    BY <1>2, FS_EmptySet
  <2> QED
    BY <1>1, <2>1
<1>4. ASSUME NEW k \in 1..N, k - 1 \in P PROVE k \in P
  <2> SUFFICES ASSUME NEW T \in SUBSET S, Cardinality(T) = k, T # {}
               PROVE  \E x : IsFirst(x, T, key)
    BY <1>1
  <2>1. PICK x \in T : TRUE
    OBVIOUS
  <2>2. T \ {x} \in SUBSET S /\ Cardinality(T \ {x}) = k - 1
    BY <1>2, <2>1, FS_RemoveElement
  <2>3. CASE T \ {x} = {}
    <3>1. key[x] \in Int \X Int /\ T = {x}
      BY <2>1, <2>3 DEF Keyed
    <3>2. IsFirst(x, T, key)
      BY <3>1, BeforeOrders DEF IsFirst
    <3> QED
      BY <3>2
  <2>4. CASE T \ {x} # {}
    <3>1. PICK z : IsFirst(z, T \ {x}, key)
      BY <1>4, <2>2, <2>4
    <3>2. \A y \in T : key[y] \in Int \X Int
      BY DEF Keyed
    <3>3. z \in T /\ \A y \in T : y = x \/ ~Before(key[y], key[z])
      BY <3>1 DEF IsFirst
    <3>4. CASE Before(key[x], key[z])
      <4>1. \A y \in T : ~Before(key[y], key[x])
        BY <2>1, <3>2, <3>3, <3>4, BeforeOrders
      <4> QED
        BY <2>1, <4>1 DEF IsFirst
    <3>5. CASE ~Before(key[x], key[z])
      <4>1. \A y \in T : ~Before(key[y], key[z])
        BY <3>3, <3>5
      <4> QED
        BY <3>3, <4>1 DEF IsFirst
    <3> QED
      BY <3>4, <3>5
  <2> QED
    BY <2>3, <2>4
<1> HIDE DEF P
<1>5. N \in P
  BY <1>1, <1>3, <1>4, UpTo
<1> QED
  BY <1>5 DEF P

\* The first elements, one after another.
Firsts(f, n, S, key) ==
    f = [k \in 0..n |-> IF k = 0 THEN <<>>
                        ELSE LET s == f[k - 1] IN Append(s, FirstOf(S \ ToSet(s), key))]

LEMMA FirstsExist ==
    ASSUME NEW S, NEW key, NEW n \in Nat PROVE \E f : Firsts(f, n, S, key)
<1> DEFINE Next1(s) == Append(s, FirstOf(S \ ToSet(s), key))
           P == {k \in 0..n : \E f : f = [j \in 0..k |-> IF j = 0 THEN <<>> ELSE Next1(f[j - 1])]}
<1>1. 0 \in P
  <2> DEFINE f == [j \in 0..0 |-> <<>>]
  <2>1. f = [j \in 0..0 |-> IF j = 0 THEN <<>> ELSE Next1(f[j - 1])]
    OBVIOUS
  <2>2. 0 \in 0..n
    OBVIOUS
  <2> HIDE DEF f
  <2> QED
    BY <2>1, <2>2
<1>2. ASSUME NEW k \in 1..n, k - 1 \in P PROVE k \in P
  <2> HIDE DEF Next1
  <2>1. PICK f : f = [j \in 0..(k - 1) |-> IF j = 0 THEN <<>> ELSE Next1(f[j - 1])]
    BY <1>2
  <2> DEFINE g == [j \in 0..k |-> IF j = 0 THEN <<>> ELSE Next1(f[j - 1])]
  <2>2. \A j \in 0..(k - 1) : f[j] = IF j = 0 THEN <<>> ELSE Next1(f[j - 1])
    BY <2>1
  <2>3. \A j \in 0..(k - 1) : g[j] = f[j]
    BY <2>2
  <2>4. \A j \in 0..k : j # 0 => j - 1 \in 0..(k - 1)
    OBVIOUS
  <2>5. \A j \in 0..k : (IF j = 0 THEN <<>> ELSE Next1(f[j - 1]))
                        = IF j = 0 THEN <<>> ELSE Next1(g[j - 1])
    <3> HIDE DEF g
    <3> QED
      BY <2>3, <2>4
  <2>6. g = [j \in 0..k |-> IF j = 0 THEN <<>> ELSE Next1(g[j - 1])]
    BY <2>5, Zenon
  <2> HIDE DEF g
  <2>7. k \in 0..n
    OBVIOUS
  <2> QED
    BY <2>6, <2>7
<1> HIDE DEF P
<1>3. n \in P
  BY <1>1, <1>2, UpTo
<1> QED
  BY <1>3 DEF P, Firsts

\* A sequence that holds each element of a set once.
Once(s) == \A i, j \in DOMAIN s : s[i] = s[j] => i = j
Lists(s, S) == s \in Seq(S) /\ ToSet(s) = S /\ Once(s)
Sorted(s, key) == \A i, j \in DOMAIN s : i < j => ~Before(key[s[j]], key[s[i]])

\* What has been taken is in order, and before what is left.
Taken(s, k, S, key) ==
    /\ s \in Seq(S) /\ Len(s) = k /\ Once(s) /\ Sorted(s, key)
    /\ Cardinality(S \ ToSet(s)) = Cardinality(S) - k
    /\ \A i \in DOMAIN s : \A y \in S \ ToSet(s) : ~Before(key[y], key[s[i]])

LEMMA TakenNext ==
    ASSUME NEW S, NEW key, Keyed(S, key), IsFiniteSet(S), NEW k \in 1..Cardinality(S),
           NEW s, Taken(s, k - 1, S, key)
    PROVE  Taken(Append(s, FirstOf(S \ ToSet(s), key)), k, S, key)
<1> DEFINE R == S \ ToSet(s)
           x == FirstOf(R, key)
           t == Append(s, x)
<1>1. Cardinality(S) \in Nat /\ IsFiniteSet(R)
  BY FS_CardinalityType, FS_Subset
<1>2. Cardinality(R) = Cardinality(S) - (k - 1) /\ s \in Seq(S) /\ Len(s) = k - 1 /\ Once(s) /\ Sorted(s, key)
      /\ \A i \in DOMAIN s : \A y \in R : ~Before(key[y], key[s[i]])
  BY DEF Taken
<1>3. R # {}
  BY <1>1, <1>2, FS_EmptySet
<1>4. IsFirst(x, R, key)
  <2>1. Keyed(R, key)
    BY DEF Keyed
  <2>2. \E z \in R : \A y \in R : ~Before(key[y], key[z])
    BY <1>1, <1>3, <2>1, FirstExists DEF IsFirst
  <2> HIDE DEF R
  <2> QED
    BY <2>2 DEF FirstOf, IsFirst
<1>5. x \in S /\ x \notin ToSet(s)
  BY <1>4 DEF IsFirst
<1> HIDE DEF x
<1>6. /\ t \in Seq(S) /\ Len(t) = k /\ DOMAIN t = 1..k /\ t[k] = x /\ DOMAIN s = 1..(k - 1)
      /\ \A i \in 1..(k - 1) : t[i] = s[i]
  BY <1>2, <1>5
<1> HIDE DEF t
<1>7. ToSet(s) = {s[i] : i \in 1..(k - 1)} /\ ToSet(t) = {t[i] : i \in 1..k}
  BY <1>6 DEF ToSet
<1>8. ToSet(t) = ToSet(s) \cup {x}
  <2>1. \A y : y \in ToSet(t) <=> \E i \in 1..k : y = t[i]
    BY <1>7
  <2>2. \A y : y \in ToSet(s) <=> \E i \in 1..(k - 1) : y = s[i]
    BY <1>7
  <2>3. k \in 1..k /\ \A i \in 1..k : i = k \/ i \in 1..(k - 1)
    OBVIOUS
  <2>4. \A i \in 1..(k - 1) : i \in 1..k
    OBVIOUS
  <2> QED
    BY <1>6, <2>1, <2>2, <2>3, <2>4
<1>9. Once(t)
  <2>1. \A i \in 1..(k - 1) : s[i] # x
    BY <1>5, <1>7
  <2>2. \A i, j \in 1..(k - 1) : s[i] = s[j] => i = j
    BY <1>2, <1>6 DEF Once
  <2>3. \A i \in 1..k : i = k \/ i \in 1..(k - 1)
    OBVIOUS
  <2> QED
    BY <1>6, <2>1, <2>2, <2>3 DEF Once
<1>10. Sorted(t, key)
  <2> SUFFICES ASSUME NEW i \in 1..k, NEW j \in 1..k, i < j PROVE ~Before(key[t[j]], key[t[i]])
    BY <1>6 DEF Sorted
  <2>1. i \in 1..(k - 1) /\ (j = k \/ j \in 1..(k - 1))
    OBVIOUS
  <2>2. CASE j = k
    BY <1>2, <1>4, <1>6, <2>1, <2>2 DEF IsFirst
  <2>3. CASE j \in 1..(k - 1)
    BY <1>2, <1>6, <2>1, <2>3 DEF Sorted
  <2> QED
    BY <2>1, <2>2, <2>3
<1>11. S \ ToSet(t) = R \ {x}
  BY <1>8
<1>12. Cardinality(S \ ToSet(t)) = Cardinality(S) - k
  <2>1. Cardinality(R \ {x}) = Cardinality(R) - 1
    BY <1>1, <1>4, FS_RemoveElement DEF IsFirst
  <2>2. PICK m \in Nat : m = Cardinality(S)
    BY <1>1
  <2>3. Cardinality(R \ {x}) = (m - (k - 1)) - 1
    BY <1>2, <2>1, <2>2
  <2>4. (m - (k - 1)) - 1 = m - k
    BY <2>2
  <2> QED
    BY <1>11, <2>2, <2>3, <2>4, Zenon
<1>13. ASSUME NEW i \in DOMAIN t, NEW y \in S \ ToSet(t) PROVE ~Before(key[y], key[t[i]])
  <2>1. y \in R
    BY <1>11
  <2>2. i = k \/ i \in 1..(k - 1)
    BY <1>6
  <2> QED
    BY <1>2, <1>4, <1>6, <2>1, <2>2 DEF IsFirst
<1>14. Taken(t, k, S, key)
  BY <1>6, <1>9, <1>10, <1>12, <1>13 DEF Taken
<1> QED
  BY <1>14 DEF t, x, R

\* The elements in order are all of them, once.
LEMMA InOrderSorts ==
    ASSUME NEW S, NEW key, Keyed(S, key), IsFiniteSet(S)
    PROVE  Lists(InOrder(S, key), S) /\ Sorted(InOrder(S, key), key)
<1> DEFINE N == Cardinality(S)
           f == CHOOSE f : Firsts(f, N, S, key)
<1>1. N \in Nat
  BY FS_CardinalityType
<1>2. Firsts(f, N, S, key)
  BY <1>1, FirstsExist
<1>3. InOrder(S, key) = f[N]
  BY Zenon DEF InOrder, Firsts
<1> HIDE DEF f
<1>4. /\ f[0] = <<>>
      /\ \A k \in 1..N : f[k] = Append(f[k - 1], FirstOf(S \ ToSet(f[k - 1]), key))
  <2>1. 0 \in 0..N /\ \A k \in 1..N : k \in 0..N /\ k # 0
    BY <1>1
  <2>2. \A k \in 0..N : f[k] = IF k = 0 THEN <<>>
                               ELSE LET s == f[k - 1] IN Append(s, FirstOf(S \ ToSet(s), key))
    BY <1>2, Zenon DEF Firsts
  <2> QED
    BY <2>1, <2>2
<1> DEFINE P == {k \in 0..N : Taken(f[k], k, S, key)}
<1>5. 0 \in P
  <2>1. <<>> \in Seq(S) /\ Len(<<>>) = 0 /\ DOMAIN <<>> = {}
    OBVIOUS
  <2>2. ToSet(<<>>) = {}
    BY <2>1 DEF ToSet
  <2>3. S \ {} = S
    OBVIOUS
  <2>4. Cardinality(S \ ToSet(<<>>)) = Cardinality(S) - 0
    <3>1. Cardinality(S \ ToSet(<<>>)) = Cardinality(S)
      BY <2>2, <2>3, Zenon
    <3> QED
      BY <1>1, <3>1
  <2>5. Once(<<>>) /\ Sorted(<<>>, key)
    BY <2>1 DEF Once, Sorted
  <2>6. Taken(<<>>, 0, S, key)
    BY <2>1, <2>4, <2>5 DEF Taken
  <2> QED
    BY <1>1, <1>4, <2>6
<1>6. ASSUME NEW k \in 1..N, k - 1 \in P PROVE k \in P
  <2>1. Taken(f[k - 1], k - 1, S, key)
    BY <1>6
  <2>2. PICK s : s = f[k - 1]
    OBVIOUS
  <2>3. Taken(Append(s, FirstOf(S \ ToSet(s), key)), k, S, key)
    BY <2>1, <2>2, TakenNext
  <2>4. Taken(f[k], k, S, key)
    BY <1>4, <2>2, <2>3
  <2> QED
    BY <1>1, <2>4
<1> HIDE DEF P
<1>7. N \in P
  BY <1>1, <1>5, <1>6, UpTo
<1>8. Taken(f[N], N, S, key)
  BY <1>7 DEF P
<1>9. S \ ToSet(f[N]) = {}
  <2>1. Cardinality(S \ ToSet(f[N])) = 0 /\ IsFiniteSet(S \ ToSet(f[N]))
    BY <1>1, <1>8, FS_Subset DEF Taken
  <2> QED
    BY <2>1, FS_EmptySet
<1>10. ToSet(f[N]) \subseteq S
  BY <1>8 DEF Taken, ToSet
<1> QED
  BY <1>3, <1>8, <1>9, <1>10 DEF Taken, Lists

Rises(e) == \A i, j \in DOMAIN e : i < j => e[i] < e[j]

LEMMA AscendingLists ==
    ASSUME NEW S \in SUBSET Int, IsFiniteSet(S)
    PROVE  Lists(Ascending(S), S) /\ Rises(Ascending(S))
<1> DEFINE key == [n \in S |-> <<n, 0>>]
           s == Ascending(S)
<1>1. Keyed(S, key)
  BY DEF Keyed
<1>2. s = InOrder(S, key)
  BY DEF Ascending
<1>3. \A n \in S : key[n] = <<n, 0>>
  OBVIOUS
<1> HIDE DEF s, key
<1>4. Lists(s, S) /\ Sorted(s, key)
  BY <1>1, <1>2, InOrderSorts
<1>5. \A i \in DOMAIN s : s[i] \in S /\ s[i] \in Int
  <2>1. s \in Seq(S)
    BY <1>4 DEF Lists
  <2>2. \A i \in DOMAIN s : s[i] \in S
    BY <2>1, LenProperties, ElementOfSeq
  <2> QED
    BY <2>2
<1>6. ASSUME NEW i \in DOMAIN s, NEW j \in DOMAIN s, i < j PROVE s[i] < s[j]
  <2>1. ~Before(<<s[j], 0>>, <<s[i], 0>>)
    BY <1>3, <1>4, <1>5, <1>6 DEF Sorted
  <2>2. ~(s[j] < s[i])
    BY <2>1 DEF Before
  <2>3. s[i] # s[j]
    <3>1. DOMAIN s \in SUBSET Nat
      BY <1>4 DEF Lists
    <3>2. i # j
      BY <1>6, <3>1
    <3> QED
      BY <1>4, <3>2 DEF Lists, Once
  <2> QED
    BY <1>5, <2>2, <2>3
<1>7. Rises(s)
  BY <1>6 DEF Rises
<1> QED
  BY <1>4, <1>7 DEF s

\* c has the elements of s at the positions at.
Selects(c, at, s, P) ==
    /\ Lists(at, P) /\ DOMAIN at = 1..Len(at) /\ Len(at) \in Nat /\ Len(c) = Len(at)
    /\ DOMAIN c = DOMAIN at
    /\ \A k \in DOMAIN at : at[k] \in P /\ c[k] = s[at[k]]
    /\ \A p \in P : \E k \in DOMAIN at : at[k] = p

LEMMA ChosenSelects ==
    ASSUME NEW E, NEW s \in Seq(E), NEW P \in SUBSET DOMAIN s
    PROVE  Chosen(s, P) \in Seq(E) /\ \E at : Selects(Chosen(s, P), at, s, P)
<1> DEFINE at == Ascending(P)
           c == [k \in DOMAIN at |-> s[at[k]]]
<1>1. Chosen(s, P) = c
  BY DEF Chosen
<1>2. P \in SUBSET Int /\ IsFiniteSet(P)
  <2>1. DOMAIN s = 1..Len(s) /\ Len(s) \in Nat
    OBVIOUS
  <2>2. IsFiniteSet(1..Len(s))
    BY <2>1, FS_Interval
  <2> QED
    BY <2>1, <2>2, FS_Subset
<1> HIDE DEF at
<1>3. Lists(at, P)
  BY <1>2, AscendingLists DEF at
<1>4. at \in Seq(P) /\ ToSet(at) = P /\ DOMAIN at = 1..Len(at) /\ Len(at) \in Nat
  BY <1>3 DEF Lists
<1>5. \A k \in DOMAIN at : at[k] \in P /\ s[at[k]] \in E
  BY <1>4
<1>6. c \in Seq(E) /\ DOMAIN c = DOMAIN at /\ Len(c) = Len(at)
  BY <1>4, <1>5
<1>7. \A k \in DOMAIN at : c[k] = s[at[k]]
  OBVIOUS
<1>8. \A p \in P : \E k \in DOMAIN at : at[k] = p
  BY <1>4 DEF ToSet
<1> HIDE DEF c
<1>9. Selects(c, at, s, P)
  BY <1>3, <1>4, <1>5, <1>6, <1>7, <1>8 DEF Selects
<1> QED
  BY <1>1, <1>6, <1>9

-----------------------------------------------------------------------------
(* The lines of a page                                                     *)

\* w is in this element of a sequence of sequences.
At(w, gs, g) == g \in DOMAIN gs /\ w \in ToSet(gs[g])
Apart(gs) == \A g, h : \A w : At(w, gs, g) /\ At(w, gs, h) => g = h

\* Groups that are not empty, that have the elements of T, each in one group.
Parts(gs, T) ==
    /\ gs \in Seq(Seq(T)) /\ Apart(gs)
    /\ \A g \in DOMAIN gs : gs[g] # <<>>
    /\ \A w \in T : \E g : At(w, gs, g)

LEMMA WithLast ==
    ASSUME NEW X, NEW s \in Seq(X), s # <<>>, NEW x \in X
    PROVE  /\ Append(Front(s), x) \in Seq(X) /\ DOMAIN Append(Front(s), x) = DOMAIN s
           /\ Len(s) \in DOMAIN s /\ Append(Front(s), x)[Len(s)] = x
           /\ Last(s) = s[Len(s)] /\ Last(s) \in X
           /\ \A i \in DOMAIN s : i # Len(s) => Append(Front(s), x)[i] = s[i]
<1> DEFINE f == Front(s)
           t == Append(f, x)
<1>1. Len(s) \in Nat /\ Len(s) # 0 /\ DOMAIN s = 1..Len(s) /\ Len(s) \in DOMAIN s
  OBVIOUS
<1>2. f \in Seq(X) /\ Len(f) = Len(s) - 1 /\ \A i \in 1..(Len(s) - 1) : f[i] = s[i]
  <2>1. f = SubSeq(s, 1, Len(s) - 1)
    BY DEF Front
  <2>2. \A i \in 1..(Len(s) - 1) : i \in 1..Len(s) /\ s[i] \in X /\ 1 + i - 1 = i
    BY <1>1
  <2> QED
    BY <1>1, <2>1, <2>2
<1> HIDE DEF f
<1>3. t \in Seq(X) /\ Len(t) = Len(s) /\ t[Len(s)] = x /\ \A i \in 1..(Len(s) - 1) : t[i] = f[i]
  <2>0. Len(f) \in Nat /\ Len(s) = Len(f) + 1 /\ Len(s) - 1 = Len(f)
    BY <1>1, <1>2
  <2>1. PICK n \in Nat : n = Len(f) /\ Len(s) = n + 1 /\ Len(s) - 1 = n
    BY <2>0
  <2>2. t \in Seq(X) /\ Len(t) = n + 1 /\ t[n + 1] = x /\ \A i \in 1..n : t[i] = f[i]
    BY <1>2, <2>1
  <2> QED
    BY <2>1, <2>2
<1> HIDE DEF t
<1>4. DOMAIN t = DOMAIN s
  BY <1>1, <1>3
<1>5. \A i \in DOMAIN s : i # Len(s) => t[i] = s[i]
  BY <1>1, <1>2, <1>3
<1>6. Last(s) = s[Len(s)] /\ Last(s) \in X
  BY <1>1 DEF Last
<1>7. /\ t \in Seq(X) /\ DOMAIN t = DOMAIN s
      /\ Len(s) \in DOMAIN s /\ t[Len(s)] = x
      /\ Last(s) = s[Len(s)] /\ Last(s) \in X
      /\ \A i \in DOMAIN s : i # Len(s) => t[i] = s[i]
  BY <1>1, <1>3, <1>4, <1>5, <1>6
<1> QED
  BY <1>7, Zenon DEF t, f

LEMMA AppendHas ==
    ASSUME NEW X, NEW s \in Seq(X), NEW x \in X
    PROVE  /\ Append(s, x) \in Seq(X) /\ Append(s, x) # <<>>
           /\ Len(s) + 1 \in DOMAIN Append(s, x) /\ Append(s, x)[Len(s) + 1] = x
           /\ \A i \in DOMAIN s : i \in DOMAIN Append(s, x) /\ i # Len(s) + 1 /\ Append(s, x)[i] = s[i]
           /\ \A i \in DOMAIN Append(s, x) : i = Len(s) + 1 \/ i \in DOMAIN s
           /\ ToSet(Append(s, x)) = ToSet(s) \cup {x}
<1> DEFINE t == Append(s, x)
<1>1. /\ t \in Seq(X) /\ t # <<>>
      /\ Len(s) + 1 \in DOMAIN t /\ t[Len(s) + 1] = x
      /\ \A i \in DOMAIN s : i \in DOMAIN t /\ i # Len(s) + 1 /\ t[i] = s[i]
      /\ \A i \in DOMAIN t : i = Len(s) + 1 \/ i \in DOMAIN s
  OBVIOUS
<1> HIDE DEF t
<1>2. ToSet(t) = ToSet(s) \cup {x}
  <2>1. \A y : y \in ToSet(t) <=> \E i \in DOMAIN t : y = t[i]
    BY DEF ToSet
  <2>2. \A y : y \in ToSet(s) <=> \E i \in DOMAIN s : y = s[i]
    BY DEF ToSet
  <2>3. \A y \in ToSet(t) : y \in ToSet(s) \cup {x}
    <3> SUFFICES ASSUME NEW i \in DOMAIN t PROVE t[i] = x \/ t[i] \in ToSet(s)
      BY <2>1
    <3> QED
      BY <1>1, <2>2
  <2>4. \A y \in ToSet(s) \cup {x} : y \in ToSet(t)
    BY <1>1, <2>1, <2>2, Zenon
  <2> QED
    BY <2>3, <2>4, Zenon
<1> QED
  BY <1>1, <1>2 DEF t

\* A new element in a group of its own.
LEMMA PartsNew ==
    ASSUME NEW T, NEW gs, Parts(gs, T), NEW w, w \notin T
    PROVE  Parts(Append(gs, <<w>>), T \cup {w})
<1> DEFINE U == T \cup {w}
           hs == Append(gs, <<w>>)
<1>1. PICK X : X = Seq(U)
  OBVIOUS
<1>2. gs \in Seq(X) /\ <<w>> \in X /\ ToSet(<<w>>) = {w} /\ <<w>> # <<>>
  <2>1. \A s \in Seq(T) : s \in Seq(U)
    OBVIOUS
  <2>2. gs \in Seq(Seq(U))
    BY <2>1 DEF Parts
  <2>3. <<w>> \in Seq(U) /\ <<w>> # <<>>
    OBVIOUS
  <2>4. ToSet(<<w>>) = {w}
    BY DEF ToSet
  <2> QED
    BY <1>1, <2>2, <2>3, <2>4
<1>3. /\ hs \in Seq(X)
      /\ Len(gs) + 1 \in DOMAIN hs /\ hs[Len(gs) + 1] = <<w>>
      /\ \A i \in DOMAIN gs : i \in DOMAIN hs /\ i # Len(gs) + 1 /\ hs[i] = gs[i]
      /\ \A i \in DOMAIN hs : i = Len(gs) + 1 \/ i \in DOMAIN gs
  BY <1>2, AppendHas
<1> HIDE DEF hs
<1>4. \A g : \A v : At(v, gs, g) => v \in T
  BY DEF At, ToSet, Parts
<1>5. \A g : \A v : At(v, hs, g) <=> (g = Len(gs) + 1 /\ v = w) \/ At(v, gs, g)
  BY <1>2, <1>3, Zenon DEF At
<1>6. Len(gs) + 1 \notin DOMAIN gs
  BY <1>2
<1>7. Apart(hs)
  <2> SUFFICES ASSUME NEW g, NEW h, NEW v, At(v, hs, g), At(v, hs, h) PROVE g = h
    BY Zenon DEF Apart
  <2>1. v = w => g = Len(gs) + 1 /\ h = Len(gs) + 1
    BY <1>4, <1>5
  <2>2. v # w => At(v, gs, g) /\ At(v, gs, h)
    BY <1>5
  <2> QED
    BY <2>1, <2>2, Zenon DEF Parts, Apart
<1>8. \A v \in U : \E g : At(v, hs, g)
  <2>1. \A v \in T : \E g : At(v, gs, g)
    BY DEF Parts
  <2> QED
    BY <1>5, <2>1
<1>9. \A g \in DOMAIN hs : hs[g] # <<>>
  BY <1>2, <1>3 DEF Parts
<1>10. hs \in Seq(Seq(U))
  BY <1>1, <1>3
<1>11. Parts(hs, U)
  BY <1>7, <1>8, <1>9, <1>10, Zenon DEF Parts
<1> QED
  BY <1>11 DEF hs

\* A new element in the last group.
LEMMA PartsGrow ==
    ASSUME NEW T, NEW gs, Parts(gs, T), gs # <<>>, NEW w, w \notin T
    PROVE  Parts(Append(Front(gs), Append(Last(gs), w)), T \cup {w})
<1> DEFINE U == T \cup {w}
           l == Append(Last(gs), w)
           hs == Append(Front(gs), l)
           n == Len(gs)
<1>1. PICK X : X = Seq(U)
  OBVIOUS
<1>2. gs \in Seq(X)
  <2>1. \A s \in Seq(T) : s \in Seq(U)
    OBVIOUS
  <2>2. gs \in Seq(Seq(U))
    BY <2>1 DEF Parts
  <2> QED
    BY <1>1, <2>2
<1>3. Last(gs) \in X /\ Last(gs) = gs[n] /\ n \in DOMAIN gs
  <2>1. PICK x : x \in X
    BY <1>2
  <2> QED
    BY <1>2, <2>1, WithLast
<1>4. l \in X /\ ToSet(l) = ToSet(gs[n]) \cup {w} /\ l # <<>>
  BY <1>1, <1>3, AppendHas
<1> HIDE DEF l
<1>5. /\ hs \in Seq(X) /\ DOMAIN hs = DOMAIN gs /\ hs[n] = l
      /\ \A i \in DOMAIN gs : i # n => hs[i] = gs[i]
  BY <1>2, <1>4, WithLast
<1> HIDE DEF hs, n
<1>6. \A g : \A v : At(v, gs, g) => v \in T
  BY DEF At, ToSet, Parts
<1>7. \A g : \A v : At(v, hs, g) <=> (g = n /\ v = w) \/ At(v, gs, g)
  BY <1>3, <1>4, <1>5 DEF At
<1>8. Apart(hs)
  <2> SUFFICES ASSUME NEW g, NEW h, NEW v, At(v, hs, g), At(v, hs, h) PROVE g = h
    BY Zenon DEF Apart
  <2>1. v = w => g = n /\ h = n
    BY <1>6, <1>7
  <2>2. v # w => At(v, gs, g) /\ At(v, gs, h)
    BY <1>7
  <2> QED
    BY <2>1, <2>2, Zenon DEF Parts, Apart
<1>9. \A v \in U : \E g : At(v, hs, g)
  <2>1. \A v \in T : \E g : At(v, gs, g)
    BY DEF Parts
  <2> QED
    BY <1>7, <2>1
<1>10. \A g \in DOMAIN hs : hs[g] # <<>>
  BY <1>4, <1>5 DEF Parts
<1>11. hs \in Seq(Seq(U))
  BY <1>1, <1>5
<1>12. Parts(hs, U)
  BY <1>8, <1>9, <1>10, <1>11, Zenon DEF Parts
<1> QED
  BY <1>12 DEF hs, l

LEMMA LineFolds == \A b, s : FoldLeft(WithWord, b, s) = LineFold!Folded(b, s)
  BY DEF LineFold!Folded, FoldLeft, LineFold!FoldLeft, MapThenFoldSet, LineFold!MapThenFoldSet,
         Max, LineFold!Max

\* The lines before they are put in order hold each word once.
LEMMA WordsInLines ==
    ASSUME NEW W, NEW s \in Seq(W), Once(s)
    PROVE  Parts(FoldLeft(WithWord, <<>>, s), ToSet(s))
<1> DEFINE run(t) == LineFold!Folded(<<>>, t)
           S == {t \in Seq(W) : Once(t) => Parts(run(t), ToSet(t))}
<1>1. <<>> \in S
  <2>1. run(<<>>) = <<>>
    BY LineFold!FoldLeftEmpty
  <2>2. <<>> \in Seq(W) /\ ToSet(<<>>) = {} /\ DOMAIN <<>> = {}
    BY DEF ToSet
  <2>3. Apart(<<>>)
    BY <2>2, Zenon DEF Apart, At
  <2>4. <<>> \in Seq(Seq({}))
    OBVIOUS
  <2>5. Parts(<<>>, {})
    BY <2>2, <2>3, <2>4, Zenon DEF Parts
  <2> HIDE DEF run
  <2> QED
    BY <2>1, <2>2, <2>5
<1>2. ASSUME NEW t \in Seq(W), NEW w \in W, t \in S PROVE Append(t, w) \in S
  <2> SUFFICES ASSUME Once(Append(t, w)) PROVE Parts(run(Append(t, w)), ToSet(Append(t, w)))
    BY AppendHas
  <2>1. run(Append(t, w)) = WithWord(run(t), w)
    BY LineFold!FoldLeftAppend
  <2>2. ToSet(Append(t, w)) = ToSet(t) \cup {w}
    BY AppendHas
  <2>3. Once(t) /\ w \notin ToSet(t)
    <3>1. /\ Len(t) + 1 \in DOMAIN Append(t, w) /\ Append(t, w)[Len(t) + 1] = w
          /\ \A i \in DOMAIN t : i \in DOMAIN Append(t, w) /\ i # Len(t) + 1 /\ Append(t, w)[i] = t[i]
      BY AppendHas
    <3>2. \A i, j \in DOMAIN Append(t, w) : Append(t, w)[i] = Append(t, w)[j] => i = j
      BY DEF Once
    <3>3. Once(t)
      BY <3>1, <3>2, Zenon DEF Once
    <3>4. \A i \in DOMAIN t : t[i] # w
      BY <3>1, <3>2, Zenon
    <3> QED
      BY <3>3, <3>4 DEF ToSet
  <2>4. Parts(run(t), ToSet(t))
    BY <1>2, <2>3
  <2> HIDE DEF run
  <2>5. PICK gs : gs = run(t)
    OBVIOUS
  <2>6. Parts(WithWord(gs, w), ToSet(t) \cup {w})
    <3>1. CASE gs # <<>> /\ w.top - Last(gs)[1].top <= LineTolerance
      <4>1. WithWord(gs, w) = Append(Front(gs), Append(Last(gs), w))
        BY <3>1, Zenon DEF WithWord
      <4> QED
        BY <2>3, <2>4, <2>5, <3>1, <4>1, PartsGrow
    <3>2. CASE ~(gs # <<>> /\ w.top - Last(gs)[1].top <= LineTolerance)
      <4>1. WithWord(gs, w) = Append(gs, <<w>>)
        BY <3>2, Zenon DEF WithWord
      <4> QED
        BY <2>3, <2>4, <2>5, <4>1, PartsNew
    <3> QED
      BY <3>1, <3>2
  <2> QED
    BY <2>1, <2>2, <2>5, <2>6
<1> HIDE DEF S
<1>3. \A t \in Seq(W) : t \in S
  BY <1>1, <1>2, SeqInduction
<1>4. FoldLeft(WithWord, <<>>, s) = run(s)
  BY LineFolds
<1> QED
  BY <1>3, <1>4 DEF S

\* Finitely many words, at whole numbers.
Placed(W) == IsFiniteSet(W) /\ \A w \in W : {w.left, w.right, w.top} \subseteq Int

LEMMA WordsListed ==
    ASSUME NEW W, Placed(W)
    PROVE  Lists(DownThePage(W), W) /\ Lists(LeftToRight(W), W)
<1> DEFINE down == [w \in W |-> <<w.top, w.left>>]
           across == [w \in W |-> <<w.left, 0>>]
<1>1. \A w \in W : w.top \in Int /\ w.left \in Int
  BY DEF Placed
<1>2. Keyed(W, down) /\ Keyed(W, across)
  BY <1>1 DEF Keyed
<1> HIDE DEF down, across
<1>3. IsFiniteSet(W)
  BY DEF Placed
<1>4. Lists(InOrder(W, down), W) /\ Lists(InOrder(W, across), W)
  BY <1>2, <1>3, InOrderSorts
<1>5. DownThePage(W) = InOrder(W, down) /\ LeftToRight(W) = InOrder(W, across)
  BY DEF DownThePage, LeftToRight, down, across
<1> QED
  BY <1>4, <1>5

LEMMA PlacedPart == ASSUME NEW W, Placed(W), NEW V \in SUBSET W PROVE Placed(V)
<1>1. IsFiniteSet(V)
  BY FS_Subset DEF Placed
<1>2. \A w \in V : w \in W
  OBVIOUS
<1>3. \A w \in V : {w.left, w.right, w.top} \subseteq Int
  BY <1>2, Zenon DEF Placed
<1> QED
  BY <1>1, <1>3, Zenon DEF Placed

LEMMA ListsAll ==
    ASSUME NEW s, NEW T, Lists(s, T)
    PROVE  s \in Seq(T) /\ ToSet(s) = T /\ (T # {} => s # <<>>)
<1>1. s \in Seq(T) /\ ToSet(s) = T
  BY DEF Lists
<1>2. s = <<>> => ToSet(s) = {}
  <2>1. DOMAIN <<>> = {}
    OBVIOUS
  <2> QED
    BY <2>1 DEF ToSet
<1> QED
  BY <1>1, <1>2

\* Each word of a page is in one of its lines.
LEMMA LinesOfPage ==
    ASSUME NEW page, Placed(page.words)
    PROVE  Parts(PageLines(page), page.words)
<1> DEFINE W == page.words
           down == DownThePage(W)
           gs == FoldLeft(WithWord, <<>>, down)
           ls == [i \in DOMAIN gs |-> LeftToRight(ToSet(gs[i]))]
<1>1. PageLines(page) = ls
  BY Zenon DEF PageLines
<1>2. Lists(down, W)
  BY WordsListed
<1> HIDE DEF down
<1>3. down \in Seq(W) /\ ToSet(down) = W /\ Once(down)
  BY <1>2 DEF Lists
<1>4. Parts(gs, W)
  <2>1. Parts(FoldLeft(WithWord, <<>>, down), ToSet(down))
    BY <1>3, WordsInLines
  <2> QED
    BY <1>3, <2>1
<1> HIDE DEF gs, W
<1>5. gs \in Seq(Seq(W)) /\ Apart(gs) /\ (\A g \in DOMAIN gs : gs[g] # <<>>)
      /\ \A w \in W : \E g : At(w, gs, g)
  BY <1>4, Zenon DEF Parts
<1>6. \A i \in DOMAIN gs : gs[i] \in Seq(W)
  BY <1>5
<1>7. ASSUME NEW i \in DOMAIN gs
      PROVE  ls[i] \in Seq(W) /\ ToSet(ls[i]) = ToSet(gs[i]) /\ ls[i] # <<>>
  <2>1. gs[i] \in Seq(W) /\ gs[i] # <<>>
    BY <1>5, <1>6
  <2>2. ToSet(gs[i]) \in SUBSET W /\ ToSet(gs[i]) # {}
    BY <2>1 DEF ToSet
  <2>3. Placed(ToSet(gs[i]))
    BY <2>2, PlacedPart DEF W
  <2>4. Lists(LeftToRight(ToSet(gs[i])), ToSet(gs[i]))
    BY <2>3, WordsListed
  <2>5. ls[i] = LeftToRight(ToSet(gs[i]))
    OBVIOUS
  <2>6. ls[i] \in Seq(ToSet(gs[i])) /\ ToSet(ls[i]) = ToSet(gs[i]) /\ ls[i] # <<>>
    BY <2>2, <2>4, <2>5, ListsAll
  <2>7. ls[i] \in Seq(W)
    BY <2>2, <2>6, SeqMonotonic
  <2> QED
    BY <2>6, <2>7
<1>8. DOMAIN ls = DOMAIN gs
  OBVIOUS
<1>9. ls \in Seq(Seq(W))
  <2>1. PICK X : X = Seq(W)
    OBVIOUS
  <2>2. PICK n \in Nat : DOMAIN gs = 1..n
    BY <1>5
  <2>3. \A i \in 1..n : LeftToRight(ToSet(gs[i])) \in X
    BY <1>7, <2>1, <2>2
  <2>4. ls \in [1..n -> X]
    BY <2>2, <2>3
  <2>5. ls \in Seq(X)
    BY <2>4
  <2> QED
    BY <2>1, <2>5
<1> HIDE DEF ls
<1>10. \A w : \A g : At(w, ls, g) <=> At(w, gs, g)
  BY <1>7, <1>8, Zenon DEF At
<1>11. Apart(ls)
  BY <1>5, <1>10, Zenon DEF Apart
<1>12. (\A g \in DOMAIN ls : ls[g] # <<>>) /\ \A w \in W : \E g : At(w, ls, g)
  BY <1>5, <1>7, <1>8, <1>10, Zenon
<1>13. Parts(ls, W)
  BY <1>9, <1>11, <1>12, Zenon DEF Parts
<1> QED
  BY <1>1, <1>13 DEF W

-----------------------------------------------------------------------------
(* The edges of a table                                                    *)

LEMMA SumFolds == \A b, s : FoldLeft(Plus, b, s) = SumFold!Folded(b, s)
  BY DEF SumFold!Folded, FoldLeft, SumFold!FoldLeft, MapThenFoldSet, SumFold!MapThenFoldSet,
         Max, SumFold!Max

\* A sum is between as many times its least and its greatest term.
LEMMA SumBetween ==
    ASSUME NEW lo \in Int, NEW hi \in Int, NEW s \in Seq(lo..hi)
    PROVE  /\ FoldLeft(Plus, 0, s) \in Int
           /\ Len(s) * lo <= FoldLeft(Plus, 0, s) /\ FoldLeft(Plus, 0, s) <= Len(s) * hi
<1> DEFINE sum(t) == SumFold!Folded(0, t)
           S == {t \in Seq(lo..hi) : sum(t) \in Int /\ Len(t) * lo <= sum(t) /\ sum(t) <= Len(t) * hi}
<1>1. <<>> \in S
  <2>1. sum(<<>>) = 0
    BY SumFold!FoldLeftEmpty
  <2>2. <<>> \in Seq(lo..hi) /\ Len(<<>>) = 0 /\ 0 * lo = 0 /\ 0 * hi = 0
    OBVIOUS
  <2> HIDE DEF sum
  <2> QED
    BY <2>1, <2>2
<1>2. ASSUME NEW t \in Seq(lo..hi), NEW x \in lo..hi, t \in S PROVE Append(t, x) \in S
  <2>1. sum(Append(t, x)) = sum(t) + x
    <3>1. sum(Append(t, x)) = Plus(sum(t), x)
      BY SumFold!FoldLeftAppend
    <3> QED
      BY <3>1, Zenon DEF Plus
  <2>2. PICK n \in Nat : n = Len(t) /\ Len(Append(t, x)) = n + 1 /\ Append(t, x) \in Seq(lo..hi)
    BY AppendOf
  <2>3. (n + 1) * lo = n * lo + lo /\ (n + 1) * hi = n * hi + hi /\ n * lo \in Int /\ n * hi \in Int
    OBVIOUS
  <2>4. sum(t) \in Int /\ n * lo <= sum(t) /\ sum(t) <= n * hi
    BY <1>2, <2>2
  <2> HIDE DEF sum
  <2>5. PICK a \in Int, p \in Int, q \in Int : a = sum(t) /\ p = n * lo /\ q = n * hi
    BY <2>3, <2>4
  <2>6. a + x \in Int /\ p + lo <= a + x /\ a + x <= q + hi
    BY <2>4, <2>5
  <2>7. sum(Append(t, x)) \in Int /\ (n + 1) * lo <= sum(Append(t, x))
        /\ sum(Append(t, x)) <= (n + 1) * hi
    BY <2>1, <2>3, <2>5, <2>6
  <2> QED
    BY <2>2, <2>7
<1> HIDE DEF S
<1>3. \A t \in Seq(lo..hi) : t \in S
  BY <1>1, <1>2, SeqInduction
<1>4. FoldLeft(Plus, 0, s) = sum(s)
  BY SumFolds
<1> QED
  BY <1>3, <1>4 DEF S

LEMMA Floor ==
    ASSUME NEW n \in Int, NEW M \in Nat, M > 0
    PROVE  n \div M \in Int /\ (n \div M) * M <= n /\ n < (n \div M) * M + M
  OBVIOUS

LEMMA Times == ASSUME NEW i \in Int, NEW j \in Int, NEW M \in Nat, i <= j
               PROVE  i * M \in Int /\ j * M \in Int /\ i * M <= j * M
  OBVIOUS

\* So is a mean, rounded to a whole number.
LEMMA MeanBetween ==
    ASSUME NEW lo \in Int, NEW hi \in Int, NEW s \in Seq(lo..hi), s # <<>>
    PROVE  Mean(s) \in lo..hi
<1>1. PICK n \in Nat : n = Len(s) /\ n > 0
  OBVIOUS
<1>2. PICK a \in Int : a = FoldLeft(Plus, 0, s) /\ n * lo <= a /\ a <= n * hi
  BY <1>1, SumBetween
<1>3. Mean(s) = (2 * a + n) \div (2 * n)
  BY <1>1, <1>2, Zenon DEF Mean
<1>4. PICK m \in Nat : m = 2 * n /\ m > 0
  BY <1>1
<1>5. PICK q \in Int : q = (2 * a + n) \div m /\ q * m <= 2 * a + n /\ 2 * a + n < q * m + m
  <2>1. PICK z \in Int : z = 2 * a + n
    BY <1>1, <1>2
  <2> QED
    BY <1>4, <2>1, Floor
<1>6. q >= lo
  <2> SUFFICES ASSUME q + 1 <= lo PROVE FALSE
    OBVIOUS
  <2>1. (q + 1) * m <= lo * m
    BY <1>4, Times
  <2>2. (q + 1) * m = q * m + m /\ lo * m = 2 * (n * lo)
    BY <1>4
  <2> QED
    BY <1>1, <1>2, <1>5, <2>1, <2>2
<1>7. q <= hi
  <2> SUFFICES ASSUME hi + 1 <= q PROVE FALSE
    OBVIOUS
  <2>1. (hi + 1) * m <= q * m
    BY <1>4, Times
  <2>2. (hi + 1) * m = hi * m + m /\ hi * m = 2 * (n * hi)
    BY <1>4
  <2> QED
    <3>1. PICK p \in Int : p = n * hi /\ a <= p
      BY <1>2
    <3>2. PICK y \in Int : y = q * m /\ y <= 2 * a + n /\ 2 * a + n < y + m
      BY <1>4, <1>5
    <3>3. 2 * p + m <= y
      BY <2>1, <2>2, <3>1, <3>2
    <3> QED
      BY <1>1, <1>2, <1>4, <3>1, <3>2, <3>3
<1> QED
  BY <1>3, <1>4, <1>5, <1>6, <1>7

\* The groups of a mounting sequence: each between its first and its last value,
\* below those after it, the last with the latest value.
Mounts(s) == \A i, j \in DOMAIN s : i < j => s[i] <= s[j]
Spans(g) == g # <<>> /\ \A x \in ToSet(g) : g[1] <= x /\ x <= Last(g)
Below(g, h) == \A x \in ToSet(g), y \in ToSet(h) : x < y
Clustered(gs, s) ==
    /\ gs \in Seq(Seq(Int))
    /\ \A g \in DOMAIN gs : Spans(gs[g]) /\ ToSet(gs[g]) \subseteq ToSet(s)
    /\ \A g, h \in DOMAIN gs : g < h => Below(gs[g], gs[h])
    /\ s # <<>> => gs # <<>> /\ Last(Last(gs)) = Last(s)

LEMMA MountsAppend ==
    ASSUME NEW t \in Seq(Int), NEW v \in Int, Mounts(Append(t, v))
    PROVE  /\ Mounts(t) /\ \A x \in ToSet(t) : x \in Int /\ x <= v
           /\ t # <<>> => Last(t) \in ToSet(t) /\ \A x \in ToSet(t) : x <= Last(t)
<1>1. /\ Len(t) + 1 \in DOMAIN Append(t, v) /\ Append(t, v)[Len(t) + 1] = v
      /\ \A i \in DOMAIN t : i \in DOMAIN Append(t, v) /\ i # Len(t) + 1 /\ Append(t, v)[i] = t[i]
  BY AppendHas
<1>2. Len(t) \in Nat /\ \A i \in DOMAIN t : i \in Nat /\ t[i] \in Int /\ i < Len(t) + 1
  OBVIOUS
<1>3. \A i, j \in DOMAIN Append(t, v) : i < j => Append(t, v)[i] <= Append(t, v)[j]
  BY DEF Mounts
<1>4. Mounts(t)
  BY <1>1, <1>3, Zenon DEF Mounts
<1>5. \A i \in DOMAIN t : t[i] <= v
  BY <1>1, <1>2, <1>3, Zenon
<1>6. \A x \in ToSet(t) : x \in Int /\ x <= v
  BY <1>2, <1>5 DEF ToSet
<1>7. ASSUME t # <<>> PROVE Last(t) \in ToSet(t) /\ \A x \in ToSet(t) : x <= Last(t)
  <2>1. Len(t) \in DOMAIN t /\ \A i \in DOMAIN t : i <= Len(t)
    BY <1>7
  <2>2. Last(t) = t[Len(t)]
    BY DEF Last
  <2>3. \A i \in DOMAIN t : t[i] <= t[Len(t)]
    BY <1>2, <1>4, <2>1 DEF Mounts
  <2> QED
    BY <2>1, <2>2, <2>3 DEF ToSet
<1> QED
  BY <1>4, <1>6, <1>7

LEMMA ClusteredNew ==
    ASSUME NEW t \in Seq(Int), NEW v \in Int, Mounts(Append(t, v)), NEW gs, Clustered(gs, t),
           gs # <<>> => v - Last(Last(gs)) > EdgeTolerance
    PROVE  Clustered(Append(gs, <<v>>), Append(t, v))
<1> DEFINE hs == Append(gs, <<v>>)
           u == Append(t, v)
<1>1. PICK X : X = Seq(Int)
  OBVIOUS
<1>2. gs \in Seq(X) /\ <<v>> \in X /\ ToSet(<<v>>) = {v} /\ Last(<<v>>) = v /\ <<v>>[1] = v /\ <<v>> # <<>>
  BY <1>1 DEF Clustered, ToSet, Last
<1>3. /\ hs \in Seq(X) /\ hs # <<>>
      /\ Len(gs) + 1 \in DOMAIN hs /\ hs[Len(gs) + 1] = <<v>>
      /\ \A i \in DOMAIN gs : i \in DOMAIN hs /\ i # Len(gs) + 1 /\ hs[i] = gs[i]
      /\ \A i \in DOMAIN hs : i = Len(gs) + 1 \/ i \in DOMAIN gs
  BY <1>2, AppendHas
<1>4. Last(hs) = <<v>>
  BY <1>2, LastOf
<1>5. u # <<>> /\ ToSet(u) = ToSet(t) \cup {v} /\ Last(u) = v
  BY AppendHas, LastOf
<1> HIDE DEF hs, u
<1>6. \A x \in ToSet(t) : x \in Int /\ x < v
  <2>1. CASE t = <<>>
    <3>1. ToSet(t) = {}
      BY <2>1 DEF ToSet
    <3> QED
      BY <3>1
  <2>2. CASE t # <<>>
    <3>1. gs # <<>> /\ Last(Last(gs)) = Last(t)
      BY <2>2 DEF Clustered
    <3>2. Last(t) \in ToSet(t) /\ \A x \in ToSet(t) : x \in Int /\ x <= Last(t)
      BY <2>2, MountsAppend
    <3> QED
      BY <3>1, <3>2 DEF EdgeTolerance
  <2> QED
    BY <2>1, <2>2
<1>7. ASSUME NEW g \in DOMAIN hs PROVE Spans(hs[g]) /\ ToSet(hs[g]) \subseteq ToSet(u)
  <2>1. CASE g = Len(gs) + 1
    <3>1. hs[g] = <<v>>
      BY <1>3, <2>1
    <3>2. \A x \in ToSet(<<v>>) : <<v>>[1] <= x /\ x <= Last(<<v>>)
      BY <1>2
    <3>3. Spans(<<v>>)
      BY <1>2, <3>2, Zenon DEF Spans
    <3>4. ToSet(<<v>>) \subseteq ToSet(u)
      BY <1>2, <1>5
    <3> QED
      BY <3>1, <3>3, <3>4, Zenon
  <2>2. CASE g \in DOMAIN gs
    <3>1. Spans(gs[g]) /\ ToSet(gs[g]) \subseteq ToSet(t)
      BY <2>2 DEF Clustered
    <3>2. hs[g] = gs[g]
      BY <1>3, <2>2
    <3>3. ToSet(gs[g]) \subseteq ToSet(u)
      BY <1>5, <3>1
    <3> QED
      BY <3>1, <3>2, <3>3, Zenon
  <2> QED
    BY <1>3, <2>1, <2>2
<1>8. ASSUME NEW g \in DOMAIN hs, NEW h \in DOMAIN hs, g < h PROVE Below(hs[g], hs[h])
  <2>1. g \in DOMAIN gs
    <3>1. Len(gs) \in Nat /\ DOMAIN gs = 1..Len(gs)
      BY <1>2
    <3> QED
      BY <1>3, <1>8, <3>1
  <2>2. CASE h = Len(gs) + 1
    <3>1. ToSet(hs[g]) \subseteq ToSet(t)
      BY <1>3, <2>1 DEF Clustered
    <3>2. ToSet(hs[h]) = {v}
      BY <1>2, <1>3, <2>2
    <3> QED
      BY <1>6, <3>1, <3>2 DEF Below
  <2>3. CASE h \in DOMAIN gs
    BY <1>3, <1>8, <2>1, <2>3 DEF Clustered
  <2> QED
    BY <1>3, <2>2, <2>3
<1>9. hs \in Seq(Seq(Int))
  BY <1>1, <1>3
<1>10. Clustered(hs, u)
  BY <1>2, <1>3, <1>4, <1>5, <1>7, <1>8, <1>9, Zenon DEF Clustered
<1> QED
  BY <1>10 DEF hs, u

LEMMA ClusteredGrow ==
    ASSUME NEW t \in Seq(Int), NEW v \in Int, Mounts(Append(t, v)), NEW gs, Clustered(gs, t), gs # <<>>
    PROVE  Clustered(Append(Front(gs), Append(Last(gs), v)), Append(t, v))
<1> DEFINE l == Append(Last(gs), v)
           hs == Append(Front(gs), l)
           u == Append(t, v)
           n == Len(gs)
<1>1. PICK X : X = Seq(Int)
  OBVIOUS
<1>2. gs \in Seq(X) /\ \A g \in DOMAIN gs : Spans(gs[g]) /\ ToSet(gs[g]) \subseteq ToSet(t)
  BY <1>1 DEF Clustered
<1>3. Last(gs) \in X /\ Last(gs) = gs[n] /\ n \in DOMAIN gs
  <2>1. PICK x : x \in X
    BY <1>1
  <2> QED
    BY <1>2, <2>1, WithLast
<1>4. \A x \in ToSet(t) : x \in Int /\ x <= v
  BY MountsAppend
<1>5. gs[n] \in Seq(Int) /\ gs[n] # <<>> /\ Spans(gs[n]) /\ ToSet(gs[n]) \subseteq ToSet(t)
      /\ gs[n][1] \in ToSet(gs[n]) /\ Last(gs[n]) \in ToSet(gs[n])
  <2>1. gs[n] \in Seq(Int) /\ gs[n] # <<>> /\ Spans(gs[n]) /\ ToSet(gs[n]) \subseteq ToSet(t)
    BY <1>1, <1>2, <1>3 DEF Spans
  <2>2. 1 \in DOMAIN gs[n] /\ Len(gs[n]) \in DOMAIN gs[n]
    BY <2>1
  <2> QED
    BY <2>1, <2>2 DEF ToSet, Last
<1>6. /\ l \in Seq(Int) /\ l # <<>> /\ ToSet(l) = ToSet(gs[n]) \cup {v} /\ Last(l) = v
      /\ l[1] = gs[n][1]
  <2>1. l \in Seq(Int) /\ l # <<>> /\ ToSet(l) = ToSet(gs[n]) \cup {v}
        /\ \A i \in DOMAIN gs[n] : l[i] = gs[n][i]
    BY <1>3, <1>5, AppendHas
  <2>2. Last(l) = v
    BY <1>3, <1>5, LastOf
  <2>3. 1 \in DOMAIN gs[n]
    BY <1>5
  <2> QED
    BY <2>1, <2>2, <2>3
<1> HIDE DEF l
<1>7. /\ hs \in Seq(X) /\ DOMAIN hs = DOMAIN gs /\ hs[n] = l
      /\ \A i \in DOMAIN gs : i # n => hs[i] = gs[i]
  <2>1. PICK y \in X : y = l
    BY <1>1, <1>6
  <2>2. gs \in Seq(X)
    BY <1>2
  <2>3. /\ Append(Front(gs), y) \in Seq(X) /\ DOMAIN Append(Front(gs), y) = DOMAIN gs
        /\ Append(Front(gs), y)[Len(gs)] = y
        /\ \A i \in DOMAIN gs : i # Len(gs) => Append(Front(gs), y)[i] = gs[i]
    BY <2>2, WithLast
  <2> QED
    BY <2>1, <2>3
<1>8. hs # <<>> /\ Last(hs) = l
  <2>1. hs # <<>>
    BY <1>3, <1>7
  <2>2. Last(hs) = l
    <3>1. Front(gs) \in Seq(X)
      BY <1>2, FrontLast
    <3> QED
      BY <1>1, <1>6, <3>1, LastOf
  <2> QED
    BY <2>1, <2>2
<1>9. u # <<>> /\ ToSet(u) = ToSet(t) \cup {v} /\ Last(u) = v
  BY AppendHas, LastOf
<1> HIDE DEF hs, u, n
<1>10. Spans(l) /\ ToSet(l) \subseteq ToSet(u)
  <2>1. \A x \in ToSet(gs[n]) : gs[n][1] <= x /\ x <= v
    BY <1>4, <1>5 DEF Spans
  <2>2. gs[n][1] <= v
    BY <1>5, <2>1
  <2> QED
    BY <1>5, <1>6, <1>9, <2>1, <2>2 DEF Spans
<1>11. ASSUME NEW g \in DOMAIN hs PROVE Spans(hs[g]) /\ ToSet(hs[g]) \subseteq ToSet(u)
  <2>1. CASE g = n
    BY <1>7, <1>10, <2>1
  <2>2. CASE g # n
    BY <1>2, <1>7, <1>9, <2>2
  <2> QED
    BY <2>1, <2>2
<1>12. ASSUME NEW g \in DOMAIN hs, NEW h \in DOMAIN hs, g < h PROVE Below(hs[g], hs[h])
  <2>1. Below(gs[g], gs[h])
    BY <1>7, <1>12 DEF Clustered
  <2>2. g # n /\ hs[g] = gs[g]
    <3>1. DOMAIN gs = 1..n /\ n \in Nat
      BY <1>2 DEF n
    <3> QED
      BY <1>7, <1>12, <3>1
  <2>3. CASE h # n
    BY <1>7, <2>1, <2>2, <2>3
  <2>4. CASE h = n
    <3>1. \A x \in ToSet(gs[g]) : x \in Int /\ x < Last(gs[n])
      <4>1. ToSet(gs[g]) \subseteq ToSet(t)
        BY <1>2, <1>7
      <4> QED
        BY <1>4, <1>5, <2>1, <2>4, <4>1 DEF Below
    <3>2. Last(gs[n]) \in Int /\ Last(gs[n]) <= v
      BY <1>4, <1>5
    <3>3. \A x \in ToSet(gs[g]) : x < v
      BY <3>1, <3>2
    <3> QED
      BY <1>6, <1>7, <2>1, <2>2, <2>4, <3>3 DEF Below
  <2> QED
    BY <2>3, <2>4
<1>13. hs \in Seq(Seq(Int))
  BY <1>1, <1>7
<1>14. Clustered(hs, u)
  BY <1>6, <1>8, <1>9, <1>11, <1>12, <1>13, Zenon DEF Clustered
<1> QED
  BY <1>14 DEF hs, u, l

LEMMA ClusterFolds == \A b, s : FoldLeft(WithValue, b, s) = ClusterFold!Folded(b, s)
  BY DEF ClusterFold!Folded, FoldLeft, ClusterFold!FoldLeft, MapThenFoldSet,
         ClusterFold!MapThenFoldSet, Max, ClusterFold!Max

LEMMA Clusters ==
    ASSUME NEW s \in Seq(Int), Mounts(s)
    PROVE  Clustered(FoldLeft(WithValue, <<>>, s), s)
<1> DEFINE run(t) == ClusterFold!Folded(<<>>, t)
           S == {t \in Seq(Int) : Mounts(t) => Clustered(run(t), t)}
<1>1. <<>> \in S
  <2>1. run(<<>>) = <<>>
    BY ClusterFold!FoldLeftEmpty
  <2>2. <<>> \in Seq(Int) /\ <<>> \in Seq(Seq(Int)) /\ DOMAIN <<>> = {}
    OBVIOUS
  <2>3. Clustered(<<>>, <<>>)
    BY <2>2, Zenon DEF Clustered
  <2> HIDE DEF run
  <2> QED
    BY <2>1, <2>2, <2>3
<1>2. ASSUME NEW t \in Seq(Int), NEW v \in Int, t \in S PROVE Append(t, v) \in S
  <2> SUFFICES ASSUME Mounts(Append(t, v)) PROVE Clustered(run(Append(t, v)), Append(t, v))
    BY AppendHas
  <2>1. run(Append(t, v)) = WithValue(run(t), v)
    BY ClusterFold!FoldLeftAppend
  <2>2. Clustered(run(t), t)
    BY <1>2, MountsAppend
  <2> HIDE DEF run
  <2>3. PICK gs : gs = run(t)
    OBVIOUS
  <2>4. Clustered(WithValue(gs, v), Append(t, v))
    <3>1. CASE gs # <<>> /\ v - Last(Last(gs)) <= EdgeTolerance
      <4>1. WithValue(gs, v) = Append(Front(gs), Append(Last(gs), v))
        BY <3>1, Zenon DEF WithValue
      <4> QED
        BY <2>2, <2>3, <3>1, <4>1, ClusteredGrow
    <3>2. CASE ~(gs # <<>> /\ v - Last(Last(gs)) <= EdgeTolerance)
      <4>1. WithValue(gs, v) = Append(gs, <<v>>)
        BY <3>2, Zenon DEF WithValue
      <4>2. gs # <<>> => v - Last(Last(gs)) > EdgeTolerance
        <5> SUFFICES ASSUME gs # <<>> PROVE v - Last(Last(gs)) > EdgeTolerance
          OBVIOUS
        <5>1. Last(Last(gs)) \in Int
          <6>1. PICK X : X = Seq(Int)
            OBVIOUS
          <6>2. gs \in Seq(X)
            BY <2>2, <2>3, <6>1 DEF Clustered
          <6>3. Last(gs) \in X /\ Last(gs) = gs[Len(gs)] /\ Len(gs) \in DOMAIN gs
            <7>1. PICK x : x \in X
              BY <6>1
            <7> QED
              BY <6>2, <7>1, WithLast
          <6>4. Last(gs) # <<>>
            BY <2>2, <2>3, <6>3 DEF Clustered, Spans
          <6> QED
            BY <6>1, <6>3, <6>4, FrontLast
        <5> QED
          BY <3>2, <5>1 DEF EdgeTolerance
      <4> QED
        BY <2>2, <2>3, <4>1, <4>2, ClusteredNew
    <3> QED
      BY <3>1, <3>2
  <2> QED
    BY <2>1, <2>3, <2>4
<1> HIDE DEF S
<1>3. \A t \in Seq(Int) : t \in S
  BY <1>1, <1>2, SeqInduction
<1>4. FoldLeft(WithValue, <<>>, s) = run(s)
  BY ClusterFolds
<1> QED
  BY <1>3, <1>4 DEF S

\* The means of the groups rise.
Edges(e) == e \in Seq(Int) /\ Rises(e)
LEMMA ClusterRises == ASSUME NEW s \in Seq(Int), Mounts(s) PROVE Edges(Cluster(s))
<1> DEFINE gs == FoldLeft(WithValue, <<>>, s)
           e == [i \in DOMAIN gs |-> Mean(gs[i])]
<1>1. Clustered(gs, s)
  BY Clusters
<1>2. Cluster(s) = e
  BY Zenon DEF Cluster
<1> HIDE DEF gs
<1>3. ASSUME NEW i \in DOMAIN gs
      PROVE  /\ gs[i][1] \in Int /\ Last(gs[i]) \in Int /\ Mean(gs[i]) \in gs[i][1]..Last(gs[i])
             /\ gs[i][1] \in ToSet(gs[i]) /\ Last(gs[i]) \in ToSet(gs[i])
  <2>1. gs[i] \in Seq(Int) /\ Spans(gs[i])
    BY <1>1 DEF Clustered
  <2>2. PICK g : g = gs[i]
    OBVIOUS
  <2>3. g \in Seq(Int) /\ g # <<>> /\ \A x \in ToSet(g) : g[1] <= x /\ x <= Last(g)
    BY <2>1, <2>2 DEF Spans
  <2>4. g[1] \in Int /\ Last(g) \in Int /\ g[1] \in ToSet(g) /\ Last(g) \in ToSet(g)
    <3>1. 1 \in DOMAIN g /\ Len(g) \in DOMAIN g /\ g[1] \in Int /\ g[Len(g)] \in Int
      BY <2>3
    <3> QED
      BY <3>1 DEF ToSet, Last
  <2>5. g \in Seq(g[1]..Last(g))
    <3>1. \A k \in 1..Len(g) : g[k] \in g[1]..Last(g)
      <4>1. \A k \in 1..Len(g) : g[k] \in Int /\ g[k] \in ToSet(g)
        BY <2>3 DEF ToSet
      <4> QED
        BY <2>3, <2>4, <4>1
    <3>2. PICK T : T = g[1]..Last(g)
      OBVIOUS
    <3>3. \A k \in 1..Len(g) : g[k] \in T
      BY <3>1, <3>2
    <3>4. g \in Seq(T)
      BY <2>3, <3>3
    <3> QED
      BY <3>2, <3>4
  <2>6. Mean(g) \in g[1]..Last(g)
    BY <2>3, <2>4, <2>5, MeanBetween
  <2> QED
    BY <2>2, <2>4, <2>6
<1>4. PICK n \in Nat : DOMAIN gs = 1..n
  BY <1>1 DEF Clustered
<1>5. DOMAIN e = 1..n /\ \A i \in 1..n : e[i] = Mean(gs[i])
  BY <1>4
<1> HIDE DEF e
<1>6. \A i \in 1..n : e[i] \in Int
  BY <1>3, <1>4, <1>5
<1>7. e \in Seq(Int)
  <2>1. \A i \in DOMAIN gs : Mean(gs[i]) \in Int
    BY <1>4, <1>5, <1>6
  <2>2. [i \in DOMAIN gs |-> Mean(gs[i])] \in [DOMAIN gs -> Int]
    BY <2>1, Zenon
  <2>3. e \in [1..n -> Int]
    BY <1>4, <2>2 DEF e
  <2> QED
    BY <2>3
<1>8. ASSUME NEW i \in 1..n, NEW j \in 1..n, i < j PROVE e[i] < e[j]
  <2>1. Below(gs[i], gs[j])
    BY <1>1, <1>4, <1>8 DEF Clustered
  <2>2. Last(gs[i]) < gs[j][1]
    BY <1>3, <1>4, <2>1 DEF Below
  <2>3. e[i] \in gs[i][1]..Last(gs[i]) /\ e[j] \in gs[j][1]..Last(gs[j])
    BY <1>3, <1>4, <1>5
  <2> QED
    BY <1>3, <1>4, <2>2, <2>3
<1> QED
  BY <1>2, <1>5, <1>7, <1>8 DEF Edges, Rises

LEMMA ImageFinite ==
    ASSUME NEW n \in Nat, NEW f, DOMAIN f = 1..n PROVE IsFiniteSet({f[i] : i \in 1..n})
<1> DEFINE T == {f[i] : i \in 1..n}
           g == [i \in 1..n |-> f[i]]
<1>1. g \in Surjection(1..n, T)
  BY DEF Surjection
<1>2. ExistsSurjection(1..n, T)
  BY <1>1 DEF ExistsSurjection
<1> HIDE DEF T
<1>3. IsFiniteSet(T)
  BY <1>2, FS_NatSurjection
<1> QED
  BY <1>3 DEF T

LEMMA SeqFinite == ASSUME NEW E, NEW s \in Seq(E) PROVE IsFiniteSet(ToSet(s)) /\ ToSet(s) \subseteq E
<1>1. PICK n \in Nat : DOMAIN s = 1..n
  OBVIOUS
<1>2. ToSet(s) = {s[i] : i \in 1..n}
  BY <1>1 DEF ToSet
<1>3. ToSet(s) \subseteq E
  BY <1>1, <1>2
<1> QED
  BY <1>1, <1>2, <1>3, ImageFinite

\* Values in the order of their elements do not fall.
LEMMA ValuesMount ==
    ASSUME NEW S, IsFiniteSet(S), NEW val, \A x \in S : val[x] \in Int,
           NEW key, \A x \in S : key[x] = <<val[x], 0>>,
           NEW s, s = InOrder(S, key), NEW vs, vs = [i \in DOMAIN s |-> val[s[i]]]
    PROVE  vs \in Seq(Int) /\ Mounts(vs)
<1>1. Keyed(S, key)
  BY DEF Keyed
<1>2. Lists(s, S) /\ Sorted(s, key)
  BY <1>1, InOrderSorts
<1>3. s \in Seq(S)
  BY <1>2 DEF Lists
<1>4. PICK n \in Nat : DOMAIN s = 1..n /\ \A i \in 1..n : s[i] \in S
  BY <1>3
<1>5. vs \in Seq(Int) /\ DOMAIN vs = 1..n /\ \A i \in 1..n : vs[i] = val[s[i]] /\ vs[i] \in Int
  BY <1>4
<1>6. ASSUME NEW i \in 1..n, NEW j \in 1..n, i < j PROVE vs[i] <= vs[j]
  <2>1. ~Before(<<val[s[j]], 0>>, <<val[s[i]], 0>>)
    BY <1>2, <1>4, <1>6 DEF Sorted
  <2>2. ~(val[s[j]] < val[s[i]])
    BY <2>1 DEF Before
  <2> QED
    BY <1>5, <2>2
<1> QED
  BY <1>5, <1>6 DEF Mounts

\* Finitely many marks, at whole numbers.
Drawn(R) == IsFiniteSet(R) /\ \A r \in R : {r.left, r.right, r.y, r.thick} \subseteq Int

LEMMA VotesType ==
    ASSUME NEW page, Drawn(page.rules)
    PROVE  IsFiniteSet(Votes(page)) /\ Votes(page) \subseteq Int
<1> DEFINE rules == PageRules(page)
           lefts == {<<r.left, r, 1>> : r \in rules}
           rights == {<<r.right, r, 2>> : r \in rules}
           marks == lefts \cup rights
           key == [m \in marks |-> <<m[1], 0>>]
           val == [m \in marks |-> m[1]]
           ends == InOrder(marks, key)
           vs == [i \in DOMAIN ends |-> ends[i][1]]
           us == [i \in DOMAIN ends |-> val[ends[i]]]
<1>1. IsFiniteSet(rules) /\ \A r \in rules : r.left \in Int /\ r.right \in Int
  <2>1. rules \in SUBSET page.rules
    BY DEF PageRules
  <2>2. IsFiniteSet(page.rules) /\ \A r \in page.rules : r.left \in Int /\ r.right \in Int
    BY DEF Drawn
  <2> HIDE DEF rules
  <2> QED
    BY <2>1, <2>2, FS_Subset
<1> HIDE DEF rules
<1>2. IsFiniteSet(marks)
  <2>1. PICK n \in Nat : ExistsSurjection(1..n, rules)
    BY <1>1, FS_NatSurjection
  <2>2. PICK f \in Surjection(1..n, rules) : TRUE
    BY <2>1 DEF ExistsSurjection
  <2>3. DOMAIN f = 1..n /\ \A r : r \in rules <=> \E i \in 1..n : f[i] = r
    BY <2>2 DEF Surjection
  <2> DEFINE a == [i \in 1..n |-> <<f[i].left, f[i], 1>>]
             b == [i \in 1..n |-> <<f[i].right, f[i], 2>>]
  <2>4. IsFiniteSet({a[i] : i \in 1..n}) /\ IsFiniteSet({b[i] : i \in 1..n})
    BY ImageFinite
  <2>5. lefts = {a[i] : i \in 1..n} /\ rights = {b[i] : i \in 1..n}
    <3>1. {a[i] : i \in 1..n} = {<<f[i].left, f[i], 1>> : i \in 1..n}
          /\ {b[i] : i \in 1..n} = {<<f[i].right, f[i], 2>> : i \in 1..n}
      BY Zenon
    <3>2. lefts = {<<f[i].left, f[i], 1>> : i \in 1..n}
          /\ rights = {<<f[i].right, f[i], 2>> : i \in 1..n}
      BY <2>3, Zenon
    <3> QED
      BY <3>1, <3>2
  <2> HIDE DEF lefts, rights
  <2> QED
    BY <2>4, <2>5, FS_Union
<1>3. \A m \in marks : m[1] \in Int
  BY <1>1
<1> HIDE DEF marks
<1>4. \A m \in marks : val[m] \in Int /\ key[m] = <<val[m], 0>>
  BY <1>3
<1> HIDE DEF key, val
<1>5. us \in Seq(Int) /\ Mounts(us)
  BY <1>2, <1>4, ValuesMount
<1>6. vs = us
  <2>1. Keyed(marks, key)
    BY <1>4 DEF Keyed
  <2>2. ends \in Seq(marks)
    BY <1>2, <2>1, InOrderSorts DEF Lists
  <2>3. \A i \in DOMAIN ends : ends[i] \in marks
    BY <2>2
  <2>4. \A m \in marks : val[m] = m[1]
    BY DEF val
  <2>5. \A i \in DOMAIN ends : ends[i][1] = val[ends[i]]
    BY <2>3, <2>4
  <2> HIDE DEF ends
  <2> QED
    BY <2>5, Zenon
<1> HIDE DEF us
<1>7. Cluster(vs) \in Seq(Int)
  BY <1>5, <1>6, ClusterRises DEF Edges
<1>8. Votes(page) \subseteq ToSet(Cluster(vs))
  BY DEF Votes, vs, ends, key, marks, rules
<1> HIDE DEF vs
<1>9. IsFiniteSet(ToSet(Cluster(vs))) /\ ToSet(Cluster(vs)) \subseteq Int
  BY <1>7, SeqFinite
<1> QED
  BY <1>8, <1>9, FS_Subset

LEMMA ColumnsRise ==
    ASSUME NEW P, \A page \in P : Drawn(page.rules), NEW pages \in Seq(P), ColumnEdges(pages) # Null
    PROVE  Edges(ColumnEdges(pages))
<1> DEFINE votes(e) == Cardinality({i \in DOMAIN pages : e \in Votes(pages[i])})
           voted == UNION {Votes(pages[i]) : i \in DOMAIN pages}
           T == {e \in voted : votes(e) >= ColumnQuorum(Len(pages))}
<1>1. ColumnEdges(pages) = Cluster(Ascending(T))
  BY Zenon DEF ColumnEdges
<1>2. IsFiniteSet(voted) /\ voted \subseteq Int
  <2>1. PICK n \in Nat : DOMAIN pages = 1..n /\ \A i \in 1..n : pages[i] \in P
    OBVIOUS
  <2> DEFINE f == [i \in 1..n |-> Votes(pages[i])]
             V == {f[i] : i \in 1..n}
  <2>2. \A i \in 1..n : IsFiniteSet(f[i]) /\ f[i] \subseteq Int
    BY <2>1, VotesType
  <2>3. IsFiniteSet(V)
    BY ImageFinite
  <2>4. voted = UNION V
    BY <2>1, Zenon
  <2>5. \A W \in V : IsFiniteSet(W) /\ W \subseteq Int
    BY <2>2
  <2> HIDE DEF V, voted
  <2> QED
    BY <2>3, <2>4, <2>5, FS_UNION
<1>3. T \in SUBSET Int /\ IsFiniteSet(T)
  <2>1. T \subseteq voted
    OBVIOUS
  <2> HIDE DEF T, voted
  <2> QED
    BY <1>2, <2>1, FS_Subset
<1> HIDE DEF T
<1>4. Lists(Ascending(T), T) /\ Rises(Ascending(T))
  BY <1>3, AscendingLists
<1>5. PICK s : s = Ascending(T)
  OBVIOUS
<1>6. s \in Seq(Int)
  <2>1. s \in Seq(T)
    BY <1>4, <1>5 DEF Lists
  <2> QED
    BY <1>3, <2>1, SeqMonotonic
<1>7. Mounts(s)
  <2>1. \A i \in DOMAIN s : s[i] \in Int
    BY <1>6
  <2> QED
    BY <1>4, <1>5, <2>1 DEF Rises, Mounts
<1> QED
  BY <1>1, <1>5, <1>6, <1>7, ClusterRises

LEMMA RowsRise ==
    ASSUME NEW page, Drawn(page.rules), NEW columns PROVE Edges(RowEdges(page, columns))
<1> DEFINE aligned == {r \in PageRules(page) : \E c \in 1..(Len(columns) - 1) :
                        Close(r.left, columns[c]) /\ Close(r.right, columns[c + 1])}
           key == [r \in aligned |-> <<r.y, 0>>]
           val == [r \in aligned |-> r.y]
           drawn == InOrder(aligned, key)
           vs == [i \in DOMAIN drawn |-> drawn[i].y]
           us == [i \in DOMAIN drawn |-> val[drawn[i]]]
<1>1. RowEdges(page, columns) = Cluster(vs)
  BY Zenon DEF RowEdges
<1>2. IsFiniteSet(aligned) /\ \A r \in aligned : r.y \in Int
  <2>1. aligned \in SUBSET page.rules
    BY DEF PageRules
  <2>2. IsFiniteSet(page.rules) /\ \A r \in page.rules : r.y \in Int
    BY DEF Drawn
  <2> HIDE DEF aligned
  <2> QED
    BY <2>1, <2>2, FS_Subset
<1> HIDE DEF aligned
<1>3. \A r \in aligned : val[r] \in Int /\ key[r] = <<val[r], 0>> /\ val[r] = r.y
  BY <1>2
<1> HIDE DEF key, val
<1>4. us \in Seq(Int) /\ Mounts(us)
  BY <1>2, <1>3, ValuesMount
<1>5. vs = us
  <2>1. Keyed(aligned, key)
    BY <1>3 DEF Keyed
  <2>2. drawn \in Seq(aligned)
    BY <1>2, <2>1, InOrderSorts DEF Lists
  <2>3. \A i \in DOMAIN drawn : drawn[i] \in aligned
    BY <2>2
  <2>4. \A i \in DOMAIN drawn : drawn[i].y = val[drawn[i]]
    BY <1>3, <2>3
  <2> HIDE DEF drawn
  <2> QED
    BY <2>4, Zenon
<1> HIDE DEF us
<1> QED
  BY <1>1, <1>4, <1>5, ClusterRises

-----------------------------------------------------------------------------
(* Where a character is printed                                            *)

\* Whether a block has the character, in its cell c, or in what it says when c is 0.
Prints(b, t, c) ==
    \/ b.type # "table_row" /\ c = 0 /\ t \in ToSet(b.text)
    \/ b.type = "table_row" /\ c \in DOMAIN b.cells /\ t \in ToSet(b.cells[c])

Nowhere(t, bs) == \A i \in DOMAIN bs : \A c : ~Prints(bs[i], t, c)
InOnePlace(t, bs) ==
    \E i \in DOMAIN bs : \E c :
        Prints(bs[i], t, c) /\ \A j \in DOMAIN bs : \A d : Prints(bs[j], t, d) => j = i /\ d = c

LEMMA PlacesOf ==
    ASSUME NEW t, NEW bs
    PROVE  \A p : p \in BlocksWith(t, bs) <=>
                    \E i \in DOMAIN bs : \E c : p = <<i, c>> /\ Prints(bs[i], t, c)
<1> DEFINE said == {j \in DOMAIN bs : bs[j].type # "table_row" /\ t \in ToSet(bs[j].text)}
           rows == {j \in DOMAIN bs : bs[j].type = "table_row"}
           cells(i) == {d \in DOMAIN bs[i].cells : t \in ToSet(bs[i].cells[d])}
<1>1. BlocksWith(t, bs) = {<<i, 0>> : i \in said} \cup UNION {{<<i, c>> : c \in cells(i)} : i \in rows}
  BY Zenon DEF BlocksWith
<1>2. \A i \in DOMAIN bs : \A c : Prints(bs[i], t, c) <=> (i \in said /\ c = 0) \/ (i \in rows /\ c \in cells(i))
  BY Zenon DEF Prints
<1>3. \A i : (i \in said => i \in DOMAIN bs) /\ (i \in rows => i \in DOMAIN bs)
  OBVIOUS
<1> HIDE DEF said, rows, cells
<1>4. \A p : p \in BlocksWith(t, bs) <=>
            (\E i \in said : p = <<i, 0>>) \/ \E i \in rows : \E c \in cells(i) : p = <<i, c>>
  BY <1>1
<1> QED
  BY <1>2, <1>3, <1>4, Zenon

LEMMA NowhereEmpty == ASSUME NEW t, NEW bs, Nowhere(t, bs) PROVE BlocksWith(t, bs) = {}
<1>1. \A p : p \notin BlocksWith(t, bs)
  BY PlacesOf, Zenon DEF Nowhere
<1> QED
  BY <1>1

LEMMA OnePlaceCounts ==
    ASSUME NEW t, NEW bs, InOnePlace(t, bs) PROVE Cardinality(BlocksWith(t, bs)) = 1
<1>0. PICK i \in DOMAIN bs : \E c :
            Prints(bs[i], t, c) /\ \A j \in DOMAIN bs : \A d : Prints(bs[j], t, d) => j = i /\ d = c
  BY Zenon DEF InOnePlace
<1>1. PICK c : Prints(bs[i], t, c) /\ \A j \in DOMAIN bs : \A d : Prints(bs[j], t, d) => j = i /\ d = c
  BY <1>0
<1>2. \A p \in BlocksWith(t, bs) : p = <<i, c>>
  BY <1>1, PlacesOf
<1>3. <<i, c>> \in BlocksWith(t, bs)
  BY <1>1, PlacesOf
<1>4. BlocksWith(t, bs) = {<<i, c>>}
  BY <1>2, <1>3
<1> QED
  BY <1>4, FS_Singleton

LEMMA PrintsIn ==
    ASSUME NEW E, NEW a \in Seq(E), NEW b \in Seq(E)
    PROVE  /\ \A i \in DOMAIN a : i \in DOMAIN (a \o b) /\ (a \o b)[i] = a[i]
           /\ \A i \in DOMAIN b : Len(a) + i \in DOMAIN (a \o b) /\ (a \o b)[Len(a) + i] = b[i]
           /\ \A k \in DOMAIN (a \o b) : k \in DOMAIN a \/ \E i \in DOMAIN b : k = Len(a) + i
           /\ \A i \in DOMAIN a : \A j \in DOMAIN b : i # Len(a) + j
           /\ \A i, j \in DOMAIN b : Len(a) + i = Len(a) + j => i = j
<1>1. PICK m \in Nat, n \in Nat : m = Len(a) /\ n = Len(b) /\ DOMAIN a = 1..m /\ DOMAIN b = 1..n
  OBVIOUS
<1>2. /\ DOMAIN (a \o b) = 1..(m + n)
      /\ \A i \in 1..(m + n) : (a \o b)[i] = IF i <= m THEN a[i] ELSE b[i - m]
  BY <1>1, ConcatProperties
<1> DEFINE c == a \o b
<1>3. DOMAIN c = 1..(m + n) /\ \A i \in 1..(m + n) : c[i] = IF i <= m THEN a[i] ELSE b[i - m]
  BY <1>2
<1> HIDE DEF c
<1>4. \A i \in 1..m : i \in 1..(m + n) /\ c[i] = a[i]
  BY <1>3
<1>5. \A i \in 1..n : m + i \in 1..(m + n) /\ c[m + i] = b[i]
  BY <1>3
<1>6. \A k \in 1..(m + n) : k \in 1..m \/ \E i \in 1..n : k = m + i
  <2> SUFFICES ASSUME NEW k \in 1..(m + n), k \notin 1..m PROVE \E i \in 1..n : k = m + i
    OBVIOUS
  <2>1. k - m \in 1..n /\ k = m + (k - m)
    OBVIOUS
  <2> QED
    BY <2>1
<1>7. /\ \A i \in DOMAIN a : i \in DOMAIN c /\ c[i] = a[i]
      /\ \A i \in DOMAIN b : Len(a) + i \in DOMAIN c /\ c[Len(a) + i] = b[i]
  BY <1>1, <1>3, <1>4, <1>5
<1>8. \A k \in DOMAIN c : k \in DOMAIN a \/ \E i \in DOMAIN b : k = Len(a) + i
  BY <1>1, <1>3, <1>6
<1>9. /\ \A i \in DOMAIN a : \A j \in DOMAIN b : i # Len(a) + j
      /\ \A i, j \in DOMAIN b : Len(a) + i = Len(a) + j => i = j
  BY <1>1
<1> QED
  BY <1>7, <1>8, <1>9, Zenon DEF c

LEMMA Absences ==
    ASSUME NEW t, NEW E, NEW a \in Seq(E), NEW b \in Seq(E), Nowhere(t, a), Nowhere(t, b)
    PROVE  Nowhere(t, a \o b)
<1>1. PICK s : s = a \o b
  OBVIOUS
<1>2. /\ \A i \in DOMAIN a : s[i] = a[i]
      /\ \A i \in DOMAIN b : s[Len(a) + i] = b[i]
      /\ \A k \in DOMAIN s : k \in DOMAIN a \/ \E i \in DOMAIN b : k = Len(a) + i
  BY <1>1, PrintsIn
<1>3. ASSUME NEW k \in DOMAIN s, NEW c PROVE ~Prints(s[k], t, c)
  <2>1. CASE k \in DOMAIN a
    BY <1>2, <2>1 DEF Nowhere
  <2>2. CASE \E i \in DOMAIN b : k = Len(a) + i
    BY <1>2, <2>2 DEF Nowhere
  <2> QED
    BY <1>2, <2>1, <2>2
<1> QED
  BY <1>1, <1>3 DEF Nowhere

LEMMA OneInFirst ==
    ASSUME NEW t, NEW E, NEW a \in Seq(E), NEW b \in Seq(E), InOnePlace(t, a), Nowhere(t, b)
    PROVE  InOnePlace(t, a \o b)
<1>1. PICK i \in DOMAIN a : \E c :
            Prints(a[i], t, c) /\ \A j \in DOMAIN a : \A d : Prints(a[j], t, d) => j = i /\ d = c
  BY Zenon DEF InOnePlace
<1>2. PICK c : Prints(a[i], t, c) /\ \A j \in DOMAIN a : \A d : Prints(a[j], t, d) => j = i /\ d = c
  BY <1>1
<1>3. PICK s : s = a \o b
  OBVIOUS
<1>4. /\ \A k \in DOMAIN a : k \in DOMAIN s /\ s[k] = a[k]
      /\ \A k \in DOMAIN b : s[Len(a) + k] = b[k]
      /\ \A k \in DOMAIN s : k \in DOMAIN a \/ \E j \in DOMAIN b : k = Len(a) + j
      /\ \A k \in DOMAIN a : \A j \in DOMAIN b : k # Len(a) + j
  BY <1>3, PrintsIn
<1>5. ASSUME NEW k \in DOMAIN s, NEW d PROVE Prints(s[k], t, d) => k = i /\ d = c
  <2>1. CASE k \in DOMAIN a
    BY <1>2, <1>4, <2>1
  <2>2. CASE \E j \in DOMAIN b : k = Len(a) + j
    BY <1>4, <2>2 DEF Nowhere
  <2> QED
    BY <1>4, <2>1, <2>2
<1>6. i \in DOMAIN s /\ Prints(s[i], t, c)
  BY <1>2, <1>4
<1>7. InOnePlace(t, s)
  BY <1>5, <1>6 DEF InOnePlace
<1> QED
  BY <1>3, <1>7

LEMMA OneInSecond ==
    ASSUME NEW t, NEW E, NEW a \in Seq(E), NEW b \in Seq(E), Nowhere(t, a), InOnePlace(t, b)
    PROVE  InOnePlace(t, a \o b)
<1>1. PICK i \in DOMAIN b : \E c :
            Prints(b[i], t, c) /\ \A j \in DOMAIN b : \A d : Prints(b[j], t, d) => j = i /\ d = c
  BY Zenon DEF InOnePlace
<1>2. PICK c : Prints(b[i], t, c) /\ \A j \in DOMAIN b : \A d : Prints(b[j], t, d) => j = i /\ d = c
  BY <1>1
<1>3. PICK s : s = a \o b
  OBVIOUS
<1>4. /\ \A k \in DOMAIN a : s[k] = a[k]
      /\ \A k \in DOMAIN b : Len(a) + k \in DOMAIN s /\ s[Len(a) + k] = b[k]
      /\ \A k \in DOMAIN s : k \in DOMAIN a \/ \E j \in DOMAIN b : k = Len(a) + j
      /\ \A k \in DOMAIN a : \A j \in DOMAIN b : k # Len(a) + j
      /\ \A k, j \in DOMAIN b : Len(a) + k = Len(a) + j => k = j
  BY <1>3, PrintsIn
<1>5. ASSUME NEW k \in DOMAIN s, NEW d PROVE Prints(s[k], t, d) => k = Len(a) + i /\ d = c
  <2>1. CASE k \in DOMAIN a
    BY <1>4, <2>1 DEF Nowhere
  <2>2. CASE \E j \in DOMAIN b : k = Len(a) + j
    <3>1. PICK j \in DOMAIN b : k = Len(a) + j
      BY <2>2
    <3>2. k = Len(a) + i <=> j = i
      BY <1>4, <3>1
    <3> QED
      BY <1>2, <1>4, <3>1, <3>2
  <2> QED
    BY <1>4, <2>1, <2>2
<1>6. Len(a) + i \in DOMAIN s /\ Prints(s[Len(a) + i], t, c)
  BY <1>2, <1>4
<1>7. InOnePlace(t, s)
  BY <1>5, <1>6 DEF InOnePlace
<1> QED
  BY <1>3, <1>7

LEMMA FlattenNowhere ==
    ASSUME NEW t, NEW E, NEW ss \in Seq(Seq(E)), \A i \in DOMAIN ss : Nowhere(t, ss[i])
    PROVE  Nowhere(t, FlattenSeq(ss))
<1>1. PICK X : X = Seq(E)
  OBVIOUS
<1> DEFINE S == {s \in Seq(X) : (\A i \in DOMAIN s : Nowhere(t, s[i])) => Nowhere(t, FlattenSeq(s))}
<1>2. <<>> \in S
  <2>1. DOMAIN <<>> = {} /\ <<>> \in Seq(X)
    OBVIOUS
  <2>2. Nowhere(t, FlattenSeq(<<>>))
    BY <2>1, FlattenEmpty DEF Nowhere
  <2> QED
    BY <2>1, <2>2
<1>3. ASSUME NEW s \in Seq(X), NEW x \in X, s \in S PROVE Append(s, x) \in S
  <2> SUFFICES ASSUME \A i \in DOMAIN Append(s, x) : Nowhere(t, Append(s, x)[i])
               PROVE  Nowhere(t, FlattenSeq(Append(s, x)))
    BY AppendHas
  <2>1. Nowhere(t, x) /\ \A i \in DOMAIN s : Nowhere(t, s[i])
    BY AppendHas
  <2>2. Nowhere(t, FlattenSeq(s))
    BY <1>3, <2>1
  <2>3. FlattenSeq(s) \in Seq(E) /\ FlattenSeq(Append(s, x)) = FlattenSeq(s) \o x /\ x \in Seq(E)
    BY <1>1, FlattenType, FlattenAppend
  <2> QED
    BY <2>1, <2>2, <2>3, Absences
<1> HIDE DEF S
<1>4. ss \in S
  BY <1>1, <1>2, <1>3, SeqInduction
<1> QED
  BY <1>4 DEF S

LEMMA FlattenOnePlace ==
    ASSUME NEW t, NEW E, NEW ss \in Seq(Seq(E)), NEW i \in DOMAIN ss, InOnePlace(t, ss[i]),
           \A j \in DOMAIN ss : j # i => Nowhere(t, ss[j])
    PROVE  InOnePlace(t, FlattenSeq(ss))
<1>1. PICK X : X = Seq(E)
  OBVIOUS
<1> DEFINE Only(s, k) == InOnePlace(t, s[k]) /\ \A j \in DOMAIN s : j # k => Nowhere(t, s[j])
           S == {s \in Seq(X) : (\E k \in DOMAIN s : Only(s, k)) => InOnePlace(t, FlattenSeq(s))}
<1>2. <<>> \in S
  <2>1. DOMAIN <<>> = {} /\ <<>> \in Seq(X)
    OBVIOUS
  <2> QED
    BY <2>1
<1>3. ASSUME NEW s \in Seq(X), NEW x \in X, s \in S PROVE Append(s, x) \in S
  <2> SUFFICES ASSUME NEW k \in DOMAIN Append(s, x), Only(Append(s, x), k)
               PROVE  InOnePlace(t, FlattenSeq(Append(s, x)))
    BY AppendHas
  <2>1. /\ FlattenSeq(s) \in Seq(E) /\ FlattenSeq(Append(s, x)) = FlattenSeq(s) \o x
        /\ x \in Seq(E) /\ s \in Seq(Seq(E))
    BY <1>1, FlattenType, FlattenAppend
  <2>2. PICK u : u = Append(s, x)
    OBVIOUS
  <2>3. /\ Len(s) + 1 \in DOMAIN u /\ u[Len(s) + 1] = x
        /\ \A j \in DOMAIN s : j \in DOMAIN u /\ j # Len(s) + 1 /\ u[j] = s[j]
        /\ \A j \in DOMAIN u : j = Len(s) + 1 \/ j \in DOMAIN s
    BY <2>2, AppendHas
  <2>4. CASE k = Len(s) + 1
    <3>1. \A j \in DOMAIN s : Nowhere(t, s[j])
      BY <2>2, <2>3, <2>4
    <3>2. InOnePlace(t, x)
      BY <2>2, <2>3, <2>4
    <3>3. Nowhere(t, FlattenSeq(s))
      BY <2>1, <3>1, FlattenNowhere
    <3> QED
      BY <2>1, <3>2, <3>3, OneInSecond
  <2>5. CASE k \in DOMAIN s
    <3>1. Nowhere(t, x) /\ Only(s, k)
      BY <2>2, <2>3, <2>5
    <3>2. InOnePlace(t, FlattenSeq(s))
      BY <1>3, <2>5, <3>1
    <3> QED
      BY <2>1, <3>1, <3>2, OneInFirst
  <2> QED
    BY <2>2, <2>3, <2>4, <2>5
<1> HIDE DEF S
<1>4. ss \in S
  BY <1>1, <1>2, <1>3, SeqInduction
<1> QED
  BY <1>4 DEF S

\* What two sequences have together.
LEMMA JoinHas ==
    ASSUME NEW E, NEW a \in Seq(E), NEW b \in Seq(E), NEW x
    PROVE  x \in ToSet(a \o b) <=> x \in ToSet(a) \/ x \in ToSet(b)
<1>1. PICK s : s = a \o b
  OBVIOUS
<1>2. /\ \A i \in DOMAIN a : i \in DOMAIN s /\ s[i] = a[i]
      /\ \A i \in DOMAIN b : Len(a) + i \in DOMAIN s /\ s[Len(a) + i] = b[i]
      /\ \A k \in DOMAIN s : k \in DOMAIN a \/ \E i \in DOMAIN b : k = Len(a) + i
  BY <1>1, PrintsIn
<1>3. \A t : x \in ToSet(t) <=> \E i \in DOMAIN t : x = t[i]
  BY DEF ToSet
<1>4. (\E k \in DOMAIN s : x = s[k]) <=> (\E i \in DOMAIN a : x = a[i]) \/ \E i \in DOMAIN b : x = b[i]
  BY <1>2
<1> QED
  BY <1>1, <1>3, <1>4

\* A concatenation has what one of its sequences has.
LEMMA FlattenHas ==
    ASSUME NEW E, NEW ss \in Seq(Seq(E)), NEW x
    PROVE  x \in ToSet(FlattenSeq(ss)) <=> \E i \in DOMAIN ss : x \in ToSet(ss[i])
<1>1. PICK X : X = Seq(E)
  OBVIOUS
<1> DEFINE S == {s \in Seq(X) : x \in ToSet(FlattenSeq(s)) <=> \E i \in DOMAIN s : x \in ToSet(s[i])}
<1>2. <<>> \in S
  <2>1. DOMAIN <<>> = {} /\ <<>> \in Seq(X)
    OBVIOUS
  <2>2. x \notin ToSet(FlattenSeq(<<>>))
    BY <2>1, FlattenEmpty DEF ToSet
  <2> QED
    BY <2>1, <2>2
<1>3. ASSUME NEW s \in Seq(X), NEW y \in X, s \in S PROVE Append(s, y) \in S
  <2>1. PICK u : u = Append(s, y)
    OBVIOUS
  <2>2. /\ u \in Seq(X) /\ Len(s) + 1 \in DOMAIN u /\ u[Len(s) + 1] = y
        /\ \A i \in DOMAIN s : i \in DOMAIN u /\ u[i] = s[i]
        /\ \A i \in DOMAIN u : i = Len(s) + 1 \/ i \in DOMAIN s
    BY <2>1, AppendHas
  <2>3. PICK a : a = FlattenSeq(s)
    OBVIOUS
  <2>4. a \in Seq(E) /\ y \in Seq(E) /\ FlattenSeq(u) = a \o y
    BY <1>1, <2>1, <2>3, FlattenType, FlattenAppend
  <2>5. x \in ToSet(a \o y) <=> x \in ToSet(a) \/ x \in ToSet(y)
    BY <2>4, JoinHas
  <2>6. x \in ToSet(a) <=> \E i \in DOMAIN s : x \in ToSet(s[i])
    BY <1>3, <2>3
  <2>7. x \in ToSet(FlattenSeq(u)) <=> \E i \in DOMAIN u : x \in ToSet(u[i])
    BY <2>2, <2>4, <2>5, <2>6
  <2> QED
    BY <2>1, <2>2, <2>7
<1> HIDE DEF S
<1>4. ss \in S
  BY <1>1, <1>2, <1>3, SeqInduction
<1> QED
  BY <1>4 DEF S

\* Words with the characters they print, and all of those.
Spelled(W) == \A w \in W : w.chars \in Seq(ToSet(w.chars))
AllChars(W) == UNION {ToSet(w.chars) : w \in W}

\* What the block of a line and the block of a row print.
LEMMA TextIn ==
    ASSUME NEW W, Spelled(W), NEW line \in Seq(W), NEW x
    PROVE  x \in ToSet(TextOf(line)) <=> \E v \in ToSet(line) : x \in ToSet(v.chars)
<1> DEFINE ss == [i \in DOMAIN line |-> line[i].chars]
<1>1. TextOf(line) = FlattenSeq(ss)
  BY DEF TextOf
<1>2. PICK n \in Nat : DOMAIN line = 1..n
  OBVIOUS
<1>3. \A i \in DOMAIN line : line[i] \in W
  OBVIOUS
<1>4. ASSUME NEW w \in W PROVE w.chars \in Seq(AllChars(W))
  <2>1. ToSet(w.chars) \subseteq AllChars(W)
    BY DEF AllChars
  <2>2. w.chars \in Seq(ToSet(w.chars))
    BY DEF Spelled
  <2> QED
    BY <2>1, <2>2, SeqMonotonic
<1>5. ss \in Seq(Seq(AllChars(W)))
  <2>1. PICK X : X = Seq(AllChars(W))
    OBVIOUS
  <2>2. \A i \in 1..n : line[i].chars \in X
    BY <1>2, <1>3, <1>4, <2>1
  <2>3. ss \in [1..n -> X]
    BY <1>2, <2>2
  <2>4. ss \in Seq(X)
    BY <2>3
  <2> QED
    BY <2>1, <2>4
<1>6. DOMAIN ss = DOMAIN line /\ \A i \in DOMAIN line : ss[i] = line[i].chars
  OBVIOUS
<1> HIDE DEF ss
<1>7. x \in ToSet(FlattenSeq(ss)) <=> \E i \in DOMAIN line : x \in ToSet(line[i].chars)
  BY <1>5, <1>6, FlattenHas
<1> QED
  BY <1>1, <1>7 DEF ToSet

LEMMA LinePrints ==
    ASSUME NEW W, Spelled(W), NEW line \in Seq(W), NEW doc, NEW i, NEW m, NEW x, NEW c
    PROVE  Prints(LineBlock(line, doc, i, m), x, c)
           <=> c = 0 /\ \E v \in ToSet(line) : x \in ToSet(v.chars)
<1>1. PICK b : b = LineBlock(line, doc, i, m)
  OBVIOUS
<1>2. b.type # "table_row" /\ b.text = TextOf(line)
  BY <1>1 DEF LineBlock
<1> QED
  BY <1>1, <1>2, TextIn DEF Prints

\* Columns of different names.
Distinct(columns) == \A c, d \in DOMAIN columns : columns[c].name = columns[d].name => c = d

LEMMA NamesFind ==
    ASSUME NEW section, Distinct(section.columns)
    PROVE  /\ \A c \in DOMAIN section.columns :
                section.columns[c].name \in NamesOf(section)
                /\ ColumnNamed(section, section.columns[c].name) = c
           /\ \A name \in NamesOf(section) : \E c \in DOMAIN section.columns : section.columns[c].name = name
<1>1. \A name : name \in NamesOf(section) <=> \E c \in DOMAIN section.columns : section.columns[c].name = name
  BY DEF NamesOf, ToSet
<1>2. ASSUME NEW c \in DOMAIN section.columns PROVE ColumnNamed(section, section.columns[c].name) = c
  <2>1. \A d \in DOMAIN section.columns : section.columns[d].name = section.columns[c].name => d = c
    BY DEF Distinct
  <2> QED
    BY <2>1, Zenon DEF ColumnNamed
<1> QED
  BY <1>1, <1>2

RowBlock(section, row) ==
    [type |-> "table_row", section |-> section.heading, cells |-> NamedCells(section, row)]

LEMMA RowPrints ==
    ASSUME NEW section, Distinct(section.columns), NEW row, NEW x, NEW name
    PROVE  Prints(RowBlock(section, row), x, name)
           <=> \E c \in DOMAIN section.columns : section.columns[c].name = name /\ x \in ToSet(row[c])
<1>1. PICK b : b = RowBlock(section, row)
  OBVIOUS
<1>2. b.type = "table_row" /\ b.cells = NamedCells(section, row)
  BY <1>1 DEF RowBlock
<1>3. /\ DOMAIN b.cells = NamesOf(section)
      /\ \A n \in NamesOf(section) : b.cells[n] = row[ColumnNamed(section, n)]
  BY <1>2 DEF NamedCells
<1>4. Prints(b, x, name) <=> name \in NamesOf(section) /\ x \in ToSet(row[ColumnNamed(section, name)])
  BY <1>2, <1>3 DEF Prints
<1>5. \A c \in DOMAIN section.columns : ColumnNamed(section, section.columns[c].name) = c
                                       /\ section.columns[c].name \in NamesOf(section)
  BY NamesFind
<1>6. \A n \in NamesOf(section) : \E c \in DOMAIN section.columns : section.columns[c].name = n
  BY NamesFind
<1> QED
  BY <1>1, <1>4, <1>5, <1>6, Zenon

-----------------------------------------------------------------------------
(* Cells                                                                   *)

OfEdges(grid) == Edges(grid.columns) /\ Edges(grid.rows)
InCell(x, grid, r, c) ==
    /\ ~x.slips
    /\ 2 * grid.columns[c] <= x.left + x.right
    /\ x.left + x.right < 2 * grid.columns[c + 1]
    /\ 2 * grid.rows[r] <= 2 * x.top + WordHeight
    /\ 2 * x.top + WordHeight < 2 * grid.rows[r + 1]

\* Words that are placed, and written in characters that are.
Typeset(W) ==
    /\ Placed(W) /\ Spelled(W)
    /\ \A w \in W : \A x \in ToSet(w.chars) : {x.left, x.right, x.top} \subseteq Int

LEMMA CharsPlaced ==
    ASSUME NEW page, Typeset(page.words)
    PROVE  CharsOn(page) = AllChars(page.words) /\ Placed(CharsOn(page))
<1> DEFINE W == page.words
           f == [w \in W |-> ToSet(w.chars)]
           F == {f[w] : w \in W}
<1>1. CharsOn(page) = UNION F /\ CharsOn(page) = AllChars(W)
  BY DEF CharsOn, AllChars
<1>2. IsFiniteSet(W)
  BY DEF Typeset, Placed
<1>3. \A w \in W : IsFiniteSet(f[w])
  BY SeqFinite DEF Typeset, Spelled
<1>4. f \in Surjection(W, F)
  BY DEF Surjection
<1>5. IsFiniteSet(F)
  <2> HIDE DEF F, f, W
  <2> QED
    BY <1>2, <1>4, FS_Surjection
<1>6. \A T \in F : IsFiniteSet(T)
  BY <1>3
<1>7. IsFiniteSet(UNION F)
  <2> HIDE DEF F
  <2> QED
    BY <1>5, <1>6, FS_UNION
<1>8. \A x \in CharsOn(page) : {x.left, x.right, x.top} \subseteq Int
  <2> SUFFICES ASSUME NEW w \in W, NEW x \in ToSet(w.chars) PROVE {x.left, x.right, x.top} \subseteq Int
    BY Zenon DEF CharsOn
  <2> QED
    BY Zenon DEF Typeset
<1> QED
  BY <1>1, <1>7, <1>8, Zenon DEF Placed

LEMMA CellHas ==
    ASSUME NEW page, Placed(CharsOn(page)), NEW grid, NEW r, NEW c
    PROVE  /\ CellOf(page, grid, r, c) \in Seq(CharsOn(page))
           /\ \A x : x \in ToSet(CellOf(page, grid, r, c)) <=> x \in CharsOn(page) /\ InCell(x, grid, r, c)
<1> DEFINE V == {x \in CharsOn(page) : InCell(x, grid, r, c)}
<1>1. CellOf(page, grid, r, c) = DownThePage(V)
  BY Zenon DEF CellOf, InCell
<1>2. V \in SUBSET CharsOn(page)
  OBVIOUS
<1>3. \A x : x \in V <=> x \in CharsOn(page) /\ InCell(x, grid, r, c)
  OBVIOUS
<1> HIDE DEF V
<1>4. Placed(V)
  BY <1>2, PlacedPart
<1>5. DownThePage(V) \in Seq(V) /\ ToSet(DownThePage(V)) = V
  BY <1>4, WordsListed, ListsAll
<1>6. DownThePage(V) \in Seq(CharsOn(page))
  BY <1>2, <1>5, SeqMonotonic
<1> QED
  BY <1>1, <1>3, <1>5, <1>6

\* Where a value lies between edges that rise.
LEMMA BetweenEdges ==
    ASSUME NEW e, Edges(e), NEW i \in 1..(Len(e) - 1), NEW x \in Int, 2 * e[i] <= x, x < 2 * e[i + 1]
    PROVE  /\ \A j \in 1..(Len(e) - 1) : 2 * e[j] <= x /\ x < 2 * e[j + 1] => i = j
           /\ 2 * e[1] \in Int /\ 2 * Last(e) \in Int /\ x \in 2 * e[1]..2 * Last(e)
<1>1. PICK n \in Nat : n = Len(e) /\ DOMAIN e = 1..n /\ \A k \in 1..n : e[k] \in Int
  BY DEF Edges
<1>2. \A k, l \in 1..n : k < l => e[k] < e[l]
  BY <1>1 DEF Edges, Rises
<1>3. \A k, l \in 1..n : k <= l => e[k] <= e[l]
  BY <1>1, <1>2
<1>4. i \in 1..(n - 1) /\ i \in 1..n /\ i + 1 \in 1..n /\ 1 \in 1..n /\ n \in 1..n /\ 1 <= i /\ i + 1 <= n
  BY <1>1
<1>5. Last(e) = e[n]
  BY <1>1 DEF Last
<1>6. e[1] <= e[i] /\ e[i + 1] <= e[n] /\ e[1] \in Int /\ e[n] \in Int /\ e[i] \in Int /\ e[i + 1] \in Int
  BY <1>1, <1>3, <1>4
<1>7. 2 * e[1] \in Int /\ 2 * Last(e) \in Int /\ x \in 2 * e[1]..2 * Last(e)
  <2>1. PICK a \in Int, b \in Int, p \in Int, q \in Int : a = e[1] /\ b = e[n] /\ p = e[i] /\ q = e[i + 1]
    BY <1>6
  <2>2. a <= p /\ q <= b /\ 2 * p <= x /\ x < 2 * q
    BY <1>6, <2>1
  <2>3. 2 * a \in Int /\ 2 * b \in Int /\ x \in 2 * a..2 * b
    BY <2>2
  <2> QED
    BY <1>5, <2>1, <2>3
<1>8. ASSUME NEW j \in 1..(n - 1), 2 * e[j] <= x, x < 2 * e[j + 1] PROVE i = j
  <2>1. j \in 1..n /\ j + 1 \in 1..n /\ e[j] \in Int /\ e[j + 1] \in Int
    BY <1>1
  <2>2. ~(i + 1 <= j)
    <3> SUFFICES ASSUME i + 1 <= j PROVE FALSE
      OBVIOUS
    <3>1. e[i + 1] <= e[j]
      BY <1>3, <1>4, <2>1
    <3> QED
      BY <1>6, <1>8, <2>1, <3>1
  <2>3. ~(j + 1 <= i)
    <3> SUFFICES ASSUME j + 1 <= i PROVE FALSE
      OBVIOUS
    <3>1. e[j + 1] <= e[i]
      BY <1>3, <1>4, <2>1
    <3> QED
      BY <1>6, <1>8, <2>1, <3>1
  <2> QED
    BY <1>4, <2>2, <2>3
<1> QED
  BY <1>1, <1>7, <1>8

\* A character is in no two cells.
LEMMA OneCell ==
    ASSUME NEW grid, OfEdges(grid), NEW x, {x.left, x.right, x.top} \subseteq Int,
           NEW r \in 1..(Len(grid.rows) - 1), NEW c \in 1..(Len(grid.columns) - 1), InCell(x, grid, r, c)
    PROVE  \A s \in 1..(Len(grid.rows) - 1), d \in 1..(Len(grid.columns) - 1) :
                InCell(x, grid, s, d) => s = r /\ d = c
<1>1. PICK p \in Int, q \in Int : p = x.left + x.right /\ q = 2 * x.top + WordHeight
  BY DEF WordHeight
<1>2. /\ 2 * grid.columns[c] <= p /\ p < 2 * grid.columns[c + 1]
      /\ 2 * grid.rows[r] <= q /\ q < 2 * grid.rows[r + 1]
  BY <1>1 DEF InCell
<1>3. Edges(grid.columns) /\ Edges(grid.rows)
  BY DEF OfEdges
<1> TAKE s \in 1..(Len(grid.rows) - 1), d \in 1..(Len(grid.columns) - 1)
<1> HAVE InCell(x, grid, s, d)
<1>4. /\ 2 * grid.columns[d] <= p /\ p < 2 * grid.columns[d + 1]
      /\ 2 * grid.rows[s] <= q /\ q < 2 * grid.rows[s + 1]
  BY <1>1 DEF InCell
<1>5. c = d
  BY <1>2, <1>3, <1>4, BetweenEdges
<1>6. r = s
  BY <1>2, <1>3, <1>4, BetweenEdges
<1> QED
  BY <1>5, <1>6

-----------------------------------------------------------------------------
(* The passes over a document                                              *)

LEMMA DocumentHas ==
    ASSUME NEW doc, IsDocument(doc)
    PROVE  /\ doc \in Seq(ToSet(doc)) /\ DOMAIN doc = 1..Len(doc) /\ Len(doc) \in Nat
           /\ \A page \in ToSet(doc) : Placed(page.words) /\ Drawn(page.rules) /\ Typeset(page.words)
           /\ \A i \in DOMAIN doc : doc[i] \in ToSet(doc)
           /\ \A i, j \in DOMAIN doc : \A w \in doc[i].words : \A x \in ToSet(w.chars) :
                \A v \in doc[j].words : x \in ToSet(v.chars) => i = j /\ v = w
<1>1. doc \in Seq(ToSet(doc))
  BY DEF IsDocument
<1>2. DOMAIN doc = 1..Len(doc) /\ Len(doc) \in Nat
  BY <1>1
<1>3. ASSUME NEW page \in ToSet(doc)
      PROVE  Placed(page.words) /\ Drawn(page.rules) /\ Typeset(page.words)
  <2>1. /\ IsFiniteSet(page.words) /\ IsFiniteSet(page.rules)
        /\ \A r \in page.rules : {r.left, r.right, r.y, r.thick} \subseteq Int
    BY Zenon DEF IsDocument
  <2>2. \A w \in page.words : /\ {w.left, w.right, w.top} \subseteq Int
                              /\ w.chars \in Seq(ToSet(w.chars))
                              /\ \A x \in ToSet(w.chars) : {x.left, x.right, x.top} \subseteq Int
    BY Zenon DEF IsDocument
  <2>3. Placed(page.words) /\ Drawn(page.rules)
    BY <2>1, <2>2, Zenon DEF Placed, Drawn
  <2> QED
    BY <2>2, <2>3, Zenon DEF Typeset, Spelled
<1>4. \A i \in DOMAIN doc : doc[i] \in ToSet(doc)
  BY DEF ToSet
<1>5. ASSUME NEW i \in DOMAIN doc, NEW j \in DOMAIN doc, NEW w \in doc[i].words,
             NEW x \in ToSet(w.chars), NEW v \in doc[j].words, x \in ToSet(v.chars)
      PROVE  i = j /\ v = w
  <2>1. (i = j /\ w = v) \/ ToSet(w.chars) \cap ToSet(v.chars) = {}
    BY Zenon DEF IsDocument
  <2>2. x \in ToSet(w.chars) \cap ToSet(v.chars)
    BY <1>5
  <2> QED
    BY <2>1, <2>2
<1> QED
  BY <1>1, <1>2, <1>3, <1>4, <1>5, Zenon

\* The edges of the grid of a page rise.
LEMMA GridOfPage ==
    ASSUME NEW doc, IsDocument(doc), NEW sectionOf, NEW i \in DOMAIN doc,
           Grids(doc, sectionOf)[i] # Null
    PROVE  OfEdges(Grids(doc, sectionOf)[i])
<1> DEFINE columns == GridColumns(doc, sectionOf)
           h == sectionOf[i]
           P == {j \in DOMAIN doc : sectionOf[j] = h}
<1>1. Grids(doc, sectionOf)[i] = IF columns[h] = Null THEN Null ELSE PageGrid(doc[i], columns[h])
  BY DEF Grids, GridsOn
<1>2. columns[h] = ColumnEdges(Chosen(doc, P))
  <2>1. h \in {sectionOf[j] : j \in DOMAIN doc}
    OBVIOUS
  <2> HIDE DEF h
  <2> QED
    BY <2>1 DEF GridColumns
<1>3. Chosen(doc, P) \in Seq(ToSet(doc))
  <2>1. P \in SUBSET DOMAIN doc
    OBVIOUS
  <2> HIDE DEF P
  <2> QED
    BY <2>1, DocumentHas, ChosenSelects
<1> HIDE DEF columns, P
<1>4. PICK e : e = columns[h]
  OBVIOUS
<1>5. PICK rows : rows = RowEdges(doc[i], e)
  OBVIOUS
<1>6. e # Null /\ Grids(doc, sectionOf)[i] = [columns |-> e, rows |-> rows]
  <2>1. e # Null /\ Grids(doc, sectionOf)[i] = PageGrid(doc[i], e)
    BY <1>1, <1>4
  <2>2. PageGrid(doc[i], e) = IF Len(rows) < 2 THEN Null ELSE [columns |-> e, rows |-> rows]
    BY <1>5, Zenon DEF PageGrid
  <2> QED
    BY <2>1, <2>2
<1>7. \A page \in ToSet(doc) : Drawn(page.rules)
  BY DocumentHas
<1>8. Edges(e)
  BY <1>2, <1>3, <1>4, <1>6, <1>7, ColumnsRise
<1>9. Edges(rows)
  BY <1>5, <1>7, DocumentHas, RowsRise
<1> QED
  BY <1>6, <1>8, <1>9 DEF OfEdges

\* A heading that is found is declared.
LEMMA HeadingFound ==
    ASSUME NEW sections, IsParseSpec(sections), NEW page, HeadingOn(page, sections) # Null
    PROVE  \E s \in ToSet(sections) : HeadingOn(page, sections) = s.heading
<1>1. PICK line : line = HeadingLine(page, sections)
  OBVIOUS
<1> DEFINE alike == {j \in DOMAIN sections : sections[j].like = LikeOf(line)}
<1>2. alike # {} /\ HeadingOn(page, sections) = sections[Max(alike)].heading
  <2>1. HeadingOn(page, sections) = Wanted(line, sections)
    BY <1>1, Zenon DEF HeadingOn
  <2>2. Wanted(line, sections) = IF alike = {} THEN Null ELSE sections[Max(alike)].heading
    BY Zenon DEF Wanted
  <2> HIDE DEF alike
  <2> QED
    BY <2>1, <2>2
<1>3. PICK n \in Nat : DOMAIN sections = 1..n
  BY DEF IsParseSpec
<1>4. alike \in SUBSET (1..n)
  BY <1>3
<1> HIDE DEF alike
<1>5. Max(alike) \in 1..n
  <2>1. SizeFold!Max(alike) \in 1..n
    BY <1>2, <1>4, SizeFold!MaxOf
  <2> QED
    BY <2>1, Zenon DEF Max, SizeFold!Max
<1> QED
  BY <1>2, <1>3, <1>5 DEF ToSet

Sectioning(of, doc, sections, n) ==
    of = [i \in 0..n |-> IF i = 0 THEN Null
                         ELSE IF HeadingOn(doc[i], sections) # Null THEN HeadingOn(doc[i], sections)
                         ELSE of[i - 1]]

LEMMA SectioningExists ==
    ASSUME NEW doc, NEW sections, NEW n \in Nat PROVE \E of : Sectioning(of, doc, sections, n)
<1> DEFINE Own(i) == HeadingOn(doc[i], sections) # Null
           Like(i) == HeadingOn(doc[i], sections)
           P == {k \in 0..n : \E f : f = [i \in 0..k |-> IF i = 0 THEN Null
                                                         ELSE IF Own(i) THEN Like(i) ELSE f[i - 1]]}
<1>1. 0 \in P
  <2> DEFINE f == [i \in 0..0 |-> Null]
  <2>1. f = [i \in 0..0 |-> IF i = 0 THEN Null ELSE IF Own(i) THEN Like(i) ELSE f[i - 1]]
    OBVIOUS
  <2>2. 0 \in 0..n
    OBVIOUS
  <2> HIDE DEF f, Own, Like
  <2> QED
    BY <2>1, <2>2
<1> HIDE DEF Own, Like
<1>2. ASSUME NEW k \in 1..n, k - 1 \in P PROVE k \in P
  <2>1. PICK f : f = [i \in 0..(k - 1) |-> IF i = 0 THEN Null ELSE IF Own(i) THEN Like(i) ELSE f[i - 1]]
    BY <1>2
  <2> DEFINE g == [i \in 0..k |-> IF i = 0 THEN Null ELSE IF Own(i) THEN Like(i) ELSE f[i - 1]]
  <2>2. \A i \in 0..(k - 1) : f[i] = IF i = 0 THEN Null ELSE IF Own(i) THEN Like(i) ELSE f[i - 1]
    BY <2>1
  <2>3. \A i \in 0..(k - 1) : g[i] = f[i]
    BY <2>2
  <2>4. \A i \in 0..k : i # 0 => i - 1 \in 0..(k - 1)
    OBVIOUS
  <2>5. \A i \in 0..k : (IF i = 0 THEN Null ELSE IF Own(i) THEN Like(i) ELSE f[i - 1])
                        = IF i = 0 THEN Null ELSE IF Own(i) THEN Like(i) ELSE g[i - 1]
    <3> HIDE DEF g
    <3> QED
      BY <2>3, <2>4
  <2>6. g = [i \in 0..k |-> IF i = 0 THEN Null ELSE IF Own(i) THEN Like(i) ELSE g[i - 1]]
    BY <2>5, Zenon
  <2> HIDE DEF g
  <2>7. k \in 0..n
    OBVIOUS
  <2> QED
    BY <2>6, <2>7
<1> HIDE DEF P
<1>3. n \in P
  BY <1>1, <1>2, UpTo
<1> QED
  BY <1>3 DEF P, Sectioning, Own, Like

\* The section of a page is one that is declared.
LEMMA SectionDeclared ==
    ASSUME NEW sections, IsParseSpec(sections), NEW doc, IsDocument(doc), NEW i \in DOMAIN doc,
           SectionOfPages(doc, sections)[i] # Null
    PROVE  SectionNamed(SectionOfPages(doc, sections)[i], sections) \in ToSet(sections)
<1> DEFINE n == Len(doc)
           of == CHOOSE of : Sectioning(of, doc, sections, n)
<1>1. n \in Nat /\ DOMAIN doc = 1..n 
  BY DocumentHas
<1>2. Sectioning(of, doc, sections, n)
  BY <1>1, SectioningExists
<1>3. SectionOfPages(doc, sections) = of
  BY Zenon DEF SectionOfPages, Sectioning
<1> HIDE DEF of, n
<1> DEFINE P == {k \in 0..n : of[k] = Null \/ \E s \in ToSet(sections) : s.heading = of[k]}
<1>4. \A k \in 0..n : of[k] = IF k = 0 THEN Null
                              ELSE IF HeadingOn(doc[k], sections) # Null THEN HeadingOn(doc[k], sections)
                              ELSE of[k - 1]
  BY <1>2, Zenon DEF Sectioning
<1>5. 0 \in P
  BY <1>1, <1>4
<1>6. ASSUME NEW k \in 1..n, k - 1 \in P PROVE k \in P
  <2>1. k \in 0..n /\ k # 0
    BY <1>1
  <2>2. CASE HeadingOn(doc[k], sections) # Null
    <3>1. \E s \in ToSet(sections) : HeadingOn(doc[k], sections) = s.heading
      BY <2>2, HeadingFound
    <3> QED
      BY <1>4, <2>1, <2>2, <3>1
  <2>3. CASE HeadingOn(doc[k], sections) = Null
    <3>1. of[k] = of[k - 1]
      BY <1>4, <2>1, <2>3
    <3> QED
      BY <1>6, <2>1, <3>1
  <2> QED
    BY <2>2, <2>3
<1> HIDE DEF P
<1>7. \A k \in 0..n : k \in P
  <2> TAKE k \in 0..n
  <2>1. k \in Nat /\ \A j \in 1..k : j \in 1..n
    BY <1>1
  <2> QED
    BY <1>5, <1>6, <2>1, UpTo
<1>8. \E s \in ToSet(sections) : s.heading = of[i]
  <2>1. i \in 0..n
    BY <1>1
  <2> QED
    BY <1>3, <1>7, <2>1 DEF P
<1> QED
  BY <1>3, <1>8, Zenon DEF SectionNamed

-----------------------------------------------------------------------------
(* The blocks of a page                                                    *)

LEMMA ChosenApart ==
    ASSUME NEW T, NEW gs \in Seq(Seq(T)), Apart(gs), NEW P \in SUBSET DOMAIN gs
    PROVE  /\ Chosen(gs, P) \in Seq(Seq(T)) /\ Apart(Chosen(gs, P))
           /\ \A k \in DOMAIN Chosen(gs, P) : \E p \in P : Chosen(gs, P)[k] = gs[p]
           /\ \A p \in P : \E k \in DOMAIN Chosen(gs, P) : Chosen(gs, P)[k] = gs[p]
<1>1. PICK X : X = Seq(T)
  OBVIOUS
<1>2. PICK c : c = Chosen(gs, P)
  OBVIOUS
<1>3. c \in Seq(X) /\ \E at : Selects(c, at, gs, P)
  BY <1>1, <1>2, ChosenSelects
<1>4. PICK at : Selects(c, at, gs, P)
  BY <1>3
<1>5. /\ Once(at) /\ DOMAIN c = DOMAIN at
      /\ \A k \in DOMAIN at : at[k] \in P /\ c[k] = gs[at[k]]
      /\ \A p \in P : \E k \in DOMAIN at : at[k] = p
  BY <1>4 DEF Selects, Lists
<1>6. Apart(c)
  <2> SUFFICES ASSUME NEW g, NEW h, NEW w, At(w, c, g), At(w, c, h) PROVE g = h
    BY Zenon DEF Apart
  <2>1. g \in DOMAIN at /\ h \in DOMAIN at /\ At(w, gs, at[g]) /\ At(w, gs, at[h])
    BY <1>5 DEF At
  <2>2. at[g] = at[h]
    BY <2>1, Zenon DEF Apart
  <2> QED
    BY <1>5, <2>1, <2>2 DEF Once
<1>7. \A k \in DOMAIN c : \E p \in P : c[k] = gs[p]
  BY <1>5, Zenon
<1>8. \A p \in P : \E k \in DOMAIN c : c[k] = gs[p]
  BY <1>5
<1>9. c \in Seq(Seq(T))
  BY <1>1, <1>3
<1> QED
  BY <1>2, <1>6, <1>7, <1>8, <1>9, Zenon

\* Only w prints x.
OfItsOwn(x, w, T) == \A v \in T : x \in ToSet(v.chars) => v = w

LineBlocks(lines, doc, i, m) == [k \in DOMAIN lines |-> LineBlock(lines[k], doc, i, m)]

LEMMA TextNowhere ==
    ASSUME NEW W, Spelled(W), NEW lines \in Seq(Seq(W)), NEW doc, NEW i, NEW m, NEW x,
           \A k \in DOMAIN lines : \A v \in ToSet(lines[k]) : x \notin ToSet(v.chars)
    PROVE  Nowhere(x, LineBlocks(lines, doc, i, m))
<1> DEFINE bs == LineBlocks(lines, doc, i, m)
<1>1. DOMAIN bs = DOMAIN lines /\ \A k \in DOMAIN lines : bs[k] = LineBlock(lines[k], doc, i, m)
  BY DEF LineBlocks
<1> HIDE DEF bs
<1>2. ASSUME NEW k \in DOMAIN bs, NEW c PROVE ~Prints(bs[k], x, c)
  <2>1. lines[k] \in Seq(W)
    BY <1>1
  <2> QED
    BY <1>1, <2>1, LinePrints
<1>3. Nowhere(x, bs)
  BY <1>2 DEF Nowhere
<1> QED
  BY <1>3 DEF bs

LEMMA TextInOnePlace ==
    ASSUME NEW W, Spelled(W), NEW lines \in Seq(Seq(W)), Apart(lines), NEW doc, NEW i, NEW m,
           NEW w \in W, NEW x \in ToSet(w.chars), OfItsOwn(x, w, W), NEW k, At(w, lines, k)
    PROVE  InOnePlace(x, LineBlocks(lines, doc, i, m))
<1> DEFINE bs == LineBlocks(lines, doc, i, m)
<1>1. DOMAIN bs = DOMAIN lines /\ \A j \in DOMAIN lines : bs[j] = LineBlock(lines[j], doc, i, m)
  BY DEF LineBlocks
<1> HIDE DEF bs
<1>2. k \in DOMAIN lines /\ w \in ToSet(lines[k])
  BY DEF At
<1>3. Prints(bs[k], x, 0)
  <2>1. lines[k] \in Seq(W)
    BY <1>2
  <2>2. Prints(LineBlock(lines[k], doc, i, m), x, 0)
    BY <1>2, <2>1, LinePrints
  <2> QED
    BY <1>1, <1>2, <2>2
<1>4. ASSUME NEW j \in DOMAIN bs, NEW d, Prints(bs[j], x, d) PROVE j = k /\ d = 0
  <2>1. lines[j] \in Seq(W) /\ Prints(LineBlock(lines[j], doc, i, m), x, d)
    BY <1>1, <1>4
  <2>2. d = 0 /\ \E v \in ToSet(lines[j]) : x \in ToSet(v.chars)
    BY <2>1, LinePrints
  <2>3. PICK v \in ToSet(lines[j]) : x \in ToSet(v.chars)
    BY <2>2
  <2>4. v \in W
    BY <2>1, <2>3, SeqFinite
  <2>5. v = w
    BY <2>3, <2>4 DEF OfItsOwn
  <2>6. At(w, lines, j)
    BY <1>1, <2>3, <2>5 DEF At
  <2>7. j = k
    BY <2>6, Zenon DEF Apart
  <2> QED
    BY <2>2, <2>7
<1>5. InOnePlace(x, bs)
  <2>1. \A j \in DOMAIN bs : \A d : Prints(bs[j], x, d) => j = k /\ d = 0
    BY <1>4
  <2>2. k \in DOMAIN bs
    BY <1>1, <1>2
  <2> QED
    BY <1>3, <2>1, <2>2, Zenon DEF InOnePlace
<1> QED
  BY <1>5 DEF bs

\* Whether a row of a table becomes a block.
Kept(rows, section, r) ==
    /\ r \in DOMAIN rows
    /\ ~(r = 1 /\ HeaderMatches(rows[1], section))
    /\ \E c \in DOMAIN rows[r] : rows[r][c] # <<>>

LEMMA RowsGiven ==
    ASSUME NEW section, NEW rows, NEW n \in Nat, DOMAIN rows = 1..n
    PROVE  \E kept : /\ Once(kept) /\ DOMAIN kept = DOMAIN RowsToBlocks(section, rows)
                     /\ \A k \in DOMAIN kept :
                            /\ Kept(rows, section, kept[k])
                            /\ RowsToBlocks(section, rows)[k] = RowBlock(section, rows[kept[k]])
                     /\ \A r : Kept(rows, section, r) => \E k \in DOMAIN kept : kept[k] = r
                     /\ \E l \in Nat : DOMAIN kept = 1..l
<1> DEFINE K == {r \in DOMAIN rows : /\ ~(r = 1 /\ HeaderMatches(rows[1], section))
                                     /\ \E c \in DOMAIN rows[r] : rows[r][c] # <<>>}
           kept == Ascending(K)
<1>1. RowsToBlocks(section, rows)
      = [i \in DOMAIN kept |->
            [type |-> "table_row", section |-> section.heading,
             cells |-> NamedCells(section, rows[kept[i]])]]
  BY Zenon DEF RowsToBlocks
<1>2. \A r : r \in K <=> Kept(rows, section, r)
  BY DEF Kept
<1>3. K \subseteq 1..n
  OBVIOUS
<1> HIDE DEF K
<1>4. K \in SUBSET Int /\ IsFiniteSet(K)
  <2>1. IsFiniteSet(1..n)
    BY FS_Interval
  <2>2. IsFiniteSet(K)
    BY <1>3, <2>1, FS_Subset
  <2>3. K \subseteq Int
    BY <1>3
  <2> QED
    BY <2>2, <2>3
<1> HIDE DEF kept
<1>5. Lists(kept, K)
  BY <1>4, AscendingLists DEF kept
<1>6. kept \in Seq(K) /\ ToSet(kept) = K /\ Once(kept)
  BY <1>5 DEF Lists
<1>7. \A k \in DOMAIN kept : kept[k] \in K
  BY <1>6
<1>8. \A r \in K : \E k \in DOMAIN kept : kept[k] = r
  BY <1>6 DEF ToSet
<1>9. \E l \in Nat : DOMAIN kept = 1..l
  BY <1>6
<1>10. DOMAIN kept = DOMAIN RowsToBlocks(section, rows)
  BY <1>1
<1>11. \A k \in DOMAIN kept : RowsToBlocks(section, rows)[k] = RowBlock(section, rows[kept[k]])
  BY <1>1, Zenon DEF RowBlock
<1> QED
  BY <1>2, <1>6, <1>7, <1>8, <1>9, <1>10, <1>11, Zenon


\* The rows and the columns of a grid, and a table of as many columns as declared.
RowsIn(grid) == 1..(Len(grid.rows) - 1)
ColumnsIn(grid) == 1..(Len(grid.columns) - 1)
Fits(page, grid, section) ==
    /\ Typeset(page.words) /\ OfEdges(grid)
    /\ DOMAIN section.columns = ColumnsIn(grid) /\ Distinct(section.columns)

LEMMA FirstNumbers == ASSUME NEW e, Edges(e) PROVE \E n \in Nat : 1..(Len(e) - 1) = 1..n
<1>1. PICK l \in Nat : l = Len(e)
  BY DEF Edges
<1>2. CASE l = 0
  <2>1. 1..(l - 1) = 1..0
    BY <1>2
  <2> QED
    BY <1>1, <2>1
<1>3. CASE l # 0
  <2>1. l - 1 \in Nat
    BY <1>3
  <2> QED
    BY <1>1, <2>1
<1> QED
  BY <1>2, <1>3

LEMMA GridRows ==
    ASSUME NEW page, Typeset(page.words), NEW grid, OfEdges(grid), NEW rows,
           rows = ExtractGridRows(page, grid)
    PROVE  /\ DOMAIN rows = RowsIn(grid) /\ \E n \in Nat : DOMAIN rows = 1..n
           /\ \A r \in RowsIn(grid) : DOMAIN rows[r] = ColumnsIn(grid) /\ rows[r] \in Seq(Seq(CharsOn(page)))
           /\ \A r \in RowsIn(grid), c \in ColumnsIn(grid) : \A x :
                x \in ToSet(rows[r][c]) <=> x \in CharsOn(page) /\ InCell(x, grid, r, c)
<1>1. rows = [r \in RowsIn(grid) |-> [c \in ColumnsIn(grid) |-> CellOf(page, grid, r, c)]]
  BY Zenon DEF ExtractGridRows, RowsIn, ColumnsIn
<1>2. \E n \in Nat : RowsIn(grid) = 1..n
  BY FirstNumbers DEF OfEdges, RowsIn
<1>3. DOMAIN rows = RowsIn(grid)
  BY <1>1
<1>4. \A r \in RowsIn(grid) : rows[r] = [c \in ColumnsIn(grid) |-> CellOf(page, grid, r, c)]
  BY <1>1
<1>5. \A r \in RowsIn(grid) : DOMAIN rows[r] = ColumnsIn(grid)
  BY <1>4
<1>6. \A r \in RowsIn(grid), c \in ColumnsIn(grid) : rows[r][c] = CellOf(page, grid, r, c)
  BY <1>4
<1>7. PICK E : E = CharsOn(page) /\ Placed(E)
  BY CharsPlaced
<1>8. \A r \in RowsIn(grid), c \in ColumnsIn(grid) :
            /\ rows[r][c] \in Seq(E)
            /\ \A x : x \in ToSet(rows[r][c]) <=> x \in E /\ InCell(x, grid, r, c)
  BY <1>6, <1>7, CellHas
<1>9. ASSUME NEW r \in RowsIn(grid) PROVE rows[r] \in Seq(Seq(E))
  <2>1. PICK X : X = Seq(E)
    OBVIOUS
  <2>2. PICK k \in Nat : ColumnsIn(grid) = 1..k
    BY FirstNumbers DEF OfEdges, ColumnsIn
  <2>3. PICK row : row = rows[r]
    OBVIOUS
  <2>4. row = [c \in 1..k |-> row[c]] /\ \A c \in 1..k : row[c] \in X
    BY <1>4, <1>8, <2>1, <2>2, <2>3
  <2>5. row \in Seq(X)
    BY <2>4
  <2> QED
    BY <2>1, <2>3, <2>5
<1> QED
  BY <1>2, <1>3, <1>5, <1>7, <1>8, <1>9, Zenon

\* What a row has in all is what its cells have.
LEMMA RowHas ==
    ASSUME NEW page, Typeset(page.words), NEW grid, OfEdges(grid), NEW rows,
           rows = ExtractGridRows(page, grid), NEW r \in RowsIn(grid), NEW x
    PROVE  x \in ToSet(FlattenSeq(rows[r]))
           <=> \E c \in ColumnsIn(grid) : x \in CharsOn(page) /\ InCell(x, grid, r, c)
<1>1. PICK row : row = rows[r]
  OBVIOUS
<1>2. DOMAIN row = ColumnsIn(grid) /\ row \in Seq(Seq(CharsOn(page)))
  BY <1>1, GridRows
<1>3. \A c \in ColumnsIn(grid) : x \in ToSet(row[c]) <=> x \in CharsOn(page) /\ InCell(x, grid, r, c)
  BY <1>1, GridRows
<1>4. x \in ToSet(FlattenSeq(row)) <=> \E c \in DOMAIN row : x \in ToSet(row[c])
  BY <1>2, FlattenHas
<1> QED
  BY <1>1, <1>2, <1>3, <1>4

LEMMA ReturnedHas ==
    ASSUME NEW page, Typeset(page.words), NEW grid, OfEdges(grid), NEW rows,
           rows = ExtractGridRows(page, grid), NEW x
    PROVE  x \in ReturnedBy(rows)
           <=> \E r \in RowsIn(grid), c \in ColumnsIn(grid) : x \in CharsOn(page) /\ InCell(x, grid, r, c)
<1>1. DOMAIN rows = RowsIn(grid)
  BY GridRows
<1>2. x \in ReturnedBy(rows) <=> \E r \in RowsIn(grid) : x \in ToSet(FlattenSeq(rows[r]))
  BY <1>1 DEF ReturnedBy
<1>3. \A r \in RowsIn(grid) : x \in ToSet(FlattenSeq(rows[r]))
            <=> \E c \in ColumnsIn(grid) : x \in CharsOn(page) /\ InCell(x, grid, r, c)
  BY RowHas
<1> QED
  BY <1>2, <1>3

LEMMA TableNowhere ==
    ASSUME NEW page, NEW grid, NEW section, Fits(page, grid, section), NEW rows,
           rows = ExtractGridRows(page, grid), NEW x,
           \A r \in RowsIn(grid), c \in ColumnsIn(grid) :
                ~(x \in CharsOn(page) /\ InCell(x, grid, r, c) /\ Kept(rows, section, r))
    PROVE  Nowhere(x, RowsToBlocks(section, rows))
<1>1. /\ DOMAIN rows = RowsIn(grid) /\ \E n \in Nat : DOMAIN rows = 1..n
      /\ \A r \in RowsIn(grid), c \in ColumnsIn(grid) : \A y :
            y \in ToSet(rows[r][c]) <=> y \in CharsOn(page) /\ InCell(y, grid, r, c)
  BY GridRows DEF Fits
<1>2. PICK bs : bs = RowsToBlocks(section, rows)
  OBVIOUS
<1>3. PICK kept : /\ Once(kept) /\ DOMAIN kept = DOMAIN bs
                  /\ \A k \in DOMAIN kept :
                        /\ Kept(rows, section, kept[k])
                        /\ bs[k] = RowBlock(section, rows[kept[k]])
                  /\ \A r : Kept(rows, section, r) => \E k \in DOMAIN kept : kept[k] = r
  BY <1>1, <1>2, RowsGiven
<1>4. ASSUME NEW k \in DOMAIN bs, NEW d, Prints(bs[k], x, d) PROVE FALSE
  <2>1. PICK r : r = kept[k] /\ Kept(rows, section, r) /\ r \in RowsIn(grid)
    BY <1>1, <1>3 DEF Kept
  <2>2. Distinct(section.columns)
    BY DEF Fits
  <2>3. \E c \in DOMAIN section.columns : section.columns[c].name = d /\ x \in ToSet(rows[r][c])
    <3>1. bs[k] = RowBlock(section, rows[r])
      BY <1>3, <2>1
    <3> QED
      BY <1>4, <2>2, <3>1, RowPrints
  <2>4. PICK c \in ColumnsIn(grid) : x \in ToSet(rows[r][c])
    BY <2>3 DEF Fits
  <2> QED
    BY <1>1, <2>1, <2>4
<1> QED
  BY <1>2, <1>4 DEF Nowhere

LEMMA TableInOnePlace ==
    ASSUME NEW page, NEW grid, NEW section, Fits(page, grid, section), NEW rows,
           rows = ExtractGridRows(page, grid), NEW x \in CharsOn(page),
           NEW r \in RowsIn(grid), NEW c \in ColumnsIn(grid), InCell(x, grid, r, c),
           Kept(rows, section, r)
    PROVE  InOnePlace(x, RowsToBlocks(section, rows))
<1>1. /\ DOMAIN rows = RowsIn(grid) /\ \E n \in Nat : DOMAIN rows = 1..n
      /\ \A s \in RowsIn(grid), d \in ColumnsIn(grid) : \A y :
            y \in ToSet(rows[s][d]) <=> y \in CharsOn(page) /\ InCell(y, grid, s, d)
  BY GridRows DEF Fits
<1>2. PICK bs : bs = RowsToBlocks(section, rows)
  OBVIOUS
<1>3. PICK kept : /\ Once(kept) /\ DOMAIN kept = DOMAIN bs
                  /\ \A k \in DOMAIN kept :
                        /\ Kept(rows, section, kept[k])
                        /\ bs[k] = RowBlock(section, rows[kept[k]])
                  /\ \A s : Kept(rows, section, s) => \E k \in DOMAIN kept : kept[k] = s
  BY <1>1, <1>2, RowsGiven
<1>4. PICK k \in DOMAIN kept : kept[k] = r
  BY <1>3
<1>5. PICK name : name = section.columns[c].name
  OBVIOUS
<1>6. {x.left, x.right, x.top} \subseteq Int /\ OfEdges(grid) /\ Distinct(section.columns)
      /\ DOMAIN section.columns = ColumnsIn(grid)
  BY CharsPlaced DEF Fits, Placed
<1>7. Prints(bs[k], x, name)
  <2>1. c \in DOMAIN section.columns /\ x \in ToSet(rows[r][c])
    BY <1>1, <1>6
  <2>2. bs[k] = RowBlock(section, rows[r])
    BY <1>3, <1>4
  <2> QED
    BY <1>5, <1>6, <2>1, <2>2, RowPrints
<1>8. ASSUME NEW j \in DOMAIN bs, NEW n, Prints(bs[j], x, n) PROVE j = k /\ n = name
  <2>1. PICK s : s = kept[j] /\ s \in RowsIn(grid)
    BY <1>1, <1>3 DEF Kept
  <2>2. \E d \in DOMAIN section.columns : section.columns[d].name = n /\ x \in ToSet(rows[s][d])
    <3>1. bs[j] = RowBlock(section, rows[s])
      BY <1>3, <2>1
    <3> QED
      BY <1>6, <1>8, <3>1, RowPrints
  <2>3. PICK d \in ColumnsIn(grid) : section.columns[d].name = n /\ x \in ToSet(rows[s][d])
    BY <1>6, <2>2
  <2>4. InCell(x, grid, s, d)
    BY <1>1, <2>1, <2>3
  <2>5. s = r /\ d = c
    BY <1>6, <2>1, <2>4, OneCell DEF RowsIn, ColumnsIn
  <2>6. j = k
    BY <1>3, <1>4, <2>1, <2>5 DEF Once
  <2> QED
    BY <1>5, <2>3, <2>5, <2>6
<1>9. \A j \in DOMAIN bs : \A n : Prints(bs[j], x, n) => j = k /\ n = name
  BY <1>8
<1>10. k \in DOMAIN bs
  BY <1>3
<1>11. InOnePlace(x, bs)
  BY <1>7, <1>9, <1>10, Zenon DEF InOnePlace
<1> QED
  BY <1>2, <1>11

\* A row with a character that becomes no block is the header.
LEMMA HeaderHas ==
    ASSUME NEW page, NEW grid, NEW section, Fits(page, grid, section), NEW rows,
           rows = ExtractGridRows(page, grid), NEW x \in CharsOn(page),
           NEW r \in RowsIn(grid), NEW c \in ColumnsIn(grid), InCell(x, grid, r, c),
           ~Kept(rows, section, r)
    PROVE  InHeader(x, rows, section)
<1>1. /\ DOMAIN rows = RowsIn(grid) /\ DOMAIN rows[r] = ColumnsIn(grid)
      /\ x \in ToSet(rows[r][c])
  BY GridRows DEF Fits
<1>2. PICK cell : cell = rows[r][c] /\ x \in ToSet(cell)
  BY <1>1
<1>3. cell # <<>>
  <2>1. ToSet(<<>>) = {}
    BY DEF ToSet
  <2> QED
    BY <1>2, <2>1
<1>4. r = 1 /\ HeaderMatches(rows[1], section)
  BY <1>1, <1>2, <1>3 DEF Kept
<1>5. x \in ToSet(FlattenSeq(rows[r]))
  BY RowHas DEF Fits
<1> QED
  BY <1>4, <1>5 DEF InHeader

\* Of a glyph that no word outside the table is returned for, all that is drawn in
\* it is returned.
LEMMA AllReturned ==
    ASSUME NEW page, NEW grid, NEW section, Fits(page, grid, section), NEW rows,
           rows = ExtractGridRows(page, grid), Covered(DrawnIn(page, grid), ReturnedBy(rows)),
           NEW x \in DrawnIn(page, grid), ~MadeUpFor(x, page, grid, rows)
    PROVE  x \in ReturnedBy(rows)
<1> DEFINE D == OfGlyph(DrawnIn(page, grid), x.glyph)
           R == OfGlyph(ReturnedBy(rows), x.glyph)
<1>1. Cardinality(D) <= Cardinality(R)
  <2>1. x.glyph \in {y.glyph : y \in DrawnIn(page, grid)}
    OBVIOUS
  <2> QED
    BY <2>1, Zenon DEF Covered
<1>2. IsFiniteSet(D)
  <2>1. IsFiniteSet(CharsOn(page))
    BY CharsPlaced DEF Fits, Placed
  <2>2. D \subseteq CharsOn(page)
    BY DEF OfGlyph, DrawnIn, CharsOn
  <2> HIDE DEF D
  <2> QED
    BY <2>1, <2>2, FS_Subset
<1>3. ASSUME NEW y \in R PROVE y \in D
  <2>1. y \in ReturnedBy(rows) /\ y.glyph = x.glyph
    BY DEF OfGlyph
  <2>2. y \in CharsOn(page)
    BY <2>1, ReturnedHas DEF Fits
  <2>3. PICK w \in page.words : y \in ToSet(w.chars)
    BY <2>2 DEF CharsOn
  <2>4. y \in OfGlyph(ToSet(w.chars), x.glyph) \cap ReturnedBy(rows)
    BY <2>1, <2>3 DEF OfGlyph
  <2>5. Inside(<<w>>, grid)
    BY <2>4 DEF MadeUpFor
  <2>6. y \in DrawnIn(page, grid)
    BY <2>3, <2>5 DEF DrawnIn
  <2> QED
    BY <2>1, <2>6 DEF OfGlyph
<1>4. x \in D
  BY DEF OfGlyph
<1> SUFFICES ASSUME x \notin ReturnedBy(rows) PROVE FALSE
  OBVIOUS
<1>5. x \notin R
  BY DEF OfGlyph
<1> HIDE DEF D, R
<1>6. R \in SUBSET (D \ {x})
  BY <1>3, <1>5
<1>7. IsFiniteSet(D \ {x}) /\ Cardinality(D \ {x}) = Cardinality(D) - 1
  BY <1>2, <1>4, FS_RemoveElement
<1>8. IsFiniteSet(R) /\ Cardinality(R) <= Cardinality(D \ {x})
  BY <1>6, <1>7, FS_Subset
<1>9. Cardinality(D) \in Nat /\ Cardinality(R) \in Nat
  BY <1>2, <1>8, FS_CardinalityType
<1> QED
  BY <1>1, <1>7, <1>8, <1>9

LEMMA MeasuredIs ==
    ASSUME NEW doc, NEW sections
    PROVE  /\ Measured(doc, sections).sections = sections
           /\ Measured(doc, sections).sectionOf = SectionOfPages(doc, sections)
           /\ Measured(doc, sections).grid = Grids(doc, SectionOfPages(doc, sections))
           /\ Measured(doc, sections).outside = Outside(doc, Measured(doc, sections).grid)
           /\ Measured(doc, sections).furniture = RunningLines(Measured(doc, sections).outside)
           /\ DOMAIN Measured(doc, sections).grid = DOMAIN doc
<1> DEFINE so == SectionOfPages(doc, sections)
           grid == Grids(doc, so)
           out == Outside(doc, grid)
           m == Measured(doc, sections)
<1>1. m = [sections |-> sections, sectionOf |-> so, grid |-> grid, outside |-> out,
           furniture |-> RunningLines(out)]
  BY Zenon DEF Measured, InSections, OnGrid, Furnished
<1>2. DOMAIN grid = DOMAIN doc
  BY DEF Grids, GridsOn
<1> HIDE DEF so, grid, out, m
<1>3. /\ m.sections = sections /\ m.sectionOf = so /\ m.grid = grid
      /\ m.outside = out /\ m.furniture = RunningLines(out)
  BY <1>1
<1> QED
  BY <1>2, <1>3, Zenon DEF so, grid, out, m

\* The lines outside the table of a page.
OutsideTable(page, g) ==
    LET lines == PageLines(page)
    IN Chosen(lines, {k \in DOMAIN lines : g = Null \/ ~Inside(lines[k], g)})

LEMMA OutsideIs ==
    ASSUME NEW doc, NEW grid, NEW i \in DOMAIN doc
    PROVE  Outside(doc, grid)[i] = OutsideTable(doc[i], grid[i])
  BY DEF Outside, OutsideTable

LEMMA PageOutside ==
    ASSUME NEW page, Placed(page.words), NEW g
    PROVE  /\ OutsideTable(page, g) \in Seq(Seq(page.words)) /\ Apart(OutsideTable(page, g))
           /\ \A k \in DOMAIN OutsideTable(page, g) : \E p \in DOMAIN PageLines(page) :
                /\ OutsideTable(page, g)[k] = PageLines(page)[p]
                /\ g = Null \/ ~Inside(PageLines(page)[p], g)
           /\ \A p \in DOMAIN PageLines(page) : (g = Null \/ ~Inside(PageLines(page)[p], g)) =>
                \E k \in DOMAIN OutsideTable(page, g) : OutsideTable(page, g)[k] = PageLines(page)[p]
<1> DEFINE ls == PageLines(page)
           P == {p \in DOMAIN ls : g = Null \/ ~Inside(ls[p], g)}
           o == OutsideTable(page, g)
<1>1. o = Chosen(ls, P)
  BY DEF OutsideTable
<1> HIDE DEF o, ls
<1>2. ls \in Seq(Seq(page.words)) /\ Apart(ls)
  BY LinesOfPage DEF Parts, ls
<1>3. \A p : p \in P <=> p \in DOMAIN ls /\ (g = Null \/ ~Inside(ls[p], g))
  OBVIOUS
<1>4. P \in SUBSET DOMAIN ls
  OBVIOUS
<1> HIDE DEF P
<1>5. /\ o \in Seq(Seq(page.words)) /\ Apart(o)
      /\ \A k \in DOMAIN o : \E p \in P : o[k] = ls[p]
      /\ \A p \in P : \E k \in DOMAIN o : o[k] = ls[p]
  BY <1>1, <1>2, <1>4, ChosenApart
<1>6. \A k \in DOMAIN o : \E p \in DOMAIN ls : o[k] = ls[p] /\ (g = Null \/ ~Inside(ls[p], g))
  BY <1>3, <1>5, Zenon
<1>7. \A p \in DOMAIN ls : (g = Null \/ ~Inside(ls[p], g)) => \E k \in DOMAIN o : o[k] = ls[p]
  BY <1>3, <1>5, Zenon
<1> QED
  BY <1>5, <1>6, <1>7, Zenon DEF o, ls

LEMMA LinesOutside ==
    ASSUME NEW doc, IsDocument(doc), NEW grid, NEW i \in DOMAIN doc, NEW l \in ToSet(Outside(doc, grid)[i])
    PROVE  l \in ToSet(PageLines(doc[i]))
<1>1. PICK page : page = doc[i] /\ Placed(page.words)
  BY DocumentHas
<1>2. PICK g : g = grid[i]
  OBVIOUS
<1>3. PICK o : o = OutsideTable(page, g)
  OBVIOUS
<1>4. o = Outside(doc, grid)[i]
  BY <1>1, <1>2, <1>3, OutsideIs
<1>5. \A k \in DOMAIN o : \E p \in DOMAIN PageLines(page) : o[k] = PageLines(page)[p]
  BY <1>1, <1>3, PageOutside
<1>6. PICK k \in DOMAIN o : l = o[k]
  BY <1>4 DEF ToSet
<1> QED
  BY <1>1, <1>5, <1>6 DEF ToSet

\* What is taken for furniture is on a second page.
LEMMA FurnitureRecurs ==
    ASSUME NEW doc, IsDocument(doc), NEW grid, NEW line,
           MaskedOf(line) \in RunningLines(Outside(doc, grid))
    PROVE  Recurs(doc, line)
<1> DEFINE outside == Outside(doc, grid)
           masked == MaskedOf(line)
           prints(i) == {MaskedOf(l) : l \in ToSet(outside[i])}
           A == {i \in DOMAIN outside : masked \in prints(i)}
           B == {i \in DOMAIN doc : masked \in {MaskedOf(l) : l \in ToSet(PageLines(doc[i]))}}
<1>1. Cardinality(A) >= RunningQuorum(Len(outside))
  <2>1. RunningLines(outside)
        = {x \in UNION {prints(i) : i \in DOMAIN outside} :
                Cardinality({i \in DOMAIN outside : x \in prints(i)}) >= RunningQuorum(Len(outside))}
    BY Zenon DEF RunningLines
  <2> HIDE DEF prints, outside
  <2>2. \A x \in RunningLines(outside) :
            Cardinality({i \in DOMAIN outside : x \in prints(i)}) >= RunningQuorum(Len(outside))
    BY <2>1
  <2> HIDE DEF masked
  <2> QED
    BY <2>2 DEF outside, masked
<1>2. DOMAIN outside = DOMAIN doc /\ DOMAIN doc = 1..Len(doc) /\ Len(doc) \in Nat
  BY DocumentHas DEF Outside
<1>3. Len(outside) \in Nat
  <2>1. PICK n \in Nat : n = Len(doc)
    BY <1>2
  <2>2. outside \in Seq(ToSet(outside))
    <3>1. outside = [i \in 1..n |-> outside[i]]
      BY <1>2, <2>1, Zenon DEF Outside
    <3>2. \A i \in 1..n : outside[i] \in ToSet(outside)
      BY <1>2, <2>1, Zenon DEF ToSet
    <3> HIDE DEF outside
    <3>3. outside \in [1..n -> ToSet(outside)]
      BY <3>1, <3>2
    <3> QED
      BY <3>3
  <2> HIDE DEF outside
  <2> QED
    BY <2>2
<1>4. A \subseteq B
  <2> SUFFICES ASSUME NEW i \in DOMAIN doc, NEW l \in ToSet(outside[i]), MaskedOf(l) = masked
               PROVE  \E x \in ToSet(PageLines(doc[i])) : MaskedOf(x) = masked
    BY <1>2
  <2>1. l \in ToSet(PageLines(doc[i]))
    BY LinesOutside
  <2> QED
    BY <2>1
<1>5. IsFiniteSet(B)
  <2>1. IsFiniteSet(1..Len(doc)) /\ B \subseteq 1..Len(doc)
    BY <1>2, FS_Interval
  <2> HIDE DEF B
  <2> QED
    BY <2>1, FS_Subset
<1>6. Recurs(doc, line) <=> Cardinality(B) > 1
  BY Zenon DEF Recurs
<1> HIDE DEF A, B, outside
<1>7. Cardinality(A) <= Cardinality(B) /\ Cardinality(A) \in Nat /\ Cardinality(B) \in Nat
  BY <1>4, <1>5, FS_Subset, FS_CardinalityType
<1>8. RunningQuorum(Len(outside)) >= 2
  <2>1. (4 * Len(outside)) \div 5 \in Int
    BY <1>3
  <2> QED
    BY <2>1 DEF RunningQuorum, AtLeast
<1>9. RunningQuorum(Len(outside)) \in Int
  <2>1. (4 * Len(outside)) \div 5 \in Int
    BY <1>3
  <2> QED
    BY <2>1 DEF RunningQuorum, AtLeast
<1> QED
  BY <1>1, <1>6, <1>7, <1>8, <1>9

Printed(i, m) ==
    Chosen(m.outside[i], {k \in DOMAIN m.outside[i] : MaskedOf(m.outside[i][k]) \notin m.furniture})
SectionOn(i, m) == SectionNamed(m.sectionOf[i], m.sections)
TableOf(doc, i, m) == RowsToBlocks(SectionOn(i, m), ExtractGridRows(doc[i], m.grid[i]))

LEMMA PageBlocksAre ==
    ASSUME NEW doc, NEW i, NEW m
    PROVE  PageBlocks(doc, i, m) = LineBlocks(Printed(i, m), doc, i, m) \o TableOf(doc, i, m)
  BY Zenon DEF PageBlocks, LineBlocks, Printed, TableOf, SectionOn

\* A document in the structure that a parse block declares, and what is measured in it.
Reads(doc, sections, m) ==
    /\ IsDocument(doc) /\ IsParseSpec(sections)
    /\ m = Measured(doc, sections) /\ AsDeclared(doc, m)

LEMMA PageFits ==
    ASSUME NEW doc, NEW sections, NEW m, Reads(doc, sections, m), NEW i \in DOMAIN doc
    PROVE  /\ Fits(doc[i], m.grid[i], SectionOn(i, m))
           /\ SectionOn(i, m) \in ToSet(sections)
           /\ m.grid[i] # Null
           /\ Covered(DrawnIn(doc[i], m.grid[i]), ReturnedBy(ExtractGridRows(doc[i], m.grid[i])))
<1>1. /\ m.sectionOf[i] # Null /\ Null \notin ToSet(m.grid)
      /\ Covered(DrawnIn(doc[i], m.grid[i]), ReturnedBy(ExtractGridRows(doc[i], m.grid[i])))
      /\ Len(m.grid[i].columns) - 1 = Len(SectionOn(i, m).columns)
  BY Zenon DEF Reads, AsDeclared, SectionOn
<1>2. /\ m.sectionOf = SectionOfPages(doc, sections) /\ m.sections = sections
      /\ m.grid = Grids(doc, SectionOfPages(doc, sections)) /\ DOMAIN m.grid = DOMAIN doc
  BY MeasuredIs DEF Reads
<1>3. m.grid[i] # Null
  BY <1>1, <1>2 DEF ToSet
<1>4. PICK s : s = SectionOn(i, m)
  OBVIOUS
<1>5. s \in ToSet(sections)
  BY <1>1, <1>2, <1>4, SectionDeclared DEF Reads, SectionOn
<1>6. s.columns \in Seq(ToSet(s.columns)) /\ Distinct(s.columns)
  BY <1>5, Zenon DEF Reads, IsParseSpec, Distinct
<1>7. OfEdges(m.grid[i])
  BY <1>2, <1>3, GridOfPage DEF Reads
<1>8. DOMAIN s.columns = ColumnsIn(m.grid[i])
  BY <1>1, <1>4, <1>6 DEF ColumnsIn
<1>9. Typeset(doc[i].words)
  BY DocumentHas DEF Reads
<1> QED
  BY <1>1, <1>3, <1>4, <1>5, <1>6, <1>7, <1>8, <1>9 DEF Fits

LEMMA PrintedLines ==
    ASSUME NEW doc, NEW sections, NEW m, Reads(doc, sections, m), NEW i \in DOMAIN doc
    PROVE  /\ Printed(i, m) \in Seq(Seq(doc[i].words)) /\ Apart(Printed(i, m))
           /\ \A k \in DOMAIN Printed(i, m) : \E p \in DOMAIN PageLines(doc[i]) :
                /\ Printed(i, m)[k] = PageLines(doc[i])[p]
                /\ ~Inside(PageLines(doc[i])[p], m.grid[i])
                /\ MaskedOf(PageLines(doc[i])[p]) \notin m.furniture
           /\ \A p \in DOMAIN PageLines(doc[i]) :
                /\ ~Inside(PageLines(doc[i])[p], m.grid[i])
                /\ MaskedOf(PageLines(doc[i])[p]) \notin m.furniture
                => \E k \in DOMAIN Printed(i, m) : Printed(i, m)[k] = PageLines(doc[i])[p]
<1>1. PICK page : page = doc[i] /\ Placed(page.words)
  BY DocumentHas DEF Reads
<1>2. PICK g : g = m.grid[i] /\ g # Null
  BY PageFits
<1>3. PICK F : F = m.furniture
  OBVIOUS
<1> DEFINE o == m.outside[i]
           ls == PageLines(page)
           P == {k \in DOMAIN o : MaskedOf(o[k]) \notin F}
           c == Printed(i, m)
<1>4. o = OutsideTable(page, g)
  BY <1>1, <1>2, MeasuredIs, OutsideIs DEF Reads
<1>5. c = Chosen(o, P)
  BY <1>3, Zenon DEF Printed
<1> HIDE DEF o, c, ls
<1>6. /\ o \in Seq(Seq(page.words)) /\ Apart(o)
      /\ \A k \in DOMAIN o : \E p \in DOMAIN ls : o[k] = ls[p] /\ (g = Null \/ ~Inside(ls[p], g))
      /\ \A p \in DOMAIN ls : (g = Null \/ ~Inside(ls[p], g)) => \E k \in DOMAIN o : o[k] = ls[p]
  BY <1>1, <1>4, PageOutside DEF ls
<1>7. P \in SUBSET DOMAIN o /\ \A k : k \in P <=> k \in DOMAIN o /\ MaskedOf(o[k]) \notin F
  OBVIOUS
<1> HIDE DEF P
<1>8. /\ c \in Seq(Seq(page.words)) /\ Apart(c)
      /\ \A k \in DOMAIN c : \E p \in P : c[k] = o[p]
      /\ \A p \in P : \E k \in DOMAIN c : c[k] = o[p]
  BY <1>5, <1>6, <1>7, ChosenApart
<1>9. ASSUME NEW k \in DOMAIN c
      PROVE  \E p \in DOMAIN ls : c[k] = ls[p] /\ ~Inside(ls[p], g) /\ MaskedOf(ls[p]) \notin F
  <2>1. PICK q \in P : c[k] = o[q]
    BY <1>8
  <2>2. q \in DOMAIN o /\ MaskedOf(o[q]) \notin F
    BY <1>7
  <2>3. PICK p \in DOMAIN ls : o[q] = ls[p] /\ (g = Null \/ ~Inside(ls[p], g))
    BY <1>6, <2>2
  <2> QED
    BY <1>2, <2>1, <2>2, <2>3
<1>10. ASSUME NEW p \in DOMAIN ls, ~Inside(ls[p], g), MaskedOf(ls[p]) \notin F
       PROVE  \E k \in DOMAIN c : c[k] = ls[p]
  <2>1. PICK q \in DOMAIN o : o[q] = ls[p]
    BY <1>6, <1>10
  <2>2. q \in P
    BY <1>7, <1>10, <2>1
  <2> QED
    BY <1>8, <2>1, <2>2
<1> QED
  BY <1>1, <1>2, <1>3, <1>8, <1>9, <1>10, Zenon DEF c, ls

\* The blocks of the lines and those of the rows are of one kind.
\* The blocks of the lines and those of the rows are of one kind.
Types == {"heading", "paragraph", "table_row"}
LEMMA PageKinds ==
    ASSUME NEW doc, NEW sections, NEW m, Reads(doc, sections, m), NEW i \in DOMAIN doc
    PROVE  \E E : /\ LineBlocks(Printed(i, m), doc, i, m) \in Seq(E)
                  /\ TableOf(doc, i, m) \in Seq(E)
                  /\ \A b \in E : b.type \in Types
<1>1. PICK lines : lines = Printed(i, m)
  OBVIOUS
<1>3. \E n \in Nat : DOMAIN lines = 1..n
  <2>1. lines \in Seq(Seq(doc[i].words))
    BY <1>1, PageFits, PrintedLines
  <2> QED
    BY <2>1
<1>4. PICK n \in Nat : DOMAIN lines = 1..n
  BY <1>3
<1> DEFINE a == LineBlocks(lines, doc, i, m)
           A == {LineBlock(lines[k], doc, i, m) : k \in 1..n}
<1>5. a \in Seq(A)
  <2>1. a = [k \in 1..n |-> LineBlock(lines[k], doc, i, m)]
    BY <1>4, Zenon DEF LineBlocks
  <2>2. \A k \in 1..n : LineBlock(lines[k], doc, i, m) \in A
    OBVIOUS
  <2> HIDE DEF a, A
  <2>3. a \in [1..n -> A]
    BY <2>1, <2>2
  <2> QED
    BY <2>3
<1>6. \A b \in A : b.type \in Types
  <2> SUFFICES ASSUME NEW k \in 1..n PROVE LineBlock(lines[k], doc, i, m).type \in Types
    OBVIOUS
  <2> QED
    BY DEF LineBlock, Types
<1>7. PICK page : page = doc[i]
  OBVIOUS
<1>8. PICK section : section = SectionOn(i, m)
  OBVIOUS
<1>9. PICK rows : rows = ExtractGridRows(page, m.grid[i])
  OBVIOUS
<1> DEFINE c == TableOf(doc, i, m)
<1>10. c = RowsToBlocks(section, rows)
  BY <1>7, <1>8, <1>9 DEF TableOf
<1>11. \E l \in Nat : DOMAIN rows = 1..l
  BY <1>7, <1>9, PageFits, GridRows DEF Fits
<1>12. PICK kept : /\ DOMAIN kept = DOMAIN RowsToBlocks(section, rows)
                   /\ \A k \in DOMAIN kept :
                        /\ Kept(rows, section, kept[k])
                        /\ RowsToBlocks(section, rows)[k] = RowBlock(section, rows[kept[k]])
                   /\ \E l \in Nat : DOMAIN kept = 1..l
  BY <1>11, RowsGiven
<1>13. PICK l \in Nat : DOMAIN kept = 1..l
  BY <1>12
<1> DEFINE C == {RowBlock(section, rows[kept[k]]) : k \in 1..l}
<1>14. c \in Seq(C)
  <2>1. DOMAIN c = 1..l /\ \A k \in 1..l : c[k] = RowBlock(section, rows[kept[k]])
    BY <1>10, <1>12, <1>13
  <2>2. c = [k \in 1..l |-> c[k]]
    BY <1>10, <2>1, Zenon DEF RowsToBlocks
  <2>3. \A k \in 1..l : c[k] \in C
    BY <2>1
  <2> HIDE DEF c, C
  <2>4. c \in [1..l -> C]
    BY <2>2, <2>3
  <2> QED
    BY <2>4
<1>15. \A b \in C : b.type \in Types
  <2> SUFFICES ASSUME NEW k \in 1..l PROVE RowBlock(section, rows[kept[k]]).type \in Types
    OBVIOUS
  <2> QED
    BY DEF RowBlock, Types
<1> HIDE DEF a, A, c, C
<1>16. a \in Seq(A \cup C) /\ c \in Seq(A \cup C)
  BY <1>5, <1>14, SeqMonotonic
<1>17. \A b \in A \cup C : b.type \in Types
  BY <1>6, <1>15
<1>18. \E E : a \in Seq(E) /\ c \in Seq(E) /\ \A b \in E : b.type \in Types
  BY <1>16, <1>17, Zenon
<1> QED
  BY <1>1, <1>18, Zenon DEF a, c

LEMMA PageLacks ==
    ASSUME NEW doc, NEW sections, NEW m, Reads(doc, sections, m), NEW i \in DOMAIN doc,
           NEW x, \A v \in doc[i].words : x \notin ToSet(v.chars)
    PROVE  Nowhere(x, PageBlocks(doc, i, m))
<1> DEFINE lines == Printed(i, m)
           a == LineBlocks(lines, doc, i, m)
           c == TableOf(doc, i, m)
<1>1. PageBlocks(doc, i, m) = a \o c
  BY PageBlocksAre
<1>2. PICK E : a \in Seq(E) /\ c \in Seq(E)
  BY PageKinds
<1>3. Nowhere(x, a)
  <2>1. lines \in Seq(Seq(doc[i].words)) /\ Spelled(doc[i].words)
    BY PageFits, PrintedLines DEF Fits, Typeset
  <2>2. ASSUME NEW k \in DOMAIN lines, NEW v \in ToSet(lines[k]) PROVE x \notin ToSet(v.chars)
    <3>1. lines[k] \in Seq(doc[i].words)
      BY <2>1
    <3>2. v \in doc[i].words
      BY <3>1, SeqFinite
    <3> QED
      BY <3>2
  <2> HIDE DEF lines
  <2> QED
    BY <2>1, <2>2, TextNowhere
<1>4. Nowhere(x, c)
  <2>1. x \notin CharsOn(doc[i])
    BY DEF CharsOn
  <2> QED
    BY <2>1, PageFits, TableNowhere DEF TableOf
<1> HIDE DEF a, c
<1> QED
  BY <1>1, <1>2, <1>3, <1>4, Absences

\* Each character of a page is printed once on it, or it is meant to be left out.
LEMMA PageKeeps ==
    ASSUME NEW doc, NEW sections, NEW m, Reads(doc, sections, m), NEW i \in DOMAIN doc,
           NEW line \in ToSet(PageLines(doc[i])), NEW w \in ToSet(line), NEW x \in ToSet(w.chars),
           Inside(line, m.grid[i]) = Inside(<<w>>, m.grid[i]),
           ~MadeUpFor(x, doc[i], m.grid[i], ExtractGridRows(doc[i], m.grid[i]))
    PROVE  \/ InOnePlace(x, PageBlocks(doc, i, m))
           \/ Nowhere(x, PageBlocks(doc, i, m)) /\ MeantToGo(x, line, doc, i, m)
<1> DEFINE lines == Printed(i, m)
           a == LineBlocks(lines, doc, i, m)
           c == TableOf(doc, i, m)
<1>1. PageBlocks(doc, i, m) = a \o c
  BY PageBlocksAre
<1>2. PICK E : a \in Seq(E) /\ c \in Seq(E)
  BY PageKinds
<1>3. PICK page : page = doc[i] /\ Placed(page.words) /\ Typeset(page.words)
  BY DocumentHas DEF Reads
<1>4. PICK g : g = m.grid[i] /\ g # Null
  BY PageFits
<1>5. PICK section : section = SectionOn(i, m)
  OBVIOUS
<1>6. PICK rows : rows = ExtractGridRows(page, g)
  OBVIOUS
<1>7. /\ Fits(page, g, section) /\ Covered(DrawnIn(page, g), ReturnedBy(rows))
      /\ ~MadeUpFor(x, page, g, rows)
  BY <1>3, <1>4, <1>5, <1>6, PageFits
<1>8. c = RowsToBlocks(section, rows)
  BY <1>3, <1>4, <1>5, <1>6 DEF TableOf
<1>9. PICK ls : ls = PageLines(page)
  OBVIOUS
<1>10. ls \in Seq(Seq(page.words)) /\ Apart(ls)
  BY <1>3, <1>9, LinesOfPage DEF Parts
<1>11. PICK q \in DOMAIN ls : line = ls[q]
  BY <1>3, <1>9 DEF ToSet
<1>12. w \in page.words
  <2>1. line \in Seq(page.words)
    BY <1>10, <1>11
  <2> QED
    BY <2>1, SeqFinite
<1>13. OfItsOwn(x, w, page.words)
  <2>1. w \in doc[i].words /\ IsDocument(doc)
    BY <1>3, <1>12 DEF Reads
  <2>2. \A v \in doc[i].words : x \in ToSet(v.chars) => v = w
    BY <2>1, DocumentHas
  <2> QED
    BY <1>3, <2>2 DEF OfItsOwn
<1>14. /\ lines \in Seq(Seq(page.words)) /\ Apart(lines)
       /\ \A k \in DOMAIN lines : \E p \in DOMAIN ls :
            lines[k] = ls[p] /\ ~Inside(ls[p], g) /\ MaskedOf(ls[p]) \notin m.furniture
       /\ \A p \in DOMAIN ls : ~Inside(ls[p], g) /\ MaskedOf(ls[p]) \notin m.furniture =>
            \E k \in DOMAIN lines : lines[k] = ls[p]
  BY <1>3, <1>4, <1>9, PrintedLines
<1>15. At(w, ls, q)
  BY <1>11 DEF At
<1>16. Spelled(page.words) /\ x \in CharsOn(page)
  BY <1>3, <1>12 DEF Typeset, CharsOn
<1> HIDE DEF lines, c
\* The line of w, and no other, can make a block with x.
<1>17. ASSUME NEW k \in DOMAIN lines, NEW v \in ToSet(lines[k]), x \in ToSet(v.chars)
       PROVE  lines[k] = line /\ v = w
  <2>1. lines[k] \in Seq(page.words)
    BY <1>14
  <2>2. v \in page.words
    BY <2>1, SeqFinite
  <2>3. v = w
    BY <1>13, <1>17, <2>2 DEF OfItsOwn
  <2>4. PICK p \in DOMAIN ls : lines[k] = ls[p]
    BY <1>14
  <2>5. At(w, ls, p)
    BY <2>3, <2>4 DEF At
  <2>6. p = q
    BY <1>10, <1>15, <2>5, Zenon DEF Apart
  <2> QED
    BY <1>11, <2>3, <2>4, <2>6
<1>18. CASE ~Inside(<<w>>, g)
  <2>1. ~Inside(line, g)
    BY <1>4, <1>18
  <2>2. x \notin ReturnedBy(rows)
    <3>1. x \in OfGlyph(ToSet(w.chars), x.glyph)
      BY DEF OfGlyph
    <3> QED
      BY <1>7, <1>12, <1>18, <3>1 DEF MadeUpFor
  <2>3. Nowhere(x, c)
    <3>1. \A r \in RowsIn(g), d \in ColumnsIn(g) : ~(x \in CharsOn(page) /\ InCell(x, g, r, d))
      BY <1>3, <1>6, <1>7, <2>2, ReturnedHas DEF Fits
    <3> QED
      BY <1>6, <1>7, <1>8, <3>1, TableNowhere
  <2>4. CASE MaskedOf(line) \in m.furniture
    <3>1. Recurs(doc, line)
      BY <2>4, MeasuredIs, FurnitureRecurs DEF Reads
    <3>2. \A k \in DOMAIN lines : \A v \in ToSet(lines[k]) : x \notin ToSet(v.chars)
      BY <1>14, <1>17, <2>4
    <3>3. Nowhere(x, a)
      BY <1>14, <1>16, <3>2, TextNowhere
    <3> HIDE DEF a
    <3>4. Nowhere(x, PageBlocks(doc, i, m))
      BY <1>1, <1>2, <2>3, <3>3, Absences
    <3> QED
      BY <3>1, <3>4 DEF MeantToGo
  <2>5. CASE MaskedOf(line) \notin m.furniture
    <3>1. PICK k \in DOMAIN lines : lines[k] = line
      BY <1>11, <1>14, <2>1, <2>5
    <3>2. At(w, lines, k)
      BY <3>1 DEF At
    <3>3. InOnePlace(x, a)
      BY <1>12, <1>13, <1>14, <1>16, <3>2, TextInOnePlace
    <3> HIDE DEF a
    <3> QED
      BY <1>1, <1>2, <2>3, <3>3, OneInFirst
  <2> QED
    BY <2>4, <2>5
<1>19. CASE Inside(<<w>>, g)
  <2>1. Inside(line, g)
    BY <1>4, <1>19
  <2>2. \A k \in DOMAIN lines : \A v \in ToSet(lines[k]) : x \notin ToSet(v.chars)
    BY <1>14, <1>17, <2>1
  <2>3. Nowhere(x, a)
    BY <1>14, <1>16, <2>2, TextNowhere
  <2>4. x \in ReturnedBy(rows)
    <3>1. x \in DrawnIn(page, g)
      BY <1>12, <1>19 DEF DrawnIn
    <3> QED
      BY <1>6, <1>7, <3>1, AllReturned
  <2>5. PICK r \in RowsIn(g), d \in ColumnsIn(g) : InCell(x, g, r, d)
    BY <1>3, <1>6, <1>7, <2>4, ReturnedHas DEF Fits
  <2> HIDE DEF a
  <2>6. CASE Kept(rows, section, r)
    <3>1. InOnePlace(x, c)
      BY <1>6, <1>7, <1>8, <1>16, <2>5, <2>6, TableInOnePlace
    <3> QED
      BY <1>1, <1>2, <2>3, <3>1, OneInSecond
  <2>7. CASE ~Kept(rows, section, r)
    <3>1. InHeader(x, rows, section)
      BY <1>6, <1>7, <1>16, <2>5, <2>7, HeaderHas
    <3>2. ASSUME NEW s \in RowsIn(g), NEW e \in ColumnsIn(g), InCell(x, g, s, e), Kept(rows, section, s)
          PROVE  FALSE
      <4>1. {x.left, x.right, x.top} \subseteq Int
        BY <1>3, <1>16, CharsPlaced DEF Placed
      <4>2. s = r
        BY <1>7, <2>5, <3>2, <4>1, OneCell DEF Fits, RowsIn, ColumnsIn
      <4> QED
        BY <2>7, <3>2, <4>2
    <3>3. Nowhere(x, c)
      BY <1>6, <1>7, <1>8, <3>2, TableNowhere
    <3>4. Nowhere(x, PageBlocks(doc, i, m))
      BY <1>1, <1>2, <2>3, <3>3, Absences
    <3> QED
      BY <1>3, <1>4, <1>5, <1>6, <3>1, <3>4 DEF MeantToGo, SectionOn
  <2> QED
    BY <2>6, <2>7
<1> QED
  BY <1>18, <1>19

\* What a document is parsed to is a sequence of blocks of the three types.
LEMMA BlocksHaveTypes ==
    ASSUME NEW doc, IsDocument(doc), NEW sections, IsParseSpec(sections), ParseDocument(doc, sections) # Null
    PROVE  /\ AsDeclared(doc, Measured(doc, sections))
           /\ \E E : /\ [i \in DOMAIN doc |-> PageBlocks(doc, i, Measured(doc, sections))] \in Seq(Seq(E))
                     /\ \A b \in E : b.type \in Types
           /\ ParseDocument(doc, sections)
              = FlattenSeq([i \in DOMAIN doc |-> PageBlocks(doc, i, Measured(doc, sections))])
<1>1. PICK m : m = Measured(doc, sections)
  OBVIOUS
<1> DEFINE pages == [i \in DOMAIN doc |-> PageBlocks(doc, i, m)]
<1>2. ParseDocument(doc, sections) = IF AsDeclared(doc, m) THEN FlattenSeq(pages) ELSE Null
  BY <1>1, Zenon DEF ParseDocument, BlocksFrom
<1>3. AsDeclared(doc, m) /\ ParseDocument(doc, sections) = FlattenSeq(pages)
  BY <1>2
<1>4. PICK n \in Nat : DOMAIN doc = 1..n
  BY DocumentHas
<1>5. \A i \in 1..n : \E E : PageBlocks(doc, i, m) \in Seq(E) /\ \A b \in E : b.type \in Types
  <2> TAKE i \in 1..n
  <2>1. PICK a : a = LineBlocks(Printed(i, m), doc, i, m)
    OBVIOUS
  <2>2. PICK c : c = TableOf(doc, i, m)
    OBVIOUS
  <2>3. PICK E : a \in Seq(E) /\ c \in Seq(E) /\ \A b \in E : b.type \in Types
    <3>1. Reads(doc, sections, m)
      BY <1>1, <1>3 DEF Reads
    <3> QED
      BY <1>4, <2>1, <2>2, <3>1, PageKinds
  <2>4. PageBlocks(doc, i, m) = a \o c
    BY <2>1, <2>2, PageBlocksAre
  <2>5. a \o c \in Seq(E)
    BY <2>3
  <2> QED
    BY <2>3, <2>4, <2>5
<1> DEFINE E == UNION {ToSet(PageBlocks(doc, i, m)) : i \in 1..n}
<1>6. ASSUME NEW i \in 1..n PROVE PageBlocks(doc, i, m) \in Seq(E)
  <2>1. PICK bs : bs = PageBlocks(doc, i, m)
    OBVIOUS
  <2>2. PICK F : bs \in Seq(F)
    BY <1>5, <2>1
  <2>3. ToSet(bs) \subseteq E
    BY <2>1
  <2> HIDE DEF E
  <2>4. \A k \in DOMAIN bs : bs[k] \in E
    BY <2>3 DEF ToSet
  <2> QED
    BY <2>1, <2>2, <2>4
<1>7. ASSUME NEW b \in E PROVE b.type \in Types
  <2>1. PICK i \in 1..n : b \in ToSet(PageBlocks(doc, i, m))
    OBVIOUS
  <2>2. PICK bs : bs = PageBlocks(doc, i, m)
    OBVIOUS
  <2>3. PICK F : bs \in Seq(F) /\ \A x \in F : x.type \in Types
    BY <1>5, <2>2
  <2>4. b \in F
    BY <2>1, <2>2, <2>3, SeqFinite
  <2> QED
    BY <2>3, <2>4
<1> HIDE DEF E
<1>8. pages \in Seq(Seq(E))
  <2>1. PICK X : X = Seq(E)
    OBVIOUS
  <2>2. \A i \in 1..n : PageBlocks(doc, i, m) \in X
    BY <1>6, <2>1
  <2>3. pages \in [1..n -> X]
    BY <1>4, <2>2
  <2>4. pages \in Seq(X)
    BY <2>3
  <2> QED
    BY <2>1, <2>4
<1>9. \E S : pages \in Seq(Seq(S)) /\ \A b \in S : b.type \in Types
  BY <1>7, <1>8
<1> QED
  BY <1>1, <1>3, <1>9, Zenon

\* The three types, whatever the document.
LEMMA ParsedBlocks ==
    ASSUME NEW doc, IsDocument(doc), NEW sections, IsParseSpec(sections), ParseDocument(doc, sections) # Null
    PROVE  /\ ParseDocument(doc, sections) \in Seq(ToSet(ParseDocument(doc, sections)))
           /\ \A b \in ToSet(ParseDocument(doc, sections)) : b.type \in Types
<1>1. PICK bs : bs = ParseDocument(doc, sections)
  OBVIOUS
<1>2. PICK pages : pages = [i \in DOMAIN doc |-> PageBlocks(doc, i, Measured(doc, sections))]
  OBVIOUS
<1>3. bs = FlattenSeq(pages) /\ \E E : pages \in Seq(Seq(E)) /\ \A b \in E : b.type \in Types
  BY <1>1, <1>2, BlocksHaveTypes, Zenon
<1>4. PICK E : pages \in Seq(Seq(E)) /\ \A b \in E : b.type \in Types
  BY <1>3
<1>5. bs \in Seq(E)
  BY <1>3, <1>4, FlattenType
<1>6. \A b \in ToSet(bs) : b.type \in Types
  BY <1>4, <1>5, SeqFinite
<1>7. \A k \in DOMAIN bs : bs[k] \in ToSet(bs)
  BY DEF ToSet
<1>8. bs \in Seq(ToSet(bs))
  BY <1>5, <1>7
<1> QED
  BY <1>1, <1>6, <1>8

\* A document that is parsed keeps every character: each is in one block, unless it is
\* page furniture or in a header that is repeated, on a line across the edge of a
\* table, or made up for where glyphs are counted.
THEOREM DocumentKeepsCharacters ==
    ASSUME NEW doc, IsDocument(doc), NEW sections, IsParseSpec(sections), ParseDocument(doc, sections) # Null
    PROVE  KeepsEveryCharacter(doc, sections, ParseDocument(doc, sections))
<1>1. PICK m : m = Measured(doc, sections)
  OBVIOUS
<1>2. PICK bs : bs = ParseDocument(doc, sections)
  OBVIOUS
<1>3. PICK pages : pages = [i \in DOMAIN doc |-> PageBlocks(doc, i, m)]
  OBVIOUS
<1>4. /\ AsDeclared(doc, m) /\ bs = FlattenSeq(pages)
      /\ \E E : pages \in Seq(Seq(E)) /\ \A b \in E : b.type \in Types
  BY <1>1, <1>2, <1>3, BlocksHaveTypes, Zenon
<1>5. PICK E : pages \in Seq(Seq(E))
  BY <1>4
<1>6. Reads(doc, sections, m)
  BY <1>1, <1>4 DEF Reads
<1> DEFINE Spared(i, line, w, x) ==
                \/ Cardinality(BlocksWith(x, bs)) = 1
                \/ BlocksWith(x, bs) = {} /\ MeantToGo(x, line, doc, i, m)
                \/ Inside(line, m.grid[i]) # Inside(<<w>>, m.grid[i])
                \/ MadeUpFor(x, doc[i], m.grid[i], ExtractGridRows(doc[i], m.grid[i]))
<1>7. ASSUME NEW i \in DOMAIN doc, NEW line \in ToSet(PageLines(doc[i])), NEW w \in ToSet(line),
             NEW x \in ToSet(w.chars)
      PROVE  Spared(i, line, w, x)
  <2> SUFFICES ASSUME Inside(line, m.grid[i]) = Inside(<<w>>, m.grid[i]),
                      ~MadeUpFor(x, doc[i], m.grid[i], ExtractGridRows(doc[i], m.grid[i]))
               PROVE  \/ Cardinality(BlocksWith(x, bs)) = 1
                      \/ BlocksWith(x, bs) = {} /\ MeantToGo(x, line, doc, i, m)
    OBVIOUS
  <2>1. w \in doc[i].words
    <3>1. PageLines(doc[i]) \in Seq(Seq(doc[i].words))
      BY DocumentHas, LinesOfPage DEF Parts
    <3>2. PICK ls : ls = PageLines(doc[i])
      OBVIOUS
    <3>3. PICK k \in DOMAIN ls : line = ls[k]
      BY <3>2 DEF ToSet
    <3>4. line \in Seq(doc[i].words)
      BY <3>1, <3>2, <3>3
    <3> QED
      BY <3>4, SeqFinite
  <2>2. \A j \in DOMAIN doc : j # i => \A v \in doc[j].words : x \notin ToSet(v.chars)
    BY <2>1, DocumentHas
  <2>3. DOMAIN pages = DOMAIN doc /\ \A j \in DOMAIN doc : pages[j] = PageBlocks(doc, j, m)
    BY <1>3
  <2>4. \A j \in DOMAIN pages : j # i => Nowhere(x, pages[j])
    BY <1>6, <2>2, <2>3, PageLacks
  <2>5. \/ InOnePlace(x, pages[i])
        \/ Nowhere(x, pages[i]) /\ MeantToGo(x, line, doc, i, m)
    <3>1. PICK p : p = PageBlocks(doc, i, m)
      OBVIOUS
    <3>2. InOnePlace(x, p) \/ (Nowhere(x, p) /\ MeantToGo(x, line, doc, i, m))
      BY <1>6, <3>1, PageKeeps
    <3> QED
      BY <2>3, <3>1, <3>2
  <2>6. CASE InOnePlace(x, pages[i])
    <3>1. InOnePlace(x, bs)
      BY <1>4, <1>5, <2>3, <2>4, <2>6, FlattenOnePlace
    <3> QED
      BY <3>1, OnePlaceCounts
  <2>7. CASE Nowhere(x, pages[i]) /\ MeantToGo(x, line, doc, i, m)
    <3>1. \A j \in DOMAIN pages : Nowhere(x, pages[j])
      BY <2>4, <2>7
    <3>2. Nowhere(x, bs)
      BY <1>4, <1>5, <3>1, FlattenNowhere
    <3> QED
      BY <2>7, <3>2, NowhereEmpty
  <2> QED
    BY <2>5, <2>6, <2>7
<1>8. DOMAIN m.grid = DOMAIN doc
  BY <1>1, MeasuredIs
<1>9. KeepsEveryCharacter(doc, sections, bs)
      <=> \A i \in DOMAIN m.grid : \A line \in ToSet(PageLines(doc[i])) : \A w \in ToSet(line) :
          \A x \in ToSet(w.chars) : Spared(i, line, w, x)
  BY <1>1, Zenon DEF KeepsEveryCharacter
<1> HIDE DEF Spared
<1> QED
  BY <1>2, <1>7, <1>8, <1>9
=============================================================================
