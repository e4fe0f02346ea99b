---------------------------- MODULE FoldTheorems ----------------------------
(***************************************************************************)
(* What the folds of the community modules return, for any operator: the   *)
(* modules that fold are proved about by instantiating this one with the   *)
(* operator they fold with.                                                *)
(***************************************************************************)
EXTENDS Integers, Sequences, SequencesExt, FiniteSetsExt, FiniteSetTheorems, SequenceTheorems,
        WellFoundedInduction, TLAPS

CONSTANT Op(_, _)

-----------------------------------------------------------------------------
(* Induction over sets of numbers                                          *)

\* A set of natural numbers that is not empty has a least element.
LEMMA LeastNat ==
    ASSUME NEW S \in SUBSET Nat, S # {} PROVE \E m \in S : \A k \in S : m <= k
<1>1. PICK m \in S : \A k \in S : <<k, m>> \notin OpToRel(<, Nat)
  BY NatLessThanWellFounded, WFMin
<1>2. \A k \in S : ~(k < m)
  BY <1>1 DEF OpToRel
<1> QED
  BY <1>2

\* What has zero, and each number that follows one it has, has them all.
LEMMA UpTo ==
    ASSUME NEW n \in Nat, NEW S, 0 \in S, \A k \in 1..n : k - 1 \in S => k \in S
    PROVE  \A k \in 0..n : k \in S
<1> DEFINE Bad == {k \in 0..n : k \notin S}
<1> SUFFICES ASSUME Bad # {} PROVE FALSE
  OBVIOUS
<1>1. PICK m \in Bad : \A k \in Bad : m <= k
  <2>1. Bad \in SUBSET Nat
    OBVIOUS
  <2> HIDE DEF Bad
  <2> QED
    BY <2>1, LeastNat
<1>2. m \in 1..n /\ m - 1 \in 0..n /\ m - 1 \notin Bad
  BY <1>1
<1> QED
  BY <1>1, <1>2

-----------------------------------------------------------------------------
(* FoldLeft                                                                *)

\* The largest of some of the first numbers.
LEMMA MaxOf ==
    ASSUME NEW n \in Nat, NEW T \in SUBSET (1..n), T # {}
    PROVE  /\ Max(T) \in T /\ Max(T) \in 1..n
           /\ \A x \in T : x <= Max(T)
           /\ T \ {Max(T)} \in SUBSET (1..(Max(T) - 1))
<1> DEFINE S == {n - x : x \in T}
<1>1. PICK m \in S : \A k \in S : m <= k
  <2>1. \A x \in T : n - x \in Nat
    OBVIOUS
  <2>2. S \in SUBSET Nat /\ S # {}
    BY <2>1, Zenon
  <2> HIDE DEF S
  <2> QED
    BY <2>2, LeastNat
<1>2. PICK x \in T : m = n - x
  BY <1>1
<1>3. \A y \in T : y <= x
  <2> SUFFICES ASSUME NEW y \in T PROVE y <= x
    OBVIOUS
  <2>1. n - y \in S
    OBVIOUS
  <2>2. n - x <= n - y
    BY <1>1, <1>2, <2>1
  <2> QED
    BY <2>2
<1>4. Max(T) \in T /\ \A y \in T : y <= Max(T)
  BY <1>2, <1>3 DEF Max
<1>5. Max(T) \in 1..n
  BY <1>4
<1>6. \A y \in T \ {Max(T)} : y \in 1..(Max(T) - 1)
  BY <1>4, <1>5
<1>7. T \ {Max(T)} \in SUBSET (1..(Max(T) - 1))
  BY <1>6, Zenon
<1> QED
  BY <1>4, <1>5, <1>7

\* The fold from the left, named for those who instantiate this module.
Folded(b, s) == FoldLeft(Op, b, s)

\* What the fold computes for each set of positions.
Iterates(it, b, s, n) ==
    it = [T \in SUBSET (1..n) |-> IF T = {} THEN b ELSE Op(it[T \ {Max(T)}], s[Max(T)])]

LEMMA IteratesStep ==
    ASSUME NEW b, NEW s, NEW n \in Nat, NEW it, Iterates(it, b, s, n)
    PROVE  \E jt : Iterates(jt, b, s, n + 1)
<1> DEFINE Body(g, T) == IF T = {} THEN b ELSE Op(g[T \ {Max(T)}], s[Max(T)])
           jt == [T \in SUBSET (1..(n + 1)) |-> Body(it, T)]
<1>1. \A T \in SUBSET (1..n) : it[T] = Body(it, T)
  BY DEF Iterates
<1>2. \A T \in SUBSET (1..n) : jt[T] = it[T]
  <2>1. SUBSET (1..n) \subseteq SUBSET (1..(n + 1))
    OBVIOUS
  <2> HIDE DEF Body
  <2> QED
    BY <1>1, <2>1
<1>3. \A T \in SUBSET (1..(n + 1)) : Body(jt, T) = Body(it, T)
  <2> SUFFICES ASSUME NEW T \in SUBSET (1..(n + 1)), T # {}
               PROVE  jt[T \ {Max(T)}] = it[T \ {Max(T)}]
    BY Zenon
  <2>1. Max(T) \in 1..(n + 1) /\ T \ {Max(T)} \in SUBSET (1..(Max(T) - 1))
    BY MaxOf
  <2>2. T \ {Max(T)} \in SUBSET (1..n)
    BY <2>1
  <2> HIDE DEF jt
  <2> QED
    BY <1>2, <2>2
<1>4. jt = [T \in SUBSET (1..(n + 1)) |-> Body(jt, T)]
  <2> HIDE DEF Body
  <2> QED
    BY <1>3, Zenon
<1> HIDE DEF jt
<1> QED
  BY <1>4 DEF Iterates

LEMMA IteratesExists ==
    ASSUME NEW b, NEW s, NEW n \in Nat PROVE \E it : Iterates(it, b, s, n)
<1> DEFINE S == {k \in 0..n : \E it : Iterates(it, b, s, k)}
<1>1. 0 \in S
  <2> DEFINE it == [T \in SUBSET (1..0) |-> b]
  <2>1. SUBSET (1..0) = {{}}
    OBVIOUS
  <2>2. it = [T \in SUBSET (1..0) |-> IF T = {} THEN b ELSE Op(it[T \ {Max(T)}], s[Max(T)])]
    BY <2>1
  <2> HIDE DEF it
  <2>3. Iterates(it, b, s, 0)
    BY <2>2 DEF Iterates
  <2>4. 0 \in 0..n
    OBVIOUS
  <2> QED
    BY <2>3, <2>4, Zenon
<1>2. ASSUME NEW k \in 1..n, k - 1 \in S PROVE k \in S
  <2>1. PICK it : Iterates(it, b, s, k - 1)
    BY <1>2
  <2>2. \E jt : Iterates(jt, b, s, (k - 1) + 1)
    BY <2>1, IteratesStep
  <2> QED
    BY <2>2
<1> HIDE DEF S
<1>3. n \in S
  BY <1>1, <1>2, UpTo
<1> QED
  BY <1>3 DEF S

Alike(s, t, k) == \A i \in 1..k : s[i] = t[i]
Agree(f, g, k) == \A T \in SUBSET (1..k) : f[T] = g[T]

\* It depends on the positions of the set alone.
LEMMA IteratesAgree ==
    ASSUME NEW b, NEW s, NEW t, NEW f, NEW g, NEW m \in Nat, NEW n \in Nat, NEW k \in Nat,
           Iterates(f, b, s, m), Iterates(g, b, t, n),
           k <= m, k <= n, Alike(s, t, k)
    PROVE  Agree(f, g, k)
<1> DEFINE S == {i \in 0..k : \A T \in SUBSET (1..i) : f[T] = g[T]}
<1>0. \A T \in SUBSET (1..k) :
        /\ f[T] = IF T = {} THEN b ELSE Op(f[T \ {Max(T)}], s[Max(T)])
        /\ g[T] = IF T = {} THEN b ELSE Op(g[T \ {Max(T)}], t[Max(T)])
  <2>1. SUBSET (1..k) \subseteq SUBSET (1..m) /\ SUBSET (1..k) \subseteq SUBSET (1..n)
    OBVIOUS
  <2> QED
    BY <2>1 DEF Iterates
<1>1. 0 \in S
  <2>1. SUBSET (1..0) = {{}} /\ {} \in SUBSET (1..k)
    OBVIOUS
  <2>2. f[{}] = b /\ g[{}] = b
    BY <1>0, <2>1
  <2>3. 0 \in 0..k
    OBVIOUS
  <2> QED
    BY <2>1, <2>2, <2>3, Zenon
<1>2. ASSUME NEW i \in 1..k, i - 1 \in S PROVE i \in S
  <2> SUFFICES ASSUME NEW T \in SUBSET (1..i), T # {} PROVE f[T] = g[T]
    <3>1. {} \in SUBSET (1..k)
      OBVIOUS
    <3>2. f[{}] = g[{}]
      BY <1>0, <3>1
    <3>3. i \in 0..k
      OBVIOUS
    <3> QED
      BY <3>2, <3>3, Zenon
  <2>1. Max(T) \in 1..i /\ T \ {Max(T)} \in SUBSET (1..(Max(T) - 1))
    BY MaxOf
  <2>2. T \ {Max(T)} \in SUBSET (1..(i - 1)) /\ T \in SUBSET (1..k)
    BY <2>1
  <2>3. f[T \ {Max(T)}] = g[T \ {Max(T)}]
    BY <1>2, <2>2
  <2>4. s[Max(T)] = t[Max(T)]
    BY <2>1 DEF Alike
  <2> QED
    BY <1>0, <2>2, <2>3, <2>4
<1> HIDE DEF S
<1>3. k \in S
  BY <1>1, <1>2, UpTo
<1> QED
  BY <1>3 DEF S, Agree

LEMMA FoldLeftIterates ==
    ASSUME NEW b, NEW E, NEW s \in Seq(E)
    PROVE  \E it : Iterates(it, b, s, Len(s)) /\ Folded(b, s) = it[1..Len(s)]
<1> DEFINE it == CHOOSE it : it = [T \in SUBSET (1..Len(s)) |->
                                    IF T = {} THEN b ELSE Op(it[T \ {Max(T)}], s[Max(T)])]
<1>1. Iterates(it, b, s, Len(s))
  <2>1. \E f : f = [T \in SUBSET (1..Len(s)) |->
                        IF T = {} THEN b ELSE Op(f[T \ {Max(T)}], s[Max(T)])]
    <3>1. Len(s) \in Nat
      OBVIOUS
    <3>2. \E f : Iterates(f, b, s, Len(s))
      BY <3>1, IteratesExists
    <3> QED
      BY <3>2, Zenon DEF Iterates
  <2> QED
    BY <2>1, Zenon DEF Iterates
<1>2. Folded(b, s) = it[1..Len(s)]
  <2>1. DOMAIN s = 1..Len(s)
    OBVIOUS
  <2> QED
    BY <2>1, Zenon DEF Folded, FoldLeft, MapThenFoldSet
<1> HIDE DEF it
<1> QED
  BY <1>1, <1>2

\* Folding nothing.
THEOREM FoldLeftEmpty == \A b : Folded(b, <<>>) = b
<1> SUFFICES ASSUME NEW b PROVE Folded(b, <<>>) = b
  OBVIOUS
<1>1. PICK it : Iterates(it, b, <<>>, Len(<<>>)) /\ Folded(b, <<>>) = it[1..Len(<<>>)]
  <2>1. <<>> \in Seq({})
    OBVIOUS
  <2> QED
    BY <2>1, FoldLeftIterates
<1>2. 1..Len(<<>>) = {}
  OBVIOUS
<1>3. {} \in SUBSET (1..Len(<<>>))
  OBVIOUS
<1>4. it[{}] = b
  BY <1>1, <1>3, Zenon DEF Iterates
<1> QED
  BY <1>1, <1>2, <1>4

\* Folding one element more.
THEOREM FoldLeftStep ==
    ASSUME NEW b, NEW E, NEW s \in Seq(E), NEW k \in 1..Len(s)
    PROVE  Folded(b, SubSeq(s, 1, k)) = Op(Folded(b, SubSeq(s, 1, k - 1)), s[k])
<1> DEFINE u == SubSeq(s, 1, k)
           v == SubSeq(s, 1, k - 1)
<1>0. k \in Nat /\ k - 1 \in Nat /\ k \in 1..k
  OBVIOUS
<1>1. /\ u \in Seq(E) /\ Len(u) = k /\ \A i \in 1..k : u[i] = s[i]
      /\ v \in Seq(E) /\ Len(v) = k - 1 /\ \A i \in 1..(k - 1) : v[i] = s[i]
  OBVIOUS
<1> HIDE DEF u, v
<1>2. PICK f : Iterates(f, b, u, k) /\ Folded(b, u) = f[1..k]
  BY <1>1, FoldLeftIterates
<1>3. PICK g : Iterates(g, b, v, k - 1) /\ Folded(b, v) = g[1..(k - 1)]
  BY <1>1, FoldLeftIterates
<1>4. Max(1..k) = k /\ (1..k) \ {k} = 1..(k - 1)
  <2>1. 1..k \in SUBSET (1..k) /\ k \in 1..k
    BY <1>0, Zenon
  <2>2. Max(1..k) \in 1..k /\ k <= Max(1..k)
    BY <1>0, <2>1, MaxOf
  <2> QED
    BY <2>2
<1>5. f[1..k] = Op(f[1..(k - 1)], u[k])
  <2>1. 1..k # {} /\ 1..k \in SUBSET (1..k)
    BY <1>0, Zenon
  <2>2. f[1..k] = Op(f[(1..k) \ {Max(1..k)}], u[Max(1..k)])
    BY <1>2, <2>1 DEF Iterates
  <2> QED
    BY <1>4, <2>2
<1>6. f[1..(k - 1)] = g[1..(k - 1)]
  <2>1. \A i \in 1..(k - 1) : u[i] = v[i]
    BY <1>1
  <2>2. PICK j \in Nat : j = k - 1 /\ j <= k /\ j <= j
    BY <1>0
  <2>3. Iterates(g, b, v, j) /\ Alike(u, v, j)
    BY <1>3, <2>1, <2>2 DEF Alike
  <2>4. Agree(f, g, j)
    BY <1>0, <1>2, <2>2, <2>3, IteratesAgree
  <2> QED
    BY <2>2, <2>4 DEF Agree
<1>7. u[k] = s[k]
  BY <1>1
<1>8. Folded(b, u) = Op(Folded(b, v), s[k])
  BY <1>2, <1>3, <1>5, <1>6, <1>7
<1> QED
  BY <1>8 DEF u, v

\* The same, from the other side.
THEOREM FoldLeftAppend ==
    ASSUME NEW b, NEW E, NEW s \in Seq(E), NEW x \in E
    PROVE  Folded(b, Append(s, x)) = Op(Folded(b, s), x)
<1> DEFINE t == Append(s, x)
           n == Len(s)
<1>1. /\ t \in Seq(E) /\ n \in Nat /\ Len(t) = n + 1 /\ t[n + 1] = x /\ n + 1 \in 1..Len(t)
      /\ (n + 1) - 1 = n
  OBVIOUS
<1>2. SubSeq(t, 1, n + 1) = t /\ SubSeq(t, 1, n) = s
  OBVIOUS
<1> HIDE DEF t
<1>3. Folded(b, SubSeq(t, 1, n + 1)) = Op(Folded(b, SubSeq(t, 1, (n + 1) - 1)), t[n + 1])
  BY <1>1, FoldLeftStep, Zenon
<1> QED
  BY <1>1, <1>2, <1>3 DEF t
=============================================================================
