----------------------------- MODULE DataLemmas -----------------------------
(***************************************************************************)
(* What the proofs of several parts need of numbers, sequences and sums    *)
(* and the library's theorem modules do not state: the least element of a  *)
(* set of numbers, the minimal member of a family of finite sets, what     *)
(* Append and EXCEPT do to a sequence, the sum of a function on a finite   *)
(* set, and what an append leaves of an append-only file. Each induction   *)
(* is made on a least counterexample.                                      *)
(***************************************************************************)
EXTENDS Integers, JsonLedger, FiniteSetTheorems, WellFoundedInduction, TLAPS

----------------------------------------------------------------------------
\* Numbers

LEMMA LeastOfRelation ==
  ASSUME NEW R, IsWellFoundedOn(R, Nat), \A a, b \in Nat : a < b => <<a, b>> \in R,
         NEW T, T \subseteq Nat, T # {}
  PROVE \E x \in T : \A y \in T : x <= y
<1>1. PICK x \in T : \A y \in T : ~ (<<y, x>> \in R)
  BY ONLY WFMin, IsWellFoundedOn(R, Nat), T \subseteq Nat, T # {}, Zenon
<1>2. ASSUME NEW y \in T PROVE x <= y
  <2>1. x \in Nat /\ y \in Nat OBVIOUS
  <2>2. ~ (<<y, x>> \in R) BY <1>1
  <2>3. ~ (y < x) BY <2>1, <2>2
  <2> QED BY <2>1, <2>3
<1> QED BY <1>2

\* The least element of a set of natural numbers; where an induction is needed
\* it is made on the least counterexample.
LEMMA LeastOf ==
  ASSUME NEW T, T \subseteq Nat, T # {}
  PROVE \E x \in T : \A y \in T : x <= y
<1>1. IsWellFoundedOn(OpToRel(<, Nat), Nat)
  BY NatLessThanWellFounded
<1>2. \A a, b \in Nat : a < b => <<a, b>> \in OpToRel(<, Nat)
  BY DEF OpToRel
<1>3. \E R : IsWellFoundedOn(R, Nat) /\ (\A a, b \in Nat : a < b => <<a, b>> \in R)
  BY <1>1, <1>2
<1> QED BY <1>3, LeastOfRelation

LEMMA GreatestUpto ==
    ASSUME NEW n \in Nat, NEW T, T \subseteq 0..n, T # {}
    PROVE  \E x \in T : \A y \in T : y <= x
<1> DEFINE U == {n - x : x \in T}
<1>1. U \subseteq Nat /\ U # {}
  <2>1. \A x \in T : n - x \in Nat
    OBVIOUS
  <2> QED BY <2>1
<1>2. PICK u \in U : \A v \in U : u <= v
  <2> HIDE DEF U
  <2> QED BY <1>1, LeastOf
<1>3. PICK x \in T : u = n - x
  BY <1>2
<1>4. \A y \in T : y <= x
  <2> SUFFICES ASSUME NEW y \in T PROVE y <= x
    OBVIOUS
  <2>1. n - x <= n - y
    BY <1>2, <1>3
  <2> QED BY <2>1
<1> QED BY <1>3, <1>4

LEMMA GreatestOf ==
    ASSUME NEW n \in Nat, NEW T, T \subseteq 1..n, T # {}
    PROVE  \E x \in T : \A y \in T : y <= x
<1>1. T \subseteq 0..n
  OBVIOUS
<1> QED BY <1>1, GreatestUpto

LEMMA SameLength == ASSUME NEW m \in Nat, NEW n \in Nat, 1..m = 1..n PROVE m = n
<1>1. \A k : k \in 1..m <=> k \in 1..n
  BY Zenon
<1>2. m > 0 => m <= n
  <2>1. m \in 1..m <=> m \in 1..n
    BY <1>1
  <2> QED BY <2>1
<1>3. n > 0 => n <= m
  <2>1. n \in 1..m <=> n \in 1..n
    BY <1>1
  <2> QED BY <2>1
<1> QED BY <1>2, <1>3

----------------------------------------------------------------------------
\* Sequences

\* Elements of a sequence, and what Append does to them.
LEMMA SeqFacts ==
    ASSUME NEW S, NEW s \in Seq(S)
    PROVE  /\ Len(s) \in Nat /\ DOMAIN s = 1..Len(s)
           /\ (Len(s) = 0 <=> s = <<>>)
           /\ \A k \in 1..Len(s) : s[k] \in S
           /\ \A x \in S : /\ Append(s, x) \in Seq(S)
                           /\ Len(Append(s, x)) = Len(s) + 1
                           /\ Append(s, x)[Len(s) + 1] = x
                           /\ \A k \in 1..Len(s) : Append(s, x)[k] = s[k]
OBVIOUS

\* One element of a sequence is replaced.
LEMMA SeqUpdate ==
    ASSUME NEW S, NEW s \in Seq(S), NEW k \in 1..Len(s), NEW d \in S
    PROVE  /\ [s EXCEPT ![k] = d] \in Seq(S) /\ Len([s EXCEPT ![k] = d]) = Len(s)
           /\ [s EXCEPT ![k] = d][k] = d
           /\ \A j \in 1..Len(s) : j # k => [s EXCEPT ![k] = d][j] = s[j]
<1> DEFINE t == [s EXCEPT ![k] = d]
<1>1. s \in [1..Len(s) -> S] /\ Len(s) \in Nat
  OBVIOUS
<1>2. t \in [1..Len(s) -> S]
  BY <1>1
<1>3. t[k] = d /\ \A j \in 1..Len(s) : j # k => t[j] = s[j]
  BY <1>1
<1> HIDE DEF t
<1>4. t \in Seq(S) /\ Len(t) = Len(s)
  BY <1>1, <1>2
<1> QED BY <1>3, <1>4 DEF t

\* The last element of a sequence, and the sequence without it.
LEMMA TopFacts ==
    ASSUME NEW S, NEW s \in Seq(S), s # <<>>
    PROVE  /\ Last(s) = s[Len(s)] /\ Last(s) \in S
           /\ Front(s) \in Seq(S) /\ Len(Front(s)) = Len(s) - 1
           /\ \A j \in 1..Len(s) - 1 : Front(s)[j] = s[j]
<1>1. Len(s) \in Nat /\ Len(s) > 0 OBVIOUS
<1>2. Front(s) = [j \in 1..Len(s) - 1 |-> s[j]] BY <1>1 DEF Front
<1>3. Front(s) \in Seq(S) /\ Len(Front(s)) = Len(s) - 1 BY <1>1, <1>2
<1>. QED BY <1>1, <1>2, <1>3 DEF Last

\* The last element is replaced.
LEMMA TopReplaced ==
    ASSUME NEW S, NEW s \in Seq(S), s # <<>>, NEW f \in S
    PROVE  LET r == Append(Front(s), f) IN
           /\ r \in Seq(S) /\ Len(r) = Len(s) /\ r[Len(s)] = f
           /\ \A j \in 1..Len(s) - 1 : r[j] = s[j]
<1>1. Len(s) \in Nat /\ Len(s) > 0 OBVIOUS
<1>. QED BY <1>1, TopFacts

\* ... and another one put above it.
LEMMA TopPushed ==
    ASSUME NEW S, NEW s \in Seq(S), s # <<>>, NEW f \in S, NEW g \in S
    PROVE  LET r == Append(Front(s), f) \o <<g>> IN
           /\ r \in Seq(S) /\ Len(r) = Len(s) + 1 /\ r[Len(s)] = f /\ r[Len(s) + 1] = g
           /\ \A j \in 1..Len(s) - 1 : r[j] = s[j]
<1>1. PICK q : q = Append(Front(s), f) OBVIOUS
<1>2. /\ q \in Seq(S) /\ Len(q) = Len(s) /\ q[Len(s)] = f
      /\ \A j \in 1..Len(s) - 1 : q[j] = s[j]
  BY <1>1, TopReplaced
<1>3. Len(s) \in Nat /\ Len(s) > 0 OBVIOUS
<1>4. PICK r : r = q \o <<g>> OBVIOUS
<1>5. r \in Seq(S) /\ Len(r) = Len(s) + 1 BY <1>2, <1>4
<1>6. r[Len(s) + 1] = g /\ \A j \in 1..Len(s) : r[j] = q[j] BY <1>2, <1>3, <1>4
<1>. QED BY <1>1, <1>2, <1>3, <1>4, <1>5, <1>6

\* The elements of a sequence from one place to the end.
LEMMA Rest ==
    ASSUME NEW S, NEW s \in Seq(S), NEW m \in 0..Len(s)
    PROVE  LET q == SubSeq(s, m + 1, Len(s)) IN
           /\ q \in Seq(S) /\ Len(q) = Len(s) - m
           /\ \A j \in 1..Len(s) - m : q[j] = s[m + j]
<1>1. PICK q : q = SubSeq(s, m + 1, Len(s)) OBVIOUS
<1>2. Len(s) \in Nat /\ m \in Nat /\ m <= Len(s) OBVIOUS
<1>3. \A j \in 1..Len(s) - m : m + j \in 1..Len(s) /\ (m + 1) + j - 1 = m + j BY <1>2
<1>4. q \in Seq(S) BY <1>1, <1>2
<1>5. Len(q) = Len(s) - m BY <1>1, <1>2
<1>6. \A j \in 1..Len(s) - m : q[j] = s[m + j] BY <1>1, <1>2, <1>3
<1>. QED BY <1>1, <1>4, <1>5, <1>6

----------------------------------------------------------------------------
\* Sets

\* A family of subsets of a finite set has a member none of whose elements can
\* be left out.
LEMMA MinimalMember ==
    ASSUME NEW D, IsFiniteSet(D), NEW B, B \subseteq SUBSET D, B # {}
    PROVE  \E s \in B : \A x \in s : s \ {x} \notin B
<1>1. \A s \in B : IsFiniteSet(s) /\ Cardinality(s) \in Nat BY FS_Subset, FS_CardinalityType
<1> DEFINE T == {Cardinality(s) : s \in B}
<1>2. T \subseteq Nat /\ T # {}
  <2>1. PICK s \in B : TRUE OBVIOUS
  <2>2. Cardinality(s) \in T OBVIOUS
  <2>. QED BY <1>1, <2>2
<1>3. PICK n \in T : \A m \in T : n <= m BY <1>2, LeastOf
<1>4. PICK s \in B : Cardinality(s) = n BY <1>3
<1>5. ASSUME NEW x \in s, s \ {x} \in B PROVE FALSE
  <2>1. Cardinality(s \ {x}) = Cardinality(s) - 1 BY <1>1, <1>4, FS_RemoveElement
  <2>2. Cardinality(s \ {x}) \in T BY <1>5
  <2>3. n <= Cardinality(s \ {x}) BY <1>3, <2>2
  <2>. QED BY <1>1, <1>4, <2>1, <2>3
<1>. QED BY <1>4, <1>5

(***************************************************************************)
(* Sums. The library folds a sum by a recursive function over all subsets, *)
(* whose existence has to be proved before it can be unfolded.             *)
(***************************************************************************)

\* The element a fold takes next.
Pick(s) == CHOOSE x \in s : TRUE

\* h[s] is what the fold makes of the partial sums of smaller sets.
Unfolds(h, f, s) == h[s] = IF s = {} THEN 0 ELSE f[Pick(s)] + h[s \ {Pick(s)}]

\* h holds the partial sums of f.
Adds(h, f) == h = [s \in SUBSET DOMAIN f |-> IF s = {} THEN 0 ELSE f[Pick(s)] + h[s \ {Pick(s)}]]

LEMMA PickIn == ASSUME NEW s, s # {} PROVE Pick(s) \in s
BY DEF Pick

\* There is a function of partial sums, by induction on the size of the sets for
\* which it is right.
LEMMA PartialSumsExist ==
    ASSUME NEW f, IsFiniteSet(DOMAIN f)
    PROVE  \E h : Adds(h, f)
<1> DEFINE D == DOMAIN f
           Upto(n) == {s \in SUBSET D : Cardinality(s) <= n}
           Good(n) == \E h : h = [s \in SUBSET D |-> h[s]] /\ \A s \in Upto(n) : Unfolds(h, f, s)
           Bad == {n \in Nat : ~Good(n)}
<1>0. \A s \in SUBSET D : IsFiniteSet(s) /\ Cardinality(s) \in Nat /\ Cardinality(s) <= Cardinality(D)
  BY FS_Subset, FS_CardinalityType
<1>1. Bad = {}
  <2> SUFFICES ASSUME Bad # {} PROVE FALSE OBVIOUS
  <2>1. PICK n \in Bad : \A m \in Bad : n <= m BY LeastOf
  <2>2. n \in Nat /\ ~Good(n) OBVIOUS
  <2>3. CASE n = 0
    <3> DEFINE h == [s \in SUBSET D |-> 0]
    <3>1. h = [s \in SUBSET D |-> h[s]] OBVIOUS
    <3>2. ASSUME NEW s \in Upto(n) PROVE Unfolds(h, f, s)
      <4>1. s = {} BY <1>0, <2>3, FS_EmptySet
      <4>. QED BY <4>1 DEF Unfolds
    <3>. QED BY <2>2, <3>1, <3>2
  <2>4. CASE n # 0
    <3>1. n - 1 \in Nat BY <2>2, <2>4
    <3>2. Good(n - 1)
      <4>1. n - 1 \in Bad => n <= n - 1 BY <2>1
      <4>2. ~(n <= n - 1) BY <2>2
      <4>3. n - 1 \notin Bad
        <5> HIDE DEF Bad
        <5>. QED BY <4>1, <4>2
      <4>. QED BY <3>1, <4>3
    <3>3. PICK g : \A s \in Upto(n - 1) : Unfolds(g, f, s) BY <3>2
    <3> DEFINE h == [s \in SUBSET D |-> IF s = {} THEN 0 ELSE f[Pick(s)] + g[s \ {Pick(s)}]]
    <3>4. h = [s \in SUBSET D |-> h[s]] OBVIOUS
    <3>5. ASSUME NEW s \in Upto(n - 1) PROVE h[s] = g[s] BY <3>3 DEF Unfolds
    <3>6. ASSUME NEW s \in Upto(n) PROVE Unfolds(h, f, s)
      <4>1. CASE s = {} BY <4>1 DEF Unfolds
      <4>2. CASE s # {}
        <5> DEFINE r == s \ {Pick(s)}
        <5>1. Cardinality(r) = Cardinality(s) - 1 BY <1>0, <4>2, PickIn, FS_RemoveElement
        <5>2. r \in Upto(n - 1) BY <1>0, <2>2, <5>1
        <5>3. h[r] = g[r] BY <3>5, <5>2
        <5>4. h[s] = f[Pick(s)] + g[r] BY <4>2
        <5>. QED BY <4>2, <5>3, <5>4 DEF Unfolds
      <4>. QED BY <4>1, <4>2
    <3>. QED BY <2>2, <3>4, <3>6
  <2>. QED BY <2>3, <2>4
<1>2. Cardinality(D) \in Nat BY FS_CardinalityType
<1>3. Good(Cardinality(D)) BY <1>1, <1>2
<1>4. PICK h : h = [s \in SUBSET D |-> h[s]] /\ \A s \in Upto(Cardinality(D)) : Unfolds(h, f, s)
  BY <1>3
<1>5. \A s \in SUBSET D : h[s] = IF s = {} THEN 0 ELSE f[Pick(s)] + h[s \ {Pick(s)}]
  BY <1>0, <1>4 DEF Unfolds
<1>6. Adds(h, f) BY <1>4, <1>5 DEF Adds
<1>. QED BY <1>6

\* The sum as the library folds it: some function of partial sums, taken at
\* the whole domain.
LEMMA SumUnfolds ==
    ASSUME NEW f
    PROVE  SumFunction(f) = (CHOOSE h : Adds(h, f))[DOMAIN f]
BY DEF SumFunction, SumFunctionOnSet, FoldFunctionOnSet, MapThenFoldSet, Adds, Pick

\* h holds the partial sums that lead to the sum of f over D.
SumsUp(h, f, D) ==
    /\ SumFunction(f) = h[D]
    /\ h[{}] = 0
    /\ \A s \in SUBSET D : s # {} => h[s] = f[Pick(s)] + h[s \ {Pick(s)}]

LEMMA PartialSums ==
    ASSUME NEW D, IsFiniteSet(D), NEW f \in [D -> Int]
    PROVE  \E h : SumsUp(h, f, D)
<1>0. DOMAIN f = D OBVIOUS
<1> DEFINE h == CHOOSE h : Adds(h, f)
<1>1. Adds(h, f)
  <2>1. \E k : Adds(k, f) BY <1>0, PartialSumsExist
  <2>. QED BY <2>1
<1>2. SumFunction(f) = h[DOMAIN f] BY SumUnfolds
<1> HIDE DEF h
<1>3. \A s \in SUBSET DOMAIN f : h[s] = IF s = {} THEN 0 ELSE f[Pick(s)] + h[s \ {Pick(s)}]
  BY <1>1 DEF Adds
<1>. QED BY <1>0, <1>2, <1>3 DEF SumsUp

\* A sum of integers is one.
LEMMA SumType ==
    ASSUME NEW D, IsFiniteSet(D), NEW f \in [D -> Int]
    PROVE  SumFunction(f) \in Int
<1>1. PICK h : SumsUp(h, f, D) BY PartialSums
<1> DEFINE B == {s \in SUBSET D : h[s] \notin Int}
<1>2. B = {}
  <2> SUFFICES ASSUME B # {} PROVE FALSE OBVIOUS
  <2>1. PICK s \in B : \A x \in s : s \ {x} \notin B BY MinimalMember
  <2>2. s # {}
    <3>1. h[{}] \in Int BY <1>1 DEF SumsUp
    <3>2. h[s] \notin Int OBVIOUS
    <3>. QED BY <3>1, <3>2
  <2>3. Pick(s) \in s BY <2>2, PickIn
  <2>4. h[s \ {Pick(s)}] \in Int BY <2>1, <2>3
  <2>5. h[s] = f[Pick(s)] + h[s \ {Pick(s)}] BY <1>1, <2>2 DEF SumsUp
  <2>. QED BY <2>3, <2>4, <2>5
<1>. QED BY <1>1, <1>2 DEF SumsUp

\* Changing one summand changes the sum by as much.
LEMMA SumChange ==
    ASSUME NEW D, IsFiniteSet(D), NEW f \in [D -> Int], NEW g \in [D -> Int], NEW t \in D,
           \A u \in D \ {t} : g[u] = f[u]
    PROVE  SumFunction(g) = SumFunction(f) + (g[t] - f[t])
<1>1. PICK h : SumsUp(h, f, D) BY PartialSums
<1>2. PICK k : SumsUp(k, g, D) BY PartialSums
<1> DEFINE d == g[t] - f[t]
           Right(s) == h[s] \in Int /\ k[s] = h[s] + (IF t \in s THEN d ELSE 0)
           B == {s \in SUBSET D : ~Right(s)}
<1>3. d \in Int /\ g[t] = f[t] + d OBVIOUS
<1> HIDE DEF d
<1>4. B = {}
  <2> SUFFICES ASSUME B # {} PROVE FALSE OBVIOUS
  <2>1. PICK s \in B : \A x \in s : s \ {x} \notin B BY MinimalMember
  <2>2. s # {}
    <3>1. Right({}) BY <1>1, <1>2 DEF SumsUp
    <3>. QED BY <2>1, <3>1
  <2>3. Pick(s) \in s /\ Pick(s) \in D BY <2>2, PickIn
  <2> DEFINE x == Pick(s)
             r == s \ {x}
  <2>4. Right(r) BY <2>1, <2>3
  <2>5. h[s] = f[x] + h[r] /\ k[s] = g[x] + k[r] BY <1>1, <1>2, <2>2 DEF SumsUp
  <2>6. t \in r <=> t \in s /\ x # t OBVIOUS
  <2>7. f[x] \in Int /\ g[x] = f[x] + (IF x = t THEN d ELSE 0) BY <1>3, <2>3
  <2>8. Right(s)
    <3> HIDE DEF x, r
    <3>. QED BY <1>3, <2>3, <2>4, <2>5, <2>6, <2>7 DEF x
  <2>. QED BY <2>1, <2>8
<1>5. Right(D) BY <1>4
<1>. QED BY <1>1, <1>2, <1>5 DEF SumsUp, d

\* A sum of nothing but zeros is zero.
LEMMA SumZero ==
    ASSUME NEW D, IsFiniteSet(D), NEW f \in [D -> Int], \A x \in D : f[x] = 0
    PROVE  SumFunction(f) = 0
<1>1. PICK h : SumsUp(h, f, D) BY PartialSums
<1> DEFINE B == {s \in SUBSET D : h[s] # 0}
<1>2. B = {}
  <2> SUFFICES ASSUME B # {} PROVE FALSE OBVIOUS
  <2>1. PICK s \in B : \A x \in s : s \ {x} \notin B BY MinimalMember
  <2>2. s # {} BY <1>1 DEF SumsUp
  <2>3. Pick(s) \in s BY <2>2, PickIn
  <2>4. h[s \ {Pick(s)}] = 0 BY <2>1, <2>3
  <2>5. h[s] = f[Pick(s)] + h[s \ {Pick(s)}] BY <1>1, <2>2 DEF SumsUp
  <2>. QED BY <2>1, <2>3, <2>4, <2>5
<1>. QED BY <1>1, <1>2 DEF SumsUp

\* Every partial sum is a number.
LEMMA PartialType ==
    ASSUME NEW D, NEW f \in [D -> Int], IsFiniteSet(D), NEW h, SumsUp(h, f, D)
    PROVE  \A s \in SUBSET D : h[s] \in Int
<1> DEFINE B == {s \in SUBSET D : h[s] \notin Int}
<1> SUFFICES ASSUME B # {} PROVE FALSE OBVIOUS
<1>1. PICK s \in B : \A x \in s : s \ {x} \notin B BY MinimalMember
<1>2. s # {}
  <2>1. h[{}] \in Int BY DEF SumsUp
  <2>2. h[s] \notin Int OBVIOUS
  <2>. QED BY <2>1, <2>2
<1>3. Pick(s) \in s BY <1>2, PickIn
<1>4. h[s \ {Pick(s)}] \in Int BY <1>1, <1>3
<1>5. h[s] = f[Pick(s)] + h[s \ {Pick(s)}] BY <1>2 DEF SumsUp
<1>. QED BY <1>3, <1>4, <1>5

\* It does not matter which element a sum takes next.
LEMMA AnyNext ==
    ASSUME NEW D, IsFiniteSet(D), NEW f \in [D -> Int], NEW h, SumsUp(h, f, D)
    PROVE  \A s \in SUBSET D : \A y \in s : h[s] = f[y] + h[s \ {y}]
<1> DEFINE Right(s) == \A y \in s : h[s] = f[y] + h[s \ {y}]
           B == {s \in SUBSET D : ~Right(s)}
<1> SUFFICES ASSUME B # {} PROVE FALSE OBVIOUS
<1>1. PICK s \in B : \A x \in s : s \ {x} \notin B BY MinimalMember
<1>2. s \in SUBSET D /\ ~Right(s) OBVIOUS
<1>3. \A x \in s : Right(s \ {x}) BY <1>1, <1>2
<1>4. PICK y \in s : h[s] # f[y] + h[s \ {y}] BY <1>2
<1>5. PICK p \in s : h[s] = f[p] + h[s \ {p}]
  <2>1. s # {} BY <1>4
  <2>. QED BY <1>2, <2>1, PickIn DEF SumsUp
<1>6. p # y BY <1>4, <1>5
<1>7. h[s \ {p}] = f[y] + h[(s \ {p}) \ {y}] /\ h[s \ {y}] = f[p] + h[(s \ {y}) \ {p}]
  BY <1>3, <1>6
<1>8. PICK z : z = h[(s \ {p}) \ {y}] OBVIOUS
<1>9. z = h[(s \ {y}) \ {p}]
  <2>1. (s \ {p}) \ {y} = (s \ {y}) \ {p} OBVIOUS
  <2>. QED BY <1>8, <2>1
<1>10. z \in Int /\ f[p] \in Int /\ f[y] \in Int BY <1>2, <1>8, PartialType
<1>11. h[s] = f[p] + (f[y] + z) /\ h[s \ {y}] = f[p] + z BY <1>5, <1>7, <1>8, <1>9
<1>12. h[s] = f[y] + h[s \ {y}] BY <1>10, <1>11
<1>. QED BY <1>4, <1>12

\* The sum of the numbers that f gives to the elements of a set.
SumOf(f, S) == SumFunction([x \in S |-> f[x]])

\* A set of which f gives the numbers.
Summable(f, S) == IsFiniteSet(S) /\ \A x \in S : f[x] \in Int

LEMMA SumOfEmpty == ASSUME NEW f PROVE SumOf(f, {}) = 0
<1> DEFINE g == [x \in {} |-> f[x]]
<1>1. IsFiniteSet({}) BY FS_EmptySet
<1>2. g \in [{} -> Int] OBVIOUS
<1>3. \A x \in {} : g[x] = 0 OBVIOUS
<1> HIDE DEF g
<1>4. SumFunction(g) = 0 BY <1>1, <1>2, <1>3, SumZero
<1>. QED BY <1>4 DEF SumOf, g

LEMMA SumOfType == ASSUME NEW f, NEW S, Summable(f, S) PROVE SumOf(f, S) \in Int
BY SumType DEF SumOf, Summable

\* One more element adds its number.
LEMMA SumOfInsert ==
    ASSUME NEW f, NEW S, NEW x, x \notin S, Summable(f, S \cup {x})
    PROVE  SumOf(f, S \cup {x}) = SumOf(f, S) + f[x]
<1> DEFINE D == S \cup {x}
           g == [y \in D |-> f[y]]
           e == [y \in S |-> f[y]]
<1>1. IsFiniteSet(D) /\ IsFiniteSet(S) BY FS_Subset DEF Summable
<1>2. g \in [D -> Int] /\ e \in [S -> Int] BY DEF Summable
<1>3. \A y \in S : g[y] = e[y] OBVIOUS
<1>3a. g[x] = f[x] OBVIOUS
<1>3b. x \in D /\ D \ {x} = S /\ S \in SUBSET D OBVIOUS
<1>4. SumOf(f, D) = SumFunction(g) /\ SumOf(f, S) = SumFunction(e) BY DEF SumOf
<1> HIDE DEF g, e, D
<1>5. PICK h : SumsUp(h, g, D) BY <1>1, <1>2, PartialSums
<1>6. PICK k : SumsUp(k, e, S) BY <1>1, <1>2, PartialSums
<1> DEFINE B == {s \in SUBSET S : h[s] # k[s]}
<1>7. B = {}
  <2> SUFFICES ASSUME B # {} PROVE FALSE OBVIOUS
  <2>1. PICK s \in B : \A y \in s : s \ {y} \notin B BY <1>1, MinimalMember
  <2>2. s # {} BY <1>5, <1>6 DEF SumsUp
  <2>3. Pick(s) \in s BY <2>2, PickIn
  <2>4. h[s \ {Pick(s)}] = k[s \ {Pick(s)}] BY <2>1, <2>3
  <2>5. h[s] = g[Pick(s)] + h[s \ {Pick(s)}] BY <1>3b, <1>5, <2>2 DEF SumsUp
  <2>6. k[s] = e[Pick(s)] + k[s \ {Pick(s)}] BY <1>6, <2>2 DEF SumsUp
  <2>7. g[Pick(s)] = e[Pick(s)] BY <1>3, <2>3
  <2>. QED BY <2>4, <2>5, <2>6, <2>7
<1>8. h[S] = k[S] BY <1>7
<1>9. h[D] = g[x] + h[S] BY <1>1, <1>2, <1>3b, <1>5, AnyNext
<1>10. SumFunction(g) = h[D] /\ SumFunction(e) = k[S] BY <1>5, <1>6 DEF SumsUp
<1>11. k[S] \in Int /\ g[x] \in Int
  <2>1. S \in SUBSET S OBVIOUS
  <2>. QED BY <1>1, <1>2, <1>3b, <1>6, <2>1, PartialType
<1>. QED BY <1>3a, <1>4, <1>8, <1>9, <1>10, <1>11 DEF D

LEMMA SubSummable ==
    ASSUME NEW f, NEW S, Summable(f, S), NEW s \in SUBSET S PROVE Summable(f, s)
BY FS_Subset DEF Summable

\* The sums of two parts add up.
LEMMA SumOfParts ==
    ASSUME NEW f, NEW S, NEW T, S \cap T = {}, Summable(f, S), Summable(f, T)
    PROVE  SumOf(f, S \cup T) = SumOf(f, S) + SumOf(f, T)
<1>0. Summable(f, S \cup T) BY FS_Union DEF Summable
<1> DEFINE B == {s \in SUBSET T : SumOf(f, S \cup s) # SumOf(f, S) + SumOf(f, s)}
<1>1. B = {}
  <2> SUFFICES ASSUME B # {} PROVE FALSE OBVIOUS
  <2>1. PICK s \in B : \A x \in s : s \ {x} \notin B BY MinimalMember DEF Summable
  <2>2. s \in SUBSET T /\ SumOf(f, S \cup s) # SumOf(f, S) + SumOf(f, s) OBVIOUS
  <2>3. s # {}
    <3>1. SumOf(f, S) \in Int /\ S \cup {} = S BY SumOfType
    <3>2. SumOf(f, S \cup {}) = SumOf(f, S) + SumOf(f, {}) BY <3>1, SumOfEmpty
    <3>. QED BY <2>2, <3>2
  <2>4. PICK x \in s : TRUE BY <2>3
  <2>5. PICK r : r = s \ {x} OBVIOUS
  <2>6. SumOf(f, S \cup r) = SumOf(f, S) + SumOf(f, r)
    <3>1. r \notin B /\ r \in SUBSET T BY <2>1, <2>2, <2>4, <2>5
    <3>. QED BY <3>1
  <2>7. /\ s = r \cup {x} /\ S \cup s = (S \cup r) \cup {x} /\ x \notin r /\ x \notin S \cup r
        /\ s \subseteq S \cup T /\ S \cup s \subseteq S \cup T /\ r \subseteq S \cup T
    BY <2>2, <2>4, <2>5
  <2>8. Summable(f, s) /\ Summable(f, S \cup s) /\ Summable(f, r) BY <1>0, <2>7, SubSummable
  <2>9. SumOf(f, s) = SumOf(f, r) + f[x] BY <2>7, <2>8, SumOfInsert
  <2>10. SumOf(f, S \cup s) = SumOf(f, S \cup r) + f[x] BY <2>7, <2>8, SumOfInsert
  <2>11. SumOf(f, r) \in Int /\ SumOf(f, S) \in Int /\ f[x] \in Int
    <3>1. f[x] \in Int BY <2>4, <2>8 DEF Summable
    <3>. QED BY <2>8, <3>1, SumOfType
  <2>. QED BY <2>2, <2>6, <2>9, <2>10, <2>11
<1>. QED BY <1>1

\* A sum of no negative number is none.
LEMMA SumOfNat ==
    ASSUME NEW f, NEW S, IsFiniteSet(S), \A x \in S : f[x] \in Nat PROVE SumOf(f, S) \in Nat
<1>0. Summable(f, S) BY DEF Summable
<1> DEFINE B == {s \in SUBSET S : SumOf(f, s) \notin Nat}
<1> SUFFICES ASSUME B # {} PROVE FALSE OBVIOUS
<1>1. PICK s \in B : \A x \in s : s \ {x} \notin B BY MinimalMember
<1>2. s \in SUBSET S /\ SumOf(f, s) \notin Nat OBVIOUS
<1>3. s # {} BY <1>2, SumOfEmpty
<1>4. PICK x \in s : TRUE BY <1>3
<1>5. PICK r : r = s \ {x} OBVIOUS
<1>6. SumOf(f, r) \in Nat /\ f[x] \in Nat
  <2>1. r \notin B /\ r \in SUBSET S BY <1>1, <1>2, <1>4, <1>5
  <2>. QED BY <1>2, <1>4, <2>1
<1>7. s = r \cup {x} /\ x \notin r BY <1>4, <1>5
<1>8. SumOf(f, s) = SumOf(f, r) + f[x]
  <2>1. Summable(f, s) BY <1>0, <1>2, SubSummable
  <2>. QED BY <1>7, <2>1, SumOfInsert
<1>. QED BY <1>2, <1>6, <1>8

\* A part of such a sum is no more than the whole.
LEMMA SumOfPart ==
    ASSUME NEW f, NEW S, IsFiniteSet(S), \A x \in S : f[x] \in Nat, NEW T \in SUBSET S
    PROVE  SumOf(f, T) <= SumOf(f, S)
<1>1. IsFiniteSet(T) /\ IsFiniteSet(S \ T) BY FS_Subset
<1>2. Summable(f, T) /\ Summable(f, S \ T) BY <1>1 DEF Summable
<1>3. SumOf(f, T \cup (S \ T)) = SumOf(f, T) + SumOf(f, S \ T)
  <2>1. T \cap (S \ T) = {} OBVIOUS
  <2>. QED BY <1>2, <2>1, SumOfParts
<1>4. SumOf(f, S) = SumOf(f, T) + SumOf(f, S \ T)
  <2>1. T \cup (S \ T) = S OBVIOUS
  <2>. QED BY <1>3, <2>1
<1>5. SumOf(f, T) \in Nat /\ SumOf(f, S \ T) \in Nat BY <1>1, SumOfNat
<1>. QED BY <1>4, <1>5

\* Two sums whose summands are each other's, one to one.
LEMMA SumOfImage ==
    ASSUME NEW f, NEW g, NEW S, Summable(f, S), NEW m,
           \A x, y \in S : m[x] = m[y] => x = y,
           \A x \in S : g[m[x]] = f[x]
    PROVE  SumOf(g, {m[x] : x \in S}) = SumOf(f, S)
<1> DEFINE Im(s) == {m[x] : x \in s}
           B == {s \in SUBSET S : SumOf(g, Im(s)) # SumOf(f, s)}
<1>0. \A s \in SUBSET S : Summable(g, Im(s))
  <2> SUFFICES ASSUME NEW s \in SUBSET S PROVE Summable(g, Im(s)) OBVIOUS
  <2>1. IsFiniteSet(s) BY FS_Subset DEF Summable
  <2>2. IsFiniteSet(Im(s))
    <3> DEFINE c == [x \in s |-> m[x]]
    <3>1. c \in Surjection(s, Im(s)) BY DEF Surjection
    <3>. QED BY <2>1, <3>1, FS_Surjection
  <2>. QED BY <2>2 DEF Summable
<1>1. B = {}
  <2> SUFFICES ASSUME B # {} PROVE FALSE OBVIOUS
  <2>1. PICK s \in B : \A x \in s : s \ {x} \notin B BY MinimalMember DEF Summable
  <2>2. s \in SUBSET S /\ SumOf(g, Im(s)) # SumOf(f, s) OBVIOUS
  <2>3. s # {}
    <3>1. Im({}) = {} OBVIOUS
    <3>2. SumOf(g, Im({})) = SumOf(f, {}) BY <3>1, SumOfEmpty
    <3>. QED BY <2>2, <3>2
  <2>4. PICK x \in s : TRUE BY <2>3
  <2>5. PICK r : r = s \ {x} OBVIOUS
  <2>6. SumOf(g, Im(r)) = SumOf(f, r)
    <3>1. r \notin B /\ r \in SUBSET S BY <2>1, <2>2, <2>4, <2>5
    <3>. QED BY <3>1
  <2>7. s = r \cup {x} /\ x \notin r /\ r \in SUBSET S BY <2>2, <2>4, <2>5
  <2>8. Im(s) = Im(r) \cup {m[x]} /\ m[x] \notin Im(r)
    <3>1. m[x] \notin Im(r) BY <2>2, <2>4, <2>7
    <3>. QED BY <2>7, <3>1
  <2>9. Summable(f, s) /\ Summable(g, Im(s)) BY <1>0, <2>2, SubSummable
  <2>10. SumOf(f, s) = SumOf(f, r) + f[x]
    <3>1. x \notin r /\ Summable(f, r \cup {x}) BY <2>7, <2>9
    <3>2. SumOf(f, r \cup {x}) = SumOf(f, r) + f[x] BY ONLY <3>1, SumOfInsert
    <3>. QED BY <2>7, <3>2
  <2>11. SumOf(g, Im(s)) = SumOf(g, Im(r)) + g[m[x]]
    <3>1. PICK i : i = Im(r) OBVIOUS
    <3>2. PICK q : q = m[x] OBVIOUS
    <3>3. Im(s) = i \cup {q} /\ q \notin i BY <2>8, <3>1, <3>2
    <3> HIDE DEF Im
    <3>4. Summable(g, i \cup {q}) BY <2>9, <3>3
    <3>5. SumOf(g, i \cup {q}) = SumOf(g, i) + g[q] BY <3>3, <3>4, SumOfInsert
    <3>. QED BY <3>1, <3>2, <3>3, <3>5
  <2>. QED BY <2>2, <2>4, <2>6, <2>10, <2>11
<1>. QED BY <1>1

(***************************************************************************)
(* The append-only file (JsonLedger)                                       *)
(***************************************************************************)
LedgerRecord(S) == [rows : Seq(S), open : BOOLEAN, torn : BOOLEAN, junk : BOOLEAN]
LedgerOK(l, S) == l \in LedgerRecord(S) /\ (l.open => l.rows # <<>> /\ ~l.torn)

\* What an append may leave: the file as it was, the row at its end, or a line
\* that is cut or merged, at the cost of a last row that had no newline.
AppendLeaves(k, l, row) ==
    \/ k = l
    \/ ~l.open /\ ~l.torn /\ ~k.torn /\ k.rows = Append(l.rows, row) /\ k.junk = l.junk
    \/ k.rows = Kept(l) /\ k.torn /\ ~k.open /\ k.junk = l.junk
    \/ k.rows = Kept(l) /\ ~k.open /\ k.junk

LEMMA KeptRows ==
    ASSUME NEW S, NEW l, LedgerOK(l, S)
    PROVE  /\ Kept(l) \in Seq(S) /\ Len(Kept(l)) <= Len(l.rows)
           /\ \A j \in 1..Len(Kept(l)) : Kept(l)[j] = l.rows[j]
<1>1. l.rows \in Seq(S) /\ l.open \in BOOLEAN BY DEF LedgerOK, LedgerRecord
<1>2. CASE l.open
  <2>1. /\ Front(l.rows) \in Seq(S) /\ Len(Front(l.rows)) = Len(l.rows) - 1
        /\ \A j \in 1..Len(l.rows) - 1 : Front(l.rows)[j] = l.rows[j]
    BY <1>1, <1>2, TopFacts DEF LedgerOK
  <2>2. Kept(l) = Front(l.rows) /\ Len(l.rows) \in Nat BY <1>1, <1>2 DEF Kept
  <2>. QED BY <2>1, <2>2
<1>3. CASE ~l.open BY <1>1, <1>3 DEF Kept
<1>. QED BY <1>1, <1>2, <1>3

LEMMA Appends ==
    ASSUME NEW S, NEW l, LedgerOK(l, S), NEW row \in S, NEW k \in Failed(l, row)
    PROVE  LedgerOK(k, S) /\ AppendLeaves(k, l, row)
<1>1. /\ l.rows \in Seq(S) /\ l.open \in BOOLEAN /\ l.torn \in BOOLEAN /\ l.junk \in BOOLEAN
      /\ l = [rows |-> l.rows, open |-> l.open, torn |-> l.torn, junk |-> l.junk]
  BY DEF LedgerOK, LedgerRecord
<1>2. PICK kept \in Seq(S) : kept = Kept(l) BY KeptRows
<1>3. PICK longer \in Seq(S) : longer = Append(l.rows, row) /\ longer # <<>>
  <2>1. Append(l.rows, row) \in Seq(S) /\ Len(Append(l.rows, row)) = Len(l.rows) + 1 /\ Len(l.rows) \in Nat
    BY <1>1
  <2>2. Append(l.rows, row) # <<>> BY <2>1
  <2>. QED BY <2>1, <2>2
<1>4. CASE k = l BY <1>4 DEF AppendLeaves
<1>5. CASE k = Cut(l)
  <2>1. k = [rows |-> kept, open |-> FALSE, torn |-> TRUE, junk |-> l.junk]
    BY <1>1, <1>2, <1>5 DEF Cut
  <2>2. k.rows = kept /\ k.torn /\ ~k.open /\ k.junk = l.junk /\ k \in LedgerRecord(S)
    BY <1>1, <2>1 DEF LedgerRecord
  <2>. QED BY <1>2, <2>2 DEF AppendLeaves, LedgerOK
<1>6. CASE ~l.open /\ ~l.torn /\ k = Unended(l, row)
  <2>1. k = [rows |-> longer, open |-> TRUE, torn |-> FALSE, junk |-> l.junk]
    BY <1>1, <1>3, <1>6 DEF Unended
  <2>2. k.rows = longer /\ ~k.torn /\ k.open /\ k.junk = l.junk /\ k \in LedgerRecord(S)
    BY <1>1, <2>1 DEF LedgerRecord
  <2>. QED BY <1>3, <1>6, <2>2 DEF AppendLeaves, LedgerOK
<1>7. CASE ~l.open /\ ~l.torn /\ k = Written(l, row)
  <2>1. k = [rows |-> longer, open |-> FALSE, torn |-> FALSE, junk |-> l.junk]
    BY <1>1, <1>3, <1>7 DEF Written
  <2>2. k.rows = longer /\ ~k.torn /\ ~k.open /\ k.junk = l.junk /\ k \in LedgerRecord(S)
    BY <1>1, <2>1 DEF LedgerRecord
  <2>. QED BY <1>3, <1>7, <2>2 DEF AppendLeaves, LedgerOK
<1>8. CASE (l.open \/ l.torn) /\ k = Written(l, row)
  <2>1. k = [rows |-> kept, open |-> FALSE, torn |-> FALSE, junk |-> TRUE]
    BY <1>2, <1>8 DEF Written
  <2>2. k.rows = kept /\ ~k.open /\ k.junk /\ k \in LedgerRecord(S) BY <2>1 DEF LedgerRecord
  <2>. QED BY <1>2, <2>2 DEF AppendLeaves, LedgerOK
<1>. QED BY <1>4, <1>5, <1>6, <1>7, <1>8 DEF Failed, Unended

\* No row comes from nowhere.
LEMMA AppendedRows ==
    ASSUME NEW S, NEW l, LedgerOK(l, S), NEW row \in S, NEW k \in Failed(l, row)
    PROVE  \A r \in Range(k.rows) : r = row \/ r \in Range(l.rows)
<1>1. LedgerOK(k, S) /\ AppendLeaves(k, l, row) BY Appends
<1>2. l.rows \in Seq(S) /\ k.rows \in Seq(S) BY <1>1 DEF LedgerOK, LedgerRecord
<1>3. SUFFICES ASSUME NEW j \in 1..Len(k.rows)
               PROVE  k.rows[j] = row \/ \E i \in 1..Len(l.rows) : k.rows[j] = l.rows[i]
  BY <1>2 DEF Range
<1>4. CASE k.rows = Append(l.rows, row)
  <2>1. j = Len(l.rows) + 1 \/ j \in 1..Len(l.rows) BY <1>2, <1>4
  <2>. QED BY <1>2, <1>4, <2>1
<1>5. CASE k.rows = Kept(l)
  <2>1. j \in 1..Len(l.rows) /\ k.rows[j] = l.rows[j] BY <1>2, <1>5, KeptRows
  <2>. QED BY <2>1
<1>. QED BY <1>1, <1>4, <1>5 DEF AppendLeaves

\* As long as every line parses, the rows are what they were, or one more.
LEMMA ParsedAppend ==
    ASSUME NEW S, NEW l, LedgerOK(l, S), NEW row \in S, NEW k \in Failed(l, row), Parses(k)
    PROVE  /\ Parses(l)
           /\ k.rows = l.rows \/ k.rows = Append(l.rows, row)
           /\ k = Written(l, row) => k.rows = Append(l.rows, row)
<1>1. LedgerOK(k, S) /\ AppendLeaves(k, l, row) BY Appends
<1>2. l.rows \in Seq(S) /\ k.rows \in Seq(S) /\ l.open \in BOOLEAN /\ ~k.torn /\ ~k.junk
  BY <1>1 DEF LedgerOK, LedgerRecord, Parses
<1>3. k = l \/ (Parses(l) /\ k.rows = Append(l.rows, row)) BY <1>1, <1>2 DEF AppendLeaves, Parses
<1>4. ASSUME k = l, k = Written(l, row) PROVE k.rows = Append(l.rows, row)
  <2>1. l.open \/ l.torn => k.junk BY <1>4 DEF Written
  <2>2. k = [l EXCEPT !.rows = Append(@, row)] BY <1>2, <1>4, <2>1 DEF Written
  <2>3. l = [rows |-> l.rows, open |-> l.open, torn |-> l.torn, junk |-> l.junk]
    BY DEF LedgerOK, LedgerRecord
  <2>. QED BY <2>2, <2>3
<1>. QED BY <1>3, <1>4

\* ... so that nothing that was written is gone.
LEMMA ParsedRows ==
    ASSUME NEW S, NEW l, LedgerOK(l, S), NEW row \in S, NEW k \in Failed(l, row), Parses(k)
    PROVE  /\ Parses(l) /\ Range(l.rows) \subseteq Range(k.rows)
           /\ k = Written(l, row) => row \in Range(k.rows)
<1>1. l.rows \in Seq(S) BY DEF LedgerOK, LedgerRecord
<1>2. /\ Parses(l)
      /\ k.rows = l.rows \/ k.rows = Append(l.rows, row)
      /\ k = Written(l, row) => k.rows = Append(l.rows, row)
  BY ParsedAppend
<1>3. ASSUME k.rows = Append(l.rows, row)
      PROVE  Range(l.rows) \subseteq Range(k.rows) /\ row \in Range(k.rows)
  <2>1. /\ Len(l.rows) \in Nat /\ DOMAIN l.rows = 1..Len(l.rows) /\ DOMAIN k.rows = 1..Len(l.rows) + 1
        /\ k.rows[Len(l.rows) + 1] = row /\ \A j \in 1..Len(l.rows) : k.rows[j] = l.rows[j]
    BY <1>1, <1>3, SeqFacts
  <2>. QED BY <2>1 DEF Range
<1>. QED BY <1>2, <1>3

\* A row that is safe from the next append stays so, unless a line is spoilt.
LEMMA KeptStays ==
    ASSUME NEW S, NEW l, LedgerOK(l, S), NEW row \in S, NEW k \in Failed(l, row)
    PROVE  /\ l.junk => k.junk
           /\ Range(Kept(l)) \subseteq Range(Kept(k))
           /\ k = Written(l, row) => k.junk \/ row \in Range(Kept(k))
<1>1. /\ l.rows \in Seq(S) /\ l.open \in BOOLEAN /\ l.torn \in BOOLEAN /\ l.junk \in BOOLEAN
      /\ l = [rows |-> l.rows, open |-> l.open, torn |-> l.torn, junk |-> l.junk]
  BY DEF LedgerOK, LedgerRecord
<1>2. PICK kept \in Seq(S) : kept = Kept(l) BY KeptRows
<1>3. PICK longer \in Seq(S) : longer = Append(l.rows, row)
  <2>1. Append(l.rows, row) \in Seq(S) BY <1>1
  <2>. QED BY <2>1
<1>4. /\ Len(l.rows) \in Nat /\ Len(longer) = Len(l.rows) + 1 /\ longer[Len(l.rows) + 1] = row
      /\ \A j \in 1..Len(l.rows) : longer[j] = l.rows[j]
  BY <1>1, <1>3, SeqFacts
<1>5. Range(l.rows) \subseteq Range(longer) /\ row \in Range(longer)
  <2>1. DOMAIN l.rows = 1..Len(l.rows) /\ DOMAIN longer = 1..Len(l.rows) + 1 BY <1>1, <1>3, <1>4, SeqFacts
  <2>2. Len(l.rows) + 1 \in DOMAIN longer /\ \A j \in DOMAIN l.rows : j \in DOMAIN longer BY <1>4, <2>1
  <2>. QED BY <1>4, <2>1, <2>2 DEF Range
<1>6. CASE k = Cut(l)
  <2>1. k = [rows |-> kept, open |-> FALSE, torn |-> TRUE, junk |-> l.junk] BY <1>1, <1>2, <1>6 DEF Cut
  <2>2. Kept(k) = kept /\ k.junk = l.junk BY <2>1 DEF Kept
  <2>3. k = Written(l, row) => k.junk
    <3>1. CASE l.open \/ l.torn BY <3>1 DEF Written
    <3>2. CASE ~l.open /\ ~l.torn
      <4>1. Written(l, row) = [rows |-> longer, open |-> FALSE, torn |-> FALSE, junk |-> l.junk]
        BY <1>1, <1>3, <3>2 DEF Written
      <4>2. ~Written(l, row).torn /\ k.torn BY <2>1, <4>1
      <4>. QED BY <4>2
    <3>. QED BY <1>1, <3>1, <3>2
  <2>. QED BY <1>2, <2>2, <2>3
<1>7. CASE ~l.open /\ ~l.torn /\ k = Unended(l, row)
  <2>1. k = [rows |-> longer, open |-> TRUE, torn |-> FALSE, junk |-> l.junk] BY <1>1, <1>3, <1>7 DEF Unended
  <2>2. k.rows = longer /\ k.open /\ k.junk = l.junk /\ longer # <<>> BY <1>4, <2>1
  <2>3. PICK front \in Seq(S) :
          front = Front(longer) /\ Len(front) = Len(l.rows) /\ \A j \in 1..Len(l.rows) : front[j] = l.rows[j]
    <3>1. Front(longer) \in Seq(S) /\ Len(Front(longer)) = Len(longer) - 1
          /\ \A j \in 1..Len(longer) - 1 : Front(longer)[j] = longer[j]
      BY <2>2, TopFacts
    <3>2. Len(longer) - 1 = Len(l.rows) BY <1>4
    <3>. QED BY <1>4, <3>1, <3>2
  <2>4. Kept(k) = Front(longer) /\ Kept(l) = l.rows BY <1>7, <2>2 DEF Kept
  <2>5. Range(l.rows) \subseteq Range(front)
    <3>1. DOMAIN l.rows = 1..Len(l.rows) /\ DOMAIN front = 1..Len(l.rows) BY <1>1, <2>3, SeqFacts
    <3>. QED BY <2>3, <3>1 DEF Range
  <2>6. k # Written(l, row)
    <3>1. Written(l, row) = [rows |-> longer, open |-> FALSE, torn |-> FALSE, junk |-> l.junk]
      BY <1>1, <1>3, <1>7 DEF Written
    <3>2. ~Written(l, row).open BY <3>1
    <3>. QED BY <2>2, <3>2
  <2>. QED BY <2>2, <2>3, <2>4, <2>5, <2>6
<1>8. CASE ~l.open /\ ~l.torn /\ k = Written(l, row)
  <2>1. k = [rows |-> longer, open |-> FALSE, torn |-> FALSE, junk |-> l.junk] BY <1>1, <1>3, <1>8 DEF Written
  <2>2. Kept(k) = longer /\ Kept(l) = l.rows /\ k.junk = l.junk BY <1>8, <2>1 DEF Kept
  <2>. QED BY <1>5, <2>2
<1>9. CASE (l.open \/ l.torn) /\ k = Written(l, row)
  <2>1. k = [rows |-> kept, open |-> FALSE, torn |-> FALSE, junk |-> TRUE] BY <1>2, <1>9 DEF Written
  <2>2. Kept(k) = kept /\ k.junk BY <2>1 DEF Kept
  <2>. QED BY <1>2, <2>2
<1>10. CASE k = l /\ k # Written(l, row) BY <1>10
<1>. QED BY <1>1, <1>6, <1>7, <1>8, <1>9, <1>10 DEF Failed, Unended

LEMMA RangeFinite == ASSUME NEW S, NEW s \in Seq(S) PROVE IsFiniteSet(Range(s)) /\ Range(s) \subseteq S
<1>1. IsFiniteSet(1..Len(s)) BY FS_Interval
<1>2. s \in Surjection(1..Len(s), Range(s)) BY DEF Surjection, Range
<1>. QED BY <1>1, <1>2, FS_Surjection DEF Range

\* A file that nobody wrote to.
LEMMA NewLedgerOK == ASSUME NEW S PROVE LedgerOK(NewLedger, S) /\ NewLedger.rows = <<>>
BY DEF LedgerOK, LedgerRecord, NewLedger
=============================================================================
