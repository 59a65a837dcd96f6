---------------------------- MODULE CommonLemmas ----------------------------
(***************************************************************************)
(* Facts that the proofs of several components rest on: ring buffers (a    *)
(* ring of N slots keeps index i in slot i % N) and sequences, and sums    *)
(* over finite sets.                                                       *)
(***************************************************************************)
EXTENDS Sums, SequenceTheorems, FiniteSetTheorems, WellFoundedInduction, TLAPS

\* A remainder is a slot number, and division splits an index.
LEMMA ModBounds ==
  ASSUME NEW N \in Nat \ {0}, NEW a \in Nat
  PROVE  /\ a % N \in 0..(N - 1)
         /\ a = N * (a \div N) + (a % N)
         /\ a \div N \in Nat
  BY SMT

\* Two different multiples of N are at least N apart.
LEMMA NoMultipleBetween ==
  ASSUME NEW N \in Nat \ {0}, NEW x \in Int, NEW y \in Int, x > y
  PROVE  N * x >= N * y + N
<1>1. x >= y + 1
  OBVIOUS
<1>2. N * x >= N * (y + 1)
  BY <1>1, SMT
<1> QED
  BY <1>2, SMT

\* Indices less than N apart, in order, fall into different slots.
LEMMA RemaindersDiffer ==
  ASSUME NEW N \in Nat \ {0}, NEW a \in Nat, NEW b \in Nat, a < b, b - a < N
  PROVE  a % N # b % N
<1> DEFINE qa == a \div N
           qb == b \div N
           r  == a % N
<1> SUFFICES ASSUME a % N = b % N
             PROVE  FALSE
  OBVIOUS
<1>1. /\ qa \in Nat /\ qb \in Nat /\ r \in Int
      /\ a = N * qa + r /\ b = N * qb + r
  <2>1. a = N * (a \div N) + (a % N) /\ a \div N \in Nat
    BY ModBounds
  <2>2. b = N * (b \div N) + (b % N) /\ b \div N \in Nat
    BY ModBounds
  <2>3. a % N \in Int
    BY SMT
  <2> QED
    BY <2>1, <2>2, <2>3, Zenon
<1> HIDE DEF qa, qb, r
<1>2. CASE qb > qa
  <2>1. N * qb >= N * qa + N
    BY <1>1, <1>2, NoMultipleBetween
  <2> QED
    BY <1>1, <2>1, SMT
<1>3. CASE qb <= qa
  <2>1. CASE qb = qa
    BY <1>1, <2>1, SMT
  <2>2. CASE qa > qb
    <3>1. N * qa >= N * qb + N
      BY <1>1, <2>2, NoMultipleBetween
    <3> QED
      BY <1>1, <3>1, SMT
  <2> QED
    BY <1>1, <1>3, <2>1, <2>2
<1> QED
  BY <1>1, <1>2, <1>3

\* The same, whichever index is the smaller one.
LEMMA CloseIndicesDiffer ==
  ASSUME NEW N \in Nat \ {0}, NEW a \in Nat, NEW b \in Nat, a # b,
         a - b < N, b - a < N
  PROVE  a % N # b % N
<1>1. CASE a < b
  BY <1>1, RemaindersDiffer
<1>2. CASE b < a
  BY <1>2, RemaindersDiffer
<1> QED
  BY <1>1, <1>2

\* An index below the head is not the head's, and names an item of the log.
LEMMA BelowHead ==
  ASSUME NEW t \in Nat, NEW h \in Nat, NEW k \in t..(h - 1)
  PROVE  k \in t..h /\ k # h /\ k + 1 \in 1..h
  OBVIOUS

\* The end of a sequence grows with the sequence.
LEMMA SubSeqOfAppend ==
  ASSUME NEW S, NEW s \in Seq(S), NEW e \in S, NEW m \in 1..(Len(s) + 1)
  PROVE  SubSeq(Append(s, e), m, Len(s) + 1) = Append(SubSeq(s, m, Len(s)), e)
<1> DEFINE long  == SubSeq(Append(s, e), m, Len(s) + 1)
           short == SubSeq(s, m, Len(s))
<1>1. Append(s, e) \in Seq(S) /\ Len(Append(s, e)) = Len(s) + 1
  BY AppendProperties
<1>2. /\ long \in Seq(S) /\ Len(long) = Len(s) + 1 - m + 1
      /\ \A i \in 1..(Len(s) + 1 - m + 1) : long[i] = Append(s, e)[m + i - 1]
  BY <1>1, SubSeqProperties
<1>3. /\ short \in Seq(S) /\ Len(short) = Len(s) - m + 1
      /\ \A i \in 1..(Len(s) - m + 1) : short[i] = s[m + i - 1]
  BY SubSeqProperties
<1> HIDE DEF long, short
<1>4. /\ Append(short, e) \in Seq(S)
      /\ Len(Append(short, e)) = Len(s) + 1 - m + 1
      /\ \A i \in 1..Len(short) : Append(short, e)[i] = short[i]
      /\ Append(short, e)[Len(short) + 1] = e
  <2>1. short \in Seq(S)
    BY <1>3
  <2>2. /\ Append(short, e) \in Seq(S)
        /\ Len(Append(short, e)) = Len(short) + 1
        /\ \A i \in 1..Len(short) : Append(short, e)[i] = short[i]
        /\ Append(short, e)[Len(short) + 1] = e
    BY <2>1
  <2>3. Len(short) + 1 = Len(s) + 1 - m + 1
    BY <1>3
  <2> QED
    BY <2>2, <2>3
<1>5. ASSUME NEW i \in 1..Len(long)
      PROVE  long[i] = Append(short, e)[i]
  <2> DEFINE k == m + i - 1
  <2>1. long[i] = Append(s, e)[k]
    BY <1>2
  <2>2. CASE i = Len(short) + 1
    <3>1. k = Len(s) + 1
      BY <1>3, <2>2
    <3> QED
      BY <1>4, <2>1, <2>2, <3>1, AppendProperties
  <2>3. CASE i # Len(short) + 1
    <3> DEFINE n == Len(s)
    <3>1. n \in Nat /\ m \in 1..(n + 1) /\ i \in 1..(n + 1 - m + 1)
      BY <1>2
    <3>2. Len(short) = n - m + 1
      BY <1>3
    <3> HIDE DEF n
    <3>3. i # n - m + 2
      BY <2>3, <3>1, <3>2
    <3>4. k \in 1..n /\ i \in 1..Len(short) /\ i \in 1..(n - m + 1)
      BY <3>1, <3>2, <3>3
    <3> USE DEF n
    <3>5. Append(s, e)[k] = s[k]
      BY <3>4, AppendProperties
    <3> QED
      BY <1>3, <1>4, <2>1, <3>4, <3>5
  <2> QED
    BY <2>2, <2>3
<1>6. long = Append(short, e)
  BY <1>2, <1>4, <1>5, SeqEqual
<1> QED
  BY <1>6 DEF long, short
-----------------------------------------------------------------------------
(***************************************************************************)
(* What a sum over a finite set is worth, and how it follows a change of   *)
(* one of its terms.  The sum is a fold, a recursive function over the     *)
(* subsets; each fact about it is proved by induction on those, in the     *)
(* form "a smallest subset for which it fails has none".                   *)
(***************************************************************************)

\* The element the fold takes out of s first, and one unfolding of the fold.
Picked(s) == CHOOSE x \in s : TRUE

Unfolded(f, S, g) ==
  [s \in SUBSET S |-> IF s = {} THEN 0 ELSE f[Picked(s)] + g[s \ {Picked(s)}]]

\* The sum is the value of the function its definition chooses.
LEMMA SumOverDef ==
  ASSUME NEW f, NEW S
  PROVE  SumOver(f, S) = (CHOOSE g : g = Unfolded(f, S, g))[S]
  BY DEF SumOver, MapThenSumSet, MapThenFoldSet, Unfolded, Picked

\* A family of subsets of a finite set has a smallest member.
LEMMA SmallestSubset ==
  ASSUME NEW S, IsFiniteSet(S), NEW T, T \subseteq SUBSET S, T # {}
  PROVE  \E A \in T : \A B \in T : B \subseteq A => B = A
<1>1. IsWellFoundedOn(StrictSubsetOrdering(S), FiniteSubsetsOf(S))
  BY FS_StrictSubsetOrderingWellFounded
<1>2. FiniteSubsetsOf(S) = SUBSET S
  BY FS_FiniteSubsetsOfFinite
<1>3. PICK A \in T : \A B \in T : ~(<<B, A>> \in StrictSubsetOrdering(S))
  BY <1>1, <1>2, WFMin
<1>4. \A B \in T : B \subseteq A => B = A
  BY <1>3 DEF StrictSubsetOrdering
<1> QED
  BY <1>4

\* Two unfoldings agree wherever both are defined.
LEMMA UnfoldingsAgree ==
  ASSUME NEW f, NEW A, NEW B, IsFiniteSet(A),
         NEW g, g = Unfolded(f, A, g), NEW h, h = Unfolded(f, B, h),
         NEW s, s \subseteq A, s \subseteq B
  PROVE  g[s] = h[s]
<1> DEFINE T == {t \in SUBSET A : t \subseteq B /\ g[t] # h[t]}
<1> SUFFICES ASSUME T # {} PROVE FALSE
  OBVIOUS
<1>1. PICK t \in T : \A u \in T : u \subseteq t => u = t
  <2>1. T \subseteq SUBSET A
    OBVIOUS
  <2> HIDE DEF T
  <2> QED
    BY <2>1, SmallestSubset
<1>2. t # {}
  BY DEF Unfolded
<1>3. Picked(t) \in t
  BY <1>2 DEF Picked
<1>4. g[t \ {Picked(t)}] = h[t \ {Picked(t)}]
  BY <1>1, <1>3
<1>5. /\ g[t] = f[Picked(t)] + g[t \ {Picked(t)}]
      /\ h[t] = f[Picked(t)] + h[t \ {Picked(t)}]
  BY <1>2 DEF Unfolded
<1> QED
  BY <1>4, <1>5

\* Every finite set has an unfolding.
LEMMA UnfoldingExists ==
  ASSUME NEW f, NEW S, IsFiniteSet(S)
  PROVE  \E g : g = Unfolded(f, S, g)
<1> DEFINE Has(A) == \E g : g = Unfolded(f, A, g)
           The(A) == CHOOSE g : g = Unfolded(f, A, g)
           T == {A \in SUBSET S : ~Has(A)}
<1> SUFFICES ASSUME T # {} PROVE FALSE
  BY Zenon
<1>1. PICK A \in T : \A B \in T : B \subseteq A => B = A
  <2>1. T \subseteq SUBSET S
    OBVIOUS
  <2> HIDE DEF T
  <2> QED
    BY <2>1, SmallestSubset
<1>2. ASSUME NEW B, B \subseteq A, B # A
      PROVE  IsFiniteSet(B) /\ The(B) = Unfolded(f, B, The(B))
  <2>1. Has(B) /\ B \subseteq S
    BY <1>1, <1>2
  <2>2. The(B) = Unfolded(f, B, The(B))
    BY <2>1
  <2> QED
    BY <2>1, <2>2, FS_Subset
<1> DEFINE Rest(s) == s \ {Picked(s)}
           G == [s \in SUBSET A |->
                   IF s = {} THEN 0 ELSE f[Picked(s)] + The(Rest(s))[Rest(s)]]
<1>3. ASSUME NEW s \in SUBSET A, s # {}
      PROVE  G[Rest(s)] = The(Rest(s))[Rest(s)]
  <2>1. Picked(s) \in s
    BY <1>3 DEF Picked
  <2>2. Rest(s) \subseteq A /\ Rest(s) # A
    BY <2>1
  <2> DEFINE B == Rest(s)
  <2>3. IsFiniteSet(B) /\ The(B) = Unfolded(f, B, The(B))
    BY <1>2, <2>2
  <2> HIDE DEF The
  <2>4. CASE B = {}
    BY <2>2, <2>3, <2>4 DEF Unfolded
  <2>5. CASE B # {}
    <3>1. Picked(B) \in B
      BY <2>5 DEF Picked
    <3> DEFINE C == Rest(B)
    <3>2. C \subseteq B /\ C # A
      BY <2>2, <3>1
    <3>3. The(C) = Unfolded(f, C, The(C))
      BY <1>2, <2>2, <3>2
    <3>4. The(B)[C] = The(C)[C]
      <4> HIDE DEF B, C
      <4> QED BY <2>3, <3>2, <3>3, UnfoldingsAgree
    <3>5. The(B)[B] = f[Picked(B)] + The(B)[C]
      BY <2>3, <2>5 DEF Unfolded
    <3> QED
      BY <2>2, <2>5, <3>4, <3>5
  <2> QED
    BY <2>4, <2>5
<1>4. G = Unfolded(f, A, G)
  <2> HIDE DEF The
  <2>1. ASSUME NEW s \in SUBSET A
        PROVE  G[s] = Unfolded(f, A, G)[s]
    BY <1>3 DEF Unfolded
  <2> QED
    BY <2>1 DEF Unfolded
<1>5. Has(A)
  <2> HIDE DEF G
  <2> QED BY <1>4
<1> QED
  BY <1>1, <1>5

\* The empty sum.
LEMMA SumEmpty ==
  ASSUME NEW f
  PROVE  SumOver(f, {}) = 0
<1> DEFINE g == CHOOSE g : g = Unfolded(f, {}, g)
<1>1. g = Unfolded(f, {}, g)
  BY FS_EmptySet, UnfoldingExists
<1>2. g[{}] = 0
  <2> HIDE DEF g
  <2> QED BY <1>1 DEF Unfolded
<1> QED
  BY <1>2, SumOverDef

\* The recursion equation of the fold.
LEMMA SumUnfolds ==
  ASSUME NEW f, NEW S, IsFiniteSet(S), S # {}
  PROVE  /\ Picked(S) \in S
         /\ SumOver(f, S) = f[Picked(S)] + SumOver(f, S \ {Picked(S)})
<1> DEFINE B == S \ {Picked(S)}
           g == CHOOSE g : g = Unfolded(f, S, g)
           h == CHOOSE h : h = Unfolded(f, B, h)
<1>1. Picked(S) \in S
  BY DEF Picked
<1>2. g = Unfolded(f, S, g)
  BY UnfoldingExists
<1>3. IsFiniteSet(B)
  BY FS_Subset
<1>4. h = Unfolded(f, B, h)
  <2> HIDE DEF B
  <2> QED BY <1>3, UnfoldingExists
<1>5. SumOver(f, S) = g[S] /\ SumOver(f, B) = h[B]
  <2> HIDE DEF B
  <2> QED BY SumOverDef
<1> HIDE DEF g, h
<1>6. g[B] = h[B]
  <2>1. B \subseteq S
    OBVIOUS
  <2> HIDE DEF B
  <2> QED BY <1>2, <1>3, <1>4, <2>1, UnfoldingsAgree
<1>7. g[S] = f[Picked(S)] + g[B]
  BY <1>2 DEF Unfolded
<1> QED
  BY <1>1, <1>5, <1>6, <1>7

\* A sum of integers is an integer, and any element may be taken out first.
LEMMA SumTakesOut ==
  ASSUME NEW S, IsFiniteSet(S), NEW f, \A x \in S : f[x] \in Int
  PROVE  /\ SumOver(f, S) \in Int
         /\ \A x \in S : SumOver(f, S) = f[x] + SumOver(f, S \ {x})
<1> DEFINE Ok(A) == /\ SumOver(f, A) \in Int
                    /\ \A x \in A : SumOver(f, A) = f[x] + SumOver(f, A \ {x})
           T == {A \in SUBSET S : ~Ok(A)}
<1> SUFFICES ASSUME T # {} PROVE FALSE
  BY Zenon
<1>1. PICK A \in T : \A B \in T : B \subseteq A => B = A
  <2>1. T \subseteq SUBSET S
    OBVIOUS
  <2> HIDE DEF T
  <2> QED
    BY <2>1, SmallestSubset
<1>2. A \subseteq S /\ ~Ok(A) /\ IsFiniteSet(A)
  BY <1>1, FS_Subset
<1>3. ASSUME NEW B, B \subseteq A, B # A
      PROVE  Ok(B)
  BY <1>1, <1>2, <1>3
<1>4. A # {}
  BY <1>2, SumEmpty
<1> DEFINE c == Picked(A)
<1>5. c \in A /\ SumOver(f, A) = f[c] + SumOver(f, A \ {c})
  BY <1>2, <1>4, SumUnfolds
<1> HIDE DEF c, T
<1>6. Ok(A \ {c}) /\ f[c] \in Int
  BY <1>2, <1>3, <1>5
<1>7. ASSUME NEW x \in A, x # c
      PROVE  SumOver(f, A) = f[x] + SumOver(f, A \ {x})
  <2>1. Ok(A \ {x}) /\ f[x] \in Int
    BY <1>2, <1>3
  <2>2. x \in A \ {c} /\ c \in A \ {x} /\ (A \ {c}) \ {x} = (A \ {x}) \ {c}
    BY <1>5, <1>7
  <2> DEFINE D == (A \ {x}) \ {c}
  <2>3. Ok(D)
    BY <1>2, <1>3, <1>5
  <2>4. SumOver(f, A \ {c}) = f[x] + SumOver(f, D)
    BY <1>6, <2>2
  <2>5. SumOver(f, A \ {x}) = f[c] + SumOver(f, D)
    BY <2>1, <2>2
  <2> HIDE DEF D
  <2> QED
    BY <1>5, <1>6, <2>1, <2>3, <2>4, <2>5
<1>8. Ok(A)
  <2>1. SumOver(f, A) \in Int
    BY <1>5, <1>6
  <2>2. \A x \in A : SumOver(f, A) = f[x] + SumOver(f, A \ {x})
    BY <1>5, <1>7
  <2> QED
    BY <2>1, <2>2
<1> QED
  BY <1>2, <1>8

\* The sum depends on the function only where it is summed.
LEMMA SumAgrees ==
  ASSUME NEW S, IsFiniteSet(S), NEW f, NEW g, \A x \in S : f[x] = g[x]
  PROVE  SumOver(f, S) = SumOver(g, S)
<1> DEFINE T == {A \in SUBSET S : SumOver(f, A) # SumOver(g, A)}
<1> SUFFICES ASSUME T # {} PROVE FALSE
  OBVIOUS
<1>1. PICK A \in T : \A B \in T : B \subseteq A => B = A
  <2>1. T \subseteq SUBSET S
    OBVIOUS
  <2> HIDE DEF T
  <2> QED
    BY <2>1, SmallestSubset
<1>2. IsFiniteSet(A)
  BY FS_Subset
<1>3. A # {}
  BY SumEmpty
<1> DEFINE c == Picked(A)
<1>4. /\ c \in A
      /\ SumOver(f, A) = f[c] + SumOver(f, A \ {c})
      /\ SumOver(g, A) = g[c] + SumOver(g, A \ {c})
  BY <1>2, <1>3, SumUnfolds
<1>5. SumOver(f, A \ {c}) = SumOver(g, A \ {c})
  BY <1>1, <1>4
<1> QED
  BY <1>4, <1>5

\* A sum of naturals is a natural, at least as large as each summand.
LEMMA SumOfNaturals ==
  ASSUME NEW S, IsFiniteSet(S), NEW f, \A x \in S : f[x] \in Nat
  PROVE  /\ SumOver(f, S) \in Nat
         /\ \A x \in S : f[x] <= SumOver(f, S)
<1> DEFINE T == {A \in SUBSET S : SumOver(f, A) \notin Nat}
<1>1. ASSUME T # {} PROVE FALSE
  <2>1. PICK A \in T : \A B \in T : B \subseteq A => B = A
    <3>1. T \subseteq SUBSET S
      OBVIOUS
    <3> HIDE DEF T
    <3> QED
      BY <1>1, <3>1, SmallestSubset
  <2>2. IsFiniteSet(A)
    BY FS_Subset
  <2>3. A # {}
    BY SumEmpty
  <2> DEFINE c == Picked(A)
  <2>4. c \in A /\ SumOver(f, A) = f[c] + SumOver(f, A \ {c})
    BY <2>2, <2>3, SumUnfolds
  <2>5. SumOver(f, A \ {c}) \in Nat
    BY <2>1, <2>4
  <2> QED
    BY <2>4, <2>5
<1>2. \A A \in SUBSET S : SumOver(f, A) \in Nat
  BY <1>1
<1>3. ASSUME NEW x \in S
      PROVE  f[x] <= SumOver(f, S)
  <2>1. SumOver(f, S) = f[x] + SumOver(f, S \ {x})
    BY SumTakesOut
  <2>2. SumOver(f, S \ {x}) \in Nat
    BY <1>2
  <2> QED
    BY <2>1, <2>2
<1> QED
  BY <1>2, <1>3

\* Changing one term by d changes the sum by d.
LEMMA SumChangesBy ==
  ASSUME NEW S, IsFiniteSet(S), NEW f, NEW g, NEW x \in S, NEW d \in Int,
         \A y \in S : f[y] \in Int,
         \A y \in S \ {x} : g[y] = f[y],
         g[x] = f[x] + d
  PROVE  SumOver(g, S) = SumOver(f, S) + d
<1>1. IsFiniteSet(S \ {x})
  BY FS_Subset
<1>2. SumOver(g, S \ {x}) = SumOver(f, S \ {x})
  BY <1>1, SumAgrees
<1>3. /\ SumOver(f, S) = f[x] + SumOver(f, S \ {x})
      /\ SumOver(g, S) = g[x] + SumOver(g, S \ {x})
  <2>1. \A y \in S : g[y] \in Int
    OBVIOUS
  <2> QED
    BY <2>1, SumTakesOut
<1>4. SumOver(f, S \ {x}) \in Int
  BY <1>1, SumTakesOut
<1> QED
  BY <1>2, <1>3, <1>4

\* The sum of equal terms.
LEMMA SumOfEquals ==
  ASSUME NEW S, IsFiniteSet(S), NEW f, NEW c \in Int, \A x \in S : f[x] = c
  PROVE  SumOver(f, S) = c * Cardinality(S)
<1> DEFINE T == {A \in SUBSET S : SumOver(f, A) # c * Cardinality(A)}
<1> SUFFICES ASSUME T # {} PROVE FALSE
  OBVIOUS
<1>1. PICK A \in T : \A B \in T : B \subseteq A => B = A
  <2>1. T \subseteq SUBSET S
    OBVIOUS
  <2> HIDE DEF T
  <2> QED
    BY <2>1, SmallestSubset
<1>2. IsFiniteSet(A)
  BY FS_Subset
<1>3. A # {}
  <2>1. c * 0 = 0
    OBVIOUS
  <2> QED
    BY <2>1, SumEmpty, FS_EmptySet
<1> DEFINE x == Picked(A)
           B == A \ {x}
<1>4. x \in A /\ SumOver(f, A) = f[x] + SumOver(f, B)
  BY <1>2, <1>3, SumUnfolds
<1>5. SumOver(f, B) = c * Cardinality(B)
  BY <1>1, <1>4
<1>6. Cardinality(A) \in Nat /\ Cardinality(B) = Cardinality(A) - 1
  BY <1>2, <1>4, FS_RemoveElement, FS_CardinalityType
<1>7. f[x] = c
  BY <1>4
<1>8. SumOver(f, A) # c * Cardinality(A)
  OBVIOUS
<1> HIDE DEF x, B
<1> DEFINE n == Cardinality(A)
<1>9. SumOver(f, A) = c + c * (n - 1)
  BY <1>4, <1>5, <1>6, <1>7
<1> HIDE DEF n
<1>10. c + c * (n - 1) = c * n
  <2>1. n \in Nat
    BY <1>6 DEF n
  <2> QED
    BY <2>1
<1> QED
  BY <1>8, <1>9, <1>10 DEF n
=============================================================================
