---------------------------- MODULE DataTheorems ----------------------------
(***************************************************************************)
(* Facts about data that the proofs of several components use: sums over   *)
(* finite sets, numbers modulo a width, and sequences that lose an element.*)
(*                                                                         *)
(* What a sum is for every finite set needs induction.  It is stated here  *)
(* with sets instead of predicates, from the well-foundedness of strict    *)
(* inclusion: a non-empty set of subsets of a finite set has a smallest    *)
(* member (FiniteSetMin).  The smallest subset for which a claim fails is  *)
(* then led to a contradiction.                                            *)
(***************************************************************************)
EXTENDS Integers, Sequences, SequencesExt, FiniteSetsExt, FiniteSetTheorems,
        SequenceTheorems, WellFoundedInduction, TLAPS

-----------------------------------------------------------------------------
(* Sums over finite sets. *)

\* Of the subsets of a finite set in a non-empty collection, one contains no other.
LEMMA FiniteSetMin ==
  ASSUME NEW S, IsFiniteSet(S), NEW P, P \subseteq SUBSET S, P # {}
  PROVE  \E T \in P : \A U \in P : U \subseteq T => U = T
<1>1. IsWellFoundedOn(StrictSubsetOrdering(S), SUBSET S)
  BY FS_StrictSubsetOrderingWellFounded, FS_FiniteSubsetsOfFinite
<1>2. PICK T \in P : \A U \in P : <<U, T>> \notin StrictSubsetOrdering(S)
  BY <1>1, WFMin
<1>3. QED
  BY <1>2 DEF StrictSubsetOrdering

\* The element that the fold of MapThenSumSet takes next.
Chosen(s) == CHOOSE x \in s : TRUE

\* The sum of v[e] for all e in S.
SumOver(v, S) == MapThenSumSet(LAMBDA e : v[e], S)

\* g sums up v over every subset of S, one chosen element after another.
Sums(g, v, S) ==
    g = [s \in SUBSET S |-> IF s = {} THEN 0 ELSE v[Chosen(s)] + g[s \ {Chosen(s)}]]

\* An element that is chosen from a set with elements is in it.
LEMMA ChosenIn == ASSUME NEW s, s # {} PROVE Chosen(s) \in s
  BY DEF Chosen

\* Two functions that sum up the subsets of two sets agree on the subsets of both: the
\* smallest subset on which they differ would lose an element on which they agree.
LEMMA SumsUnique ==
  ASSUME NEW v, NEW S, NEW T, IsFiniteSet(S), NEW g, NEW h, Sums(g, v, S), Sums(h, v, T)
  PROVE  \A u \in SUBSET (S \cap T) : g[u] = h[u]
<1> DEFINE P == {u \in SUBSET (S \cap T) : g[u] # h[u]}
<1>1. SUFFICES ASSUME P # {} PROVE FALSE
  OBVIOUS
<1>2. PICK u \in P : \A w \in P : w \subseteq u => w = u
  <2>1. P \subseteq SUBSET S
    OBVIOUS
  <2> HIDE DEF P
  <2>2. QED
    BY <1>1, <2>1, FiniteSetMin
<1>3. u # {}
  BY DEF Sums
<1>4. u \ {Chosen(u)} \notin P /\ u \ {Chosen(u)} \in SUBSET (S \cap T)
  BY <1>2, <1>3, ChosenIn
<1>5. g[u \ {Chosen(u)}] = h[u \ {Chosen(u)}]
  BY <1>4
<1>6. g[u] = v[Chosen(u)] + g[u \ {Chosen(u)}]
  BY <1>3 DEF Sums
<1>7. h[u] = v[Chosen(u)] + h[u \ {Chosen(u)}]
  BY <1>3 DEF Sums
<1>8. QED
  BY <1>5, <1>6, <1>7

\* The recursion that MapThenSumSet is defined by has a solution for a finite set, so
\* its CHOOSE chooses one.
LEMMA SumsExist ==
  ASSUME NEW v, NEW S, IsFiniteSet(S)
  PROVE  \E g : Sums(g, v, S)
<1> DEFINE P == {T \in SUBSET S : ~\E g : Sums(g, v, T)}
<1>1. SUFFICES ASSUME P # {} PROVE FALSE
  OBVIOUS
<1>2. PICK T \in P : \A U \in P : U \subseteq T => U = T
  <2>1. P \subseteq SUBSET S
    OBVIOUS
  <2> HIDE DEF P
  <2>2. QED
    BY <1>1, <2>1, FiniteSetMin
<1> DEFINE G(U) == CHOOSE g : Sums(g, v, U)
           g == [s \in SUBSET T |-> IF s = {} THEN 0 ELSE v[Chosen(s)] + G(s \ {Chosen(s)})[s \ {Chosen(s)}]]
<1>3. ASSUME NEW U \in SUBSET T, U # T PROVE Sums(G(U), v, U)
  <2>1. \E h : Sums(h, v, U)
    BY <1>2, <1>3
  <2>2. QED
    BY <2>1
<1>4. ASSUME NEW s \in SUBSET T, s # {}
      PROVE  g[s] = v[Chosen(s)] + g[s \ {Chosen(s)}]
  <2> DEFINE u == s \ {Chosen(s)}
  <2>1. u \in SUBSET T /\ u # T /\ u \in SUBSET u
    BY <1>4, ChosenIn
  <2>2. Sums(G(u), v, u)
    BY <1>3, <2>1
  <2>3. G(u)[u] = IF u = {} THEN 0 ELSE v[Chosen(u)] + G(u)[u \ {Chosen(u)}]
    BY <2>1, <2>2 DEF Sums
  <2>4. g[u] = IF u = {} THEN 0 ELSE v[Chosen(u)] + G(u \ {Chosen(u)})[u \ {Chosen(u)}]
    BY <2>1
  <2>5. ASSUME u # {} PROVE G(u)[u \ {Chosen(u)}] = G(u \ {Chosen(u)})[u \ {Chosen(u)}]
    <3> DEFINE w == u \ {Chosen(u)}
    <3>1. w \in SUBSET T /\ w # T
      BY <2>1
    <3>2. Sums(G(w), v, w)
      BY <1>3, <3>1
    <3>3. IsFiniteSet(u) /\ w \in SUBSET (u \cap w)
      BY <2>1, FS_Subset
    <3> HIDE DEF w, u, G
    <3>4. G(u)[w] = G(w)[w]
      BY <2>2, <3>2, <3>3, SumsUnique
    <3>5. QED
      BY <3>4 DEF w
  <2>6. G(u)[u] = g[u]
    BY <2>3, <2>4, <2>5
  <2>7. g[s] = v[Chosen(s)] + G(u)[u]
    BY <1>4
  <2>8. QED
    BY <2>6, <2>7
<1>5. \A s \in SUBSET T : g[s] = IF s = {} THEN 0 ELSE v[Chosen(s)] + g[s \ {Chosen(s)}]
  <2>1. g[{}] = 0
    OBVIOUS
  <2> HIDE DEF g
  <2>2. QED
    BY <1>4, <2>1
<1>6. Sums(g, v, T)
  <2> DEFINE h == [s \in SUBSET T |-> IF s = {} THEN 0 ELSE v[Chosen(s)] + g[s \ {Chosen(s)}]]
  <2>1. \A s \in SUBSET T : g[s] = h[s]
    BY <1>5, ZenonT(60)
  <2>2. g = h
    BY <2>1
  <2>3. QED
    BY <2>2 DEF Sums
<1>7. QED
  BY <1>6

\* A sum over a finite set is what the recursion says.
LEMMA SumIs ==
  ASSUME NEW v, NEW S, IsFiniteSet(S)
  PROVE  \E g : Sums(g, v, S) /\ SumOver(v, S) = g[S]
<1> DEFINE g == CHOOSE g : Sums(g, v, S)
<1>1. Sums(g, v, S)
  BY SumsExist
<1>2. SumOver(v, S) = g[S]
  BY DEF SumOver, Sums, MapThenSumSet, MapThenFoldSet, Chosen
<1>3. QED
  BY <1>1, <1>2

\* The sum takes one element after another.
LEMMA SumChosen ==
  ASSUME NEW v, NEW S, IsFiniteSet(S), S # {}
  PROVE  SumOver(v, S) = v[Chosen(S)] + SumOver(v, S \ {Chosen(S)})
<1> DEFINE T == S \ {Chosen(S)}
<1>0. IsFiniteSet(T) /\ T \in SUBSET (S \cap T) /\ S \in SUBSET S
  BY FS_Subset
<1>1. PICK g : Sums(g, v, S) /\ SumOver(v, S) = g[S]
  BY SumIs
<1>2. PICK h : Sums(h, v, T) /\ SumOver(v, T) = h[T]
  BY <1>0, SumIs
<1>3. g[T] = h[T]
  BY <1>0, <1>1, <1>2, SumsUnique
<1>4. g[S] = v[Chosen(S)] + g[T]
  BY <1>0, <1>1 DEF Sums
<1>5. QED
  BY <1>1, <1>2, <1>3, <1>4

\* The sum of nothing is zero.
LEMMA SumEmpty == ASSUME NEW v PROVE SumOver(v, {}) = 0
<1>1. IsFiniteSet({})
  BY FS_EmptySet
<1>2. PICK g : Sums(g, v, {}) /\ SumOver(v, {}) = g[{}]
  BY <1>1, SumIs
<1>3. g[{}] = 0
  BY <1>2 DEF Sums
<1>4. QED
  BY <1>2, <1>3

\* A sum of integers is an integer.
LEMMA SumInt ==
  ASSUME NEW v, NEW S, IsFiniteSet(S), \A x \in S : v[x] \in Int
  PROVE  SumOver(v, S) \in Int
<1> DEFINE P == {T \in SUBSET S : SumOver(v, T) \notin Int}
<1>1. SUFFICES ASSUME P # {} PROVE FALSE
  OBVIOUS
<1>2. PICK T \in P : \A U \in P : U \subseteq T => U = T
  <2>1. P \subseteq SUBSET S
    OBVIOUS
  <2> HIDE DEF P
  <2>2. QED
    BY <1>1, <2>1, FiniteSetMin
<1>3. T # {}
  BY SumEmpty
<1>4. IsFiniteSet(T) /\ Chosen(T) \in T
  BY <1>3, ChosenIn, FS_Subset
<1>5. SumOver(v, T \ {Chosen(T)}) \in Int
  BY <1>2, <1>4
<1>6. QED
  BY <1>3, <1>4, <1>5, SumChosen

\* Any element may be taken out first: the sum does not depend on the order.
LEMMA SumRemove ==
  ASSUME NEW v, NEW S, IsFiniteSet(S), \A x \in S : v[x] \in Int, NEW e \in S
  PROVE  SumOver(v, S) = v[e] + SumOver(v, S \ {e})
<1> DEFINE P == {T \in SUBSET S : \E x \in T : SumOver(v, T) # v[x] + SumOver(v, T \ {x})}
<1>1. SUFFICES ASSUME P # {} PROVE FALSE
  OBVIOUS
<1>2. PICK T \in P : \A U \in P : U \subseteq T => U = T
  <2>1. P \subseteq SUBSET S
    OBVIOUS
  <2> HIDE DEF P
  <2>2. QED
    BY <1>1, <2>1, FiniteSetMin
<1>3. PICK x \in T : SumOver(v, T) # v[x] + SumOver(v, T \ {x})
  OBVIOUS
<1> DEFINE y == Chosen(T)
<1>4. y \in T
  BY ChosenIn
<1>5. \A U \in SUBSET S : IsFiniteSet(U) /\ SumOver(v, U) \in Int
  BY FS_Subset, SumInt
<1>6. SumOver(v, T) = v[y] + SumOver(v, T \ {y})
  BY <1>4, <1>5, SumChosen
<1>7. x # y
  BY <1>3, <1>6
<1>8. SumOver(v, T \ {y}) = v[x] + SumOver(v, T \ {x, y})
  <2>1. T \ {y} \notin P /\ T \ {y} \in SUBSET S /\ x \in T \ {y}
    BY <1>2, <1>4, <1>7
  <2>2. (T \ {y}) \ {x} = T \ {x, y}
    OBVIOUS
  <2>3. QED
    BY <2>1, <2>2
<1>9. SumOver(v, T \ {x}) = v[y] + SumOver(v, T \ {x, y})
  <2>1. T \ {x} \notin P /\ T \ {x} \in SUBSET S /\ y \in T \ {x}
    BY <1>2, <1>4, <1>7
  <2>2. (T \ {x}) \ {y} = T \ {x, y}
    OBVIOUS
  <2>3. QED
    BY <2>1, <2>2
<1>10. v[x] \in Int /\ v[y] \in Int /\ SumOver(v, T \ {x, y}) \in Int
  BY <1>4, <1>5
<1> HIDE DEF y
<1>11. QED
  BY <1>3, <1>6, <1>8, <1>9, <1>10

\* A sum depends on nothing but the values that it adds.
LEMMA SumSame ==
  ASSUME NEW v, NEW w, NEW S, IsFiniteSet(S), \A x \in S : v[x] = w[x]
  PROVE  SumOver(v, S) = SumOver(w, S)
<1> DEFINE P == {T \in SUBSET S : SumOver(v, T) # SumOver(w, T)}
<1>1. SUFFICES ASSUME P # {} PROVE FALSE
  OBVIOUS
<1>2. PICK T \in P : \A U \in P : U \subseteq T => U = T
  <2>1. P \subseteq SUBSET S
    OBVIOUS
  <2> HIDE DEF P
  <2>2. QED
    BY <1>1, <2>1, FiniteSetMin
<1>3. T # {}
  BY SumEmpty
<1>4. IsFiniteSet(T) /\ Chosen(T) \in T
  BY <1>3, ChosenIn, FS_Subset
<1>5. SumOver(v, T \ {Chosen(T)}) = SumOver(w, T \ {Chosen(T)})
  BY <1>2, <1>4
<1>6. v[Chosen(T)] = w[Chosen(T)]
  BY <1>4
<1>7. QED
  BY <1>3, <1>4, <1>5, <1>6, SumChosen

\* A summand that grows makes the sum grow.
LEMMA SumGrows ==
  ASSUME NEW v, NEW w, NEW S, IsFiniteSet(S), \A x \in S : v[x] \in Int, NEW e \in S, NEW q \in Int,
         w[e] = v[e] + q, \A x \in S \ {e} : w[x] = v[x]
  PROVE  SumOver(w, S) = SumOver(v, S) + q
<1>1. IsFiniteSet(S \ {e})
  BY FS_Subset
<1>2. \A x \in S : w[x] \in Int
  OBVIOUS
<1>3. SumOver(v, S) = v[e] + SumOver(v, S \ {e})
  BY SumRemove
<1>4. SumOver(w, S) = w[e] + SumOver(w, S \ {e})
  BY <1>2, SumRemove
<1>5. SumOver(w, S \ {e}) = SumOver(v, S \ {e})
  BY <1>1, SumSame
<1>6. SumOver(v, S \ {e}) \in Int /\ v[e] \in Int
  BY <1>1, SumInt
<1>7. QED
  BY <1>3, <1>4, <1>5, <1>6

-----------------------------------------------------------------------------
(* Numbers modulo a width. *)


\* The remainder is the only one in its range.
LEMMA ModUnique == ASSUME NEW M \in Nat \ {0}, NEW q \in Int, NEW r \in 0 .. M - 1 PROVE (M * q + r) % M = r
  BY Z3

\* Quotient and remainder.
LEMMA ModForm ==
  ASSUME NEW M \in Nat \ {0}, NEW a \in Int
  PROVE  /\ a \div M \in Int /\ a % M \in 0 .. M - 1
         /\ a = M * (a \div M) + (a % M)
<1>1. a \div M \in Int
  OBVIOUS
<1>2. a % M \in 0 .. M - 1
  OBVIOUS
<1>3. a = M * (a \div M) + (a % M)
  BY Z3
<1>4. QED
  BY <1>1, <1>2, <1>3

\* A sum that wraps on the way is right in the end.
LEMMA ModAdd ==
  ASSUME NEW M \in Nat \ {0}, NEW a \in Int, NEW b \in Int
  PROVE  ((a % M) + b) % M = (a + b) % M
<1> DEFINE p == a \div M
           s == (a % M) + b
           q == s \div M
           r == s % M
<1>1. p \in Int /\ a = M * p + (a % M) /\ a % M \in Int
  BY ModForm
<1>2. s \in Int
  BY <1>1
<1>3. q \in Int /\ r \in 0 .. M - 1 /\ s = M * q + r
  BY <1>2, ModForm
<1>4. a + b = M * (p + q) + r
  <2>1. a + b = M * p + s
    BY <1>1
  <2>2. M * (p + q) = M * p + M * q
    BY <1>1, <1>3
  <2>3. M * p \in Int /\ M * q \in Int /\ r \in Int
    BY <1>1, <1>3
  <2> HIDE DEF p, q, r, s
  <2>4. QED
    BY <1>2, <1>3, <2>1, <2>2, <2>3
<1>5. (M * (p + q) + r) % M = r
  <2>1. p + q \in Int
    BY <1>1, <1>3
  <2> HIDE DEF p, q, r, s
  <2>2. QED
    BY <1>3, <2>1, ModUnique
<1>6. QED
  BY <1>4, <1>5

\* Division undoes multiplication.
LEMMA DivExact == ASSUME NEW t \in Nat \ {0}, NEW l \in Nat PROVE (l * t) \div t = l
  OBVIOUS

-----------------------------------------------------------------------------
(* Natural numbers. *)

\* Induction with a set: one that contains 0 and the successors of its members
\* contains every natural number.
LEMMA NatSetInduction ==
  ASSUME NEW S, 0 \in S, \A n \in Nat : n \in S => n + 1 \in S
  PROVE  Nat \subseteq S
<1> DEFINE T == Nat \ S
<1>1. SUFFICES ASSUME T # {} PROVE FALSE
  OBVIOUS
<1>2. PICK n \in T : \A m \in T : <<m, n>> \notin OpToRel(<, Nat)
  BY <1>1, NatLessThanWellFounded, WFMin
<1>3. \A m \in T : ~(m < n)
  BY <1>2 DEF OpToRel
<1>4. n - 1 \in Nat /\ n - 1 \notin T
  BY <1>3
<1>5. QED
  BY <1>4

-----------------------------------------------------------------------------
(* Sequences. *)

\* A piece of a sequence.
LEMMA CutIs ==
  ASSUME NEW S, NEW s \in Seq(S), NEW m \in Int, NEW n \in Int, 1 <= m, m <= n + 1, n <= Len(s)
  PROVE  /\ SubSeq(s, m, n) \in Seq(S)
         /\ Len(SubSeq(s, m, n)) = (n - m) + 1
         /\ \A i \in 1 .. (n - m) + 1 : SubSeq(s, m, n)[i] = s[(m + i) - 1]
<1>1. \A i \in m .. n : s[i] \in S
  OBVIOUS
<1>2. Len(SubSeq(s, m, n)) = (n - m) + 1
  BY <1>1, SubSeqProperties
<1>3. QED
  BY <1>1, <1>2, SubSeqProperties

\* A pair is a sequence.
LEMMA PairSeq ==
  ASSUME NEW S, NEW a \in S, NEW b \in S
  PROVE  <<a, b>> \in Seq(S) /\ Len(<<a, b>>) = 2 /\ <<a, b>>[1] = a /\ <<a, b>>[2] = b
  OBVIOUS

\* An element in the middle of a sequence is taken out.
LEMMA RemoveAtIs ==
  ASSUME NEW S, NEW s \in Seq(S), NEW k \in 1 .. Len(s)
  PROVE  /\ RemoveAt(s, k) \in Seq(S)
         /\ Len(RemoveAt(s, k)) = Len(s) - 1
         /\ \A n \in 1 .. Len(s) - 1 :
               RemoveAt(s, k)[n] = IF n < k THEN s[n] ELSE s[n + 1]
<1>0. Len(s) \in Nat /\ k \in Int
  OBVIOUS
<1>1. PICK a, b : a = SubSeq(s, 1, k - 1) /\ b = SubSeq(s, k + 1, Len(s))
  OBVIOUS
<1>2. /\ a \in Seq(S) /\ Len(a) = k - 1
      /\ \A n \in 1 .. k - 1 : a[n] = s[n]
  BY <1>1, SubSeqProperties
<1>3. /\ b \in Seq(S) /\ Len(b) = Len(s) - k
      /\ \A n \in 1 .. Len(s) - k : b[n] = s[k + n]
  BY <1>1, SubSeqProperties
<1>4. a \o b \in Seq(S) /\ Len(a \o b) = Len(s) - 1
  <2>1. a \in Seq(S) /\ b \in Seq(S)
    BY <1>2, <1>3
  <2>2. a \o b \in Seq(S) /\ Len(a \o b) = Len(a) + Len(b)
    BY <2>1
  <2>3. QED
    BY <1>0, <1>2, <1>3, <2>2
<1>5. ASSUME NEW n \in 1 .. Len(s) - 1
      PROVE  (a \o b)[n] = IF n < k THEN s[n] ELSE s[n + 1]
  <2>1. CASE n < k
    BY <1>2, <1>3, <2>1
  <2>2. CASE ~(n < k)
    <3>1. n - (k - 1) \in 1 .. Len(s) - k /\ k + (n - (k - 1)) = n + 1
      BY <2>2
    <3>2. (a \o b)[n] = b[n - (k - 1)]
      BY <1>2, <1>3, <2>2
    <3>3. QED
      BY <1>3, <2>2, <3>1, <3>2
  <2>3. QED
    BY <2>1, <2>2, Zenon
<1>6. QED
  BY <1>1, <1>4, <1>5 DEF RemoveAt

\* The first occurrence of an element that occurs once is its only one.
LEMMA RemoveFirstIs ==
  ASSUME NEW S, NEW s \in Seq(S), NEW k \in 1 .. Len(s),
         \A m, n \in 1 .. Len(s) : s[m] = s[n] => m = n
  PROVE  RemoveFirst(s, s[k]) = RemoveAt(s, k)
<1> DEFINE I == {i \in 1 .. Len(s) : s[i] = s[k]}
<1>1. I = {k}
  OBVIOUS
<1>2. Min(I) = k
  BY <1>1 DEF Min
<1>3. SelectInSeq(s, LAMBDA v : v = s[k]) = k
  BY <1>1, <1>2 DEF SelectInSeq
<1>4. QED
  BY <1>3 DEF RemoveFirst

\* The elements of a sequence are a finite set.
LEMMA SeqElements ==
  ASSUME NEW S, NEW s \in Seq(S)
  PROVE  /\ IsFiniteSet(ToSet(s)) /\ ToSet(s) \subseteq S
         /\ ToSet(s) = {s[n] : n \in 1 .. Len(s)}
<1>1. ToSet(s) = {s[n] : n \in 1 .. Len(s)} /\ ToSet(s) \subseteq S
  BY DEF ToSet
<1>2. IsFiniteSet(1 .. Len(s))
  BY FS_Interval
<1>3. s \in Surjection(1 .. Len(s), ToSet(s))
  BY <1>1 DEF Surjection
<1>4. QED
  BY <1>1, <1>2, <1>3, FS_Surjection

-----------------------------------------------------------------------------
(* FlattenSeq. *)

\* Concatenation; by this name its definition stays hidden until it is needed.
Then(a, b) == a \o b

\* f[i] is the concatenation of the first i of the sequences v[1], v[2], ...
Joins(f, v, n) == f = [i \in 1 .. n |-> IF i = 1 THEN v[i] ELSE Then(f[i - 1], v[i])]

\* Two concatenations of the same sequences agree as far as both go.
LEMMA JoinsUnique ==
  ASSUME NEW m \in Nat, NEW n \in Nat, NEW v, NEW w, NEW f, NEW g, Joins(f, v, m), Joins(g, w, n),
         m <= n, \A i \in 1 .. m : v[i] = w[i]
  PROVE  \A i \in 1 .. m : f[i] = g[i]
<1> DEFINE S == {k \in Nat : k = 0 \/ k > m \/ f[k] = g[k]}
<1>1. 0 \in S
  OBVIOUS
<1>2. ASSUME NEW k \in Nat, k \in S PROVE k + 1 \in S
  <2>1. CASE k + 1 > m
    BY <2>1
  <2>2. CASE k + 1 <= m /\ k = 0
    BY <2>2 DEF Joins
  <2>3. CASE k + 1 <= m /\ k # 0
    <3>1. f[k + 1] = Then(f[k], v[k + 1]) /\ g[k + 1] = Then(g[k], w[k + 1]) /\ f[k] = g[k]
      BY <1>2, <2>3 DEF Joins
    <3>2. QED
      BY <2>3, <3>1
  <2>4. QED
    BY <2>1, <2>2, <2>3
<1>3. Nat \subseteq S
  <2> HIDE DEF S
  <2>1. QED
    BY <1>1, <1>2, NatSetInduction
<1>4. QED
  BY <1>3

\* The first m of the sequences are the same.
SameUpTo(v, w, m) == \A i \in 1 .. m : v[i] = w[i]

\* A longer concatenation continues a shorter one.
LEMMA JoinsGrow ==
  ASSUME NEW m \in Nat \ {0}, NEW v, NEW w, NEW f, NEW g, Joins(f, v, m), Joins(g, w, m + 1),
         SameUpTo(v, w, m)
  PROVE  g[m + 1] = Then(f[m], w[m + 1])
<1>1. \A i \in 1 .. m : f[i] = g[i]
  BY JoinsUnique DEF SameUpTo
<1>2. g[m + 1] = Then(g[m], w[m + 1])
  <2>1. m + 1 \in 1 .. m + 1 /\ m + 1 # 1 /\ (m + 1) - 1 = m
    OBVIOUS
  <2>2. QED
    BY <2>1 DEF Joins
<1>3. QED
  BY <1>1, <1>2

\* The concatenations exist.
LEMMA JoinsExist ==
  ASSUME NEW v, NEW n \in Nat
  PROVE  \E f : Joins(f, v, n)
<1> DEFINE S == {k \in Nat : \E f : Joins(f, v, k)}
<1>1. 0 \in S
  <2>1. Joins([i \in 1 .. 0 |-> v[i]], v, 0)
    BY DEF Joins
  <2>2. QED
    BY <2>1
<1>2. ASSUME NEW k \in Nat, k \in S PROVE k + 1 \in S
  <2>1. PICK f : Joins(f, v, k)
    BY <1>2
  <2> DEFINE g == [i \in 1 .. k + 1 |-> IF i = 1 THEN v[i] ELSE Then(f[i - 1], v[i])]
  <2>2. \A i \in 1 .. k : g[i] = f[i]
    BY <2>1 DEF Joins
  <2>3. ASSUME NEW i \in 1 .. k + 1
        PROVE  g[i] = IF i = 1 THEN v[i] ELSE Then(g[i - 1], v[i])
    <3>1. g[i] = IF i = 1 THEN v[i] ELSE Then(f[i - 1], v[i])
      OBVIOUS
    <3>2. i # 1 => i - 1 \in 1 .. k
      OBVIOUS
    <3>3. i # 1 => g[i - 1] = f[i - 1]
      BY <2>2, <3>2
    <3> HIDE DEF g
    <3>4. QED
      BY <3>1, <3>3
  <2>4. g = [i \in 1 .. k + 1 |-> IF i = 1 THEN v[i] ELSE Then(g[i - 1], v[i])]
    BY <2>3
  <2>5. Joins(g, v, k + 1)
    BY <2>4 DEF Joins
  <2> HIDE DEF g
  <2>6. QED
    BY <2>5
<1>3. Nat \subseteq S
  <2> HIDE DEF S
  <2>1. QED
    BY <1>1, <1>2, NatSetInduction
<1>4. QED
  BY <1>3

\* What FlattenSeq returns for a sequence of sequences.
LEMMA FlattenIs ==
  ASSUME NEW s, Len(s) \in Nat \ {0}
  PROVE  \E f : Joins(f, s, Len(s)) /\ FlattenSeq(s) = f[Len(s)]
<1> DEFINE f == CHOOSE f : Joins(f, s, Len(s))
<1>1. Joins(f, s, Len(s))
  BY JoinsExist
<1>2. FlattenSeq(s) = f[Len(s)]
  BY DEF FlattenSeq, Joins, Then
<1>3. QED
  BY <1>1, <1>2

\* One more sequence is put at the end.
LEMMA FlattenAppend ==
  ASSUME NEW B, NEW s \in Seq(Seq(B)), NEW x \in Seq(B), FlattenSeq(s) \in Seq(B)
  PROVE  FlattenSeq(Append(s, x)) = FlattenSeq(s) \o x
<1>1. PICK t \in Seq(Seq(B)) : t = Append(s, x)
  BY AppendProperties
<1>2. /\ Len(t) = Len(s) + 1 /\ t[Len(t)] = x /\ Len(s) \in Nat
      /\ \A i \in 1 .. Len(s) : t[i] = s[i]
  BY <1>1, AppendProperties
<1>3. PICK g : Joins(g, t, Len(t)) /\ FlattenSeq(t) = g[Len(t)]
  <2>1. Len(t) \in Nat \ {0}
    BY <1>2
  <2>2. QED
    BY <2>1, FlattenIs, Zenon
<1>4. CASE Len(s) = 0
  <2>1. FlattenSeq(s) = <<>>
    BY <1>4 DEF FlattenSeq
  <2>2. g[Len(t)] = x
    BY <1>2, <1>3, <1>4 DEF Joins
  <2>3. QED
    BY <1>1, <1>3, <2>1, <2>2
<1>5. CASE Len(s) # 0
  <2>1. PICK f : Joins(f, s, Len(s)) /\ FlattenSeq(s) = f[Len(s)]
    BY <1>2, <1>5, FlattenIs
  <2>2. PICK m \in Nat \ {0} : m = Len(s)
    BY <1>2, <1>5
  <2>3. Joins(f, s, m) /\ Joins(g, t, m + 1) /\ SameUpTo(s, t, m)
    BY <1>2, <1>3, <2>1, <2>2 DEF SameUpTo
  <2>4. g[m + 1] = Then(f[m], t[m + 1])
    BY <2>3, JoinsGrow
  <2>5. QED
    BY <1>1, <1>2, <1>3, <2>1, <2>2, <2>4 DEF Then
<1>6. QED
  BY <1>4, <1>5

\* Concatenation is associative.
LEMMA ConcatTwice ==
  ASSUME NEW B, NEW a \in Seq(B), NEW b \in Seq(B), NEW c \in Seq(B)
  PROVE  Then(Then(a, b), c) = Then(a, Then(b, c))
  BY ConcatAssociative DEF Then

\* A sequence with elements is another one with an element appended.
LEMMA AppendedSeq ==
  ASSUME NEW T, NEW n \in Nat, NEW s \in Seq(T), Len(s) = n + 1
  PROVE  \E r \in Seq(T), x \in T : s = Append(r, x) /\ Len(r) = n
<1>1. s # <<>>
  OBVIOUS
<1>2. PICK r \in Seq(T), x \in T : s = Append(r, x)
  BY <1>1, SequenceEmptyOrAppend
<1>3. QED
  BY <1>2

\* The concatenation of sequences over B is one.
LEMMA FlattenType == ASSUME NEW B, NEW s \in Seq(Seq(B)) PROVE FlattenSeq(s) \in Seq(B)
<1> DEFINE S == {n \in Nat : \A t \in Seq(Seq(B)) : Len(t) = n => FlattenSeq(t) \in Seq(B)}
<1>1. 0 \in S
  <2>1. ASSUME NEW t \in Seq(Seq(B)), Len(t) = 0 PROVE FlattenSeq(t) \in Seq(B)
    <3>1. t = <<>>
      BY <2>1
    <3>2. FlattenSeq(t) = t
      BY <2>1 DEF FlattenSeq
    <3>3. <<>> \in Seq(B)
      BY EmptySeq
    <3>4. QED
      BY <3>1, <3>2, <3>3, Zenon
  <2>2. QED
    BY <2>1
<1>2. ASSUME NEW n \in Nat, n \in S PROVE n + 1 \in S
  <2>1. ASSUME NEW t \in Seq(Seq(B)), Len(t) = n + 1 PROVE FlattenSeq(t) \in Seq(B)
    <3>1. PICK r \in Seq(Seq(B)), x \in Seq(B) : t = Append(r, x) /\ Len(r) = n
      BY <2>1, AppendedSeq
    <3>2. FlattenSeq(r) \in Seq(B)
      BY <1>2, <3>1
    <3>3. FlattenSeq(t) = FlattenSeq(r) \o x
      BY <3>1, <3>2, FlattenAppend
    <3>4. QED
      BY <3>2, <3>3
  <2>2. QED
    BY <2>1
<1>3. Nat \subseteq S
  <2> HIDE DEF S
  <2>1. QED
    BY <1>1, <1>2, NatSetInduction
<1>4. Len(s) \in Nat
  OBVIOUS
<1>5. QED
  BY <1>3, <1>4

\* The first of the sequences comes first.
LEMMA FlattenHead ==
  ASSUME NEW B, NEW s \in Seq(Seq(B)), s # <<>>
  PROVE  FlattenSeq(s) = s[1] \o FlattenSeq(Tail(s))
<1> DEFINE Good(t) == FlattenSeq(t) = t[1] \o FlattenSeq(Tail(t))
           S == {n \in Nat : \A t \in Seq(Seq(B)) : Len(t) = n + 1 => Good(t)}
<1>1. 0 \in S
  <2>1. ASSUME NEW t \in Seq(Seq(B)), Len(t) = 0 + 1 PROVE Good(t)
    <3>1. PICK r \in Seq(Seq(B)), x \in Seq(B) : t = Append(r, x) /\ Len(r) = 0
      BY <2>1, AppendedSeq
    <3>2. r = <<>> /\ FlattenSeq(r) = <<>>
      BY <3>1 DEF FlattenSeq
    <3>3. FlattenSeq(t) = FlattenSeq(r) \o x
      BY <3>1, FlattenType, FlattenAppend
    <3>4. t[1] = x /\ Tail(t) = <<>>
      BY <3>1, <3>2
    <3>5. <<>> \o x = x /\ x \o <<>> = x
      BY ConcatEmptySeq
    <3>6. QED
      BY <3>2, <3>3, <3>4, <3>5, Zenon
  <2> HIDE DEF Good
  <2>2. QED
    BY <2>1
<1>2. ASSUME NEW n \in Nat, n \in S PROVE n + 1 \in S
  <2>1. ASSUME NEW t \in Seq(Seq(B)), Len(t) = (n + 1) + 1 PROVE Good(t)
    <3>1. PICK r \in Seq(Seq(B)), x \in Seq(B) : t = Append(r, x) /\ Len(r) = n + 1
      <4>1. n + 1 \in Nat
        OBVIOUS
      <4>2. QED
        BY <2>1, <4>1, AppendedSeq
    <3>2. r # <<>> /\ t[1] = r[1] /\ r[1] \in Seq(B) /\ Tail(r) \in Seq(Seq(B))
      BY <3>1
    <3>0. PICK h \in Seq(B) : h = r[1]
      BY <3>2
    <3>3. Tail(t) = Append(Tail(r), x)
      BY <3>1, <3>2, HeadTailAppend
    <3>4. PICK f \in Seq(B) : f = FlattenSeq(Tail(r))
      BY <3>2, FlattenType
    <3>5. FlattenSeq(r) = h \o f
      BY <1>2, <3>0, <3>1, <3>4
    <3>6. FlattenSeq(t) = (h \o f) \o x
      BY <3>1, <3>5, FlattenAppend, FlattenType
    <3>7. FlattenSeq(Tail(t)) = f \o x
      BY <3>2, <3>3, <3>4, FlattenAppend
    <3>8. Then(Then(h, f), x) = Then(h, Then(f, x))
      BY ConcatTwice
    <3>9. QED
      BY <3>0, <3>2, <3>6, <3>7, <3>8, Zenon DEF Then
  <2> HIDE DEF Good
  <2>2. QED
    BY <2>1
<1>3. Nat \subseteq S
  <2> HIDE DEF S
  <2>1. QED
    BY <1>1, <1>2, NatSetInduction
<1>4. Len(s) - 1 \in Nat /\ Len(s) = (Len(s) - 1) + 1
  OBVIOUS
<1>5. QED
  BY <1>3, <1>4

\* Two ways to cut the same sequence: what is in front of the nearer cut is the same,
\* and what the farther part has more is the front of the rest.
LEMMA CutFront ==
  ASSUME NEW S, NEW b \in Seq(S), NEW s \in Seq(S), NEW e \in Seq(S), NEW r \in Seq(S),
         b \o s = e \o r, Len(e) <= Len(b)
  PROVE  /\ \A n \in 1 .. Len(e) : b[n] = e[n]
         /\ SubSeq(b, Len(e) + 1, Len(b)) \o s = r
<1>1. PICK x \in Seq(S) : x = b \o s /\ x = e \o r
  BY ConcatProperties
<1>2. /\ Len(x) = Len(b) + Len(s)
      /\ \A n \in 1 .. Len(b) + Len(s) : x[n] = IF n <= Len(b) THEN b[n] ELSE s[n - Len(b)]
  BY <1>1, ConcatProperties
<1>3. /\ Len(x) = Len(e) + Len(r)
      /\ \A n \in 1 .. Len(e) + Len(r) : x[n] = IF n <= Len(e) THEN e[n] ELSE r[n - Len(e)]
  BY <1>1, ConcatProperties
<1>4. Len(b) \in Nat /\ Len(s) \in Nat /\ Len(e) \in Nat /\ Len(r) \in Nat
  OBVIOUS
<1>5. ASSUME NEW n \in 1 .. Len(e) PROVE b[n] = e[n]
  <2>1. n \in 1 .. Len(b) + Len(s) /\ n \in 1 .. Len(e) + Len(r) /\ n <= Len(b) /\ n <= Len(e)
    BY <1>4
  <2>2. QED
    BY <1>2, <1>3, <2>1
<1>6. PICK c \in Seq(S) : c = SubSeq(b, Len(e) + 1, Len(b))
  <2>1. PICK m \in Int, k \in Int : m = Len(e) + 1 /\ k = Len(b)
    BY <1>4
  <2>2. 1 <= m /\ m <= k + 1 /\ k <= Len(b)
    BY <1>4, <2>1
  <2>3. SubSeq(b, m, k) \in Seq(S)
    BY <2>2, CutIs
  <2>4. QED
    BY <2>1, <2>3
<1>7. /\ Len(c) = Len(b) - Len(e)
      /\ \A n \in 1 .. Len(b) - Len(e) : c[n] = b[Len(e) + n]
  <2>1. PICK m \in Int, k \in Int : m = Len(e) + 1 /\ k = Len(b)
    BY <1>4
  <2>2. 1 <= m /\ m <= k + 1 /\ k <= Len(b) /\ c = SubSeq(b, m, k)
    BY <1>4, <1>6, <2>1
  <2>3. Len(c) = (k - m) + 1 /\ \A n \in 1 .. (k - m) + 1 : c[n] = b[(m + n) - 1]
    BY <2>2, CutIs
  <2>4. (k - m) + 1 = Len(b) - Len(e) /\ \A n \in Int : (m + n) - 1 = Len(e) + n
    BY <1>4, <2>1
  <2>5. QED
    BY <2>3, <2>4
<1>8. PICK y \in Seq(S) : y = c \o s
  BY ConcatProperties
<1>9. /\ Len(y) = Len(c) + Len(s)
      /\ \A n \in 1 .. Len(c) + Len(s) : y[n] = IF n <= Len(c) THEN c[n] ELSE s[n - Len(c)]
  BY <1>8, ConcatProperties
<1>10. Len(y) = Len(r)
  BY <1>2, <1>3, <1>4, <1>7, <1>9
<1>11. ASSUME NEW n \in 1 .. Len(r) PROVE y[n] = r[n]
  <2>1. /\ Len(e) + n \in 1 .. Len(e) + Len(r) /\ Len(e) + n \in 1 .. Len(b) + Len(s)
        /\ ~(Len(e) + n <= Len(e)) /\ (Len(e) + n) - Len(e) = n /\ n \in 1 .. Len(c) + Len(s)
    BY <1>2, <1>3, <1>4, <1>9, <1>10
  <2>2. x[Len(e) + n] = r[n]
    BY <1>3, <2>1
  <2>3. CASE n <= Len(c)
    <3>1. n \in 1 .. Len(b) - Len(e) /\ Len(e) + n <= Len(b)
      BY <1>4, <1>7, <2>3
    <3>2. x[Len(e) + n] = b[Len(e) + n]
      BY <1>2, <2>1, <3>1
    <3>3. QED
      BY <1>7, <1>9, <2>1, <2>2, <2>3, <3>1, <3>2
  <2>4. CASE ~(n <= Len(c))
    <3>1. ~(Len(e) + n <= Len(b)) /\ (Len(e) + n) - Len(b) = n - Len(c)
      BY <1>4, <1>7, <2>4
    <3>2. x[Len(e) + n] = s[n - Len(c)]
      BY <1>2, <2>1, <3>1
    <3>3. QED
      BY <1>9, <2>1, <2>2, <2>4, <3>2
  <2>5. QED
    BY <2>3, <2>4
<1>12. y = r
  BY <1>10, <1>11, SeqEqual
<1>13. QED
  BY <1>5, <1>6, <1>8, <1>12
=============================================================================
