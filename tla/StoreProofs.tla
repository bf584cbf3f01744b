---------------------------- MODULE StoreProofs -----------------------------
(***************************************************************************)
(* What counts bytes, for every number of files, reads and processes: that *)
(* the reads of many contents keep within their bounds and leave nothing   *)
(* behind, that a raw read of many paths loses none, and that the number a *)
(* content store keeps of its bytes is true of the files it holds.         *)
(***************************************************************************)
EXTENDS BlobReads, RawReads, BlobStore, FiniteSetTheorems, SequenceTheorems,
        WellFoundedInduction, TLAPS

-----------------------------------------------------------------------------
(***************************************************************************)
(* Sums over a finite set, for the proofs that count bytes: a function on  *)
(* the subsets that adds the term of one element to the sum of the rest.   *)
(* A fact of every sum is proved by taking a smallest subset without it:   *)
(* the strict subsets of a finite set are well founded.                    *)
(***************************************************************************)
First(s) == CHOOSE x \in s : TRUE
Summed(g, w, S) == g = [s \in SUBSET S |-> IF s = {} THEN 0 ELSE w[First(s)] + g[s \ {First(s)}]]
SumsOf(w, S) == CHOOSE g : Summed(g, w, S)
Sum(w, S) == SumsOf(w, S)[S]

\* An element chosen from a set that has one.
LEMMA FirstIsIn == \A s : s # {} => First(s) \in s
  BY DEF First

\* Two such functions agree wherever the terms do.
LEMMA SummedAgree ==
  ASSUME NEW S, IsFiniteSet(S), NEW R, NEW w, NEW v, NEW g, NEW h,
         Summed(g, w, S), Summed(h, v, R), \A x \in S \cap R : w[x] = v[x]
  PROVE  \A s \in SUBSET (S \cap R) : g[s] = h[s]
  <1> DEFINE Bad == {s \in SUBSET (S \cap R) : g[s] # h[s]}
  <1>1. SUFFICES ASSUME Bad # {} PROVE FALSE
    OBVIOUS
  <1>2. Bad \subseteq FiniteSubsetsOf(S)
    BY FS_Subset DEF FiniteSubsetsOf
  <1>3. IsWellFoundedOn(StrictSubsetOrdering(S), FiniteSubsetsOf(S))
    BY FS_StrictSubsetOrderingWellFounded
  <1>4. PICK t \in Bad : \A s \in Bad : ~ (<<s, t>> \in StrictSubsetOrdering(S))
    <2> HIDE DEF Bad
    <2> QED
      BY <1>1, <1>2, <1>3, WFMin
  <1>5. t # {}
    BY DEF Summed
  <1> DEFINE u == t \ {First(t)}
  <1>6. u \subseteq t /\ u # t /\ First(t) \in t
    BY <1>5, FirstIsIn
  <1>7. <<u, t>> \in StrictSubsetOrdering(S)
    BY <1>6 DEF StrictSubsetOrdering
  <1>8. g[u] = h[u]
    BY <1>4, <1>6, <1>7
  <1>9. g[t] = w[First(t)] + g[u] /\ h[t] = v[First(t)] + h[u]
    BY <1>5 DEF Summed
  <1> QED
    BY <1>4, <1>6, <1>8, <1>9

\* Every finite set has such a function.
LEMMA SumsThere ==
  ASSUME NEW S, IsFiniteSet(S), NEW w
  PROVE  Summed(SumsOf(w, S), w, S)
  <1> DEFINE Has(T) == \E g : Summed(g, w, T)
             Bad == {T \in SUBSET S : ~Has(T)}
  <1>1. Has(S)
    <2>1. SUFFICES ASSUME Bad # {} PROVE FALSE
      OBVIOUS
    <2>2. Bad \subseteq FiniteSubsetsOf(S)
      BY FS_Subset DEF FiniteSubsetsOf
    <2>3. IsWellFoundedOn(StrictSubsetOrdering(S), FiniteSubsetsOf(S))
      BY FS_StrictSubsetOrderingWellFounded
    <2>4. PICK t \in Bad : \A s \in Bad : ~ (<<s, t>> \in StrictSubsetOrdering(S))
      <3> HIDE DEF Bad
      <3> QED
        BY <2>1, <2>2, <2>3, WFMin
    <2> DEFINE less(x) == SumsOf(w, t \ {x})
    <2>5. \A x \in t : Summed(less(x), w, t \ {x})
      <3> TAKE x \in t
      <3>1. <<t \ {x}, t>> \in StrictSubsetOrdering(S) /\ t \ {x} \in SUBSET S
        BY DEF StrictSubsetOrdering
      <3>2. Has(t \ {x})
        BY <2>4, <3>1
      <3> QED
        BY <3>2 DEF SumsOf
    <2>6. \A x, y \in t : \A s \in SUBSET (t \ {x, y}) : less(x)[s] = less(y)[s]
      <3> TAKE x, y \in t
      <3>1. IsFiniteSet(t \ {x}) /\ (t \ {x}) \cap (t \ {y}) = t \ {x, y}
        BY FS_Subset
      <3>2. Summed(less(x), w, t \ {x}) /\ Summed(less(y), w, t \ {y})
        BY <2>5
      <3> HIDE DEF less
      <3>3. \A z \in (t \ {x}) \cap (t \ {y}) : w[z] = w[z]
        OBVIOUS
      <3>4. \A s \in SUBSET ((t \ {x}) \cap (t \ {y})) : less(x)[s] = less(y)[s]
        BY <3>1, <3>2, <3>3, SummedAgree
      <3> QED
        BY <3>1, <3>4
    <2> DEFINE g == [s \in SUBSET t |-> IF s = {} THEN 0
                       ELSE w[First(s)] + less(First(s))[s \ {First(s)}]]
    <2>7. \A s \in SUBSET t : s # {} => less(First(s))[s \ {First(s)}] = g[s \ {First(s)}]
      <3> SUFFICES ASSUME NEW s \in SUBSET t, s # {}
                   PROVE  less(First(s))[s \ {First(s)}] = g[s \ {First(s)}]
        OBVIOUS
      <3> DEFINE x == First(s)
                 u == s \ {x}
                 y == First(u)
                 r == u \ {y}
      <3>1. x \in s /\ u \in SUBSET (t \ {x}) /\ u \in SUBSET t
        BY FirstIsIn
      <3>2. Summed(less(x), w, t \ {x})
        BY <2>5, <3>1
      <3>3. CASE u = {}
        <4> HIDE DEF less
        <4>1. less(x)[u] = 0
          BY <3>1, <3>2, <3>3 DEF Summed
        <4> QED
          BY <3>1, <3>3, <4>1
      <3>4. CASE u # {}
        <4>1. y \in u /\ r \in SUBSET (t \ {x, y})
          BY <3>1, <3>4, FirstIsIn
        <4> HIDE DEF less
        <4>2. less(x)[u] = w[y] + less(x)[r]
          BY <3>1, <3>2, <3>4 DEF Summed
        <4>3. less(x)[r] = less(y)[r]
          BY <2>6, <3>1, <4>1
        <4>4. g[u] = w[y] + less(y)[r]
          BY <3>1, <3>4
        <4> QED
          BY <4>2, <4>3, <4>4
      <3> QED
        BY <3>3, <3>4
    <2>8. Summed(g, w, t)
      <3> HIDE DEF less
      <3> QED
        BY <2>7 DEF Summed
    <2> QED
      BY <2>4, <2>8
  <1> QED
    BY <1>1 DEF SumsOf
\* Nothing sums to nothing.
LEMMA SumEmpty ==
  ASSUME NEW w
  PROVE  Sum(w, {}) = 0
  <1>1. IsFiniteSet({})
    BY FS_EmptySet
  <1>2. Summed(SumsOf(w, {}), w, {})
    BY <1>1, SumsThere
  <1> QED
    BY <1>2 DEF Summed, Sum

\* The sum of a part is the same whichever set it is taken within.
LEMMA SumWithin ==
  ASSUME NEW S, IsFiniteSet(S), NEW T \in SUBSET S, NEW w
  PROVE  SumsOf(w, S)[T] = Sum(w, T)
  <1>1. IsFiniteSet(T) /\ S \cap T = T
    BY FS_Subset
  <1>2. Summed(SumsOf(w, S), w, S) /\ Summed(SumsOf(w, T), w, T)
    BY <1>1, SumsThere
  <1>3. \A x \in S \cap T : w[x] = w[x]
    OBVIOUS
  <1>4. \A s \in SUBSET (S \cap T) : SumsOf(w, S)[s] = SumsOf(w, T)[s]
    BY <1>2, <1>3, SummedAgree
  <1> QED
    BY <1>1, <1>4 DEF Sum

\* The sum, one element taken out of it.
LEMMA SumFirst ==
  ASSUME NEW S, IsFiniteSet(S), S # {}, NEW w
  PROVE  Sum(w, S) = w[First(S)] + Sum(w, S \ {First(S)})
  <1>1. Summed(SumsOf(w, S), w, S)
    BY SumsThere
  <1>2. SumsOf(w, S)[S \ {First(S)}] = Sum(w, S \ {First(S)})
    BY SumWithin
  <1> QED
    BY <1>1, <1>2 DEF Summed, Sum

\* Sums of equal terms are equal.
LEMMA SumSame ==
  ASSUME NEW S, IsFiniteSet(S), NEW w, NEW v, \A x \in S : w[x] = v[x]
  PROVE  Sum(w, S) = Sum(v, S)
  <1>1. Summed(SumsOf(w, S), w, S) /\ Summed(SumsOf(v, S), v, S)
    BY SumsThere
  <1>2. \A x \in S \cap S : w[x] = v[x]
    OBVIOUS
  <1>3. \A s \in SUBSET (S \cap S) : SumsOf(w, S)[s] = SumsOf(v, S)[s]
    BY <1>1, <1>2, SummedAgree
  <1> QED
    BY <1>3 DEF Sum

\* Two facts of every subset, by induction over the subsets.
LEMMA SumTaken ==
  ASSUME NEW S, IsFiniteSet(S), NEW w, \A x \in S : w[x] \in Nat
  PROVE  /\ Sum(w, S) \in Nat
         /\ \A x \in S : Sum(w, S) = w[x] + Sum(w, S \ {x})
  <1> DEFINE Ok(T) == Sum(w, T) \in Nat /\ \A x \in T : Sum(w, T) = w[x] + Sum(w, T \ {x})
             Bad == {T \in SUBSET S : ~Ok(T)}
  <1>1. SUFFICES ASSUME Bad # {} PROVE FALSE
    OBVIOUS
  <1>2. Bad \subseteq FiniteSubsetsOf(S)
    BY FS_Subset DEF FiniteSubsetsOf
  <1>3. IsWellFoundedOn(StrictSubsetOrdering(S), FiniteSubsetsOf(S))
    BY FS_StrictSubsetOrderingWellFounded
  <1>4. PICK t \in Bad : \A s \in Bad : ~ (<<s, t>> \in StrictSubsetOrdering(S))
    <2> HIDE DEF Bad
    <2> QED
      BY <1>1, <1>2, <1>3, WFMin
  <1>5. \A s \in SUBSET S : s \subseteq t /\ s # t => Ok(s)
    <2> HIDE DEF Ok
    <2> QED
      BY <1>4 DEF StrictSubsetOrdering
  <1>6. t # {} /\ IsFiniteSet(t) /\ t \in SUBSET S
    <2>1. t \in SUBSET S /\ ~Ok(t)
      OBVIOUS
    <2>2. Ok({})
      BY SumEmpty
    <2> HIDE DEF Ok
    <2> QED
      BY <2>1, <2>2, FS_Subset
  <1> DEFINE f == First(t)
  <1>7. f \in t /\ Sum(w, t) = w[f] + Sum(w, t \ {f})
    BY <1>6, FirstIsIn, SumFirst
  <1>8. Ok(t \ {f})
    <2> HIDE DEF Ok
    <2> QED
      BY <1>5, <1>6, <1>7
  <1>9. Sum(w, t) \in Nat
    BY <1>6, <1>7, <1>8
  <1>10. ASSUME NEW x \in t PROVE Sum(w, t) = w[x] + Sum(w, t \ {x})
    <2>1. CASE x = f
      BY <1>7, <2>1
    <2>2. CASE x # f
      <3>1. Ok(t \ {x})
        <4> HIDE DEF Ok
        <4> QED
          BY <1>5, <1>6
      <3>2. (t \ {f}) \ {x} = (t \ {x}) \ {f}
        OBVIOUS
      <3>3. Sum(w, t \ {f}) = w[x] + Sum(w, (t \ {f}) \ {x})
        BY <1>8, <2>2
      <3>4. Sum(w, t \ {x}) = w[f] + Sum(w, (t \ {x}) \ {f})
        BY <1>7, <2>2, <3>1
      <3>5. Ok((t \ {f}) \ {x})
        <4>1. (t \ {f}) \ {x} # t /\ (t \ {f}) \ {x} \subseteq t
          BY <1>10
        <4> HIDE DEF Ok
        <4> QED
          BY <1>5, <1>6, <4>1
      <3>6. w[x] \in Nat /\ w[f] \in Nat /\ Sum(w, (t \ {f}) \ {x}) \in Nat
        BY <1>6, <1>7, <3>5
      <3>7. Sum(w, (t \ {x}) \ {f}) = Sum(w, (t \ {f}) \ {x})
        BY <3>2
      <3>8. Sum(w, t) = w[f] + Sum(w, t \ {f})
        BY <1>7
      <3>9. Sum(w, t) = w[f] + (w[x] + Sum(w, (t \ {f}) \ {x}))
        BY <3>3, <3>8
      <3>10. Sum(w, t \ {x}) = w[f] + Sum(w, (t \ {f}) \ {x})
        BY <3>4, <3>7
      <3> HIDE DEF f, Ok
      <3> QED
        BY <3>6, <3>9, <3>10
    <2> QED
      BY <2>1, <2>2
  <1>11. Ok(t)
    BY <1>9, <1>10
  <1> HIDE DEF Ok
  <1> QED
    BY <1>4, <1>11

\* Terms no greater sum to no more.
LEMMA SumAtMost ==
  ASSUME NEW S, IsFiniteSet(S), NEW w, NEW v, \A x \in S : w[x] \in Nat /\ v[x] \in Nat /\ w[x] <= v[x]
  PROVE  Sum(w, S) <= Sum(v, S)
  <1> DEFINE Ok(T) == Sum(w, T) <= Sum(v, T)
             Bad == {T \in SUBSET S : ~Ok(T)}
  <1>1. SUFFICES ASSUME Bad # {} PROVE FALSE
    OBVIOUS
  <1>2. Bad \subseteq FiniteSubsetsOf(S)
    BY FS_Subset DEF FiniteSubsetsOf
  <1>3. IsWellFoundedOn(StrictSubsetOrdering(S), FiniteSubsetsOf(S))
    BY FS_StrictSubsetOrderingWellFounded
  <1>4. PICK t \in Bad : \A s \in Bad : ~ (<<s, t>> \in StrictSubsetOrdering(S))
    <2> HIDE DEF Bad
    <2> QED
      BY <1>1, <1>2, <1>3, WFMin
  <1>5. t # {} /\ IsFiniteSet(t) /\ t \in SUBSET S
    <2>1. Ok({})
      BY SumEmpty
    <2>2. t \in SUBSET S /\ ~Ok(t)
      OBVIOUS
    <2> HIDE DEF Ok
    <2> QED
      BY <2>1, <2>2, FS_Subset
  <1>6. PICK x \in t : TRUE
    BY <1>5
  <1>7. Ok(t \ {x})
    <2>1. <<t \ {x}, t>> \in StrictSubsetOrdering(S) /\ t \ {x} \in SUBSET S
      BY <1>5 DEF StrictSubsetOrdering
    <2> HIDE DEF Ok
    <2> QED
      BY <1>4, <2>1
  <1>8. \A y \in t : w[y] \in Nat /\ v[y] \in Nat
    BY <1>5
  <1>9. Sum(w, t) = w[x] + Sum(w, t \ {x}) /\ Sum(v, t) = v[x] + Sum(v, t \ {x})
    BY <1>5, <1>8, SumTaken
  <1>10. IsFiniteSet(t \ {x})
    BY <1>5, FS_Subset
  <1>11. Sum(w, t \ {x}) \in Nat /\ Sum(v, t \ {x}) \in Nat
    BY <1>8, <1>10, SumTaken
  <1>12. w[x] \in Nat /\ v[x] \in Nat /\ w[x] <= v[x]
    BY <1>5
  <1>13. ~(Sum(w, t) <= Sum(v, t))
    BY <1>4
  <1> QED
    BY <1>7, <1>9, <1>11, <1>12, <1>13

\* Zeros sum to zero.
LEMMA SumZero ==
  ASSUME NEW S, IsFiniteSet(S), NEW w, \A x \in S : w[x] = 0
  PROVE  Sum(w, S) = 0
  <1> DEFINE none == [x \in S |-> 0]
             zeros == [s \in SUBSET S |-> 0]
  <1>1. Sum(w, S) = Sum(none, S)
    BY SumSame
  <1>2. Summed(SumsOf(none, S), none, S)
    BY SumsThere
  <1>3. Summed(zeros, none, S)
    <2>1. \A s \in SUBSET S : s # {} => none[First(s)] = 0 /\ zeros[s \ {First(s)}] = 0
      BY FirstIsIn
    <2>2. zeros = [s \in SUBSET S |-> IF s = {} THEN 0 ELSE none[First(s)] + zeros[s \ {First(s)}]]
      <3>1. ASSUME NEW s \in SUBSET S, s # {}
            PROVE  none[First(s)] + zeros[s \ {First(s)}] = 0
        <4>1. none[First(s)] = 0 /\ zeros[s \ {First(s)}] = 0
          BY <2>1, <3>1
        <4> HIDE DEF none, zeros
        <4> QED
          BY <4>1
      <3> HIDE DEF none
      <3> QED
        BY <3>1
    <2> QED
      BY <2>2 DEF Summed
  <1>4. \A x \in S \cap S : none[x] = none[x]
    OBVIOUS
  <1>5. \A s \in SUBSET (S \cap S) : SumsOf(none, S)[s] = zeros[s]
    <2> HIDE DEF none, zeros
    <2> QED
      BY <1>2, <1>3, <1>4, SummedAgree
  <1> QED
    BY <1>1, <1>5 DEF Sum

\* A sum is that of a part and that of the rest.
LEMMA SumSplit ==
  ASSUME NEW S, IsFiniteSet(S), NEW T \in SUBSET S, NEW w, \A x \in S : w[x] \in Nat
  PROVE  Sum(w, S) = Sum(w, T) + Sum(w, S \ T)
  <1> DEFINE Ok(R) == Sum(w, R) = Sum(w, R \cap T) + Sum(w, R \ T)
             Bad == {R \in SUBSET S : ~Ok(R)}
  <1>1. SUFFICES ASSUME Bad # {} PROVE FALSE
    <2>1. Ok(S)
      BY <1>1
    <2>2. S \cap T = T
      OBVIOUS
    <2>3. Sum(w, S \cap T) = Sum(w, T)
      BY <2>2
    <2> QED
      BY <2>1, <2>3
  <1>2. Bad \subseteq FiniteSubsetsOf(S)
    BY FS_Subset DEF FiniteSubsetsOf
  <1>3. IsWellFoundedOn(StrictSubsetOrdering(S), FiniteSubsetsOf(S))
    BY FS_StrictSubsetOrderingWellFounded
  <1>4. PICK t \in Bad : \A s \in Bad : ~ (<<s, t>> \in StrictSubsetOrdering(S))
    <2> HIDE DEF Bad
    <2> QED
      BY <1>1, <1>2, <1>3, WFMin
  <1>5. t # {} /\ IsFiniteSet(t) /\ t \in SUBSET S
    <2>1. Ok({})
      <3>1. {} \cap T = {} /\ {} \ T = {}
        OBVIOUS
      <3> QED
        BY <3>1, SumEmpty
    <2>2. t \in SUBSET S /\ ~Ok(t)
      OBVIOUS
    <2> HIDE DEF Ok
    <2> QED
      BY <2>1, <2>2, FS_Subset
  <1>6. PICK x \in t : TRUE
    BY <1>5
  <1> DEFINE r == t \ {x}
  <1>7. Ok(r)
    <2>1. <<r, t>> \in StrictSubsetOrdering(S) /\ r \in SUBSET S
      BY <1>5 DEF StrictSubsetOrdering
    <2> HIDE DEF Ok
    <2> QED
      BY <1>4, <2>1
  <1>8. /\ IsFiniteSet(r) /\ IsFiniteSet(t \cap T) /\ IsFiniteSet(t \ T)
        /\ IsFiniteSet(r \cap T) /\ IsFiniteSet(r \ T)
        /\ \A y \in t : w[y] \in Nat
    BY <1>5, FS_Subset
  <1>9. /\ Sum(w, t \cap T) \in Nat /\ Sum(w, t \ T) \in Nat
        /\ Sum(w, r \cap T) \in Nat /\ Sum(w, r \ T) \in Nat /\ Sum(w, r) \in Nat
        /\ w[x] \in Nat /\ Sum(w, t) = w[x] + Sum(w, r)
    BY <1>5, <1>8, SumTaken
  <1>10. CASE x \in T
    <2>1. (t \cap T) \ {x} = r \cap T /\ t \ T = r \ T /\ x \in t \cap T
      BY <1>10
    <2>2. Sum(w, t \cap T) = w[x] + Sum(w, (t \cap T) \ {x})
      BY <1>8, <2>1, SumTaken
    <2>3. Sum(w, t \cap T) = w[x] + Sum(w, r \cap T) /\ Sum(w, t \ T) = Sum(w, r \ T)
      BY <2>1, <2>2
    <2>4. Ok(t)
      <3> HIDE DEF r
      <3> QED
        BY <1>7, <1>9, <2>3
    <2> HIDE DEF Ok
    <2> QED
      BY <1>4, <2>4
  <1>11. CASE x \notin T
    <2>1. (t \ T) \ {x} = r \ T /\ t \cap T = r \cap T /\ x \in t \ T
      BY <1>11
    <2>2. Sum(w, t \ T) = w[x] + Sum(w, (t \ T) \ {x})
      BY <1>8, <2>1, SumTaken
    <2>3. Sum(w, t \ T) = w[x] + Sum(w, r \ T) /\ Sum(w, t \cap T) = Sum(w, r \cap T)
      BY <2>1, <2>2
    <2>4. Ok(t)
      <3> HIDE DEF r
      <3> QED
        BY <1>7, <1>9, <2>3
    <2> HIDE DEF Ok
    <2> QED
      BY <1>4, <2>4
  <1> QED
    BY <1>10, <1>11

\* A part sums to no more than the whole.
LEMMA SumPart ==
  ASSUME NEW S, IsFiniteSet(S), NEW T \in SUBSET S, NEW w, \A x \in S : w[x] \in Nat
  PROVE  Sum(w, T) <= Sum(w, S)
  <1>1. Sum(w, S) = Sum(w, T) + Sum(w, S \ T)
    BY SumSplit
  <1>2. IsFiniteSet(T) /\ IsFiniteSet(S \ T)
    BY FS_Subset
  <1>3. Sum(w, T) \in Nat /\ Sum(w, S \ T) \in Nat
    BY <1>2, SumTaken
  <1> QED
    BY <1>1, <1>3

\* A sum with one of its terms changed.
LEMMA SumChanged ==
  ASSUME NEW S, IsFiniteSet(S), NEW x \in S, NEW w, NEW v,
         \A y \in S : w[y] \in Nat /\ v[y] \in Nat /\ (y # x => w[y] = v[y])
  PROVE  /\ Sum(w, S) \in Nat /\ Sum(v, S) \in Nat /\ w[x] <= Sum(w, S)
         /\ Sum(v, S) + w[x] = Sum(w, S) + v[x]
  <1>1. Sum(w, S) = w[x] + Sum(w, S \ {x}) /\ Sum(v, S) = v[x] + Sum(v, S \ {x})
    BY SumTaken
  <1>2. IsFiniteSet(S \ {x})
    BY FS_Subset
  <1>3. Sum(w, S \ {x}) = Sum(v, S \ {x})
    BY <1>2, SumSame
  <1>4. Sum(w, S \ {x}) \in Nat
    BY <1>2, SumTaken
  <1> QED
    BY <1>1, <1>3, <1>4

\* What a fold of the model sums is such a sum.
LEMMA FoldIsSum ==
  ASSUME NEW S, IsFiniteSet(S), NEW w
  PROVE  MapThenSumSet(LAMBDA x : w[x], S) = Sum(w, S)
  <1> DEFINE step(g) == [s \in SUBSET S |-> IF s = {} THEN 0
                          ELSE w[CHOOSE x \in s : TRUE] + g[s \ {CHOOSE x \in s : TRUE}]]
  <1>1. \A g : Summed(g, w, S) <=> g = step(g)
    BY DEF Summed, First
  <1>2. SumsOf(w, S) = CHOOSE g : g = step(g)
    BY <1>1 DEF SumsOf
  <1> QED
    BY <1>2 DEF MapThenSumSet, MapThenFoldSet, Sum

\* A finite set of numbers has a greatest one.
LEMMA GreatestOf ==
  ASSUME NEW S \in SUBSET Nat, IsFiniteSet(S), S # {}
  PROVE  Max(S) \in S /\ \A x \in S : x <= Max(S)
  <1> DEFINE Above(n) == {o \in S : o > n}
             Aboves == {Above(n) : n \in S}
  <1>1. Aboves \subseteq FiniteSubsetsOf(S) /\ Aboves # {}
    <2>1. Aboves # {} /\ \A s \in Aboves : s \in SUBSET S
      OBVIOUS
    <2>2. \A s \in Aboves : IsFiniteSet(s)
      <3> HIDE DEF Aboves
      <3> QED
        BY <2>1, FS_Subset
    <2> HIDE DEF Aboves
    <2> QED
      BY <2>1, <2>2 DEF FiniteSubsetsOf
  <1>2. IsWellFoundedOn(StrictSubsetOrdering(S), FiniteSubsetsOf(S))
    BY FS_StrictSubsetOrderingWellFounded
  <1>3. PICK least \in Aboves : \A s \in Aboves : ~ (<<s, least>> \in StrictSubsetOrdering(S))
    <2> HIDE DEF Aboves
    <2> QED
      BY <1>1, <1>2, WFMin
  <1>4. PICK n \in S : least = Above(n)
    OBVIOUS
  <1>5. ASSUME NEW o \in S, ~(o <= n)
        PROVE  FALSE
    <2>1. n \in Nat /\ o \in Nat /\ n < o
      BY <1>5
    <2>2. Above(o) \subseteq Above(n) /\ o \in Above(n) /\ o \notin Above(o)
      <3>1. \A q \in S : q > o => q > n
        BY <2>1
      <3>2. ~(o > o) /\ o > n
        BY <2>1
      <3> QED
        BY <3>1, <3>2
    <2>3. <<Above(o), least>> \in StrictSubsetOrdering(S)
      BY <1>4, <2>2 DEF StrictSubsetOrdering
    <2> QED
      BY <1>3, <2>3
  <1>6. \A x \in S : n >= x
    <2> TAKE x \in S
    <2>1. x <= n /\ n \in Nat /\ x \in Nat
      BY <1>5
    <2> QED
      BY <2>1
  <1>7. Max(S) \in S /\ \A x \in S : Max(S) >= x
    BY <1>6 DEF Max
  <1>8. Max(S) \in Nat
    BY <1>7
  <1> QED
    BY <1>7, <1>8

\* A sequence with its entry at one place removed.
LEMMA RemovedAt ==
  ASSUME NEW s \in Seq(Nat), NEW k \in 1 .. Len(s)
  PROVE  /\ RemoveAt(s, k) \in Seq(Nat) /\ Len(RemoveAt(s, k)) = Len(s) - 1
         /\ \A j \in 1 .. Len(s) - 1 : RemoveAt(s, k)[j] = IF j < k THEN s[j] ELSE s[j + 1]
  <1> DEFINE before == SubSeq(s, 1, k - 1)
             after == SubSeq(s, k + 1, Len(s))
  <1>1. Len(s) \in Nat /\ k \in Nat /\ 1 <= k /\ k <= Len(s) /\ \A i \in 1 .. Len(s) : s[i] \in Nat
    OBVIOUS
  <1>2. /\ before \in Seq(Nat) /\ Len(before) = k - 1
        /\ \A i \in 1 .. k - 1 : before[i] = s[i]
    <2>1. \A i \in 1 .. k - 1 : s[i] \in Nat
      BY <1>1
    <2> QED
      BY <1>1, <2>1, SubSeqProperties
  <1>3. /\ after \in Seq(Nat) /\ Len(after) = Len(s) - k
        /\ \A i \in 1 .. Len(s) - k : after[i] = s[k + i]
    <2>1. \A i \in k + 1 .. Len(s) : s[i] \in Nat
      BY <1>1
    <2>2. /\ after \in Seq(Nat)
          /\ Len(after) = IF k + 1 <= Len(s) THEN Len(s) - (k + 1) + 1 ELSE 0
          /\ \A i \in 1 .. Len(s) - (k + 1) + 1 : after[i] = s[(k + 1) + i - 1]
      <3>1. k + 1 \in Int /\ Len(s) \in Int
        BY <1>1
      <3> QED
        BY <2>1, <3>1, SubSeqProperties
    <2>3. Len(s) - (k + 1) + 1 = Len(s) - k /\ (~(k + 1 <= Len(s)) => Len(s) - k = 0)
      BY <1>1
    <2>4. \A i \in 1 .. Len(s) - k : (k + 1) + i - 1 = k + i
      BY <1>1
    <2> HIDE DEF after
    <2> QED
      BY <2>2, <2>3, <2>4
  <1> HIDE DEF before, after
  <1>4. /\ before \o after \in Seq(Nat) /\ Len(before \o after) = Len(before) + Len(after)
        /\ \A i \in 1 .. Len(before) + Len(after) :
             (before \o after)[i] = IF i <= Len(before) THEN before[i] ELSE after[i - Len(before)]
    BY <1>2, <1>3, ConcatProperties
  <1>5. RemoveAt(s, k) = before \o after
    BY DEF RemoveAt, before, after
  <1>6. ASSUME NEW j \in 1 .. Len(s) - 1
        PROVE  (before \o after)[j] = IF j < k THEN s[j] ELSE s[j + 1]
    <2>1. CASE j < k
      BY <1>1, <1>2, <1>3, <1>4, <2>1
    <2>2. CASE ~(j < k)
      <3>1. /\ j - (k - 1) \in 1 .. Len(s) - k /\ ~(j <= k - 1) /\ k + (j - (k - 1)) = j + 1
            /\ j \in 1 .. (k - 1) + (Len(s) - k)
        BY <1>1, <2>2
      <3>2. (before \o after)[j] = after[j - (k - 1)]
        BY <1>2, <1>3, <1>4, <3>1
      <3>3. after[j - (k - 1)] = s[k + (j - (k - 1))]
        BY <1>3, <3>1
      <3> QED
        BY <2>2, <3>1, <3>2, <3>3
    <2> QED
      BY <2>1, <2>2
  <1>7. Len(before \o after) = Len(s) - 1
    BY <1>1, <1>2, <1>3, <1>4
  <1> QED
    BY <1>4, <1>5, <1>6, <1>7

\* A numbering of a set, with one more element in it numbered last.
LEMMA MatchGrows ==
  ASSUME NEW n \in Nat, NEW T, NEW b \in Bijection(1 .. n, T), NEW x, x \notin T
  PROVE  [k \in 1 .. n + 1 |-> IF k = n + 1 THEN x ELSE b[k]] \in Bijection(1 .. n + 1, T \cup {x})
  <1> DEFINE c == [k \in 1 .. n + 1 |-> IF k = n + 1 THEN x ELSE b[k]]
  <1>1. /\ b \in [1 .. n -> T] /\ \A i, j \in 1 .. n : b[i] = b[j] => i = j
        /\ \A t \in T : \E i \in 1 .. n : b[i] = t
    BY DEF Bijection, Injection, IsInjective, Surjection
  <1>2. \A k \in 1 .. n + 1 : k = n + 1 \/ k \in 1 .. n
    OBVIOUS
  <1>3. c \in [1 .. n + 1 -> T \cup {x}]
    BY <1>1, <1>2
  <1>4. \A i, j \in 1 .. n + 1 : c[i] = c[j] => i = j
    BY <1>1, <1>2
  <1>5. \A t \in T \cup {x} : \E i \in 1 .. n + 1 : c[i] = t
    <2> TAKE t \in T \cup {x}
    <2>1. CASE t = x
      <3>1. n + 1 \in 1 .. n + 1 /\ c[n + 1] = t
        BY <2>1
      <3> QED
        BY <3>1
    <2>2. CASE t \in T
      <3>1. PICK i \in 1 .. n : b[i] = t
        BY <1>1, <2>2
      <3>2. i \in 1 .. n + 1 /\ i # n + 1
        OBVIOUS
      <3> QED
        BY <3>1, <3>2
    <2> QED
      BY <2>1, <2>2
  <1> HIDE DEF c
  <1>6. c \in Bijection(1 .. n + 1, T \cup {x})
    BY <1>3, <1>4, <1>5 DEF Bijection, Injection, IsInjective, Surjection
  <1> QED
    BY <1>6 DEF c

\* A numbering with one element struck out, those behind it moved up.
LEMMA MatchShrinks ==
  ASSUME NEW n \in Nat, NEW T, NEW b \in Bijection(1 .. n, T), NEW k \in 1 .. n
  PROVE  [j \in 1 .. n - 1 |-> IF j < k THEN b[j] ELSE b[j + 1]] \in Bijection(1 .. n - 1, T \ {b[k]})
  <1> DEFINE c == [j \in 1 .. n - 1 |-> IF j < k THEN b[j] ELSE b[j + 1]]
             at(j) == IF j < k THEN j ELSE j + 1
  <1>1. /\ b \in [1 .. n -> T] /\ \A i, j \in 1 .. n : b[i] = b[j] => i = j
        /\ \A t \in T : \E i \in 1 .. n : b[i] = t
    BY DEF Bijection, Injection, IsInjective, Surjection
  <1>2. \A j \in 1 .. n - 1 : at(j) \in 1 .. n /\ at(j) # k /\ c[j] = b[at(j)]
    OBVIOUS
  <1>3. \A i, j \in 1 .. n - 1 : at(i) = at(j) => i = j
    OBVIOUS
  <1>4. c \in [1 .. n - 1 -> T \ {b[k]}]
    <2>1. \A j \in 1 .. n - 1 : c[j] \in T \ {b[k]}
      <3> TAKE j \in 1 .. n - 1
      <3> HIDE DEF c, at
      <3> QED
        BY <1>1, <1>2
    <2>2. c = [j \in 1 .. n - 1 |-> c[j]]
      OBVIOUS
    <2> HIDE DEF c
    <2> QED
      BY <2>1, <2>2
  <1>5. \A i, j \in 1 .. n - 1 : c[i] = c[j] => i = j
    <2> HIDE DEF c, at
    <2> QED
      BY <1>1, <1>2, <1>3
  <1>6. \A t \in T \ {b[k]} : \E i \in 1 .. n - 1 : c[i] = t
    <2> TAKE t \in T \ {b[k]}
    <2>1. PICK i \in 1 .. n : b[i] = t
      BY <1>1
    <2>2. i # k
      BY <2>1
    <2>3. CASE i < k
      <3>1. i \in 1 .. n - 1 /\ c[i] = t
        BY <2>1, <2>3
      <3> QED
        BY <3>1
    <2>4. CASE i > k
      <3>1. i - 1 \in 1 .. n - 1 /\ ~(i - 1 < k) /\ (i - 1) + 1 = i
        BY <2>4
      <3>2. c[i - 1] = t
        BY <2>1, <3>1
      <3> QED
        BY <3>1, <3>2
    <2> QED
      BY <2>2, <2>3, <2>4
  <1> HIDE DEF c
  <1>7. c \in Bijection(1 .. n - 1, T \ {b[k]})
    BY <1>4, <1>5, <1>6 DEF Bijection, Injection, IsInjective, Surjection
  <1> QED
    BY <1>7 DEF c

\* A numbering with two elements changed over.
LEMMA MatchSwaps ==
  ASSUME NEW n \in Nat, NEW T, NEW b \in Bijection(1 .. n, T), NEW j \in 1 .. n, NEW k \in 1 .. n
  PROVE  [i \in 1 .. n |-> IF i = k THEN b[j] ELSE IF i = j THEN b[k] ELSE b[i]] \in Bijection(1 .. n, T)
  <1> DEFINE c == [i \in 1 .. n |-> IF i = k THEN b[j] ELSE IF i = j THEN b[k] ELSE b[i]]
  <1>1. /\ b \in [1 .. n -> T] /\ \A i, l \in 1 .. n : b[i] = b[l] => i = l
        /\ \A t \in T : \E i \in 1 .. n : b[i] = t
    BY DEF Bijection, Injection, IsInjective, Surjection
  <1>2. c \in [1 .. n -> T]
    BY <1>1
  <1>3. \A i, l \in 1 .. n : c[i] = c[l] => i = l
    BY <1>1
  <1>4. \A t \in T : \E i \in 1 .. n : c[i] = t
    <2> TAKE t \in T
    <2>1. PICK i \in 1 .. n : b[i] = t
      BY <1>1
    <2>2. CASE i = k
      BY <2>1, <2>2
    <2>3. CASE i # k /\ i = j
      BY <2>1, <2>3
    <2>4. CASE i # k /\ i # j
      BY <2>1, <2>4
    <2> QED
      BY <2>2, <2>3, <2>4
  <1> HIDE DEF c
  <1>5. c \in Bijection(1 .. n, T)
    BY <1>2, <1>3, <1>4 DEF Bijection, Injection, IsInjective, Surjection
  <1> QED
    BY <1>5 DEF c

\* A set of numbers that has one has a least one.
LEMMA LeastOf ==
  ASSUME NEW bound \in Nat, NEW numbers \in SUBSET (1 .. bound), numbers # {}
  PROVE  Min(numbers) \in numbers /\ \A n \in numbers : Min(numbers) <= n
  <1> DEFINE Below(n) == {o \in numbers : o < n}
             Belows == {Below(n) : n \in numbers}
  <1>1. IsFiniteSet(numbers) /\ numbers \subseteq Nat
    <2>1. numbers \in SUBSET Nat /\ \A n \in numbers : n <= bound
      OBVIOUS
    <2> QED
      BY <2>1, FS_BoundedSetOfNaturals
  <1>2. Belows \subseteq FiniteSubsetsOf(numbers) /\ Belows # {}
    <2>1. Belows # {} /\ \A s \in Belows : s \in SUBSET numbers
      OBVIOUS
    <2>2. ASSUME NEW s \in Belows
          PROVE  s \in FiniteSubsetsOf(numbers)
      <3> HIDE DEF Belows
      <3> QED
        BY <1>1, <2>1, <2>2, FS_Subset DEF FiniteSubsetsOf
    <2> QED
      BY <2>1, <2>2
  <1>3. IsWellFoundedOn(StrictSubsetOrdering(numbers), FiniteSubsetsOf(numbers))
    BY FS_StrictSubsetOrderingWellFounded
  <1>4. PICK least \in Belows :
           \A s \in Belows : ~ (<<s, least>> \in StrictSubsetOrdering(numbers))
    <2> HIDE DEF Belows
    <2> QED
      BY <1>2, <1>3, WFMin
  <1>5. PICK n \in numbers : least = Below(n)
    OBVIOUS
  <1>6. ASSUME NEW o \in numbers, ~(n <= o)
        PROVE  FALSE
    <2>1. Below(o) \subseteq Below(n) /\ o \in Below(n) /\ o \notin Below(o)
      <3>1. n \in Nat /\ o \in Nat /\ o < n /\ \A q \in numbers : q \in Nat
        BY <1>1, <1>6
      <3>2. ASSUME NEW q \in numbers, q < o
            PROVE  q < n
        BY <3>1, <3>2
      <3>3. ~(o < o)
        BY <3>1
      <3> QED
        BY <3>1, <3>2, <3>3
    <2>2. <<Below(o), least>> \in StrictSubsetOrdering(numbers)
      BY <1>5, <2>1 DEF StrictSubsetOrdering
    <2> QED
      BY <1>4, <2>2
  <1>7. \A x \in numbers : x <= n /\ n <= x => x = n
    BY <1>1
  <1> QED
    BY <1>6, <1>7 DEF Min

-----------------------------------------------------------------------------
(***************************************************************************)
(* The content reads of a convergence.  The weights a run keeps of its     *)
(* outstanding reads are those of the reads it sent and has not joined,    *)
(* one for one (Weighed), whichever of equal weights is forgotten.         *)
(***************************************************************************)
BlobWants == 1 .. Len(reads.list)
BlobOut == Tasks(Running \cup Ended) \ reads.answers
WantType == [size : {Null} \cup Nat, len : Nat, here : BOOLEAN]
BlobTypes ==
    /\ DOMAIN reads = {"list", "base", "turn", "singly", "task", "outstanding", "hold", "room",
                       "free", "files", "answers", "unheld", "at"}
    /\ reads.list \in Seq(WantType) /\ reads.base \in BOOLEAN /\ reads.singly \in BOOLEAN
    /\ reads.turn \in SUBSET BlobWants
    /\ reads.task \in [BlobWants -> {"none"} \cup Running \cup Ended]
    /\ reads.outstanding \in Seq(Nat)
    /\ reads.hold \in [BlobWants -> Nat] /\ reads.room \in Nat /\ reads.free \in Nat
    /\ reads.files \in SUBSET BlobWants /\ reads.answers \in SUBSET BlobWants
    /\ reads.unheld \in SUBSET BlobWants
    /\ reads.at \in {"reading", "unheld", "refused", "failed", "answered"}

Weighs(b) ==
    /\ b \in Bijection(1 .. Len(reads.outstanding), BlobOut)
    /\ \A k \in 1 .. Len(reads.outstanding) :
         reads.outstanding[k] = Counted(reads.list[b[k]])
Weighed == \E b \in Bijection(1 .. Len(reads.outstanding), BlobOut) : Weighs(b)

WithinBounds ==
    /\ Len(reads.outstanding) <= ReadConcurrency
    /\ Len(reads.outstanding) > 1 =>
         \A k \in 1 .. Len(reads.outstanding) :
            Len(reads.outstanding) * reads.outstanding[k] <= ReadBytesBound

\* Every byte held is counted once against the room there was.
HoldsCounted ==
    /\ reads.free + Sum(reads.hold, BlobWants) = reads.room
    /\ \A i \in BlobWants :
         /\ reads.task[i] = "holding" => reads.hold[i] = Counted(reads.list[i])
         /\ reads.task[i] = "held" => reads.list[i].len <= reads.hold[i]
         /\ reads.task[i] \notin {"holding", "held"} => reads.hold[i] = 0

\* What the turn at work answers for, and what earlier ones left.
TurnHolds ==
    /\ BlobOut \subseteq reads.turn
    /\ reads.singly => \E i \in BlobWants : reads.turn = {i}
    /\ ~reads.singly => reads.turn = BlobWants /\ reads.unheld = {}
    /\ reads.singly => reads.base
    /\ reads.at = "unheld" => \E i \in reads.turn : reads.task[i] = "unheld"
    /\ reads.at \in {"failed", "answered"} => BlobOut = {}
AnswersHold ==
    /\ \A i \in BlobWants : reads.task[i] = "none" => i \notin reads.files \cup reads.answers
    /\ \A i \in reads.answers : reads.task[i] \in {"held", "staged"}
    /\ \A i \in BlobWants : reads.task[i] \in {"held", "staged"} => reads.list[i].here
    /\ \A i \in BlobWants : reads.task[i] = "unheld" => ~reads.list[i].here
    /\ \A i \in reads.unheld : ~reads.list[i].here
    /\ reads.at = "answered" => reads.answers \cup reads.unheld = BlobWants

BlobInv ==
    BlobTypes /\ Weighed /\ WithinBounds /\ HoldsCounted /\ TurnHolds /\ AnswersHold

\* The reads sent are those whose task is something.
LEMMA TaskOut ==
  ASSUME NEW wants, NEW task \in [wants -> {"none"} \cup Running \cup Ended]
  PROVE  {i \in DOMAIN task : task[i] \in Running \cup Ended} = {i \in wants : task[i] # "none"}
  BY DEF Running, Ended

\* What the types say of the reads under way.
LEMMA BlobShape ==
  ASSUME BlobTypes
  PROVE  /\ Len(reads.list) \in Nat /\ IsFiniteSet(BlobWants) /\ BlobWants \subseteq Nat
         /\ DOMAIN reads.task = BlobWants /\ DOMAIN reads.hold = BlobWants
         /\ \A i \in BlobWants : /\ reads.list[i] \in WantType /\ Counted(reads.list[i]) \in Nat
                                 /\ reads.hold[i] \in Nat /\ reads.task[i] \in {"none"} \cup Running \cup Ended
         /\ BlobOut = {i \in BlobWants : reads.task[i] # "none"} \ reads.answers
         /\ BlobOut \subseteq BlobWants
  <1>1. Len(reads.list) \in Nat
    BY DEF BlobTypes
  <1>2. IsFiniteSet(BlobWants) /\ BlobWants \subseteq Nat
    BY <1>1, FS_Interval DEF BlobWants
  <1>3. \A i \in BlobWants : reads.list[i] \in WantType
    BY DEF BlobTypes, BlobWants
  <1>4. \A i \in BlobWants : Counted(reads.list[i]) \in Nat
    BY <1>3, BlobReadsAssumption DEF WantType, Counted
  <1>5. /\ DOMAIN reads.task = BlobWants /\ DOMAIN reads.hold = BlobWants
        /\ \A i \in BlobWants : /\ reads.hold[i] \in Nat
                                /\ reads.task[i] \in {"none"} \cup Running \cup Ended
    BY DEF BlobTypes
  <1>6. \A i \in BlobWants : reads.task[i] \in Running \cup Ended <=> reads.task[i] # "none"
    BY <1>5 DEF Running, Ended
  <1>7. BlobOut = {i \in BlobWants : reads.task[i] # "none"} \ reads.answers
    BY <1>5, <1>6 DEF BlobOut, Tasks
  <1> QED
    BY <1>1, <1>2, <1>3, <1>4, <1>5, <1>7

\* A run starts with nothing sent and nothing held.
LEMMA BlobStarts == BlobReadsInit => BlobInv
  <1> SUFFICES ASSUME BlobReadsInit PROVE BlobInv
    OBVIOUS
  <1>1. PICK list \in Wants, base \in BOOLEAN, free \in 0 .. HeldLimit :
          reads = BlobReadsStart(list, base, free)
    BY DEF BlobReadsInit
  <1>2. list \in Seq(WantType) /\ Len(list) \in Nat
    <2>1. list \in Seq([size : {Null} \cup Nat, len : Nat, here : BOOLEAN])
      BY WantsAssumption
    <2>2. list \in Seq(WantType)
      BY <2>1 DEF WantType
    <2> QED
      BY <2>2
  <1>3. free \in Nat
    BY BlobReadsAssumption
  <1>4. /\ reads.list = list /\ reads.base = base /\ reads.turn = 1 .. Len(list) /\ reads.singly = FALSE
        /\ reads.task = [i \in 1 .. Len(list) |-> "none"] /\ reads.outstanding = <<>>
        /\ reads.hold = [i \in 1 .. Len(list) |-> 0] /\ reads.room = free /\ reads.free = free
        /\ reads.files = {} /\ reads.answers = {} /\ reads.unheld = {} /\ reads.at = "reading"
    BY <1>1 DEF BlobReadsStart
  <1>5. BlobTypes
    <2>1. DOMAIN reads = {"list", "base", "turn", "singly", "task", "outstanding", "hold", "room",
                       "free", "files", "answers", "unheld", "at"}
      BY <1>1 DEF BlobReadsStart
    <2>2. reads.outstanding \in Seq(Nat)
      BY <1>4
    <2>3. BlobWants = 1 .. Len(list)
      BY <1>4 DEF BlobWants
    <2>4. /\ reads.task \in [BlobWants -> {"none"} \cup Running \cup Ended]
          /\ reads.hold \in [BlobWants -> Nat] /\ reads.turn = BlobWants
      BY <1>4, <2>3
    <2> QED
      BY <1>2, <1>3, <1>4, <2>1, <2>2, <2>4 DEF BlobTypes
  <1>6. BlobOut = {}
    BY <1>4, <1>5, BlobShape DEF BlobWants
  <1>7. Weighed
    <2>1. <<>> \in Bijection({}, {}) /\ 1 .. 0 = {}
      BY DEF Bijection, Injection, Surjection, IsInjective
    <2>2. Len(reads.outstanding) = 0
      BY <1>4
    <2> QED
      BY <1>6, <2>1, <2>2 DEF Weighed, Weighs
  <1>8. WithinBounds
    <2>1. Len(reads.outstanding) = 0
      BY <1>4
    <2> QED
      BY <2>1, BlobReadsAssumption DEF WithinBounds
  <1>9. HoldsCounted
    <2>1. \A i \in BlobWants : reads.hold[i] = 0 /\ reads.task[i] = "none"
      BY <1>4 DEF BlobWants
    <2>2. Sum(reads.hold, BlobWants) = 0
      BY <1>5, <2>1, BlobShape, SumZero
    <2> QED
      BY <1>3, <1>4, <2>1, <2>2 DEF HoldsCounted
  <1>10. TurnHolds /\ AnswersHold
    BY <1>4, <1>6 DEF TurnHolds, AnswersHold, BlobWants
  <1> QED
    BY <1>5, <1>7, <1>8, <1>9, <1>10 DEF BlobInv

\* A read under way that ends, opens its file or starts it afresh, its hold with it.
LEMMA BlobReadOn ==
  ASSUME BlobInv, NEW i \in BlobWants, reads.task[i] \in Running,
         DOMAIN reads' = DOMAIN reads,
         UNCHANGED <<reads.list, reads.base, reads.turn, reads.singly, reads.outstanding>>,
         UNCHANGED <<reads.room, reads.answers, reads.unheld, reads.at>>,
         NEW t \in Running \cup Ended, reads'.task = [reads.task EXCEPT ![i] = t],
         NEW n \in Nat, n <= reads.free + reads.hold[i],
         reads'.free = reads.free + reads.hold[i] - n, reads'.hold = [reads.hold EXCEPT ![i] = n],
         t = "holding" => n = Counted(reads.list[i]), t = "held" => reads.list[i].len <= n,
         t \notin {"holding", "held"} => n = 0,
         t \in {"held", "staged"} => reads.list[i].here, t = "unheld" => ~reads.list[i].here,
         reads'.files \in SUBSET BlobWants, reads'.files \ {i} = reads.files \ {i}
  PROVE  BlobInv'
  <1> USE DEF BlobInv
  <1>1. /\ reads'.list = reads.list /\ reads'.base = reads.base /\ reads'.turn = reads.turn
        /\ reads'.singly = reads.singly /\ reads'.outstanding = reads.outstanding
        /\ reads'.room = reads.room /\ reads'.answers = reads.answers /\ reads'.unheld = reads.unheld
        /\ reads'.at = reads.at
    OBVIOUS
  <1>2. BlobWants' = BlobWants
    BY <1>1 DEF BlobWants
  <1>3. /\ IsFiniteSet(BlobWants) /\ reads.free \in Nat /\ reads.room \in Nat
        /\ reads.task \in [BlobWants -> {"none"} \cup Running \cup Ended]
        /\ reads.hold \in [BlobWants -> Nat] /\ \A j \in BlobWants : Counted(reads.list[j]) \in Nat
    BY BlobShape DEF BlobTypes
  <1>4. reads'.free \in Nat
    <2>1. reads.hold[i] \in Nat
      BY <1>3
    <2> QED
      BY <1>3, <2>1
  <1>5. BlobTypes'
    <2>1. /\ reads'.task \in [BlobWants -> {"none"} \cup Running \cup Ended]
          /\ reads'.hold \in [BlobWants -> Nat]
      BY <1>3
    <2> QED
      BY <1>1, <1>2, <1>4, <2>1 DEF BlobTypes
  <1>6. reads.task[i] \in {"holding", "staging", "writing"} /\ t # "none" /\ i \notin reads.answers
    BY DEF Running, Ended, AnswersHold
  <1>7. BlobOut' = BlobOut
    <2>1. BlobOut = {j \in BlobWants : reads.task[j] # "none"} \ reads.answers
      BY BlobShape
    <2>2. BlobOut' = {j \in BlobWants' : reads'.task[j] # "none"} \ reads'.answers
      <3>1. reads'.task \in [BlobWants' -> {"none"} \cup Running \cup Ended]
        BY <1>5 DEF BlobTypes
      <3>2. {j \in DOMAIN reads'.task : reads'.task[j] \in Running \cup Ended}
              = {j \in BlobWants' : reads'.task[j] # "none"}
        BY <3>1, TaskOut
      <3> QED
        BY <3>2 DEF BlobOut, Tasks
    <2>3. \A j \in BlobWants : reads'.task[j] # "none" <=> reads.task[j] # "none"
      BY <1>3, <1>6
    <2> QED
      BY <1>1, <1>2, <2>1, <2>2, <2>3
  <1>8. Weighed'
    BY <1>1, <1>7 DEF Weighed, Weighs, Counted
  <1>9. WithinBounds'
    BY <1>1 DEF WithinBounds
  <1>10. HoldsCounted'
    <2>1. /\ \A j \in BlobWants : reads.hold[j] \in Nat /\ reads'.hold[j] \in Nat
                                  /\ (j # i => reads.hold[j] = reads'.hold[j])
          /\ reads'.hold[i] = n
      BY <1>3
    <2>2. /\ Sum(reads.hold, BlobWants) \in Nat /\ Sum(reads'.hold, BlobWants) \in Nat
          /\ Sum(reads'.hold, BlobWants) + reads.hold[i] = Sum(reads.hold, BlobWants) + n
      BY <1>3, <2>1, SumChanged
    <2>3. reads'.free + Sum(reads'.hold, BlobWants) = reads'.room
      <3>1. reads.free + Sum(reads.hold, BlobWants) = reads.room /\ reads.hold[i] \in Nat
        BY <1>3 DEF HoldsCounted
      <3> QED
        BY <1>1, <1>3, <2>2, <3>1
    <2>4. \A j \in BlobWants :
            /\ reads'.task[j] = IF j = i THEN t ELSE reads.task[j]
            /\ reads'.hold[j] = IF j = i THEN n ELSE reads.hold[j]
      BY <1>3
    <2> QED
      BY <1>1, <1>2, <2>3, <2>4 DEF HoldsCounted, Counted
  <1>11. TurnHolds'
    <2>1. \A j \in BlobWants : reads.task[j] = "unheld" => reads'.task[j] = "unheld"
      BY <1>3, <1>6
    <2>2. reads.turn \subseteq BlobWants
      BY DEF BlobTypes
    <2> QED
      BY <1>1, <1>2, <1>7, <2>1, <2>2 DEF TurnHolds
  <1>12. AnswersHold'
    <2>1. \A j \in BlobWants : reads'.task[j] = IF j = i THEN t ELSE reads.task[j]
      BY <1>3
    <2>2. reads.answers \subseteq BlobWants
      BY DEF BlobTypes
    <2> QED
      BY <1>1, <1>2, <1>6, <2>1, <2>2 DEF AnswersHold
  <1> QED
    BY <1>5, <1>8, <1>9, <1>10, <1>11, <1>12

\* Each step of one read that is neither sent nor joined.
LEMMA BlobReadsOn ==
  ASSUME BlobInv, NEW i \in DOMAIN reads.task,
         \/ HoldAnswered(i) \/ OpenStaged(i) \/ StartAfresh(i) \/ StageAnswered(i)
         \/ ReadRefused(i) \/ Abandon(i)
  PROVE  BlobInv'
  <1>1. /\ BlobTypes /\ HoldsCounted /\ AnswersHold /\ i \in BlobWants
        /\ DOMAIN reads = {"list", "base", "turn", "singly", "task", "outstanding", "hold", "room",
                       "free", "files", "answers", "unheld", "at"}
        /\ reads.free \in Nat /\ reads.hold[i] \in Nat /\ reads.files \subseteq BlobWants
        /\ reads.list[i] \in WantType /\ Counted(reads.list[i]) \in Nat
        /\ reads.task \in [BlobWants -> {"none"} \cup Running \cup Ended]
        /\ reads.hold \in [BlobWants -> Nat]
    BY BlobShape DEF BlobInv, BlobTypes
  <1>2. reads.list[i].len \in Nat
    BY <1>1 DEF WantType
  <1> DEFINE Rest == /\ DOMAIN reads' = DOMAIN reads
                     /\ UNCHANGED <<reads.list, reads.base, reads.turn, reads.singly, reads.outstanding>>
                     /\ UNCHANGED <<reads.room, reads.answers, reads.unheld, reads.at>>
  <1> DEFINE Freed == /\ reads'.free = reads.free + reads.hold[i]
                      /\ reads'.hold = [reads.hold EXCEPT ![i] = 0]
  <1>3. CASE HoldAnswered(i)
    <2>1. /\ reads.task[i] = "holding" /\ reads.task[i] \in Running /\ reads.list[i].here
          /\ reads.hold[i] = Counted(reads.list[i])
      BY <1>1, <1>3 DEF HoldAnswered, Running, HoldsCounted
    <2>2. CASE \E n \in Fitted(i, reads.list[i].len) :
                 reads' = [reads EXCEPT !.free = @ + reads.hold[i] - n, !.hold[i] = n,
                                        !.task[i] = "held"]
      <3>1. PICK n \in Fitted(i, reads.list[i].len) :
                 reads' = [reads EXCEPT !.free = @ + reads.hold[i] - n, !.hold[i] = n,
                                        !.task[i] = "held"]
        BY <2>2
      <3>2. n \in Nat /\ reads.list[i].len <= n /\ n <= reads.free + reads.hold[i]
        BY <1>1, <1>2 DEF Fitted, TryHold
      <3>3. /\ Rest /\ reads'.free = reads.free + reads.hold[i] - n
            /\ reads'.hold = [reads.hold EXCEPT ![i] = n]
            /\ reads'.task = [reads.task EXCEPT ![i] = "held"] /\ reads'.files = reads.files
        BY <1>1, <3>1
      <3>4. "held" \in Running \cup Ended
        BY DEF Ended
      <3> QED
        BY <1>1, <2>1, <3>2, <3>3, <3>4, BlobReadOn
    <2>3. CASE reads' = Release([reads EXCEPT !.task[i] = "failed"], i)
      <3>1. /\ Rest /\ Freed
            /\ reads'.task = [reads.task EXCEPT ![i] = "failed"] /\ reads'.files = reads.files
        BY <1>1, <2>3 DEF Release
      <3>2. "failed" \in Running \cup Ended
        BY DEF Ended
      <3>3. 0 \in Nat /\ 0 <= reads.free + reads.hold[i]
            /\ reads.free + reads.hold[i] - 0 = reads.free + reads.hold[i]
        BY <1>1
      <3> QED
        BY <1>1, <2>1, <3>1, <3>2, <3>3, BlobReadOn
    <2> QED
      BY <1>3, <2>2, <2>3 DEF HoldAnswered
  <1>4. CASE OpenStaged(i) \/ StartAfresh(i) \/ StageAnswered(i)
    <2> DEFINE t == IF OpenStaged(i) THEN "writing" ELSE IF StartAfresh(i) THEN "staging" ELSE "staged"
    <2>1. reads.task[i] \in {"staging", "writing"} /\ reads.task[i] \in Running
      BY <1>4 DEF OpenStaged, StartAfresh, StageAnswered, Running
    <2>2. reads.hold[i] = 0
      BY <1>1, <2>1 DEF HoldsCounted
    <2>3. /\ Rest /\ reads'.free = reads.free /\ reads'.hold = reads.hold
          /\ reads'.task = [reads.task EXCEPT ![i] = t]
          /\ reads'.files \in {reads.files, reads.files \cup {i}, reads.files \ {i}}
      BY <1>1, <1>4 DEF OpenStaged, StartAfresh, StageAnswered
    <2>4. t \in Running \cup Ended /\ t \in {"staging", "writing", "staged"}
          /\ (t = "staged" => reads.list[i].here)
      BY <1>4 DEF Running, Ended, StageAnswered
    <2>5. /\ 0 \in Nat /\ 0 <= reads.free + reads.hold[i]
          /\ reads'.free = reads.free + reads.hold[i] - 0
      BY <1>1, <2>2, <2>3
    <2>6. reads'.hold = [reads.hold EXCEPT ![i] = 0]
      BY <1>1, <2>2, <2>3
    <2>7. reads'.files \in SUBSET BlobWants /\ reads'.files \ {i} = reads.files \ {i}
      BY <1>1, <2>3
    <2> HIDE DEF t
    <2> QED
      BY <1>1, <2>1, <2>3, <2>4, <2>5, <2>6, <2>7, BlobReadOn
  <1>5. CASE ReadRefused(i) \/ Abandon(i)
    <2>1. PICK t \in {"failed", "unheld"} :
            /\ reads' = Release([reads EXCEPT !.task[i] = t], i)
            /\ t = "unheld" => ~reads.list[i].here
      BY <1>5 DEF ReadRefused, Abandon
    <2>2. reads.task[i] \in Running
      BY <1>5 DEF ReadRefused, Abandon
    <2>3. /\ Rest /\ Freed
          /\ reads'.task = [reads.task EXCEPT ![i] = t] /\ reads'.files = reads.files
      BY <1>1, <2>1 DEF Release
    <2>4. t \in Running \cup Ended /\ t \notin {"holding", "held", "staged"}
      BY DEF Ended
    <2>5. 0 \in Nat /\ 0 <= reads.free + reads.hold[i]
          /\ reads.free + reads.hold[i] - 0 = reads.free + reads.hold[i]
      BY <1>1
    <2> QED
      BY <1>1, <2>1, <2>2, <2>3, <2>4, <2>5, BlobReadOn, SMTT(30)
  <1> QED
    BY <1>3, <1>4, <1>5

\* Of two numbers the product with the smaller is the smaller.
LEMMA TimesAtMost ==
  ASSUME NEW n \in Nat, NEW a \in Nat, NEW b \in Nat, a <= b
  PROVE  n * a <= n * b /\ a * n <= b * n
  OBVIOUS

\* The values of finitely many elements are finitely many.
LEMMA ImageIsFinite ==
  ASSUME NEW S, IsFiniteSet(S), NEW f
  PROVE  IsFiniteSet({f[x] : x \in S})
  <1> DEFINE g == [x \in S |-> f[x]]
             T == {f[x] : x \in S}
  <1>1. g \in [S -> T] /\ \A t \in T : \E x \in S : g[x] = t
    OBVIOUS
  <1> HIDE DEF g, T
  <1>2. g \in Surjection(S, T)
    BY <1>1 DEF Surjection
  <1>3. IsFiniteSet(T)
    BY <1>2, FS_Surjection
  <1> QED
    BY <1>3 DEF T

\* Some weight is no less than the others.
LEMMA HeaviestOf ==
  ASSUME NEW s \in Seq(Nat)
  PROVE  Heavier(s) \in Nat /\ \A k \in 1 .. Len(s) : s[k] <= Heavier(s)
  <1> DEFINE weights == {0} \cup Range(s)
  <1>1. Range(s) = {s[k] : k \in 1 .. Len(s)} /\ Len(s) \in Nat
    BY DEF Range
  <1>2. weights \in SUBSET Nat /\ weights # {}
    BY <1>1
  <1>3. IsFiniteSet(weights)
    <2>1. IsFiniteSet(1 .. Len(s))
      BY <1>1, FS_Interval
    <2>2. IsFiniteSet({s[k] : k \in 1 .. Len(s)})
      BY <2>1, ImageIsFinite
    <2>3. weights = Range(s) \cup {0}
      OBVIOUS
    <2> HIDE DEF weights
    <2> QED
      BY <1>1, <2>2, <2>3, FS_AddElement
  <1> HIDE DEF weights
  <1>4. Max(weights) \in weights /\ \A x \in weights : x <= Max(weights)
    BY <1>2, <1>3, GreatestOf
  <1>5. \A k \in 1 .. Len(s) : s[k] \in weights
    BY <1>1 DEF weights
  <1> QED
    BY <1>2, <1>4, <1>5 DEF Heavier, weights

\* A read is sent within the bounds and its weight noted with it.
LEMMA BlobSpawns ==
  ASSUME BlobInv, SpawnRead
  PROVE  BlobInv'
  <1> DEFINE i == NextRead
             n == Counted(reads.list[i])
             h == IF TryHold(n) THEN n ELSE 0
             len == Len(reads.outstanding)
  <1>1. /\ BlobTypes /\ Weighed /\ WithinBounds /\ HoldsCounted /\ TurnHolds /\ AnswersHold
        /\ DOMAIN reads = {"list", "base", "turn", "singly", "task", "outstanding", "hold", "room",
                       "free", "files", "answers", "unheld", "at"}
        /\ reads.free \in Nat /\ reads.room \in Nat /\ reads.outstanding \in Seq(Nat) /\ len \in Nat
        /\ reads.task \in [BlobWants -> {"none"} \cup Running \cup Ended]
        /\ reads.hold \in [BlobWants -> Nat] /\ reads.turn \in SUBSET BlobWants
    BY DEF BlobInv, BlobTypes
  <1>2. i \in BlobWants /\ i \in reads.turn /\ reads.task[i] = "none"
    <2>1. Unsent \in SUBSET (1 .. Len(reads.list)) /\ Unsent # {} /\ Len(reads.list) \in Nat
      BY <1>1, BlobShape DEF SpawnRead, Unsent, BlobWants
    <2>2. Min(Unsent) \in Unsent
      BY <2>1, LeastOf
    <2> QED
      BY <1>1, <2>2 DEF NextRead, Unsent
  <1>3. /\ n \in Nat /\ IsFiniteSet(BlobWants) /\ BlobOut \subseteq BlobWants
        /\ \A j \in BlobWants : Counted(reads.list[j]) \in Nat
        /\ BlobOut = {j \in BlobWants : reads.task[j] # "none"} \ reads.answers
    BY <1>1, <1>2, BlobShape
  <1>4. i \notin BlobOut /\ i \notin reads.answers /\ i \notin reads.files /\ reads.hold[i] = 0
    BY <1>1, <1>2, <1>3 DEF AnswersHold, HoldsCounted
  <1>5. h \in Nat /\ h <= reads.free /\ (h = n \/ h = 0)
    BY <1>1, <1>3 DEF TryHold
  <1> DEFINE t == IF TryHold(n) THEN "holding" ELSE "staging"
  <1>6. /\ reads'.list = reads.list /\ reads'.base = reads.base /\ reads'.turn = reads.turn
        /\ reads'.singly = reads.singly /\ reads'.room = reads.room /\ reads'.answers = reads.answers
        /\ reads'.unheld = reads.unheld /\ reads'.at = reads.at /\ reads'.files = reads.files
        /\ DOMAIN reads' = DOMAIN reads /\ reads.at = "reading"
        /\ reads'.outstanding = Append(reads.outstanding, n)
        /\ reads'.task = [reads.task EXCEPT ![i] = t]
        /\ reads'.hold = [reads.hold EXCEPT ![i] = h]
        /\ reads'.free = reads.free - h /\ Admitted(n)
    <2>1. /\ reads.at = "reading" /\ Admitted(n)
          /\ reads' = [reads EXCEPT !.outstanding = Append(@, n),
                                    !.task[i] = t, !.hold[i] = h,
                                    !.free = IF TryHold(n) THEN @ - n ELSE @]
      <3>1. h = IF TryHold(n) THEN n ELSE 0
        OBVIOUS
      <3>2. \A r : [r EXCEPT !.hold[i] = IF TryHold(n) THEN n ELSE 0] = [r EXCEPT !.hold[i] = h]
        BY <3>1
      <3> QED
        BY DEF SpawnRead
    <2>2. reads.free - h = IF TryHold(n) THEN reads.free - n ELSE reads.free
      BY <1>1
    <2> HIDE DEF i, n, h, t
    <2> QED
      BY <1>1, <2>1, <2>2
  <1> HIDE DEF i, n, h
  <1>7. t \in {"holding", "staging"} /\ t \in Running /\ (t = "holding" => h = n) /\ (t = "staging" => h = 0)
    BY DEF Running, h
  <1> HIDE DEF t
  <1>8. BlobWants' = BlobWants
    BY <1>6 DEF BlobWants
  <1>9. BlobTypes'
    <2>1. /\ reads'.task \in [BlobWants -> {"none"} \cup Running \cup Ended]
          /\ reads'.hold \in [BlobWants -> Nat] /\ reads'.free \in Nat
          /\ reads'.outstanding \in Seq(Nat)
      BY <1>1, <1>2, <1>3, <1>5, <1>6, <1>7
    <2> QED
      BY <1>1, <1>6, <1>8, <2>1 DEF BlobTypes
  <1>10. BlobOut' = BlobOut \cup {i}
    <2>1. BlobOut' = {j \in BlobWants' : reads'.task[j] # "none"} \ reads'.answers
      <3>1. reads'.task \in [BlobWants' -> {"none"} \cup Running \cup Ended]
        BY <1>9 DEF BlobTypes
      <3>2. {j \in DOMAIN reads'.task : reads'.task[j] \in Running \cup Ended}
              = {j \in BlobWants' : reads'.task[j] # "none"}
        BY <3>1, TaskOut
      <3> QED
        BY <3>2 DEF BlobOut, Tasks
    <2>2. \A j \in BlobWants : reads'.task[j] # "none" <=> (j = i \/ reads.task[j] # "none")
      BY <1>1, <1>6, <1>7
    <2> QED
      BY <1>2, <1>3, <1>4, <1>6, <1>8, <2>1, <2>2
  <1>11. /\ Len(reads'.outstanding) = len + 1 /\ reads'.outstanding[len + 1] = n
         /\ \A k \in 1 .. len : reads'.outstanding[k] = reads.outstanding[k]
    BY <1>1, <1>3, <1>6
  <1>12. Weighed'
    <2>1. PICK b \in Bijection(1 .. len, BlobOut) : Weighs(b)
      BY <1>1 DEF Weighed
    <2> DEFINE c == [k \in 1 .. len + 1 |-> IF k = len + 1 THEN i ELSE b[k]]
    <2>2. c \in Bijection(1 .. len + 1, BlobOut \cup {i})
      <3> HIDE DEF len
      <3> QED
        BY <1>1, <1>4, <2>1, MatchGrows
    <2>3. \A k \in 1 .. len + 1 : reads'.outstanding[k] = Counted(reads.list[c[k]])
      <3> TAKE k \in 1 .. len + 1
      <3>1. CASE k = len + 1
        BY <1>11, <3>1 DEF n
      <3>2. CASE k # len + 1
        <4>1. k \in 1 .. len /\ c[k] = b[k]
          BY <1>1, <3>2
        <4> QED
          BY <1>11, <2>1, <4>1 DEF Weighs
      <3> QED
        BY <3>1, <3>2
    <2> HIDE DEF c
    <2> QED
      BY <1>6, <1>10, <1>11, <2>2, <2>3 DEF Weighed, Weighs, Counted
  <1>13. WithinBounds'
    <2>1. ReadConcurrency \in Nat /\ ReadConcurrency >= 1 /\ ReadBytesBound \in Nat
      BY BlobReadsAssumption
    <2>2. CASE reads.outstanding = <<>>
      <3>1. len = 0
        BY <2>2
      <3> HIDE DEF len
      <3> QED
        BY <1>11, <2>1, <3>1 DEF WithinBounds
    <2>3. CASE /\ len < ReadConcurrency
               /\ (len + 1) * Max({n, Heavier(reads.outstanding)}) <= ReadBytesBound
      <3> DEFINE m == Max({n, Heavier(reads.outstanding)})
      <3>1. Heavier(reads.outstanding) \in Nat /\ \A k \in 1 .. len : reads.outstanding[k] <= Heavier(reads.outstanding)
        BY <1>1, HeaviestOf
      <3>2. m \in Nat /\ n <= m /\ Heavier(reads.outstanding) <= m
        <4>1. {n, Heavier(reads.outstanding)} \in SUBSET Nat /\ {n, Heavier(reads.outstanding)} # {}
          BY <1>3, <3>1
        <4>2. IsFiniteSet({n, Heavier(reads.outstanding)})
          <5>1. IsFiniteSet({n}) /\ {n, Heavier(reads.outstanding)} = {n} \cup {Heavier(reads.outstanding)}
            BY FS_Singleton
          <5> QED
            BY <5>1, FS_AddElement
        <4>3. m \in {n, Heavier(reads.outstanding)} /\ \A x \in {n, Heavier(reads.outstanding)} : x <= m
          BY <4>1, <4>2, GreatestOf
        <4> HIDE DEF m
        <4> QED
          BY <4>1, <4>3
      <3> HIDE DEF m
      <3>3. \A k \in 1 .. len + 1 : reads'.outstanding[k] \in Nat /\ reads'.outstanding[k] <= m
        <4> TAKE k \in 1 .. len + 1
        <4>1. CASE k = len + 1
          BY <1>3, <1>11, <3>2, <4>1
        <4>2. CASE k \in 1 .. len
          <5>1. reads.outstanding[k] \in Nat /\ reads.outstanding[k] <= Heavier(reads.outstanding)
            BY <1>1, <3>1, <4>2
          <5> QED
            BY <1>11, <3>1, <3>2, <4>2, <5>1
        <4> QED
          BY <1>1, <4>1, <4>2
      <3>4. (len + 1) * m <= ReadBytesBound /\ len + 1 \in Nat
        BY <1>1, <2>3 DEF m
      <3>5. ASSUME NEW k \in 1 .. len + 1
            PROVE  (len + 1) * reads'.outstanding[k] <= ReadBytesBound
        <4>1. (len + 1) * reads'.outstanding[k] <= (len + 1) * m
          <5> HIDE DEF len
          <5> QED
            BY <3>2, <3>3, <3>4, TimesAtMost
        <4>2. (len + 1) * reads'.outstanding[k] \in Nat /\ (len + 1) * m \in Nat
          <5> HIDE DEF len
          <5> QED
            BY <3>2, <3>3, <3>4
        <4> HIDE DEF len
        <4> QED
          BY <2>1, <3>4, <4>1, <4>2
      <3>6. len + 1 <= ReadConcurrency
        BY <1>1, <2>1, <2>3
      <3> HIDE DEF len
      <3> QED
        BY <1>11, <3>5, <3>6 DEF WithinBounds
    <2> QED
      BY <1>6, <2>2, <2>3 DEF Admitted
  <1>14. HoldsCounted'
    <2>1. /\ \A j \in BlobWants : reads.hold[j] \in Nat /\ reads'.hold[j] \in Nat
                                  /\ (j # i => reads.hold[j] = reads'.hold[j])
          /\ reads'.hold[i] = h
      BY <1>1, <1>2, <1>5, <1>6
    <2>2. /\ Sum(reads.hold, BlobWants) \in Nat /\ Sum(reads'.hold, BlobWants) \in Nat
          /\ Sum(reads'.hold, BlobWants) + reads.hold[i] = Sum(reads.hold, BlobWants) + h
      <3>1. \A j \in BlobWants : reads.hold[j] \in Nat /\ reads'.hold[j] \in Nat
                                  /\ (j # i => reads.hold[j] = reads'.hold[j])
        BY <2>1
      <3>2. IsFiniteSet(BlobWants) /\ i \in BlobWants
        BY <1>2, <1>3
      <3>3. /\ Sum(reads.hold, BlobWants) \in Nat /\ Sum(reads'.hold, BlobWants) \in Nat
            /\ Sum(reads'.hold, BlobWants) + reads.hold[i] = Sum(reads.hold, BlobWants) + reads'.hold[i]
        BY <3>1, <3>2, SumChanged
      <3> QED
        BY <2>1, <3>3
    <2>3. reads'.free + Sum(reads'.hold, BlobWants) = reads'.room
      <3>1. reads.free + Sum(reads.hold, BlobWants) = reads.room
        BY <1>1 DEF HoldsCounted
      <3> QED
        BY <1>1, <1>4, <1>5, <1>6, <2>2, <3>1
    <2>4. \A j \in BlobWants :
            /\ reads'.task[j] = IF j = i THEN t ELSE reads.task[j]
            /\ reads'.hold[j] = IF j = i THEN h ELSE reads.hold[j]
      BY <1>1, <1>6
    <2>5. t = "holding" => h = Counted(reads.list[i])
      BY <1>7 DEF n
    <2> QED
      BY <1>1, <1>6, <1>7, <1>8, <2>3, <2>4, <2>5 DEF HoldsCounted, Counted
  <1>15. TurnHolds'
    BY <1>1, <1>2, <1>6, <1>8, <1>10 DEF TurnHolds
  <1>16. AnswersHold'
    <2>1. \A j \in BlobWants : reads'.task[j] = IF j = i THEN t ELSE reads.task[j]
      BY <1>1, <1>6
    <2>2. reads.answers \subseteq BlobWants
      BY <1>1 DEF BlobTypes
    <2> QED
      BY <1>1, <1>2, <1>4, <1>6, <1>7, <1>8, <2>1, <2>2 DEF AnswersHold
  <1> QED
    BY <1>9, <1>12, <1>13, <1>14, <1>15, <1>16 DEF BlobInv

\* The weight forgotten is the joined read's, whichever of equal ones goes.
LEMMA BlobJoins ==
  ASSUME BlobInv, NEW i \in DOMAIN reads.task, JoinBlob(i)
  PROVE  BlobInv'
  <1> DEFINE n == Counted(reads.list[i])
             out == reads.outstanding
             len == Len(reads.outstanding)
             k == CHOOSE j \in 1 .. len : out[j] = n
  <1>1. /\ BlobTypes /\ Weighed /\ WithinBounds /\ HoldsCounted /\ TurnHolds /\ AnswersHold
        /\ DOMAIN reads = {"list", "base", "turn", "singly", "task", "outstanding", "hold", "room",
                       "free", "files", "answers", "unheld", "at"}
        /\ out \in Seq(Nat) /\ len \in Nat /\ i \in BlobWants
        /\ reads.answers \in SUBSET BlobWants
    BY BlobShape DEF BlobInv, BlobTypes
  <1>2. /\ BlobOut \subseteq BlobWants
        /\ BlobOut = {j \in BlobWants : reads.task[j] # "none"} \ reads.answers
    BY <1>1, BlobShape
  <1>3. /\ reads'.list = reads.list /\ reads'.base = reads.base /\ reads'.turn = reads.turn
        /\ reads'.singly = reads.singly /\ reads'.room = reads.room /\ reads'.task = reads.task
        /\ reads'.unheld = reads.unheld /\ reads'.at = reads.at /\ reads'.files = reads.files
        /\ reads'.hold = reads.hold /\ reads'.free = reads.free
        /\ DOMAIN reads' = DOMAIN reads
        /\ reads'.outstanding = RemoveAt(out, k) /\ reads'.answers = reads.answers \cup {i}
        /\ reads.task[i] \in {"held", "staged"} /\ i \notin reads.answers /\ i \in reads.turn
        /\ reads.at = "reading"
    BY <1>1 DEF JoinBlob, ForgetWeight
  <1>4. i \in BlobOut /\ BlobWants' = BlobWants
    BY <1>1, <1>2, <1>3 DEF BlobWants
  <1>5. PICK b \in Bijection(1 .. len, BlobOut) : Weighs(b)
    BY <1>1 DEF Weighed
  <1>6. /\ \A j \in 1 .. len : out[j] = Counted(reads.list[b[j]])
        /\ \A x \in BlobOut : \E j \in 1 .. len : b[j] = x
    BY <1>5 DEF Weighs, Bijection, Surjection
  <1>7. PICK j \in 1 .. len : b[j] = i
    BY <1>4, <1>6
  <1>8. k \in 1 .. len /\ out[k] = n /\ out[j] = n
    <2>1. out[j] = n
      BY <1>6, <1>7
    <2> QED
      BY <2>1
  <1> HIDE DEF n, k
  <1>9. /\ RemoveAt(out, k) \in Seq(Nat) /\ Len(RemoveAt(out, k)) = len - 1
        /\ \A l \in 1 .. len - 1 : RemoveAt(out, k)[l] = IF l < k THEN out[l] ELSE out[l + 1]
    <2>1. reads.outstanding \in Seq(Nat) /\ k \in 1 .. Len(reads.outstanding)
      BY <1>1, <1>8
    <2> QED
      BY <2>1, RemovedAt
  <1>10. BlobTypes'
    <2>1. reads'.answers \in SUBSET BlobWants
      BY <1>1, <1>3
    <2> QED
      BY <1>1, <1>3, <1>4, <1>9, <2>1 DEF BlobTypes
  <1>11. BlobOut' = BlobOut \ {i}
    BY <1>3 DEF BlobOut, Tasks
  <1>12. Weighed'
    <2> DEFINE c == [l \in 1 .. len |-> IF l = k THEN b[j] ELSE IF l = j THEN b[k] ELSE b[l]]
               d == [l \in 1 .. len - 1 |-> IF l < k THEN c[l] ELSE c[l + 1]]
    <2>1. c \in Bijection(1 .. len, BlobOut)
      <3> HIDE DEF len
      <3> QED
        BY <1>1, <1>5, <1>8, MatchSwaps
    <2>2. c[k] = i /\ \A l \in 1 .. len : out[l] = Counted(reads.list[c[l]])
      <3>1. c[k] = i
        BY <1>7, <1>8
      <3>2. out[k] = Counted(reads.list[i])
        BY <1>8 DEF n
      <3>3. out[j] = Counted(reads.list[b[k]])
        BY <1>6, <1>8
      <3> QED
        BY <1>6, <3>1, <3>2, <3>3
    <2> HIDE DEF c
    <2>3. d \in Bijection(1 .. len - 1, BlobOut \ {i})
      <3>1. d \in Bijection(1 .. len - 1, BlobOut \ {c[k]})
        <4> HIDE DEF len
        <4> QED
          BY <1>1, <1>8, <2>1, MatchShrinks
      <3> QED
        BY <2>2, <3>1
    <2>4. \A l \in 1 .. len - 1 : reads'.outstanding[l] = Counted(reads.list[d[l]])
      <3> TAKE l \in 1 .. len - 1
      <3>1. l \in 1 .. len /\ l + 1 \in 1 .. len
        BY <1>1
      <3>2. d[l] = IF l < k THEN c[l] ELSE c[l + 1]
        OBVIOUS
      <3> HIDE DEF d
      <3> QED
        BY <1>3, <1>9, <2>2, <3>1, <3>2
    <2> HIDE DEF d
    <2> QED
      BY <1>3, <1>9, <1>11, <2>3, <2>4 DEF Weighed, Weighs, Counted
  <1>13. WithinBounds'
    <2>1. len <= ReadConcurrency /\ ReadConcurrency \in Nat /\ ReadBytesBound \in Nat
      BY <1>1, BlobReadsAssumption DEF WithinBounds
    <2>2. ASSUME len - 1 > 1, NEW l \in 1 .. len - 1
          PROVE  (len - 1) * reads'.outstanding[l] <= ReadBytesBound
      <3>1. PICK o \in 1 .. len : reads'.outstanding[l] = out[o]
        <4>1. l \in 1 .. len /\ l + 1 \in 1 .. len
          BY <1>1
        <4> QED
          BY <1>3, <1>9, <4>1
      <3>2. len * out[o] <= ReadBytesBound /\ out[o] \in Nat
        <4>1. len > 1
          BY <1>1, <2>2
        <4> QED
          BY <1>1, <4>1 DEF WithinBounds
      <3>3. len - 1 \in Nat /\ len - 1 <= len
        BY <1>1, <2>2
      <3> HIDE DEF len, out
      <3>4. (len - 1) * out[o] <= len * out[o]
        BY <1>1, <3>2, <3>3, TimesAtMost
      <3>5. (len - 1) * out[o] \in Nat /\ len * out[o] \in Nat
        BY <1>1, <3>2, <3>3
      <3> QED
        BY <2>1, <3>1, <3>2, <3>4, <3>5
    <2>3. Len(reads'.outstanding) = len - 1
      BY <1>3, <1>9
    <2> HIDE DEF len
    <2> QED
      BY <1>1, <2>1, <2>2, <2>3 DEF WithinBounds
  <1>14. HoldsCounted'
    BY <1>1, <1>3, <1>4 DEF HoldsCounted, Counted
  <1>15. TurnHolds'
    BY <1>1, <1>3, <1>4, <1>11 DEF TurnHolds
  <1>16. AnswersHold'
    BY <1>1, <1>3, <1>4 DEF AnswersHold
  <1> QED
    BY <1>10, <1>12, <1>13, <1>14, <1>15, <1>16 DEF BlobInv

\* A read refused at its joining ends the turn and changes nothing else.
LEMMA BlobJoinRefused ==
  ASSUME BlobInv, NEW i \in DOMAIN reads.task, JoinRefused(i)
  PROVE  BlobInv'
  <1>1. /\ BlobTypes /\ Weighed /\ WithinBounds /\ HoldsCounted /\ TurnHolds /\ AnswersHold
        /\ DOMAIN reads = {"list", "base", "turn", "singly", "task", "outstanding", "hold", "room",
                       "free", "files", "answers", "unheld", "at"}
    BY DEF BlobInv, BlobTypes
  <1>2. /\ reads'.list = reads.list /\ reads'.base = reads.base /\ reads'.turn = reads.turn
        /\ reads'.singly = reads.singly /\ reads'.room = reads.room /\ reads'.task = reads.task
        /\ reads'.unheld = reads.unheld /\ reads'.files = reads.files
        /\ reads'.hold = reads.hold /\ reads'.free = reads.free
        /\ DOMAIN reads' = DOMAIN reads
        /\ reads'.outstanding = reads.outstanding /\ reads'.answers = reads.answers
        /\ reads.task[i] \in {"unheld", "failed"}
        /\ reads'.at = IF reads.task[i] = "unheld" THEN "unheld" ELSE "refused"
    BY <1>1 DEF JoinRefused
  <1>3. BlobWants' = BlobWants /\ BlobOut' = BlobOut
    BY <1>2 DEF BlobWants, BlobOut, Tasks
  <1>4. BlobTypes' /\ Weighed' /\ WithinBounds' /\ HoldsCounted' /\ AnswersHold'
    BY <1>1, <1>2, <1>3
       DEF BlobTypes, Weighed, Weighs, WithinBounds, HoldsCounted, AnswersHold, Counted
  <1>5. i \in reads.turn
    <2>1. i \in BlobWants /\ BlobOut = {j \in BlobWants : reads.task[j] # "none"} \ reads.answers
      BY <1>1, BlobShape
    <2>2. i \notin reads.answers
      BY <1>1, <1>2 DEF AnswersHold
    <2> QED
      BY <1>1, <1>2, <2>1, <2>2 DEF TurnHolds
  <1>6. TurnHolds'
    BY <1>1, <1>2, <1>3, <1>5 DEF TurnHolds
  <1> QED
    BY <1>4, <1>6 DEF BlobInv

\* A turn whose reads are joined ends, or is taken up one read at a time.
LEMMA BlobAllJoined ==
  ASSUME BlobInv, AllJoined
  PROVE  BlobInv'
  <1> DEFINE unread == (1 .. Len(reads.list)) \ (reads.turn \cup reads.answers \cup reads.unheld)
             ends == ~reads.singly \/ unread = {}
  <1>1. /\ BlobTypes /\ Weighed /\ WithinBounds /\ HoldsCounted /\ TurnHolds /\ AnswersHold
        /\ DOMAIN reads = {"list", "base", "turn", "singly", "task", "outstanding", "hold", "room",
                       "free", "files", "answers", "unheld", "at"}
        /\ reads.answers \in SUBSET BlobWants /\ reads.turn \in SUBSET BlobWants
        /\ reads.unheld \in SUBSET BlobWants /\ Len(reads.list) \in Nat
    BY BlobShape DEF BlobInv, BlobTypes
  <1>2. BlobOut = {}
    BY <1>1 DEF TurnHolds, BlobOut, AllJoined
  <1>3. /\ reads'.list = reads.list /\ reads'.base = reads.base
        /\ reads'.singly = reads.singly /\ reads'.room = reads.room /\ reads'.task = reads.task
        /\ reads'.unheld = reads.unheld /\ reads'.files = reads.files
        /\ reads'.hold = reads.hold /\ reads'.free = reads.free
        /\ DOMAIN reads' = DOMAIN reads
        /\ reads'.outstanding = reads.outstanding /\ reads'.answers = reads.answers
        /\ reads'.at = (IF ends THEN "answered" ELSE reads.at)
        /\ reads'.turn = IF ends THEN reads.turn ELSE {Min(unread)}
        /\ reads.at = "reading" /\ reads.turn \subseteq reads.answers
    BY <1>1 DEF AllJoined
  <1>4. ~ends => Min(unread) \in unread
    <2>1. unread \in SUBSET (1 .. Len(reads.list)) /\ (~ends => unread # {})
      OBVIOUS
    <2> HIDE DEF unread, ends
    <2> QED
      BY <1>1, <2>1, LeastOf
  <1>5. BlobWants' = BlobWants /\ BlobOut' = BlobOut
    BY <1>3 DEF BlobWants, BlobOut, Tasks
  <1>6. unread \in SUBSET BlobWants
    BY DEF BlobWants
  <1>7. ends /\ reads.singly => BlobWants = reads.turn \cup reads.answers \cup reads.unheld
    BY <1>1 DEF BlobWants
  <1> HIDE DEF ends, unread
  <1>8. BlobTypes'
    <2>1. reads'.turn \in SUBSET BlobWants
      BY <1>1, <1>3, <1>4, <1>6
    <2>2. reads'.at \in {"reading", "answered"}
      BY <1>3
    <2> QED
      BY <1>1, <1>3, <1>5, <2>1, <2>2 DEF BlobTypes
  <1>9. Weighed' /\ WithinBounds' /\ HoldsCounted'
    BY <1>1, <1>3, <1>5 DEF Weighed, Weighs, WithinBounds, HoldsCounted, Counted
  <1>10. TurnHolds'
    <2>1. ~ends => reads.singly
      BY DEF ends
    <2>2. ~ends => Min(unread) \in BlobWants
      BY <1>4, <1>6
    <2> QED
      BY <1>1, <1>2, <1>3, <1>5, <2>1, <2>2 DEF TurnHolds
  <1>11. AnswersHold'
    <2>1. ends => reads.answers \cup reads.unheld = BlobWants
      BY <1>1, <1>3, <1>7 DEF TurnHolds
    <2> QED
      BY <1>1, <1>3, <1>5, <2>1 DEF AnswersHold
  <1> QED
    BY <1>8, <1>9, <1>10, <1>11 DEF BlobInv

\* A refused run ends when nothing of it is under way.
LEMMA BlobRefusedEnds ==
  ASSUME BlobInv, EndRefused
  PROVE  BlobInv'
  <1> DEFINE sent == {i \in reads.turn : reads.task[i] # "none"}
             mine == MapThenSumSet(LAMBDA i : reads.hold[i], sent)
             r == GiveBack(reads)
             unheld == IF r.singly THEN r.unheld \cup r.turn ELSE r.unheld
             unread == (1 .. Len(r.list)) \ (unheld \cup r.answers)
             fails == ~r.base \/ r.at = "refused"
  <1>1. /\ BlobTypes /\ Weighed /\ WithinBounds /\ HoldsCounted /\ TurnHolds /\ AnswersHold
        /\ DOMAIN reads = {"list", "base", "turn", "singly", "task", "outstanding", "hold", "room",
                       "free", "files", "answers", "unheld", "at"}
        /\ reads.answers \in SUBSET BlobWants /\ reads.turn \in SUBSET BlobWants
        /\ reads.files \in SUBSET BlobWants
        /\ reads.unheld \in SUBSET BlobWants /\ Len(reads.list) \in Nat
        /\ reads.task \in [BlobWants -> {"none"} \cup Running \cup Ended]
        /\ reads.hold \in [BlobWants -> Nat] /\ reads.free \in Nat /\ reads.room \in Nat
    BY BlobShape DEF BlobInv, BlobTypes
  <1>2. /\ IsFiniteSet(BlobWants) /\ BlobOut \subseteq BlobWants
        /\ BlobOut = {j \in BlobWants : reads.task[j] # "none"} \ reads.answers
    BY <1>1, BlobShape
  <1>3. \A i \in BlobWants : reads.task[i] \notin Running
    BY <1>1 DEF EndRefused, Drained, Tasks
  <1>4. /\ DOMAIN r = DOMAIN reads /\ r.list = reads.list /\ r.base = reads.base /\ r.turn = reads.turn
        /\ r.singly = reads.singly /\ r.room = reads.room /\ r.unheld = reads.unheld /\ r.at = reads.at
        /\ r.free = reads.free + mine /\ r.files = reads.files \ sent
        /\ r.answers = reads.answers \ sent /\ r.outstanding = <<>>
        /\ r.hold = [i \in BlobWants |-> IF i \in sent THEN 0 ELSE reads.hold[i]]
        /\ r.task = [i \in BlobWants |-> IF i \in sent THEN "none" ELSE reads.task[i]]
    <2>1. \A i \in BlobWants :
            (IF i \in sent /\ reads.task[i] \notin Running THEN "none" ELSE reads.task[i])
              = (IF i \in sent THEN "none" ELSE reads.task[i])
      BY <1>3
    <2>2. r = [reads EXCEPT !.free = @ + mine, !.files = @ \ sent, !.answers = @ \ sent,
                 !.outstanding = <<>>,
                 !.hold = [i \in DOMAIN @ |-> IF i \in sent THEN 0 ELSE @[i]],
                 !.task = [i \in DOMAIN @ |->
                             IF i \in sent /\ @[i] \notin Running THEN "none" ELSE @[i]]]
      BY DEF GiveBack
    <2> HIDE DEF r, mine, sent
    <2>3. r.task = [i \in BlobWants |->
                      IF i \in sent /\ reads.task[i] \notin Running THEN "none" ELSE reads.task[i]]
      BY <1>1, <2>2
    <2> QED
      BY <1>1, <2>1, <2>2, <2>3
  <1>5. mine = Sum(reads.hold, sent) /\ sent \in SUBSET BlobWants
    <2>1. sent \in SUBSET BlobWants
      BY <1>1
    <2>2. IsFiniteSet(sent)
      <3> HIDE DEF sent
      <3> QED
        BY <1>2, <2>1, FS_Subset
    <2> HIDE DEF sent
    <2>3. MapThenSumSet(LAMBDA i : reads.hold[i], sent) = Sum(reads.hold, sent)
      BY <2>2, FoldIsSum
    <2> QED
      BY <2>1, <2>3
  <1>6. /\ reads.at \in {"unheld", "refused"} /\ (fails => reads' = [r EXCEPT !.at = "failed"])
        /\ ~fails /\ unread = {} =>
             reads' = [r EXCEPT !.singly = TRUE, !.unheld = unheld, !.at = "answered"]
        /\ ~fails /\ unread # {} =>
             reads' = [r EXCEPT !.singly = TRUE, !.unheld = unheld, !.at = "reading",
                                !.turn = {Min(unread)}]
    BY <1>4 DEF EndRefused
  <1>7. unread # {} => Min(unread) \in unread
    <2>1. unread \in SUBSET (1 .. Len(reads.list))
      BY <1>4
    <2> HIDE DEF unread
    <2> QED
      BY <1>1, <2>1, LeastOf
  <1>8. unread \in SUBSET BlobWants /\ (unread = {} => BlobWants = unheld \cup r.answers)
    <2>1. unheld \in SUBSET BlobWants /\ r.answers \in SUBSET BlobWants
      BY <1>1, <1>4
    <2> QED
      BY <1>4, <2>1 DEF BlobWants
  <1>9. /\ unheld \in SUBSET BlobWants /\ \A i \in unheld : ~fails => ~reads.list[i].here
        /\ (reads.singly \/ unheld = reads.unheld)
    <2>1. unheld = IF reads.singly THEN reads.unheld \cup reads.turn ELSE reads.unheld
      BY <1>4
    <2>2. ASSUME reads.singly, ~fails
          PROVE  \A i \in reads.turn : ~reads.list[i].here
      <3>1. reads.at = "unheld"
        BY <1>4, <1>6, <2>2
      <3> QED
        BY <1>1, <2>2, <3>1 DEF TurnHolds, AnswersHold
    <2> HIDE DEF unheld, fails
    <2> QED
      BY <1>1, <2>1, <2>2 DEF AnswersHold
  <1> HIDE DEF unread, unheld, fails, r, mine
  <1>10. /\ DOMAIN reads' = DOMAIN reads /\ reads'.list = r.list /\ reads'.base = r.base
         /\ reads'.room = r.room /\ reads'.outstanding = r.outstanding
         /\ reads'.free = r.free /\ reads'.files = r.files /\ reads'.answers = r.answers
         /\ reads'.hold = r.hold /\ reads'.task = r.task
         /\ \/ /\ fails /\ reads'.turn = r.turn /\ reads'.singly = r.singly
               /\ reads'.unheld = r.unheld /\ reads'.at = "failed"
            \/ /\ ~fails /\ unread = {} /\ reads'.turn = r.turn /\ reads'.singly = TRUE
               /\ reads'.unheld = unheld /\ reads'.at = "answered"
            \/ /\ ~fails /\ unread # {} /\ reads'.turn = {Min(unread)} /\ reads'.singly = TRUE
               /\ reads'.unheld = unheld /\ reads'.at = "reading"
    <2>1. DOMAIN r = {"list", "base", "turn", "singly", "task", "outstanding", "hold", "room",
                       "free", "files", "answers", "unheld", "at"}
      BY <1>1, <1>4
    <2>2. CASE fails
      BY <1>4, <1>6, <2>1, <2>2
    <2>3. CASE ~fails /\ unread = {}
      <3>1. reads' = [r EXCEPT !.singly = TRUE, !.unheld = unheld, !.at = "answered"]
        BY <1>6, <2>3
      <3>2. /\ DOMAIN reads' = DOMAIN r /\ reads'.list = r.list /\ reads'.base = r.base
            /\ reads'.room = r.room /\ reads'.outstanding = r.outstanding
            /\ reads'.free = r.free /\ reads'.files = r.files /\ reads'.answers = r.answers
            /\ reads'.hold = r.hold /\ reads'.task = r.task
        BY <2>1, <3>1
      <3>3. /\ reads'.turn = r.turn /\ reads'.singly = TRUE
            /\ reads'.unheld = unheld /\ reads'.at = "answered"
        BY <2>1, <3>1
      <3> QED
        BY <1>4, <2>3, <3>2, <3>3
    <2>4. CASE ~fails /\ unread # {}
      <3>1. reads' = [r EXCEPT !.singly = TRUE, !.unheld = unheld, !.at = "reading",
                               !.turn = {Min(unread)}]
        BY <1>6, <2>4
      <3>2. /\ DOMAIN reads' = DOMAIN r /\ reads'.list = r.list /\ reads'.base = r.base
            /\ reads'.room = r.room /\ reads'.outstanding = r.outstanding
            /\ reads'.free = r.free /\ reads'.files = r.files /\ reads'.answers = r.answers
            /\ reads'.hold = r.hold /\ reads'.task = r.task
        BY <2>1, <3>1
      <3>3. /\ reads'.turn = {Min(unread)} /\ reads'.singly = TRUE
            /\ reads'.unheld = unheld /\ reads'.at = "reading"
        BY <2>1, <3>1
      <3> QED
        BY <1>4, <2>4, <3>2, <3>3
    <2> QED
      BY <2>2, <2>3, <2>4
  <1>11. /\ DOMAIN reads' = DOMAIN reads /\ reads'.list = reads.list /\ reads'.base = reads.base
         /\ reads'.room = reads.room /\ reads'.outstanding = <<>>
         /\ reads'.free = reads.free + mine /\ reads'.files = reads.files \ sent
         /\ reads'.answers = reads.answers \ sent
         /\ reads'.hold = [i \in BlobWants |-> IF i \in sent THEN 0 ELSE reads.hold[i]]
         /\ reads'.task = [i \in BlobWants |-> IF i \in sent THEN "none" ELSE reads.task[i]]
         /\ \/ /\ fails /\ reads'.turn = reads.turn /\ reads'.singly = reads.singly
               /\ reads'.unheld = reads.unheld /\ reads'.at = "failed"
            \/ /\ ~fails /\ unread = {} /\ reads'.turn = reads.turn /\ reads'.singly = TRUE
               /\ reads'.unheld = unheld /\ reads'.at = "answered"
            \/ /\ ~fails /\ unread # {} /\ reads'.turn = {Min(unread)} /\ reads'.singly = TRUE
               /\ reads'.unheld = unheld /\ reads'.at = "reading"
    BY <1>4, <1>10
  <1>12. BlobWants' = BlobWants
    BY <1>11 DEF BlobWants
  <1>13. ~fails => reads.base
    BY <1>4 DEF fails
  <1>14. mine \in Nat /\ reads.free + mine + Sum(reads'.hold, BlobWants) = reads.room
    <2>1. \A i \in BlobWants : reads.hold[i] \in Nat /\ reads'.hold[i] = (IF i \in sent THEN 0 ELSE reads.hold[i])
      BY <1>1, <1>11
    <2> HIDE DEF sent
    <2>2. IsFiniteSet(sent) /\ IsFiniteSet(BlobWants \ sent)
      BY <1>2, <1>5, FS_Subset
    <2>3. Sum(reads.hold, BlobWants) = mine + Sum(reads.hold, BlobWants \ sent)
      BY <1>2, <1>5, <2>1, SumSplit
    <2>4. \A i \in BlobWants : reads'.hold[i] \in Nat
      BY <2>1
    <2>5. Sum(reads'.hold, BlobWants) = Sum(reads'.hold, sent) + Sum(reads'.hold, BlobWants \ sent)
      BY <1>2, <1>5, <2>4, SumSplit
    <2>6. Sum(reads'.hold, sent) = 0
      <3>1. \A i \in sent : reads'.hold[i] = 0
        BY <1>5, <2>1
      <3> QED
        BY <2>2, <3>1, SumZero
    <2>7. Sum(reads'.hold, BlobWants \ sent) = Sum(reads.hold, BlobWants \ sent)
      <3>1. \A i \in BlobWants \ sent : reads'.hold[i] = reads.hold[i]
        BY <2>1
      <3> QED
        BY <2>2, <3>1, SumSame
    <2>8. Sum(reads.hold, BlobWants \ sent) \in Nat /\ Sum(reads.hold, sent) \in Nat
      <3>1. (\A i \in sent : reads.hold[i] \in Nat) /\ \A i \in BlobWants \ sent : reads.hold[i] \in Nat
        BY <1>5, <2>1
      <3> QED
        BY <2>2, <3>1, SumTaken
    <2>9. reads.free + Sum(reads.hold, BlobWants) = reads.room
      BY <1>1 DEF HoldsCounted
    <2> QED
      BY <1>1, <1>5, <2>3, <2>5, <2>6, <2>7, <2>8, <2>9
  <1>15. BlobTypes'
    <2>1. /\ reads'.task \in [BlobWants -> {"none"} \cup Running \cup Ended]
          /\ reads'.hold \in [BlobWants -> Nat] /\ reads'.free \in Nat
          /\ reads'.outstanding \in Seq(Nat)
      <3>1. reads'.free \in Nat /\ reads'.outstanding \in Seq(Nat)
        BY <1>1, <1>11, <1>14
      <3> QED
        BY <1>1, <1>11, <3>1
    <2>2. /\ reads'.turn \in SUBSET BlobWants /\ reads'.unheld \in SUBSET BlobWants
          /\ reads'.singly \in BOOLEAN
          /\ reads'.at \in {"reading", "unheld", "refused", "failed", "answered"}
      BY <1>1, <1>7, <1>8, <1>9, <1>11 DEF BlobTypes
    <2>3. reads'.files \in SUBSET BlobWants /\ reads'.answers \in SUBSET BlobWants
      BY <1>1, <1>11
    <2> QED
      BY <1>1, <1>11, <1>12, <2>1, <2>2, <2>3 DEF BlobTypes
  <1>16. BlobOut' = {}
    <2>1. BlobOut' = {j \in BlobWants' : reads'.task[j] # "none"} \ reads'.answers
      <3>1. reads'.task \in [BlobWants' -> {"none"} \cup Running \cup Ended]
        BY <1>15 DEF BlobTypes
      <3>2. {j \in DOMAIN reads'.task : reads'.task[j] \in Running \cup Ended}
              = {j \in BlobWants' : reads'.task[j] # "none"}
        BY <3>1, TaskOut
      <3> QED
        BY <3>2 DEF BlobOut, Tasks
    <2>2. ASSUME NEW j \in BlobWants, reads'.task[j] # "none", j \notin reads'.answers
          PROVE  FALSE
      <3>1. j \notin sent /\ reads.task[j] # "none"
        BY <1>11, <2>2
      <3>2. j \notin reads.answers
        BY <1>11, <2>2, <3>1
      <3>3. j \in reads.turn
        BY <1>1, <1>2, <3>1, <3>2 DEF TurnHolds
      <3> QED
        BY <3>1, <3>3
    <2> QED
      BY <1>12, <2>1, <2>2
  <1>17. Weighed'
    <2>1. <<>> \in Bijection({}, {}) /\ 1 .. 0 = {}
      BY DEF Bijection, Injection, Surjection, IsInjective
    <2>2. Len(reads'.outstanding) = 0
      BY <1>11
    <2> QED
      BY <1>11, <1>16, <2>1, <2>2 DEF Weighed, Weighs
  <1>18. WithinBounds'
    <2>1. Len(reads'.outstanding) = 0
      BY <1>11
    <2> QED
      BY <2>1, BlobReadsAssumption DEF WithinBounds
  <1>19. HoldsCounted'
    <2>1. \A i \in BlobWants :
            /\ reads'.hold[i] = (IF i \in sent THEN 0 ELSE reads.hold[i])
            /\ reads'.task[i] = (IF i \in sent THEN "none" ELSE reads.task[i])
      BY <1>11
    <2> HIDE DEF sent
    <2> QED
      BY <1>1, <1>11, <1>12, <1>14, <2>1 DEF HoldsCounted, Counted
  <1>20. TurnHolds'
    <2>1. ~fails /\ unread = {} => \E i \in BlobWants : reads'.turn = {i}
      <3>1. ASSUME ~fails, unread = {}, ~reads.singly
            PROVE  FALSE
        <4>1. reads.at = "unheld" /\ reads.unheld = {}
          BY <1>1, <1>4, <1>6, <3>1 DEF fails, TurnHolds
        <4>2. PICK i \in reads.turn : reads.task[i] = "unheld"
          BY <1>1, <4>1 DEF TurnHolds
        <4>3. i \in BlobWants /\ i \notin reads.answers
          BY <1>1, <4>2 DEF AnswersHold
        <4>4. unheld = {} /\ r.answers \subseteq reads.answers
          BY <1>4, <1>9, <3>1, <4>1
        <4> QED
          BY <1>8, <3>1, <4>3, <4>4
      <3> QED
        BY <1>1, <1>11, <3>1 DEF TurnHolds
    <2> QED
      BY <1>1, <1>7, <1>8, <1>11, <1>12, <1>13, <1>16, <2>1 DEF TurnHolds
  <1>21. AnswersHold'
    <2>1. \A i \in BlobWants :
            /\ reads'.task[i] = (IF i \in sent THEN "none" ELSE reads.task[i])
      BY <1>11
    <2>2. reads'.answers \subseteq BlobWants /\ reads'.unheld \subseteq BlobWants
      BY <1>15, <1>12 DEF BlobTypes
    <2>3. \A i \in reads'.unheld : ~reads'.list[i].here
      BY <1>1, <1>9, <1>11 DEF AnswersHold
    <2>4. reads'.at = "answered" => reads'.answers \cup reads'.unheld = BlobWants
      <3>1. r.answers = reads'.answers
        BY <1>4, <1>11
      <3> QED
        BY <1>8, <1>11, <3>1
    <2> HIDE DEF sent
    <2> QED
      BY <1>1, <1>11, <1>12, <2>1, <2>2, <2>3, <2>4 DEF AnswersHold
  <1> QED
    BY <1>15, <1>17, <1>18, <1>19, <1>20, <1>21 DEF BlobInv

\* A step of another machine.
LEMMA BlobStutters == BlobInv /\ UNCHANGED reads => BlobInv'
  <1> SUFFICES ASSUME BlobInv, UNCHANGED reads PROVE BlobInv'
    OBVIOUS
  <1>1. BlobWants' = BlobWants /\ BlobOut' = BlobOut
    BY DEF BlobWants, BlobOut, Tasks
  <1>2. BlobTypes' /\ HoldsCounted' /\ TurnHolds' /\ AnswersHold' /\ WithinBounds'
    BY <1>1 DEF BlobInv, BlobTypes, WithinBounds, HoldsCounted, TurnHolds, AnswersHold, Counted
  <1>3. Weighed'
    BY <1>1 DEF BlobInv, Weighed, Weighs, Counted
  <1> QED
    BY <1>2, <1>3 DEF BlobInv

\* Every step keeps the invariant.
LEMMA BlobSteps == BlobInv /\ [BlobReadsNext]_reads => BlobInv'
  <1> SUFFICES ASSUME BlobInv, [BlobReadsNext]_reads
               PROVE  BlobInv'
    OBVIOUS
  <1>1. CASE UNCHANGED reads
    BY <1>1, BlobStutters
  <1>2. CASE SpawnRead
    BY <1>2, BlobSpawns
  <1>3. CASE AllJoined
    BY <1>3, BlobAllJoined
  <1>4. CASE EndRefused
    BY <1>4, BlobRefusedEnds
  <1>5. CASE \E i \in DOMAIN reads.task :
               \/ HoldAnswered(i) \/ OpenStaged(i) \/ StartAfresh(i) \/ StageAnswered(i)
               \/ ReadRefused(i) \/ Abandon(i)
    BY <1>5, BlobReadsOn
  <1>6. CASE \E i \in DOMAIN reads.task : JoinBlob(i)
    BY <1>6, BlobJoins
  <1>7. CASE \E i \in DOMAIN reads.task : JoinRefused(i)
    BY <1>7, BlobJoinRefused
  <1> QED
    BY <1>1, <1>2, <1>3, <1>4, <1>5, <1>6, <1>7 DEF BlobReadsNext

\* What is outstanding and what is held keep within their bounds.
LEMMA BlobInvBounds == BlobInv => ReadsAreBounded
  <1> SUFFICES ASSUME BlobInv PROVE ReadsAreBounded
    OBVIOUS
  <1> DEFINE out == Tasks(Running \cup Ended) \ reads.answers
             counts == [i \in BlobWants |-> Counted(reads.list[i])]
             weights == {0} \cup {Counted(reads.list[i]) : i \in out}
             weight == Max(weights)
             stands(i) == IF reads.task[i] = "held" THEN reads.list[i].len
                          ELSE Counted(reads.list[i])
             holders == Tasks({"holding", "held"})
             len == Len(reads.outstanding)
  <1>1. /\ BlobTypes /\ WithinBounds /\ HoldsCounted
        /\ reads.outstanding \in Seq(Nat) /\ len \in Nat /\ reads.room \in Nat /\ reads.free \in Nat
    BY DEF BlobInv, BlobTypes
  <1>2. /\ IsFiniteSet(BlobWants) /\ DOMAIN reads.task = BlobWants
        /\ \A i \in BlobWants : /\ reads.list[i] \in WantType /\ Counted(reads.list[i]) \in Nat
                                /\ reads.hold[i] \in Nat
        /\ out \subseteq BlobWants /\ out = BlobOut
    BY <1>1, BlobShape DEF BlobOut
  <1>3. PICK b \in Bijection(1 .. len, out) : Weighs(b)
    BY <1>2 DEF BlobInv, Weighed
  <1> HIDE DEF out
  <1>4. IsFiniteSet(out) /\ Cardinality(out) = len
    <2>1. ExistsBijection(1 .. len, out)
      BY <1>3 DEF ExistsBijection
    <2> HIDE DEF len
    <2>2. Cardinality(out) = len
      BY <1>1, <2>1, FS_CountingElements
    <2> QED
      BY <1>2, <2>2, FS_Subset
  <1>5. weight \in weights /\ weights \subseteq Nat
    <2>1. {Counted(reads.list[i]) : i \in out} = {counts[i] : i \in out}
      BY <1>2
    <2>2. IsFiniteSet({counts[i] : i \in out})
      <3> HIDE DEF counts
      <3> QED
        BY <1>4, ImageIsFinite
    <2>3. /\ weights = {Counted(reads.list[i]) : i \in out} \cup {0}
          /\ weights \in SUBSET Nat /\ weights # {}
      BY <1>2
    <2> HIDE DEF counts, weights
    <2>4. IsFiniteSet(weights)
      BY <2>1, <2>2, <2>3, FS_AddElement
    <2> QED
      BY <2>3, <2>4, GreatestOf
  <1>6. ASSUME len > 1
        PROVE  len * weight <= ReadBytesBound
    <2>1. ReadBytesBound \in Nat
      BY BlobReadsAssumption
    <2>2. CASE weight = 0
      <3>1. len * 0 = 0
        BY <1>1
      <3> HIDE DEF len, weight
      <3> QED
        BY <2>1, <2>2, <3>1
    <2>3. CASE weight \in {Counted(reads.list[i]) : i \in out}
      <3>1. PICK i \in out : weight = Counted(reads.list[i])
        BY <2>3
      <3>2. PICK k \in 1 .. len : b[k] = i
        BY <1>3 DEF Bijection, Surjection
      <3>3. reads.outstanding[k] = weight
        BY <1>3, <3>1, <3>2 DEF Weighs
      <3> QED
        BY <1>1, <1>6, <3>3 DEF WithinBounds
    <2> QED
      BY <1>5, <2>2, <2>3
  <1>7. MapThenSumSet(stands, holders) <= reads.room
    <2>1. holders \in SUBSET BlobWants /\ \A i \in holders : reads.task[i] \in {"holding", "held"}
      BY <1>2 DEF Tasks
    <2>2. IsFiniteSet(holders)
      <3> HIDE DEF holders
      <3> QED
        BY <1>2, <2>1, FS_Subset
    <2>3. \A i \in holders : stands(i) \in Nat /\ stands(i) <= reads.hold[i] /\ reads.hold[i] \in Nat
      <3> TAKE i \in holders
      <3>1. i \in BlobWants /\ reads.task[i] \in {"holding", "held"}
        BY <2>1
      <3>2. reads.list[i].len \in Nat /\ Counted(reads.list[i]) \in Nat /\ reads.hold[i] \in Nat
        BY <1>2, <3>1 DEF WantType
      <3> QED
        BY <1>1, <3>1, <3>2 DEF HoldsCounted
    <2> HIDE DEF holders
    <2> DEFINE w == [i \in holders |-> stands(i)]
    <2>4. MapThenSumSet(stands, holders) = Sum(w, holders)
      <3> DEFINE step(g) == [s \in SUBSET holders |-> IF s = {} THEN 0
                              ELSE stands(CHOOSE x \in s : TRUE) + g[s \ {CHOOSE x \in s : TRUE}]]
                 once(g) == [s \in SUBSET holders |-> IF s = {} THEN 0
                              ELSE w[First(s)] + g[s \ {First(s)}]]
      <3>1. \A s \in SUBSET holders : s # {} => w[First(s)] = stands(CHOOSE x \in s : TRUE)
        <4> TAKE s \in SUBSET holders
        <4> HAVE s # {}
        <4>1. First(s) \in holders /\ First(s) = CHOOSE x \in s : TRUE
          BY FirstIsIn DEF First
        <4> HIDE DEF stands
        <4> QED
          BY <4>1
      <3>2. \A g : Summed(g, w, holders) <=> g = step(g)
        <4> TAKE g
        <4>1. once(g) = step(g)
          <5> HIDE DEF w, stands
          <5> QED
            BY <3>1 DEF First
        <4> QED
          BY <4>1 DEF Summed
      <3>3. SumsOf(w, holders) = CHOOSE g : g = step(g)
        BY <3>2 DEF SumsOf
      <3> QED
        BY <3>3 DEF MapThenSumSet, MapThenFoldSet, Sum
    <2>5. \A i \in holders : w[i] = stands(i)
      OBVIOUS
    <2> HIDE DEF w, stands
    <2>6. Sum(w, holders) <= Sum(reads.hold, holders)
      BY <2>2, <2>3, <2>5, SumAtMost
    <2>7. Sum(reads.hold, holders) <= Sum(reads.hold, BlobWants)
      <3>1. \A i \in BlobWants : reads.hold[i] \in Nat
        BY <1>2
      <3> QED
        BY <1>2, <2>1, <3>1, SumPart
    <2>8. /\ Sum(w, holders) \in Nat /\ Sum(reads.hold, holders) \in Nat
          /\ Sum(reads.hold, BlobWants) \in Nat
      <3>1. \A i \in BlobWants : reads.hold[i] \in Nat
        BY <1>2
      <3>2. (\A i \in holders : w[i] \in Nat) /\ \A i \in holders : reads.hold[i] \in Nat
        BY <2>3, <2>5
      <3> QED
        BY <1>2, <2>2, <3>1, <3>2, SumTaken
    <2>9. reads.free + Sum(reads.hold, BlobWants) = reads.room
      BY <1>1 DEF HoldsCounted
    <2> QED
      BY <1>1, <2>4, <2>6, <2>7, <2>8, <2>9
  <1>8. len <= ReadConcurrency
    BY <1>1 DEF WithinBounds
  <1> HIDE DEF weight, stands, holders, len
  <1> QED
    BY <1>4, <1>6, <1>7, <1>8 DEF ReadsAreBounded, out, weight, weights, stands, holders

\* A run that ended refused has left no file behind.
LEMMA BlobInvLeaves == BlobInv => RefusalLeavesNothing
  <1> SUFFICES ASSUME BlobInv PROVE RefusalLeavesNothing
    OBVIOUS
  <1>1. /\ BlobTypes /\ TurnHolds /\ AnswersHold
        /\ reads.answers \subseteq BlobWants /\ reads.unheld \subseteq BlobWants
        /\ reads.files \subseteq BlobWants
        /\ BlobOut = {j \in BlobWants : reads.task[j] # "none"} \ reads.answers
    BY BlobShape DEF BlobInv, BlobTypes
  <1>2. reads.at \in {"failed", "answered"} => reads.files \subseteq reads.answers
    <2>1. ASSUME reads.at \in {"failed", "answered"}, NEW i \in reads.files
          PROVE  i \in reads.answers
      <3>1. i \in BlobWants /\ reads.task[i] # "none"
        BY <1>1, <2>1 DEF AnswersHold
      <3> QED
        BY <1>1, <2>1, <3>1 DEF TurnHolds
    <2> QED
      BY <2>1
  <1>3. ASSUME reads.at = "answered"
        PROVE  /\ reads.unheld = {i \in BlobWants : ~reads.list[i].here}
               /\ reads.answers = {i \in BlobWants : reads.list[i].here}
    <2>1. \A i \in reads.answers : reads.list[i].here
      BY <1>1 DEF AnswersHold
    <2>2. \A i \in reads.unheld : ~reads.list[i].here
      BY <1>1 DEF AnswersHold
    <2>3. reads.answers \cup reads.unheld = BlobWants
      BY <1>1, <1>3 DEF AnswersHold
    <2> QED
      BY <1>1, <2>1, <2>2, <2>3
  <1> QED
    BY <1>2, <1>3 DEF RefusalLeavesNothing, BlobWants

(* The content reads of a convergence stay within their number, their bytes *)
(* and the room of the run's holds at every step, and whatever ends them    *)
(* nothing of what was refused stands in a file or in memory, however many  *)
(* paths are wanted and however heavy (converge.rs 604 to 726).             *)
THEOREM BlobsBounded == BlobReadsSpec => []BoundedAndReleased
  <1>1. BlobInv => BoundedAndReleased
    BY BlobInvBounds, BlobInvLeaves DEF BoundedAndReleased
  <1> QED
    BY <1>1, BlobStarts, BlobSteps, PTL DEF BlobReadsSpec

-----------------------------------------------------------------------------
(***************************************************************************)
(* Reading many paths one request each.  Paths are spawned in the order    *)
(* first asked, each path that ended of itself has its size in the ledger, *)
(* and the cut, once it falls, moves no later.                             *)
(***************************************************************************)
RawOutcomes == {"not run", "read", "failed", "run-wide", "deferred"}
RawTypes ==
    /\ DOMAIN raw = {"mode", "task", "outcome", "sends", "sizes", "stopped", "over"}
    /\ raw.mode \in RawModes
    /\ raw.task \in [Paths -> TaskStates] /\ raw.outcome \in [Paths -> RawOutcomes]
    /\ DOMAIN raw.sizes \subseteq Paths /\ \A d \in DOMAIN raw.sizes : raw.sizes[d] \in Nat
    /\ raw.stopped \in BOOLEAN /\ raw.over \in BOOLEAN

\* Sent, and neither ended nor given up on.
RawUnderWay(d) == raw.task[d] \in {"sent", "gate", "body"}
\* A read the run's stop cancelled.
RawDropped(d) == raw.task[d] = "cancelled" \/ (raw.task[d] = "joined" /\ raw.outcome[d] = "not run")

SentInOrder == \A d, e \in Paths : e < d /\ raw.task[d] # "unsent" => raw.task[e] # "unsent"
OutcomesTell ==
    \A d \in Paths :
        /\ raw.task[d] \notin {"finished", "joined"} => raw.outcome[d] = "not run"
        /\ raw.task[d] = "finished" => raw.outcome[d] # "not run"
SizesTold ==
    \A d \in Paths :
        /\ raw.task[d] = "gate" => Gated /\ d \in DOMAIN raw.sizes
        /\ Gated /\ raw.task[d] = "joined" /\ ~RawDropped(d) => d \in DOMAIN raw.sizes
DeferredPastCut == \A d \in Paths : raw.outcome[d] = "deferred" => RawCut(raw.sizes) <= FirstPlace(d)
StopTold ==
    /\ \A e \in Paths : RawDropped(e) => raw.stopped /\ \A d \in Paths : d > e => ~RawUnderWay(d)
    /\ raw.stopped =>
         \E f \in Paths :
            /\ raw.outcome[f] \in {"failed", "run-wide"} /\ raw.task[f] = "joined"
            /\ raw.mode.stop = "in order" => \A d \in Paths : RawDropped(d) => f < d
OverTold ==
    raw.over => /\ \A d \in Paths : ~InSet(d)
                /\ raw.stopped \/ \A d \in Paths : raw.task[d] # "unsent"
                                                   \/ FirstPlace(d) >= RawCut(raw.sizes)

RawInv == RawTypes /\ SentInOrder /\ OutcomesTell /\ SizesTold /\ DeferredPastCut /\ StopTold /\ OverTold

(* What the ledger of a budget decides.                                     *)
SizesKnown(sizes) == DOMAIN sizes \subseteq Paths /\ \A d \in DOMAIN sizes : sizes[d] \in Nat
SizesGrow(sizes, more) == DOMAIN sizes \subseteq DOMAIN more /\ \A d \in DOMAIN sizes : more[d] = sizes[d]

\* The places are a sequence of paths and of places not asked.
LEMMA PlacesShape ==
  /\ Len(Places) \in Nat /\ DOMAIN Places = 1 .. Len(Places) /\ Paths \subseteq Nat
  /\ NotAsked \notin Paths /\ \A d \in Paths : SizeOf[d] \in Nat
  <1>1. Places \in Seq(Paths \cup {NotAsked}) /\ NotAsked \notin Paths
    BY PlacesAssumption
  <1> QED
    BY <1>1, SizesAssumption DEF Paths

\* A path stands where it was first asked.
LEMMA FirstPlaceIs ==
  ASSUME NEW d \in Paths
  PROVE  /\ FirstPlace(d) \in DOMAIN Places /\ Places[FirstPlace(d)] = d
         /\ \A place \in DOMAIN Places : Places[place] = d => FirstPlace(d) <= place
  <1> DEFINE asked == {place \in DOMAIN Places : Places[place] = d}
  <1>1. asked \in SUBSET (1 .. Len(Places)) /\ asked # {} /\ Len(Places) \in Nat
    BY PlacesShape, PlacesAssumption
  <1> HIDE DEF asked
  <1>2. Min(asked) \in asked /\ \A place \in asked : Min(asked) <= place
    BY <1>1, LeastOf
  <1> QED
    BY <1>2 DEF FirstPlace, asked

\* The places decided are the longest start of them whose sizes are known.
LEMMA DecidedIs ==
  ASSUME NEW sizes, NEW budget
  PROVE  /\ Decided(sizes, budget) \in 0 .. Len(Places)
         /\ \A place \in 1 .. Decided(sizes, budget) : Sized(sizes, place)
         /\ Decided(sizes, budget) > 0 => SumTo(sizes, Decided(sizes, budget)) <= budget
         /\ \A n \in 1 .. Len(Places) :
              (\A place \in 1 .. n : Sized(sizes, place)) /\ SumTo(sizes, n) <= budget
                => n <= Decided(sizes, budget)
  <1> DEFINE stand == {n \in 0 .. Len(Places) :
                         /\ \A place \in 1 .. n : Sized(sizes, place)
                         /\ n > 0 => SumTo(sizes, n) <= budget}
  <1>1. Len(Places) \in Nat
    BY PlacesShape
  <1>2. stand \subseteq 0 .. Len(Places) /\ 0 \in stand
    BY <1>1
  <1>3. IsFiniteSet(stand)
    <2>1. IsFiniteSet(0 .. Len(Places))
      BY <1>1, FS_Interval
    <2> HIDE DEF stand
    <2> QED
      BY <1>2, <2>1, FS_Subset
  <1>4. Max(stand) \in stand /\ \A n \in stand : n <= Max(stand)
    <2>1. stand \in SUBSET Nat /\ stand # {}
      BY <1>1, <1>2
    <2> HIDE DEF stand
    <2> QED
      BY <1>3, <2>1, GreatestOf
  <1>5. Decided(sizes, budget) = Max(stand)
    BY DEF Decided
  <1>6. \A n \in 1 .. Len(Places) :
          (\A place \in 1 .. n : Sized(sizes, place)) /\ SumTo(sizes, n) <= budget => n \in stand
    BY <1>1
  <1> HIDE DEF stand
  <1>7. Decided(sizes, budget) \in stand /\ \A n \in stand : n <= Decided(sizes, budget)
    BY <1>4, <1>5
  <1>8. \A n \in stand : /\ n \in 0 .. Len(Places) /\ \A place \in 1 .. n : Sized(sizes, place)
                         /\ n > 0 => SumTo(sizes, n) <= budget
    BY DEF stand
  <1> QED
    BY <1>6, <1>7, <1>8

\* The sizes up to a place are a sum.
LEMMA SumToIs ==
  ASSUME NEW sizes, NEW n \in Nat
  PROVE  SumTo(sizes, n) = Sum([place \in 1 .. n |-> SizeAt(sizes, place)], 1 .. n)
  <1> DEFINE places == 1 .. n
             w == [place \in places |-> SizeAt(sizes, place)]
             step(g) == [s \in SUBSET places |-> IF s = {} THEN 0
                          ELSE SizeAt(sizes, CHOOSE x \in s : TRUE) + g[s \ {CHOOSE x \in s : TRUE}]]
             once(g) == [s \in SUBSET places |-> IF s = {} THEN 0
                          ELSE w[First(s)] + g[s \ {First(s)}]]
  <1> HIDE DEF places
  <1>1. \A s \in SUBSET places : s # {} => w[First(s)] = SizeAt(sizes, CHOOSE x \in s : TRUE)
    <2> TAKE s \in SUBSET places
    <2> HAVE s # {}
    <2>1. First(s) \in places /\ First(s) = CHOOSE x \in s : TRUE
      BY FirstIsIn DEF First
    <2> QED
      BY <2>1
  <1>2. \A g : Summed(g, w, places) <=> g = step(g)
    <2> TAKE g
    <2>1. once(g) = step(g)
      <3> HIDE DEF w
      <3> QED
        BY <1>1 DEF First
    <2> QED
      BY <2>1 DEF Summed
  <1>3. SumsOf(w, places) = CHOOSE g : g = step(g)
    BY <1>2 DEF SumsOf
  <1>4. MapThenSumSet(LAMBDA p : SizeAt(sizes, p), places) = Sum(w, places)
    BY <1>3 DEF MapThenSumSet, MapThenFoldSet, Sum
  <1> QED
    BY <1>4 DEF SumTo, places

\* The size at a place is a number.
LEMMA SizeAtIs ==
  ASSUME NEW sizes, SizesKnown(sizes), NEW place \in DOMAIN Places, Sized(sizes, place)
  PROVE  SizeAt(sizes, place) \in Nat
  BY DEF SizesKnown, Sized, SizeAt

\* Sizes that come later leave the cut where it fell.
LEMMA CutStands ==
  ASSUME NEW sizes, NEW more, SizesKnown(sizes), SizesKnown(more), SizesGrow(sizes, more),
         NEW budget \in Nat \cup {NoBudget}, NEW place \in DOMAIN Places,
         CutAt(sizes, budget) <= place
  PROVE  CutAt(more, budget) <= place
  <1> DEFINE next == Decided(sizes, budget) + 1
             later == Decided(more, budget)
             w == [p \in 1 .. later |-> SizeAt(more, p)]
             v == [p \in 1 .. next |-> SizeAt(sizes, p)]
  <1>1. /\ Len(Places) \in Nat /\ DOMAIN Places = 1 .. Len(Places)
        /\ Decided(sizes, budget) \in 0 .. Len(Places) /\ later \in 0 .. Len(Places)
    BY PlacesShape, DecidedIs
  <1>2. /\ CutAt(sizes, budget) = next /\ next \in 1 .. Len(Places) /\ budget # NoBudget
        /\ Sized(sizes, next) /\ next <= place
    <2>1. place \in 1 .. Len(Places) /\ ~(Len(Places) + 1 <= place)
      BY <1>1
    <2> QED
      BY <1>1, <2>1 DEF CutAt, NoCut
  <1>3. \A p \in 1 .. next : Sized(sizes, p) /\ Sized(more, p) /\ SizeAt(more, p) = SizeAt(sizes, p)
    <2>1. \A p \in 1 .. next : Sized(sizes, p)
      <3>1. \A p \in 1 .. next : p = next \/ p \in 1 .. Decided(sizes, budget)
        BY <1>1
      <3> QED
        BY <1>2, <3>1, DecidedIs
    <2> QED
      BY <2>1 DEF Sized, SizeAt, SizesGrow
  <1>4. ~(SumTo(sizes, next) <= budget)
    <2>1. ~(next <= Decided(sizes, budget))
      BY <1>1
    <2> HIDE DEF next
    <2> QED
      BY <1>2, <1>3, <2>1, DecidedIs
  <1>5. ASSUME next <= later
        PROVE  FALSE
    <2>1. later \in Nat /\ next \in Nat /\ later > 0 /\ IsFiniteSet(1 .. later) /\ IsFiniteSet(1 .. next)
          /\ 1 .. next \in SUBSET (1 .. later)
      <3>1. later \in Nat /\ next \in Nat /\ later > 0 /\ 1 .. next \in SUBSET (1 .. later)
        BY <1>1, <1>2, <1>5
      <3> HIDE DEF later, next
      <3>2. IsFiniteSet(1 .. later) /\ IsFiniteSet(1 .. next)
        BY <3>1, FS_Interval
      <3> QED
        BY <3>1, <3>2
    <2>2. SumTo(more, later) <= budget
      BY <2>1, DecidedIs
    <2>3. SumTo(more, later) = Sum(w, 1 .. later) /\ SumTo(sizes, next) = Sum(v, 1 .. next)
      <3> HIDE DEF next, later
      <3> QED
        BY <2>1, SumToIs
    <2>4. \A p \in 1 .. later : w[p] \in Nat
      <3> TAKE p \in 1 .. later
      <3>1. p \in DOMAIN Places /\ Sized(more, p)
        BY <1>1, DecidedIs
      <3> QED
        BY <3>1, SizeAtIs
    <2>5. \A p \in 1 .. next : w[p] = v[p]
      <3> TAKE p \in 1 .. next
      <3>1. p \in 1 .. later /\ SizeAt(more, p) = SizeAt(sizes, p)
        BY <1>3, <2>1
      <3> QED
        BY <3>1
    <2> HIDE DEF w, v, next, later
    <2>6. Sum(w, 1 .. next) <= Sum(w, 1 .. later)
      BY <2>1, <2>4, SumPart
    <2>7. Sum(w, 1 .. next) = Sum(v, 1 .. next)
      BY <2>1, <2>5, SumSame
    <2>8. Sum(w, 1 .. later) \in Nat /\ Sum(w, 1 .. next) \in Nat
      <3>1. \A p \in 1 .. next : w[p] \in Nat
        BY <2>1, <2>4
      <3> QED
        BY <2>1, <2>4, <3>1, SumTaken
    <2>9. budget \in Int
      BY DEF NoBudget
    <2> QED
      BY <1>4, <2>2, <2>3, <2>6, <2>7, <2>8, <2>9
  <1>6. later + 1 \in 1 .. next
    <2>1. next \in Nat /\ later \in Nat /\ ~(next <= later)
      BY <1>1, <1>2, <1>5
    <2> HIDE DEF next, later
    <2> QED
      BY <2>1
  <1>7. CutAt(more, budget) = later + 1
    <2>1. later + 1 \in DOMAIN Places /\ Sized(more, later + 1)
      BY <1>1, <1>2, <1>3, <1>6
    <2> QED
      BY <1>2, <2>1 DEF CutAt
  <1> QED
    BY <1>1, <1>2, <1>6, <1>7

\* The same, of any two ledgers.
LEMMA CutStandsIn ==
  \A sizes, more : \A budget \in Nat \cup {NoBudget}, place \in DOMAIN Places :
    SizesKnown(sizes) /\ SizesKnown(more) /\ SizesGrow(sizes, more) /\ CutAt(sizes, budget) <= place
      => CutAt(more, budget) <= place
  BY CutStands

\* A place whose sizes are all known is decided, or the cut falls no later.
LEMMA SizedIsDecided ==
  ASSUME NEW sizes, NEW budget, budget # NoBudget, NEW place \in DOMAIN Places,
         \A p \in 1 .. place : Sized(sizes, p)
  PROVE  Decided(sizes, budget) >= place \/ CutAt(sizes, budget) <= place
  <1> DEFINE next == Decided(sizes, budget) + 1
  <1>1. /\ Len(Places) \in Nat /\ DOMAIN Places = 1 .. Len(Places)
        /\ Decided(sizes, budget) \in 0 .. Len(Places)
    BY PlacesShape, DecidedIs
  <1>2. ASSUME ~(Decided(sizes, budget) >= place)
        PROVE  CutAt(sizes, budget) <= place
    <2>1. next \in DOMAIN Places /\ next \in 1 .. place /\ next <= place
      BY <1>1, <1>2
    <2>2. CutAt(sizes, budget) = next
      BY <2>1 DEF CutAt
    <2> QED
      BY <2>1, <2>2
  <1> QED
    BY <1>2

\* A size noted is one more in the ledger.
LEMMA ReportGrows ==
  ASSUME NEW sizes, SizesKnown(sizes), NEW d \in Paths, NEW told \in Nat
  PROVE  /\ SizesKnown(Report(sizes, d, told)) /\ SizesGrow(sizes, Report(sizes, d, told))
         /\ DOMAIN Report(sizes, d, told) = DOMAIN sizes \cup {d}
  BY DEF Report, SizesKnown, SizesGrow

\* A run starts with nothing sent.
LEMMA RawStarts == RawInit => RawInv
  <1> SUFFICES ASSUME RawInit PROVE RawInv
    OBVIOUS
  <1>1. PICK mode \in RawModes : raw = RawStart(mode)
    BY DEF RawInit
  <1>2. /\ DOMAIN raw = {"mode", "task", "outcome", "sends", "sizes", "stopped", "over"}
        /\ raw.mode = mode /\ raw.task = [d \in Paths |-> "unsent"]
        /\ raw.outcome = [d \in Paths |-> "not run"]
        /\ raw.sizes = <<>> /\ raw.stopped = FALSE /\ raw.over = FALSE
    BY <1>1 DEF RawStart
  <1>3. DOMAIN raw.sizes = {}
    <2>1. DOMAIN <<>> = {}
      OBVIOUS
    <2> QED
      BY <1>2, <2>1
  <1> QED
    BY <1>2, <1>3 DEF RawInv, RawTypes, SentInOrder, OutcomesTell, SizesTold, DeferredPastCut, StopTold,
       OverTold, TaskStates, RawOutcomes, RawDropped

\* One path's read moves on, the run not stopped by it.
LEMMA RawMoves ==
  ASSUME RawInv, NEW d \in Paths, InSet(d),
         DOMAIN raw' = DOMAIN raw, UNCHANGED <<raw.mode, raw.stopped, raw.over>>,
         SizesKnown(raw'.sizes), SizesGrow(raw.sizes, raw'.sizes),
         NEW t \in TaskStates \ {"unsent"}, raw'.task = [raw.task EXCEPT ![d] = t],
         NEW o \in RawOutcomes, raw'.outcome = [raw.outcome EXCEPT ![d] = o],
         t \in {"sent", "gate", "body"} => RawUnderWay(d),
         t \notin {"finished", "joined"} => o = "not run",
         t = "finished" => o # "not run",
         t = "gate" => Gated /\ d \in DOMAIN raw'.sizes,
         Gated /\ t = "joined" /\ o # "not run" => d \in DOMAIN raw'.sizes,
         o = "deferred" => RawCut(raw.sizes) <= FirstPlace(d),
         t = "cancelled" \/ (t = "joined" /\ o = "not run") => RawDropped(d)
  PROVE  RawInv'
  <1>1. /\ RawTypes /\ SentInOrder /\ OutcomesTell /\ SizesTold /\ DeferredPastCut /\ StopTold /\ OverTold
        /\ raw.task \in [Paths -> TaskStates] /\ raw.outcome \in [Paths -> RawOutcomes]
        /\ SizesKnown(raw.sizes) /\ raw.mode \in RawModes
    BY DEF RawInv, RawTypes, SizesKnown
  <1>2. /\ raw'.mode = raw.mode /\ raw'.stopped = raw.stopped /\ raw'.over = raw.over /\ raw.over = FALSE
    BY <1>1 DEF OverTold, RawTypes
  <1>3. \A e \in Paths : /\ raw'.task[e] = (IF e = d THEN t ELSE raw.task[e])
                         /\ raw'.outcome[e] = (IF e = d THEN o ELSE raw.outcome[e])
    BY <1>1
  <1>4. \A e \in Paths : raw.task[e] = "unsent" <=> raw'.task[e] = "unsent"
    BY <1>3 DEF InSet
  <1>5. \A e \in Paths : /\ RawDropped(e)' => RawDropped(e)
                         /\ RawUnderWay(e)' => RawUnderWay(e)
    BY <1>3 DEF RawDropped, RawUnderWay
  <1>6. RawTypes'
    <2>1. raw'.task \in [Paths -> TaskStates] /\ raw'.outcome \in [Paths -> RawOutcomes]
      BY <1>1
    <2> QED
      BY <1>1, <1>2, <2>1 DEF RawTypes, SizesKnown
  <1>7. SentInOrder' /\ OutcomesTell'
    <2>1. SentInOrder'
      BY <1>1, <1>4 DEF SentInOrder
    <2>2. OutcomesTell'
      BY <1>1, <1>3 DEF OutcomesTell
    <2> QED
      BY <2>1, <2>2
  <1>8. SizesTold'
    <2>1. Gated' <=> Gated
      BY <1>2 DEF Gated
    <2>2. DOMAIN raw.sizes \subseteq DOMAIN raw'.sizes
      BY DEF SizesGrow
    <2> QED
      BY <1>1, <1>3, <2>1, <2>2 DEF SizesTold, RawDropped
  <1>9. DeferredPastCut'
    <2>1. ASSUME NEW e \in Paths, raw'.outcome[e] = "deferred"
          PROVE  CutAt(raw'.sizes, raw'.mode.budget) <= FirstPlace(e)
      <3>1. CutAt(raw.sizes, raw.mode.budget) <= FirstPlace(e)
        BY <1>1, <1>3, <2>1 DEF DeferredPastCut, RawCut
      <3>2. raw.mode.budget \in Nat \cup {NoBudget}
        BY <1>1, RawAssumption
      <3>3. FirstPlace(e) \in DOMAIN Places
        BY FirstPlaceIs
      <3>4. CutAt(raw'.sizes, raw.mode.budget) <= FirstPlace(e)
        BY <1>1, <3>1, <3>2, <3>3, CutStandsIn
      <3> QED
        BY <1>2, <3>4
    <2> QED
      BY <2>1 DEF DeferredPastCut, RawCut
  <1>10. StopTold'
    <2>1. \A e \in Paths : RawDropped(e)' => raw'.stopped /\ \A f \in Paths : f > e => ~RawUnderWay(f)'
      BY <1>1, <1>2, <1>5 DEF StopTold
    <2>2. ASSUME raw'.stopped
          PROVE  \E f \in Paths :
                   /\ raw'.outcome[f] \in {"failed", "run-wide"} /\ raw'.task[f] = "joined"
                   /\ raw'.mode.stop = "in order" => \A e \in Paths : RawDropped(e)' => f < e
      <3>1. PICK f \in Paths :
              /\ raw.outcome[f] \in {"failed", "run-wide"} /\ raw.task[f] = "joined"
              /\ raw.mode.stop = "in order" => \A e \in Paths : RawDropped(e) => f < e
        BY <1>1, <1>2, <2>2 DEF StopTold
      <3>2. f # d
        BY <3>1 DEF InSet
      <3> QED
        BY <1>2, <1>3, <1>5, <3>1, <3>2
    <2> QED
      BY <2>1, <2>2 DEF StopTold
  <1>11. OverTold'
    BY <1>2 DEF OverTold
  <1> QED
    BY <1>6, <1>7, <1>8, <1>9, <1>10, <1>11 DEF RawInv

\* What a size noted does.
LEMMA NotedIs ==
  ASSUME RawTypes, NEW r, NEW d \in Paths, NEW told \in Nat, DOMAIN r = DOMAIN raw, r.sizes = raw.sizes
  PROVE  /\ DOMAIN Noted(r, d, told) = DOMAIN raw
         /\ Noted(r, d, told).mode = r.mode /\ Noted(r, d, told).task = r.task
         /\ Noted(r, d, told).outcome = r.outcome /\ Noted(r, d, told).stopped = r.stopped
         /\ Noted(r, d, told).over = r.over
         /\ SizesKnown(Noted(r, d, told).sizes) /\ SizesGrow(raw.sizes, Noted(r, d, told).sizes)
         /\ Gated => d \in DOMAIN Noted(r, d, told).sizes
  <1> DEFINE sizes == IF Gated THEN Report(raw.sizes, d, told) ELSE raw.sizes
  <1>1. SizesKnown(raw.sizes)
    BY DEF RawTypes, SizesKnown
  <1>2. SizesKnown(sizes) /\ SizesGrow(raw.sizes, sizes) /\ (Gated => d \in DOMAIN sizes)
    <2>1. SizesGrow(raw.sizes, raw.sizes)
      BY DEF SizesGrow
    <2>2. /\ SizesKnown(Report(raw.sizes, d, told)) /\ SizesGrow(raw.sizes, Report(raw.sizes, d, told))
          /\ DOMAIN Report(raw.sizes, d, told) = DOMAIN raw.sizes \cup {d}
      BY <1>1, ReportGrows
    <2> QED
      BY <1>1, <2>1, <2>2
  <1>3. /\ DOMAIN Noted(r, d, told) = DOMAIN raw
        /\ Noted(r, d, told).mode = r.mode /\ Noted(r, d, told).task = r.task
        /\ Noted(r, d, told).outcome = r.outcome /\ Noted(r, d, told).stopped = r.stopped
        /\ Noted(r, d, told).over = r.over /\ Noted(r, d, told).sizes = sizes
    BY DEF Noted, RawTypes
  <1> QED
    BY <1>2, <1>3

\* Each step of one read between its sending and its joining.
LEMMA RawReadOn ==
  ASSUME RawInv, NEW d \in Paths,
         \/ Answers200(d) \/ Gate(d) \/ Answers304(d) \/ Body(d) \/ Refused(d) \/ NoAnswer(d)
         \/ CutReached(d) \/ JoinCancelled(d)
  PROVE  RawInv'
  <1>1. /\ RawTypes /\ OutcomesTell /\ SizesKnown(raw.sizes)
        /\ DOMAIN raw = {"mode", "task", "outcome", "sends", "sizes", "stopped", "over"}
        /\ raw.task \in [Paths -> TaskStates] /\ raw.outcome \in [Paths -> RawOutcomes]
        /\ SizeOf[d] \in Nat
    BY PlacesShape DEF RawInv, RawTypes, SizesKnown
  <1>2. SizesGrow(raw.sizes, raw.sizes)
    BY DEF SizesGrow
  <1> DEFINE Rest == /\ DOMAIN raw' = DOMAIN raw /\ UNCHANGED <<raw.mode, raw.stopped, raw.over>>
             Moved(t, o) == /\ raw'.task = [raw.task EXCEPT ![d] = t]
                            /\ raw'.outcome = [raw.outcome EXCEPT ![d] = o]
             Sized0 == SizesKnown(raw'.sizes) /\ SizesGrow(raw.sizes, raw'.sizes)
  <1>3. raw.task[d] # "joined" /\ raw.task[d] # "finished" /\ raw.task[d] # "unsent" /\ raw.outcome[d] = "not run"
    BY <1>1 DEF Answers200, Gate, Answers304, Body, Refused, NoAnswer, CutReached, JoinCancelled, OutcomesTell
  <1>4. raw.outcome = [raw.outcome EXCEPT ![d] = "not run"]
    BY <1>1, <1>3
  <1>5. InSet(d)
    BY <1>1, <1>3 DEF InSet, TaskStates
  <1>6. ASSUME Answers200(d)
        PROVE  Rest /\ Sized0 /\ RawUnderWay(d)
               /\ \/ Gated /\ d \in DOMAIN raw'.sizes /\ Moved("gate", "not run")
                  \/ Moved("body", "not run")
    <2>1. CASE Gated /\ raw' = [Noted(raw, d, SizeOf[d]) EXCEPT !.task[d] = "gate"]
      <3> DEFINE r == Noted(raw, d, SizeOf[d])
      <3>1. /\ DOMAIN r = DOMAIN raw /\ r.mode = raw.mode /\ r.task = raw.task /\ r.outcome = raw.outcome
            /\ r.stopped = raw.stopped /\ r.over = raw.over
            /\ SizesKnown(r.sizes) /\ SizesGrow(raw.sizes, r.sizes) /\ (Gated => d \in DOMAIN r.sizes)
        BY <1>1, NotedIs
      <3>2. raw' = [r EXCEPT !.task[d] = "gate"] /\ Gated
        BY <2>1
      <3> HIDE DEF r
      <3>3. /\ DOMAIN raw' = DOMAIN r /\ raw'.mode = r.mode /\ raw'.outcome = r.outcome
            /\ raw'.stopped = r.stopped /\ raw'.over = r.over /\ raw'.sizes = r.sizes
            /\ raw'.task = [r.task EXCEPT ![d] = "gate"]
        BY <1>1, <3>1, <3>2
      <3>4. RawUnderWay(d)
        BY <1>6 DEF Answers200, RawUnderWay
      <3> QED
        BY <1>4, <3>1, <3>2, <3>3, <3>4
    <2>2. CASE raw' = [raw EXCEPT !.task[d] = "body"]
      <3>1. RawUnderWay(d)
        BY <1>6 DEF Answers200, RawUnderWay
      <3> QED
        BY <1>1, <1>2, <1>4, <2>2, <3>1
    <2> QED
      BY <1>6, <2>1, <2>2 DEF Answers200
  <1>7. ASSUME Gate(d) \/ NoAnswer(d) \/ Answers304(d) \/ Body(d) \/ CutReached(d) \/ JoinCancelled(d)
        PROVE  Rest /\ Sized0
               /\ \/ RawUnderWay(d) /\ \E t \in {"body", "sent"} : Moved(t, "not run")
                  \/ \E o \in {"read", "failed"} : Moved("finished", o)
                  \/ RawCut(raw.sizes) <= FirstPlace(d) /\ Moved("finished", "deferred")
                  \/ raw.task[d] = "cancelled" /\ Moved("joined", "not run")
    <2>1. CASE Gate(d)
      BY <1>1, <1>2, <1>4, <2>1 DEF Gate, RawUnderWay
    <2>2. CASE NoAnswer(d) \/ Answers304(d) \/ Body(d)
      <3>1. CASE NoAnswer(d) /\ raw' = [raw EXCEPT !.task[d] = "sent", !.sends[d] = @ + 1]
        <4>1. RawUnderWay(d)
          BY <3>1 DEF NoAnswer, RawUnderWay
        <4> QED
          BY <1>1, <1>2, <1>4, <3>1, <4>1
      <3>2. CASE \E o \in {"read", "failed"} : raw' = Finished(raw, d, o)
        <4>1. PICK o \in {"read", "failed"} : raw' = Finished(raw, d, o)
          BY <3>2
        <4>2. Rest /\ Sized0 /\ Moved("finished", o)
          BY <1>1, <1>2, <4>1 DEF Finished
        <4> QED
          BY <4>2
      <3> QED
        BY <2>2, <3>1, <3>2 DEF NoAnswer, Answers304, Body
    <2>3. CASE CutReached(d)
      <3>1. raw' = Finished(raw, d, "deferred") /\ RawCut(raw.sizes) <= FirstPlace(d)
        BY <2>3 DEF CutReached
      <3> QED
        BY <1>1, <1>2, <3>1 DEF Finished
    <2>4. CASE JoinCancelled(d)
      BY <1>1, <1>2, <1>4, <2>4 DEF JoinCancelled
    <2> QED
      BY <1>7, <2>1, <2>2, <2>3, <2>4
  <1>8. ASSUME Refused(d)
        PROVE  Rest /\ Sized0 /\ \E o \in {"failed", "run-wide"} : Moved("finished", o)
    <2>1. PICK o \in {"failed", "run-wide"} : raw' = Finished(Noted(raw, d, 0), d, o)
      BY <1>8 DEF Refused
    <2> DEFINE r == Noted(raw, d, 0)
    <2>2. /\ DOMAIN r = DOMAIN raw /\ r.mode = raw.mode /\ r.task = raw.task /\ r.outcome = raw.outcome
          /\ r.stopped = raw.stopped /\ r.over = raw.over
          /\ SizesKnown(r.sizes) /\ SizesGrow(raw.sizes, r.sizes)
      BY <1>1, NotedIs
    <2> HIDE DEF r
    <2>3. raw' = [r EXCEPT !.task[d] = "finished", !.outcome[d] = o]
      BY <2>1 DEF Finished, r
    <2>4. /\ DOMAIN raw' = DOMAIN r /\ raw'.mode = r.mode
          /\ raw'.stopped = r.stopped /\ raw'.over = r.over /\ raw'.sizes = r.sizes
          /\ raw'.task = [r.task EXCEPT ![d] = "finished"] /\ raw'.outcome = [r.outcome EXCEPT ![d] = o]
      BY <1>1, <2>2, <2>3
    <2> QED
      BY <2>2, <2>4
  <1> DEFINE Fits(t, o) ==
               /\ Moved(t, o)
               /\ t \in {"sent", "gate", "body"} => RawUnderWay(d) /\ o = "not run"
               /\ t \in {"sent", "gate", "body", "finished", "joined"}
               /\ t = "finished" => o # "not run" /\ (o = "deferred" => RawCut(raw.sizes) <= FirstPlace(d))
               /\ t = "gate" => Gated /\ d \in DOMAIN raw'.sizes
               /\ t = "joined" => o = "not run" /\ raw.task[d] = "cancelled"
  <1> HIDE DEF Moved, Rest, Sized0
  <1>9. Rest /\ Sized0 /\ \E t \in TaskStates \ {"unsent"}, o \in RawOutcomes : Fits(t, o)
    <2>1. Rest /\ Sized0
      BY <1>6, <1>7, <1>8
    <2>2. \/ Fits("gate", "not run") \/ Fits("body", "not run") \/ Fits("sent", "not run")
          \/ Fits("finished", "read") \/ Fits("finished", "failed") \/ Fits("finished", "run-wide")
          \/ Fits("finished", "deferred") \/ Fits("joined", "not run")
      <3>1. CASE Answers200(d)
        BY <1>6, <3>1
      <3>2. CASE Gate(d) \/ NoAnswer(d) \/ Answers304(d) \/ Body(d) \/ CutReached(d) \/ JoinCancelled(d)
        BY <1>7, <3>2
      <3>3. CASE Refused(d)
        BY <1>8, <3>3
      <3> QED
        BY <3>1, <3>2, <3>3
    <2>3. /\ {"gate", "body", "sent", "finished", "joined"} \subseteq TaskStates \ {"unsent"}
          /\ {"not run", "read", "failed", "run-wide", "deferred"} \subseteq RawOutcomes
      BY DEF TaskStates, RawOutcomes
    <2> HIDE DEF Fits
    <2> QED
      BY <2>1, <2>2, <2>3
  <1>11. PICK t \in TaskStates \ {"unsent"}, o \in RawOutcomes : Fits(t, o)
    BY <1>9
  <1>12. Rest /\ Sized0
    BY <1>9
  <1>10. /\ raw'.task = [raw.task EXCEPT ![d] = t] /\ raw'.outcome = [raw.outcome EXCEPT ![d] = o]
         /\ t = "joined" => RawDropped(d)
    BY <1>11 DEF Moved, RawDropped
  <1> QED
    BY <1>5, <1>10, <1>11, <1>12, RawMoves DEF Rest, Sized0

\* The next path is sent when those before it have been.
LEMMA RawSpawns ==
  ASSUME RawInv, NEW d \in Paths, Spawn(d)
  PROVE  RawInv'
  <1>1. /\ RawTypes /\ SentInOrder /\ OutcomesTell /\ SizesTold /\ DeferredPastCut /\ StopTold /\ OverTold
        /\ DOMAIN raw = {"mode", "task", "outcome", "sends", "sizes", "stopped", "over"}
        /\ raw.task \in [Paths -> TaskStates] /\ raw.outcome \in [Paths -> RawOutcomes]
    BY DEF RawInv, RawTypes
  <1>2. /\ raw'.mode = raw.mode /\ raw'.stopped = raw.stopped /\ raw'.over = raw.over
        /\ raw.over = FALSE /\ raw.stopped = FALSE /\ DOMAIN raw' = DOMAIN raw
        /\ raw'.outcome = raw.outcome /\ raw'.sizes = raw.sizes
        /\ raw'.task = [raw.task EXCEPT ![d] = "sent"]
        /\ raw.task[d] = "unsent" /\ \A e \in 1 .. d - 1 : raw.task[e] # "unsent"
    BY <1>1 DEF Spawn, RawTypes
  <1>3. \A e \in Paths : raw'.task[e] = (IF e = d THEN "sent" ELSE raw.task[e])
    BY <1>1, <1>2
  <1>4. \A e \in Paths : ~RawDropped(e) /\ ~RawDropped(e)'
    BY <1>1, <1>2, <1>3 DEF StopTold, RawDropped
  <1>5. RawTypes'
    <2>1. raw'.task \in [Paths -> TaskStates]
      BY <1>1, <1>2 DEF TaskStates
    <2> QED
      BY <1>1, <1>2, <2>1 DEF RawTypes
  <1>6. SentInOrder'
    <2>1. \A e \in Paths : e < d => e \in 1 .. d - 1
      BY DEF Paths
    <2> QED
      BY <1>1, <1>2, <1>3, <2>1 DEF SentInOrder
  <1>7. OutcomesTell' /\ OverTold'
    BY <1>1, <1>2, <1>3 DEF OutcomesTell, OverTold
  <1>8. SizesTold'
    BY <1>1, <1>2, <1>3, <1>4 DEF SizesTold, Gated
  <1>9. DeferredPastCut'
    BY <1>1, <1>2 DEF DeferredPastCut, RawCut
  <1>10. StopTold'
    BY <1>2, <1>4 DEF StopTold
  <1> QED
    BY <1>5, <1>6, <1>7, <1>8, <1>9, <1>10 DEF RawInv

\* A read that is in: its size noted, and the reads after it cancelled where it stops the run.
LEMMA RawJoins ==
  ASSUME RawInv, NEW d \in Paths, JoinRead(d)
  PROVE  RawInv'
  <1> DEFINE r == SizeJoined([raw EXCEPT !.task[d] = "joined"], d)
             stops == Stops(d) /\ ~raw.stopped
             cancelled(e) == stops /\ Cancels(d, e) /\ raw.task[e] \in {"sent", "gate", "body"}
  <1>1. /\ RawTypes /\ SentInOrder /\ OutcomesTell /\ SizesTold /\ DeferredPastCut /\ StopTold /\ OverTold
        /\ DOMAIN raw = {"mode", "task", "outcome", "sends", "sizes", "stopped", "over"}
        /\ raw.task \in [Paths -> TaskStates] /\ raw.outcome \in [Paths -> RawOutcomes]
        /\ SizesKnown(raw.sizes) /\ SizeOf[d] \in Nat /\ raw.mode \in RawModes /\ raw.stopped \in BOOLEAN
    BY PlacesShape DEF RawInv, RawTypes, SizesKnown
  <1>2. /\ DOMAIN r = DOMAIN raw /\ r.mode = raw.mode /\ r.outcome = raw.outcome
        /\ r.task = [raw.task EXCEPT ![d] = "joined"]
        /\ r.stopped = raw.stopped /\ r.over = raw.over
        /\ SizesKnown(r.sizes) /\ SizesGrow(raw.sizes, r.sizes) /\ (Gated => d \in DOMAIN r.sizes)
    <2> DEFINE q == [raw EXCEPT !.task[d] = "joined"]
               told == IF q.outcome[d] = "read" THEN SizeOf[d] ELSE 0
    <2>1. /\ DOMAIN q = DOMAIN raw /\ q.mode = raw.mode /\ q.outcome = raw.outcome
          /\ q.task = [raw.task EXCEPT ![d] = "joined"] /\ q.stopped = raw.stopped /\ q.over = raw.over
          /\ q.sizes = raw.sizes
      BY <1>1
    <2>2. told \in Nat
      BY <1>1
    <2>3. r = Noted(q, d, told)
      BY DEF SizeJoined
    <2> HIDE DEF q, told, r
    <2> QED
      BY <1>1, <2>1, <2>2, <2>3, NotedIs
  <1>3. raw.task[d] = "finished" /\ raw' = [r EXCEPT !.stopped = @ \/ stops,
                    !.task = [e \in Paths |-> IF cancelled(e) THEN "cancelled" ELSE @[e]]]
    BY DEF JoinRead
  <1> HIDE DEF r
  <1>4. /\ DOMAIN raw' = DOMAIN raw /\ raw'.mode = raw.mode /\ raw'.outcome = raw.outcome
        /\ raw'.over = raw.over /\ raw'.sizes = r.sizes
        /\ raw'.stopped = (raw.stopped \/ stops)
        /\ raw'.task = [e \in Paths |-> IF cancelled(e) THEN "cancelled" ELSE r.task[e]]
    <2> HIDE DEF stops, cancelled
    <2> QED
      BY <1>1, <1>2, <1>3
  <1>5. ~cancelled(d) /\ InSet(d) /\ raw.outcome[d] # "not run" /\ raw.over = FALSE
    <2>1. InSet(d)
      BY <1>3 DEF InSet
    <2> QED
      BY <1>1, <1>3, <2>1 DEF OutcomesTell, OverTold, RawTypes
  <1>6. CASE ~stops
    <2>1. raw'.stopped = raw.stopped /\ raw'.task = [raw.task EXCEPT ![d] = "joined"]
      BY <1>1, <1>2, <1>4, <1>6
    <2>2. raw'.outcome = [raw.outcome EXCEPT ![d] = raw.outcome[d]]
      BY <1>1, <1>4
    <2>3. "joined" \in TaskStates \ {"unsent"} /\ raw.outcome[d] \in RawOutcomes
      BY <1>1 DEF TaskStates
    <2>4. raw.outcome[d] = "deferred" => RawCut(raw.sizes) <= FirstPlace(d)
      BY <1>1 DEF DeferredPastCut
    <2>5. UNCHANGED <<raw.mode, raw.stopped, raw.over>>
      BY <1>4, <2>1
    <2>6. SizesKnown(raw'.sizes) /\ SizesGrow(raw.sizes, raw'.sizes) /\ (Gated => d \in DOMAIN raw'.sizes)
      BY <1>2, <1>4
    <2>7. DOMAIN raw' = DOMAIN raw
      BY <1>4
    <2> HIDE DEF stops
    <2>8. PICK t \in TaskStates \ {"unsent"}, o \in RawOutcomes : t = "joined" /\ o = raw.outcome[d]
      BY <2>3
    <2>9. /\ raw'.task = [raw.task EXCEPT ![d] = t] /\ raw'.outcome = [raw.outcome EXCEPT ![d] = o]
          /\ o # "not run" /\ (o = "deferred" => RawCut(raw.sizes) <= FirstPlace(d))
          /\ t \notin {"sent", "gate", "body", "finished", "cancelled"} /\ t \in {"finished", "joined"}
      BY <1>5, <2>1, <2>2, <2>4, <2>8
    <2> QED
      BY <1>5, <2>5, <2>6, <2>7, <2>9, RawMoves
  <1>7. CASE stops
    <2>1. raw.stopped = FALSE /\ raw'.stopped = TRUE /\ raw.outcome[d] \in {"failed", "run-wide"}
          /\ (raw.mode.stop # "in order" => \A e \in Paths : Cancels(d, e) <=> e # d)
          /\ (raw.mode.stop = "in order" => \A e \in Paths : Cancels(d, e) <=> e > d)
      BY <1>1, <1>4, <1>7 DEF Stops, Cancels
    <2>2. \A e \in Paths :
            raw'.task[e] = IF e = d THEN "joined"
                           ELSE IF Cancels(d, e) /\ RawUnderWay(e) THEN "cancelled" ELSE raw.task[e]
      BY <1>1, <1>2, <1>4, <1>5, <1>7, ZenonT(40) DEF RawUnderWay
    <2>3. \A e \in Paths : ~RawDropped(e)
      BY <1>1, <2>1 DEF StopTold
    <2>4. \A e \in Paths : /\ RawDropped(e)' <=> e # d /\ Cancels(d, e) /\ RawUnderWay(e)
                           /\ RawUnderWay(e)' => e # d /\ RawUnderWay(e) /\ ~Cancels(d, e)
      BY <1>4, <1>5, <2>2, <2>3 DEF RawDropped, RawUnderWay
    <2>5. RawTypes'
      <3>1. raw'.task \in [Paths -> TaskStates]
        <4>1. \A e \in Paths : raw'.task[e] \in TaskStates
          BY <1>1, <2>2 DEF TaskStates
        <4>2. raw'.task = [e \in Paths |-> raw'.task[e]]
          BY <1>4
        <4> QED
          BY <4>1, <4>2
      <3> QED
        BY <1>1, <1>2, <1>4, <2>1, <3>1 DEF RawTypes, SizesKnown
    <2>6. SentInOrder'
      <3>1. \A e \in Paths : raw'.task[e] = "unsent" <=> raw.task[e] = "unsent"
        BY <1>3, <2>2 DEF RawUnderWay
      <3> QED
        BY <1>1, <3>1 DEF SentInOrder
    <2>11. OutcomesTell'
      <3>1. OutcomesTell /\ raw'.outcome = raw.outcome
        BY <1>1, <1>4
      <3>2. \A e \in Paths :
              \/ raw'.task[e] = raw.task[e]
              \/ raw'.task[e] = "joined"
              \/ raw'.task[e] = "cancelled" /\ raw.task[e] \notin {"finished", "joined"}
        BY <2>2 DEF RawUnderWay
      <3>3. \A e \in Paths : /\ raw'.task[e] \notin {"finished", "joined"} => raw'.outcome[e] = "not run"
                             /\ raw'.task[e] = "finished" => raw'.outcome[e] # "not run"
        BY <3>1, <3>2 DEF OutcomesTell
      <3> QED
        BY <3>3 DEF OutcomesTell
    <2>7. SizesTold'
      <3>1. DOMAIN raw.sizes \subseteq DOMAIN raw'.sizes /\ (Gated => d \in DOMAIN raw'.sizes)
        BY <1>2, <1>4 DEF SizesGrow
      <3>2. Gated' <=> Gated
        BY <1>4 DEF Gated
      <3> QED
        BY <1>1, <2>2, <2>3, <2>4, <3>1, <3>2 DEF SizesTold, RawDropped
    <2>8. DeferredPastCut'
      <3>1. ASSUME NEW e \in Paths, raw'.outcome[e] = "deferred"
            PROVE  CutAt(raw'.sizes, raw'.mode.budget) <= FirstPlace(e)
        <4>1. CutAt(raw.sizes, raw.mode.budget) <= FirstPlace(e)
          BY <1>1, <1>4, <3>1 DEF DeferredPastCut, RawCut
        <4>2. raw.mode.budget \in Nat \cup {NoBudget}
          BY <1>1, RawAssumption
        <4>3. FirstPlace(e) \in DOMAIN Places
          BY FirstPlaceIs
        <4>4. CutAt(r.sizes, raw.mode.budget) <= FirstPlace(e)
          BY <1>1, <1>2, <4>1, <4>2, <4>3, CutStandsIn
        <4> QED
          BY <1>4, <4>4
      <3> QED
        BY <3>1 DEF DeferredPastCut, RawCut
    <2>9. StopTold'
      <3>1. Paths \subseteq Nat
        BY PlacesShape
      <3>2. ASSUME NEW e \in Paths, RawDropped(e)', NEW f \in Paths, f > e, RawUnderWay(f)'
            PROVE  FALSE
        <4>1. CASE raw.mode.stop # "in order"
          BY <2>1, <2>4, <3>2, <4>1
        <4>2. CASE raw.mode.stop = "in order"
          <5>1. e > d /\ ~(f > d)
            BY <2>1, <2>4, <3>2, <4>2
          <5> QED
            BY <3>1, <3>2, <5>1
        <4> QED
          BY <4>1, <4>2
      <3>3. raw'.mode.stop = "in order" => \A e \in Paths : RawDropped(e)' => d < e
        <4>1. raw'.mode.stop = "in order" => \A e \in Paths : RawDropped(e)' => e > d
          BY <1>4, <2>1, <2>4
        <4> QED
          BY <3>1, <4>1
      <3>4. raw'.outcome[d] \in {"failed", "run-wide"} /\ raw'.task[d] = "joined"
        BY <1>4, <2>1, <2>2
      <3> QED
        BY <2>1, <3>2, <3>3, <3>4 DEF StopTold
    <2>10. OverTold'
      BY <1>4, <1>5 DEF OverTold
    <2> QED
      BY <2>5, <2>6, <2>7, <2>8, <2>9, <2>10, <2>11 DEF RawInv
  <1> QED
    BY <1>6, <1>7

\* The run ends, or another machine steps.
LEMMA RawEnds == ASSUME RawInv, RunOver \/ UNCHANGED raw PROVE RawInv'
  <1>1. /\ RawTypes /\ SentInOrder /\ OutcomesTell /\ SizesTold /\ DeferredPastCut /\ StopTold /\ OverTold
        /\ DOMAIN raw = {"mode", "task", "outcome", "sends", "sizes", "stopped", "over"}
    BY DEF RawInv, RawTypes
  <1>2. /\ raw'.mode = raw.mode /\ raw'.stopped = raw.stopped /\ DOMAIN raw' = DOMAIN raw
        /\ raw'.outcome = raw.outcome /\ raw'.sizes = raw.sizes /\ raw'.task = raw.task
        /\ raw'.over \in {TRUE, raw.over}
    BY <1>1 DEF RunOver
  <1>3. RawTypes' /\ SentInOrder' /\ OutcomesTell' /\ SizesTold' /\ DeferredPastCut' /\ StopTold'
    <2>1. RawTypes'
      <3>1. raw'.over \in BOOLEAN
        BY <1>1, <1>2 DEF RawTypes
      <3> QED
        BY <1>1, <1>2, <3>1 DEF RawTypes
    <2>2. SentInOrder' /\ OutcomesTell'
      <3>1. SentInOrder /\ OutcomesTell /\ raw'.task = raw.task /\ raw'.outcome = raw.outcome
        BY <1>1, <1>2
      <3>2. SentInOrder'
        BY <3>1 DEF SentInOrder
      <3>3. OutcomesTell'
        BY <3>1 DEF OutcomesTell
      <3> QED
        BY <3>2, <3>3
    <2>3. \A e \in Paths : /\ RawDropped(e)' <=> RawDropped(e)
                           /\ RawUnderWay(e)' <=> RawUnderWay(e)
      BY <1>2 DEF RawDropped, RawUnderWay
    <2>4. SizesTold' /\ DeferredPastCut'
      BY <1>1, <1>2, <2>3 DEF SizesTold, DeferredPastCut, Gated, RawCut
    <2>5. StopTold'
      BY <1>1, <1>2, <2>3 DEF StopTold
    <2> QED
      BY <2>1, <2>2, <2>4, <2>5
  <1>4. OverTold'
    BY <1>1, <1>2 DEF RunOver, OverTold, RawCut, InSet
  <1> QED
    BY <1>3, <1>4 DEF RawInv

\* Every step keeps the invariant.
LEMMA RawSteps == RawInv /\ [RawNext]_rawVars => RawInv'
  <1> SUFFICES ASSUME RawInv, [RawNext]_rawVars
               PROVE  RawInv'
    OBVIOUS
  <1>1. CASE RunOver \/ UNCHANGED rawVars
    BY <1>1, RawEnds DEF rawVars
  <1>2. CASE \E d \in Paths : Spawn(d)
    BY <1>2, RawSpawns
  <1>3. CASE \E d \in Paths : JoinRead(d)
    BY <1>3, RawJoins
  <1>4. CASE \E d \in Paths :
               \/ Answers200(d) \/ Gate(d) \/ Answers304(d) \/ Body(d) \/ Refused(d) \/ NoAnswer(d)
               \/ CutReached(d) \/ JoinCancelled(d)
    BY <1>4, RawReadOn
  <1> QED
    BY <1>1, <1>2, <1>3, <1>4 DEF RawNext

\* Of the reads under way one can always go on.
LEMMA RawGateOpens == RawInv => AGateOpens
  <1> SUFFICES ASSUME RawInv, NEW some \in Paths, InSet(some),
                      \A d \in Paths : InSet(d) => raw.task[d] = "gate" /\ ~Opens(d)
                                                   /\ ~(RawCut(raw.sizes) <= FirstPlace(d))
               PROVE  FALSE
    BY DEF AGateOpens
  <1> DEFINE under == {d \in Paths : InSet(d)}
             d == Min(under)
  <1>1. /\ RawTypes /\ SentInOrder /\ SizesTold /\ StopTold
        /\ raw.task \in [Paths -> TaskStates] /\ raw.mode \in RawModes
    BY DEF RawInv, RawTypes
  <1>2. d \in under /\ \A e \in under : d <= e
    <2>1. under \in SUBSET (1 .. Len(SizeOf)) /\ under # {} /\ Len(SizeOf) \in Nat
      BY SizesAssumption DEF Paths
    <2> HIDE DEF under
    <2> QED
      BY <2>1, LeastOf
  <1>3. d \in Paths /\ InSet(d) /\ \A e \in Paths : InSet(e) => d <= e
    BY <1>2
  <1> HIDE DEF d, under
  <1>4. raw.task[d] = "gate" /\ Gated /\ d \in DOMAIN raw.sizes /\ raw.mode.budget # NoBudget
    BY <1>1, <1>3 DEF SizesTold, Gated
  <1>5. /\ FirstPlace(d) \in DOMAIN Places /\ Places[FirstPlace(d)] = d
        /\ \A place \in DOMAIN Places : Places[place] = d => FirstPlace(d) <= place
    BY <1>3, FirstPlaceIs
  <1>6. ASSUME NEW e \in Paths, e < d
        PROVE  e \in DOMAIN raw.sizes
    <2>1. ~InSet(e)
      <3>1. ~(d <= e)
        BY <1>3, <1>6, PlacesShape
      <3> QED
        BY <1>3, <3>1
    <2>2. raw.task[e] = "joined"
      <3>1. raw.task[e] # "unsent"
        BY <1>1, <1>3, <1>4, <1>6 DEF SentInOrder
      <3> QED
        BY <1>1, <2>1, <3>1 DEF InSet, TaskStates
    <2>3. ~RawDropped(e)
      <3>1. d > e /\ RawUnderWay(d)
        BY <1>3, <1>4, <1>6, PlacesShape DEF RawUnderWay
      <3> QED
        BY <1>1, <1>3, <3>1 DEF StopTold
    <2> QED
      BY <1>1, <1>4, <2>2, <2>3 DEF SizesTold
  <1>7. ASSUME NEW p \in 1 .. FirstPlace(d)
        PROVE  Sized(raw.sizes, p)
    <2>1. p \in DOMAIN Places /\ p <= FirstPlace(d) /\ p \in Nat /\ FirstPlace(d) \in Nat
      BY <1>5, PlacesShape
    <2>2. Places[p] \in Paths \cup {NotAsked}
      BY <2>1, PlacesAssumption
    <2>3. CASE Places[p] \in Paths /\ Places[p] # d
      <3> DEFINE e == Places[p]
      <3>1. FirstPlace(e) <= p /\ FirstPlace(e) \in DOMAIN Places /\ Places[FirstPlace(e)] = e
        BY <2>1, <2>3, FirstPlaceIs
      <3>2. ~(FirstPlace(d) < FirstPlace(e))
        BY <2>1, <3>1, PlacesShape
      <3>3. ~(d < e)
        BY <1>3, <2>3, <3>2, PlacesAssumption
      <3>4. e < d
        <4>1. d \in Nat /\ e \in Nat /\ e # d
          BY <1>3, <2>3, PlacesShape
        <4> HIDE DEF e
        <4> QED
          BY <3>3, <4>1
      <3> QED
        BY <1>6, <2>3, <3>4 DEF Sized
    <2> QED
      BY <1>4, <2>2, <2>3 DEF Sized
  <1>8. Decided(raw.sizes, raw.mode.budget) >= FirstPlace(d) \/ CutAt(raw.sizes, raw.mode.budget) <= FirstPlace(d)
    BY <1>4, <1>5, <1>7, SizedIsDecided
  <1> QED
    BY <1>3, <1>8 DEF Opens, RawCut

\* What the run dropped stands behind a failure it reports.
LEMMA RawNothingLost == RawInv => NothingLostBeforeFailure
  <1> SUFFICES ASSUME RawInv, raw.over, NEW d \in Paths, FirstPlace(d) < RawCut(raw.sizes),
                      raw.outcome[d] \notin {"read", "failed", "run-wide"}
               PROVE  \E e \in Paths : /\ raw.outcome[e] \in {"failed", "run-wide"}
                                       /\ raw.mode.stop = "in order" => e < d
    BY DEF NothingLostBeforeFailure
  <1>1. /\ RawTypes /\ SentInOrder /\ OutcomesTell /\ DeferredPastCut /\ StopTold /\ OverTold
        /\ raw.task \in [Paths -> TaskStates] /\ raw.outcome \in [Paths -> RawOutcomes]
    BY DEF RawInv, RawTypes
  <1>2. FirstPlace(d) \in Nat /\ RawCut(raw.sizes) \in Nat
    <2>1. FirstPlace(d) \in Nat
      BY FirstPlaceIs, PlacesShape
    <2>2. Decided(raw.sizes, raw.mode.budget) \in Nat /\ Len(Places) \in Nat
      BY DecidedIs, PlacesShape
    <2> QED
      BY <2>1, <2>2 DEF RawCut, CutAt, NoCut
  <1>3. raw.outcome[d] = "not run"
    <2>1. ~(RawCut(raw.sizes) <= FirstPlace(d))
      BY <1>2
    <2> QED
      BY <1>1, <2>1 DEF DeferredPastCut, RawOutcomes
  <1>4. raw.task[d] = "unsent" \/ RawDropped(d)
    BY <1>1, <1>3 DEF OverTold, InSet, TaskStates, RawDropped
  <1>5. raw.stopped
    <2>1. ~(FirstPlace(d) >= RawCut(raw.sizes))
      BY <1>2
    <2> QED
      BY <1>1, <1>4, <2>1 DEF OverTold, StopTold
  <1>6. PICK f \in Paths :
          /\ raw.outcome[f] \in {"failed", "run-wide"} /\ raw.task[f] = "joined"
          /\ raw.mode.stop = "in order" => \A e \in Paths : RawDropped(e) => f < e
    BY <1>1, <1>5 DEF StopTold
  <1>7. raw.task[d] = "unsent" => f < d
    <2>1. ASSUME raw.task[d] = "unsent", ~(f < d)
          PROVE  FALSE
      <3>1. f # d /\ d < f
        <4>1. f \in Nat /\ d \in Nat /\ f # d
          BY <1>6, <2>1, PlacesShape
        <4> QED
          BY <2>1, <4>1
      <3> QED
        BY <1>1, <1>6, <2>1, <3>1 DEF SentInOrder
    <2> QED
      BY <2>1
  <1> QED
    BY <1>4, <1>6, <1>7

(* Concurrent raw reads of any number of paths, over any budget, never wait *)
(* for one another's sizes for good, and what the run prints misses no path *)
(* before the cut that no earlier failure explains (files.rs 200 to 475).   *)
THEOREM RawComplete == RawSpec => []RawReadsComplete
  <1>1. RawInv => RawReadsComplete
    BY RawGateOpens, RawNothingLost DEF RawReadsComplete
  <1> QED
    BY <1>1, RawStarts, RawSteps, PTL DEF RawSpec

-----------------------------------------------------------------------------
(***************************************************************************)
(* The content store.  What the runs placed and have yet to count, and     *)
(* what killed ones may have left uncounted, is owed: no figure a run      *)
(* reads, walks or is about to write is short by more.                     *)
(***************************************************************************)
LongestFile == Max({Length[f] : f \in Files})
Kind(r) == job[r].kind
Changers == {"admit", "put", "remove"}
Flushers == {"flush", "finish"}
Walkers  == {"first", "resync", "capped", "sweep"}
StoreKinds == {"none", "place"} \cup Changers \cup Flushers \cup Walkers
UnderLock == {"change", "flush", "flushed", "walk", "count", "cap", "sweep", "swept"}
StoreSteps == {"none", "open", "place", "lock"} \cup UnderLock
KindFits(at, kind) ==
    \/ at \in {"none", "open", "swept"} /\ kind = "none"
    \/ at = "place" /\ kind \in {"place", "first"}
    \/ at = "lock" /\ kind \in Changers \cup Flushers \cup {"first"}
    \/ at = "change" /\ kind \in Changers
    \/ at = "flush" /\ kind \in Flushers
    \/ at = "flushed" /\ kind \in {"none", "finish"}
    \/ at = "walk" /\ kind \in Changers \cup Flushers \cup Walkers
    \/ at = "count" /\ kind \in Changers \cup Flushers \cup {"first", "resync", "sweep"}
    \/ at = "cap" /\ kind = "capped"
    \/ at = "sweep" /\ kind = "sweep"
JobType == [kind : StoreKinds, file : Files \cup {None}, add : Nat, sub : Nat]
FlagSets == SUBSET {"admitted", "resync", "counted"}

StoreTypes ==
    /\ held \in [Files -> Nat] /\ bad \in SUBSET Files /\ size \in Nat \cup {Missing, Torn}
    /\ lock \in Runs \cup {None} /\ pc \in [Runs -> StoreSteps] /\ job \in [Runs -> JobType]
    /\ pending \in [Runs -> Nat] /\ placed \in [Runs -> 0 .. FlushEvery - 1]
    /\ flags \in [Runs -> FlagSets]
    /\ found \in [Runs -> [Files -> Nat]] /\ left \in [Runs -> SUBSET Files]
    /\ changes \in Nat /\ damages \in Nat /\ kills \in Nat /\ drifted \in BOOLEAN
LockHeld == \A r \in Runs : lock = r <=> pc[r] \in UnderLock

\* What a run is about and has to flush, where it stands.
JobFits(at, j, n, sz, harmed) ==
    /\ KindFits(at, j.kind)
    /\ j.kind \in {"admit", "place", "first"} => j.file \in Blobs
    /\ j.kind = "put" => j.file \in Views
    /\ j.kind = "remove" => j.file \in Files /\ (harmed = 0 => j.file \in Views)
    /\ at = "walk" /\ j.kind \notin {"first", "resync", "sweep"} => sz \notin Nat
    /\ at = "count" /\ j.kind \in Changers => j.add <= LongestFile
    /\ at \in {"walk", "count"} /\ j.kind \in Flushers => n = 0 /\ j.add <= KillLoss
    /\ j.kind \in Flushers => j.sub = 0
PendingFits(at, j, n, count, done) ==
    /\ at \in {"lock", "flush"} /\ j.kind = "flush" => 0 < n /\ n <= KillLoss
    /\ ~(at \in {"lock", "flush"} /\ j.kind = "flush") => n <= count * LongestFile
    /\ at \in {"none", "flushed", "cap", "sweep", "swept"} => n = 0
    /\ at \in {"walk", "count"} /\ j.kind \in {"resync", "capped", "sweep"} => n = 0
    /\ n # 0 => "admitted" \in done
    /\ at = "none" => done = {}
Uncounting(at, j, n, done, sz) ==
    sz = Missing =>
        /\ n = 0 /\ at # "place"
        /\ "counted" \in done => j.kind = "first" /\ at \in {"lock", "walk", "count"}
RunTold(at, j, n, count, done, sz, harmed) ==
    JobFits(at, j, n, sz, harmed) /\ PendingFits(at, j, n, count, done) /\ Uncounting(at, j, n, done, sz)

StoreInv ==
    /\ StoreTypes /\ LockHeld
    /\ \A r \in Runs : RunTold(pc[r], job[r], pending[r], placed[r], flags[r], size, damages)
    /\ size = Torn => kills # 0
    /\ damages = 0 => bad = {}

\* The bytes of the names of S that stand beyond what a walk found.
Beyond(h, fd, S) == Sum([f \in Files |-> Minus(h[f], fd[f])], S)

Pending == Sum(pending, Runs)
Owed == Pending + kills * KillLoss
Seen(r) == IF pc[r] = "walk" THEN Files \ left[r] ELSE Files
Excess(r) == Beyond(held, found[r], Seen(r))
\* The figure a run goes by is its walk's.
GoesByWalk(r) == pc[r] \in {"walk", "sweep"} \/ (pc[r] \in {"change", "cap"} /\ size \notin Nat)
Recounts(r) == pc[r] = "count" /\ Kind(r) \in Changers \cup Flushers
Sweeping(r) == pc[r] = "sweep" \/ (pc[r] = "count" /\ Kind(r) = "sweep")
Duty(r) == "admitted" \in flags[r] \/ (pc[r] = "count" /\ Kind(r) \in {"admit", "put"})
Untouched == ~drifted /\ kills = 0 /\ damages = 0

\* The holder of the lock: no figure it goes by is short by more than is owed,
\* and none is short or over by other than what is yet to count.
WalkShort(r) ==
    /\ pc[r] = "count" => Bytes(held) <= SizeToWrite(r) + Owed
    /\ GoesByWalk(r) => Excess(r) <= Owed
SweepShort(r) ==
    /\ pc[r] = "swept" \/ (pc[r] = "count" /\ Kind(r) = "sweep") => Bytes(held) <= Cap + Owed
    /\ pc[r] = "sweep" => /\ Sum(held, Files \ left[r]) <= Owed
                          /\ \A f \in left[r] : found[r][f] # 0
WalkSeen(r) ==
    /\ \A f \in Seen(r) : found[r][f] # 0 => held[f] = found[r][f]
    /\ \A f \in Seen(r) \cap Views : held[f] = found[r][f]
WalkExact(r) == pc[r] # "walk" \/ Pending = 0 \/ left[r] = {} => Excess(r) = Pending
HolderExact(r) ==
    Untouched => /\ pc[r] = "count" => Bytes(held) = SizeToWrite(r) + Pending
                 /\ GoesByWalk(r) => WalkSeen(r) /\ WalkExact(r)
HolderFits(r) == WalkShort(r) /\ SweepShort(r) /\ HolderExact(r)

\* The store, whoever holds the lock.
SizeShort == size \in Nat /\ (\A r \in Runs : ~Recounts(r)) => Bytes(held) <= size + Owed
CapOwed == kills = 0 /\ (\A r \in Runs : ~Duty(r)) => Bytes(held) <= Cap
SizeExact ==
    Untouched /\ size \in Nat /\ (\A r \in Runs : ~Recounts(r) /\ ~Sweeping(r))
        => Bytes(held) = size + Pending
PlacedStands == Untouched => Pending <= Sum(held, Blobs)
StoreFits == SizeShort /\ CapOwed /\ SizeExact /\ PlacedStands
\* The sum of two terms each is that of the first terms and that of the second.
LEMMA SumAdds ==
  ASSUME NEW S, IsFiniteSet(S), NEW w, NEW v, NEW u,
         \A x \in S : w[x] \in Nat /\ v[x] \in Nat /\ u[x] = w[x] + v[x]
  PROVE  Sum(u, S) = Sum(w, S) + Sum(v, S)
  <1> DEFINE Ok(T) == Sum(u, T) = Sum(w, T) + Sum(v, T)
             Bad == {T \in SUBSET S : ~Ok(T)}
  <1>1. SUFFICES ASSUME Bad # {} PROVE FALSE
    OBVIOUS
  <1>2. Bad \subseteq FiniteSubsetsOf(S)
    BY FS_Subset DEF FiniteSubsetsOf
  <1>3. IsWellFoundedOn(StrictSubsetOrdering(S), FiniteSubsetsOf(S))
    BY FS_StrictSubsetOrderingWellFounded
  <1>4. PICK t \in Bad : \A s \in Bad : ~ (<<s, t>> \in StrictSubsetOrdering(S))
    <2> HIDE DEF Bad
    <2> QED
      BY <1>1, <1>2, <1>3, WFMin
  <1>5. t # {} /\ IsFiniteSet(t) /\ t \in SUBSET S
    <2>1. Ok({})
      BY SumEmpty
    <2>2. t \in SUBSET S /\ ~Ok(t)
      OBVIOUS
    <2> HIDE DEF Ok
    <2> QED
      BY <2>1, <2>2, FS_Subset
  <1>6. PICK x \in t : TRUE
    BY <1>5
  <1>7. Ok(t \ {x})
    <2>1. <<t \ {x}, t>> \in StrictSubsetOrdering(S) /\ t \ {x} \in SUBSET S
      BY <1>5 DEF StrictSubsetOrdering
    <2> HIDE DEF Ok
    <2> QED
      BY <1>4, <2>1
  <1>8. \A y \in t : w[y] \in Nat /\ v[y] \in Nat /\ u[y] = w[y] + v[y]
    BY <1>5
  <1>9. \A y \in t : u[y] \in Nat
    <2>1. \A m, n \in Nat : m + n \in Nat
      OBVIOUS
    <2> QED
      BY <1>8, <2>1
  <1>10. /\ Sum(w, t) = w[x] + Sum(w, t \ {x}) /\ Sum(v, t) = v[x] + Sum(v, t \ {x})
         /\ Sum(u, t) = u[x] + Sum(u, t \ {x})
    BY <1>5, <1>8, <1>9, SumTaken
  <1>11. IsFiniteSet(t \ {x})
    BY <1>5, FS_Subset
  <1>12. /\ Sum(w, t \ {x}) \in Nat /\ Sum(v, t \ {x}) \in Nat
         /\ w[x] \in Nat /\ v[x] \in Nat /\ u[x] = w[x] + v[x]
    BY <1>8, <1>11, SumTaken
  <1>13. ~(Sum(u, t) = Sum(w, t) + Sum(v, t))
    BY <1>4
  <1> QED
    BY <1>7, <1>10, <1>12, <1>13

\* The lengths of names are bounded, and so is what a run may place unflushed.
LEMMA StoreShape ==
  /\ IsFiniteSet(Files) /\ Blobs \subseteq Files /\ Views \subseteq Files
  /\ LongestFile \in Nat /\ KillLoss \in Nat /\ KillLoss = FlushEvery * LongestFile
  /\ LongestFile <= KillLoss /\ LowWater \in Nat /\ LowWater <= Cap
  /\ \A f \in Files : Length[f] \in Nat /\ 0 < Length[f] /\ Length[f] <= LongestFile
  <1> DEFINE lengths == {Length[f] : f \in Files}
  <1>1. IsFiniteSet(Files) /\ Blobs \subseteq Files /\ Views \subseteq Files /\ Files # {}
    BY StoreAssumption, FS_Union DEF Files
  <1>2. \A f \in Files : Length[f] \in Nat \ {0} /\ Length[f] \in lengths
    BY StoreAssumption
  <1>3. lengths \in SUBSET Nat /\ lengths # {}
    BY <1>1, <1>2
  <1>4. IsFiniteSet(lengths)
    BY <1>1, ImageIsFinite
  <1>5. LongestFile = Max(lengths) /\ KillLoss = FlushEvery * Max(lengths)
    BY DEF LongestFile, KillLoss
  <1> HIDE DEF lengths
  <1>6. LongestFile \in lengths /\ \A n \in lengths : n <= LongestFile
    BY <1>3, <1>4, <1>5, GreatestOf
  <1>7. LongestFile \in Nat /\ \A f \in Files : Length[f] \in Nat /\ 0 < Length[f] /\ Length[f] <= LongestFile
    BY <1>2, <1>3, <1>6
  <1>8. FlushEvery \in Nat /\ 1 <= FlushEvery
    BY StoreAssumption
  <1>9. KillLoss \in Nat /\ LongestFile <= KillLoss
    <2>1. \A m, n \in Nat : m * n \in Nat
      OBVIOUS
    <2>2. 1 * LongestFile <= FlushEvery * LongestFile
      BY <1>7, <1>8, TimesAtMost
    <2>3. 1 * LongestFile = LongestFile
      BY <1>7
    <2> QED
      BY <1>5, <1>7, <1>8, <2>1, <2>2, <2>3
  <1>10. LowWater \in Nat /\ LowWater <= Cap
    <2>1. Cap \in Nat
      BY StoreAssumption
    <2>2. \A n \in Nat : /\ (n \div 10) * 9 + ((n % 10) * 9) \div 10 <= n
                        /\ (n \div 10) * 9 + ((n % 10) * 9) \div 10 \in Nat
      OBVIOUS
    <2> QED
      BY <2>1, <2>2 DEF LowWater
  <1> QED
    BY <1>1, <1>5, <1>7, <1>9, <1>10

\* The bytes of a store are a sum over its names.
LEMMA BytesIs == \A h : Bytes(h) = Sum(h, Files)
  BY StoreShape, FoldIsSum DEF Bytes

\* One name of another length, in the bytes of the store.
LEMMA BytesChanged ==
  ASSUME NEW h \in [Files -> Nat], NEW f \in Files, NEW n \in Nat
  PROVE  /\ Bytes(h) \in Nat /\ Bytes([h EXCEPT ![f] = n]) \in Nat /\ h[f] <= Bytes(h)
         /\ Bytes([h EXCEPT ![f] = n]) + h[f] = Bytes(h) + n
  <1> DEFINE k == [h EXCEPT ![f] = n]
  <1>1. k[f] = n /\ \A g \in Files : h[g] \in Nat /\ k[g] \in Nat /\ (g # f => h[g] = k[g])
    OBVIOUS
  <1>2. Bytes(h) = Sum(h, Files) /\ Bytes(k) = Sum(k, Files) /\ IsFiniteSet(Files)
    BY BytesIs, StoreShape
  <1> HIDE DEF k
  <1>3. /\ Sum(h, Files) \in Nat /\ Sum(k, Files) \in Nat /\ h[f] <= Sum(h, Files)
        /\ Sum(k, Files) + h[f] = Sum(h, Files) + k[f]
    BY <1>1, <1>2, SumChanged
  <1> QED
    BY <1>1, <1>2, <1>3 DEF k

\* They are a number.
LEMMA BytesTyped == \A h \in [Files -> Nat] : Bytes(h) \in Nat
  <1> SUFFICES ASSUME NEW h \in [Files -> Nat] PROVE Bytes(h) \in Nat
    OBVIOUS
  <1>1. \A f \in Files : h[f] \in Nat
    OBVIOUS
  <1> QED
    BY <1>1, BytesIs, StoreShape, SumTaken

\* A walk that has seen nothing has found nothing.
LEMMA BytesNone == Bytes(Unseen) = 0
  <1>1. \A f \in Files : Unseen[f] = 0
    BY DEF Unseen
  <1> QED
    BY <1>1, BytesIs, StoreShape, SumZero

\* What saturating_sub leaves.
LEMMA MinusTyped == \A m, n \in Nat : Minus(m, n) \in Nat /\ Minus(m, n) <= m /\ m <= n + Minus(m, n)
                                      /\ (n <= m => m = n + Minus(m, n)) /\ Minus(m, 0) = m /\ Minus(m, m) = 0
  BY DEF Minus

\* What stands beyond is a number, and nothing beyond no names.
LEMMA BeyondTyped ==
  ASSUME NEW h \in [Files -> Nat], NEW fd \in [Files -> Nat], NEW S \in SUBSET Files
  PROVE  /\ Beyond(h, fd, S) \in Nat /\ Beyond(h, fd, {}) = 0 /\ IsFiniteSet(S)
         /\ \A f \in Files : [g \in Files |-> Minus(h[g], fd[g])][f] = Minus(h[f], fd[f])
                             /\ Minus(h[f], fd[f]) \in Nat
  <1> DEFINE w == [f \in Files |-> Minus(h[f], fd[f])]
  <1>1. \A f \in Files : w[f] = Minus(h[f], fd[f]) /\ w[f] \in Nat
    BY MinusTyped
  <1>2. IsFiniteSet(S)
    BY StoreShape, FS_Subset
  <1>3. \A f \in S : w[f] \in Nat
    BY <1>1
  <1> HIDE DEF w
  <1>4. Sum(w, S) \in Nat /\ Sum(w, {}) = 0
    BY <1>2, <1>3, SumTaken, SumEmpty
  <1> QED
    BY <1>1, <1>2, <1>4 DEF Beyond, w

\* No more stands beyond where less is held or more was found.
LEMMA BeyondAtMost ==
  ASSUME NEW h \in [Files -> Nat], NEW fd \in [Files -> Nat],
         NEW h2 \in [Files -> Nat], NEW fd2 \in [Files -> Nat], NEW S \in SUBSET Files,
         \A f \in S : Minus(h[f], fd[f]) <= Minus(h2[f], fd2[f])
  PROVE  Beyond(h, fd, S) <= Beyond(h2, fd2, S)
  <1> DEFINE w == [f \in Files |-> Minus(h[f], fd[f])]
             v == [f \in Files |-> Minus(h2[f], fd2[f])]
  <1>1. \A f \in S : w[f] \in Nat /\ v[f] \in Nat /\ w[f] <= v[f]
    BY MinusTyped
  <1>2. IsFiniteSet(S)
    BY StoreShape, FS_Subset
  <1> HIDE DEF w, v
  <1>3. Sum(w, S) <= Sum(v, S)
    BY <1>1, <1>2, SumAtMost
  <1> QED
    BY <1>3 DEF Beyond, w, v

\* Fewer bytes stand beyond what a longer walk has seen.
LEMMA BeyondLess ==
  ASSUME NEW h \in [Files -> Nat], NEW h2 \in [Files -> Nat], NEW fd \in [Files -> Nat],
         NEW S \in SUBSET Files, \A f \in Files : h[f] <= h2[f]
  PROVE  Beyond(h, fd, S) <= Beyond(h2, fd, S)
  <1>1. \A m, n, k \in Nat : m <= n => Minus(m, k) <= Minus(n, k)
    BY DEF Minus
  <1>2. \A f \in Files : h[f] \in Nat /\ h2[f] \in Nat /\ fd[f] \in Nat
    OBVIOUS
  <1>3. \A f \in S : Minus(h[f], fd[f]) <= Minus(h2[f], fd[f])
    BY <1>1, <1>2
  <1> QED
    BY <1>3, BeyondAtMost

\* What stands beyond with a file of n bytes placed where none stood.
LEMMA BeyondPlaced ==
  ASSUME NEW h \in [Files -> Nat], NEW fd \in [Files -> Nat], NEW S \in SUBSET Files,
         NEW f \in Files, NEW n \in Nat, h[f] = 0,
         NEW k \in [Files -> Nat], k[f] = n, \A g \in Files : g # f => k[g] = h[g]
  PROVE  /\ Beyond(h, fd, S) \in Nat /\ Beyond(k, fd, S) \in Nat
         /\ Beyond(k, fd, S) <= Beyond(h, fd, S) + n
         /\ f \notin S => Beyond(k, fd, S) = Beyond(h, fd, S)
         /\ f \in S /\ fd[f] = 0 => Beyond(k, fd, S) = Beyond(h, fd, S) + n
  <1> DEFINE w == [g \in Files |-> Minus(h[g], fd[g])]
             v == [g \in Files |-> Minus(k[g], fd[g])]
  <1>1. k \in [Files -> Nat] /\ k[f] = n /\ \A g \in Files : g # f => k[g] = h[g]
    OBVIOUS
  <1>2. /\ \A g \in Files : w[g] = Minus(h[g], fd[g]) /\ w[g] \in Nat
        /\ \A g \in Files : v[g] = Minus(k[g], fd[g]) /\ v[g] \in Nat
        /\ Beyond(h, fd, S) \in Nat /\ Beyond(k, fd, S) \in Nat
        /\ IsFiniteSet(S)
    <2>1. IsFiniteSet(S) /\ Beyond(h, fd, S) \in Nat /\ \A g \in Files : w[g] = Minus(h[g], fd[g]) /\ w[g] \in Nat
      BY BeyondTyped
    <2>2. Beyond(k, fd, S) \in Nat /\ \A g \in Files : v[g] = Minus(k[g], fd[g]) /\ v[g] \in Nat
      BY <1>1, BeyondTyped
    <2> QED
      BY <2>1, <2>2
  <1>3. Beyond(h, fd, S) = Sum(w, S) /\ Beyond(k, fd, S) = Sum(v, S)
    BY DEF Beyond
  <1>4. \A g \in Files : g # f => w[g] = v[g]
    BY <1>1, <1>2
  <1>5. w[f] = 0 /\ v[f] <= n /\ (fd[f] = 0 => v[f] = n) /\ v[f] \in Nat
    <2>1. h[f] = 0 /\ fd[f] \in Nat /\ n \in Nat /\ k[f] = n
      BY <1>1
    <2>2. w[f] = Minus(0, fd[f]) /\ v[f] = Minus(n, fd[f])
      BY <1>2, <2>1
    <2> HIDE DEF w, v
    <2>3. Minus(0, fd[f]) = 0 /\ Minus(n, fd[f]) <= n /\ Minus(n, 0) = n /\ Minus(n, fd[f]) \in Nat
      BY <2>1 DEF Minus
    <2> QED
      BY <2>2, <2>3
  <1> HIDE DEF w, v
  <1>6. CASE f \notin S
    <2>1. \A g \in S : w[g] = v[g]
      BY <1>4, <1>6
    <2>2. Sum(w, S) = Sum(v, S)
      BY <1>2, <2>1, SumSame
    <2> QED
      BY <1>2, <1>3, <1>6, <2>2
  <1>7. CASE f \in S
    <2>1. \A g \in S : w[g] \in Nat /\ v[g] \in Nat /\ (g # f => w[g] = v[g])
      BY <1>2, <1>4
    <2>2. Sum(w, S) \in Nat /\ Sum(v, S) \in Nat /\ Sum(v, S) + w[f] = Sum(w, S) + v[f]
      BY <1>2, <1>7, <2>1, SumChanged
    <2>3. Beyond(k, fd, S) <= Beyond(h, fd, S) + n /\ (fd[f] = 0 => Beyond(k, fd, S) = Beyond(h, fd, S) + n)
      BY <1>3, <1>5, <2>2
    <2> QED
      BY <1>2, <1>7, <2>3
  <1> QED
    BY <1>6, <1>7

\* A name seen as it stands adds nothing to what stands beyond.
LEMMA BeyondSeen ==
  ASSUME NEW h \in [Files -> Nat], NEW fd \in [Files -> Nat], NEW S \in SUBSET Files,
         NEW f \in Files \ S,
         NEW k \in [Files -> Nat], k[f] = h[f], \A g \in Files : g # f => k[g] = fd[g]
  PROVE  Beyond(h, k, S \cup {f}) = Beyond(h, fd, S)
  <1> DEFINE w == [g \in Files |-> Minus(h[g], fd[g])]
             v == [g \in Files |-> Minus(h[g], k[g])]
             R == S \cup {f}
  <1>1. k \in [Files -> Nat] /\ k[f] = h[f] /\ h[f] \in Nat /\ \A g \in Files : g # f => k[g] = fd[g]
    OBVIOUS
  <1>2. /\ \A g \in Files : w[g] = Minus(h[g], fd[g]) /\ w[g] \in Nat
        /\ \A g \in Files : v[g] = Minus(h[g], k[g]) /\ v[g] \in Nat
    BY <1>1, MinusTyped
  <1>3. v[f] = 0
    BY <1>1, <1>2, MinusTyped
  <1>4. \A g \in S : v[g] = w[g]
    BY <1>1, <1>2
  <1>5. IsFiniteSet(S) /\ IsFiniteSet(R) /\ R \ {f} = S /\ f \in R /\ R \subseteq Files
    BY StoreShape, FS_Subset
  <1>6. \A g \in R : v[g] \in Nat
    BY <1>2, <1>5
  <1>7. Beyond(h, fd, S) = Sum(w, S) /\ Beyond(h, k, R) = Sum(v, R)
    BY DEF Beyond
  <1> HIDE DEF w, v, R
  <1>8. Sum(v, R) = v[f] + Sum(v, R \ {f})
    BY <1>5, <1>6, SumTaken
  <1>9. Sum(v, S) = Sum(w, S)
    BY <1>4, <1>5, SumSame
  <1>10. Sum(v, S) \in Nat
    <2>1. \A g \in S : v[g] \in Nat
      BY <1>5, <1>6
    <2> QED
      BY <1>5, <2>1, SumTaken
  <1>11. Beyond(h, k, R) = Beyond(h, fd, S)
    BY <1>3, <1>5, <1>7, <1>8, <1>9, <1>10
  <1> QED
    BY <1>11 DEF R

\* What is held is no more than what was found and what stands beyond it,
\* and just that where every name found stands as it was found.
LEMMA BytesWithin ==
  ASSUME NEW h \in [Files -> Nat], NEW fd \in [Files -> Nat]
  PROVE  /\ Bytes(fd) \in Nat /\ Bytes(h) <= Bytes(fd) + Beyond(h, fd, Files)
         /\ (\A f \in Files : fd[f] # 0 => h[f] = fd[f]) => Bytes(h) = Bytes(fd) + Beyond(h, fd, Files)
  <1> DEFINE w == [f \in Files |-> Minus(h[f], fd[f])]
             u == [f \in Files |-> fd[f] + w[f]]
  <1>1. \A f \in Files : w[f] = Minus(h[f], fd[f]) /\ w[f] \in Nat /\ h[f] \in Nat /\ fd[f] \in Nat
    BY MinusTyped
  <1>2. \A f \in Files : u[f] = fd[f] + w[f] /\ u[f] \in Nat /\ h[f] <= u[f]
    <2>1. \A m, n \in Nat : n + Minus(m, n) \in Nat /\ m <= n + Minus(m, n)
      BY DEF Minus
    <2> QED
      BY <1>1, <2>1
  <1>3. IsFiniteSet(Files) /\ Bytes(h) = Sum(h, Files) /\ Bytes(fd) = Sum(fd, Files)
        /\ Beyond(h, fd, Files) = Sum(w, Files)
    BY StoreShape, BytesIs DEF Beyond
  <1>4. (\A f \in Files : fd[f] # 0 => h[f] = fd[f]) => \A f \in Files : h[f] = u[f]
    <2>1. \A m, n \in Nat : (n # 0 => m = n) => m = n + Minus(m, n)
      BY DEF Minus
    <2> QED
      BY <1>1, <1>2, <2>1
  <1> HIDE DEF w, u
  <1>5. Sum(u, Files) = Sum(fd, Files) + Sum(w, Files)
    <2>1. \A f \in Files : fd[f] \in Nat /\ w[f] \in Nat /\ u[f] = fd[f] + w[f]
      BY <1>1, <1>2
    <2> QED
      BY <1>3, <2>1, SumAdds
  <1>6. Sum(h, Files) <= Sum(u, Files)
    <2>1. \A f \in Files : h[f] \in Nat /\ u[f] \in Nat /\ h[f] <= u[f]
      BY <1>1, <1>2
    <2> QED
      BY <1>3, <2>1, SumAtMost
  <1>7. (\A f \in Files : h[f] = u[f]) => Sum(h, Files) = Sum(u, Files)
    BY <1>3, SumSame
  <1>8. Bytes(fd) \in Nat
    BY BytesTyped
  <1> QED
    BY <1>3, <1>4, <1>5, <1>6, <1>7, <1>8

\* A step of one run: the others stand, and the lock is taken where it is
\* free and given up by its holder.
Stand(r) == \A q \in Runs \ {r} :
    /\ pc'[q] = pc[q] /\ job'[q] = job[q] /\ pending'[q] = pending[q] /\ placed'[q] = placed[q]
    /\ flags'[q] = flags[q] /\ found'[q] = found[q] /\ left'[q] = left[q]
LockMoves(r) ==
    /\ pc'[r] \in UnderLock => lock' = r /\ lock \in {r, None}
    /\ pc'[r] \notin UnderLock => lock' = IF lock = r THEN None ELSE lock
SizeMoves(r) ==
    size' = size \/ (pc[r] = "count" /\ (size' \in Nat \/ (size' = Torn /\ kills' # 0)))
Told(r) == RunTold(pc[r], job[r], pending[r], placed[r], flags[r], size, damages)

\* A step of one run that fits keeps every run fitting.
LEMMA StoreMoves ==
  ASSUME StoreInv, NEW r \in Runs, StoreTypes', Stand(r), LockMoves(r), SizeMoves(r),
         damages' = damages, damages = 0 => bad' = {}, kills # 0 => kills' # 0,
         RunTold(pc'[r], job'[r], pending'[r], placed'[r], flags'[r], size', damages)
  PROVE  StoreInv'
  <1>1. /\ StoreTypes /\ LockHeld /\ (size = Torn => kills # 0)
        /\ \A q \in Runs : RunTold(pc[q], job[q], pending[q], placed[q], flags[q], size, damages)
    BY DEF StoreInv
  <1>2. LockHeld'
    <2>1. SUFFICES ASSUME NEW q \in Runs PROVE (lock = q <=> pc[q] \in UnderLock)'
      BY DEF LockHeld
    <2>2. (lock = q <=> pc[q] \in UnderLock) /\ (lock = r <=> pc[r] \in UnderLock)
      BY <1>1 DEF LockHeld
    <2>3. None # q /\ None # r
      BY StoreAssumption
    <2>4. CASE q = r
      BY <2>2, <2>3, <2>4 DEF LockMoves
    <2>5. CASE q # r
      <3>1. pc'[q] = pc[q]
        BY <2>5 DEF Stand
      <3> QED
        BY <2>2, <2>3, <2>5, <3>1 DEF LockMoves
    <2> QED
      BY <2>4, <2>5
  <1>3. ASSUME NEW q \in Runs
        PROVE  RunTold(pc[q], job[q], pending[q], placed[q], flags[q], size, damages)'
    <2>1. CASE q = r
      BY <2>1
    <2>2. CASE q # r /\ size' = size
      BY <1>1, <2>2 DEF Stand
    <2>3. CASE q # r /\ size' # size
      <3>1. pc[r] = "count" /\ size' # Missing
        BY <2>3, StoreAssumption DEF SizeMoves
      <3>2. lock = r /\ lock # q
        BY <1>1, <2>3, <3>1 DEF LockHeld, UnderLock
      <3>3. pc[q] \notin UnderLock
        BY <1>1, <3>2 DEF LockHeld
      <3>4. JobFits(pc[q], job[q], pending[q], size', damages)
        BY <1>1, <3>3 DEF RunTold, JobFits, UnderLock
      <3>5. Uncounting(pc[q], job[q], pending[q], flags[q], size')
        BY <3>1 DEF Uncounting
      <3>6. PendingFits(pc[q], job[q], pending[q], placed[q], flags[q])
        BY <1>1 DEF RunTold
      <3> QED
        BY <2>3, <3>4, <3>5, <3>6 DEF RunTold, Stand
    <2> QED
      BY <2>1, <2>2, <2>3
  <1>4. size' = Torn => kills' # 0
    BY <1>1, StoreAssumption DEF SizeMoves
  <1> QED
    BY <1>2, <1>3, <1>4 DEF StoreInv

\* What the types say of one run.
LEMMA RunTypes ==
  ASSUME StoreInv, NEW r \in Runs
  PROVE  /\ pc[r] \in StoreSteps /\ job[r] \in JobType /\ pending[r] \in Nat
         /\ placed[r] \in 0 .. FlushEvery - 1 /\ flags[r] \in FlagSets
         /\ found[r] \in [Files -> Nat] /\ left[r] \in SUBSET Files
         /\ Kind(r) \in StoreKinds /\ job[r].add \in Nat /\ job[r].sub \in Nat
         /\ KindFits(pc[r], Kind(r)) /\ (lock = r <=> pc[r] \in UnderLock) /\ r # None
         /\ JobFits(pc[r], job[r], pending[r], size, damages)
         /\ PendingFits(pc[r], job[r], pending[r], placed[r], flags[r])
         /\ Uncounting(pc[r], job[r], pending[r], flags[r], size)
         /\ \A q \in Runs : lock = r /\ q # r => pc[q] \notin UnderLock
  BY StoreAssumption DEF StoreInv, StoreTypes, JobType, Kind, RunTold, JobFits, LockHeld

\* The steps outside the lock that change no file and no count.
OutsideQuietly(r) ==
    \/ Open(r)
    \/ \E f \in Files : Verified(r, f) \/ RemoveView(r, f) \/ WriteView(r, f) \/ Admit(r, f) \/ Place(r, f)
    \/ FindsPlaced(r) \/ FinishesUnlocked(r) \/ Finish(r) \/ ListingEnds(r) \/ NotNeeded(r)

\* A job as it is begun adds and takes nothing yet.
LEMMA JobIs ==
  ASSUME NEW kind \in StoreKinds, NEW f \in Files \cup {None}, NEW j,
         j = [NoJob EXCEPT !.kind = kind, !.file = f]
  PROVE  j \in JobType /\ j.kind = kind /\ j.file = f /\ j.add = 0 /\ j.sub = 0
  <1>1. j.kind = kind /\ j.file = f /\ j.add = 0 /\ j.sub = 0
    BY DEF NoJob
  <1>2. j \in JobType
    BY DEF NoJob, JobType
  <1> QED
    BY <1>1, <1>2

\* A job begun outside the lock.
LEMMA BeginsTyped ==
  ASSUME StoreInv, NEW r \in Runs, NEW kind \in StoreKinds, NEW f \in Files, NEW step \in StoreSteps,
         Begin(r, kind, f, step), flags' \in [Runs -> FlagSets],
         \A q \in Runs \ {r} : flags'[q] = flags[q],
         UNCHANGED <<files, size, lock, pending, placed, walk, damages, kills, drifted>>
  PROVE  /\ StoreTypes' /\ Stand(r) /\ pc[r] = "open" /\ pc'[r] = step /\ job'[r] \in JobType
         /\ job'[r].kind = kind /\ job'[r].file = f /\ job'[r].add = 0 /\ job'[r].sub = 0
  <1> DEFINE j == [NoJob EXCEPT !.kind = kind, !.file = f]
  <1>1. /\ pc[r] = "open" /\ pc' = [pc EXCEPT ![r] = step] /\ changes' = changes + 1
        /\ job' = [job EXCEPT ![r] = j]
    BY DEF Begin, Job, Goto
  <1>2. j \in JobType /\ j.kind = kind /\ j.file = f /\ j.add = 0 /\ j.sub = 0
    <2>1. f \in Files \cup {None}
      OBVIOUS
    <2>2. PICK b : b = [NoJob EXCEPT !.kind = kind, !.file = f]
      OBVIOUS
    <2>3. b.kind = kind /\ b.file = f /\ b.add = 0 /\ b.sub = 0
      BY <2>2 DEF NoJob
    <2>4. b \in JobType
      BY <2>1, <2>2 DEF NoJob, JobType
    <2> QED
      BY <2>2, <2>3, <2>4
  <1> HIDE DEF j
  <1>3. StoreTypes
    BY DEF StoreInv
  <1>4. job' \in [Runs -> JobType] /\ pc' \in [Runs -> StoreSteps] /\ changes' \in Nat
    BY <1>1, <1>2, <1>3 DEF StoreTypes
  <1>5. StoreTypes'
    BY <1>3, <1>4 DEF StoreTypes, files, walk
  <1>6. Stand(r)
    BY <1>1, <1>3 DEF Stand, StoreTypes, walk
  <1> QED
    BY <1>1, <1>2, <1>3, <1>5, <1>6 DEF StoreTypes

\* A run ended, or killed.
LEMMA EndsTyped ==
  ASSUME StoreInv, NEW r \in Runs, EndRun(r), UNCHANGED <<files, changes, damages, drifted>>,
         size' \in Nat \cup {Missing, Torn}, lock' \in Runs \cup {None}, kills' \in Nat
  PROVE  /\ StoreTypes' /\ Stand(r) /\ pc'[r] = "none" /\ job'[r].kind = "none" /\ pending'[r] = 0
         /\ placed'[r] = 0 /\ flags'[r] = {}
         /\ RunTold(pc'[r], job'[r], pending'[r], placed'[r], flags'[r], size', damages)
  <1>1. StoreTypes /\ 0 \in 0 .. FlushEvery - 1
    BY StoreAssumption DEF StoreInv
  <1> DEFINE j == [NoJob EXCEPT !.kind = "none", !.file = None]
  <1>2. /\ pc' = [pc EXCEPT ![r] = "none"] /\ job' = [job EXCEPT ![r] = j]
        /\ pending' = [pending EXCEPT ![r] = 0] /\ placed' = [placed EXCEPT ![r] = 0]
        /\ flags' = [flags EXCEPT ![r] = {}] /\ found' = [found EXCEPT ![r] = Unseen]
        /\ left' = [left EXCEPT ![r] = {}]
    BY DEF EndRun, Goto, Job
  <1>3. j \in JobType /\ j.kind = "none" /\ Unseen \in [Files -> Nat] /\ "none" \in StoreSteps
        /\ {} \in FlagSets
    <2>1. "none" \in StoreKinds /\ None \in Files \cup {None}
      BY DEF StoreKinds
    <2>2. j \in JobType /\ j.kind = "none"
      BY <2>1, JobIs, ZenonT(40)
    <2> QED
      BY <2>2 DEF Unseen, StoreSteps, FlagSets
  <1> HIDE DEF j
  <1>4. StoreTypes'
    BY <1>1, <1>2, <1>3 DEF StoreTypes, files
  <1>5. Stand(r)
    BY <1>1, <1>2 DEF Stand, StoreTypes
  <1>6. /\ pc'[r] = "none" /\ job'[r] = j /\ pending'[r] = 0 /\ placed'[r] = 0 /\ flags'[r] = {}
    BY <1>1, <1>2 DEF StoreTypes
  <1>7. 0 <= 0 * LongestFile
    BY StoreShape
  <1>8. RunTold("none", j, 0, 0, {}, size', damages)
    BY <1>3, <1>7 DEF RunTold, JobFits, KindFits, PendingFits, Uncounting, Changers, Flushers
  <1> QED
    BY <1>3, <1>4, <1>5, <1>6, <1>8

\* Nothing of what is counted moves: no file, no count, no bytes owed.
Quiet == held' = held /\ size' = size /\ pending' = pending /\ kills' = kills
         /\ damages' = damages /\ drifted' = drifted

\* Those steps keep the invariant.
LEMMA OutsideQuiet ==
  ASSUME StoreInv, ~Listings, NEW r \in Runs, OutsideQuietly(r)
  PROVE  /\ StoreInv' /\ Stand(r) /\ Quiet
         /\ pc[r] \notin UnderLock /\ pc'[r] \notin UnderLock
         /\ "admitted" \in flags[r] => "admitted" \in flags'[r]
  <1>1. /\ StoreTypes /\ (damages = 0 => bad = {}) /\ RunTold(pc[r], job[r], pending[r], placed[r], flags[r], size, damages)
        /\ (lock = r <=> pc[r] \in UnderLock)
    BY DEF StoreInv, LockHeld
  <1> DEFINE Rest == /\ StoreTypes' /\ Stand(r) /\ Quiet
                     /\ pc[r] \notin UnderLock /\ pc'[r] \notin UnderLock
                     /\ (damages' = 0 => bad' = {}) /\ lock' = lock
                     /\ ("admitted" \in flags[r] => "admitted" \in flags'[r])
             Fits == RunTold(pc'[r], job'[r], pending'[r], placed'[r], flags'[r], size', damages)
  <1>2. Rest /\ Fits
    <2> USE DEF UnderLock
    <2>1. CASE Open(r)
      <3>1. pc[r] = "none" /\ pc' = [pc EXCEPT ![r] = "open"]
            /\ UNCHANGED <<held, bad, size, lock, job, pending, placed, flags, found, left, changes, damages, kills, drifted>>
        BY <2>1 DEF Open, Goto, files, walk, bounds
      <3>2. Rest
        BY <1>1, <3>1 DEF StoreTypes, StoreSteps, Stand, Quiet
      <3>3. Fits
        BY <1>1, <3>1 DEF RunTold, JobFits, KindFits, PendingFits, Uncounting, Changers, Flushers, StoreTypes
      <3> QED
        BY <3>2, <3>3
    <2>2. ASSUME NEW f \in Files,
                 Verified(r, f) \/ RemoveView(r, f) \/ WriteView(r, f) \/ Admit(r, f)
                 \/ (Place(r, f) /\ "counted" \notin flags[r] /\ size = Missing)
          PROVE  Rest /\ Fits
      <3>1. PICK kind \in Changers \cup {"first"}, more \in FlagSets :
                   /\ Begin(r, kind, f, "lock") /\ flags' = [flags EXCEPT ![r] = @ \cup more]
                   /\ (kind \in {"admit", "first"} => f \in Blobs) /\ (kind = "put" => f \in Views)
                   /\ (kind = "remove" /\ damages = 0 => f \in Views)
                   /\ (kind = "first" => size = Missing) /\ ("counted" \in more => kind = "first")
        <4>1. CASE Verified(r, f)
          <5>1. PICK noted \in {{}, {"resync"}} : flags' = [flags EXCEPT ![r] = @ \cup noted]
            BY <4>1 DEF Verified
          <5>2. Begin(r, "remove", f, "lock") /\ damages # 0
            BY <1>1, <4>1 DEF Verified
          <5>3. noted \in FlagSets /\ "counted" \notin noted /\ "remove" \in Changers
            BY DEF FlagSets, Changers
          <5> QED
            BY <5>1, <5>2, <5>3
        <4>2. CASE RemoveView(r, f) \/ WriteView(r, f) \/ Admit(r, f)
          <5>1. flags' = [flags EXCEPT ![r] = @ \cup {}] /\ {} \in FlagSets
            BY <1>1, <4>2 DEF RemoveView, WriteView, Admit, StoreTypes, FlagSets
          <5>2. \/ Begin(r, "remove", f, "lock") /\ f \in Views
                \/ Begin(r, "put", f, "lock") /\ f \in Views
                \/ Begin(r, "admit", f, "lock") /\ f \in Blobs
            BY <4>2 DEF RemoveView, WriteView, Admit
          <5>3. "remove" \in Changers /\ "put" \in Changers /\ "admit" \in Changers
            BY DEF Changers
          <5> QED
            BY <5>1, <5>2, <5>3
        <4>3. CASE Place(r, f) /\ "counted" \notin flags[r] /\ size = Missing
          <5>1. flags' = [flags EXCEPT ![r] = @ \cup {"counted"}] /\ Begin(r, "first", f, "lock") /\ f \in Blobs
            BY <4>3 DEF Place
          <5>2. {"counted"} \in FlagSets
            BY DEF FlagSets
          <5> QED
            BY <4>3, <5>1, <5>2
        <4> QED
          BY <2>2, <4>1, <4>2, <4>3
      <3>2. /\ UNCHANGED <<held, bad, size, lock, pending, placed, found, left, damages, kills, drifted>>
            /\ UNCHANGED <<files, walk>>
        BY <2>2 DEF Verified, RemoveView, WriteView, Admit, Place, files, walk
      <3>4. flags' \in [Runs -> FlagSets] /\ flags'[r] = flags[r] \cup more
            /\ \A q \in Runs \ {r} : flags'[q] = flags[q]
        BY <1>1, <3>1 DEF StoreTypes, FlagSets
      <3>5. kind \in StoreKinds /\ "lock" \in StoreSteps
        BY DEF StoreKinds, StoreSteps, Walkers
      <3>6. /\ StoreTypes' /\ Stand(r) /\ pc[r] = "open" /\ pc'[r] = "lock" /\ job'[r] \in JobType
            /\ job'[r].kind = kind /\ job'[r].file = f /\ job'[r].add = 0 /\ job'[r].sub = 0
        BY <3>1, <3>2, <3>4, <3>5, BeginsTyped
      <3>7. Rest
        BY <1>1, <3>2, <3>4, <3>6 DEF Quiet
      <3>8. JobFits("lock", job'[r], pending[r], size, damages)
        BY <3>1, <3>6 DEF JobFits, KindFits, Changers, Flushers
      <3>9. PendingFits("lock", job'[r], pending[r], placed[r], flags'[r])
        BY <1>1, <3>1, <3>4, <3>6 DEF RunTold, PendingFits, Changers
      <3>10. Uncounting("lock", job'[r], pending[r], flags'[r], size)
        BY <1>1, <3>1, <3>4, <3>6 DEF RunTold, Uncounting, JobFits, KindFits
      <3> QED
        BY <3>2, <3>6, <3>7, <3>8, <3>9, <3>10 DEF RunTold
    <2>3. ASSUME NEW f \in Files, Place(r, f), ~("counted" \notin flags[r] /\ size = Missing)
          PROVE  Rest /\ Fits
      <3>1. Begin(r, "place", f, "place") /\ f \in Blobs /\ flags' = [flags EXCEPT ![r] = @ \cup {"counted"}]
            /\ UNCHANGED <<held, bad, size, lock, pending, placed, found, left, damages, kills, drifted>>
            /\ UNCHANGED <<files, walk>>
        BY <2>3 DEF Place, files, walk
      <3>2. flags' \in [Runs -> FlagSets] /\ flags'[r] = flags[r] \cup {"counted"}
            /\ \A q \in Runs \ {r} : flags'[q] = flags[q]
        BY <1>1, <3>1 DEF StoreTypes, FlagSets
      <3>3. "place" \in StoreKinds /\ "place" \in StoreSteps
        BY DEF StoreKinds, StoreSteps
      <3>4. /\ StoreTypes' /\ Stand(r) /\ pc[r] = "open" /\ pc'[r] = "place" /\ job'[r] \in JobType
            /\ job'[r].kind = "place" /\ job'[r].file = f /\ job'[r].add = 0 /\ job'[r].sub = 0
        BY <3>1, <3>2, <3>3, BeginsTyped
      <3>5. Rest
        BY <1>1, <3>1, <3>2, <3>4 DEF Quiet
      <3>6. size # Missing
        BY <1>1, <2>3, <3>4 DEF RunTold, Uncounting
      <3>7. JobFits("place", job'[r], pending[r], size, damages)
        BY <3>1, <3>4 DEF JobFits, KindFits, Changers, Flushers
      <3>8. PendingFits("place", job'[r], pending[r], placed[r], flags'[r])
        BY <1>1, <3>1, <3>2, <3>4 DEF RunTold, PendingFits
      <3> QED
        BY <3>1, <3>4, <3>5, <3>6, <3>7, <3>8 DEF RunTold, Uncounting
    <2>4. CASE FindsPlaced(r)
      <3> DEFINE j == [NoJob EXCEPT !.kind = "none", !.file = None]
      <3>1. pc[r] = "place" /\ pc' = [pc EXCEPT ![r] = "open"] /\ job' = [job EXCEPT ![r] = j]
            /\ UNCHANGED <<held, bad, size, lock, pending, placed, flags, found, left, changes, damages, kills, drifted>>
        BY <2>4 DEF FindsPlaced, Goto, Job, files, walk, bounds
      <3>2. j \in JobType /\ j.kind = "none"
        <4>1. "none" \in StoreKinds /\ None \in Files \cup {None}
          BY DEF StoreKinds
        <4> QED
          BY <4>1, JobIs, ZenonT(40)
      <3> HIDE DEF j
      <3>3. Rest /\ pc'[r] = "open" /\ job'[r] = j
        BY <1>1, <3>1, <3>2 DEF StoreTypes, StoreSteps, Stand, Quiet
      <3>4. Fits
        BY <1>1, <3>1, <3>2, <3>3 DEF RunTold, JobFits, KindFits, PendingFits, Uncounting, Changers, Flushers
      <3> QED
        BY <3>3, <3>4
    <2>5. CASE FinishesUnlocked(r) \/ ListingEnds(r)
      <3>1. /\ pc[r] = "open" /\ "admitted" \notin flags[r] /\ EndRun(r)
            /\ UNCHANGED <<held, bad, size, lock, changes, damages, kills, drifted>>
            /\ UNCHANGED <<files, changes, damages, drifted>>
        BY <2>5 DEF FinishesUnlocked, ListingEnds, files, bounds
      <3>2. size' \in Nat \cup {Missing, Torn} /\ lock' \in Runs \cup {None} /\ kills' \in Nat
        BY <1>1, <3>1 DEF StoreTypes
      <3>3. /\ StoreTypes' /\ Stand(r) /\ pc'[r] = "none" /\ pending'[r] = 0 /\ Fits
        BY <3>1, <3>2, EndsTyped
      <3>4. pending[r] = 0
        BY <1>1, <3>1 DEF RunTold, PendingFits
      <3>5. pending' = pending
        BY <1>1, <3>3, <3>4 DEF StoreTypes, Stand
      <3> QED
        BY <1>1, <3>1, <3>3, <3>5 DEF Quiet
    <2>6. CASE Finish(r)
      <3> DEFINE j == [NoJob EXCEPT !.kind = "finish", !.file = None]
      <3>1. pc[r] = "open" /\ pc' = [pc EXCEPT ![r] = "lock"] /\ job' = [job EXCEPT ![r] = j]
            /\ UNCHANGED <<held, bad, size, lock, pending, placed, flags, found, left, changes, damages, kills, drifted>>
        BY <2>6 DEF Finish, Goto, Job, files, walk, bounds
      <3>2. j \in JobType /\ j.kind = "finish" /\ j.sub = 0
        <4>1. "finish" \in StoreKinds
          BY DEF StoreKinds, Flushers
        <4>2. PICK b : b = [NoJob EXCEPT !.kind = "finish", !.file = None]
          OBVIOUS
        <4>3. b.kind = "finish" /\ b.sub = 0
          BY <4>2 DEF NoJob
        <4>4. b \in JobType
          BY <4>1, <4>2 DEF NoJob, JobType
        <4> QED
          BY <4>2, <4>3, <4>4
      <3> HIDE DEF j
      <3>3. Rest /\ pc'[r] = "lock" /\ job'[r] = j
        BY <1>1, <3>1, <3>2 DEF StoreTypes, StoreSteps, Stand, Quiet
      <3>4. Fits
        BY <1>1, <3>1, <3>2, <3>3 DEF RunTold, JobFits, KindFits, PendingFits, Uncounting, Changers, Flushers
      <3> QED
        BY <3>3, <3>4
    <2>7. CASE NotNeeded(r)
      <3>1. /\ pc[r] = "lock" /\ ~Needed(r)
            /\ UNCHANGED <<held, bad, size, lock, pending, placed, flags, found, left, changes, damages, kills, drifted>>
        BY <2>7 DEF NotNeeded, files, walk, bounds
      <3>2. CASE job[r].kind = "first"
        <4>1. pc' = [pc EXCEPT ![r] = "place"] /\ job' = job /\ size # Missing
          BY <2>7, <3>1, <3>2 DEF NotNeeded, Goto, Needed
        <4>2. Rest /\ pc'[r] = "place"
          BY <1>1, <3>1, <4>1 DEF StoreTypes, StoreSteps, Stand, Quiet
        <4>3. Fits
          BY <1>1, <3>1, <3>2, <4>1, <4>2 DEF RunTold, JobFits, KindFits, PendingFits, Uncounting, Changers, Flushers
        <4> QED
          BY <4>2, <4>3
      <3>3. CASE job[r].kind # "first"
        <4>1. pc' = [pc EXCEPT ![r] = "open"] /\ job' = [job EXCEPT ![r] = NoJob]
          BY <2>7, <3>1, <3>3 DEF NotNeeded, Goto
        <4>2. NoJob \in JobType /\ NoJob.kind = "none"
          BY DEF NoJob, JobType, StoreKinds
        <4>3. Rest /\ pc'[r] = "open" /\ job'[r] = NoJob
          BY <1>1, <3>1, <4>1, <4>2 DEF StoreTypes, StoreSteps, Stand, Quiet
        <4>4. job[r].kind # "flush"
          BY <3>1 DEF Needed
        <4>5. Fits
          BY <1>1, <3>1, <3>3, <4>2, <4>3, <4>4 DEF RunTold, JobFits, KindFits, PendingFits, Uncounting, Changers, Flushers
        <4> QED
          BY <4>3, <4>5
      <3> QED
        BY <3>2, <3>3
    <2> QED
      BY <2>1, <2>2, <2>3, <2>4, <2>5, <2>6, <2>7 DEF OutsideQuietly
  <1>3. LockMoves(r) /\ SizeMoves(r)
    BY <1>1, <1>2 DEF LockMoves, SizeMoves, Quiet
  <1>4. StoreInv'
    <2>1. StoreTypes' /\ Stand(r) /\ damages' = damages /\ (damages = 0 => bad' = {}) /\ kills' = kills
      BY <1>2 DEF Quiet
    <2> HIDE DEF Rest, Fits
    <2>2. RunTold(pc'[r], job'[r], pending'[r], placed'[r], flags'[r], size', damages)
      BY <1>2 DEF Fits
    <2> QED
      BY <1>3, <2>1, <2>2, StoreMoves
  <1> QED
    BY <1>2, <1>4

\* The steps under the lock that change no file and no count.
LockedQuietly(r) ==
    \/ Locks(r) \/ FindsChanged(r) \/ Walked(r) \/ Resyncs(r) \/ ChecksCap(r) \/ Sweeps(r)
    \/ Evicted(r) \/ Finishes(r) \/ \E f \in Files : WalkSees(r, f)

\* A walk begins with nothing seen.
LEMMA WalkBegins ==
  ASSUME StoreTypes, NEW r \in Runs, Walks(r)
  PROVE  /\ pc' \in [Runs -> StoreSteps] /\ found' \in [Runs -> [Files -> Nat]]
         /\ left' \in [Runs -> SUBSET Files]
         /\ pc'[r] = "walk" /\ found'[r] = Unseen /\ left'[r] = Files
         /\ \A q \in Runs \ {r} : pc'[q] = pc[q] /\ found'[q] = found[q] /\ left'[q] = left[q]
  <1>1. Unseen \in [Files -> Nat] /\ "walk" \in StoreSteps
    BY DEF Unseen, StoreSteps, UnderLock
  <1>2. /\ pc' = [pc EXCEPT ![r] = "walk"] /\ found' = [found EXCEPT ![r] = Unseen]
        /\ left' = [left EXCEPT ![r] = Files]
    BY DEF Walks, Goto
  <1> QED
    BY <1>1, <1>2 DEF StoreTypes

\* Reading `size` goes on or begins a walk.
LEMMA SizeIsRead ==
  ASSUME StoreTypes, NEW r \in Runs, NEW step \in StoreSteps, ReadsSize(r, step)
  PROVE  /\ pc' \in [Runs -> StoreSteps] /\ found' \in [Runs -> [Files -> Nat]]
         /\ left' \in [Runs -> SUBSET Files]
         /\ \A q \in Runs \ {r} : pc'[q] = pc[q] /\ found'[q] = found[q] /\ left'[q] = left[q]
         /\ size \in Nat => pc'[r] = step /\ found'[r] = found[r] /\ left'[r] = left[r]
         /\ size \notin Nat => pc'[r] = "walk" /\ found'[r] = Unseen /\ left'[r] = Files
  <1>1. CASE size \in Nat
    <2>1. pc' = [pc EXCEPT ![r] = step] /\ found' = found /\ left' = left
      BY <1>1 DEF ReadsSize, Goto, walk
    <2> QED
      BY <1>1, <2>1 DEF StoreTypes
  <1>2. CASE size \notin Nat
    <2>1. Walks(r)
      BY <1>2 DEF ReadsSize
    <2> QED
      BY <1>2, <2>1, WalkBegins
  <1> QED
    BY <1>1, <1>2

\* A job begun under the lock.
LEMMA JobBegins ==
  ASSUME StoreTypes, NEW r \in Runs, NEW kind \in StoreKinds, Job(r, kind, None)
  PROVE  /\ job' \in [Runs -> JobType] /\ \A q \in Runs \ {r} : job'[q] = job[q]
         /\ job'[r].kind = kind /\ job'[r].add = 0 /\ job'[r].sub = 0
  <1> DEFINE j == [NoJob EXCEPT !.kind = kind, !.file = None]
  <1>1. job' = [job EXCEPT ![r] = j]
    BY DEF Job
  <1>2. PICK b : b = [NoJob EXCEPT !.kind = kind, !.file = None]
    OBVIOUS
  <1>3. b.kind = kind /\ b.add = 0 /\ b.sub = 0
    BY <1>2 DEF NoJob
  <1>4. b \in JobType
    BY <1>2 DEF NoJob, JobType
  <1>5. j = b
    BY <1>2
  <1> HIDE DEF j
  <1> QED
    BY <1>1, <1>3, <1>4, <1>5 DEF StoreTypes

\* What a step under the lock leaves alone.
Steady == held' = held /\ bad' = bad /\ size' = size /\ pending' = pending
          /\ kills' = kills /\ damages' = damages /\ changes' = changes

\* Those steps keep the invariant.
LEMMA LockedQuiet ==
  ASSUME StoreInv, NEW r \in Runs, LockedQuietly(r)
  PROVE  /\ StoreInv' /\ Stand(r) /\ Steady /\ (drifted => drifted')
         /\ ("admitted" \in flags'[r] => "admitted" \in flags[r])
  <1>1. /\ StoreTypes /\ (damages = 0 => bad = {})
        /\ RunTold(pc[r], job[r], pending[r], placed[r], flags[r], size, damages)
        /\ (lock = r <=> pc[r] \in UnderLock) /\ None \notin Runs
        /\ pc[r] \in StoreSteps /\ left[r] \in SUBSET Files /\ found[r] \in [Files -> Nat]
        /\ flags[r] \in FlagSets
    BY StoreAssumption DEF StoreInv, LockHeld, StoreTypes
  <1> DEFINE Rest == /\ StoreTypes' /\ Stand(r) /\ Steady /\ LockMoves(r) /\ (drifted => drifted')
                     /\ ("admitted" \in flags'[r] => "admitted" \in flags[r])
             Fits == RunTold(pc'[r], job'[r], pending'[r], placed'[r], flags'[r], size', damages)
  <1>2. Rest /\ Fits
    <2> USE DEF UnderLock
    <2>1. CASE Locks(r)
      <3>1. /\ pc[r] = "lock" /\ lock = None /\ Needed(r) /\ lock' = r
            /\ UNCHANGED <<held, bad, size, job, pending, placed, flags, changes, damages, kills, drifted>>
        BY <2>1 DEF Locks, files, bounds
      <3>2. "change" \in StoreSteps /\ "flush" \in StoreSteps
        BY DEF StoreSteps
      <3>3. CASE job[r].kind = "first"
        <4>1. Walks(r) /\ size = Missing
          BY <2>1, <3>1, <3>3 DEF Locks, Needed
        <4>2. /\ pc' \in [Runs -> StoreSteps] /\ found' \in [Runs -> [Files -> Nat]]
              /\ left' \in [Runs -> SUBSET Files] /\ pc'[r] = "walk"
              /\ \A q \in Runs \ {r} : pc'[q] = pc[q] /\ found'[q] = found[q] /\ left'[q] = left[q]
          BY <1>1, <4>1, WalkBegins
        <4>3. Rest
          BY <1>1, <3>1, <4>2 DEF StoreTypes, Stand, Steady, LockMoves
        <4>4. Fits
          BY <1>1, <3>1, <3>3, <4>2 DEF RunTold, JobFits, KindFits, PendingFits, Uncounting, Changers, Flushers, Walkers
        <4> QED
          BY <4>3, <4>4
      <3>4. CASE job[r].kind \in {"flush", "finish"}
        <4>1. pc' = [pc EXCEPT ![r] = "flush"] /\ found' = found /\ left' = left
          BY <2>1, <3>1, <3>4 DEF Locks, Goto, walk
        <4>2. Rest /\ pc'[r] = "flush"
          BY <1>1, <3>1, <3>2, <4>1 DEF StoreTypes, Stand, Steady, LockMoves
        <4>3. Fits
          BY <1>1, <3>1, <3>4, <4>2 DEF RunTold, JobFits, KindFits, PendingFits, Uncounting, Changers, Flushers, Steady
        <4> QED
          BY <4>2, <4>3
      <3>5. CASE job[r].kind \notin {"first", "flush", "finish"}
        <4>1. ReadsSize(r, "change")
          BY <2>1, <3>1, <3>5 DEF Locks
        <4>2. /\ pc' \in [Runs -> StoreSteps] /\ found' \in [Runs -> [Files -> Nat]]
              /\ left' \in [Runs -> SUBSET Files]
              /\ \A q \in Runs \ {r} : pc'[q] = pc[q] /\ found'[q] = found[q] /\ left'[q] = left[q]
              /\ (size \in Nat => pc'[r] = "change") /\ (size \notin Nat => pc'[r] = "walk")
          BY <1>1, <3>2, <4>1, SizeIsRead
        <4>3. Rest
          BY <1>1, <3>1, <4>2 DEF StoreTypes, Stand, Steady, LockMoves
        <4>4. Fits
          BY <1>1, <3>1, <3>5, <4>2 DEF RunTold, JobFits, KindFits, PendingFits, Uncounting, Changers, Flushers, Walkers
        <4> QED
          BY <4>3, <4>4
      <3> QED
        BY <3>3, <3>4, <3>5
    <2>2. CASE FindsChanged(r)
      <3>1. /\ pc[r] = "change" /\ lock' = None /\ pc' = [pc EXCEPT ![r] = "open"]
            /\ found' = [found EXCEPT ![r] = Unseen] /\ Job(r, "none", None)
            /\ UNCHANGED <<held, bad, size, pending, placed, flags, left, changes, damages, kills, drifted>>
        BY <2>2 DEF FindsChanged, Goto, files, bounds
      <3>2. "none" \in StoreKinds /\ Unseen \in [Files -> Nat] /\ "open" \in StoreSteps
        BY DEF StoreKinds, Unseen, StoreSteps
      <3>3. /\ job' \in [Runs -> JobType] /\ \A q \in Runs \ {r} : job'[q] = job[q]
            /\ job'[r].kind = "none"
        BY <1>1, <3>1, <3>2, JobBegins
      <3>4. Rest /\ pc'[r] = "open"
        BY <1>1, <3>1, <3>2, <3>3 DEF StoreTypes, Stand, Steady, LockMoves
      <3>5. Fits
        BY <1>1, <3>1, <3>3, <3>4 DEF RunTold, JobFits, KindFits, PendingFits, Uncounting, Changers, Flushers
      <3> QED
        BY <3>4, <3>5
    <2>3. CASE Walked(r)
      <3> DEFINE step == CASE job[r].kind \in {"admit", "put", "remove"} -> "change"
                           [] job[r].kind = "capped" -> "cap"
                           [] job[r].kind = "sweep"  -> "sweep"
                           [] OTHER -> "count"
                 rest == IF job[r].kind = "sweep" THEN {f \in Files : found[r][f] # 0} ELSE {}
      <3>1. /\ pc[r] = "walk" /\ pc' = [pc EXCEPT ![r] = step] /\ left' = [left EXCEPT ![r] = rest]
            /\ UNCHANGED <<held, bad, size, lock, job, pending, placed, flags, found, changes, damages, kills, drifted>>
        BY <2>3 DEF Walked, Goto, files, bounds
      <3>2. step \in {"change", "cap", "sweep", "count"} /\ rest \in SUBSET Files
            /\ {"change", "cap", "sweep", "count"} \subseteq StoreSteps
        BY DEF StoreSteps
      <3>3. /\ (job[r].kind \in Changers => step = "change") /\ (job[r].kind = "capped" => step = "cap")
            /\ (job[r].kind = "sweep" => step = "sweep")
            /\ (job[r].kind \in Flushers \cup {"first", "resync"} => step = "count")
        BY DEF Changers, Flushers
      <3> HIDE DEF step, rest
      <3>4. Rest /\ pc'[r] = step
        BY <1>1, <3>1, <3>2 DEF StoreTypes, Stand, Steady, LockMoves
      <3>5. Fits
        BY <1>1, <3>1, <3>3, <3>4 DEF RunTold, JobFits, KindFits, PendingFits, Uncounting, Changers, Flushers, Walkers
      <3> QED
        BY <3>4, <3>5
    <2>4. CASE Resyncs(r) \/ Sweeps(r)
      <3>1. PICK kind \in {"resync", "sweep"} :
                /\ pc[r] \in {"flushed", "cap"} /\ Job(r, kind, None) /\ Walks(r)
                /\ UNCHANGED <<held, bad, size, lock, pending, placed, flags, changes, damages, kills, drifted>>
        BY <2>4 DEF Resyncs, Sweeps, files, bounds
      <3>2. kind \in StoreKinds
        BY DEF StoreKinds, Walkers
      <3>3. /\ job' \in [Runs -> JobType] /\ \A q \in Runs \ {r} : job'[q] = job[q]
            /\ job'[r].kind = kind
        BY <1>1, <3>1, <3>2, JobBegins
      <3>4. /\ pc' \in [Runs -> StoreSteps] /\ found' \in [Runs -> [Files -> Nat]]
            /\ left' \in [Runs -> SUBSET Files] /\ pc'[r] = "walk"
            /\ \A q \in Runs \ {r} : pc'[q] = pc[q] /\ found'[q] = found[q] /\ left'[q] = left[q]
        BY <1>1, <3>1, WalkBegins
      <3>5. Rest
        BY <1>1, <3>1, <3>3, <3>4 DEF StoreTypes, Stand, Steady, LockMoves
      <3>6. Fits
        BY <1>1, <3>1, <3>3, <3>4 DEF RunTold, JobFits, KindFits, PendingFits, Uncounting, Changers, Flushers, Walkers
      <3> QED
        BY <3>5, <3>6
    <2>5. CASE ChecksCap(r)
      <3>1. /\ pc[r] = "flushed" /\ Job(r, "capped", None) /\ ReadsSize(r, "cap")
            /\ UNCHANGED <<held, bad, size, lock, pending, placed, flags, changes, damages, kills, drifted>>
        BY <2>5 DEF ChecksCap, files, bounds
      <3>2. "capped" \in StoreKinds /\ "cap" \in StoreSteps
        BY DEF StoreKinds, Walkers, StoreSteps
      <3>3. /\ job' \in [Runs -> JobType] /\ \A q \in Runs \ {r} : job'[q] = job[q]
            /\ job'[r].kind = "capped"
        BY <1>1, <3>1, <3>2, JobBegins
      <3>4. /\ pc' \in [Runs -> StoreSteps] /\ found' \in [Runs -> [Files -> Nat]]
            /\ left' \in [Runs -> SUBSET Files]
            /\ \A q \in Runs \ {r} : pc'[q] = pc[q] /\ found'[q] = found[q] /\ left'[q] = left[q]
            /\ (size \in Nat => pc'[r] = "cap") /\ (size \notin Nat => pc'[r] = "walk")
        BY <1>1, <3>1, <3>2, SizeIsRead
      <3>5. Rest
        BY <1>1, <3>1, <3>3, <3>4 DEF StoreTypes, Stand, Steady, LockMoves
      <3>6. Fits
        BY <1>1, <3>1, <3>3, <3>4 DEF RunTold, JobFits, KindFits, PendingFits, Uncounting, Changers, Flushers, Walkers
      <3> QED
        BY <3>5, <3>6
    <2>6. CASE Evicted(r)
      <3>1. /\ pc[r] = "sweep" /\ pc' = [pc EXCEPT ![r] = "count"] /\ left' = [left EXCEPT ![r] = {}]
            /\ UNCHANGED <<held, bad, size, lock, job, pending, placed, flags, found, changes, damages, kills, drifted>>
        BY <2>6 DEF Evicted, Goto, files, bounds
      <3>2. Rest /\ pc'[r] = "count"
        BY <1>1, <3>1 DEF StoreTypes, StoreSteps, Stand, Steady, LockMoves
      <3>3. Fits
        BY <1>1, <3>1, <3>2 DEF RunTold, JobFits, KindFits, PendingFits, Uncounting, Changers, Flushers, Walkers
      <3> QED
        BY <3>2, <3>3
    <2>7. CASE Finishes(r)
      <3>1. /\ pc[r] \in {"cap", "swept"} /\ lock' = None /\ EndRun(r)
            /\ UNCHANGED <<held, bad, size, changes, damages, kills, drifted>>
            /\ UNCHANGED <<files, changes, damages, drifted>>
        BY <2>7 DEF Finishes, files, bounds
      <3>2. size' \in Nat \cup {Missing, Torn} /\ lock' \in Runs \cup {None} /\ kills' \in Nat
        BY <1>1, <3>1 DEF StoreTypes
      <3>3. /\ StoreTypes' /\ Stand(r) /\ pc'[r] = "none" /\ pending'[r] = 0 /\ placed'[r] = 0 /\ flags'[r] = {}
            /\ Fits
        BY <3>1, <3>2, EndsTyped
      <3>4. pending[r] = 0
        BY <1>1, <3>1 DEF RunTold, PendingFits
      <3>5. pending' = pending
        BY <1>1, <3>3, <3>4 DEF StoreTypes, Stand
      <3>6. LockMoves(r)
        BY <1>1, <3>1, <3>3 DEF LockMoves
      <3> QED
        BY <1>1, <3>1, <3>3, <3>5, <3>6 DEF Steady
    <2>8. ASSUME NEW f \in Files, WalkSees(r, f)
          PROVE  Rest /\ Fits
      <3>1. /\ pc[r] = "walk" /\ f \in left[r]
            /\ found' = [found EXCEPT ![r][f] = held[f]] /\ left' = [left EXCEPT ![r] = @ \ {f}]
            /\ drifted' = (drifted \/ (size # Missing /\ \E q \in Runs : pending[q] # 0))
            /\ UNCHANGED <<held, bad, size, lock, pc, job, pending, placed, flags, changes, damages, kills>>
        BY <2>8 DEF WalkSees, files, bounds
      <3>2. drifted' \in BOOLEAN /\ (drifted => drifted')
        BY <1>1, <3>1 DEF StoreTypes
      <3>3. Rest
        BY <1>1, <3>1, <3>2 DEF StoreTypes, Stand, Steady, LockMoves
      <3>4. Fits
        BY <1>1, <3>1
      <3> QED
        BY <3>3, <3>4
    <2> QED
      BY <2>1, <2>2, <2>3, <2>4, <2>5, <2>6, <2>7, <2>8 DEF LockedQuietly
  <1>3. SizeMoves(r)
    BY <1>2 DEF SizeMoves, Steady
  <1>4. StoreInv'
    <2>1. StoreTypes' /\ Stand(r) /\ LockMoves(r) /\ damages' = damages /\ (damages = 0 => bad' = {}) /\ kills' = kills
      BY <1>1, <1>2 DEF Steady
    <2> HIDE DEF Rest, Fits
    <2>2. RunTold(pc'[r], job'[r], pending'[r], placed'[r], flags'[r], size', damages)
      BY <1>2 DEF Fits
    <2> QED
      BY <1>3, <2>1, <2>2, StoreMoves
  <1> QED
    BY <1>2, <1>4

\* The steps that change a file or a count.
LEMMA RenamesFits ==
  ASSUME StoreInv, NEW r \in Runs, Renames(r)
  PROVE  /\ StoreInv' /\ Stand(r) /\ pc[r] = "place" /\ pc'[r] \in {"lock", "open"}
         /\ job[r].file \in Blobs /\ held[job[r].file] = 0
         /\ held' = [held EXCEPT ![job[r].file] = Length[job[r].file]]
         /\ pending' = [pending EXCEPT ![r] = @ + Length[job[r].file]]
         /\ size' = size /\ kills' = kills /\ damages' = damages /\ drifted' = drifted
         /\ size # Missing /\ "admitted" \in flags'[r]
  <1> DEFINE f == job[r].file
             step == IF placed'[r] = 0 THEN "lock" ELSE "open"
             kind == IF placed'[r] = 0 THEN "flush" ELSE "none"
  <1>1. /\ StoreTypes /\ (damages = 0 => bad = {})
        /\ RunTold(pc[r], job[r], pending[r], placed[r], flags[r], size, damages)
        /\ (lock = r <=> pc[r] \in UnderLock) /\ FlushEvery \in Nat /\ 1 <= FlushEvery
        /\ placed[r] \in 0 .. FlushEvery - 1 /\ pending[r] \in Nat
    BY StoreAssumption DEF StoreInv, LockHeld, StoreTypes
  <1>2. /\ pc[r] = "place" /\ held[f] = 0 /\ held' = [held EXCEPT ![f] = Length[f]]
        /\ pending' = [pending EXCEPT ![r] = @ + Length[f]]
        /\ placed' = [placed EXCEPT ![r] = (@ + 1) % FlushEvery]
        /\ flags' = [flags EXCEPT ![r] = @ \cup {"admitted"}]
        /\ Job(r, kind, None) /\ pc' = [pc EXCEPT ![r] = step]
        /\ UNCHANGED <<bad, size, lock, found, left, changes, damages, kills, drifted>>
    BY DEF Renames, Goto, walk, bounds
  <1>3. f \in Blobs /\ f \in Files /\ Length[f] \in Nat /\ 0 < Length[f] /\ Length[f] <= LongestFile
    BY <1>1, <1>2, StoreShape DEF RunTold, JobFits, KindFits
  <1>4. /\ placed'[r] \in 0 .. FlushEvery - 1
        /\ placed'[r] = IF placed[r] + 1 = FlushEvery THEN 0 ELSE placed[r] + 1
    <2>1. placed'[r] = (placed[r] + 1) % FlushEvery
      BY <1>1, <1>2 DEF StoreTypes
    <2>2. \A b \in Nat, a \in Nat : a < b => a % b = a
      OBVIOUS
    <2>3. \A b \in Nat : 1 <= b => b % b = 0
      OBVIOUS
    <2>4. placed[r] + 1 \in Nat /\ placed[r] + 1 <= FlushEvery
      BY <1>1
    <2>5. CASE placed[r] + 1 = FlushEvery
      <3>1. placed'[r] = FlushEvery % FlushEvery
        BY <2>1, <2>5
      <3>2. placed'[r] = 0
        BY <1>1, <2>3, <3>1
      <3> QED
        BY <1>1, <2>5, <3>2
    <2>6. CASE placed[r] + 1 < FlushEvery
      <3>1. placed'[r] = placed[r] + 1
        BY <1>1, <2>1, <2>2, <2>4, <2>6
      <3> QED
        BY <1>1, <2>4, <2>6, <3>1
    <2> QED
      BY <1>1, <2>4, <2>5, <2>6
  <1>5. kind \in StoreKinds /\ step \in StoreSteps /\ step \in {"lock", "open"}
    BY DEF StoreKinds, Flushers, StoreSteps
  <1>6. /\ job' \in [Runs -> JobType] /\ (\A q \in Runs \ {r} : job'[q] = job[q])
        /\ job'[r].kind = kind /\ job'[r].sub = 0
    BY <1>1, <1>2, <1>5, JobBegins DEF StoreTypes
  <1>7. /\ pending'[r] = pending[r] + Length[f] /\ pending'[r] \in Nat
        /\ flags'[r] = flags[r] \cup {"admitted"} /\ pc'[r] = step
    BY <1>1, <1>2, <1>3 DEF StoreTypes
  <1>8. StoreTypes'
    <2> HIDE DEF f, kind, step
    <2>1. held' \in [Files -> Nat]
      BY <1>1, <1>2, <1>3 DEF StoreTypes
    <2>2. pending' \in [Runs -> Nat]
      BY <1>1, <1>2, <1>7 DEF StoreTypes
    <2>3. placed' \in [Runs -> 0 .. FlushEvery - 1]
      BY <1>1, <1>2, <1>4 DEF StoreTypes
    <2>4. flags' \in [Runs -> FlagSets] /\ pc' \in [Runs -> StoreSteps]
      BY <1>1, <1>2, <1>5 DEF StoreTypes, FlagSets
    <2> QED
      BY <1>1, <1>2, <1>6, <2>1, <2>2, <2>3, <2>4 DEF StoreTypes
  <1>9. Stand(r)
    BY <1>1, <1>2, <1>6 DEF StoreTypes, Stand
  <1>10. LockMoves(r) /\ SizeMoves(r)
    BY <1>1, <1>2, <1>5, <1>7 DEF LockMoves, SizeMoves, UnderLock
  <1>11. pending[r] <= placed[r] * LongestFile /\ size # Missing
    BY <1>1, <1>2 DEF RunTold, PendingFits, JobFits, KindFits, Uncounting
  <1>12. pending'[r] <= (placed[r] + 1) * LongestFile
    <2>1. LongestFile \in Nat /\ placed[r] \in Nat
      BY <1>1, StoreShape
    <2>2. (placed[r] + 1) * LongestFile = placed[r] * LongestFile + LongestFile
      BY <2>1
    <2>3. placed[r] * LongestFile \in Nat
      BY <2>1
    <2> QED
      BY <1>1, <1>3, <1>7, <1>11, <2>1, <2>2, <2>3
  <1>13. RunTold(pc'[r], job'[r], pending'[r], placed'[r], flags'[r], size', damages)
    <2>1. CASE placed[r] + 1 = FlushEvery
      <3>1. pending'[r] <= KillLoss /\ 0 < pending'[r]
        BY <1>1, <1>3, <1>7, <1>12, <2>1, StoreShape
      <3>2. job'[r].kind = "flush" /\ job'[r].sub = 0 /\ pc'[r] = "lock"
        BY <1>4, <1>6, <1>7, <2>1
      <3> HIDE DEF f, kind, step
      <3> QED
        BY <1>2, <1>7, <1>11, <3>1, <3>2 DEF RunTold, JobFits, KindFits, PendingFits, Uncounting, Changers, Flushers
    <2>2. CASE placed[r] + 1 # FlushEvery
      <3>1. pending'[r] <= placed'[r] * LongestFile
        BY <1>4, <1>12, <2>2
      <3>2. job'[r].kind = "none" /\ pc'[r] = "open"
        <4>1. placed'[r] # 0
          BY <1>1, <1>4, <2>2
        <4> QED
          BY <1>6, <1>7, <4>1
      <3> HIDE DEF f, kind, step
      <3> QED
        BY <1>2, <1>7, <1>11, <3>1, <3>2 DEF RunTold, JobFits, KindFits, PendingFits, Uncounting, Changers, Flushers
    <2> QED
      BY <2>1, <2>2
  <1>14. StoreInv'
    BY <1>1, <1>2, <1>8, <1>9, <1>10, <1>13, StoreMoves
  <1> QED
    BY <1>2, <1>3, <1>5, <1>7, <1>9, <1>11, <1>14

\* A change under the lock notes what it adds and takes.
LEMMA ChangesFits ==
  ASSUME StoreInv, NEW r \in Runs, Changes(r)
  PROVE  /\ StoreInv' /\ Stand(r) /\ pc[r] = "change" /\ pc'[r] = "count" /\ Kind(r) \in Changers
         /\ job[r].file \in Files /\ job'[r].kind = Kind(r)
         /\ \E n \in Nat :
              /\ held' = [held EXCEPT ![job[r].file] = n]
              /\ job'[r].add = n /\ job'[r].sub = held[job[r].file]
              /\ Kind(r) = "admit" => n = Length[job[r].file] /\ held[job[r].file] = 0 /\ job[r].file \in Blobs
              /\ Kind(r) = "put" => job[r].file \in Views
              /\ Kind(r) = "remove" => n = 0 /\ (damages = 0 => job[r].file \in Views)
         /\ size' = size /\ kills' = kills /\ damages' = damages /\ drifted' = drifted
         /\ pending' = pending /\ found' = found /\ flags' = flags /\ left' = left
  <1> DEFINE f == job[r].file
  <1>1. /\ StoreTypes /\ (damages = 0 => bad = {})
        /\ RunTold(pc[r], job[r], pending[r], placed[r], flags[r], size, damages)
        /\ (lock = r <=> pc[r] \in UnderLock)
        /\ pending[r] \in Nat /\ job[r] \in JobType
    BY DEF StoreInv, LockHeld, StoreTypes
  <1>2. /\ pc[r] = "change" /\ pc' = [pc EXCEPT ![r] = "count"] /\ bad' = bad \ {f}
        /\ job' = [job EXCEPT ![r].add = held'[f], ![r].sub = held[f]]
        /\ UNCHANGED <<size, lock, pending, placed, flags, found, left, changes, damages, kills, drifted>>
    BY DEF Changes, Goto, walk, bounds
  <1>3. /\ job[r].kind \in Changers /\ Kind(r) = job[r].kind /\ f \in Files
        /\ (job[r].kind = "admit" => f \in Blobs)
        /\ (job[r].kind = "put" => f \in Views) /\ (job[r].kind = "remove" /\ damages = 0 => f \in Views)
    BY <1>1, <1>2, StoreShape DEF RunTold, JobFits, KindFits, Changers, Kind
  <1>4. held[f] \in Nat /\ Length[f] \in Nat /\ Length[f] <= LongestFile /\ LongestFile \in Nat
    BY <1>1, <1>3, StoreShape DEF StoreTypes
  <1>5. PICK n \in Nat : /\ held' = [held EXCEPT ![f] = n] /\ n <= LongestFile
                         /\ (job[r].kind = "admit" => n = Length[f] /\ held[f] = 0)
                         /\ (job[r].kind = "remove" => n = 0)
    <2>1. CASE job[r].kind = "admit" /\ held[f] = 0 /\ held' = [held EXCEPT ![f] = Length[f]]
      BY <1>4, <2>1
    <2>2. CASE job[r].kind = "put" /\ \E length \in 1 .. Length[f] : held' = [held EXCEPT ![f] = length]
      <3>1. PICK length \in 1 .. Length[f] : held' = [held EXCEPT ![f] = length]
        BY <2>2
      <3>2. length \in Nat /\ length <= LongestFile
        BY <1>4
      <3> QED
        BY <2>2, <3>1, <3>2
    <2>3. CASE job[r].kind = "remove" /\ held' = [held EXCEPT ![f] = 0]
      <3>1. 0 \in Nat /\ 0 <= LongestFile
        BY <1>4
      <3> QED
        BY <2>3, <3>1
    <2> QED
      BY <2>1, <2>2, <2>3 DEF Changes
  <1>6. held' \in [Files -> Nat] /\ held'[f] = n
    BY <1>1, <1>3, <1>5 DEF StoreTypes
  <1>7. /\ job' \in [Runs -> JobType] /\ (\A q \in Runs \ {r} : job'[q] = job[q])
        /\ job'[r].kind = job[r].kind /\ job'[r].file = f /\ job'[r].add = n /\ job'[r].sub = held[f]
    <2>1. job' = [job EXCEPT ![r] = [job[r] EXCEPT !.add = n, !.sub = held[f]]]
      BY <1>1, <1>2, <1>6 DEF StoreTypes
    <2>2. PICK b : b = [job[r] EXCEPT !.add = n, !.sub = held[f]]
      OBVIOUS
    <2>3. b.kind = job[r].kind /\ b.file = f /\ b.add = n /\ b.sub = held[f] /\ b \in JobType
      <3> HIDE DEF f
      <3>1. job[r].file = f
        BY DEF f
      <3> QED
        BY <1>1, <1>4, <2>2, <3>1 DEF JobType
    <2> QED
      BY <1>1, <2>1, <2>2, <2>3 DEF StoreTypes
  <1>8. pc'[r] = "count" /\ StoreTypes' /\ Stand(r)
    BY <1>1, <1>2, <1>6, <1>7 DEF StoreTypes, Stand, StoreSteps, UnderLock
  <1>9. LockMoves(r) /\ SizeMoves(r)
    BY <1>1, <1>2, <1>8 DEF LockMoves, SizeMoves, UnderLock
  <1>10. RunTold(pc'[r], job'[r], pending'[r], placed'[r], flags'[r], size', damages)
    BY <1>1, <1>2, <1>3, <1>5, <1>7, <1>8 DEF RunTold, JobFits, KindFits, PendingFits, Uncounting, Changers, Flushers
  <1>11. StoreInv'
    BY <1>1, <1>2, <1>8, <1>9, <1>10, StoreMoves
  <1> QED
    BY <1>2, <1>3, <1>5, <1>7, <1>8, <1>11

\* A flush takes over what its run has yet to count.
LEMMA FlushesFits ==
  ASSUME StoreInv, NEW r \in Runs, Flushes(r)
  PROVE  /\ StoreInv' /\ Stand(r) /\ pc[r] = "flush" /\ Kind(r) \in Flushers /\ job'[r].kind = Kind(r)
         /\ pending' = [pending EXCEPT ![r] = 0] /\ job'[r].add = pending[r]
         /\ held' = held /\ size' = size /\ kills' = kills /\ damages' = damages
         /\ drifted' = drifted /\ flags' = flags
         /\ pending[r] = 0 => pc'[r] = "flushed"
         /\ pending[r] # 0 /\ size \in Nat => pc'[r] = "count" /\ job'[r].sub = 0
         /\ pending[r] # 0 /\ size \notin Nat => pc'[r] = "walk" /\ found'[r] = Unseen /\ left'[r] = Files
  <1>1. /\ StoreTypes /\ (damages = 0 => bad = {})
        /\ RunTold(pc[r], job[r], pending[r], placed[r], flags[r], size, damages)
        /\ (lock = r <=> pc[r] \in UnderLock)
        /\ pending[r] \in Nat /\ job[r] \in JobType
    BY DEF StoreInv, LockHeld, StoreTypes
  <1>2. /\ pc[r] = "flush" /\ pending' = [pending EXCEPT ![r] = 0]
        /\ job' = [job EXCEPT ![r].add = pending[r]]
        /\ UNCHANGED <<held, bad, size, lock, placed, flags, changes, damages, kills, drifted>>
    BY DEF Flushes, files, bounds
  <1>3. job[r].kind \in Flushers /\ job[r].sub = 0 /\ Kind(r) = job[r].kind
    BY <1>1, <1>2 DEF RunTold, JobFits, KindFits, Kind
  <1>4. pending[r] <= KillLoss
    <2>1. /\ placed[r] \in Nat /\ FlushEvery \in Nat /\ placed[r] <= FlushEvery /\ LongestFile \in Nat
          /\ KillLoss = FlushEvery * LongestFile /\ KillLoss \in Nat
      BY <1>1, StoreAssumption, StoreShape DEF StoreTypes
    <2>2. placed[r] * LongestFile <= FlushEvery * LongestFile
      BY <2>1, TimesAtMost
    <2>3. pending[r] <= KillLoss \/ pending[r] <= placed[r] * LongestFile
      BY <1>1, <1>2 DEF RunTold, PendingFits
    <2>4. placed[r] * LongestFile \in Nat
      BY <2>1
    <2> QED
      BY <1>1, <2>1, <2>2, <2>3, <2>4
  <1>5. /\ job' \in [Runs -> JobType] /\ (\A q \in Runs \ {r} : job'[q] = job[q])
        /\ job'[r].kind = job[r].kind /\ job'[r].add = pending[r] /\ job'[r].sub = 0
        /\ job'[r].file = job[r].file
    <2>1. job' = [job EXCEPT ![r] = [job[r] EXCEPT !.add = pending[r]]]
      BY <1>1, <1>2 DEF StoreTypes
    <2>2. PICK b : b = [job[r] EXCEPT !.add = pending[r]]
      OBVIOUS
    <2>3. b.kind = job[r].kind /\ b.file = job[r].file /\ b.add = pending[r] /\ b.sub = 0 /\ b \in JobType
      BY <1>1, <1>3, <2>2 DEF JobType
    <2> QED
      BY <1>1, <2>1, <2>2, <2>3 DEF StoreTypes
  <1>6. pending' \in [Runs -> Nat] /\ pending'[r] = 0 /\ (\A q \in Runs \ {r} : pending'[q] = pending[q])
    BY <1>1, <1>2 DEF StoreTypes
  <1>7. /\ pc' \in [Runs -> StoreSteps] /\ found' \in [Runs -> [Files -> Nat]]
        /\ left' \in [Runs -> SUBSET Files]
        /\ (\A q \in Runs \ {r} : pc'[q] = pc[q] /\ found'[q] = found[q] /\ left'[q] = left[q])
        /\ (pending[r] = 0 => pc'[r] = "flushed") /\ (pending[r] # 0 /\ size \in Nat => pc'[r] = "count")
        /\ (pending[r] # 0 /\ size \notin Nat => pc'[r] = "walk" /\ found'[r] = Unseen /\ left'[r] = Files)
    <2>1. "flushed" \in StoreSteps /\ "count" \in StoreSteps
      BY DEF StoreSteps, UnderLock
    <2>2. CASE pending[r] = 0
      <3>1. pc' = [pc EXCEPT ![r] = "flushed"] /\ found' = found /\ left' = left
        BY <2>2 DEF Flushes, Goto, walk
      <3> QED
        BY <1>1, <2>1, <2>2, <3>1 DEF StoreTypes
    <2>3. CASE pending[r] # 0
      <3>1. ReadsSize(r, "count")
        BY <2>3 DEF Flushes
      <3> QED
        BY <1>1, <2>1, <2>3, <3>1, SizeIsRead
    <2> QED
      BY <2>2, <2>3
  <1>8. StoreTypes' /\ Stand(r)
    BY <1>1, <1>2, <1>5, <1>6, <1>7 DEF StoreTypes, Stand
  <1>9. pc'[r] \in {"flushed", "count", "walk"} /\ (pc'[r] = "walk" => size \notin Nat)
        /\ (pc'[r] = "flushed" => pending[r] = 0) /\ (pc'[r] # "flushed" => pending[r] # 0)
    BY <1>7
  <1>10. LockMoves(r) /\ SizeMoves(r)
    BY <1>1, <1>2, <1>9 DEF LockMoves, SizeMoves, UnderLock
  <1>11. RunTold(pc'[r], job'[r], pending'[r], placed'[r], flags'[r], size', damages)
    <2>1. 0 <= placed'[r] * LongestFile
      <3>1. placed'[r] \in Nat /\ LongestFile \in Nat
        BY <1>1, <1>2, StoreShape, StoreAssumption DEF StoreTypes
      <3> QED
        BY <3>1
    <2>2. job[r].kind = "flush" => pending[r] # 0
      BY <1>1, <1>2 DEF RunTold, PendingFits
    <2>3. JobFits(pc'[r], job'[r], 0, size, damages)
      BY <1>1, <1>2, <1>3, <1>4, <1>5, <1>9, <2>2 DEF RunTold, JobFits, KindFits, Changers, Flushers, Walkers
    <2>4. PendingFits(pc'[r], job'[r], 0, placed'[r], flags'[r])
      BY <1>3, <1>5, <1>9, <2>1 DEF PendingFits
    <2>5. Uncounting(pc'[r], job'[r], 0, flags'[r], size)
      BY <1>1, <1>2, <1>3, <1>9 DEF RunTold, Uncounting, Flushers
    <2> QED
      BY <1>2, <1>6, <2>3, <2>4, <2>5 DEF RunTold
  <1>12. StoreInv'
    BY <1>1, <1>2, <1>8, <1>10, <1>11, StoreMoves
  <1> QED
    BY <1>2, <1>3, <1>5, <1>7, <1>8, <1>12

\* What is written is a number, and for each kind of job what it says.
LEMMA WrittenIs ==
  ASSUME StoreInv, NEW r \in Runs, pc[r] = "count"
  PROVE  /\ SizeToWrite(r) \in Nat
         /\ Kind(r) \in {"first", "resync", "sweep"} => SizeToWrite(r) = Bytes(found[r])
         /\ Kind(r) \in Flushers /\ size \notin Nat => SizeToWrite(r) = Bytes(found[r])
         /\ Kind(r) \in Flushers /\ size \in Nat => SizeToWrite(r) = size + job[r].add
         /\ Kind(r) \in Changers => SizeToWrite(r) = Minus(SizeRead(r), job[r].sub) + job[r].add
         /\ SizeRead(r) \in Nat
  <1>1. /\ Kind(r) \in Changers \cup Flushers \cup {"first", "resync", "sweep"} /\ Kind(r) = job[r].kind
        /\ (Kind(r) \in Flushers => job[r].sub = 0)
        /\ job[r].add \in Nat /\ job[r].sub \in Nat /\ found[r] \in [Files -> Nat]
    BY RunTypes DEF JobFits, KindFits, Kind
  <1>2. Bytes(found[r]) \in Nat /\ SizeRead(r) \in Nat
    BY <1>1, BytesTyped DEF SizeRead
  <1>3. \A m, n, k \in Nat : Minus(m, n) + k \in Nat /\ Minus(m, 0) = m
    BY DEF Minus
  <1>4. CASE Kind(r) \in {"first", "resync", "sweep"}
    BY <1>1, <1>2, <1>4 DEF SizeToWrite, Changers, Flushers
  <1>5. CASE Kind(r) \in Flushers
    <2>1. size \notin Nat => SizeToWrite(r) = Bytes(found[r])
      BY <1>1, <1>5 DEF SizeToWrite, Flushers
    <2>2. size \in Nat => SizeToWrite(r) = Minus(size, 0) + job[r].add
      BY <1>1, <1>5 DEF SizeToWrite, Flushers, SizeRead
    <2>3. Kind(r) \notin Changers \cup {"first", "resync", "sweep"}
      BY <1>5 DEF Flushers, Changers
    <2>4. size \in Nat => Minus(size, 0) = size /\ size + job[r].add \in Nat
      BY <1>1, <1>3
    <2> QED
      BY <1>2, <1>5, <2>1, <2>2, <2>3, <2>4
  <1>6. CASE Kind(r) \in Changers
    <2>1. SizeToWrite(r) = Minus(SizeRead(r), job[r].sub) + job[r].add
      BY <1>1, <1>6 DEF SizeToWrite, Changers
    <2>2. Kind(r) \notin Flushers \cup {"first", "resync", "sweep"}
      BY <1>6 DEF Flushers, Changers
    <2>3. Minus(SizeRead(r), job[r].sub) + job[r].add \in Nat
      BY <1>1, <1>2, <1>3
    <2> QED
      BY <1>2, <1>6, <2>1, <2>2, <2>3
  <1> QED
    BY <1>1, <1>4, <1>5, <1>6

\* A number is written, and an admission noted.
LEMMA CountsFits ==
  ASSUME StoreInv, NEW r \in Runs, Counts(r)
  PROVE  /\ StoreInv' /\ Stand(r) /\ pc[r] = "count" /\ size' = SizeToWrite(r) /\ size' \in Nat
         /\ held' = held /\ pending' = pending /\ kills' = kills /\ damages' = damages
         /\ drifted' = drifted
         /\ pc'[r] \in {"flushed", "swept", "place", "open"}
         /\ Kind(r) = "sweep" <=> pc'[r] = "swept"
         /\ Duty(r) => "admitted" \in flags'[r]
  <1> DEFINE step == CASE job[r].kind \in {"finish", "resync"} -> "flushed"
                       [] job[r].kind = "sweep" -> "swept"
                       [] job[r].kind = "first" -> "place"
                       [] OTHER -> "open"
             done == CASE job[r].kind \in {"admit", "put"} -> flags[r] \cup {"admitted"}
                       [] job[r].kind = "resync" -> flags[r] \ {"resync"}
                       [] OTHER -> flags[r]
  <1>1. /\ StoreTypes /\ (damages = 0 => bad = {})
        /\ RunTold(pc[r], job[r], pending[r], placed[r], flags[r], size, damages)
        /\ (lock = r <=> pc[r] \in UnderLock)
        /\ pending[r] \in Nat /\ job[r] \in JobType /\ flags[r] \in FlagSets /\ placed[r] \in Nat
    BY DEF StoreInv, LockHeld, StoreTypes
  <1>2. /\ pc[r] = "count" /\ size' = SizeToWrite(r) /\ pc' = [pc EXCEPT ![r] = step]
        /\ lock' = (IF job[r].kind \in {"finish", "resync", "sweep"} THEN lock ELSE None)
        /\ job' = (IF job[r].kind = "first" THEN job ELSE [job EXCEPT ![r] = NoJob])
        /\ found' = [found EXCEPT ![r] = Unseen]
        /\ UNCHANGED <<held, bad, pending, placed, left, changes, damages, kills, drifted>>
    BY DEF Counts, Goto, files, bounds
  <1>3. flags' = [flags EXCEPT ![r] = done]
    BY DEF Counts
  <1>4. /\ Kind(r) = job[r].kind
        /\ job[r].kind \in Changers \cup Flushers \cup {"first", "resync", "sweep"}
    BY <1>1, <1>2 DEF RunTold, JobFits, KindFits, Kind
  <1>5. /\ step \in {"flushed", "swept", "place", "open"} /\ (job[r].kind = "sweep" <=> step = "swept")
        /\ (step = "flushed" <=> job[r].kind \in {"finish", "resync"})
        /\ (step = "place" <=> job[r].kind = "first")
        /\ done \in FlagSets /\ ("admitted" \in flags[r] => "admitted" \in done)
        /\ (job[r].kind \in {"admit", "put"} => "admitted" \in done)
        /\ ("counted" \in done => "counted" \in flags[r])
    BY <1>1, <1>4 DEF FlagSets
  <1>6. NoJob \in JobType /\ NoJob.kind = "none" /\ Unseen \in [Files -> Nat] /\ None \notin Runs
        /\ NoJob.sub = 0
    BY StoreAssumption DEF NoJob, JobType, StoreKinds, Unseen
  <1> HIDE DEF step, done
  <1>7. size' \in Nat
    BY <1>2, WrittenIs
  <1>8. /\ job' \in [Runs -> JobType] /\ (\A q \in Runs \ {r} : job'[q] = job[q])
        /\ job'[r] = (IF job[r].kind = "first" THEN job[r] ELSE NoJob)
    BY <1>1, <1>2, <1>6 DEF StoreTypes
  <1>9. pc'[r] = step /\ flags'[r] = done
    BY <1>1, <1>2, <1>3 DEF StoreTypes
  <1>10. StoreTypes'
    <2>1. step \in StoreSteps
      BY <1>5 DEF StoreSteps, UnderLock
    <2>2. pc' \in [Runs -> StoreSteps] /\ flags' \in [Runs -> FlagSets] /\ found' \in [Runs -> [Files -> Nat]]
      BY <1>1, <1>2, <1>3, <1>5, <1>6, <2>1 DEF StoreTypes
    <2>3. lock' \in Runs \cup {None}
      BY <1>1, <1>2 DEF StoreTypes
    <2> QED
      BY <1>1, <1>2, <1>7, <1>8, <2>2, <2>3 DEF StoreTypes
  <1>11. Stand(r)
    BY <1>1, <1>2, <1>3, <1>8 DEF StoreTypes, Stand
  <1>12. LockMoves(r) /\ SizeMoves(r)
    <2>1. lock = r /\ None # r
      BY <1>1, <1>2, <1>6 DEF UnderLock
    <2>2. pc'[r] \in UnderLock <=> job[r].kind \in {"finish", "resync", "sweep"}
      BY <1>5, <1>9 DEF UnderLock
    <2> QED
      BY <1>2, <1>7, <2>1, <2>2 DEF LockMoves, SizeMoves
  <1>13. RunTold(pc'[r], job'[r], pending'[r], placed'[r], flags'[r], size', damages)
    <2>1. size' # Missing
      BY <1>7, StoreAssumption
    <2>2. PendingFits(pc'[r], job'[r], pending[r], placed[r], flags'[r])
      <3>1. job'[r].kind # "flush"
        BY <1>6, <1>8
      <3>2. pending[r] <= placed[r] * LongestFile
        BY <1>1, <1>2 DEF RunTold, PendingFits
      <3>3. pending[r] # 0 => "admitted" \in flags'[r]
        BY <1>1, <1>5, <1>9 DEF RunTold, PendingFits
      <3>4. step \in {"flushed", "swept"} => pending[r] = 0
        BY <1>1, <1>2, <1>5 DEF RunTold, PendingFits, JobFits, Flushers
      <3> QED
        BY <1>5, <1>9, <3>1, <3>2, <3>3, <3>4 DEF PendingFits
    <2>3. JobFits(pc'[r], job'[r], pending[r], size', damages)
      <3>1. CASE job[r].kind = "first"
        BY <1>1, <1>5, <1>8, <1>9, <3>1 DEF RunTold, JobFits, KindFits, Changers, Flushers
      <3>2. CASE job[r].kind # "first"
        BY <1>5, <1>6, <1>8, <1>9, <3>2 DEF JobFits, KindFits, Changers, Flushers
      <3> QED
        BY <3>1, <3>2
    <2> QED
      BY <1>2, <2>1, <2>2, <2>3 DEF RunTold, Uncounting
  <1>14. StoreInv'
    BY <1>1, <1>2, <1>10, <1>11, <1>12, <1>13, StoreMoves
  <1> QED
    BY <1>2, <1>4, <1>5, <1>7, <1>9, <1>11, <1>14 DEF Duty

\* An eviction takes a file and forgets it was found.
LEMMA EvictsFits ==
  ASSUME StoreInv, NEW r \in Runs, NEW f \in Files, Evicts(r, f)
  PROVE  /\ StoreInv' /\ Stand(r) /\ pc[r] = "sweep" /\ pc' = pc /\ job' = job /\ flags' = flags
         /\ f \in left[r] /\ left'[r] = left[r] \ {f}
         /\ held' = [held EXCEPT ![f] = 0]
         /\ found'[r] = [found[r] EXCEPT ![f] = IF held[f] # 0 THEN 0 ELSE @]
         /\ size' = size /\ pending' = pending /\ kills' = kills /\ damages' = damages
         /\ drifted' = drifted
  <1>1. /\ StoreTypes /\ (damages = 0 => bad = {})
        /\ RunTold(pc[r], job[r], pending[r], placed[r], flags[r], size, damages)
        /\ (lock = r <=> pc[r] \in UnderLock)
    BY DEF StoreInv, LockHeld, StoreTypes
  <1>2. /\ pc[r] = "sweep" /\ f \in left[r] /\ left' = [left EXCEPT ![r] = @ \ {f}]
        /\ found' = [found EXCEPT ![r][f] = IF held[f] # 0 THEN 0 ELSE @]
        /\ held' = [held EXCEPT ![f] = 0] /\ bad' = bad \ {f}
        /\ UNCHANGED <<size, lock, pc, job, pending, placed, flags, changes, damages, kills, drifted>>
    BY DEF Evicts, bounds
  <1>3. /\ found'[r] = [found[r] EXCEPT ![f] = IF held[f] # 0 THEN 0 ELSE @]
        /\ left'[r] = left[r] \ {f}
    BY <1>1, <1>2 DEF StoreTypes
  <1>4. StoreTypes' /\ Stand(r)
    BY <1>1, <1>2 DEF StoreTypes, Stand
  <1>5. LockMoves(r) /\ SizeMoves(r)
    BY <1>1, <1>2 DEF LockMoves, SizeMoves, UnderLock
  <1>6. StoreInv'
    BY <1>1, <1>2, <1>4, <1>5, StoreMoves
  <1> QED
    BY <1>2, <1>3, <1>4, <1>6

\* A kill loses what its run had yet to count.
LEMMA KillFits ==
  ASSUME StoreInv, NEW r \in Runs, Kill(r)
  PROVE  /\ StoreInv' /\ Stand(r) /\ pc'[r] = "none" /\ pending' = [pending EXCEPT ![r] = 0]
         /\ held' = held /\ kills' = kills + 1 /\ kills' # 0
         /\ size' = size \/ (pc[r] = "count" /\ size' \notin Nat)
  <1>1. /\ StoreTypes /\ (damages = 0 => bad = {}) /\ kills \in Nat
        /\ (lock = r <=> pc[r] \in UnderLock)
    BY DEF StoreInv, LockHeld, StoreTypes
  <1>2. /\ kills' = kills + 1 /\ lock' = (IF lock = r THEN None ELSE lock) /\ EndRun(r)
        /\ size' \in {size} \cup (IF pc[r] = "count" THEN {Torn} ELSE {})
        /\ UNCHANGED <<held, bad, changes, damages, drifted>> /\ UNCHANGED <<files, changes, damages, drifted>>
    BY DEF Kill, files
  <1>3. kills' \in Nat /\ kills' # 0
    BY <1>1, <1>2
  <1>4. size' \in Nat \cup {Missing, Torn} /\ lock' \in Runs \cup {None}
    BY <1>1, <1>2 DEF StoreTypes
  <1>5. /\ StoreTypes' /\ Stand(r) /\ pc'[r] = "none"
        /\ RunTold(pc'[r], job'[r], pending'[r], placed'[r], flags'[r], size', damages)
    BY <1>2, <1>3, <1>4, EndsTyped
  <1>6. LockMoves(r) /\ SizeMoves(r)
    BY <1>2, <1>3, <1>5 DEF LockMoves, SizeMoves, UnderLock
  <1>7. StoreInv'
    BY <1>1, <1>2, <1>3, <1>5, <1>6, StoreMoves
  <1> QED
    BY <1>2, <1>3, <1>5, <1>7, StoreAssumption DEF EndRun

\* A hand leaves no more in a file than stood there.
LEMMA DamageFits ==
  ASSUME StoreInv, NEW f \in Files, Damage(f)
  PROVE  /\ StoreInv' /\ damages' # 0 /\ held' \in [Files -> Nat]
         /\ \A g \in Files : held'[g] <= held[g]
         /\ UNCHANGED <<size, lock, pc, job, pending, placed, flags, found, left, kills, drifted>>
  <1>1. StoreTypes /\ LockHeld
        /\ (\A q \in Runs : RunTold(pc[q], job[q], pending[q], placed[q], flags[q], size, damages))
        /\ (size = Torn => kills # 0) /\ damages \in Nat
    BY DEF StoreInv, StoreTypes
  <1>2. /\ damages' = damages + 1
        /\ \E length \in 0 .. held[f] : held' = [held EXCEPT ![f] = length]
        /\ bad' = (IF held'[f] = 0 THEN bad \ {f} ELSE bad \cup {f})
        /\ UNCHANGED <<size, lock, pc, job, pending, placed, flags, found, left, changes, kills, drifted>>
    BY DEF Damage, walk
  <1>3. PICK length \in 0 .. held[f] : held' = [held EXCEPT ![f] = length]
    BY <1>2
  <1>4. held[f] \in Nat /\ length \in Nat /\ length <= held[f]
    BY <1>1, <1>3 DEF StoreTypes
  <1>5. held' \in [Files -> Nat] /\ \A g \in Files : held'[g] <= held[g]
    <2>1. \A g \in Files : held[g] \in Nat /\ held[g] <= held[g]
      BY <1>1 DEF StoreTypes
    <2> QED
      BY <1>1, <1>3, <1>4, <2>1 DEF StoreTypes
  <1>6. damages' \in Nat /\ damages' # 0 /\ bad' \in SUBSET Files
    BY <1>1, <1>2 DEF StoreTypes
  <1>7. StoreTypes'
    BY <1>1, <1>2, <1>5, <1>6 DEF StoreTypes
  <1>8. LockHeld'
    BY <1>1, <1>2 DEF LockHeld
  <1>9. ASSUME NEW q \in Runs
        PROVE  RunTold(pc[q], job[q], pending[q], placed[q], flags[q], size, damages)'
    <2>1. RunTold(pc[q], job[q], pending[q], placed[q], flags[q], size, damages)
      BY <1>1
    <2>2. JobFits(pc[q], job[q], pending[q], size, damages')
      BY <1>6, <2>1 DEF RunTold, JobFits
    <2> QED
      BY <1>2, <2>1, <2>2 DEF RunTold
  <1>10. StoreInv'
    BY <1>1, <1>2, <1>6, <1>7, <1>8, <1>9 DEF StoreInv
  <1> QED
    BY <1>2, <1>5, <1>6, <1>10

\* What is owed is a number, no less than any run has yet to count.
LEMMA OwedIs ==
  ASSUME NEW p \in [Runs -> Nat], NEW k \in Nat
  PROVE  /\ Sum(p, Runs) \in Nat /\ k * KillLoss \in Nat /\ Sum(p, Runs) + k * KillLoss \in Nat
         /\ Sum(p, Runs) <= Sum(p, Runs) + k * KillLoss
         /\ k = 0 => Sum(p, Runs) + k * KillLoss = Sum(p, Runs)
         /\ (\A r \in Runs : p[r] = 0) => Sum(p, Runs) = 0
         /\ (k + 1) * KillLoss = k * KillLoss + KillLoss
  <1>1. IsFiniteSet(Runs) /\ KillLoss \in Nat
    BY StoreAssumption, StoreShape
  <1>2. \A r \in Runs : p[r] \in Nat
    OBVIOUS
  <1>3. Sum(p, Runs) \in Nat
    BY <1>1, <1>2, SumTaken
  <1>4. (\A r \in Runs : p[r] = 0) => Sum(p, Runs) = 0
    BY <1>1, SumZero
  <1>5. \A m, n \in Nat : m * n \in Nat /\ 0 * n = 0 /\ (m + 1) * n = m * n + n
    OBVIOUS
  <1>6. k * KillLoss \in Nat /\ (k = 0 => k * KillLoss = 0) /\ (k + 1) * KillLoss = k * KillLoss + KillLoss
    BY <1>1, <1>5
  <1> QED
    BY <1>3, <1>4, <1>6

\* The same, of the store as it stands.
LEMMA OwedTyped ==
  ASSUME StoreInv
  PROVE  /\ Pending \in Nat /\ Owed \in Nat /\ Pending <= Owed /\ (kills = 0 => Owed = Pending)
         /\ (\A r \in Runs : pending[r] = 0) => Pending = 0
         /\ held \in [Files -> Nat] /\ Bytes(held) \in Nat
  <1>1. pending \in [Runs -> Nat] /\ kills \in Nat /\ held \in [Files -> Nat]
    BY DEF StoreInv, StoreTypes
  <1> QED
    BY <1>1, OwedIs, BytesTyped DEF Owed, Pending

\* And as it stands next.
LEMMA OwedTypedNext ==
  ASSUME StoreInv'
  PROVE  /\ Pending' \in Nat /\ Owed' \in Nat /\ Pending' <= Owed' /\ (kills' = 0 => Owed' = Pending')
         /\ held' \in [Files -> Nat] /\ Bytes(held') \in Nat
  <1>1. pending' \in [Runs -> Nat] /\ kills' \in Nat /\ held' \in [Files -> Nat]
    BY DEF StoreInv, StoreTypes
  <1> QED
    BY <1>1, OwedIs, BytesTyped DEF Owed, Pending

\* One run has another amount to count, or is killed.
LEMMA OwedMoves ==
  ASSUME StoreInv, StoreInv', NEW r \in Runs, \A q \in Runs \ {r} : pending'[q] = pending[q]
  PROVE  /\ pending[r] \in Nat /\ pending'[r] \in Nat /\ pending[r] <= Pending
         /\ Pending' + pending[r] = Pending + pending'[r]
         /\ kills' = kills => Owed' + pending[r] = Owed + pending'[r]
         /\ kills' = kills + 1 => Owed' + pending[r] = Owed + pending'[r] + KillLoss
  <1>1. /\ pending \in [Runs -> Nat] /\ kills \in Nat /\ pending' \in [Runs -> Nat] /\ kills' \in Nat
        /\ IsFiniteSet(Runs) /\ KillLoss \in Nat
    BY StoreAssumption, StoreShape DEF StoreInv, StoreTypes
  <1>2. \A q \in Runs : pending[q] \in Nat /\ pending'[q] \in Nat /\ (q # r => pending[q] = pending'[q])
    BY <1>1
  <1>3. /\ Sum(pending, Runs) \in Nat /\ Sum(pending', Runs) \in Nat /\ pending[r] <= Sum(pending, Runs)
        /\ Sum(pending', Runs) + pending[r] = Sum(pending, Runs) + pending'[r]
    BY <1>1, <1>2, SumChanged
  <1>4. kills * KillLoss \in Nat /\ (kills + 1) * KillLoss = kills * KillLoss + KillLoss
    BY <1>1, OwedIs
  <1>5. /\ Pending = Sum(pending, Runs) /\ Pending' = Sum(pending', Runs)
        /\ Owed = Sum(pending, Runs) + kills * KillLoss /\ Owed' = Sum(pending', Runs) + kills' * KillLoss
    BY DEF Pending, Owed
  <1>6. kills' = kills => Owed' + pending[r] = Owed + pending'[r]
    BY <1>1, <1>2, <1>3, <1>4, <1>5
  <1>7. kills' = kills + 1 => Owed' + pending[r] = Owed + pending'[r] + KillLoss
    <2>1. SUFFICES ASSUME kills' = kills + 1 PROVE Owed' + pending[r] = Owed + pending'[r] + KillLoss
      OBVIOUS
    <2> DEFINE lost == kills * KillLoss
    <2>2. Owed' = Sum(pending', Runs) + (lost + KillLoss) /\ Owed = Sum(pending, Runs) + lost
      BY <1>4, <1>5, <2>1
    <2>3. lost \in Nat /\ KillLoss \in Nat /\ pending[r] \in Nat /\ pending'[r] \in Nat
      BY <1>1, <1>2, <1>4
    <2> HIDE DEF lost
    <2> QED
      BY <1>3, <2>2, <2>3
  <1> QED
    BY <1>2, <1>3, <1>5, <1>6, <1>7

\* What a run has yet to count is no more than a kill may lose, with what it
\* is about to count besides.
LEMMA PendingAtMost ==
  ASSUME StoreInv, NEW r \in Runs
  PROVE  /\ pending[r] <= KillLoss
         /\ pc[r] = "count" /\ Kind(r) \in Changers => pending[r] + job[r].add <= KillLoss
         /\ pc[r] = "count" /\ Kind(r) \in Flushers => pending[r] = 0 /\ job[r].add <= KillLoss
  <1>1. /\ pending[r] \in Nat /\ placed[r] \in 0 .. FlushEvery - 1 /\ job[r].add \in Nat
        /\ JobFits(pc[r], job[r], pending[r], size, damages)
        /\ PendingFits(pc[r], job[r], pending[r], placed[r], flags[r])
        /\ FlushEvery \in Nat /\ LongestFile \in Nat /\ KillLoss = FlushEvery * LongestFile /\ KillLoss \in Nat
    BY RunTypes, StoreShape, StoreAssumption
  <1>2. placed[r] \in Nat /\ placed[r] + 1 \in Nat /\ placed[r] + 1 <= FlushEvery
    BY <1>1
  <1>3. (placed[r] + 1) * LongestFile <= FlushEvery * LongestFile
    BY <1>1, <1>2, TimesAtMost
  <1>4. \A m, n \in Nat : (m + 1) * n = m * n + n /\ m * n \in Nat
    OBVIOUS
  <1>5. placed[r] * LongestFile \in Nat /\ placed[r] * LongestFile + LongestFile <= KillLoss
    BY <1>1, <1>2, <1>3, <1>4
  <1>6. pending[r] <= placed[r] * LongestFile \/ pending[r] <= KillLoss
    BY <1>1 DEF PendingFits
  <1>7. pending[r] <= KillLoss
    BY <1>1, <1>5, <1>6
  <1>8. ASSUME pc[r] = "count", Kind(r) \in Changers PROVE pending[r] + job[r].add <= KillLoss
    <2>1. pending[r] <= placed[r] * LongestFile /\ job[r].add <= LongestFile
      BY <1>1, <1>8 DEF PendingFits, JobFits, Kind
    <2> QED
      BY <1>1, <1>5, <2>1
  <1>9. ASSUME pc[r] = "count", Kind(r) \in Flushers PROVE pending[r] = 0 /\ job[r].add <= KillLoss
    BY <1>1, <1>9 DEF JobFits, Kind
  <1> QED
    BY <1>7, <1>8, <1>9

\* A name of another length, in the bytes of some names.
LEMMA SumPlaced ==
  ASSUME NEW h \in [Files -> Nat], NEW S \in SUBSET Files, NEW f \in Files, NEW n \in Nat
  PROVE  /\ Sum(h, S) \in Nat /\ Sum([h EXCEPT ![f] = n], S) \in Nat
         /\ f \notin S => Sum([h EXCEPT ![f] = n], S) = Sum(h, S)
         /\ f \in S => Sum([h EXCEPT ![f] = n], S) + h[f] = Sum(h, S) + n
  <1> DEFINE k == [h EXCEPT ![f] = n]
  <1>1. k[f] = n /\ \A g \in S : h[g] \in Nat /\ k[g] \in Nat /\ (g # f => h[g] = k[g])
    OBVIOUS
  <1>2. IsFiniteSet(S)
    BY StoreShape, FS_Subset
  <1> HIDE DEF k
  <1>3. Sum(h, S) \in Nat /\ Sum(k, S) \in Nat
    BY <1>1, <1>2, SumTaken
  <1>4. ASSUME f \notin S PROVE Sum(k, S) = Sum(h, S)
    <2>1. \A g \in S : h[g] = k[g]
      BY <1>1, <1>4
    <2> QED
      BY <1>2, <2>1, SumSame
  <1>5. ASSUME f \in S PROVE Sum(k, S) + h[f] = Sum(h, S) + n
    BY <1>1, <1>2, <1>5, SumChanged
  <1> QED
    BY <1>3, <1>4, <1>5 DEF k

\* A view's bytes, and those of the blobs, are within the store's.
LEMMA ViewsBesideBlobs ==
  ASSUME NEW h \in [Files -> Nat], NEW f \in Views
  PROVE  Sum(h, Blobs) \in Nat /\ h[f] \in Nat /\ h[f] + Sum(h, Blobs) <= Bytes(h)
  <1>1. /\ IsFiniteSet(Files) /\ Blobs \subseteq Files /\ f \in Files \ Blobs /\ Blobs \in SUBSET Files
        /\ Bytes(h) = Sum(h, Files) /\ IsFiniteSet(Files \ Blobs) /\ IsFiniteSet(Blobs)
    BY StoreAssumption, StoreShape, BytesIs, FS_Subset
  <1>2. \A g \in Files : h[g] \in Nat
    OBVIOUS
  <1>3. Sum(h, Files) = Sum(h, Blobs) + Sum(h, Files \ Blobs)
    BY <1>1, <1>2, SumSplit
  <1>4. \A g \in Files \ Blobs : h[g] \in Nat
    BY <1>2
  <1>5. Sum(h, Files \ Blobs) \in Nat /\ h[f] <= Sum(h, Files \ Blobs)
    BY <1>1, <1>4, SumChanged
  <1>6. \A g \in Blobs : h[g] \in Nat
    BY <1>1, <1>2
  <1>7. Sum(h, Blobs) \in Nat
    BY <1>1, <1>6, SumTaken
  <1> QED
    BY <1>1, <1>2, <1>3, <1>5, <1>7

\* Where the views stand as a walk found them, all that stands beyond is blobs.
LEMMA BeyondIsBlobs ==
  ASSUME NEW h \in [Files -> Nat], NEW fd \in [Files -> Nat], \A f \in Views : h[f] = fd[f]
  PROVE  Beyond(h, fd, Files) <= Sum(h, Blobs)
  <1> DEFINE w == [f \in Files |-> Minus(h[f], fd[f])]
  <1>1. /\ IsFiniteSet(Files) /\ Blobs \subseteq Files /\ Blobs \in SUBSET Files
        /\ IsFiniteSet(Files \ Blobs) /\ IsFiniteSet(Blobs) /\ Files \ Blobs \subseteq Views
    BY StoreShape, FS_Subset DEF Files
  <1>2. \A f \in Files : w[f] = Minus(h[f], fd[f]) /\ w[f] \in Nat /\ w[f] <= h[f] /\ h[f] \in Nat
                         /\ (h[f] = fd[f] => w[f] = 0)
    BY MinusTyped
  <1>3. Beyond(h, fd, Files) = Sum(w, Files)
    BY DEF Beyond
  <1> HIDE DEF w
  <1>4. Sum(w, Files) = Sum(w, Blobs) + Sum(w, Files \ Blobs)
    BY <1>1, <1>2, SumSplit
  <1>5. Sum(w, Files \ Blobs) = 0
    <2>1. \A f \in Files \ Blobs : w[f] = 0
      BY <1>1, <1>2
    <2> QED
      BY <1>1, <2>1, SumZero
  <1>6. Sum(w, Blobs) <= Sum(h, Blobs) /\ Sum(w, Blobs) \in Nat
    <2>1. \A f \in Blobs : w[f] \in Nat /\ h[f] \in Nat /\ w[f] <= h[f]
      BY <1>1, <1>2
    <2> QED
      BY <1>1, <2>1, SumAtMost, SumTaken
  <1> QED
    BY <1>3, <1>4, <1>5, <1>6

\* All of what is held where a walk found nothing stands beyond it.
LEMMA UnfoundIsBeyond ==
  ASSUME NEW h \in [Files -> Nat], NEW fd \in [Files -> Nat], NEW S \in SUBSET Files,
         \A f \in S : fd[f] = 0
  PROVE  Sum(h, S) \in Nat /\ Sum(h, S) <= Beyond(h, fd, Files)
  <1> DEFINE w == [f \in Files |-> Minus(h[f], fd[f])]
  <1>1. IsFiniteSet(Files) /\ IsFiniteSet(S)
    BY StoreShape, FS_Subset
  <1>2. \A f \in Files : w[f] = Minus(h[f], fd[f]) /\ w[f] \in Nat /\ h[f] \in Nat
                         /\ (fd[f] = 0 => w[f] = h[f])
    BY MinusTyped
  <1>3. Beyond(h, fd, Files) = Sum(w, Files)
    BY DEF Beyond
  <1> HIDE DEF w
  <1>4. Sum(w, S) <= Sum(w, Files)
    BY <1>1, <1>2, SumPart
  <1>5. Sum(h, S) = Sum(w, S)
    <2>1. \A f \in S : h[f] = w[f]
      BY <1>2
    <2> QED
      BY <1>1, <2>1, SumSame
  <1>6. Sum(h, S) \in Nat
    <2>1. \A f \in S : h[f] \in Nat
      BY <1>2
    <2> QED
      BY <1>1, <2>1, SumTaken
  <1> QED
    BY <1>3, <1>4, <1>5, <1>6

\* Away from the lock, a run goes by no figure.
LEMMA AwayFits ==
  ASSUME NEW r \in Runs, pc[r] \notin UnderLock
  PROVE  HolderFits(r) /\ ~Recounts(r) /\ ~Sweeping(r) /\ (Duty(r) <=> "admitted" \in flags[r])
  BY DEF UnderLock, HolderFits, WalkShort, SweepShort, HolderExact, GoesByWalk, Recounts, Sweeping, Duty

\* The same, after the step.
LEMMA AwayFitsNext ==
  ASSUME NEW r \in Runs, pc'[r] \notin UnderLock
  PROVE  HolderFits(r)' /\ ~Recounts(r)' /\ ~Sweeping(r)' /\ (Duty(r)' <=> "admitted" \in flags'[r])
  BY DEF UnderLock, HolderFits, WalkShort, SweepShort, HolderExact, GoesByWalk, Recounts, Sweeping, Duty

StoreHonest == StoreInv /\ StoreFits /\ \A r \in Runs : HolderFits(r)

\* A step by a run away from the lock that changes no file and no count.
LEMMA OutsideQuietHonest ==
  ASSUME StoreHonest, ~Listings, NEW r \in Runs, OutsideQuietly(r)
  PROVE  StoreHonest'
  <1>1. /\ StoreInv /\ StoreFits /\ (\A q \in Runs : HolderFits(q)) /\ StoreInv' /\ Stand(r) /\ Quiet
        /\ pc[r] \notin UnderLock /\ pc'[r] \notin UnderLock
        /\ ("admitted" \in flags[r] => "admitted" \in flags'[r])
    BY OutsideQuiet DEF StoreHonest
  <1>2. /\ ~Recounts(r) /\ ~Sweeping(r) /\ (Duty(r) => Duty(r)') /\ HolderFits(r)'
    BY <1>1, AwayFits, AwayFitsNext
  <1>3. /\ held' = held /\ size' = size /\ kills' = kills /\ Pending' = Pending /\ Owed' = Owed
        /\ (Untouched' <=> Untouched)
    BY <1>1 DEF Quiet, Pending, Owed, Untouched
  <1>4. ASSUME NEW q \in Runs \ {r}
        PROVE  /\ HolderFits(q)' /\ (Recounts(q)' <=> Recounts(q)) /\ (Sweeping(q)' <=> Sweeping(q))
               /\ (Duty(q)' <=> Duty(q))
    <2>1. pc'[q] = pc[q] /\ job'[q] = job[q] /\ found'[q] = found[q] /\ left'[q] = left[q] /\ flags'[q] = flags[q]
      BY <1>1 DEF Stand
    <2>2. SizeToWrite(q)' = SizeToWrite(q)
      BY <1>3, <2>1 DEF SizeToWrite, SizeRead
    <2>3. Excess(q)' = Excess(q) /\ (GoesByWalk(q)' <=> GoesByWalk(q))
      BY <1>3, <2>1 DEF Excess, Seen, GoesByWalk
    <2>4. WalkSeen(q)' <=> WalkSeen(q)
      BY <1>3, <2>1 DEF WalkSeen, Seen
    <2>5. HolderFits(q)
      BY <1>1
    <2>6. HolderFits(q)'
      BY <1>3, <2>1, <2>2, <2>3, <2>4, <2>5
         DEF HolderFits, WalkShort, SweepShort, HolderExact, WalkExact, Kind
    <2> QED
      BY <2>1, <2>6 DEF Recounts, Sweeping, Duty, Kind
  <1>5. \A q \in Runs : /\ HolderFits(q)' /\ (~Recounts(q)' => ~Recounts(q))
                        /\ (~Sweeping(q)' => ~Sweeping(q)) /\ (~Duty(q)' => ~Duty(q))
    BY <1>2, <1>4
  <1>6. StoreFits'
    BY <1>1, <1>3, <1>5 DEF StoreFits, SizeShort, CapOwed, SizeExact, PlacedStands
  <1> QED
    BY <1>1, <1>5, <1>6 DEF StoreHonest

\* A placement: what is held and what is owed grow by the file's length, and
\* by no more for any walk under way.
LEMMA RenamesHonest ==
  ASSUME StoreHonest, NEW r \in Runs, Renames(r)
  PROVE  StoreHonest'
  <1> DEFINE f == job[r].file
             n == Length[f]
  <1>1. /\ StoreInv /\ StoreFits /\ (\A q \in Runs : HolderFits(q)) /\ StoreInv' /\ Stand(r)
        /\ pc[r] = "place" /\ pc'[r] \in {"lock", "open"} /\ f \in Blobs /\ held[f] = 0
        /\ held' = [held EXCEPT ![f] = n] /\ pending' = [pending EXCEPT ![r] = @ + n]
        /\ size' = size /\ kills' = kills /\ damages' = damages /\ drifted' = drifted
        /\ "admitted" \in flags'[r]
    BY RenamesFits DEF StoreHonest
  <1>2. f \in Files /\ n \in Nat /\ 0 < n /\ f \notin Views /\ Blobs \in SUBSET Files
    BY <1>1, StoreShape, StoreAssumption
  <1> HIDE DEF f, n
  <1>3. pc[r] \notin UnderLock /\ pc'[r] \notin UnderLock
    BY <1>1 DEF UnderLock
  <1>4. ~Recounts(r) /\ ~Sweeping(r) /\ Duty(r)' /\ HolderFits(r)'
    BY <1>1, <1>3, AwayFits, AwayFitsNext
  <1>5. /\ pending[r] \in Nat /\ pending'[r] = pending[r] + n
        /\ \A q \in Runs \ {r} : pending'[q] = pending[q]
    BY <1>1 DEF StoreInv, StoreTypes
  <1>6. /\ Pending \in Nat /\ Owed \in Nat /\ Bytes(held) \in Nat /\ held \in [Files -> Nat]
        /\ Pending' \in Nat /\ Owed' \in Nat /\ Bytes(held') \in Nat
    BY <1>1, OwedTyped, OwedTypedNext
  <1>7. Pending' = Pending + n /\ Owed' = Owed + n
    <2>1. Pending' + pending[r] = Pending + pending'[r] /\ Owed' + pending[r] = Owed + pending'[r]
      BY <1>1, <1>5, OwedMoves
    <2> QED
      BY <1>2, <1>5, <1>6, <2>1
  <1>8. Bytes(held') = Bytes(held) + n
    <2>1. Bytes(held') + held[f] = Bytes(held) + n
      BY <1>1, <1>2, <1>6, BytesChanged
    <2> QED
      BY <1>1, <1>2, <1>6, <2>1
  <1>9. Sum(held', Blobs) = Sum(held, Blobs) + n /\ Sum(held, Blobs) \in Nat
    <2>1. /\ Sum([held EXCEPT ![f] = n], Blobs) + held[f] = Sum(held, Blobs) + n
          /\ Sum(held, Blobs) \in Nat /\ Sum([held EXCEPT ![f] = n], Blobs) \in Nat
      <3>1. held \in [Files -> Nat] /\ f \in Files /\ n \in Nat /\ Blobs \in SUBSET Files /\ f \in Blobs
        BY <1>1, <1>2, <1>6
      <3> QED
        BY <3>1, SumPlaced
    <2> QED
      BY <1>1, <1>2, <2>1
  <1>10. Untouched' <=> Untouched
    BY <1>1 DEF Untouched
  <1>11. ASSUME NEW q \in Runs \ {r}
         PROVE  /\ HolderFits(q)' /\ (Recounts(q)' <=> Recounts(q)) /\ (Sweeping(q)' <=> Sweeping(q))
                /\ (Duty(q)' <=> Duty(q))
    <2>1. pc'[q] = pc[q] /\ job'[q] = job[q] /\ found'[q] = found[q] /\ left'[q] = left[q] /\ flags'[q] = flags[q]
      BY <1>1 DEF Stand
    <2>2. SizeToWrite(q)' = SizeToWrite(q) /\ (pc[q] = "count" => SizeToWrite(q) \in Nat)
      BY <1>1, <2>1, WrittenIs DEF SizeToWrite, SizeRead
    <2>3. Seen(q)' = Seen(q) /\ (GoesByWalk(q)' <=> GoesByWalk(q)) /\ Seen(q) \in SUBSET Files
      BY <1>1, <2>1 DEF Seen, GoesByWalk
    <2>4. HolderFits(q) /\ found[q] \in [Files -> Nat]
      BY <1>1, RunTypes
    <2>5. /\ Excess(q) \in Nat /\ Excess(q)' \in Nat /\ Excess(q)' <= Excess(q) + n
          /\ (f \in Seen(q) /\ found[q][f] = 0 => Excess(q)' = Excess(q) + n)
      <3> DEFINE S == Seen(q)
                 fd == found[q]
      <3>1. S \in SUBSET Files /\ fd \in [Files -> Nat]
        BY <2>3, <2>4
      <3>2. Excess(q) = Beyond(held, fd, S) /\ Excess(q)' = Beyond(held', fd, S)
        BY <2>1, <2>3 DEF Excess
      <3> HIDE DEF S, fd
      <3>3. /\ Beyond(held, fd, S) \in Nat /\ Beyond(held', fd, S) \in Nat
            /\ Beyond(held', fd, S) <= Beyond(held, fd, S) + n
            /\ (f \in S /\ fd[f] = 0 => Beyond(held', fd, S) = Beyond(held, fd, S) + n)
        <4>1. held \in [Files -> Nat] /\ f \in Files /\ n \in Nat /\ held[f] = 0
          BY <1>1, <1>2, <1>6
        <4>2. held' \in [Files -> Nat] /\ held'[f] = n /\ \A g \in Files : g # f => held'[g] = held[g]
          BY <1>1, <1>2, <4>1
        <4> QED
          BY <3>1, <4>1, <4>2, BeyondPlaced
      <3> QED
        BY <3>2, <3>3 DEF S, fd
    <2>6. WalkShort(q)'
      <3>1. pc[q] = "count" => Bytes(held) <= SizeToWrite(q) + Owed
        BY <2>4 DEF HolderFits, WalkShort
      <3>2. pc[q] = "count" => Bytes(held') <= SizeToWrite(q)' + Owed'
        BY <1>2, <1>6, <1>7, <1>8, <2>2, <3>1
      <3>3. GoesByWalk(q) => Excess(q) <= Owed
        BY <2>4 DEF HolderFits, WalkShort
      <3>4. GoesByWalk(q) => Excess(q)' <= Owed'
        BY <1>2, <1>6, <1>7, <2>5, <3>3
      <3> QED
        BY <2>1, <2>3, <3>2, <3>4 DEF WalkShort
    <2>7. SweepShort(q)'
      <3>1. SweepShort(q) /\ Cap \in Nat
        BY <2>4, StoreAssumption DEF HolderFits
      <3>2. Bytes(held) <= Cap + Owed => Bytes(held') <= Cap + Owed'
        BY <1>2, <1>6, <1>7, <1>8, <3>1
      <3>3. Files \ left[q] \in SUBSET Files
        OBVIOUS
      <3>4. Sum(held, Files \ left[q]) \in Nat /\ Sum(held', Files \ left[q]) \in Nat
            /\ Sum(held', Files \ left[q]) <= Sum(held, Files \ left[q]) + n
        <4> DEFINE S == Files \ left[q]
        <4> HIDE DEF S
        <4>1. S \in SUBSET Files
          BY <3>3 DEF S
        <4>2. /\ Sum(held, S) \in Nat /\ Sum([held EXCEPT ![f] = n], S) \in Nat
              /\ (f \notin S => Sum([held EXCEPT ![f] = n], S) = Sum(held, S))
              /\ (f \in S => Sum([held EXCEPT ![f] = n], S) + held[f] = Sum(held, S) + n)
          <5>1. held \in [Files -> Nat] /\ f \in Files /\ n \in Nat
            BY <1>2, <1>6
          <5> QED
            BY <4>1, <5>1, SumPlaced
        <4>3. Sum(held', S) <= Sum(held, S) + n /\ Sum(held', S) \in Nat
          BY <1>1, <1>2, <4>2
        <4> QED
          BY <4>2, <4>3 DEF S
      <3>5. Sum(held, Files \ left[q]) <= Owed => Sum(held', Files \ left[q]) <= Owed'
        BY <1>2, <1>6, <1>7, <3>4
      <3> QED
        BY <2>1, <3>1, <3>2, <3>5 DEF SweepShort, Kind
    <2>8. HolderExact(q)'
      <3>1. SUFFICES ASSUME Untouched
                     PROVE  /\ pc[q] = "count" => Bytes(held') = SizeToWrite(q)' + Pending'
                            /\ GoesByWalk(q) => WalkSeen(q)' /\ WalkExact(q)'
        BY <1>10, <2>1, <2>3 DEF HolderExact
      <3>2. /\ pc[q] = "count" => Bytes(held) = SizeToWrite(q) + Pending
            /\ GoesByWalk(q) => WalkSeen(q) /\ WalkExact(q)
        BY <2>4, <3>1 DEF HolderFits, HolderExact
      <3>3. pc[q] = "count" => Bytes(held') = SizeToWrite(q)' + Pending'
        BY <1>2, <1>6, <1>7, <1>8, <2>2, <3>2
      <3>4. ASSUME GoesByWalk(q) PROVE WalkSeen(q)' /\ WalkExact(q)'
        <4>1. /\ \A g \in Seen(q) : found[q][g] # 0 => held[g] = found[q][g]
              /\ \A g \in Seen(q) \cap Views : held[g] = found[q][g]
          BY <3>2, <3>4 DEF WalkSeen
        <4>2. \A g \in Files : g # f => held'[g] = held[g]
          BY <1>1, <1>6
        <4>3. f \in Seen(q) => found[q][f] = 0
          BY <1>1, <4>1
        <4>4. WalkSeen(q)'
          <5>1. \A g \in Seen(q) : found[q][g] # 0 => held'[g] = found[q][g]
            BY <2>3, <4>1, <4>2, <4>3
          <5>2. \A g \in Seen(q) \cap Views : held'[g] = found[q][g]
            BY <1>2, <2>3, <4>1, <4>2
          <5> QED
            BY <2>1, <2>3, <5>1, <5>2 DEF WalkSeen
        <4>5. Pending' # 0
          BY <1>2, <1>6, <1>7
        <4>6. ASSUME pc[q] # "walk" \/ left[q] = {} PROVE Excess(q)' = Pending'
          <5>1. Excess(q) = Pending
            BY <3>2, <3>4, <4>6 DEF WalkExact
          <5>2. f \in Seen(q)
            BY <1>2, <4>6 DEF Seen
          <5> QED
            BY <1>6, <1>7, <2>5, <4>3, <5>1, <5>2
        <4> QED
          BY <2>1, <4>4, <4>5, <4>6 DEF WalkExact
      <3> QED
        BY <3>3, <3>4
    <2> QED
      BY <2>1, <2>6, <2>7, <2>8 DEF HolderFits, Recounts, Sweeping, Duty, Kind
  <1>12. \A q \in Runs : HolderFits(q)' /\ (~Recounts(q)' => ~Recounts(q)) /\ (~Sweeping(q)' => ~Sweeping(q))
    BY <1>4, <1>11
  <1>13. SizeShort'
    <2>1. SUFFICES ASSUME size' \in Nat, \A q \in Runs : ~Recounts(q)' PROVE Bytes(held') <= size' + Owed'
      BY DEF SizeShort
    <2>2. Bytes(held) <= size + Owed
      BY <1>1, <1>12, <2>1 DEF StoreFits, SizeShort
    <2> QED
      BY <1>1, <1>2, <1>6, <1>7, <1>8, <2>1, <2>2
  <1>14. CapOwed'
    BY <1>4 DEF CapOwed
  <1>15. SizeExact'
    <2>1. SUFFICES ASSUME Untouched, size' \in Nat, \A q \in Runs : ~Recounts(q)' /\ ~Sweeping(q)'
                   PROVE  Bytes(held') = size' + Pending'
      BY <1>10 DEF SizeExact
    <2>2. Bytes(held) = size + Pending
      BY <1>1, <1>12, <2>1 DEF StoreFits, SizeExact
    <2> QED
      BY <1>1, <1>2, <1>6, <1>7, <1>8, <2>1, <2>2
  <1>16. PlacedStands'
    <2>1. Untouched => Pending <= Sum(held, Blobs)
      BY <1>1 DEF StoreFits, PlacedStands
    <2>2. Untouched => Pending' <= Sum(held', Blobs)
      BY <1>2, <1>6, <1>7, <1>9, <2>1
    <2> QED
      BY <1>10, <2>2 DEF PlacedStands
  <1> QED
    BY <1>1, <1>12, <1>13, <1>14, <1>15, <1>16 DEF StoreHonest, StoreFits

\* A run killed: what it had yet to count, or was counting, is within what its
\* kill is owed.
LEMMA KillHonest ==
  ASSUME StoreHonest, NEW r \in Runs, Kill(r)
  PROVE  StoreHonest'
  <1>1. /\ StoreInv /\ StoreFits /\ (\A q \in Runs : HolderFits(q)) /\ StoreInv' /\ Stand(r)
        /\ pc'[r] = "none" /\ pending' = [pending EXCEPT ![r] = 0]
        /\ held' = held /\ kills' = kills + 1 /\ kills' # 0
        /\ (size' = size \/ (pc[r] = "count" /\ size' \notin Nat))
    BY KillFits DEF StoreHonest
  <1>2. pc'[r] \notin UnderLock
    BY <1>1 DEF UnderLock
  <1>3. HolderFits(r)' /\ ~Recounts(r)'
    BY <1>2, AwayFitsNext
  <1>4. /\ Pending \in Nat /\ Owed \in Nat /\ Bytes(held) \in Nat
        /\ Pending' \in Nat /\ Owed' \in Nat /\ Bytes(held') = Bytes(held)
    BY <1>1, OwedTyped, OwedTypedNext
  <1>5. /\ pending[r] \in Nat /\ pending'[r] = 0 /\ KillLoss \in Nat
        /\ \A q \in Runs \ {r} : pending'[q] = pending[q]
    BY <1>1, StoreShape DEF StoreInv, StoreTypes
  <1>6. Owed' + pending[r] = Owed + KillLoss
    <2>1. Owed' + pending[r] = Owed + pending'[r] + KillLoss
      BY <1>1, <1>5, OwedMoves
    <2> QED
      BY <1>4, <1>5, <2>1
  <1>7. pending[r] <= KillLoss
    BY <1>1, PendingAtMost
  <1>8. Owed <= Owed'
    BY <1>4, <1>5, <1>6, <1>7
  <1>9. ~Untouched'
    BY <1>1 DEF Untouched
  <1>10. ASSUME NEW q \in Runs \ {r}
         PROVE  HolderFits(q)' /\ (~Recounts(q)' => ~Recounts(q))
    <2>1. pc'[q] = pc[q] /\ job'[q] = job[q] /\ found'[q] = found[q] /\ left'[q] = left[q]
      BY <1>1 DEF Stand
    <2>2. CASE size' = size
      <3>1. SizeToWrite(q)' = SizeToWrite(q) /\ (pc[q] = "count" => SizeToWrite(q) \in Nat)
        BY <1>1, <2>1, <2>2, WrittenIs DEF SizeToWrite, SizeRead
      <3>2. Excess(q)' = Excess(q) /\ (GoesByWalk(q)' <=> GoesByWalk(q)) /\ Excess(q) \in Nat
        <4>1. Seen(q) \in SUBSET Files /\ found[q] \in [Files -> Nat] /\ held \in [Files -> Nat]
          BY <1>1, RunTypes, OwedTyped DEF Seen
        <4>2. Excess(q) \in Nat
          BY <4>1, BeyondTyped DEF Excess
        <4> QED
          BY <1>1, <2>1, <2>2, <4>2 DEF Excess, Seen, GoesByWalk
      <3>3. HolderFits(q) /\ Cap \in Nat
        BY <1>1, StoreAssumption
      <3>4. WalkShort(q)'
        <4>1. pc[q] = "count" => Bytes(held) <= SizeToWrite(q) + Owed
          BY <3>3 DEF HolderFits, WalkShort
        <4>2. pc[q] = "count" => Bytes(held') <= SizeToWrite(q)' + Owed'
          BY <1>4, <1>8, <3>1, <4>1
        <4>3. GoesByWalk(q) => Excess(q) <= Owed
          BY <3>3 DEF HolderFits, WalkShort
        <4>4. GoesByWalk(q) => Excess(q)' <= Owed'
          BY <1>4, <1>8, <3>2, <4>3
        <4> QED
          BY <2>1, <3>2, <4>2, <4>4 DEF WalkShort
      <3>5. SweepShort(q)'
        <4>1. Bytes(held) <= Cap + Owed => Bytes(held') <= Cap + Owed'
          BY <1>4, <1>8, <3>3
        <4>2. Sum(held, Files \ left[q]) \in Nat
          <5>1. (Files \ left[q]) \in SUBSET Files /\ held \in [Files -> Nat]
            BY <1>1, OwedTyped
          <5>2. IsFiniteSet(Files \ left[q]) /\ \A g \in Files \ left[q] : held[g] \in Nat
            BY <5>1, StoreShape, FS_Subset
          <5> QED
            BY <5>2, SumTaken
        <4>3. Sum(held, Files \ left[q]) <= Owed => Sum(held', Files \ left[q]) <= Owed'
          BY <1>1, <1>4, <1>8, <4>2
        <4> QED
          BY <2>1, <3>3, <4>1, <4>3 DEF HolderFits, SweepShort, Kind
      <3>6. HolderExact(q)'
        BY <1>9 DEF HolderExact
      <3> QED
        BY <2>1, <2>2, <3>4, <3>5, <3>6 DEF HolderFits, Recounts, Kind
    <2>3. CASE size' # size
      <3>1. pc[r] = "count" /\ pc[r] \in UnderLock
        BY <1>1, <2>3 DEF UnderLock
      <3>2. pc[q] \notin UnderLock
        BY <1>1, <3>1, RunTypes
      <3> QED
        BY <2>1, <3>2, AwayFits, AwayFitsNext
    <2> QED
      BY <2>2, <2>3
  <1>11. SizeShort'
    <2>1. SUFFICES ASSUME size' \in Nat, \A q \in Runs : ~Recounts(q)' PROVE Bytes(held') <= size' + Owed'
      BY DEF SizeShort
    <2>2. size' = size /\ \A q \in Runs \ {r} : ~Recounts(q)
      BY <1>1, <1>10, <2>1
    <2>3. CASE ~Recounts(r)
      <3>1. Bytes(held) <= size + Owed
        BY <1>1, <2>1, <2>2, <2>3 DEF StoreFits, SizeShort
      <3> QED
        BY <1>4, <1>8, <2>1, <2>2, <3>1
    <2>4. CASE Recounts(r)
      <3>1. pc[r] = "count" /\ Kind(r) \in Changers \cup Flushers /\ job[r].add \in Nat /\ job[r].sub \in Nat
        BY <1>1, <2>4, RunTypes DEF Recounts
      <3>2. Bytes(held) <= SizeToWrite(r) + Owed
        BY <1>1, <3>1 DEF HolderFits, WalkShort
      <3>3. SizeToWrite(r) <= size + job[r].add /\ SizeToWrite(r) \in Nat
        <4>1. CASE Kind(r) \in Changers
          <5>1. SizeRead(r) = size /\ SizeToWrite(r) = Minus(SizeRead(r), job[r].sub) + job[r].add
            BY <1>1, <2>1, <2>2, <3>1, <4>1, WrittenIs DEF SizeRead
          <5>2. Minus(size, job[r].sub) \in Nat /\ Minus(size, job[r].sub) <= size
            BY <2>1, <2>2, <3>1, MinusTyped
          <5> QED
            BY <2>1, <2>2, <3>1, <5>1, <5>2
        <4>2. CASE Kind(r) \in Flushers
          <5>1. SizeToWrite(r) = size + job[r].add
            BY <1>1, <2>1, <2>2, <3>1, <4>2, WrittenIs
          <5> QED
            BY <2>1, <2>2, <3>1, <5>1
        <4> QED
          BY <3>1, <4>1, <4>2
      <3>4. pending[r] + job[r].add <= KillLoss
        BY <1>1, <1>5, <3>1, PendingAtMost
      <3> QED
        BY <1>4, <1>5, <1>6, <2>1, <2>2, <3>1, <3>2, <3>3, <3>4
    <2> QED
      BY <2>3, <2>4
  <1>12. CapOwed' /\ SizeExact' /\ PlacedStands'
    BY <1>1, <1>9 DEF CapOwed, SizeExact, PlacedStands
  <1> QED
    BY <1>1, <1>3, <1>10, <1>11, <1>12 DEF StoreHonest, StoreFits

\* A file changed by hand: less is held, and nothing more is owed.
LEMMA DamageHonest ==
  ASSUME StoreHonest, NEW f \in Files, Damage(f)
  PROVE  StoreHonest'
  <1>1. /\ StoreInv /\ StoreFits /\ (\A q \in Runs : HolderFits(q)) /\ StoreInv'
        /\ damages' # 0 /\ held' \in [Files -> Nat] /\ held \in [Files -> Nat]
        /\ (\A g \in Files : held'[g] <= held[g])
        /\ UNCHANGED <<size, lock, pc, job, pending, placed, flags, found, left, kills, drifted>>
    BY DamageFits, OwedTyped DEF StoreHonest
  <1>2. ~Untouched' /\ Owed' = Owed /\ Pending' = Pending
    BY <1>1 DEF Untouched, Owed, Pending
  <1>3. ASSUME NEW S \in SUBSET Files
        PROVE  Sum(held', S) <= Sum(held, S) /\ Sum(held', S) \in Nat /\ Sum(held, S) \in Nat
    <2>1. IsFiniteSet(S)
      BY StoreShape, FS_Subset
    <2>2. \A g \in S : held'[g] \in Nat /\ held[g] \in Nat /\ held'[g] <= held[g]
      BY <1>1
    <2>3. Sum(held', S) <= Sum(held, S)
      BY <2>1, <2>2, SumAtMost
    <2> QED
      BY <2>1, <2>2, <2>3, SumTaken
  <1>4. Bytes(held') <= Bytes(held) /\ Bytes(held) \in Nat /\ Bytes(held') \in Nat /\ Owed \in Nat /\ Cap \in Nat
    BY <1>1, <1>3, BytesIs, OwedTyped, StoreAssumption
  <1>5. ASSUME NEW q \in Runs
        PROVE  HolderFits(q)' /\ (Recounts(q)' <=> Recounts(q)) /\ (Duty(q)' <=> Duty(q))
    <2>1. SizeToWrite(q)' = SizeToWrite(q) /\ (pc[q] = "count" => SizeToWrite(q) \in Nat)
      BY <1>1, WrittenIs DEF SizeToWrite, SizeRead
    <2>2. Excess(q)' <= Excess(q) /\ (GoesByWalk(q)' <=> GoesByWalk(q)) /\ Excess(q) \in Nat /\ Excess(q)' \in Nat
      <3> DEFINE S == Seen(q)
                 fd == found[q]
      <3>1. S \in SUBSET Files /\ fd \in [Files -> Nat]
        BY <1>1, RunTypes DEF Seen
      <3>2. Excess(q) = Beyond(held, fd, S) /\ Excess(q)' = Beyond(held', fd, S)
        BY <1>1 DEF Excess, Seen
      <3> HIDE DEF S, fd
      <3>3. Beyond(held', fd, S) <= Beyond(held, fd, S)
        BY <1>1, <3>1, BeyondLess
      <3>4. Beyond(held', fd, S) \in Nat /\ Beyond(held, fd, S) \in Nat
        BY <1>1, <3>1, BeyondTyped
      <3>5. GoesByWalk(q)' <=> GoesByWalk(q)
        BY <1>1 DEF GoesByWalk
      <3> QED
        BY <3>2, <3>3, <3>4, <3>5
    <2>3. HolderFits(q)
      BY <1>1
    <2>4. WalkShort(q)'
      <3>1. pc[q] = "count" => Bytes(held) <= SizeToWrite(q) + Owed
        BY <2>3 DEF HolderFits, WalkShort
      <3>2. pc[q] = "count" => Bytes(held') <= SizeToWrite(q)' + Owed'
        BY <1>2, <1>4, <2>1, <3>1
      <3>3. GoesByWalk(q) => Excess(q) <= Owed
        BY <2>3 DEF HolderFits, WalkShort
      <3>4. GoesByWalk(q) => Excess(q)' <= Owed'
        BY <1>2, <1>4, <2>2, <3>3
      <3> QED
        BY <1>1, <2>2, <3>2, <3>4 DEF WalkShort
    <2>5. SweepShort(q)'
      <3>1. Bytes(held) <= Cap + Owed => Bytes(held') <= Cap + Owed'
        BY <1>2, <1>4
      <3>2. Sum(held, Files \ left[q]) <= Owed => Sum(held', Files \ left[q]) <= Owed'
        <4> DEFINE S == Files \ left[q]
        <4>1. S \in SUBSET Files
          OBVIOUS
        <4> HIDE DEF S
        <4>2. Sum(held, S) <= Owed => Sum(held', S) <= Owed'
          BY <1>2, <1>3, <1>4, <4>1
        <4> QED
          BY <4>2 DEF S
      <3> QED
        BY <1>1, <2>3, <3>1, <3>2 DEF HolderFits, SweepShort, Kind
    <2>6. HolderExact(q)'
      BY <1>2 DEF HolderExact
    <2> QED
      BY <1>1, <2>4, <2>5, <2>6 DEF HolderFits, Recounts, Duty, Kind
  <1>6. SizeShort'
    <2>1. SUFFICES ASSUME size' \in Nat, \A q \in Runs : ~Recounts(q)' PROVE Bytes(held') <= size' + Owed'
      BY DEF SizeShort
    <2>2. size' = size /\ Bytes(held) <= size + Owed
      BY <1>1, <1>5, <2>1 DEF StoreFits, SizeShort
    <2> QED
      BY <1>2, <1>4, <2>1, <2>2
  <1>7. CapOwed'
    <2>1. SUFFICES ASSUME kills' = 0, \A q \in Runs : ~Duty(q)' PROVE Bytes(held') <= Cap
      BY DEF CapOwed
    <2>2. Bytes(held) <= Cap
      BY <1>1, <1>5, <2>1 DEF StoreFits, CapOwed
    <2> QED
      BY <1>4, <2>2
  <1>8. SizeExact' /\ PlacedStands'
    BY <1>2 DEF SizeExact, PlacedStands
  <1> QED
    BY <1>1, <1>5, <1>6, <1>7, <1>8 DEF StoreHonest, StoreFits

\* A step of the run that holds the lock: no other goes by a figure.
Held(r) == pc[r] \in UnderLock \/ pc'[r] \in UnderLock

\* What the invariant says of its holder, and of the store by it.
LEMMA HolderAlone ==
  ASSUME StoreHonest, StoreInv', NEW r \in Runs, Stand(r), Held(r)
  PROVE  /\ StoreInv /\ HolderFits(r)
         /\ \A q \in Runs \ {r} : /\ HolderFits(q)' /\ ~Recounts(q) /\ ~Sweeping(q) /\ ~Recounts(q)'
                                  /\ ~Sweeping(q)' /\ (Duty(q)' <=> Duty(q))
                                  /\ (~Duty(q) => pending[q] = 0)
         /\ size \in Nat /\ ~Recounts(r) => Bytes(held) <= size + Owed
         /\ kills = 0 /\ (\A q \in Runs \ {r} : ~Duty(q)) /\ ~Duty(r) => Bytes(held) <= Cap
         /\ Untouched /\ size \in Nat /\ ~Recounts(r) /\ ~Sweeping(r) => Bytes(held) = size + Pending
         /\ Untouched => Pending <= Sum(held, Blobs)
  <1>1. StoreInv /\ StoreFits /\ \A q \in Runs : HolderFits(q)
    BY DEF StoreHonest
  <1>2. ASSUME NEW q \in Runs \ {r}
        PROVE  /\ HolderFits(q)' /\ ~Recounts(q) /\ ~Sweeping(q) /\ ~Recounts(q)'
               /\ ~Sweeping(q)' /\ (Duty(q)' <=> Duty(q)) /\ (~Duty(q) => pending[q] = 0)
    <2>1. pc'[q] = pc[q] /\ flags'[q] = flags[q]
      BY DEF Stand
    <2>2. pc[q] \notin UnderLock
      <3>1. (lock = r <=> pc[r] \in UnderLock) /\ (lock = q <=> pc[q] \in UnderLock)
        BY <1>1 DEF StoreInv, LockHeld
      <3>2. (lock' = r <=> pc'[r] \in UnderLock) /\ (lock' = q <=> pc'[q] \in UnderLock)
        BY DEF StoreInv, LockHeld
      <3> QED
        BY <2>1, <3>1, <3>2 DEF Held
    <2>3. pending[q] # 0 => "admitted" \in flags[q]
      BY <1>1, RunTypes DEF PendingFits
    <2> QED
      BY <2>1, <2>2, <2>3, AwayFits, AwayFitsNext
  <1>3. size \in Nat /\ ~Recounts(r) => Bytes(held) <= size + Owed
    BY <1>1, <1>2 DEF StoreFits, SizeShort
  <1>4. kills = 0 /\ (\A q \in Runs \ {r} : ~Duty(q)) /\ ~Duty(r) => Bytes(held) <= Cap
    BY <1>1 DEF StoreFits, CapOwed
  <1>5. Untouched /\ size \in Nat /\ ~Recounts(r) /\ ~Sweeping(r) => Bytes(held) = size + Pending
    BY <1>1, <1>2 DEF StoreFits, SizeExact
  <1>6. Untouched => Pending <= Sum(held, Blobs)
    BY <1>1 DEF StoreFits, PlacedStands
  <1> QED
    BY <1>1, <1>2, <1>3, <1>4, <1>5, <1>6

\* It is enough that the figures of the holder fit, and the store by it.
LEMMA HolderMoves ==
  ASSUME StoreHonest, StoreInv', NEW r \in Runs, Stand(r), Held(r), HolderFits(r)',
         size' \in Nat /\ ~Recounts(r)' => Bytes(held') <= size' + Owed',
         kills' = 0 /\ (\A q \in Runs \ {r} : ~Duty(q)) /\ ~Duty(r)' => Bytes(held') <= Cap,
         Untouched' /\ size' \in Nat /\ ~Recounts(r)' /\ ~Sweeping(r)' => Bytes(held') = size' + Pending',
         Untouched' => Pending' <= Sum(held', Blobs)
  PROVE  StoreHonest'
  <1>1. \A q \in Runs \ {r} : HolderFits(q)' /\ ~Recounts(q)' /\ ~Sweeping(q)' /\ (Duty(q)' <=> Duty(q))
    BY HolderAlone
  <1>2. \A q \in Runs : HolderFits(q)'
    BY <1>1
  <1>3. SizeShort'
    BY DEF SizeShort
  <1>4. CapOwed'
    BY <1>1 DEF CapOwed
  <1>5. SizeExact'
    BY DEF SizeExact
  <1>6. PlacedStands'
    BY DEF PlacedStands
  <1> QED
    BY <1>2, <1>3, <1>4, <1>5, <1>6 DEF StoreHonest, StoreFits

\* What is held, by the number a run goes by: no more than is owed beyond it,
\* and where all is told just what is yet to count.
LEMMA HolderReads ==
  ASSUME StoreHonest, StoreInv', NEW r \in Runs, Stand(r), Held(r), pc[r] \in {"change", "cap"}
  PROVE  /\ SizeRead(r) \in Nat /\ Bytes(held) <= SizeRead(r) + Owed
         /\ Untouched => Bytes(held) = SizeRead(r) + Pending
  <1>1. /\ StoreInv /\ HolderFits(r)
        /\ (size \in Nat /\ ~Recounts(r) => Bytes(held) <= size + Owed)
        /\ (Untouched /\ size \in Nat /\ ~Recounts(r) /\ ~Sweeping(r) => Bytes(held) = size + Pending)
    BY HolderAlone
  <1>2. ~Recounts(r) /\ ~Sweeping(r) /\ found[r] \in [Files -> Nat] /\ held \in [Files -> Nat]
        /\ Owed \in Nat /\ Pending \in Nat /\ Bytes(held) \in Nat
    BY <1>1, RunTypes, OwedTyped DEF Recounts, Sweeping
  <1>3. CASE size \in Nat
    BY <1>1, <1>2, <1>3 DEF SizeRead
  <1>4. CASE size \notin Nat
    <2>1. SizeRead(r) = Bytes(found[r]) /\ GoesByWalk(r) /\ Seen(r) = Files
      BY <1>4 DEF SizeRead, GoesByWalk, Seen
    <2>2. Excess(r) = Beyond(held, found[r], Files) /\ Excess(r) \in Nat
      BY <1>2, <2>1, BeyondTyped DEF Excess
    <2>3. /\ Bytes(found[r]) \in Nat /\ Bytes(held) <= Bytes(found[r]) + Excess(r)
          /\ ((\A f \in Files : found[r][f] # 0 => held[f] = found[r][f])
                => Bytes(held) = Bytes(found[r]) + Excess(r))
      BY <1>2, <2>2, BytesWithin
    <2>4. Excess(r) <= Owed
      BY <1>1, <2>1 DEF HolderFits, WalkShort
    <2>5. Untouched => Excess(r) = Pending /\ \A f \in Files : found[r][f] # 0 => held[f] = found[r][f]
      BY <1>1, <2>1 DEF HolderFits, HolderExact, WalkSeen, WalkExact
    <2> QED
      BY <1>2, <2>1, <2>2, <2>3, <2>4, <2>5
  <1> QED
    BY <1>3, <1>4

\* A walk that begins falls short of nothing.
LEMMA WalkStarts ==
  ASSUME StoreInv', NEW r \in Runs, pc'[r] = "walk", found'[r] = Unseen, left'[r] = Files
  PROVE  HolderFits(r)'
  <1>1. Seen(r)' = {}
    BY DEF Seen
  <1>2. Unseen \in [Files -> Nat] /\ {} \in SUBSET Files /\ held' \in [Files -> Nat]
    BY OwedTypedNext DEF Unseen
  <1>3. Excess(r)' = 0
    <2>1. Beyond(held', Unseen, {}) = 0
      BY <1>2, BeyondTyped
    <2> QED
      BY <1>1, <2>1 DEF Excess
  <1>4. WalkShort(r)'
    BY <1>3, OwedTypedNext DEF WalkShort
  <1>5. SweepShort(r)'
    BY DEF SweepShort
  <1>6. WalkSeen(r)'
    BY <1>1 DEF WalkSeen
  <1>7. WalkExact(r)'
    BY <1>3, StoreAssumption DEF WalkExact
  <1> QED
    BY <1>4, <1>5, <1>6, <1>7 DEF HolderFits, HolderExact

\* A walk at its end.
LEMMA WalkEnds ==
  ASSUME StoreInv, NEW r \in Runs, HolderFits(r), pc[r] = "sweep" \/ (pc[r] = "walk" /\ left[r] = {})
  PROVE  /\ Seen(r) = Files /\ Excess(r) = Beyond(held, found[r], Files) /\ Excess(r) \in Nat
         /\ Excess(r) <= Owed
         /\ Bytes(found[r]) \in Nat /\ Bytes(held) <= Bytes(found[r]) + Owed
         /\ Untouched => /\ Bytes(held) = Bytes(found[r]) + Pending /\ Excess(r) = Pending
                         /\ WalkSeen(r)
  <1>1. GoesByWalk(r) /\ Seen(r) = Files
    BY DEF GoesByWalk, Seen
  <1>2. found[r] \in [Files -> Nat] /\ held \in [Files -> Nat]
        /\ Owed \in Nat /\ Pending \in Nat /\ Bytes(held) \in Nat
    BY RunTypes, OwedTyped
  <1>3. Excess(r) = Beyond(held, found[r], Files) /\ Excess(r) \in Nat
    BY <1>1, <1>2, BeyondTyped DEF Excess
  <1>4. /\ Bytes(found[r]) \in Nat /\ Bytes(held) <= Bytes(found[r]) + Excess(r)
        /\ ((\A f \in Files : found[r][f] # 0 => held[f] = found[r][f])
              => Bytes(held) = Bytes(found[r]) + Excess(r))
    BY <1>2, <1>3, BytesWithin
  <1>5. Excess(r) <= Owed
    BY <1>1 DEF HolderFits, WalkShort
  <1>6. Untouched => Excess(r) = Pending /\ WalkSeen(r)
    BY <1>1 DEF HolderFits, HolderExact, WalkExact
  <1>7. Untouched => \A f \in Files : found[r][f] # 0 => held[f] = found[r][f]
    BY <1>1, <1>6 DEF WalkSeen
  <1> QED
    BY <1>1, <1>2, <1>3, <1>4, <1>5, <1>6, <1>7

\* The steps under the lock that change no file and no count.
LEMMA LockedQuietHonest ==
  ASSUME StoreHonest, NEW r \in Runs, LockedQuietly(r)
  PROVE  StoreHonest'
  <1>1. /\ StoreInv' /\ Stand(r) /\ Steady /\ (drifted => drifted')
        /\ ("admitted" \in flags'[r] => "admitted" \in flags[r]) /\ StoreInv
    BY LockedQuiet DEF StoreHonest
  <1>2. /\ held' = held /\ size' = size /\ kills' = kills /\ Pending' = Pending /\ Owed' = Owed
        /\ (Untouched' => Untouched)
    BY <1>1 DEF Steady, Pending, Owed, Untouched
  <1>3. /\ Pending \in Nat /\ Owed \in Nat /\ Pending <= Owed /\ (kills = 0 => Owed = Pending)
        /\ ((\A q \in Runs : pending[q] = 0) => Pending = 0)
        /\ held \in [Files -> Nat] /\ Bytes(held) \in Nat /\ Cap \in Nat
    BY <1>1, OwedTyped, StoreAssumption
  <1>4. /\ pc[r] \in StoreSteps /\ pc'[r] \in StoreSteps /\ job[r] \in JobType /\ found[r] \in [Files -> Nat]
        /\ found'[r] \in [Files -> Nat] /\ left[r] \in SUBSET Files /\ lock' \in Runs \cup {None}
    BY <1>1 DEF StoreInv, StoreTypes
  \* Each such step leaves no recount behind it, and its holder's figures fit.
  <1> DEFINE Follows == /\ Held(r) /\ ~Recounts(r) /\ (Sweeping(r) => Sweeping(r)') /\ HolderFits(r)'
                        /\ ((\A q \in Runs \ {r} : ~Duty(q)) /\ ~Duty(r)' /\ kills = 0 /\ Duty(r)
                              => Bytes(held) <= Cap)
  <1>5. ASSUME Follows PROVE StoreHonest'
    <2>1. /\ (size \in Nat /\ ~Recounts(r) => Bytes(held) <= size + Owed)
          /\ (kills = 0 /\ (\A q \in Runs \ {r} : ~Duty(q)) /\ ~Duty(r) => Bytes(held) <= Cap)
          /\ (Untouched /\ size \in Nat /\ ~Recounts(r) /\ ~Sweeping(r) => Bytes(held) = size + Pending)
          /\ (Untouched => Pending <= Sum(held, Blobs))
      BY <1>1, <1>5, HolderAlone
    <2>2. size' \in Nat /\ ~Recounts(r)' => Bytes(held') <= size' + Owed'
      BY <1>2, <1>5, <2>1
    <2>3. kills' = 0 /\ (\A q \in Runs \ {r} : ~Duty(q)) /\ ~Duty(r)' => Bytes(held') <= Cap
      BY <1>2, <1>5, <2>1
    <2>4. Untouched' /\ size' \in Nat /\ ~Recounts(r)' /\ ~Sweeping(r)' => Bytes(held') = size' + Pending'
      BY <1>2, <1>5, <2>1
    <2>5. Untouched' => Pending' <= Sum(held', Blobs)
      BY <1>2, <2>1
    <2>6. Held(r) /\ HolderFits(r)'
      BY <1>5
    <2> HIDE DEF Follows
    <2> QED
      BY <1>1, <2>2, <2>3, <2>4, <2>5, <2>6, HolderMoves
  <1>6. CASE Locks(r)
    <2>1. /\ pc[r] = "lock" /\ lock' = r /\ flags' = flags /\ job' = job
          /\ CASE job[r].kind = "first" -> Walks(r)
               [] job[r].kind \in {"flush", "finish"} -> Goto(r, "flush") /\ UNCHANGED walk
               [] OTHER -> ReadsSize(r, "change")
      BY <1>6 DEF Locks
    <2>2. \/ pc'[r] = "walk" /\ found'[r] = Unseen /\ left'[r] = Files
          \/ pc'[r] = "flush"
          \/ pc'[r] = "change" /\ size \in Nat
      <3>1. CASE job[r].kind = "first"
        <4>1. Walks(r)
          BY <2>1, <3>1
        <4> QED
          BY <1>1, <4>1, WalkBegins DEF StoreInv
      <3>2. CASE job[r].kind \in {"flush", "finish"}
        <4>1. Goto(r, "flush")
          BY <2>1, <3>2
        <4> QED
          BY <1>1, <4>1 DEF Goto, StoreInv, StoreTypes
      <3>3. CASE job[r].kind \notin {"first", "flush", "finish"}
        <4>1. ReadsSize(r, "change")
          BY <2>1, <3>3
        <4>2. "change" \in StoreSteps
          BY DEF StoreSteps, UnderLock
        <4> QED
          BY <1>1, <4>1, <4>2, SizeIsRead DEF StoreInv
      <3> QED
        BY <3>1, <3>2, <3>3
    <2>3. HolderFits(r)'
      <3>1. CASE pc'[r] = "walk" /\ found'[r] = Unseen /\ left'[r] = Files
        BY <1>1, <3>1, WalkStarts
      <3>2. CASE pc'[r] = "flush" \/ (pc'[r] = "change" /\ size' \in Nat)
        BY <3>2 DEF HolderFits, WalkShort, SweepShort, HolderExact, GoesByWalk
      <3> QED
        BY <1>2, <2>2, <3>1, <3>2
    <2>4. Held(r) /\ ~Recounts(r) /\ ~Sweeping(r) /\ (Duty(r) => Duty(r)')
      BY <2>1, <2>2 DEF Held, UnderLock, Recounts, Sweeping, Duty
    <2> QED
      BY <1>5, <2>3, <2>4
  <1>7. CASE FindsChanged(r)
    <2>1. pc[r] = "change" /\ pc'[r] = "open" /\ flags' = flags
      BY <1>1, <1>7 DEF FindsChanged, Goto, StoreInv, StoreTypes
    <2>2. pc'[r] \notin UnderLock
      BY <2>1 DEF UnderLock
    <2>3. HolderFits(r)'
      BY <2>2, AwayFitsNext
    <2>4. Held(r) /\ ~Recounts(r) /\ ~Sweeping(r) /\ (Duty(r) => Duty(r)')
      BY <2>1 DEF Held, UnderLock, Recounts, Sweeping, Duty
    <2> QED
      BY <1>5, <2>3, <2>4
  <1>8. CASE Resyncs(r) \/ Sweeps(r)
    <2>1. pc[r] \in {"flushed", "cap"} /\ Walks(r) /\ flags' = flags
      BY <1>8 DEF Resyncs, Sweeps
    <2>2. pc'[r] = "walk" /\ found'[r] = Unseen /\ left'[r] = Files
      BY <1>1, <2>1, WalkBegins DEF StoreInv
    <2>3. HolderFits(r)'
      BY <1>1, <2>2, WalkStarts
    <2>4. Held(r) /\ ~Recounts(r) /\ ~Sweeping(r) /\ (Duty(r) => Duty(r)')
      BY <2>1, <2>2 DEF Held, UnderLock, Recounts, Sweeping, Duty
    <2> QED
      BY <1>5, <2>3, <2>4
  <1>9. CASE ChecksCap(r)
    <2>1. pc[r] = "flushed" /\ ReadsSize(r, "cap") /\ flags' = flags
      BY <1>9 DEF ChecksCap
    <2>2. \/ pc'[r] = "walk" /\ found'[r] = Unseen /\ left'[r] = Files
          \/ pc'[r] = "cap" /\ size \in Nat
      <3>1. "cap" \in StoreSteps
        BY DEF StoreSteps, UnderLock
      <3> QED
        BY <1>1, <2>1, <3>1, SizeIsRead DEF StoreInv
    <2>3. HolderFits(r)'
      <3>1. CASE pc'[r] = "walk" /\ found'[r] = Unseen /\ left'[r] = Files
        BY <1>1, <3>1, WalkStarts
      <3>2. CASE pc'[r] = "cap" /\ size' \in Nat
        BY <3>2 DEF HolderFits, WalkShort, SweepShort, HolderExact, GoesByWalk
      <3> QED
        BY <1>2, <2>2, <3>1, <3>2
    <2>4. Held(r) /\ ~Recounts(r) /\ ~Sweeping(r) /\ (Duty(r) => Duty(r)')
      BY <2>1, <2>2 DEF Held, UnderLock, Recounts, Sweeping, Duty
    <2> QED
      BY <1>5, <2>3, <2>4
  <1>10. ASSUME NEW f \in Files, WalkSees(r, f) PROVE Follows
    <2>1. /\ pc[r] = "walk" /\ pc' = pc /\ f \in left[r] /\ flags' = flags /\ job' = job
          /\ found' = [found EXCEPT ![r][f] = held[f]] /\ left' = [left EXCEPT ![r] = @ \ {f}]
          /\ drifted' = (drifted \/ (size # Missing /\ \E q \in Runs : pending[q] # 0))
      BY <1>10 DEF WalkSees
    <2>2. /\ found'[r] = [found[r] EXCEPT ![f] = held[f]] /\ left'[r] = left[r] \ {f}
      BY <1>1, <2>1 DEF StoreInv, StoreTypes
    <2>3. Held(r) /\ ~Recounts(r) /\ ~Sweeping(r) /\ (Duty(r) => Duty(r)')
      BY <2>1 DEF Held, UnderLock, Recounts, Sweeping, Duty
    <2>4. HolderFits(r) /\ GoesByWalk(r)
      BY <2>1 DEF StoreHonest, GoesByWalk
    <2>5. Seen(r) = Files \ left[r] /\ f \notin Seen(r) /\ Seen(r)' = Seen(r) \cup {f} /\ Seen(r) \in SUBSET Files
      BY <1>4, <2>1, <2>2 DEF Seen
    <2>6. Excess(r)' = Excess(r)
      <3> DEFINE S == Seen(r)
                 fd == found[r]
      <3>1. S \in SUBSET Files /\ f \in Files \ S /\ fd \in [Files -> Nat]
        BY <1>4, <2>5
      <3>2. Excess(r) = Beyond(held, fd, S) /\ Excess(r)' = Beyond(held, found'[r], S \cup {f})
        BY <1>2, <2>5 DEF Excess
      <3>3. found'[r][f] = held[f] /\ \A g \in Files : g # f => found'[r][g] = fd[g]
        BY <1>4, <2>2
      <3> HIDE DEF S, fd
      <3>4. Beyond(held, found'[r], S \cup {f}) = Beyond(held, fd, S)
        BY <1>3, <1>4, <3>1, <3>3, BeyondSeen
      <3> QED
        BY <3>2, <3>4
    <2>7. WalkShort(r)'
      BY <1>2, <2>1, <2>4, <2>6 DEF HolderFits, WalkShort
    <2>8. SweepShort(r)'
      BY <2>1 DEF SweepShort
    <2>9. ASSUME Untouched' PROVE WalkSeen(r)' /\ WalkExact(r)'
      <3>1. WalkSeen(r) /\ WalkExact(r)
        BY <1>2, <2>4, <2>9 DEF HolderFits, HolderExact
      <3>2. WalkSeen(r)'
        <4>1. \A g \in Seen(r) : (found[r][g] # 0 => held[g] = found[r][g]) /\ (g \in Views => held[g] = found[r][g])
          BY <3>1 DEF WalkSeen
        <4>2. found'[r][f] = held[f] /\ \A g \in Files : g # f => found'[r][g] = found[r][g]
          BY <1>4, <2>2
        <4>3. \A g \in Seen(r)' : (found'[r][g] # 0 => held[g] = found'[r][g]) /\ (g \in Views => held[g] = found'[r][g])
          BY <2>5, <4>1, <4>2
        <4> QED
          BY <1>2, <4>3 DEF WalkSeen
      <3>3. Pending = 0
        <4>1. size = Missing \/ \A q \in Runs : pending[q] = 0
          BY <2>1, <2>9 DEF Untouched
        <4>2. size = Missing => \A q \in Runs : pending[q] = 0
          BY <1>1, RunTypes DEF Uncounting
        <4> QED
          BY <1>3, <4>1, <4>2
      <3>4. Excess(r) = Pending
        BY <3>1, <3>3 DEF WalkExact
      <3> QED
        BY <1>2, <2>6, <3>2, <3>4 DEF WalkExact
    <2>10. HolderExact(r)'
      BY <2>1, <2>9 DEF HolderExact
    <2> QED
      BY <2>3, <2>7, <2>8, <2>10 DEF HolderFits
  <1>11. CASE Walked(r)
    <2> DEFINE at == CASE job[r].kind \in {"admit", "put", "remove"} -> "change"
                       [] job[r].kind = "capped" -> "cap"
                       [] job[r].kind = "sweep"  -> "sweep"
                       [] OTHER -> "count"
    <2>1. /\ pc[r] = "walk" /\ left[r] = {} /\ pc'[r] = at /\ flags' = flags /\ job' = job /\ found' = found
          /\ (job[r].kind = "sweep" => left'[r] = {f \in Files : found[r][f] # 0})
      BY <1>1, <1>11 DEF Walked, Goto, StoreInv, StoreTypes
    <2>2. /\ at \in {"change", "cap", "sweep", "count"} /\ (at = "sweep" <=> job[r].kind = "sweep")
          /\ (at = "count" => job[r].kind \in Flushers \cup {"first", "resync"})
      <3>1. KindFits("walk", job[r].kind)
        BY <1>1, <2>1, RunTypes DEF JobFits
      <3> QED
        BY <3>1 DEF KindFits, Changers, Flushers, Walkers
    <2> HIDE DEF at
    <2>3. Held(r) /\ ~Recounts(r) /\ ~Sweeping(r) /\ (Duty(r) => Duty(r)')
      BY <2>1, <2>2 DEF Held, UnderLock, Recounts, Sweeping, Duty
    <2>4. /\ Seen(r) = Files /\ Excess(r) = Beyond(held, found[r], Files) /\ Excess(r) \in Nat /\ Excess(r) <= Owed
          /\ Bytes(found[r]) \in Nat /\ Bytes(held) <= Bytes(found[r]) + Owed
          /\ (Untouched => Bytes(held) = Bytes(found[r]) + Pending /\ Excess(r) = Pending /\ WalkSeen(r))
      BY <1>1, <2>1, WalkEnds DEF StoreHonest
    <2>5. Seen(r)' = Files /\ Excess(r)' = Excess(r)
      BY <1>2, <2>1, <2>2, <2>4 DEF Seen, Excess
    <2>6. at = "count" => SizeToWrite(r)' = Bytes(found[r])
      <3>1. ASSUME at = "count" PROVE SizeToWrite(r)' = Bytes(found[r])
        <4>1. job[r].kind \in {"first", "resync"} \/ (job[r].kind \in {"flush", "finish"} /\ size \notin Nat)
          BY <1>1, <2>1, <2>2, <3>1, RunTypes DEF JobFits, Flushers
        <4> QED
          BY <1>2, <2>1, <4>1 DEF SizeToWrite
      <3> QED
        BY <3>1
    <2>7. WalkShort(r)'
      BY <1>2, <2>1, <2>4, <2>5, <2>6 DEF WalkShort
    <2>8. SweepShort(r)'
      <3>1. CASE at = "sweep"
        <4> DEFINE S == Files \ left'[r]
        <4>1. S \in SUBSET Files /\ \A f \in S : found[r][f] = 0
          BY <2>1, <2>2, <3>1
        <4> HIDE DEF S
        <4>2. Sum(held, S) \in Nat /\ Sum(held, S) <= Beyond(held, found[r], Files)
          BY <1>3, <1>4, <4>1, UnfoundIsBeyond
        <4>3. Sum(held', S) <= Owed'
          BY <1>2, <1>3, <2>4, <4>2
        <4>4. \A f \in left'[r] : found'[r][f] # 0
          BY <2>1, <2>2, <3>1
        <4> QED
          BY <2>1, <3>1, <4>3, <4>4 DEF SweepShort, S
      <3>2. CASE at # "sweep"
        BY <2>1, <2>2, <3>2 DEF SweepShort, Kind
      <3> QED
        BY <3>1, <3>2
    <2>9. HolderExact(r)'
      <3>1. SUFFICES ASSUME Untouched'
                     PROVE  /\ at = "count" => Bytes(held') = SizeToWrite(r)' + Pending'
                            /\ WalkSeen(r)' /\ WalkExact(r)'
        BY <2>1 DEF HolderExact
      <3>2. Bytes(held) = Bytes(found[r]) + Pending /\ Excess(r) = Pending /\ WalkSeen(r)
        BY <1>2, <2>4, <3>1
      <3>3. WalkSeen(r)'
        BY <1>2, <2>1, <2>4, <2>5, <3>2 DEF WalkSeen
      <3>4. WalkExact(r)'
        BY <1>2, <2>5, <3>2 DEF WalkExact
      <3> QED
        BY <1>2, <2>6, <3>2, <3>3, <3>4
    <2> QED
      BY <1>5, <2>3, <2>7, <2>8, <2>9 DEF HolderFits
  <1>12. CASE Evicted(r)
    <2>1. /\ pc[r] = "sweep" /\ (~Evicting(r) \/ left[r] = {}) /\ pc'[r] = "count"
          /\ flags' = flags /\ job' = job /\ found' = found
      BY <1>1, <1>12 DEF Evicted, Goto, StoreInv, StoreTypes
    <2>2. job[r].kind = "sweep"
      BY <1>1, <2>1, RunTypes DEF JobFits, KindFits
    <2>3. Held(r) /\ ~Recounts(r) /\ Sweeping(r)' /\ (Duty(r) => Duty(r)')
      BY <2>1, <2>2 DEF Held, UnderLock, Recounts, Sweeping, Duty, Kind
    <2>4. /\ Bytes(found[r]) \in Nat /\ Bytes(held) <= Bytes(found[r]) + Owed
          /\ (Untouched => Bytes(held) = Bytes(found[r]) + Pending)
      BY <1>1, <2>1, WalkEnds DEF StoreHonest
    <2>5. SizeToWrite(r)' = Bytes(found[r])
      BY <2>1, <2>2 DEF SizeToWrite
    <2>6. WalkShort(r)'
      BY <1>2, <2>1, <2>4, <2>5 DEF WalkShort, GoesByWalk
    <2>7. Bytes(held) <= Cap + Owed
      <3>1. CASE ~Evicting(r)
        <4>1. Bytes(found[r]) <= LowWater /\ LowWater \in Nat /\ LowWater <= Cap
          BY <2>4, <3>1, StoreShape DEF Evicting
        <4> QED
          BY <1>3, <2>4, <4>1
      <3>2. CASE left[r] = {}
        <4>1. Sum(held, Files \ left[r]) <= Owed
          BY <2>1 DEF StoreHonest, HolderFits, SweepShort
        <4>2. Files \ left[r] = Files
          BY <3>2
        <4>3. Bytes(held) <= Owed
          BY <4>1, <4>2, BytesIs
        <4> QED
          BY <1>3, <4>3
      <3> QED
        BY <2>1, <3>1, <3>2
    <2>8. SweepShort(r)'
      BY <1>2, <2>1, <2>7 DEF SweepShort
    <2>9. HolderExact(r)'
      BY <1>2, <2>1, <2>4, <2>5 DEF HolderExact, GoesByWalk
    <2> QED
      BY <1>5, <2>3, <2>6, <2>8, <2>9 DEF HolderFits
  <1>13. CASE Finishes(r)
    <2>1. /\ pc[r] \in {"cap", "swept"} /\ (pc[r] = "cap" => ~PastCap(SizeRead(r))) /\ pc'[r] = "none"
      BY <1>1, <1>13 DEF Finishes, EndRun, Goto, StoreInv, StoreTypes
    <2>2. pc'[r] \notin UnderLock
      BY <2>1 DEF UnderLock
    <2>3. HolderFits(r)' /\ Held(r) /\ ~Recounts(r) /\ ~Sweeping(r)
      BY <2>1, <2>2, AwayFitsNext DEF Held, UnderLock, Recounts, Sweeping
    <2>4. ASSUME kills = 0, \A q \in Runs \ {r} : ~Duty(q) PROVE Bytes(held) <= Cap
      <3>1. pending[r] = 0
        BY <1>1, <2>1, RunTypes DEF PendingFits
      <3>2. \A q \in Runs \ {r} : pending[q] = 0
        BY <1>1, <2>3, <2>4, HolderAlone
      <3>3. Owed = 0
        BY <1>3, <2>4, <3>1, <3>2
      <3>4. CASE pc[r] = "cap"
        <4>1. SizeRead(r) \in Nat /\ Bytes(held) <= SizeRead(r) + Owed
          BY <1>1, <2>3, <3>4, HolderReads
        <4>2. SizeRead(r) <= Cap
          BY <1>3, <2>1, <3>4, <4>1 DEF PastCap
        <4> QED
          BY <1>3, <3>3, <4>1, <4>2
      <3>5. CASE pc[r] = "swept"
        <4>1. Bytes(held) <= Cap + Owed
          BY <3>5 DEF StoreHonest, HolderFits, SweepShort
        <4> QED
          BY <1>3, <3>3, <4>1
      <3> QED
        BY <2>1, <3>4, <3>5
    <2> QED
      BY <1>5, <2>3, <2>4
  <1>14. ASSUME NEW f \in Files, WalkSees(r, f) PROVE StoreHonest'
    <2>1. Follows
      BY <1>10, <1>14
    <2> HIDE DEF Follows
    <2> QED
      BY <1>5, <2>1
  <1> QED
    BY <1>6, <1>7, <1>8, <1>9, <1>11, <1>12, <1>13, <1>14 DEF LockedQuietly

\* A file placed, replaced or removed under the lock, before it is counted.
LEMMA ChangesHonest ==
  ASSUME StoreHonest, NEW r \in Runs, Changes(r)
  PROVE  StoreHonest'
  <1> DEFINE f == job[r].file
  <1>1. /\ StoreInv /\ StoreInv' /\ Stand(r) /\ pc[r] = "change" /\ pc'[r] = "count" /\ Kind(r) \in Changers
        /\ f \in Files /\ job'[r].kind = Kind(r)
        /\ size' = size /\ kills' = kills /\ damages' = damages /\ drifted' = drifted
        /\ pending' = pending /\ found' = found /\ flags' = flags /\ left' = left
    BY ChangesFits DEF StoreHonest
  <1>2. PICK n \in Nat :
            /\ held' = [held EXCEPT ![f] = n]
            /\ job'[r].add = n /\ job'[r].sub = held[f]
            /\ (Kind(r) = "admit" => n = Length[f] /\ held[f] = 0 /\ f \in Blobs)
            /\ (Kind(r) = "put" => f \in Views)
            /\ (Kind(r) = "remove" => n = 0 /\ (damages = 0 => f \in Views))
    BY ChangesFits DEF StoreHonest
  <1> HIDE DEF f
  <1>3. /\ Pending \in Nat /\ Owed \in Nat /\ held \in [Files -> Nat] /\ held[f] \in Nat
        /\ Bytes(held) \in Nat /\ Pending' = Pending /\ Owed' = Owed /\ (Untouched' <=> Untouched)
    BY <1>1, OwedTyped DEF Pending, Owed, Untouched
  <1>4. Bytes(held') + held[f] = Bytes(held) + n /\ Bytes(held') \in Nat /\ held[f] <= Bytes(held)
    BY <1>1, <1>2, <1>3, BytesChanged
  <1>5. Held(r) /\ ~Recounts(r) /\ ~Sweeping(r) /\ Recounts(r)' /\ ~GoesByWalk(r)'
    BY <1>1 DEF Held, UnderLock, Recounts, Sweeping, GoesByWalk, Kind
  <1>6. /\ SizeRead(r) \in Nat /\ Bytes(held) <= SizeRead(r) + Owed
        /\ (Untouched => Bytes(held) = SizeRead(r) + Pending)
    BY <1>1, <1>5, HolderReads
  <1>7. SizeToWrite(r)' = Minus(SizeRead(r), held[f]) + n
    <2>1. SizeRead(r)' = SizeRead(r)
      BY <1>1 DEF SizeRead
    <2>2. job'[r].kind \in {"admit", "put", "remove"}
      BY <1>1 DEF Changers
    <2> QED
      BY <1>2, <2>1, <2>2 DEF SizeToWrite
  <1>8. Bytes(held') <= SizeToWrite(r)' + Owed'
    <2>1. \A s, o, b, c, h \in Nat : b <= s + o /\ c + h = b + n => c <= Minus(s, h) + n + o
      BY DEF Minus
    <2> QED
      BY <1>3, <1>4, <1>6, <1>7, <2>1
  <1>9. Untouched => /\ Pending <= Sum(held', Blobs) /\ held[f] + Pending <= Bytes(held)
    <2>1. SUFFICES ASSUME Untouched PROVE Pending <= Sum(held', Blobs) /\ held[f] + Pending <= Bytes(held)
      OBVIOUS
    <2>2. Pending <= Sum(held, Blobs)
      BY <2>1 DEF StoreHonest, StoreFits, PlacedStands
    <2>3. /\ Sum(held, Blobs) \in Nat /\ Sum([held EXCEPT ![f] = n], Blobs) \in Nat
          /\ (f \notin Blobs => Sum([held EXCEPT ![f] = n], Blobs) = Sum(held, Blobs))
          /\ (f \in Blobs => Sum([held EXCEPT ![f] = n], Blobs) + held[f] = Sum(held, Blobs) + n)
      <3>1. Blobs \in SUBSET Files
        BY StoreShape
      <3> QED
        BY <1>1, <1>3, <3>1, SumPlaced
    <2>4. CASE Kind(r) = "admit"
      <3>1. Sum(held', Blobs) = Sum(held, Blobs) + n /\ held[f] = 0
        BY <1>2, <2>3, <2>4
      <3>2. Sum(held, Blobs) <= Bytes(held)
        <4>1. IsFiniteSet(Files) /\ Blobs \in SUBSET Files /\ \A g \in Files : held[g] \in Nat
          BY <1>3, StoreShape
        <4> QED
          BY <4>1, SumPart, BytesIs
      <3> QED
        BY <1>3, <2>2, <2>3, <3>1, <3>2
    <2>5. CASE Kind(r) \in {"put", "remove"}
      <3>1. f \in Views /\ f \notin Blobs
        BY <1>2, <2>1, <2>5, StoreAssumption DEF Untouched
      <3>2. Sum(held', Blobs) = Sum(held, Blobs)
        BY <1>2, <2>3, <3>1
      <3>3. held[f] + Sum(held, Blobs) <= Bytes(held)
        BY <1>3, <3>1, ViewsBesideBlobs
      <3> QED
        BY <1>3, <2>2, <2>3, <3>2, <3>3
    <2> QED
      BY <1>1, <2>4, <2>5 DEF Changers
  <1>10. Untouched => Bytes(held') = SizeToWrite(r)' + Pending'
    <2>1. \A s, p, b, c, h \in Nat : b = s + p /\ c + h = b + n /\ h + p <= b => c = Minus(s, h) + n + p
      BY DEF Minus
    <2>2. SUFFICES ASSUME Untouched PROVE Bytes(held') = SizeToWrite(r)' + Pending'
      OBVIOUS
    <2>3. Bytes(held) = SizeRead(r) + Pending /\ held[f] + Pending <= Bytes(held)
      BY <1>6, <1>9, <2>2
    <2>4. Bytes(held') = Minus(SizeRead(r), held[f]) + n + Pending
      BY <1>3, <1>4, <1>6, <2>1, <2>3, SMTT(30)
    <2> QED
      BY <1>3, <1>7, <2>4
  <1>11. HolderFits(r)'
    BY <1>1, <1>3, <1>5, <1>8, <1>10 DEF HolderFits, WalkShort, SweepShort, HolderExact, Kind, Changers
  <1>12. kills' = 0 /\ (\A q \in Runs \ {r} : ~Duty(q)) /\ ~Duty(r)' => Bytes(held') <= Cap
    <2>1. SUFFICES ASSUME kills' = 0, \A q \in Runs \ {r} : ~Duty(q), ~Duty(r)' PROVE Bytes(held') <= Cap
      OBVIOUS
    <2>2. Kind(r) = "remove" /\ ~Duty(r)
      BY <1>1, <2>1 DEF Duty, Changers, Kind
    <2>3. Bytes(held) <= Cap
      BY <1>1, <1>5, <2>1, <2>2, HolderAlone
    <2>4. n = 0 /\ Cap \in Nat
      BY <1>2, <2>2, StoreAssumption
    <2> QED
      BY <1>3, <1>4, <2>3, <2>4
  <1>13. Untouched' => Pending' <= Sum(held', Blobs)
    BY <1>3, <1>9
  <1> QED
    BY <1>1, <1>5, <1>11, <1>12, <1>13, HolderMoves

\* What a run placed taken over, to be counted.
LEMMA FlushesHonest ==
  ASSUME StoreHonest, NEW r \in Runs, Flushes(r)
  PROVE  StoreHonest'
  <1> DEFINE p == pending[r]
  <1>1. /\ StoreInv /\ StoreInv' /\ Stand(r) /\ pc[r] = "flush" /\ Kind(r) \in Flushers /\ job'[r].kind = Kind(r)
        /\ pending' = [pending EXCEPT ![r] = 0] /\ job'[r].add = p
        /\ held' = held /\ size' = size /\ kills' = kills /\ damages' = damages
        /\ drifted' = drifted /\ flags' = flags
        /\ (p = 0 => pc'[r] = "flushed")
        /\ (p # 0 /\ size \in Nat => pc'[r] = "count" /\ job'[r].sub = 0)
        /\ (p # 0 /\ size \notin Nat => pc'[r] = "walk" /\ found'[r] = Unseen /\ left'[r] = Files)
    BY FlushesFits DEF StoreHonest
  <1>2. /\ Pending \in Nat /\ Owed \in Nat /\ Bytes(held) \in Nat /\ Pending' \in Nat /\ Owed' \in Nat
        /\ (Untouched' <=> Untouched)
    BY <1>1, OwedTyped, OwedTypedNext DEF Untouched
  <1>3. /\ p \in Nat /\ pending'[r] = 0 /\ \A q \in Runs \ {r} : pending'[q] = pending[q]
    BY <1>1 DEF StoreInv, StoreTypes
  <1>4. Pending' + p = Pending /\ Owed' + p = Owed
    <2>1. Pending' + pending[r] = Pending + pending'[r] /\ Owed' + pending[r] = Owed + pending'[r]
      BY <1>1, <1>3, OwedMoves
    <2> QED
      BY <1>2, <1>3, <2>1
  <1> HIDE DEF p
  <1>5. pc'[r] \in {"flushed", "count", "walk"} /\ Held(r) /\ ~Recounts(r) /\ ~Sweeping(r)
        /\ ~Sweeping(r)' /\ (Duty(r) => Duty(r)')
    BY <1>1 DEF Held, UnderLock, Recounts, Sweeping, Duty, Kind, Flushers
  <1>6. /\ (size \in Nat => Bytes(held) <= size + Owed)
        /\ (kills = 0 /\ (\A q \in Runs \ {r} : ~Duty(q)) /\ ~Duty(r) => Bytes(held) <= Cap)
        /\ (Untouched /\ size \in Nat => Bytes(held) = size + Pending)
        /\ (Untouched => Pending <= Sum(held, Blobs))
    BY <1>1, <1>5, HolderAlone
  <1>7. ASSUME p # 0, size \in Nat PROVE SizeToWrite(r)' = size + p
    <2>1. SizeToWrite(r)' = Minus(size, 0) + p
      BY <1>1, <1>7 DEF SizeToWrite, SizeRead, Flushers
    <2>2. Minus(size, 0) = size
      BY <1>7, MinusTyped
    <2> QED
      BY <2>1, <2>2
  <1>8. HolderFits(r)'
    <2>1. CASE p = 0
      BY <1>1, <2>1 DEF HolderFits, WalkShort, SweepShort, HolderExact, GoesByWalk
    <2>2. CASE p # 0 /\ size \notin Nat
      BY <1>1, <2>2, WalkStarts
    <2>3. CASE p # 0 /\ size \in Nat
      <3>1. Bytes(held') <= SizeToWrite(r)' + Owed'
        BY <1>1, <1>2, <1>3, <1>4, <1>6, <1>7, <2>3
      <3>2. Untouched' => Bytes(held') = SizeToWrite(r)' + Pending'
        <4>1. SUFFICES ASSUME Untouched' PROVE Bytes(held') = SizeToWrite(r)' + Pending'
          OBVIOUS
        <4>2. Bytes(held) = size + Pending
          BY <1>2, <1>6, <2>3, <4>1
        <4>3. Bytes(held) = (size + p) + Pending'
          <5>1. p \in Nat /\ Pending \in Nat /\ Pending' \in Nat
            BY <1>2, <1>3
          <5>2. Pending' + p = Pending
            BY <1>4
          <5>3. \A b, n, m : n \in Nat /\ b = size + n /\ m \in Nat /\ m + p = n => b = (size + p) + m
            BY <5>1, <2>3
          <5> QED
            BY <4>2, <5>1, <5>2, <5>3
        <4>4. SizeToWrite(r)' = size + p /\ held' = held
          BY <1>1, <1>7, <2>3
        <4> QED
          BY <4>3, <4>4
      <3> QED
        BY <1>1, <2>3, <3>1, <3>2 DEF HolderFits, WalkShort, SweepShort, HolderExact, GoesByWalk, Kind, Flushers
    <2> QED
      BY <2>1, <2>2, <2>3
  <1>9. size' \in Nat /\ ~Recounts(r)' => p = 0
    BY <1>1 DEF Recounts, Kind
  <1>10. size' \in Nat /\ ~Recounts(r)' => Bytes(held') <= size' + Owed'
    <2>1. SUFFICES ASSUME size' \in Nat, ~Recounts(r)' PROVE Bytes(held') <= size' + Owed'
      OBVIOUS
    <2>2. p = 0 /\ size \in Nat /\ size' = size /\ held' = held
      <3>1. size' = size /\ held' = held
        BY <1>1
      <3>2. p = 0
        BY <1>9, <2>1
      <3> QED
        BY <2>1, <3>1, <3>2
    <2>3. Owed' = Owed
      <3>1. Owed \in Nat /\ Owed' \in Nat /\ Owed' + p = Owed
        BY <1>2, <1>4
      <3>2. \A n, m \in Nat : m + p = n => m = n
        BY <2>2
      <3> QED
        BY <3>1, <3>2
    <2> QED
      BY <1>6, <2>2, <2>3
  <1>11. Untouched' /\ size' \in Nat /\ ~Recounts(r)' /\ ~Sweeping(r)' => Bytes(held') = size' + Pending'
    <2>1. SUFFICES ASSUME Untouched', size' \in Nat, ~Recounts(r)' PROVE Bytes(held') = size' + Pending'
      OBVIOUS
    <2>2. Bytes(held) = size + Pending /\ p = 0
      BY <1>1, <1>2, <1>6, <1>9, <2>1
    <2>3. \A m, n \in Nat : m + p = n /\ p = 0 => m = n
      OBVIOUS
    <2>4. Pending' = Pending
      BY <1>2, <1>4, <2>2, <2>3
    <2> QED
      BY <1>1, <2>2, <2>4
  <1>12. kills' = 0 /\ (\A q \in Runs \ {r} : ~Duty(q)) /\ ~Duty(r)' => Bytes(held') <= Cap
    BY <1>1, <1>5, <1>6
  <1>13. Untouched' => Pending' <= Sum(held', Blobs)
    <2>1. Sum(held, Blobs) \in Nat
      <3>1. IsFiniteSet(Blobs) /\ \A g \in Blobs : held[g] \in Nat
        BY <1>1, StoreShape, StoreAssumption, OwedTyped
      <3> QED
        BY <3>1, SumTaken
    <2> QED
      BY <1>1, <1>2, <1>3, <1>4, <1>6, <2>1
  <1> QED
    BY <1>1, <1>5, <1>8, <1>10, <1>11, <1>12, <1>13, HolderMoves

\* The figure written.
LEMMA CountsHonest ==
  ASSUME StoreHonest, NEW r \in Runs, Counts(r)
  PROVE  StoreHonest'
  <1>1. /\ StoreInv /\ StoreInv' /\ Stand(r) /\ pc[r] = "count" /\ size' = SizeToWrite(r) /\ size' \in Nat
        /\ held' = held /\ pending' = pending /\ kills' = kills /\ damages' = damages /\ drifted' = drifted
        /\ pc'[r] \in {"flushed", "swept", "place", "open"}
        /\ (Kind(r) = "sweep" <=> pc'[r] = "swept") /\ (Duty(r) => "admitted" \in flags'[r])
    BY CountsFits DEF StoreHonest
  <1>2. Pending' = Pending /\ Owed' = Owed /\ (Untouched' <=> Untouched)
    BY <1>1 DEF Pending, Owed, Untouched
  <1>3. Held(r) /\ ~GoesByWalk(r)' /\ (Duty(r) => Duty(r)')
    BY <1>1 DEF Held, UnderLock, GoesByWalk, Duty
  <1>4. HolderFits(r)
    BY DEF StoreHonest
  <1>5. Bytes(held') <= size' + Owed' /\ (Untouched' => Bytes(held') = size' + Pending')
    BY <1>1, <1>2, <1>4 DEF HolderFits, WalkShort, HolderExact
  <1>6. SweepShort(r)'
    BY <1>1, <1>2, <1>4 DEF HolderFits, SweepShort
  <1>7. HolderFits(r)'
    BY <1>1, <1>3, <1>6 DEF HolderFits, WalkShort, HolderExact
  <1>8. /\ (kills = 0 /\ (\A q \in Runs \ {r} : ~Duty(q)) /\ ~Duty(r) => Bytes(held) <= Cap)
        /\ (Untouched => Pending <= Sum(held, Blobs))
    BY <1>1, <1>3, HolderAlone
  <1>9. kills' = 0 /\ (\A q \in Runs \ {r} : ~Duty(q)) /\ ~Duty(r)' => Bytes(held') <= Cap
    BY <1>1, <1>3, <1>8
  <1>10. Untouched' => Pending' <= Sum(held', Blobs)
    BY <1>1, <1>2, <1>8
  <1> QED
    BY <1>1, <1>3, <1>5, <1>7, <1>9, <1>10, HolderMoves

\* A file evicted: what is held and what the walk found fall together.
LEMMA EvictsHonest ==
  ASSUME StoreHonest, NEW r \in Runs, NEW f \in Files, Evicts(r, f)
  PROVE  StoreHonest'
  <1>1. /\ StoreInv /\ StoreInv' /\ Stand(r) /\ pc[r] = "sweep" /\ pc' = pc /\ job' = job /\ flags' = flags
        /\ f \in left[r] /\ left'[r] = left[r] \ {f}
        /\ held' = [held EXCEPT ![f] = 0]
        /\ found'[r] = [found[r] EXCEPT ![f] = IF held[f] # 0 THEN 0 ELSE @]
        /\ size' = size /\ pending' = pending /\ kills' = kills /\ damages' = damages /\ drifted' = drifted
    BY EvictsFits DEF StoreHonest
  <1>2. /\ Pending \in Nat /\ Owed \in Nat /\ held \in [Files -> Nat] /\ Bytes(held) \in Nat
        /\ held' \in [Files -> Nat] /\ Bytes(held') \in Nat /\ Cap \in Nat
        /\ Pending' = Pending /\ Owed' = Owed /\ (Untouched' <=> Untouched)
    BY <1>1, OwedTyped, OwedTypedNext, StoreAssumption DEF Pending, Owed, Untouched
  <1>3. /\ held'[f] = 0 /\ (\A g \in Files : g # f => held'[g] = held[g])
        /\ found[r] \in [Files -> Nat] /\ left[r] \in SUBSET Files /\ held[f] \in Nat
        /\ (\A g \in Files : held[g] \in Nat /\ held'[g] \in Nat /\ held'[g] <= held[g])
    <2>1. found[r] \in [Files -> Nat] /\ left[r] \in SUBSET Files
      BY <1>1, RunTypes
    <2>2. held'[f] = 0 /\ \A g \in Files : g # f => held'[g] = held[g]
      BY <1>1, <1>2
    <2>3. \A g \in Files : held[g] \in Nat /\ held'[g] \in Nat
      BY <1>2
    <2> QED
      BY <2>1, <2>2, <2>3
  <1>4. /\ found'[r][f] = (IF held[f] # 0 THEN 0 ELSE found[r][f])
        /\ (\A g \in Files : g # f => found'[r][g] = found[r][g]) /\ found'[r] \in [Files -> Nat]
    BY <1>1, <1>3, RunTypes
  <1>5. Bytes(held') <= Bytes(held)
    <2>1. Sum(held', Files) <= Sum(held, Files)
      BY <1>3, StoreShape, SumAtMost
    <2> QED
      BY <2>1, BytesIs
  <1>6. Held(r) /\ ~Recounts(r) /\ Sweeping(r)' /\ (Duty(r) <=> Duty(r)') /\ HolderFits(r)
    BY <1>1 DEF StoreHonest, Held, UnderLock, Recounts, Sweeping, Duty, Kind
  <1>7. /\ Seen(r) = Files /\ Excess(r) = Beyond(held, found[r], Files) /\ Excess(r) \in Nat
        /\ Excess(r) <= Owed /\ (Untouched => Excess(r) = Pending /\ WalkSeen(r))
    BY <1>1, <1>6, WalkEnds
  <1>8. Seen(r)' = Files /\ Excess(r)' = Beyond(held', found'[r], Files) /\ Excess(r)' \in Nat
    <2>1. Seen(r)' = Files
      BY <1>1 DEF Seen
    <2> QED
      BY <1>2, <1>4, <2>1, BeyondTyped DEF Excess
  <1>9. \A g \in Files : /\ Minus(held'[g], found'[r][g]) <= Minus(held[g], found[r][g])
                         /\ g # f => Minus(held'[g], found'[r][g]) = Minus(held[g], found[r][g])
                         /\ Minus(held'[f], found'[r][f]) = 0
    <2>1. \A m \in Nat : Minus(0, m) = 0
      BY DEF Minus
    <2>2. \A g \in Files : Minus(held[g], found[r][g]) \in Nat
      BY <1>3, MinusTyped
    <2>3. Minus(held'[f], found'[r][f]) = 0
      BY <1>3, <1>4, <2>1
    <2> QED
      BY <1>3, <1>4, <2>2, <2>3
  <1>10. Excess(r)' <= Excess(r)
    <2>1. \A g \in Files : Minus(held'[g], found'[r][g]) <= Minus(held[g], found[r][g])
      BY <1>9
    <2>2. Beyond(held', found'[r], Files) <= Beyond(held, found[r], Files)
      BY <1>2, <1>3, <1>4, <2>1, BeyondAtMost
    <2> QED
      BY <1>7, <1>8, <2>2
  <1>11. WalkShort(r)'
    BY <1>1, <1>2, <1>7, <1>8, <1>10 DEF WalkShort
  <1>12. SweepShort(r)'
    <2>1. Sum(held, Files \ left[r]) <= Owed /\ \A g \in left[r] : found[r][g] # 0
      BY <1>1, <1>6 DEF HolderFits, SweepShort
    <2>2. \A g \in left'[r] : found'[r][g] # 0
      BY <1>1, <1>3, <1>4, <2>1
    <2> DEFINE S == Files \ left[r]
               T == Files \ left'[r]
    <2>3. T \in SUBSET Files /\ S \in SUBSET T /\ T \ S = {f} /\ S \in SUBSET Files /\ f \notin S
      BY <1>1, <1>3
    <2>4. IsFiniteSet(T) /\ IsFiniteSet(S) /\ T \ {f} = S /\ f \in T
      BY <2>3, StoreShape, FS_Subset
    <2> HIDE DEF S, T
    <2>5. Sum(held', T) = held'[f] + Sum(held', S)
      <3>1. \A g \in T : held'[g] \in Nat
        BY <1>3, <2>3
      <3> QED
        BY <2>4, <3>1, SumTaken
    <2>6. Sum(held', S) = Sum(held, S) /\ Sum(held, S) \in Nat
      <3>1. \A g \in S : held'[g] = held[g] /\ held[g] \in Nat
        BY <1>3, <2>3
      <3> QED
        BY <2>4, <3>1, SumSame, SumTaken
    <2>7. Sum(held', T) <= Owed'
      <3>1. Sum(held, S) <= Owed
        BY <2>1 DEF S
      <3> QED
        BY <1>2, <1>3, <2>5, <2>6, <3>1
    <2> QED
      BY <1>1, <2>2, <2>7 DEF SweepShort, T
  <1>13. ASSUME Untouched PROVE WalkSeen(r)' /\ Excess(r)' = Pending
    <2>1. \A g \in Files : (found[r][g] # 0 => held[g] = found[r][g]) /\ (g \in Views => held[g] = found[r][g])
      BY <1>7, <1>13 DEF WalkSeen
    <2>2. found[r][f] # 0 /\ held[f] = found[r][f]
      <3>1. found[r][f] # 0
        BY <1>1, <1>6 DEF HolderFits, SweepShort
      <3> QED
        BY <2>1, <3>1
    <2>3. found'[r][f] = 0
      BY <1>4, <2>2
    <2>4. \A g \in Files : (found'[r][g] # 0 => held'[g] = found'[r][g]) /\ (g \in Views => held'[g] = found'[r][g])
      BY <1>3, <1>4, <2>1, <2>3
    <2>5. WalkSeen(r)'
      BY <1>8, <2>4 DEF WalkSeen
    <2>6. Minus(held[f], found[r][f]) = 0
      BY <1>3, <2>2, MinusTyped
    <2>7. \A g \in Files : Minus(held[g], found[r][g]) <= Minus(held'[g], found'[r][g])
      <3>1. Minus(held'[f], found'[r][f]) = 0 /\ \A g \in Files : Minus(held[g], found[r][g]) \in Nat
        BY <1>3, <1>9, MinusTyped
      <3> QED
        BY <1>9, <2>6, <3>1
    <2>8. Beyond(held, found[r], Files) <= Beyond(held', found'[r], Files)
      BY <1>2, <1>3, <1>4, <2>7, BeyondAtMost
    <2> QED
      BY <1>2, <1>7, <1>8, <1>10, <1>13, <2>5, <2>8
  <1>14. HolderExact(r)'
    BY <1>1, <1>2, <1>13 DEF HolderExact, WalkExact
  <1>15. ASSUME Untouched' PROVE Pending' <= Sum(held', Blobs)
    <2>1. WalkSeen(r)' /\ Excess(r)' = Pending
      BY <1>2, <1>13, <1>15
    <2>2. \A g \in Views : held'[g] = found'[r][g]
      BY <1>8, <2>1, StoreShape DEF WalkSeen
    <2>3. Beyond(held', found'[r], Files) <= Sum(held', Blobs)
      BY <1>2, <1>4, <2>2, BeyondIsBlobs
    <2> QED
      BY <1>2, <1>8, <2>1, <2>3
  <1>16. size' \in Nat /\ ~Recounts(r)' => Bytes(held') <= size' + Owed'
    <2>1. size \in Nat => Bytes(held) <= size + Owed
      BY <1>1, <1>6, HolderAlone
    <2> QED
      BY <1>1, <1>2, <1>5, <2>1
  <1>17. kills' = 0 /\ (\A q \in Runs \ {r} : ~Duty(q)) /\ ~Duty(r)' => Bytes(held') <= Cap
    <2>1. kills = 0 /\ (\A q \in Runs \ {r} : ~Duty(q)) /\ ~Duty(r) => Bytes(held) <= Cap
      BY <1>1, <1>6, HolderAlone
    <2> QED
      BY <1>1, <1>2, <1>5, <1>6, <2>1
  <1>18. HolderFits(r)'
    BY <1>11, <1>12, <1>14 DEF HolderFits
  <1> QED
    BY <1>1, <1>6, <1>15, <1>16, <1>17, <1>18, HolderMoves

\* An empty store with no number is honest.
LEMMA StoreBegins ==
  ASSUME Init
  PROVE  StoreHonest
  <1>1. /\ held = [f \in Files |-> 0] /\ bad = {} /\ size = Missing /\ lock = None
        /\ pc = [r \in Runs |-> "none"] /\ job = [r \in Runs |-> NoJob]
        /\ pending = [r \in Runs |-> 0] /\ placed = [r \in Runs |-> 0]
        /\ flags = [r \in Runs |-> {}]
        /\ found = [r \in Runs |-> Unseen] /\ left = [r \in Runs |-> {}]
        /\ changes = 0 /\ damages = 0 /\ kills = 0 /\ drifted = FALSE
    BY DEF Init
  <1>2. /\ NoJob \in JobType /\ NoJob.kind = "none" /\ Unseen \in [Files -> Nat] /\ "none" \in StoreSteps
        /\ {} \in FlagSets /\ 0 \in 0 .. FlushEvery - 1 /\ 0 <= 0 * LongestFile
    <2>1. NoJob \in JobType /\ NoJob.kind = "none"
      BY DEF NoJob, JobType, StoreKinds
    <2>2. 0 \in 0 .. FlushEvery - 1 /\ 0 <= 0 * LongestFile
      BY StoreAssumption, StoreShape
    <2> QED
      BY <2>1, <2>2 DEF Unseen, StoreSteps, FlagSets
  <1>3. StoreTypes
    BY <1>1, <1>2 DEF StoreTypes
  <1>4. LockHeld
    BY <1>1, StoreAssumption DEF LockHeld, UnderLock
  <1>5. \A r \in Runs : RunTold(pc[r], job[r], pending[r], placed[r], flags[r], size, damages)
    BY <1>1, <1>2 DEF RunTold, JobFits, KindFits, PendingFits, Uncounting, Changers, Flushers
  <1>6. StoreInv
    BY <1>1, <1>3, <1>4, <1>5, StoreAssumption DEF StoreInv
  <1>7. \A r \in Runs : pc[r] \notin UnderLock /\ HolderFits(r)
    <2>1. \A r \in Runs : pc[r] \notin UnderLock
      BY <1>1 DEF UnderLock
    <2> QED
      BY <2>1, AwayFits
  <1>8. Bytes(held) = 0 /\ Pending = 0 /\ size \notin Nat /\ Cap \in Nat /\ Sum(held, Blobs) \in Nat
    <2>1. held = Unseen
      BY <1>1 DEF Unseen
    <2>2. \A r \in Runs : pending[r] = 0
      BY <1>1
    <2>3. IsFiniteSet(Blobs) /\ \A f \in Blobs : held[f] \in Nat
      BY <1>1, StoreShape, StoreAssumption
    <2> QED
      BY <1>1, <1>6, <2>1, <2>2, <2>3, BytesNone, OwedTyped, StoreAssumption, SumTaken
  <1>9. StoreFits
    BY <1>8 DEF StoreFits, SizeShort, CapOwed, SizeExact, PlacedStands
  <1> QED
    BY <1>6, <1>7, <1>9 DEF StoreHonest

\* Every step keeps it honest.
LEMMA StoreStep ==
  ASSUME StoreHonest, ~Listings, [Next]_vars
  PROVE  StoreHonest'
  <1>1. CASE UNCHANGED vars
    <2>1. UNCHANGED <<held, bad, size, lock, pc, job, pending, placed, flags, found, left, changes, damages, kills, drifted>>
      BY <1>1 DEF vars, files, walk, bounds
    <2>2. StoreInv'
      BY <2>1 DEF StoreHonest, StoreInv, StoreTypes, LockHeld
    <2>3. /\ Pending' = Pending /\ Owed' = Owed /\ (Untouched' <=> Untouched)
          /\ \A r \in Runs : /\ (Recounts(r)' <=> Recounts(r)) /\ (Sweeping(r)' <=> Sweeping(r))
                             /\ (Duty(r)' <=> Duty(r)) /\ SizeToWrite(r)' = SizeToWrite(r)
                             /\ Excess(r)' = Excess(r) /\ Seen(r)' = Seen(r)
                             /\ (GoesByWalk(r)' <=> GoesByWalk(r))
      BY <2>1 DEF Pending, Owed, Untouched, Recounts, Sweeping, Duty, SizeToWrite, SizeRead, Excess, Seen, GoesByWalk, Kind
    <2>4. ASSUME NEW r \in Runs PROVE HolderFits(r)'
      <3>1. HolderFits(r)
        BY DEF StoreHonest
      <3>2. WalkShort(r)' /\ SweepShort(r)'
        BY <2>1, <2>3, <3>1 DEF HolderFits, WalkShort, SweepShort, Kind
      <3>3. HolderExact(r)'
        BY <2>1, <2>3, <3>1 DEF HolderFits, HolderExact, WalkSeen, WalkExact
      <3> QED
        BY <3>2, <3>3 DEF HolderFits
    <2>5. StoreFits'
      BY <2>1, <2>3 DEF StoreHonest, StoreFits, SizeShort, CapOwed, SizeExact, PlacedStands
    <2> QED
      BY <2>2, <2>4, <2>5 DEF StoreHonest
  <1>2. ASSUME NEW r \in Runs, OutsideQuietly(r) PROVE StoreHonest'
    BY <1>2, OutsideQuietHonest
  <1>3. ASSUME NEW r \in Runs, LockedQuietly(r) PROVE StoreHonest'
    BY <1>3, LockedQuietHonest
  <1>4. ASSUME NEW r \in Runs, Renames(r) PROVE StoreHonest'
    BY <1>4, RenamesHonest
  <1>5. ASSUME NEW r \in Runs, Changes(r) PROVE StoreHonest'
    BY <1>5, ChangesHonest
  <1>6. ASSUME NEW r \in Runs, Flushes(r) PROVE StoreHonest'
    BY <1>6, FlushesHonest
  <1>7. ASSUME NEW r \in Runs, Counts(r) PROVE StoreHonest'
    BY <1>7, CountsHonest
  <1>8. ASSUME NEW r \in Runs, NEW f \in Files, Evicts(r, f) PROVE StoreHonest'
    BY <1>8, EvictsHonest
  <1>9. ASSUME NEW r \in Runs, Kill(r) PROVE StoreHonest'
    BY <1>9, KillHonest
  <1>10. ASSUME NEW f \in Files, Damage(f) PROVE StoreHonest'
    BY <1>10, DamageHonest
  <1> QED
    BY <1>1, <1>2, <1>3, <1>4, <1>5, <1>6, <1>7, <1>8, <1>9, <1>10
       DEF Next, Outside, Inside, OutsideQuietly, LockedQuietly

\* With no run under way that is what is promised.
LEMMA HonestIsSo ==
  ASSUME StoreHonest
  PROVE  SizeIsHonest
  <1>1. SUFFICES ASSUME NoRun
                 PROVE  /\ size \in Nat => Bytes(held) <= size + kills * KillLoss
                        /\ kills = 0 => Bytes(held) <= Cap
                        /\ size \in Nat /\ ~drifted /\ kills = 0 /\ damages = 0 => size = Bytes(held)
    BY DEF SizeIsHonest, UncountedByKillsOnly, WithinCap, CountedOnce
  <1>2. StoreInv /\ StoreFits /\ \A r \in Runs : pc[r] = "none" /\ pc[r] \notin UnderLock
    BY <1>1 DEF StoreHonest, NoRun, UnderLock
  <1>3. \A r \in Runs : pending[r] = 0 /\ flags[r] = {}
    BY <1>2, RunTypes DEF PendingFits
  <1>4. \A r \in Runs : ~Recounts(r) /\ ~Sweeping(r) /\ ~Duty(r)
    BY <1>2, <1>3, AwayFits
  <1>5. Pending = 0 /\ Owed = kills * KillLoss /\ kills * KillLoss \in Nat /\ Bytes(held) \in Nat
    <2>1. Pending = 0 /\ Bytes(held) \in Nat
      BY <1>2, <1>3, OwedTyped
    <2>2. kills * KillLoss \in Nat
      BY <1>2, OwedIs DEF StoreInv, StoreTypes
    <2> QED
      BY <2>1, <2>2 DEF Owed
  <1>6. size \in Nat => Bytes(held) <= size + Owed
    BY <1>2, <1>4 DEF StoreFits, SizeShort
  <1>7. kills = 0 => Bytes(held) <= Cap
    BY <1>2, <1>4 DEF StoreFits, CapOwed
  <1>8. Untouched /\ size \in Nat => Bytes(held) = size + Pending
    BY <1>2, <1>4 DEF StoreFits, SizeExact
  <1> QED
    BY <1>5, <1>6, <1>7, <1>8 DEF Untouched

\* What `size` says of the files held is what the comments promise of it,
\* however many runs place, replace, remove and evict at once and wherever
\* they are killed, as long as none places with no finish (store.rs place,
\* walk, finish).
THEOREM StoreSizeIsHonest ==
  ASSUME ~Listings
  PROVE  Spec => []SizeIsHonest
  <1>1. Init => StoreHonest
    BY StoreBegins
  <1>2. StoreHonest /\ [Next]_vars => StoreHonest'
    BY StoreStep
  <1>3. StoreHonest => SizeIsHonest
    BY HonestIsSo
  <1> QED
    BY <1>1, <1>2, <1>3, PTL DEF Spec
=============================================================================
