-------------------------------- MODULE Sums --------------------------------
(***************************************************************************)
(* What SumFunctionOnSet of the community modules gives over a finite set. *)
(* It is defined by recursion over the subsets of a set.  Instead of an    *)
(* induction over their size, each proof takes a smallest subset among     *)
(* those it would be false of.                                             *)
(***************************************************************************)
EXTENDS FiniteSetTheorems, TLAPS

\* A family of subsets of a finite set has a member with no smaller one in it.
LEMMA Smallest ==
    ASSUME NEW D, IsFiniteSet(D), NEW F \in SUBSET (SUBSET D), F # {}
    PROVE  \E s \in F : \A t \in F : t \subseteq s => t = s
<1>1. IsWellFoundedOn(StrictSubsetOrdering(D), SUBSET D)
  BY FS_StrictSubsetOrderingWellFounded, FS_FiniteSubsetsOfFinite
<1>2. PICK s \in F : \A t \in F : ~ (<<t, s>> \in StrictSubsetOrdering(D))
  BY <1>1, WFMin
<1>3. ASSUME NEW t \in F, t \subseteq s PROVE t = s
  <2>1. <<t, s>> \in (SUBSET D) \X (SUBSET D)
    OBVIOUS
  <2> QED
    BY <1>2, <1>3, <2>1 DEF StrictSubsetOrdering
<1> QED
  BY <1>3

\* The element of a set that the sum takes next.
Some(s) == CHOOSE x \in s : TRUE

\* g adds f up over every subset of D, one element at a time.
AddsUp(g, f, D) ==
    g = [s \in SUBSET D |-> IF s = {} THEN 0 ELSE f[Some(s)] + g[s \ {Some(s)}]]

\* The sum over a set is what a function that adds up over its subsets gives it.
LEMMA SumUnfolded ==
    ASSUME NEW f, NEW D
    PROVE  SumFunctionOnSet(f, D) = (CHOOSE g : AddsUp(g, f, D))[D]
BY Zenon DEF SumFunctionOnSet, FoldFunctionOnSet, MapThenFoldSet, AddsUp, Some

\* The element taken is one of the set.
LEMMA SomeIsIn == ASSUME NEW s, s # {} PROVE Some(s) \in s
BY DEF Some

\* What adds up over a set and over a larger one agrees on the smaller.
LEMMA AddsUpAlike ==
    ASSUME NEW f, NEW T, IsFiniteSet(T), NEW U, T \subseteq U,
           NEW g, NEW h, AddsUp(g, f, T), AddsUp(h, f, U), NEW s \in SUBSET T
    PROVE  g[s] = h[s]
<1> DEFINE Bad == {t \in SUBSET T : g[t] # h[t]}
<1> SUFFICES ASSUME Bad # {} PROVE FALSE
  OBVIOUS
<1>0. Bad \in SUBSET (SUBSET T)
  OBVIOUS
<1>1. PICK t \in Bad : \A u \in Bad : u \subseteq t => u = t
  <2> HIDE DEF Bad
  <2> QED
    BY <1>0, Smallest
<1>2. \A u \in SUBSET T : g[u] = IF u = {} THEN 0 ELSE f[Some(u)] + g[u \ {Some(u)}]
  BY Zenon DEF AddsUp
<1>3. \A u \in SUBSET U : h[u] = IF u = {} THEN 0 ELSE f[Some(u)] + h[u \ {Some(u)}]
  BY Zenon DEF AddsUp
<1>4. t \in SUBSET T /\ t \in SUBSET U /\ g[t] # h[t]
  OBVIOUS
<1>5. t # {}
  BY <1>2, <1>3, <1>4
<1>6. t \ {Some(t)} \notin Bad
  <2>1. Some(t) \in t
    BY <1>5, SomeIsIn
  <2> QED
    BY <1>1, <2>1
<1>7. g[t \ {Some(t)}] = h[t \ {Some(t)}]
  BY <1>4, <1>6
<1> QED
  BY <1>2, <1>3, <1>4, <1>5, <1>7

\* Something adds up over every finite set.
LEMMA AddsUpExists ==
    ASSUME NEW f, NEW D, IsFiniteSet(D)
    PROVE  \E g : AddsUp(g, f, D)
<1> DEFINE Bad == {t \in SUBSET D : ~ \E g : AddsUp(g, f, t)}
<1> SUFFICES ASSUME Bad # {} PROVE FALSE
  OBVIOUS
<1>0. Bad \in SUBSET (SUBSET D)
  OBVIOUS
<1>1. PICK t \in Bad : \A u \in Bad : u \subseteq t => u = t
  <2> HIDE DEF Bad
  <2> QED
    BY <1>0, Smallest
<1> DEFINE G(u) == CHOOSE g : AddsUp(g, f, u)
           Value(u) == IF u = {} THEN 0 ELSE f[Some(u)] + G(u \ {Some(u)})[u \ {Some(u)}]
           g == [u \in SUBSET t |-> Value(u)]
<1>2. ASSUME NEW u \in SUBSET t, u # t PROVE AddsUp(G(u), f, u) /\ IsFiniteSet(u)
  <2>1. u \notin Bad /\ u \in SUBSET D
    BY <1>1, <1>2
  <2>2. \E k : AddsUp(k, f, u)
    BY <2>1
  <2>3. IsFiniteSet(u)
    BY <2>1, FS_Subset
  <2> QED
    BY <2>2, <2>3
<1>3. ASSUME NEW u \in SUBSET t, u # t PROVE G(u)[u] = Value(u)
  <2>1. G(u)[u] = IF u = {} THEN 0 ELSE f[Some(u)] + G(u)[u \ {Some(u)}]
    <3>1. AddsUp(G(u), f, u) /\ u \in SUBSET u
      BY <1>2, <1>3
    <3> HIDE DEF G
    <3> QED
      BY <3>1, Zenon DEF AddsUp
  <2>2. ASSUME u # {} PROVE G(u)[u \ {Some(u)}] = G(u \ {Some(u)})[u \ {Some(u)}]
    <3>1. Some(u) \in u
      BY <2>2, SomeIsIn
    <3>2. u \ {Some(u)} \in SUBSET t /\ u \ {Some(u)} # t
      BY <1>3, <3>1
    <3>3. AddsUp(G(u), f, u) /\ AddsUp(G(u \ {Some(u)}), f, u \ {Some(u)})
          /\ IsFiniteSet(u \ {Some(u)})
      BY <1>2, <1>3, <3>2
    <3> HIDE DEF G
    <3>4. PICK g1, h1 : g1 = G(u) /\ h1 = G(u \ {Some(u)})
      OBVIOUS
    <3>5. PICK w : w = u \ {Some(u)}
      OBVIOUS
    <3>6. AddsUp(g1, f, u) /\ AddsUp(h1, f, w) /\ IsFiniteSet(w) /\ w \subseteq u /\ w \in SUBSET w
      BY <3>3, <3>4, <3>5
    <3>7. h1[w] = g1[w]
      BY <3>6, AddsUpAlike
    <3> QED
      BY <3>4, <3>5, <3>7
  <2> HIDE DEF G
  <2> QED
    BY <2>1, <2>2
<1>4. AddsUp(g, f, t)
  <2>1. ASSUME NEW u \in SUBSET t PROVE g[u] = IF u = {} THEN 0 ELSE f[Some(u)] + g[u \ {Some(u)}]
    <3>1. CASE u = {}
      BY <3>1
    <3>2. CASE u # {}
      <4>1. Some(u) \in u
        BY <3>2, SomeIsIn
      <4>2. u \ {Some(u)} \in SUBSET t /\ u \ {Some(u)} # t
        BY <4>1
      <4>3. G(u \ {Some(u)})[u \ {Some(u)}] = Value(u \ {Some(u)})
        BY <1>3, <4>2
      <4>4. g[u \ {Some(u)}] = Value(u \ {Some(u)}) /\ g[u] = Value(u)
        BY <4>2
      <4> QED
        BY <3>2, <4>3, <4>4
    <3> QED
      BY <3>1, <3>2
  <2>2. g = [u \in SUBSET t |-> g[u]]
    OBVIOUS
  <2> HIDE DEF g
  <2> QED
    BY <2>1, <2>2 DEF AddsUp
<1> QED
  BY <1>4

\* A sum is zero over no elements, and otherwise the next element and the rest.
LEMMA SumStep ==
    ASSUME NEW f, NEW D, IsFiniteSet(D)
    PROVE  SumFunctionOnSet(f, D) =
             IF D = {} THEN 0 ELSE f[Some(D)] + SumFunctionOnSet(f, D \ {Some(D)})
<1> DEFINE G(u) == CHOOSE g : AddsUp(g, f, u)
<1>1. SumFunctionOnSet(f, D) = G(D)[D]
      /\ SumFunctionOnSet(f, D \ {Some(D)}) = G(D \ {Some(D)})[D \ {Some(D)}]
  BY SumUnfolded
<1>2. IsFiniteSet(D \ {Some(D)})
  BY FS_RemoveElement
<1>3. AddsUp(G(D), f, D) /\ AddsUp(G(D \ {Some(D)}), f, D \ {Some(D)})
  BY <1>2, AddsUpExists
<1> HIDE DEF G
<1>4. G(D)[D] = IF D = {} THEN 0 ELSE f[Some(D)] + G(D)[D \ {Some(D)}]
  BY <1>3, D \in SUBSET D, Zenon DEF AddsUp
<1>5. G(D)[D \ {Some(D)}] = G(D \ {Some(D)})[D \ {Some(D)}]
  BY <1>2, <1>3, AddsUpAlike
<1> QED
  BY <1>1, <1>4, <1>5

\* The sum over the empty set.
LEMMA SumOfNone == ASSUME NEW f PROVE SumFunctionOnSet(f, {}) = 0
BY SumStep, FS_EmptySet

\* The sum over one element.
LEMMA SumOfOne ==
    ASSUME NEW f, NEW e, f[e] \in Int
    PROVE  SumFunctionOnSet(f, {e}) = f[e]
<1>1. PICK D : D = {e}
  OBVIOUS
<1>2. IsFiniteSet(D) /\ D # {} /\ Some(D) = e /\ D \ {e} = {}
  BY <1>1, FS_Singleton, SomeIsIn
<1>3. SumFunctionOnSet(f, D) = f[e] + SumFunctionOnSet(f, {})
  BY <1>2, SumStep
<1> QED
  BY <1>1, <1>3, SumOfNone

\* The sum of integers is an integer, and of naturals a natural.
LEMMA SumIsInt ==
    ASSUME NEW f, NEW D, IsFiniteSet(D), \A x \in D : f[x] \in Int
    PROVE  SumFunctionOnSet(f, D) \in Int
<1> DEFINE Bad == {t \in SUBSET D : SumFunctionOnSet(f, t) \notin Int}
<1> SUFFICES ASSUME Bad # {} PROVE FALSE
  OBVIOUS
<1>0. Bad \in SUBSET (SUBSET D)
  OBVIOUS
<1>1. PICK t \in Bad : \A u \in Bad : u \subseteq t => u = t
  <2> HIDE DEF Bad
  <2> QED
    BY <1>0, Smallest
<1>2. IsFiniteSet(t) /\ t \in SUBSET D
  BY FS_Subset
<1>3. t # {}
  BY SumOfNone
<1>4. Some(t) \in t
  BY <1>3, SomeIsIn
<1>5. SumFunctionOnSet(f, t \ {Some(t)}) \in Int
  BY <1>1, <1>4
<1>6. SumFunctionOnSet(f, t) = f[Some(t)] + SumFunctionOnSet(f, t \ {Some(t)})
  BY <1>2, <1>3, SumStep
<1> QED
  BY <1>2, <1>4, <1>5, <1>6

\* A sum of natural numbers is one.
LEMMA SumIsNat ==
    ASSUME NEW f, NEW D, IsFiniteSet(D), \A x \in D : f[x] \in Nat
    PROVE  SumFunctionOnSet(f, D) \in Nat
<1> DEFINE Bad == {t \in SUBSET D : SumFunctionOnSet(f, t) \notin Nat}
<1> SUFFICES ASSUME Bad # {} PROVE FALSE
  OBVIOUS
<1>0. Bad \in SUBSET (SUBSET D)
  OBVIOUS
<1>1. PICK t \in Bad : \A u \in Bad : u \subseteq t => u = t
  <2> HIDE DEF Bad
  <2> QED
    BY <1>0, Smallest
<1>2. IsFiniteSet(t) /\ t \in SUBSET D
  BY FS_Subset
<1>3. t # {}
  BY SumOfNone
<1>4. Some(t) \in t
  BY <1>3, SomeIsIn
<1>5. SumFunctionOnSet(f, t \ {Some(t)}) \in Nat
  BY <1>1, <1>4
<1>6. SumFunctionOnSet(f, t) = f[Some(t)] + SumFunctionOnSet(f, t \ {Some(t)})
  BY <1>2, <1>3, SumStep
<1> QED
  BY <1>2, <1>4, <1>5, <1>6

\* Functions that agree on a set have the same sum over it.
LEMMA SumAlike ==
    ASSUME NEW f, NEW g, NEW D, IsFiniteSet(D), \A x \in D : f[x] = g[x]
    PROVE  SumFunctionOnSet(f, D) = SumFunctionOnSet(g, D)
<1> DEFINE Bad == {t \in SUBSET D : SumFunctionOnSet(f, t) # SumFunctionOnSet(g, t)}
<1> SUFFICES ASSUME Bad # {} PROVE FALSE
  OBVIOUS
<1>0. Bad \in SUBSET (SUBSET D)
  OBVIOUS
<1>1. PICK t \in Bad : \A u \in Bad : u \subseteq t => u = t
  <2> HIDE DEF Bad
  <2> QED
    BY <1>0, Smallest
<1>2. IsFiniteSet(t) /\ t \in SUBSET D
  BY FS_Subset
<1>3. t # {}
  BY SumOfNone
<1>4. Some(t) \in t
  BY <1>3, SomeIsIn
<1>5. SumFunctionOnSet(f, t \ {Some(t)}) = SumFunctionOnSet(g, t \ {Some(t)})
  BY <1>1, <1>4
<1>6. /\ SumFunctionOnSet(f, t) = f[Some(t)] + SumFunctionOnSet(f, t \ {Some(t)})
      /\ SumFunctionOnSet(g, t) = g[Some(t)] + SumFunctionOnSet(g, t \ {Some(t)})
  BY <1>2, <1>3, SumStep
<1> QED
  BY <1>2, <1>4, <1>5, <1>6

\* Whatever the order in which the elements are taken, each of them adds its value.
LEMMA SumWithout ==
    ASSUME NEW f, NEW D, IsFiniteSet(D), \A x \in D : f[x] \in Int, NEW e \in D
    PROVE  SumFunctionOnSet(f, D) = f[e] + SumFunctionOnSet(f, D \ {e})
<1> DEFINE Bad == {t \in SUBSET D : \E x \in t :
                     SumFunctionOnSet(f, t) # f[x] + SumFunctionOnSet(f, t \ {x})}
<1> SUFFICES ASSUME Bad # {} PROVE FALSE
  OBVIOUS
<1>0. Bad \in SUBSET (SUBSET D)
  OBVIOUS
<1>1. PICK t \in Bad : \A u \in Bad : u \subseteq t => u = t
  <2> HIDE DEF Bad
  <2> QED
    BY <1>0, Smallest
<1>2. PICK x \in t : SumFunctionOnSet(f, t) # f[x] + SumFunctionOnSet(f, t \ {x})
  OBVIOUS
<1>3. PICK c \in t : SumFunctionOnSet(f, t) = f[c] + SumFunctionOnSet(f, t \ {c})
  BY FS_Subset, SumStep, SomeIsIn
<1>4. c # x
  BY <1>2, <1>3
<1>5. ASSUME NEW u \in SUBSET t, u # t, NEW y \in u
      PROVE  SumFunctionOnSet(f, u) = f[y] + SumFunctionOnSet(f, u \ {y})
  BY <1>1, <1>5
<1>6. SumFunctionOnSet(f, t \ {c}) = f[x] + SumFunctionOnSet(f, (t \ {c}) \ {x})
  BY <1>4, <1>5
<1>7. SumFunctionOnSet(f, t \ {x}) = f[c] + SumFunctionOnSet(f, (t \ {x}) \ {c})
  BY <1>4, <1>5
<1>8. (t \ {c}) \ {x} = (t \ {x}) \ {c}
  OBVIOUS
<1>9. SumFunctionOnSet(f, (t \ {x}) \ {c}) \in Int /\ f[c] \in Int /\ f[x] \in Int
  <2>1. IsFiniteSet((t \ {x}) \ {c}) /\ (t \ {x}) \ {c} \subseteq D
    BY FS_Subset
  <2> QED
    BY <2>1, SumIsInt
<1>10. SumFunctionOnSet(f, t) = f[c] + (f[x] + SumFunctionOnSet(f, (t \ {x}) \ {c}))
  BY <1>3, <1>6, <1>8
<1>11. SumFunctionOnSet(f, t) # f[x] + (f[c] + SumFunctionOnSet(f, (t \ {x}) \ {c}))
  BY <1>2, <1>7
<1> QED
  BY <1>9, <1>10, <1>11

\* A new element adds its value.
LEMMA SumWith ==
    ASSUME NEW f, NEW D, IsFiniteSet(D), NEW e, e \notin D,
           \A x \in D \cup {e} : f[x] \in Int
    PROVE  SumFunctionOnSet(f, D \cup {e}) = f[e] + SumFunctionOnSet(f, D)
<1>1. IsFiniteSet(D \cup {e}) /\ (D \cup {e}) \ {e} = D
  BY FS_AddElement
<1>2. PICK U : U = D \cup {e}
  OBVIOUS
<1>3. IsFiniteSet(U) /\ U \ {e} = D /\ e \in U /\ \A x \in U : f[x] \in Int
  BY <1>1, <1>2
<1>4. SumFunctionOnSet(f, U) = f[e] + SumFunctionOnSet(f, U \ {e})
  BY <1>3, SumWithout
<1> QED
  BY <1>2, <1>3, <1>4

\* The sum over a part of the domain of a function, with one element more or less.
LEMMA SumOfPart ==
    ASSUME NEW I, IsFiniteSet(I), NEW f \in [I -> Int], NEW S \in SUBSET I
    PROVE  /\ SumFunctionOnSet(f, S) \in Int
           /\ \A e \in I :
                /\ f[e] \in Int
                /\ e \notin S => SumFunctionOnSet(f, S \cup {e}) = f[e] + SumFunctionOnSet(f, S)
                /\ e \in S => SumFunctionOnSet(f, S) = f[e] + SumFunctionOnSet(f, S \ {e})
<1>1. IsFiniteSet(S) /\ \A x \in I : f[x] \in Int
  BY FS_Subset
<1>2. SumFunctionOnSet(f, S) \in Int
  BY <1>1, SumIsInt
<1>3. ASSUME NEW e \in I, e \notin S
      PROVE  SumFunctionOnSet(f, S \cup {e}) = f[e] + SumFunctionOnSet(f, S)
  BY <1>1, <1>3, SumWith
<1>4. ASSUME NEW e \in I, e \in S
      PROVE  SumFunctionOnSet(f, S) = f[e] + SumFunctionOnSet(f, S \ {e})
  BY <1>1, <1>4, SumWithout
<1> QED
  BY <1>1, <1>2, <1>3, <1>4

\* A value that changes moves the sum by as much.
LEMMA SumChanged ==
    ASSUME NEW f, NEW g, NEW D, IsFiniteSet(D), NEW e \in D,
           \A x \in D : f[x] \in Int /\ g[x] \in Int,
           \A x \in D : x # e => f[x] = g[x]
    PROVE  SumFunctionOnSet(g, D) = SumFunctionOnSet(f, D) - f[e] + g[e]
<1>1. IsFiniteSet(D \ {e})
  BY FS_RemoveElement
<1>2. SumFunctionOnSet(f, D \ {e}) = SumFunctionOnSet(g, D \ {e})
  BY <1>1, SumAlike
<1>3. SumFunctionOnSet(f, D) = f[e] + SumFunctionOnSet(f, D \ {e})
      /\ SumFunctionOnSet(g, D) = g[e] + SumFunctionOnSet(g, D \ {e})
  BY SumWithout
<1>4. SumFunctionOnSet(f, D \ {e}) \in Int
  BY <1>1, SumIsInt
<1> QED
  BY <1>2, <1>3, <1>4

\* Naturals over fewer elements add up to no more.
LEMMA SumOfFewer ==
    ASSUME NEW f, NEW D, IsFiniteSet(D), \A x \in D : f[x] \in Nat, NEW S \in SUBSET D
    PROVE  SumFunctionOnSet(f, S) <= SumFunctionOnSet(f, D)
<1> DEFINE Bad == {t \in SUBSET D : S \subseteq t /\ ~(SumFunctionOnSet(f, S) <= SumFunctionOnSet(f, t))}
<1> SUFFICES ASSUME Bad # {} PROVE FALSE
  BY D \in SUBSET D
<1>0. Bad \in SUBSET (SUBSET D)
  OBVIOUS
<1>1. PICK t \in Bad : \A u \in Bad : u \subseteq t => u = t
  <2> HIDE DEF Bad
  <2> QED
    BY <1>0, Smallest
<1>2. IsFiniteSet(t) /\ IsFiniteSet(S) /\ t \in SUBSET D /\ S \subseteq t
  BY FS_Subset
<1>3. SumFunctionOnSet(f, S) \in Nat
  BY <1>2, SumIsNat
<1>4. PICK e \in t : e \notin S
  BY <1>2, <1>3
<1>5. IsFiniteSet(t \ {e}) /\ t \ {e} \in SUBSET D /\ S \subseteq t \ {e} /\ t \ {e} # t
  BY <1>2, <1>4, FS_RemoveElement
<1>6. SumFunctionOnSet(f, S) <= SumFunctionOnSet(f, t \ {e})
  BY <1>1, <1>5
<1>7. SumFunctionOnSet(f, t) = f[e] + SumFunctionOnSet(f, t \ {e})
  BY <1>2, SumWithout
<1>8. SumFunctionOnSet(f, t \ {e}) \in Nat /\ f[e] \in Nat
  BY <1>2, <1>5, SumIsNat
<1>9. SumFunctionOnSet(f, S) <= SumFunctionOnSet(f, t)
  BY <1>3, <1>6, <1>7, <1>8
<1> QED
  BY <1>9

\* What is no more element by element adds up to no more.
LEMMA SumAtMost ==
    ASSUME NEW f, NEW g, NEW D, IsFiniteSet(D),
           \A x \in D : f[x] \in Nat /\ g[x] \in Nat /\ f[x] <= g[x]
    PROVE  SumFunctionOnSet(f, D) <= SumFunctionOnSet(g, D)
<1> DEFINE Bad == {t \in SUBSET D : ~(SumFunctionOnSet(f, t) <= SumFunctionOnSet(g, t))}
<1> SUFFICES ASSUME Bad # {} PROVE FALSE
  OBVIOUS
<1>0. Bad \in SUBSET (SUBSET D)
  OBVIOUS
<1>1. PICK t \in Bad : \A u \in Bad : u \subseteq t => u = t
  <2> HIDE DEF Bad
  <2> QED
    BY <1>0, Smallest
<1>2. IsFiniteSet(t) /\ t \in SUBSET D
  BY FS_Subset
<1>3. t # {}
  BY SumOfNone
<1>4. PICK e \in t : TRUE
  BY <1>3
<1>5. IsFiniteSet(t \ {e}) /\ t \ {e} \in SUBSET D /\ t \ {e} # t
  BY <1>2, FS_RemoveElement
<1>6. SumFunctionOnSet(f, t \ {e}) <= SumFunctionOnSet(g, t \ {e})
  BY <1>1, <1>5
<1>7. /\ SumFunctionOnSet(f, t) = f[e] + SumFunctionOnSet(f, t \ {e})
      /\ SumFunctionOnSet(g, t) = g[e] + SumFunctionOnSet(g, t \ {e})
  BY <1>2, SumWithout
<1>8. SumFunctionOnSet(f, t \ {e}) \in Nat /\ SumFunctionOnSet(g, t \ {e}) \in Nat
  BY <1>5, SumIsNat
<1>9. f[e] \in Nat /\ g[e] \in Nat /\ f[e] <= g[e]
  BY <1>2
<1> QED
  BY <1>6, <1>7, <1>8, <1>9

\* What is at most n, and zero outside of some elements, adds up to at most n
\* times as many as those are.
LEMMA SumOverSome ==
    ASSUME NEW f, NEW D, IsFiniteSet(D), NEW F, NEW n \in Nat,
           \A x \in D : f[x] \in Nat /\ f[x] <= n /\ (x \notin F => f[x] = 0)
    PROVE  SumFunctionOnSet(f, D) <= n * Cardinality(D \cap F)
<1> DEFINE Bad == {t \in SUBSET D : ~(SumFunctionOnSet(f, t) <= n * Cardinality(t \cap F))}
<1> SUFFICES ASSUME Bad # {} PROVE FALSE
  OBVIOUS
<1>0. Bad \in SUBSET (SUBSET D)
  OBVIOUS
<1>1. PICK t \in Bad : \A u \in Bad : u \subseteq t => u = t
  <2> HIDE DEF Bad
  <2> QED
    BY <1>0, Smallest
<1>2. IsFiniteSet(t) /\ t \in SUBSET D /\ ~(SumFunctionOnSet(f, t) <= n * Cardinality(t \cap F))
  BY FS_Subset
<1>3. t # {}
  <2> SUFFICES ASSUME t = {} PROVE FALSE
    OBVIOUS
  <2>1. t \cap F = {} /\ SumFunctionOnSet(f, t) = 0 /\ Cardinality(t \cap F) = 0
    BY SumOfNone, FS_EmptySet
  <2> QED
    BY <1>2, <2>1
<1>4. PICK e \in t : TRUE
  BY <1>3
<1>5. PICK w : w = t \ {e}
  OBVIOUS
<1>6. IsFiniteSet(w) /\ w \in SUBSET D /\ w \subseteq t /\ w # t
  BY <1>2, <1>4, <1>5, FS_RemoveElement
<1>7. SumFunctionOnSet(f, w) <= n * Cardinality(w \cap F)
  BY <1>1, <1>6
<1>8. SumFunctionOnSet(f, t) = f[e] + SumFunctionOnSet(f, w) /\ SumFunctionOnSet(f, w) \in Nat
  BY <1>2, <1>5, <1>6, SumWithout, SumIsNat
<1>9. IsFiniteSet(w \cap F) /\ Cardinality(w \cap F) \in Nat
  BY <1>6, FS_Subset, FS_CardinalityType
<1>10. f[e] \in Nat /\ f[e] <= n /\ (e \notin F => f[e] = 0)
  BY <1>2
<1>11. CASE e \in F
  <2>1. t \cap F = (w \cap F) \union {e} /\ e \notin w \cap F
    BY <1>4, <1>5, <1>11
  <2>2. Cardinality(t \cap F) = Cardinality(w \cap F) + 1
    BY <1>9, <2>1, FS_AddElement
  <2>3. PICK c \in Nat : c = Cardinality(w \cap F)
    BY <1>9
  <2>4. n * (c + 1) = n * c + n /\ n * c \in Nat
    OBVIOUS
  <2> QED
    BY <1>2, <1>7, <1>8, <1>10, <2>2, <2>3, <2>4
<1>12. CASE e \notin F
  <2>1. t \cap F = w \cap F
    BY <1>4, <1>5, <1>12
  <2>2. PICK p : p = n * Cardinality(w \cap F)
    OBVIOUS
  <2>3. SumFunctionOnSet(f, w) <= p /\ ~(SumFunctionOnSet(f, t) <= p)
    BY <1>2, <1>7, <2>1, <2>2
  <2>4. SumFunctionOnSet(f, t) = SumFunctionOnSet(f, w)
    BY <1>8, <1>10, <1>12
  <2> QED
    BY <2>3, <2>4
<1> QED
  BY <1>11, <1>12

\* What is zero everywhere adds up to zero.
LEMMA SumOfZeros ==
    ASSUME NEW f, NEW D, IsFiniteSet(D), \A x \in D : f[x] = 0
    PROVE  SumFunctionOnSet(f, D) = 0
<1> DEFINE Bad == {t \in SUBSET D : SumFunctionOnSet(f, t) # 0}
<1> SUFFICES ASSUME Bad # {} PROVE FALSE
  OBVIOUS
<1>0. Bad \in SUBSET (SUBSET D)
  OBVIOUS
<1>1. PICK t \in Bad : \A u \in Bad : u \subseteq t => u = t
  <2> HIDE DEF Bad
  <2> QED
    BY <1>0, Smallest
<1>2. IsFiniteSet(t) /\ t # {} /\ t \in SUBSET D
  BY FS_Subset, SumOfNone
<1>3. PICK e : e = Some(t)
  OBVIOUS
<1>4. e \in t /\ SumFunctionOnSet(f, t) = f[e] + SumFunctionOnSet(f, t \ {e})
  BY <1>2, <1>3, SomeIsIn, SumStep
<1>5. SumFunctionOnSet(f, t \ {e}) = 0
  BY <1>1, <1>4
<1> QED
  BY <1>2, <1>4, <1>5

\* The sum of all the values of a function.
LEMMA SumOfAll ==
    ASSUME NEW f
    PROVE  SumFunction(f) = SumFunctionOnSet(f, DOMAIN f)
BY DEF SumFunction

=============================================================================
