----------------------------- MODULE FiniteSums -----------------------------
(***************************************************************************)
(* Facts about SumFunctionOnSet(f, S), the sum of f[x] over a finite set S *)
(* of any size, which the bookkeeping of the contract and the usage of a   *)
(* proof bundle are stated with.                                           *)
(*                                                                         *)
(* The library defines the sum by recursion on the subsets of S, taking an *)
(* element at a time.  An induction on finite sets is done by looking at a *)
(* smallest counterexample, which SmallestSubset finds.                    *)
(***************************************************************************)
EXTENDS Functions, FiniteSetTheorems, TLAPS

\* The element of a set that the sum takes next.
Pick(s) == CHOOSE x \in s : TRUE

\* g gives the sum over every subset of S.
IsSum(g, f, S) ==
    g = [s \in SUBSET S |-> IF s = {} THEN 0 ELSE f[Pick(s)] + g[s \ {Pick(s)}]]

\* Some set of a collection of finite sets has no smaller one in it.
LEMMA SmallestSubset ==
  ASSUME NEW S, IsFiniteSet(S), NEW C, C \subseteq SUBSET S, C # {}
  PROVE  \E s \in C : \A u \in C : ~(u \subseteq s /\ u # s)
<1> DEFINE Smaller == StrictSubsetOrdering(S)
<1>1. FiniteSubsetsOf(S) = SUBSET S
  BY FS_Subset DEF FiniteSubsetsOf
<1>2. IsWellFoundedOn(Smaller, SUBSET S)
  BY <1>1, FS_StrictSubsetOrderingWellFounded
<1>3. PICK s \in C : \A u \in C : ~(<<u, s>> \in Smaller)
  <2> HIDE DEF Smaller
  <2> QED
    BY <1>2, WFMin
<1>4. \A u \in C : u \subseteq s /\ u # s => <<u, s>> \in Smaller
  BY DEF StrictSubsetOrdering
<1>5. \A u \in C : ~(u \subseteq s /\ u # s)
  BY <1>3, <1>4
<1> QED
  BY <1>5

LEMMA PickIn == ASSUME NEW s, s # {} PROVE Pick(s) \in s
BY DEF Pick

\* Two such functions agree where both are defined.
LEMMA SumsAgree ==
  ASSUME NEW f, NEW S, IsFiniteSet(S), NEW T, S \subseteq T,
         NEW g, IsSum(g, f, S), NEW h, IsSum(h, f, T)
  PROVE  \A s \in SUBSET S : g[s] = h[s]
<1> DEFINE C == {s \in SUBSET S : g[s] # h[s]}
<1> SUFFICES ASSUME C # {} PROVE FALSE
  OBVIOUS
<1>1. PICK s \in C : \A u \in C : ~(u \subseteq s /\ u # s)
  <2>1. C \subseteq SUBSET S
    OBVIOUS
  <2> HIDE DEF C
  <2> QED
    BY <2>1, SmallestSubset
<1>2. s \in SUBSET S /\ s \in SUBSET T
  OBVIOUS
<1>3. /\ g[s] = IF s = {} THEN 0 ELSE f[Pick(s)] + g[s \ {Pick(s)}]
      /\ h[s] = IF s = {} THEN 0 ELSE f[Pick(s)] + h[s \ {Pick(s)}]
  BY <1>2 DEF IsSum
<1>4. s # {}
  BY <1>3
<1>5. Pick(s) \in s
  BY <1>4, PickIn
<1>6. g[s \ {Pick(s)}] = h[s \ {Pick(s)}]
  BY <1>1, <1>2, <1>5
<1> QED
  BY <1>3, <1>4, <1>6

\* There is such a function.
LEMMA SumExists ==
  ASSUME NEW f, NEW S, IsFiniteSet(S)
  PROVE  \E g : IsSum(g, f, S)
<1> DEFINE C == {s \in SUBSET S : ~ \E g : IsSum(g, f, s)}
<1> SUFFICES ASSUME C # {} PROVE FALSE
  OBVIOUS
<1>1. PICK s \in C : \A u \in C : ~(u \subseteq s /\ u # s)
  <2>1. C \subseteq SUBSET S
    OBVIOUS
  <2> HIDE DEF C
  <2> QED
    BY <2>1, SmallestSubset
<1> DEFINE part(u) == CHOOSE g : IsSum(g, f, u)
           whole == [u \in SUBSET s |-> IF u = {} THEN 0
                        ELSE f[Pick(u)] + part(u \ {Pick(u)})[u \ {Pick(u)}]]
<1>2. \A u \in SUBSET s : u # s => IsSum(part(u), f, u)
  <2> SUFFICES ASSUME NEW u \in SUBSET s, u # s PROVE IsSum(part(u), f, u)
    OBVIOUS
  <2>1. \E g : IsSum(g, f, u)
    BY <1>1
  <2> QED
    BY <2>1
<1> HIDE DEF part
<1>3. ASSUME NEW u \in SUBSET s, u # s
      PROVE  whole[u] = part(u)[u]
  <2>1. IsSum(part(u), f, u)
    BY <1>2, <1>3
  <2>2. part(u)[u] = IF u = {} THEN 0 ELSE f[Pick(u)] + part(u)[u \ {Pick(u)}]
    BY <2>1 DEF IsSum
  <2>3. CASE u = {}
    BY <2>2, <2>3
  <2>4. CASE u # {}
    <3> DEFINE v == u \ {Pick(u)}
    <3>1. Pick(u) \in u
      BY <2>4, PickIn
    <3>2. v \in SUBSET u /\ v \in SUBSET s /\ v # s
      BY <3>1
    <3>3. IsSum(part(v), f, v) /\ IsFiniteSet(v)
      BY <1>2, <3>2, FS_Subset
    <3>4. part(v)[v] = part(u)[v]
      BY <2>1, <3>2, <3>3, SumsAgree
    <3> QED
      BY <2>2, <2>4, <3>4
  <2> QED
    BY <2>3, <2>4
<1>4. IsSum(whole, f, s)
  <2>1. ASSUME NEW u \in SUBSET s
        PROVE  whole[u] = IF u = {} THEN 0 ELSE f[Pick(u)] + whole[u \ {Pick(u)}]
    <3>1. CASE u = {}
      BY <3>1
    <3>2. CASE u # {}
      <4>1. Pick(u) \in u
        BY <3>2, PickIn
      <4>2. u \ {Pick(u)} \in SUBSET s /\ u \ {Pick(u)} # s
        BY <4>1
      <4> QED
        BY <1>3, <3>2, <4>2
    <3> QED
      BY <3>1, <3>2
  <2>2. whole = [u \in SUBSET s |-> whole[u]]
    OBVIOUS
  <2> HIDE DEF whole
  <2> QED
    BY <2>1, <2>2 DEF IsSum
<1> QED
  BY <1>4

-----------------------------------------------------------------------------
(* The sum *)

LEMMA SumIsSum ==
  ASSUME NEW f, NEW S, IsFiniteSet(S)
  PROVE  \E g : IsSum(g, f, S) /\ SumFunctionOnSet(f, S) = g[S]
<1> DEFINE sum == CHOOSE g : IsSum(g, f, S)
<1>1. IsSum(sum, f, S)
  BY SumExists
<1>2. SumFunctionOnSet(f, S) = sum[S]
  BY DEF SumFunctionOnSet, FoldFunctionOnSet, MapThenFoldSet, IsSum, Pick
<1> QED
  BY <1>1, <1>2

LEMMA SumOfSubset ==
  ASSUME NEW f, NEW S, IsFiniteSet(S), NEW s \in SUBSET S, NEW g, IsSum(g, f, S)
  PROVE  SumFunctionOnSet(f, s) = g[s]
<1>1. PICK h : IsSum(h, f, s) /\ SumFunctionOnSet(f, s) = h[s]
  BY SumIsSum, FS_Subset
<1> QED
  BY <1>1, SumsAgree, FS_Subset

\* The sum over nothing is zero.
LEMMA SumEmpty == ASSUME NEW f PROVE SumFunctionOnSet(f, {}) = 0
<1>1. PICK g : IsSum(g, f, {}) /\ SumFunctionOnSet(f, {}) = g[{}]
  BY SumIsSum, FS_EmptySet
<1> QED
  BY <1>1 DEF IsSum

LEMMA SumStep ==
  ASSUME NEW f, NEW S, IsFiniteSet(S), S # {}
  PROVE  SumFunctionOnSet(f, S) = f[Pick(S)] + SumFunctionOnSet(f, S \ {Pick(S)})
<1>1. PICK g : IsSum(g, f, S) /\ SumFunctionOnSet(f, S) = g[S]
  BY SumIsSum
<1>2. SumFunctionOnSet(f, S \ {Pick(S)}) = g[S \ {Pick(S)}]
  BY <1>1, SumOfSubset
<1>3. g[S] = f[Pick(S)] + g[S \ {Pick(S)}]
  BY <1>1 DEF IsSum
<1> QED
  BY <1>1, <1>2, <1>3

\* A sum of naturals is a natural.
LEMMA SumNat ==
  ASSUME NEW f, NEW S, IsFiniteSet(S), \A x \in S : f[x] \in Nat
  PROVE  SumFunctionOnSet(f, S) \in Nat
<1> DEFINE C == {s \in SUBSET S : SumFunctionOnSet(f, s) \notin Nat}
<1> SUFFICES ASSUME C # {} PROVE FALSE
  OBVIOUS
<1>1. PICK s \in C : \A u \in C : ~(u \subseteq s /\ u # s)
  <2>1. C \subseteq SUBSET S
    OBVIOUS
  <2> HIDE DEF C
  <2> QED
    BY <2>1, SmallestSubset
<1>2. s # {}
  BY SumEmpty
<1>3. Pick(s) \in s /\ IsFiniteSet(s)
  BY <1>2, PickIn, FS_Subset
<1>4. SumFunctionOnSet(f, s \ {Pick(s)}) \in Nat
  BY <1>1, <1>3
<1>5. SumFunctionOnSet(f, s) = f[Pick(s)] + SumFunctionOnSet(f, s \ {Pick(s)})
  BY <1>2, <1>3, SumStep
<1> QED
  BY <1>3, <1>4, <1>5

\* Any element can be taken out first.
LEMMA SumRemove ==
  ASSUME NEW f, NEW S, IsFiniteSet(S), \A x \in S : f[x] \in Nat, NEW y \in S
  PROVE  SumFunctionOnSet(f, S) = f[y] + SumFunctionOnSet(f, S \ {y})
<1> DEFINE C == {s \in SUBSET S : \E x \in s :
                     SumFunctionOnSet(f, s) # f[x] + SumFunctionOnSet(f, s \ {x})}
<1> SUFFICES ASSUME C # {} PROVE FALSE
  OBVIOUS
<1>1. PICK s \in C : \A u \in C : ~(u \subseteq s /\ u # s)
  <2>1. C \subseteq SUBSET S
    OBVIOUS
  <2> HIDE DEF C
  <2> QED
    BY <2>1, SmallestSubset
<1>2. PICK x \in s : SumFunctionOnSet(f, s) # f[x] + SumFunctionOnSet(f, s \ {x})
  OBVIOUS
<1> DEFINE p == Pick(s)
<1>3. p \in s /\ IsFiniteSet(s)
  BY <1>2, PickIn, FS_Subset
<1>4. SumFunctionOnSet(f, s) = f[p] + SumFunctionOnSet(f, s \ {p})
  BY <1>2, <1>3, SumStep
<1> HIDE DEF p
<1>5. p # x
  BY <1>2, <1>4
<1>6. SumFunctionOnSet(f, s \ {p}) = f[x] + SumFunctionOnSet(f, (s \ {p}) \ {x})
  <2>1. s \ {p} \in SUBSET S /\ s \ {p} \subseteq s /\ s \ {p} # s /\ x \in s \ {p}
    BY <1>3, <1>5
  <2> QED
    BY <1>1, <2>1
<1>7. SumFunctionOnSet(f, s \ {x}) = f[p] + SumFunctionOnSet(f, (s \ {x}) \ {p})
  <2>1. s \ {x} \in SUBSET S /\ s \ {x} \subseteq s /\ s \ {x} # s /\ p \in s \ {x}
    BY <1>3, <1>5
  <2> QED
    BY <1>1, <2>1
<1>8. (s \ {p}) \ {x} = (s \ {x}) \ {p}
  OBVIOUS
<1>9. /\ SumFunctionOnSet(f, (s \ {x}) \ {p}) \in Nat
      /\ f[x] \in Nat /\ f[p] \in Nat
  <2>1. IsFiniteSet((s \ {x}) \ {p}) /\ (s \ {x}) \ {p} \subseteq S
    BY <1>3, FS_Subset
  <2> QED
    BY <1>3, <2>1, SumNat
<1> DEFINE rest == SumFunctionOnSet(f, (s \ {x}) \ {p})
<1>10. /\ SumFunctionOnSet(f, s) = f[p] + (f[x] + rest)
       /\ SumFunctionOnSet(f, s) # f[x] + (f[p] + rest)
  BY <1>2, <1>4, <1>6, <1>7, <1>8
<1>11. rest \in Nat /\ f[x] \in Nat /\ f[p] \in Nat
  BY <1>9
<1> HIDE DEF rest
<1> QED
  BY <1>10, <1>11

\* One more element.
LEMMA SumAdd ==
  ASSUME NEW f, NEW S, IsFiniteSet(S), \A x \in S : f[x] \in Nat,
         NEW y, y \notin S, f[y] \in Nat
  PROVE  SumFunctionOnSet(f, S \cup {y}) = f[y] + SumFunctionOnSet(f, S)
<1>1. IsFiniteSet(S \cup {y}) /\ (S \cup {y}) \ {y} = S /\ y \in S \cup {y}
  BY FS_AddElement
<1>2. \A x \in S \cup {y} : f[x] \in Nat
  OBVIOUS
<1> QED
  BY <1>1, <1>2, SumRemove

\* Only the values on the set count.
LEMMA SumSame ==
  ASSUME NEW f, NEW g, NEW S, IsFiniteSet(S), \A x \in S : f[x] = g[x]
  PROVE  SumFunctionOnSet(f, S) = SumFunctionOnSet(g, S)
<1> DEFINE C == {s \in SUBSET S : SumFunctionOnSet(f, s) # SumFunctionOnSet(g, s)}
<1> SUFFICES ASSUME C # {} PROVE FALSE
  OBVIOUS
<1>1. PICK s \in C : \A u \in C : ~(u \subseteq s /\ u # s)
  <2>1. C \subseteq SUBSET S
    OBVIOUS
  <2> HIDE DEF C
  <2> QED
    BY <2>1, SmallestSubset
<1>2. s # {}
  BY SumEmpty
<1>3. Pick(s) \in s /\ IsFiniteSet(s)
  BY <1>2, PickIn, FS_Subset
<1>4. SumFunctionOnSet(f, s \ {Pick(s)}) = SumFunctionOnSet(g, s \ {Pick(s)})
  BY <1>1, <1>3
<1> QED
  BY <1>2, <1>3, <1>4, SumStep

\* Fewer elements do not make more.
LEMMA SumSubset ==
  ASSUME NEW f, NEW S, IsFiniteSet(S), \A x \in S : f[x] \in Nat, NEW T \in SUBSET S
  PROVE  SumFunctionOnSet(f, T) <= SumFunctionOnSet(f, S)
<1> DEFINE C == {s \in SUBSET S : T \subseteq s /\
                     ~(SumFunctionOnSet(f, T) <= SumFunctionOnSet(f, s))}
<1> SUFFICES ASSUME C # {} PROVE FALSE
  OBVIOUS
<1>1. PICK s \in C : \A u \in C : ~(u \subseteq s /\ u # s)
  <2>1. C \subseteq SUBSET S
    OBVIOUS
  <2> HIDE DEF C
  <2> QED
    BY <2>1, SmallestSubset
<1>2. /\ IsFiniteSet(s) /\ IsFiniteSet(T) /\ \A x \in s : f[x] \in Nat
      /\ SumFunctionOnSet(f, T) \in Nat
  BY FS_Subset, SumNat
<1>3. s # T
  BY <1>2
<1>4. PICK x \in s : x \notin T
  BY <1>3
<1>5. SumFunctionOnSet(f, s) = f[x] + SumFunctionOnSet(f, s \ {x})
  BY <1>2, SumRemove
<1>6. SumFunctionOnSet(f, T) <= SumFunctionOnSet(f, s \ {x})
  BY <1>1, <1>4
<1>7. SumFunctionOnSet(f, s \ {x}) \in Nat
  BY <1>2, SumNat, FS_Subset
<1> QED
  BY <1>2, <1>5, <1>6, <1>7

\* A sum can be taken over what the elements are mapped to, one to one.
LEMMA SumImage ==
  ASSUME NEW f, NEW h, NEW S, IsFiniteSet(S),
         \A x \in S : f[h[x]] \in Nat,
         \A x, y \in S : h[x] = h[y] => x = y
  PROVE  SumFunctionOnSet([x \in S |-> f[h[x]]], S)
             = SumFunctionOnSet(f, {h[x] : x \in S})
<1> DEFINE fh == [x \in S |-> f[h[x]]]
           image(s) == {h[x] : x \in s}
           C == {s \in SUBSET S : SumFunctionOnSet(fh, s) # SumFunctionOnSet(f, image(s))}
<1> SUFFICES ASSUME C # {} PROVE FALSE
  OBVIOUS
<1>1. PICK s \in C : \A u \in C : ~(u \subseteq s /\ u # s)
  <2>1. C \subseteq SUBSET S
    OBVIOUS
  <2> HIDE DEF C
  <2> QED
    BY <2>1, SmallestSubset
<1>2. s # {}
  <2>1. image({}) = {}
    OBVIOUS
  <2> HIDE DEF image
  <2> QED
    BY <2>1, SumEmpty
<1>3. PICK x \in s : TRUE
  BY <1>2
<1>4. IsFiniteSet(s) /\ IsFiniteSet(image(s))
  <2>1. IsFiniteSet(s)
    BY FS_Subset
  <2> DEFINE hs == [y \in s |-> h[y]]
  <2>2. hs \in [s -> image(s)] /\ image(s) = {hs[y] : y \in s}
    OBVIOUS
  <2>3. hs \in Surjection(s, image(s))
    BY <2>2 DEF Surjection
  <2> HIDE DEF hs, image
  <2> QED
    BY <2>1, <2>3, FS_Surjection
<1>5. image(s) \ {h[x]} = image(s \ {x}) /\ h[x] \in image(s)
  OBVIOUS
<1>6. SumFunctionOnSet(fh, s) = f[h[x]] + SumFunctionOnSet(fh, s \ {x})
  <2>1. \A y \in s : fh[y] \in Nat
    OBVIOUS
  <2>2. fh[x] = f[h[x]]
    OBVIOUS
  <2> HIDE DEF fh
  <2> QED
    BY <1>4, <2>1, <2>2, SumRemove
<1>7. SumFunctionOnSet(f, image(s)) = f[h[x]] + SumFunctionOnSet(f, image(s) \ {h[x]})
  <2>1. \A y \in image(s) : f[y] \in Nat
    OBVIOUS
  <2> HIDE DEF image
  <2> QED
    BY <1>4, <1>5, <2>1, SumRemove
<1>8. SumFunctionOnSet(fh, s \ {x}) = SumFunctionOnSet(f, image(s \ {x}))
  BY <1>1, <1>3
<1> HIDE DEF fh, image
<1> QED
  BY <1>1, <1>5, <1>6, <1>7, <1>8
=============================================================================
