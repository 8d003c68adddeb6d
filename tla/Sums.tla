---------------------------------- MODULE Sums ----------------------------------
(* Facts about SumFunctionOnSet, the sum of f[x] for the x of a finite set, by    *)
(* which the other modules speak of stock, money and amounts owed.               *)
(*                                                                               *)
(* Its definition is a recursive function on the subsets of the set, that takes   *)
(* away one chosen element after another.  None of the proofs is by a rule of     *)
(* induction: each looks at a smallest set that breaks what is to be shown, which *)
(* exists because strict inclusion between the subsets of a finite set is well    *)
(* founded (SmallestSet, OneByOne).                                              *)
EXTENDS Functions, FiniteSetTheorems, WellFoundedInduction, TLAPS

-----------------------------------------------------------------------------
(* Of any sets of elements of a finite set, one contains no other of them.        *)
LEMMA SmallestSet ==
  ASSUME NEW S, IsFiniteSet(S), NEW T, T \subseteq SUBSET S, T # {}
  PROVE  \E s \in T : \A r \in T : r \subseteq s => r = s
<1>1. T \subseteq FiniteSubsetsOf(S)
  BY FS_Subset DEF FiniteSubsetsOf
<1>2. \E s \in T : \A r \in T : ~(<<r, s>> \in StrictSubsetOrdering(S))
  BY <1>1, WFMin, FS_StrictSubsetOrderingWellFounded
<1> QED
  BY <1>2 DEF StrictSubsetOrdering

-----------------------------------------------------------------------------
(* The element the definition takes of s, and the function it makes of f on the  *)
(* subsets of S.                                                                 *)
Pick(s) == CHOOSE x \in s : TRUE

IsFold(it, f, S) ==
  it = [s \in SUBSET S |-> IF s = {} THEN 0 ELSE f[Pick(s)] + it[s \ {Pick(s)}]]

(* Two such functions for the same f agree on the sets that both know.           *)
LEMMA FoldUnique ==
  ASSUME NEW f, NEW S, IsFiniteSet(S), NEW S2, NEW it, NEW it2,
         IsFold(it, f, S), IsFold(it2, f, S2)
  PROVE  \A s \in SUBSET S : s \in SUBSET S2 => it[s] = it2[s]
<1> DEFINE T == {s \in SUBSET S : s \in SUBSET S2 /\ it[s] # it2[s]}
<1> SUFFICES ASSUME T # {} PROVE FALSE
  OBVIOUS
<1>0. T \subseteq SUBSET S
  OBVIOUS
<1>1. PICK s \in T : \A r \in T : r \subseteq s => r = s
  <2> HIDE DEF T
  <2> QED
    BY <1>0, SmallestSet
<1>2. s # {}
  BY <1>1 DEF IsFold
<1>3. Pick(s) \in s
  BY <1>2 DEF Pick
<1>4. s \ {Pick(s)} \notin T
  BY <1>1, <1>3
<1>5. it[s \ {Pick(s)}] = it2[s \ {Pick(s)}]
  BY <1>4
<1>6. it[s] = f[Pick(s)] + it[s \ {Pick(s)}] /\ it2[s] = f[Pick(s)] + it2[s \ {Pick(s)}]
  BY <1>2 DEF IsFold
<1> QED
  BY <1>5, <1>6

(* There is one for every finite set: on a smallest set without one, it can be   *)
(* made of those of the sets it contains.                                        *)
LEMMA FoldExists ==
  ASSUME NEW f, NEW S, IsFiniteSet(S)
  PROVE  \E it : IsFold(it, f, S)
<1> DEFINE T == {s \in SUBSET S : ~ \E it : IsFold(it, f, s)}
           fold(s) == CHOOSE it : IsFold(it, f, s)
<1> SUFFICES ASSUME T # {} PROVE FALSE
  OBVIOUS
<1>0. T \subseteq SUBSET S
  OBVIOUS
<1>1. PICK s \in T : \A r \in T : r \subseteq s => r = s
  <2> HIDE DEF T
  <2> QED
    BY <1>0, SmallestSet
<1>2. \A r \in SUBSET s : r # s => IsFold(fold(r), f, r)
  BY <1>1
<1> HIDE DEF fold
<1> DEFINE below(r) == IF r = {} THEN 0 ELSE f[Pick(r)] + fold(r \ {Pick(r)})[r \ {Pick(r)}]
           it == [r \in SUBSET s |-> below(r)]
<1>3. ASSUME NEW r \in SUBSET s, r # {}
      PROVE  it[r \ {Pick(r)}] = fold(r \ {Pick(r)})[r \ {Pick(r)}]
  <2> DEFINE q == r \ {Pick(r)}
  <2>1. Pick(r) \in r
    BY <1>3 DEF Pick
  <2>2. IsFold(fold(q), f, q)
    BY <1>2, <2>1
  <2>3. CASE q = {}
    BY <2>2, <2>3 DEF IsFold
  <2>4. CASE q # {}
    <3> DEFINE p == q \ {Pick(q)}
    <3>1. Pick(q) \in q
      BY <2>4 DEF Pick
    <3>2. IsFold(fold(p), f, p) /\ IsFiniteSet(p)
      BY <1>2, <2>1, <3>1, FS_Subset
    <3>3. fold(p)[p] = fold(q)[p]
      <4>1. p \in SUBSET p /\ p \in SUBSET q
        OBVIOUS
      <4> HIDE DEF p, q
      <4> QED
        BY <2>2, <3>2, <4>1, FoldUnique
    <3>4. fold(q)[q] = f[Pick(q)] + fold(q)[p]
      BY <2>2, <2>4 DEF IsFold
    <3>5. it[q] = f[Pick(q)] + fold(p)[p]
      <4>1. q \in SUBSET s
        OBVIOUS
      <4> QED
        BY <4>1, <2>4
    <3> QED
      BY <3>3, <3>4, <3>5
  <2> QED
    BY <2>3, <2>4
<1>4. IsFold(it, f, s)
  BY <1>3 DEF IsFold
<1> QED
  BY <1>1, <1>4

(* The sum is what such a function says.                                         *)
LEMMA SumIsFold ==
  ASSUME NEW f, NEW S
  PROVE  SumFunctionOnSet(f, S) = (CHOOSE it : IsFold(it, f, S))[S]
  BY DEF SumFunctionOnSet, FoldFunctionOnSet, MapThenFoldSet, IsFold, Pick

(* Nothing sums to nothing.                                                      *)
LEMMA SumEmpty == \A f : SumFunctionOnSet(f, {}) = 0
<1> TAKE f
<1>1. IsFold(CHOOSE it : IsFold(it, f, {}), f, {})
  BY FoldExists, FS_EmptySet
<1> QED
  BY <1>1, SumIsFold DEF IsFold

(* A sum is the chosen element and the sum of the rest.                          *)
LEMMA SumStep ==
  ASSUME NEW f, NEW S, IsFiniteSet(S), S # {}
  PROVE  SumFunctionOnSet(f, S) = f[Pick(S)] + SumFunctionOnSet(f, S \ {Pick(S)})
<1> DEFINE R == S \ {Pick(S)}
           it == CHOOSE i : IsFold(i, f, S)
           jt == CHOOSE i : IsFold(i, f, R)
<1>1. IsFiniteSet(R)
  BY FS_Subset
<1>2. IsFold(it, f, S) /\ IsFold(jt, f, R)
  BY <1>1, FoldExists
<1> HIDE DEF it, jt
<1>3. it[R] = jt[R]
  <2>1. R \in SUBSET R /\ R \in SUBSET S
    OBVIOUS
  <2>2. \A s \in SUBSET R : s \in SUBSET S => jt[s] = it[s]
    <3> HIDE DEF R
    <3> QED
      BY <1>1, <1>2, FoldUnique
  <2> HIDE DEF R
  <2> QED
    BY <2>1, <2>2
<1>4. it[S] = f[Pick(S)] + it[R]
  BY <1>2 DEF IsFold
<1> QED
  BY <1>3, <1>4, SumIsFold DEF it, jt

(* A finite set has every property that the empty set has and that every other   *)
(* set has when it has it without any one of its elements.  P is the set of the  *)
(* sets that have it.                                                            *)
LEMMA OneByOne ==
  ASSUME NEW S, IsFiniteSet(S), NEW P, {} \in P,
         \A s \in SUBSET S : s # {} /\ (\A x \in s : s \ {x} \in P) => s \in P
  PROVE  S \in P
<1> DEFINE T == (SUBSET S) \ P
<1> SUFFICES ASSUME T # {} PROVE FALSE
  OBVIOUS
<1>0. T \subseteq SUBSET S
  OBVIOUS
<1>1. PICK s \in T : \A r \in T : r \subseteq s => r = s
  <2> HIDE DEF T
  <2> QED
    BY <1>0, SmallestSet
<1>2. s # {} /\ s \in SUBSET S
  BY <1>1
<1>3. ASSUME NEW x \in s PROVE s \ {x} \in P
  <2>1. s \ {x} \subseteq s /\ s \ {x} # s /\ s \ {x} \in SUBSET S
    BY <1>2
  <2> QED
    BY <1>1, <2>1
<1> QED
  BY <1>1, <1>2, <1>3

-----------------------------------------------------------------------------
(* A sum of integers is one, ...                                                 *)
LEMMA SumInt ==
  ASSUME NEW S, IsFiniteSet(S), NEW f, \A x \in S : f[x] \in Int
  PROVE  SumFunctionOnSet(f, S) \in Int
<1> DEFINE P == {s \in SUBSET S : SumFunctionOnSet(f, s) \in Int}
<1>1. {} \in P
  BY SumEmpty
<1>2. ASSUME NEW s \in SUBSET S, s # {}, \A x \in s : s \ {x} \in P
      PROVE  s \in P
  <2>1. Pick(s) \in s
    BY <1>2 DEF Pick
  <2>2. SumFunctionOnSet(f, s) = f[Pick(s)] + SumFunctionOnSet(f, s \ {Pick(s)})
    BY <1>2, SumStep, FS_Subset
  <2> QED
    BY <1>2, <2>1, <2>2
<1> HIDE DEF P
<1>3. S \in P
  BY <1>1, <1>2, OneByOne
<1> QED
  BY <1>3 DEF P

(* ... and one of natural numbers is one.                                        *)
LEMMA SumNat ==
  ASSUME NEW S, IsFiniteSet(S), NEW f, \A x \in S : f[x] \in Nat
  PROVE  SumFunctionOnSet(f, S) \in Nat
<1> DEFINE P == {s \in SUBSET S : SumFunctionOnSet(f, s) \in Nat}
<1>1. {} \in P
  BY SumEmpty
<1>2. ASSUME NEW s \in SUBSET S, s # {}, \A x \in s : s \ {x} \in P
      PROVE  s \in P
  <2>1. Pick(s) \in s
    BY <1>2 DEF Pick
  <2>2. SumFunctionOnSet(f, s) = f[Pick(s)] + SumFunctionOnSet(f, s \ {Pick(s)})
    BY <1>2, SumStep, FS_Subset
  <2> QED
    BY <1>2, <2>1, <2>2
<1> HIDE DEF P
<1>3. S \in P
  BY <1>1, <1>2, OneByOne
<1> QED
  BY <1>3 DEF P

(* Any element can be taken out of a sum, not just the chosen one.               *)
LEMMA SumRemove ==
  ASSUME NEW S, IsFiniteSet(S), NEW f, \A x \in S : f[x] \in Int, NEW y \in S
  PROVE  SumFunctionOnSet(f, S) = f[y] + SumFunctionOnSet(f, S \ {y})
<1> DEFINE Out(s, x) == SumFunctionOnSet(f, s) = f[x] + SumFunctionOnSet(f, s \ {x})
           P == {s \in SUBSET S : \A x \in s : Out(s, x)}
<1>1. {} \in P
  OBVIOUS
<1>2. ASSUME NEW s \in SUBSET S, s # {}, \A x \in s : s \ {x} \in P
      PROVE  s \in P
  <2> DEFINE c == Pick(s)
  <2>1. c \in s /\ Out(s, c)
    BY <1>2, SumStep, FS_Subset DEF Pick
  <2>2. ASSUME NEW x \in s, x # c PROVE Out(s, x)
    <3> DEFINE both == s \ {c, x}
    <3>1. SumFunctionOnSet(f, s \ {c}) = f[x] + SumFunctionOnSet(f, both)
      <4>1. x \in s \ {c} /\ (s \ {c}) \ {x} = both
        BY <2>2
      <4> HIDE DEF c, both
      <4> QED
        BY <1>2, <2>1, <4>1
    <3>2. SumFunctionOnSet(f, s \ {x}) = f[c] + SumFunctionOnSet(f, both)
      <4>1. c \in s \ {x} /\ (s \ {x}) \ {c} = both
        BY <2>1, <2>2
      <4> HIDE DEF c, both
      <4> QED
        BY <1>2, <2>1, <4>1
    <3>3. SumFunctionOnSet(f, both) \in Int /\ f[c] \in Int /\ f[x] \in Int
      BY <2>1, FS_Subset, SumInt
    <3> HIDE DEF c, both
    <3> QED
      BY <2>1, <3>1, <3>2, <3>3
  <2> HIDE DEF Out, c
  <2> QED
    BY <2>1, <2>2
<1> HIDE DEF P
<1>3. S \in P
  BY <1>1, <1>2, OneByOne
<1> QED
  BY <1>3 DEF P

(* Only the values on the set matter.                                            *)
LEMMA SumSame ==
  ASSUME NEW S, IsFiniteSet(S), NEW f, NEW g, \A x \in S : f[x] = g[x]
  PROVE  SumFunctionOnSet(f, S) = SumFunctionOnSet(g, S)
<1> DEFINE P == {s \in SUBSET S : SumFunctionOnSet(f, s) = SumFunctionOnSet(g, s)}
<1>1. {} \in P
  BY SumEmpty
<1>2. ASSUME NEW s \in SUBSET S, s # {}, \A x \in s : s \ {x} \in P
      PROVE  s \in P
  <2>1. Pick(s) \in s /\ IsFiniteSet(s)
    BY <1>2, FS_Subset DEF Pick
  <2>2. /\ SumFunctionOnSet(f, s) = f[Pick(s)] + SumFunctionOnSet(f, s \ {Pick(s)})
        /\ SumFunctionOnSet(g, s) = g[Pick(s)] + SumFunctionOnSet(g, s \ {Pick(s)})
    BY <1>2, <2>1, SumStep
  <2> QED
    BY <1>2, <2>1, <2>2
<1> HIDE DEF P
<1>3. S \in P
  BY <1>1, <1>2, OneByOne
<1> QED
  BY <1>3 DEF P

(* The sum of sums.                                                              *)
LEMMA SumPlus ==
  ASSUME NEW S, IsFiniteSet(S), NEW f, NEW g, NEW h,
         \A x \in S : f[x] \in Int, \A x \in S : g[x] \in Int,
         \A x \in S : h[x] = f[x] + g[x]
  PROVE  SumFunctionOnSet(h, S) = SumFunctionOnSet(f, S) + SumFunctionOnSet(g, S)
<1> DEFINE P == {s \in SUBSET S : SumFunctionOnSet(h, s) = SumFunctionOnSet(f, s) + SumFunctionOnSet(g, s)}
<1>1. {} \in P
  BY SumEmpty
<1>2. ASSUME NEW s \in SUBSET S, s # {}, \A x \in s : s \ {x} \in P
      PROVE  s \in P
  <2> DEFINE c == Pick(s)  r == s \ {Pick(s)}
  <2>1. c \in s /\ IsFiniteSet(s) /\ IsFiniteSet(r)
    BY <1>2, FS_Subset DEF Pick
  <2>2. /\ SumFunctionOnSet(f, s) = f[c] + SumFunctionOnSet(f, r)
        /\ SumFunctionOnSet(g, s) = g[c] + SumFunctionOnSet(g, r)
        /\ SumFunctionOnSet(h, s) = h[c] + SumFunctionOnSet(h, r)
    BY <1>2, <2>1, SumStep
  <2>3. SumFunctionOnSet(f, r) \in Int /\ SumFunctionOnSet(g, r) \in Int
    BY <2>1, SumInt
  <2>4. SumFunctionOnSet(h, r) = SumFunctionOnSet(f, r) + SumFunctionOnSet(g, r)
    BY <1>2, <2>1
  <2> HIDE DEF c, r
  <2> QED
    BY <2>1, <2>2, <2>3, <2>4
<1> HIDE DEF P
<1>3. S \in P
  BY <1>1, <1>2, OneByOne
<1> QED
  BY <1>3 DEF P

(* A sum of smaller values is not greater.                                       *)
LEMMA SumAtMost ==
  ASSUME NEW S, IsFiniteSet(S), NEW f, NEW g,
         \A x \in S : f[x] \in Int, \A x \in S : g[x] \in Int,
         \A x \in S : f[x] <= g[x]
  PROVE  SumFunctionOnSet(f, S) <= SumFunctionOnSet(g, S)
<1> DEFINE P == {s \in SUBSET S : SumFunctionOnSet(f, s) <= SumFunctionOnSet(g, s)}
<1>1. {} \in P
  BY SumEmpty
<1>2. ASSUME NEW s \in SUBSET S, s # {}, \A x \in s : s \ {x} \in P
      PROVE  s \in P
  <2> DEFINE c == Pick(s)  r == s \ {Pick(s)}
  <2>1. c \in s /\ IsFiniteSet(s) /\ IsFiniteSet(r)
    BY <1>2, FS_Subset DEF Pick
  <2>2. /\ SumFunctionOnSet(f, s) = f[c] + SumFunctionOnSet(f, r)
        /\ SumFunctionOnSet(g, s) = g[c] + SumFunctionOnSet(g, r)
    BY <1>2, <2>1, SumStep
  <2>3. SumFunctionOnSet(f, r) \in Int /\ SumFunctionOnSet(g, r) \in Int
    BY <2>1, SumInt
  <2>4. SumFunctionOnSet(f, r) <= SumFunctionOnSet(g, r)
    BY <1>2, <2>1
  <2> HIDE DEF c, r
  <2> QED
    BY <2>1, <2>2, <2>3, <2>4
<1> HIDE DEF P
<1>3. S \in P
  BY <1>1, <1>2, OneByOne
<1> QED
  BY <1>3 DEF P

(* Zeros sum to zero.                                                            *)
LEMMA SumZero ==
  ASSUME NEW S, IsFiniteSet(S), NEW f, \A x \in S : f[x] = 0
  PROVE  SumFunctionOnSet(f, S) = 0
<1> DEFINE P == {s \in SUBSET S : SumFunctionOnSet(f, s) = 0}
<1>1. {} \in P
  BY SumEmpty
<1>2. ASSUME NEW s \in SUBSET S, s # {}, \A x \in s : s \ {x} \in P
      PROVE  s \in P
  <2>1. Pick(s) \in s /\ IsFiniteSet(s)
    BY <1>2, FS_Subset DEF Pick
  <2>2. SumFunctionOnSet(f, s) = f[Pick(s)] + SumFunctionOnSet(f, s \ {Pick(s)})
    BY <1>2, <2>1, SumStep
  <2> QED
    BY <1>2, <2>1, <2>2
<1> HIDE DEF P
<1>3. S \in P
  BY <1>1, <1>2, OneByOne
<1> QED
  BY <1>3 DEF P

-----------------------------------------------------------------------------
(* One value changes: the sum changes by as much.                                *)
LEMMA SumAt ==
  ASSUME NEW S, IsFiniteSet(S), NEW f \in [S -> Int], NEW g \in [S -> Int], NEW y \in S,
         \A x \in S \ {y} : g[x] = f[x]
  PROVE  SumFunctionOnSet(g, S) = SumFunctionOnSet(f, S) - f[y] + g[y]
<1> DEFINE R == S \ {y}
<1>1. IsFiniteSet(R)
  BY FS_Subset
<1>2. SumFunctionOnSet(f, S) = f[y] + SumFunctionOnSet(f, R)
  BY SumRemove
<1>3. SumFunctionOnSet(g, S) = g[y] + SumFunctionOnSet(g, R)
  BY SumRemove
<1>4. SumFunctionOnSet(f, R) = SumFunctionOnSet(g, R) /\ SumFunctionOnSet(f, R) \in Int
  BY <1>1, SumSame, SumInt
<1> QED
  BY <1>2, <1>3, <1>4

(* No value is greater than a sum of natural numbers it is part of.              *)
LEMMA SumHolds ==
  ASSUME NEW S, IsFiniteSet(S), NEW f, \A x \in S : f[x] \in Nat, NEW y \in S
  PROVE  f[y] <= SumFunctionOnSet(f, S)
<1>1. SumFunctionOnSet(f, S) = f[y] + SumFunctionOnSet(f, S \ {y})
  BY SumRemove
<1>2. SumFunctionOnSet(f, S \ {y}) \in Nat
  BY FS_Subset, SumNat
<1> QED
  BY <1>1, <1>2

(* A single value that is not zero is the sum, ...                               *)
LEMMA SumOfOne ==
  ASSUME NEW S, IsFiniteSet(S), NEW f, NEW y \in S, f[y] \in Int,
         \A x \in S \ {y} : f[x] = 0
  PROVE  SumFunctionOnSet(f, S) = f[y]
<1>1. \A x \in S : f[x] \in Int
  OBVIOUS
<1>2. SumFunctionOnSet(f, S) = f[y] + SumFunctionOnSet(f, S \ {y})
  BY <1>1, SumRemove
<1>3. SumFunctionOnSet(f, S \ {y}) = 0
  BY FS_Subset, SumZero
<1> QED
  BY <1>2, <1>3

(* ... and two such values add up to it.                                         *)
LEMMA SumOfTwo ==
  ASSUME NEW S, IsFiniteSet(S), NEW f, NEW y \in S, NEW z \in S \ {y},
         f[y] \in Int, f[z] \in Int, \A x \in S \ {y, z} : f[x] = 0
  PROVE  SumFunctionOnSet(f, S) = f[y] + f[z]
<1> DEFINE R == S \ {y}
<1>1. \A x \in S : f[x] \in Int
  OBVIOUS
<1>2. SumFunctionOnSet(f, S) = f[y] + SumFunctionOnSet(f, R)
  BY <1>1, SumRemove
<1>3. z \in R /\ IsFiniteSet(R) /\ \A x \in R \ {z} : f[x] = 0
  BY FS_Subset
<1> HIDE DEF R
<1>4. SumFunctionOnSet(f, R) = f[z]
  BY <1>3, SumOfOne
<1> QED
  BY <1>2, <1>4

(* The sum over a part of a set is one over the whole, with zeros elsewhere.      *)
LEMMA SumOfPart ==
  ASSUME NEW U, IsFiniteSet(U), NEW S \in SUBSET U, NEW f, \A x \in S : f[x] \in Int
  PROVE  SumFunctionOnSet(f, S) = SumFunctionOnSet([x \in U |-> IF x \in S THEN f[x] ELSE 0], U)
<1> DEFINE h == [x \in U |-> IF x \in S THEN f[x] ELSE 0]
           P == {u \in SUBSET U : SumFunctionOnSet(f, S \cap u) = SumFunctionOnSet(h, u)}
<1>1. {} \in P
  <2>1. S \cap {} = {}
    OBVIOUS
  <2> QED
    BY <2>1, SumEmpty
<1>2. ASSUME NEW u \in SUBSET U, u # {}, \A x \in u : u \ {x} \in P
      PROVE  u \in P
  <2> DEFINE c == Pick(u)  rest == u \ {c}
  <2>1. c \in u /\ IsFiniteSet(u) /\ IsFiniteSet(S \cap u)
    BY <1>2, FS_Subset DEF Pick
  <2>2. SumFunctionOnSet(h, u) = h[c] + SumFunctionOnSet(h, rest)
    BY <1>2, <2>1, SumStep
  <2>3. SumFunctionOnSet(f, S \cap rest) = SumFunctionOnSet(h, rest)
    BY <1>2, <2>1
  <2>4. CASE c \in S
    <3>1. c \in S \cap u /\ (S \cap u) \ {c} = S \cap rest /\ \A x \in S \cap u : f[x] \in Int
      BY <2>1, <2>4
    <3>2. h[c] = f[c]
      BY <2>1, <2>4
    <3> HIDE DEF c, rest, h
    <3>3. SumFunctionOnSet(f, S \cap u) = f[c] + SumFunctionOnSet(f, S \cap rest)
      BY <2>1, <3>1, SumRemove
    <3> QED
      BY <2>2, <2>3, <3>2, <3>3
  <2>5. CASE c \notin S
    <3>1. S \cap u = S \cap rest /\ h[c] = 0
      BY <2>1, <2>5
    <3>2. \A x \in S \cap u : f[x] \in Int
      OBVIOUS
    <3> HIDE DEF c, rest, h
    <3>3. SumFunctionOnSet(f, S \cap u) \in Int
      BY <2>1, <3>2, SumInt
    <3>4. SumFunctionOnSet(f, S \cap u) = SumFunctionOnSet(h, rest)
      BY <2>3, <3>1
    <3>5. SumFunctionOnSet(h, u) = SumFunctionOnSet(h, rest)
      BY <2>2, <3>1, <3>3, <3>4
    <3> QED
      BY <3>4, <3>5
  <2> QED
    BY <2>4, <2>5
<1> HIDE DEF P
<1>3. U \in P
  BY <1>1, <1>2, OneByOne
<1>4. S \cap U = S
  OBVIOUS
<1> QED
  BY <1>3, <1>4 DEF P
=================================================================================
