-------------------------- MODULE BlobStoreProofs --------------------------
(***************************************************************************)
(* Theorems about BlobStore, for any number of accounts, uploads, parts    *)
(* and contents, with crashes between any two writes.                      *)
(***************************************************************************)
EXTENDS BlobStore, FiniteSetTheorems, WellFoundedInduction, TLAPS

(* What is staged for an open session was sent by the account of the       *)
(* session: an id is minted fresh, so no upload meets the parts of another *)
(* account.                                                                *)
StagedIsSupplied ==
    \A u \in Uploads, p \in Parts :
        sessions[u] # NoSession /\ staged[u][p] # NoChunk
            => staged[u][p] \in supplied[sessions[u].account]

-----------------------------------------------------------------------------
(* Induction on finite sets *)

\* Every set of numbers that is not empty has a least element.
LEMMA LeastNumber ==
    ASSUME NEW T, T \subseteq Nat, T # {}
    PROVE  \E n \in T : \A m \in T : n <= m
<1> DEFINE R == OpToRel(<, Nat)
<1>1. \A x, y \in Nat : y < x => <<y, x>> \in R
    BY DEF OpToRel
<1>2. IsWellFoundedOn(R, Nat)
    BY NatLessThanWellFounded
<1> HIDE DEF R
<1>3. PICK n \in T : \A m \in T : ~(<<m, n>> \in R)
    BY <1>2, WFMin
<1>4. ASSUME NEW m \in T
      PROVE  n <= m
    <2>1. n \in Nat /\ m \in Nat
        OBVIOUS
    <2>2. ~(m < n)
        BY <1>1, <1>3, <2>1
    <2> QED BY <2>1, <2>2
<1> QED BY <1>4

\* Induction on finite sets, for a property given as the set of the sets that
\* have it: a smallest set without it would have one more element than one with.
LEMMA SubsetInduction ==
    ASSUME NEW S, IsFiniteSet(S), NEW Good, {} \in Good,
           \A T \in SUBSET S : T # {} /\ (\A x \in T : T \ {x} \in Good) => T \in Good
    PROVE  S \in Good
<1> SUFFICES ASSUME S \notin Good PROVE FALSE
    OBVIOUS
<1> DEFINE sizes == {n \in Nat : \E T \in SUBSET S : Cardinality(T) = n /\ T \notin Good}
<1>1. \A T \in SUBSET S : IsFiniteSet(T) /\ Cardinality(T) \in Nat
    BY FS_Subset, FS_CardinalityType
<1>2. sizes \subseteq Nat /\ Cardinality(S) \in sizes
    BY <1>1
<1>3. PICK n \in sizes : \A m \in sizes : n <= m
    <2> HIDE DEF sizes
    <2> QED BY <1>2, LeastNumber
<1>4. PICK T \in SUBSET S : Cardinality(T) = n /\ T \notin Good
    BY <1>3
<1>5. PICK x \in T : T \ {x} \notin Good
    BY <1>4
<1>6. T \ {x} \in SUBSET S /\ Cardinality(T \ {x}) = n - 1
    BY <1>1, <1>4, <1>5, FS_RemoveElement
<1>7. n - 1 \in sizes
    BY <1>1, <1>5, <1>6
<1>8. n \in Nat
    BY <1>2
<1> HIDE DEF sizes
<1> QED BY <1>3, <1>7, <1>8

-----------------------------------------------------------------------------
(* Sums *)

(* What SumFunctionOnSet unfolds: f gives the sum of w over each member of *)
(* Sets, taking the elements of a set in the order CHOOSE picks them.      *)
Sums(f, w, Sets) ==
    f = [s \in Sets |-> IF s = {} THEN 0
                        ELSE LET x == CHOOSE x \in s : TRUE IN w[x] + f[s \ {x}]]

\* Sums of subsets of a finite set exist: those of up to n elements give those
\* of one element more.
LEMMA SumsExist ==
    ASSUME NEW S, IsFiniteSet(S), NEW w
    PROVE  \E f : Sums(f, w, SUBSET S)
<1> DEFINE upTo(n) == {s \in SUBSET S : Cardinality(s) <= n}
           bad == {n \in Nat : ~\E f : Sums(f, w, upTo(n))}
<1>0. \A s \in SUBSET S : IsFiniteSet(s) /\ Cardinality(s) \in Nat
    BY FS_Subset, FS_CardinalityType
<1>1. \E f : Sums(f, w, upTo(0))
    <2>1. upTo(0) = {{}}
        BY <1>0, FS_EmptySet
    <2>2. Sums([s \in upTo(0) |-> 0], w, upTo(0))
        BY <2>1 DEF Sums
    <2> QED BY <2>2
<1>2. ASSUME NEW n \in Nat, NEW f, Sums(f, w, upTo(n))
      PROVE  \E g : Sums(g, w, upTo(n + 1))
    <2> DEFINE g == [s \in upTo(n + 1) |-> IF s = {} THEN 0
                        ELSE LET x == CHOOSE x \in s : TRUE IN w[x] + f[s \ {x}]]
    <2>1. \A s \in upTo(n) : s \in upTo(n + 1) /\ g[s] = f[s]
        <3>1. \A s \in upTo(n) : s \in upTo(n + 1)
            BY <1>0
        <3> HIDE DEF upTo
        <3> QED BY <1>2, <3>1 DEF Sums
    <2>2. ASSUME NEW s \in upTo(n + 1), s # {}
          PROVE  s \ {CHOOSE x \in s : TRUE} \in upTo(n)
        <3> DEFINE x == CHOOSE x \in s : TRUE
        <3>1. x \in s
            BY <2>2
        <3> HIDE DEF x
        <3>2. Cardinality(s \ {x}) = Cardinality(s) - 1
            BY <1>0, <3>1, FS_RemoveElement
        <3>3. s \ {x} \in upTo(n)
            BY <1>0, <3>2
        <3> QED BY <3>3 DEF x
    <2>3. Sums(g, w, upTo(n + 1))
        <3> HIDE DEF upTo
        <3>1. ASSUME NEW s \in upTo(n + 1), s # {}
              PROVE  LET x == CHOOSE x \in s : TRUE IN f[s \ {x}] = g[s \ {x}]
            <4> HIDE DEF g
            <4> QED BY <2>1, <2>2, <3>1
        <3>2. \A s \in upTo(n + 1) : g[s] = IF s = {} THEN 0
                  ELSE LET x == CHOOSE x \in s : TRUE IN w[x] + g[s \ {x}]
            <4> TAKE s \in upTo(n + 1)
            <4> DEFINE x == CHOOSE x \in s : TRUE
            <4>1. g[s] = IF s = {} THEN 0 ELSE w[x] + f[s \ {x}]
                OBVIOUS
            <4>2. s # {} => f[s \ {x}] = g[s \ {x}]
                BY <3>1
            <4> HIDE DEF g
            <4> QED BY <4>1, <4>2
        <3>3. g = [s \in upTo(n + 1) |-> g[s]]
            OBVIOUS
        <3> HIDE DEF g
        <3> QED BY <3>2, <3>3 DEF Sums
    <2> QED BY <2>3
<1>3. bad = {}
    <2> SUFFICES ASSUME bad # {} PROVE FALSE
        OBVIOUS
    <2>1. PICK n \in bad : \A m \in bad : n <= m
        <3>1. bad \subseteq Nat
            OBVIOUS
        <3> HIDE DEF bad
        <3> QED BY <3>1, LeastNumber
    <2>2. n \in Nat /\ n # 0
        BY <1>1
    <2>3. n - 1 \in Nat /\ n - 1 \notin bad /\ (n - 1) + 1 = n
        <3> HIDE DEF bad
        <3> QED BY <2>1, <2>2
    <2>4. \E f : Sums(f, w, upTo(n - 1))
        BY <2>3
    <2>5. \E f : Sums(f, w, upTo((n - 1) + 1))
        <3> HIDE DEF upTo, bad
        <3> QED BY <1>2, <2>3, <2>4
    <2> QED BY <2>1, <2>3, <2>5
<1>4. Cardinality(S) \in Nat /\ upTo(Cardinality(S)) = SUBSET S
    BY <1>0, FS_Subset
<1> QED BY <1>3, <1>4

\* ... and two of them agree wherever both are defined.
LEMMA SumsAgree ==
    ASSUME NEW S, IsFiniteSet(S), NEW R \in SUBSET S, NEW w, NEW f, NEW g,
           Sums(f, w, SUBSET S), Sums(g, w, SUBSET R)
    PROVE  f[R] = g[R]
<1> DEFINE Good == {T \in SUBSET R : f[T] = g[T]}
<1>1. {} \in Good
    BY DEF Sums
<1>2. ASSUME NEW T \in SUBSET R, T # {}, \A x \in T : T \ {x} \in Good
      PROVE  T \in Good
    <2> DEFINE x == CHOOSE x \in T : TRUE
    <2>1. x \in T
        BY <1>2
    <2>2. f[T] = w[x] + f[T \ {x}] /\ g[T] = w[x] + g[T \ {x}]
        BY <1>2 DEF Sums
    <2> HIDE DEF x
    <2>3. f[T \ {x}] = g[T \ {x}]
        BY <1>2, <2>1
    <2> QED BY <2>2, <2>3
<1>3. IsFiniteSet(R)
    BY FS_Subset
<1> HIDE DEF Good
<1>4. R \in Good
    BY <1>1, <1>2, <1>3, SubsetInduction
<1> QED BY <1>4 DEF Good

\* A sum is what is left of it and the chosen element.
LEMMA SumUnfolds ==
    ASSUME NEW S, IsFiniteSet(S), NEW w
    PROVE  /\ S = {} => SumFunctionOnSet(w, S) = 0
           /\ S # {} => LET x == CHOOSE x \in S : TRUE
                        IN SumFunctionOnSet(w, S) = w[x] + SumFunctionOnSet(w, S \ {x})
<1> DEFINE iter(T) == CHOOSE f : Sums(f, w, SUBSET T)
<1>1. ASSUME NEW T
      PROVE  SumFunctionOnSet(w, T) = iter(T)[T]
    BY DEF Sums, SumFunctionOnSet, FoldFunctionOnSet, MapThenFoldSet
<1>2. ASSUME NEW T \in SUBSET S
      PROVE  Sums(iter(T), w, SUBSET T)
    <2>1. \E f : Sums(f, w, SUBSET T)
        BY FS_Subset, SumsExist
    <2> QED BY <2>1
<1>3. Sums(iter(S), w, SUBSET S)
    BY <1>2
<1> HIDE DEF iter
<1>4. S = {} => iter(S)[S] = 0
    BY <1>3 DEF Sums
<1>5. ASSUME S # {}
      PROVE  LET x == CHOOSE x \in S : TRUE
             IN iter(S)[S] = w[x] + iter(S \ {x})[S \ {x}]
    <2> DEFINE x == CHOOSE x \in S : TRUE
    <2>1. iter(S)[S] = w[x] + iter(S)[S \ {x}]
        BY <1>3, <1>5 DEF Sums
    <2> HIDE DEF x
    <2>2. iter(S)[S \ {x}] = iter(S \ {x})[S \ {x}]
        <3>1. S \ {x} \in SUBSET S /\ Sums(iter(S \ {x}), w, SUBSET (S \ {x}))
            BY <1>2
        <3> QED BY <1>3, <3>1, SumsAgree
    <2>3. iter(S)[S] = w[x] + iter(S \ {x})[S \ {x}]
        BY <2>1, <2>2
    <2> QED BY <2>3 DEF x
<1> QED BY <1>1, <1>4, <1>5

\* Numbers add up to a number.
LEMMA SumType ==
    ASSUME NEW S, IsFiniteSet(S), NEW w, \A x \in S : w[x] \in Nat
    PROVE  SumFunctionOnSet(w, S) \in Nat
<1> DEFINE Good == {T \in SUBSET S : SumFunctionOnSet(w, T) \in Nat}
<1>1. {} \in Good
    BY FS_EmptySet, SumUnfolds
<1>2. ASSUME NEW T \in SUBSET S, T # {}, \A x \in T : T \ {x} \in Good
      PROVE  T \in Good
    <2> DEFINE x == CHOOSE x \in T : TRUE
    <2>1. x \in T
        BY <1>2
    <2>2. SumFunctionOnSet(w, T) = w[x] + SumFunctionOnSet(w, T \ {x})
        BY <1>2, FS_Subset, SumUnfolds
    <2> HIDE DEF x
    <2>3. w[x] \in Nat /\ SumFunctionOnSet(w, T \ {x}) \in Nat
        BY <1>2, <2>1
    <2> QED BY <2>2, <2>3
<1> HIDE DEF Good
<1>3. \A T \in SUBSET S : T # {} /\ (\A x \in T : T \ {x} \in Good) => T \in Good
    BY <1>2
<1>4. S \in Good
    BY <1>1, <1>3, SubsetInduction
<1> QED BY <1>4 DEF Good

\* Any element can be taken off a sum, not the chosen one only.
LEMMA SumTakesOff ==
    ASSUME NEW S, IsFiniteSet(S), NEW w, \A x \in S : w[x] \in Nat, NEW x \in S
    PROVE  SumFunctionOnSet(w, S) = w[x] + SumFunctionOnSet(w, S \ {x})
<1> DEFINE sum(T) == SumFunctionOnSet(w, T)
           Good == {T \in SUBSET S : \A y \in T : sum(T) = w[y] + sum(T \ {y})}
<1>1. {} \in Good
    OBVIOUS
<1>2. ASSUME NEW T \in SUBSET S, T # {}, \A y \in T : T \ {y} \in Good
      PROVE  T \in Good
    <2> DEFINE c == CHOOSE c \in T : TRUE
    <2>1. c \in T
        BY <1>2
    <2>2. sum(T) = w[c] + sum(T \ {c})
        BY <1>2, FS_Subset, SumUnfolds
    <2> HIDE DEF c
    <2>3. ASSUME NEW y \in T, y # c
          PROVE  sum(T) = w[y] + sum(T \ {y})
        <3>1. sum(T \ {c}) = w[y] + sum((T \ {c}) \ {y})
            BY <1>2, <2>1, <2>3
        <3>2. sum(T \ {y}) = w[c] + sum((T \ {y}) \ {c})
            BY <1>2, <2>1, <2>3
        <3>3. (T \ {y}) \ {c} = (T \ {c}) \ {y} /\ (T \ {y}) \ {c} \in SUBSET S
            OBVIOUS
        <3>4. sum((T \ {y}) \ {c}) \in Nat
            BY <3>3, FS_Subset, SumType
        <3>5. w[y] \in Nat /\ w[c] \in Nat
            BY <2>1
        <3> HIDE DEF sum
        <3> QED BY <2>2, <3>1, <3>2, <3>3, <3>4, <3>5
    <2> HIDE DEF sum
    <2> QED BY <2>2, <2>3
<1> HIDE DEF Good
<1>3. \A T \in SUBSET S : T # {} /\ (\A y \in T : T \ {y} \in Good) => T \in Good
    BY <1>2
<1>4. S \in Good
    BY <1>1, <1>3, SubsetInduction
<1> QED BY <1>4 DEF Good

\* Fewer numbers add up to no more.
LEMMA SumOfFewer ==
    ASSUME NEW S, IsFiniteSet(S), NEW w, \A x \in S : w[x] \in Nat, NEW R \in SUBSET S
    PROVE  SumFunctionOnSet(w, R) <= SumFunctionOnSet(w, S)
<1> DEFINE sum(T) == SumFunctionOnSet(w, T)
           Good == {T \in SUBSET S : \A U \in SUBSET T : sum(U) <= sum(T)}
<1>0. \A T \in SUBSET S : sum(T) \in Nat
    BY FS_Subset, SumType
<1>1. {} \in Good
    BY <1>0
<1>2. ASSUME NEW T \in SUBSET S, T # {}, \A x \in T : T \ {x} \in Good
      PROVE  T \in Good
    <2> SUFFICES ASSUME NEW U \in SUBSET T PROVE sum(U) <= sum(T)
        OBVIOUS
    <2>1. CASE U = T
        BY <1>0, <2>1
    <2>2. ASSUME NEW x \in T, x \notin U
          PROVE  sum(U) <= sum(T)
        <3>1. sum(U) <= sum(T \ {x})
            BY <1>2, <2>2
        <3>2. sum(T) = w[x] + sum(T \ {x}) /\ w[x] \in Nat
            BY FS_Subset, SumTakesOff
        <3>3. sum(U) \in Nat /\ sum(T \ {x}) \in Nat
            BY <1>0
        <3> HIDE DEF sum
        <3> QED BY <3>1, <3>2, <3>3
    <2> QED BY <2>1, <2>2
<1> HIDE DEF Good
<1>3. \A T \in SUBSET S : T # {} /\ (\A x \in T : T \ {x} \in Good) => T \in Good
    BY <1>2
<1>4. S \in Good
    BY <1>1, <1>3, SubsetInduction
<1> QED BY <1>4 DEF Good

\* A sum asks for the values on its set only.
LEMMA SumOfSame ==
    ASSUME NEW S, IsFiniteSet(S), NEW w, NEW v, \A x \in S : w[x] = v[x]
    PROVE  SumFunctionOnSet(w, S) = SumFunctionOnSet(v, S)
<1> DEFINE Good == {T \in SUBSET S : SumFunctionOnSet(w, T) = SumFunctionOnSet(v, T)}
<1>1. {} \in Good
    BY FS_EmptySet, SumUnfolds
<1>2. ASSUME NEW T \in SUBSET S, T # {}, \A x \in T : T \ {x} \in Good
      PROVE  T \in Good
    <2> DEFINE x == CHOOSE x \in T : TRUE
    <2>1. x \in T
        BY <1>2
    <2>2. /\ SumFunctionOnSet(w, T) = w[x] + SumFunctionOnSet(w, T \ {x})
          /\ SumFunctionOnSet(v, T) = v[x] + SumFunctionOnSet(v, T \ {x})
        BY <1>2, FS_Subset, SumUnfolds
    <2> HIDE DEF x
    <2> QED BY <1>2, <2>1, <2>2
<1> HIDE DEF Good
<1>3. \A T \in SUBSET S : T # {} /\ (\A x \in T : T \ {x} \in Good) => T \in Good
    BY <1>2
<1>4. S \in Good
    BY <1>1, <1>3, SubsetInduction
<1> QED BY <1>4 DEF Good

\* Numbers picked without repetition add up to no more than all of them.
LEMMA SumOfPicked ==
    ASSUME NEW S, IsFiniteSet(S), NEW w, \A x \in S : w[x] \in Nat,
           NEW D, IsFiniteSet(D), NEW f \in [D -> S],
           \A i, j \in D : f[i] = f[j] => i = j,
           NEW v, \A i \in D : v[i] = w[f[i]]
    PROVE  SumFunctionOnSet(v, D) <= SumFunctionOnSet(w, S)
<1> DEFINE image(T) == {f[i] : i \in T}
           Good == {T \in SUBSET D :
                       SumFunctionOnSet(v, T) = SumFunctionOnSet(w, image(T))}
<1>0. \A T \in SUBSET D : image(T) \in SUBSET S /\ IsFiniteSet(image(T)) /\ IsFiniteSet(T)
    <2>1. \A T \in SUBSET D : image(T) \in SUBSET S
        OBVIOUS
    <2> QED BY <2>1, FS_Subset
<1>1. {} \in Good
    <2>1. image({}) = {}
        OBVIOUS
    <2>2. SumFunctionOnSet(v, {}) = 0 /\ SumFunctionOnSet(w, {}) = 0
        BY FS_EmptySet, SumUnfolds
    <2> HIDE DEF image
    <2> QED BY <2>1, <2>2
<1>2. ASSUME NEW T \in SUBSET D, T # {}, \A i \in T : T \ {i} \in Good
      PROVE  T \in Good
    <2>1. PICK i \in T : TRUE
        BY <1>2
    <2>2. f[i] \in image(T) /\ image(T \ {i}) = image(T) \ {f[i]}
        OBVIOUS
    <2>3. SumFunctionOnSet(v, T) = v[i] + SumFunctionOnSet(v, T \ {i})
        <3>1. \A j \in T : v[j] \in Nat
            OBVIOUS
        <3> QED BY <1>0, <3>1, SumTakesOff
    <2>4. SumFunctionOnSet(w, image(T)) = w[f[i]] + SumFunctionOnSet(w, image(T) \ {f[i]})
        <3>1. \A x \in image(T) : w[x] \in Nat
            BY <1>0
        <3>2. IsFiniteSet(image(T))
            BY <1>0
        <3> HIDE DEF image
        <3> QED BY <2>2, <3>1, <3>2, SumTakesOff
    <2>5. SumFunctionOnSet(v, T \ {i}) = SumFunctionOnSet(w, image(T \ {i}))
        BY <1>2
    <2>6. v[i] = w[f[i]]
        OBVIOUS
    <2> HIDE DEF image
    <2> QED BY <2>2, <2>3, <2>4, <2>5, <2>6
<1> HIDE DEF Good
<1>3. \A T \in SUBSET D : T # {} /\ (\A i \in T : T \ {i} \in Good) => T \in Good
    BY <1>2
<1>4. D \in Good
    BY <1>1, <1>3, SubsetInduction
<1>5. SumFunctionOnSet(v, D) = SumFunctionOnSet(w, image(D))
    BY <1>4 DEF Good
<1>6. SumFunctionOnSet(w, image(D)) <= SumFunctionOnSet(w, S)
    <2>1. image(D) \in SUBSET S
        BY <1>0
    <2> HIDE DEF image
    <2> QED BY <2>1, SumOfFewer
<1> QED BY <1>5, <1>6

\* Zeros add up to zero.
LEMMA SumOfZeros ==
    ASSUME NEW S, IsFiniteSet(S), NEW w, \A x \in S : w[x] = 0
    PROVE  SumFunctionOnSet(w, S) = 0
<1> DEFINE Good == {T \in SUBSET S : SumFunctionOnSet(w, T) = 0}
<1>1. {} \in Good
    BY FS_EmptySet, SumUnfolds
<1>2. ASSUME NEW T \in SUBSET S, T # {}, \A y \in T : T \ {y} \in Good
      PROVE  T \in Good
    <2>1. PICK y \in T : TRUE
        BY <1>2
    <2>2. SumFunctionOnSet(w, T) = w[y] + SumFunctionOnSet(w, T \ {y})
        <3>1. IsFiniteSet(T) /\ \A x \in T : w[x] \in Nat
            BY FS_Subset
        <3> QED BY <3>1, SumTakesOff
    <2> QED BY <1>2, <2>2
<1> HIDE DEF Good
<1>3. \A T \in SUBSET S : T # {} /\ (\A y \in T : T \ {y} \in Good) => T \in Good
    BY <1>2
<1>4. S \in Good
    BY <1>1, <1>3, SubsetInduction
<1> QED BY <1>4 DEF Good

-----------------------------------------------------------------------------
(* Assembly *)

\* A finite set of numbers can be listed in increasing order.  Each element
\* has its rank, the number of elements up to it, and no two the same one.
LEMMA IncreasingIsListing ==
    ASSUME NEW S, S \subseteq Nat, IsFiniteSet(S)
    PROVE  /\ Increasing(S) \in [1..Cardinality(S) -> S]
           /\ \A i, j \in 1..Cardinality(S) :
                  i < j => Increasing(S)[i] < Increasing(S)[j]
<1> DEFINE n == Cardinality(S)
           upTo(x) == {y \in S : y <= x}
           rank == [x \in S |-> Cardinality(upTo(x))]
           order == [i \in 1..n |-> CHOOSE x \in S : rank[x] = i]
<1>1. n \in Nat
    BY FS_CardinalityType
<1>2. ASSUME NEW x \in S
      PROVE  rank[x] \in 1..n
    <2>1. upTo(x) \subseteq S /\ x \in upTo(x)
        OBVIOUS
    <2>2. IsFiniteSet(upTo(x)) /\ Cardinality(upTo(x)) <= n
        BY <2>1, FS_Subset
    <2>3. Cardinality(upTo(x)) \in Nat /\ Cardinality(upTo(x)) # 0
        BY <2>1, <2>2, FS_CardinalityType, FS_EmptySet
    <2> HIDE DEF upTo, n
    <2> QED BY <1>1, <2>2, <2>3
<1>3. ASSUME NEW x \in S, NEW y \in S, x < y
      PROVE  rank[x] < rank[y]
    <2>1. upTo(x) \subseteq upTo(y) /\ y \in upTo(y) /\ y \notin upTo(x)
        <3>1. x \in Nat /\ y \in Nat
            OBVIOUS
        <3>2. \A z \in S : z \in Nat /\ (z <= x => z <= y)
            BY <1>3, <3>1
        <3>3. upTo(x) \subseteq upTo(y)
            BY <3>2
        <3>4. y \in upTo(y) /\ y \notin upTo(x)
            BY <1>3, <3>1
        <3> QED BY <3>3, <3>4
    <2>2. IsFiniteSet(upTo(y))
        BY FS_Subset
    <2>3. Cardinality(upTo(x)) <= Cardinality(upTo(y)) /\ Cardinality(upTo(x)) # Cardinality(upTo(y))
        BY <2>1, <2>2, FS_Subset
    <2>4. rank[x] \in 1..n /\ rank[y] \in 1..n
        BY <1>2
    <2> HIDE DEF upTo, n
    <2> QED BY <1>1, <2>3, <2>4
<1>4. rank \in Surjection(S, 1..n)
    <2>1. rank \in [S -> 1..n]
        <3> HIDE DEF n
        <3> QED BY <1>2
    <2>2. ASSUME NEW x \in S, NEW y \in S, rank[x] = rank[y]
          PROVE  x = y
        <3>1. rank[x] \in 1..n /\ rank[y] \in 1..n
            BY <1>2
        <3>2. ~(rank[x] < rank[y]) /\ ~(rank[y] < rank[x])
            <4> HIDE DEF rank, n
            <4> QED BY <1>1, <2>2, <3>1
        <3> HIDE DEF rank
        <3> QED BY <1>3, <3>2
    <2>3. rank \in Injection(S, 1..n)
        <3> HIDE DEF rank, n
        <3> QED BY <2>1, <2>2 DEF Injection, IsInjective
    <2>4. IsFiniteSet(1..n) /\ Cardinality(1..n) = n
        BY <1>1, FS_Interval
    <2> HIDE DEF rank
    <2> QED BY <2>3, <2>4, FS_Injection
<1>5. ASSUME NEW i \in 1..n
      PROVE  order[i] \in S /\ rank[order[i]] = i
    <2>1. \E x \in S : rank[x] = i
        <3> HIDE DEF rank, n
        <3> QED BY <1>4 DEF Surjection
    <2> HIDE DEF rank, n
    <2> QED BY <2>1
<1>6. order \in [1..n -> S]
    <2> HIDE DEF rank, n
    <2> QED BY <1>5
<1>7. ASSUME NEW i \in 1..n, NEW j \in 1..n, i < j
      PROVE  order[i] < order[j]
    <2>1. order[i] \in S /\ order[j] \in S /\ rank[order[i]] = i /\ rank[order[j]] = j
        BY <1>5
    <2> HIDE DEF order, rank, n
    <2>2. order[j] < order[i] => rank[order[j]] < rank[order[i]]
        BY <1>3, <2>1
    <2>3. order[j] # order[i] /\ ~(order[j] < order[i])
        BY <1>1, <1>7, <2>1, <2>2
    <2>4. order[i] \in Nat /\ order[j] \in Nat
        BY <2>1
    <2> QED BY <2>3, <2>4
<1> HIDE DEF order, rank
<1> QED BY <1>6, <1>7 DEF Increasing

\* An assembly holds nothing but what is staged for the upload.
LEMMA AssembledIsStaged ==
    ASSUME NEW u \in Uploads
    PROVE  \A i \in DOMAIN Assembled(u) :
               \E p \in Recorded(u) : Assembled(u)[i] = staged[u][p]
<1>1. Recorded(u) \subseteq Parts
    BY DEF Recorded
<1>2. Recorded(u) \subseteq Nat /\ IsFiniteSet(Recorded(u))
    BY <1>1, PartsNat, FS_Subset
<1>3. Increasing(Recorded(u)) \in [1..Cardinality(Recorded(u)) -> Recorded(u)]
    BY <1>2, IncreasingIsListing
<1> QED BY <1>3 DEF Assembled

\* What passes the hash check is the content of the address, and the account of
\* the session has sent all of it.
LEMMA VerifiedIsSupplied ==
    ASSUME TypeOK, StagedIsSupplied, NEW u \in Uploads, sessions[u] # NoSession,
           Assembles(u), CanStore(u)
    PROVE  LET h == sessions[u].hash  a == sessions[u].account
           IN /\ Assembled(u) = Whole[h] /\ Assembled(u) # NoBytes
              /\ \A i \in DOMAIN Whole[h] : Whole[h][i] \in supplied[a]
<1>1. sessions[u] \in Session
    BY DEF TypeOK
<1>2. Assembled(u) = Whole[sessions[u].hash] /\ Whole[sessions[u].hash] \in Seq(Chunks)
    BY <1>1, Addresses DEF CanStore, Verified, Session
<1>3. ASSUME NEW i \in DOMAIN Assembled(u)
      PROVE  Assembled(u)[i] \in supplied[sessions[u].account]
    <2>1. PICK p \in Recorded(u) : Assembled(u)[i] = staged[u][p]
        BY AssembledIsStaged
    <2>2. p \in Parts /\ staged[u][p] # NoChunk
        BY DEF Assembles, Recorded
    <2> QED BY <2>1, <2>2 DEF StagedIsSupplied
<1> QED BY <1>2, <1>3, Absent

-----------------------------------------------------------------------------
(* Type correctness *)

LEMMA CellReplaced ==
    ASSUME NEW A, NEW H, NEW T, NEW f \in [A -> [H -> T]],
           NEW a \in A, NEW h \in H, NEW value \in T
    PROVE  [f EXCEPT ![a][h] = value] \in [A -> [H -> T]]
OBVIOUS

LEMMA InitTypes == Init => TypeOK
<1> SUFFICES ASSUME Init PROVE TypeOK OBVIOUS
<1>1. /\ 0 \in 0..MaxTime /\ 0 \in 0..MaxSeq /\ 0 \in -DeadAfter..MaxTime
      /\ -DeadAfter \in -DeadAfter..MaxTime
    BY Bounds, Periods
<1>2. NoParts \in [Parts -> Nat] /\ NoStaging \in [Parts -> Chunks \cup {NoChunk}]
    BY DEF NoParts, NoStaging
<1>3. NeverSeen \in [seen : 0..MaxSeq, active : -DeadAfter..MaxTime]
    BY <1>1 DEF NeverSeen
<1> HIDE DEF NoParts, NoStaging, NeverSeen
<1> QED BY <1>1, <1>2, <1>3 DEF Init, TypeOK

\* Discarding an upload removes its staged bytes, its session and its parts, or
\* the first of them only.
LEMMA DiscardKeeps ==
    ASSUME TypeOK, NEW u \in Uploads, NEW writes, Discard(u, writes)
    PROVE  /\ sessions' \in [Uploads -> Session \cup {NoSession}]
           /\ partRows' \in [Uploads -> [Parts -> Nat]]
           /\ staged' \in [Uploads -> [Parts -> Chunks \cup {NoChunk}]]
           /\ \A v \in Uploads : sessions'[v] # NoSession => sessions'[v] = sessions[v]
           /\ \A v \in Uploads, p \in Parts :
                  staged'[v][p] # NoChunk => staged'[v][p] = staged[v][p]
<1>1. NoParts \in [Parts -> Nat] /\ NoStaging \in [Parts -> Chunks \cup {NoChunk}]
    BY DEF NoParts, NoStaging
<1>2. \A p \in Parts : NoStaging[p] = NoChunk
    BY DEF NoStaging
<1> HIDE DEF NoParts, NoStaging
<1>3. /\ sessions' \in [Uploads -> Session \cup {NoSession}]
      /\ \A v \in Uploads : sessions'[v] # NoSession => sessions'[v] = sessions[v]
    BY DEF Discard, TypeOK
<1>4. partRows' \in [Uploads -> [Parts -> Nat]]
    BY <1>1 DEF Discard, TypeOK
<1>5. staged' \in [Uploads -> [Parts -> Chunks \cup {NoChunk}]]
    BY <1>1 DEF Discard, TypeOK
<1>6. \A v \in Uploads, p \in Parts :
          staged'[v][p] # NoChunk => staged'[v][p] = staged[v][p]
    BY <1>2 DEF Discard, TypeOK
<1> QED BY <1>3, <1>4, <1>5, <1>6

LEMMA UploadTypes ==
    ASSUME TypeOK, StagedIsSupplied, NEW u \in Uploads, Upload(u)
    PROVE  TypeOK'
<1>0. clock \in 0..MaxTime /\ MaxTime \in Nat /\ MaxSeq \in Nat /\ MaxRefs \in Nat /\ MaxBlobSize \in Nat
    BY Bounds DEF TypeOK
<1>1. ASSUME NEW a \in Accounts, NEW h \in Hashes, NEW size \in 1..MaxBlobSize,
             Initiate(a, h, size, u)
      PROVE  TypeOK'
    <2>1. [account |-> a, hash |-> h, declared |-> size, at |-> clock] \in Session
        BY <1>0 DEF Session
    <2> QED BY <1>1, <2>1 DEF Initiate, TypeOK
<1>2. ASSUME NEW p \in Parts, NEW c \in Chunks, NEW writes \in Writes(2),
             SendPart(u, p, c, writes)
      PROVE  TypeOK'
    <2>1. sessions[u].account \in Accounts /\ ChunkSize[c] \in Nat
        BY <1>2, ChunkSizes DEF SendPart, TypeOK, Session
    <2>2. partRows' \in [Uploads -> [Parts -> Nat]]
        BY <1>2, <2>1 DEF SendPart, TypeOK
    <2>3. supplied' \in [Accounts -> SUBSET Chunks]
        BY <1>2, <2>1 DEF SendPart, TypeOK
    <2>4. staged' \in [Uploads -> [Parts -> Chunks \cup {NoChunk}]]
        BY <1>2 DEF SendPart, TypeOK
    <2> QED BY <1>2, <2>2, <2>3, <2>4 DEF SendPart, TypeOK
<1>3. ASSUME NEW writes, Discard(u, writes),
             UNCHANGED <<clock, accountSeq, blobs, bytes, devices, supplied, settled>>
      PROVE  TypeOK'
    BY <1>3, DiscardKeeps DEF TypeOK
<1>4. ASSUME NEW writes \in Writes(4), FinalizeStored(u, writes)
      PROVE  TypeOK'
    <2> DEFINE a == sessions[u].account  h == sessions[u].hash
    <2>1. sessions[u] \in Session /\ a \in Accounts /\ h \in Hashes
        BY <1>4 DEF FinalizeStored, TypeOK, Session
    <2>2. Assembled(u) \in Seq(Chunks)
        BY <1>4, <2>1, VerifiedIsSupplied, Addresses DEF FinalizeStored
    <2>3. bytes' \in [Hashes -> Seq(Chunks) \cup {NoBytes}]
        <3>1. UNCHANGED bytes \/ bytes' = [bytes EXCEPT ![h] = Assembled(u)]
            BY <1>4 DEF FinalizeStored
        <3> QED BY <2>1, <2>2, <3>1 DEF TypeOK
    <2>4. accountSeq[a] \in Nat /\ accountSeq[a] + 1 \in 0..MaxSeq
        <3>1. accountSeq[a] < MaxSeq
            BY <1>4 DEF FinalizeStored
        <3>2. accountSeq[a] \in 0..MaxSeq
            BY <2>1 DEF TypeOK
        <3> HIDE DEF a
        <3> QED BY <1>0, <3>1, <3>2
    <2>5. accountSeq' \in [Accounts -> 0..MaxSeq]
        <3>1. UNCHANGED accountSeq \/ accountSeq' = [accountSeq EXCEPT ![a] = @ + 1]
            BY <1>4 DEF FinalizeStored
        <3> HIDE DEF a
        <3> QED BY <2>1, <2>4, <3>1 DEF TypeOK
    <2>6. blobs' \in [Accounts -> [Hashes -> BlobRow \cup {NoRow}]]
        <3> DEFINE row == [ref |-> 0, zero |-> ZeroPoint(a), active |-> clock]
        <3>1. row \in BlobRow \cup {NoRow}
            BY <1>0, <2>4 DEF BlobRow, ZeroPoint
        <3>2. UNCHANGED blobs \/ blobs' = [blobs EXCEPT ![a][h] = row]
            BY <1>4 DEF FinalizeStored
        <3> HIDE DEF row, a, h
        <3>3. [blobs EXCEPT ![a][h] = row] \in [Accounts -> [Hashes -> BlobRow \cup {NoRow}]]
            BY <2>1, <3>1, CellReplaced DEF TypeOK
        <3> QED BY <3>2, <3>3 DEF TypeOK
    <2>7. settled' \in [Accounts -> [Hashes -> [touched : 0..MaxTime, zero : 0..MaxSeq]]]
        <3> DEFINE T == [touched : 0..MaxTime, zero : 0..MaxSeq]
                   record == [touched |-> clock, zero |-> accountSeq'[a]]
        <3>1. record \in T
            BY <1>0, <2>1, <2>5
        <3>2. UNCHANGED settled \/ settled' = [settled EXCEPT ![a][h] = record]
            BY <1>4 DEF FinalizeStored
        <3>3. settled \in [Accounts -> [Hashes -> T]]
            BY DEF TypeOK
        <3> HIDE DEF T, record, a, h
        <3>4. [settled EXCEPT ![a][h] = record] \in [Accounts -> [Hashes -> T]]
            BY <2>1, <3>1, <3>3, CellReplaced
        <3>5. settled' \in [Accounts -> [Hashes -> T]]
            BY <3>2, <3>3, <3>4
        <3> QED BY <3>5 DEF T
    <2>8. Discard(u, writes - 2) /\ UNCHANGED <<clock, devices, supplied>>
        BY <1>4 DEF FinalizeStored
    <2> QED BY <2>3, <2>5, <2>6, <2>7, <2>8, DiscardKeeps DEF TypeOK
<1> QED BY <1>1, <1>2, <1>3, <1>4
        DEF Upload, FinalizeOwned, FinalizeRejected, CancelUpload, ReapUploadSession

LEMMA ReferenceTypes ==
    ASSUME TypeOK, Reference
    PROVE  TypeOK'
<1>0. clock \in 0..MaxTime /\ {MaxTime, MaxSeq, MaxRefs, DeadAfter} \subseteq Nat
    BY Bounds, Periods DEF TypeOK
<1>1. ASSUME NEW a \in Accounts, NEW h \in Hashes, AddBlobReference(a, h)
      PROVE  TypeOK'
    <2> DEFINE row == Referenced(a, h)
               T == [touched : 0..MaxTime, zero : 0..MaxSeq]
               record == [touched |-> clock, zero |-> 0]
    <2>1. blobs[a][h] \in BlobRow /\ blobs[a][h].ref < MaxRefs
        BY <1>1 DEF AddBlobReference, TypeOK
    <2>2. row \in BlobRow \cup {NoRow} /\ record \in T
        BY <1>0, <2>1 DEF BlobRow, Referenced
    <2>3. blobs' = [blobs EXCEPT ![a][h] = row] /\ settled' = [settled EXCEPT ![a][h] = record]
        BY <1>1 DEF AddBlobReference
    <2>4. settled \in [Accounts -> [Hashes -> T]]
        BY DEF TypeOK
    <2> HIDE DEF row, record, T
    <2>5. blobs' \in [Accounts -> [Hashes -> BlobRow \cup {NoRow}]]
        BY <2>2, <2>3, CellReplaced DEF TypeOK
    <2>6. settled' \in [Accounts -> [Hashes -> T]]
        BY <2>2, <2>3, <2>4, CellReplaced
    <2> QED BY <1>1, <2>5, <2>6 DEF AddBlobReference, TypeOK, T
<1>2. ASSUME NEW a \in Accounts, NEW h \in Hashes, ReleaseBlobReference(a, h)
      PROVE  TypeOK'
    <2> DEFINE row == Released(a, h)
               T == [touched : 0..MaxTime, zero : 0..MaxSeq]
               record == [touched |-> clock,
                          zero |-> IF blobs[a][h].ref = 1 THEN accountSeq'[a]
                                   ELSE settled[a][h].zero]
    <2>1. blobs[a][h] \in BlobRow /\ accountSeq[a] \in 0..MaxSeq /\ accountSeq[a] < MaxSeq
        BY <1>2 DEF ReleaseBlobReference, TypeOK
    <2>2. accountSeq' \in [Accounts -> 0..MaxSeq]
        BY <1>0, <1>2, <2>1 DEF ReleaseBlobReference, TypeOK
    <2>3. settled \in [Accounts -> [Hashes -> T]]
        BY DEF TypeOK
    <2>4. row \in BlobRow \cup {NoRow}
        BY <1>0, <2>1 DEF BlobRow, Released, ZeroPoint
    <2>5. record \in T
        BY <1>0, <2>2, <2>3
    <2>6. blobs' = [blobs EXCEPT ![a][h] = row] /\ settled' = [settled EXCEPT ![a][h] = record]
        BY <1>2, <2>3 DEF ReleaseBlobReference
    <2> HIDE DEF row, record, T
    <2>7. blobs' \in [Accounts -> [Hashes -> BlobRow \cup {NoRow}]]
        BY <2>4, <2>6, CellReplaced DEF TypeOK
    <2>8. settled' \in [Accounts -> [Hashes -> T]]
        BY <2>3, <2>5, <2>6, CellReplaced
    <2> QED BY <1>2, <2>2, <2>7, <2>8 DEF ReleaseBlobReference, TypeOK, T
<1>3. ASSUME NEW a \in Accounts, NEW d \in Devices, NEW seen \in 0..MaxSeq,
             DeviceReports(a, d, seen)
      PROVE  TypeOK'
    <2> DEFINE T == [seen : 0..MaxSeq, active : -DeadAfter..MaxTime]
               report == [seen |-> IF seen > devices[a][d].seen THEN seen
                                   ELSE devices[a][d].seen,
                          active |-> clock]
    <2>1. devices \in [Accounts -> [Devices -> T]]
        BY DEF TypeOK
    <2>2. clock \in -DeadAfter..MaxTime
        BY <1>0
    <2>3. report \in T
        BY <2>1, <2>2
    <2>4. devices' = [devices EXCEPT ![a][d] = report]
        BY <1>3 DEF DeviceReports
    <2> HIDE DEF T, report
    <2>5. devices' \in [Accounts -> [Devices -> T]]
        BY <2>1, <2>3, <2>4, CellReplaced
    <2> QED BY <1>3, <2>5 DEF DeviceReports, TypeOK, T
<1> QED BY <1>1, <1>2, <1>3 DEF Reference

LEMMA SweepTypes ==
    ASSUME TypeOK, ReclaimSweep \/ \E a \in Accounts : DeleteAccount(a)
    PROVE  TypeOK'
<1>1. CASE ReclaimSweep
    BY <1>1 DEF ReclaimSweep, TypeOK
<1>2. ASSUME NEW a \in Accounts, DeleteAccount(a)
      PROVE  TypeOK'
    <2>1. 0 \in 0..MaxTime /\ 0 \in 0..MaxSeq /\ -DeadAfter \in -DeadAfter..MaxTime
        BY Bounds, Periods
    <2>2. /\ NoParts \in [Parts -> Nat] /\ NoStaging \in [Parts -> Chunks \cup {NoChunk}]
          /\ NeverSeen \in [seen : 0..MaxSeq, active : -DeadAfter..MaxTime]
        BY <2>1 DEF NoParts, NoStaging, NeverSeen
    <2> HIDE DEF NoParts, NoStaging, NeverSeen
    <2> QED BY <1>2, <2>1, <2>2 DEF DeleteAccount, TypeOK
<1> QED BY <1>1, <1>2

LEMMA TypesKept ==
    ASSUME TypeOK, StagedIsSupplied, [Next]_vars
    PROVE  TypeOK'
<1>1. CASE Tick
    BY <1>1, Bounds DEF Tick, TypeOK
<1>2. CASE UNCHANGED vars
    BY <1>2 DEF vars, TypeOK
<1> QED BY <1>1, <1>2, UploadTypes, ReferenceTypes, SweepTypes DEF Next

-----------------------------------------------------------------------------
(* What is staged, stored and listed *)

LEMMA StagedKept ==
    ASSUME TypeOK, StagedIsSupplied, [Next]_vars
    PROVE  StagedIsSupplied'
<1>1. ASSUME NEW u \in Uploads, NEW a \in Accounts, NEW h \in Hashes,
             NEW size \in 1..MaxBlobSize, Initiate(a, h, size, u)
      PROVE  StagedIsSupplied'
    <2>1. \A p \in Parts : staged[u][p] = NoChunk
        BY <1>1 DEF Initiate, NoStaging
    <2>2. \A v \in Uploads : v # u => sessions'[v] = sessions[v]
        BY <1>1 DEF Initiate, TypeOK
    <2> QED BY <1>1, <2>1, <2>2 DEF Initiate, StagedIsSupplied
<1>2. ASSUME NEW u \in Uploads, NEW p \in Parts, NEW c \in Chunks,
             NEW writes \in Writes(2), SendPart(u, p, c, writes)
      PROVE  StagedIsSupplied'
    <2>1. \A v \in Uploads, q \in Parts :
              staged'[v][q] = IF v = u /\ q = p THEN c ELSE staged[v][q]
        BY <1>2 DEF SendPart, TypeOK
    <2>2. sessions' = sessions /\ sessions[u].account \in Accounts
        BY <1>2 DEF SendPart, TypeOK, Session
    <2>3. c \in supplied'[sessions[u].account]
          /\ \A a \in Accounts : supplied[a] \subseteq supplied'[a]
        BY <1>2, <2>2 DEF SendPart, TypeOK
    <2>4. \A v \in Uploads : sessions[v] # NoSession => sessions[v].account \in Accounts
        BY DEF TypeOK, Session
    <2> QED BY <2>1, <2>2, <2>3, <2>4 DEF StagedIsSupplied
<1>3. ASSUME NEW u \in Uploads, NEW writes, Discard(u, writes), UNCHANGED supplied
      PROVE  StagedIsSupplied'
    BY <1>3, DiscardKeeps DEF StagedIsSupplied
<1>4. ASSUME NEW u \in Uploads, NEW writes, FinalizeStored(u, writes)
      PROVE  StagedIsSupplied'
    BY <1>3, <1>4 DEF FinalizeStored
<1>5. ASSUME NEW a \in Accounts, DeleteAccount(a)
      PROVE  StagedIsSupplied'
    <2>1. \A u \in Uploads : sessions'[u] # NoSession =>
              /\ sessions'[u] = sessions[u] /\ sessions[u].account # a
              /\ \A p \in Parts : staged'[u][p] # NoChunk => staged'[u][p] = staged[u][p]
        <3>1. \A p \in Parts : NoStaging[p] = NoChunk
            BY DEF NoStaging
        <3> HIDE DEF NoStaging
        <3> QED BY <1>5, <3>1 DEF DeleteAccount, SessionsOf
    <2>2. \A o \in Accounts : o # a => supplied'[o] = supplied[o]
        BY <1>5 DEF DeleteAccount, TypeOK
    <2>3. \A u \in Uploads : sessions[u] # NoSession => sessions[u].account \in Accounts
        BY DEF TypeOK, Session
    <2> QED BY <2>1, <2>2, <2>3 DEF StagedIsSupplied
<1>6. CASE UNCHANGED <<sessions, staged, supplied>>
    BY <1>6 DEF StagedIsSupplied
<1>7. ASSUME NEW u \in Uploads, Upload(u)
      PROVE  StagedIsSupplied'
    BY <1>1, <1>2, <1>3, <1>4, <1>7
       DEF Upload, FinalizeOwned, FinalizeRejected, CancelUpload, ReapUploadSession
<1>8. CASE Reference \/ ReclaimSweep \/ Tick \/ UNCHANGED vars
    BY <1>6, <1>8 DEF Reference, AddBlobReference, ReleaseBlobReference, DeviceReports,
                      ReclaimSweep, Tick, vars
<1> QED BY <1>5, <1>7, <1>8 DEF Next

\* An account gets a row only for content it has sent, with the bytes in place,
\* and nobody takes from what it sent without taking all of its rows.
RowsFrom ==
    \A a \in Accounts, h \in Hashes : blobs'[a][h] # NoRow =>
        \/ /\ blobs[a][h] # NoRow /\ supplied[a] \subseteq supplied'[a]
        \/ /\ bytes'[h] # NoBytes
           /\ \A i \in DOMAIN Whole[h] : Whole[h][i] \in supplied'[a]

\* Bytes come only as the content of their address.
BytesFrom ==
    \A h \in Hashes : bytes'[h] \in {bytes[h], NoBytes, Whole[h]}

\* Bytes go only by the sweep, or with the last account that has a row of them.
BytesGone ==
    \A h \in Hashes : bytes[h] # NoBytes /\ bytes'[h] = NoBytes =>
        \/ ReclaimSweep
        \/ \E a \in Accounts : DeleteAccount(a) /\ h \in Unheld(a)

LEMMA StoreStep ==
    ASSUME TypeOK, StagedIsSupplied, [Next]_vars
    PROVE  RowsFrom /\ BytesFrom /\ BytesGone
<1> USE DEF RowsFrom, BytesFrom, BytesGone
<1>1. ASSUME NEW u \in Uploads, NEW writes \in Writes(4), FinalizeStored(u, writes)
      PROVE  RowsFrom /\ BytesFrom /\ BytesGone
    <2> DEFINE b == sessions[u].account  g == sessions[u].hash
    <2>1. b \in Accounts /\ g \in Hashes
        BY <1>1 DEF FinalizeStored, TypeOK, Session
    <2>2. /\ Assembled(u) = Whole[g] /\ Assembled(u) # NoBytes
          /\ \A i \in DOMAIN Whole[g] : Whole[g][i] \in supplied[b]
        BY <1>1, VerifiedIsSupplied DEF FinalizeStored
    <2>3. writes \in Nat /\ writes >= 1
        BY DEF Writes
    <2>4. /\ UNCHANGED supplied
          /\ \/ UNCHANGED bytes
             \/ bytes[g] = NoBytes /\ bytes' = [bytes EXCEPT ![g] = Assembled(u)]
        <3>1. UNCHANGED supplied
            BY <1>1 DEF FinalizeStored
        <3>2. bytes' = IF BytesWritten(writes) /\ bytes[g] = NoBytes
                       THEN [bytes EXCEPT ![g] = Assembled(u)] ELSE bytes
            BY <1>1 DEF FinalizeStored
        <3> QED BY <3>1, <3>2
    <2>5. bytes'[g] # NoBytes
        BY <1>1, <2>1, <2>2, <2>3 DEF FinalizeStored, BytesWritten, TypeOK
    <2>6. \A a \in Accounts, h \in Hashes :
              (a # b \/ h # g) => blobs'[a][h] = blobs[a][h]
        <3>1. \/ UNCHANGED blobs
              \/ blobs' = [blobs EXCEPT ![b][g] =
                    [ref |-> 0, zero |-> ZeroPoint(b), active |-> clock]]
            BY <1>1 DEF FinalizeStored
        <3> HIDE DEF b, g
        <3> QED BY <2>1, <3>1 DEF TypeOK
    <2>7. \A h \in Hashes : h # g => bytes'[h] = bytes[h]
        BY <2>4 DEF TypeOK
    <2>8. bytes'[g] = bytes[g] \/ (bytes[g] = NoBytes /\ bytes'[g] = Whole[g])
        BY <2>1, <2>2, <2>4 DEF TypeOK
    <2> HIDE DEF b, g
    <2>9. RowsFrom
        BY <2>2, <2>4, <2>5, <2>6
    <2> QED BY <2>5, <2>7, <2>8, <2>9
<1>2. ASSUME NEW a \in Accounts, DeleteAccount(a)
      PROVE  RowsFrom /\ BytesFrom /\ BytesGone
    <2>1. /\ \A h \in Hashes : blobs'[a][h] = NoRow
          /\ \A o \in Accounts, h \in Hashes : o # a =>
                 blobs'[o][h] = blobs[o][h] /\ supplied'[o] = supplied[o]
        BY <1>2 DEF DeleteAccount, TypeOK
    <2>2. \A h \in Hashes : bytes'[h] = bytes[h] \/ (bytes'[h] = NoBytes /\ h \in Unheld(a))
        <3>1. PICK removed \in SUBSET Unheld(a) :
                  bytes' = [h \in Hashes |-> IF h \in removed THEN NoBytes ELSE bytes[h]]
            BY <1>2 DEF DeleteAccount
        <3> QED BY <3>1
    <2> QED BY <1>2, <2>1, <2>2
<1>3. CASE ReclaimSweep
    <2>1. \A a \in Accounts, h \in Hashes : blobs'[a][h] # NoRow => blobs[a][h] # NoRow
        BY <1>3 DEF ReclaimSweep
    <2>2. UNCHANGED supplied
        BY <1>3 DEF ReclaimSweep
    <2>3. BytesFrom
        BY <1>3 DEF ReclaimSweep
    <2> QED BY <1>3, <2>1, <2>2, <2>3
<1>4. CASE UNCHANGED <<blobs, bytes>> /\ \A a \in Accounts : supplied[a] \subseteq supplied'[a]
    BY <1>4
<1>5. ASSUME NEW a \in Accounts, NEW h \in Hashes,
             AddBlobReference(a, h) \/ ReleaseBlobReference(a, h)
      PROVE  RowsFrom /\ BytesFrom /\ BytesGone
    <2>1. UNCHANGED <<bytes, supplied>> /\ blobs[a][h] # NoRow
        BY <1>5 DEF AddBlobReference, ReleaseBlobReference
    <2>2. \A o \in Accounts, g \in Hashes :
              (o # a \/ g # h) => blobs'[o][g] = blobs[o][g]
        BY <1>5 DEF AddBlobReference, ReleaseBlobReference, TypeOK
    <2> QED BY <2>1, <2>2
<1>6. ASSUME NEW u \in Uploads, Upload(u),
             \A writes \in Writes(4) : ~FinalizeStored(u, writes)
      PROVE  /\ UNCHANGED <<blobs, bytes>>
             /\ \A a \in Accounts : supplied[a] \subseteq supplied'[a]
    <2>1. UNCHANGED <<blobs, bytes>>
        BY <1>6 DEF Upload, Initiate, SendPart, FinalizeOwned, FinalizeRejected, CancelUpload,
                    ReapUploadSession
    <2>2. \/ UNCHANGED supplied
          \/ \E c \in Chunks :
                 supplied' = [supplied EXCEPT ![sessions[u].account] = @ \cup {c}]
        BY <1>6 DEF Upload, Initiate, SendPart, FinalizeOwned, FinalizeRejected, CancelUpload,
                    ReapUploadSession
    <2> QED BY <2>1, <2>2 DEF TypeOK
<1>7. CASE Tick \/ UNCHANGED vars
    BY <1>4, <1>7 DEF Tick, vars
<1>8. CASE Reference
    BY <1>4, <1>5, <1>8 DEF Reference, DeviceReports
<1>9. ASSUME NEW u \in Uploads, Upload(u)
      PROVE  RowsFrom /\ BytesFrom /\ BytesGone
    <2> HIDE DEF RowsFrom, BytesFrom, BytesGone
    <2> QED BY <1>1, <1>4, <1>6, <1>9
<1> HIDE DEF RowsFrom, BytesFrom, BytesGone
<1> QED BY <1>2, <1>3, <1>7, <1>8, <1>9 DEF Next

\* With the default policy, what a deleted account leaves without bytes nobody
\* has a row of.
LEMMA GoneIsUnheld ==
    ASSUME TypeOK, BytesGone, ~ReclaimOn, NEW h \in Hashes,
           bytes[h] # NoBytes, bytes'[h] = NoBytes
    PROVE  \A a \in Accounts : blobs'[a][h] = NoRow
<1>1. PICK b \in Accounts : DeleteAccount(b) /\ h \in Unheld(b)
    BY DEF BytesGone, ReclaimSweep
<1>2. \A a \in Accounts : blobs'[a][h] = IF a = b THEN NoRow ELSE blobs[a][h]
    BY <1>1 DEF DeleteAccount, TypeOK
<1> QED BY <1>1, <1>2 DEF Unheld

-----------------------------------------------------------------------------
IInv == TypeOK /\ StagedIsSupplied /\ PossessionProven /\ AddressesHold

LEMMA InitHolds == Init => IInv
<1> SUFFICES ASSUME Init PROVE IInv OBVIOUS
<1>1. TypeOK
    BY InitTypes
<1>2. StagedIsSupplied
    BY DEF Init, StagedIsSupplied
<1>3. PossessionProven /\ AddressesHold
    BY DEF Init, PossessionProven, AddressesHold
<1> QED BY <1>1, <1>2, <1>3 DEF IInv

LEMMA StepHolds == IInv /\ [Next]_vars => IInv'
<1> SUFFICES ASSUME IInv, [Next]_vars PROVE IInv' OBVIOUS
<1>1. TypeOK' /\ StagedIsSupplied'
    BY TypesKept, StagedKept DEF IInv
<1>2. RowsFrom /\ BytesFrom
    BY StoreStep DEF IInv
<1>3. PossessionProven'
    BY <1>2 DEF IInv, PossessionProven, RowsFrom
<1>4. AddressesHold'
    BY <1>2 DEF IInv, AddressesHold, BytesFrom
<1> QED BY <1>1, <1>3, <1>4 DEF IInv

THEOREM Invariance == Spec => []IInv
BY InitHolds, StepHolds, PTL DEF Spec

\* The media keep their types.
THEOREM TypeCorrect == Spec => []TypeOK
BY Invariance, PTL DEF IInv

\* An account has a row of a hash only if it sent all of the content itself.
THEOREM PossessionProvenHolds == Spec => []PossessionProven
BY Invariance, PTL DEF IInv

\* What is stored under an address is the content that the address names.
THEOREM AddressesHoldHolds == Spec => []AddressesHold
BY Invariance, PTL DEF IInv

\* Under the default policy (retain) a row never loses its bytes.
THEOREM RowsHaveBytesHolds ==
    ASSUME ~ReclaimOn
    PROVE  Spec => []RowsHaveBytes
<1>1. Init => RowsHaveBytes
    BY DEF Init, RowsHaveBytes
<1>2. ASSUME IInv, RowsHaveBytes, [Next]_vars
      PROVE  RowsHaveBytes'
    <2>1. RowsFrom /\ BytesGone
        BY <1>2, StoreStep DEF IInv
    <2>2. ASSUME NEW a \in Accounts, NEW h \in Hashes, blobs'[a][h] # NoRow
          PROVE  bytes'[h] # NoBytes
        <3>1. CASE bytes[h] = NoBytes
            BY <1>2, <2>1, <2>2, <3>1 DEF RowsFrom, RowsHaveBytes
        <3>2. CASE bytes[h] # NoBytes
            BY <1>2, <2>1, <2>2, <3>2, GoneIsUnheld DEF IInv
        <3> QED BY <3>1, <3>2
    <2> QED BY <2>2 DEF RowsHaveBytes
<1> QED BY <1>1, <1>2, Invariance, PTL DEF Spec

-----------------------------------------------------------------------------
(* What an account stores *)

Stored(a) == {h \in Hashes : blobs[a][h] # NoRow}

LEMMA SizesAreNumbers ==
    \A h \in Hashes : SizeOf(Whole[h]) \in Nat
<1> SUFFICES ASSUME NEW h \in Hashes PROVE SizeOf(Whole[h]) \in Nat
    OBVIOUS
<1> DEFINE content == Whole[h]
           w == [i \in DOMAIN content |-> ChunkSize[content[i]]]
<1>1. content \in Seq(Chunks)
    BY Addresses
<1>2. DOMAIN content = 1..Len(content) /\ Len(content) \in Nat
      /\ \A i \in DOMAIN content : content[i] \in Chunks
    BY <1>1
<1>3. IsFiniteSet(DOMAIN content)
    BY <1>2, FS_Interval
<1> HIDE DEF content
<1>4. \A i \in DOMAIN content : w[i] \in Nat
    BY <1>2, ChunkSizes
<1>5. SizeOf(content) = SumFunctionOnSet(w, DOMAIN content)
    BY DEF SizeOf, SumFunction
<1> HIDE DEF w
<1>6. SizeOf(content) \in Nat
    BY <1>3, <1>4, <1>5, SumType
<1> QED BY <1>6 DEF content

\* One more blob takes its size, and fewer blobs take no more.
LEMMA TotalChanges ==
    ASSUME NEW H \in SUBSET Hashes
    PROVE  /\ Total(H) \in Nat
           /\ \A G \in SUBSET H : Total(G) <= Total(H)
           /\ \A g \in Hashes \ H : Total(H \cup {g}) = Total(H) + SizeOf(Whole[g])
<1> DEFINE w == [h \in Hashes |-> SizeOf(Whole[h])]
<1>1. \A G : Total(G) = SumFunctionOnSet(w, G)
    BY DEF Total
<1>2. \A h \in Hashes : w[h] \in Nat /\ w[h] = SizeOf(Whole[h])
    BY SizesAreNumbers
<1> HIDE DEF w
<1>3. Total(H) \in Nat /\ \A G \in SUBSET H : Total(G) <= Total(H)
    <2>1. IsFiniteSet(H)
        BY Finite, FS_Subset
    <2> QED BY <1>1, <1>2, <2>1, SumType, SumOfFewer
<1>4. ASSUME NEW g \in Hashes \ H
      PROVE  Total(H \cup {g}) = Total(H) + SizeOf(Whole[g])
    <2>1. IsFiniteSet(H \cup {g}) /\ (H \cup {g}) \ {g} = H
        BY Finite, FS_Subset
    <2>2. Total(H \cup {g}) = w[g] + Total(H)
        BY <1>1, <1>2, <2>1, SumTakesOff
    <2>3. w[g] = SizeOf(Whole[g]) /\ w[g] \in Nat
        BY <1>2
    <2> QED BY <1>3, <2>2, <2>3
<1> QED BY <1>3, <1>4

\* A finalize adds one row at most, of a blob that fits the quota of its account
\* and that the account has sent.
LEMMA FinalizeAdds ==
    ASSUME TypeOK, StagedIsSupplied, NEW u \in Uploads, NEW writes, FinalizeStored(u, writes)
    PROVE  LET a == sessions[u].account  h == sessions[u].hash
           IN /\ a \in Accounts /\ h \in Hashes /\ blobs[a][h] = NoRow
              /\ \A o \in Accounts, g \in Hashes :
                     (o # a \/ g # h) => blobs'[o][g] = blobs[o][g]
              /\ Total(Stored(a)) + SizeOf(Whole[h]) <= StorageQuota
              /\ \A i \in DOMAIN Whole[h] : Whole[h][i] \in supplied[a]
              /\ UNCHANGED supplied
<1> DEFINE a == sessions[u].account  h == sessions[u].hash
           row == [ref |-> 0, zero |-> ZeroPoint(a), active |-> clock]
<1>1. a \in Accounts /\ h \in Hashes /\ blobs[a][h] = NoRow /\ UNCHANGED supplied
    BY DEF FinalizeStored, TypeOK, Session
<1>2. UNCHANGED blobs \/ blobs' = [blobs EXCEPT ![a][h] = row]
    BY DEF FinalizeStored
<1>3. Total(Stored(a)) + SizeOf(Whole[h]) <= StorageQuota
    <2>1. CanStore(u) /\ Assembled(u) = Whole[h]
        BY DEF FinalizeStored, CanStore, Verified
    <2> QED BY <2>1 DEF CanStore, AdmitFinalize, BlobBytes, Stored
<1>4. \A i \in DOMAIN Whole[h] : Whole[h][i] \in supplied[a]
    BY VerifiedIsSupplied DEF FinalizeStored
<1> HIDE DEF a, h, row
<1>5. \A o \in Accounts, g \in Hashes :
          (o # a \/ g # h) => blobs'[o][g] = blobs[o][g]
    BY <1>1, <1>2 DEF TypeOK
<1> QED BY <1>1, <1>3, <1>4, <1>5 DEF a, h

\* Nothing but a finalize adds to what an account stores.
LEMMA StoredKept ==
    ASSUME TypeOK, [Next]_vars, \A u \in Uploads, writes \in Writes(4) : ~FinalizeStored(u, writes),
           NEW a \in Accounts
    PROVE  Stored(a)' \subseteq Stored(a)
<1> USE DEF Stored
<1>1. ASSUME NEW b \in Accounts, DeleteAccount(b)
      PROVE  Stored(a)' \subseteq Stored(a)
    BY <1>1 DEF DeleteAccount, TypeOK
<1>2. CASE ReclaimSweep
    BY <1>2 DEF ReclaimSweep
<1>3. CASE UNCHANGED blobs
    BY <1>3
<1>4. ASSUME NEW b \in Accounts, NEW h \in Hashes,
             AddBlobReference(b, h) \/ ReleaseBlobReference(b, h)
      PROVE  Stored(a)' \subseteq Stored(a)
    <2>1. blobs[b][h] # NoRow
        BY <1>4 DEF AddBlobReference, ReleaseBlobReference
    <2>2. \A o \in Accounts, g \in Hashes :
              (o # b \/ g # h) => blobs'[o][g] = blobs[o][g]
        <3> HIDE DEF Stored
        <3>1. \E row : blobs' = [blobs EXCEPT ![b][h] = row]
            BY <1>4 DEF AddBlobReference, ReleaseBlobReference
        <3> QED BY <3>1 DEF TypeOK
    <2> QED BY <2>1, <2>2
<1>5. ASSUME NEW u \in Uploads, Upload(u)
      PROVE  UNCHANGED blobs
    BY <1>5 DEF Upload, Initiate, SendPart, FinalizeOwned, FinalizeRejected, CancelUpload,
                ReapUploadSession
<1>6. CASE Tick \/ UNCHANGED vars
    BY <1>3, <1>6 DEF Tick, vars
<1>7. CASE Reference
    BY <1>3, <1>4, <1>7 DEF Reference, DeviceReports
<1> HIDE DEF Stored
<1> QED BY <1>1, <1>2, <1>3, <1>5, <1>6, <1>7 DEF Next

\* Only a finalize adds a blob to what an account stores, one, which fits.
LEMMA StoredStep ==
    ASSUME TypeOK, StagedIsSupplied, [Next]_vars, NEW a \in Accounts
    PROVE  \/ Stored(a)' \subseteq Stored(a)
           \/ \E g \in Hashes \ Stored(a) :
                 /\ Stored(a)' = Stored(a) \cup {g}
                 /\ Total(Stored(a)) + SizeOf(Whole[g]) <= StorageQuota
<1>1. ASSUME NEW u \in Uploads, NEW writes, FinalizeStored(u, writes)
      PROVE  \/ Stored(a)' \subseteq Stored(a)
             \/ \E g \in Hashes \ Stored(a) :
                   /\ Stored(a)' = Stored(a) \cup {g}
                   /\ Total(Stored(a)) + SizeOf(Whole[g]) <= StorageQuota
    <2>1. PICK b \in Accounts, g \in Hashes :
              /\ blobs[b][g] = NoRow
              /\ \A o \in Accounts, h \in Hashes :
                     (o # b \/ h # g) => blobs'[o][h] = blobs[o][h]
              /\ Total(Stored(b)) + SizeOf(Whole[g]) <= StorageQuota
        BY <1>1, FinalizeAdds
    <2>2. a # b \/ blobs'[a][g] = NoRow => Stored(a)' \subseteq Stored(a)
        BY <2>1 DEF Stored
    <2>3. a = b /\ blobs'[a][g] # NoRow => Stored(a)' = Stored(a) \cup {g}
        BY <2>1 DEF Stored
    <2>4. a = b => g \in Hashes \ Stored(a)
        BY <2>1 DEF Stored
    <2> QED BY <2>1, <2>2, <2>3, <2>4
<1>2. CASE \A u \in Uploads, writes \in Writes(4) : ~FinalizeStored(u, writes)
    BY <1>2, StoredKept
<1> QED BY <1>1, <1>2

\* The blobs of an account never exceed its quota, whatever sizes uploads
\* declare and wherever the process dies.
THEOREM StoredWithinQuotaHolds == Spec => []StoredWithinQuota
<1>1. ASSUME Init PROVE StoredWithinQuota
    <2>1. ASSUME NEW a \in Accounts
          PROVE  {h \in Hashes : blobs[a][h] # NoRow} = {}
        BY <1>1 DEF Init
    <2>2. Total({}) <= StorageQuota
        <3>1. Total({}) = 0
            BY FS_EmptySet, SumUnfolds DEF Total
        <3> QED BY <3>1, Bounds
    <2> QED BY <2>1, <2>2 DEF StoredWithinQuota
<1>2. ASSUME IInv, StoredWithinQuota, [Next]_vars
      PROVE  StoredWithinQuota'
    <2>1. ASSUME NEW a \in Accounts
          PROVE  Total(Stored(a)') <= StorageQuota
        <3>1. CASE Stored(a)' \subseteq Stored(a)
            <4>1. Stored(a) \in SUBSET Hashes
                BY DEF Stored
            <4>2. Total(Stored(a)) <= StorageQuota
                BY <1>2 DEF StoredWithinQuota, Stored
            <4>3. /\ Total(Stored(a)) \in Nat /\ Total(Stored(a)') \in Nat
                  /\ Total(Stored(a)') <= Total(Stored(a))
                <5>1. Stored(a)' \in SUBSET Hashes
                    BY <3>1, <4>1
                <5> QED BY <3>1, <4>1, <5>1, TotalChanges
            <4> QED BY <4>2, <4>3, Bounds
        <3>2. CASE \E g \in Hashes \ Stored(a) :
                      /\ Stored(a)' = Stored(a) \cup {g}
                      /\ Total(Stored(a)) + SizeOf(Whole[g]) <= StorageQuota
            <4>1. Stored(a) \in SUBSET Hashes
                BY DEF Stored
            <4> QED BY <3>2, <4>1, TotalChanges
        <3> QED BY <1>2, <3>1, <3>2, StoredStep DEF IInv
    <2>2. \A a \in Accounts : Stored(a)' = {h \in Hashes : blobs'[a][h] # NoRow}
        BY DEF Stored
    <2> QED BY <2>1, <2>2 DEF StoredWithinQuota
<1> QED BY <1>1, <1>2, Invariance, PTL DEF Spec

-----------------------------------------------------------------------------
(* What an account has reserved.  As long as no handler is cut short, the  *)
(* parts recorded of a session are the ones staged for it, and they fit    *)
(* what it declared.                                                       *)

PartsTrue ==
    \A u \in Uploads, p \in Parts : partRows[u][p] # 0 =>
        staged[u][p] # NoChunk /\ partRows[u][p] = ChunkSize[staged[u][p]]

PartsFit ==
    \A u \in Uploads :
        IF sessions[u] = NoSession THEN partRows[u] = NoParts
        ELSE SumFunctionOnSet(partRows[u], Parts) <= sessions[u].declared

(* "admission math otherwise guarantees stored + reserved never exceeds    *)
(* the limit"                                                              *)
ReservedWithinQuota ==
    \A a \in Accounts : BlobBytes(a) + DeclaredBytes(a) <= StorageQuota

(* "and actual <= declared"                                                *)
ActualWithinDeclared ==
    \A u \in Uploads : sessions[u] # NoSession =>
        Assembles(u) /\ SizeOf(Assembled(u)) <= sessions[u].declared

\* An assembly is no longer than the recorded parts together.
LEMMA AssemblyFits ==
    ASSUME TypeOK, PartsTrue, NEW u \in Uploads
    PROVE  /\ Assembles(u)
           /\ SizeOf(Assembled(u)) \in Nat
           /\ SizeOf(Assembled(u)) <= SumFunctionOnSet(partRows[u], Parts)
<1> DEFINE R == Recorded(u)
           n == Cardinality(R)
           order == Increasing(R)
           v == [i \in DOMAIN Assembled(u) |-> ChunkSize[Assembled(u)[i]]]
<1>1. R \in SUBSET Parts /\ R \subseteq Nat /\ IsFiniteSet(R) /\ n \in Nat
    <2>1. R \in SUBSET Parts
        BY DEF Recorded
    <2> QED BY <2>1, PartsNat, FS_Subset, FS_CardinalityType
<1>2. Assembles(u)
    BY DEF Assembles, PartsTrue, Recorded
<1>3. order \in [1..n -> R] /\ \A i, j \in 1..n : i < j => order[i] < order[j]
    BY <1>1, IncreasingIsListing
<1>4. \A i, j \in 1..n : order[i] = order[j] => i = j
    <2> HIDE DEF order, n
    <2>1. \A i \in 1..n : order[i] \in Nat
        BY <1>1, <1>3
    <2> SUFFICES ASSUME NEW i \in 1..n, NEW j \in 1..n, order[i] = order[j], i # j
                 PROVE  FALSE
        OBVIOUS
    <2>2. i < j \/ j < i
        BY <1>1
    <2>3. order[i] < order[j] \/ order[j] < order[i]
        BY <1>3, <2>2
    <2> QED BY <2>1, <2>3
<1>5. \A p \in Parts : partRows[u][p] \in Nat
    BY DEF TypeOK
<1>6. DOMAIN Assembled(u) = 1..n /\ IsFiniteSet(1..n)
    BY <1>1, FS_Interval DEF Assembled
<1>7. \A i \in 1..n : v[i] = partRows[u][order[i]]
    <2> SUFFICES ASSUME NEW i \in 1..n PROVE v[i] = partRows[u][order[i]]
        OBVIOUS
    <2>1. Assembled(u)[i] = staged[u][order[i]]
        BY DEF Assembled
    <2>2. order[i] \in Parts /\ partRows[u][order[i]] # 0
        <3>1. order[i] \in R
            <4> HIDE DEF order, n, R
            <4> QED BY <1>3
        <3> HIDE DEF order
        <3> QED BY <3>1 DEF Recorded
    <2> HIDE DEF order, n
    <2> QED BY <1>6, <2>1, <2>2 DEF PartsTrue
<1>8. SumFunctionOnSet(v, 1..n) <= SumFunctionOnSet(partRows[u], Parts)
    <2>1. order \in [1..n -> Parts]
        <3> HIDE DEF order, n, R
        <3> QED BY <1>1, <1>3
    <2>2. IsFiniteSet(Parts)
        BY PartsNat
    <2> HIDE DEF order, n, R, v
    <2> QED BY <1>4, <1>5, <1>6, <1>7, <2>1, <2>2, SumOfPicked
<1>9. SumFunctionOnSet(v, 1..n) \in Nat
    <2>1. \A i \in 1..n : v[i] \in Nat
        <3>1. \A i \in 1..n : order[i] \in Parts
            <4> HIDE DEF order, n, R
            <4> QED BY <1>1, <1>3
        <3> HIDE DEF order, n, v
        <3> QED BY <1>5, <1>7, <3>1
    <2> HIDE DEF n, v
    <2> QED BY <1>6, <2>1, SumType
<1>10. SizeOf(Assembled(u)) = SumFunctionOnSet(v, 1..n)
    <2>1. SizeOf(Assembled(u)) = SumFunctionOnSet(v, DOMAIN v)
        BY DEF SizeOf, SumFunction
    <2>2. DOMAIN v = 1..n
        BY <1>6
    <2> HIDE DEF v, n
    <2> QED BY <2>1, <2>2
<1> QED BY <1>2, <1>8, <1>9, <1>10

(* The sessions of an account, and what they declare, in a table of them.  *)
HeldIn(table, a) == {u \in Uploads : table[u] # NoSession /\ table[u].account = a}
DeclaredIn(table, a) == SumFunction([u \in HeldIn(table, a) |-> table[u].declared])

Tables == [Uploads -> Session \cup {NoSession}]

LEMMA DeclaredIsSum ==
    ASSUME NEW table \in Tables, NEW a
    PROVE  /\ IsFiniteSet(HeldIn(table, a))
           /\ \A u \in HeldIn(table, a) : table[u].declared \in Nat
           /\ DeclaredIn(table, a) \in Nat
           /\ \A w : (\A u \in HeldIn(table, a) : w[u] = table[u].declared)
                  => DeclaredIn(table, a) = SumFunctionOnSet(w, HeldIn(table, a))
<1> DEFINE H == HeldIn(table, a)
           d == [u \in H |-> table[u].declared]
<1>1. IsFiniteSet(H)
    <2>1. H \subseteq Uploads
        BY DEF HeldIn
    <2> QED BY <2>1, Finite, FS_Subset
<1>2. \A u \in H : table[u].declared \in Nat
    BY Bounds DEF HeldIn, Tables, Session
<1>3. DeclaredIn(table, a) = SumFunctionOnSet(d, H)
    BY DEF DeclaredIn, SumFunction
<1>4. \A u \in H : d[u] = table[u].declared
    OBVIOUS
<1> HIDE DEF d
<1>5. SumFunctionOnSet(d, H) \in Nat
    <2> HIDE DEF H
    <2> QED BY <1>1, <1>2, <1>4, SumType
<1>6. ASSUME NEW w, \A u \in H : w[u] = table[u].declared
      PROVE  SumFunctionOnSet(d, H) = SumFunctionOnSet(w, H)
    <2> HIDE DEF H
    <2> QED BY <1>1, <1>4, <1>6, SumOfSame
<1> QED BY <1>1, <1>2, <1>3, <1>5, <1>6

\* Sessions that end give back what they declared.
LEMMA DeclaredShrinks ==
    ASSUME NEW before \in Tables, NEW after \in Tables, NEW a,
           \A u \in HeldIn(after, a) : after[u] = before[u]
    PROVE  /\ DeclaredIn(after, a) <= DeclaredIn(before, a)
           /\ \A u \in HeldIn(before, a) \ HeldIn(after, a) :
                  DeclaredIn(after, a) + before[u].declared <= DeclaredIn(before, a)
<1> DEFINE H == HeldIn(before, a)  K == HeldIn(after, a)
           w == [u \in Uploads |-> before[u].declared]
<1>1. K \subseteq H /\ H \subseteq Uploads
    BY DEF HeldIn
<1>2. /\ \A u \in H : w[u] = before[u].declared
      /\ \A u \in K : w[u] = after[u].declared
    BY <1>1
<1> HIDE DEF w
<1>3. DeclaredIn(before, a) = SumFunctionOnSet(w, H) /\ DeclaredIn(after, a) = SumFunctionOnSet(w, K)
    BY <1>2, DeclaredIsSum
<1>4. IsFiniteSet(H) /\ \A u \in H : w[u] \in Nat
    BY <1>2, DeclaredIsSum
<1>5. SumFunctionOnSet(w, K) <= SumFunctionOnSet(w, H)
    <2> HIDE DEF H, K
    <2> QED BY <1>1, <1>4, SumOfFewer
<1>6. ASSUME NEW u \in H \ K
      PROVE  SumFunctionOnSet(w, K) + w[u] <= SumFunctionOnSet(w, H)
    <2>1. K \in SUBSET (H \ {u}) /\ IsFiniteSet(H \ {u}) /\ IsFiniteSet(K)
        BY <1>1, <1>4, FS_Subset
    <2> HIDE DEF H, K
    <2>2. SumFunctionOnSet(w, H) = w[u] + SumFunctionOnSet(w, H \ {u})
        BY <1>4, SumTakesOff
    <2>3. SumFunctionOnSet(w, K) <= SumFunctionOnSet(w, H \ {u})
        BY <1>4, <2>1, SumOfFewer
    <2>4. SumFunctionOnSet(w, K) \in Nat /\ SumFunctionOnSet(w, H \ {u}) \in Nat /\ w[u] \in Nat
        <3>1. \A x \in K : w[x] \in Nat
            BY <1>1, <1>4
        <3> QED BY <1>4, <2>1, <3>1, SumType
    <2> QED BY <2>2, <2>3, <2>4
<1> QED BY <1>2, <1>3, <1>5, <1>6

\* A session that opens takes what it declares.
LEMMA DeclaredGrows ==
    ASSUME NEW before \in Tables, NEW u \in Uploads, before[u] = NoSession,
           NEW s \in Session, NEW a
    PROVE  LET after == [before EXCEPT ![u] = s]
           IN DeclaredIn(after, a)
                  <= DeclaredIn(before, a) + (IF s.account = a THEN s.declared ELSE 0)
<1> DEFINE after == [before EXCEPT ![u] = s]
           H == HeldIn(before, a)  K == HeldIn(after, a)
           w == [v \in Uploads |-> after[v].declared]
<1>1. after \in Tables /\ after[u] = s /\ \A v \in Uploads \ {u} : after[v] = before[v]
    BY DEF Tables
<1> HIDE DEF after
<1>2. u \notin H /\ H \subseteq Uploads /\ K \subseteq Uploads /\ K \subseteq H \cup {u}
    BY <1>1 DEF HeldIn
<1>3. /\ \A v \in H : w[v] = before[v].declared
      /\ \A v \in K : w[v] = after[v].declared
    BY <1>1, <1>2
<1>4. w[u] = s.declared
    BY <1>1
<1> HIDE DEF w
<1>5. /\ DeclaredIn(before, a) = SumFunctionOnSet(w, H) /\ DeclaredIn(before, a) \in Nat
      /\ DeclaredIn(after, a) = SumFunctionOnSet(w, K)
    BY <1>1, <1>3, DeclaredIsSum
<1>6. s.declared \in Nat
    BY Bounds DEF Session
<1>7. IsFiniteSet(H) /\ IsFiniteSet(K) /\ (\A v \in H : w[v] \in Nat) /\ \A v \in K : w[v] \in Nat
    BY <1>1, <1>3, DeclaredIsSum
<1>8. CASE u \in K
    <2>1. s.account = a
        BY <1>1, <1>8 DEF HeldIn
    <2>2. SumFunctionOnSet(w, K) = w[u] + SumFunctionOnSet(w, K \ {u})
        <3> HIDE DEF K
        <3> QED BY <1>7, <1>8, SumTakesOff
    <2>3. SumFunctionOnSet(w, K \ {u}) <= SumFunctionOnSet(w, H)
        <3>1. K \ {u} \in SUBSET H
            BY <1>2
        <3> HIDE DEF H, K
        <3> QED BY <1>7, <3>1, SumOfFewer
    <2>4. SumFunctionOnSet(w, K \ {u}) \in Nat
        <3>1. IsFiniteSet(K \ {u})
            BY <1>7, FS_Subset
        <3> HIDE DEF K
        <3> QED BY <1>7, <3>1, SumType
    <2> QED BY <1>4, <1>5, <1>6, <2>1, <2>2, <2>3, <2>4 DEF after
<1>9. CASE u \notin K
    <2>1. K \in SUBSET H
        BY <1>2, <1>9
    <2>2. SumFunctionOnSet(w, K) <= SumFunctionOnSet(w, H)
        <3> HIDE DEF H, K
        <3> QED BY <1>7, <2>1, SumOfFewer
    <2>3. SumFunctionOnSet(w, K) \in Nat
        <3> HIDE DEF K
        <3> QED BY <1>7, SumType
    <2> QED BY <1>5, <1>6, <2>2, <2>3 DEF after
<1> QED BY <1>8, <1>9

\* Without crashes a handler does all of its writes.
LEMMA WholeDiscard ==
    ASSUME ~Crashes, NEW u \in Uploads
    PROVE  /\ \A writes \in Writes(2) : writes = 2
           /\ \A writes \in Writes(4) : writes - 2 = 2 /\ writes >= 2
BY DEF Writes

\* A discarded upload leaves neither parts nor a reservation.
LEMMA DiscardParts ==
    ASSUME TypeOK, PartsTrue, PartsFit, NEW u \in Uploads, Discard(u, 2)
    PROVE  PartsTrue' /\ PartsFit'
<1>1. /\ sessions' = [sessions EXCEPT ![u] = NoSession]
      /\ partRows' = [partRows EXCEPT ![u] = NoParts]
      /\ staged' = [staged EXCEPT ![u] = NoStaging]
    BY DEF Discard
<1>2. /\ sessions'[u] = NoSession /\ partRows'[u] = NoParts
      /\ \A v \in Uploads \ {u} : /\ sessions'[v] = sessions[v] /\ partRows'[v] = partRows[v]
                                  /\ staged'[v] = staged[v]
    BY <1>1 DEF TypeOK
<1>3. PartsTrue'
    BY <1>2 DEF PartsTrue, NoParts
<1>4. PartsFit'
    BY <1>2 DEF PartsFit
<1> QED BY <1>3, <1>4

\* A part that is sent replaces what was recorded of it, and only if all parts
\* still fit.
LEMMA SendParts ==
    ASSUME TypeOK, PartsTrue, PartsFit, NEW u \in Uploads, NEW p \in Parts, NEW c \in Chunks,
           SendPart(u, p, c, 2)
    PROVE  PartsTrue' /\ PartsFit'
<1>1. /\ sessions[u] # NoSession /\ sessions' = sessions
      /\ partRows' = [partRows EXCEPT ![u][p] = ChunkSize[c]]
      /\ staged' = [staged EXCEPT ![u][p] = c]
      /\ SumFunctionOnSet(partRows[u], Parts \ {p}) + ChunkSize[c] <= sessions[u].declared
    BY DEF SendPart
<1>2. /\ partRows'[u][p] = ChunkSize[c] /\ staged'[u][p] = c
      /\ \A q \in Parts \ {p} : partRows'[u][q] = partRows[u][q] /\ staged'[u][q] = staged[u][q]
      /\ \A v \in Uploads \ {u} : partRows'[v] = partRows[v] /\ staged'[v] = staged[v]
    BY <1>1 DEF TypeOK
<1>3. ChunkSize[c] \in Nat /\ \A q \in Parts : partRows[u][q] \in Nat
    BY ChunkSizes DEF TypeOK
<1>4. PartsTrue'
    BY <1>2, Absent DEF PartsTrue
<1>5. SumFunctionOnSet(partRows'[u], Parts) <= sessions[u].declared
    <2> DEFINE w == partRows'[u]  v == partRows[u]
    <2>1. \A q \in Parts : w[q] \in Nat
        BY <1>2, <1>3
    <2>2. \A q \in Parts \ {p} : w[q] = v[q]
        BY <1>2
    <2>3. w[p] = ChunkSize[c]
        BY <1>2
    <2>4. IsFiniteSet(Parts) /\ IsFiniteSet(Parts \ {p})
        BY PartsNat, FS_Subset
    <2>5. \A q \in Parts \ {p} : v[q] \in Nat
        BY <1>3
    <2> HIDE DEF w, v
    <2>6. SumFunctionOnSet(w, Parts) = w[p] + SumFunctionOnSet(w, Parts \ {p})
        BY <2>1, <2>4, SumTakesOff
    <2>7. SumFunctionOnSet(w, Parts \ {p}) = SumFunctionOnSet(v, Parts \ {p})
        BY <2>2, <2>4, SumOfSame
    <2>8. SumFunctionOnSet(v, Parts \ {p}) \in Nat
        BY <2>4, <2>5, SumType
    <2>9. SumFunctionOnSet(v, Parts \ {p}) + ChunkSize[c] <= sessions[u].declared
        BY <1>1 DEF v
    <2>10. SumFunctionOnSet(w, Parts) = SumFunctionOnSet(v, Parts \ {p}) + ChunkSize[c]
        BY <1>3, <2>3, <2>6, <2>7, <2>8
    <2> QED BY <2>9, <2>10 DEF w
<1>6. PartsFit'
    BY <1>1, <1>2, <1>5 DEF PartsFit
<1> QED BY <1>4, <1>6

LEMMA PartsKept ==
    ASSUME ~Crashes, TypeOK, PartsTrue, PartsFit, [Next]_vars
    PROVE  PartsTrue' /\ PartsFit'
<1>1. CASE UNCHANGED uploadVars
    BY <1>1 DEF uploadVars, PartsTrue, PartsFit
<1>2. ASSUME NEW u \in Uploads, NEW a \in Accounts, NEW h \in Hashes,
             NEW size \in 1..MaxBlobSize, Initiate(a, h, size, u)
      PROVE  PartsTrue' /\ PartsFit'
    <2>1. /\ sessions[u] = NoSession /\ UNCHANGED <<partRows, staged>>
          /\ sessions' = [sessions EXCEPT ![u] =
                 [account |-> a, hash |-> h, declared |-> size, at |-> clock]]
        BY <1>2 DEF Initiate
    <2>2. /\ sessions'[u].declared = size /\ size \in Nat
          /\ \A v \in Uploads \ {u} : sessions'[v] = sessions[v]
        BY <2>1, Bounds DEF TypeOK
    <2>3. partRows[u] = NoParts
        BY <2>1 DEF PartsFit
    <2>4. SumFunctionOnSet(partRows[u], Parts) = 0
        <3>1. \A p \in Parts : NoParts[p] = 0
            BY DEF NoParts
        <3> QED BY <2>3, <3>1, PartsNat, SumOfZeros
    <2>5. PartsTrue'
        BY <2>1 DEF PartsTrue
    <2>6. PartsFit'
        BY <2>1, <2>2, <2>3, <2>4 DEF PartsFit
    <2> QED BY <2>5, <2>6
<1>3. ASSUME NEW u \in Uploads, Upload(u)
      PROVE  PartsTrue' /\ PartsFit'
    <2>1. ASSUME NEW p \in Parts, NEW c \in Chunks, NEW writes \in Writes(2),
                 SendPart(u, p, c, writes)
          PROVE  PartsTrue' /\ PartsFit'
        BY <2>1, WholeDiscard, SendParts
    <2>2. ASSUME NEW writes \in Writes(2), Discard(u, writes)
          PROVE  PartsTrue' /\ PartsFit'
        BY <2>2, WholeDiscard, DiscardParts
    <2>3. ASSUME NEW writes \in Writes(4), FinalizeStored(u, writes)
          PROVE  PartsTrue' /\ PartsFit'
        BY <2>3, WholeDiscard, DiscardParts DEF FinalizeStored
    <2> QED BY <1>2, <1>3, <2>1, <2>2, <2>3
            DEF Upload, FinalizeOwned, FinalizeRejected, CancelUpload, ReapUploadSession
<1>4. ASSUME NEW a \in Accounts, DeleteAccount(a)
      PROVE  PartsTrue' /\ PartsFit'
    <2>1. /\ sessions' = [u \in Uploads |->
                 IF u \in SessionsOf(a) THEN NoSession ELSE sessions[u]]
          /\ partRows' = [u \in Uploads |->
                 IF u \in SessionsOf(a) THEN NoParts ELSE partRows[u]]
          /\ staged' = [u \in Uploads |->
                 IF u \in SessionsOf(a) THEN NoStaging ELSE staged[u]]
        BY <1>4 DEF DeleteAccount
    <2>2. \A u \in Uploads :
              IF u \in SessionsOf(a) THEN sessions'[u] = NoSession /\ partRows'[u] = NoParts
              ELSE /\ sessions'[u] = sessions[u] /\ partRows'[u] = partRows[u]
                   /\ staged'[u] = staged[u]
        BY <2>1
    <2>3. PartsTrue'
        BY <2>2 DEF PartsTrue, NoParts
    <2>4. PartsFit'
        BY <2>2 DEF PartsFit
    <2> QED BY <2>3, <2>4
<1>5. CASE Reference \/ ReclaimSweep \/ Tick \/ UNCHANGED vars
    BY <1>1, <1>5 DEF Reference, AddBlobReference, ReleaseBlobReference, DeviceReports,
                      ReclaimSweep, Tick, vars, uploadVars
<1> QED BY <1>3, <1>4, <1>5 DEF Next

\* A session opens if what it declares fits beside all that is stored and
\* reserved.
LEMMA InitiateFits ==
    ASSUME TypeOK, ReservedWithinQuota,
           NEW u \in Uploads, NEW b \in Accounts, NEW h \in Hashes,
           NEW size \in 1..MaxBlobSize, Initiate(b, h, size, u)
    PROVE  ReservedWithinQuota'
<1> DEFINE s == [account |-> b, hash |-> h, declared |-> size, at |-> clock]
<1>1. sessions[u] = NoSession /\ sessions' = [sessions EXCEPT ![u] = s] /\ UNCHANGED blobs
    BY DEF Initiate
<1>2. s \in Session /\ size \in Nat /\ sessions \in Tables
    BY Bounds DEF TypeOK, Session, Tables
<1>3. BlobBytes(b) + DeclaredBytes(b) + size <= StorageQuota
    BY DEF Initiate, AdmitUpload
<1>4. ASSUME NEW a \in Accounts
      PROVE  (BlobBytes(a) + DeclaredBytes(a))' <= StorageQuota
    <2>1. DeclaredBytes(a) = DeclaredIn(sessions, a)
          /\ DeclaredBytes(a)' = DeclaredIn(sessions', a)
        BY DEF DeclaredBytes, DeclaredIn, SessionsOf, HeldIn
    <2>2. BlobBytes(a)' = BlobBytes(a) /\ BlobBytes(a) \in Nat
        <3>1. BlobBytes(a)' = BlobBytes(a)
            BY <1>1 DEF BlobBytes
        <3>2. {g \in Hashes : blobs[a][g] # NoRow} \in SUBSET Hashes
            OBVIOUS
        <3>3. BlobBytes(a) \in Nat
            BY <3>2, TotalChanges DEF BlobBytes
        <3> QED BY <3>1, <3>3
    <2>3. DeclaredIn(sessions', a)
              <= DeclaredIn(sessions, a) + (IF b = a THEN size ELSE 0)
        <3>1. s.account = b /\ s.declared = size
            OBVIOUS
        <3> HIDE DEF s
        <3> QED BY <1>1, <1>2, <3>1, DeclaredGrows
    <2>4. DeclaredIn(sessions, a) \in Nat /\ DeclaredIn(sessions', a) \in Nat
        <3>1. sessions' \in Tables
            <4> HIDE DEF s
            <4> QED BY <1>1, <1>2 DEF Tables
        <3> QED BY <1>2, <3>1, DeclaredIsSum
    <2>5. BlobBytes(a) + DeclaredBytes(a) <= StorageQuota
        BY DEF ReservedWithinQuota
    <2>6. a = b => BlobBytes(a) + DeclaredBytes(a) + size <= StorageQuota
        BY <1>3
    <2>7. (BlobBytes(a) + DeclaredBytes(a))' = BlobBytes(a)' + DeclaredBytes(a)'
        OBVIOUS
    <2> HIDE DEF s
    <2> QED BY <1>2, <2>1, <2>2, <2>3, <2>4, <2>5, <2>6, <2>7, Bounds
<1> QED BY <1>4 DEF ReservedWithinQuota

\* A finalize trades the reservation of its session for a blob of at most the
\* same size.
LEMMA FinalizeFits ==
    ASSUME ~Crashes, TypeOK, StagedIsSupplied, PartsTrue, PartsFit, ReservedWithinQuota,
           NEW u \in Uploads, NEW writes \in Writes(4), FinalizeStored(u, writes)
    PROVE  ReservedWithinQuota'
<1> DEFINE b == sessions[u].account  h == sessions[u].hash
<1>1. /\ b \in Accounts /\ h \in Hashes /\ blobs[b][h] = NoRow
      /\ \A o \in Accounts, g \in Hashes :
             (o # b \/ g # h) => blobs'[o][g] = blobs[o][g]
    BY FinalizeAdds
<1>2. SizeOf(Whole[h]) <= sessions[u].declared /\ sessions[u] # NoSession
    <2>1. Assembled(u) = Whole[h] /\ sessions[u] # NoSession
        BY DEF FinalizeStored, CanStore, Verified
    <2>2. SumFunctionOnSet(partRows[u], Parts) <= sessions[u].declared
        BY <2>1 DEF PartsFit
    <2>3. /\ SizeOf(Assembled(u)) <= SumFunctionOnSet(partRows[u], Parts)
          /\ SizeOf(Assembled(u)) \in Nat
        BY AssemblyFits
    <2>4. SumFunctionOnSet(partRows[u], Parts) \in Nat
        <3>1. \A p \in Parts : partRows[u][p] \in Nat
            BY DEF TypeOK
        <3> QED BY <3>1, PartsNat, SumType
    <2>5. sessions[u].declared \in Nat
        BY <2>1, Bounds DEF TypeOK, Session
    <2> HIDE DEF h
    <2> QED BY <2>1, <2>2, <2>3, <2>4, <2>5
<1>3. sessions' = [sessions EXCEPT ![u] = NoSession]
    BY WholeDiscard DEF FinalizeStored, Discard
<1>4. sessions \in Tables /\ sessions' \in Tables
    BY <1>3 DEF TypeOK, Tables
<1>5. ASSUME NEW a \in Accounts
      PROVE  (BlobBytes(a) + DeclaredBytes(a))' <= StorageQuota
    <2>1. DeclaredBytes(a) = DeclaredIn(sessions, a)
          /\ DeclaredBytes(a)' = DeclaredIn(sessions', a)
        BY DEF DeclaredBytes, DeclaredIn, SessionsOf, HeldIn
    <2>2. DeclaredIn(sessions, a) \in Nat /\ DeclaredIn(sessions', a) \in Nat
        BY <1>4, DeclaredIsSum
    <2>3. /\ DeclaredIn(sessions', a) <= DeclaredIn(sessions, a)
          /\ a = b => DeclaredIn(sessions', a) + sessions[u].declared
                          <= DeclaredIn(sessions, a)
        <3>1. \A v \in HeldIn(sessions', a) : sessions'[v] = sessions[v]
            BY <1>3, <1>4 DEF HeldIn, Tables
        <3>2. a = b => u \in HeldIn(sessions, a) \ HeldIn(sessions', a)
            BY <1>2, <1>3, <1>4 DEF HeldIn, Tables
        <3> HIDE DEF b
        <3> QED BY <1>4, <3>1, <3>2, DeclaredShrinks
    <2>4. /\ BlobBytes(a) = Total(Stored(a)) /\ BlobBytes(a)' = Total(Stored(a)')
          /\ Stored(a) \in SUBSET Hashes /\ Stored(a)' \in SUBSET Hashes
        BY DEF BlobBytes, Stored
    <2>5. Total(Stored(a)) \in Nat /\ Total(Stored(a)') \in Nat
        BY <2>4, TotalChanges
    <2>6. Total(Stored(a)') <= Total(Stored(a)) + (IF a = b THEN SizeOf(Whole[h]) ELSE 0)
        <3>1. CASE a # b \/ blobs'[a][h] = NoRow
            <4>1. Stored(a)' \subseteq Stored(a)
                BY <1>1, <3>1 DEF Stored
            <4>2. Total(Stored(a)') <= Total(Stored(a))
                BY <2>4, <4>1, TotalChanges
            <4>3. SizeOf(Whole[h]) \in Nat
                BY <1>1, SizesAreNumbers
            <4> HIDE DEF b, h
            <4> QED BY <2>5, <4>2, <4>3
        <3>2. CASE a = b /\ blobs'[a][h] # NoRow
            <4>1. Stored(a)' = Stored(a) \cup {h} /\ h \in Hashes \ Stored(a)
                BY <1>1, <3>2 DEF Stored
            <4>2. Total(Stored(a)') = Total(Stored(a)) + SizeOf(Whole[h])
                <5> HIDE DEF h
                <5> QED BY <2>4, <4>1, TotalChanges
            <4>3. SizeOf(Whole[h]) \in Nat
                BY <1>1, SizesAreNumbers
            <4> HIDE DEF b, h
            <4> QED BY <2>5, <3>2, <4>2, <4>3
        <3> QED BY <3>1, <3>2
    <2>7. BlobBytes(a) + DeclaredBytes(a) <= StorageQuota
        BY DEF ReservedWithinQuota
    <2>8. SizeOf(Whole[h]) \in Nat /\ sessions[u].declared \in Nat
        <3>1. sessions[u].declared \in Nat
            BY <1>2, Bounds DEF TypeOK, Session
        <3> QED BY <1>1, <3>1, SizesAreNumbers
    <2>9. (BlobBytes(a) + DeclaredBytes(a))' = BlobBytes(a)' + DeclaredBytes(a)'
        OBVIOUS
    <2> HIDE DEF b, h
    <2> QED BY <1>2, <2>1, <2>2, <2>3, <2>4, <2>5, <2>6, <2>7, <2>8, <2>9, Bounds
<1> QED BY <1>5 DEF ReservedWithinQuota

\* Every other step stores no more and reserves no more.
LEMMA OtherFits ==
    ASSUME TypeOK, TypeOK', ReservedWithinQuota, [Next]_vars,
           \A u \in Uploads, b \in Accounts, h \in Hashes, size \in 1..MaxBlobSize :
               ~Initiate(b, h, size, u),
           \A u \in Uploads, writes \in Writes(4) : ~FinalizeStored(u, writes)
    PROVE  ReservedWithinQuota'
<1>1. \A u \in Uploads : sessions'[u] # NoSession => sessions'[u] = sessions[u]
    <2>1. ASSUME NEW u \in Uploads, NEW writes, Discard(u, writes)
          PROVE  \A v \in Uploads : sessions'[v] # NoSession => sessions'[v] = sessions[v]
        BY <2>1, DiscardKeeps
    <2>2. ASSUME NEW u \in Uploads, Upload(u)
          PROVE  \A v \in Uploads : sessions'[v] # NoSession => sessions'[v] = sessions[v]
        BY <2>1, <2>2 DEF Upload, SendPart, FinalizeOwned, FinalizeRejected, CancelUpload,
                          ReapUploadSession
    <2>3. ASSUME NEW a \in Accounts, DeleteAccount(a)
          PROVE  \A v \in Uploads : sessions'[v] # NoSession => sessions'[v] = sessions[v]
        BY <2>3 DEF DeleteAccount
    <2> QED BY <2>2, <2>3 DEF Next, Reference, AddBlobReference, ReleaseBlobReference,
                              DeviceReports, ReclaimSweep, Tick, vars
<1>2. sessions \in Tables /\ sessions' \in Tables
    BY DEF TypeOK, Tables
<1>3. ASSUME NEW a \in Accounts
      PROVE  (BlobBytes(a) + DeclaredBytes(a))' <= StorageQuota
    <2>1. DeclaredBytes(a) = DeclaredIn(sessions, a)
          /\ DeclaredBytes(a)' = DeclaredIn(sessions', a)
        BY DEF DeclaredBytes, DeclaredIn, SessionsOf, HeldIn
    <2>2. DeclaredIn(sessions, a) \in Nat /\ DeclaredIn(sessions', a) \in Nat
        BY <1>2, DeclaredIsSum
    <2>3. DeclaredIn(sessions', a) <= DeclaredIn(sessions, a)
        <3>1. \A v \in HeldIn(sessions', a) : sessions'[v] = sessions[v]
            BY <1>1 DEF HeldIn
        <3> QED BY <1>2, <3>1, DeclaredShrinks
    <2>4. /\ BlobBytes(a) = Total(Stored(a)) /\ BlobBytes(a)' = Total(Stored(a)')
          /\ Stored(a) \in SUBSET Hashes /\ Stored(a)' \in SUBSET Hashes
        BY DEF BlobBytes, Stored
    <2>5. Stored(a)' \subseteq Stored(a)
        BY StoredKept
    <2>6. /\ Total(Stored(a)) \in Nat /\ Total(Stored(a)') \in Nat
          /\ Total(Stored(a)') <= Total(Stored(a))
        BY <2>4, <2>5, TotalChanges
    <2>7. BlobBytes(a) + DeclaredBytes(a) <= StorageQuota
        BY DEF ReservedWithinQuota
    <2>8. (BlobBytes(a) + DeclaredBytes(a))' = BlobBytes(a)' + DeclaredBytes(a)'
        OBVIOUS
    <2> QED BY <2>1, <2>2, <2>3, <2>4, <2>6, <2>7, <2>8, Bounds
<1> QED BY <1>3 DEF ReservedWithinQuota

\* Before anything is uploaded nothing is stored, reserved or recorded.
LEMMA InitFits == Init => PartsTrue /\ PartsFit /\ ReservedWithinQuota
<1> SUFFICES ASSUME Init PROVE PartsTrue /\ PartsFit /\ ReservedWithinQuota
    OBVIOUS
<1>1. PartsTrue /\ PartsFit
    BY DEF Init, PartsTrue, PartsFit, NoParts
<1>2. ASSUME NEW a \in Accounts
      PROVE  BlobBytes(a) = 0 /\ DeclaredBytes(a) = 0
    <2>1. {h \in Hashes : blobs[a][h] # NoRow} = {} /\ SessionsOf(a) = {}
        BY DEF Init, SessionsOf
    <2>2. \A w : SumFunctionOnSet(w, {}) = 0
        BY FS_EmptySet, SumUnfolds
    <2>3. BlobBytes(a) = 0
        BY <2>1, <2>2 DEF BlobBytes, Total
    <2>4. DeclaredBytes(a) = 0
        <3> DEFINE d == [u \in SessionsOf(a) |-> sessions[u].declared]
        <3>1. DOMAIN d = {}
            BY <2>1
        <3> HIDE DEF d
        <3>2. SumFunction(d) = 0
            BY <2>2, <3>1 DEF SumFunction
        <3> QED BY <3>2 DEF d, DeclaredBytes
    <2> QED BY <2>3, <2>4
<1>3. ReservedWithinQuota
    BY <1>2, Bounds DEF ReservedWithinQuota
<1> QED BY <1>1, <1>3

\* When no handler is cut short, recorded parts are staged and fit what the
\* session declared, and what is stored and reserved fits the quota.
LEMMA Bookkeeping ==
    ASSUME ~Crashes
    PROVE  Spec => [](TypeOK /\ PartsTrue /\ PartsFit /\ ReservedWithinQuota)
<1>1. ASSUME IInv, IInv', PartsTrue, PartsFit, ReservedWithinQuota, [Next]_vars
      PROVE  PartsTrue' /\ PartsFit' /\ ReservedWithinQuota'
    <2>1. PartsTrue' /\ PartsFit'
        BY <1>1, PartsKept DEF IInv
    <2>2. ReservedWithinQuota'
        BY <1>1, InitiateFits, FinalizeFits, OtherFits DEF IInv
    <2> QED BY <2>1, <2>2
<1>2. IInv => TypeOK
    BY DEF IInv
<1> QED BY <1>1, <1>2, InitFits, Invariance, PTL DEF Spec

\* "admission math otherwise guarantees stored + reserved never exceeds the
\* limit" (src/quotas.ts): without crashes, the open sessions of an account
\* never hold more than what its blobs leave of the quota, so that all of them
\* can be finished.
THEOREM ReservedWithinQuotaHolds ==
    ASSUME ~Crashes
    PROVE  Spec => []ReservedWithinQuota
BY Bookkeeping, PTL

\* "and actual <= declared": without crashes, a session assembles at any time,
\* and to no more than it declared.
THEOREM ActualWithinDeclaredHolds ==
    ASSUME ~Crashes
    PROVE  Spec => []ActualWithinDeclared
<1>1. TypeOK /\ PartsTrue /\ PartsFit /\ ReservedWithinQuota => ActualWithinDeclared
    <2> SUFFICES ASSUME TypeOK, PartsTrue, PartsFit,
                        NEW u \in Uploads, sessions[u] # NoSession
                 PROVE  Assembles(u) /\ SizeOf(Assembled(u)) <= sessions[u].declared
        BY DEF ActualWithinDeclared
    <2>1. SumFunctionOnSet(partRows[u], Parts) <= sessions[u].declared
        BY DEF PartsFit
    <2>2. SumFunctionOnSet(partRows[u], Parts) \in Nat
        <3>1. \A p \in Parts : partRows[u][p] \in Nat
            BY DEF TypeOK
        <3> QED BY <3>1, PartsNat, SumType
    <2>3. sessions[u].declared \in Nat
        BY Bounds DEF TypeOK, Session
    <2>4. /\ Assembles(u) /\ SizeOf(Assembled(u)) \in Nat
          /\ SizeOf(Assembled(u)) <= SumFunctionOnSet(partRows[u], Parts)
        BY AssemblyFits
    <2> QED BY <2>1, <2>2, <2>3, <2>4
<1> QED BY <1>1, Bookkeeping, PTL

(* "Finalize belt-and-suspenders: only trips when the operator lowered the *)
(* limit between initiate and finalize"                                    *)
FinalizeAdmitted ==
    \A u \in Uploads : sessions[u] # NoSession =>
        AdmitFinalize(sessions[u].account, SizeOf(Assembled(u)))

\* Without crashes the second look at the quota, when an upload is finished,
\* refuses none: whatever else the account has sent and finished since, there
\* is room for each upload it was let begin.
THEOREM FinalizeAdmittedHolds ==
    ASSUME ~Crashes
    PROVE  Spec => []FinalizeAdmitted
<1>1. ASSUME TypeOK, ActualWithinDeclared, ReservedWithinQuota, PartsTrue
      PROVE  FinalizeAdmitted
    <2> SUFFICES ASSUME NEW u \in Uploads, sessions[u] # NoSession
                 PROVE  AdmitFinalize(sessions[u].account, SizeOf(Assembled(u)))
        BY DEF FinalizeAdmitted
    <2> DEFINE a == sessions[u].account
               after == [sessions EXCEPT ![u] = NoSession]
    <2>1. a \in Accounts /\ sessions \in Tables /\ after \in Tables
        BY <1>1 DEF TypeOK, Session, Tables
    <2>2. DeclaredIn(after, a) + sessions[u].declared <= DeclaredIn(sessions, a)
        <3>1. \A v \in HeldIn(after, a) : after[v] = sessions[v]
            BY <2>1 DEF HeldIn, Tables
        <3>2. u \in HeldIn(sessions, a) \ HeldIn(after, a)
            BY <2>1 DEF HeldIn, Tables
        <3> HIDE DEF a, after
        <3> QED BY <2>1, <3>1, <3>2, DeclaredShrinks
    <2>3. DeclaredIn(after, a) \in Nat /\ DeclaredIn(sessions, a) \in Nat
        <3> HIDE DEF a, after
        <3> QED BY <2>1, DeclaredIsSum
    <2>4. DeclaredBytes(a) = DeclaredIn(sessions, a)
        BY DEF DeclaredBytes, DeclaredIn, SessionsOf, HeldIn
    <2>5. BlobBytes(a) \in Nat
        <3>1. {g \in Hashes : blobs[a][g] # NoRow} \in SUBSET Hashes
            OBVIOUS
        <3> HIDE DEF a
        <3> QED BY <3>1, TotalChanges DEF BlobBytes
    <2>6. SizeOf(Assembled(u)) \in Nat /\ SizeOf(Assembled(u)) <= sessions[u].declared
        BY <1>1, AssemblyFits DEF ActualWithinDeclared
    <2>7. sessions[u].declared \in Nat
        BY <1>1, Bounds DEF TypeOK, Session
    <2>8. BlobBytes(a) + DeclaredBytes(a) <= StorageQuota
        BY <1>1, <2>1 DEF ReservedWithinQuota
    <2> HIDE DEF after
    <2>9. BlobBytes(a) + SizeOf(Assembled(u)) <= StorageQuota
        <3> HIDE DEF a
        <3> QED BY <2>2, <2>3, <2>4, <2>5, <2>6, <2>7, <2>8, Bounds
    <2> QED BY <2>9 DEF AdmitFinalize
<1> QED BY <1>1, Bookkeeping, ActualWithinDeclaredHolds, PTL

-----------------------------------------------------------------------------
(* What the sweep goes by is what happened: a row's activity is its last   *)
(* touch, and its zero point the number of its last fall to zero.          *)
RowsTell ==
    \A a \in Accounts, h \in Hashes : blobs[a][h] # NoRow =>
        /\ settled[a][h].touched = blobs[a][h].active
        /\ blobs[a][h].ref = 0 => settled[a][h].zero = blobs[a][h].zero /\ blobs[a][h].zero # 0

LEMMA RowsTellKept ==
    ASSUME TypeOK, RowsTell, [Next]_vars
    PROVE  RowsTell'
<1>1. ASSUME NEW u \in Uploads, NEW writes, FinalizeStored(u, writes)
      PROVE  RowsTell'
    <2> DEFINE b == sessions[u].account  g == sessions[u].hash
    <2>1. b \in Accounts /\ g \in Hashes
        BY <1>1 DEF FinalizeStored, TypeOK, Session
    <2>2. CASE UNCHANGED <<blobs, settled>>
        BY <2>2 DEF RowsTell
    <2>3. CASE /\ accountSeq' = [accountSeq EXCEPT ![b] = @ + 1]
               /\ blobs' = [blobs EXCEPT ![b][g] =
                     [ref |-> 0, zero |-> ZeroPoint(b), active |-> clock]]
               /\ settled' = [settled EXCEPT ![b][g] =
                     [touched |-> clock, zero |-> accountSeq'[b]]]
        <3>1. accountSeq'[b] = ZeroPoint(b)
            BY <2>1, <2>3 DEF ZeroPoint, TypeOK
        <3>2. /\ blobs'[b][g] = [ref |-> 0, zero |-> ZeroPoint(b), active |-> clock]
              /\ settled'[b][g] = [touched |-> clock, zero |-> ZeroPoint(b)]
            BY <2>1, <2>3, <3>1 DEF TypeOK
        <3>3. \A a \in Accounts, h \in Hashes : a # b \/ h # g =>
                  blobs'[a][h] = blobs[a][h] /\ settled'[a][h] = settled[a][h]
            BY <2>1, <2>3 DEF TypeOK
        <3>4. ZeroPoint(b) # 0
            BY <2>1, Bounds DEF ZeroPoint, TypeOK
        <3> HIDE DEF b, g
        <3> QED BY <3>2, <3>3, <3>4 DEF RowsTell
    <2> QED BY <1>1, <2>2, <2>3 DEF FinalizeStored
<1>2. ASSUME NEW a \in Accounts, NEW h \in Hashes, AddBlobReference(a, h)
      PROVE  RowsTell'
    <2>1. blobs[a][h] \in BlobRow
        BY <1>2 DEF AddBlobReference, TypeOK
    <2>2. blobs'[a][h] = Referenced(a, h) /\ settled'[a][h] = [touched |-> clock, zero |-> 0]
        BY <1>2 DEF AddBlobReference, TypeOK
    <2>3. Referenced(a, h).active = clock /\ Referenced(a, h).ref # 0
        BY <2>1 DEF Referenced, BlobRow
    <2>4. \A o \in Accounts, g \in Hashes : o # a \/ g # h =>
              blobs'[o][g] = blobs[o][g] /\ settled'[o][g] = settled[o][g]
        BY <1>2 DEF AddBlobReference, TypeOK
    <2> QED BY <2>2, <2>3, <2>4 DEF RowsTell
<1>3. ASSUME NEW a \in Accounts, NEW h \in Hashes, ReleaseBlobReference(a, h)
      PROVE  RowsTell'
    <2>1. blobs[a][h] # NoRow /\ blobs[a][h] \in BlobRow
        BY <1>3 DEF ReleaseBlobReference, TypeOK
    <2>2. /\ blobs'[a][h] = Released(a, h)
          /\ settled'[a][h] = [touched |-> clock,
                 zero |-> IF blobs[a][h].ref = 1 THEN accountSeq'[a] ELSE settled[a][h].zero]
        BY <1>3 DEF ReleaseBlobReference, TypeOK
    <2>3. ZeroPoint(a) # 0 /\ (blobs[a][h].ref = 1 => accountSeq'[a] = ZeroPoint(a))
        BY <1>3, Bounds DEF ReleaseBlobReference, ZeroPoint, TypeOK
    <2>4. /\ Released(a, h).active = clock
          /\ Released(a, h).ref = 0 =>
                 Released(a, h).zero = IF blobs[a][h].ref = 1 THEN ZeroPoint(a)
                                       ELSE blobs[a][h].zero
          /\ Released(a, h).ref = 0 => blobs[a][h].ref \in {0, 1}
        BY <2>1 DEF Released, BlobRow
    <2>5. \A o \in Accounts, g \in Hashes : o # a \/ g # h =>
              blobs'[o][g] = blobs[o][g] /\ settled'[o][g] = settled[o][g]
        BY <1>3 DEF ReleaseBlobReference, TypeOK
    <2>6. /\ settled'[a][h].touched = blobs'[a][h].active
          /\ blobs'[a][h].ref = 0 =>
                 settled'[a][h].zero = blobs'[a][h].zero /\ blobs'[a][h].zero # 0
        BY <2>1, <2>2, <2>3, <2>4 DEF RowsTell
    <2> QED BY <2>5, <2>6 DEF RowsTell
<1>4. ASSUME NEW a \in Accounts, DeleteAccount(a)
      PROVE  RowsTell'
    <2>1. \A h \in Hashes : blobs'[a][h] = NoRow
        BY <1>4 DEF DeleteAccount, TypeOK
    <2>2. \A o \in Accounts, h \in Hashes : o # a =>
              blobs'[o][h] = blobs[o][h] /\ settled'[o][h] = settled[o][h]
        BY <1>4 DEF DeleteAccount, TypeOK
    <2> QED BY <2>1, <2>2 DEF RowsTell
<1>5. CASE ReclaimSweep
    <2>1. \A a \in Accounts, h \in Hashes : blobs'[a][h] \in {NoRow, blobs[a][h]}
        BY <1>5 DEF ReclaimSweep
    <2>2. UNCHANGED settled
        BY <1>5 DEF ReclaimSweep
    <2> QED BY <2>1, <2>2 DEF RowsTell
<1>6. CASE UNCHANGED <<blobs, settled>>
    BY <1>6 DEF RowsTell
<1>7. ASSUME NEW u \in Uploads, Upload(u)
      PROVE  RowsTell'
    BY <1>1, <1>6, <1>7 DEF Upload, Initiate, SendPart, FinalizeOwned, FinalizeRejected,
                            CancelUpload, ReapUploadSession
<1>8. CASE Reference
    BY <1>2, <1>3, <1>6, <1>8 DEF Reference, DeviceReports
<1>9. CASE Tick \/ UNCHANGED vars
    BY <1>6, <1>9 DEF Tick, vars
<1> QED BY <1>4, <1>5, <1>7, <1>8, <1>9 DEF Next

(* The sweep asks one account about the bytes, whose they may be of        *)
(* several: it keeps its promises where it is off or there is one account. *)
Unshared == ~ReclaimOn \/ \A a, b \in Accounts : a = b

LEMMA GoneIsReclaimable ==
    ASSUME TypeOK, BytesGone, Unshared, NEW a \in Accounts, NEW h \in Hashes,
           bytes[h] # NoBytes, bytes'[h] = NoBytes, blobs[a][h] # NoRow
    PROVE  \/ blobs'[a][h] = NoRow /\ accountSeq'[a] = 0
           \/ Reclaimable(a, h) /\ blobs'[a][h] \in {NoRow, blobs[a][h]}
<1>1. ASSUME NEW b \in Accounts, DeleteAccount(b), h \in Unheld(b)
      PROVE  blobs'[a][h] = NoRow /\ accountSeq'[a] = 0
    <2>1. a = b
        BY <1>1 DEF Unheld
    <2> QED BY <1>1, <2>1 DEF DeleteAccount, TypeOK
<1>2. ASSUME ReclaimSweep
      PROVE  Reclaimable(a, h) /\ blobs'[a][h] \in {NoRow, blobs[a][h]}
    <2>1. \A b \in Accounts : b = a
        BY <1>2 DEF Unshared, ReclaimSweep
    <2>2. \E b \in Accounts : Reclaimable(b, h)
        <3> DEFINE eligible == {b \in Accounts \X Hashes : Reclaimable(b[1], b[2])}
        <3>1. PICK begun \in SUBSET eligible :
                  bytes' = [g \in Hashes |->
                      IF \E b \in Accounts : <<b, g>> \in begun THEN NoBytes ELSE bytes[g]]
            <4>1. PICK done \in SUBSET eligible :
                      \E begun \in {done} \cup {done \cup {b} : b \in eligible} :
                          bytes' = [g \in Hashes |->
                              IF \E b \in Accounts : <<b, g>> \in begun THEN NoBytes
                              ELSE bytes[g]]
                BY <1>2 DEF ReclaimSweep
            <4>2. {done} \cup {done \cup {b} : b \in eligible} \subseteq SUBSET eligible
                OBVIOUS
            <4> HIDE DEF eligible
            <4> QED BY <4>1, <4>2
        <3>2. PICK b \in Accounts : <<b, h>> \in begun
            BY <3>1
        <3>3. <<b, h>> \in eligible
            BY <3>1, <3>2
        <3> QED BY <3>3
    <2>3. blobs'[a][h] \in {NoRow, blobs[a][h]}
        BY <1>2 DEF ReclaimSweep
    <2> QED BY <2>1, <2>2, <2>3
<1> QED BY <1>1, <1>2 DEF BytesGone

\* Bytes go only when nobody references them, where the sweep is off or there
\* is one account.
THEOREM BytesOutliveReferencesHolds ==
    ASSUME Unshared
    PROVE  Spec => BytesOutliveReferences
<1>1. ASSUME IInv, [Next]_vars, NEW a \in Accounts, NEW h \in Hashes,
             bytes[h] # NoBytes, bytes'[h] = NoBytes
      PROVE  blobs'[a][h] = NoRow \/ blobs'[a][h].ref = 0
    <2>1. RowsFrom /\ BytesGone
        BY <1>1, StoreStep DEF IInv
    <2>2. CASE blobs[a][h] = NoRow
        BY <1>1, <2>1, <2>2 DEF RowsFrom
    <2>3. CASE blobs[a][h] # NoRow
        BY <1>1, <2>1, <2>3, GoneIsReclaimable DEF IInv, Reclaimable
    <2> QED BY <2>2, <2>3
<1>2. IInv /\ [Next]_vars =>
          [\A a \in Accounts, h \in Hashes :
              (bytes[h] # NoBytes /\ bytes'[h] = NoBytes)
                  => blobs'[a][h] = NoRow \/ blobs'[a][h].ref = 0]_vars
    BY <1>1
<1> QED BY <1>2, Invariance, PTL DEF Spec, BytesOutliveReferences

\* A sweep leaves alone what was touched within the grace period and what a
\* live device has not acknowledged, where it is off or there is one account.
THEOREM ReclaimIsPatientHolds ==
    ASSUME Unshared
    PROVE  Spec => ReclaimIsPatient
<1>1. Init => RowsTell
    BY DEF Init, RowsTell
<1>2. IInv /\ RowsTell /\ [Next]_vars => RowsTell'
    BY RowsTellKept DEF IInv
<1>3. ASSUME IInv, RowsTell, [Next]_vars, NEW a \in Accounts, NEW h \in Hashes,
             bytes[h] # NoBytes, bytes'[h] = NoBytes, blobs[a][h] # NoRow,
             accountSeq'[a] # 0
      PROVE  /\ settled[a][h].touched + Grace <= clock
             /\ \A d \in Devices :
                    Alive(a, d) => devices[a][d].seen >= settled[a][h].zero
    <2>1. Reclaimable(a, h)
        BY <1>3, StoreStep, GoneIsReclaimable DEF IInv
    <2>2. /\ settled[a][h].touched = blobs[a][h].active
          /\ settled[a][h].zero = blobs[a][h].zero
        BY <1>3, <2>1 DEF RowsTell, Reclaimable
    <2>3. blobs[a][h].active \in Nat /\ clock \in Nat /\ Grace \in Nat
        BY <1>3, Bounds, Periods DEF IInv, TypeOK, BlobRow
    <2> QED BY <2>1, <2>2, <2>3 DEF Reclaimable
<1>4. IInv /\ RowsTell /\ [Next]_vars =>
          [\A a \in Accounts, h \in Hashes :
              (/\ bytes[h] # NoBytes /\ bytes'[h] = NoBytes
               /\ blobs[a][h] # NoRow /\ accountSeq'[a] # 0)
                => /\ settled[a][h].touched + Grace <= clock
                   /\ \A d \in Devices :
                          Alive(a, d) => devices[a][d].seen >= settled[a][h].zero]_vars
    BY <1>3
<1> QED BY <1>1, <1>2, <1>4, Invariance, PTL DEF Spec, ReclaimIsPatient

\* A blob at rest that every live device has acknowledged can be reclaimed, for any
\* number of accounts and devices, after releases in any order and any number.
THEOREM ReclaimIsDueHolds == Spec => []ReclaimIsDue
<1>1. Init => RowsTell
    BY DEF Init, RowsTell
<1>2. IInv /\ RowsTell /\ [Next]_vars => RowsTell'
    BY RowsTellKept DEF IInv
<1>3. ASSUME IInv, RowsTell PROVE ReclaimIsDue
    <2>1. SUFFICES ASSUME NEW a \in Accounts, NEW h \in Hashes,
                          blobs[a][h] # NoRow, blobs[a][h].ref = 0,
                          settled[a][h].touched + Grace <= clock,
                          \A d \in Devices : Alive(a, d) => devices[a][d].seen >= settled[a][h].zero
                   PROVE  Reclaimable(a, h)
        BY DEF ReclaimIsDue
    <2>2. /\ settled[a][h].touched = blobs[a][h].active
          /\ settled[a][h].zero = blobs[a][h].zero /\ blobs[a][h].zero # 0
        BY <1>3, <2>1 DEF RowsTell
    <2>3. blobs[a][h].active \in Nat /\ clock \in Nat /\ Grace \in Nat
        BY <1>3, <2>1, Bounds, Periods DEF IInv, TypeOK, BlobRow
    <2>4. blobs[a][h].active <= clock - Grace
        BY <2>1, <2>2, <2>3
    <2> QED BY <2>1, <2>2, <2>4 DEF Reclaimable
<1> QED BY <1>1, <1>2, <1>3, Invariance, PTL DEF Spec

-----------------------------------------------------------------------------
(* The shelf *)

\* Where rows have bytes, an account can download what it stores.
LEMMA ShelfIsStored ==
    ASSUME AddressesHold, RowsHaveBytes
    PROVE  Downloadable = [a \in Accounts |-> Stored(a)]
<1>1. \A h \in Hashes : bytes[h] # NoBytes => bytes[h] = Whole[h]
    BY DEF AddressesHold
<1>2. ASSUME NEW a \in Accounts
      PROVE  {h \in Hashes : blobs[a][h] # NoRow /\ bytes[h] = Whole[h]} = Stored(a)
    BY <1>1 DEF RowsHaveBytes, Stored
<1> QED BY <1>2 DEF Downloadable

\* A step of an upload sends at most one chunk.
LEMMA UploadSends ==
    ASSUME TypeOK, NEW u \in Uploads, Upload(u),
           \A writes \in Writes(4) : ~FinalizeStored(u, writes)
    PROVE  /\ UNCHANGED blobs
           /\ \/ UNCHANGED supplied
              \/ \E a \in Accounts, c \in Chunks :
                     supplied' = [supplied EXCEPT ![a] = @ \cup {c}]
<1>1. UNCHANGED blobs
    BY DEF Upload, Initiate, SendPart, FinalizeOwned, FinalizeRejected, CancelUpload,
           ReapUploadSession
<1>2. ASSUME NEW p \in Parts, NEW c \in Chunks, NEW writes, SendPart(u, p, c, writes)
      PROVE  \E a \in Accounts : supplied' = [supplied EXCEPT ![a] = @ \cup {c}]
    <2>1. sessions[u].account \in Accounts
        BY <1>2 DEF SendPart, TypeOK, Session
    <2>2. supplied' = [supplied EXCEPT ![sessions[u].account] = @ \cup {c}]
        BY <1>2 DEF SendPart
    <2> QED BY <2>1, <2>2
<1>3. \/ UNCHANGED supplied
      \/ \E p \in Parts, c \in Chunks, writes \in Writes(2) : SendPart(u, p, c, writes)
    BY DEF Upload, Initiate, FinalizeOwned, FinalizeRejected, CancelUpload, ReapUploadSession
<1> QED BY <1>1, <1>2, <1>3

\* A reference is added to or taken from a row, which stays.
LEMMA RowsStay ==
    ASSUME TypeOK, NEW a \in Accounts, NEW h \in Hashes,
           AddBlobReference(a, h) \/ ReleaseBlobReference(a, h)
    PROVE  \E row : row # NoRow /\ blobs' = [blobs EXCEPT ![a][h] = row]
<1> DEFINE Rows == [ref : Nat, zero : Nat, active : Nat]
<1>0. clock \in Nat /\ MaxRefs \in Nat /\ MaxSeq \in Nat /\ accountSeq[a] \in Nat
    BY Bounds DEF TypeOK
<1>1. blobs[a][h] \in BlobRow
    BY DEF TypeOK, AddBlobReference, ReleaseBlobReference
<1>2. /\ blobs[a][h].ref \in Nat /\ blobs[a][h].zero \in Nat
      /\ blobs[a][h] = [ref |-> blobs[a][h].ref, zero |-> blobs[a][h].zero,
                        active |-> blobs[a][h].active]
    BY <1>1, Bounds DEF BlobRow
<1>3. CASE AddBlobReference(a, h)
    <2>1. Referenced(a, h) \in Rows
        BY <1>0, <1>2 DEF Referenced
    <2>2. blobs' = [blobs EXCEPT ![a][h] = Referenced(a, h)]
        BY <1>3 DEF AddBlobReference
    <2> QED BY <2>1, <2>2, Absent
<1>4. CASE ReleaseBlobReference(a, h)
    <2>1. Released(a, h) \in Rows
        BY <1>0, <1>1, <1>2 DEF Released, ZeroPoint, BlobRow
    <2>2. blobs' = [blobs EXCEPT ![a][h] = Released(a, h)]
        BY <1>4 DEF ReleaseBlobReference
    <2> QED BY <2>1, <2>2, Absent
<1> QED BY <1>3, <1>4

\* What a step does to the shelves: nothing, one chunk sent, one blob put on a
\* shelf by its account, or one shelf cleared with its account.
LEMMA ShelfStep ==
    ASSUME IInv, ~ReclaimOn, [Next]_vars
    PROVE  LET same == \A a \in Accounts : Stored(a)' = Stored(a)
           IN \/ same /\ UNCHANGED supplied
              \/ /\ same
                 /\ \E a \in Accounts, c \in Chunks :
                        supplied' = [supplied EXCEPT ![a] = @ \cup {c}]
              \/ \E a \in Accounts, h \in Hashes :
                    /\ \A o \in Accounts :
                           Stored(o)' = IF o = a THEN Stored(a) \cup {h} ELSE Stored(o)
                    /\ Total(Stored(a) \cup {h}) <= StorageQuota
                    /\ \A i \in DOMAIN Whole[h] : Whole[h][i] \in supplied[a]
                    /\ UNCHANGED supplied
              \/ \E a \in Accounts :
                    /\ \A o \in Accounts : Stored(o)' = IF o = a THEN {} ELSE Stored(o)
                    /\ supplied' = [supplied EXCEPT ![a] = {}]
<1> DEFINE same == \A a \in Accounts : Stored(a)' = Stored(a)
<1>1. ASSUME NEW u \in Uploads, NEW writes, FinalizeStored(u, writes)
      PROVE  \/ same /\ UNCHANGED supplied
             \/ \E a \in Accounts, h \in Hashes :
                   /\ \A o \in Accounts :
                          Stored(o)' = IF o = a THEN Stored(a) \cup {h} ELSE Stored(o)
                   /\ Total(Stored(a) \cup {h}) <= StorageQuota
                   /\ \A i \in DOMAIN Whole[h] : Whole[h][i] \in supplied[a]
                   /\ UNCHANGED supplied
    <2>1. PICK a \in Accounts, h \in Hashes :
              /\ blobs[a][h] = NoRow
              /\ \A o \in Accounts, g \in Hashes :
                     (o # a \/ g # h) => blobs'[o][g] = blobs[o][g]
              /\ Total(Stored(a)) + SizeOf(Whole[h]) <= StorageQuota
              /\ \A i \in DOMAIN Whole[h] : Whole[h][i] \in supplied[a]
              /\ UNCHANGED supplied
        BY <1>1, FinalizeAdds DEF IInv
    <2>2. \A o \in Accounts \ {a} : Stored(o)' = Stored(o)
        BY <2>1 DEF Stored
    <2>3. CASE blobs'[a][h] = NoRow
        <3>1. Stored(a)' = Stored(a)
            BY <2>1, <2>3 DEF Stored
        <3> QED BY <2>1, <2>2, <3>1
    <2>4. CASE blobs'[a][h] # NoRow
        <3>1. Stored(a)' = Stored(a) \cup {h}
            BY <2>1, <2>4 DEF Stored
        <3>2. Total(Stored(a) \cup {h}) <= StorageQuota
            <4>1. Stored(a) \in SUBSET Hashes /\ h \in Hashes \ Stored(a)
                BY <2>1 DEF Stored
            <4>2. Total(Stored(a) \cup {h}) = Total(Stored(a)) + SizeOf(Whole[h])
                BY <4>1, TotalChanges
            <4> QED BY <2>1, <4>2
        <3> QED BY <2>1, <2>2, <3>1, <3>2
    <2> QED BY <2>3, <2>4
<1>2. ASSUME NEW a \in Accounts, DeleteAccount(a)
      PROVE  /\ \A o \in Accounts : Stored(o)' = IF o = a THEN {} ELSE Stored(o)
             /\ supplied' = [supplied EXCEPT ![a] = {}]
    <2>1. supplied' = [supplied EXCEPT ![a] = {}]
        BY <1>2 DEF DeleteAccount
    <2>2. \A o \in Accounts, h \in Hashes :
              blobs'[o][h] = IF o = a THEN NoRow ELSE blobs[o][h]
        BY <1>2 DEF DeleteAccount, IInv, TypeOK
    <2>3. \A o \in Accounts : Stored(o)' = IF o = a THEN {} ELSE Stored(o)
        BY <2>2 DEF Stored
    <2> QED BY <2>1, <2>3
<1>3. ASSUME UNCHANGED blobs PROVE same
    BY <1>3 DEF Stored
<1>4. CASE Reference
    <2>1. UNCHANGED supplied
        BY <1>4 DEF Reference, AddBlobReference, ReleaseBlobReference, DeviceReports
    <2>2. ASSUME NEW b \in Accounts, NEW h \in Hashes,
                 AddBlobReference(b, h) \/ ReleaseBlobReference(b, h)
          PROVE  \A o \in Accounts, g \in Hashes : blobs'[o][g] = NoRow <=> blobs[o][g] = NoRow
        <3>1. \E row : row # NoRow /\ blobs' = [blobs EXCEPT ![b][h] = row]
            BY <2>2, RowsStay DEF IInv
        <3>2. blobs[b][h] # NoRow
            BY <2>2 DEF AddBlobReference, ReleaseBlobReference
        <3> QED BY <3>1, <3>2 DEF IInv, TypeOK
    <2>3. same
        BY <1>3, <1>4, <2>2 DEF Reference, DeviceReports, Stored
    <2> QED BY <2>1, <2>3
<1>5. ASSUME NEW u \in Uploads, Upload(u),
             \A writes \in Writes(4) : ~FinalizeStored(u, writes)
      PROVE  /\ same
             /\ \/ UNCHANGED supplied
                \/ \E a \in Accounts, c \in Chunks :
                       supplied' = [supplied EXCEPT ![a] = @ \cup {c}]
    BY <1>5, UploadSends DEF IInv, Stored
<1>6. CASE Tick \/ UNCHANGED vars
    BY <1>6 DEF Tick, vars, Stored
<1>7. ~ReclaimSweep
    BY DEF ReclaimSweep
<1> HIDE DEF same
<1> QED BY <1>1, <1>2, <1>4, <1>5, <1>6, <1>7 DEF Next, same

\* The shelf adds up as the store does.
LEMMA SameSum ==
    \A w, H : Shelf!SumFunctionOnSet(w, H) = SumFunctionOnSet(w, H)
BY DEF SumFunctionOnSet, FoldFunctionOnSet, MapThenFoldSet, Shelf!SumFunctionOnSet,
       Shelf!FoldFunctionOnSet, Shelf!MapThenFoldSet

\* Under the default policy the uploads, rows and files implement the shelf:
\* each blob appears whole and paid for at once, and stays with its account.
THEOREM ImplementsShelfHolds ==
    ASSUME ~ReclaimOn
    PROVE  Spec => ImplementsShelf
<1> DEFINE stored == [a \in Accounts |-> Stored(a)]
<1>1. Init => Shelf!ShelfInit
    <2> SUFFICES ASSUME Init PROVE Shelf!ShelfInit
        OBVIOUS
    <2>1. Downloadable = [a \in Accounts |-> {}]
        BY DEF Init, Downloadable
    <2> QED BY <2>1 DEF Init, Shelf!ShelfInit
<1>2. ASSUME IInv, IInv', RowsHaveBytes, RowsHaveBytes', [Next]_vars
      PROVE  [Shelf!ShelfNext]_(Shelf!shelfVars)
    <2>1. Downloadable = stored /\ Downloadable' = stored'
        <3>1. /\ \A h \in Hashes : bytes'[h] # NoBytes => bytes'[h] = Whole[h]
              /\ \A a \in Accounts, h \in Hashes : blobs'[a][h] # NoRow => bytes'[h] # NoBytes
            BY <1>2 DEF IInv, AddressesHold, RowsHaveBytes
        <3>2. ASSUME NEW a \in Accounts
              PROVE  {h \in Hashes : blobs'[a][h] # NoRow /\ bytes'[h] = Whole[h]} = Stored(a)'
            BY <3>1 DEF Stored
        <3>3. Downloadable' = stored'
            BY <3>2 DEF Downloadable
        <3> QED BY <1>2, <3>3, ShelfIsStored DEF IInv
    <2>2. CASE (\A a \in Accounts : Stored(a)' = Stored(a)) /\ UNCHANGED supplied
        <3>1. stored' = stored
            BY <2>2
        <3> HIDE DEF stored
        <3> QED BY <2>1, <2>2, <3>1 DEF Shelf!shelfVars
    <2>3. CASE /\ \A a \in Accounts : Stored(a)' = Stored(a)
               /\ \E a \in Accounts, c \in Chunks :
                      supplied' = [supplied EXCEPT ![a] = @ \cup {c}]
        <3>1. stored' = stored
            BY <2>3
        <3> HIDE DEF stored
        <3>2. PICK a \in Accounts, c \in Chunks :
                  supplied' = [supplied EXCEPT ![a] = @ \cup {c}]
            BY <2>3
        <3>3. Shelf!Send(a)
            BY <2>1, <3>1, <3>2 DEF Shelf!Send
        <3> QED BY <3>3 DEF Shelf!ShelfNext
    <2>4. ASSUME NEW a \in Accounts, NEW h \in Hashes,
                 \A o \in Accounts :
                     Stored(o)' = IF o = a THEN Stored(a) \cup {h} ELSE Stored(o),
                 Total(Stored(a) \cup {h}) <= StorageQuota,
                 \A i \in DOMAIN Whole[h] : Whole[h][i] \in supplied[a],
                 UNCHANGED supplied
          PROVE  Shelf!ShelfNext
        <3>1. stored' = [stored EXCEPT ![a] = @ \cup {h}] /\ stored[a] = Stored(a)
            BY <2>4
        <3>2. Downloadable' = [Downloadable EXCEPT ![a] = @ \cup {h}]
            <4> HIDE DEF stored
            <4> QED BY <2>1, <3>1
        <3>3. SumFunctionOnSet([g \in Hashes |-> SizeOf(Whole[g])], Downloadable[a] \cup {h})
                  <= StorageQuota
            BY <2>1, <2>4, <3>1 DEF Total
        <3>4. [g \in Hashes |-> {Whole[g][i] : i \in DOMAIN Whole[g]}][h] \subseteq supplied[a]
            BY <2>4
        <3> HIDE DEF stored
        <3>5. Shelf!Put(a)
            BY <2>4, <3>2, <3>3, <3>4, SameSum DEF Shelf!Put
        <3> QED BY <3>5 DEF Shelf!ShelfNext
    <2>5. ASSUME NEW a \in Accounts,
                 \A o \in Accounts : Stored(o)' = IF o = a THEN {} ELSE Stored(o),
                 supplied' = [supplied EXCEPT ![a] = {}]
          PROVE  Shelf!ShelfNext
        <3>1. stored' = [stored EXCEPT ![a] = {}]
            BY <2>5
        <3> HIDE DEF stored
        <3>2. Shelf!Clear(a)
            BY <2>1, <2>5, <3>1 DEF Shelf!Clear
        <3> QED BY <3>2 DEF Shelf!ShelfNext
    <2> HIDE DEF stored
    <2> QED BY <1>2, <2>2, <2>3, <2>4, <2>5, ShelfStep
<1>3. Spec => []RowsHaveBytes
    BY RowsHaveBytesHolds
<1> QED BY <1>1, <1>2, <1>3, Invariance, PTL DEF Spec, ImplementsShelf, Shelf!ShelfSpec

\* The shelf keeps its promise: nothing gets on it that the account did not
\* send, nor more than its quota.
THEOREM PromiseKept == Shelf!ShelfSpec => []Shelf!SentAndPaid
<1> DEFINE Content == [h \in Hashes |-> {Whole[h][i] : i \in DOMAIN Whole[h]}]
           Size == [h \in Hashes |-> SizeOf(Whole[h])]
           Kept == \A a \in Accounts :
                       /\ \A h \in Downloadable[a] : Content[h] \subseteq supplied[a]
                       /\ SumFunctionOnSet(Size, Downloadable[a]) <= StorageQuota
           Typed == /\ DOMAIN Downloadable = Accounts
                    /\ supplied = [a \in Accounts |-> supplied[a]]
<1>0. Kept <=> Shelf!SentAndPaid
    BY SameSum DEF Shelf!SentAndPaid
<1>1. Shelf!ShelfInit => Kept /\ Typed
    <2> SUFFICES ASSUME Shelf!ShelfInit PROVE Kept /\ Typed
        OBVIOUS
    <2>1. \A a \in Accounts : Downloadable[a] = {}
        BY DEF Shelf!ShelfInit
    <2>2. \A w : SumFunctionOnSet(w, {}) = 0
        BY FS_EmptySet, SumUnfolds
    <2>3. Kept
        BY <2>1, <2>2, Bounds
    <2>4. Typed
        BY DEF Shelf!ShelfInit
    <2> QED BY <2>3, <2>4
<1>2. Kept /\ Typed /\ [Shelf!ShelfNext]_(Shelf!shelfVars) => Kept' /\ Typed'
    <2> SUFFICES ASSUME Kept, Typed, [Shelf!ShelfNext]_(Shelf!shelfVars)
                 PROVE  Kept' /\ Typed'
        OBVIOUS
    <2> HIDE DEF Content, Size
    <2>1. ASSUME NEW a \in Accounts, Shelf!Send(a)
          PROVE  Kept' /\ Typed'
        <3>1. PICK c : /\ supplied' = [supplied EXCEPT ![a] = @ \cup {c}]
                       /\ Downloadable' = Downloadable
            BY <2>1 DEF Shelf!Send
        <3>2. \A o \in Accounts : supplied[o] \subseteq supplied'[o]
            BY <3>1
        <3> HIDE DEF Downloadable
        <3> QED BY <3>1, <3>2
    <2>2. ASSUME NEW a \in Accounts, Shelf!Put(a)
          PROVE  Kept' /\ Typed'
        <3>1. PICK h \in Hashes :
                  /\ Content[h] \subseteq supplied[a]
                  /\ SumFunctionOnSet(Size, Downloadable[a] \cup {h}) <= StorageQuota
                  /\ Downloadable' = [Downloadable EXCEPT ![a] = @ \cup {h}]
                  /\ supplied' = supplied
            BY <2>2, SameSum DEF Shelf!Put, Content, Size
        <3>2. /\ Downloadable'[a] = Downloadable[a] \cup {h}
              /\ \A o \in Accounts \ {a} : Downloadable'[o] = Downloadable[o]
            BY <3>1
        <3> HIDE DEF Downloadable
        <3> QED BY <3>1, <3>2
    <2>3. ASSUME NEW a \in Accounts, Shelf!Clear(a)
          PROVE  Kept' /\ Typed'
        <3>1. /\ supplied' = [supplied EXCEPT ![a] = {}]
              /\ Downloadable' = [Downloadable EXCEPT ![a] = {}]
            BY <2>3 DEF Shelf!Clear
        <3>2. /\ Downloadable'[a] = {}
              /\ \A o \in Accounts \ {a} :
                     Downloadable'[o] = Downloadable[o] /\ supplied'[o] = supplied[o]
            BY <3>1
        <3>3. SumFunctionOnSet(Size, {}) = 0
            BY FS_EmptySet, SumUnfolds
        <3> HIDE DEF Downloadable
        <3> QED BY <3>1, <3>2, <3>3, Bounds
    <2>4. CASE UNCHANGED Shelf!shelfVars
        <3>1. Downloadable' = Downloadable /\ supplied' = supplied
            BY <2>4 DEF Shelf!shelfVars
        <3> HIDE DEF Downloadable
        <3> QED BY <3>1
    <2> HIDE DEF Kept, Typed
    <2> QED BY <2>1, <2>2, <2>3, <2>4 DEF Shelf!ShelfNext
<1> HIDE DEF Kept, Typed
<1> QED BY <1>0, <1>1, <1>2, PTL DEF Shelf!ShelfSpec
=============================================================================
