--------------------------- MODULE LedgerTheorems ---------------------------
(***************************************************************************)
(* Sums over finite sets, what MapThenSumSet of the community modules      *)
(* computes, and what the ledger relies on, for every amount and every     *)
(* list of weights: a split hands out its total exactly, and the batches   *)
(* of a sale and of a refund balance.                                      *)
(* The library's induction theorems take an operator as their parameter,   *)
(* so induction is done here on sets: of the subsets of S for which a      *)
(* statement fails, a smallest one would have a smaller one.               *)
(***************************************************************************)
EXTENDS Ledger, FiniteSetTheorems, WellFoundedInduction, TLAPS

(* The sum of f[x] for the x in S, with the summand a function.             *)
SumOver(f, S) == MapThenSumSet(LAMBDA x : f[x], S)

(* A is the sum of f over every subset of S.                                *)
Additive(A, f, S) ==
  /\ A \in [SUBSET S -> Int] /\ A[{}] = 0
  /\ \A T \in SUBSET S : \A x \in S \ T : A[T \cup {x}] = A[T] + f[x]

(* The equation by which MapThenFoldSet defines its sums.                   *)
AnyOf(s) == CHOOSE x \in s : TRUE
Iterates(it, f, S) ==
  it = [s \in SUBSET S |-> IF s = {} THEN 0 ELSE f[AnyOf(s)] + it[s \ {AnyOf(s)}]]

(* A set of subsets of a finite set that is not empty has a smallest one.   *)
LEMMA Smallest ==
  ASSUME NEW S, IsFiniteSet(S), NEW B \in SUBSET SUBSET S, B # {}
  PROVE  \E T \in B : \A U \in B : ~(U \subseteq T /\ U # T)
<1>1. IsWellFoundedOn(StrictSubsetOrdering(S), FiniteSubsetsOf(S))
  BY FS_StrictSubsetOrderingWellFounded
<1>2. FiniteSubsetsOf(S) = SUBSET S
  BY FS_FiniteSubsetsOfFinite
<1>3. PICK T \in B : \A U \in B : <<U, T>> \notin StrictSubsetOrdering(S)
  BY <1>1, <1>2, WFMin
<1> QED
  BY <1>3 DEF StrictSubsetOrdering

(* There is a sum over every subset of a finite set.                        *)
LEMMA AdditiveExtends ==
  ASSUME NEW T, NEW y \in T, NEW f, \A x \in T : f[x] \in Int, NEW A, Additive(A, f, T \ {y})
  PROVE  \E C : Additive(C, f, T)
<1> DEFINE C == [R \in SUBSET T |-> IF y \in R THEN A[R \ {y}] + f[y] ELSE A[R]]
<1>1. \A R \in SUBSET T : R \ {y} \in SUBSET (T \ {y}) /\ (y \notin R => R \ {y} = R)
  OBVIOUS
<1>2. C \in [SUBSET T -> Int]
  BY <1>1 DEF Additive
<1>3. C[{}] = 0
  BY DEF Additive
<1>4. ASSUME NEW R \in SUBSET T, NEW x \in T \ R
      PROVE  C[R \cup {x}] = C[R] + f[x]
  <2>1. CASE x = y
    BY <2>1, <1>1, (R \cup {y}) \ {y} = R
  <2>2. CASE x # y /\ y \notin R
    BY <2>2, <1>1 DEF Additive
  <2>3. CASE x # y /\ y \in R
    <3>1. (R \cup {x}) \ {y} = (R \ {y}) \cup {x}
      BY <2>3
    <3>2. A[(R \ {y}) \cup {x}] = A[R \ {y}] + f[x]
      BY <2>3, <1>1 DEF Additive
    <3>3. A[R \ {y}] \in Int /\ A[(R \ {y}) \cup {x}] \in Int
      BY <2>3, <1>1 DEF Additive
    <3>4. C[R \cup {x}] = A[(R \ {y}) \cup {x}] + f[y] /\ C[R] = A[R \ {y}] + f[y]
      BY <2>3, <3>1
    <3> QED
      BY <3>2, <3>3, <3>4
  <2> QED
    BY <2>1, <2>2, <2>3
<1> HIDE DEF C
<1> QED
  BY <1>2, <1>3, <1>4 DEF Additive

LEMMA AdditiveExists ==
  ASSUME NEW S, IsFiniteSet(S), NEW f, \A x \in S : f[x] \in Int
  PROVE  \E A : Additive(A, f, S)
<1> DEFINE B == {T \in SUBSET S : ~\E A : Additive(A, f, T)}
<1> SUFFICES ASSUME B # {} PROVE FALSE
  OBVIOUS
<1>1. PICK T \in B : \A U \in B : ~(U \subseteq T /\ U # T)
  <2>1. B \in SUBSET SUBSET S
    OBVIOUS
  <2> HIDE DEF B
  <2> QED
    BY <2>1, Smallest
<1>2. CASE T = {}
  <2>1. Additive([R \in {{}} |-> 0], f, {})
    BY DEF Additive
  <2> QED
    BY <1>1, <1>2, <2>1
<1>3. ASSUME NEW y \in T PROVE FALSE
  <2>1. T \ {y} \in SUBSET S /\ T \ {y} \notin B
    BY <1>1, <1>3
  <2>2. PICK A : Additive(A, f, T \ {y})
    BY <2>1
  <2> QED
    BY <2>2, <1>1, AdditiveExtends
<1> QED
  BY <1>2, <1>3

(* It is what the fold computes.                                            *)
LEMMA AdditiveIterates ==
  ASSUME NEW S, NEW f, \A x \in S : f[x] \in Int, NEW A, Additive(A, f, S)
  PROVE  Iterates(A, f, S)
<1>1. ASSUME NEW s \in SUBSET S, s # {}
      PROVE  A[s] = f[AnyOf(s)] + A[s \ {AnyOf(s)}]
  <2>1. AnyOf(s) \in s
    BY <1>1 DEF AnyOf
  <2>2. (s \ {AnyOf(s)}) \cup {AnyOf(s)} = s
    BY <2>1
  <2>3. A[s] = A[s \ {AnyOf(s)}] + f[AnyOf(s)]
    BY <2>1, <2>2 DEF Additive
  <2>4. A[s \ {AnyOf(s)}] \in Int /\ f[AnyOf(s)] \in Int
    BY <2>1 DEF Additive
  <2>5. \A a, b \in Int : a + b = b + a
    OBVIOUS
  <2> QED
    BY <2>3, <2>4, <2>5
<1>2. A = [s \in SUBSET S |-> A[s]]
  BY DEF Additive
<1> QED
  BY <1>1, <1>2 DEF Iterates, Additive

LEMMA IteratesAdditive ==
  ASSUME NEW S, IsFiniteSet(S), NEW f, \A x \in S : f[x] \in Int,
         NEW A, Additive(A, f, S), NEW it, Iterates(it, f, S)
  PROVE  \A T \in SUBSET S : it[T] = A[T]
<1> DEFINE B == {T \in SUBSET S : it[T] # A[T]}
<1> SUFFICES ASSUME B # {} PROVE FALSE
  OBVIOUS
<1>1. PICK T \in B : \A U \in B : ~(U \subseteq T /\ U # T)
  <2>1. B \in SUBSET SUBSET S
    OBVIOUS
  <2> HIDE DEF B
  <2> QED
    BY <2>1, Smallest
<1>2. Iterates(A, f, S)
  BY AdditiveIterates
<1>3. CASE T = {}
  BY <1>3, <1>1, <1>2 DEF Iterates
<1>4. CASE T # {}
  <2>1. AnyOf(T) \in T
    BY <1>4 DEF AnyOf
  <2>2. T \ {AnyOf(T)} \in SUBSET S /\ T \ {AnyOf(T)} \notin B
    BY <2>1, <1>1
  <2>3. it[T] = f[AnyOf(T)] + it[T \ {AnyOf(T)}] /\ A[T] = f[AnyOf(T)] + A[T \ {AnyOf(T)}]
    BY <1>1, <1>2, <1>4 DEF Iterates
  <2> QED
    BY <2>2, <2>3, <1>1
<1> QED
  BY <1>3, <1>4

------------------------------------------------------------------------------
(* A function that satisfies the equation of the fold gives the sum, and so  *)
(* does the one that the fold chooses: with it a sum of any other form is    *)
(* put as a SumOver.                                                         *)
LEMMA SumOverChosen ==
  ASSUME NEW S, IsFiniteSet(S), NEW f, \A x \in S : f[x] \in Int
  PROVE  /\ \E it : Iterates(it, f, S)
         /\ SumOver(f, S) = (CHOOSE it : Iterates(it, f, S))[S]
<1>1. \E it : Iterates(it, f, S)
  BY AdditiveExists, AdditiveIterates
<1>2. SumOver(f, S) = (CHOOSE it : Iterates(it, f, S))[S]
  BY Zenon DEF SumOver, MapThenSumSet, MapThenFoldSet, Iterates, AnyOf
<1> QED
  BY <1>1, <1>2

LEMMA SumIterated ==
  ASSUME NEW S, IsFiniteSet(S), NEW f, \A x \in S : f[x] \in Int, NEW it, Iterates(it, f, S)
  PROVE  it[S] = SumOver(f, S)
<1>1. PICK A : Additive(A, f, S)
  BY AdditiveExists
<1>2. it[S] = A[S]
  BY <1>1, IteratesAdditive
<1> DEFINE other == CHOOSE i : Iterates(i, f, S)
<1>3. Iterates(other, f, S) /\ SumOver(f, S) = other[S]
  BY SumOverChosen
<1>4. other[S] = A[S]
  BY <1>1, <1>3, IteratesAdditive
<1> QED
  BY <1>2, <1>3, <1>4

(* What is additive on a set gives the sums over its subsets.                *)
LEMMA SumAdditive ==
  ASSUME NEW S, IsFiniteSet(S), NEW f, NEW A, Additive(A, f, S), \A x \in S : f[x] \in Int,
         NEW T \in SUBSET S
  PROVE  SumOver(f, T) = A[T]
<1> DEFINE C == [R \in SUBSET T |-> A[R]]
<1>1. Additive(C, f, T)
  BY DEF Additive
<1>2. IsFiniteSet(T)
  BY FS_Subset
<1>3. Iterates(C, f, T)
  BY <1>1, AdditiveIterates
<1>4. C[T] = SumOver(f, T)
  <2> HIDE DEF C
  <2> QED
    BY <1>2, <1>3, SumIterated
<1> QED
  BY <1>4

(* The sum over no element is 0.                                             *)
THEOREM SumEmpty ==
  ASSUME NEW f
  PROVE  SumOver(f, {}) = 0
<1>1. Additive([T \in SUBSET {} |-> 0], f, {})
  BY DEF Additive
<1>2. IsFiniteSet({})
  BY FS_EmptySet
<1> QED
  BY <1>1, <1>2, SumAdditive

(* One more element adds its summand.                                        *)
THEOREM SumAdd ==
  ASSUME NEW S, IsFiniteSet(S), NEW f, \A y \in S : f[y] \in Int, NEW x, x \notin S, f[x] \in Int
  PROVE  SumOver(f, S \cup {x}) = SumOver(f, S) + f[x]
<1> DEFINE all == S \cup {x}
<1>1. IsFiniteSet(all)
  BY FS_AddElement
<1>2. \A y \in all : f[y] \in Int
  OBVIOUS
<1>3. PICK A : Additive(A, f, all)
  BY <1>1, <1>2, AdditiveExists
<1>4. SumOver(f, all) = A[all] /\ SumOver(f, S) = A[S]
  BY <1>1, <1>2, <1>3, SumAdditive
<1> QED
  BY <1>3, <1>4 DEF Additive

(* A sum of integers is an integer.                                          *)
THEOREM SumInt ==
  ASSUME NEW S, IsFiniteSet(S), NEW f, \A x \in S : f[x] \in Int
  PROVE  SumOver(f, S) \in Int
<1>1. PICK A : Additive(A, f, S)
  BY AdditiveExists
<1>2. SumOver(f, S) = A[S]
  BY <1>1, SumAdditive
<1> QED
  BY <1>1, <1>2 DEF Additive

(* One element less takes its summand off.                                   *)
THEOREM SumRemove ==
  ASSUME NEW S, IsFiniteSet(S), NEW f, \A y \in S : f[y] \in Int, NEW x \in S
  PROVE  SumOver(f, S) = SumOver(f, S \ {x}) + f[x]
<1>1. IsFiniteSet(S \ {x}) /\ (S \ {x}) \cup {x} = S
  BY FS_RemoveElement
<1> QED
  BY <1>1, SumAdd

(* The induction: what holds of the sum over {} and is kept by one more      *)
(* element holds of every subset.  H is the set of the subsets it holds of.  *)
LEMMA SubsetInduction ==
  ASSUME NEW S, IsFiniteSet(S), NEW H, {} \in H,
         \A T \in SUBSET S : \A x \in S \ T : T \in H => T \cup {x} \in H
  PROVE  S \in H
<1> DEFINE B == {T \in SUBSET S : T \notin H}
<1> SUFFICES ASSUME B # {} PROVE FALSE
  OBVIOUS
<1>1. PICK T \in B : \A U \in B : ~(U \subseteq T /\ U # T)
  <2>1. B \in SUBSET SUBSET S
    OBVIOUS
  <2> HIDE DEF B
  <2> QED
    BY <2>1, Smallest
<1>2. PICK x \in T : TRUE
  BY <1>1
<1>3. T \ {x} \in SUBSET S /\ T \ {x} \in H /\ x \in S \ (T \ {x}) /\ (T \ {x}) \cup {x} = T
  BY <1>1, <1>2
<1> QED
  BY <1>1, <1>3

(* Larger summands have a larger sum.                                        *)
THEOREM SumMonotone ==
  ASSUME NEW S, IsFiniteSet(S), NEW f, NEW g,
         \A x \in S : f[x] \in Int /\ g[x] \in Int /\ f[x] <= g[x]
  PROVE  SumOver(f, S) <= SumOver(g, S)
<1> DEFINE H == {T \in SUBSET S : SumOver(f, T) <= SumOver(g, T)}
<1>1. {} \in H
  BY SumEmpty
<1>2. ASSUME NEW T \in SUBSET S, NEW x \in S \ T, T \in H
      PROVE  T \cup {x} \in H
  <2>1. IsFiniteSet(T)
    BY FS_Subset
  <2>2. /\ SumOver(f, T \cup {x}) = SumOver(f, T) + f[x]
        /\ SumOver(g, T \cup {x}) = SumOver(g, T) + g[x]
    BY <2>1, SumAdd
  <2>3. SumOver(f, T) \in Int /\ SumOver(g, T) \in Int
    BY <2>1, SumInt
  <2> QED
    BY <1>2, <2>2, <2>3
<1>3. S \in H
  <2> HIDE DEF H
  <2> QED
    BY <1>1, <1>2, SubsetInduction
<1> QED
  BY <1>3

(* Equal summands have the same sum.                                         *)
THEOREM SumSame ==
  ASSUME NEW S, IsFiniteSet(S), NEW f, NEW g, \A x \in S : f[x] \in Int /\ f[x] = g[x]
  PROVE  SumOver(f, S) = SumOver(g, S)
<1>1. SumOver(f, S) <= SumOver(g, S) /\ SumOver(g, S) <= SumOver(f, S)
  BY SumMonotone
<1>2. SumOver(f, S) \in Int /\ SumOver(g, S) \in Int
  BY SumInt
<1> QED
  BY <1>1, <1>2

(* The sums over two disjoint sets add up.                                   *)
THEOREM SumUnion ==
  ASSUME NEW S, IsFiniteSet(S), NEW R, IsFiniteSet(R), S \cap R = {},
         NEW f, \A x \in S \cup R : f[x] \in Int
  PROVE  SumOver(f, S \cup R) = SumOver(f, S) + SumOver(f, R)
<1> DEFINE H == {T \in SUBSET R : SumOver(f, S \cup T) = SumOver(f, S) + SumOver(f, T)}
<1>1. {} \in H
  BY SumEmpty, SumInt, S \cup {} = S
<1>2. ASSUME NEW T \in SUBSET R, NEW x \in R \ T, T \in H
      PROVE  T \cup {x} \in H
  <2>1. IsFiniteSet(T)
    BY FS_Subset
  <2>2. IsFiniteSet(S \cup T) /\ x \notin S \cup T /\ (S \cup T) \cup {x} = S \cup (T \cup {x})
    BY <2>1, FS_Union
  <2>3. /\ SumOver(f, (S \cup T) \cup {x}) = SumOver(f, S \cup T) + f[x]
        /\ SumOver(f, T \cup {x}) = SumOver(f, T) + f[x]
    BY <2>1, <2>2, SumAdd
  <2>4. SumOver(f, S) \in Int /\ SumOver(f, T) \in Int /\ f[x] \in Int
    BY <2>1, SumInt
  <2>5. SumOver(f, S \cup T) = SumOver(f, S) + SumOver(f, T)
    BY <1>2
  <2>6. SumOver(f, S \cup (T \cup {x})) = SumOver(f, S) + SumOver(f, T \cup {x})
    <3>1. SumOver(f, S \cup (T \cup {x})) = SumOver(f, S \cup T) + f[x]
      BY <2>2, <2>3, Zenon
    <3> QED
      BY <3>1, <2>3, <2>4, <2>5
  <2> QED
    BY <2>6
<1>3. R \in H
  <2> HIDE DEF H
  <2> QED
    BY <1>1, <1>2, SubsetInduction
<1> QED
  BY <1>3

(* A sum of naturals is a natural.                                           *)
THEOREM SumNat ==
  ASSUME NEW S, IsFiniteSet(S), NEW f, \A x \in S : f[x] \in Nat
  PROVE  SumOver(f, S) \in Nat
<1> DEFINE H == {T \in SUBSET S : SumOver(f, T) \in Nat}
<1>1. {} \in H
  BY SumEmpty
<1>2. ASSUME NEW T \in SUBSET S, NEW x \in S \ T, T \in H
      PROVE  T \cup {x} \in H
  <2>1. IsFiniteSet(T)
    BY FS_Subset
  <2>2. SumOver(f, T \cup {x}) = SumOver(f, T) + f[x]
    BY <2>1, SumAdd
  <2> QED
    BY <1>2, <2>2
<1>3. S \in H
  <2> HIDE DEF H
  <2> QED
    BY <1>1, <1>2, SubsetInduction
<1> QED
  BY <1>3

(* Leaving naturals out can only make a sum smaller.                         *)
THEOREM SumSubset ==
  ASSUME NEW S, IsFiniteSet(S), NEW f, \A x \in S : f[x] \in Nat, NEW T \in SUBSET S
  PROVE  SumOver(f, T) <= SumOver(f, S)
<1>1. IsFiniteSet(T) /\ IsFiniteSet(S \ T) /\ T \cap (S \ T) = {} /\ T \cup (S \ T) = S
  BY FS_Subset
<1>2. SumOver(f, S) = SumOver(f, T) + SumOver(f, S \ T)
  BY <1>1, SumUnion
<1>3. SumOver(f, T) \in Nat /\ SumOver(f, S \ T) \in Nat
  BY <1>1, SumNat
<1> QED
  BY <1>2, <1>3

(* A sum may be taken over the images of its elements, if no two share one.  *)
THEOREM SumImage ==
  ASSUME NEW S, IsFiniteSet(S), NEW g, NEW m, \A x \in S : g[m[x]] \in Int,
         \A x, y \in S : m[x] = m[y] => x = y,
         NEW f, \A x \in S : f[x] = g[m[x]]
  PROVE  /\ IsFiniteSet({m[x] : x \in S})
         /\ SumOver(f, S) = SumOver(g, {m[x] : x \in S})
<1> DEFINE im(T) == {m[x] : x \in T}
           H == {T \in SUBSET S : IsFiniteSet(im(T)) /\ SumOver(f, T) = SumOver(g, im(T))}
<1>1. {} \in H
  <2>1. im({}) = {}
    OBVIOUS
  <2> QED
    BY <2>1, SumEmpty, FS_EmptySet, Zenon
<1>2. ASSUME NEW T \in SUBSET S, NEW x \in S \ T, T \in H
      PROVE  T \cup {x} \in H
  <2>1. IsFiniteSet(T) /\ IsFiniteSet(im(T))
    BY <1>2, FS_Subset
  <2>2. im(T \cup {x}) = im(T) \cup {m[x]} /\ m[x] \notin im(T)
    OBVIOUS
  <2>3. SumOver(f, T \cup {x}) = SumOver(f, T) + f[x]
    BY <2>1, SumAdd
  <2>4. \A z \in im(T) : g[z] \in Int
    OBVIOUS
  <2>5. SumOver(g, im(T) \cup {m[x]}) = SumOver(g, im(T)) + g[m[x]]
    <3> HIDE DEF im
    <3> QED
      BY <2>1, <2>2, <2>4, SumAdd
  <2> HIDE DEF im
  <2>6. SumOver(f, T) = SumOver(g, im(T)) /\ f[x] = g[m[x]]
    BY <1>2
  <2>7. IsFiniteSet(im(T \cup {x}))
    <3>1. IsFiniteSet(im(T) \cup {m[x]})
      BY <2>1, FS_AddElement
    <3> QED
      BY <2>2, <3>1, Zenon
  <2>8. SumOver(f, T \cup {x}) = SumOver(g, im(T \cup {x}))
    BY <2>2, <2>3, <2>5, <2>6
  <2> QED
    BY <2>7, <2>8
<1>3. S \in H
  <2> HIDE DEF H
  <2> QED
    BY <1>1, <1>2, SubsetInduction
<1> QED
  BY <1>3

(* The sum of two sums is the sum of the two summands.                       *)
THEOREM SumPlus ==
  ASSUME NEW S, IsFiniteSet(S), NEW f, NEW g, NEW h,
         \A x \in S : f[x] \in Int /\ g[x] \in Int /\ h[x] = f[x] + g[x]
  PROVE  SumOver(h, S) = SumOver(f, S) + SumOver(g, S)
<1> DEFINE H == {T \in SUBSET S : SumOver(h, T) = SumOver(f, T) + SumOver(g, T)}
<1>1. {} \in H
  BY SumEmpty
<1>2. ASSUME NEW T \in SUBSET S, NEW x \in S \ T, T \in H
      PROVE  T \cup {x} \in H
  <2>1. IsFiniteSet(T) /\ \A y \in S : h[y] \in Int
    BY FS_Subset
  <2>2. /\ SumOver(f, T \cup {x}) = SumOver(f, T) + f[x]
        /\ SumOver(g, T \cup {x}) = SumOver(g, T) + g[x]
        /\ SumOver(h, T \cup {x}) = SumOver(h, T) + h[x]
    BY <2>1, SumAdd
  <2>3. SumOver(f, T) \in Int /\ SumOver(g, T) \in Int
    BY <2>1, SumInt
  <2> QED
    BY <1>2, <2>2, <2>3
<1>3. S \in H
  <2> HIDE DEF H
  <2> QED
    BY <1>1, <1>2, SubsetInduction
<1> QED
  BY <1>3

(* A sum of nothing but zeros is zero.                                       *)
THEOREM SumZero ==
  ASSUME NEW S, IsFiniteSet(S), NEW f, \A x \in S : f[x] = 0
  PROVE  SumOver(f, S) = 0
<1> DEFINE H == {T \in SUBSET S : SumOver(f, T) = 0}
<1>1. {} \in H
  BY SumEmpty
<1>2. ASSUME NEW T \in SUBSET S, NEW x \in S \ T, T \in H
      PROVE  T \cup {x} \in H
  <2>1. IsFiniteSet(T)
    BY FS_Subset
  <2>2. SumOver(f, T \cup {x}) = SumOver(f, T) + 0
    BY <2>1, SumAdd
  <2> QED
    BY <1>2, <2>2
<1>3. S \in H
  <2> HIDE DEF H
  <2> QED
    BY <1>1, <1>2, SubsetInduction
<1> QED
  BY <1>3

(* Elements that add nothing may be left out of a sum.                       *)
THEOREM SumSupport ==
  ASSUME NEW S, IsFiniteSet(S), NEW T \in SUBSET S, NEW f, \A x \in S : f[x] \in Int,
         \A x \in S \ T : f[x] = 0
  PROVE  SumOver(f, S) = SumOver(f, T)
<1>1. IsFiniteSet(T) /\ IsFiniteSet(S \ T)
  BY FS_Subset
<1>2. SumOver(f, T \cup (S \ T)) = SumOver(f, T) + SumOver(f, S \ T)
  BY <1>1, SumUnion
<1>3. SumOver(f, S \ T) = 0
  BY <1>1, SumZero
<1>4. SumOver(f, T) \in Int
  BY <1>1, SumInt
<1>5. SumOver(f, S) = SumOver(f, T) + SumOver(f, S \ T)
  <2>1. T \cup (S \ T) = S
    OBVIOUS
  <2> QED
    BY <1>2, <2>1, Zenon
<1> QED
  BY <1>3, <1>4, <1>5

(* Counting is adding ones.                                                  *)
THEOREM SumOnes ==
  ASSUME NEW S, IsFiniteSet(S), NEW f, \A x \in S : f[x] = 1
  PROVE  SumOver(f, S) = Cardinality(S)
<1> DEFINE H == {T \in SUBSET S : SumOver(f, T) = Cardinality(T)}
<1>1. {} \in H
  BY SumEmpty, FS_EmptySet
<1>2. ASSUME NEW T \in SUBSET S, NEW x \in S \ T, T \in H
      PROVE  T \cup {x} \in H
  <2>1. IsFiniteSet(T)
    BY FS_Subset
  <2>2. SumOver(f, T \cup {x}) = SumOver(f, T) + 1
    BY <2>1, SumAdd
  <2>3. Cardinality(T \cup {x}) = Cardinality(T) + 1
    BY <2>1, FS_AddElement
  <2> QED
    BY <1>2, <2>2, <2>3
<1>3. S \in H
  <2> HIDE DEF H
  <2> QED
    BY <1>1, <1>2, SubsetInduction
<1> QED
  BY <1>3

(* A sum over one element is its summand.                                    *)
THEOREM SumOne ==
  ASSUME NEW x, NEW f, f[x] \in Int
  PROVE  SumOver(f, {x}) = f[x]
<1>1. SumOver(f, {} \cup {x}) = SumOver(f, {}) + f[x]
  BY FS_EmptySet, SumAdd
<1>2. {} \cup {x} = {x}
  OBVIOUS
<1>3. SumOver(f, {x}) = SumOver(f, {}) + f[x]
  BY <1>1, <1>2, Zenon
<1> QED
  BY <1>3, SumEmpty

(* A common factor may be taken out of a sum.                                *)
THEOREM SumScale ==
  ASSUME NEW S, IsFiniteSet(S), NEW f, NEW g, NEW c \in Int,
         \A x \in S : f[x] \in Int /\ g[x] = c * f[x]
  PROVE  SumOver(g, S) = c * SumOver(f, S)
<1> DEFINE H == {T \in SUBSET S : SumOver(g, T) = c * SumOver(f, T)}
<1>0. \A a \in Int : c * a \in Int
  OBVIOUS
<1>1. {} \in H
  BY SumEmpty
<1>2. ASSUME NEW T \in SUBSET S, NEW x \in S \ T, T \in H
      PROVE  T \cup {x} \in H
  <2>1. IsFiniteSet(T)
    BY FS_Subset
  <2>2. \A y \in S : g[y] \in Int
    BY <1>0
  <2>3. /\ SumOver(f, T \cup {x}) = SumOver(f, T) + f[x]
        /\ SumOver(g, T \cup {x}) = SumOver(g, T) + g[x]
    BY <2>1, <2>2, SumAdd
  <2>4. SumOver(f, T) \in Int /\ f[x] \in Int
    BY <2>1, SumInt
  <2>5. \A a, b \in Int : c * (a + b) = c * a + c * b
    OBVIOUS
  <2> QED
    BY <1>2, <2>3, <2>4, <2>5
<1>3. S \in H
  <2> HIDE DEF H
  <2> QED
    BY <1>1, <1>2, SubsetInduction
<1> QED
  BY <1>3

(* Whole and remainder of a quotient.                                        *)
LEMMA Quotient ==
  ASSUME NEW a \in Int, NEW W \in Nat \ {0}
  PROVE  /\ a \div W \in Int /\ a % W \in Int /\ W * (a \div W) \in Int
         /\ a = W * (a \div W) + (a % W)
         /\ a % W \in 0 .. W - 1
<1> DEFINE rest == a % W
<1>1. a \div W \in Int /\ a % W \in Int /\ W * (a \div W) \in Int
  OBVIOUS
<1>2. a % W = a - W * (a \div W)
  OBVIOUS
<1>3. a % W \in 0 .. W - 1
  OBVIOUS
<1> HIDE DEF rest
<1>4. a = W * (a \div W) + rest
  BY <1>1, <1>2 DEF rest
<1> QED
  BY <1>1, <1>3, <1>4 DEF rest

(* A sum of that many numbers, each less than W.                             *)
LEMMA SumBelow ==
  ASSUME NEW S, IsFiniteSet(S), NEW W \in Nat \ {0}, NEW f, \A x \in S : f[x] \in 0 .. W - 1
  PROVE  /\ SumOver(f, S) \in Nat /\ Cardinality(S) \in Nat
         /\ SumOver(f, S) <= (W - 1) * Cardinality(S)
<1> DEFINE ones == [x \in S |-> 1]
           tops == [x \in S |-> (W - 1) * ones[x]]
<1>1. /\ \A x \in S : ones[x] = 1 /\ tops[x] = (W - 1) * ones[x] /\ ones[x] \in Int
      /\ W - 1 \in Int
  OBVIOUS
<1>2. \A x \in S : tops[x] \in Int /\ tops[x] = W - 1 /\ f[x] \in Int /\ f[x] <= tops[x] /\ f[x] \in Nat
  BY <1>1
<1> HIDE DEF ones, tops
<1>3. SumOver(f, S) <= SumOver(tops, S)
  BY <1>2, SumMonotone
<1>4. SumOver(tops, S) = (W - 1) * SumOver(ones, S)
  BY <1>1, SumScale
<1>5. SumOver(ones, S) = Cardinality(S)
  BY <1>1, SumOnes
<1>6. SumOver(f, S) \in Nat
  BY <1>2, SumNat
<1>7. Cardinality(S) \in Nat
  BY FS_CardinalityType
<1> QED
  BY <1>3, <1>4, <1>5, <1>6, <1>7

(* Multiples of W are W apart.                                              *)
LEMMA Times ==
  ASSUME NEW W \in Nat \ {0}, NEW a \in Int, NEW b \in Int
  PROVE  /\ W * a \in Int /\ W * b \in Int
         /\ a <= b => W * a <= W * b
         /\ a < b => W * a + W <= W * b
         /\ W * a < W * b + W => a <= b
         /\ W * (a + 1) = W * a + W
<1>1. W * a \in Int /\ W * b \in Int /\ W * (a + 1) = W * a + W /\ W * (b + 1) = W * b + W
  OBVIOUS
<1>2. ASSUME NEW c \in Int, NEW d \in Int, c <= d PROVE W * c <= W * d
  <2>1. d - c \in Nat /\ W * (d - c) \in Nat
    BY <1>2
  <2>2. W * d = W * c + W * (d - c)
    OBVIOUS
  <2>3. W * c \in Int /\ W * d \in Int
    OBVIOUS
  <2> QED
    BY <2>1, <2>2, <2>3
<1>3. a < b => W * (a + 1) <= W * b
  BY <1>2
<1>4. ~(a <= b) => W * (b + 1) <= W * a
  BY <1>2
<1> QED
  BY <1>1, <1>2, <1>3, <1>4

------------------------------------------------------------------------------
(* The sum of the values of a function is a sum over its domain.             *)
LEMMA SumOfOver == \A f : SumOf(f) = SumOver(f, DOMAIN f)
<1> TAKE f
<1> QED
  BY Zenon DEF SumOf, FoldFunction, FoldFunctionOnSet, SumOver, MapThenSumSet, MapThenFoldSet

-----------------------------------------------------------------------------
(* allocateProportional *)

Weights == Seq(Nat) \ {<<>>}

LEMMA WeightsFinite ==
  ASSUME NEW w \in Weights
  PROVE  /\ IsFiniteSet(DOMAIN w) /\ DOMAIN w # {} /\ DOMAIN w = 1 .. Len(w) /\ Len(w) \in Nat \ {0}
         /\ w \in [DOMAIN w -> Nat]
<1>1. Len(w) \in Nat \ {0} /\ DOMAIN w = 1 .. Len(w) /\ w \in [DOMAIN w -> Nat]
  BY DEF Weights
<1> QED
  BY <1>1, FS_Interval

(* Some weight is positive, and so is their sum.                             *)
LEMMA EffectiveSum ==
  ASSUME NEW w \in Weights
  PROVE  /\ Effective(w) \in [DOMAIN w -> Nat]
         /\ SumOf(Effective(w)) \in Nat \ {0}
<1>1. /\ Effective(w) \in [DOMAIN w -> Nat]
      /\ \E i \in DOMAIN w : Effective(w)[i] > 0
  BY WeightsFinite DEF Effective
<1>2. PICK i \in DOMAIN w : Effective(w)[i] > 0
  BY <1>1
<1> DEFINE e == Effective(w)
<1>3. DOMAIN e = DOMAIN w /\ \A j \in DOMAIN w : e[j] \in Nat
  BY <1>1
<1> HIDE DEF e
<1>4. /\ SumOver(e, DOMAIN w) = SumOver(e, DOMAIN w \ {i}) + e[i]
      /\ SumOver(e, DOMAIN w \ {i}) \in Nat
  <2>1. IsFiniteSet(DOMAIN w) /\ IsFiniteSet(DOMAIN w \ {i})
    BY WeightsFinite, FS_Subset
  <2> QED
    BY <1>3, <2>1, SumRemove, SumNat
<1>5. SumOf(e) = SumOver(e, DOMAIN w)
  BY <1>3, SumOfOver
<1>6. e[i] \in Nat /\ e[i] > 0
  BY <1>2, <1>3 DEF e
<1>7. SumOf(e) \in Nat \ {0}
  BY <1>4, <1>5, <1>6
<1> QED
  BY <1>1, <1>7 DEF e

LEMMA FloorsInt ==
  ASSUME NEW w \in Weights, NEW t \in Int
  PROVE  /\ Floors(t, w) \in [DOMAIN w -> Int]
         /\ t \in Nat => Floors(t, w) \in [DOMAIN w -> Nat]
<1> DEFINE e == Effective(w)
           W == SumOf(e)
<1>1. e \in [DOMAIN w -> Nat] /\ W \in Nat \ {0}
  BY EffectiveSum
<1>2. Floors(t, w) = [i \in DOMAIN w |-> (t * e[i]) \div W]
  BY <1>1 DEF Floors
<1> HIDE DEF e, W
<1>3. \A a \in Int : a \div W \in Int
  BY <1>1
<1>4. \A a \in Nat : a \div W \in Nat
  BY <1>1
<1>5. \A i \in DOMAIN w : t * e[i] \in Int /\ (t \in Nat => t * e[i] \in Nat)
  <2>1. \A a \in Nat : t * a \in Int
    OBVIOUS
  <2>2. ASSUME t \in Nat PROVE \A a \in Nat : t * a \in Nat
    BY <2>2
  <2> QED
    BY <1>1, <2>1, <2>2
<1> QED
  BY <1>2, <1>3, <1>4, <1>5

LEMMA LeftoverInt ==
  ASSUME NEW w \in Weights, NEW t \in Int
  PROVE  /\ SumOf(Floors(t, w)) = SumOver(Floors(t, w), DOMAIN w)
         /\ SumOf(Floors(t, w)) \in Int /\ Leftover(t, w) \in Int
<1>1. Floors(t, w) \in [DOMAIN w -> Int] /\ IsFiniteSet(DOMAIN w)
  BY FloorsInt, WeightsFinite
<1>2. SumOf(Floors(t, w)) = SumOver(Floors(t, w), DOMAIN w)
  BY <1>1, SumOfOver
<1>3. SumOver(Floors(t, w), DOMAIN w) \in Int
  BY <1>1, SumInt
<1> QED
  BY <1>2, <1>3 DEF Leftover

(* Whatever shares a split may return, they add up to the total.             *)
THEOREM AllocationExact ==
  ASSUME NEW w \in Weights, NEW t \in Int, NEW shares \in Allocations(t, w)
  PROVE  /\ shares \in [DOMAIN w -> Int] /\ SumOf(shares) = t
         /\ t \in Nat => shares \in [DOMAIN w -> Nat]
<1> DEFINE floors == Floors(t, w)
<1>1. PICK lucky \in SUBSET DOMAIN w :
        /\ Cardinality(lucky) = Leftover(t, w)
        /\ shares = [i \in DOMAIN w |-> floors[i] + (IF i \in lucky THEN 1 ELSE 0)]
  BY DEF Allocations
<1> DEFINE extra == [i \in DOMAIN w |-> IF i \in lucky THEN 1 ELSE 0]
<1>2. floors \in [DOMAIN w -> Int] /\ (t \in Nat => floors \in [DOMAIN w -> Nat])
  BY FloorsInt
<1>3. IsFiniteSet(DOMAIN w) /\ IsFiniteSet(lucky)
  BY WeightsFinite, FS_Subset
<1> HIDE DEF floors
<1>4. /\ shares \in [DOMAIN w -> Int] /\ (t \in Nat => shares \in [DOMAIN w -> Nat])
  BY <1>1, <1>2
<1>5. SumOver(extra, DOMAIN w) = Cardinality(lucky)
  <2>1. /\ \A i \in DOMAIN w : extra[i] \in Int
        /\ \A i \in DOMAIN w \ lucky : extra[i] = 0
        /\ \A i \in lucky : extra[i] = 1
    OBVIOUS
  <2> HIDE DEF extra
  <2>2. SumOver(extra, DOMAIN w) = SumOver(extra, lucky)
    BY <1>3, <2>1, SumSupport
  <2>3. SumOver(extra, lucky) = Cardinality(lucky)
    BY <1>3, <2>1, SumOnes
  <2> QED
    BY <2>2, <2>3
<1>6. \A i \in DOMAIN w : /\ floors[i] \in Int /\ extra[i] \in Int
                          /\ shares[i] = floors[i] + extra[i]
  BY <1>1, <1>2
<1>7. SumOver(shares, DOMAIN w) = SumOver(floors, DOMAIN w) + SumOver(extra, DOMAIN w)
  <2> HIDE DEF extra
  <2> QED
    BY <1>3, <1>6, SumPlus
<1>8. SumOver(floors, DOMAIN w) = SumOf(floors) /\ SumOf(floors) \in Int
      /\ Leftover(t, w) = t - SumOf(floors)
  BY LeftoverInt DEF floors, Leftover
<1>9. SumOf(shares) = SumOver(shares, DOMAIN w)
  BY <1>4, SumOfOver
<1> HIDE DEF extra
<1> QED
  BY <1>1, <1>4, <1>5, <1>7, <1>8, <1>9

(* What rounding down cuts off everybody.                                    *)
Fractions(t, w) == [i \in DOMAIN w |-> Fraction(t, w, i)]
Whole(w) == SumOf(Effective(w))

LEMMA QuotaParts ==
  ASSUME NEW w \in Weights, NEW t \in Int
  PROVE  /\ Whole(w) \in Nat \ {0} /\ Effective(w) \in [DOMAIN w -> Nat]
         /\ \A i \in DOMAIN w :
              /\ Fraction(t, w, i) \in 0 .. Whole(w) - 1
              /\ Fractions(t, w)[i] = Fraction(t, w, i)
              /\ t * Effective(w)[i] = Whole(w) * Floors(t, w)[i] + Fraction(t, w, i)
              /\ t * Effective(w)[i] \in Int /\ Floors(t, w)[i] \in Int
              /\ Whole(w) * Floors(t, w)[i] \in Int
<1> DEFINE e == Effective(w)
           W == Whole(w)
<1>1. e \in [DOMAIN w -> Nat] /\ W \in Nat \ {0} /\ W = SumOf(e)
  BY EffectiveSum DEF Whole
<1>2. /\ Floors(t, w) = [i \in DOMAIN w |-> (t * e[i]) \div W]
      /\ \A i : Fraction(t, w, i) = (t * e[i]) % W
  BY <1>1 DEF Floors, Fraction
<1> HIDE DEF e, W
<1>3. \A i \in DOMAIN w : t * e[i] \in Int
  BY <1>1
<1>4. \A i \in DOMAIN w :
        /\ (t * e[i]) % W \in 0 .. W - 1 /\ t * e[i] = W * ((t * e[i]) \div W) + ((t * e[i]) % W)
        /\ (t * e[i]) \div W \in Int /\ W * ((t * e[i]) \div W) \in Int
  BY <1>1, <1>3, Quotient
<1> QED
  BY <1>1, <1>2, <1>3, <1>4 DEF Fractions, e, W

(* Together the fractions are the cents left over.                           *)
LEMMA FractionSum ==
  ASSUME NEW w \in Weights, NEW t \in Int
  PROVE  SumOver(Fractions(t, w), DOMAIN w) = Whole(w) * Leftover(t, w)
<1> DEFINE e == Effective(w)
           W == Whole(w)
           n == DOMAIN w
           floors == Floors(t, w)
           fractions == Fractions(t, w)
           quotas == [i \in n |-> t * e[i]]
           paid == [i \in n |-> W * floors[i]]
<1>1. IsFiniteSet(n) /\ W \in Nat \ {0} /\ e \in [n -> Nat]
  BY WeightsFinite, QuotaParts
<1>2. \A i \in n : /\ quotas[i] = paid[i] + fractions[i] /\ quotas[i] = t * e[i] /\ paid[i] = W * floors[i]
                   /\ quotas[i] \in Int /\ paid[i] \in Int /\ fractions[i] \in Int
                   /\ e[i] \in Int /\ floors[i] \in Int
  BY QuotaParts
<1>3. SumOf(floors) = SumOver(floors, n) /\ SumOver(floors, n) \in Int /\ Leftover(t, w) = t - SumOf(floors)
  BY LeftoverInt DEF Leftover
<1>4. W = SumOver(e, n)
  <2>1. W = SumOver(e, DOMAIN e)
    BY SumOfOver DEF Whole
  <2> QED
    BY <2>1, <1>1
<1> HIDE DEF e, W, n, floors, fractions, quotas, paid
<1>5. SumOver(quotas, n) = t * W
  BY <1>1, <1>2, <1>4, SumScale
<1>6. SumOver(paid, n) = W * SumOver(floors, n)
  BY <1>1, <1>2, SumScale
<1>7. SumOver(quotas, n) = SumOver(paid, n) + SumOver(fractions, n)
  BY <1>1, <1>2, SumPlus
<1>8. SumOver(fractions, n) \in Int
  BY <1>1, <1>2, SumInt
<1>9. \A a, b \in Int : W * (a - b) = a * W - W * b /\ a * W \in Int /\ W * b \in Int
  BY <1>1
<1>10. SumOver(fractions, n) = W * (t - SumOver(floors, n))
  <2>1. W * (t - SumOver(floors, n)) = t * W - W * SumOver(floors, n)
        /\ t * W \in Int /\ W * SumOver(floors, n) \in Int
    BY <1>3, <1>9
  <2> QED
    BY <2>1, <1>5, <1>6, <1>7, <1>8
<1> QED
  BY <1>3, <1>10 DEF fractions, W, n

(* Less than a cent each is left over.                                       *)
THEOREM LeftoverBound ==
  ASSUME NEW w \in Weights, NEW t \in Int
  PROVE  Leftover(t, w) \in 0 .. Len(w) - 1
<1> DEFINE n == DOMAIN w
           W == Whole(w)
           left == Leftover(t, w)
           f == Fractions(t, w)
<1>1. /\ IsFiniteSet(n) /\ Cardinality(n) = Len(w) /\ Len(w) \in Nat \ {0}
      /\ W \in Nat \ {0} /\ left \in Int /\ \A i \in n : f[i] \in 0 .. W - 1
  <2>1. n = 1 .. Len(w) /\ Len(w) \in Nat \ {0} /\ IsFiniteSet(n)
    BY WeightsFinite
  <2>2. Cardinality(1 .. Len(w)) = Len(w)
    BY <2>1, FS_Interval
  <2>3. W \in Nat \ {0} /\ left \in Int
    BY QuotaParts, LeftoverInt
  <2>4. \A i \in n : f[i] \in 0 .. W - 1
    BY QuotaParts
  <2> QED
    BY <2>1, <2>2, <2>3, <2>4
<1>2. SumOver(f, n) = W * left
  BY FractionSum
<1> HIDE DEF n, W, left, f
<1>3. SumOver(f, n) \in Nat /\ SumOver(f, n) <= (W - 1) * Len(w)
  BY <1>1, SumBelow
<1>4. (W - 1) * Len(w) = W * Len(w) - Len(w) /\ W * Len(w) \in Int
  BY <1>1
<1>5. left >= 0
  <2>1. left < 0 => W * left + W <= W * 0
    BY <1>1, Times
  <2> QED
    BY <2>1, <1>1, <1>2, <1>3
<1>6. left < Len(w)
  <2>1. Len(w) <= left => W * Len(w) <= W * left
    BY <1>1, Times
  <2>2. W * left \in Int
    BY <1>2, <1>3
  <2> QED
    BY <2>1, <2>2, <1>1, <1>2, <1>3, <1>4
<1> QED
  BY <1>1, <1>5, <1>6 DEF left

(* Who may get an odd cent.                                                  *)
Lucky(t, w) ==
  {S \in SUBSET DOMAIN w :
     /\ Cardinality(S) = Leftover(t, w)
     /\ \A i \in S, j \in DOMAIN w \ S : ~Before(t, w, j, i)}

(* An odd cent goes to nobody whose quota is whole.                          *)
LEMMA LuckyFraction ==
  ASSUME NEW w \in Weights, NEW t \in Int, NEW lucky \in Lucky(t, w), NEW i \in lucky
  PROVE  Fraction(t, w, i) > 0
<1> SUFFICES ASSUME ~(Fraction(t, w, i) > 0) PROVE FALSE
  OBVIOUS
<1> DEFINE n == DOMAIN w
           W == Whole(w)
           f == Fractions(t, w)
           rest == lucky \ {i}
<1>1. /\ IsFiniteSet(n) /\ W \in Nat \ {0} /\ lucky \in SUBSET n
      /\ \A j \in n : f[j] \in 0 .. W - 1 /\ f[j] = Fraction(t, w, j)
  <2>1. IsFiniteSet(n) /\ W \in Nat \ {0}
    BY WeightsFinite, QuotaParts
  <2>2. \A j \in n : f[j] \in 0 .. W - 1 /\ f[j] = Fraction(t, w, j)
    BY QuotaParts
  <2>3. lucky \in SUBSET n
    BY DEF Lucky
  <2> QED
    BY <2>1, <2>2, <2>3
<1>2. Cardinality(lucky) = Leftover(t, w) /\ SumOver(f, n) = W * Leftover(t, w)
  BY FractionSum DEF Lucky
<1>3. f[i] = 0 /\ \A j \in n \ lucky : f[j] = 0
  <2>1. \A j \in n \ lucky : ~(Fraction(t, w, j) > Fraction(t, w, i))
    BY DEF Lucky, Before
  <2> QED
    BY <2>1, <1>1
<1> HIDE DEF n, W, f, rest
<1>4. /\ IsFiniteSet(lucky) /\ IsFiniteSet(rest) /\ rest \subseteq n
      /\ Cardinality(lucky) = Cardinality(rest) + 1 /\ Cardinality(rest) \in Nat
  <2>1. IsFiniteSet(lucky)
    BY <1>1, FS_Subset
  <2>2. IsFiniteSet(rest) /\ Cardinality(rest) = Cardinality(lucky) - 1
    BY <2>1, FS_RemoveElement DEF rest
  <2>3. Cardinality(lucky) \in Nat /\ Cardinality(rest) \in Nat
    BY <2>1, <2>2, FS_CardinalityType
  <2> QED
    BY <2>1, <2>2, <2>3, <1>1 DEF rest
<1>5. \A j \in n \ rest : f[j] = 0
  BY <1>3 DEF rest
<1>6. SumOver(f, n) = SumOver(f, rest)
  BY <1>1, <1>4, <1>5, SumSupport
<1>7. SumOver(f, rest) <= (W - 1) * Cardinality(rest) /\ SumOver(f, rest) \in Nat
  BY <1>1, <1>4, SumBelow
<1>8. (W - 1) * Cardinality(rest) = W * Cardinality(rest) - Cardinality(rest) /\ W * Cardinality(rest) \in Int
  BY <1>1, <1>4
<1>9. W * (Cardinality(rest) + 1) = W * Cardinality(rest) + W
  BY <1>1, <1>4, Times
<1> QED
  BY <1>1, <1>2, <1>4, <1>6, <1>7, <1>8, <1>9

LEMMA AllocationOf ==
  ASSUME NEW w \in Weights, NEW t \in Int, NEW shares \in Allocations(t, w)
  PROVE  \E lucky \in Lucky(t, w) :
           \A i \in DOMAIN w : shares[i] = Floors(t, w)[i] + (IF i \in lucky THEN 1 ELSE 0)
BY DEF Allocations, Lucky

(* Every share is its exact quota rounded down or up (allocateProportional). *)
THEOREM AllocationQuota ==
  ASSUME NEW w \in Weights, NEW t \in Int, NEW shares \in Allocations(t, w), NEW i \in DOMAIN w
  PROVE  /\ Whole(w) * shares[i] < t * Effective(w)[i] + Whole(w)
         /\ Whole(w) * shares[i] > t * Effective(w)[i] - Whole(w)
<1> DEFINE W == Whole(w)
           quota == t * Effective(w)[i]
           floor == Floors(t, w)[i]
           f == Fraction(t, w, i)
<1>1. /\ W \in Nat \ {0} /\ f \in 0 .. W - 1 /\ quota = W * floor + f
      /\ quota \in Int /\ floor \in Int /\ W * floor \in Int
  BY QuotaParts
<1>2. PICK lucky \in Lucky(t, w) : shares[i] = floor + (IF i \in lucky THEN 1 ELSE 0)
  BY AllocationOf
<1>3. i \in lucky => f > 0
  BY LuckyFraction
<1> HIDE DEF W, quota, floor, f
<1>4. W * (floor + 1) = W * floor + W /\ floor + 0 = floor
  BY <1>1, Times
<1>5. CASE i \in lucky
  <2>1. W * shares[i] = W * floor + W
    BY <1>5, <1>2, <1>4
  <2> QED
    BY <2>1, <1>1, <1>3, <1>5 DEF W, quota
<1>6. CASE i \notin lucky
  <2>1. W * shares[i] = W * floor
    BY <1>6, <1>2, <1>4
  <2> QED
    BY <2>1, <1>1 DEF W, quota
<1> QED
  BY <1>5, <1>6

(* Nobody gets less than somebody with a smaller weight, and of two equal    *)
(* weights the first gets the odd cent (allocateProportional).               *)
THEOREM AllocationMonotone ==
  ASSUME NEW w \in Weights, NEW t \in Nat, NEW shares \in Allocations(t, w),
         NEW i \in DOMAIN w, NEW j \in DOMAIN w
  PROVE  /\ w[i] > w[j] => shares[i] >= shares[j]
         /\ w[i] = w[j] /\ i < j => shares[i] - shares[j] \in {0, 1}
<1> DEFINE W == Whole(w)
           e == Effective(w)
           a == Floors(t, w)[i]
           b == Floors(t, w)[j]
           f == Fraction(t, w, i)
           g == Fraction(t, w, j)
<1>1. /\ W \in Nat \ {0} /\ f \in 0 .. W - 1 /\ g \in 0 .. W - 1 /\ a \in Int /\ b \in Int
      /\ t * e[i] = W * a + f /\ t * e[j] = W * b + g /\ W * a \in Int /\ W * b \in Int
      /\ e[i] \in Nat /\ e[j] \in Nat /\ w[i] \in Nat /\ w[j] \in Nat
  <2>1. /\ W \in Nat \ {0} /\ e[i] \in Nat /\ e[j] \in Nat
        /\ f \in 0 .. W - 1 /\ g \in 0 .. W - 1 /\ a \in Int /\ b \in Int
    <3>1. W \in Nat \ {0} /\ e \in [DOMAIN w -> Nat]
      BY QuotaParts
    <3>2. \A k \in DOMAIN w : Fraction(t, w, k) \in 0 .. W - 1 /\ Floors(t, w)[k] \in Int
      BY QuotaParts
    <3>3. e[i] \in Nat /\ e[j] \in Nat
      BY <3>1
    <3>4. f \in 0 .. W - 1 /\ g \in 0 .. W - 1 /\ a \in Int /\ b \in Int
      BY <3>2
    <3> QED
      BY <3>1, <3>3, <3>4
  <2>2. t * e[i] = W * a + f /\ t * e[j] = W * b + g /\ W * a \in Int /\ W * b \in Int
    BY QuotaParts
  <2>3. w[i] \in Nat /\ w[j] \in Nat
    BY WeightsFinite
  <2> QED
    BY <2>1, <2>2, <2>3
<1>2. PICK lucky \in Lucky(t, w) : /\ shares[i] = a + (IF i \in lucky THEN 1 ELSE 0)
                                   /\ shares[j] = b + (IF j \in lucky THEN 1 ELSE 0)
  BY AllocationOf
<1>3. j \in lucky => g > 0 /\ (i \notin lucky => ~(f > g) /\ ~(w[i] = w[j] /\ i < j))
  <2>1. j \in lucky => g > 0
    BY LuckyFraction
  <2>2. j \in lucky /\ i \notin lucky => ~Before(t, w, i, j)
    BY DEF Lucky
  <2> QED
    BY <2>1, <2>2 DEF Before
<1>4. w[i] > w[j] => e[i] > e[j]
  BY <1>1 DEF Effective
<1>5. w[i] = w[j] => e[i] = e[j]
  BY DEF Effective
<1> HIDE DEF W, e, a, b, f, g
<1>6. ASSUME e[i] >= e[j] PROVE b <= a
  <2>1. t * e[j] <= t * e[i]
    <3>1. t * (e[i] - e[j]) \in Nat /\ t * e[i] = t * e[j] + t * (e[i] - e[j])
      BY <1>1, <1>6
    <3> QED
      BY <3>1, <1>1
  <2>2. W * b < W * a + W
    BY <2>1, <1>1
  <2> QED
    BY <2>2, <1>1, Times
<1>7. ASSUME w[i] > w[j] PROVE shares[i] >= shares[j]
  <2>1. b <= a
    BY <1>1, <1>4, <1>6, <1>7
  <2>2. ASSUME a = b, j \in lucky PROVE i \in lucky
    <3>1. t # 0
      <4>1. t = 0 => W * b + g = 0
        BY <1>1
      <4>2. b >= 0 => W * 0 <= W * b
        BY <1>1, Times
      <4>3. b < 0 => W * b + W <= W * 0
        BY <1>1, Times
      <4>4. W * 0 = 0
        BY <1>1
      <4> QED
        BY <4>1, <4>2, <4>3, <4>4, <1>1, <1>3, <2>2
    <3>2. t * e[j] < t * e[i]
      <4>1. t * e[j] + t <= t * e[i]
        BY <3>1, <1>1, <1>4, <1>7, Times
      <4>2. t * e[j] \in Int /\ t * e[i] \in Int
        BY <3>1, <1>1, Times
      <4>3. t \in Int /\ t > 0
        BY <3>1
      <4> QED
        BY <4>1, <4>2, <4>3
    <3> QED
      BY <3>2, <2>2, <1>1, <1>3
  <2> QED
    BY <2>1, <2>2, <1>1, <1>2
<1>8. ASSUME w[i] = w[j], i < j PROVE shares[i] - shares[j] \in {0, 1}
  <2>1. a = b
    <3>1. b <= a
      BY <1>1, <1>5, <1>6, <1>8
    <3>2. W * a < W * b + W
      BY <1>1, <1>5, <1>8
    <3>3. a <= b
      BY <3>2, <1>1, Times
    <3> QED
      BY <3>1, <3>3, <1>1
  <2> QED
    BY <2>1, <1>1, <1>2, <1>3, <1>8
<1> QED
  BY <1>7, <1>8

-----------------------------------------------------------------------------
(* Entries and batches *)

LedgerEntries == [ref : Int, account : Int, dir : {"debit", "credit"}, amount : Int]
AmountOf == [e \in LedgerEntries |-> e.amount]
Side(entries, dir) == {e \in entries : e.dir = dir}

(* The debits and the credits of finitely many entries, as sums of a function. *)
LEMMA SideSum ==
  ASSUME NEW es \in SUBSET LedgerEntries, IsFiniteSet(es)
  PROVE  /\ Debits(es) = SumOver(AmountOf, Side(es, "debit"))
         /\ Credits(es) = SumOver(AmountOf, Side(es, "credit"))
<1> DEFINE side(dir) == Side(es, dir)
           body(dir, it) == [s \in SUBSET side(dir) |->
             IF s = {} THEN 0
             ELSE (CHOOSE x \in s : TRUE).amount + it[s \ {CHOOSE x \in s : TRUE}]]
           it0(dir) == CHOOSE it : it = body(dir, it)
<1>1. \A dir \in {"debit", "credit"} :
        IsFiniteSet(side(dir)) /\ side(dir) \subseteq LedgerEntries
  BY FS_Subset DEF Side
<1>2. \A x \in LedgerEntries : AmountOf[x] = x.amount /\ AmountOf[x] \in Int
  BY DEF AmountOf, LedgerEntries
<1>3. ASSUME NEW dir \in {"debit", "credit"}
      PROVE  it0(dir)[side(dir)] = SumOver(AmountOf, side(dir))
  <2> DEFINE D == side(dir)
             bodyD(it) == body(dir, it)
             itD == it0(dir)
  <2>0. IsFiniteSet(D) /\ D \subseteq LedgerEntries
    BY <1>1
  <2>1. \A it : it = bodyD(it) <=> Iterates(it, AmountOf, D)
    <3>1. ASSUME NEW s \in SUBSET D, s # {}
          PROVE  AmountOf[AnyOf(s)] = (CHOOSE x \in s : TRUE).amount
      <4>1. AnyOf(s) \in D /\ AnyOf(s) = CHOOSE x \in s : TRUE
        BY <3>1 DEF AnyOf
      <4> HIDE DEF D
      <4> QED
        BY <1>2, <2>0, <4>1
    <3> HIDE DEF side
    <3> QED
      BY <3>1 DEF Iterates, AnyOf
  <2>2. itD = CHOOSE it : it = bodyD(it)
    OBVIOUS
  <2> HIDE DEF bodyD, D, itD
  <2>3. \A x \in D : AmountOf[x] \in Int
    BY <1>2, <2>0
  <2>4. \E it : it = bodyD(it)
    BY <2>0, <2>1, <2>3, SumOverChosen
  <2>5. Iterates(itD, AmountOf, D)
    BY <2>1, <2>2, <2>4
  <2>6. itD[D] = SumOver(AmountOf, D)
    BY <2>0, <2>3, <2>5, SumIterated
  <2> QED
    BY <2>6 DEF D, itD
<1>4. Debits(es) = it0("debit")[side("debit")]
  BY Zenon DEF Debits, SumWhere, MapThenSumSet, MapThenFoldSet, Side
<1>5. Credits(es) = it0("credit")[side("credit")]
  BY Zenon DEF Credits, SumWhere, MapThenSumSet, MapThenFoldSet, Side
<1> HIDE DEF it0, side
<1>6. /\ it0("debit")[side("debit")] = SumOver(AmountOf, side("debit"))
      /\ it0("credit")[side("credit")] = SumOver(AmountOf, side("credit"))
  BY <1>3
<1> QED
  BY <1>4, <1>5, <1>6 DEF side

(* Entries that are not in the ledger yet add their debits and credits.      *)
THEOREM SidesAdd ==
  ASSUME NEW es \in SUBSET LedgerEntries, IsFiniteSet(es),
         NEW new \in SUBSET LedgerEntries, IsFiniteSet(new), es \cap new = {}
  PROVE  /\ Debits(es \cup new) = Debits(es) + Debits(new)
         /\ Credits(es \cup new) = Credits(es) + Credits(new)
         /\ {Debits(es), Debits(new), Credits(es), Credits(new)} \subseteq Int
<1>1. IsFiniteSet(es \cup new)
  BY FS_Union
<1>2. ASSUME NEW dir \in {"debit", "credit"}
      PROVE  /\ SumOver(AmountOf, Side(es \cup new, dir))
                  = SumOver(AmountOf, Side(es, dir)) + SumOver(AmountOf, Side(new, dir))
             /\ SumOver(AmountOf, Side(es, dir)) \in Int
             /\ SumOver(AmountOf, Side(new, dir)) \in Int
  <2>1. /\ IsFiniteSet(Side(es, dir)) /\ IsFiniteSet(Side(new, dir))
        /\ Side(es, dir) \cap Side(new, dir) = {}
    BY FS_Subset DEF Side
  <2>2. \A e \in Side(es, dir) \cup Side(new, dir) : AmountOf[e] \in Int
    BY DEF Side, AmountOf, LedgerEntries
  <2>3. Side(es \cup new, dir) = Side(es, dir) \cup Side(new, dir)
    BY DEF Side
  <2>4. SumOver(AmountOf, Side(es, dir) \cup Side(new, dir))
          = SumOver(AmountOf, Side(es, dir)) + SumOver(AmountOf, Side(new, dir))
    BY <2>1, <2>2, SumUnion
  <2>5. /\ SumOver(AmountOf, Side(es, dir)) \in Int
        /\ SumOver(AmountOf, Side(new, dir)) \in Int
    BY <2>1, <2>2, SumInt
  <2> QED
    BY <2>3, <2>4, <2>5, Zenon
<1>3. /\ Debits(es) = SumOver(AmountOf, Side(es, "debit"))
      /\ Credits(es) = SumOver(AmountOf, Side(es, "credit"))
      /\ Debits(new) = SumOver(AmountOf, Side(new, "debit"))
      /\ Credits(new) = SumOver(AmountOf, Side(new, "credit"))
      /\ Debits(es \cup new) = SumOver(AmountOf, Side(es \cup new, "debit"))
      /\ Credits(es \cup new) = SumOver(AmountOf, Side(es \cup new, "credit"))
  BY <1>1, SideSum
<1> QED
  BY <1>2, <1>3

(* One entry per position, on an account of its own: they come to what the   *)
(* positions come to, and positions with nothing have no entry.              *)
Listing(ref, account, dir, cents) ==
  {Entry(ref, account[i], dir, cents[i]) : i \in {j \in DOMAIN cents : cents[j] > 0}}

LEMMA ListingSum ==
  ASSUME NEW S, IsFiniteSet(S), NEW cents \in [S -> Nat], NEW account \in [S -> Int],
         NEW ref \in Int, NEW dir \in {"debit", "credit"},
         \A i, j \in S : account[i] = account[j] => i = j
  PROVE  /\ Listing(ref, account, dir, cents) \subseteq LedgerEntries
         /\ IsFiniteSet(Listing(ref, account, dir, cents))
         /\ SumOver(AmountOf, Listing(ref, account, dir, cents)) = SumOf(cents)
<1> DEFINE some == {j \in S : cents[j] > 0}
           entry == [i \in S |-> Entry(ref, account[i], dir, cents[i])]
<1>1. Listing(ref, account, dir, cents) = {entry[i] : i \in some}
  BY DEF Listing
<1>2. IsFiniteSet(some) /\ some \subseteq S
  BY FS_Subset
<1>3. \A i \in S : entry[i] \in LedgerEntries /\ AmountOf[entry[i]] = cents[i] /\ cents[i] \in Nat
  BY DEF Entry, LedgerEntries, AmountOf
<1>4. \A i, j \in S : entry[i] = entry[j] => i = j
  BY DEF Entry
<1>5. \A i \in S \ some : cents[i] = 0
  OBVIOUS
<1> HIDE DEF some, entry
<1>6. /\ IsFiniteSet({entry[i] : i \in some})
      /\ SumOver(cents, some) = SumOver(AmountOf, {entry[i] : i \in some})
  BY <1>2, <1>3, <1>4, SumImage
<1>7. SumOver(cents, S) = SumOver(cents, some)
  BY <1>2, <1>3, <1>5, SumSupport
<1>8. SumOf(cents) = SumOver(cents, S)
  BY SumOfOver
<1>9. {entry[i] : i \in some} \subseteq LedgerEntries
  BY <1>2, <1>3
<1> QED
  BY <1>1, <1>6, <1>7, <1>8, <1>9

LEMMA FeesNat ==
  ASSUME NEW gross \in Nat
  PROVE  PlatformFee(gross) \in Nat /\ StripeFee(gross) \in Nat /\ StripeFee(gross) >= 30
<1>1. \A a \in Nat : RoundDiv(a, 10000) \in Nat
  BY DEF RoundDiv
<1> QED
  BY <1>1 DEF PlatformFee, StripeFee

(* A sale of which the fees leave what the photographers get balances        *)
(* (assertBalanced, computeOrderSplit).                                      *)
THEOREM SaleBalanced ==
  ASSUME NEW gross \in Nat, NEW net \in Seq(Nat), SumOf(net) = Distributable(gross)
  PROVE  /\ SaleBatch(gross, net) \subseteq LedgerEntries /\ IsFiniteSet(SaleBatch(gross, net))
         /\ Debits(SaleBatch(gross, net)) = Credits(SaleBatch(gross, net))
<1> DEFINE batch == SaleBatch(gross, net)
           self == [i \in DOMAIN net |-> i]
           parts == Listing(Sale, self, "credit", net)
           cash == Entry(Sale, Cash, "debit", gross)
           stripe == Entry(Sale, StripeFees, "credit", StripeFee(gross))
           platform == Entry(Sale, PlatformRevenue, "credit", PlatformFee(gross))
<1>1. DOMAIN net = 1 .. Len(net) /\ Len(net) \in Nat /\ net \in [DOMAIN net -> Nat]
  OBVIOUS
<1>2. IsFiniteSet(DOMAIN net) /\ self \in [DOMAIN net -> Int]
      /\ \A i, j \in DOMAIN net : self[i] = self[j] => i = j
  <2>1. IsFiniteSet(1 .. Len(net))
    <3>1. Len(net) \in Int
      BY <1>1
    <3> QED
      BY <3>1, FS_Interval
  <2> QED
    BY <1>1, <2>1
<1>3. /\ parts \subseteq LedgerEntries /\ IsFiniteSet(parts)
      /\ SumOver(AmountOf, parts) = SumOf(net)
  <2>1. Sale \in Int
    BY DEF Sale
  <2> DEFINE D == DOMAIN net
  <2>2. IsFiniteSet(D) /\ net \in [D -> Nat] /\ self \in [D -> Int]
    BY <1>1, <1>2
  <2>3. \A i, j \in D : self[i] = self[j] => i = j
    BY <1>2
  <2> HIDE DEF self, D
  <2> QED
    BY <2>1, <2>2, <2>3, ListingSum
<1>4. batch = {cash, stripe, platform} \cup parts
  <2>1. parts = {Entry(Sale, i, "credit", net[i]) : i \in {j \in DOMAIN net : net[j] > 0}}
    BY DEF Listing
  <2> QED
    BY <2>1 DEF SaleBatch
<1>5. /\ PlatformFee(gross) \in Nat /\ StripeFee(gross) \in Nat
  BY FeesNat
<1>6. /\ {cash, stripe, platform} \subseteq LedgerEntries
      /\ cash.dir = "debit" /\ stripe.dir = "credit" /\ platform.dir = "credit"
      /\ AmountOf[cash] = gross /\ AmountOf[stripe] = StripeFee(gross)
      /\ AmountOf[platform] = PlatformFee(gross)
      /\ stripe # platform /\ stripe.account = -1 /\ platform.account = -2
  BY <1>5 DEF Entry, LedgerEntries, AmountOf, Sale, Cash, StripeFees, PlatformRevenue
<1>7. \A e \in parts : e.dir = "credit" /\ e.account > 0 /\ AmountOf[e] \in Int
  BY <1>1, <1>3 DEF Listing, Entry, AmountOf, LedgerEntries
<1> HIDE DEF batch, parts, cash, stripe, platform
<1>8. Side(batch, "debit") = {cash} /\ Side(batch, "credit") = (parts \cup {stripe}) \cup {platform}
  BY <1>4, <1>6, <1>7 DEF Side
<1>9. stripe \notin parts /\ platform \notin parts \cup {stripe}
  <2>1. stripe \notin parts
    BY <1>6, <1>7
  <2>2. platform \notin parts
    BY <1>6, <1>7
  <2> QED
    BY <1>6, <2>1, <2>2
<1>10. batch \subseteq LedgerEntries /\ IsFiniteSet(batch)
  <2>1. IsFiniteSet(((parts \cup {stripe}) \cup {platform}) \cup {cash})
    BY <1>3, FS_AddElement
  <2>2. batch = ((parts \cup {stripe}) \cup {platform}) \cup {cash}
    BY <1>4
  <2> QED
    BY <1>3, <1>4, <1>6, <2>1, <2>2
<1>11. Debits(batch) = gross
  <2>1. Debits(batch) = SumOver(AmountOf, Side(batch, "debit"))
    BY <1>10, SideSum
  <2>2. SumOver(AmountOf, {cash}) = gross
    <3>1. AmountOf[cash] \in Int
      BY <1>6
    <3> QED
      BY <1>6, <3>1, SumOne
  <2> QED
    BY <1>8, <2>1, <2>2
<1>12. Credits(batch) = SumOf(net) + StripeFee(gross) + PlatformFee(gross)
  <2>1. Credits(batch) = SumOver(AmountOf, Side(batch, "credit"))
    BY <1>10, SideSum
  <2>2. SumOver(AmountOf, parts \cup {stripe}) = SumOver(AmountOf, parts) + StripeFee(gross)
    BY <1>3, <1>5, <1>6, <1>7, <1>9, SumAdd
  <2>3. IsFiniteSet(parts \cup {stripe}) /\ \A e \in parts \cup {stripe} : AmountOf[e] \in Int
    BY <1>3, <1>5, <1>6, <1>7, FS_AddElement
  <2>4. SumOver(AmountOf, (parts \cup {stripe}) \cup {platform})
          = SumOver(AmountOf, parts \cup {stripe}) + PlatformFee(gross)
    <3>1. AmountOf[platform] \in Int
      BY <1>5, <1>6
    <3> DEFINE others == parts \cup {stripe}
    <3>2. IsFiniteSet(others) /\ platform \notin others /\ \A e \in others : AmountOf[e] \in Int
      BY <1>9, <2>3
    <3> HIDE DEF others
    <3>3. SumOver(AmountOf, others \cup {platform}) = SumOver(AmountOf, others) + AmountOf[platform]
      BY <3>1, <3>2, SumAdd
    <3> QED
      BY <1>6, <3>3 DEF others
  <2>5. Credits(batch) = SumOver(AmountOf, (parts \cup {stripe}) \cup {platform})
    BY <1>8, <2>1, Zenon
  <2> QED
    BY <1>3, <2>2, <2>4, <2>5
<1> QED
  BY <1>5, <1>10, <1>11, <1>12 DEF Distributable, batch

(* Entries of a sale of which the fees leave something are of some cents.  *)
LEMMA SalePositive ==
  ASSUME NEW gross \in Nat, NEW net \in Seq(Nat), Distributable(gross) > 0
  PROVE  \A e \in SaleBatch(gross, net) : e.amount > 0
<1>1. PlatformFee(gross) \in Nat /\ StripeFee(gross) \in Nat /\ StripeFee(gross) >= 30
  BY FeesNat
<1>2. gross > 30
  BY <1>1 DEF Distributable
<1>3. PlatformFee(gross) > 0
  <2>1. gross * 1000 \in Nat /\ gross * 1000 >= 31000
    BY <1>2
  <2>2. \A a \in Nat : a >= 31000 => (2 * a + 10000) \div 20000 > 0
    OBVIOUS
  <2> QED
    BY <2>1, <2>2 DEF PlatformFee, RoundDiv
<1>4. \A i \in {j \in DOMAIN net : net[j] > 0} : net[i] > 0
  OBVIOUS
<1> QED
  BY <1>1, <1>2, <1>3, <1>4 DEF SaleBatch, Entry

(* A refund that splits its amount over the rows of the sale balances.       *)
THEOREM ReversalBalanced ==
  ASSUME NEW ref \in Int, NEW amount \in Nat, NEW rows, IsFiniteSet(DOMAIN rows),
         \A i \in DOMAIN rows : rows[i].account \in Int,
         \A i, j \in DOMAIN rows : rows[i].account = rows[j].account => i = j,
         NEW shares \in [DOMAIN rows -> Nat], SumOf(shares) = amount
  PROVE  /\ ReversalBatch(ref, amount, rows, shares) \subseteq LedgerEntries
         /\ IsFiniteSet(ReversalBatch(ref, amount, rows, shares))
         /\ Debits(ReversalBatch(ref, amount, rows, shares))
              = Credits(ReversalBatch(ref, amount, rows, shares))
<1> DEFINE batch == ReversalBatch(ref, amount, rows, shares)
           account == [i \in DOMAIN rows |-> rows[i].account]
           parts == Listing(ref, account, "debit", shares)
           cash == Entry(ref, Cash, "credit", amount)
<1>1. account \in [DOMAIN rows -> Int] /\ \A i, j \in DOMAIN rows : account[i] = account[j] => i = j
  OBVIOUS
<1>2. /\ parts \subseteq LedgerEntries /\ IsFiniteSet(parts)
      /\ SumOver(AmountOf, parts) = amount
  <2> HIDE DEF account
  <2> QED
    BY <1>1, ListingSum
<1>3. batch = parts \cup {cash}
  BY DEF Listing, ReversalBatch
<1>4. cash \in LedgerEntries /\ cash.dir = "credit" /\ AmountOf[cash] = amount
  BY DEF Entry, LedgerEntries, AmountOf, Cash
<1>5. \A e \in parts : e.dir = "debit"
  <2> HIDE DEF account
  <2> QED
    BY DEF Listing, Entry
<1> HIDE DEF batch, parts, cash
<1>6. Side(batch, "debit") = parts /\ Side(batch, "credit") = {cash}
  BY <1>3, <1>4, <1>5 DEF Side
<1>7. batch \subseteq LedgerEntries /\ IsFiniteSet(batch)
  BY <1>2, <1>3, <1>4, FS_AddElement
<1>8. SumOver(AmountOf, {cash}) = amount
  <2>1. AmountOf[cash] \in Int
    BY <1>4
  <2> QED
    BY <1>4, <2>1, SumOne
<1>9. Debits(batch) = amount /\ Credits(batch) = amount
  BY <1>2, <1>6, <1>7, <1>8, SideSum
<1> QED
  BY <1>7, <1>9 DEF batch
=============================================================================
