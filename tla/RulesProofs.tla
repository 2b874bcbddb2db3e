----------------------------- MODULE RulesProofs -----------------------------
(***************************************************************************)
(* Three rules of cents, for every amount: the loop that hands out the odd *)
(* cents of a split, whom a sale is credited to, and the discounts of a    *)
(* quote.                                                                  *)
(***************************************************************************)
EXTENDS Allocation, Pricing, Attribution, LedgerTheorems

(* Who has got an odd cent so far.                                         *)
Served == {order[k] : k \in 1 .. idx}

(* A share is its quota rounded down, plus the odd cent; what is left over *)
(* falls by the cents handed out, and they went out in the sorted order.   *)
AllocationInv ==
  /\ TypeOK
  /\ order \in Orders(total, weights)
  /\ remainder = Leftover(total, weights) - idx
  /\ result = [i \in DOMAIN weights |-> Floors(total, weights)[i] + (IF i \in Served THEN 1 ELSE 0)]

LEMMA Arguments ==
  ASSUME total \in Totals, weights \in WeightLists
  PROVE  /\ total \in Int /\ weights \in Weights
         /\ Len(weights) \in Nat \ {0} /\ DOMAIN weights = 1 .. Len(weights)
         /\ IsFiniteSet(DOMAIN weights)
<1>1. total \in Int /\ weights \in Weights
  BY AllocationAssumption DEF Weights
<1> QED
  BY <1>1, WeightsFinite

(* What the sort returns lists every position.                             *)
LEMMA OrderListsAll ==
  ASSUME NEW w \in Weights, NEW t, NEW o \in Orders(t, w)
  PROVE  /\ \A m, n \in DOMAIN w : o[m] = o[n] => m = n
         /\ \A i \in DOMAIN w : \E k \in DOMAIN w : o[k] = i
<1> DEFINE n == DOMAIN w
<1>1. o \in [n -> n] /\ IsFiniteSet(n)
  BY WeightsFinite DEF Orders
<1>2. o \in Injection(n, n)
  BY <1>1 DEF Orders, Injection
<1>3. o \in Surjection(n, n)
  BY <1>1, <1>2, FS_Injection
<1>4. \A a, b \in n : o[a] = o[b] => a = b
  BY <1>1, <1>2 DEF Injection, IsInjective
<1> QED
  BY <1>1, <1>3, <1>4 DEF Surjection

LEMMA SmallMod ==
  ASSUME NEW n \in Nat \ {0}, NEW a \in 0 .. n - 1
  PROVE  a % n = a
<1>1. ASSUME NEW q \in Int, a = n * q + a PROVE a % n = a
  BY <1>1
<1>2. a = n * 0 + a
  OBVIOUS
<1> QED
  BY <1>1, <1>2

LEMMA InitAllocation == Init => AllocationInv
<1> SUFFICES ASSUME Init PROVE AllocationInv
  OBVIOUS
<1>1. /\ total \in Int /\ weights \in Weights /\ Len(weights) \in Nat \ {0}
      /\ remainder = Leftover(total, weights) /\ idx = 0 /\ result = Floors(total, weights)
      /\ order \in Orders(total, weights) /\ total \in Totals /\ weights \in WeightLists
  BY Arguments DEF Init
<1>2. Leftover(total, weights) \in 0 .. Len(weights) - 1 /\ Floors(total, weights) \in [DOMAIN weights -> Int]
  BY <1>1, LeftoverBound, FloorsInt
<1>3. Served = {}
  BY <1>1 DEF Served
<1>4. result = [i \in DOMAIN weights |-> Floors(total, weights)[i] + (IF i \in Served THEN 1 ELSE 0)]
  BY <1>1, <1>2, <1>3
<1> QED
  BY <1>1, <1>2, <1>4 DEF AllocationInv, TypeOK

LEMMA NextAllocation == AllocationInv /\ [Next]_vars => AllocationInv'
<1> SUFFICES ASSUME AllocationInv, [Next]_vars PROVE AllocationInv'
  OBVIOUS
<1>1. CASE UNCHANGED vars
  BY <1>1 DEF AllocationInv, TypeOK, Served, vars
<1>2. CASE Next
  <2> DEFINE n == Len(weights)
             target == order[idx + 1]
             floors == Floors(total, weights)
  <2>1. /\ weights \in Weights /\ total \in Int /\ n \in Nat \ {0} /\ DOMAIN weights = 1 .. n
        /\ TypeOK /\ order \in Orders(total, weights)
        /\ remainder = Leftover(total, weights) - idx
        /\ result = [i \in DOMAIN weights |-> floors[i] + (IF i \in Served THEN 1 ELSE 0)]
        /\ Leftover(total, weights) \in 0 .. n - 1 /\ floors \in [DOMAIN weights -> Int]
    BY Arguments, LeftoverBound, FloorsInt DEF AllocationInv, TypeOK
  <2>2. idx \in Nat /\ idx + 1 \in 1 .. n /\ idx + 1 <= n - 1 /\ remainder > 0 /\ idx % n = idx /\ Step = 1
    <3>1. idx \in 0 .. n - 1 /\ remainder \in 0 .. n - 1 /\ remainder # 0
      BY <2>1, <1>2 DEF TypeOK, Next, HandOut
    <3>2. idx % n = idx
      BY <2>1, <3>1, SmallMod
    <3> QED
      BY <2>1, <3>1, <3>2 DEF Step
  <2>3. /\ result' = [result EXCEPT ![target] = @ + 1] /\ remainder' = remainder - 1 /\ idx' = idx + 1
        /\ UNCHANGED <<total, weights, order>>
    BY <2>2, <1>2 DEF Next, HandOut, HandOutTo
  <2>4. target \in DOMAIN weights /\ order \in [DOMAIN weights -> DOMAIN weights]
    BY <2>1, <2>2 DEF Orders
  <2>5. target \notin Served
    <3>1. \A k \in 1 .. idx : order[k] = order[idx + 1] => k = idx + 1
      BY <2>1, <2>2, OrderListsAll
    <3> QED
      BY <3>1, <2>2 DEF Served
  <2>6. Served' = Served \cup {target}
    <3>1. 1 .. idx + 1 = (1 .. idx) \cup {idx + 1}
      BY <2>2
    <3> QED
      BY <3>1, <2>3 DEF Served
  <2> HIDE DEF n, target, floors
  <2>7. result' = [i \in DOMAIN weights |-> floors[i] + (IF i \in Served' THEN 1 ELSE 0)]
    <3>1. result' = [i \in DOMAIN weights |-> IF i = target THEN result[i] + 1 ELSE result[i]]
      BY <2>1, <2>3, <2>4
    <3>2. ASSUME NEW i \in DOMAIN weights
          PROVE  (IF i = target THEN result[i] + 1 ELSE result[i])
                   = floors[i] + (IF i \in Served' THEN 1 ELSE 0)
      BY <2>1, <2>5, <2>6
    <3> QED
      BY <3>1, <3>2
  <2>8. TypeOK'
    <3>1. result' \in [DOMAIN weights -> Int]
      BY <2>7, <2>1
    <3>2. weights' = weights /\ total' = total /\ Len(weights') = n
      BY <2>3 DEF n
    <3>3. idx' \in 0 .. n - 1 /\ remainder' \in 0 .. n - 1
      BY <2>1, <2>2, <2>3 DEF TypeOK, n
    <3> QED
      BY <3>1, <3>2, <3>3, <2>1 DEF TypeOK
  <2> QED
    <3>1. weights' = weights /\ total' = total /\ order' = order
      BY <2>3
    <3>2. remainder' = Leftover(total, weights) - idx'
      BY <2>1, <2>2, <2>3
    <3>3. result' = [i \in DOMAIN weights |-> Floors(total, weights)[i] + (IF i \in Served' THEN 1 ELSE 0)]
      BY <2>7 DEF floors
    <3> QED
      BY <3>1, <3>2, <3>3, <2>1, <2>8 DEF AllocationInv
<1> QED
  BY <1>1, <1>2

(* At every step of the loop of allocateProportional the shares are the    *)
(* quotas rounded down plus the cents handed out so far, largest fractions *)
(* first; the loop never goes round the list.                              *)
THEOREM AllocationInductive == Spec => []AllocationInv
<1> QED
  BY InitAllocation, NextAllocation, PTL DEF Spec

(* Every variable of the loop keeps its type.                              *)
THEOREM AllocationTypeCorrect == Spec => []TypeOK
<1>1. AllocationInv => TypeOK
  BY DEF AllocationInv
<1> QED
  BY <1>1, AllocationInductive, PTL

(* What the loop leaves is one of the results that module Ledger lists:    *)
(* the loop implements its closed form.                                    *)
LEMMA DoneAllocates ==
  ASSUME AllocationInv, Done
  PROVE  result \in Allocations(total, weights)
<1> DEFINE n == DOMAIN weights
<1>1. /\ weights \in Weights /\ total \in Int /\ IsFiniteSet(n) /\ n = 1 .. Len(weights) /\ Len(weights) \in Nat
      /\ order \in Orders(total, weights) /\ order \in [n -> n]
      /\ idx \in 0 .. Len(weights) - 1
      /\ result = [i \in n |-> Floors(total, weights)[i] + (IF i \in Served THEN 1 ELSE 0)]
  BY Arguments DEF AllocationInv, TypeOK, Orders
<1>2. idx = Leftover(total, weights)
  <2>1. Leftover(total, weights) \in Int
    BY <1>1, LeftoverInt
  <2> QED
    BY <2>1, <1>1 DEF AllocationInv, Done
<1>3. 1 .. idx \subseteq n
  BY <1>1
<1>4. /\ \A a, b \in n : order[a] = order[b] => a = b
      /\ \A i \in n : \E k \in n : order[k] = i
  <2>1. order \in Orders(total, weights) /\ weights \in Weights
    BY <1>1
  <2> QED
    BY <2>1, OrderListsAll
<1>5. Served \subseteq n
  BY <1>1, <1>3 DEF Served
<1>6. Cardinality(Served) = idx
  <2> DEFINE turn == [k \in 1 .. idx |-> order[k]]
  <2>1. turn \in Bijection(1 .. idx, Served)
    BY <1>3, <1>4 DEF Bijection, Injection, Surjection, IsInjective, Served
  <2>2. idx \in Nat /\ IsFiniteSet(1 .. idx) /\ Cardinality(1 .. idx) = idx
    <3>1. idx \in Nat /\ idx \in Int /\ 1 \in Int
      BY <1>1
    <3>2. IsFiniteSet(1 .. idx) /\ Cardinality(1 .. idx) = IF 1 > idx THEN 0 ELSE idx - 1 + 1
      BY <3>1, FS_Interval
    <3> QED
      BY <3>1, <3>2
  <2>3. ExistsBijection(1 .. idx, Served)
    BY <2>1 DEF ExistsBijection
  <2> QED
    BY <2>2, <2>3, FS_Bijection
<1>7. ASSUME NEW i \in Served, NEW j \in n \ Served PROVE ~Before(total, weights, j, i)
  <2>1. PICK a \in 1 .. idx : order[a] = i
    BY DEF Served
  <2>2. PICK b \in n : order[b] = j
    BY <1>4
  <2>3. a < b /\ a \in n
    BY <2>1, <2>2, <1>1, <1>3, <1>7 DEF Served
  <2>4. ~Before(total, weights, order[b], order[a])
    BY <2>2, <2>3, <1>1 DEF Orders
  <2> QED
    BY <2>1, <2>2, <2>4
<1> QED
  BY <1>1, <1>2, <1>5, <1>6, <1>7 DEF Allocations

LEMMA DoneExact == AllocationInv => ExactAndFair
<1> SUFFICES ASSUME AllocationInv, Done PROVE ExactAndFair
  BY DEF ExactAndFair
<1>1. result \in Allocations(total, weights) /\ weights \in Weights /\ total \in Int
  BY DoneAllocates, Arguments DEF AllocationInv, TypeOK
<1>2. SumOf(result) = total
  BY <1>1, AllocationExact
<1>3. DOMAIN Effective(weights) = DOMAIN weights
  BY <1>1, QuotaParts
<1>4. \A i \in DOMAIN weights :
        /\ Whole(weights) * result[i] < total * Effective(weights)[i] + Whole(weights)
        /\ Whole(weights) * result[i] > total * Effective(weights)[i] - Whole(weights)
  BY <1>1, AllocationQuota
<1>5. \A i \in DOMAIN Effective(weights) :
        /\ SumOf(Effective(weights)) * result[i] < total * Effective(weights)[i] + SumOf(Effective(weights))
        /\ SumOf(Effective(weights)) * result[i] > total * Effective(weights)[i] - SumOf(Effective(weights))
  BY <1>3, <1>4, Zenon DEF Whole
<1> QED
  BY <1>2, <1>5, Zenon DEF ExactAndFair

LEMMA DoneMonotone == AllocationInv => Monotone
<1> SUFFICES ASSUME AllocationInv, Done, total >= 0 PROVE Monotone
  BY DEF Monotone
<1>1. result \in Allocations(total, weights) /\ weights \in Weights /\ total \in Nat
  BY DoneAllocates, Arguments DEF AllocationInv, TypeOK
<1> QED
  BY <1>1, AllocationMonotone DEF Monotone

LEMMA DonePostable == AllocationInv => BatchesPostable
<1> SUFFICES ASSUME AllocationInv, Done, total > 0 PROVE BatchesPostable
  BY DEF BatchesPostable
<1>1. /\ result \in Allocations(total, weights) /\ weights \in Weights /\ total \in Nat
      /\ DOMAIN weights = 1 .. Len(weights) /\ Len(weights) \in Nat /\ IsFiniteSet(DOMAIN weights)
  BY DoneAllocates, Arguments DEF AllocationInv, TypeOK
<1>2. result \in [DOMAIN weights -> Nat] /\ SumOf(result) = total
  BY <1>1, AllocationExact
<1>3. ASSUME NEW g \in GrossAmounts, Distributable(g) = total
      PROVE  Postable(SaleBatch(g, result))
  <2>1. g \in Nat /\ result \in Seq(Nat)
    BY <1>1, <1>2, AllocationAssumption
  <2>2. Debits(SaleBatch(g, result)) = Credits(SaleBatch(g, result))
    BY <2>1, <1>2, <1>3, SaleBalanced
  <2>3. \A e \in SaleBatch(g, result) : e.amount > 0
    BY <2>1, <1>3, SalePositive
  <2> QED
    BY <2>2, <2>3 DEF Postable
<1>4. Postable(ReversalBatch(1, total, [i \in DOMAIN weights |-> [account |-> i]], result))
  <2> DEFINE sale == [i \in DOMAIN weights |-> [account |-> i]]
  <2>1. /\ IsFiniteSet(DOMAIN sale) /\ result \in [DOMAIN sale -> Nat]
        /\ \A i \in DOMAIN sale : sale[i].account = i /\ i \in Int
    BY <1>1, <1>2
  <2> HIDE DEF sale
  <2>2. Debits(ReversalBatch(1, total, sale, result)) = Credits(ReversalBatch(1, total, sale, result))
    <3>1. 1 \in Int /\ total \in Nat /\ SumOf(result) = total
      BY <1>1, <1>2
    <3>2. /\ \A i \in DOMAIN sale : sale[i].account \in Int
          /\ \A i, j \in DOMAIN sale : sale[i].account = sale[j].account => i = j
      BY <2>1
    <3> QED
      BY <2>1, <3>1, <3>2, ReversalBalanced
  <2>3. \A e \in ReversalBatch(1, total, sale, result) : e.amount > 0
    <3>1. \A i \in {j \in DOMAIN sale : result[j] > 0} : result[i] > 0
      OBVIOUS
    <3> QED
      BY <3>1 DEF ReversalBatch, Entry
  <2> QED
    BY <2>2, <2>3 DEF Postable, sale
<1> QED
  BY <1>3, <1>4 DEF BatchesPostable

(* A finished split is exact, each share its quota rounded down or up; it  *)
(* is monotone in the weights; and a sale or a refund split by it makes a  *)
(* batch that assertBalanced accepts (allocateProportional,                *)
(* computeOrderSplit), for every amount, list of weights and order of      *)
(* equal fractions.                                                        *)
THEOREM FairSplitAlways == Spec => []FairSplit
<1>1. AllocationInv => FairSplit
  BY DoneExact, DoneMonotone, DonePostable DEF FairSplit
<1> QED
  BY <1>1, AllocationInductive, PTL

(* The loop implements the closed form: when it is done, its result is one *)
(* of Allocations, which the other modules use in its place.               *)
THEOREM LoopAllocates == Spec => [](Done => result \in Allocations(total, weights))
<1>1. AllocationInv => (Done => result \in Allocations(total, weights))
  BY DoneAllocates
<1> QED
  BY <1>1, AllocationInductive, PTL

------------------------------------------------------------------------------
(* Shares by user *)

(* A finite set in some order: every element once.                         *)
LEMMA ListsAll ==
  ASSUME NEW S, IsFiniteSet(S), NEW l \in SetToSeqs(S)
  PROVE  /\ l \in [1 .. Cardinality(S) -> S] /\ DOMAIN l = 1 .. Cardinality(S)
         /\ Cardinality(S) \in Nat /\ IsFiniteSet(1 .. Cardinality(S))
         /\ \A i, j \in DOMAIN l : l[i] = l[j] => i = j
         /\ \A x \in S : \E i \in DOMAIN l : l[i] = x
         /\ {l[i] : i \in DOMAIN l} = S
<1> DEFINE n == Cardinality(S)
           D == 1 .. n
<1>1. n \in Nat /\ n \in Int /\ 1 \in Int
  BY FS_CardinalityType
<1>2. IsFiniteSet(D) /\ Cardinality(D) = n
  <2>1. IsFiniteSet(D) /\ Cardinality(D) = IF 1 > n THEN 0 ELSE n - 1 + 1
    BY <1>1, FS_Interval
  <2> QED
    BY <2>1, <1>1
<1>3. l \in [D -> S] /\ \A i, j \in D : l[i] = l[j] => i = j
  BY DEF SetToSeqs
<1> HIDE DEF D
<1>4. l \in Injection(D, S)
  BY <1>3 DEF Injection, IsInjective
<1>5. l \in Surjection(D, S)
  BY <1>2, <1>4, FS_Injection DEF n
<1>6. \A x \in S : \E i \in D : l[i] = x
  BY <1>5 DEF Surjection
<1>7. DOMAIN l = D
  BY <1>3
<1> QED
  BY <1>1, <1>2, <1>3, <1>6, <1>7 DEF D

(* A sum does not depend on the order of what is summed.                   *)
Reorders(l, D, S, g, f) ==
  /\ IsFiniteSet(D) /\ l \in [D -> S] /\ f \in [S -> Int] /\ g \in [D -> Int]
  /\ \A i, j \in D : l[i] = l[j] => i = j
  /\ \A x \in S : \E i \in D : l[i] = x
  /\ \A i \in D : g[i] = f[l[i]]

LEMMA Reindex ==
  ASSUME NEW l, NEW D, NEW S, NEW g, NEW f, Reorders(l, D, S, g, f)
  PROVE  SumOf(g) = SumOf(f)
<1> USE DEF Reorders
<1>1. \A i \in D : f[l[i]] \in Int
  OBVIOUS
<1>2. SumOver(g, D) = SumOver(f, {l[i] : i \in D})
  BY <1>1, SumImage
<1>3. DOMAIN g = D /\ DOMAIN f = S
  OBVIOUS
<1>4. {l[i] : i \in D} = S
  OBVIOUS
<1> QED
  BY <1>2, <1>3, <1>4, SumOfOver

(* An amount shared by weight, in whatever order the rows come: exact, and *)
(* everybody's quota rounded down or up.                                   *)
LEMMA SharesExact ==
  ASSUME NEW S, IsFiniteSet(S), S # {}, NEW weight \in [S -> Nat], NEW cents \in Nat,
         NEW s \in Shares(cents, weight)
  PROVE  /\ s \in [S -> Nat] /\ SumOf(s) = cents /\ SumOf(weight) \in Nat
         /\ SumOf(weight) > 0 =>
              \A u \in S : /\ SumOf(weight) * s[u] < cents * weight[u] + SumOf(weight)
                           /\ SumOf(weight) * s[u] > cents * weight[u] - SumOf(weight)
<1> DEFINE n == Cardinality(S)
<1>1. DOMAIN weight = S
  OBVIOUS
<1> DEFINE Of(l) == {[u \in DOMAIN weight |-> part[CHOOSE i \in DOMAIN part : l[i] = u]] :
                       part \in Allocations(cents, [i \in DOMAIN l |-> weight[l[i]]])}
<1>0. Shares(cents, weight) = UNION {Of(l) : l \in SetToSeqs(DOMAIN weight)}
  BY DEF Shares
<1> HIDE DEF Of
<1>01. PICK l \in SetToSeqs(S) : s \in Of(l)
  BY <1>0, <1>1
<1>2. PICK part \in Allocations(cents, [i \in DOMAIN l |-> weight[l[i]]]) :
        s = [u \in S |-> part[CHOOSE i \in DOMAIN part : l[i] = u]]
  BY <1>01, <1>1 DEF Of
<1> DEFINE D == DOMAIN l
           w == [i \in D |-> weight[l[i]]]
<1>3. /\ l \in [D -> S] /\ D = 1 .. n /\ n \in Nat /\ IsFiniteSet(D)
      /\ \A i, j \in D : l[i] = l[j] => i = j
      /\ \A x \in S : \E i \in D : l[i] = x
      /\ {l[i] : i \in D} = S
  BY ListsAll
<1>4. n # 0
  <2>1. n = 0 => D = {}
    BY <1>3
  <2> QED
    BY <2>1, <1>3
<1>5. w \in Weights /\ DOMAIN w = D /\ \A i \in D : w[i] = weight[l[i]] /\ w[i] \in Nat
  <2>1. w \in [1 .. n -> Nat]
    BY <1>3
  <2>2. w \in Seq(Nat) /\ Len(w) = n
    BY <2>1, <1>3
  <2> QED
    BY <2>1, <2>2, <1>3, <1>4 DEF Weights
<1> HIDE DEF w, n
<1>6. part \in [D -> Nat] /\ SumOf(part) = cents
  BY <1>2, <1>5, AllocationExact DEF w
<1>7. \A i \in D : s[l[i]] = part[i]
  <2> TAKE i \in D
  <2>1. (CHOOSE j \in D : l[j] = l[i]) = i
    BY <1>3
  <2>2. DOMAIN part = D /\ l[i] \in S
    BY <1>3, <1>6
  <2> QED
    BY <2>1, <2>2, <1>2
<1>8. s \in [S -> Nat]
  <2>1. \A u \in S : s[u] \in Nat
    BY <1>3, <1>6, <1>7
  <2>2. s = [u \in S |-> s[u]]
    BY <1>2
  <2> QED
    BY <2>1, <2>2
<1>9. SumOf(s) = cents
  <2>1. \A i \in D : part[i] = s[l[i]]
    BY <1>7
  <2>2. part \in [D -> Int] /\ s \in [S -> Int]
    BY <1>6, <1>8
  <2> HIDE DEF D
  <2>3. Reorders(l, D, S, part, s)
    BY <2>1, <2>2, <1>3 DEF Reorders
  <2>4. SumOf(part) = SumOf(s)
    BY <2>3, Reindex
  <2> QED
    BY <2>4, <1>6
<1>10. SumOf(w) = SumOf(weight) /\ SumOf(weight) \in Nat
  <2>1. w \in [D -> Int] /\ weight \in [S -> Int] /\ \A i \in D : w[i] = weight[l[i]]
    BY <1>5 DEF w
  <2> HIDE DEF D
  <2>4. Reorders(l, D, S, w, weight)
    BY <2>1, <1>3 DEF Reorders
  <2>2. SumOf(w) = SumOf(weight)
    BY <2>4, Reindex
  <2>3. SumOf(weight) = SumOver(weight, S) /\ SumOver(weight, S) \in Nat
    BY <1>1, SumOfOver, SumNat
  <2> QED
    BY <2>2, <2>3
<1>11. ASSUME SumOf(weight) > 0, NEW u \in S
       PROVE  /\ SumOf(weight) * s[u] < cents * weight[u] + SumOf(weight)
              /\ SumOf(weight) * s[u] > cents * weight[u] - SumOf(weight)
  <2>1. PICK i \in D : l[i] = u
    BY <1>3
  <2>2. Effective(w) = w
    <3>1. \E j \in D : w[j] > 0
      <4> SUFFICES ASSUME \A j \in D : ~(w[j] > 0) PROVE FALSE
        OBVIOUS
      <4>1. \A j \in D : w[j] = 0
        BY <1>5
      <4>2. SumOver(w, D) = 0
        BY <4>1, <1>3, SumZero
      <4> QED
        BY <4>2, <1>5, <1>10, <1>11, SumOfOver
    <3> QED
      BY <3>1, <1>5 DEF Effective
  <2>3. Whole(w) = SumOf(weight)
    BY <2>2, <1>10 DEF Whole
  <2>4. s[u] = part[i] /\ weight[u] = w[i]
    BY <2>1, <1>5, <1>7
  <2>5. part \in Allocations(cents, w) /\ i \in DOMAIN w /\ cents \in Int /\ w \in Weights
    BY <1>2, <1>5 DEF w
  <2>6. /\ Whole(w) * part[i] < cents * Effective(w)[i] + Whole(w)
        /\ Whole(w) * part[i] > cents * Effective(w)[i] - Whole(w)
    BY <2>5, AllocationQuota
  <2> QED
    BY <2>2, <2>3, <2>4, <2>6
<1> QED
  BY <1>8, <1>9, <1>10, <1>11

(* What a user has of a credit, and the credits there are to users of U.   *)
Share(s, u) == IF u \in DOMAIN s THEN s[u] ELSE 0
Credit(U) == UNION {[D -> Nat] : D \in SUBSET U}

LEMMA CreditFacts ==
  ASSUME NEW U, IsFiniteSet(U), NEW s \in Credit(U)
  PROVE  /\ DOMAIN s \subseteq U /\ IsFiniteSet(DOMAIN s) /\ s \in [DOMAIN s -> Nat]
         /\ \A u : Share(s, u) \in Nat
         /\ SumOf(s) \in Nat /\ SumOf(s) = SumOver([u \in U |-> Share(s, u)], U)
<1>1. PICK D \in SUBSET U : s \in [D -> Nat]
  BY DEF Credit
<1>2. DOMAIN s = D /\ s \in [DOMAIN s -> Nat]
  BY <1>1
<1>3. DOMAIN s \subseteq U /\ IsFiniteSet(DOMAIN s)
  BY <1>2, FS_Subset
<1>4. \A u : Share(s, u) \in Nat
  BY <1>2 DEF Share
<1> DEFINE all == [u \in U |-> Share(s, u)]
<1>5. /\ \A u \in U : all[u] \in Int
      /\ \A u \in U \ DOMAIN s : all[u] = 0
      /\ \A u \in DOMAIN s : s[u] \in Int /\ s[u] = all[u]
  BY <1>2, <1>3, <1>4 DEF Share
<1> HIDE DEF all
<1>6. SumOver(all, U) = SumOver(all, DOMAIN s)
  BY <1>3, <1>5, SumSupport
<1>7. SumOver(s, DOMAIN s) = SumOver(all, DOMAIN s)
  BY <1>3, <1>5, SumSame
<1>8. SumOf(s) = SumOver(s, DOMAIN s)
  BY SumOfOver
<1>9. SumOver(s, DOMAIN s) \in Nat
  BY <1>2, <1>3, SumNat
<1> QED
  BY <1>2, <1>3, <1>4, <1>6, <1>7, <1>8, <1>9 DEF all

LEMMA CreditWider == \A U, V : U \subseteq V => Credit(U) \subseteq Credit(V)
BY DEF Credit

LEMMA NoCredit ==
  ASSUME NEW U
  PROVE  NoShares \in Credit(U) /\ (\A u : Share(NoShares, u) = 0) /\ SumOf(NoShares) = 0
<1>1. NoShares \in [{} -> Nat] /\ DOMAIN NoShares = {}
  BY DEF NoShares
<1>2. SumOf(NoShares) = 0
  BY <1>1, SumOfOver, SumEmpty
<1> QED
  BY <1>1, <1>2 DEF Credit, Share

LEMMA OnlyCredit ==
  ASSUME NEW U, NEW v \in U, NEW cents \in Nat
  PROVE  /\ Only(v, cents) \in Credit(U) /\ DOMAIN Only(v, cents) = {v}
         /\ SumOf(Only(v, cents)) = cents
         /\ \A u : Share(Only(v, cents), u) = IF u = v THEN cents ELSE 0
<1>1. Only(v, cents) \in [{v} -> Nat] /\ DOMAIN Only(v, cents) = {v} /\ Only(v, cents)[v] = cents
  BY DEF Only
<1>2. SumOf(Only(v, cents)) = cents
  BY <1>1, SumOfOver, SumOne
<1> QED
  BY <1>1, <1>2 DEF Credit, Share

(* Leaving out those who get nothing changes no share.                     *)
LEMMA PositiveCredit ==
  ASSUME NEW S, IsFiniteSet(S), NEW s \in [S -> Nat]
  PROVE  /\ Positive(s) \in Credit(S)
         /\ \A u \in DOMAIN Positive(s) : Positive(s)[u] = s[u] /\ Positive(s)[u] > 0
         /\ \A u \in S : Share(Positive(s), u) = s[u]
         /\ \A u : u \notin S => Share(Positive(s), u) = 0
         /\ SumOf(Positive(s)) = SumOf(s)
<1> DEFINE T == {u \in S : s[u] > 0}
           q == Positive(s)
<1>1. DOMAIN s = S
  OBVIOUS
<1>2. q = [u \in T |-> s[u]]
  BY <1>1 DEF Positive, Restrict
<1>3. /\ q \in [T -> Nat] /\ DOMAIN q = T /\ T \subseteq S /\ IsFiniteSet(T)
      /\ \A u \in T : q[u] = s[u] /\ q[u] > 0 /\ q[u] \in Int
      /\ \A u \in S \ T : s[u] = 0
      /\ \A u \in S : s[u] \in Int
  BY <1>2, FS_Subset
<1> HIDE DEF T, q
<1>4. q \in Credit(S)
  BY <1>3 DEF Credit
<1>5. SumOver(q, T) = SumOver(s, T)
  BY <1>3, SumSame
<1>6. SumOver(s, S) = SumOver(s, T)
  BY <1>3, SumSupport
<1>7. SumOf(q) = SumOver(q, T) /\ SumOf(s) = SumOver(s, S)
  BY <1>1, <1>3, SumOfOver
<1>8. (\A u \in S : Share(q, u) = s[u]) /\ \A u : u \notin S => Share(q, u) = 0
  BY <1>3 DEF Share
<1> QED
  BY <1>3, <1>4, <1>5, <1>6, <1>7, <1>8 DEF q

(* addToWeightMap *)
LEMMA PlusCredit ==
  ASSUME NEW U, IsFiniteSet(U), NEW s \in Credit(U), NEW q \in Credit(U)
  PROVE  /\ Plus(s, q) \in Credit(U) /\ DOMAIN Plus(s, q) = DOMAIN s \cup DOMAIN q
         /\ \A u : Share(Plus(s, q), u) = Share(s, u) + Share(q, u)
         /\ SumOf(Plus(s, q)) = SumOf(s) + SumOf(q)
<1> DEFINE sum == Plus(s, q)
           D == DOMAIN s \cup DOMAIN q
<1>1. /\ DOMAIN s \subseteq U /\ s \in [DOMAIN s -> Nat] /\ \A u : Share(s, u) \in Nat
      /\ DOMAIN q \subseteq U /\ q \in [DOMAIN q -> Nat] /\ \A u : Share(q, u) \in Nat
  BY CreditFacts
<1>2. sum = [u \in D |-> Share(s, u) + Share(q, u)]
  BY DEF Plus, Share
<1>3. DOMAIN sum = D /\ D \subseteq U /\ \A u \in D : sum[u] = Share(s, u) + Share(q, u)
  BY <1>1, <1>2
<1>4. sum \in [D -> Nat]
  BY <1>1, <1>2
<1>5. sum \in Credit(U)
  BY <1>3, <1>4 DEF Credit
<1>6. \A u : Share(sum, u) = Share(s, u) + Share(q, u)
  <2> TAKE u
  <2>1. CASE u \in D
    BY <2>1, <1>3 DEF Share
  <2>2. CASE u \notin D
    BY <2>2, <1>3 DEF Share
  <2> QED
    BY <2>1, <2>2
<1> DEFINE ss == [u \in U |-> Share(s, u)]
           qq == [u \in U |-> Share(q, u)]
           all == [u \in U |-> Share(sum, u)]
<1>7. SumOf(s) = SumOver(ss, U) /\ SumOf(q) = SumOver(qq, U) /\ SumOf(sum) = SumOver(all, U)
  BY <1>5, CreditFacts
<1>8. \A u \in U : ss[u] \in Int /\ qq[u] \in Int /\ all[u] = ss[u] + qq[u]
  BY <1>1, <1>6
<1> HIDE DEF ss, qq, all
<1>9. SumOver(all, U) = SumOver(ss, U) + SumOver(qq, U)
  BY <1>8, SumPlus
<1> QED
  BY <1>3, <1>5, <1>6, <1>7, <1>9

(* Elements counted class by class.                                        *)
LEMMA SumFibres ==
  ASSUME NEW S, IsFiniteSet(S), NEW U, IsFiniteSet(U), NEW h, \A x \in S : h[x] \in U
  PROVE  SumOver([u \in U |-> Cardinality({x \in S : h[x] = u})], U) = Cardinality(S)
<1> DEFINE In(T, u) == {x \in T : h[x] = u}
           count(T) == [u \in U |-> Cardinality(In(T, u))]
           H == {T \in SUBSET S : SumOver(count(T), U) = Cardinality(T)}
<1> HIDE DEF In
<1>1. {} \in H
  <2>1. \A u \in U : In({}, u) = {}
    BY DEF In
  <2>2. \A u \in U : count({})[u] = 0
    BY <2>1, FS_EmptySet
  <2> HIDE DEF count
  <2>3. SumOver(count({}), U) = 0
    BY <2>2, SumZero
  <2> QED
    BY <2>3, FS_EmptySet
<1>2. ASSUME NEW T \in SUBSET S, NEW x \in S \ T, T \in H
      PROVE  T \cup {x} \in H
  <2> DEFINE one == [u \in U |-> IF u = h[x] THEN 1 ELSE 0]
  <2>1. IsFiniteSet(T) /\ Cardinality(T) \in Nat /\ Cardinality(T \cup {x}) = Cardinality(T) + 1
    BY FS_Subset, FS_CardinalityType, FS_AddElement
  <2>2. \A u \in U : /\ count(T)[u] \in Int /\ one[u] \in Int
                     /\ count(T \cup {x})[u] = count(T)[u] + one[u]
    <3> TAKE u \in U
    <3>1. IsFiniteSet(In(T, u))
      BY <2>1, FS_Subset DEF In
    <3>2. Cardinality(In(T, u)) \in Nat
      BY <3>1, FS_CardinalityType
    <3>3. CASE u = h[x]
      <4>1. In(T \cup {x}, u) = In(T, u) \cup {x} /\ x \notin In(T, u)
        BY <3>3 DEF In
      <4>2. Cardinality(In(T \cup {x}, u)) = Cardinality(In(T, u)) + 1
        BY <4>1, <3>1, FS_AddElement
      <4> QED
        BY <4>2, <3>2, <3>3
    <3>4. CASE u # h[x]
      <4>1. In(T \cup {x}, u) = In(T, u)
        BY <3>4 DEF In
      <4> QED
        BY <4>1, <3>2, <3>4
    <3> QED
      BY <3>3, <3>4
  <2>3. SumOver(one, U) = 1
    <3>1. h[x] \in U /\ {h[x]} \in SUBSET U /\ one[h[x]] = 1 /\ \A u \in U : one[u] \in Int
      OBVIOUS
    <3>2. \A u \in U \ {h[x]} : one[u] = 0
      OBVIOUS
    <3> HIDE DEF one
    <3>3. SumOver(one, U) = SumOver(one, {h[x]})
      BY <3>1, <3>2, SumSupport
    <3>4. SumOver(one, {h[x]}) = one[h[x]]
      BY <3>1, SumOne
    <3> QED
      BY <3>1, <3>3, <3>4
  <2> HIDE DEF one, count
  <2>4. SumOver(count(T \cup {x}), U) = SumOver(count(T), U) + SumOver(one, U)
    BY <2>2, SumPlus
  <2>5. SumOver(count(T), U) = Cardinality(T) /\ T \cup {x} \in SUBSET S
    BY <1>2
  <2>6. SumOver(count(T \cup {x}), U) = Cardinality(T \cup {x})
    BY <2>1, <2>3, <2>4, <2>5
  <2> QED
    BY <2>5, <2>6
<1> HIDE DEF H
<1>3. S \in H
  BY <1>1, <1>2, SubsetInduction
<1> QED
  BY <1>3 DEF H, In

------------------------------------------------------------------------------
(* computeOrderSplit, line by line *)

(* What the split reads is of its type. *)
Read ==
  /\ author \in [Photos -> Payees \cup {Nobody}]
  /\ percent \in [Payees -> Percents \cup {NoPercent}]

(* Whom a line may be credited to. *)
From(photos) == ({author[p] : p \in photos} \ {Nobody}) \cup Members

LEMMA FromPayees ==
  ASSUME Read, NEW photos \in SUBSET Photos
  PROVE  /\ From(photos) \subseteq Payees /\ IsFiniteSet(From(photos)) /\ IsFiniteSet(photos)
         /\ Members \subseteq From(photos) /\ IsFiniteSet(Members)
         /\ {author[p] : p \in photos} \ {Nobody} \subseteq From(photos)
         /\ IsFiniteSet({author[p] : p \in photos} \ {Nobody})
<1>1. From(photos) \subseteq Payees /\ Members \subseteq From(photos)
  BY DEF Read, From, Members
<1>2. {author[p] : p \in photos} \ {Nobody} \subseteq From(photos)
  BY DEF From
<1>3. IsFiniteSet(Payees) /\ IsFiniteSet(photos)
  BY AttributionAssumption, FS_Subset
<1> QED
  BY <1>1, <1>2, <1>3, FS_Subset

LEMMA FallbackCredit ==
  ASSUME Read, NEW cents \in Nat, NEW s \in ViaFallback(cents)
  PROVE  s \in Credit(Members)
<1> DEFINE paying == {u \in Members : percent[u] > 0}
           weight == [u \in paying |-> percent[u]]
<1>1. /\ paying # {} => s \in {Positive(q) : q \in Shares(cents, weight)}
      /\ paying = {} /\ Members # {} => s \in {Only(u, cents) : u \in Members}
      /\ paying = {} /\ Members = {} => s = NoShares
  BY DEF ViaFallback
<1>2. CASE paying # {}
  <2>1. PICK q \in Shares(cents, weight) : s = Positive(q)
    BY <1>1, <1>2
  <2>2. Members \subseteq Payees /\ IsFiniteSet(Payees) /\ paying \subseteq Members
    BY AttributionAssumption DEF Members
  <2>3. IsFiniteSet(paying)
    BY <2>2, FS_Subset
  <2>4. \A u \in paying : percent[u] \in Nat
    <3> TAKE u \in paying
    <3>1. percent[u] \in Percents \cup {NoPercent} /\ percent[u] > 0
      BY <2>2 DEF Read
    <3>2. Percents \subseteq Nat
      BY AttributionAssumption
    <3>3. CASE percent[u] = NoPercent
      <4>1. NoPercent > 0
        BY <3>1, <3>3
      <4> QED
        BY <4>1 DEF NoPercent
    <3> QED
      BY <3>1, <3>2, <3>3
  <2>5. weight \in [paying -> Nat]
    BY <2>4
  <2> HIDE DEF paying, weight
  <2>6. q \in [paying -> Nat]
    BY <1>2, <2>1, <2>3, <2>5, SharesExact
  <2>7. s \in Credit(paying)
    BY <2>1, <2>3, <2>6, PositiveCredit
  <2> QED
    BY <2>2, <2>7, CreditWider
<1>3. CASE paying = {} /\ Members # {}
  <2>1. PICK u \in Members : s = Only(u, cents)
    BY <1>1, <1>3
  <2> QED
    BY <2>1, OnlyCredit
<1>4. CASE paying = {} /\ Members = {}
  BY <1>1, <1>4, NoCredit
<1> QED
  BY <1>2, <1>3, <1>4

LEMMA CountFacts ==
  ASSUME Read, NEW photos \in SUBSET Photos
  PROVE  /\ DOMAIN PhotoCount(photos) = {author[p] : p \in photos} \ {Nobody}
         /\ PhotoCount(photos) \in [DOMAIN PhotoCount(photos) -> Nat]
         /\ \A u : Cardinality({p \in photos : author[p] = u}) \in Nat
         /\ \A u \in DOMAIN PhotoCount(photos) :
              PhotoCount(photos)[u] = Cardinality({p \in photos : author[p] = u})
         /\ Cardinality(photos) \in Nat
         /\ \A u : Cardinality({p \in photos : author[p] = u}) <= Cardinality(photos)
<1> DEFINE D == {author[p] : p \in photos} \ {Nobody}
<1>1. IsFiniteSet(photos)
  BY FromPayees
<1>2. \A u : /\ Cardinality({p \in photos : author[p] = u}) \in Nat
             /\ Cardinality({p \in photos : author[p] = u}) <= Cardinality(photos)
  <2> TAKE u
  <2> DEFINE T == {p \in photos : author[p] = u}
  <2>1. T \subseteq photos
    OBVIOUS
  <2> HIDE DEF T
  <2>2. IsFiniteSet(T) /\ Cardinality(T) <= Cardinality(photos)
    BY <1>1, <2>1, FS_Subset
  <2>3. Cardinality(T) \in Nat
    BY <2>2, FS_CardinalityType
  <2> QED
    BY <2>2, <2>3 DEF T
<1>3. PhotoCount(photos) = [u \in D |-> Cardinality({p \in photos : author[p] = u})]
  BY DEF PhotoCount
<1> QED
  BY <1>1, <1>2, <1>3, FS_CardinalityType

(* The k cents of the photos whose photographer is known go to these as c, *)
(* the rest to the event's members as r.                                   *)
Splits(s, photos, cents, k, c, r) ==
  /\ s = Plus(c, r)
  /\ \/ c = NoShares /\ (k = 0 \/ DOMAIN PhotoCount(photos) = {})
     \/ DOMAIN PhotoCount(photos) # {} /\ c \in {Positive(q) : q \in Shares(k, PhotoCount(photos))}
  /\ \/ k = cents /\ r = NoShares
     \/ k # cents /\ r \in ViaFallback(cents - k)
  /\ (\A p \in photos : author[p] # Nobody) => k = cents

LEMMA SnapshotParts ==
  ASSUME Read, NEW photos \in SUBSET Photos, photos # {}, NEW cents \in Nat,
         NEW s \in ViaSnapshot(photos, cents)
  PROVE  \E k \in 0 .. cents : \E c, r : Splits(s, photos, cents, k, c, r)
<1> DEFINE count == PhotoCount(photos)
           gone == {p \in photos : author[p] = Nobody}
           lost == Cardinality(gone)
           split == <<Cardinality(photos) - lost, lost>>
           known == IF lost = 0 THEN {cents} ELSE {a[1] : a \in Allocations(cents, split)}
           credited(k) == IF DOMAIN count = {} \/ k = 0 THEN {NoShares}
                          ELSE {Positive(q) : q \in Shares(k, count)}
           rest(k) == IF cents = k THEN {NoShares} ELSE ViaFallback(cents - k)
<1>1. ViaSnapshot(photos, cents) = UNION {{Plus(c, r) : c \in credited(k), r \in rest(k)} : k \in known}
  BY DEF ViaSnapshot
<1>2. PICK k \in known : \E c \in credited(k), r \in rest(k) : s = Plus(c, r)
  <2> HIDE DEF credited, rest, known
  <2> QED
    BY <1>1
<1>3. lost \in Nat /\ Cardinality(photos) \in Nat /\ lost <= Cardinality(photos)
  BY CountFacts
<1> HIDE DEF gone
<1>4. k \in 0 .. cents
  <2>1. CASE lost = 0
    BY <2>1, <1>2
  <2>2. CASE lost # 0
    <3>1. PICK a \in Allocations(cents, split) : k = a[1]
      BY <2>2, <1>2
    <3> HIDE DEF lost
    <3>2. split \in Weights /\ DOMAIN split = 1 .. 2
      <4>1. Cardinality(photos) - lost \in Nat /\ lost \in Nat
        BY <1>3
      <4>2. split \in Seq(Nat) /\ Len(split) = 2
        BY <4>1
      <4> QED
        BY <4>2 DEF Weights
    <3> HIDE DEF split
    <3>3. a \in [1 .. 2 -> Nat] /\ SumOf(a) = cents
      BY <3>1, <3>2, AllocationExact
    <3>4. IsFiniteSet(1 .. 2) /\ {1} \in SUBSET (1 .. 2) /\ DOMAIN a = 1 .. 2 /\ a[1] \in Nat
      <4>1. IsFiniteSet(1 .. 2)
        BY FS_Interval, 1 \in Int, 2 \in Int
      <4> QED
        BY <4>1, <3>3
    <3>5. SumOver(a, {1}) <= SumOver(a, 1 .. 2)
      BY <3>3, <3>4, SumSubset
    <3>6. SumOver(a, {1}) = a[1]
      BY <3>4, SumOne
    <3>7. SumOf(a) = SumOver(a, 1 .. 2)
      BY <3>4, SumOfOver
    <3> QED
      BY <3>1, <3>3, <3>4, <3>5, <3>6, <3>7
  <2> QED
    BY <2>1, <2>2
<1>5. ASSUME \A p \in photos : author[p] # Nobody PROVE k = cents
  <2>1. gone = {}
    BY <1>5 DEF gone
  <2>2. lost = 0
    BY <2>1, FS_EmptySet
  <2> QED
    BY <2>2, <1>2
<1>6. PICK c \in credited(k), r \in rest(k) : s = Plus(c, r)
  BY <1>2
<1> HIDE DEF known
<1>7. \/ c = NoShares /\ (k = 0 \/ DOMAIN count = {})
      \/ DOMAIN count # {} /\ c \in {Positive(q) : q \in Shares(k, count)}
  BY <1>6
<1>8. \/ k = cents /\ r = NoShares
      \/ k # cents /\ r \in ViaFallback(cents - k)
  BY <1>6
<1> QED
  <2>1. Splits(s, photos, cents, k, c, r)
    BY <1>5, <1>6, <1>7, <1>8 DEF Splits
  <2> QED
    BY <1>4, <2>1

(* A line is credited to its photographers and to members of the event.    *)
LEMMA LineCredit ==
  ASSUME Read, NEW line \in OrderLines, NEW s \in Attributions(line)
  PROVE  s \in Credit(From(line.photos))
<1> DEFINE photos == line.photos
           cents == line.cents
<1>1. OrderLine(line)
  BY AttributionAssumption
<1>2. photos \in SUBSET Photos /\ cents \in Nat /\ (line.photo => \E p \in Photos : photos = {p})
  BY <1>1 DEF OrderLine
<1>3. /\ IsFiniteSet(From(photos)) /\ Members \subseteq From(photos)
      /\ {author[p] : p \in photos} \ {Nobody} \subseteq From(photos)
      /\ IsFiniteSet({author[p] : p \in photos} \ {Nobody})
  BY <1>2, FromPayees
<1>4. \A k \in Nat : \A q \in ViaFallback(k) : q \in Credit(From(photos))
  BY <1>3, FallbackCredit, CreditWider
<1>5. CASE line.photo
  <2> DEFINE p == CHOOSE p \in photos : TRUE
  <2>1. p \in photos
    BY <1>2, <1>5
  <2>2. CASE author[p] # Nobody
    <3>1. s = Only(author[p], cents)
      BY <1>5, <2>2 DEF Attributions
    <3>2. author[p] \in From(photos)
      BY <2>1, <2>2, <1>3
    <3> QED
      BY <3>1, <3>2, <1>2, OnlyCredit
  <2>3. CASE author[p] = Nobody
    <3>1. s \in ViaFallback(cents)
      BY <1>5, <2>3 DEF Attributions
    <3> QED
      BY <3>1, <1>2, <1>4
  <2> QED
    BY <2>2, <2>3
<1>6. CASE ~line.photo /\ photos = {}
  BY <1>6, <1>2, <1>4 DEF Attributions
<1>7. CASE ~line.photo /\ photos # {}
  <2> HIDE DEF photos, cents
  <2>1. s \in ViaSnapshot(photos, cents)
    BY <1>7 DEF Attributions, photos, cents
  <2>2. photos \in SUBSET Photos /\ photos # {} /\ cents \in Nat
    BY <1>2, <1>7 DEF photos, cents
  <2>3. PICK k \in 0 .. cents : \E c, r : Splits(s, photos, cents, k, c, r)
    BY <2>1, <2>2, SnapshotParts
  <2>10. PICK c, r : Splits(s, photos, cents, k, c, r)
    BY <2>3
  <2>4. k \in Nat /\ cents - k \in Nat
    BY <2>2
  <2> DEFINE D == DOMAIN PhotoCount(photos)
  <2>5. D \subseteq From(photos) /\ IsFiniteSet(D) /\ PhotoCount(photos) \in [D -> Nat]
    BY <1>2, <1>3, CountFacts
  <2>6. c \in Credit(From(photos))
    <3>1. CASE c = NoShares
      BY <3>1, NoCredit
    <3>2. CASE D # {} /\ c \in {Positive(q) : q \in Shares(k, PhotoCount(photos))}
      <4>1. PICK q \in Shares(k, PhotoCount(photos)) : c = Positive(q)
        BY <3>2
      <4>2. q \in [D -> Nat]
        BY <2>4, <2>5, <3>2, SharesExact
      <4>3. c \in Credit(D)
        BY <4>1, <4>2, <2>5, PositiveCredit
      <4> QED
        BY <4>3, <2>5, CreditWider
    <3> QED
      BY <3>1, <3>2, <2>10 DEF Splits
  <2>7. r \in Credit(From(photos))
    BY <2>10, <2>4, <1>4, NoCredit DEF Splits
  <2>8. Plus(c, r) \in Credit(From(photos))
    BY <2>6, <2>7, <1>3, PlusCredit
  <2> QED
    BY <2>10, <2>8 DEF photos, Splits
<1> QED
  BY <1>5, <1>6, <1>7

(* A photographer's exact part of a line, in cents times Scale.            *)
Part(line, u) ==
  line.cents * Cardinality({p \in line.photos : author[p] = u}) * (Scale \div Cardinality(line.photos))

(* The bound on a rounded part, taken up to Scale.                         *)
LEMMA Finer ==
  ASSUME NEW m \in Nat \ {0}, NEW k \in Nat, m * k = Scale, Scale > 0,
         NEW x \in Nat, NEW a \in Nat, m * x < a + m, m * x > a - m
  PROVE  /\ a * k \in Nat /\ Scale * x \in Nat
         /\ -Scale < Scale * x - a * k /\ Scale * x - a * k < Scale
<1>1. k # 0
  OBVIOUS
<1>2. m * x \in Int /\ a \in Int /\ m * x - a \in Int /\ m \in Int /\ -m \in Int
  OBVIOUS
<1>3. k \in Nat \ {0}
  BY <1>1
<1>4. m * x - a < m /\ -m < m * x - a
  BY <1>2
<1>5. k * (m * x - a) < k * m /\ k * (-m) < k * (m * x - a)
  BY <1>2, <1>3, <1>4
<1>6. k * (m * x - a) = Scale * x - a * k /\ k * m = Scale /\ k * (-m) = -Scale
  BY <1>2
<1>7. Scale \in Nat /\ a * k \in Nat /\ Scale * x \in Nat
  BY AttributionAssumption
<1> QED
  BY <1>5, <1>6, <1>7

(* While every photo has its photographer, a line is credited in full, and *)
(* each gets his part of it to within a cent.                              *)
LEMMA LineExact ==
  ASSUME Read, NEW line \in OrderLines, line.photos # {},
         \A p \in line.photos : author[p] # Nobody,
         NEW s \in Attributions(line)
  PROVE  /\ SumOf(s) = line.cents
         /\ \A u : /\ Part(line, u) \in Int /\ Scale * Share(s, u) \in Int
                  /\ -Scale < Scale * Share(s, u) - Part(line, u)
                  /\ Scale * Share(s, u) - Part(line, u) < Scale
<1> DEFINE photos == line.photos
           cents == line.cents
           m == Cardinality(photos)
           k == Scale \div m
           of(u) == {p \in photos : author[p] = u}
<1>1. OrderLine(line)
  BY AttributionAssumption
<1>2. /\ photos \in SUBSET Photos /\ cents \in Nat /\ photos # {}
      /\ line.photo => \E p \in Photos : photos = {p}
      /\ Scale % m = 0 /\ Scale \in Nat \ {0}
  BY <1>1, AttributionAssumption DEF OrderLine
<1>3. IsFiniteSet(photos) /\ m \in Nat \ {0} /\ \A u : Cardinality(of(u)) \in Nat
  BY <1>2, FromPayees, CountFacts, FS_EmptySet
<1>4. k \in Nat /\ m * k = Scale
  <2>1. k \in Int /\ m * k \in Int /\ Scale % m \in Int /\ Scale = m * k + (Scale % m)
    <3> HIDE DEF m
    <3>1. Scale \in Int /\ m \in Nat \ {0}
      BY <1>2, <1>3
    <3> QED
      BY <3>1, Quotient
  <2> HIDE DEF m, k
  <2>2. m * k = Scale
    BY <2>1, <1>2, <1>3
  <2>3. k >= 0
    <3>1. SUFFICES ASSUME k <= -1 PROVE FALSE
      BY <2>1
    <3>2. m * k <= m * (-1)
      BY <3>1, <2>1, <1>3, Times
    <3> QED
      BY <3>2, <2>2, <1>2, <1>3
  <2> QED
    BY <2>1, <2>2, <2>3
<1>5. \A u : Part(line, u) = cents * Cardinality(of(u)) * k
  BY DEF Part
<1>6. CASE line.photo
  <2>1. PICK p \in Photos : photos = {p}
    BY <1>2, <1>6
  <2>2. (CHOOSE q \in photos : TRUE) = p /\ author[p] # Nobody
    BY <2>1
  <2>3. s = Only(author[p], cents)
    BY <1>6, <2>2 DEF Attributions
  <2>4. /\ SumOf(s) = cents
        /\ \A u : Share(s, u) = IF u = author[p] THEN cents ELSE 0
    <3> DEFINE U == {author[p]}
    <3>1. author[p] \in U /\ cents \in Nat
      BY <1>2
    <3> HIDE DEF cents, U
    <3>2. SumOf(Only(author[p], cents)) = cents
      BY <3>1, OnlyCredit
    <3>3. \A u : Share(Only(author[p], cents), u) = IF u = author[p] THEN cents ELSE 0
      BY <3>1, OnlyCredit
    <3> QED
      BY <2>3, <3>2, <3>3
  <2>5. m = 1 /\ k = Scale
    <3>1. m = 1
      BY <2>1, FS_Singleton
    <3> QED
      BY <3>1, <1>2, <1>4
  <2>6. ASSUME NEW u
        PROVE  Scale * Share(s, u) = Part(line, u) /\ Part(line, u) \in Int
    <3>1. CASE u = author[p]
      <4>1. of(u) = {p}
        BY <2>1, <3>1
      <4>2. Cardinality(of(u)) = 1
        BY <4>1, FS_Singleton
      <4>3. Part(line, u) = cents * 1 * Scale
        BY <4>2, <2>5, <1>5
      <4> QED
        BY <4>3, <2>4, <3>1, <1>2
    <3>2. CASE u # author[p]
      <4>1. of(u) = {}
        BY <2>1, <3>2
      <4>2. Cardinality(of(u)) = 0
        BY <4>1, FS_EmptySet
      <4>3. Part(line, u) = cents * 0 * Scale
        BY <4>2, <2>5, <1>5
      <4> QED
        BY <4>3, <2>4, <3>2, <1>2
    <3> QED
      BY <3>1, <3>2
  <2> QED
    BY <2>4, <2>6, <1>2
<1>7. CASE ~line.photo
  <2> HIDE DEF photos, cents
  <2>1. s \in ViaSnapshot(photos, cents)
    BY <1>2, <1>7 DEF Attributions, photos, cents
  <2>2. PICK j \in 0 .. cents : \E c, r : Splits(s, photos, cents, j, c, r)
    BY <2>1, <1>2, SnapshotParts
  <2>3. PICK c, r : Splits(s, photos, cents, j, c, r)
    BY <2>2
  <2>4. \A p \in photos : author[p] # Nobody
    BY DEF photos
  <2>5. j = cents /\ r = NoShares /\ s = Plus(c, r)
    BY <2>3, <2>4 DEF Splits
  <2> DEFINE count == PhotoCount(photos)
             D == DOMAIN count
  <2>6. /\ D = {author[p] : p \in photos} \ {Nobody} /\ count \in [D -> Nat] /\ IsFiniteSet(D)
        /\ \A u \in D : count[u] = Cardinality(of(u))
    BY <1>2, CountFacts, FromPayees
  <2>7. D # {} /\ \A p \in photos : author[p] \in D
    BY <1>2, <2>4, <2>6
  <2>8. SumOf(count) = m
    <3>1. SumOver([u \in D |-> Cardinality(of(u))], D) = m
      <4> HIDE DEF D
      <4> QED
        BY <2>6, <2>7, <1>3, SumFibres
    <3>2. SumOf(count) = SumOver(count, D)
      BY SumOfOver
    <3> DEFINE g == [u \in D |-> Cardinality(of(u))]
    <3>3. \A u \in D : count[u] \in Int /\ count[u] = g[u]
      BY <2>6
    <3> HIDE DEF g, count
    <3>4. SumOver(count, D) = SumOver(g, D)
      BY <2>6, <3>3, SumSame
    <3> QED
      BY <3>1, <3>2, <3>4 DEF g
  <2>9. ASSUME NEW u, u \notin D PROVE Part(line, u) = 0 /\ Part(line, u) \in Int
    <3>1. of(u) = {}
      BY <2>7, <2>9
    <3>2. Cardinality(of(u)) = 0
      BY <3>1, FS_EmptySet
    <3> HIDE DEF k, m
    <3>3. Part(line, u) = cents * 0 * k
      BY <3>2, <1>5
    <3> QED
      BY <3>3, <1>2, <1>4
  <2>10. /\ c \in Credit(D) /\ SumOf(s) = SumOf(c)
         /\ \A u : Share(s, u) = Share(c, u)
         /\ SumOf(c) = cents
         /\ \A u \in D : /\ Share(c, u) \in Nat
                        /\ m * Share(c, u) < cents * count[u] + m
                        /\ m * Share(c, u) > cents * count[u] - m
         /\ \A u : u \notin D => Share(c, u) = 0
    <3> HIDE DEF D, count
    <3>1. CASE c = NoShares /\ cents = 0
      <4>1. c \in Credit(D) /\ SumOf(c) = 0 /\ \A u : Share(c, u) = 0
        BY <3>1, NoCredit
      <4>2. /\ c \in Credit(D) /\ r \in Credit(D) /\ SumOf(r) = 0 /\ \A u : Share(r, u) = 0
        BY <4>1, <2>5, NoCredit
      <4>3. SumOf(s) = SumOf(c) + SumOf(r) /\ \A u : Share(s, u) = Share(c, u) + Share(r, u)
        <5>0. c \in Credit(D) /\ r \in Credit(D) /\ IsFiniteSet(D)
          BY <4>2, <2>6
        <5>1. SumOf(Plus(c, r)) = SumOf(c) + SumOf(r)
          BY <5>0, PlusCredit
        <5>2. \A u : Share(Plus(c, r), u) = Share(c, u) + Share(r, u)
          BY <5>0, PlusCredit
        <5> QED
          BY <5>1, <5>2, <2>5
      <4>4. \A u \in D : /\ m * Share(c, u) < cents * count[u] + m
                        /\ m * Share(c, u) > cents * count[u] - m
        <5> TAKE u \in D
        <5> HIDE DEF m
        <5>1. m * Share(c, u) = 0 /\ cents * count[u] = 0
          BY <3>1, <4>1, <2>6, <1>3
        <5> QED
          BY <5>1, <1>3
      <4> QED
        BY <3>1, <4>1, <4>2, <4>3, <4>4
    <3>2. CASE c \in {Positive(q) : q \in Shares(cents, count)}
      <4>1. PICK q \in Shares(cents, count) : c = Positive(q)
        BY <3>2
      <4>2. /\ q \in [D -> Nat] /\ SumOf(q) = cents
            /\ \A u \in D : /\ m * q[u] < cents * count[u] + m
                           /\ m * q[u] > cents * count[u] - m
        <5> HIDE DEF m
        <5>1. count \in [D -> Nat] /\ IsFiniteSet(D) /\ D # {} /\ cents \in Nat
          BY <2>6, <2>7, <1>2
        <5>2. /\ q \in [D -> Nat] /\ SumOf(q) = cents
              /\ SumOf(count) > 0 =>
                   \A u \in D : /\ SumOf(count) * q[u] < cents * count[u] + SumOf(count)
                               /\ SumOf(count) * q[u] > cents * count[u] - SumOf(count)
          BY <5>1, SharesExact
        <5>3. SumOf(count) > 0
          BY <2>8, <1>3
        <5> QED
          BY <5>2, <5>3, <2>8
      <4>3. /\ c \in Credit(D) /\ SumOf(c) = cents
            /\ \A u \in D : Share(c, u) = q[u]
            /\ \A u : u \notin D => Share(c, u) = 0
        BY <4>1, <4>2, <2>6, PositiveCredit
      <4>4. /\ c \in Credit(D) /\ r \in Credit(D) /\ SumOf(r) = 0 /\ \A u : Share(r, u) = 0
        BY <4>3, <2>5, NoCredit
      <4>5. SumOf(s) = SumOf(c) + SumOf(r) /\ \A u : Share(s, u) = Share(c, u) + Share(r, u)
        <5>0. c \in Credit(D) /\ r \in Credit(D) /\ IsFiniteSet(D)
          BY <4>4, <2>6
        <5>1. SumOf(Plus(c, r)) = SumOf(c) + SumOf(r)
          BY <5>0, PlusCredit
        <5>2. \A u : Share(Plus(c, r), u) = Share(c, u) + Share(r, u)
          BY <5>0, PlusCredit
        <5> QED
          BY <5>1, <5>2, <2>5
      <4>6. SumOf(c) \in Nat /\ \A u : Share(c, u) \in Nat
        BY <4>3, <2>6, CreditFacts
      <4> QED
        BY <4>2, <4>3, <4>4, <4>5, <4>6
    <3> QED
      BY <3>1, <3>2, <2>3, <2>5, <2>7 DEF Splits, D, count
  <2>11. ASSUME NEW u
         PROVE  /\ Part(line, u) \in Int /\ Scale * Share(s, u) \in Int
                /\ -Scale < Scale * Share(s, u) - Part(line, u)
                /\ Scale * Share(s, u) - Part(line, u) < Scale
    <3>1. CASE u \notin D
      <4>1. Share(s, u) = 0 /\ Part(line, u) = 0
        BY <3>1, <2>9, <2>10
      <4> QED
        BY <4>1, <1>2
    <3>2. CASE u \in D
      <4> DEFINE x == Share(s, u)
                 a == cents * count[u]
      <4>1. x \in Nat /\ m * x < a + m /\ m * x > a - m
        BY <3>2, <2>10
      <4>2. count[u] \in Nat /\ count[u] = Cardinality(of(u))
        BY <3>2, <2>6
      <4>3. a \in Nat
        BY <4>2, <1>2
      <4>4. Part(line, u) = a * k
        BY <4>2, <1>5
      <4> HIDE DEF x, a, m, k
      <4>5. Scale > 0
        BY <1>2
      <4>6. /\ a * k \in Nat /\ Scale * x \in Nat
            /\ -Scale < Scale * x - a * k /\ Scale * x - a * k < Scale
        BY <4>1, <4>3, <4>5, <1>3, <1>4, Finer
      <4> QED
        BY <4>4, <4>6 DEF x
    <3> QED
      BY <3>1, <3>2
  <2> QED
    BY <2>10, <2>11 DEF cents
<1> QED
  BY <1>6, <1>7

------------------------------------------------------------------------------
(* The run of a split *)

AttributionTypeOK ==
  /\ lines \in Seq(OrderLines) /\ lines # <<>> /\ paid \in Nat \ {0} /\ paid <= Cents(lines)
  /\ Read
  /\ at \in 1 .. Len(lines) + 3
  /\ gross \in Credit(Payees) /\ net \in Credit(Payees)

(* Photographers of the order and members of the event. *)
Creditable == (OrderedFrom \ {Nobody}) \cup Members

Attributed(n) == {i \in DOMAIN lines : i < n}
LineCents == [i \in DOMAIN lines |-> lines[i].cents]
LineParts(u) == [i \in DOMAIN lines |-> Part(lines[i], u)]

(* What is credited so far is what the lines so far cost, and everybody's  *)
(* exact part of these to within a cent a line.                            *)
CreditedSoFar ==
  AllKnown /\ at <= Len(lines) + 1 =>
    /\ SumOf(gross) = SumOver(LineCents, Attributed(at))
    /\ \A u \in Payees :
         LET off == Scale * Share(gross, u) - SumOver(LineParts(u), Attributed(at))
         IN -(Scale * (at - 1)) <= off /\ off <= Scale * (at - 1)

AttributionInv ==
  /\ AttributionTypeOK
  /\ gross \in Credit(Creditable)
  /\ CreditedSoFar
  /\ at = Len(lines) + 2 => ~AllKnown
  /\ net # NoShares => at = Len(lines) + 3
  /\ SplitEarned

LEMMA LineFacts ==
  ASSUME lines \in Seq(OrderLines), Read
  PROVE  /\ DOMAIN lines = 1 .. Len(lines) /\ Len(lines) \in Nat /\ IsFiniteSet(DOMAIN lines)
         /\ \A i \in DOMAIN lines :
              /\ lines[i] \in OrderLines /\ lines[i].photos \in SUBSET Photos
              /\ lines[i].cents \in Nat /\ LineCents[i] = lines[i].cents
              /\ From(lines[i].photos) \subseteq Creditable
         /\ Creditable \subseteq Payees /\ IsFiniteSet(Creditable)
         /\ Cents(lines) = SumOver(LineCents, DOMAIN lines) /\ Cents(lines) \in Nat
<1>1. DOMAIN lines = 1 .. Len(lines) /\ Len(lines) \in Nat
  OBVIOUS
<1>2. IsFiniteSet(DOMAIN lines)
  BY <1>1, FS_Interval, 1 \in Int
<1>3. ASSUME NEW i \in DOMAIN lines
      PROVE  /\ lines[i] \in OrderLines /\ lines[i].photos \in SUBSET Photos
             /\ lines[i].cents \in Nat /\ LineCents[i] = lines[i].cents
  <2>1. lines[i] \in OrderLines
    BY <1>1
  <2>2. OrderLine(lines[i])
    BY <2>1, AttributionAssumption
  <2> QED
    BY <2>1, <2>2 DEF OrderLine, LineCents
<1>4. OrderedFrom = UNION {{author[p] : p \in lines[i].photos} : i \in DOMAIN lines}
  BY DEF OrderedFrom
<1>5. \A i \in DOMAIN lines : From(lines[i].photos) \subseteq Creditable
  BY <1>4 DEF From, Creditable
<1>6. Creditable \subseteq Payees
  <2>1. ASSUME NEW u \in OrderedFrom, u # Nobody PROVE u \in Payees
    <3>1. PICK i \in DOMAIN lines : \E p \in lines[i].photos : u = author[p]
      BY <1>4
    <3>2. PICK p \in Photos : u = author[p]
      BY <1>3, <3>1
    <3> QED
      BY <2>1, <3>2 DEF Read
  <2> QED
    BY <2>1 DEF Creditable, Members
<1>7. IsFiniteSet(Creditable)
  BY <1>6, AttributionAssumption, FS_Subset
<1>8. Cents(lines) = SumOver(LineCents, DOMAIN lines)
  <2>1. Cents(lines) = SumOf(LineCents) /\ DOMAIN LineCents = DOMAIN lines
    BY DEF Cents, LineCents
  <2> QED
    BY <2>1, SumOfOver
<1>9. Cents(lines) \in Nat
  <2>1. \A i \in DOMAIN lines : LineCents[i] \in Nat
    BY <1>3
  <2> QED
    BY <2>1, <1>2, <1>8, SumNat
<1> QED
  BY <1>1, <1>2, <1>3, <1>5, <1>6, <1>7, <1>8, <1>9

LEMMA AttributedFacts ==
  ASSUME lines \in Seq(OrderLines)
  PROVE  /\ Attributed(1) = {} /\ Attributed(Len(lines) + 1) = DOMAIN lines
         /\ \A n \in 1 .. Len(lines) : Attributed(n + 1) = Attributed(n) \cup {n} /\ n \notin Attributed(n)
         /\ \A n : Attributed(n) \in SUBSET DOMAIN lines
<1>1. DOMAIN lines = 1 .. Len(lines) /\ Len(lines) \in Nat
  OBVIOUS
<1>2. Attributed(1) = {}
  BY <1>1 DEF Attributed
<1>3. Attributed(Len(lines) + 1) = DOMAIN lines
  BY <1>1 DEF Attributed
<1>4. \A n \in 1 .. Len(lines) : Attributed(n + 1) = Attributed(n) \cup {n} /\ n \notin Attributed(n)
  BY <1>1 DEF Attributed
<1> QED
  BY <1>2, <1>3, <1>4 DEF Attributed

LEMMA InitAttribution == AttributionInit => AttributionInv
<1> SUFFICES ASSUME AttributionInit PROVE AttributionInv
  OBVIOUS
<1>1. PICK n \in 1 .. MaxLines : lines \in [1 .. n -> OrderLines]
  BY DEF AttributionInit
<1>2. lines \in Seq(OrderLines) /\ Len(lines) = n /\ lines # <<>>
  <2>1. n \in Nat /\ n >= 1
    BY <1>1, AttributionAssumption
  <2>2. lines \in Seq(OrderLines) /\ Len(lines) = n
    BY <1>1, <2>1
  <2> QED
    BY <2>1, <2>2
<1>3. Read /\ at = 1 /\ gross = NoShares /\ net = NoShares
  BY DEF AttributionInit, Read
<1>4. Cents(lines) \in Nat /\ Len(lines) \in Nat
  BY <1>2, <1>3, LineFacts
<1>5. PICK d \in Discounts : d < Cents(lines) /\ paid = Cents(lines) - d
  BY DEF AttributionInit
<1>6. paid \in Nat \ {0} /\ paid <= Cents(lines)
  <2>1. d \in Nat
    BY AttributionAssumption
  <2> QED
    BY <2>1, <1>4, <1>5
<1>7. /\ gross \in Credit(Payees) /\ net \in Credit(Payees) /\ gross \in Credit(Creditable)
      /\ SumOf(gross) = 0 /\ \A u : Share(gross, u) = 0
  BY <1>3, NoCredit
<1>8. AttributionTypeOK
  BY <1>2, <1>3, <1>4, <1>6, <1>7 DEF AttributionTypeOK
<1>9. CreditedSoFar
  <2>1. Attributed(at) = {}
    BY <1>2, <1>3, AttributedFacts
  <2>2. SumOver(LineCents, Attributed(at)) = 0 /\ \A u : SumOver(LineParts(u), Attributed(at)) = 0
    BY <2>1, SumEmpty
  <2>3. Scale * (at - 1) = 0 /\ Scale * 0 = 0 /\ -(Scale * (at - 1)) = 0
    BY <1>3, AttributionAssumption
  <2> QED
    BY <2>2, <2>3, <1>7 DEF CreditedSoFar
<1>10. at # Len(lines) + 2 /\ SplitEarned
  BY <1>3, <1>4 DEF SplitEarned
<1> QED
  BY <1>3, <1>7, <1>8, <1>9, <1>10 DEF AttributionInv

LEMMA AttributeLineInv == AttributionInv /\ AttributeLine => AttributionInv'
<1> SUFFICES ASSUME AttributionInv, AttributeLine PROVE AttributionInv'
  OBVIOUS
<1>1. /\ lines \in Seq(OrderLines) /\ lines # <<>> /\ paid \in Nat \ {0} /\ paid <= Cents(lines) /\ Read
      /\ at \in 1 .. Len(lines) + 3 /\ gross \in Credit(Payees) /\ net \in Credit(Payees)
      /\ gross \in Credit(Creditable) /\ CreditedSoFar /\ (net # NoShares => at = Len(lines) + 3)
  BY DEF AttributionInv, AttributionTypeOK
<1>2. /\ at <= Len(lines) /\ at' = at + 1
      /\ lines' = lines /\ paid' = paid /\ author' = author /\ percent' = percent /\ net' = net
  BY DEF AttributeLine
<1>3. PICK s \in Attributions(lines[at]) : gross' = Plus(gross, s)
  BY DEF AttributeLine
<1>4. /\ Creditable' = Creditable /\ Read' = Read /\ AllKnown' = AllKnown
      /\ (Cents(lines))' = Cents(lines) /\ LineCents' = LineCents
      /\ \A u : (LineParts(u))' = LineParts(u)
  BY <1>2 DEF Creditable, OrderedFrom, Members, Read, AllKnown, Cents, LineCents, LineParts, Part
<1>5. Len(lines) \in Nat /\ at \in 1 .. Len(lines) /\ at \in DOMAIN lines
  BY <1>1, <1>2, LineFacts
<1>6. /\ lines[at] \in OrderLines /\ From(lines[at].photos) \subseteq Creditable
      /\ Creditable \subseteq Payees /\ IsFiniteSet(Creditable)
  BY <1>1, <1>5, LineFacts
<1>7. s \in Credit(Creditable)
  <2>1. s \in Credit(From(lines[at].photos))
    BY <1>1, <1>3, <1>6, LineCredit
  <2> QED
    BY <2>1, <1>6, CreditWider
<1>8. /\ gross' \in Credit(Creditable) /\ SumOf(gross') = SumOf(gross) + SumOf(s)
      /\ \A u : Share(gross', u) = Share(gross, u) + Share(s, u)
  BY <1>1, <1>3, <1>6, <1>7, PlusCredit
<1>9. gross' \in Credit(Payees)
  BY <1>6, <1>8, CreditWider
<1>10. net = NoShares /\ at' \in 1 .. Len(lines) + 3 /\ at' # Len(lines) + 2
  BY <1>1, <1>2, <1>5
<1>11. ASSUME AllKnown
       PROVE  /\ SumOf(gross') = SumOver(LineCents, Attributed(at + 1))
              /\ \A u \in Payees :
                   LET off == Scale * Share(gross', u) - SumOver(LineParts(u), Attributed(at + 1))
                   IN -(Scale * at) <= off /\ off <= Scale * at
  <2> DEFINE B == Attributed(at)
  <2>1. /\ Attributed(at + 1) = B \cup {at} /\ at \notin B /\ B \in SUBSET DOMAIN lines /\ IsFiniteSet(B)
    <3>1. IsFiniteSet(DOMAIN lines)
      BY <1>1, LineFacts
    <3> QED
      BY <3>1, <1>1, <1>5, AttributedFacts, FS_Subset
  <2> HIDE DEF B
  <2>2. lines[at].photos # {} /\ \A p \in lines[at].photos : author[p] # Nobody
    BY <1>5, <1>11 DEF AllKnown
  <2>3. /\ SumOf(s) = lines[at].cents
        /\ \A u : /\ Part(lines[at], u) \in Int /\ Scale * Share(s, u) \in Int
                 /\ -Scale < Scale * Share(s, u) - Part(lines[at], u)
                 /\ Scale * Share(s, u) - Part(lines[at], u) < Scale
    BY <2>2, <1>1, <1>3, <1>6, LineExact
  <2>4. /\ SumOf(gross) = SumOver(LineCents, B)
        /\ \A u \in Payees :
             LET off == Scale * Share(gross, u) - SumOver(LineParts(u), B)
             IN -(Scale * (at - 1)) <= off /\ off <= Scale * (at - 1)
    BY <1>1, <1>5, <1>11 DEF CreditedSoFar, B
  <2>5. SumOf(gross') = SumOver(LineCents, Attributed(at + 1))
    <3>1. \A i \in DOMAIN lines : LineCents[i] \in Int
      BY <1>1, LineFacts
    <3>2. LineCents[at] = lines[at].cents
      BY <1>5 DEF LineCents
    <3>3. SumOver(LineCents, B \cup {at}) = SumOver(LineCents, B) + LineCents[at]
      BY <2>1, <3>1, <1>5, SumAdd
    <3> QED
      BY <2>1, <2>3, <2>4, <3>2, <3>3, <1>8
  <2>6. ASSUME NEW u \in Payees
        PROVE  LET off == Scale * Share(gross', u) - SumOver(LineParts(u), Attributed(at + 1))
               IN -(Scale * at) <= off /\ off <= Scale * at
    <3> DEFINE P == LineParts(u)
               before == SumOver(P, B)
               part == Part(lines[at], u)
    <3>1. \A i \in DOMAIN lines : P[i] = Part(lines[i], u)
      BY DEF LineParts
    <3>2. \A i \in DOMAIN lines : P[i] \in Int
      <4> TAKE i \in DOMAIN lines
      <4>1. /\ lines[i] \in OrderLines /\ lines[i].photos \in SUBSET Photos
        BY <1>1, LineFacts
      <4>2. Cardinality({p \in lines[i].photos : author[p] = u}) \in Nat
        BY <4>1, <1>1, CountFacts
      <4>3. lines[i].cents \in Nat /\ Cardinality(lines[i].photos) \in Nat \ {0}
        <5>1. IsFiniteSet(lines[i].photos) /\ lines[i].photos # {}
          BY <4>1, <1>1, <1>11, FromPayees DEF AllKnown
        <5> QED
          BY <5>1, <4>1, <1>1, LineFacts, FS_CardinalityType, FS_EmptySet
      <4>4. Scale \div Cardinality(lines[i].photos) \in Int
        <5> DEFINE m == Cardinality(lines[i].photos)
        <5>1. Scale \in Int /\ m \in Nat \ {0}
          BY <4>3, AttributionAssumption
        <5> HIDE DEF m
        <5>2. Scale \div m \in Int
          BY <5>1, Quotient
        <5> QED
          BY <5>2 DEF m
      <4> QED
        BY <4>2, <4>3, <4>4, <3>1 DEF Part
    <3> HIDE DEF P
    <3>3. SumOver(P, B \cup {at}) = before + P[at]
      BY <2>1, <3>2, <1>5, SumAdd
    <3>4. before \in Int
      BY <2>1, <3>2, SumInt
    <3>5. P[at] = part /\ part \in Int
      BY <3>1, <2>3, <1>5
    <3> DEFINE x == Share(gross, u)
               y == Share(s, u)
    <3>6. x \in Nat /\ y \in Nat /\ Share(gross', u) = x + y
      BY <1>1, <1>6, <1>7, <1>8, CreditFacts
    <3>7. -Scale < Scale * y - part /\ Scale * y - part < Scale
      BY <2>3
    <3>8. -(Scale * (at - 1)) <= Scale * x - before /\ Scale * x - before <= Scale * (at - 1)
      BY <2>4 DEF P
    <3>9. Attributed(at + 1) = B \cup {at}
      BY <2>1
    <3> HIDE DEF part, before, x, y
    <3>10. /\ Scale \in Nat /\ at \in Nat /\ Scale * (x + y) = Scale * x + Scale * y
           /\ Scale * at = Scale * (at - 1) + Scale
           /\ Scale * x \in Int /\ Scale * y \in Int /\ Scale * (at - 1) \in Int
      BY <3>6, <1>5, AttributionAssumption
    <3>11. /\ -(Scale * at) <= Scale * (x + y) - (before + part)
           /\ Scale * (x + y) - (before + part) <= Scale * at
      BY <3>4, <3>5, <3>7, <3>8, <3>10
    <3> QED
      BY <3>3, <3>5, <3>6, <3>9, <3>11 DEF P, before
  <2> QED
    BY <2>5, <2>6
<1>12. CreditedSoFar'
  <2>1. (Attributed(at))' = Attributed(at + 1) /\ at' - 1 = at
    BY <1>2, <1>5 DEF Attributed
  <2>2. SUFFICES ASSUME AllKnown
                 PROVE  /\ SumOf(gross') = SumOver(LineCents, Attributed(at + 1))
                        /\ \A u \in Payees :
                             LET off == Scale * Share(gross', u) - SumOver(LineParts(u), Attributed(at + 1))
                             IN -(Scale * at) <= off /\ off <= Scale * at
    BY <2>1, <1>4 DEF CreditedSoFar
  <2> QED
    BY <2>2, <1>11
<1>13. AttributionTypeOK'
  BY <1>1, <1>2, <1>4, <1>9, <1>10 DEF AttributionTypeOK
<1>14. SplitEarned'
  BY <1>2, <1>10 DEF SplitEarned, NoShares
<1> QED
  BY <1>2, <1>4, <1>8, <1>10, <1>12, <1>13, <1>14 DEF AttributionInv, NoShares

LEMMA FallBackFullyInv == AttributionInv /\ FallBackFully => AttributionInv'
<1> SUFFICES ASSUME AttributionInv, FallBackFully PROVE AttributionInv'
  OBVIOUS
<1>1. /\ lines \in Seq(OrderLines) /\ lines # <<>> /\ paid \in Nat \ {0} /\ paid <= Cents(lines) /\ Read
      /\ at \in 1 .. Len(lines) + 3 /\ gross \in Credit(Payees) /\ net \in Credit(Payees)
      /\ gross \in Credit(Creditable) /\ CreditedSoFar /\ (net # NoShares => at = Len(lines) + 3)
  BY DEF AttributionInv, AttributionTypeOK
<1>2. /\ at = Len(lines) + 1 /\ DOMAIN gross = {} /\ at' = at + 1
      /\ lines' = lines /\ paid' = paid /\ author' = author /\ percent' = percent /\ net' = net
  BY DEF FallBackFully
<1>3. gross' \in ViaFallback(paid)
  BY DEF FallBackFully
<1>4. /\ Creditable' = Creditable /\ Read' = Read /\ AllKnown' = AllKnown
      /\ (Cents(lines))' = Cents(lines) /\ Len(lines) \in Nat
  BY <1>1, <1>2 DEF Creditable, OrderedFrom, Members, Read, AllKnown, Cents
<1>5. Creditable \subseteq Payees /\ Members \subseteq Creditable
  BY <1>1, LineFacts DEF Creditable
<1>6. gross' \in Credit(Creditable) /\ gross' \in Credit(Payees)
  <2>1. gross' \in Credit(Members)
    BY <1>1, <1>3, FallbackCredit
  <2> QED
    BY <2>1, <1>5, CreditWider
<1>7. ~AllKnown
  <2> SUFFICES ASSUME AllKnown PROVE FALSE
    OBVIOUS
  <2>1. SumOf(gross) = SumOver(LineCents, Attributed(at))
    BY <1>2, <1>4 DEF CreditedSoFar, AttributionInv
  <2>2. SumOver(LineCents, Attributed(at)) = Cents(lines) /\ Cents(lines) \in Nat
    BY <1>1, <1>2, AttributedFacts, LineFacts
  <2>3. SumOf(gross) = 0
    BY <1>2, SumOfOver, SumEmpty
  <2> QED
    BY <2>1, <2>2, <2>3, <1>1
<1>8. at' = Len(lines) + 2 /\ net = NoShares /\ at' \in 1 .. Len(lines) + 3
  BY <1>1, <1>2, <1>4
<1>9. AttributionTypeOK'
  BY <1>1, <1>2, <1>4, <1>6, <1>8 DEF AttributionTypeOK
<1>10. CreditedSoFar'
  BY <1>4, <1>7 DEF CreditedSoFar
<1>11. SplitEarned'
  BY <1>2, <1>8 DEF SplitEarned, NoShares
<1> QED
  BY <1>2, <1>4, <1>6, <1>7, <1>8, <1>9, <1>10, <1>11 DEF AttributionInv, NoShares

(* Every entry of the net is posted with the fees, in a batch that balances. *)
LEMMA NetPostable ==
  ASSUME NEW U, IsFiniteSet(U), NEW n \in Credit(U), NEW cents \in Nat,
         SumOf(n) = Distributable(cents), Distributable(cents) > 0,
         NEW o \in SetToSeqs(DOMAIN n)
  PROVE  Postable(SaleBatch(cents, [i \in DOMAIN o |-> n[o[i]]]))
<1> DEFINE D == DOMAIN n
           row == [i \in DOMAIN o |-> n[o[i]]]
<1>1. IsFiniteSet(D) /\ n \in [D -> Nat]
  BY CreditFacts
<1>2. /\ o \in [1 .. Cardinality(D) -> D] /\ DOMAIN o = 1 .. Cardinality(D)
      /\ Cardinality(D) \in Nat /\ IsFiniteSet(1 .. Cardinality(D))
      /\ \A i, j \in DOMAIN o : o[i] = o[j] => i = j
      /\ \A x \in D : \E i \in DOMAIN o : o[i] = x
  BY <1>1, ListsAll
<1>3. row \in [1 .. Cardinality(D) -> Nat] /\ row \in Seq(Nat)
  <2>1. row \in [1 .. Cardinality(D) -> Nat]
    BY <1>1, <1>2
  <2> QED
    BY <2>1, <1>2
<1>4. \A i \in DOMAIN o : row[i] = n[o[i]]
  OBVIOUS
<1> HIDE DEF row
<1>5. SumOf(row) = SumOf(n)
  <2> DEFINE E == DOMAIN o
  <2>1. IsFiniteSet(E) /\ o \in [E -> D] /\ row \in [E -> Int] /\ n \in [D -> Int]
    BY <1>1, <1>2, <1>3
  <2> HIDE DEF E, D
  <2>2. Reorders(o, E, D, row, n)
    BY <2>1, <1>2, <1>4 DEF Reorders, E
  <2> QED
    BY <2>2, Reindex
<1>6. Debits(SaleBatch(cents, row)) = Credits(SaleBatch(cents, row))
  BY <1>3, <1>5, SaleBalanced
<1>7. \A e \in SaleBatch(cents, row) : e.amount > 0
  BY <1>3, SalePositive
<1> QED
  BY <1>6, <1>7 DEF Postable, row

LEMMA TimesLess ==
  ASSUME NEW W \in Nat \ {0}, NEW a \in Int, NEW b \in Int
  PROVE  (a < b => W * a < W * b) /\ (W * a < W * b => a < b)
<1>1. W * a \in Int /\ W * b \in Int /\ W \in Nat /\ W > 0
  BY Times
<1>2. a < b => W * a + W <= W * b
  BY Times
<1>3. b <= a => W * b <= W * a
  BY Times
<1> QED
  BY <1>1, <1>2, <1>3

(* Three roundings in a row: of the lines (to G, exactly E in cents times  *)
(* S), of these to what was paid (to g), and of the net (to n).            *)
LEMMA Chained ==
  ASSUME NEW S \in Nat \ {0}, NEW K \in Nat, NEW C \in Nat \ {0}, NEW P \in Nat \ {0}, NEW L \in Nat \ {0},
         NEW G \in Int, NEW E \in Int, NEW g \in Int, NEW n \in Int, L <= P, P <= C,
         P * n < L * g + P, L * g - P < P * n,
         C * g < P * G + C, P * G - C < C * g,
         S * G - E <= S * K, -(S * K) <= S * G - E
  PROVE  LET off == S * C * n - L * E
             slack == S * C * (K + 2)
         IN -slack < off /\ off < slack
<1> DEFINE SC == S * C
           SL == S * L
           PL == P * L
           a == P * n - L * g
           b == C * g - P * G
           c == S * G - E
           off == SC * n - L * E
           slack == SC * (K + 2)
<1>1. /\ SC \in Nat \ {0} /\ SL \in Nat \ {0} /\ PL \in Nat \ {0}
      /\ a \in Int /\ b \in Int /\ c \in Int /\ off \in Int /\ slack \in Int /\ S * K \in Int
      /\ P \in Int /\ C \in Int /\ -P \in Int /\ -C \in Int /\ -(S * K) \in Int /\ -slack \in Int
  <2>1. SC \in Nat \ {0}
    BY Times
  <2>2. SL \in Nat \ {0}
    BY Times
  <2>3. PL \in Nat \ {0}
    BY Times
  <2>4. a \in Int /\ b \in Int /\ c \in Int
    OBVIOUS
  <2>5. off \in Int /\ slack \in Int /\ S * K \in Int
    OBVIOUS
  <2> HIDE DEF SC, SL, PL, a, b, c, off, slack
  <2> QED
    BY <2>1, <2>2, <2>3, <2>4, <2>5
<1>2. a < P /\ -P < a
  <2>1. P * n \in Int /\ L * g \in Int
    OBVIOUS
  <2> QED
    BY <2>1
<1>3. b < C /\ -C < b
  <2>1. C * g \in Int /\ P * G \in Int
    OBVIOUS
  <2> QED
    BY <2>1
<1>4. c <= S * K /\ -(S * K) <= c
  OBVIOUS
<1>5. P * off = SC * a + SL * b + PL * c
  <2>1. SC * a = P * (SC * n) - S * C * L * g
    OBVIOUS
  <2>2. SL * b = S * C * L * g - S * L * P * G
    OBVIOUS
  <2>3. PL * c = S * L * P * G - P * (L * E)
    OBVIOUS
  <2>4. P * off = P * (SC * n) - P * (L * E)
    OBVIOUS
  <2>5. /\ P * (SC * n) \in Int /\ S * C * L * g \in Int /\ S * L * P * G \in Int /\ P * (L * E) \in Int
    OBVIOUS
  <2> HIDE DEF SC, SL, PL, a, b, c, off
  <2> QED
    BY <2>1, <2>2, <2>3, <2>4, <2>5
<1>6. /\ SC * P \in Int /\ SL * C \in Int /\ PL * (S * K) \in Int /\ SC * (P * K) \in Int
      /\ SL * C = SC * L /\ PL * (S * K) = (S * K) * (P * L)
      /\ P * slack = SC * P + SC * P + SC * (P * K)
      /\ SC * (-P) = -(SC * P) /\ SL * (-C) = -(SL * C) /\ PL * (-(S * K)) = -(PL * (S * K))
      /\ P * (-slack) = -(P * slack)
  OBVIOUS
<1>7. SL * C <= SC * P
  <2> HIDE DEF SC, SL
  <2>1. SC * L <= SC * P
    BY <1>1, Times
  <2> QED
    BY <2>1, <1>6
<1>8. PL * (S * K) <= SC * (P * K)
  <2> DEFINE SPK == S * P * K
  <2>1. L * SPK = PL * (S * K) /\ C * SPK = SC * (P * K) /\ SPK \in Nat /\ L <= C
    OBVIOUS
  <2> HIDE DEF SPK
  <2>2. L * SPK = SPK * L /\ C * SPK = SPK * C
    BY <2>1
  <2>3. SPK * L <= SPK * C
    <3>1. CASE SPK = 0
      BY <3>1
    <3>2. CASE SPK # 0
      BY <3>2, <2>1, Times
    <3> QED
      BY <3>1, <3>2
  <2> HIDE DEF PL, SC
  <2> QED
    BY <2>1, <2>2, <2>3
<1> HIDE DEF SC, SL, PL, a, b, c, off, slack
<1>9. SC * a < SC * P /\ SC * (-P) < SC * a
  BY <1>1, <1>2, TimesLess
<1>10. SL * b < SL * C /\ SL * (-C) < SL * b
  BY <1>1, <1>3, TimesLess
<1>11. PL * c <= PL * (S * K) /\ PL * (-(S * K)) <= PL * c
  BY <1>1, <1>4, Times
<1>12. SC * a \in Int /\ SL * b \in Int /\ PL * c \in Int /\ P * off \in Int /\ P * slack \in Int
  BY <1>1
<1>13. P * off < P * slack /\ P * (-slack) < P * off
  BY <1>5, <1>6, <1>7, <1>8, <1>9, <1>10, <1>11, <1>12
<1>14. off < slack /\ -slack < off
  BY <1>13, <1>1, TimesLess
<1> QED
  BY <1>14 DEF off, slack, SC

(* The reference of the property is the sum of the parts.                  *)
LEMMA ExactParts ==
  ASSUME lines \in Seq(OrderLines), Read, AllKnown, NEW u \in Payees
  PROVE  Exact(u) = SumOver(LineParts(u), DOMAIN lines) /\ Exact(u) \in Int
<1> DEFINE f == [i \in DOMAIN lines |->
                  lines[i].cents * Cardinality({p \in lines[i].photos : author[p] = u})
                    * (Scale \div Cardinality(lines[i].photos))]
<1>1. Exact(u) = SumOf(f)
  BY DEF Exact
<1>2. f = LineParts(u) /\ DOMAIN LineParts(u) = DOMAIN lines
  BY DEF LineParts, Part
<1> HIDE DEF f
<1>3. SumOf(LineParts(u)) = SumOver(LineParts(u), DOMAIN lines)
  BY <1>2, SumOfOver
<1>4. \A i \in DOMAIN lines : LineParts(u)[i] \in Int
  <2> TAKE i \in DOMAIN lines
  <2>1. lines[i].photos \in SUBSET Photos /\ lines[i].photos # {} /\ lines[i].cents \in Nat
    BY LineFacts DEF AllKnown
  <2>2. Cardinality({p \in lines[i].photos : author[p] = u}) \in Nat
    BY <2>1, CountFacts
  <2> DEFINE m == Cardinality(lines[i].photos)
  <2>3. m \in Nat \ {0}
    <3>1. IsFiniteSet(lines[i].photos)
      BY <2>1, FromPayees
    <3> QED
      BY <3>1, <2>1, FS_CardinalityType, FS_EmptySet
  <2>4. LineParts(u)[i] =
          lines[i].cents * Cardinality({p \in lines[i].photos : author[p] = u}) * (Scale \div m)
    BY DEF LineParts, Part
  <2> HIDE DEF m
  <2>5. Scale \in Int
    BY AttributionAssumption
  <2>6. Scale \div m \in Int
    BY <2>3, <2>5, Quotient
  <2> QED
    BY <2>1, <2>2, <2>4, <2>6
<1>5. IsFiniteSet(DOMAIN lines)
  BY LineFacts
<1>6. SumOver(LineParts(u), DOMAIN lines) \in Int
  BY <1>4, <1>5, SumInt
<1> QED
  BY <1>1, <1>2, <1>3, <1>6

LEMMA ComputeNetInv == AttributionInv /\ ComputeNet => AttributionInv'
<1> SUFFICES ASSUME AttributionInv, ComputeNet PROVE AttributionInv'
  OBVIOUS
<1> DEFINE L == Distributable(paid)
           D == DOMAIN gross
<1>1. /\ lines \in Seq(OrderLines) /\ lines # <<>> /\ paid \in Nat \ {0} /\ paid <= Cents(lines) /\ Read
      /\ at \in 1 .. Len(lines) + 3 /\ gross \in Credit(Payees) /\ net \in Credit(Payees)
      /\ gross \in Credit(Creditable) /\ CreditedSoFar /\ (at = Len(lines) + 2 => ~AllKnown)
  BY DEF AttributionInv, AttributionTypeOK
<1>2. /\ at \in {Len(lines) + 1, Len(lines) + 2} /\ at' = Len(lines) + 3 /\ D # {} /\ L > 0
      /\ lines' = lines /\ paid' = paid /\ author' = author /\ percent' = percent /\ gross' = gross
  BY DEF ComputeNet
<1>3. PICK g \in Shares(paid, gross) : \E s \in Shares(L, g) : net' = Positive(s)
  BY DEF ComputeNet
<1>4. PICK s \in Shares(L, g) : net' = Positive(s)
  BY <1>3
<1>5. /\ Creditable' = Creditable /\ OrderedFrom' = OrderedFrom /\ Members' = Members
      /\ Read' = Read /\ AllKnown' = AllKnown /\ (Cents(lines))' = Cents(lines)
      /\ \A u : (Exact(u))' = Exact(u)
  BY <1>2 DEF Creditable, OrderedFrom, Members, Read, AllKnown, Cents, Exact
<1>6. /\ Creditable \subseteq Payees /\ IsFiniteSet(Creditable) /\ Len(lines) \in Nat /\ Cents(lines) \in Nat
      /\ IsFiniteSet(Payees) /\ Creditable \subseteq OrderedFrom \cup Members
  BY <1>1, LineFacts, AttributionAssumption DEF Creditable
<1>7. L \in Nat \ {0} /\ L <= paid
  <2>1. PlatformFee(paid) \in Nat /\ StripeFee(paid) \in Nat
    BY <1>1, FeesNat
  <2> QED
    BY <2>1, <1>1, <1>2 DEF Distributable
<1> HIDE DEF L
<1>8. D \subseteq Creditable /\ IsFiniteSet(D) /\ gross \in [D -> Nat]
  BY <1>1, <1>6, CreditFacts
<1>9. /\ g \in [D -> Nat] /\ SumOf(g) = paid
      /\ SumOf(gross) > 0 =>
           \A u \in D : /\ SumOf(gross) * g[u] < paid * gross[u] + SumOf(gross)
                       /\ SumOf(gross) * g[u] > paid * gross[u] - SumOf(gross)
  <2> HIDE DEF D
  <2>1. paid \in Nat /\ D # {}
    BY <1>1, <1>2
  <2> QED
    BY <2>1, <1>3, <1>8, SharesExact
<1>10. /\ s \in [D -> Nat] /\ SumOf(s) = L
       /\ \A u \in D : paid * s[u] < L * g[u] + paid /\ paid * s[u] > L * g[u] - paid
  <2> HIDE DEF D
  <2>1. L \in Nat /\ D # {} /\ SumOf(g) > 0
    BY <1>1, <1>2, <1>7, <1>9
  <2>2. /\ s \in [D -> Nat] /\ SumOf(s) = L
        /\ SumOf(g) > 0 =>
             \A u \in D : /\ SumOf(g) * s[u] < L * g[u] + SumOf(g)
                         /\ SumOf(g) * s[u] > L * g[u] - SumOf(g)
    BY <2>1, <1>4, <1>8, <1>9, SharesExact
  <2> QED
    BY <2>1, <2>2, <1>9
<1>11. /\ net' \in Credit(D) /\ SumOf(net') = L
       /\ \A u \in DOMAIN net' : u \in D /\ net'[u] = s[u]
  <2>1. /\ net' \in Credit(D) /\ SumOf(net') = L
        /\ \A u \in DOMAIN net' : net'[u] = s[u]
    BY <1>4, <1>8, <1>10, PositiveCredit
  <2>2. DOMAIN net' \subseteq D
    BY <2>1, <1>8, CreditFacts
  <2> QED
    BY <2>1, <2>2
<1>12. net' \in Credit(Payees) /\ DOMAIN net' \subseteq OrderedFrom \cup Members
  <2>1. D \subseteq Payees
    BY <1>6, <1>8
  <2> QED
    BY <2>1, <1>6, <1>8, <1>11, CreditWider
<1>13. PaidOut'
  <2>1. SumOf(net') = Distributable(paid)
    BY <1>11 DEF L
  <2>2. ASSUME NEW o \in SetToSeqs(DOMAIN net')
        PROVE  Postable(SaleBatch(paid, [i \in DOMAIN o |-> net'[o[i]]]))
    <3>1. paid \in Nat /\ Distributable(paid) > 0
      BY <1>1, <1>2 DEF L
    <3> QED
      BY <3>1, <2>1, <1>6, <1>12, NetPostable
  <2> QED
    BY <2>1, <2>2, <1>2, <1>5, <1>12 DEF PaidOut
<1>14. ASSUME AllKnown, NEW u \in DOMAIN net'
       PROVE  LET off == Scale * Cents(lines) * net'[u] - L * Exact(u)
                  slack == Scale * Cents(lines) * (Len(lines) + 2)
              IN -slack < off /\ off < slack
  <2>1. at = Len(lines) + 1 /\ Attributed(at) = DOMAIN lines
    BY <1>1, <1>2, <1>14, AttributedFacts
  <2>2. u \in D /\ u \in Payees /\ net'[u] = s[u] /\ Share(gross, u) = gross[u]
    BY <1>6, <1>8, <1>11, <1>14 DEF Share
  <2>3. /\ SumOf(gross) = SumOver(LineCents, DOMAIN lines)
        /\ LET off == Scale * Share(gross, u) - SumOver(LineParts(u), DOMAIN lines)
           IN -(Scale * (at - 1)) <= off /\ off <= Scale * (at - 1)
    BY <2>1, <2>2, <1>1, <1>6, <1>14 DEF CreditedSoFar
  <2>4. SumOf(gross) = Cents(lines) /\ Cents(lines) \in Nat \ {0}
    BY <2>3, <1>1, <1>6, LineFacts
  <2>5. SumOver(LineParts(u), DOMAIN lines) = Exact(u) /\ Exact(u) \in Int
    BY <2>2, <1>1, <1>14, ExactParts
  <2> DEFINE C == Cents(lines)
             K == Len(lines)
             E == Exact(u)
             n == net'[u]
  <2>6. /\ Scale * gross[u] - E <= Scale * K /\ -(Scale * K) <= Scale * gross[u] - E
    BY <2>1, <2>2, <2>3, <2>5, <1>6
  <2>7. /\ gross[u] \in Int /\ g[u] \in Int /\ n \in Int /\ K \in Nat /\ Scale \in Nat \ {0}
        /\ L \in Nat \ {0} /\ paid \in Nat \ {0} /\ L <= paid /\ paid <= C /\ C \in Nat \ {0} /\ E \in Int
    BY <2>2, <2>4, <2>5, <1>1, <1>6, <1>7, <1>8, <1>9, <1>10, AttributionAssumption
  <2>8. /\ paid * n < L * g[u] + paid /\ L * g[u] - paid < paid * n
        /\ C * g[u] < paid * gross[u] + C /\ paid * gross[u] - C < C * g[u]
    BY <2>2, <2>4, <2>7, <1>9, <1>10
  <2> HIDE DEF C, K, E, n
  <2>9. LET off == Scale * C * n - L * E
            slack == Scale * C * (K + 2)
        IN -slack < off /\ off < slack
    BY <2>6, <2>7, <2>8, Chained
  <2> QED
    BY <2>9 DEF C, K, E, n
<1>15. AllKnown => Proportional'
  BY <1>2, <1>5, <1>14 DEF Proportional, L
<1>16. SplitEarned'
  BY <1>5, <1>13, <1>15 DEF SplitEarned
<1>17. AttributionTypeOK'
  BY <1>1, <1>2, <1>5, <1>6, <1>12 DEF AttributionTypeOK
<1>18. CreditedSoFar'
  BY <1>2, <1>6 DEF CreditedSoFar
<1> QED
  BY <1>1, <1>2, <1>5, <1>6, <1>16, <1>17, <1>18 DEF AttributionInv

LEMMA IdleAttribution == AttributionInv /\ UNCHANGED attributionVars => AttributionInv'
<1> SUFFICES ASSUME AttributionInv, UNCHANGED attributionVars PROVE AttributionInv'
  OBVIOUS
<1>1. /\ lines' = lines /\ paid' = paid /\ author' = author /\ percent' = percent
      /\ at' = at /\ gross' = gross /\ net' = net
  BY DEF attributionVars
<1>2. /\ Creditable' = Creditable /\ OrderedFrom' = OrderedFrom /\ Members' = Members
      /\ Read' = Read /\ AllKnown' = AllKnown /\ (Cents(lines))' = Cents(lines)
      /\ LineCents' = LineCents /\ (Attributed(at))' = Attributed(at)
      /\ \A u : (LineParts(u))' = LineParts(u) /\ (Exact(u))' = Exact(u)
  BY <1>1 DEF Creditable, OrderedFrom, Members, Read, AllKnown, Cents, LineCents, Attributed, LineParts,
              Part, Exact
<1>3. AttributionTypeOK' /\ CreditedSoFar'
  BY <1>1, <1>2 DEF AttributionInv, AttributionTypeOK, CreditedSoFar
<1>4. PaidOut' = PaidOut /\ Proportional' = Proportional
  BY <1>1, <1>2 DEF PaidOut, Proportional
<1>5. SplitEarned'
  BY <1>1, <1>2, <1>4 DEF AttributionInv, SplitEarned
<1> QED
  BY <1>1, <1>2, <1>3, <1>5 DEF AttributionInv

(* What the split has credited so far, for every list of lines.            *)
THEOREM AttributionInductive == AttributionSpec => []AttributionInv
<1>1. AttributionInv /\ [AttributionNext]_attributionVars => AttributionInv'
  BY AttributeLineInv, FallBackFullyInv, ComputeNetInv, IdleAttribution DEF AttributionNext
<1> QED
  BY <1>1, InitAttribution, PTL DEF AttributionSpec

(* A split hands out all that is left of the fees, in a batch the ledger   *)
(* takes, to nobody but photographers of the order and members of the      *)
(* event; and while every photo has its photographer, each of them gets    *)
(* his part of the lines to within a cent a line and two of rounding       *)
(* (computeOrderSplit), for every list of lines, discount and membership.  *)
THEOREM SplitEarnedAlways == AttributionSpec => []SplitEarned
<1>1. AttributionInv => SplitEarned
  BY DEF AttributionInv
<1> QED
  BY <1>1, AttributionInductive, PTL

------------------------------------------------------------------------------
(* Discounts *)

(* Products over finite sets, as the sums of LedgerTheorems.               *)
ProductOver(f, S) ==
  MapThenFoldSet(LAMBDA a, b : a * b, 1, LAMBDA x : f[x], LAMBDA s : CHOOSE x \in s : TRUE, S)

Multiplicative(A, f, S) ==
  /\ A \in [SUBSET S -> Int] /\ A[{}] = 1
  /\ \A T \in SUBSET S : \A x \in S \ T : A[T \cup {x}] = A[T] * f[x]

Multiplies(it, f, S) ==
  it = [s \in SUBSET S |-> IF s = {} THEN 1 ELSE f[AnyOf(s)] * it[s \ {AnyOf(s)}]]

LEMMA MultiplicativeExtends ==
  ASSUME NEW T, NEW y \in T, NEW f, \A x \in T : f[x] \in Int, NEW A, Multiplicative(A, f, T \ {y})
  PROVE  \E C : Multiplicative(C, f, T)
<1> DEFINE C == [R \in SUBSET T |-> IF y \in R THEN A[R \ {y}] * f[y] ELSE A[R]]
<1>1. \A R \in SUBSET T : R \ {y} \in SUBSET (T \ {y}) /\ (y \notin R => R \ {y} = R)
  OBVIOUS
<1>2. C \in [SUBSET T -> Int]
  BY <1>1 DEF Multiplicative
<1>3. C[{}] = 1
  BY DEF Multiplicative
<1>4. ASSUME NEW R \in SUBSET T, NEW x \in T \ R
      PROVE  C[R \cup {x}] = C[R] * f[x]
  <2>1. CASE x = y
    BY <2>1, <1>1, (R \cup {y}) \ {y} = R
  <2>2. CASE x # y /\ y \notin R
    BY <2>2, <1>1 DEF Multiplicative
  <2>3. CASE x # y /\ y \in R
    <3>1. (R \cup {x}) \ {y} = (R \ {y}) \cup {x}
      BY <2>3
    <3>2. A[(R \ {y}) \cup {x}] = A[R \ {y}] * f[x]
      BY <2>3, <1>1 DEF Multiplicative
    <3>3. A[R \ {y}] \in Int /\ A[(R \ {y}) \cup {x}] \in Int
      BY <2>3, <1>1 DEF Multiplicative
    <3>4. C[R \cup {x}] = A[(R \ {y}) \cup {x}] * f[y] /\ C[R] = A[R \ {y}] * f[y]
      BY <2>3, <3>1
    <3> QED
      BY <3>2, <3>3, <3>4
  <2> QED
    BY <2>1, <2>2, <2>3
<1> HIDE DEF C
<1>5. \A R \in SUBSET T : \A x \in T \ R : C[R \cup {x}] = C[R] * f[x]
  BY <1>4
<1>6. Multiplicative(C, f, T)
  BY <1>2, <1>3, <1>5 DEF Multiplicative
<1> QED
  BY <1>6

LEMMA MultiplicativeExists ==
  ASSUME NEW S, IsFiniteSet(S), NEW f, \A x \in S : f[x] \in Int
  PROVE  \E A : Multiplicative(A, f, S)
<1> DEFINE B == {T \in SUBSET S : ~\E A : Multiplicative(A, f, T)}
<1> SUFFICES ASSUME B # {} PROVE FALSE
  OBVIOUS
<1>1. PICK T \in B : \A U \in B : ~(U \subseteq T /\ U # T)
  <2>1. B \in SUBSET SUBSET S
    OBVIOUS
  <2> HIDE DEF B
  <2> QED
    BY <2>1, Smallest
<1>2. CASE T = {}
  <2>1. Multiplicative([R \in {{}} |-> 1], f, {})
    BY DEF Multiplicative
  <2> QED
    BY <1>1, <1>2, <2>1
<1>3. ASSUME NEW y \in T PROVE FALSE
  <2>1. T \ {y} \in SUBSET S /\ T \ {y} \notin B
    BY <1>1, <1>3
  <2>2. PICK A : Multiplicative(A, f, T \ {y})
    BY <2>1
  <2> QED
    BY <2>2, <1>1, MultiplicativeExtends
<1> QED
  BY <1>2, <1>3

LEMMA MultiplicativeMultiplies ==
  ASSUME NEW S, NEW f, \A x \in S : f[x] \in Int, NEW A, Multiplicative(A, f, S)
  PROVE  Multiplies(A, f, S)
<1>1. ASSUME NEW s \in SUBSET S, s # {}
      PROVE  A[s] = f[AnyOf(s)] * A[s \ {AnyOf(s)}]
  <2>1. AnyOf(s) \in s
    BY <1>1 DEF AnyOf
  <2>2. (s \ {AnyOf(s)}) \cup {AnyOf(s)} = s
    BY <2>1
  <2>3. A[s] = A[s \ {AnyOf(s)}] * f[AnyOf(s)]
    BY <2>1, <2>2 DEF Multiplicative
  <2>4. A[s \ {AnyOf(s)}] \in Int /\ f[AnyOf(s)] \in Int
    BY <2>1 DEF Multiplicative
  <2>5. \A a, b \in Int : a * b = b * a
    OBVIOUS
  <2> QED
    BY <2>3, <2>4, <2>5
<1>2. A = [s \in SUBSET S |-> A[s]]
  BY DEF Multiplicative
<1> QED
  BY <1>1, <1>2 DEF Multiplies, Multiplicative

LEMMA MultipliesOnce ==
  ASSUME NEW S, IsFiniteSet(S), NEW f, \A x \in S : f[x] \in Int,
         NEW A, Multiplicative(A, f, S), NEW it, Multiplies(it, f, S)
  PROVE  \A T \in SUBSET S : it[T] = A[T]
<1> DEFINE B == {T \in SUBSET S : it[T] # A[T]}
<1> SUFFICES ASSUME B # {} PROVE FALSE
  OBVIOUS
<1>1. PICK T \in B : \A U \in B : ~(U \subseteq T /\ U # T)
  <2>1. B \in SUBSET SUBSET S
    OBVIOUS
  <2> HIDE DEF B
  <2> QED
    BY <2>1, Smallest
<1>2. Multiplies(A, f, S)
  BY MultiplicativeMultiplies
<1>3. CASE T = {}
  BY <1>3, <1>1, <1>2 DEF Multiplies
<1>4. CASE T # {}
  <2>1. AnyOf(T) \in T
    BY <1>4 DEF AnyOf
  <2>2. T \ {AnyOf(T)} \in SUBSET S /\ T \ {AnyOf(T)} \notin B
    BY <2>1, <1>1
  <2>3. it[T] = f[AnyOf(T)] * it[T \ {AnyOf(T)}] /\ A[T] = f[AnyOf(T)] * A[T \ {AnyOf(T)}]
    BY <1>1, <1>2, <1>4 DEF Multiplies
  <2> QED
    BY <2>2, <2>3, <1>1
<1> QED
  BY <1>3, <1>4

LEMMA ProductChosen ==
  ASSUME NEW S, IsFiniteSet(S), NEW f, \A x \in S : f[x] \in Int
  PROVE  /\ \E it : Multiplies(it, f, S)
         /\ ProductOver(f, S) = (CHOOSE it : Multiplies(it, f, S))[S]
<1>1. \E it : Multiplies(it, f, S)
  BY MultiplicativeExists, MultiplicativeMultiplies
<1>2. ProductOver(f, S) = (CHOOSE it : Multiplies(it, f, S))[S]
  BY Zenon DEF ProductOver, MapThenFoldSet, Multiplies, AnyOf
<1> QED
  BY <1>1, <1>2

LEMMA ProductIterated ==
  ASSUME NEW S, IsFiniteSet(S), NEW f, \A x \in S : f[x] \in Int, NEW it, Multiplies(it, f, S)
  PROVE  it[S] = ProductOver(f, S)
<1>1. PICK A : Multiplicative(A, f, S)
  BY MultiplicativeExists
<1>2. it[S] = A[S]
  BY <1>1, MultipliesOnce
<1> DEFINE other == CHOOSE i : Multiplies(i, f, S)
<1>3. Multiplies(other, f, S) /\ ProductOver(f, S) = other[S]
  BY ProductChosen
<1>4. other[S] = A[S]
  BY <1>1, <1>3, MultipliesOnce
<1> QED
  BY <1>2, <1>3, <1>4

LEMMA ProductMultiplicative ==
  ASSUME NEW S, IsFiniteSet(S), NEW f, NEW A, Multiplicative(A, f, S), \A x \in S : f[x] \in Int,
         NEW T \in SUBSET S
  PROVE  ProductOver(f, T) = A[T]
<1> DEFINE C == [R \in SUBSET T |-> A[R]]
<1>1. Multiplicative(C, f, T)
  BY DEF Multiplicative
<1>2. IsFiniteSet(T)
  BY FS_Subset
<1>3. Multiplies(C, f, T)
  BY <1>1, MultiplicativeMultiplies
<1>4. C[T] = ProductOver(f, T)
  <2> HIDE DEF C
  <2> QED
    BY <1>2, <1>3, ProductIterated
<1> QED
  BY <1>4

LEMMA ProductEmpty ==
  ASSUME NEW f
  PROVE  ProductOver(f, {}) = 1
<1>1. Multiplicative([T \in SUBSET {} |-> 1], f, {})
  BY DEF Multiplicative
<1>2. IsFiniteSet({})
  BY FS_EmptySet
<1> QED
  BY <1>1, <1>2, ProductMultiplicative

LEMMA ProductAdd ==
  ASSUME NEW S, IsFiniteSet(S), NEW f, \A y \in S : f[y] \in Int, NEW x, x \notin S, f[x] \in Int
  PROVE  ProductOver(f, S \cup {x}) = ProductOver(f, S) * f[x]
<1> DEFINE all == S \cup {x}
<1>1. IsFiniteSet(all)
  BY FS_AddElement
<1>2. \A y \in all : f[y] \in Int
  OBVIOUS
<1>3. PICK A : Multiplicative(A, f, all)
  BY <1>1, <1>2, MultiplicativeExists
<1>4. ProductOver(f, all) = A[all] /\ ProductOver(f, S) = A[S]
  BY <1>1, <1>2, <1>3, ProductMultiplicative
<1> QED
  BY <1>3, <1>4 DEF Multiplicative

LEMMA ProductOfOver == \A f : Product(f) = ProductOver(f, DOMAIN f)
<1> TAKE f
<1> QED
  BY Zenon DEF Product, FoldFunction, FoldFunctionOnSet, ProductOver, MapThenFoldSet

(* One more factor at the end of a list.                                   *)
LEMMA ProductAppend ==
  ASSUME NEW n \in Nat, NEW f, DOMAIN f = 1 .. n, NEW g, DOMAIN g = 1 .. n + 1,
         \A i \in 1 .. n : g[i] = f[i] /\ f[i] \in Int, g[n + 1] \in Int
  PROVE  Product(g) = Product(f) * g[n + 1] /\ Product(f) \in Int
<1> DEFINE S == 1 .. n
<1>1. IsFiniteSet(S) /\ S \cup {n + 1} = 1 .. n + 1 /\ n + 1 \notin S
  <2>1. IsFiniteSet(S)
    BY FS_Interval, n \in Int, 1 \in Int
  <2>2. S \cup {n + 1} = 1 .. n + 1 /\ n + 1 \notin S
    OBVIOUS
  <2> QED
    BY <2>1, <2>2
<1>2. \A i \in S : g[i] = f[i] /\ f[i] \in Int /\ g[i] \in Int
  OBVIOUS
<1> HIDE DEF S
<1>3. ProductOver(g, S \cup {n + 1}) = ProductOver(g, S) * g[n + 1]
  BY <1>1, <1>2, ProductAdd
<1>4. PICK A : Multiplicative(A, f, S)
  BY <1>1, <1>2, MultiplicativeExists
<1>5. Multiplicative(A, g, S)
  BY <1>2, <1>4 DEF Multiplicative
<1>6. ProductOver(f, S) = A[S] /\ ProductOver(g, S) = A[S]
  BY <1>1, <1>2, <1>4, <1>5, ProductMultiplicative
<1>7. Product(f) = ProductOver(f, S) /\ Product(g) = ProductOver(g, S \cup {n + 1})
  BY <1>1, ProductOfOver DEF S
<1> QED
  BY <1>3, <1>4, <1>6, <1>7 DEF Multiplicative

(* One more summand at the end of a list.                                  *)
LEMMA SumAppend ==
  ASSUME NEW n \in Nat, NEW f, DOMAIN f = 1 .. n, NEW g, DOMAIN g = 1 .. n + 1,
         \A i \in 1 .. n : g[i] = f[i] /\ f[i] \in Int, g[n + 1] \in Int
  PROVE  SumOf(g) = SumOf(f) + g[n + 1] /\ SumOf(f) \in Int
<1> DEFINE S == 1 .. n
<1>1. IsFiniteSet(S) /\ S \cup {n + 1} = 1 .. n + 1 /\ n + 1 \notin S
  <2>1. IsFiniteSet(S)
    BY FS_Interval, n \in Int, 1 \in Int
  <2>2. S \cup {n + 1} = 1 .. n + 1 /\ n + 1 \notin S
    OBVIOUS
  <2> QED
    BY <2>1, <2>2
<1>2. \A i \in S : g[i] = f[i] /\ f[i] \in Int /\ g[i] \in Int
  OBVIOUS
<1> HIDE DEF S
<1>3. SumOver(g, S \cup {n + 1}) = SumOver(g, S) + g[n + 1]
  BY <1>1, <1>2, SumAdd
<1>4. SumOver(g, S) = SumOver(f, S)
  BY <1>1, <1>2, SumSame
<1>5. SumOver(f, S) \in Int
  BY <1>1, <1>2, SumInt
<1>6. SumOf(f) = SumOver(f, S) /\ SumOf(g) = SumOver(g, S \cup {n + 1})
  BY <1>1, SumOfOver DEF S
<1> QED
  BY <1>3, <1>4, <1>5, <1>6

(* A finite set of integers has a largest element.                         *)
LEMMA MaxExists ==
  ASSUME NEW S, IsFiniteSet(S), S \subseteq Int, S # {}
  PROVE  Max(S) \in S /\ \A y \in S : Max(S) >= y
<1> DEFINE H == {T \in SUBSET S : T # {} => \E x \in T : \A y \in T : x >= y}
<1>1. {} \in H
  OBVIOUS
<1>2. ASSUME NEW T \in SUBSET S, NEW z \in S \ T, T \in H
      PROVE  T \cup {z} \in H
  <2>1. CASE T = {}
    <3>1. \A y \in T \cup {z} : z >= y
      BY <2>1
    <3> QED
      BY <3>1
  <2>2. CASE T # {}
    <3>1. PICK x \in T : \A y \in T : x >= y
      BY <1>2, <2>2
    <3>2. x \in Int /\ z \in Int /\ \A y \in T : y \in Int
      OBVIOUS
    <3>3. CASE x >= z
      BY <3>1, <3>2, <3>3
    <3>4. CASE z >= x
      <4>1. \A y \in T \cup {z} : z >= y
        BY <3>1, <3>2, <3>4
      <4> QED
        BY <4>1
    <3> QED
      BY <3>2, <3>3, <3>4
  <2> QED
    BY <2>1, <2>2
<1> HIDE DEF H
<1>3. S \in H
  BY <1>1, <1>2, SubsetInduction
<1>4. \E x \in S : \A y \in S : x >= y
  BY <1>3 DEF H
<1> QED
  BY <1>4 DEF Max

LEMMA TimesNat ==
  ASSUME NEW W \in Nat, NEW a \in Int, NEW b \in Int, a <= b
  PROVE  W * a \in Int /\ W * b \in Int /\ W * a <= W * b
<1>1. CASE W = 0
  BY <1>1
<1>2. CASE W # 0
  BY <1>2, Times
<1> QED
  BY <1>1, <1>2

------------------------------------------------------------------------------
(* One discount *)

(* Math.round of a percentage: never more than there is, and right to half a cent. *)
LEMMA PctRounded ==
  ASSUME NEW pct \in 0 .. 100, NEW base \in Nat
  PROVE  /\ CentsFromPct(pct, base) \in 0 .. base
         /\ LET off == 100 * CentsFromPct(pct, base) - pct * base
            IN off \in Int /\ -100 <= 2 * off /\ 2 * off <= 100
<1> DEFINE a == 2 * base * pct + 100
           c == a \div 200
<1>1. CentsFromPct(pct, base) = c
  BY DEF CentsFromPct
<1>2. a \in Nat /\ a = 2 * (pct * base) + 100 /\ pct * base \in Nat
  OBVIOUS
<1>3. c \in Int /\ a = 200 * c + (a % 200) /\ a % 200 \in 0 .. 199
  <2> HIDE DEF a
  <2>1. a \in Int /\ 200 \in Nat \ {0}
    BY <1>2
  <2> QED
    BY <2>1, Quotient
<1>4. pct * base <= 100 * base
  <2>1. pct <= 100 /\ pct \in Int /\ 100 \in Int
    OBVIOUS
  <2>2. base * pct <= base * 100
    BY <2>1, TimesNat
  <2> QED
    BY <2>2
<1> DEFINE pb == pct * base
<1> HIDE DEF a, c, pb
<1>5. c \in 0 .. base /\ -100 <= 2 * (100 * c - pb) /\ 2 * (100 * c - pb) <= 100
  <2>1. a = 2 * pb + 100 /\ pb \in Nat /\ pb <= 100 * base
    BY <1>2, <1>4 DEF pb
  <2> QED
    BY <2>1, <1>3
<1> QED
  BY <1>1, <1>2, <1>5 DEF pb

(* The error of another percentage: what there was of it, and half a cent. *)
LEMMA ErrorGrows ==
  ASSUME NEW h \in Nat \ {0}, NEW kept \in Int, NEW left \in Nat, NEW of \in Nat, NEW n \in Nat,
         NEW pct \in 0 .. 100, NEW c \in Int,
         -100 <= 2 * (100 * c - pct * left), 2 * (100 * c - pct * left) <= 100,
         2 * (h * left - of * kept) <= n * h, -(2 * (h * left - of * kept)) <= n * h
  PROVE  LET error == (h * 100) * (left - c) - of * (kept * (100 - pct))
         IN 2 * error <= (n + 1) * (h * 100) /\ -(2 * error) <= (n + 1) * (h * 100)
<1> DEFINE rest == 100 - pct
           e == h * left - of * kept
           d == 100 * c - pct * left
           error == (h * 100) * (left - c) - of * (kept * rest)
           nh == n * h
<1>1. rest \in Nat /\ rest <= 100 /\ e \in Int /\ d \in Int /\ error \in Int /\ nh \in Nat /\ h \in Nat
  <2>1. rest \in Nat /\ rest <= 100 /\ h \in Nat
    OBVIOUS
  <2>2. e \in Int /\ d \in Int /\ nh \in Nat
    OBVIOUS
  <2> HIDE DEF e, d, nh
  <2>3. error \in Int
    BY <2>1
  <2> QED
    BY <2>1, <2>2, <2>3
<1>2. error = rest * e - h * d
  <2>1. rest * e = rest * (h * left) - of * (kept * rest)
    OBVIOUS
  <2>2. h * d = h * (100 * c) - h * (pct * left)
    OBVIOUS
  <2>3. rest * (h * left) + h * (pct * left) = h * (100 * left)
    OBVIOUS
  <2>4. (h * 100) * (left - c) = h * (100 * left) - h * (100 * c)
    OBVIOUS
  <2>5. /\ rest * (h * left) \in Int /\ of * (kept * rest) \in Int /\ h * (100 * c) \in Int
        /\ h * (pct * left) \in Int /\ h * (100 * left) \in Int
    OBVIOUS
  <2> QED
    BY <2>1, <2>2, <2>3, <2>4, <2>5
<1>3. 2 * e <= nh /\ -(2 * e) <= nh /\ -100 <= 2 * d /\ 2 * d <= 100
  OBVIOUS
<1>4. (n + 1) * (h * 100) = 100 * nh + 100 * h
  OBVIOUS
<1> HIDE DEF rest, e, d, error, nh
<1>5. rest * (2 * e) <= rest * nh /\ rest * (-(2 * e)) <= rest * nh
  <2>1. 2 * e \in Int /\ -(2 * e) \in Int /\ nh \in Int
    BY <1>1
  <2> QED
    BY <2>1, <1>1, <1>3, TimesNat
<1>6. rest * nh <= 100 * nh
  <2>1. nh * rest <= nh * 100
    BY <1>1, TimesNat, 100 \in Int
  <2> QED
    BY <2>1, <1>1
<1>7. h * (2 * d) <= h * 100 /\ h * (-100) <= h * (2 * d)
  <2>1. 2 * d \in Int /\ -100 \in Int /\ 100 \in Int
    BY <1>1
  <2> QED
    BY <2>1, <1>1, <1>3, TimesNat
<1>8. /\ rest * (2 * e) = 2 * (rest * e) /\ rest * (-(2 * e)) = -(2 * (rest * e)) /\ h * (2 * d) = 2 * (h * d)
      /\ rest * e \in Int /\ h * d \in Int /\ rest * nh \in Int /\ h * 100 = 100 * h /\ h * (-100) = -(100 * h)
  BY <1>1
<1>9. 2 * error <= 100 * nh + 100 * h /\ -(2 * error) <= 100 * nh + 100 * h
  BY <1>1, <1>2, <1>5, <1>6, <1>7, <1>8
<1> QED
  BY <1>4, <1>9 DEF error, rest

(* The rules that apply take a percentage between none and all. *)
LEMMA PctInRange ==
  ASSUME rules \in [RuleIds -> RuleRows], bill \in Carts, NEW i \in Applicable
  PROVE  i \in RuleIds /\ GetPct(i) \in 0 .. 100
<1> DEFINE r == rules[i]
<1>1. i \in RuleIds /\ RuleRow(r) /\ IsRuleApplicable(r, bill) /\ bill.quantity \in Int
  BY PricingAssumption DEF Applicable
<1>2. CASE r.kind # "qty_discount"
  BY <1>1, <1>2 DEF GetPct, RuleRow
<1>3. CASE r.kind = "qty_discount"
  <2> DEFINE reached == Reached(r, bill.quantity)
             mins == {t.min : t \in reached}
  <2>1. reached # {} /\ reached \subseteq r.tiers /\ IsFiniteSet(r.tiers)
    BY <1>1, <1>3 DEF IsRuleApplicable, Reached, RuleRow
  <2>2. \A t \in reached : t.min \in Int /\ t.pct \in 0 .. 100
    BY <1>1, <2>1 DEF RuleRow
  <2> HIDE DEF reached
  <2>3. mins # {} /\ mins \subseteq Int
    BY <2>1, <2>2
  <2>4. IsFiniteSet(mins)
    <3> DEFINE g == [t \in reached |-> t.min]
    <3>1. IsFiniteSet(reached)
      BY <2>1, FS_Subset
    <3>2. g \in Surjection(reached, mins)
      BY DEF Surjection
    <3> QED
      BY <3>1, <3>2, FS_Surjection
  <2>5. Max(mins) \in mins
    BY <2>3, <2>4, MaxExists
  <2>6. \E t \in reached : t.min = Max(mins)
    BY <2>5
  <2>7. (CHOOSE t \in reached : t.min = Max(mins)) \in reached
    BY <2>6
  <2>8. GetPct(i) = (CHOOSE t \in reached : t.min = Max(mins)).pct
    BY <1>3 DEF GetPct, SelectQtyDiscountPct, reached
  <2> QED
    BY <1>1, <2>2, <2>7, <2>8
<1> QED
  BY <1>2, <1>3

------------------------------------------------------------------------------
(* The loop over the rules *)

PricingTypeOK ==
  /\ bill \in Carts /\ rules \in [RuleIds -> RuleRows]
  /\ sorted \in Seq(RuleIds) /\ Sorted(sorted)
  /\ running \in 0 .. bill.subtotal
  /\ discounts \in Seq([rule : RuleIds, cents : Nat])
  /\ turnOf \in 1 .. Len(sorted) + 1

(* What is listed is what was chosen so far; the products are of numbers.  *)
PricingInv ==
  /\ PricingTypeOK
  /\ Listed = {sorted[k] : k \in {m \in Chosen : m < turnOf}}
  /\ Kept \in Int /\ Hundreds \in Nat \ {0}
  /\ QuoteExact

LEMMA SortedFacts ==
  ASSUME sorted \in Seq(RuleIds), Sorted(sorted)
  PROVE  /\ DOMAIN sorted = 1 .. Len(sorted) /\ Len(sorted) \in Nat
         /\ \A m, n \in DOMAIN sorted : sorted[m] = sorted[n] => m = n
         /\ Applicable = {sorted[m] : m \in DOMAIN sorted}
         /\ Chosen \subseteq DOMAIN sorted
         /\ IsFiniteSet(Applicable)
<1> DEFINE D == 1 .. Len(sorted)
<1>1. DOMAIN sorted = D /\ Len(sorted) \in Nat
  OBVIOUS
<1>2. IsFiniteSet(D) /\ Cardinality(D) = Len(sorted)
  <2>1. IsFiniteSet(D) /\ Cardinality(D) = IF 1 > Len(sorted) THEN 0 ELSE Len(sorted) - 1 + 1
    BY <1>1, FS_Interval, 1 \in Int
  <2> QED
    BY <2>1, <1>1
<1>3. Applicable = {sorted[m] : m \in DOMAIN sorted} /\ Len(sorted) = Cardinality(Applicable)
  BY DEF Sorted, Range
<1>4. IsFiniteSet(Applicable)
  BY PricingAssumption, FS_Subset DEF Applicable
<1>5. sorted \in [D -> Applicable]
  <2>1. sorted \in [D -> RuleIds]
    OBVIOUS
  <2>2. \A m \in D : sorted[m] \in Applicable
    BY <1>1, <1>3
  <2> HIDE DEF D
  <2> QED
    BY <2>1, <2>2
<1> HIDE DEF D
<1>6. sorted \in Surjection(D, Applicable)
  BY <1>1, <1>3, <1>5 DEF Surjection
<1>7. sorted \in Injection(D, Applicable)
  BY <1>2, <1>3, <1>6, FS_Surjection
<1>8. \A m, n \in DOMAIN sorted : sorted[m] = sorted[n] => m = n
  BY <1>1, <1>7 DEF Injection, IsInjective
<1>9. Chosen \subseteq DOMAIN sorted
  <2>1. sorted # <<>> => 1 \in DOMAIN sorted
    BY <1>1 DEF D
  <2> QED
    BY <2>1 DEF Chosen
<1> QED
  BY <1>1, <1>3, <1>4, <1>8, <1>9 DEF D

LEMMA InitPricing == PricingInit => PricingInv
<1> SUFFICES ASSUME PricingInit PROVE PricingInv
  OBVIOUS
<1>1. bill \in Carts /\ rules \in [RuleIds -> RuleRows] /\ running = bill.subtotal /\ discounts = <<>> /\ turnOf = 1
  BY DEF PricingInit
<1>2. sorted \in Seq(RuleIds) /\ Sorted(sorted)
  <2>1. sorted \in SeqOf(RuleIds, Cardinality(RuleIds)) /\ Sorted(sorted)
    BY DEF PricingInit
  <2>2. PICK m \in 0 .. Cardinality(RuleIds) : sorted \in [1 .. m -> RuleIds]
    BY <2>1 DEF SeqOf
  <2>3. m \in Nat
    BY PricingAssumption, FS_CardinalityType
  <2> QED
    BY <2>1, <2>2, <2>3
<1>3. bill.subtotal \in Nat
  BY <1>1, PricingAssumption
<1>4. Len(sorted) \in Nat
  BY <1>2, SortedFacts
<1>5. PricingTypeOK
  <2>1. discounts \in Seq([rule : RuleIds, cents : Nat])
    BY <1>1
  <2> QED
    BY <2>1, <1>1, <1>2, <1>3, <1>4 DEF PricingTypeOK
<1>6. Listed = {} /\ {sorted[k] : k \in {m \in Chosen : m < turnOf}} = {}
  <2>1. DOMAIN discounts = {}
    BY <1>1
  <2>2. \A m \in Chosen : m >= 1 /\ m \in Int
    BY <1>2, SortedFacts
  <2> QED
    BY <2>1, <2>2, <1>1 DEF Listed
<1>7. SumOfDiscounts = 0 /\ Kept = 1 /\ Hundreds = 1
  <2> DEFINE f == [n \in DOMAIN discounts |-> discounts[n].cents]
             g == [n \in DOMAIN discounts |-> 100 - GetPct(discounts[n].rule)]
             h == [n \in DOMAIN discounts |-> 100]
  <2>1. DOMAIN f = {} /\ DOMAIN g = {} /\ DOMAIN h = {}
    BY <1>1
  <2> HIDE DEF f, g, h
  <2>2. SumOf(f) = 0
    BY <2>1, SumOfOver, SumEmpty
  <2>3. Product(g) = 1 /\ Product(h) = 1
    BY <2>1, ProductOfOver, ProductEmpty
  <2> QED
    BY <2>2, <2>3 DEF SumOfDiscounts, Kept, Hundreds, f, g, h
<1>8. QuoteExact
  <2>1. Cardinality(Listed) = 0 /\ Len(discounts) = 0
    BY <1>1, <1>6, FS_EmptySet
  <2> QED
    BY <2>1, <1>1, <1>3, <1>7 DEF QuoteExact
<1> QED
  BY <1>5, <1>6, <1>7, <1>8 DEF PricingInv

LEMMA ApplyRuleInv == PricingInv /\ ApplyRule => PricingInv'
<1> SUFFICES ASSUME PricingInv, ApplyRule PROVE PricingInv'
  OBVIOUS
<1>1. /\ bill \in Carts /\ rules \in [RuleIds -> RuleRows] /\ sorted \in Seq(RuleIds) /\ Sorted(sorted)
      /\ running \in 0 .. bill.subtotal /\ discounts \in Seq([rule : RuleIds, cents : Nat])
      /\ turnOf \in 1 .. Len(sorted) + 1 /\ bill.subtotal \in Nat
      /\ Listed = {sorted[k] : k \in {m \in Chosen : m < turnOf}}
      /\ Kept \in Int /\ Hundreds \in Nat \ {0} /\ QuoteExact
  BY PricingAssumption DEF PricingInv, PricingTypeOK
<1>2. PICK k \in Chosen :
        /\ turnOf <= k /\ \A m \in Chosen : m < k => m < turnOf
        /\ discounts' = Append(discounts, [rule |-> sorted[k], cents |-> Amount(sorted[k])])
        /\ running' = IF Amount(sorted[k]) > running THEN 0 ELSE running - Amount(sorted[k])
        /\ turnOf' = k + 1 /\ bill' = bill /\ rules' = rules /\ sorted' = sorted
  BY DEF ApplyRule
<1> DEFINE i == sorted[k]
           pct == GetPct(i)
           c == Amount(i)
           n == Len(discounts)
           row == [rule |-> i, cents |-> c]
<1>3. /\ Chosen' = Chosen /\ Applicable' = Applicable /\ (Sorted(sorted))' = Sorted(sorted)
      /\ \A j : (GetPct(j))' = GetPct(j)
  BY <1>2 DEF Chosen, Applicable, Sorted, GetPct, Candidate, IsRuleApplicable
<1>4. /\ DOMAIN sorted = 1 .. Len(sorted) /\ Len(sorted) \in Nat /\ k \in 1 .. Len(sorted)
      /\ i \in Applicable /\ \A m \in Chosen : m \in DOMAIN sorted /\ (sorted[m] = i => m = k)
  BY <1>1, <1>2, SortedFacts
<1>5. i \in RuleIds /\ pct \in 0 .. 100
  BY <1>1, <1>4, PctInRange
<1>6. /\ c \in 0 .. running /\ 100 * c - pct * running \in Int
      /\ -100 <= 2 * (100 * c - pct * running) /\ 2 * (100 * c - pct * running) <= 100
  <2>1. running \in Nat
    BY <1>1
  <2> HIDE DEF pct
  <2>2. c = CentsFromPct(pct, running)
    BY DEF Amount, pct
  <2> QED
    BY <2>1, <2>2, <1>5, PctRounded
<1> HIDE DEF i, pct, c
<1>7. running' = running - c /\ running' \in 0 .. bill.subtotal
  BY <1>1, <1>2, <1>6 DEF i, c
<1>8. /\ n \in Nat /\ DOMAIN discounts = 1 .. n
      /\ discounts' \in Seq([rule : RuleIds, cents : Nat])
      /\ Len(discounts') = n + 1 /\ DOMAIN discounts' = 1 .. n + 1
      /\ \A j \in 1 .. n : discounts'[j] = discounts[j] /\ discounts[j] \in [rule : RuleIds, cents : Nat]
      /\ discounts'[n + 1] = row
  <2>1. row \in [rule : RuleIds, cents : Nat]
    BY <1>1, <1>5, <1>6
  <2>2. discounts' = Append(discounts, row)
    BY <1>2 DEF i, c
  <2> DEFINE T == [rule : RuleIds, cents : Nat]
  <2> HIDE DEF row
  <2>3. row \in T /\ discounts \in Seq(T)
    BY <1>1, <2>1
  <2> HIDE DEF T
  <2>4. /\ n \in Nat /\ DOMAIN discounts = 1 .. n /\ discounts' \in Seq(T)
        /\ Len(discounts') = n + 1 /\ DOMAIN discounts' = 1 .. n + 1
        /\ discounts'[n + 1] = row
    BY <2>2, <2>3
  <2>5. \A j \in 1 .. n : discounts'[j] = discounts[j] /\ discounts[j] \in T
    BY <2>2, <2>3
  <2> QED
    BY <2>4, <2>5 DEF T
<1> HIDE DEF n
<1>9. Listed' = Listed \cup {i} /\ i \notin Listed
  <2>1. Listed' = {discounts'[j].rule : j \in 1 .. n + 1} /\ Listed = {discounts[j].rule : j \in 1 .. n}
    BY <1>8 DEF Listed
  <2>2. Listed' = Listed \cup {i}
    <3>1. row.rule = i
      OBVIOUS
    <3>2. \A j \in 1 .. n + 1 : j = n + 1 \/ j \in 1 .. n
      BY <1>8
    <3>3. \A j \in 1 .. n : j \in 1 .. n + 1
      BY <1>8
    <3>4. n + 1 \in 1 .. n + 1
      BY <1>8
    <3> HIDE DEF row
    <3> QED
      BY <2>1, <1>8, <3>1, <3>2, <3>3, <3>4
  <2>3. ASSUME i \in Listed PROVE FALSE
    <3>1. PICK m \in Chosen : m < turnOf /\ sorted[m] = i
      BY <1>1, <2>3
    <3>2. m = k
      BY <3>1, <1>4
    <3> QED
      BY <3>1, <3>2, <1>1, <1>2, <1>4
  <2> QED
    BY <2>2, <2>3
<1>10. Listed' = {sorted'[q] : q \in {m \in Chosen' : m < turnOf'}}
  <2>1. {m \in Chosen : m < k + 1} = {m \in Chosen : m < turnOf} \cup {k}
    <3>1. \A m \in Chosen : m \in Int
      BY <1>4
    <3>2. turnOf \in Int /\ k \in Int /\ turnOf <= k /\ k \in Chosen
      BY <1>1, <1>2, <1>4
    <3>3. \A m \in Chosen : m < k + 1 <=> m < turnOf \/ m = k
      BY <3>1, <3>2, <1>2
    <3> QED
      BY <3>2, <3>3
  <2>2. {sorted[q] : q \in {m \in Chosen : m < k + 1}}
          = {sorted[q] : q \in {m \in Chosen : m < turnOf}} \cup {i}
    BY <2>1 DEF i
  <2> QED
    BY <2>2, <1>1, <1>2, <1>3, <1>9
<1>11. SumOfDiscounts' = SumOfDiscounts + c /\ SumOfDiscounts \in Int
  <2> DEFINE f == [j \in DOMAIN discounts |-> discounts[j].cents]
             g == [j \in DOMAIN discounts' |-> discounts'[j].cents]
  <2>1. /\ DOMAIN f = 1 .. n /\ DOMAIN g = 1 .. n + 1
        /\ \A j \in 1 .. n : g[j] = f[j] /\ f[j] \in Int
        /\ g[n + 1] = c /\ g[n + 1] \in Int
    BY <1>6, <1>8
  <2> HIDE DEF f, g
  <2>2. SumOf(g) = SumOf(f) + g[n + 1] /\ SumOf(f) \in Int
    BY <2>1, <1>8, SumAppend
  <2> QED
    BY <2>1, <2>2 DEF SumOfDiscounts, f, g
<1>12. Kept' = Kept * (100 - pct) /\ Kept' \in Int
  <2> DEFINE f == [j \in DOMAIN discounts |-> 100 - GetPct(discounts[j].rule)]
             g == [j \in DOMAIN discounts' |-> 100 - GetPct(discounts'[j].rule)]
  <2>1. \A j \in 1 .. n : discounts[j].rule \in Applicable
    <3>1. \A j \in 1 .. n : discounts[j].rule \in Listed
      BY <1>8 DEF Listed
    <3>2. \A r \in Listed : r \in Applicable
      BY <1>1, SortedFacts
    <3> QED
      BY <3>1, <3>2
  <2>2. \A j \in 1 .. n : GetPct(discounts[j].rule) \in Int
    <3> TAKE j \in 1 .. n
    <3>1. GetPct(discounts[j].rule) \in 0 .. 100
      BY <2>1, <1>1, PctInRange
    <3> QED
      BY <3>1
  <2>3. /\ DOMAIN f = 1 .. n /\ DOMAIN g = 1 .. n + 1
        /\ \A j \in 1 .. n : g[j] = f[j] /\ f[j] \in Int
        /\ g[n + 1] = 100 - pct /\ g[n + 1] \in Int
    <3>1. DOMAIN f = 1 .. n /\ DOMAIN g = 1 .. n + 1
      BY <1>8
    <3>2. ASSUME NEW j \in 1 .. n PROVE g[j] = f[j] /\ f[j] \in Int
      <4>1. j \in DOMAIN discounts /\ j \in DOMAIN discounts' /\ discounts'[j] = discounts[j]
        BY <1>8
      <4>2. g[j] = 100 - GetPct(discounts[j].rule) /\ f[j] = 100 - GetPct(discounts[j].rule)
        BY <4>1
      <4> QED
        BY <4>2, <2>2
    <3>3. g[n + 1] = 100 - pct
      <4>1. n + 1 \in DOMAIN discounts' /\ discounts'[n + 1].rule = i
        BY <1>8
      <4> QED
        BY <4>1 DEF pct
    <3>4. 100 - pct \in Int
      BY <1>5
    <3> QED
      BY <3>1, <3>2, <3>3, <3>4
  <2> HIDE DEF f, g
  <2>4. Product(g) = Product(f) * g[n + 1] /\ Product(f) \in Int
    BY <2>3, <1>8, ProductAppend
  <2>5. Kept = Product(f)
    BY DEF Kept, f
  <2>6. Kept' = Product(g)
    BY <1>3 DEF Kept, g
  <2> QED
    BY <2>3, <2>4, <2>5, <2>6
<1>13. Hundreds' = Hundreds * 100 /\ Hundreds' \in Nat \ {0}
  <2> DEFINE f == [j \in DOMAIN discounts |-> 100]
             g == [j \in DOMAIN discounts' |-> 100]
  <2>1. /\ DOMAIN f = 1 .. n /\ DOMAIN g = 1 .. n + 1
        /\ \A j \in 1 .. n : g[j] = f[j] /\ f[j] \in Int
        /\ g[n + 1] = 100 /\ g[n + 1] \in Int
    BY <1>8
  <2> HIDE DEF f, g
  <2>2. Product(g) = Product(f) * g[n + 1]
    BY <2>1, <1>8, ProductAppend
  <2> QED
    BY <2>1, <2>2, <1>1 DEF Hundreds, f, g
<1>14. QuoteExact'
  <2> DEFINE h == Hundreds
             kept == Kept
             whole == bill.subtotal
  <2>1. /\ SumOfDiscounts = whole - running /\ Cardinality(Listed) = n
        /\ 2 * (h * running - whole * kept) <= n * h /\ -(2 * (h * running - whole * kept)) <= n * h
    BY <1>1 DEF QuoteExact, n
  <2>2. SumOfDiscounts' = whole - running'
    <3>1. running \in Int /\ c \in Int /\ whole \in Int
      BY <1>1, <1>6
    <3> HIDE DEF whole
    <3>2. whole - (running - c) = (whole - running) + c
      BY <3>1
    <3> QED
      BY <2>1, <1>7, <1>11, <3>2
  <2>3. Cardinality(Listed') = n + 1
    <3>1. IsFiniteSet(Listed)
      <4>1. Listed \subseteq Applicable /\ IsFiniteSet(Applicable)
        BY <1>1, SortedFacts
      <4> QED
        BY <4>1, FS_Subset
    <3> QED
      BY <3>1, <2>1, <1>9, FS_AddElement
  <2>4. h \in Nat \ {0} /\ kept \in Int /\ whole \in Nat /\ running \in Nat /\ c \in Int
    BY <1>1, <1>6
  <2> HIDE DEF h, kept, whole
  <2>5. LET error == (h * 100) * (running - c) - whole * (kept * (100 - pct))
        IN 2 * error <= (n + 1) * (h * 100) /\ -(2 * error) <= (n + 1) * (h * 100)
    BY <2>1, <2>4, <1>5, <1>6, <1>8, ErrorGrows
  <2>6. (bill.subtotal)' = whole
    BY <1>2 DEF whole
  <2>7. Hundreds' = h * 100 /\ Kept' = kept * (100 - pct)
    BY <1>12, <1>13 DEF h, kept
  <2>8. running' \in 0 .. whole
    BY <1>7 DEF whole
  <2>9. LET error == Hundreds' * running' - whole * Kept'
        IN 2 * error <= (n + 1) * Hundreds' /\ -(2 * error) <= (n + 1) * Hundreds'
    BY <2>5, <2>7, <1>7
  <2>10. Len(discounts') = n + 1
    BY <1>8
  <2> QED
    BY <2>2, <2>3, <2>6, <2>8, <2>9, <2>10 DEF QuoteExact
<1>15. PricingTypeOK'
  <2>1. turnOf' \in 1 .. Len(sorted) + 1
    BY <1>2, <1>4
  <2> QED
    BY <2>1, <1>1, <1>2, <1>3, <1>7, <1>8 DEF PricingTypeOK
<1> QED
  BY <1>10, <1>12, <1>13, <1>14, <1>15 DEF PricingInv

LEMMA IdlePricing == PricingInv /\ UNCHANGED pricingVars => PricingInv'
<1> SUFFICES ASSUME PricingInv, UNCHANGED pricingVars PROVE PricingInv'
  OBVIOUS
<1>1. /\ bill' = bill /\ rules' = rules /\ sorted' = sorted /\ running' = running
      /\ discounts' = discounts /\ turnOf' = turnOf
  BY DEF pricingVars
<1>2. \A j : (GetPct(j))' = GetPct(j)
  BY <1>1 DEF GetPct
<1>3. /\ Chosen' = Chosen /\ Applicable' = Applicable /\ (Sorted(sorted))' = Sorted(sorted)
      /\ Listed' = Listed /\ SumOfDiscounts' = SumOfDiscounts /\ Kept' = Kept /\ Hundreds' = Hundreds
  BY <1>1, <1>2 DEF Chosen, Applicable, Sorted, Listed, SumOfDiscounts, Kept, Hundreds, Candidate, IsRuleApplicable
<1>4. QuoteExact' = QuoteExact
  BY <1>1, <1>3 DEF QuoteExact
<1> QED
  BY <1>1, <1>3, <1>4 DEF PricingInv, PricingTypeOK

LEMMA RulesDecide == PricingInv => TopRuleDecides
<1> SUFFICES ASSUME PricingInv PROVE TopRuleDecides
  OBVIOUS
<1>1. /\ rules \in [RuleIds -> RuleRows] /\ sorted \in Seq(RuleIds) /\ Sorted(sorted)
      /\ Listed = {sorted[k] : k \in {m \in Chosen : m < turnOf}}
  BY DEF PricingInv, PricingTypeOK
<1>2. /\ DOMAIN sorted = 1 .. Len(sorted) /\ Len(sorted) \in Nat
      /\ Applicable = {sorted[m] : m \in DOMAIN sorted} /\ Chosen \subseteq DOMAIN sorted
  BY <1>1, SortedFacts
<1> DEFINE top == sorted[1]
<1>3. ASSUME NEW j \in Applicable PROVE ~Precedes(rules[j], rules[top])
  <2>1. PICK m \in DOMAIN sorted : sorted[m] = j
    BY <1>2
  <2>2. CASE m = 1
    <3>1. RuleRow(rules[j])
      BY <1>1, PricingAssumption DEF Applicable
    <3>2. rules[j].priority \in Int /\ rules[j].created \in Int
      BY <3>1 DEF RuleRow
    <3>3. ScopeWeight(rules[j].scope) \in Int
      BY <3>1 DEF RuleRow, Scopes, ScopeWeight
    <3> QED
      BY <2>1, <2>2, <3>2, <3>3 DEF Precedes
  <2>3. CASE m # 1
    <3>1. 1 \in DOMAIN sorted /\ 1 < m
      BY <2>3, <1>2
    <3> QED
      BY <2>1, <3>1, <1>1 DEF Sorted
  <2> QED
    BY <2>2, <2>3
<1>4. ASSUME NEW i \in Listed, ~rules[i].stackable
      PROVE  Listed = {i} /\ \A j \in Applicable : ~Precedes(rules[j], rules[i])
  <2>1. PICK k \in Chosen : k < turnOf /\ i = sorted[k]
    BY <1>1, <1>4
  <2>2. sorted # <<>>
    BY <2>1 DEF Chosen
  <2>3. ~rules[top].stackable
    BY <2>1, <2>2, <1>4 DEF Chosen
  <2>4. Chosen = {1}
    BY <2>2, <2>3 DEF Chosen
  <2>5. i = top /\ Listed = {i}
    BY <2>1, <2>4, <1>1
  <2> QED
    BY <2>5, <1>3
<1>5. ASSUME Priced, running > 0, NEW i \in Applicable \ Listed
      PROVE  /\ top \in Listed /\ ~Precedes(rules[i], rules[top])
             /\ rules[top].stackable => ~rules[i].stackable
  <2>1. \A k \in Chosen : k < turnOf
    BY <1>5 DEF Priced, PricingInv, PricingTypeOK
  <2>2. Listed = {sorted[k] : k \in Chosen}
    BY <2>1, <1>1
  <2>3. PICK m \in DOMAIN sorted : sorted[m] = i
    BY <1>2
  <2>4. sorted # <<>> /\ 1 \in DOMAIN sorted
    BY <2>3, <1>2
  <2>5. top \in Listed
    <3>1. 1 \in Chosen
      BY <2>4 DEF Chosen
    <3> QED
      BY <3>1, <2>2
  <2>6. rules[top].stackable => ~rules[i].stackable
    <3> SUFFICES ASSUME rules[top].stackable, rules[i].stackable PROVE FALSE
      OBVIOUS
    <3>1. m \in Chosen
      BY <2>3, <2>4 DEF Chosen
    <3> QED
      BY <3>1, <2>2, <2>3, <1>5
  <2> QED
    BY <2>5, <2>6, <1>3
<1> QED
  BY <1>4, <1>5 DEF TopRuleDecides

(* What the loop has listed so far, and how far the price may be off.      *)
THEOREM PricingInductive == PricingSpec => []PricingInv
<1>1. PricingInv /\ [PricingNext]_pricingVars => PricingInv'
  BY ApplyRuleInv, IdlePricing DEF PricingNext
<1> QED
  BY <1>1, InitPricing, PTL DEF PricingSpec

(* What the buyer is quoted follows the rules to the cent and by their     *)
(* precedence (evaluatePricing, buildDiscounts), for every set of rules    *)
(* and every cart.                                                         *)
THEOREM QuoteSoundAlways == PricingSpec => []QuoteSound
<1>1. PricingInv => QuoteSound
  BY RulesDecide DEF PricingInv, QuoteSound
<1> QED
  BY <1>1, PricingInductive, PTL

==============================================================================
