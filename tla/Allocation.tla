----------------------------- MODULE Allocation -----------------------------
(***************************************************************************)
(* The loop of allocateProportional (services/ledger.ts) that hands out    *)
(* the cents rounding left over, one at a time, and the batches built from *)
(* its result.  Allocations of module Ledger is its closed form.           *)
(***************************************************************************)
EXTENDS Ledger

CONSTANTS
  Totals,        \* the amounts to split, some of them negative
  WeightLists,   \* the lists of weights to split them by, none empty
  GrossAmounts   \* order totals whose sale batch is looked at

ASSUME AllocationAssumption ==
  /\ Totals \subseteq Int /\ GrossAmounts \subseteq Nat
  /\ \A w \in WeightLists : w \in Seq(Nat) /\ w # <<>>

VARIABLES
  total, weights,  \* the arguments
  order,           \* positions, largest fraction first
  result,          \* the shares so far
  remainder,       \* what is still to be handed out
  idx

vars == <<total, weights, order, result, remainder, idx>>

(* What the sort may return: a list of the positions, none after one that  *)
(* must come later.                                                        *)
Orders(t, w) ==
  {o \in [DOMAIN w -> DOMAIN w] :
     /\ IsInjective(o)
     /\ \A m, n \in DOMAIN w : m < n => ~Before(t, w, o[n], o[m])}

Init ==
  /\ total \in Totals /\ weights \in WeightLists
  /\ order \in Orders(total, weights)
  /\ result = Floors(total, weights)
  /\ remainder = Leftover(total, weights)
  /\ idx = 0

Step == IF remainder >= 0 THEN 1 ELSE -1

HandOutTo(target) ==
  /\ result' = [result EXCEPT ![target] = @ + Step]
  /\ remainder' = remainder - Step
  /\ idx' = idx + 1
  /\ UNCHANGED <<total, weights, order>>

(* Mistakes in the loop that the properties catch: it stops a cent early,  *)
(* it ignores the sort.                                                    *)
StopsEarly == remainder > 1 /\ HandOutTo(order[idx + 1])
ListOrder == remainder # 0 /\ HandOutTo(idx + 1)

HandOut ==
  /\ remainder # 0
  /\ HandOutTo(order[(idx % Len(weights)) + 1])

Next == HandOut
Spec == Init /\ [][Next]_vars /\ WF_vars(Next)

-----------------------------------------------------------------------------
Done == remainder = 0

(* Every variable has its type; the result is as long as the weights and   *)
(* the loop never goes round the list.                                     *)
TypeOK ==
  /\ total \in Totals /\ weights \in WeightLists
  /\ result \in [DOMAIN weights -> Int]
  /\ idx \in 0 .. Len(weights) - 1 /\ remainder \in 0 .. Len(weights) - 1

(* The shares add up to the total exactly and each is its exact quota      *)
(* rounded down or up.                                                     *)
ExactAndFair ==
  Done =>
    LET w == Effective(weights)
        W == SumOf(w)
    IN /\ SumOf(result) = total
       /\ \A i \in DOMAIN w : /\ W * result[i] < total * w[i] + W
                              /\ W * result[i] > total * w[i] - W

(* Nobody gets less than somebody with a smaller weight, and of two equal  *)
(* weights the first one gets the odd cent.                                *)
Monotone ==
  Done /\ total >= 0 =>
    \A i, j \in DOMAIN weights :
      /\ weights[i] > weights[j] => result[i] >= result[j]
      /\ weights[i] = weights[j] /\ i < j => result[i] - result[j] \in {0, 1}

(* A sale of which `total` is left after the fees, and a refund of `total`,*)
(* split this way make batches that assertBalanced accepts; photographers  *)
(* with a share of zero get no entry.                                      *)
BatchesPostable ==
  Done /\ total > 0 =>
    /\ \A g \in GrossAmounts : Distributable(g) = total => Postable(SaleBatch(g, result))
    /\ Postable(ReversalBatch(1, total, [i \in DOMAIN weights |-> [account |-> i]], result))

(* What the ledger relies on of a split: exact, fair, and fit to be posted *)
(* (allocateProportional, computeOrderSplit).                              *)
FairSplit == ExactAndFair /\ Monotone /\ BatchesPostable

(* The loop ends, so that no split hangs the request that asked for it,    *)
(* and with one of the results the ledger's Allocations lists.             *)
Returns == <>(Done /\ result \in Allocations(total, weights))

=============================================================================
