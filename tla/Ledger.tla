------------------------------- MODULE Ledger -------------------------------
(***************************************************************************)
(* The arithmetic of the double-entry ledger: services/ledger.ts and the   *)
(* last part of computeOrderSplit in services/order-split.ts.  Amounts are *)
(* cents.  A ledger entry is [ref, account, dir, amount]: ref is the       *)
(* refund request the entry belongs to, or Sale.  Currency, memo and order *)
(* are left out: there is one order, in one currency.                      *)
(***************************************************************************)
EXTENDS Integers, Sequences, FiniteSets, FiniteSetsExt, Functions

(* Math.round of a non-negative quotient: halves go up *)
RoundDiv(a, b) == (2 * a + b) \div (2 * b)

PlatformFee(gross) == RoundDiv(gross * 1000, 10000)
StripeFee(gross) == RoundDiv(gross * 290, 10000) + 30
Distributable(gross) == gross - PlatformFee(gross) - StripeFee(gross)

-----------------------------------------------------------------------------
(* allocateProportional: largest remainders first *)

SumOf(f) == FoldFunction(LAMBDA a, b : a + b, 0, f)

(* Nothing to weigh by: an even split. *)
Effective(weights) ==
  IF \E i \in DOMAIN weights : weights[i] > 0 THEN weights ELSE [i \in DOMAIN weights |-> 1]

Floors(total, weights) ==
  LET w == Effective(weights) IN [i \in DOMAIN w |-> (total * w[i]) \div SumOf(w)]

(* The fraction cut off, as a numerator over the sum of the weights *)
Fraction(total, weights, i) ==
  LET w == Effective(weights) IN (total * w[i]) % SumOf(w)

Leftover(total, weights) == total - SumOf(Floors(total, weights))

(* The order in which shares get one of the leftover cents.  The code      *)
(* compares floating-point fractions and, when they are equal, positions.  *)
(* Two equal weights have the same fraction, bit for bit; fractions that   *)
(* are equal only as rationals (4/3 - 1 and 1/3) compare either way.       *)
Before(total, weights, i, j) ==
  \/ Fraction(total, weights, i) > Fraction(total, weights, j)
  \/ weights[i] = weights[j] /\ i < j

(* The shares the function may return *)
Allocations(total, weights) ==
  LET left == Leftover(total, weights)
      floors == Floors(total, weights)
  IN {[i \in DOMAIN weights |-> floors[i] + (IF i \in lucky THEN 1 ELSE 0)] :
        lucky \in {S \in SUBSET DOMAIN weights :
          /\ Cardinality(S) = left
          /\ \A i \in S, j \in DOMAIN weights \ S : ~Before(total, weights, j, i)}}

-----------------------------------------------------------------------------
(* Entries, batches and the ledger that holds them *)

Sale == 0

(* Accounts: the platform's three, and the photographers' from 1 on *)
Cash == 0
StripeFees == -1
PlatformRevenue == -2

Entry(ref, account, dir, amount) ==
  [ref |-> ref, account |-> account, dir |-> dir, amount |-> amount]

SumWhere(entries, Wanted(_)) ==
  MapThenSumSet(LAMBDA e : e.amount, {e \in entries : Wanted(e)})
Debits(entries) == SumWhere(entries, LAMBDA e : e.dir = "debit")
Credits(entries) == SumWhere(entries, LAMBDA e : e.dir = "credit")

(* assertBalanced *)
Postable(batch) == (\A e \in batch : e.amount > 0) /\ Debits(batch) = Credits(batch)

(* postLedgerBatch: the dedupe indexes drop an entry when there is one of  *)
(* the same refund, account and direction, whatever its amount.            *)
(* A mistake the properties catch: the index of refunds leaves out the     *)
(* refund.                                                                 *)
OneRefundKey(e, f) ==
  e.account = f.account /\ e.dir = f.dir /\ (e.ref = Sale <=> f.ref = Sale)
SameKey(e, f) == e.ref = f.ref /\ e.account = f.account /\ e.dir = f.dir
Post(ledger, batch) == ledger \cup {e \in batch : \A f \in ledger : ~SameKey(e, f)}

(* computeOrderSplit: the sale batch, from the photographers' net shares *)
SaleBatch(gross, net) ==
  {Entry(Sale, Cash, "debit", gross),
   Entry(Sale, StripeFees, "credit", StripeFee(gross)),
   Entry(Sale, PlatformRevenue, "credit", PlatformFee(gross))}
  \cup {Entry(Sale, i, "credit", net[i]) : i \in {j \in DOMAIN net : net[j] > 0}}

(* decideRefund: the reversal of a part of the sale.  rows is the list of  *)
(* the sale's credit entries, shares what each of them gives back.         *)
ReversalBatch(ref, amount, rows, shares) ==
  {Entry(ref, rows[i].account, "debit", shares[i]) : i \in {j \in DOMAIN rows : shares[j] > 0}}
  \cup {Entry(ref, Cash, "credit", amount)}
=============================================================================
