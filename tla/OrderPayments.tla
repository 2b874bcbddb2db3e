---------------------------- MODULE OrderPayments ----------------------------
(***************************************************************************)
(* One order from its PaymentIntent to its refunds: the Stripe webhook     *)
(* handler (services/stripe-webhook.ts), the buyer's refund request        *)
(* (services/refunds.ts), the admin's decision and the reconciliation of   *)
(* refunds (services/admin-refunds.ts), with the rows they share - orders, *)
(* stripe_webhook_events, refund_requests, ledger_entries - and Stripe.    *)
(*                                                                         *)
(* Every database statement and every Stripe call of a handler is a step   *)
(* of its own, and every handler may break off before any of them.  A read *)
(* is joined with the write it guards only where no other step can tell.   *)
(***************************************************************************)
EXTENDS Ledger

CONSTANTS
  Gross,          \* orders.total_cents
  Payees,         \* the photographers who may have a share in it
  Nets,           \* what computeOrderSplit may give each of them, 0 for nothing
  Partial,        \* amounts an admin may enter instead of the whole remainder
  Admins,         \* concurrent callers of decideRefund
  MaxRequests,    \* bound on the buyer's refund requests
  MaxAttempts,    \* bound on the approvals of one request
  MaxRefunds,     \* bound on the refunds Stripe makes
  MaxDeclines,    \* bound on the cards declined before one is accepted
  MaxTwins,       \* Event objects Stripe may create for the one success
  MaxMishaps      \* bound on failed calls, process deaths, declines, twins and overlapping
                  \* decisions together

ASSUME OrderAssumption ==
  /\ Gross \in Nat \ {0} /\ Partial \subseteq Nat
  /\ Payees \in Nat /\ Nets \subseteq [1 .. Payees -> Nat]
  /\ \A net \in Nets : SumOf(net) = Distributable(Gross)
  /\ MaxRequests \in Nat /\ MaxAttempts \in Nat /\ MaxRefunds \in Nat /\ MaxDeclines \in Nat
  /\ MaxTwins \in Nat \ {0} /\ MaxMishaps \in Nat

Requests == 1 .. MaxRequests
Attempts == 0 .. MaxAttempts

(* Stripe events: the nth decline, the nth Event object about the success, *)
(* the nth refund of the charge.                                           *)
Failed(n) == [kind |-> "failed", n |-> n]
Succeeded(n) == [kind |-> "succeeded", n |-> n]
Refunded(n) == [kind |-> "refunded", n |-> n]
Declines == {Failed(n) : n \in 1 .. MaxDeclines}
Successes == {Succeeded(n) : n \in 1 .. MaxTwins}
Refunds == {Refunded(n) : n \in 1 .. MaxRefunds}
Events == Declines \cup Successes \cup Refunds

VARIABLES
  captured,   \* Stripe: the PaymentIntent has succeeded
  refunds,    \* Stripe: the refunds of its charge, oldest first
  issued,     \* Stripe: events created
  acked,      \* Stripe: events answered with a 200, not sent again
  rows,       \* stripe_webhook_events: the row of each event
  hook,       \* the handler working on each event
  order,      \* orders
  ledger,     \* ledger_entries
  requests,   \* refund_requests
  admin,      \* callers of decideRefund
  faults,     \* failed calls and process deaths
  overlaps,   \* decisions begun while another admin was deciding
  contested   \* history: requests two admins decided at once; Sale, when two
              \* deliveries split the sale differently

vars == <<captured, refunds, issued, acked, rows, hook, order, ledger,
requests, admin,
          faults, overlaps, contested>>
stripeVars == <<captured, refunds, issued, acked>>
hookVars == <<rows, hook>>
adminVars == <<requests, admin>>
tallies == <<faults, overlaps, contested>>

Statuses == {"pending_payment", "paid", "failed", "refunded", "partially_refunded"}
Orders == [status : Statuses, refunded : Nat, charge : BOOLEAN]
StripeRefunds == [req : Nat, attempt : Attempts, amount : Nat, total : Nat]
RowStates == {"none", "received", "success", "error"}
HookPcs == {"none", "mark", "sale", "fail", "look", "reconcile", "status", "finish"}
HookStates == [pc : HookPcs, seen : Statuses]
RequestRows == [status : {"none", "pending", "denied", "processed"}, attempts : Attempts]
AdminPcs == {"idle", "load", "attempt", "stripe", "process", "order", "reverse", "deny"}
AdminStates == [pc : AdminPcs, req : Nat, attempt : Attempts, amount : Nat, refunded : Nat]

IdleHook == [pc |-> "none", seen |-> "pending_payment"]
IdleAdmin == [pc |-> "idle", req |-> 0, attempt |-> 0, amount |-> 0, refunded |-> 0]

Init ==
  /\ captured = FALSE /\ refunds = <<>> /\ issued = {} /\ acked = {}
  /\ rows = [e \in Events |-> "none"]
  /\ hook = [e \in Events |-> IdleHook]
  /\ order = [status |-> "pending_payment", refunded |-> 0, charge |-> FALSE]
  /\ ledger = {}
  /\ requests = [r \in Requests |-> [status |-> "none", attempts |-> 0]]
  /\ admin = [a \in Admins |-> IdleAdmin]
  /\ faults = 0 /\ overlaps = 0 /\ contested = {}

Mishaps ==
  faults + overlaps + Cardinality(issued \cap (Declines \cup (Successes \ {Succeeded(1)})))
Fault ==
  /\ Mishaps < MaxMishaps
  /\ faults' = faults + 1 /\ UNCHANGED <<overlaps, contested>>
NoFault == UNCHANGED tallies

(* charge.amount_refunded *)
Returned == IF refunds = <<>> THEN 0 ELSE refunds[Len(refunds)].total

RefundStatus(cents) == IF cents >= Gross THEN "refunded" ELSE "partially_refunded"

-----------------------------------------------------------------------------
(* Stripe and the buyer's card *)

Decline(e) ==
  /\ ~captured /\ e \in Declines \ issued /\ Mishaps < MaxMishaps
  /\ issued' = issued \cup {e}
  /\ UNCHANGED <<captured, refunds, acked, hookVars, order, ledger, adminVars, tallies>>

Capture ==
  /\ ~captured /\ captured' = TRUE
  /\ \E n \in 1 .. MaxTwins :
       /\ Mishaps + n - 1 <= MaxMishaps
       /\ issued' = issued \cup {Succeeded(m) : m \in 1 .. n}
  /\ UNCHANGED <<refunds, acked, hookVars, order, ledger, adminVars, tallies>>

-----------------------------------------------------------------------------
(***************************************************************************)
(* handleWebhookEvent.  Stripe sends an event until it is answered with a  *)
(* 200, in any order and also while an earlier delivery is being handled.  *)
(* The insert of the event row decides who handles it; every later         *)
(* delivery is answered with a 200 at once.                                *)
(***************************************************************************)
(* A mistake the properties catch: a decline dispatched as a success. *)
DeclineAsSuccess(e) == IF e.kind = "refunded" THEN "look" ELSE "mark"

FirstStep(e) ==
  CASE e.kind = "succeeded" -> "mark" [] e.kind = "failed" -> "fail" [] OTHER -> "look"

At(e, pc) == hook[e].pc = pc
Goto(e, pc) == hook' = [hook EXCEPT ![e].pc = pc]

(* A mistake the properties catch: the duplicate of an event in error      *)
(* throws again, and Stripe sends it for ever.                             *)
ErrorNotAcked(e) ==
  /\ e \in issued \ acked /\ rows[e] # "error"
  /\ IF rows[e] = "none"
     THEN /\ rows' = [rows EXCEPT ![e] = "received"] /\ Goto(e, FirstStep(e))
          /\ UNCHANGED acked
     ELSE acked' = acked \cup {e} /\ UNCHANGED hookVars
  /\ UNCHANGED <<captured, refunds, issued, order, ledger, adminVars, tallies>>

Deliver(e) ==
  /\ e \in issued \ acked
  /\ IF rows[e] = "none"
     THEN /\ rows' = [rows EXCEPT ![e] = "received"]
          /\ Goto(e, FirstStep(e))
          /\ UNCHANGED acked
     ELSE acked' = acked \cup {e} /\ UNCHANGED hookVars
  /\ UNCHANGED <<captured, refunds, issued, order, ledger, adminVars, tallies>>

(* A mistake the properties catch: an order that had a decline is ignored. *)
MarkPendingOnly(e) ==
  /\ At(e, "mark")
  /\ order' = IF order.status = "pending_payment"
              THEN [order EXCEPT !.status = "paid", !.charge = TRUE] ELSE order
  /\ Goto(e, IF order.status \in {"pending_payment", "paid"} THEN "sale" ELSE "finish")
  /\ UNCHANGED <<stripeVars, rows, ledger, adminVars, tallies>>

(* handlePaymentSucceeded.  An order that reads paid is not updated, and   *)
(* the update is guarded by pending_payment: read and update are one step. *)
MarkPaid(e) ==
  /\ At(e, "mark")
  /\ order' = IF order.status = "pending_payment"
              THEN [order EXCEPT !.status = "paid", !.charge = TRUE] ELSE order
  /\ Goto(e, "sale")
  /\ UNCHANGED <<stripeVars, rows, ledger, adminVars, tallies>>

SalePosted == \E e \in ledger : e.ref = Sale

(* recordOrderSale.  Every delivery computes the split anew: when photos   *)
(* or members of the event have changed since, it is another one, and the  *)
(* dedupe index drops the entries of accounts that are already there.      *)
PostSale(e) ==
  /\ At(e, "sale")
  /\ \E net \in Nets :
       LET batch == SaleBatch(Gross, net)
       IN /\ ledger' = Post(ledger, batch)
          /\ contested' = IF SalePosted /\ ~(batch \subseteq ledger)
                          THEN contested \cup {Sale} ELSE contested
  /\ Goto(e, "finish")
  /\ UNCHANGED <<stripeVars, rows, order, adminVars, faults, overlaps>>

(* handlePaymentFailed: whatever the order's status is by now *)
MarkFailed(e) ==
  /\ At(e, "fail")
  /\ order' = [order EXCEPT !.status = "failed"]
  /\ Goto(e, "finish")
  /\ UNCHANGED <<stripeVars, rows, ledger, adminVars, tallies>>

(* handleChargeRefunded: the status read first is compared last. *)
LookUpOrder(e) ==
  /\ At(e, "look")
  /\ hook' = [hook EXCEPT ![e] = [pc |-> "reconcile", seen |-> order.status]]
  /\ UNCHANGED <<stripeVars, rows, order, ledger, adminVars, tallies>>

(* reconcileRefundFromWebhook *)
ReconcileRefund(e) ==
  /\ At(e, "reconcile")
  /\ order' = [order EXCEPT !.refunded = refunds[e.n].total,
                            !.status = RefundStatus(refunds[e.n].total)]
  /\ Goto(e, "status")
  /\ UNCHANGED <<stripeVars, rows, ledger, adminVars, tallies>>

MarkRefunded(e) ==
  /\ At(e, "status")
  /\ LET next == RefundStatus(refunds[e.n].total)
     IN order' = IF hook[e].seen = next THEN order ELSE [order EXCEPT !.status = next]
  /\ hook' = [hook EXCEPT ![e] = [IdleHook EXCEPT !.pc = "finish"]]
  /\ UNCHANGED <<stripeVars, rows, ledger, adminVars, tallies>>

(* Marking the row is best effort: the answer is a 200 either way. *)
Finish(e) ==
  /\ At(e, "finish")
  /\ \/ rows' = [rows EXCEPT ![e] = "success"] /\ NoFault
     \/ UNCHANGED rows /\ Fault
  /\ hook' = [hook EXCEPT ![e] = IdleHook]
  /\ acked' = acked \cup {e}
  /\ UNCHANGED <<captured, refunds, issued, order, ledger, adminVars>>

(* A statement, computeOrderSplit or the audit write throws: the row says  *)
(* error and the answer is a 500.  Or the process dies and the row says    *)
(* nothing.                                                                *)
BreakOff(e) ==
  /\ ~At(e, "none") /\ Fault
  /\ \E row \in {"received", "error"} : rows' = [rows EXCEPT ![e] = row]
  /\ hook' = [hook EXCEPT ![e] = IdleHook]
  /\ UNCHANGED <<stripeVars, order, ledger, adminVars>>

Handle(e) ==
  \/ MarkPaid(e) \/ PostSale(e) \/ MarkFailed(e)
  \/ LookUpOrder(e) \/ ReconcileRefund(e) \/ MarkRefunded(e)
  \/ Finish(e)

-----------------------------------------------------------------------------
(* createRefundRequest: the partial unique index admits one open request.  *)
RequestRefund(r) ==
  /\ requests[r].status = "none"
  /\ \A q \in Requests : /\ requests[q].status # "pending"
                         /\ q < r => requests[q].status # "none"
  /\ requests' = [requests EXCEPT ![r].status = "pending"]
  /\ UNCHANGED <<stripeVars, hookVars, order, ledger, admin, tallies>>

(***************************************************************************)
(* decideRefund                                                            *)
(***************************************************************************)
AdminAt(a, pc) == admin[a].pc = pc
AdminGoto(a, pc) == admin' = [admin EXCEPT ![a].pc = pc]
AdminDone(a) == admin' = [admin EXCEPT ![a] = IdleAdmin]

Decides(a, r) == ~AdminAt(a, "idle") /\ admin[a].req = r

(* Nothing keeps two admins from deciding at once, even the same request.  *)
LoadRequest(a, r) ==
  /\ AdminAt(a, "idle")
  /\ requests[r].status = "pending" /\ requests[r].attempts < MaxAttempts
  /\ admin' = [admin EXCEPT ![a] = [IdleAdmin EXCEPT !.pc = "load", !.req = r,
                                                     !.attempt = requests[r].attempts + 1]]
  /\ IF \A b \in Admins : AdminAt(b, "idle") THEN UNCHANGED overlaps
     ELSE Mishaps < MaxMishaps /\ overlaps' = overlaps + 1
  /\ contested' = IF \E b \in Admins : Decides(b, r) THEN contested \cup {r} ELSE contested
  /\ UNCHANGED <<stripeVars, hookVars, order, ledger, requests, faults>>

(* The order is read, then the decision is validated against it. *)
LoadOrder(a) ==
  /\ AdminAt(a, "load")
  /\ LET remaining == Gross - order.refunded
     IN \/ AdminGoto(a, "deny")
        \/ \E amount \in Partial \cup {remaining} :
             IF amount \in 1 .. remaining /\ order.charge
             THEN admin' = [admin EXCEPT ![a].pc = "attempt", ![a].amount = amount,
                                         ![a].refunded = order.refunded]
             ELSE AdminDone(a)
  /\ UNCHANGED <<stripeVars, hookVars, order, ledger, requests, tallies>>

(* A mistake the properties catch: the attempt is not stored first. *)
AttemptNotStored(a) ==
  /\ AdminAt(a, "attempt") /\ AdminGoto(a, "stripe")
  /\ UNCHANGED <<stripeVars, hookVars, order, ledger, requests, tallies>>

WriteAttempt(a) ==
  /\ AdminAt(a, "attempt")
  /\ requests' = [requests EXCEPT ![admin[a].req].attempts = admin[a].attempt]
  /\ AdminGoto(a, "stripe")
  /\ UNCHANGED <<stripeVars, hookVars, order, ledger, tallies>>

(* stripe.refunds.create with the idempotency key refund:{req}:{attempt}.  *)
(* A key Stripe has seen replays the refund, or is refused when the amount *)
(* is another; a charge is never refunded beyond what was paid.            *)
KeyUsed(a) == {n \in DOMAIN refunds : /\ refunds[n].req = admin[a].req
                                      /\ refunds[n].attempt = admin[a].attempt}

(* A mistake the properties catch: a refusal is taken for an answer. *)
RefusalIgnored(a) ==
  /\ AdminAt(a, "stripe") /\ AdminGoto(a, "process")
  /\ IF KeyUsed(a) = {} /\ Returned + admin[a].amount <= Gross /\ Len(refunds) < MaxRefunds
     THEN /\ refunds' = Append(refunds,
                [req |-> admin[a].req, attempt |-> admin[a].attempt,
                 amount |-> admin[a].amount, total |-> Returned + admin[a].amount])
          /\ issued' = issued \cup {Refunded(Len(refunds) + 1)}
     ELSE UNCHANGED <<refunds, issued>>
  /\ UNCHANGED <<captured, acked, hookVars, order, ledger, requests, tallies>>

CreateRefund(a) ==
  /\ AdminAt(a, "stripe")
  /\ \/ /\ KeyUsed(a) = {} /\ Returned + admin[a].amount <= Gross /\ Len(refunds) < MaxRefunds
        /\ refunds' = Append(refunds,
             [req |-> admin[a].req, attempt |-> admin[a].attempt,
              amount |-> admin[a].amount, total |-> Returned + admin[a].amount])
        /\ issued' = issued \cup {Refunded(Len(refunds) + 1)}
        /\ \/ AdminGoto(a, "process") /\ NoFault
           \/ AdminDone(a) /\ Fault                   \* the answer is lost
     \/ /\ \E n \in KeyUsed(a) : refunds[n].amount = admin[a].amount
        /\ AdminGoto(a, "process") /\ NoFault /\ UNCHANGED <<refunds, issued>>
     \/ /\ IF KeyUsed(a) = {} THEN Returned + admin[a].amount > Gross
                              ELSE \A n \in KeyUsed(a) : refunds[n].amount # admin[a].amount
        /\ AdminDone(a) /\ NoFault /\ UNCHANGED <<refunds, issued>>
  /\ UNCHANGED <<captured, acked, hookVars, order, ledger, requests>>

MarkProcessed(a) ==
  /\ AdminAt(a, "process")
  /\ requests' = [requests EXCEPT ![admin[a].req].status = "processed"]
  /\ AdminGoto(a, "order")
  /\ UNCHANGED <<stripeVars, hookVars, order, ledger, tallies>>

(* Mistakes the properties catch: the amount is added to what the order    *)
(* says by now; the amount is taken off.                                   *)
AddToOrder(a) ==
  /\ AdminAt(a, "order")
  /\ LET cents == order.refunded + admin[a].amount
     IN order' = [order EXCEPT !.refunded = cents, !.status = RefundStatus(cents)]
  /\ AdminGoto(a, "reverse")
  /\ UNCHANGED <<stripeVars, hookVars, ledger, requests, tallies>>

UpdateOrder(a) ==
  /\ AdminAt(a, "order")
  /\ LET cents == admin[a].refunded + admin[a].amount
     IN order' = [order EXCEPT !.refunded = cents, !.status = RefundStatus(cents)]
  /\ AdminGoto(a, "reverse")
  /\ UNCHANGED <<stripeVars, hookVars, ledger, requests, tallies>>

(* The sale's credits that are in the ledger, as the weights of the         *)
(* reversal: an account without one weighs nothing.                        *)
SaleCredit(account) == Credits({e \in ledger : e.ref = Sale /\ e.account = account})
SaleRows ==
  [i \in 1 .. Payees + 2 |->
     LET account == CASE i = 1 -> StripeFees [] i = 2 -> PlatformRevenue [] OTHER -> i - 2
     IN [account |-> account, amount |-> SaleCredit(account)]]
CreditWeights == [i \in DOMAIN SaleRows |-> SaleRows[i].amount]

PostReversal(a) ==
  /\ AdminAt(a, "reverse")
  /\ IF SalePosted
     THEN \E shares \in Allocations(admin[a].amount, CreditWeights) :
            ledger' = Post(ledger,
              ReversalBatch(admin[a].req, admin[a].amount, SaleRows, shares))
     ELSE UNCHANGED ledger                            \* skipped for good
  /\ AdminDone(a)
  /\ UNCHANGED <<stripeVars, hookVars, order, requests, tallies>>

Deny(a) ==
  /\ AdminAt(a, "deny")
  /\ requests' = [requests EXCEPT ![admin[a].req].status = "denied"]
  /\ AdminDone(a)
  /\ UNCHANGED <<stripeVars, hookVars, order, ledger, tallies>>

(* A call throws or the process dies; the Stripe call may not be made. *)
AbandonDecision(a) ==
  /\ ~AdminAt(a, "idle") /\ Fault
  /\ AdminDone(a)
  /\ UNCHANGED <<stripeVars, hookVars, order, ledger, requests>>

Decide(a) ==
  \/ LoadOrder(a) \/ WriteAttempt(a) \/ CreateRefund(a) \/ MarkProcessed(a)
  \/ UpdateOrder(a) \/ PostReversal(a) \/ Deny(a)

-----------------------------------------------------------------------------
Next ==
  \/ Capture \/ \E e \in Events : Decline(e)
  \/ \E e \in Events : Deliver(e) \/ Handle(e) \/ BreakOff(e)
  \/ \E r \in Requests : RequestRefund(r)
  \/ \E a \in Admins, r \in Requests : LoadRequest(a, r)
  \/ \E a \in Admins : Decide(a) \/ AbandonDecision(a)

(* Stripe keeps sending what was not answered, and a handler that is not   *)
(* interrupted runs to its end.  Nobody has to decide a request.           *)
Fairness == \A e \in Events : WF_vars(Deliver(e)) /\ WF_vars(Handle(e))

Spec == Init /\ [][Next]_vars /\ Fairness

-----------------------------------------------------------------------------
(***************************************************************************)
(* Properties                                                              *)
(***************************************************************************)

(* Every variable has its type. *)
TypeOK ==
  /\ captured \in BOOLEAN /\ refunds \in Seq(StripeRefunds) /\ Len(refunds) <= MaxRefunds
  /\ issued \subseteq Events /\ acked \subseteq issued
  /\ rows \in [Events -> RowStates] /\ hook \in [Events -> HookStates]
  /\ order \in Orders /\ faults \in Nat /\ overlaps \in Nat /\ contested \subseteq 0 .. MaxRequests
  /\ requests \in [Requests -> RequestRows] /\ admin \in [Admins -> AdminStates]

(* The order says paid or refunded, the sale is in the ledger or money     *)
(* goes back only if Stripe took the money.                                *)
MoneyFirst ==
  \/ captured
  \/ /\ order.status \in {"pending_payment", "failed"} /\ ~order.charge
     /\ ledger = {} /\ refunds = <<>>

(* orders.refunded_cents never says more than Stripe gave back, however    *)
(* lost answers, late and reordered charge.refunded events and the writes  *)
(* of admins mix, also of two whose decisions of different requests        *)
(* overlap.  Excepted: once two admins decided the same request at once.   *)
BooksNotAheadOfStripe == contested \subseteq {Sale} => order.refunded <= Returned

(* The clawback of a refund request is in the ledger only if Stripe made a *)
(* refund of that request and of that amount.                              *)
ReversalBacked ==
  \A e \in ledger : e.ref # Sale /\ e.account = Cash =>
    \E n \in DOMAIN refunds : refunds[n].req = e.ref /\ refunds[n].amount = e.amount

(* Double entry, for the sale and for each refund request by itself: what  *)
(* was posted, replayed or partly dropped by the dedupe indexes, debits    *)
(* are credits; also the clawback from a sale of which parts were dropped. *)
(* Excepted: a sale two deliveries split differently, and a request two    *)
(* admins decided at once, by different amounts.                           *)
EntriesOf(ref) == {e \in ledger : e.ref = ref}
LedgerBalanced ==
  \A ref \in ({Sale} \cup Requests) \ contested :
    Debits(EntriesOf(ref)) = Credits(EntriesOf(ref))

(* An admin about to call Stripe holds an idempotency key Stripe has never *)
(* seen, also when an earlier attempt died after its call, unless another  *)
(* admin decided the same request at the same time.                        *)
KeyFresh ==
  \A a \in Admins : AdminAt(a, "stripe") /\ admin[a].req \notin contested => KeyUsed(a) = {}

(* Every event is answered in the end, also one whose handler broke off.   *)
EventsDrain == \A e \in Events : e \in issued ~> e \in acked

(* When nothing breaks off, money that Stripe took becomes a sale in the   *)
(* ledger, also after declined cards and twin events.                      *)
SaleSettles == captured ~> SalePosted \/ faults > 0

(* What lines 110-112 of stripe-webhook.ts say: a failure is reported to   *)
(* Stripe, which retries, so a success that was acknowledged and is no     *)
(* longer being handled is in the ledger.                                  *)
AckedSaleRecorded ==
  \A e \in Successes : e \in acked /\ At(e, "none") => SalePosted

(* What line 8 of stripe-webhook.ts says: payment_intent.succeeded marks   *)
(* the order paid.  So once one is processed the order does not read       *)
(* failed, though an earlier card of the same PaymentIntent was declined.  *)
SuccessMarksPaid == \A e \in Successes : rows[e] = "success" => order.status # "failed"

=============================================================================
