------------------------- MODULE OrderPaymentsProofs -------------------------
(***************************************************************************)
(* Invariants of OrderPayments for every price and every split a delivery  *)
(* may compute, every number of admins, requests, declines, twin events    *)
(* and mishaps.                                                            *)
(***************************************************************************)
EXTENDS OrderPayments, LedgerTheorems

(* Which handler steps belong to which kind of event *)
SuccessSteps == {"mark", "sale"}
RefundSteps == {"look", "reconcile", "status"}

HookInv ==
  \A e \in Events :
    /\ hook[e].pc # "none" => e \in issued
    /\ hook[e].pc \in SuccessSteps => e.kind = "succeeded"
    /\ hook[e].pc \in RefundSteps => e.kind = "refunded"

(* Stripe issues an event only after what it reports. *)
IssuedInv ==
  /\ \A e \in issued : /\ e.kind = "succeeded" => captured
                       /\ e.kind = "refunded" => e.n \in DOMAIN refunds
  /\ refunds # <<>> => captured

(* What an admin has established by the time the decision is at pc. *)
Backed(r, amount) == \E n \in DOMAIN refunds : refunds[n].req = r /\ refunds[n].amount = amount
AdminInv ==
  \A a \in Admins :
    /\ admin[a].pc \in {"attempt", "stripe", "process", "order", "reverse"} => captured
    /\ admin[a].pc \in {"process", "order", "reverse"} => Backed(admin[a].req, admin[a].amount)

IInv == TypeOK /\ HookInv /\ IssuedInv /\ AdminInv /\ MoneyFirst /\ ReversalBacked

(* The three kinds of events are told apart by their kind. *)
LEMMA EventKinds ==
  /\ \A e \in Events : e.kind \in {"failed", "succeeded", "refunded"}
  /\ \A e \in Declines : e.kind = "failed"
  /\ \A n \in 1 .. MaxTwins : Succeeded(n) \in Events /\ Succeeded(n).kind = "succeeded"
  /\ \A n \in 1 .. MaxRefunds : /\ Refunded(n) \in Events
                                /\ Refunded(n).kind = "refunded" /\ Refunded(n).n = n
<1>1. /\ \A e \in Declines : e.kind = "failed"
      /\ \A e \in Successes : e.kind = "succeeded"
      /\ \A e \in Refunds : e.kind = "refunded"
  BY DEF Declines, Successes, Refunds, Failed, Succeeded, Refunded
<1>2. \A n \in 1 .. MaxTwins : Succeeded(n) \in Successes
  BY DEF Successes
<1>3. \A n \in 1 .. MaxRefunds : Refunded(n) \in Refunds /\ Refunded(n).n = n
  BY DEF Refunds, Refunded
<1> QED
  BY <1>1, <1>2, <1>3 DEF Events

(* No sale credit is on the cash account. *)
LEMMA CreditsNotCash == \A i \in DOMAIN SaleRows : SaleRows[i].account # Cash
<1> SUFFICES ASSUME NEW i \in 1 .. Payees + 2 PROVE SaleRows[i].account # 0
  BY DEF SaleRows, Cash
<1>1. i \in Int /\ i >= 1
  BY OrderAssumption
<1> QED
  BY <1>1 DEF SaleRows, StripeFees, PlatformRevenue

(* An idle handler and an idle admin are typed. *)
LEMMA Idle == IdleHook \in HookStates /\ IdleAdmin \in AdminStates
BY OrderAssumption DEF IdleHook, IdleAdmin, HookStates, HookPcs, AdminStates, AdminPcs, Statuses, Attempts

(* The initial states are typed. *)
LEMMA TypeInit == Init => TypeOK
<1> SUFFICES ASSUME Init PROVE TypeOK
  OBVIOUS
<1>1. /\ captured \in BOOLEAN /\ issued \subseteq Events /\ acked \subseteq issued
      /\ rows \in [Events -> RowStates] /\ hook \in [Events -> HookStates]
      /\ admin \in [Admins -> AdminStates]
  BY Idle DEF Init, RowStates
<1>4. requests \in [Requests -> RequestRows]
  <2>1. 0 \in Attempts
    BY OrderAssumption DEF Attempts
  <2> QED
    BY <2>1 DEF Init, RequestRows
<1>2. order \in Orders /\ faults \in Nat /\ overlaps \in Nat /\ contested \subseteq 0 .. MaxRequests
  BY OrderAssumption DEF Init, Orders, Statuses
<1>3. refunds \in Seq(StripeRefunds) /\ Len(refunds) <= MaxRefunds
  BY OrderAssumption DEF Init
<1> QED
  BY <1>1, <1>2, <1>3, <1>4 DEF TypeOK

(* What charge.amount_refunded says is a number. *)
LEMMA ReturnedNat == TypeOK => Returned \in Nat
<1> SUFFICES ASSUME TypeOK, refunds # <<>> PROVE refunds[Len(refunds)].total \in Nat
  BY DEF Returned
<1>1. refunds \in Seq(StripeRefunds)
  BY DEF TypeOK
<1>2. refunds[Len(refunds)] \in StripeRefunds
  BY <1>1
<1> QED
  BY <1>2 DEF StripeRefunds

(* Moving a handler on to another step keeps its type. *)
LEMMA GotoTyped ==
  ASSUME TypeOK, NEW e \in Events, NEW pc \in HookPcs, Goto(e, pc)
  PROVE  hook' \in [Events -> HookStates]
BY DEF TypeOK, Goto, HookStates

(* Moving an admin on to another step keeps its type. *)
LEMMA AdminGotoTyped ==
  ASSUME TypeOK, NEW a \in Admins, NEW pc \in AdminPcs, AdminGoto(a, pc)
  PROVE  admin' \in [Admins -> AdminStates]
BY DEF TypeOK, AdminGoto, AdminStates

(* The status an amount given back implies is a status of orders. *)
LEMMA StatusOf == \A c \in Nat : RefundStatus(c) \in Statuses
BY DEF RefundStatus, Statuses

(* The webhook handlers keep the types. *)
LEMMA TypeHook ==
  ASSUME TypeOK, HookInv, IssuedInv, NEW e \in Events, Deliver(e) \/ Handle(e) \/ BreakOff(e)
  PROVE  TypeOK'
<1> USE DEF stripeVars, hookVars, adminVars, At, Fault, NoFault, tallies
<1>0. hook[e] \in HookStates /\ order \in Orders /\ rows \in [Events -> RowStates]
  BY DEF TypeOK
<1>1. CASE Deliver(e)
  <2>1. CASE rows[e] = "none"
    <3>1. FirstStep(e) \in HookPcs
      BY DEF FirstStep, HookPcs
    <3>2. hook' \in [Events -> HookStates]
      BY <1>1, <2>1, <3>1, GotoTyped DEF Deliver
    <3> QED
      BY <1>0, <1>1, <2>1, <3>2 DEF Deliver, TypeOK, RowStates
  <2>2. CASE rows[e] # "none"
    BY <1>1, <2>2 DEF Deliver, TypeOK
  <2> QED
    BY <2>1, <2>2
<1>2. CASE MarkPaid(e)
  <2>1. hook' \in [Events -> HookStates]
    BY <1>2, GotoTyped DEF MarkPaid, HookPcs
  <2>2. order' \in Orders
    BY <1>0, <1>2 DEF MarkPaid, Orders, Statuses
  <2> QED
    BY <1>2, <2>1, <2>2 DEF MarkPaid, TypeOK
<1>3. CASE PostSale(e)
  <2>1. hook' \in [Events -> HookStates]
    BY <1>3, GotoTyped DEF PostSale, HookPcs
  <2>2. contested' \subseteq 0 .. MaxRequests
    BY <1>3, OrderAssumption DEF PostSale, TypeOK, Sale
  <2> QED
    BY <1>3, <2>1, <2>2 DEF PostSale, TypeOK
<1>4. CASE MarkFailed(e)
  <2>1. hook' \in [Events -> HookStates]
    BY <1>4, GotoTyped DEF MarkFailed, HookPcs
  <2>2. order' \in Orders
    BY <1>0, <1>4 DEF MarkFailed, Orders, Statuses
  <2> QED
    BY <1>4, <2>1, <2>2 DEF MarkFailed, TypeOK
<1>5. CASE LookUpOrder(e)
  <2>1. hook' \in [Events -> HookStates]
    BY <1>0, <1>5 DEF LookUpOrder, HookStates, HookPcs, Orders, TypeOK
  <2> QED
    BY <1>5, <2>1 DEF LookUpOrder, TypeOK
<1>6. ASSUME hook[e].pc \in RefundSteps PROVE refunds[e.n].total \in Nat
  <2>1. e \in issued /\ e.kind = "refunded"
    BY <1>6 DEF HookInv, RefundSteps
  <2>2. e.n \in DOMAIN refunds
    BY <2>1 DEF IssuedInv
  <2>3. refunds[e.n] \in StripeRefunds
    BY <2>2 DEF TypeOK
  <2> QED
    BY <2>3 DEF StripeRefunds
<1>7. CASE ReconcileRefund(e)
  <2>1. refunds[e.n].total \in Nat /\ RefundStatus(refunds[e.n].total) \in Statuses
    BY <1>6, <1>7, StatusOf DEF ReconcileRefund, RefundSteps
  <2>2. hook' \in [Events -> HookStates]
    BY <1>7, GotoTyped DEF ReconcileRefund, HookPcs
  <2>3. order' \in Orders
    BY <1>0, <1>7, <2>1 DEF ReconcileRefund, Orders
  <2> QED
    BY <1>7, <2>2, <2>3 DEF ReconcileRefund, TypeOK
<1>8. CASE MarkRefunded(e)
  <2>1. RefundStatus(refunds[e.n].total) \in Statuses
    BY <1>6, <1>8, StatusOf DEF MarkRefunded, RefundSteps
  <2>2. hook' \in [Events -> HookStates]
    BY <1>0, <1>8, Idle DEF MarkRefunded, HookStates, HookPcs, TypeOK
  <2>3. order' \in Orders
    BY <1>0, <1>8, <2>1 DEF MarkRefunded, Orders
  <2> QED
    BY <1>8, <2>2, <2>3 DEF MarkRefunded, TypeOK
<1>9. CASE Finish(e)
  <2>1. e \in issued
    BY <1>9 DEF Finish, HookInv
  <2>2. hook' \in [Events -> HookStates]
    BY <1>9, Idle DEF Finish, TypeOK
  <2>3. rows' \in [Events -> RowStates] /\ faults' \in Nat
    BY <1>0, <1>9, OrderAssumption DEF Finish, RowStates, TypeOK
  <2> QED
    BY <1>9, <2>1, <2>2, <2>3 DEF Finish, TypeOK
<1>10. CASE BreakOff(e)
  <2>1. hook' \in [Events -> HookStates]
    BY <1>10, Idle DEF BreakOff, TypeOK
  <2>2. rows' \in [Events -> RowStates] /\ faults' \in Nat
    BY <1>0, <1>10, OrderAssumption DEF BreakOff, RowStates, TypeOK
  <2> QED
    BY <1>10, <2>1, <2>2 DEF BreakOff, TypeOK
<1> QED
  BY <1>1, <1>2, <1>3, <1>4, <1>5, <1>7, <1>8, <1>9, <1>10 DEF Handle

(* So do the admins. *)
LEMMA TypeAdmin ==
  ASSUME TypeOK, NEW a \in Admins,
         (\E r \in Requests : LoadRequest(a, r)) \/ Decide(a) \/ AbandonDecision(a)
  PROVE  TypeOK'
<1> USE DEF stripeVars, hookVars, adminVars, AdminAt, AdminDone, Fault, NoFault, tallies
<1>0. /\ admin[a] \in AdminStates /\ order \in Orders
      /\ admin \in [Admins -> AdminStates] /\ requests \in [Requests -> RequestRows]
  BY DEF TypeOK
<1>1. ASSUME NEW r \in Requests, LoadRequest(a, r) PROVE TypeOK'
  <2>1. requests[r].attempts \in Attempts
    BY <1>0 DEF RequestRows
  <2>2. requests[r].attempts + 1 \in Attempts /\ r \in Nat
    <3>1. requests[r].attempts < MaxAttempts
      BY <1>1 DEF LoadRequest
    <3>2. r \in Nat
      BY OrderAssumption DEF Requests
    <3> QED
      BY <2>1, <3>1, <3>2, OrderAssumption DEF Attempts
  <2>3. admin' \in [Admins -> AdminStates]
    BY <1>0, <1>1, <2>2 DEF LoadRequest, AdminStates, AdminPcs, IdleAdmin
  <2>4. overlaps' \in Nat /\ contested' \subseteq 0 .. MaxRequests
    <3>1. overlaps' = overlaps \/ overlaps' = overlaps + 1
      BY <1>1 DEF LoadRequest
    <3>2. contested' = contested \/ contested' = contested \cup {r}
      BY <1>1 DEF LoadRequest
    <3>3. r \in 0 .. MaxRequests
      BY OrderAssumption DEF Requests
    <3>4. overlaps \in Nat /\ contested \subseteq 0 .. MaxRequests
      BY DEF TypeOK
    <3>5. overlaps' \in Nat
      BY <3>1, <3>4
    <3>6. contested' \subseteq 0 .. MaxRequests
      BY <3>2, <3>3, <3>4
    <3> QED
      BY <3>5, <3>6
  <2> QED
    BY <1>1, <2>3, <2>4 DEF LoadRequest, TypeOK
<1>2. CASE LoadOrder(a)
  <2>1. ASSUME NEW amount \in 1 .. (Gross - order.refunded),
               admin' = [admin EXCEPT ![a].pc = "attempt", ![a].amount = amount,
                                      ![a].refunded = order.refunded]
        PROVE  admin' \in [Admins -> AdminStates]
    <3>1. amount \in Nat /\ order.refunded \in Nat
      BY <1>0, OrderAssumption DEF Orders
    <3> QED
      BY <1>0, <2>1, <3>1 DEF AdminStates, AdminPcs
  <2>2. ASSUME AdminDone(a) PROVE admin' \in [Admins -> AdminStates]
    BY <1>0, <2>2, Idle
  <2>3. ASSUME AdminGoto(a, "deny") PROVE admin' \in [Admins -> AdminStates]
    BY <2>3, AdminGotoTyped DEF AdminPcs
  <2>4. admin' \in [Admins -> AdminStates]
    BY <1>2, <2>1, <2>2, <2>3 DEF LoadOrder
  <2> QED
    BY <1>2, <2>4 DEF LoadOrder, TypeOK
<1>3. CASE WriteAttempt(a)
  <2>1. admin' \in [Admins -> AdminStates]
    BY <1>3, AdminGotoTyped DEF WriteAttempt, AdminPcs
  <2>2. requests' \in [Requests -> RequestRows]
    BY <1>0, <1>3 DEF WriteAttempt, AdminStates, RequestRows
  <2> QED
    BY <1>3, <2>1, <2>2 DEF WriteAttempt, TypeOK
<1>4. CASE CreateRefund(a)
  <2>1. admin' \in [Admins -> AdminStates]
    <3>1. ASSUME AdminDone(a) PROVE admin' \in [Admins -> AdminStates]
      BY <1>0, <3>1, Idle
    <3>2. ASSUME AdminGoto(a, "process") PROVE admin' \in [Admins -> AdminStates]
      BY <3>2, AdminGotoTyped DEF AdminPcs
    <3> QED
      BY <1>4, <3>1, <3>2 DEF CreateRefund
  <2>1a. faults' \in Nat /\ overlaps' \in Nat /\ contested' \subseteq 0 .. MaxRequests
    <3>1. (faults' = faults \/ faults' = faults + 1) /\ UNCHANGED <<overlaps, contested>>
      BY <1>4 DEF CreateRefund
    <3> QED
      BY <3>1 DEF TypeOK
  <2>2. CASE UNCHANGED <<refunds, issued>>
    BY <1>4, <2>1, <2>1a, <2>2 DEF CreateRefund, TypeOK
  <2>3. CASE /\ refunds' = Append(refunds,
                  [req |-> admin[a].req, attempt |-> admin[a].attempt,
                   amount |-> admin[a].amount, total |-> Returned + admin[a].amount])
             /\ issued' = issued \cup {Refunded(Len(refunds) + 1)}
             /\ Len(refunds) < MaxRefunds
    <3>1. [req |-> admin[a].req, attempt |-> admin[a].attempt,
           amount |-> admin[a].amount, total |-> Returned + admin[a].amount] \in StripeRefunds
      BY <1>0, ReturnedNat DEF AdminStates, StripeRefunds
    <3>2. refunds \in Seq(StripeRefunds) /\ Len(refunds) \in Nat
      BY DEF TypeOK
    <3>3. refunds' \in Seq(StripeRefunds) /\ Len(refunds') = Len(refunds) + 1
      BY <2>3, <3>1, <3>2
    <3>4. Refunded(Len(refunds) + 1) \in Events
      BY <2>3, <3>2, EventKinds, OrderAssumption
    <3>5. Len(refunds') <= MaxRefunds
      BY <2>3, <3>2, <3>3, OrderAssumption
    <3> QED
      BY <1>4, <2>1, <2>1a, <2>3, <3>3, <3>4, <3>5 DEF CreateRefund, TypeOK
  <2> QED
    BY <1>4, <2>2, <2>3 DEF CreateRefund
<1>5. CASE MarkProcessed(a)
  <2>1. admin' \in [Admins -> AdminStates]
    BY <1>5, AdminGotoTyped DEF MarkProcessed, AdminPcs
  <2>2. requests' \in [Requests -> RequestRows]
    BY <1>0, <1>5 DEF MarkProcessed, RequestRows
  <2> QED
    BY <1>5, <2>1, <2>2 DEF MarkProcessed, TypeOK
<1>6. CASE UpdateOrder(a)
  <2>1. admin' \in [Admins -> AdminStates]
    BY <1>6, AdminGotoTyped DEF UpdateOrder, AdminPcs
  <2>2. admin[a].refunded + admin[a].amount \in Nat
    BY <1>0 DEF AdminStates
  <2>3. order' \in Orders
    BY <1>0, <1>6, <2>2, StatusOf DEF UpdateOrder, Orders
  <2> QED
    BY <1>6, <2>1, <2>3 DEF UpdateOrder, TypeOK
<1>7. CASE PostReversal(a)
  BY <1>0, <1>7, Idle DEF PostReversal, TypeOK
<1>8. CASE Deny(a)
  BY <1>0, <1>8, Idle DEF Deny, RequestRows, TypeOK
<1>9. CASE AbandonDecision(a)
  BY <1>0, <1>9, Idle, OrderAssumption DEF AbandonDecision, TypeOK
<1> QED
  BY <1>1, <1>2, <1>3, <1>4, <1>5, <1>6, <1>7, <1>8, <1>9 DEF Decide

(* So do the buyer and Stripe. *)
LEMMA TypeRest ==
  ASSUME TypeOK, Capture \/ (\E e \in Events : Decline(e)) \/ (\E r \in Requests : RequestRefund(r))
  PROVE  TypeOK'
<1> USE OrderAssumption DEF TypeOK, hookVars, adminVars, stripeVars, tallies
<1>1. CASE Capture
  BY <1>1, EventKinds DEF Capture
<1>2. ASSUME NEW e \in Events, Decline(e) PROVE TypeOK'
  BY <1>2 DEF Decline
<1>3. ASSUME NEW r \in Requests, RequestRefund(r) PROVE TypeOK'
  BY <1>3 DEF RequestRefund, RequestRows
<1> QED
  BY <1>1, <1>2, <1>3

(* Every step keeps the types. *)
LEMMA TypeNext ==
  ASSUME TypeOK, HookInv, IssuedInv, [Next]_vars
  PROVE  TypeOK'
<1>1. CASE UNCHANGED vars
  BY <1>1 DEF vars, TypeOK
<1>2. CASE Next
  BY <1>2, TypeHook, TypeAdmin, TypeRest DEF Next
<1> QED
  BY <1>1, <1>2

(* Steps of a handler are taken only after Stripe took the money. *)
LEMMA Handling ==
  ASSUME HookInv, IssuedInv, NEW e \in Events, hook[e].pc \in SuccessSteps \cup RefundSteps
  PROVE  captured
<1>1. e \in issued
  BY DEF HookInv, SuccessSteps, RefundSteps
<1>2. CASE hook[e].pc \in SuccessSteps
  BY <1>1, <1>2 DEF HookInv, IssuedInv
<1>3. CASE hook[e].pc \in RefundSteps
  BY <1>1, <1>3 DEF HookInv, IssuedInv
<1> QED
  BY <1>2, <1>3

(* A handler that moves to a step of its own kind disturbs nobody else. *)
LEMMA HookFrame ==
  ASSUME HookInv, IssuedInv, AdminInv, NEW e \in Events,
         e \in issued,
         \A d \in Events : d # e => hook'[d] = hook[d],
         hook'[e].pc \in SuccessSteps => e.kind = "succeeded",
         hook'[e].pc \in RefundSteps => e.kind = "refunded",
         UNCHANGED <<captured, refunds, issued, admin>>
  PROVE  HookInv' /\ IssuedInv' /\ AdminInv'
<1>1. HookInv'
  BY DEF HookInv
<1>2. IssuedInv'
  BY DEF IssuedInv
<1>3. AdminInv'
  BY DEF AdminInv, Backed
<1> QED
  BY <1>1, <1>2, <1>3

(* A step of a webhook handler preserves the invariant. *)
LEMMA HookInd ==
  ASSUME IInv, TypeOK', NEW e \in Events, Deliver(e) \/ Handle(e) \/ BreakOff(e)
  PROVE  IInv'
<1> USE DEF IInv, stripeVars, hookVars, adminVars, At, Goto, Fault, NoFault
<1>0. /\ hook \in [Events -> HookStates] /\ hook[e] \in HookStates
      /\ hook[e].pc # "none" => e \in issued
      /\ e.kind \in {"failed", "succeeded", "refunded"}
  BY EventKinds DEF TypeOK, HookInv
<1>1. CASE Deliver(e)
  <2>1. /\ \A d \in Events : d # e => hook'[d] = hook[d]
        /\ hook'[e].pc = FirstStep(e) \/ hook'[e] = hook[e]
        /\ e \in issued
        /\ UNCHANGED <<captured, refunds, issued, order, ledger, admin>>
    BY <1>0, <1>1 DEF Deliver, HookStates
  <2>2. HookInv' /\ IssuedInv' /\ AdminInv'
    BY <1>0, <2>1, HookFrame DEF FirstStep, SuccessSteps, RefundSteps, HookInv
  <2> QED
    BY <2>1, <2>2 DEF MoneyFirst, ReversalBacked
<1>2. CASE MarkPaid(e)
  <2>1. /\ \A d \in Events : d # e => hook'[d] = hook[d]
        /\ hook'[e].pc = "sale" /\ hook[e].pc = "mark"
        /\ UNCHANGED <<captured, refunds, issued, ledger, admin>>
    BY <1>0, <1>2 DEF MarkPaid, HookStates
  <2>2. HookInv' /\ IssuedInv' /\ AdminInv'
    BY <1>0, <2>1, HookFrame DEF SuccessSteps, RefundSteps, HookInv
  <2>3. captured
    BY <2>1, Handling DEF SuccessSteps
  <2> QED
    BY <2>1, <2>2, <2>3 DEF MoneyFirst, ReversalBacked
<1>3. CASE PostSale(e)
  <2>1. /\ \A d \in Events : d # e => hook'[d] = hook[d]
        /\ hook'[e].pc = "finish" /\ hook[e].pc = "sale"
        /\ UNCHANGED <<captured, refunds, issued, order, admin>>
    BY <1>0, <1>3 DEF PostSale, HookStates
  <2>2. HookInv' /\ IssuedInv' /\ AdminInv'
    BY <1>0, <2>1, HookFrame DEF SuccessSteps, RefundSteps, HookInv
  <2>3. captured
    BY <2>1, Handling DEF SuccessSteps
  <2>4. \A x \in ledger' : x \in ledger \/ x.ref = Sale
    BY <1>3 DEF PostSale, Post, SaleBatch, Entry
  <2>5. ReversalBacked'
    BY <2>1, <2>4 DEF ReversalBacked
  <2> QED
    BY <2>1, <2>2, <2>3, <2>5 DEF MoneyFirst
<1>4. CASE MarkFailed(e)
  <2>1. /\ \A d \in Events : d # e => hook'[d] = hook[d]
        /\ hook'[e].pc = "finish" /\ hook[e].pc = "fail"
        /\ order' = [order EXCEPT !.status = "failed"]
        /\ UNCHANGED <<captured, refunds, issued, ledger, admin>>
    BY <1>0, <1>4 DEF MarkFailed, HookStates
  <2>2. HookInv' /\ IssuedInv' /\ AdminInv'
    BY <1>0, <2>1, HookFrame DEF SuccessSteps, RefundSteps
  <2>3. order'.status = "failed" /\ order'.charge = order.charge
    BY <2>1 DEF TypeOK, Orders
  <2> QED
    BY <2>1, <2>2, <2>3 DEF MoneyFirst, ReversalBacked
<1>5. CASE LookUpOrder(e)
  <2>1. /\ \A d \in Events : d # e => hook'[d] = hook[d]
        /\ hook'[e].pc = "reconcile" /\ hook[e].pc = "look"
        /\ UNCHANGED <<captured, refunds, issued, order, ledger, admin>>
    BY <1>0, <1>5 DEF LookUpOrder, HookStates
  <2>2. HookInv' /\ IssuedInv' /\ AdminInv'
    BY <1>0, <2>1, HookFrame DEF SuccessSteps, RefundSteps, HookInv
  <2> QED
    BY <2>1, <2>2 DEF MoneyFirst, ReversalBacked
<1>6. CASE ReconcileRefund(e) \/ MarkRefunded(e)
  <2>1. /\ \A d \in Events : d # e => hook'[d] = hook[d]
        /\ hook'[e].pc \in {"status", "finish"} /\ hook[e].pc \in {"reconcile", "status"}
        /\ UNCHANGED <<captured, refunds, issued, ledger, admin>>
    BY <1>0, <1>6 DEF ReconcileRefund, MarkRefunded, HookStates, IdleHook
  <2>2. HookInv' /\ IssuedInv' /\ AdminInv'
    BY <1>0, <2>1, HookFrame DEF SuccessSteps, RefundSteps, HookInv
  <2>3. captured
    BY <2>1, Handling DEF RefundSteps
  <2> QED
    BY <2>1, <2>2, <2>3 DEF MoneyFirst, ReversalBacked
<1>7. CASE Finish(e) \/ BreakOff(e)
  <2>1. /\ \A d \in Events : d # e => hook'[d] = hook[d]
        /\ hook'[e].pc = "none" /\ hook[e].pc # "none"
        /\ UNCHANGED <<captured, refunds, issued, order, ledger, admin>>
    BY <1>0, <1>7 DEF Finish, BreakOff, HookStates, IdleHook
  <2>2. HookInv' /\ IssuedInv' /\ AdminInv'
    BY <1>0, <2>1, HookFrame DEF SuccessSteps, RefundSteps
  <2> QED
    BY <2>1, <2>2 DEF MoneyFirst, ReversalBacked
<1> QED
  BY <1>1, <1>2, <1>3, <1>4, <1>5, <1>6, <1>7 DEF Handle

(* An admin's step that leaves Stripe and the ledger alone disturbs only   *)
(* what that admin has established.                                        *)
LEMMA AdminFrame ==
  ASSUME HookInv, IssuedInv, AdminInv, ReversalBacked, NEW a \in Admins,
         \A b \in Admins : b # a => admin'[b] = admin[b],
         \/ admin'[a].pc \in {"idle", "load", "deny"}
         \/ admin'[a].pc \in {"attempt", "stripe"} /\ captured
         \/ /\ admin[a].pc \in {"process", "order", "reverse"}
            /\ admin'[a].req = admin[a].req /\ admin'[a].amount = admin[a].amount,
         UNCHANGED <<captured, refunds, issued, hook, ledger>>
  PROVE  HookInv' /\ IssuedInv' /\ AdminInv' /\ ReversalBacked'
<1>1. HookInv'
  BY DEF HookInv
<1>2. IssuedInv'
  BY DEF IssuedInv
<1>3. AdminInv'
  BY DEF AdminInv, Backed
<1>4. ReversalBacked'
  BY DEF ReversalBacked
<1> QED
  BY <1>1, <1>2, <1>3, <1>4

(* A step of decideRefund preserves the invariant. *)
LEMMA AdminInd ==
  ASSUME IInv, TypeOK', NEW a \in Admins,
         (\E r \in Requests : LoadRequest(a, r)) \/ Decide(a) \/ AbandonDecision(a)
  PROVE  IInv'
<1> USE DEF IInv, stripeVars, hookVars, adminVars, AdminAt, AdminGoto, AdminDone, Fault, NoFault
<1>0. admin \in [Admins -> AdminStates] /\ admin[a] \in AdminStates
  BY DEF TypeOK
<1>1. ASSUME NEW r \in Requests, LoadRequest(a, r) PROVE IInv'
  <2>1. /\ \A b \in Admins : b # a => admin'[b] = admin[b]
        /\ admin'[a].pc = "load"
        /\ UNCHANGED <<captured, refunds, issued, hook, ledger, order>>
    BY <1>0, <1>1 DEF LoadRequest, AdminStates, IdleAdmin
  <2>2. HookInv' /\ IssuedInv' /\ AdminInv' /\ ReversalBacked'
    BY <2>1, AdminFrame
  <2> QED
    BY <2>1, <2>2 DEF MoneyFirst
<1>2. CASE LoadOrder(a)
  <2>1. /\ \A b \in Admins : b # a => admin'[b] = admin[b]
        /\ admin'[a].pc \in {"idle", "deny"} \/ (admin'[a].pc = "attempt" /\ order.charge)
        /\ UNCHANGED <<captured, refunds, issued, hook, ledger, order>>
    <3>1. ASSUME NEW amount,
                 admin' = [admin EXCEPT ![a].pc = "attempt", ![a].amount = amount,
                                        ![a].refunded = order.refunded]
          PROVE  /\ \A b \in Admins : b # a => admin'[b] = admin[b]
                 /\ admin'[a].pc = "attempt"
      BY <1>0, <3>1 DEF AdminStates
    <3>2. ASSUME admin' = [admin EXCEPT ![a] = IdleAdmin] \/ admin' = [admin EXCEPT ![a].pc = "deny"]
          PROVE  /\ \A b \in Admins : b # a => admin'[b] = admin[b]
                 /\ admin'[a].pc \in {"idle", "deny"}
      BY <1>0, <3>2 DEF AdminStates, IdleAdmin
    <3>3. \/ admin' = [admin EXCEPT ![a] = IdleAdmin] \/ admin' = [admin EXCEPT ![a].pc = "deny"]
          \/ /\ order.charge
             /\ \E amount : admin' = [admin EXCEPT ![a].pc = "attempt", ![a].amount = amount,
                                                   ![a].refunded = order.refunded]
      BY <1>2 DEF LoadOrder
    <3>4. UNCHANGED <<captured, refunds, issued, hook, ledger, order>>
      BY <1>2 DEF LoadOrder
    <3> QED
      <4>1. CASE \/ admin' = [admin EXCEPT ![a] = IdleAdmin]
                 \/ admin' = [admin EXCEPT ![a].pc = "deny"]
        BY <3>2, <3>4, <4>1
      <4>2. CASE /\ order.charge
                 /\ \E amount : admin' = [admin EXCEPT ![a].pc = "attempt", ![a].amount = amount,
                                                       ![a].refunded = order.refunded]
        BY <3>1, <3>4, <4>2
      <4> QED
        BY <3>3, <4>1, <4>2
  <2>2. order.charge => captured
    BY DEF MoneyFirst
  <2>3. HookInv' /\ IssuedInv' /\ AdminInv' /\ ReversalBacked'
    BY <2>1, <2>2, AdminFrame
  <2> QED
    BY <2>1, <2>3 DEF MoneyFirst
<1>3. CASE WriteAttempt(a)
  <2>1. /\ \A b \in Admins : b # a => admin'[b] = admin[b]
        /\ admin'[a].pc = "stripe" /\ admin[a].pc = "attempt"
        /\ UNCHANGED <<captured, refunds, issued, hook, ledger, order>>
    BY <1>0, <1>3 DEF WriteAttempt, AdminStates
  <2>2. captured
    BY <2>1 DEF AdminInv
  <2>3. HookInv' /\ IssuedInv' /\ AdminInv' /\ ReversalBacked'
    BY <2>1, <2>2, AdminFrame
  <2> QED
    BY <2>1, <2>3 DEF MoneyFirst
<1>4. CASE CreateRefund(a)
  <2>1. /\ admin[a].pc = "stripe" /\ captured
        /\ \A b \in Admins : b # a => admin'[b] = admin[b]
        /\ \/ admin'[a].pc = "idle"
           \/ /\ admin'[a].pc = "process"
              /\ admin'[a].req = admin[a].req /\ admin'[a].amount = admin[a].amount
        /\ UNCHANGED <<captured, hook, ledger, order>>
    BY <1>0, <1>4 DEF CreateRefund, AdminStates, IdleAdmin, AdminInv
  <2>2. HookInv'
    BY <1>4, <2>1 DEF CreateRefund, HookInv
  <2>3. CASE UNCHANGED <<refunds, issued>>
    <3>1. admin'[a].pc = "process" => Backed(admin[a].req, admin[a].amount)
      <4>1. ASSUME admin'[a].pc = "process"
            PROVE  \E n \in KeyUsed(a) : refunds[n].amount = admin[a].amount
        <5>1. refunds' # Append(refunds,
                [req |-> admin[a].req, attempt |-> admin[a].attempt,
                 amount |-> admin[a].amount, total |-> Returned + admin[a].amount])
          BY <2>3 DEF TypeOK
        <5>2. admin' # [admin EXCEPT ![a] = IdleAdmin]
          BY <1>0, <4>1 DEF IdleAdmin
        <5> QED
          BY <1>4, <5>1, <5>2 DEF CreateRefund
      <4> QED
        BY <4>1 DEF KeyUsed, Backed
    <3>2. AdminInv' /\ IssuedInv' /\ ReversalBacked'
      BY <2>1, <2>3, <3>1 DEF AdminInv, IssuedInv, ReversalBacked, Backed
    <3> QED
      BY <2>1, <2>2, <3>2 DEF MoneyFirst
  <2>4. CASE ~UNCHANGED <<refunds, issued>>
    <3> DEFINE refund == [req |-> admin[a].req, attempt |-> admin[a].attempt,
                          amount |-> admin[a].amount, total |-> Returned + admin[a].amount]
    <3>1. /\ refunds' = Append(refunds, refund)
          /\ issued' = issued \cup {Refunded(Len(refunds) + 1)}
          /\ Len(refunds) < MaxRefunds
      BY <1>4, <2>4 DEF CreateRefund
    <3>2. refunds \in Seq(StripeRefunds) /\ Len(refunds) \in Nat
      BY DEF TypeOK
    <3> HIDE DEF refund
    <3>3. /\ DOMAIN refunds' = 1 .. Len(refunds) + 1
          /\ \A n \in DOMAIN refunds : n \in DOMAIN refunds' /\ refunds'[n] = refunds[n]
          /\ refunds'[Len(refunds) + 1] = refund
      BY <3>1, <3>2
    <3>4. \E n \in DOMAIN refunds' : /\ refunds'[n].req = admin[a].req
                                     /\ refunds'[n].amount = admin[a].amount
      <4>1. /\ refunds'[Len(refunds) + 1].req = admin[a].req
            /\ refunds'[Len(refunds) + 1].amount = admin[a].amount
        BY <3>3 DEF refund
      <4> QED
        BY <3>2, <3>3, <4>1
    <3>5. AdminInv'
      BY <2>1, <3>3, <3>4 DEF AdminInv, Backed
    <3>6. IssuedInv'
      <4>1. Len(refunds) + 1 \in 1 .. MaxRefunds /\ Len(refunds) + 1 \in DOMAIN refunds'
        BY <3>1, <3>2, <3>3, OrderAssumption
      <4>2. /\ Refunded(Len(refunds) + 1).kind = "refunded"
            /\ Refunded(Len(refunds) + 1).n = Len(refunds) + 1
        BY <4>1, EventKinds
      <4> QED
        BY <2>1, <3>1, <3>3, <4>1, <4>2 DEF IssuedInv
    <3>7. ReversalBacked'
      BY <2>1, <3>3 DEF ReversalBacked
    <3> QED
      BY <2>1, <2>2, <3>5, <3>6, <3>7 DEF MoneyFirst
  <2> QED
    BY <2>3, <2>4
<1>5. CASE MarkProcessed(a)
  <2>1. /\ \A b \in Admins : b # a => admin'[b] = admin[b]
        /\ admin[a].pc = "process" /\ admin'[a].pc = "order"
        /\ admin'[a].req = admin[a].req /\ admin'[a].amount = admin[a].amount
        /\ UNCHANGED <<captured, refunds, issued, hook, ledger, order>>
    BY <1>0, <1>5 DEF MarkProcessed, AdminStates
  <2>2. HookInv' /\ IssuedInv' /\ AdminInv' /\ ReversalBacked'
    BY <2>1, AdminFrame
  <2> QED
    BY <2>1, <2>2 DEF MoneyFirst
<1>6. CASE UpdateOrder(a)
  <2>1. /\ \A b \in Admins : b # a => admin'[b] = admin[b]
        /\ admin[a].pc = "order" /\ admin'[a].pc = "reverse"
        /\ admin'[a].req = admin[a].req /\ admin'[a].amount = admin[a].amount
        /\ UNCHANGED <<captured, refunds, issued, hook, ledger>>
    BY <1>0, <1>6 DEF UpdateOrder, AdminStates
  <2>2. captured
    BY <2>1 DEF AdminInv
  <2>3. HookInv' /\ IssuedInv' /\ AdminInv' /\ ReversalBacked'
    BY <2>1, AdminFrame
  <2> QED
    BY <2>1, <2>2, <2>3 DEF MoneyFirst
<1>7. CASE PostReversal(a)
  <2>1. /\ \A b \in Admins : b # a => admin'[b] = admin[b]
        /\ admin[a].pc = "reverse" /\ admin'[a].pc = "idle"
        /\ UNCHANGED <<captured, refunds, issued, hook, order>>
    BY <1>0, <1>7 DEF PostReversal, IdleAdmin
  <2>2. captured /\ Backed(admin[a].req, admin[a].amount)
    BY <2>1 DEF AdminInv
  <2>3. HookInv' /\ IssuedInv' /\ AdminInv'
    BY <2>1 DEF HookInv, IssuedInv, AdminInv, Backed
  <2>4. \A x \in ledger' :
          \/ x \in ledger \/ x.account # Cash
          \/ x.ref = admin[a].req /\ x.amount = admin[a].amount
    <3>1. ASSUME NEW shares, NEW x \in ReversalBatch(admin[a].req, admin[a].amount, SaleRows, shares)
          PROVE  x.account # Cash \/ (x.ref = admin[a].req /\ x.amount = admin[a].amount)
      <4>1. CASE x = Entry(admin[a].req, Cash, "credit", admin[a].amount)
        BY <4>1 DEF Entry
      <4>2. CASE \E i \in DOMAIN SaleRows :
                   x = Entry(admin[a].req, SaleRows[i].account, "debit", shares[i])
        <5>1. PICK i \in DOMAIN SaleRows :
                 x = Entry(admin[a].req, SaleRows[i].account, "debit", shares[i])
          BY <4>2
        <5>2. x.account = SaleRows[i].account
          BY <5>1 DEF Entry
        <5> QED
          BY <5>2, CreditsNotCash
      <4> QED
        BY <3>1, <4>1, <4>2 DEF ReversalBatch
    <3> QED
      BY <1>7, <3>1 DEF PostReversal, Post
  <2>5. ReversalBacked'
    BY <2>1, <2>2, <2>4 DEF ReversalBacked, Backed
  <2> QED
    BY <2>1, <2>2, <2>3, <2>5 DEF MoneyFirst
<1>8. CASE Deny(a) \/ AbandonDecision(a)
  <2>1. /\ \A b \in Admins : b # a => admin'[b] = admin[b]
        /\ admin'[a].pc = "idle"
        /\ UNCHANGED <<captured, refunds, issued, hook, ledger, order>>
    BY <1>0, <1>8 DEF Deny, AbandonDecision, IdleAdmin
  <2>2. HookInv' /\ IssuedInv' /\ AdminInv' /\ ReversalBacked'
    BY <2>1, AdminFrame
  <2> QED
    BY <2>1, <2>2 DEF MoneyFirst
<1> QED
  BY <1>1, <1>2, <1>3, <1>4, <1>5, <1>6, <1>7, <1>8 DEF Decide

(* So do a decline, a capture and a buyer's request. *)
LEMMA RestInd ==
  ASSUME IInv, TypeOK',
         Capture \/ (\E e \in Events : Decline(e)) \/ (\E r \in Requests : RequestRefund(r))
  PROVE  IInv'
<1> USE DEF IInv, hookVars, adminVars, stripeVars
<1>1. CASE Capture
  <2>1. /\ captured' /\ UNCHANGED <<refunds, hook, ledger, admin, order>>
        /\ issued \subseteq issued'
        /\ \A e \in issued' : e \in issued \/ e.kind = "succeeded"
    BY <1>1 DEF Capture, Succeeded
  <2> QED
    BY <2>1 DEF HookInv, IssuedInv, AdminInv, MoneyFirst, ReversalBacked, Backed
<1>2. ASSUME NEW e \in Events, Decline(e) PROVE IInv'
  <2>1. /\ UNCHANGED <<captured, refunds, hook, ledger, admin, order>>
        /\ issued' = issued \cup {e} /\ e.kind = "failed"
    BY <1>2, EventKinds DEF Decline
  <2> QED
    BY <2>1 DEF HookInv, IssuedInv, AdminInv, MoneyFirst, ReversalBacked, Backed
<1>3. ASSUME NEW r \in Requests, RequestRefund(r) PROVE IInv'
  BY <1>3 DEF RequestRefund, HookInv, IssuedInv, AdminInv, MoneyFirst, ReversalBacked, Backed
<1> QED
  BY <1>1, <1>2, <1>3

(* The invariant holds before anything happened. *)
LEMMA InitInv == Init => IInv
BY TypeInit
   DEF Init, IInv, IdleHook, IdleAdmin, HookInv, IssuedInv, AdminInv, MoneyFirst, ReversalBacked,
       Backed, SuccessSteps, RefundSteps

(* Every step preserves it. *)
LEMMA NextInv == IInv /\ [Next]_vars => IInv'
<1> SUFFICES ASSUME IInv, [Next]_vars PROVE IInv'
  OBVIOUS
<1>1. TypeOK'
  BY TypeNext DEF IInv
<1>2. CASE UNCHANGED vars
  BY <1>1, <1>2
     DEF vars, IInv, HookInv, IssuedInv, AdminInv, MoneyFirst, ReversalBacked, Backed
<1>3. CASE Next
  BY <1>1, <1>3, HookInd, AdminInd, RestInd DEF Next
<1> QED
  BY <1>2, <1>3

(* The inductive invariant holds throughout. *)
THEOREM Inductive == Spec => []IInv
BY InitInv, NextInv, PTL DEF Spec

(* Every variable has its type. *)
THEOREM TypeCorrect == Spec => []TypeOK
BY Inductive, PTL DEF IInv

(* Nothing is paid, posted or refunded before Stripe took the money.       *)
THEOREM MoneyFirstAlways == Spec => []MoneyFirst
BY Inductive, PTL DEF IInv

(* A clawback is in the ledger only after Stripe refunded that amount for  *)
(* that request, whatever the number of admins.                            *)
THEOREM ReversalBackedAlways == Spec => []ReversalBacked
BY Inductive, PTL DEF IInv

-----------------------------------------------------------------------------
(***************************************************************************)
(* Decisions: the order never runs ahead of Stripe, and every Stripe call  *)
(* carries a key of its own.  Admins who decide different requests do not  *)
(* disturb one another; of a request two of them decided at once nothing   *)
(* is said, and of the order's amount nothing once there is such a one.    *)
(***************************************************************************)
Busy(a) == admin[a].pc # "idle"

Separate ==
  /\ \A a \in Admins : Busy(a) => admin[a].req \in Requests
  /\ \A a, b \in Admins :
       a # b /\ Busy(a) /\ Busy(b) /\ admin[a].req = admin[b].req => admin[a].req \in contested

RefundsInv ==
  \A n \in DOMAIN refunds :
    /\ refunds[n].total <= Returned
    /\ refunds[n].req \in Requests
    /\ refunds[n].req \notin contested => refunds[n].attempt <= requests[refunds[n].req].attempts

KeyInv(a) ==
  admin[a].req \notin contested =>
    /\ admin[a].pc \in {"load", "attempt"} =>
         admin[a].attempt = requests[admin[a].req].attempts + 1
    /\ admin[a].pc = "stripe" =>
         /\ admin[a].attempt <= requests[admin[a].req].attempts
         /\ KeyUsed(a) = {}

Bounded(a) ==
  /\ admin[a].pc \in {"attempt", "stripe"} => admin[a].refunded <= Returned
  /\ admin[a].pc \in {"process", "order"} => admin[a].refunded + admin[a].amount <= Returned

DecisionsInv ==
  /\ Separate /\ RefundsInv /\ \A a \in Admins : KeyInv(a)
  /\ contested \subseteq {Sale} => order.refunded <= Returned /\ \A a \in Admins : Bounded(a)

(* A step away from Stripe and from the admins. *)
LEMMA DecisionsFrame ==
  ASSUME DecisionsInv, UNCHANGED <<refunds, admin>>, contested \subseteq contested',
         contested \subseteq {Sale} => order'.refunded <= Returned,
         \A r \in Requests : requests'[r].attempts = requests[r].attempts
  PROVE  DecisionsInv'
<1>1. Returned' = Returned /\ \A a \in Admins : KeyUsed(a)' = KeyUsed(a)
  BY DEF Returned, KeyUsed
<1>2. RefundsInv'
  BY <1>1 DEF DecisionsInv, RefundsInv
<1>3. Separate'
  BY DEF DecisionsInv, Separate, Busy
<1>4. ASSUME NEW a \in Admins PROVE KeyInv(a)'
  <2>1. KeyInv(a) /\ (Busy(a) => admin[a].req \in Requests)
    BY DEF DecisionsInv, Separate
  <2> QED
    BY <1>1, <2>1 DEF KeyInv, Busy
<1>5. contested' \subseteq {Sale} => order'.refunded <= Returned' /\ \A a \in Admins : Bounded(a)'
  BY <1>1 DEF DecisionsInv, Bounded
<1> QED
  BY <1>2, <1>3, <1>4, <1>5 DEF DecisionsInv

(* The webhook handlers, the buyer and the card. *)
LEMMA DecisionsHook ==
  ASSUME IInv, DecisionsInv,
         \/ \E e \in Events : Deliver(e) \/ Handle(e) \/ BreakOff(e) \/ Decline(e)
         \/ Capture \/ (\E r \in Requests : RequestRefund(r))
  PROVE  DecisionsInv'
<1> USE DEF stripeVars, hookVars, adminVars, tallies, At, Fault, NoFault
<1>0. (contested \subseteq {Sale} => order.refunded <= Returned) /\ order \in Orders
  BY DEF DecisionsInv, IInv, TypeOK
<1>1. ASSUME NEW e \in Events, ReconcileRefund(e) PROVE DecisionsInv'
  <2>1. e \in issued /\ e.kind = "refunded"
    BY <1>1 DEF ReconcileRefund, IInv, HookInv, RefundSteps
  <2>2. refunds[e.n].total <= Returned
    BY <2>1 DEF IInv, IssuedInv, DecisionsInv, RefundsInv
  <2>3. order'.refunded = refunds[e.n].total
    BY <1>0, <1>1 DEF ReconcileRefund, Orders
  <2> QED
    BY <1>1, <2>2, <2>3, DecisionsFrame DEF ReconcileRefund
<1>2. ASSUME NEW r \in Requests, RequestRefund(r) PROVE DecisionsInv'
  <2>1. \A q \in Requests : requests'[q].attempts = requests[q].attempts
    BY <1>2 DEF RequestRefund, IInv, TypeOK, RequestRows
  <2> QED
    BY <1>0, <1>2, <2>1, DecisionsFrame DEF RequestRefund
<1>3. ASSUME NEW e \in Events,
             \/ Deliver(e) \/ MarkPaid(e) \/ PostSale(e)
             \/ MarkFailed(e) \/ LookUpOrder(e) \/ MarkRefunded(e) \/ Finish(e) \/ BreakOff(e)
             \/ Decline(e) \/ Capture
      PROVE  DecisionsInv'
  <2>1. /\ order'.refunded = order.refunded /\ UNCHANGED <<refunds, admin, requests>>
        /\ contested \subseteq contested'
    <3>1. CASE Deliver(e) \/ PostSale(e) \/ LookUpOrder(e)
      BY <3>1 DEF Deliver, PostSale, LookUpOrder
    <3>2. CASE Finish(e) \/ BreakOff(e) \/ Decline(e) \/ Capture
      BY <3>2 DEF Finish, BreakOff, Decline, Capture
    <3>3. CASE MarkPaid(e) \/ MarkFailed(e) \/ MarkRefunded(e)
      BY <1>0, <3>3 DEF MarkPaid, MarkFailed, MarkRefunded, Orders
    <3> QED
      BY <1>3, <3>1, <3>2, <3>3
  <2> QED
    BY <1>0, <2>1, DecisionsFrame
<1>4. Events # {}
  BY EventKinds, OrderAssumption
<1> QED
  BY <1>1, <1>2, <1>3, <1>4 DEF Handle

(* What an admin who goes on with a decision, or ends it, leaves to the    *)
(* others: they decide other requests, or the request is contested.        *)
LEMMA Others ==
  ASSUME IInv, DecisionsInv, NEW a \in Admins, Busy(a),
         \A b \in Admins \ {a} : admin'[b] = admin[b],
         admin'[a].pc = "idle" \/ admin'[a].req = admin[a].req,
         UNCHANGED contested,
         \A q \in Requests : q # admin[a].req => requests'[q] = requests[q],
         \A n \in DOMAIN refunds' : \/ n \in DOMAIN refunds /\ refunds'[n] = refunds[n]
                                    \/ refunds'[n].req = admin[a].req,
         Returned \in Nat, Returned' \in Nat, Returned' >= Returned
  PROVE  /\ Separate' /\ \A b \in Admins \ {a} : KeyInv(b)'
         /\ contested \subseteq {Sale} => \A b \in Admins \ {a} : Bounded(b)'
<1>1. Separate /\ \A b \in Admins : KeyInv(b)
  BY DEF DecisionsInv
<1>2. Separate'
  BY <1>1 DEF Separate, Busy
<1>3. ASSUME NEW b \in Admins \ {a} PROVE KeyInv(b)'
  <2>1. CASE ~Busy(b)
    BY <2>1 DEF KeyInv, Busy
  <2>2. CASE admin[b].req \in contested
    BY <2>2 DEF KeyInv
  <2>3. CASE Busy(b) /\ admin[b].req \notin contested
    <3>1. admin[b].req \in Requests /\ admin[b].req # admin[a].req
      BY <1>1, <2>3 DEF Separate
    <3>2. requests'[admin[b].req] = requests[admin[b].req]
      BY <3>1
    <3>3. KeyUsed(b) = {} => KeyUsed(b)' = {}
      BY <3>1 DEF KeyUsed
    <3> QED
      BY <1>1, <3>2, <3>3 DEF KeyInv
  <2> QED
    BY <2>1, <2>2, <2>3
<1>4. ASSUME contested \subseteq {Sale}, NEW b \in Admins \ {a} PROVE Bounded(b)'
  <2>1. Bounded(b) /\ admin'[b] = admin[b]
    BY <1>4 DEF DecisionsInv
  <2>2. admin[b].refunded \in Nat /\ admin[b].amount \in Nat
    BY DEF IInv, TypeOK, AdminStates
  <2> QED
    BY <2>1, <2>2 DEF Bounded
<1> QED
  BY <1>2, <1>3, <1>4

(* A decision begins. *)
LEMMA DecisionsBegin ==
  ASSUME IInv, DecisionsInv, NEW a \in Admins, NEW r \in Requests, LoadRequest(a, r)
  PROVE  DecisionsInv'
<1> USE DEF stripeVars, hookVars, adminVars, AdminAt
<1>1. /\ \A b \in Admins \ {a} : admin'[b] = admin[b]
      /\ ~Busy(a) /\ admin'[a].pc = "load" /\ admin'[a].req = r
      /\ admin'[a].attempt = requests[r].attempts + 1
      /\ UNCHANGED <<refunds, order, requests>>
  BY DEF LoadRequest, IInv, TypeOK, AdminStates, IdleAdmin, Busy
<1>2. /\ contested \subseteq contested'
      /\ \A b \in Admins : Busy(b) /\ admin[b].req = r => r \in contested'
  BY DEF LoadRequest, Decides, Busy
<1>3. Returned' = Returned
  BY <1>1 DEF Returned
<1>4. Separate'
  <2>1. \A b \in Admins \ {a} : Busy(b)' => Busy(b) /\ admin'[b].req = admin[b].req
    BY <1>1 DEF Busy
  <2>2. \A b, c \in Admins \ {a} :
          b # c /\ Busy(b)' /\ Busy(c)' /\ admin'[b].req = admin'[c].req => admin'[b].req \in contested'
    BY <1>2, <2>1 DEF DecisionsInv, Separate
  <2>3. \A b \in Admins \ {a} : Busy(b)' /\ admin'[b].req = r => r \in contested'
    BY <1>2, <2>1
  <2>4. \A b \in Admins : Busy(b)' => admin'[b].req \in Requests
    BY <1>1, <2>1 DEF DecisionsInv, Separate
  <2> QED
    BY <1>1, <2>2, <2>3, <2>4 DEF Separate
<1>5. RefundsInv'
  BY <1>1, <1>2, <1>3 DEF DecisionsInv, RefundsInv
<1>6. ASSUME NEW b \in Admins PROVE KeyInv(b)'
  <2>1. CASE b = a
    BY <1>1, <2>1 DEF KeyInv
  <2>2. CASE b # a
    BY <1>1, <1>2, <2>2 DEF DecisionsInv, KeyInv, KeyUsed
  <2> QED
    BY <2>1, <2>2
<1>7. ASSUME contested' \subseteq {Sale}
      PROVE  order'.refunded <= Returned' /\ \A b \in Admins : Bounded(b)'
  BY <1>1, <1>2, <1>3, <1>7 DEF DecisionsInv, Bounded
<1> QED
  BY <1>4, <1>5, <1>6, <1>7 DEF DecisionsInv

(* It goes on or ends. *)
LEMMA DecisionsDecide ==
  ASSUME IInv, DecisionsInv, NEW a \in Admins, Decide(a) \/ AbandonDecision(a)
  PROVE  DecisionsInv'
<1> USE DEF stripeVars, hookVars, adminVars, tallies, AdminAt, AdminGoto, AdminDone, Fault, NoFault
<1>0. /\ admin \in [Admins -> AdminStates] /\ admin[a] \in AdminStates /\ order \in Orders
      /\ requests \in [Requests -> RequestRows] /\ refunds \in Seq(StripeRefunds)
      /\ Returned \in Nat
  BY ReturnedNat DEF IInv, TypeOK
<1>0a. ASSUME NEW n \in DOMAIN refunds
       PROVE  refunds[n].total \in Nat /\ refunds[n].attempt \in Int
  <2>1. refunds[n] \in StripeRefunds
    BY <1>0
  <2> QED
    BY <2>1, OrderAssumption DEF StripeRefunds, Attempts
<1>0b. ASSUME NEW r \in Requests PROVE requests[r].attempts \in Nat /\ requests[r].attempts \in Int
  BY <1>0, OrderAssumption DEF RequestRows, Attempts
<1>1. /\ RefundsInv /\ KeyInv(a)
      /\ contested \subseteq {Sale} => order.refunded <= Returned /\ Bounded(a)
  BY DEF DecisionsInv
<1>2. Busy(a) /\ UNCHANGED contested /\ \A b \in Admins \ {a} : admin'[b] = admin[b]
  BY <1>0 DEF Decide, LoadOrder, WriteAttempt, CreateRefund, MarkProcessed, UpdateOrder,
     PostReversal, Deny, AbandonDecision, Busy
<1>3. admin[a].req \in Requests /\ (contested \subseteq {Sale} => admin[a].req \notin contested)
  BY <1>2 DEF DecisionsInv, Separate, Requests, Sale
<1>4. UNCHANGED refunds => Returned' = Returned
  BY DEF Returned
<1>5. SUFFICES
        /\ admin'[a].pc = "idle" \/ admin'[a].req = admin[a].req
        /\ \A q \in Requests : q # admin[a].req => requests'[q] = requests[q]
        /\ \A n \in DOMAIN refunds' : \/ n \in DOMAIN refunds /\ refunds'[n] = refunds[n]
                                      \/ refunds'[n].req = admin[a].req
        /\ Returned' \in Nat /\ Returned' >= Returned
        /\ RefundsInv' /\ KeyInv(a)'
        /\ contested \subseteq {Sale} => order'.refunded <= Returned' /\ Bounded(a)'
  <2>1. /\ Separate' /\ \A b \in Admins \ {a} : KeyInv(b)'
        /\ contested \subseteq {Sale} => \A b \in Admins \ {a} : Bounded(b)'
    BY <1>0, <1>2, <1>5, Others
  <2> QED
    BY <1>2, <1>5, <2>1 DEF DecisionsInv
<1>6. CASE LoadOrder(a)
  <2>1. UNCHANGED <<refunds, order, requests>> /\ admin[a].pc = "load"
    BY <1>6 DEF LoadOrder
  <2>2. \/ admin'[a].pc = "idle"
        \/ admin'[a].pc = "deny" /\ admin'[a].req = admin[a].req
        \/ /\ admin'[a].pc = "attempt" /\ admin'[a].req = admin[a].req
           /\ admin'[a].attempt = admin[a].attempt
           /\ admin'[a].refunded = order.refunded
    <3>1. ASSUME NEW amount, admin' = [admin EXCEPT ![a].pc = "attempt", ![a].amount = amount,
                                                    ![a].refunded = order.refunded]
          PROVE  /\ admin'[a].pc = "attempt" /\ admin'[a].req = admin[a].req
                 /\ admin'[a].attempt = admin[a].attempt
                 /\ admin'[a].refunded = order.refunded
      BY <1>0, <3>1 DEF AdminStates
    <3>2. ASSUME admin' = [admin EXCEPT ![a] = IdleAdmin] PROVE admin'[a].pc = "idle"
      BY <1>0, <3>2 DEF IdleAdmin
    <3>3. ASSUME admin' = [admin EXCEPT ![a].pc = "deny"]
          PROVE  admin'[a].pc = "deny" /\ admin'[a].req = admin[a].req
      BY <1>0, <3>3 DEF AdminStates
    <3>4. \/ admin' = [admin EXCEPT ![a] = IdleAdmin]
          \/ admin' = [admin EXCEPT ![a].pc = "deny"]
          \/ \E amount : admin' = [admin EXCEPT ![a].pc = "attempt", ![a].amount = amount,
                                                ![a].refunded = order.refunded]
      BY <1>6 DEF LoadOrder
    <3> QED
      BY <3>1, <3>2, <3>3, <3>4
  <2>3. RefundsInv'
    BY <1>2, <1>4, <2>1, <1>1 DEF RefundsInv
  <2>4. KeyInv(a)'
    BY <1>1, <1>2, <2>1, <2>2 DEF KeyInv
  <2>5. contested \subseteq {Sale} => order'.refunded <= Returned' /\ Bounded(a)'
    BY <1>1, <1>4, <2>1, <2>2 DEF Bounded
  <2> QED
    BY <1>0, <1>4, <2>1, <2>2, <2>3, <2>4, <2>5
<1>7. CASE WriteAttempt(a)
  <2>1. /\ admin[a].pc = "attempt" /\ admin'[a].pc = "stripe"
        /\ admin'[a].req = admin[a].req /\ admin'[a].attempt = admin[a].attempt
        /\ admin'[a].refunded = admin[a].refunded
        /\ UNCHANGED <<refunds, order>>
    BY <1>0, <1>7 DEF WriteAttempt, AdminStates
  <2>2. /\ requests'[admin[a].req].attempts = admin[a].attempt
        /\ \A r \in Requests : r # admin[a].req => requests'[r] = requests[r]
    BY <1>0, <1>3, <1>7 DEF WriteAttempt, RequestRows
  <2>3. admin[a].req \notin contested =>
          admin[a].attempt = requests[admin[a].req].attempts + 1
    BY <1>1, <2>1 DEF KeyInv
  <2>4. ASSUME NEW n \in DOMAIN refunds, refunds[n].req \notin contested
        PROVE  refunds[n].attempt <= requests'[refunds[n].req].attempts
    <3>1. /\ refunds[n].req \in Requests
          /\ refunds[n].attempt <= requests[refunds[n].req].attempts
      BY <1>1, <2>4 DEF RefundsInv
    <3>2. CASE refunds[n].req # admin[a].req
      BY <2>2, <3>1, <3>2
    <3>3. CASE refunds[n].req = admin[a].req
      BY <1>0a, <1>0b, <2>2, <2>3, <2>4, <3>1, <3>3
    <3> QED
      BY <3>2, <3>3
  <2>5. RefundsInv'
    BY <1>1, <1>2, <1>4, <2>1, <2>4 DEF RefundsInv
  <2>6. ASSUME admin[a].req \notin contested PROVE KeyUsed(a)' = {}
    <3>1. \A n \in DOMAIN refunds :
            refunds[n].req = admin[a].req => refunds[n].attempt # admin[a].attempt
      <4>1. \A n \in DOMAIN refunds :
              refunds[n].req = admin[a].req =>
                refunds[n].attempt <= requests[admin[a].req].attempts
        BY <1>1, <2>6 DEF RefundsInv
      <4>2. \A n \in DOMAIN refunds : refunds[n].attempt \in Int
        BY <1>0a
      <4> QED
        BY <1>0b, <1>3, <2>3, <2>6, <4>1, <4>2
    <3> QED
      BY <2>1, <3>1 DEF KeyUsed
  <2>7. KeyInv(a)'
    BY <1>0b, <1>2, <1>3, <2>1, <2>2, <2>3, <2>6 DEF KeyInv
  <2>8. contested \subseteq {Sale} => order'.refunded <= Returned' /\ Bounded(a)'
    BY <1>1, <1>4, <2>1 DEF Bounded
  <2> QED
    BY <1>0, <1>4, <2>1, <2>2, <2>5, <2>7, <2>8
<1>8. CASE CreateRefund(a)
  <2>1. /\ admin[a].pc = "stripe" /\ UNCHANGED <<order, requests>>
        /\ \/ admin'[a].pc = "idle"
           \/ /\ admin'[a].pc = "process" /\ admin'[a].req = admin[a].req
              /\ admin'[a].amount = admin[a].amount /\ admin'[a].refunded = admin[a].refunded
    BY <1>0, <1>8 DEF CreateRefund, AdminStates, IdleAdmin
  <2>2. /\ admin[a].req \notin contested =>
             /\ KeyUsed(a) = {}
             /\ admin[a].attempt <= requests[admin[a].req].attempts
        /\ contested \subseteq {Sale} => admin[a].refunded <= Returned
    BY <1>1, <2>1 DEF KeyInv, Bounded
  <2>3. KeyInv(a)'
    BY <2>1 DEF KeyInv
  <2>4. CASE UNCHANGED refunds
    <3>1. RefundsInv'
      BY <1>1, <1>2, <1>4, <2>1, <2>4 DEF RefundsInv
    <3>2. ASSUME admin[a].req \notin contested PROVE admin'[a].pc = "idle"
      <4>1. refunds' # Append(refunds,
              [req |-> admin[a].req, attempt |-> admin[a].attempt,
               amount |-> admin[a].amount, total |-> Returned + admin[a].amount])
        BY <1>0, <2>4
      <4>2. AdminDone(a)
        BY <1>8, <2>2, <3>2, <4>1 DEF CreateRefund
      <4> QED
        BY <1>0, <4>2 DEF IdleAdmin
    <3>3. contested \subseteq {Sale} => order'.refunded <= Returned' /\ Bounded(a)'
      BY <1>1, <1>3, <1>4, <2>1, <2>4, <3>2 DEF Bounded
    <3> QED
      BY <1>0, <1>4, <2>1, <2>3, <2>4, <3>1, <3>3
  <2>5. CASE ~UNCHANGED refunds
    <3> DEFINE refund == [req |-> admin[a].req, attempt |-> admin[a].attempt,
                          amount |-> admin[a].amount, total |-> Returned + admin[a].amount]
    <3>1. refunds' = Append(refunds, refund)
      BY <1>8, <2>5 DEF CreateRefund
    <3>2. /\ refund.req = admin[a].req /\ refund.attempt = admin[a].attempt
          /\ refund.total = Returned + admin[a].amount
      OBVIOUS
    <3> HIDE DEF refund
    <3>3. /\ DOMAIN refunds' = 1 .. Len(refunds) + 1 /\ Len(refunds') = Len(refunds) + 1
          /\ \A n \in DOMAIN refunds : refunds'[n] = refunds[n]
          /\ refunds'[Len(refunds) + 1] = refund /\ refunds' # <<>>
          /\ DOMAIN refunds = 1 .. Len(refunds) /\ Len(refunds) \in Nat
      BY <1>0, <3>1
    <3>4. Returned' = Returned + admin[a].amount
      BY <3>2, <3>3 DEF Returned
    <3>5. admin[a].amount \in Nat /\ admin[a].refunded \in Nat /\ order.refunded \in Nat
      BY <1>0 DEF AdminStates, Orders
    <3>6. \A n \in DOMAIN refunds' : \/ n \in DOMAIN refunds /\ refunds'[n] = refunds[n]
                                     \/ n = Len(refunds) + 1 /\ refunds'[n].req = admin[a].req
      BY <3>2, <3>3
    <3>7. ASSUME NEW n \in DOMAIN refunds'
          PROVE  /\ refunds'[n].total <= Returned'
                 /\ refunds'[n].req \in Requests
                 /\ refunds'[n].req \notin contested =>
                      refunds'[n].attempt <= requests[refunds'[n].req].attempts
      <4>1. CASE n \in DOMAIN refunds
        BY <1>0, <1>0a, <1>1, <3>3, <3>4, <3>5, <4>1 DEF RefundsInv
      <4>2. CASE n = Len(refunds) + 1
        BY <1>0, <1>3, <2>2, <3>2, <3>3, <3>4, <3>5, <4>2
      <4> QED
        BY <3>6, <4>1, <4>2
    <3>8. RefundsInv'
      BY <1>2, <2>1, <3>7 DEF RefundsInv
    <3>9. contested \subseteq {Sale} => order'.refunded <= Returned' /\ Bounded(a)'
      BY <1>0, <1>1, <2>1, <2>2, <3>4, <3>5 DEF Bounded
    <3> QED
      BY <1>0, <2>1, <2>3, <3>4, <3>5, <3>6, <3>8, <3>9
  <2> QED
    BY <2>4, <2>5
<1>9. CASE MarkProcessed(a)
  <2>1. /\ admin[a].pc = "process" /\ admin'[a].pc = "order"
        /\ admin'[a].req = admin[a].req /\ admin'[a].amount = admin[a].amount
        /\ admin'[a].refunded = admin[a].refunded
        /\ UNCHANGED <<refunds, order>>
    BY <1>0, <1>9 DEF MarkProcessed, AdminStates
  <2>2. /\ \A r \in Requests : requests'[r].attempts = requests[r].attempts
        /\ \A r \in Requests : r # admin[a].req => requests'[r] = requests[r]
    BY <1>0, <1>9 DEF MarkProcessed, RequestRows
  <2>3. RefundsInv'
    BY <1>1, <1>2, <1>4, <2>1, <2>2 DEF RefundsInv
  <2>4. KeyInv(a)'
    BY <2>1 DEF KeyInv
  <2>5. contested \subseteq {Sale} => order'.refunded <= Returned' /\ Bounded(a)'
    BY <1>1, <1>4, <2>1 DEF Bounded
  <2> QED
    BY <1>0, <1>4, <2>1, <2>2, <2>3, <2>4, <2>5
<1>10. CASE UpdateOrder(a)
  <2>1. /\ admin[a].pc = "order" /\ admin'[a].pc = "reverse"
        /\ admin'[a].req = admin[a].req
        /\ order'.refunded = admin[a].refunded + admin[a].amount
        /\ UNCHANGED <<refunds, requests>>
    BY <1>0, <1>10 DEF UpdateOrder, AdminStates, Orders
  <2>2. RefundsInv'
    BY <1>1, <1>2, <1>4, <2>1 DEF RefundsInv
  <2>3. KeyInv(a)'
    BY <2>1 DEF KeyInv
  <2>4. contested \subseteq {Sale} => order'.refunded <= Returned' /\ Bounded(a)'
    BY <1>1, <1>4, <2>1 DEF Bounded
  <2> QED
    BY <1>0, <1>4, <2>1, <2>2, <2>3, <2>4
<1>11. CASE PostReversal(a) \/ Deny(a) \/ AbandonDecision(a)
  <2>1. admin'[a].pc = "idle" /\ UNCHANGED <<refunds, order>>
    BY <1>0, <1>11 DEF PostReversal, Deny, AbandonDecision, IdleAdmin
  <2>2. /\ \A r \in Requests : requests'[r].attempts = requests[r].attempts
        /\ \A r \in Requests : r # admin[a].req => requests'[r] = requests[r]
    BY <1>0, <1>11 DEF PostReversal, Deny, AbandonDecision, RequestRows
  <2>3. RefundsInv'
    BY <1>1, <1>2, <1>4, <2>1, <2>2 DEF RefundsInv
  <2>4. KeyInv(a)' /\ (contested \subseteq {Sale} => order'.refunded <= Returned' /\ Bounded(a)')
    BY <1>1, <1>4, <2>1 DEF KeyInv, Bounded
  <2> QED
    BY <1>0, <1>4, <2>1, <2>2, <2>3, <2>4
<1> QED
  BY <1>6, <1>7, <1>8, <1>9, <1>10, <1>11 DEF Decide

(* Nothing is refunded before anything happened. *)
LEMMA DecisionsInit == Init => DecisionsInv
BY DEF Init, DecisionsInv, Separate, Busy, RefundsInv, KeyInv, Bounded, Returned, IdleAdmin

(* Every step preserves the invariant. *)
LEMMA DecisionsNext == IInv /\ DecisionsInv /\ [Next]_vars => DecisionsInv'
<1> SUFFICES ASSUME IInv, DecisionsInv, [Next]_vars PROVE DecisionsInv'
  OBVIOUS
<1>1. CASE UNCHANGED vars
  <2>1. contested \subseteq {Sale} => order.refunded <= Returned
    BY DEF DecisionsInv
  <2> QED
    BY <1>1, <2>1, DecisionsFrame DEF vars
<1>2. CASE Next
  BY <1>2, DecisionsHook, DecisionsBegin, DecisionsDecide DEF Next
<1> QED
  BY <1>1, <1>2

(* The strengthened invariant holds throughout. *)
THEOREM DecisionsAlways == Spec => []DecisionsInv
BY DecisionsInit, DecisionsNext, Inductive, PTL DEF Spec

(* The order never says that more was refunded than Stripe refunded, until *)
(* two admins decide one request at once.                                  *)
THEOREM BooksAlways == Spec => []BooksNotAheadOfStripe
<1>1. DecisionsInv => BooksNotAheadOfStripe
  BY DEF DecisionsInv, BooksNotAheadOfStripe
<1> QED
  BY <1>1, DecisionsAlways, PTL

(* A Stripe call never repeats an idempotency key, of a request that one   *)
(* admin at a time decides.                                                *)
THEOREM KeyFreshAlways == Spec => []KeyFresh
<1>1. DecisionsInv => KeyFresh
  BY DEF DecisionsInv, KeyInv, KeyFresh, AdminAt
<1> QED
  BY <1>1, DecisionsAlways, PTL

-----------------------------------------------------------------------------
(***************************************************************************)
(* The ledger balances, for the sale and for every request.  The dedupe    *)
(* indexes drop entries one by one, so what keeps them balanced is that a  *)
(* batch is new to the ledger or already there as a whole.  A sale split   *)
(* in two ways is neither; nor is a request two admins decide by different *)
(* amounts: of the second batch only the accounts the first one spared get *)
(* in.  The weights of a clawback may be such a sale's: its own batch      *)
(* balances whatever it is weighed by.                                     *)
(***************************************************************************)
BeforeDecided == {"load", "attempt", "stripe", "process", "deny"}

LedgerTyped ==
  ledger \subseteq LedgerEntries /\ IsFiniteSet(ledger) /\ \A e \in ledger : e.amount \in Nat

(* The entries are those of the sale and of requests that are decided.       *)
Decided(r) == requests[r].status \in {"processed", "denied"}
EntriesDecided ==
  \A e \in ledger : e.ref = Sale \/ (e.ref \in Requests /\ (e.ref \notin contested => Decided(e.ref)))

(* A request being decided has no entries yet.                               *)
NotReversed(a) ==
  /\ Busy(a) /\ admin[a].req \notin contested =>
       /\ \A e \in ledger : e.ref # admin[a].req
       /\ admin[a].pc \in BeforeDecided => requests[admin[a].req].status = "pending"
       /\ admin[a].pc \in {"order", "reverse"} => requests[admin[a].req].status = "processed"
  /\ admin[a].pc \in {"attempt", "stripe", "process", "order", "reverse"} =>
       admin[a].amount \in 1 .. Gross

BalanceInv ==
  LedgerTyped /\ EntriesDecided /\ LedgerBalanced /\ \A a \in Admins : NotReversed(a)

(* A batch of one reference that balances and is new to the ledger, or of  *)
(* a contested one, leaves it balanced.                                    *)
LEMMA PostBalanced ==
  ASSUME LedgerTyped, LedgerBalanced, NEW ref, contested \subseteq contested',
         NEW batch \in SUBSET LedgerEntries, IsFiniteSet(batch), Debits(batch) = Credits(batch),
         \A e \in batch : e.ref = ref /\ e.amount \in Nat,
         ref \in contested' \/ batch \subseteq ledger \/ \A f \in ledger : f.ref # ref,
         ledger' = Post(ledger, batch)
  PROVE  /\ LedgerTyped' /\ LedgerBalanced'
         /\ \A e \in ledger' : e \in ledger \/ e.ref = ref
<1>1. ledger' \subseteq ledger \cup batch
  BY DEF Post
<1>2. \A e \in ledger' : e \in ledger \/ e.ref = ref
  BY <1>1
<1>3. LedgerTyped'
  <2>1. IsFiniteSet(ledger \cup batch)
    BY FS_Union DEF LedgerTyped
  <2>2. IsFiniteSet(ledger')
    BY <1>1, <2>1, FS_Subset
  <2> QED
    BY <1>1, <2>2 DEF LedgerTyped
<1>4. ASSUME NEW r \in ({Sale} \cup Requests) \ contested'
      PROVE  Debits(EntriesOf(r)') = Credits(EntriesOf(r)')
  <2>1. r \in ({Sale} \cup Requests) \ contested
    BY <1>4
  <2>2. Debits(EntriesOf(r)) = Credits(EntriesOf(r))
    BY <2>1 DEF LedgerBalanced
  <2>3. CASE r # ref
    <3>1. EntriesOf(r)' = EntriesOf(r)
      BY <1>2, <2>3 DEF EntriesOf, Post
    <3> QED
      BY <2>2, <3>1
  <2>4. CASE r = ref /\ batch \subseteq ledger
    <3>1. ledger' = ledger
      BY <2>4 DEF Post, SameKey
    <3>2. EntriesOf(r)' = EntriesOf(r)
      BY <3>1 DEF EntriesOf
    <3> QED
      BY <2>2, <3>2
  <2>5. CASE r = ref /\ \A f \in ledger : f.ref # ref
    <3>1. ledger' = ledger \cup batch
      BY <2>5 DEF Post, SameKey
    <3>2. EntriesOf(r)' = batch
      BY <2>5, <3>1 DEF EntriesOf
    <3> QED
      BY <3>2
  <2> QED
    BY <1>4, <2>3, <2>4, <2>5
<1>5. LedgerBalanced'
  BY <1>4 DEF LedgerBalanced
<1> QED
  BY <1>2, <1>3, <1>5

(* Any split of this order's sale. *)
LEMMA SaleOfOrder ==
  ASSUME NEW net \in Nets
  PROVE  /\ SaleBatch(Gross, net) \subseteq LedgerEntries /\ IsFiniteSet(SaleBatch(Gross, net))
         /\ Debits(SaleBatch(Gross, net)) = Credits(SaleBatch(Gross, net))
         /\ \A e \in SaleBatch(Gross, net) : e.ref = Sale /\ e.amount \in Nat
<1>1. Gross \in Nat /\ net \in [1 .. Payees -> Nat] /\ SumOf(net) = Distributable(Gross)
  BY OrderAssumption
<1>2. net \in Seq(Nat)
  BY <1>1, OrderAssumption
<1>3. \A e \in SaleBatch(Gross, net) : e.ref = Sale /\ e.amount \in Nat
  <2>1. PlatformFee(Gross) \in Nat /\ StripeFee(Gross) \in Nat
    BY <1>1, FeesNat
  <2>2. \A i \in DOMAIN net : net[i] \in Nat
    BY <1>1
  <2> QED
    BY <1>1, <2>1, <2>2 DEF SaleBatch, Entry
<1> QED
  BY <1>1, <1>2, <1>3, SaleBalanced

(* What the sale credited to an account is a number, also of a sale of     *)
(* which parts were dropped.                                               *)
LEMMA CreditNat == ASSUME LedgerTyped, NEW account PROVE SaleCredit(account) \in Nat
<1> DEFINE es == {e \in ledger : e.ref = Sale /\ e.account = account}
<1>1. es \subseteq LedgerEntries /\ IsFiniteSet(es) /\ \A e \in es : e.amount \in Nat
  BY FS_Subset DEF LedgerTyped
<1>2. SaleCredit(account) = Credits(es)
  BY Zenon DEF SaleCredit
<1> HIDE DEF es
<1>3. Credits(es) = SumOver(AmountOf, Side(es, "credit"))
  BY <1>1, SideSum
<1>4. IsFiniteSet(Side(es, "credit")) /\ \A e \in Side(es, "credit") : AmountOf[e] \in Nat
  BY <1>1, FS_Subset DEF Side, AmountOf
<1>5. SumOver(AmountOf, Side(es, "credit")) \in Nat
  BY <1>4, SumNat
<1> QED
  BY <1>2, <1>3, <1>5

(* A refund of this order, of any amount that may be asked for. *)
LEMMA RefundOfOrder ==
  ASSUME LedgerTyped, NEW r \in Requests, NEW amount \in 1 .. Gross,
         NEW shares \in Allocations(amount, CreditWeights)
  PROVE  LET batch == ReversalBatch(r, amount, SaleRows, shares)
         IN  /\ batch \subseteq LedgerEntries /\ IsFiniteSet(batch)
             /\ Debits(batch) = Credits(batch)
             /\ \A e \in batch : e.ref = r /\ e.amount \in Nat
<1> DEFINE batch == ReversalBatch(r, amount, SaleRows, shares)
<1>1. Payees \in Nat
  BY OrderAssumption
<1>2. DOMAIN SaleRows = 1 .. Payees + 2
  BY DEF SaleRows
<1>3. \A i \in DOMAIN SaleRows : SaleRows[i].amount \in Nat
  <2> HIDE DEF SaleCredit
  <2> QED
    BY CreditNat DEF SaleRows
<1>4. CreditWeights \in Weights
  <2>1. CreditWeights \in [1 .. Payees + 2 -> Nat]
    BY <1>2, <1>3 DEF CreditWeights
  <2>2. CreditWeights \in Seq(Nat)
    BY <1>1, <2>1
  <2>3. CreditWeights # <<>>
    BY <1>1, <2>1
  <2> QED
    BY <2>2, <2>3 DEF Weights
<1>5. amount \in Nat /\ amount \in Int
  BY OrderAssumption
<1>7. shares \in [DOMAIN SaleRows -> Nat] /\ SumOf(shares) = amount
  <2>1. DOMAIN CreditWeights = DOMAIN SaleRows
    BY DEF CreditWeights
  <2> QED
    BY <1>4, <1>5, <2>1, AllocationExact
<1>8. IsFiniteSet(DOMAIN SaleRows)
  <2>1. Payees + 2 \in Int
    BY <1>1
  <2> QED
    BY <1>2, <2>1, FS_Interval
<1>9. /\ \A i \in DOMAIN SaleRows : SaleRows[i].account \in Int
      /\ \A i, j \in DOMAIN SaleRows : SaleRows[i].account = SaleRows[j].account => i = j
  BY <1>1, <1>2 DEF SaleRows, StripeFees, PlatformRevenue
<1>10. r \in Int
  BY DEF Requests
<1>11. /\ batch \subseteq LedgerEntries /\ IsFiniteSet(batch) /\ Debits(batch) = Credits(batch)
  BY <1>5, <1>7, <1>8, <1>9, <1>10, ReversalBalanced
<1>12. \A e \in batch : e.ref = r /\ e.amount \in Nat
  BY <1>5, <1>7 DEF ReversalBatch, Entry
<1> QED
  BY <1>11, <1>12

(* The webhook handlers, the buyer and the card keep the ledger balanced.    *)
LEMMA BalanceHook ==
  ASSUME IInv, DecisionsInv, BalanceInv,
         \/ \E e \in Events : Deliver(e) \/ Handle(e) \/ BreakOff(e) \/ Decline(e)
         \/ Capture \/ (\E r \in Requests : RequestRefund(r))
  PROVE  BalanceInv'
<1> USE DEF stripeVars, hookVars, adminVars, tallies, Fault, NoFault
<1>0. /\ requests \in [Requests -> RequestRows] /\ \A r \in Requests : r # Sale
      /\ \A a \in Admins : Busy(a) => admin[a].req \in Requests
  BY DEF IInv, TypeOK, DecisionsInv, Separate, Requests, Sale
<1>1. ASSUME NEW e \in Events, PostSale(e) PROVE BalanceInv'
  <2>1. PICK net \in Nets :
          /\ ledger' = Post(ledger, SaleBatch(Gross, net))
          /\ contested' = IF SalePosted /\ ~(SaleBatch(Gross, net) \subseteq ledger)
                          THEN contested \cup {Sale} ELSE contested
    BY <1>1 DEF PostSale
  <2>2. UNCHANGED <<requests, admin>>
    BY <1>1 DEF PostSale
  <2> DEFINE batch == SaleBatch(Gross, net)
  <2>3. /\ batch \subseteq LedgerEntries /\ IsFiniteSet(batch) /\ Debits(batch) = Credits(batch)
        /\ \A b \in batch : b.ref = Sale /\ b.amount \in Nat
    BY SaleOfOrder
  <2> HIDE DEF batch
  <2>4. contested' = contested \/ contested' = contested \cup {Sale}
    BY <2>1
  <2>5. Sale \in contested' \/ batch \subseteq ledger \/ \A f \in ledger : f.ref # Sale
    BY <2>1 DEF batch, SalePosted
  <2>6. /\ LedgerTyped' /\ LedgerBalanced'
        /\ \A x \in ledger' : x \in ledger \/ x.ref = Sale
    <3>1. ledger' = Post(ledger, batch) /\ contested \subseteq contested'
      BY <2>1, <2>4 DEF batch
    <3> QED
      BY <2>3, <2>5, <3>1, PostBalanced DEF BalanceInv
  <2>7. EntriesDecided'
    BY <2>2, <2>4, <2>6 DEF BalanceInv, EntriesDecided, Decided
  <2>8. \A a \in Admins : NotReversed(a)'
    BY <1>0, <2>2, <2>4, <2>6 DEF BalanceInv, NotReversed, BeforeDecided, Busy
  <2> QED
    BY <2>6, <2>7, <2>8 DEF BalanceInv
<1>2. ASSUME NEW r \in Requests, RequestRefund(r) PROVE BalanceInv'
  <2>1. /\ UNCHANGED <<ledger, admin, contested>>
        /\ requests[r].status = "none" /\ requests'[r].status = "pending"
        /\ \A q \in Requests : q # r => requests'[q] = requests[q]
    BY <1>0, <1>2 DEF RequestRefund, RequestRows
  <2>2. EntriesDecided'
    BY <2>1 DEF BalanceInv, EntriesDecided, Decided
  <2>3. \A a \in Admins : NotReversed(a)'
    BY <1>0, <2>1 DEF BalanceInv, NotReversed, BeforeDecided, Busy
  <2> QED
    BY <2>1, <2>2, <2>3 DEF BalanceInv, LedgerTyped, LedgerBalanced, EntriesOf
<1>3. ASSUME NEW e \in Events,
             \/ Deliver(e) \/ MarkPaid(e)
             \/ MarkFailed(e) \/ LookUpOrder(e) \/ ReconcileRefund(e) \/ MarkRefunded(e)
             \/ Finish(e) \/ BreakOff(e) \/ Decline(e) \/ Capture
      PROVE  BalanceInv'
  <2>1. UNCHANGED <<ledger, requests, admin, contested>>
    BY <1>3 DEF Deliver, MarkPaid, MarkFailed, LookUpOrder,
       ReconcileRefund, MarkRefunded, Finish, BreakOff, Decline, Capture
  <2> QED
    BY <2>1 DEF BalanceInv, LedgerTyped, EntriesDecided, LedgerBalanced, EntriesOf, NotReversed,
       Decided, Busy
<1>4. Events # {}
  BY EventKinds, OrderAssumption
<1> QED
  BY <1>1, <1>2, <1>3, <1>4 DEF Handle

(* A decision begins.                                                        *)
LEMMA BalanceBegin ==
  ASSUME IInv, DecisionsInv, BalanceInv, NEW a \in Admins, NEW r \in Requests, LoadRequest(a, r)
  PROVE  BalanceInv'
<1> USE DEF stripeVars, hookVars, adminVars, AdminAt
<1>1. /\ \A b \in Admins \ {a} : admin'[b] = admin[b]
      /\ admin'[a].pc = "load" /\ admin'[a].req = r /\ requests[r].status = "pending"
      /\ UNCHANGED <<ledger, requests>> /\ contested \subseteq contested'
  BY DEF LoadRequest, IInv, TypeOK, AdminStates, IdleAdmin
<1>2. r # Sale
  BY DEF Requests, Sale
<1>3. r \notin contested => \A e \in ledger : e.ref # r
  BY <1>1, <1>2 DEF BalanceInv, EntriesDecided, Decided
<1>4. NotReversed(a)'
  BY <1>1, <1>3 DEF NotReversed
<1>5. \A b \in Admins \ {a} : NotReversed(b)'
  BY <1>1 DEF BalanceInv, NotReversed, Busy
<1>6. LedgerTyped' /\ EntriesDecided' /\ LedgerBalanced'
  BY <1>1 DEF BalanceInv, LedgerTyped, EntriesDecided, LedgerBalanced, EntriesOf, Decided
<1> QED
  BY <1>4, <1>5, <1>6 DEF BalanceInv

(* What an admin's step leaves to the others.                                *)
LEMMA OthersNotReversed ==
  ASSUME IInv, DecisionsInv, BalanceInv, NEW a \in Admins, Busy(a),
         \A b \in Admins \ {a} : admin'[b] = admin[b], UNCHANGED contested,
         \A q \in Requests : q # admin[a].req => requests'[q].status = requests[q].status,
         \A e \in ledger' : e \in ledger \/ e.ref = admin[a].req
  PROVE  \A b \in Admins \ {a} : NotReversed(b)'
<1> SUFFICES ASSUME NEW b \in Admins \ {a} PROVE NotReversed(b)'
  OBVIOUS
<1>1. NotReversed(b) /\ admin'[b] = admin[b]
  BY DEF BalanceInv
<1>2. Busy(b) /\ admin[b].req \notin contested =>
        admin[b].req \in Requests /\ admin[b].req # admin[a].req
  BY DEF DecisionsInv, Separate
<1> QED
  BY <1>1, <1>2 DEF NotReversed, Busy

(* A decision goes on or ends.                                               *)
LEMMA BalanceDecide ==
  ASSUME IInv, DecisionsInv, BalanceInv, NEW a \in Admins, Decide(a) \/ AbandonDecision(a)
  PROVE  BalanceInv'
<1> USE DEF stripeVars, hookVars, adminVars, tallies, AdminAt, AdminGoto, AdminDone, Fault, NoFault
<1>0. /\ admin \in [Admins -> AdminStates] /\ admin[a] \in AdminStates /\ order \in Orders
      /\ requests \in [Requests -> RequestRows] /\ \A r \in Requests : r # Sale
  BY DEF IInv, TypeOK, Requests, Sale
<1>1. LedgerTyped /\ EntriesDecided /\ LedgerBalanced /\ NotReversed(a)
  BY DEF BalanceInv
<1>2. Busy(a) /\ UNCHANGED contested /\ \A b \in Admins \ {a} : admin'[b] = admin[b]
  BY <1>0 DEF Decide, LoadOrder, WriteAttempt, CreateRefund, MarkProcessed, UpdateOrder,
     PostReversal, Deny, AbandonDecision, Busy
<1>3. admin[a].req \in Requests
  BY <1>2 DEF DecisionsInv, Separate
<1>4. SUFFICES
        /\ LedgerTyped' /\ EntriesDecided' /\ LedgerBalanced' /\ NotReversed(a)'
        /\ \A q \in Requests : q # admin[a].req => requests'[q].status = requests[q].status
        /\ \A e \in ledger' : e \in ledger \/ e.ref = admin[a].req
  BY <1>2, OthersNotReversed DEF BalanceInv
<1>5. UNCHANGED ledger => LedgerTyped' /\ LedgerBalanced'
  BY <1>1, <1>2 DEF LedgerTyped, LedgerBalanced, EntriesOf
<1>6. UNCHANGED <<ledger, requests>> => EntriesDecided'
  BY <1>1, <1>2 DEF EntriesDecided, Decided
<1>7. CASE LoadOrder(a)
  <2>1. UNCHANGED <<ledger, requests>> /\ admin[a].pc = "load"
    BY <1>7 DEF LoadOrder
  <2>2. \/ admin'[a].pc = "idle"
        \/ admin'[a].pc = "deny" /\ admin'[a].req = admin[a].req
        \/ /\ admin'[a].pc = "attempt" /\ admin'[a].req = admin[a].req
           /\ admin'[a].amount \in 1 .. Gross
    <3>1. \A amount : amount \in 1 .. (Gross - order.refunded) => amount \in 1 .. Gross
      BY <1>0, OrderAssumption DEF Orders
    <3>2. ASSUME NEW amount \in 1 .. Gross,
                 admin' = [admin EXCEPT ![a].pc = "attempt", ![a].amount = amount,
                                        ![a].refunded = order.refunded]
          PROVE  /\ admin'[a].pc = "attempt" /\ admin'[a].req = admin[a].req
                 /\ admin'[a].amount \in 1 .. Gross
      BY <1>0, <3>2 DEF AdminStates
    <3>3. ASSUME admin' = [admin EXCEPT ![a] = IdleAdmin] PROVE admin'[a].pc = "idle"
      BY <1>0, <3>3 DEF IdleAdmin
    <3>4. ASSUME admin' = [admin EXCEPT ![a].pc = "deny"]
          PROVE  admin'[a].pc = "deny" /\ admin'[a].req = admin[a].req
      BY <1>0, <3>4 DEF AdminStates
    <3>5. \/ admin' = [admin EXCEPT ![a] = IdleAdmin]
          \/ admin' = [admin EXCEPT ![a].pc = "deny"]
          \/ \E amount : /\ amount \in 1 .. (Gross - order.refunded)
                         /\ admin' = [admin EXCEPT ![a].pc = "attempt", ![a].amount = amount,
                                                   ![a].refunded = order.refunded]
      BY <1>7 DEF LoadOrder
    <3> QED
      BY <3>1, <3>2, <3>3, <3>4, <3>5
  <2>3. NotReversed(a)'
    BY <1>1, <1>2, <2>1, <2>2 DEF NotReversed, BeforeDecided, Busy
  <2> QED
    BY <1>5, <1>6, <2>1, <2>3
<1>8. CASE WriteAttempt(a)
  <2>1. /\ admin[a].pc = "attempt" /\ admin'[a].pc = "stripe"
        /\ admin'[a].req = admin[a].req /\ admin'[a].amount = admin[a].amount
        /\ ledger' = ledger
        /\ \A r \in Requests : requests'[r].status = requests[r].status
    BY <1>0, <1>8 DEF WriteAttempt, AdminStates, RequestRows
  <2>2. EntriesDecided'
    BY <1>1, <1>2, <2>1 DEF EntriesDecided, Decided
  <2>3. NotReversed(a)'
    BY <1>1, <1>2, <1>3, <2>1 DEF NotReversed, BeforeDecided, Busy
  <2> QED
    BY <1>5, <2>1, <2>2, <2>3
<1>9. CASE CreateRefund(a)
  <2>1. /\ admin[a].pc = "stripe" /\ UNCHANGED <<ledger, requests>>
        /\ \/ admin'[a].pc = "idle"
           \/ /\ admin'[a].pc = "process" /\ admin'[a].req = admin[a].req
              /\ admin'[a].amount = admin[a].amount
    BY <1>0, <1>9 DEF CreateRefund, AdminStates, IdleAdmin
  <2>2. NotReversed(a)'
    BY <1>1, <1>2, <2>1 DEF NotReversed, BeforeDecided, Busy
  <2> QED
    BY <1>5, <1>6, <2>1, <2>2
<1>10. CASE MarkProcessed(a) \/ Deny(a)
  <2>1. /\ admin[a].pc \in {"process", "deny"} /\ ledger' = ledger
        /\ \/ admin'[a].pc = "idle"
           \/ /\ admin'[a].pc = "order" /\ admin'[a].req = admin[a].req
              /\ admin'[a].amount = admin[a].amount
              /\ requests'[admin[a].req].status = "processed" /\ admin[a].pc = "process"
        /\ \A r \in Requests : r # admin[a].req => requests'[r] = requests[r]
        /\ requests'[admin[a].req].status \in {"processed", "denied"}
    BY <1>0, <1>3, <1>10 DEF MarkProcessed, Deny, AdminStates, IdleAdmin, RequestRows
  <2>2. EntriesDecided'
    BY <1>1, <1>2, <2>1 DEF EntriesDecided, Decided
  <2>3. NotReversed(a)'
    BY <1>1, <1>2, <2>1 DEF NotReversed, BeforeDecided, Busy
  <2> QED
    BY <1>5, <2>1, <2>2, <2>3
<1>11. CASE UpdateOrder(a)
  <2>1. /\ admin[a].pc = "order" /\ admin'[a].pc = "reverse"
        /\ admin'[a].req = admin[a].req /\ admin'[a].amount = admin[a].amount
        /\ UNCHANGED <<ledger, requests>>
    BY <1>0, <1>11 DEF UpdateOrder, AdminStates
  <2>2. NotReversed(a)'
    BY <1>1, <1>2, <2>1 DEF NotReversed, BeforeDecided, Busy
  <2> QED
    BY <1>5, <1>6, <2>1, <2>2
<1>12. CASE PostReversal(a)
  <2>1. admin[a].pc = "reverse" /\ admin'[a].pc = "idle" /\ UNCHANGED requests
    BY <1>0, <1>12 DEF PostReversal, IdleAdmin
  <2>2. NotReversed(a)'
    BY <2>1 DEF NotReversed, BeforeDecided, Busy
  <2>3. CASE UNCHANGED ledger
    BY <1>5, <1>6, <2>1, <2>2, <2>3
  <2>4. CASE ~UNCHANGED ledger
    <3>1. PICK shares \in Allocations(admin[a].amount, CreditWeights) :
            ledger' = Post(ledger, ReversalBatch(admin[a].req, admin[a].amount, SaleRows, shares))
      BY <1>12, <2>4 DEF PostReversal
    <3> DEFINE batch == ReversalBatch(admin[a].req, admin[a].amount, SaleRows, shares)
    <3>2. /\ admin[a].amount \in 1 .. Gross
          /\ admin[a].req \notin contested =>
               Decided(admin[a].req) /\ \A e \in ledger : e.ref # admin[a].req
      BY <1>1, <1>2, <2>1 DEF NotReversed, Decided
    <3>3. /\ batch \subseteq LedgerEntries /\ IsFiniteSet(batch) /\ Debits(batch) = Credits(batch)
          /\ \A e \in batch : e.ref = admin[a].req /\ e.amount \in Nat
      BY <1>1, <1>3, <3>2, RefundOfOrder
    <3> HIDE DEF batch
    <3>4. ledger' = Post(ledger, batch)
      BY <3>1 DEF batch
    <3>5. /\ LedgerTyped' /\ LedgerBalanced'
          /\ \A e \in ledger' : e \in ledger \/ e.ref = admin[a].req
      BY <1>1, <1>2, <3>2, <3>3, <3>4, PostBalanced
    <3>6. EntriesDecided'
      BY <1>1, <1>2, <1>3, <2>1, <3>2, <3>5 DEF EntriesDecided, Decided
    <3> QED
      BY <2>1, <2>2, <3>5, <3>6
  <2> QED
    BY <2>3, <2>4
<1>13. CASE AbandonDecision(a)
  <2>1. admin'[a].pc = "idle" /\ UNCHANGED <<ledger, requests>>
    BY <1>0, <1>13 DEF AbandonDecision, IdleAdmin
  <2> QED
    BY <1>5, <1>6, <2>1 DEF NotReversed, BeforeDecided, Busy
<1> QED
  BY <1>7, <1>8, <1>9, <1>10, <1>11, <1>12, <1>13 DEF Decide

LEMMA BalanceInit == Init => BalanceInv
<1> SUFFICES ASSUME Init PROVE BalanceInv
  OBVIOUS
<1>1. ledger = {} /\ \A a \in Admins : admin[a].pc = "idle"
  BY DEF Init, IdleAdmin
<1>2. LedgerTyped /\ IsFiniteSet(ledger)
  BY <1>1, FS_EmptySet DEF LedgerTyped
<1>3. LedgerBalanced
  <2>1. Side({}, "debit") = {} /\ Side({}, "credit") = {}
    BY DEF Side
  <2>2. /\ Debits({}) = SumOver(AmountOf, Side({}, "debit"))
        /\ Credits({}) = SumOver(AmountOf, Side({}, "credit"))
    BY FS_EmptySet, SideSum
  <2>3. Debits({}) = Credits({})
    BY <2>1, <2>2, Zenon
  <2>4. \A ref : EntriesOf(ref) = {}
    BY <1>1 DEF EntriesOf
  <2> QED
    BY <2>3, <2>4 DEF LedgerBalanced
<1> QED
  BY <1>1, <1>2, <1>3 DEF BalanceInv, EntriesDecided, NotReversed, Busy

(* Double entry: the debits of the sale, and of every refund request, are    *)
(* its credits, however they were posted and replayed, unless two deliveries *)
(* split the sale differently or two admins decided the request at once.     *)
THEOREM BalancedAlways == Spec => []LedgerBalanced
<1>1. ASSUME IInv, DecisionsInv, BalanceInv, [Next]_vars PROVE BalanceInv'
  <2>1. CASE UNCHANGED vars
    BY <1>1, <2>1 DEF vars, BalanceInv, LedgerTyped, EntriesDecided, LedgerBalanced, EntriesOf,
       NotReversed, Decided, Busy
  <2>2. CASE Next
    BY <1>1, <2>2, BalanceHook, BalanceBegin, BalanceDecide DEF Next
  <2> QED
    BY <1>1, <2>1, <2>2
<1>2. BalanceInv => LedgerBalanced
  BY DEF BalanceInv
<1> QED
  BY <1>1, <1>2, BalanceInit, Inductive, DecisionsAlways, PTL DEF Spec
=============================================================================
