------------------------------- MODULE Checkout -------------------------------
(***************************************************************************)
(* One cart on its way to an order and a PaymentIntent: services/carts.ts  *)
(* and services/checkout.ts, with the rows they share - carts, cart_items, *)
(* orders, order_items - and Stripe.  Calls of the buyer's browser overlap *)
(* (two tabs, a double click, a retry), and no handler opens a             *)
(* transaction: each statement and each Stripe call is a step of its own.  *)
(*                                                                         *)
(* The order is left here as OrderPayments finds it: pending_payment, with *)
(* the PaymentIntent attached.                                             *)
(***************************************************************************)
EXTENDS Integers, FiniteSets, FiniteSetsExt

CONSTANTS
  Lines,         \* (product, photo, licence tier) triples that can be added
  Bundles,       \* those without a photo, which the unique index ignores
  Price,         \* products.price_cents of each, the licence tier included
  Discounts,     \* what evaluatePricing may take off
  Edits,         \* concurrent calls of the cart routes
  MaxCalls,      \* bound on the calls of the checkout route
  MaxRows,       \* bound on the rows ever inserted into cart_items
  MaxQuantity,   \* bound on a row's quantity
  MaxFaults      \* bound on failed calls and process deaths

ASSUME CheckoutAssumption ==
  /\ Bundles \subseteq Lines /\ Price \in [Lines -> Nat \ {0}] /\ Discounts \subseteq Nat
  /\ IsFiniteSet(Lines) /\ Lines # {} /\ MaxQuantity \in Nat \ {0}
  /\ MaxCalls \in Nat /\ MaxRows \in Nat /\ MaxFaults \in Nat

Calls == 1 .. MaxCalls          \* an order is named after the call that inserted it
NoOrder == 0

VARIABLES
  cart,      \* carts.status
  late,      \* carts.expires_at has passed
  items,     \* cart_items
  added,     \* rows ever inserted into cart_items
  orders,    \* orders
  lines,     \* order_items, by order
  intents,   \* Stripe: PaymentIntents, by order, which is their idempotency key
  call,      \* calls of createOrderFromCart
  edit,      \* calls of getCart, addCartItem, updateCartItem, removeCartItem
  faults

vars == <<cart, late, items, added, orders, lines, intents, call, edit, faults>>
cartVars == <<cart, late, items, added>>
orderVars == <<orders, lines>>

Rows == [id : 1 .. MaxRows, line : Lines, qty : 1 .. MaxQuantity]
OrderRows == [status : {"none", "pending_payment", "failed"}, intent : BOOLEAN,
              total : Nat, discount : Nat]
CallStates == [pc : {"idle", "items", "insert", "snapshot", "intent", "fail",
                     "attach", "convert", "reply", "done"},
               rows : SUBSET Rows, total : Nat, discount : Nat,
               answer : {"none", "refused", "conflict", "unavailable", "broken", "secret"},
               secret : Calls \cup {NoOrder}]
EditStates == [pc : {"idle", "expire", "look", "insert", "set", "delete"},
               line : Lines, id : 0 .. MaxRows, qty : 0 .. MaxQuantity]

NewCall == [pc |-> "idle", rows |-> {}, total |-> 0, discount |-> 0,
            answer |-> "none", secret |-> NoOrder]
IdleEdit == [pc |-> "idle", line |-> CHOOSE l \in Lines : TRUE, id |-> 0, qty |-> 0]

Init ==
  /\ cart = "active" /\ late = FALSE
  /\ items = {} /\ added = 0
  /\ orders = [o \in Calls |->
       [status |-> "none", intent |-> FALSE, total |-> 0, discount |-> 0]]
  /\ lines = [o \in Calls |-> {}]
  /\ intents = {}
  /\ call = [c \in Calls |-> NewCall]
  /\ edit = [e \in Edits |-> IdleEdit]
  /\ faults = 0

Fault == faults < MaxFaults /\ faults' = faults + 1
NoFault == UNCHANGED faults

Subtotal(rows) == MapThenSumSet(LAMBDA r : Price[r.line] * r.qty, rows)
Placed(o) == orders[o].status # "none"

(* Thirty days go by. *)
TimeUp ==
  /\ ~late /\ late' = TRUE
  /\ UNCHANGED <<cart, items, added, orderVars, intents, call, edit, faults>>

-----------------------------------------------------------------------------
(***************************************************************************)
(* The cart routes.  Each begins by reading the cart; what it writes later *)
(* is not conditional on the cart's status any more.                       *)
(***************************************************************************)
EditAt(e, pc) == edit[e].pc = pc
EditDone(e) == edit' = [edit EXCEPT ![e] = IdleEdit]
EditsOnly == UNCHANGED <<late, orderVars, intents, call, faults>>

(* requireActiveCart and getCart on an active cart whose time is up *)
SeeExpired(e) ==
  /\ EditAt(e, "idle") /\ cart = "active" /\ late
  /\ edit' = [edit EXCEPT ![e].pc = "expire"]
  /\ UNCHANGED <<cart, items, added>> /\ EditsOnly

Expire(e) ==
  /\ EditAt(e, "expire") /\ cart' = "expired"
  /\ EditDone(e)
  /\ UNCHANGED <<items, added>> /\ EditsOnly

(* requireActiveCart on an active cart, by each of the operations *)
OpenCart(e, state) ==
  /\ EditAt(e, "idle") /\ cart = "active" /\ ~late
  /\ edit' = [edit EXCEPT ![e] = state]
  /\ UNCHANGED <<cart, items, added>> /\ EditsOnly

OpenForAdd(e, l) == OpenCart(e, [IdleEdit EXCEPT !.pc = "look", !.line = l, !.qty = 1])
OpenForUpdate(e, r, n) == OpenCart(e, [IdleEdit EXCEPT !.pc = "set", !.id = r.id, !.qty = n])
OpenForRemove(e, r) == OpenCart(e, [IdleEdit EXCEPT !.pc = "delete", !.id = r.id])

(* addCartItem: a line that is there already gets a quantity one higher. *)
LookForLine(e) ==
  /\ EditAt(e, "look")
  /\ IF \E r \in items : r.line = edit[e].line
     THEN \E r \in items :
            /\ r.line = edit[e].line /\ r.qty + edit[e].qty <= MaxQuantity
            /\ edit' = [edit EXCEPT ![e].pc = "set", ![e].id = r.id,
                                    ![e].qty = r.qty + edit[e].qty]
     ELSE edit' = [edit EXCEPT ![e].pc = "insert"]
  /\ UNCHANGED <<cart, items, added>> /\ EditsOnly

(* The unique index refuses a second row of the line, unless its photo_id  *)
(* is null.                                                                *)
InsertRow(e) ==
  /\ EditAt(e, "insert") /\ added < MaxRows
  /\ IF edit[e].line \in Bundles \/ \A r \in items : r.line # edit[e].line
     THEN /\ items' = items \cup {[id |-> added + 1, line |-> edit[e].line, qty |-> edit[e].qty]}
          /\ added' = added + 1
     ELSE UNCHANGED <<items, added>>
  /\ EditDone(e)
  /\ UNCHANGED cart /\ EditsOnly

(* The quantity read before plus one, or what updateCartItem was asked *)
SetQuantity(e) ==
  /\ EditAt(e, "set")
  /\ items' = {IF r.id = edit[e].id THEN [r EXCEPT !.qty = edit[e].qty] ELSE r : r \in items}
  /\ EditDone(e)
  /\ UNCHANGED <<cart, added>> /\ EditsOnly

DeleteRow(e) ==
  /\ EditAt(e, "delete")
  /\ items' = {r \in items : r.id # edit[e].id}
  /\ EditDone(e)
  /\ UNCHANGED <<cart, added>> /\ EditsOnly

EditStep(e) ==
  \/ SeeExpired(e) \/ Expire(e)
  \/ \E l \in Lines : OpenForAdd(e, l)
  \/ \E r \in items : OpenForRemove(e, r) \/ \E n \in 1 .. MaxQuantity : OpenForUpdate(e, r, n)
  \/ LookForLine(e) \/ InsertRow(e) \/ SetQuantity(e) \/ DeleteRow(e)

-----------------------------------------------------------------------------
(***************************************************************************)
(* createOrderFromCart                                                     *)
(***************************************************************************)
At(c, pc) == call[c].pc = pc
Goto(c, pc) == call' = [call EXCEPT ![c].pc = pc]
Answer(c, a) == call' = [call EXCEPT ![c].pc = "done", ![c].answer = a]
GiveSecret(c, o) ==
  call' = [call EXCEPT ![c].pc = "done", ![c].answer = "secret", ![c].secret = o]

(* A converted cart: the order's PaymentIntent is retrieved from Stripe. *)
Resume(c) ==
  /\ At(c, "idle") /\ cart = "converted"
  /\ IF \E o \in Calls : orders[o].intent
     THEN \E o \in Calls :
            /\ orders[o].intent
            /\ \/ GiveSecret(c, o) /\ NoFault
               \/ Answer(c, "broken") /\ Fault
     ELSE Answer(c, "refused") /\ NoFault
  /\ UNCHANGED <<cartVars, orderVars, intents, edit>>

ReadCart(c) ==
  /\ At(c, "idle") /\ cart # "converted"
  /\ IF cart = "active" /\ ~late THEN Goto(c, "items") ELSE Answer(c, "refused")
  /\ UNCHANGED <<cartVars, orderVars, intents, edit, faults>>

Discounted(off, subtotal) == IF off > subtotal THEN subtotal ELSE off

(* The items are read once.  An empty cart, a bundle that resolves to no   *)
(* photos and a failing pricing rule end the call; the discount is clamped *)
(* to the subtotal.                                                        *)
ReadItems(c) ==
  /\ At(c, "items")
  /\ \/ Answer(c, "refused")
     \/ /\ items # {}
        /\ \E off \in Discounts :
             LET subtotal == Subtotal(items)
                 discount == Discounted(off, subtotal)
             IN call' = [call EXCEPT ![c].pc = "insert", ![c].rows = items,
                           ![c].discount = discount, ![c].total = subtotal - discount]
  /\ UNCHANGED <<cartVars, orderVars, intents, edit, faults>>

(* A mistake the properties catch: orders.cart_id is not unique. *)
NeverOrdered == FALSE

(* orders.cart_id is unique: the second insert throws. *)
Ordered == \E o \in Calls : Placed(o)

InsertOrder(c) ==
  /\ At(c, "insert")
  /\ IF Ordered
     THEN Answer(c, "conflict") /\ UNCHANGED orders
     ELSE /\ orders' = [orders EXCEPT ![c] =
               [status |-> "pending_payment", intent |-> FALSE,
                total |-> call[c].total, discount |-> call[c].discount]]
          /\ Goto(c, "snapshot")
  /\ UNCHANGED <<cartVars, lines, intents, edit, faults>>

(* A mistake the properties catch: the order's items are read afresh. *)
SnapshotLive(c) ==
  /\ At(c, "snapshot")
  /\ lines' = [lines EXCEPT ![c] = items] /\ Goto(c, "intent")
  /\ UNCHANGED <<cartVars, orders, intents, edit, faults>>

(* One row after the other; the audit entry follows the last one. *)
SnapshotItem(c) ==
  /\ At(c, "snapshot")
  /\ \E r \in call[c].rows \ lines[c] :
       /\ lines' = [lines EXCEPT ![c] = @ \cup {r}]
       /\ IF lines'[c] = call[c].rows THEN Goto(c, "intent") ELSE UNCHANGED call
  /\ UNCHANGED <<cartVars, orders, intents, edit, faults>>

(* A mistake the properties catch: the PaymentIntent is not stored. *)
CreateOnly(c) ==
  /\ At(c, "intent") /\ call[c].total > 0
  /\ intents' = intents \cup {[order |-> c, amount |-> call[c].total]}
  /\ Goto(c, "convert")
  /\ UNCHANGED <<cartVars, orderVars, edit, faults>>

(* Stripe makes the PaymentIntent and answers; makes it and the answer is  *)
(* lost; or refuses it, as it always does for an amount of zero.           *)
CreateIntent(c) ==
  /\ At(c, "intent")
  /\ IF call[c].total = 0
     THEN Goto(c, "fail") /\ NoFault /\ UNCHANGED intents
     ELSE \E made, answered \in BOOLEAN :
            /\ answered => made
            /\ intents' = IF made
                          THEN intents \cup {[order |-> c, amount |-> call[c].total]}
                          ELSE intents
            /\ IF answered THEN NoFault /\ Goto(c, "attach") ELSE Fault /\ Goto(c, "fail")
  /\ UNCHANGED <<cartVars, orderVars, edit>>

MarkFailed(c) ==
  /\ At(c, "fail")
  /\ orders' = [orders EXCEPT ![c].status = "failed"]
  /\ Answer(c, "unavailable")
  /\ UNCHANGED <<cartVars, lines, intents, edit, faults>>

AttachIntent(c) ==
  /\ At(c, "attach")
  /\ orders' = [orders EXCEPT ![c].intent = TRUE]
  /\ Goto(c, "convert")
  /\ UNCHANGED <<cartVars, lines, intents, edit, faults>>

ConvertCart(c) ==
  /\ At(c, "convert")
  /\ cart' = IF cart = "active" THEN "converted" ELSE cart
  /\ Goto(c, "reply")
  /\ UNCHANGED <<late, items, added, orderVars, intents, edit, faults>>

Reply(c) ==
  /\ At(c, "reply") /\ GiveSecret(c, c)
  /\ UNCHANGED <<cartVars, orderVars, intents, edit, faults>>

(* A statement or the audit write throws, or the process dies. *)
BreakOff(c) ==
  /\ call[c].pc \notin {"idle", "done"} /\ Fault
  /\ Answer(c, "broken")
  /\ UNCHANGED <<cartVars, orderVars, intents, edit>>

CallStep(c) ==
  \/ Resume(c) \/ ReadCart(c) \/ ReadItems(c) \/ InsertOrder(c) \/ SnapshotItem(c)
  \/ CreateIntent(c) \/ MarkFailed(c) \/ AttachIntent(c) \/ ConvertCart(c) \/ Reply(c)

-----------------------------------------------------------------------------
Next ==
  \/ TimeUp
  \/ \E e \in Edits : EditStep(e)
  \/ \E c \in Calls : CallStep(c) \/ BreakOff(c)

Spec == Init /\ [][Next]_vars

-----------------------------------------------------------------------------
(***************************************************************************)
(* Properties                                                              *)
(***************************************************************************)

(* Every variable has its type. *)
TypeOK ==
  /\ cart \in {"active", "expired", "converted"} /\ late \in BOOLEAN
  /\ items \subseteq Rows /\ added \in 0 .. MaxRows
  /\ orders \in [Calls -> OrderRows] /\ lines \in [Calls -> SUBSET Rows]
  /\ intents \subseteq [order : Calls, amount : Nat]
  /\ call \in [Calls -> CallStates] /\ edit \in [Edits -> EditStates]
  /\ faults \in 0 .. MaxFaults

(* However often the buyer clicks, retries or opens a second tab, a cart   *)
(* leads to one PaymentIntent: nobody is charged twice for it.             *)
OneIntentPerCart == Cardinality(intents) <= 1

(* What Stripe is asked to charge is what the order says and what its      *)
(* items add up to, though the cart may change during the whole checkout.  *)
ChargedAsOrdered ==
  \A i \in intents :
    /\ i.amount = orders[i.order].total
    /\ i.amount + orders[i.order].discount = Subtotal(lines[i.order])

(* A converted cart can be resumed, also when the call that converted it   *)
(* never answered: its order has the PaymentIntent to hand out.            *)
ConvertedResumable == cart = "converted" => \E o \in Calls : orders[o].intent

(* What lines 11-12 of checkout.ts say: when Stripe failed, the order is   *)
(* marked failed and the cart stays active so that the buyer can retry, so *)
(* no later call fails because of the failed order.                        *)
RetryAfterFailure ==
  \A c \in Calls : call[c].answer = "conflict" => \A o \in Calls : orders[o].status # "failed"
=============================================================================
