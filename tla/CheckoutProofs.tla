---------------------------- MODULE CheckoutProofs ----------------------------
(***************************************************************************)
(* Invariants of Checkout for every price list, number of overlapping      *)
(* calls and edits, rows, quantities and faults.                           *)
(***************************************************************************)
EXTENDS Checkout, LedgerTheorems

(* An edit under way writes a quantity of at least one.                      *)
EditKnows ==
  \A e \in Edits : edit[e].pc \in {"look", "insert", "set"} => edit[e].qty >= 1

Unordered == {"idle", "items", "insert"}
OrderPcs == {"snapshot", "intent", "fail", "attach", "convert", "reply"}

(* A call that inserted an order goes on with it alone, asks Stripe for its  *)
(* PaymentIntent once, and converts the cart after the order holds it.       *)
PcKnows(c, pc) ==
  /\ pc \in Unordered => lines[c] = {} /\ ~Placed(c)
  /\ pc \in OrderPcs => Placed(c)
  /\ pc \in {"snapshot", "intent"} => \A i \in intents : i.order # c
  /\ pc \in {"convert", "reply"} => orders[c].intent

CallKnows == \A c \in Calls : PcKnows(c, call[c].pc)

OneOrder == \A o, p \in Calls : Placed(o) /\ Placed(p) => o = p

(* Every PaymentIntent belongs to an order, and no order has two.            *)
IntentsKnown ==
  /\ \A o \in Calls : orders[o].intent => Placed(o)
  /\ \A i \in intents : Placed(i.order)
  /\ \A i, j \in intents : i.order = j.order => i = j

CheckoutInv ==
  TypeOK /\ EditKnows /\ CallKnows /\ OneOrder /\ IntentsKnown /\ ConvertedResumable

(* The order a call works on says what its snapshot of the items adds up to. *)
PriceOf(c) ==
  /\ call[c].pc \in {"insert", "snapshot", "intent"} =>
       call[c].total + call[c].discount = Subtotal(call[c].rows)
  /\ call[c].pc \in {"snapshot", "intent"} =>
       orders[c].total = call[c].total /\ orders[c].discount = call[c].discount
  /\ call[c].pc = "intent" => lines[c] = call[c].rows

Charged(i) ==
  /\ i.amount = orders[i.order].total
  /\ i.amount + orders[i.order].discount = Subtotal(lines[i.order])

PriceInv == (\A c \in Calls : PriceOf(c)) /\ \A i \in intents : Charged(i)

------------------------------------------------------------------------------
(* A subtotal is a sum of natural numbers.                                   *)
LEMMA RowsFinite == IsFiniteSet(Rows)
<1> DEFINE triples == ((1 .. MaxRows) \X Lines) \X (1 .. MaxQuantity)
           f == [r \in Rows |-> <<<<r.id, r.line>>, r.qty>>]
<1>1. IsFiniteSet(triples)
  <2>1. IsFiniteSet(1 .. MaxRows) /\ IsFiniteSet(1 .. MaxQuantity) /\ IsFiniteSet(Lines)
    BY CheckoutAssumption, FS_Interval
  <2> QED
    BY <2>1, FS_Product
<1>2. f \in Injection(Rows, triples)
  BY DEF Rows, Injection, IsInjective
<1> QED
  BY <1>1, <1>2, FS_Injection

LEMMA SubtotalNat ==
  ASSUME NEW rows \in SUBSET Rows
  PROVE  Subtotal(rows) \in Nat
<1> DEFINE cost == [r \in Rows |-> Price[r.line] * r.qty]
           body(it) == [s \in SUBSET rows |->
             IF s = {} THEN 0
             ELSE Price[(CHOOSE x \in s : TRUE).line] * (CHOOSE x \in s : TRUE).qty
                  + it[s \ {CHOOSE x \in s : TRUE}]]
           it0 == CHOOSE it : it = body(it)
<1>1. IsFiniteSet(rows)
  BY RowsFinite, FS_Subset
<1>2. \A r \in rows : cost[r] \in Nat
  <2>1. \A r \in Rows : Price[r.line] \in Nat /\ r.qty \in Nat
    BY CheckoutAssumption DEF Rows
  <2>2. \A a, b \in Nat : a * b \in Nat
    OBVIOUS
  <2> QED
    BY <2>1, <2>2
<1>3. \A it : it = body(it) <=> Iterates(it, cost, rows)
  <2>1. ASSUME NEW s \in SUBSET rows, s # {}
        PROVE  cost[AnyOf(s)] = Price[(CHOOSE x \in s : TRUE).line] * (CHOOSE x \in s : TRUE).qty
    <3>1. AnyOf(s) \in Rows /\ AnyOf(s) = CHOOSE x \in s : TRUE
      BY <2>1 DEF AnyOf
    <3> QED
      BY <3>1
  <2> HIDE DEF cost
  <2> QED
    BY <2>1 DEF Iterates, AnyOf
<1>4. Subtotal(rows) = it0[rows]
  BY Zenon DEF Subtotal, MapThenSumSet, MapThenFoldSet
<1>5. Iterates(it0, cost, rows)
  <2>1. \E it : it = body(it)
    <3> HIDE DEF cost, body
    <3> QED
      BY <1>1, <1>2, <1>3, SumOverChosen
  <2> HIDE DEF cost, body
  <2> QED
    BY <2>1, <1>3
<1> HIDE DEF cost, it0
<1> QED
  BY <1>1, <1>2, <1>4, <1>5, SumIterated, SumNat

LEMMA IdleKnows ==
  /\ NewCall \in CallStates /\ NewCall.pc = "idle"
  /\ IdleEdit \in EditStates /\ IdleEdit.pc = "idle"
BY CheckoutAssumption DEF NewCall, CallStates, Calls, NoOrder, IdleEdit, EditStates

LEMMA InvInit == Init => CheckoutInv
<1> SUFFICES ASSUME Init PROVE CheckoutInv
  OBVIOUS
<1>1. \A o \in Calls : ~Placed(o) /\ lines[o] = {}
  BY DEF Init, Placed
<1>2. \A c \in Calls : call[c].pc = "idle"
  BY IdleKnows DEF Init
<1>3. \A e \in Edits : edit[e].pc = "idle"
  BY IdleKnows DEF Init
<1>4. TypeOK
  <2>1. 0 \in 0 .. MaxRows /\ 0 \in 0 .. MaxFaults
    BY CheckoutAssumption
  <2>2. /\ orders \in [Calls -> OrderRows] /\ lines \in [Calls -> SUBSET Rows]
        /\ call \in [Calls -> CallStates] /\ edit \in [Edits -> EditStates]
    BY IdleKnows DEF Init, OrderRows
  <2> QED
    BY <2>1, <2>2 DEF Init, TypeOK
<1>5. EditKnows /\ CallKnows
  BY <1>1, <1>2, <1>3 DEF EditKnows, CallKnows, PcKnows, OrderPcs
<1> QED
  BY <1>1, <1>4, <1>5 DEF Init, CheckoutInv, OneOrder, IntentsKnown, ConvertedResumable

(* The cart routes, and time, touch neither orders nor calls.                *)
LEMMA CartMoves ==
  ASSUME CheckoutInv, UNCHANGED <<orderVars, intents, call, faults>>,
         cart' \in {"active", "expired", "converted"}, late' \in BOOLEAN,
         cart' = "converted" => cart = "converted",
         items' \subseteq Rows, added' \in 0 .. MaxRows,
         edit' \in [Edits -> EditStates], EditKnows'
  PROVE  CheckoutInv'
BY DEF CheckoutInv, TypeOK, CallKnows, PcKnows, OneOrder, IntentsKnown, ConvertedResumable,
       Placed, orderVars

(* A route that is at work, or has come to its end.                          *)
LEMMA EditMoves ==
  ASSUME CheckoutInv, NEW e \in Edits, NEW s \in EditStates,
         s.pc \in {"look", "insert", "set"} => s.qty >= 1,
         edit' = [edit EXCEPT ![e] = s]
  PROVE  edit' \in [Edits -> EditStates] /\ EditKnows'
BY DEF CheckoutInv, TypeOK, EditKnows

LEMMA EditKeeps ==
  ASSUME CheckoutInv, NEW e \in Edits, EditStep(e)
  PROVE  CheckoutInv'
<1>1. /\ edit \in [Edits -> EditStates] /\ edit[e] \in EditStates /\ items \subseteq Rows
      /\ added \in 0 .. MaxRows /\ cart \in {"active", "expired", "converted"} /\ late \in BOOLEAN
  BY DEF CheckoutInv, TypeOK
<1>2. /\ edit[e].line \in Lines /\ edit[e].id \in 0 .. MaxRows /\ edit[e].qty \in 0 .. MaxQuantity
      /\ edit[e].pc \in {"look", "insert", "set"} => edit[e].qty \in 1 .. MaxQuantity
  BY <1>1, CheckoutAssumption DEF EditStates, CheckoutInv, EditKnows
<1>3. CASE SeeExpired(e)
  <2>1. [edit[e] EXCEPT !.pc = "expire"] \in EditStates
    BY <1>1 DEF EditStates
  <2>2. edit' = [edit EXCEPT ![e] = [edit[e] EXCEPT !.pc = "expire"]]
    BY <1>3 DEF SeeExpired
  <2>3. edit' \in [Edits -> EditStates] /\ EditKnows'
    BY <2>1, <2>2, EditMoves DEF EditStates
  <2> QED
    BY <1>1, <1>3, <2>3, CartMoves DEF SeeExpired, EditsOnly
<1>4. CASE EditDone(e) /\ EditsOnly /\ cart' \in {cart, "expired"} /\ items' \subseteq Rows
           /\ added' \in 0 .. MaxRows
  <2>1. edit' \in [Edits -> EditStates] /\ EditKnows'
    BY <1>4, IdleKnows, EditMoves DEF EditDone
  <2> QED
    BY <1>1, <1>4, <2>1, CartMoves DEF EditsOnly
<1>5. CASE Expire(e)
  BY <1>1, <1>4, <1>5 DEF Expire
<1>6. ASSUME NEW s \in EditStates, s.qty >= 1 \/ s.pc = "delete", OpenCart(e, s)
      PROVE  CheckoutInv'
  <2>1. edit' \in [Edits -> EditStates] /\ EditKnows'
    BY <1>6, EditMoves DEF OpenCart
  <2> QED
    BY <1>1, <1>6, <2>1, CartMoves DEF OpenCart, EditsOnly
<1>7. ASSUME NEW l \in Lines, OpenForAdd(e, l) PROVE CheckoutInv'
  <2>0. PICK one \in 0 .. MaxQuantity : one = 1
    BY CheckoutAssumption
  <2> DEFINE s == [IdleEdit EXCEPT !.pc = "look", !.line = l, !.qty = one]
  <2>1. s \in EditStates /\ s.qty = one
    BY IdleKnows DEF EditStates
  <2>2. s.qty >= 1
    BY <2>0, <2>1
  <2>3. OpenCart(e, s)
    BY <1>7, <2>0 DEF OpenForAdd
  <2> HIDE DEF s
  <2> QED
    BY <1>6, <2>1, <2>2, <2>3
<1>8. ASSUME NEW r \in items, OpenForRemove(e, r) PROVE CheckoutInv'
  <2>0. PICK id \in 0 .. MaxRows : id = r.id
    BY <1>1, CheckoutAssumption DEF Rows
  <2> DEFINE s == [IdleEdit EXCEPT !.pc = "delete", !.id = id]
  <2>1. s \in EditStates /\ s.pc = "delete"
    BY IdleKnows DEF EditStates
  <2> QED
    BY <1>6, <1>8, <2>0, <2>1 DEF OpenForRemove
<1>9. ASSUME NEW r \in items, NEW n \in 1 .. MaxQuantity, OpenForUpdate(e, r, n)
      PROVE  CheckoutInv'
  <2> DEFINE s == [IdleEdit EXCEPT !.pc = "set", !.id = r.id, !.qty = n]
  <2>0. r.id \in 0 .. MaxRows /\ n \in 0 .. MaxQuantity /\ n >= 1
    BY <1>1, CheckoutAssumption DEF Rows
  <2>1. s \in EditStates /\ s.qty >= 1
    BY <2>0, IdleKnows DEF EditStates
  <2> QED
    BY <1>6, <1>9, <2>1 DEF OpenForUpdate
<1>10. CASE LookForLine(e)
  <2>1. PICK s \in EditStates : s.qty >= 1 /\ edit' = [edit EXCEPT ![e] = s]
    <3>1. edit[e].qty >= 1 /\ edit[e].qty \in Nat
      <4>1. edit[e].qty \in 1 .. MaxQuantity
        BY <1>2, <1>10 DEF LookForLine, EditAt
      <4> QED
        BY <4>1, CheckoutAssumption
    <3>2. CASE \E r \in items : r.line = edit[e].line
      <4>1. PICK r \in items :
              /\ r.qty + edit[e].qty <= MaxQuantity
              /\ edit' = [edit EXCEPT ![e] = [edit[e] EXCEPT !.pc = "set", !.id = r.id,
                                                             !.qty = r.qty + edit[e].qty]]
        BY <1>1, <1>10, <3>2 DEF LookForLine
      <4>2. r.id \in 1 .. MaxRows /\ r.qty \in 1 .. MaxQuantity
        BY <1>1 DEF Rows
      <4>3. PICK qty \in 1 .. MaxQuantity : qty = r.qty + edit[e].qty
        BY <3>1, <4>1, <4>2, CheckoutAssumption
      <4>4. PICK id \in 0 .. MaxRows : id = r.id
        BY <4>2, CheckoutAssumption
      <4>5. qty \in 0 .. MaxQuantity /\ qty >= 1
        BY <4>3, CheckoutAssumption
      <4> DEFINE s == [edit[e] EXCEPT !.pc = "set", !.id = id, !.qty = qty]
      <4>6. s \in EditStates /\ s.qty = qty
        BY <1>1, <4>5 DEF EditStates
      <4> QED
        BY <4>1, <4>3, <4>4, <4>5, <4>6
    <3>3. CASE ~\E r \in items : r.line = edit[e].line
      <4>1. edit' = [edit EXCEPT ![e] = [edit[e] EXCEPT !.pc = "insert"]]
        BY <1>1, <1>10, <3>3 DEF LookForLine
      <4>2. [edit[e] EXCEPT !.pc = "insert"] \in EditStates
        BY <1>1 DEF EditStates
      <4> QED
        BY <1>1, <3>1, <4>1, <4>2 DEF EditStates
    <3> QED
      BY <3>2, <3>3
  <2>2. edit' \in [Edits -> EditStates] /\ EditKnows'
    BY <2>1, EditMoves
  <2> QED
    BY <1>1, <1>10, <2>2, CartMoves DEF LookForLine, EditsOnly
<1>11. CASE InsertRow(e)
  <2>1. [id |-> added + 1, line |-> edit[e].line, qty |-> edit[e].qty] \in Rows
        /\ added + 1 \in 0 .. MaxRows
    BY <1>1, <1>2, <1>11, CheckoutAssumption DEF InsertRow, EditAt, Rows
  <2>2. items' \subseteq Rows /\ added' \in 0 .. MaxRows
    BY <1>1, <1>11, <2>1 DEF InsertRow
  <2> QED
    BY <1>4, <1>11, <2>2 DEF InsertRow
<1>12. CASE SetQuantity(e)
  <2>1. edit[e].qty \in 1 .. MaxQuantity
    BY <1>2, <1>12 DEF SetQuantity, EditAt
  <2>2. \A r \in items : r \in Rows /\ [r EXCEPT !.qty = edit[e].qty] \in Rows
    BY <1>1, <2>1 DEF Rows
  <2>3. items' \subseteq Rows
    BY <1>12, <2>2 DEF SetQuantity
  <2> QED
    BY <1>1, <1>4, <1>12, <2>3 DEF SetQuantity
<1>13. CASE DeleteRow(e)
  BY <1>1, <1>4, <1>13 DEF DeleteRow
<1> QED
  BY <1>3, <1>5, <1>7, <1>8, <1>9, <1>10, <1>11, <1>12, <1>13 DEF EditStep

------------------------------------------------------------------------------
(* createOrderFromCart.                                                      *)
LEMMA CallFields ==
  ASSUME CheckoutInv, NEW c \in Calls
  PROVE  /\ call \in [Calls -> CallStates] /\ call[c] \in CallStates
         /\ orders \in [Calls -> OrderRows] /\ lines \in [Calls -> SUBSET Rows]
         /\ intents \subseteq [order : Calls, amount : Nat] /\ items \subseteq Rows
         /\ call[c].rows \in SUBSET Rows /\ call[c].total \in Nat /\ call[c].discount \in Nat
         /\ faults \in 0 .. MaxFaults
BY DEF CheckoutInv, TypeOK, CallStates

LEMMA Counted ==
  ASSUME CheckoutInv, Fault \/ NoFault
  PROVE  faults' \in 0 .. MaxFaults
BY CheckoutAssumption DEF CheckoutInv, TypeOK, Fault, NoFault

(* A call that only moves, and knows what it must know where it is now.      *)
LEMMA CallMoves ==
  ASSUME CheckoutInv, NEW c \in Calls, NEW s \in CallStates, PcKnows(c, s.pc),
         call' = [call EXCEPT ![c] = s], faults' \in 0 .. MaxFaults,
         UNCHANGED <<cartVars, orderVars, intents, edit>>
  PROVE  CheckoutInv'
<1>1. call' \in [Calls -> CallStates] /\ \A d \in Calls : PcKnows(d, call'[d].pc)
  BY DEF CheckoutInv, TypeOK, CallKnows
<1>2. CallKnows'
  BY <1>1 DEF CallKnows, PcKnows, Placed, orderVars
<1>3. TypeOK' /\ EditKnows'
  BY <1>1 DEF CheckoutInv, TypeOK, EditKnows, cartVars, orderVars
<1> QED
  BY <1>2, <1>3 DEF CheckoutInv, OneOrder, IntentsKnown, ConvertedResumable, Placed, cartVars, orderVars

(* A call that ends, with an answer or without one.                          *)
LEMMA CallEnds ==
  ASSUME CheckoutInv, NEW c \in Calls, NEW a \in {"refused", "conflict", "unavailable", "broken"},
         Answer(c, a) \/ \E o \in Calls : GiveSecret(c, o)
  PROVE  \E s \in CallStates : s.pc = "done" /\ call' = [call EXCEPT ![c] = s]
<1>1. CASE Answer(c, a)
  <2>1. [call[c] EXCEPT !.pc = "done", !.answer = a] \in CallStates
    BY CallFields DEF CallStates
  <2>2. call' = [call EXCEPT ![c] = [call[c] EXCEPT !.pc = "done", !.answer = a]]
    BY <1>1 DEF Answer
  <2> QED
    BY <2>1, <2>2, CallFields DEF CallStates
<1>2. ASSUME NEW o \in Calls, GiveSecret(c, o)
      PROVE  \E s \in CallStates : s.pc = "done" /\ call' = [call EXCEPT ![c] = s]
  <2>1. [call[c] EXCEPT !.pc = "done", !.answer = "secret", !.secret = o] \in CallStates
    BY CallFields DEF CallStates
  <2>2. call' = [call EXCEPT ![c] = [call[c] EXCEPT !.pc = "done", !.answer = "secret", !.secret = o]]
    BY <1>2 DEF GiveSecret
  <2> QED
    BY <2>1, <2>2, CallFields DEF CallStates
<1> QED
  BY <1>1, <1>2

LEMMA EndKeeps ==
  ASSUME CheckoutInv, NEW c \in Calls, NEW a \in {"refused", "conflict", "unavailable", "broken"},
         Answer(c, a) \/ \E o \in Calls : GiveSecret(c, o),
         faults' \in 0 .. MaxFaults, UNCHANGED <<cartVars, orderVars, intents, edit>>
  PROVE  CheckoutInv'
<1>1. PICK s \in CallStates : s.pc = "done" /\ call' = [call EXCEPT ![c] = s]
  BY CallEnds
<1>2. PcKnows(c, s.pc)
  BY <1>1 DEF PcKnows, Unordered, OrderPcs
<1> QED
  BY <1>1, <1>2, CallMoves

LEMMA GotoState ==
  ASSUME CheckoutInv, NEW c \in Calls, NEW pc \in {"items", "intent", "snapshot", "fail", "attach", "convert", "reply"},
         Goto(c, pc)
  PROVE  \E s \in CallStates :
           /\ s.pc = pc /\ s.rows = call[c].rows /\ s.total = call[c].total
           /\ s.discount = call[c].discount /\ call' = [call EXCEPT ![c] = s]
<1> DEFINE s == [call[c] EXCEPT !.pc = pc]
<1>1. /\ s \in CallStates /\ s.pc = pc /\ s.rows = call[c].rows /\ s.total = call[c].total
      /\ s.discount = call[c].discount
  BY CallFields DEF CallStates
<1>2. call' = [call EXCEPT ![c] = s]
  BY DEF Goto
<1> HIDE DEF s
<1> QED
  BY <1>1, <1>2

LEMMA ReadsKeep ==
  ASSUME CheckoutInv, NEW c \in Calls, Resume(c) \/ ReadCart(c) \/ ReadItems(c) \/ Reply(c) \/ BreakOff(c)
  PROVE  CheckoutInv'
<1>1. PcKnows(c, call[c].pc) /\ faults \in 0 .. MaxFaults
  BY CallFields DEF CheckoutInv, CallKnows
<1>2. CASE Resume(c)
  <2>1. faults' \in 0 .. MaxFaults
    BY <1>2, Counted DEF Resume
  <2>2. \/ \E a \in {"refused", "broken"} : Answer(c, a)
        \/ \E o \in Calls : GiveSecret(c, o)
    BY <1>2 DEF Resume
  <2> QED
    BY <1>2, <2>1, <2>2, EndKeeps DEF Resume
<1>3. CASE ReadCart(c)
  <2>1. CASE Answer(c, "refused")
    BY <1>1, <1>3, <2>1, EndKeeps DEF ReadCart
  <2>2. CASE Goto(c, "items")
    <3>1. PICK s \in CallStates : s.pc = "items" /\ call' = [call EXCEPT ![c] = s]
      BY <2>2, GotoState
    <3>2. PcKnows(c, s.pc)
      BY <1>1, <1>3, <3>1 DEF ReadCart, At, PcKnows, Unordered, OrderPcs
    <3> QED
      BY <1>1, <1>3, <3>1, <3>2, CallMoves DEF ReadCart
  <2> QED
    BY <1>3, <2>1, <2>2 DEF ReadCart
<1>4. CASE ReadItems(c)
  <2>1. CASE Answer(c, "refused")
    BY <1>1, <1>4, <2>1, EndKeeps DEF ReadItems
  <2>2. ASSUME NEW off \in Discounts,
               LET subtotal == Subtotal(items)
                   discount == Discounted(off, subtotal)
               IN call' = [call EXCEPT ![c].pc = "insert", ![c].rows = items,
                             ![c].discount = discount, ![c].total = subtotal - discount]
        PROVE  CheckoutInv'
    <3>1. PICK discount \in Nat, total \in Nat :
            /\ discount = Discounted(off, Subtotal(items))
            /\ total = Subtotal(items) - Discounted(off, Subtotal(items))
      BY CheckoutAssumption, CallFields, SubtotalNat DEF Discounted
    <3> DEFINE s == [call[c] EXCEPT !.pc = "insert", !.rows = items, !.discount = discount,
                                    !.total = total]
    <3>2. call' = [call EXCEPT ![c] = s]
      BY <2>2, <3>1
    <3>3. s \in CallStates /\ s.pc = "insert"
      BY CallFields DEF CallStates
    <3>4. PcKnows(c, s.pc)
      BY <1>1, <1>4, <3>3 DEF ReadItems, At, PcKnows, Unordered, OrderPcs
    <3> HIDE DEF s
    <3> QED
      BY <1>1, <1>4, <3>2, <3>3, <3>4, CallMoves DEF ReadItems
  <2> QED
    BY <1>4, <2>1, <2>2 DEF ReadItems
<1>5. CASE Reply(c)
  BY <1>1, <1>5, EndKeeps DEF Reply
<1>6. CASE BreakOff(c)
  BY <1>6, Counted, EndKeeps DEF BreakOff
<1> QED
  BY <1>2, <1>3, <1>4, <1>5, <1>6

(* A call writes its order.                                                  *)
LEMMA OrderWritten ==
  ASSUME CheckoutInv, NEW c \in Calls, NEW s \in CallStates, NEW row \in OrderRows,
         Placed(c) \/ ~Ordered, row.status # "none", orders[c].intent => row.intent,
         s.pc \notin Unordered,
         s.pc \in {"snapshot", "intent"} => \A i \in intents : i.order # c,
         s.pc \in {"convert", "reply"} => row.intent,
         orders' = [orders EXCEPT ![c] = row], call' = [call EXCEPT ![c] = s],
         UNCHANGED <<cartVars, lines, intents, edit, faults>>
  PROVE  CheckoutInv'
<1>1. /\ orders' \in [Calls -> OrderRows] /\ orders'[c] = row
      /\ \A o \in Calls \ {c} : orders'[o] = orders[o]
      /\ call' \in [Calls -> CallStates] /\ call'[c] = s
      /\ \A d \in Calls \ {c} : call'[d] = call[d]
  BY CallFields
<1>2. \A o \in Calls : Placed(o)' <=> o = c \/ Placed(o)
  BY <1>1 DEF Placed
<1>3. TypeOK' /\ EditKnows'
  BY <1>1 DEF CheckoutInv, TypeOK, EditKnows, cartVars
<1>4. CallKnows'
  <2>1. ASSUME NEW d \in Calls PROVE PcKnows(d, call[d].pc)'
    <3>1. CASE d = c
      BY <1>1, <1>2, <3>1 DEF PcKnows, OrderPcs, Unordered
    <3>2. CASE d # c
      BY <1>1, <1>2, <3>2 DEF CheckoutInv, CallKnows, PcKnows
    <3> QED
      BY <3>1, <3>2
  <2> QED
    BY <2>1 DEF CallKnows
<1>5. OneOrder'
  BY <1>2 DEF CheckoutInv, OneOrder, Ordered
<1>6. IntentsKnown'
  <2>1. \A i \in intents : i.order \in Calls
    BY CallFields 
  <2> QED
    BY <1>1, <1>2, <2>1 DEF CheckoutInv, IntentsKnown
<1>7. ConvertedResumable'
  BY <1>1 DEF CheckoutInv, ConvertedResumable, cartVars
<1> QED
  BY <1>3, <1>4, <1>5, <1>6, <1>7 DEF CheckoutInv

LEMMA InsertKeeps ==
  ASSUME CheckoutInv, NEW c \in Calls, InsertOrder(c)
  PROVE  CheckoutInv'
<1>1. faults \in 0 .. MaxFaults
  BY CallFields
<1>2. CASE Ordered
  BY <1>1, <1>2, EndKeeps DEF InsertOrder, orderVars
<1>3. CASE ~Ordered
  <2> DEFINE row == [status |-> "pending_payment", intent |-> FALSE,
                     total |-> call[c].total, discount |-> call[c].discount]
  <2>1. row \in OrderRows /\ row.status = "pending_payment" /\ orders' = [orders EXCEPT ![c] = row]
    BY <1>3, CallFields DEF OrderRows, InsertOrder
  <2>2. PICK s \in CallStates : s.pc = "snapshot" /\ call' = [call EXCEPT ![c] = s]
    BY <1>3, GotoState DEF InsertOrder
  <2>3. ~orders[c].intent /\ \A i \in intents : i.order # c
    BY <1>3 DEF Ordered, CheckoutInv, IntentsKnown
  <2> HIDE DEF row
  <2> QED
    BY <1>3, <2>1, <2>2, <2>3, OrderWritten DEF InsertOrder, Unordered
<1> QED
  BY <1>2, <1>3

LEMMA StatusKeeps ==
  ASSUME CheckoutInv, NEW c \in Calls, MarkFailed(c) \/ AttachIntent(c)
  PROVE  CheckoutInv'
<1>1. Placed(c) /\ orders[c] \in OrderRows
  BY CallFields DEF MarkFailed, AttachIntent, At, CheckoutInv, CallKnows, PcKnows, OrderPcs
<1>2. CASE MarkFailed(c)
  <2>1. PICK s \in CallStates : s.pc = "done" /\ call' = [call EXCEPT ![c] = s]
    BY <1>2, CallEnds DEF MarkFailed
  <2> DEFINE row == [orders[c] EXCEPT !.status = "failed"]
  <2>2. row \in OrderRows /\ row.status = "failed" /\ row.intent = orders[c].intent
    BY <1>1 DEF OrderRows
  <2>3. orders' = [orders EXCEPT ![c] = row]
    BY <1>2 DEF MarkFailed
  <2> HIDE DEF row
  <2> QED
    BY <1>1, <1>2, <2>1, <2>2, <2>3, OrderWritten DEF MarkFailed, Unordered
<1>3. CASE AttachIntent(c)
  <2>1. PICK s \in CallStates : s.pc = "convert" /\ call' = [call EXCEPT ![c] = s]
    BY <1>3, GotoState DEF AttachIntent
  <2> DEFINE row == [orders[c] EXCEPT !.intent = TRUE]
  <2>2. row \in OrderRows /\ row.status = orders[c].status /\ row.intent
    BY <1>1 DEF OrderRows
  <2>3. orders' = [orders EXCEPT ![c] = row]
    BY <1>3 DEF AttachIntent
  <2> HIDE DEF row
  <2> QED
    BY <1>1, <1>3, <2>1, <2>2, <2>3, OrderWritten DEF AttachIntent, Unordered, Placed
<1> QED
  BY <1>2, <1>3

LEMMA SnapshotKeeps ==
  ASSUME CheckoutInv, NEW c \in Calls, SnapshotItem(c)
  PROVE  CheckoutInv'
<1>1. call[c].pc = "snapshot" /\ UNCHANGED <<cartVars, orders, intents, edit, faults>>
  BY DEF SnapshotItem, At
<1>2. PICK r \in call[c].rows :
        lines' = [lines EXCEPT ![c] = @ \cup {r}] /\ (Goto(c, "intent") \/ UNCHANGED call)
  BY DEF SnapshotItem
<1>3. /\ lines' \in [Calls -> SUBSET Rows] /\ \A d \in Calls \ {c} : lines'[d] = lines[d]
  BY <1>2, CallFields
<1>4. PICK s \in CallStates : s.pc \in {"snapshot", "intent"} /\ call' = [call EXCEPT ![c] = s]
  BY <1>1, <1>2, GotoState, CallFields
<1>5. call' \in [Calls -> CallStates] /\ call'[c] = s /\ \A d \in Calls \ {c} : call'[d] = call[d]
  BY <1>4, CallFields
<1>6. CallKnows'
  <2>1. ASSUME NEW d \in Calls PROVE PcKnows(d, call[d].pc)'
    <3>1. CASE d = c
      BY <1>1, <1>4, <1>5, <3>1 DEF CheckoutInv, CallKnows, PcKnows, OrderPcs, Unordered, Placed
    <3>2. CASE d # c
      BY <1>1, <1>3, <1>5, <3>2 DEF CheckoutInv, CallKnows, PcKnows, Placed
    <3> QED
      BY <3>1, <3>2
  <2> QED
    BY <2>1 DEF CallKnows
<1>7. TypeOK' /\ EditKnows'
  BY <1>1, <1>3, <1>5 DEF CheckoutInv, TypeOK, EditKnows, cartVars
<1> QED
  BY <1>1, <1>6, <1>7 DEF CheckoutInv, OneOrder, IntentsKnown, ConvertedResumable, Placed, cartVars

LEMMA IntentKeeps ==
  ASSUME CheckoutInv, NEW c \in Calls, CreateIntent(c)
  PROVE  CheckoutInv'
<1>1. /\ call[c].pc = "intent" /\ Placed(c) /\ \A i \in intents : i.order # c
      /\ UNCHANGED <<cartVars, orderVars, edit>>
  BY DEF CreateIntent, At, CheckoutInv, CallKnows, PcKnows, OrderPcs
<1>2. PICK new \in [order : Calls, amount : Nat] : new = [order |-> c, amount |-> call[c].total]
  BY CallFields 
<1>3. new.order = c /\ (intents' = intents \/ intents' = intents \cup {new})
  BY <1>2 DEF CreateIntent
<1>4. faults' \in 0 .. MaxFaults
  BY Counted DEF CreateIntent
<1>5. PICK s \in CallStates : s.pc \in {"attach", "fail"} /\ call' = [call EXCEPT ![c] = s]
  BY GotoState DEF CreateIntent
<1>6. call' \in [Calls -> CallStates] /\ call'[c] = s /\ \A d \in Calls \ {c} : call'[d] = call[d]
  BY <1>5, CallFields
<1>7. \A o \in Calls : Placed(o)' = Placed(o)
  BY <1>1 DEF Placed, orderVars
<1>8. intents' \subseteq [order : Calls, amount : Nat]
  BY <1>2, <1>3, CallFields
<1>9. TypeOK' /\ EditKnows'
  BY <1>1, <1>4, <1>6, <1>8 DEF CheckoutInv, TypeOK, EditKnows, cartVars, orderVars
<1>10. CallKnows'
  <2>1. ASSUME NEW d \in Calls PROVE PcKnows(d, call[d].pc)'
    <3>1. CASE d = c
      BY <1>1, <1>5, <1>6, <1>7, <3>1 DEF PcKnows, OrderPcs, Unordered
    <3>2. CASE d # c
      BY <1>1, <1>2, <1>3, <1>6, <1>7, <3>2 DEF CheckoutInv, CallKnows, PcKnows, orderVars
    <3> QED
      BY <3>1, <3>2
  <2> QED
    BY <2>1 DEF CallKnows
<1>11. IntentsKnown'
  BY <1>1, <1>2, <1>3, <1>7, <1>8 DEF CheckoutInv, IntentsKnown, orderVars
<1> QED
  BY <1>1, <1>7, <1>9, <1>10, <1>11 DEF CheckoutInv, OneOrder, ConvertedResumable, cartVars, orderVars

LEMMA ConvertKeeps ==
  ASSUME CheckoutInv, NEW c \in Calls, ConvertCart(c)
  PROVE  CheckoutInv'
<1>1. /\ orders[c].intent /\ Placed(c) /\ cart' \in {"converted", cart}
      /\ UNCHANGED <<late, items, added, orders, lines, intents, edit, faults>>
  BY DEF ConvertCart, orderVars, At, CheckoutInv, CallKnows, PcKnows, OrderPcs
<1>2. PICK s \in CallStates : s.pc = "reply" /\ call' = [call EXCEPT ![c] = s]
  BY GotoState DEF ConvertCart
<1>3. call' \in [Calls -> CallStates] /\ \A d \in Calls : PcKnows(d, call'[d].pc)
  BY <1>1, <1>2, CallFields DEF CheckoutInv, CallKnows, PcKnows, Unordered
<1>4. CallKnows'
  BY <1>1, <1>3 DEF CallKnows, PcKnows, Placed
<1>5. TypeOK' /\ EditKnows'
  BY <1>1, <1>3 DEF CheckoutInv, TypeOK, EditKnows
<1> QED
  BY <1>1, <1>4, <1>5 DEF CheckoutInv, OneOrder, IntentsKnown, ConvertedResumable, Placed

LEMMA StepKeeps == CheckoutInv /\ [Next]_vars => CheckoutInv'
<1> SUFFICES ASSUME CheckoutInv, [Next]_vars PROVE CheckoutInv'
  OBVIOUS
<1>1. /\ edit \in [Edits -> EditStates] /\ items \subseteq Rows /\ added \in 0 .. MaxRows
      /\ cart \in {"active", "expired", "converted"} /\ late \in BOOLEAN /\ EditKnows
  BY DEF CheckoutInv, TypeOK
<1>2. CASE TimeUp
  BY <1>1, <1>2, CartMoves DEF TimeUp, EditKnows
<1>3. CASE UNCHANGED vars
  BY <1>1, <1>3, CartMoves DEF vars, cartVars, orderVars, EditKnows
<1>4. ASSUME NEW c \in Calls, CallStep(c) \/ BreakOff(c) PROVE CheckoutInv'
  BY <1>4, ReadsKeep, InsertKeeps, SnapshotKeeps, IntentKeeps, StatusKeeps, ConvertKeeps DEF CallStep
<1> QED
  BY <1>2, <1>3, <1>4, EditKeeps DEF Next

(* CheckoutInv holds in every reachable state: what each program counter of  *)
(* a call implies of its order, its items and its PaymentIntent.             *)
THEOREM CheckoutInductive == Spec => []CheckoutInv
  BY InvInit, StepKeeps, PTL DEF Spec

(* However often the buyer clicks, retries or opens a second tab, a cart     *)
(* leads to one PaymentIntent (checkout.ts).                                 *)
THEOREM OneIntentAlways == Spec => []OneIntentPerCart
<1>1. CheckoutInv => OneIntentPerCart
  <2> SUFFICES ASSUME CheckoutInv PROVE Cardinality(intents) <= 1
    BY DEF OneIntentPerCart
  <2>1. \A i, j \in intents : i = j
    <3>1. \A i \in intents : i.order \in Calls /\ Placed(i.order)
      <4>1. intents \subseteq [order : Calls, amount : Nat]
        BY DEF CheckoutInv, TypeOK
      <4> QED
        BY <4>1 DEF CheckoutInv, IntentsKnown
    <3> QED
      BY <3>1 DEF CheckoutInv, IntentsKnown, OneOrder
  <2>2. CASE intents = {}
    BY <2>2, FS_EmptySet
  <2>3. ASSUME NEW i \in intents PROVE Cardinality(intents) <= 1
    <3>1. intents = {i}
      BY <2>1
    <3>2. Cardinality({i}) = 1
      BY FS_Singleton, Zenon
    <3> QED
      BY <3>1, <3>2
  <2> QED
    BY <2>2, <2>3
<1> QED
  BY <1>1, CheckoutInductive, PTL

(* A converted cart can be resumed: its order has a PaymentIntent to hand    *)
(* out, also when the call that converted it died (checkout.ts).             *)
THEOREM ConvertedResumableAlways == Spec => []ConvertedResumable
<1>1. CheckoutInv => ConvertedResumable
  BY DEF CheckoutInv
<1> QED
  BY <1>1, CheckoutInductive, PTL

------------------------------------------------------------------------------
LEMMA IntentOrder ==
  ASSUME CheckoutInv, NEW i \in intents
  PROVE  i.order \in Calls /\ Placed(i.order)
<1>1. intents \subseteq [order : Calls, amount : Nat]
  BY DEF CheckoutInv, TypeOK
<1> QED
  BY <1>1 DEF CheckoutInv, IntentsKnown

(* A step that changes no amount and no item of an order.                    *)
LEMMA PriceKept ==
  ASSUME CheckoutInv, PriceInv, UNCHANGED <<lines, intents>>,
         \A o \in Calls : orders'[o].total = orders[o].total
                         /\ orders'[o].discount = orders[o].discount,
         \A c \in Calls : \/ call'[c] = call[c]
                         \/ call'[c].pc \notin {"insert", "snapshot", "intent"}
  PROVE  PriceInv'
<1>1. \A c \in Calls : PriceOf(c)'
  BY DEF PriceInv, PriceOf
<1>2. ASSUME NEW i \in intents PROVE Charged(i)'
  BY <1>2, IntentOrder DEF PriceInv, Charged
<1> QED
  BY <1>1, <1>2 DEF PriceInv

LEMMA PriceRead ==
  ASSUME CheckoutInv, PriceInv, NEW c \in Calls,
         Resume(c) \/ ReadCart(c) \/ ReadItems(c) \/ Reply(c) \/ BreakOff(c)
  PROVE  PriceInv'
<1>1. UNCHANGED <<orders, lines, intents>>
  BY DEF Resume, ReadCart, ReadItems, Reply, BreakOff, orderVars
<1>2. ASSUME NEW s \in CallStates, call' = [call EXCEPT ![c] = s],
             s.pc \notin {"insert", "snapshot", "intent"}
      PROVE  PriceInv'
  BY <1>1, <1>2, PriceKept, CallFields
<1>3. ASSUME NEW a \in {"refused", "conflict", "unavailable", "broken"},
             Answer(c, a) \/ \E o \in Calls : GiveSecret(c, o)
      PROVE  PriceInv'
  <2>1. PICK s \in CallStates : s.pc = "done" /\ call' = [call EXCEPT ![c] = s]
    BY <1>3, CallEnds
  <2> QED
    BY <1>2, <2>1
<1>4. ASSUME Goto(c, "items") PROVE PriceInv'
  <2>1. PICK s \in CallStates : s.pc = "items" /\ call' = [call EXCEPT ![c] = s]
    BY <1>4, GotoState
  <2> QED
    BY <1>2, <2>1
<1>5. CASE Resume(c)
  BY <1>3, <1>5 DEF Resume
<1>6. CASE ReadCart(c)
  BY <1>3, <1>4, <1>6 DEF ReadCart
<1>7. CASE ReadItems(c)
  <2>1. CASE Answer(c, "refused")
    BY <1>3, <2>1
  <2>2. ASSUME NEW off \in Discounts,
               LET subtotal == Subtotal(items)
                   discount == Discounted(off, subtotal)
               IN call' = [call EXCEPT ![c].pc = "insert", ![c].rows = items,
                             ![c].discount = discount, ![c].total = subtotal - discount]
        PROVE  PriceInv'
    <3>1. PICK subtotal \in Nat : subtotal = Subtotal(items)
      BY CallFields, SubtotalNat
    <3>2. PICK discount \in Nat : discount = Discounted(off, subtotal) /\ discount <= subtotal
      BY CheckoutAssumption DEF Discounted
    <3> DEFINE s == [call[c] EXCEPT !.pc = "insert", !.rows = items, !.discount = discount,
                                    !.total = subtotal - discount]
    <3>3. call' = [call EXCEPT ![c] = s]
      BY <2>2, <3>1, <3>2
    <3>4. s.pc = "insert" /\ s.rows = items /\ s.discount = discount /\ s.total = subtotal - discount
      BY CallFields DEF CallStates
    <3> HIDE DEF s
    <3>5. call'[c] = s /\ \A d \in Calls \ {c} : call'[d] = call[d]
      BY <3>3, CallFields
    <3>6. s.total + s.discount = Subtotal(s.rows)
      BY <3>1, <3>2, <3>4
    <3>7. PriceOf(c)'
      BY <3>4, <3>5, <3>6 DEF PriceOf
    <3>8. \A d \in Calls \ {c} : PriceOf(d)'
      BY <1>1, <3>5 DEF PriceInv, PriceOf
    <3>9. \A i \in intents : Charged(i)'
      BY <1>1 DEF PriceInv, Charged
    <3> QED
      BY <1>1, <3>7, <3>8, <3>9 DEF PriceInv
  <2> QED
    BY <1>7, <2>1, <2>2 DEF ReadItems
<1>8. CASE Reply(c)
  BY <1>3, <1>8 DEF Reply
<1>9. CASE BreakOff(c)
  BY <1>3, <1>9 DEF BreakOff
<1> QED
  BY <1>5, <1>6, <1>7, <1>8, <1>9

LEMMA PriceInsert ==
  ASSUME CheckoutInv, PriceInv, NEW c \in Calls, InsertOrder(c)
  PROVE  PriceInv'
<1>1. UNCHANGED <<lines, intents>> /\ call[c].pc = "insert"
  BY DEF InsertOrder, At
<1>2. CASE Ordered
  <2>1. PICK s \in CallStates : s.pc = "done" /\ call' = [call EXCEPT ![c] = s]
    BY <1>2, CallEnds DEF InsertOrder
  <2>2. orders' = orders
    BY <1>2 DEF InsertOrder
  <2> QED
    BY <1>1, <2>1, <2>2, PriceKept, CallFields
<1>3. CASE ~Ordered
  <2>1. PICK s \in CallStates :
          /\ s.pc = "snapshot" /\ s.rows = call[c].rows /\ s.total = call[c].total
          /\ s.discount = call[c].discount /\ call' = [call EXCEPT ![c] = s]
    BY <1>3, GotoState DEF InsertOrder
  <2>2. call'[c] = s /\ \A d \in Calls \ {c} : call'[d] = call[d]
    BY <2>1, CallFields
  <2>3. /\ orders'[c].total = call[c].total /\ orders'[c].discount = call[c].discount
        /\ \A d \in Calls \ {c} : orders'[d] = orders[d]
    BY <1>3, CallFields DEF InsertOrder
  <2>4. intents = {}
    BY <1>3, IntentOrder DEF Ordered
  <2>5. PriceOf(c)'
    BY <1>1, <2>1, <2>2, <2>3 DEF PriceInv, PriceOf
  <2>6. \A d \in Calls \ {c} : PriceOf(d)'
    BY <1>1, <2>2, <2>3 DEF PriceInv, PriceOf
  <2> QED
    BY <1>1, <2>4, <2>5, <2>6 DEF PriceInv
<1> QED
  BY <1>2, <1>3

LEMMA PriceSnapshot ==
  ASSUME CheckoutInv, PriceInv, NEW c \in Calls, SnapshotItem(c)
  PROVE  PriceInv'
<1>1. call[c].pc = "snapshot" /\ UNCHANGED <<orders, intents>> /\ \A i \in intents : i.order # c
  BY DEF SnapshotItem, At, CheckoutInv, CallKnows, PcKnows
<1>2. PICK r \in call[c].rows : lines' = [lines EXCEPT ![c] = @ \cup {r}]
  BY DEF SnapshotItem
<1>3. lines'[c] = lines[c] \cup {r} /\ \A d \in Calls \ {c} : lines'[d] = lines[d]
  BY <1>2, CallFields
<1>4. \A d \in Calls \ {c} : call'[d] = call[d]
  <2>1. CASE Goto(c, "intent")
    BY <2>1, CallFields DEF Goto
  <2>2. CASE UNCHANGED call
    BY <2>2
  <2> QED
    BY <2>1, <2>2 DEF SnapshotItem
<1>5. PriceOf(c)'
  <2>1. CASE lines'[c] = call[c].rows
    <3>1. Goto(c, "intent")
      BY <2>1 DEF SnapshotItem
    <3>2. PICK s \in CallStates :
            /\ s.pc = "intent" /\ s.rows = call[c].rows /\ s.total = call[c].total
            /\ s.discount = call[c].discount /\ call' = [call EXCEPT ![c] = s]
      BY <3>1, GotoState
    <3>3. call'[c] = s
      BY <3>2, CallFields
    <3> QED
      BY <1>1, <2>1, <3>2, <3>3 DEF PriceInv, PriceOf
  <2>2. CASE lines'[c] # call[c].rows
    <3>1. call' = call
      BY <2>2 DEF SnapshotItem
    <3> QED
      BY <1>1, <3>1 DEF PriceInv, PriceOf
  <2> QED
    BY <2>1, <2>2
<1>6. \A d \in Calls \ {c} : PriceOf(d)'
  BY <1>1, <1>3, <1>4 DEF PriceInv, PriceOf
<1>7. ASSUME NEW i \in intents PROVE Charged(i)'
  BY <1>1, <1>3, <1>7, IntentOrder DEF PriceInv, Charged
<1> QED
  BY <1>1, <1>5, <1>6, <1>7 DEF PriceInv

LEMMA PriceIntent ==
  ASSUME CheckoutInv, PriceInv, NEW c \in Calls, CreateIntent(c)
  PROVE  PriceInv'
<1>1. call[c].pc = "intent" /\ UNCHANGED <<orders, lines>>
  BY DEF CreateIntent, At, orderVars
<1>2. PICK s \in CallStates : s.pc \in {"attach", "fail"} /\ call' = [call EXCEPT ![c] = s]
  BY GotoState DEF CreateIntent
<1>3. call'[c] = s /\ \A d \in Calls \ {c} : call'[d] = call[d]
  BY <1>2, CallFields
<1>4. \A d \in Calls : PriceOf(d)'
  BY <1>1, <1>2, <1>3 DEF PriceInv, PriceOf
<1>5. PICK new : new = [order |-> c, amount |-> call[c].total]
  OBVIOUS
<1>6. intents' = intents \/ intents' = intents \cup {new}
  BY <1>5 DEF CreateIntent
<1>7. Charged(new)'
  BY <1>1, <1>5 DEF PriceInv, PriceOf, Charged
<1>8. \A i \in intents : Charged(i)'
  BY <1>1 DEF PriceInv, Charged
<1> QED
  BY <1>4, <1>6, <1>7, <1>8 DEF PriceInv

LEMMA PriceStatus ==
  ASSUME CheckoutInv, PriceInv, NEW c \in Calls, MarkFailed(c) \/ AttachIntent(c) \/ ConvertCart(c)
  PROVE  PriceInv'
<1>1. UNCHANGED <<lines, intents>> /\ orders[c] \in OrderRows
  BY CallFields DEF MarkFailed, AttachIntent, ConvertCart, orderVars
<1>2. \A o \in Calls : orders'[o].total = orders[o].total /\ orders'[o].discount = orders[o].discount
  BY <1>1, CallFields DEF MarkFailed, AttachIntent, ConvertCart, orderVars, OrderRows
<1>3. PICK s \in CallStates : s.pc \in {"done", "convert", "reply"} /\ call' = [call EXCEPT ![c] = s]
  BY CallEnds, GotoState DEF MarkFailed, AttachIntent, ConvertCart
<1> QED
  BY <1>1, <1>2, <1>3, PriceKept, CallFields

(* Every variable of the checkout model keeps its type (checkout.ts).        *)
THEOREM TypeCorrect == Spec => []TypeOK
<1>1. CheckoutInv => TypeOK
  BY DEF CheckoutInv
<1> QED
  BY <1>1, CheckoutInductive, PTL

(* What Stripe is asked to charge is what the order says and what its items  *)
(* add up to, though the cart may change during the whole checkout           *)
(* (checkout.ts).                                                            *)
THEOREM ChargedAlways == Spec => []ChargedAsOrdered
<1>1. Init => PriceInv
  <2> SUFFICES ASSUME Init PROVE PriceInv
    OBVIOUS
  <2>1. intents = {} /\ \A c \in Calls : call[c].pc = "idle"
    BY IdleKnows DEF Init
  <2> QED
    BY <2>1 DEF PriceInv, PriceOf
<1>2. CheckoutInv /\ PriceInv /\ [Next]_vars => PriceInv'
  <2> SUFFICES ASSUME CheckoutInv, PriceInv, [Next]_vars PROVE PriceInv'
    OBVIOUS
  <2>1. CASE TimeUp \/ (\E e \in Edits : EditStep(e)) \/ UNCHANGED vars
    <3>1. UNCHANGED <<orders, lines, intents, call>>
      BY <2>1 DEF TimeUp, EditStep, SeeExpired, Expire, OpenForAdd, OpenForUpdate, OpenForRemove,
                  OpenCart, LookForLine, InsertRow, SetQuantity, DeleteRow, EditsOnly, vars, orderVars
    <3> QED
      BY <3>1, PriceKept
  <2>2. ASSUME NEW c \in Calls, CallStep(c) \/ BreakOff(c) PROVE PriceInv'
    BY <2>2, PriceRead, PriceInsert, PriceSnapshot, PriceIntent, PriceStatus DEF CallStep
  <2> QED
    BY <2>1, <2>2 DEF Next
<1>3. PriceInv => ChargedAsOrdered
  BY DEF PriceInv, Charged, ChargedAsOrdered
<1> QED
  BY <1>1, <1>2, <1>3, CheckoutInductive, PTL DEF Spec
==============================================================================
