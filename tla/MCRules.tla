------------------------------- MODULE MCRules -------------------------------
(* Three rules of cents, one per behaviour: Allocation hands out the cents  *)
(* of a split, Pricing takes discounts off, Attribution credits a sale; the *)
(* other two have one state each.                                           *)
EXTENDS Allocation, Pricing, Attribution

CONSTANTS rule1, rule2, rule3
VARIABLE subject   \* which of the three runs

SmallTotals == -4 .. 16
SmallWeights == UNION {[1 .. n -> 0 .. 3] : n \in 1 .. 3} \cup {<<4, 1, 1>>, <<5, 2, 5>>, <<1, 4, 4, 1>>}
SmallGross == 36 .. 54

NewRule == [scope |-> "global", kind |-> "time_window", tiers |-> {}, pct |-> 15, days |-> 0,
            from |-> Always.from, to |-> Always.to, priority |-> 0, created |-> 1,
            stackable |-> TRUE, parses |-> TRUE, targeted |-> TRUE, active |-> TRUE]
SmallRules ==
  {[NewRule EXCEPT !.stackable = b, !.pct = p] : b \in BOOLEAN, p \in {15, 50}} \cup
  {[NewRule EXCEPT !.scope = "event", !.created = 2],
   [NewRule EXCEPT !.scope = "bundle", !.priority = 1, !.pct = 100],
   [NewRule EXCEPT !.active = FALSE], [NewRule EXCEPT !.to = 4],
   [NewRule EXCEPT !.kind = "pre_event", !.days = 3, !.stackable = FALSE, !.pct = 7],
   [NewRule EXCEPT !.kind = "qty_discount", !.priority = 1,
                   !.tiers = {[min |-> 2, pct |-> 10], [min |-> 5, pct |-> 33]}]}
SmallCarts ==
  {[subtotal |-> s, quantity |-> q, day |-> 5, event |-> TRUE] : s \in {0, 1, 5, 333}, q \in {1, 5}}
  \cup {[subtotal |-> 10, quantity |-> 2, day |-> 7, event |-> e] : e \in BOOLEAN}

SmallLines ==
  {[photo |-> TRUE, photos |-> {p}, cents |-> 50] : p \in Photos} \cup
  {[photo |-> FALSE, photos |-> s, cents |-> 100] : s \in SUBSET Photos}

NoSplit == total = 0 /\ weights = <<1>>
NoQuote ==
  /\ bill = [subtotal |-> 0, quantity |-> 1, day |-> 5, event |-> TRUE]
  /\ rules = [i \in RuleIds |-> [NewRule EXCEPT !.active = FALSE]] /\ sorted = <<>>
NoSale ==
  /\ lines = <<[photo |-> FALSE, photos |-> {}, cents |-> 100]>> /\ paid = 100
  /\ author = [p \in Photos |-> Nobody] /\ percent = [u \in Payees |-> NoPercent]

RulesInit ==
  /\ \/ subject = "split" /\ NoQuote /\ NoSale
     \/ subject = "price" /\ NoSplit /\ NoSale
     \/ subject = "credit" /\ NoSplit /\ NoQuote
  /\ Init /\ PricingInit /\ AttributionInit

RulesNext ==
  \/ subject = "split" /\ Next /\ UNCHANGED <<pricingVars, attributionVars, subject>>
  \/ subject = "price" /\ PricingNext /\ UNCHANGED <<vars, attributionVars, subject>>
  \/ subject = "credit" /\ AttributionNext /\ UNCHANGED <<vars, pricingVars, subject>>

allVars == <<vars, pricingVars, attributionVars, subject>>
RulesSpec == RulesInit /\ [][RulesNext]_allVars /\ WF_vars(subject = "split" /\ Next)
==============================================================================
