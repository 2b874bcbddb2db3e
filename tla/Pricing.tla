------------------------------- MODULE Pricing -------------------------------
(***************************************************************************)
(* The discount engine a cart is priced with: evaluatePricing of           *)
(* services/pricing-evaluator.ts.  Rules are loaded, filtered, sorted by   *)
(* precedence and applied one after another to what is left of the price.  *)
(* Amounts are cents, percentages whole numbers, times days.               *)
(***************************************************************************)
EXTENDS Ledger, SequencesExt

CONSTANTS
  RuleIds,
  RuleRows,   \* the rows of pricing_rules looked at
  Carts,      \* the calls looked at: subtotal, quantity, day, with or without event
  EventDay    \* events.event_date

VARIABLES
  bill,      \* the arguments of the call
  rules,     \* pricing_rules, by id
  sorted,    \* the applicable rules, highest precedence first
  running,   \* what is left to pay
  discounts, \* the discounts so far
  turnOf     \* the loop has dealt with the positions before this one

pricingVars == <<bill, rules, sorted, running, discounts, turnOf>>

Scopes == {"global", "event", "bundle", "photographer"}
Kinds == {"qty_discount", "time_window", "pre_event", "tier_uplift"}
Always == [from |-> -1000, to |-> 1000]   \* a rule without starts_at and ends_at

\* A row with its params; targeted: pricing_rule_targets names the event;
\* parses: the zod schema of its kind accepts the params.
RuleRow(r) ==
  /\ r.scope \in Scopes /\ r.kind \in Kinds /\ r.pct \in 0 .. 100
  /\ IsFiniteSet(r.tiers) /\ \A t \in r.tiers : t.min \in Int /\ t.pct \in 0 .. 100
  /\ {r.priority, r.created, r.days, r.from, r.to} \subseteq Int
  /\ {r.active, r.targeted, r.stackable, r.parses} \subseteq BOOLEAN

ASSUME PricingAssumption ==
  /\ IsFiniteSet(RuleIds) /\ EventDay \in Int /\ \A r \in RuleRows : RuleRow(r)
  /\ \A c \in Carts : /\ c.subtotal \in Nat /\ c.quantity \in Nat \ {0}
                      /\ c.day \in Int /\ c.event \in BOOLEAN

------------------------------------------------------------------------------
ScopeWeight(scope) ==
  CASE scope = "bundle" -> 4 [] scope = "photographer" -> 3 [] scope = "event" -> 2 [] OTHER -> 1

\* loadCandidateRules: the global rules, and those aimed at the event.
Candidate(r, c) ==
  /\ r.active /\ r.kind # "tier_uplift"
  /\ r.scope = "global" \/ (c.event /\ r.targeted)

\* The tiers a quantity reaches, and the percentage of the highest.
Reached(r, quantity) == {t \in r.tiers : t.min <= quantity}
SelectQtyDiscountPct(r, quantity) ==
  LET best == Max({t.min : t \in Reached(r, quantity)})
  IN (CHOOSE t \in Reached(r, quantity) : t.min = best).pct

IsRuleApplicable(r, c) ==
  /\ r.parses
  /\ \/ r.kind = "qty_discount" /\ Reached(r, c.quantity) # {}
     \/ r.kind = "time_window" /\ r.from <= c.day /\ c.day <= r.to
     \/ r.kind = "pre_event" /\ c.event /\ EventDay - r.days <= c.day /\ c.day < EventDay

Applicable == {i \in RuleIds : Candidate(rules[i], bill) /\ IsRuleApplicable(rules[i], bill)}

\* The comparator: priority, then scope, then age.
Precedes(a, b) ==
  \/ a.priority > b.priority
  \/ a.priority = b.priority /\ ScopeWeight(a.scope) > ScopeWeight(b.scope)
  \/ /\ a.priority = b.priority /\ ScopeWeight(a.scope) = ScopeWeight(b.scope)
     /\ a.created < b.created

\* What the sort may leave, the order of equal rules being the database's.
Sorted(s) ==
  /\ Range(s) = Applicable /\ Len(s) = Cardinality(Applicable)
  /\ \A m, n \in DOMAIN s : m < n => ~Precedes(rules[s[n]], rules[s[m]])

GetPct(i) ==
  IF rules[i].kind = "qty_discount" THEN SelectQtyDiscountPct(rules[i], bill.quantity)
  ELSE rules[i].pct

\* The positions used: a top rule that does not stack stands alone; else all that stack.
Chosen ==
  IF sorted = <<>> THEN {}
  ELSE IF ~rules[sorted[1]].stackable THEN {1}
  ELSE {k \in DOMAIN sorted : rules[sorted[k]].stackable}

\* Math.round of pct per cent of the base, computed exactly; the code multiplies floats,
\* which may fall just below a half that is exact here.
CentsFromPct(pct, base) == (2 * base * pct + 100) \div 200

\* Mutant: every percentage is one of the original subtotal.
OfSubtotal(i) == CentsFromPct(GetPct(i), bill.subtotal)

Amount(i) == CentsFromPct(GetPct(i), running)

PricingInit ==
  /\ bill \in Carts /\ rules \in [RuleIds -> RuleRows]
  /\ \E s \in SeqOf(RuleIds, Cardinality(RuleIds)) : sorted = s /\ Sorted(s)
  /\ running = bill.subtotal /\ discounts = <<>> /\ turnOf = 1

\* One round of the loop of buildDiscounts; nothing left to pay ends it.
ApplyRule ==
  \E k \in Chosen :
    /\ turnOf <= k /\ \A m \in Chosen : m < k => m < turnOf
    /\ running > 0 \/ ~rules[sorted[1]].stackable
    /\ LET i == sorted[k] IN
         /\ discounts' = Append(discounts, [rule |-> i, cents |-> Amount(i)])
         /\ running' = IF Amount(i) > running THEN 0 ELSE running - Amount(i)
    /\ turnOf' = k + 1
    /\ UNCHANGED <<bill, rules, sorted>>

PricingNext == ApplyRule
PricingSpec == PricingInit /\ [][PricingNext]_pricingVars

------------------------------------------------------------------------------
Priced == (\A k \in Chosen : k < turnOf) \/ (running = 0 /\ rules[sorted[1]].stackable)
Listed == {discounts[n].rule : n \in DOMAIN discounts}
SumOfDiscounts == SumOf([n \in DOMAIN discounts |-> discounts[n].cents])
\* What the percentages leave of a hundred, one after another, and the hundreds.
Product(f) == FoldFunction(LAMBDA a, b : a * b, 1, f)
Kept == Product([n \in DOMAIN discounts |-> 100 - GetPct(discounts[n].rule)])
Hundreds == Product([n \in DOMAIN discounts |-> 100])

\* The breakdown adds up to what the buyer saves, no rule counts twice, and what
\* is left is what the percentages leave of one another, to half a cent a rule
\* (buildDiscounts and the clamps of evaluatePricing and checkout.ts).
QuoteExact ==
  LET n == Len(discounts)
      error == Hundreds * running - bill.subtotal * Kept
  IN /\ SumOfDiscounts = bill.subtotal - running /\ running \in 0 .. bill.subtotal
     /\ Cardinality(Listed) = n
     /\ 2 * error <= n * Hundreds /\ -(2 * error) <= n * Hundreds

\* A rule that does not stack is used alone and only when no other precedes it;
\* and a rule that applies and is not listed was beaten by such a rule, or does
\* not stack and comes after one that does (buildDiscounts).
TopRuleDecides ==
  /\ \A i \in Listed : ~rules[i].stackable =>
       Listed = {i} /\ \A j \in Applicable : ~Precedes(rules[j], rules[i])
  /\ Priced /\ running > 0 => \A i \in Applicable \ Listed :
       \E top \in Listed : /\ ~Precedes(rules[i], rules[top])
                           /\ rules[top].stackable => ~rules[i].stackable

\* What the buyer is quoted follows the rules to the cent and by their precedence.
QuoteSound == QuoteExact /\ TopRuleDecides
==============================================================================
