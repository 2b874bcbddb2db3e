---------------------------- MODULE Attribution ----------------------------
(***************************************************************************)
(* Who a sale is credited to (computeOrderSplit of services/order-split.ts)*)
(* line by line: a photo's line to its photographer, a bundle's by the     *)
(* photos each has in its snapshot, what nobody took to the event's        *)
(* members; then scaled to what was paid, and the net of the fees shared   *)
(* the same way.                                                           *)
(***************************************************************************)
EXTENDS Ledger, SequencesExt

CONSTANTS
  Payees,       \* users who are photographers or members of the event
  Photos,
  OrderLines,   \* the lines looked at, as [photo, photos, cents]
  MaxLines,     \* lines of an order
  Discounts,    \* what may be off the total
  Percents,     \* split_pct of a member
  Nobody,       \* no photographer
  Scale         \* cents are told apart this finely: every size of a snapshot divides it

\* A line of one photo has it; that of a bundle has the photos of its snapshot.
OrderLine(l) ==
  /\ l.photo \in BOOLEAN /\ l.cents \in Nat /\ l.photos \subseteq Photos
  /\ l.photo => \E p \in Photos : l.photos = {p}
  /\ l.photos # {} => Scale % Cardinality(l.photos) = 0

ASSUME AttributionAssumption ==
  /\ Nobody \notin Payees /\ IsFiniteSet(Payees) /\ IsFiniteSet(Photos) /\ Percents \subseteq Nat
  /\ Discounts \subseteq Nat /\ MaxLines \in Nat /\ Scale \in Nat \ {0}
  /\ \A l \in OrderLines : OrderLine(l)

NoPercent == -1

VARIABLES
  lines, paid,    \* order_items and orders.total_cents
  author,         \* photographer of each photo, Nobody when its row is gone
  percent,        \* split_pct by member of the event, NoPercent for who is none
  at,             \* the line looked at next
  gross,          \* grossMap: cents by photographer
  net             \* photographerNetByUserId, once computed

attributionVars == <<lines, paid, author, percent, at, gross, net>>

Cents(of) == SumOf([i \in DOMAIN of |-> of[i].cents])
NoShares == [u \in {} |-> 0]
Only(u, cents) == [v \in {u} |-> cents]

\* Each user's part of an amount, for every order a query may list them in.
Shares(cents, weight) ==
  UNION {{[u \in DOMAIN weight |-> part[CHOOSE i \in DOMAIN part : listed[i] = u]] :
            part \in Allocations(cents, [i \in DOMAIN listed |-> weight[listed[i]]])} :
         listed \in SetToSeqs(DOMAIN weight)}

Positive(shares) == Restrict(shares, {u \in DOMAIN shares : shares[u] > 0})

Members == {u \in Payees : percent[u] # NoPercent}

\* Members with a percentage; or else the first member listed, and with no member nobody.
ViaFallback(cents) ==
  LET paying == {u \in Members : percent[u] > 0}
  IN IF paying # {} THEN {Positive(s) : s \in Shares(cents, [u \in paying |-> percent[u]])}
     ELSE IF Members # {} THEN {Only(u, cents) : u \in Members}
     ELSE {NoShares}

\* Mutant: every photographer of the bundle counts alike.
OneEach(photos) == [u \in {author[p] : p \in photos} \ {Nobody} |-> 1]

\* Photos of a snapshot by photographer.
PhotoCount(photos) ==
  [u \in {author[p] : p \in photos} \ {Nobody} |-> Cardinality({p \in photos : author[p] = u})]

Plus(s, t) ==
  [u \in DOMAIN s \cup DOMAIN t |-> (IF u \in DOMAIN s THEN s[u] ELSE 0) + (IF u \in DOMAIN t THEN t[u] ELSE 0)]

ViaSnapshot(photos, cents) ==
  LET count == PhotoCount(photos)
      lost == Cardinality({p \in photos : author[p] = Nobody})
      known == IF lost = 0 THEN {cents}
               ELSE {a[1] : a \in Allocations(cents, <<Cardinality(photos) - lost, lost>>)}
      credited(k) == IF DOMAIN count = {} \/ k = 0 THEN {NoShares}
                     ELSE {Positive(s) : s \in Shares(k, count)}
      rest(k) == IF cents = k THEN {NoShares} ELSE ViaFallback(cents - k)
  IN UNION {{Plus(c, r) : c \in credited(k), r \in rest(k)} : k \in known}

Attributions(line) ==
  IF line.photo
  THEN LET p == CHOOSE p \in line.photos : TRUE
       IN IF author[p] # Nobody THEN {Only(author[p], line.cents)} ELSE ViaFallback(line.cents)
  ELSE IF line.photos = {} THEN ViaFallback(line.cents) ELSE ViaSnapshot(line.photos, line.cents)

------------------------------------------------------------------------------

AttributeLine ==
  /\ at <= Len(lines) /\ at' = at + 1
  /\ \E s \in Attributions(lines[at]) : gross' = Plus(gross, s)
  /\ UNCHANGED <<lines, paid, author, percent, net>>

FallBackFully ==
  /\ at = Len(lines) + 1 /\ DOMAIN gross = {} /\ at' = at + 1
  /\ \E s \in ViaFallback(paid) : gross' = s
  /\ UNCHANGED <<lines, paid, author, percent, net>>

\* With nothing to distribute, or nobody to credit, the split throws.
ComputeNet ==
  /\ at \in {Len(lines) + 1, Len(lines) + 2} /\ net = NoShares
  /\ DOMAIN gross # {} /\ Distributable(paid) > 0
  /\ \E g \in Shares(paid, gross) : \E s \in Shares(Distributable(paid), g) : net' = Positive(s)
  /\ at' = Len(lines) + 3
  /\ UNCHANGED <<lines, paid, author, percent, gross>>

AttributionInit ==
  /\ lines \in UNION {[1 .. n -> OrderLines] : n \in 1 .. MaxLines}
  /\ \E d \in Discounts : d < Cents(lines) /\ paid = Cents(lines) - d
  /\ author \in [Photos -> Payees \cup {Nobody}]
  /\ percent \in [Payees -> Percents \cup {NoPercent}]
  /\ at = 1 /\ gross = NoShares /\ net = NoShares

AttributionNext == AttributeLine \/ FallBackFully \/ ComputeNet

AttributionSpec == AttributionInit /\ [][AttributionNext]_attributionVars

------------------------------------------------------------------------------

\* Reference: a photographer's exact part of the lines, in cents times Scale.
Exact(u) ==
  SumOf([i \in DOMAIN lines |->
           lines[i].cents * Cardinality({p \in lines[i].photos : author[p] = u})
             * (Scale \div Cardinality(lines[i].photos))])
AllKnown == \A i \in DOMAIN lines : lines[i].photos # {} /\ \A p \in lines[i].photos : author[p] # Nobody
OrderedFrom == {author[p] : p \in UNION {lines[i].photos : i \in DOMAIN lines}}

\* All that is left of the fees is handed out, to the right people, and posted.
PaidOut ==
  /\ SumOf(net) = Distributable(paid)
  /\ \A o \in SetToSeqs(DOMAIN net) : Postable(SaleBatch(paid, [i \in DOMAIN o |-> net[o[i]]]))
  /\ DOMAIN net \subseteq OrderedFrom \cup Members

Proportional ==
  \A u \in DOMAIN net :
    LET off == Scale * Cents(lines) * net[u] - Distributable(paid) * Exact(u)
        slack == Scale * Cents(lines) * (Len(lines) + 2)
    IN -slack < off /\ off < slack

(* A split hands out all that is left of the fees, in a batch the ledger   *)
(* takes, to nobody but photographers of the order and members of the      *)
(* event; and while every photo has its photographer, each of them gets    *)
(* his part of the lines to within a cent a line and two of rounding,      *)
(* discount or not (computeOrderSplit).                                    *)
SplitEarned == net # NoShares => PaidOut /\ (AllKnown => Proportional)
=============================================================================
