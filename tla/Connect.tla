------------------------------- MODULE Connect -------------------------------
(***************************************************************************)
(* A photographer's Stripe Connect account (services/connect.ts, reached   *)
(* from routes/me-kyc.ts and from the Stripe webhook): calls of            *)
(* startOnboarding overlap and break off at any step, Stripe keeps         *)
(* idempotency keys for a day, and the account.updated events it sends for *)
(* every change arrive in any order.                                       *)
(***************************************************************************)
EXTENDS Integers, Sequences

CONSTANTS
  Starts,       \* calls of POST /v1/me/kyc/start
  Countries,    \* what their bodies ask for
  MaxReports    \* bound on the changes Stripe reports

ASSUME ConnectAssumption == MaxReports \in Nat /\ Countries # {}

VARIABLES
  accounts,   \* Stripe: the accounts made, by the country of each
  key,        \* Stripe: the account made under connect-acct:<photographer>, or 0
  expired,    \* Stripe: the key was forgotten
  reports,    \* account.updated events in the order Stripe made them
  arrived,    \* those delivered
  row,        \* the payout_accounts row
  ledgered,   \* the photographer has a ledger account
  starts,     \* where the calls stand
  overtaken   \* history: an event was overtaken, or lost, or came before the row

connectVars == <<accounts, key, expired, reports, arrived, row, ledgered, starts, overtaken>>

Caps == [charges : BOOLEAN, payouts : BOOLEAN, reason : BOOLEAN]
Nothing == [charges |-> FALSE, payouts |-> FALSE, reason |-> FALSE]

DeriveStatus(caps) ==
  CASE caps.charges /\ caps.payouts -> "active"
    [] ~(caps.charges /\ caps.payouts) /\ caps.reason -> "restricted"
    [] OTHER -> "pending_kyc"

\* No code makes a row without an account, or leads to "rejected".
PayoutAccount == [account : Nat, caps : Caps, status : {"none", "pending_kyc", "active", "restricted"}]
StartAt(k, pc) == starts[k].pc = pc
StartGoes(k, pc) == starts' = [starts EXCEPT ![k].pc = pc]
NoStart == [pc |-> "idle", country |-> CHOOSE c \in Countries : TRUE, account |-> 0]
StartEnds(k) == starts' = [starts EXCEPT ![k] = NoStart]

------------------------------------------------------------------------------

\* With an account only a new link is made, which changes nothing here.
StartOnboarding(k, country) ==
  /\ StartAt(k, "idle") /\ row.account = 0
  /\ starts' = [starts EXCEPT ![k] = [pc |-> "create", country |-> country, account |-> 0]]
  /\ UNCHANGED <<accounts, key, expired, reports, arrived, row, ledgered, overtaken>>

\* Mutant: each call has a key of its own.
CreateAccountUnkeyed(k) ==
  /\ StartAt(k, "create") /\ accounts' = Append(accounts, starts[k].country) /\ key' = key
  /\ starts' = [starts EXCEPT ![k].pc = "store", ![k].account = Len(accounts')]
  /\ UNCHANGED <<expired, reports, arrived, row, ledgered, overtaken>>

\* Stripe answers a key it knows with the account it made, and refuses one that
\* comes with another country.
CreateAccount(k) ==
  /\ StartAt(k, "create")
  /\ \/ /\ key = 0 /\ accounts' = Append(accounts, starts[k].country) /\ key' = Len(accounts')
        /\ starts' = [starts EXCEPT ![k].pc = "store", ![k].account = Len(accounts')]
     \/ /\ key # 0 /\ accounts[key] = starts[k].country /\ UNCHANGED <<accounts, key>>
        /\ starts' = [starts EXCEPT ![k].pc = "store", ![k].account = key]
     \/ /\ key # 0 /\ accounts[key] # starts[k].country /\ UNCHANGED <<accounts, key>>
        /\ StartEnds(k)
  /\ UNCHANGED <<expired, reports, arrived, row, ledgered, overtaken>>

\* Stripe made the account, its answer is lost: 'stripe_error'.
CreateUnanswered(k) ==
  /\ StartAt(k, "create") /\ key = 0 /\ StartEnds(k)
  /\ accounts' = Append(accounts, starts[k].country) /\ key' = Len(accounts')
  /\ UNCHANGED <<expired, reports, arrived, row, ledgered, overtaken>>

\* The insert throws when another call inserted the photographer's row first.
StoreAccount(k) ==
  /\ StartAt(k, "store")
  /\ IF row.account = 0
     THEN /\ row' = [account |-> starts[k].account, caps |-> Nothing, status |-> "pending_kyc"]
          /\ StartGoes(k, "ensure")
     ELSE row' = row /\ StartEnds(k)
  /\ UNCHANGED <<accounts, key, expired, reports, arrived, ledgered, overtaken>>

\* One row by its unique index, whoever finds or inserts it.
EnsurePhotographerAccount(k) ==
  /\ StartAt(k, "ensure") /\ StartEnds(k) /\ ledgered' = TRUE
  /\ UNCHANGED <<accounts, key, expired, reports, arrived, row, overtaken>>

\* The split of an order and a payout run ensure it too.
EnsureElsewhere ==
  /\ ~ledgered /\ ledgered' = TRUE
  /\ UNCHANGED <<accounts, key, expired, reports, arrived, row, starts, overtaken>>

StartDies(k) ==
  /\ ~StartAt(k, "idle") /\ StartEnds(k)
  /\ UNCHANGED <<accounts, key, expired, reports, arrived, row, ledgered, overtaken>>

\* A day later; no call is at work that long.
KeyExpires ==
  /\ key # 0 /\ ~expired /\ key' = 0 /\ expired' = TRUE
  /\ \A k \in Starts : StartAt(k, "idle")
  /\ UNCHANGED <<accounts, reports, arrived, row, ledgered, starts, overtaken>>

------------------------------------------------------------------------------

Report(a, caps) ==
  /\ Len(reports) < MaxReports /\ a \in DOMAIN accounts
  /\ reports' = Append(reports, [account |-> a, caps |-> caps])
  /\ UNCHANGED <<accounts, key, expired, arrived, row, ledgered, starts, overtaken>>

Undelivered == DOMAIN reports \ arrived
InOrder(i) == \A j \in arrived : reports[j].account = reports[i].account => j < i

HandleAccountUpdated(i) ==
  /\ i \in Undelivered /\ arrived' = arrived \cup {i}
  /\ row' = IF row.account = reports[i].account
            THEN [row EXCEPT !.caps = reports[i].caps, !.status = DeriveStatus(reports[i].caps)]
            ELSE row
  /\ overtaken' = (overtaken \/ ~InOrder(i) \/ row.account # reports[i].account)
  /\ UNCHANGED <<accounts, key, expired, reports, ledgered, starts>>

\* The process dies between the claim of the event and the update.
EventLost(i) ==
  /\ i \in Undelivered /\ arrived' = arrived \cup {i} /\ overtaken' = TRUE
  /\ UNCHANGED <<accounts, key, expired, reports, row, ledgered, starts>>

------------------------------------------------------------------------------

ConnectInit ==
  /\ accounts = <<>> /\ key = 0 /\ expired = FALSE
  /\ reports = <<>> /\ arrived = {} /\ overtaken = FALSE
  /\ row = [account |-> 0, caps |-> Nothing, status |-> "none"] /\ ledgered = FALSE
  /\ starts = [k \in Starts |-> NoStart]

ConnectNext ==
  \/ \E k \in Starts :
       \/ \E c \in Countries : StartOnboarding(k, c)
       \/ CreateAccount(k) \/ CreateUnanswered(k) \/ StoreAccount(k)
       \/ EnsurePhotographerAccount(k) \/ StartDies(k)
  \/ EnsureElsewhere \/ KeyExpires
  \/ \E a \in DOMAIN accounts, caps \in Caps : Report(a, caps)
  \/ \E i \in DOMAIN reports : HandleAccountUpdated(i) \/ EventLost(i)

ConnectSpec == ConnectInit /\ [][ConnectNext]_connectVars

------------------------------------------------------------------------------

ConnectTypeOK ==
  /\ accounts \in Seq(Countries) /\ reports \in Seq([account : Nat, caps : Caps])
  /\ key \in {0} \cup DOMAIN accounts /\ {expired, ledgered, overtaken} \subseteq BOOLEAN
  /\ \A i \in DOMAIN reports : reports[i].account \in DOMAIN accounts
  /\ arrived \subseteq DOMAIN reports /\ row \in PayoutAccount /\ row.account \in {0} \cup DOMAIN accounts
  /\ starts \in [Starts -> [pc : {"idle", "create", "store", "ensure"},
                            country : Countries, account : {0} \cup DOMAIN accounts]]

\* A Stripe account that is paid is never replaced by another.
PayeeStays == row.account # 0 => row'.account = row.account

(* Overlapping, repeated and broken-off onboardings make one Stripe account *)
(* while Stripe knows the key, the account that is paid stays the same, and *)
(* its flags are Stripe's last word once its events all came, in order.     *)
OnePayee ==
  /\ [](expired \/ Len(accounts) <= 1)
  /\ [](Undelivered = {} /\ ~overtaken /\ reports # <<>>
        => row.caps = reports[Len(reports)].caps /\ row.status = DeriveStatus(row.caps))
  /\ [][PayeeStays]_connectVars
=============================================================================
