------------------------------- MODULE Payouts -------------------------------
(***************************************************************************)
(* The weekly payout of one photographer: services/payouts.ts with the     *)
(* payouts and ledger_entries tables it writes and the Stripe transfers it *)
(* creates.  runPayouts loops over the payout accounts and its body reads  *)
(* and writes the rows of one account only, so one account stands for all. *)
(*                                                                         *)
(* Every database statement and every Stripe call of a handler is a step   *)
(* of its own; two reads are joined with the write after them only where   *)
(* no other step could tell the difference.                                *)
(***************************************************************************)
EXTENDS Integers, FiniteSets, FiniteSetsExt

CONSTANTS
  MaxSales,       \* bound on the orders that credit the photographer
  Amounts,        \* what a sale may credit, in cents
  MaxRefunds,     \* bound on the refunds that claw some of it back
  Runs,           \* concurrent callers of runPayouts (cron, manual trigger)
  Hooks,          \* concurrent deliveries of transfer.* webhooks
  OpenedAt,       \* the half-day in which the payout account was created
  MaxClock,       \* bound on the clock
  MaxFaults,      \* bound on failed calls (Stripe or database) and process deaths
  MaxRetries,     \* bound on admin retries
  MaxReversals    \* bound on transfers Stripe reverses

ASSUME PayoutsAssumption ==
  /\ Amounts \subseteq Nat \ {0}
  /\ MaxSales \in Nat /\ MaxRefunds \in Nat /\ OpenedAt \in Nat /\ MaxClock \in Nat /\ MaxFaults \in Nat
  /\ MaxRetries \in Nat /\ MaxReversals \in Nat

(***************************************************************************)
(* Time.  An even tick is the part of a payout date before the cron's      *)
(* 03:00, an odd tick what follows it, up to the next payout date.         *)
(***************************************************************************)
DateOf(t) == t \div 2
MidnightOf(d) == 2 * d
Sales == 1 .. MaxSales              \* numbered as they are paid for
PayoutIds == 1 .. (DateOf(MaxClock) + 1)
NoTransfer == -1

VARIABLES
  clock,      \* the current half-day
  credits,    \* ledger: sale credits of the photographer
  clawbacks,  \* ledger: refund debits of the photographer
  pairs,      \* ledger: payout pairs, by payout and by direction of the photographer's side
  payouts,    \* payouts table: id -> row
  transfers,  \* Stripe: transfers created, by payout and idempotency key
  reversed,   \* Stripe: transfers it reversed
  run,        \* callers of runPayouts
  hook,       \* webhook deliveries in progress
  retry,      \* the admin's retryPayout
  retries, faults, crashes,
  abandoned   \* history: payouts whose run broke off between the insert and the last status

vars == <<clock, credits, clawbacks, pairs, payouts, transfers, reversed,
          run, hook, retry, retries, faults, crashes, abandoned>>
ledgerVars == <<credits, clawbacks, pairs>>
stripeVars == <<transfers, reversed>>
procVars == <<run, hook, retry>>
counters == <<retries, faults, crashes, abandoned>>

Statuses == {"none", "pending", "sent", "paid", "failed"}
Keys == 0 .. MaxRetries             \* 0: `payout:{id}`;  n: the nth `payout:{id}:retry:{time}`
Transfers == [payout : PayoutIds, key : Keys]
Entries == [sale : Sales, amount : Nat, at : 0 .. MaxClock]
Pairs == [payout : PayoutIds, dir : {"debit", "credit"}]
Rows == [status : Statuses, periodEnd : 0 .. DateOf(MaxClock), net : Nat,
         transfer : Keys \cup {NoTransfer}]

RunStates == [pc : {"idle", "balance", "totals", "insert", "transfer", "post", "mark",
                    "audit", "fail"},
              payout : PayoutIds, net : Nat, outcome : {"no", "ended", "net_mismatch"}]
HookStates == [pc : {"idle", "repost", "markpaid", "reverse", "markfailed"},
               payout : PayoutIds, seen : Statuses]
RetryStates == [pc : {"idle", "post", "transfer", "mark"}, payout : PayoutIds, key : Keys]

NoRow == [status |-> "none", periodEnd |-> 0, net |-> 0, transfer |-> NoTransfer]
IdleRun == [pc |-> "idle", payout |-> 1, net |-> 0, outcome |-> "no"]
IdleHook == [pc |-> "idle", payout |-> 1, seen |-> "none"]
IdleRetry == [pc |-> "idle", payout |-> 1, key |-> 0]

-----------------------------------------------------------------------------
(* Reading the ledger *)

Total(entries) == MapThenSumSet(LAMBDA e : e.amount, entries)
Posted(p, dir) == [payout |-> p, dir |-> dir] \in pairs
PairTotal(dir) ==
  MapThenSumSet(LAMBDA p : payouts[p].net, {p \in PayoutIds : Posted(p, dir)})

(* accountBalanceCents of the photographer's account *)
Balance == Total(credits) - Total(clawbacks) - PairTotal("debit") + PairTotal("credit")

Used == {p \in PayoutIds : payouts[p].status # "none"}

(* latestPayout: whatever became of it *)
LastPeriodEnd == Max({payouts[p].periodEnd : p \in Used})
Since == IF Used = {} THEN OpenedAt ELSE MidnightOf(LastPeriodEnd)
InPeriod(entries) == {e \in entries : e.at >= Since}
PeriodNet == Total(InPeriod(credits)) - Total(InPeriod(clawbacks))

-----------------------------------------------------------------------------
Init ==
  /\ clock = 0
  /\ credits = {} /\ clawbacks = {} /\ pairs = {}
  /\ payouts = [p \in PayoutIds |-> NoRow]
  /\ transfers = {} /\ reversed = {}
  /\ run = [r \in Runs |-> IdleRun]
  /\ hook = [h \in Hooks |-> IdleHook]
  /\ retry = IdleRetry
  /\ retries = 0 /\ faults = 0 /\ crashes = 0 /\ abandoned = {}

(***************************************************************************)
(* Surroundings: time, sales, refunds, Stripe.                             *)
(***************************************************************************)

(* Runs are a week apart and take seconds: time passes between them. *)
Tick ==
  /\ clock < MaxClock
  /\ \A r \in Runs : run[r].pc = "idle"
  /\ clock' = clock + 1
  /\ run' = [r \in Runs |-> IdleRun]
  /\ UNCHANGED <<ledgerVars, payouts, stripeVars, hook, retry, counters>>

(* recordOrderSale credits the photographer, once per order. *)
RecordSale(s) ==
  /\ s = Cardinality(credits) + 1
  /\ \E a \in Amounts : credits' = credits \cup {[sale |-> s, amount |-> a, at |-> clock]}
  /\ UNCHANGED <<clock, clawbacks, pairs, payouts, stripeVars, procVars, counters>>

(* decideRefund claws back a share of what the sale credited. *)
RecordRefund(s) ==
  /\ \A e \in clawbacks : e.sale # s
  /\ Cardinality(clawbacks) < MaxRefunds
  /\ \E c \in credits : \E a \in Amounts :
       /\ c.sale = s /\ a <= c.amount
       /\ clawbacks' = clawbacks \cup {[sale |-> s, amount |-> a, at |-> clock]}
  /\ UNCHANGED <<clock, credits, pairs, payouts, stripeVars, procVars, counters>>

(* The connected account's bank refuses the money: Stripe takes it back. *)
ReverseTransfer(t) ==
  /\ t \notin reversed /\ Cardinality(reversed) < MaxReversals
  /\ reversed' = reversed \cup {t}
  /\ UNCHANGED <<clock, ledgerVars, payouts, transfers, procVars, counters>>

Failing == faults + crashes < MaxFaults /\ faults' = faults + 1 /\ UNCHANGED <<retries, crashes>>
Dying == faults + crashes < MaxFaults /\ crashes' = crashes + 1 /\ UNCHANGED <<retries, faults>>
Fault == Failing /\ UNCHANGED abandoned
NoFault == UNCHANGED counters
Crash == Dying /\ UNCHANGED abandoned

-----------------------------------------------------------------------------
(***************************************************************************)
(* runPayouts                                                              *)
(***************************************************************************)
At(r, pc) == run[r].pc = pc
Goto(r, pc) == run' = [run EXCEPT ![r].pc = pc]
End(r, reason) == run' = [run EXCEPT ![r] = [IdleRun EXCEPT !.outcome = reason]]

(* The run has inserted the row and has not written what became of it. *)
AtWork == {"transfer", "post", "mark", "fail"}
BreakOff(r) ==
  /\ abandoned' = IF run[r].pc \in AtWork THEN abandoned \cup {run[r].payout} ELSE abandoned
  /\ End(r, "ended")

(* The pair is written in one transaction and the dedupe index swallows    *)
(* the entries that are already there.                                     *)
PostPair(p) == pairs' = pairs \cup {[payout |-> p, dir |-> "debit"]}
ReversePair(p) == pairs' = pairs \cup {[payout |-> p, dir |-> "credit"]}

(* The cron fires at 03:00; the account must exist by then. *)
StartRun(r) ==
  /\ At(r, "idle") /\ run[r].outcome = "no"
  /\ clock % 2 = 1 /\ clock >= OpenedAt
  /\ Goto(r, "balance")
  /\ UNCHANGED <<clock, ledgerVars, payouts, stripeVars, hook, retry, counters>>

ReadBalance(r) ==
  /\ At(r, "balance")
  /\ IF Balance \in Nat \ {0}
     THEN run' = [run EXCEPT ![r].net = Balance, ![r].pc = "totals"]
     ELSE End(r, "ended")
  /\ UNCHANGED <<clock, ledgerVars, payouts, stripeVars, hook, retry, counters>>

(* latestPayout and periodTotals: only another run of the same date could  *)
(* come between the two reads, and then the insert is refused anyway.      *)
CheckTotals(r) ==
  /\ At(r, "totals")
  /\ IF PeriodNet = run[r].net THEN Goto(r, "insert") ELSE End(r, "net_mismatch")
  /\ UNCHANGED <<clock, ledgerVars, payouts, stripeVars, hook, retry, counters>>

(* A mistake the properties catch: no unique index on the period. *)
NeverRun == FALSE

(* insert .. onConflictDoNothing on the unique index (account, period_end) *)
AlreadyRun == \E p \in Used : payouts[p].periodEnd = DateOf(clock)

(* A mistake the properties catch: the pair is posted before the transfer. *)
InsertThenPost(r) ==
  /\ At(r, "insert") /\ ~AlreadyRun
  /\ \E p \in PayoutIds \ Used :
       /\ payouts' = [payouts EXCEPT ![p] =
            [status |-> "pending", periodEnd |-> DateOf(clock),
             net |-> run[r].net, transfer |-> NoTransfer]]
       /\ run' = [run EXCEPT ![r].pc = "post", ![r].payout = p]
  /\ UNCHANGED <<clock, ledgerVars, stripeVars, hook, retry, counters>>

InsertPayout(r) ==
  /\ At(r, "insert")
  /\ IF AlreadyRun
     THEN End(r, "ended") /\ UNCHANGED payouts
     ELSE \E p \in PayoutIds \ Used :
            /\ \A q \in PayoutIds \ Used : p <= q
            /\ payouts' = [payouts EXCEPT ![p] =
                 [status |-> "pending", periodEnd |-> DateOf(clock),
                  net |-> run[r].net, transfer |-> NoTransfer]]
            /\ run' = [run EXCEPT ![r].pc = "transfer", ![r].payout = p]
  /\ UNCHANGED <<clock, ledgerVars, stripeVars, hook, retry, counters>>

(* Mistakes the properties catch: the pair is forgotten; a call that fails *)
(* leaves the row as it is.                                                *)
TransferThenMark(r) ==
  /\ At(r, "transfer") /\ NoFault /\ Goto(r, "mark")
  /\ transfers' = transfers \cup {[payout |-> run[r].payout, key |-> 0]}
  /\ UNCHANGED <<clock, ledgerVars, payouts, reversed, hook, retry>>
TransferOrGiveUp(r) ==
  /\ At(r, "transfer")
  /\ \/ /\ transfers' = transfers \cup {[payout |-> run[r].payout, key |-> 0]}
        /\ NoFault /\ Goto(r, "post")
     \/ UNCHANGED transfers /\ Fault /\ End(r, "ended")
  /\ UNCHANGED <<clock, ledgerVars, payouts, reversed, hook, retry>>

(* getPlatformAccountId is awaited before the try: when it throws, the     *)
(* whole run rejects and the row stays as inserted.  Then Stripe creates   *)
(* the transfer and answers; creates it and the answer is lost; or refuses *)
(* it.                                                                     *)
CreateTransfer(r) ==
  /\ At(r, "transfer")
  /\ \/ UNCHANGED transfers /\ Failing /\ BreakOff(r)
     \/ \E created, answered \in BOOLEAN :
          /\ answered => created
          /\ transfers' = IF created
                          THEN transfers \cup {[payout |-> run[r].payout, key |-> 0]}
                          ELSE transfers
          /\ IF answered THEN NoFault /\ Goto(r, "post") ELSE Fault /\ Goto(r, "fail")
  /\ UNCHANGED <<clock, ledgerVars, payouts, reversed, hook, retry>>

PostRunPair(r) ==
  /\ At(r, "post")
  /\ \/ PostPair(run[r].payout) /\ NoFault /\ Goto(r, "mark")
     \/ UNCHANGED pairs /\ Fault /\ Goto(r, "fail")
  /\ UNCHANGED <<clock, credits, clawbacks, payouts, stripeVars, hook, retry>>

MarkSent(r) ==
  /\ At(r, "mark")
  /\ \/ /\ payouts' = [payouts EXCEPT ![run[r].payout].status = "sent",
                                      ![run[r].payout].transfer = 0]
        /\ NoFault /\ Goto(r, "audit")
     \/ UNCHANGED payouts /\ Fault /\ Goto(r, "fail")
  /\ UNCHANGED <<clock, ledgerVars, stripeVars, hook, retry>>

(* The audit write is inside the try: when it throws, the run is failed. *)
AuditSent(r) ==
  /\ At(r, "audit")
  /\ \/ NoFault /\ End(r, "ended")
     \/ Fault /\ Goto(r, "fail")
  /\ UNCHANGED <<clock, ledgerVars, payouts, stripeVars, hook, retry>>

(* The update in the catch block may throw as well. *)
MarkRunFailed(r) ==
  /\ At(r, "fail")
  /\ \/ /\ payouts' = [payouts EXCEPT ![run[r].payout].status = "failed"]
        /\ NoFault /\ End(r, "ended")
     \/ UNCHANGED payouts /\ Failing /\ BreakOff(r)
  /\ UNCHANGED <<clock, ledgerVars, stripeVars, hook, retry>>

(* The process dies, or a read before the insert throws. *)
CrashRun(r) ==
  /\ ~At(r, "idle") /\ Dying
  /\ BreakOff(r)
  /\ UNCHANGED <<clock, ledgerVars, payouts, stripeVars, hook, retry>>

RunStep(r) ==
  \/ ReadBalance(r) \/ CheckTotals(r) \/ InsertPayout(r) \/ CreateTransfer(r)
  \/ PostRunPair(r) \/ MarkSent(r) \/ AuditSent(r) \/ MarkRunFailed(r)

-----------------------------------------------------------------------------
(***************************************************************************)
(* reconcilePayoutFromWebhook.  transfer.created and transfer.updated are  *)
(* handled as "paid", transfer.reversed as "failed".  Stripe sends several *)
(* events about one transfer, in any order: each transfer may be reported  *)
(* any number of times.                                                    *)
(***************************************************************************)
HookAt(h, pc) == hook[h].pc = pc
HookGoto(h, pc) == hook' = [hook EXCEPT ![h].pc = pc]
HookDone(h) == hook' = [hook EXCEPT ![h] = IdleHook]

(* A mistake the properties catch: transfer.updated dispatched as a failure. *)
UpdateAsFailure(h, t, kind) ==
  /\ HookAt(h, "idle") /\ payouts[t.payout].transfer = t.key
  /\ hook' = [hook EXCEPT ![h] = [pc |-> "reverse", payout |-> t.payout,
                                  seen |-> payouts[t.payout].status]]
  /\ UNCHANGED <<clock, ledgerVars, payouts, stripeVars, run, retry, counters>>

ReceiveTransferEvent(h, t, kind) ==
  /\ HookAt(h, "idle")
  /\ kind = "failed" => t \in reversed
  /\ payouts[t.payout].transfer = t.key      \* otherwise no row is found: ignored
  /\ kind = "failed" => payouts[t.payout].status # "failed"
  /\ hook' = [hook EXCEPT ![h] = [pc |-> IF kind = "paid" THEN "repost" ELSE "reverse",
                                  payout |-> t.payout, seen |-> payouts[t.payout].status]]
  /\ UNCHANGED <<clock, ledgerVars, payouts, stripeVars, run, retry, counters>>

RepostPair(h) ==
  /\ HookAt(h, "repost")
  /\ PostPair(hook[h].payout)
  /\ IF hook[h].seen = "paid" THEN HookDone(h) ELSE HookGoto(h, "markpaid")
  /\ UNCHANGED <<clock, credits, clawbacks, payouts, stripeVars, run, retry, counters>>

MarkPaid(h) ==
  /\ HookAt(h, "markpaid")
  /\ payouts' = [payouts EXCEPT ![hook[h].payout].status = "paid"]
  /\ HookDone(h)
  /\ UNCHANGED <<clock, ledgerVars, stripeVars, run, retry, counters>>

(* payoutPairExists, then reversePayoutPair *)
ReversePosted(h) ==
  /\ HookAt(h, "reverse")
  /\ IF Posted(hook[h].payout, "debit") THEN ReversePair(hook[h].payout) ELSE UNCHANGED pairs
  /\ HookGoto(h, "markfailed")
  /\ UNCHANGED <<clock, credits, clawbacks, payouts, stripeVars, run, retry, counters>>

MarkReversed(h) ==
  /\ HookAt(h, "markfailed")
  /\ payouts' = [payouts EXCEPT ![hook[h].payout].status = "failed"]
  /\ HookDone(h)
  /\ UNCHANGED <<clock, ledgerVars, stripeVars, run, retry, counters>>

(* A database error and a process death both end the handler where it is. *)
CrashHook(h) ==
  /\ ~HookAt(h, "idle") /\ Crash
  /\ HookDone(h)
  /\ UNCHANGED <<clock, ledgerVars, payouts, stripeVars, run, retry>>

HookStep(h) == RepostPair(h) \/ MarkPaid(h) \/ ReversePosted(h) \/ MarkReversed(h)

-----------------------------------------------------------------------------
(***************************************************************************)
(* retryPayout                                                             *)
(***************************************************************************)
StartRetry(p) ==
  /\ retry.pc = "idle" /\ retries < MaxRetries
  /\ payouts[p].status = "failed"
  /\ retries' = retries + 1
  /\ retry' = [pc |-> "post", payout |-> p, key |-> retries + 1]
  /\ UNCHANGED <<clock, ledgerVars, payouts, stripeVars, run, hook, faults, crashes, abandoned>>

PostRetryPair ==
  /\ retry.pc = "post"
  /\ PostPair(retry.payout)
  /\ retry' = [retry EXCEPT !.pc = "transfer"]
  /\ UNCHANGED <<clock, credits, clawbacks, payouts, stripeVars, run, hook, counters>>

(* When the call throws, the pair stays posted. *)
CreateRetryTransfer ==
  /\ retry.pc = "transfer"
  /\ \E created, answered \in BOOLEAN :
       /\ answered => created
       /\ transfers' = IF created
                       THEN transfers \cup {[payout |-> retry.payout, key |-> retry.key]}
                       ELSE transfers
       /\ IF answered THEN NoFault /\ retry' = [retry EXCEPT !.pc = "mark"]
                      ELSE Fault /\ retry' = IdleRetry
  /\ UNCHANGED <<clock, ledgerVars, payouts, reversed, run, hook>>

MarkRetried ==
  /\ retry.pc = "mark"
  /\ payouts' = [payouts EXCEPT ![retry.payout].status = "sent",
                                ![retry.payout].transfer = retry.key]
  /\ retry' = IdleRetry
  /\ UNCHANGED <<clock, ledgerVars, stripeVars, run, hook, counters>>

CrashRetry ==
  /\ retry.pc # "idle" /\ Crash
  /\ retry' = IdleRetry
  /\ UNCHANGED <<clock, ledgerVars, payouts, stripeVars, run, hook>>

RetryStep == PostRetryPair \/ CreateRetryTransfer \/ MarkRetried

-----------------------------------------------------------------------------
Next ==
  \/ Tick
  \/ \E s \in Sales : RecordSale(s) \/ RecordRefund(s)
  \/ \E t \in transfers : ReverseTransfer(t)
  \/ \E r \in Runs : StartRun(r) \/ RunStep(r) \/ CrashRun(r)
  \/ \E h \in Hooks : \E t \in transfers : \E kind \in {"paid", "failed"} :
       ReceiveTransferEvent(h, t, kind)
  \/ \E h \in Hooks : HookStep(h) \/ CrashHook(h)
  \/ \E p \in PayoutIds : StartRetry(p)
  \/ RetryStep \/ CrashRetry

Spec == Init /\ [][Next]_vars

-----------------------------------------------------------------------------
(***************************************************************************)
(* Properties                                                              *)
(***************************************************************************)

(* Every variable has its type. *)
TypeOK ==
  /\ clock \in 0 .. MaxClock
  /\ credits \subseteq Entries /\ clawbacks \subseteq Entries /\ pairs \subseteq Pairs
  /\ payouts \in [PayoutIds -> Rows]
  /\ transfers \subseteq Transfers /\ reversed \subseteq transfers
  /\ run \in [Runs -> RunStates] /\ hook \in [Hooks -> HookStates] /\ retry \in RetryStates
  /\ retries \in 0 .. MaxRetries /\ faults \in 0 .. MaxFaults /\ crashes \in 0 .. MaxFaults
  /\ abandoned \subseteq PayoutIds

(* A payout the dashboard shows as sent or paid has left the books: the    *)
(* ledger pair was posted before the status was written, by whichever of   *)
(* the cron, the webhook and the admin's retry wrote it.                   *)
SettledPosted ==
  \A p \in PayoutIds : payouts[p].status \in {"sent", "paid"} => Posted(p, "debit")

(* Money is given back to the photographer's balance only for a payout     *)
(* that was taken from it and whose transfer Stripe really reversed.       *)
ReversalEarned ==
  \A p \in PayoutIds : Posted(p, "credit") =>
    /\ Posted(p, "debit")
    /\ \E t \in reversed : t.payout = p

(* The books take a payout only when a transfer was made.  A debit without *)
(* one can only be what a retry left behind, which posts before it pays:   *)
(* then the payout still reads failed.                                     *)
PostedOnTransfer ==
  \A p \in PayoutIds : Posted(p, "debit") =>
    \/ \E t \in transfers : t.payout = p
    \/ payouts[p].status = "failed"

(* Concurrent and repeated runs, reversals and late events never pay the   *)
(* photographer more than the sales credited, as long as no call fails and *)
(* no admin retries.                                                       *)
Paid == {t \in transfers : t \notin reversed}
NeverOverpaid ==
  faults = 0 /\ crashes = 0 /\ retries = 0 =>
    MapThenSumSet(LAMBDA t : payouts[t.payout].net, Paid) <= Total(credits)

(* No payout row is left pending by a Stripe call, a ledger write or a     *)
(* status write that fails inside the try: as long as it is pending a run  *)
(* is at work on it and will write sent or failed.  Only a run that broke  *)
(* off outside the try orphans it (the account lookup before the try or    *)
(* the update of the catch block threw, or the process died), and nothing  *)
(* picks an orphan up.                                                     *)
PendingOwned ==
  \A p \in PayoutIds : payouts[p].status = "pending" =>
    \/ p \in abandoned
    \/ \E r \in Runs : run[r].payout = p /\ run[r].pc \in AtWork

(* What line 508 of payouts.ts says of a retry: the pair the reversal took *)
(* back is posted again, so a sent payout is off the balance.              *)
RetriedPairStands ==
  \A p \in PayoutIds :
    payouts[p].status = "sent" /\ (\A h \in Hooks : HookAt(h, "idle"))
      => Posted(p, "debit") /\ ~Posted(p, "credit")

(* What the head of payouts.ts says of a failed transfer: the balance      *)
(* stays put and rolls into the next period, so a later run does not       *)
(* refuse to pay it.                                                       *)
FailedRollsOver ==
  \A r \in Runs : run[r].outcome = "net_mismatch" =>
    \A p \in Used : payouts[p].status # "failed"
=============================================================================
