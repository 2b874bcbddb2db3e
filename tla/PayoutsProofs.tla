---------------------------- MODULE PayoutsProofs ----------------------------
(***************************************************************************)
(* Invariants of Payouts for every number of sales, callers, webhook       *)
(* deliveries, failures, crashes, retries and reversals.                   *)
(***************************************************************************)
EXTENDS Payouts, LedgerTheorems

Sent(p) == \E t \in transfers : t.payout = p
TakenBack(p) == \E t \in reversed : t.payout = p
Known(p) == payouts[p].status # "none"

(* What a caller of runPayouts has established by the time it is at pc. *)
RunInv ==
  \A r \in Runs :
    /\ run[r].pc \in {"transfer", "post", "mark", "audit", "fail"} => Known(run[r].payout)
    /\ run[r].pc \in {"post", "mark", "audit"} => Sent(run[r].payout)
    /\ run[r].pc \in {"mark", "audit"} => Posted(run[r].payout, "debit")
    /\ run[r].pc = "audit" => payouts[run[r].payout].status # "pending"

HookInv ==
  \A h \in Hooks : hook[h].pc # "idle" =>
    /\ Known(hook[h].payout) /\ Sent(hook[h].payout)
    /\ hook[h].pc = "markpaid" => Posted(hook[h].payout, "debit")
    /\ hook[h].pc \in {"reverse", "markfailed"} => TakenBack(hook[h].payout)

RetryInv ==
  retry.pc # "idle" =>
    /\ Known(retry.payout)
    /\ retry.pc \in {"transfer", "mark"} => Posted(retry.payout, "debit")
    /\ retry.pc = "mark" => Sent(retry.payout)
    /\ Sent(retry.payout) \/ payouts[retry.payout].status = "failed"

(* Stripe and the books know only payouts that have a row. *)
RowInv ==
  /\ \A p \in PayoutIds : Posted(p, "debit") => Known(p)
  /\ \A t \in transfers : Known(t.payout)

IInv ==
  /\ TypeOK /\ RunInv /\ HookInv /\ RetryInv /\ RowInv
  /\ SettledPosted /\ ReversalEarned /\ PostedOnTransfer /\ PendingOwned

(* There is a first payout id, and every tick has a date. *)
LEMMA Dates ==
  /\ 1 \in PayoutIds
  /\ \A t \in 0 .. MaxClock : DateOf(t) \in 0 .. DateOf(MaxClock)
BY PayoutsAssumption DEF PayoutIds, DateOf

(* The states processes start from and return to have their types. *)
LEMMA IdleStates ==
  /\ IdleRun \in RunStates /\ [IdleRun EXCEPT !.outcome = "ended"] \in RunStates
  /\ [IdleRun EXCEPT !.outcome = "net_mismatch"] \in RunStates
  /\ IdleHook \in HookStates /\ IdleRetry \in RetryStates
  /\ NoRow \in Rows
BY Dates, PayoutsAssumption
   DEF IdleRun, IdleHook, IdleRetry, NoRow, RunStates, HookStates, RetryStates, Rows,
       Statuses, Keys, DateOf

(* The initial state is typed. *)
LEMMA TypeInit == Init => TypeOK
BY IdleStates, PayoutsAssumption DEF Init, TypeOK

(* The callers of runPayouts keep the types. *)
LEMMA TypeRun ==
  ASSUME TypeOK, NEW r \in Runs, StartRun(r) \/ RunStep(r) \/ CrashRun(r)
  PROVE  TypeOK'
<1> USE PayoutsAssumption, Dates, IdleStates DEF TypeOK
<1> USE DEF ledgerVars, stripeVars, procVars, counters, At, Goto, End, Fault, NoFault, Crash, Failing, Dying, BreakOff
<1>0. run[r] \in RunStates /\ run[r].payout \in PayoutIds
  BY DEF RunStates
<1>1. CASE StartRun(r)
  BY <1>1 DEF StartRun, RunStates
<1>2. CASE ReadBalance(r)
  BY <1>2 DEF ReadBalance, RunStates
<1>3. CASE CheckTotals(r)
  BY <1>3 DEF CheckTotals, RunStates
<1>4. CASE InsertPayout(r)
  <2>1. CASE AlreadyRun
    BY <1>4, <2>1 DEF InsertPayout
  <2>2. CASE ~AlreadyRun
    <3>1. PICK p \in PayoutIds \ Used :
            /\ payouts' = [payouts EXCEPT ![p] =
                 [status |-> "pending", periodEnd |-> DateOf(clock),
                  net |-> run[r].net, transfer |-> NoTransfer]]
            /\ run' = [run EXCEPT ![r].pc = "transfer", ![r].payout = p]
      BY <1>4, <2>2 DEF InsertPayout
    <3>2. payouts' \in [PayoutIds -> Rows]
      BY <1>0, <3>1 DEF RunStates, Rows, Statuses
    <3>3. run' \in [Runs -> RunStates]
      BY <1>0, <3>1 DEF RunStates
    <3> QED
      BY <1>4, <3>2, <3>3 DEF InsertPayout
  <2> QED
    BY <2>1, <2>2
<1>5. CASE CreateTransfer(r)
  BY <1>0, <1>5 DEF CreateTransfer, RunStates, Transfers, Keys
<1>6. CASE PostRunPair(r)
  BY <1>0, <1>6 DEF PostRunPair, PostPair, RunStates, Pairs
<1>7. CASE MarkSent(r)
  <2>1. payouts' \in [PayoutIds -> Rows]
    BY <1>0, <1>7 DEF MarkSent, Rows, Statuses, Keys
  <2>2. run' \in [Runs -> RunStates]
    BY <1>0, <1>7 DEF MarkSent, RunStates
  <2>3. faults' \in 0 .. MaxFaults /\ UNCHANGED <<retries, crashes, abandoned>>
    BY <1>7 DEF MarkSent
  <2> QED
    BY <1>7, <2>1, <2>2, <2>3 DEF MarkSent
<1>8. CASE AuditSent(r)
  BY <1>8 DEF AuditSent, RunStates
<1>9. CASE MarkRunFailed(r)
  BY <1>0, <1>9 DEF MarkRunFailed, Rows, Statuses
<1>10. CASE CrashRun(r)
  <2>1. abandoned' \subseteq PayoutIds /\ crashes' \in 0 .. MaxFaults
    BY <1>0, <1>10 DEF CrashRun
  <2>2. run' \in [Runs -> RunStates]
    BY <1>0, <1>10 DEF CrashRun
  <2> QED
    BY <1>10, <2>1, <2>2 DEF CrashRun
<1> QED
  BY <1>1, <1>2, <1>3, <1>4, <1>5, <1>6, <1>7, <1>8, <1>9, <1>10 DEF RunStep

(* The webhook handlers keep the types. *)
LEMMA TypeHook ==
  ASSUME TypeOK, NEW h \in Hooks,
         \/ \E t \in transfers : \E kind \in {"paid", "failed"} : ReceiveTransferEvent(h, t, kind)
         \/ HookStep(h) \/ CrashHook(h)
  PROVE  TypeOK'
<1> USE PayoutsAssumption, Dates, IdleStates DEF TypeOK
<1> USE DEF ledgerVars, stripeVars, procVars, counters, HookAt, HookGoto, HookDone, Crash, Dying
<1>0. hook[h] \in HookStates /\ hook[h].payout \in PayoutIds
  BY DEF HookStates
<1>1. ASSUME NEW t \in transfers, NEW kind \in {"paid", "failed"},
             ReceiveTransferEvent(h, t, kind)
      PROVE  TypeOK'
  BY <1>1 DEF ReceiveTransferEvent, HookStates, Transfers, Rows
<1>2. CASE RepostPair(h)
  BY <1>0, <1>2 DEF RepostPair, PostPair, HookStates, Pairs
<1>3. CASE MarkPaid(h)
  BY <1>0, <1>3 DEF MarkPaid, Rows, Statuses
<1>4. CASE ReversePosted(h)
  BY <1>0, <1>4 DEF ReversePosted, ReversePair, HookStates, Pairs
<1>5. CASE MarkReversed(h)
  BY <1>0, <1>5 DEF MarkReversed, Rows, Statuses
<1>6. CASE CrashHook(h)
  BY <1>6 DEF CrashHook
<1> QED
  BY <1>1, <1>2, <1>3, <1>4, <1>5, <1>6 DEF HookStep

(* So do the admin's retry and the surroundings. *)
LEMMA TypeRest ==
  ASSUME TypeOK,
         \/ Tick
         \/ \E s \in Sales : RecordSale(s) \/ RecordRefund(s)
         \/ \E t \in transfers : ReverseTransfer(t)
         \/ \E p \in PayoutIds : StartRetry(p)
         \/ RetryStep \/ CrashRetry
  PROVE  TypeOK'
<1> USE PayoutsAssumption, Dates, IdleStates DEF TypeOK
<1> USE DEF ledgerVars, stripeVars, procVars, counters, Fault, NoFault, Crash, Failing, Dying, BreakOff
<1>1. CASE Tick
  BY <1>1 DEF Tick
<1>2. ASSUME NEW s \in Sales, RecordSale(s) PROVE TypeOK'
  BY <1>2 DEF RecordSale, Entries
<1>3. ASSUME NEW s \in Sales, RecordRefund(s) PROVE TypeOK'
  BY <1>3 DEF RecordRefund, Entries
<1>4. ASSUME NEW t \in transfers, ReverseTransfer(t) PROVE TypeOK'
  BY <1>4 DEF ReverseTransfer
<1>5. ASSUME NEW p \in PayoutIds, StartRetry(p) PROVE TypeOK'
  BY <1>5 DEF StartRetry, RetryStates, Keys
<1>6. CASE PostRetryPair
  BY <1>6 DEF PostRetryPair, PostPair, RetryStates, Pairs
<1>7. CASE CreateRetryTransfer
  BY <1>7 DEF CreateRetryTransfer, RetryStates, Transfers
<1>8. CASE MarkRetried
  BY <1>8 DEF MarkRetried, RetryStates, Rows, Statuses
<1>9. CASE CrashRetry
  BY <1>9 DEF CrashRetry
<1> QED
  BY <1>1, <1>2, <1>3, <1>4, <1>5, <1>6, <1>7, <1>8, <1>9 DEF RetryStep

(* Every step keeps the types. *)
LEMMA TypeNext == TypeOK /\ [Next]_vars => TypeOK'
<1> SUFFICES ASSUME TypeOK, [Next]_vars PROVE TypeOK'
  OBVIOUS
<1>1. CASE UNCHANGED vars
  BY <1>1 DEF vars, TypeOK
<1>2. CASE Next
  BY <1>2, TypeRun, TypeHook, TypeRest DEF Next
<1> QED
  BY <1>1, <1>2

(* Every variable has its type, whatever the bounds. *)
THEOREM TypeCorrect == Spec => []TypeOK
BY TypeInit, TypeNext, PTL DEF Spec

(* A step of runPayouts preserves the invariant. *)
LEMMA RunInd ==
  ASSUME IInv, TypeOK', NEW r \in Runs, StartRun(r) \/ RunStep(r) \/ CrashRun(r)
  PROVE  IInv'
<1> USE PayoutsAssumption DEF IInv, TypeOK
<1> USE DEF At, Goto, End, Fault, NoFault, Crash, Failing, Dying, BreakOff, ledgerVars, stripeVars, procVars, counters
<1>0. run[r] \in RunStates /\ run[r].payout \in PayoutIds
  BY DEF RunStates
<1>1. CASE StartRun(r)
  <2>1. /\ \A q \in Runs : q # r => run'[q] = run[q]
        /\ run'[r].pc = "balance"
    BY <1>0, <1>1 DEF StartRun, RunStates, IdleRun
  <2> QED
    BY <1>0, <1>1, <2>1 DEF StartRun, RunInv, HookInv, RetryInv, RowInv, SettledPosted, ReversalEarned,
       PostedOnTransfer, PendingOwned, Sent, TakenBack, Known, Posted, AtWork
<1>2. CASE ReadBalance(r)
  <2>1. /\ \A q \in Runs : q # r => run'[q] = run[q]
        /\ run'[r].pc \in {"totals", "idle"}
    BY <1>0, <1>2 DEF ReadBalance, RunStates, IdleRun
  <2> QED
    BY <1>0, <1>2, <2>1 DEF ReadBalance, RunInv, HookInv, RetryInv, RowInv, SettledPosted, ReversalEarned,
       PostedOnTransfer, PendingOwned, Sent, TakenBack, Known, Posted, AtWork
<1>3. CASE CheckTotals(r)
  <2>1. /\ \A q \in Runs : q # r => run'[q] = run[q]
        /\ run'[r].pc \in {"insert", "idle"}
    BY <1>0, <1>3 DEF CheckTotals, RunStates, IdleRun
  <2> QED
    BY <1>0, <1>3, <2>1 DEF CheckTotals, RunInv, HookInv, RetryInv, RowInv, SettledPosted, ReversalEarned,
       PostedOnTransfer, PendingOwned, Sent, TakenBack, Known, Posted, AtWork
<1>4. CASE InsertPayout(r)
  <2>0. UNCHANGED <<clock, credits, clawbacks, pairs, transfers, reversed, hook, retry, abandoned>>
    BY <1>4 DEF InsertPayout
  <2>1. CASE AlreadyRun
    <3>1. /\ \A q \in Runs : q # r => run'[q] = run[q]
          /\ run[r].pc = "insert" /\ run'[r].pc = "idle" /\ UNCHANGED payouts
      BY <1>0, <1>4, <2>1 DEF InsertPayout, RunStates, IdleRun
    <3> QED
      BY <1>0, <1>4, <2>0, <3>1 DEF RunInv, HookInv, RetryInv, RowInv, SettledPosted, ReversalEarned,
           PostedOnTransfer, PendingOwned, Sent, TakenBack, Known, Posted, AtWork
  <2>2. CASE ~AlreadyRun
    <3>1. PICK p \in PayoutIds \ Used :
            /\ payouts' = [payouts EXCEPT ![p] =
                 [status |-> "pending", periodEnd |-> DateOf(clock),
                  net |-> run[r].net, transfer |-> NoTransfer]]
            /\ run' = [run EXCEPT ![r].pc = "transfer", ![r].payout = p]
      BY <1>4, <2>2 DEF InsertPayout
    <3>2. /\ \A q \in Runs : q # r => run'[q] = run[q]
          /\ run'[r].pc = "transfer" /\ run'[r].payout = p
      BY <1>0, <3>1 DEF RunStates
    <3>3. /\ p \in PayoutIds /\ ~Known(p) /\ payouts'[p].status = "pending"
          /\ \A q \in PayoutIds : q # p => payouts'[q] = payouts[q]
      BY <3>1 DEF Used, Known, Rows
    <3>4. run[r].pc = "insert"
      BY <1>4 DEF InsertPayout
    <3>5. RunInv'
      BY <2>0, <3>2, <3>3, <3>4 DEF RunInv, RunStates, RowInv, Sent, Known, Posted
    <3>6. HookInv'
      BY <2>0, <3>2, <3>3, <3>4 DEF HookInv, HookStates, Sent, Known, Posted, TakenBack
    <3>7. RetryInv'
      BY <2>0, <3>2, <3>3, <3>4 DEF RetryInv, RunInv, RetryStates, Sent, Known, Posted
    <3>8. RowInv'
      BY <2>0, <3>2, <3>3, <3>4 DEF RowInv, RunInv, Transfers, Known, Posted, Sent
    <3>9. SettledPosted' /\ ReversalEarned'
      BY <2>0, <3>2, <3>3, <3>4 DEF SettledPosted, ReversalEarned, RunInv, Posted
    <3>10. PostedOnTransfer'
      BY <2>0, <3>2, <3>3, <3>4 DEF PostedOnTransfer, RunInv, RowInv, Sent, Known, Posted
    <3>11. PendingOwned'
      BY <2>0, <3>2, <3>3, <3>4 DEF PendingOwned, RunInv, AtWork, Known
    <3> QED
      BY <3>5, <3>6, <3>7, <3>8, <3>9, <3>10, <3>11
  <2> QED
    BY <2>1, <2>2
<1>5. CASE CreateTransfer(r)
  <2>1. /\ \A q \in Runs : q # r => run'[q] = run[q]
        /\ run[r].pc = "transfer"
        /\ \/ /\ run'[r].pc \in {"post", "fail"} /\ run'[r].payout = run[r].payout
              /\ abandoned' = abandoned
           \/ run'[r].pc = "idle" /\ abandoned' = abandoned \cup {run[r].payout}
        /\ UNCHANGED <<credits, clawbacks, pairs, payouts, reversed, hook, retry>>
        /\ transfers \subseteq transfers'
        /\ \A t \in transfers' : t \in transfers \/ t.payout = run[r].payout
        /\ run'[r].pc = "post" => Sent(run[r].payout)'
    <3>0. CASE BreakOff(r) /\ UNCHANGED transfers
      BY <1>0, <1>5, <3>0 DEF CreateTransfer, RunStates, IdleRun, AtWork
    <3>1. CASE ~(BreakOff(r) /\ UNCHANGED transfers)
      <4>1. PICK created, answered \in BOOLEAN :
              /\ answered => created
              /\ transfers' = IF created
                              THEN transfers \cup {[payout |-> run[r].payout, key |-> 0]}
                              ELSE transfers
              /\ run' = [run EXCEPT ![r].pc = IF answered THEN "post" ELSE "fail"]
              /\ abandoned' = abandoned
        BY <1>5, <3>1 DEF CreateTransfer
      <4>2. answered => [payout |-> run[r].payout, key |-> 0] \in transfers'
        BY <4>1
      <4>3. run'[r].pc = "post" => answered
        BY <1>0, <4>1 DEF RunStates
      <4> QED
        BY <1>0, <1>5, <4>1, <4>2, <4>3 DEF CreateTransfer, RunStates, Sent
    <3> QED
      BY <3>0, <3>1
  <2>2. RunInv'
    BY <1>0, <2>1 DEF RunInv, RunStates, RowInv, Sent, Known, Posted
  <2>3. HookInv'
    BY <1>0, <2>1 DEF HookInv, HookStates, Sent, Known, Posted, TakenBack
  <2>4. RetryInv'
    BY <1>0, <2>1 DEF RetryInv, RunInv, RetryStates, Sent, Known, Posted
  <2>5. RowInv'
    BY <1>0, <2>1 DEF RowInv, RunInv, Transfers, Known, Posted, Sent
  <2>6. SettledPosted' /\ ReversalEarned'
    BY <1>0, <2>1 DEF SettledPosted, ReversalEarned, RunInv, Posted
  <2>7. PostedOnTransfer'
    BY <1>0, <2>1 DEF PostedOnTransfer, RunInv, RowInv, Sent, Known, Posted
  <2>8. PendingOwned'
    BY <1>0, <2>1 DEF PendingOwned, RunInv, AtWork, Known
  <2> QED
    BY <2>2, <2>3, <2>4, <2>5, <2>6, <2>7, <2>8
<1>6. CASE PostRunPair(r)
  <2>1. /\ \A q \in Runs : q # r => run'[q] = run[q]
        /\ run[r].pc = "post" /\ run'[r].pc \in {"mark", "fail"} /\ run'[r].payout = run[r].payout
        /\ UNCHANGED <<credits, clawbacks, payouts, transfers, reversed, hook, retry, abandoned>>
        /\ pairs \subseteq pairs'
        /\ \A e \in pairs' : e \in pairs \/ e = [payout |-> run[r].payout, dir |-> "debit"]
        /\ run'[r].pc = "mark" => Posted(run[r].payout, "debit")'
    BY <1>0, <1>6 DEF PostRunPair, PostPair, RunStates, Posted
  <2>2. RunInv'
    BY <1>0, <2>1 DEF RunInv, RunStates, RowInv, Sent, Known, Posted
  <2>3. HookInv'
    BY <1>0, <2>1 DEF HookInv, HookStates, Sent, Known, Posted, TakenBack
  <2>4. RetryInv'
    BY <1>0, <2>1 DEF RetryInv, RunInv, RetryStates, Sent, Known, Posted
  <2>5. RowInv'
    BY <1>0, <2>1 DEF RowInv, RunInv, Transfers, Known, Posted, Sent
  <2>6. SettledPosted' /\ ReversalEarned'
    BY <1>0, <2>1 DEF SettledPosted, ReversalEarned, RunInv, Posted
  <2>7. PostedOnTransfer'
    BY <1>0, <2>1 DEF PostedOnTransfer, RunInv, RowInv, Sent, Known, Posted
  <2>8. PendingOwned'
    BY <1>0, <2>1 DEF PendingOwned, RunInv, AtWork, Known
  <2> QED
    BY <2>2, <2>3, <2>4, <2>5, <2>6, <2>7, <2>8
<1>7. CASE MarkSent(r)
  <2>1. /\ \A q \in Runs : q # r => run'[q] = run[q]
        /\ run[r].pc = "mark" /\ run'[r].pc \in {"audit", "fail"} /\ run'[r].payout = run[r].payout
        /\ UNCHANGED <<credits, clawbacks, pairs, transfers, reversed, hook, retry, abandoned>>
        /\ \A q \in PayoutIds : q # run[r].payout => payouts'[q].status = payouts[q].status
        /\ payouts'[run[r].payout].status =
            IF run'[r].pc = "audit" THEN "sent" ELSE payouts[run[r].payout].status
    BY <1>0, <1>7 DEF MarkSent, RunStates, Rows
  <2>2. RunInv'
    BY <1>0, <2>1 DEF RunInv, RunStates, RowInv, Sent, Known, Posted
  <2>3. HookInv'
    BY <1>0, <2>1 DEF HookInv, HookStates, Sent, Known, Posted, TakenBack
  <2>4. RetryInv'
    BY <1>0, <2>1 DEF RetryInv, RunInv, RetryStates, Sent, Known, Posted
  <2>5. RowInv'
    BY <1>0, <2>1 DEF RowInv, RunInv, Transfers, Known, Posted, Sent
  <2>6. SettledPosted' /\ ReversalEarned'
    BY <1>0, <2>1 DEF SettledPosted, ReversalEarned, RunInv, Posted
  <2>7. PostedOnTransfer'
    BY <1>0, <2>1 DEF PostedOnTransfer, RunInv, RowInv, Sent, Known, Posted
  <2>8. PendingOwned'
    BY <1>0, <2>1 DEF PendingOwned, RunInv, AtWork, Known
  <2> QED
    BY <2>2, <2>3, <2>4, <2>5, <2>6, <2>7, <2>8
<1>8. CASE AuditSent(r)
  <2>1. /\ \A q \in Runs : q # r => run'[q] = run[q]
        /\ run'[r].pc \in {"idle", "fail"}
        /\ run'[r].pc = "fail" => run'[r].payout = run[r].payout
    BY <1>0, <1>8 DEF AuditSent, RunStates, IdleRun
  <2> QED
    BY <1>0, <1>8, <2>1 DEF AuditSent, RunInv, HookInv, RetryInv, RowInv, SettledPosted, ReversalEarned,
       PostedOnTransfer, PendingOwned, Sent, TakenBack, Known, Posted, AtWork
<1>9. CASE MarkRunFailed(r)
  <2>1. /\ \A q \in Runs : q # r => run'[q] = run[q]
        /\ run[r].pc = "fail" /\ run'[r].pc = "idle"
        /\ UNCHANGED <<credits, clawbacks, pairs, transfers, reversed, hook, retry>>
        /\ \A q \in PayoutIds : q # run[r].payout => payouts'[q].status = payouts[q].status
        /\ \/ payouts'[run[r].payout].status = "failed" /\ abandoned' = abandoned
           \/ UNCHANGED payouts /\ abandoned' = abandoned \cup {run[r].payout}
    BY <1>0, <1>9 DEF MarkRunFailed, RunStates, IdleRun, Rows, AtWork
  <2>2. RunInv'
    BY <1>0, <2>1 DEF RunInv, RunStates, RowInv, Sent, Known, Posted
  <2>3. HookInv'
    BY <1>0, <2>1 DEF HookInv, HookStates, Sent, Known, Posted, TakenBack
  <2>4. RetryInv'
    BY <1>0, <2>1 DEF RetryInv, RunInv, RetryStates, Sent, Known, Posted
  <2>5. RowInv'
    BY <1>0, <2>1 DEF RowInv, RunInv, Transfers, Known, Posted, Sent
  <2>6. SettledPosted' /\ ReversalEarned'
    BY <1>0, <2>1 DEF SettledPosted, ReversalEarned, RunInv, Posted
  <2>7. PostedOnTransfer'
    BY <1>0, <2>1 DEF PostedOnTransfer, RunInv, RowInv, Sent, Known, Posted
  <2>8. PendingOwned'
    BY <1>0, <2>1 DEF PendingOwned, RunInv, AtWork, Known
  <2> QED
    BY <2>2, <2>3, <2>4, <2>5, <2>6, <2>7, <2>8
<1>10. CASE CrashRun(r)
  <2>1. /\ \A q \in Runs : q # r => run'[q] = run[q]
        /\ run'[r].pc = "idle" /\ abandoned \subseteq abandoned'
        /\ run[r].pc \in AtWork => run[r].payout \in abandoned'
    BY <1>0, <1>10 DEF CrashRun, RunStates, IdleRun
  <2> QED
    BY <1>0, <1>10, <2>1 DEF CrashRun, RunInv, HookInv, RetryInv, RowInv, SettledPosted, ReversalEarned,
       PostedOnTransfer, PendingOwned, Sent, TakenBack, Known, Posted, AtWork
<1> QED
  BY <1>1, <1>2, <1>3, <1>4, <1>5, <1>6, <1>7, <1>8, <1>9, <1>10 DEF RunStep

(* A step of a webhook delivery preserves the invariant. *)
LEMMA HookInd ==
  ASSUME IInv, TypeOK', NEW h \in Hooks,
         \/ \E t \in transfers : \E kind \in {"paid", "failed"} : ReceiveTransferEvent(h, t, kind)
         \/ HookStep(h) \/ CrashHook(h)
  PROVE  IInv'
<1> USE PayoutsAssumption DEF IInv, TypeOK
<1> USE DEF HookAt, HookGoto, HookDone, Crash, Dying, ledgerVars, stripeVars, procVars, counters
<1>0. hook[h] \in HookStates /\ hook[h].payout \in PayoutIds
  BY DEF HookStates
<1>1. ASSUME NEW t \in transfers, NEW kind \in {"paid", "failed"},
             ReceiveTransferEvent(h, t, kind)
      PROVE  IInv'
  <2>1. /\ \A g \in Hooks : g # h => hook'[g] = hook[g]
        /\ hook'[h].payout = t.payout /\ t.payout \in PayoutIds
        /\ hook'[h].pc \in {"repost", "reverse"}
        /\ hook'[h].pc = "reverse" => t \in reversed
        /\ UNCHANGED <<credits, clawbacks, pairs, payouts, transfers, reversed, run, retry, abandoned>>
    BY <1>1 DEF ReceiveTransferEvent, HookStates, Transfers
  <2> QED
    BY <1>0, <2>1 DEF RunInv, HookInv, RetryInv, RowInv, SettledPosted, ReversalEarned,
       PostedOnTransfer, PendingOwned, Sent, TakenBack, Known, Posted, AtWork
<1>2. CASE RepostPair(h)
  <2>1. /\ \A g \in Hooks : g # h => hook'[g] = hook[g]
        /\ hook'[h].pc \in {"idle", "markpaid"}
        /\ hook'[h].pc = "markpaid" => hook'[h].payout = hook[h].payout
        /\ UNCHANGED <<credits, clawbacks, payouts, transfers, reversed, run, retry, abandoned>>
        /\ hook[h].pc # "idle" /\ pairs' = pairs \cup {[payout |-> hook[h].payout, dir |-> "debit"]}
        /\ hook'[h].pc = "markpaid" => Posted(hook[h].payout, "debit")'
    BY <1>0, <1>2 DEF RepostPair, PostPair, HookStates, IdleHook, Posted
  <2>2. RunInv'
    BY <1>0, <2>1 DEF RunInv, RunStates, RowInv, Sent, Known, Posted
  <2>3. HookInv'
    BY <1>0, <2>1 DEF HookInv, HookStates, Sent, Known, Posted, TakenBack
  <2>4. RetryInv'
    BY <1>0, <2>1 DEF RetryInv, HookInv, RetryStates, Sent, Known, Posted
  <2>5. RowInv'
    BY <1>0, <2>1 DEF RowInv, HookInv, RetryInv, Transfers, Known, Posted, Sent
  <2>6. SettledPosted' /\ ReversalEarned'
    BY <1>0, <2>1 DEF SettledPosted, ReversalEarned, HookInv, RetryInv, Posted, TakenBack
  <2>7. PostedOnTransfer'
    BY <1>0, <2>1 DEF PostedOnTransfer, HookInv, RetryInv, RowInv, Sent, Known, Posted
  <2>8. PendingOwned'
    BY <1>0, <2>1 DEF PendingOwned, HookInv, RetryInv, AtWork, Known
  <2> QED
    BY <2>2, <2>3, <2>4, <2>5, <2>6, <2>7, <2>8
<1>3. CASE MarkPaid(h)
  <2>1. /\ \A g \in Hooks : g # h => hook'[g] = hook[g]
        /\ hook[h].pc = "markpaid" /\ hook'[h].pc = "idle"
        /\ UNCHANGED <<credits, clawbacks, pairs, transfers, reversed, run, retry, abandoned>>
        /\ \A q \in PayoutIds : q # hook[h].payout => payouts'[q].status = payouts[q].status
        /\ payouts'[hook[h].payout].status = "paid"
    BY <1>0, <1>3 DEF MarkPaid, HookStates, IdleHook, Rows
  <2>2. RunInv'
    BY <1>0, <2>1 DEF RunInv, RunStates, RowInv, Sent, Known, Posted
  <2>3. HookInv'
    BY <1>0, <2>1 DEF HookInv, HookStates, Sent, Known, Posted, TakenBack
  <2>4. RetryInv'
    BY <1>0, <2>1 DEF RetryInv, HookInv, RetryStates, Sent, Known, Posted
  <2>5. RowInv'
    BY <1>0, <2>1 DEF RowInv, HookInv, RetryInv, Transfers, Known, Posted, Sent
  <2>6. SettledPosted' /\ ReversalEarned'
    BY <1>0, <2>1 DEF SettledPosted, ReversalEarned, HookInv, RetryInv, Posted, TakenBack
  <2>7. PostedOnTransfer'
    BY <1>0, <2>1 DEF PostedOnTransfer, HookInv, RetryInv, RowInv, Sent, Known, Posted
  <2>8. PendingOwned'
    BY <1>0, <2>1 DEF PendingOwned, HookInv, RetryInv, AtWork, Known
  <2> QED
    BY <2>2, <2>3, <2>4, <2>5, <2>6, <2>7, <2>8
<1>4. CASE ReversePosted(h)
  <2>1. /\ \A g \in Hooks : g # h => hook'[g] = hook[g]
        /\ hook[h].pc = "reverse" /\ hook'[h].pc = "markfailed" /\ hook'[h].payout = hook[h].payout
        /\ UNCHANGED <<credits, clawbacks, payouts, transfers, reversed, run, retry, abandoned>>
        /\ pairs' \in {pairs, pairs \cup {[payout |-> hook[h].payout, dir |-> "credit"]}}
        /\ pairs' # pairs => Posted(hook[h].payout, "debit")
    BY <1>0, <1>4 DEF ReversePosted, ReversePair, HookStates
  <2>2. RunInv'
    BY <1>0, <2>1 DEF RunInv, RunStates, RowInv, Sent, Known, Posted
  <2>3. HookInv'
    BY <1>0, <2>1 DEF HookInv, HookStates, Sent, Known, Posted, TakenBack
  <2>4. RetryInv'
    BY <1>0, <2>1 DEF RetryInv, HookInv, RetryStates, Sent, Known, Posted
  <2>5. RowInv'
    BY <1>0, <2>1 DEF RowInv, HookInv, RetryInv, Transfers, Known, Posted, Sent
  <2>6. SettledPosted' /\ ReversalEarned'
    BY <1>0, <2>1 DEF SettledPosted, ReversalEarned, HookInv, RetryInv, Posted, TakenBack
  <2>7. PostedOnTransfer'
    BY <1>0, <2>1 DEF PostedOnTransfer, HookInv, RetryInv, RowInv, Sent, Known, Posted
  <2>8. PendingOwned'
    BY <1>0, <2>1 DEF PendingOwned, HookInv, RetryInv, AtWork, Known
  <2> QED
    BY <2>2, <2>3, <2>4, <2>5, <2>6, <2>7, <2>8
<1>5. CASE MarkReversed(h)
  <2>1. /\ \A g \in Hooks : g # h => hook'[g] = hook[g]
        /\ hook[h].pc = "markfailed" /\ hook'[h].pc = "idle"
        /\ UNCHANGED <<credits, clawbacks, pairs, transfers, reversed, run, retry, abandoned>>
        /\ \A q \in PayoutIds : q # hook[h].payout => payouts'[q].status = payouts[q].status
        /\ payouts'[hook[h].payout].status = "failed"
    BY <1>0, <1>5 DEF MarkReversed, HookStates, IdleHook, Rows
  <2>2. RunInv'
    BY <1>0, <2>1 DEF RunInv, RunStates, RowInv, Sent, Known, Posted
  <2>3. HookInv'
    BY <1>0, <2>1 DEF HookInv, HookStates, Sent, Known, Posted, TakenBack
  <2>4. RetryInv'
    BY <1>0, <2>1 DEF RetryInv, HookInv, RetryStates, Sent, Known, Posted
  <2>5. RowInv'
    BY <1>0, <2>1 DEF RowInv, HookInv, RetryInv, Transfers, Known, Posted, Sent
  <2>6. SettledPosted' /\ ReversalEarned'
    BY <1>0, <2>1 DEF SettledPosted, ReversalEarned, HookInv, RetryInv, Posted, TakenBack
  <2>7. PostedOnTransfer'
    BY <1>0, <2>1 DEF PostedOnTransfer, HookInv, RetryInv, RowInv, Sent, Known, Posted
  <2>8. PendingOwned'
    BY <1>0, <2>1 DEF PendingOwned, HookInv, RetryInv, AtWork, Known
  <2> QED
    BY <2>2, <2>3, <2>4, <2>5, <2>6, <2>7, <2>8
<1>6. CASE CrashHook(h)
  <2>1. /\ \A g \in Hooks : g # h => hook'[g] = hook[g]
        /\ hook'[h].pc = "idle" /\ abandoned' = abandoned
        /\ UNCHANGED <<credits, clawbacks, pairs, payouts, transfers, reversed, run, retry>>
    BY <1>0, <1>6 DEF CrashHook, IdleHook
  <2> QED
    BY <2>1 DEF RunInv, HookInv, RetryInv, RowInv, SettledPosted, ReversalEarned,
       PostedOnTransfer, PendingOwned, Sent, TakenBack, Known, Posted, AtWork
<1> QED
  BY <1>1, <1>2, <1>3, <1>4, <1>5, <1>6 DEF HookStep

(* So does a step of the retry or of the surroundings. *)
LEMMA RestInd ==
  ASSUME IInv, TypeOK',
         \/ Tick
         \/ \E s \in Sales : RecordSale(s) \/ RecordRefund(s)
         \/ \E t \in transfers : ReverseTransfer(t)
         \/ \E p \in PayoutIds : StartRetry(p)
         \/ RetryStep \/ CrashRetry
  PROVE  IInv'
<1> USE PayoutsAssumption DEF IInv, TypeOK
<1> USE DEF Fault, NoFault, Crash, Failing, Dying, BreakOff, ledgerVars, stripeVars, procVars, counters
<1>0. retry \in RetryStates /\ retry.payout \in PayoutIds
  BY DEF RetryStates
<1>1. CASE Tick
  BY <1>1 DEF Tick, IdleRun, RunInv, HookInv, RetryInv, RowInv, SettledPosted, ReversalEarned,
       PostedOnTransfer, PendingOwned, Sent, TakenBack, Known, Posted, AtWork
<1>2. ASSUME NEW s \in Sales, RecordSale(s) PROVE IInv'
  BY <1>2 DEF RecordSale, RunInv, HookInv, RetryInv, RowInv, SettledPosted, ReversalEarned,
       PostedOnTransfer, PendingOwned, Sent, TakenBack, Known, Posted, AtWork
<1>3. ASSUME NEW s \in Sales, RecordRefund(s) PROVE IInv'
  BY <1>3 DEF RecordRefund, RunInv, HookInv, RetryInv, RowInv, SettledPosted, ReversalEarned,
       PostedOnTransfer, PendingOwned, Sent, TakenBack, Known, Posted, AtWork
<1>4. ASSUME NEW t \in transfers, ReverseTransfer(t) PROVE IInv'
  BY <1>4 DEF ReverseTransfer, RunInv, HookInv, RetryInv, RowInv, SettledPosted, ReversalEarned,
       PostedOnTransfer, PendingOwned, Sent, TakenBack, Known, Posted, AtWork
<1>5. ASSUME NEW p \in PayoutIds, StartRetry(p) PROVE IInv'
  BY <1>5 DEF StartRetry, RunInv, HookInv, RetryInv, RowInv, SettledPosted, ReversalEarned,
       PostedOnTransfer, PendingOwned, Sent, TakenBack, Known, Posted, AtWork
<1>6. CASE PostRetryPair
  <2>1. /\ retry.pc = "post" /\ retry'.pc = "transfer" /\ retry'.payout = retry.payout
        /\ UNCHANGED <<credits, clawbacks, payouts, transfers, reversed, run, hook, abandoned>>
        /\ pairs' = pairs \cup {[payout |-> retry.payout, dir |-> "debit"]}
    BY <1>0, <1>6 DEF PostRetryPair, PostPair, RetryStates
  <2>2. RunInv'
    BY <1>0, <2>1 DEF RunInv, RunStates, RowInv, Sent, Known, Posted
  <2>3. HookInv'
    BY <1>0, <2>1 DEF HookInv, HookStates, Sent, Known, Posted, TakenBack
  <2>4. RetryInv'
    BY <1>0, <2>1 DEF RetryInv, HookInv, RetryStates, Sent, Known, Posted
  <2>5. RowInv'
    BY <1>0, <2>1 DEF RowInv, HookInv, RetryInv, Transfers, Known, Posted, Sent
  <2>6. SettledPosted' /\ ReversalEarned'
    BY <1>0, <2>1 DEF SettledPosted, ReversalEarned, HookInv, RetryInv, Posted, TakenBack
  <2>7. PostedOnTransfer'
    BY <1>0, <2>1 DEF PostedOnTransfer, HookInv, RetryInv, RowInv, Sent, Known, Posted
  <2>8. PendingOwned'
    BY <1>0, <2>1 DEF PendingOwned, HookInv, RetryInv, AtWork, Known
  <2> QED
    BY <2>2, <2>3, <2>4, <2>5, <2>6, <2>7, <2>8
<1>7. CASE CreateRetryTransfer
  <2>1. /\ retry.pc = "transfer" /\ retry'.pc \in {"idle", "mark"}
        /\ retry'.pc = "mark" => retry'.payout = retry.payout
        /\ UNCHANGED <<credits, clawbacks, pairs, payouts, reversed, run, hook, abandoned>>
        /\ transfers \subseteq transfers'
        /\ \A t \in transfers' : t \in transfers \/ t.payout = retry.payout
        /\ retry'.pc = "mark" => Sent(retry.payout)'
    <3>1. PICK created, answered \in BOOLEAN :
            /\ answered => created
            /\ transfers' = IF created
                            THEN transfers \cup {[payout |-> retry.payout, key |-> retry.key]}
                            ELSE transfers
            /\ IF answered THEN retry' = [retry EXCEPT !.pc = "mark"] ELSE retry' = IdleRetry
            /\ abandoned' = abandoned
      BY <1>7 DEF CreateRetryTransfer
    <3>2. answered => [payout |-> retry.payout, key |-> retry.key] \in transfers'
      BY <3>1
    <3>3. retry'.pc = "mark" => answered
      BY <3>1 DEF IdleRetry
    <3> QED
      BY <1>0, <1>7, <3>1, <3>2, <3>3 DEF CreateRetryTransfer, RetryStates, IdleRetry, Sent
  <2>2. RunInv'
    BY <1>0, <2>1 DEF RunInv, RunStates, RowInv, Sent, Known, Posted
  <2>3. HookInv'
    BY <1>0, <2>1 DEF HookInv, HookStates, Sent, Known, Posted, TakenBack
  <2>4. RetryInv'
    BY <1>0, <2>1 DEF RetryInv, HookInv, RetryStates, Sent, Known, Posted
  <2>5. RowInv'
    BY <1>0, <2>1 DEF RowInv, HookInv, RetryInv, Transfers, Known, Posted, Sent
  <2>6. SettledPosted' /\ ReversalEarned'
    BY <1>0, <2>1 DEF SettledPosted, ReversalEarned, HookInv, RetryInv, Posted, TakenBack
  <2>7. PostedOnTransfer'
    BY <1>0, <2>1 DEF PostedOnTransfer, HookInv, RetryInv, RowInv, Sent, Known, Posted
  <2>8. PendingOwned'
    BY <1>0, <2>1 DEF PendingOwned, HookInv, RetryInv, AtWork, Known
  <2> QED
    BY <2>2, <2>3, <2>4, <2>5, <2>6, <2>7, <2>8
<1>8. CASE MarkRetried
  <2>1. /\ retry.pc = "mark" /\ retry'.pc = "idle"
        /\ UNCHANGED <<credits, clawbacks, pairs, transfers, reversed, run, hook, abandoned>>
        /\ \A q \in PayoutIds : q # retry.payout => payouts'[q].status = payouts[q].status
        /\ payouts'[retry.payout].status = "sent"
    BY <1>0, <1>8 DEF MarkRetried, IdleRetry, Rows
  <2>2. RunInv'
    BY <1>0, <2>1 DEF RunInv, RunStates, RowInv, Sent, Known, Posted
  <2>3. HookInv'
    BY <1>0, <2>1 DEF HookInv, HookStates, Sent, Known, Posted, TakenBack
  <2>4. RetryInv'
    BY <1>0, <2>1 DEF RetryInv, HookInv, RetryStates, Sent, Known, Posted
  <2>5. RowInv'
    BY <1>0, <2>1 DEF RowInv, HookInv, RetryInv, Transfers, Known, Posted, Sent
  <2>6. SettledPosted' /\ ReversalEarned'
    BY <1>0, <2>1 DEF SettledPosted, ReversalEarned, HookInv, RetryInv, Posted, TakenBack
  <2>7. PostedOnTransfer'
    BY <1>0, <2>1 DEF PostedOnTransfer, HookInv, RetryInv, RowInv, Sent, Known, Posted
  <2>8. PendingOwned'
    BY <1>0, <2>1 DEF PendingOwned, HookInv, RetryInv, AtWork, Known
  <2> QED
    BY <2>2, <2>3, <2>4, <2>5, <2>6, <2>7, <2>8
<1>9. CASE CrashRetry
  <2>1. /\ retry'.pc = "idle" /\ abandoned' = abandoned
        /\ UNCHANGED <<credits, clawbacks, pairs, payouts, transfers, reversed, run, hook>>
    BY <1>9 DEF CrashRetry, IdleRetry
  <2> QED
    BY <2>1 DEF RunInv, HookInv, RetryInv, RowInv, SettledPosted, ReversalEarned,
       PostedOnTransfer, PendingOwned, Sent, TakenBack, Known, Posted, AtWork
<1> QED
  BY <1>1, <1>2, <1>3, <1>4, <1>5, <1>6, <1>7, <1>8, <1>9 DEF RetryStep

(* The invariant holds before anything happened. *)
LEMMA InitInv == Init => IInv
BY TypeInit
   DEF Init, IInv, NoRow, IdleRun, IdleHook, IdleRetry, RunInv, HookInv, RetryInv, RowInv, SettledPosted, ReversalEarned,
       PostedOnTransfer, PendingOwned, Sent, TakenBack, Known, Posted, AtWork

(* Every step preserves it. *)
LEMMA NextInv == IInv /\ [Next]_vars => IInv'
<1> SUFFICES ASSUME IInv, [Next]_vars PROVE IInv'
  OBVIOUS
<1>1. TypeOK'
  BY TypeNext DEF IInv
<1>2. CASE UNCHANGED vars
  BY <1>1, <1>2 DEF vars, IInv, RunInv, HookInv, RetryInv, RowInv, SettledPosted, ReversalEarned,
       PostedOnTransfer, PendingOwned, Sent, TakenBack, Known, Posted, AtWork
<1>3. CASE Next
  BY <1>1, <1>3, RunInd, HookInd, RestInd DEF Next
<1> QED
  BY <1>2, <1>3

(* The inductive invariant holds throughout. *)
THEOREM Inductive == Spec => []IInv
BY InitInv, NextInv, PTL DEF Spec

(* A payout shown as sent or paid has left the books. *)
THEOREM SettledAlways == Spec => []SettledPosted
BY Inductive, PTL DEF IInv

(* Money returns to the balance only after a payout that Stripe reversed. *)
THEOREM ReversalAlways == Spec => []ReversalEarned
BY Inductive, PTL DEF IInv

(* No debit without a transfer, except for a payout that still reads failed. *)
THEOREM PostedAlways == Spec => []PostedOnTransfer
BY Inductive, PTL DEF IInv

(* Only a process death orphans a pending payout. *)
THEOREM PendingAlways == Spec => []PendingOwned
BY Inductive, PTL DEF IInv

------------------------------------------------------------------------------
(***************************************************************************)
(* NeverOverpaid.  As long as no call fails and no admin retries, what the  *)
(* rows of the table come to, less what reversals gave back, is covered by  *)
(* the credits; and so it is with what a run that may still insert its row  *)
(* has read.  The reads of a run are old when it inserts: the unique index  *)
(* on the period and the runs being a week apart are what saves it.         *)
(***************************************************************************)
Calm == faults = 0 /\ crashes = 0 /\ retries = 0

NetOf == [p \in PayoutIds |-> payouts[p].net]
CentsOf == [e \in Entries |-> e.amount]
Debited == {p \in PayoutIds : Posted(p, "debit")}
Credited == {p \in PayoutIds : Posted(p, "credit")}
Open == SumOver(NetOf, Used) - SumOver(NetOf, Credited)
Earnings == SumOver(CentsOf, credits)
Working == {"transfer", "post", "mark", "audit"}

(* The ledger has finitely many entries. *)
LedgerFinite == IsFiniteSet(credits) /\ IsFiniteSet(clawbacks)

(* Nothing failed: only first transfers, and every run of its own date. *)
Smooth ==
  /\ retry.pc = "idle"
  /\ \A t \in transfers : t.key = 0
  /\ \A r \in Runs : run[r].pc # "fail"
  /\ \A r \in Runs : run[r].pc \in Working => payouts[run[r].payout].periodEnd = DateOf(clock)

(* A row that the books have not taken yet is in the hands of a run. *)
InHand ==
  \A p \in Used \ Debited :
    \E r \in Runs : run[r].pc \in {"transfer", "post"} /\ run[r].payout = p

Covered ==
  /\ Open <= Earnings
  /\ \A r \in Runs : run[r].pc \in {"totals", "insert"} =>
       AlreadyRun \/ run[r].net + Open <= Earnings

CalmInv == LedgerFinite /\ (Calm => Smooth /\ InHand /\ Covered)

(* There are finitely many payouts. *)
LEMMA PayoutsFinite == IsFiniteSet(PayoutIds)
<1>1. DateOf(MaxClock) + 1 \in Int
  BY PayoutsAssumption DEF DateOf
<1> QED
  BY <1>1, FS_Interval DEF PayoutIds

(* The sums of the model, as sums of a function.                            *)
LEMMA NetSum ==
  ASSUME TypeOK, NEW ps \in SUBSET PayoutIds
  PROVE  MapThenSumSet(LAMBDA p : payouts[p].net, ps) = SumOver(NetOf, ps)
<1> DEFINE body(it) == [s \in SUBSET ps |->
             IF s = {} THEN 0 ELSE payouts[CHOOSE x \in s : TRUE].net + it[s \ {CHOOSE x \in s : TRUE}]]
           it0 == CHOOSE it : it = body(it)
<1>1. IsFiniteSet(ps) /\ \A x \in ps : NetOf[x] \in Nat
  BY PayoutsFinite, FS_Subset DEF TypeOK, NetOf, Rows
<1>2. \A it : it = body(it) <=> Iterates(it, NetOf, ps)
  <2>1. ASSUME NEW s \in SUBSET ps, s # {}
        PROVE  NetOf[AnyOf(s)] = payouts[CHOOSE x \in s : TRUE].net
    <3>1. AnyOf(s) \in ps /\ AnyOf(s) = CHOOSE x \in s : TRUE
      BY <2>1 DEF AnyOf
    <3> QED
      BY <3>1 DEF NetOf
  <2> QED
    BY <2>1 DEF Iterates, AnyOf
<1>3. MapThenSumSet(LAMBDA p : payouts[p].net, ps) = it0[ps]
  BY Zenon DEF MapThenSumSet, MapThenFoldSet
<1>4. Iterates(it0, NetOf, ps)
  <2> HIDE DEF body
  <2>1. \E it : it = body(it)
    BY <1>1, <1>2, SumOverChosen
  <2> QED
    BY <2>1, <1>2
<1> HIDE DEF it0, body
<1> QED
  BY <1>1, <1>3, <1>4, SumIterated

(* So it is with the entries.                                               *)
LEMMA TotalSum ==
  ASSUME NEW es \in SUBSET Entries, IsFiniteSet(es)
  PROVE  Total(es) = SumOver(CentsOf, es)
<1> DEFINE body(it) == [s \in SUBSET es |->
             IF s = {} THEN 0 ELSE (CHOOSE x \in s : TRUE).amount + it[s \ {CHOOSE x \in s : TRUE}]]
           it0 == CHOOSE it : it = body(it)
<1>1. IsFiniteSet(es) /\ \A x \in es : CentsOf[x] \in Nat
  BY DEF CentsOf, Entries
<1>2. \A it : it = body(it) <=> Iterates(it, CentsOf, es)
  <2>1. ASSUME NEW s \in SUBSET es, s # {}
        PROVE  CentsOf[AnyOf(s)] = (CHOOSE x \in s : TRUE).amount
    <3>1. AnyOf(s) \in es /\ AnyOf(s) = CHOOSE x \in s : TRUE
      BY <2>1 DEF AnyOf
    <3> QED
      BY <3>1 DEF CentsOf
  <2> QED
    BY <2>1 DEF Iterates, AnyOf
<1>3. Total(es) = it0[es]
  BY Zenon DEF Total, MapThenSumSet, MapThenFoldSet
<1>4. Iterates(it0, CentsOf, es)
  <2> HIDE DEF body
  <2>1. \E it : it = body(it)
    BY <1>1, <1>2, SumOverChosen
  <2> QED
    BY <2>1, <1>2
<1> HIDE DEF it0, body
<1> QED
  BY <1>1, <1>3, <1>4, SumIterated

(* What payouts come to is a natural number. *)
LEMMA NetNat ==
  ASSUME TypeOK, NEW ps \in SUBSET PayoutIds
  PROVE  SumOver(NetOf, ps) \in Nat
<1>1. IsFiniteSet(ps) /\ \A p \in ps : NetOf[p] \in Nat
  BY PayoutsFinite, FS_Subset DEF TypeOK, NetOf, Rows
<1> QED
  BY <1>1, SumNat

(* So is what is credited and clawed back. *)
LEMMA LedgerNat ==
  ASSUME TypeOK, LedgerFinite
  PROVE  /\ Earnings \in Nat /\ Total(credits) = Earnings /\ Total(clawbacks) \in Nat
<1>1. \A es \in SUBSET Entries : IsFiniteSet(es) => SumOver(CentsOf, es) \in Nat
  <2>1. \A e \in Entries : CentsOf[e] \in Nat
    BY DEF CentsOf, Entries
  <2> QED
    BY <2>1, SumNat
<1>2. /\ Total(credits) = SumOver(CentsOf, credits)
      /\ Total(clawbacks) = SumOver(CentsOf, clawbacks)
  BY TotalSum DEF TypeOK, LedgerFinite
<1> QED
  BY <1>1, <1>2 DEF TypeOK, LedgerFinite, Earnings

LEMMA OpenInt ==
  ASSUME TypeOK
  PROVE  Open \in Int
<1>1. SumOver(NetOf, Used) \in Nat /\ SumOver(NetOf, Credited) \in Nat
  BY NetNat DEF Used, Credited
<1> QED
  BY <1>1 DEF Open

(* The balance that a run reads before there is a row of its date is what    *)
(* the credits leave when every row is taken off, or less.                   *)
LEMMA BalanceOpen ==
  ASSUME IInv, CalmInv, Calm, ~AlreadyRun
  PROVE  Balance \in Int /\ Balance + Open <= Earnings
<1>1. TypeOK /\ LedgerFinite /\ Smooth /\ InHand
  BY DEF IInv, CalmInv
<1>2. Debited = Used
  <2>1. Debited \subseteq Used
    BY DEF IInv, RowInv, Debited, Used, Known
  <2>2. ASSUME NEW p \in Used \ Debited PROVE FALSE
    BY <1>1, <2>2 DEF InHand, Smooth, Working, AlreadyRun
  <2> QED
    BY <2>1, <2>2
<1>3. /\ PairTotal("debit") = SumOver(NetOf, Used)
      /\ PairTotal("credit") = SumOver(NetOf, Credited)
  <2>1. /\ PairTotal("debit") = SumOver(NetOf, Debited)
        /\ PairTotal("credit") = SumOver(NetOf, Credited)
    BY <1>1, NetSum DEF PairTotal, Debited, Credited
  <2> QED
    BY <1>2, <2>1
<1>4. /\ SumOver(NetOf, Used) \in Nat /\ SumOver(NetOf, Credited) \in Nat
  BY <1>1, NetNat DEF Used, Credited
<1> QED
  BY <1>1, <1>3, <1>4, LedgerNat DEF Balance, Open

(* A step that only adds to the books and leaves rows, nets and periods.     *)
LEMMA NetsKept ==
  ASSUME TypeOK, TypeOK', pairs \subseteq pairs',
         \A p \in PayoutIds : payouts'[p].net = payouts[p].net /\ (Known(p)' <=> Known(p))
  PROVE  /\ Used' = Used /\ Debited \subseteq Debited' /\ Open' <= Open
         /\ Open \in Int /\ Open' \in Int
<1>1. NetOf' = NetOf /\ Used' = Used
  BY DEF NetOf, Used, Known
<1>2. Debited \subseteq Debited' /\ Credited \subseteq Credited'
  BY DEF Debited, Credited, Posted
<1>3. SumOver(NetOf, Credited) <= SumOver(NetOf, Credited')
  <2>1. IsFiniteSet(Credited') /\ \A p \in Credited' : NetOf[p] \in Nat
    BY PayoutsFinite, FS_Subset DEF Credited, TypeOK, NetOf, Rows
  <2> QED
    BY <2>1, <1>2, SumSubset
<1>4. /\ SumOver(NetOf, Used) \in Nat /\ SumOver(NetOf, Credited) \in Nat
      /\ SumOver(NetOf, Credited') \in Nat
  BY NetNat DEF Used, Credited
<1>5. Open' = SumOver(NetOf, Used) - SumOver(NetOf, Credited')
  BY <1>1 DEF Open
<1> QED
  BY <1>1, <1>2, <1>3, <1>4, <1>5 DEF Open

(* More credits are worth more. *)
LEMMA CreditsKept ==
  ASSUME TypeOK, TypeOK', LedgerFinite, LedgerFinite', credits \subseteq credits'
  PROVE  Earnings <= Earnings' /\ Earnings \in Int /\ Earnings' \in Int
<1>1. CentsOf' = CentsOf /\ \A e \in credits' : CentsOf[e] \in Nat
  BY DEF TypeOK, CentsOf, Entries
<1> QED
  BY <1>1, SumSubset, SumNat DEF LedgerFinite, Earnings

(* How far a run may go without reading the balance or inserting a row. *)
RunMoves(r) ==
  \/ run'[r] = run[r]
  \/ run'[r].pc \in {"idle", "balance"} /\ run[r].pc \notin {"transfer", "post"}
  \/ run[r].pc = "totals" /\ run'[r].pc = "insert" /\ run'[r].net = run[r].net
  \/ /\ run'[r].payout = run[r].payout
     /\ \/ run[r].pc = "transfer" /\ run'[r].pc = "post"
        \/ run[r].pc = "post" /\ run'[r].pc = "mark" /\ run[r].payout \in Debited'
        \/ run[r].pc = "mark" /\ run'[r].pc = "audit"

(* Such a step keeps what is covered. *)
LEMMA CalmKept ==
  ASSUME IInv, TypeOK', CalmInv, Calm, LedgerFinite', clock' = clock, retry' = retry,
         \A t \in transfers' : t.key = 0,
         pairs \subseteq pairs', credits \subseteq credits',
         \A p \in PayoutIds :
           /\ payouts'[p].net = payouts[p].net
           /\ payouts'[p].periodEnd = payouts[p].periodEnd
           /\ Known(p)' <=> Known(p),
         \A r \in Runs : RunMoves(r)
  PROVE  CalmInv'
<1>1. TypeOK /\ Smooth /\ InHand /\ Covered /\ LedgerFinite
  BY DEF IInv, CalmInv
<1>2. /\ Used' = Used /\ Debited \subseteq Debited' /\ Open' <= Open
      /\ Open \in Int /\ Open' \in Int
  <2>1. \A p \in PayoutIds : payouts'[p].net = payouts[p].net /\ (Known(p)' <=> Known(p))
    OBVIOUS
  <2> QED
    BY <1>1, <2>1, NetsKept, Zenon
<1>3. Earnings <= Earnings' /\ Earnings \in Int /\ Earnings' \in Int
  BY <1>1, CreditsKept
<1>4. \A r \in Runs : run[r].payout \in PayoutIds /\ run[r].net \in Nat /\ run'[r].payout \in PayoutIds
  BY <1>1 DEF TypeOK, RunStates
<1>5. Smooth'
  <2>1. ASSUME NEW r \in Runs, run'[r].pc \in Working
        PROVE  run[r].pc \in Working /\ run'[r].payout = run[r].payout
    BY <2>1 DEF RunMoves, Working
  <2>2. \A r \in Runs : run'[r].pc # "fail"
    BY <1>1 DEF Smooth, RunMoves
  <2>3. retry'.pc = "idle"
    BY <1>1 DEF Smooth
  <2>4. DateOf(clock)' = DateOf(clock)
    OBVIOUS
  <2>5. ASSUME NEW r \in Runs, run'[r].pc \in Working
        PROVE  payouts'[run'[r].payout].periodEnd = DateOf(clock)
    BY <1>1, <1>4, <2>1, <2>5 DEF Smooth
  <2> QED
    BY <2>2, <2>3, <2>4, <2>5 DEF Smooth
<1>6. InHand'
  <2> SUFFICES ASSUME NEW p \in Used \ Debited, p \notin Debited'
               PROVE  \E r \in Runs : run'[r].pc \in {"transfer", "post"} /\ run'[r].payout = p
    BY <1>2 DEF InHand
  <2>1. PICK r \in Runs : run[r].pc \in {"transfer", "post"} /\ run[r].payout = p
    BY <1>1 DEF InHand
  <2> QED
    BY <2>1 DEF RunMoves
<1>7. Covered'
  <2>1. AlreadyRun => AlreadyRun'
    <3>1. Used \subseteq PayoutIds /\ DateOf(clock)' = DateOf(clock)
      BY DEF Used
    <3> QED
      BY <1>2, <3>1 DEF AlreadyRun
  <2>2. ASSUME NEW r \in Runs, run'[r].pc \in {"totals", "insert"}
        PROVE  AlreadyRun' \/ run'[r].net + Open' <= Earnings'
    <3>1. run[r].pc \in {"totals", "insert"} /\ run'[r].net = run[r].net
      BY <2>2 DEF RunMoves
    <3> QED
      BY <1>1, <1>2, <1>3, <1>4, <2>1, <3>1 DEF Covered
  <2>3. Open' <= Earnings'
    BY <1>1, <1>2, <1>3 DEF Covered
  <2> QED
    BY <2>2, <2>3 DEF Covered
<1> QED
  BY <1>5, <1>6, <1>7 DEF CalmInv

LEMMA FiniteNext ==
  ASSUME LedgerFinite, [Next]_vars
  PROVE  LedgerFinite'
<1> USE DEF LedgerFinite, ledgerVars, stripeVars, procVars, counters
<1>1. ASSUME NEW s \in Sales, RecordSale(s) \/ RecordRefund(s) PROVE LedgerFinite'
  <2>1. \E e : (credits' = credits \/ credits' = credits \cup {e})
             /\ (clawbacks' = clawbacks \/ clawbacks' = clawbacks \cup {e})
    BY <1>1 DEF RecordSale, RecordRefund
  <2> QED
    BY <2>1, FS_AddElement
<1>2. CASE UNCHANGED <<credits, clawbacks>>
  BY <1>2
<1>3. [Next]_vars => \/ UNCHANGED <<credits, clawbacks>>
                   \/ \E s \in Sales : RecordSale(s) \/ RecordRefund(s)
  <2> USE DEF Tick, ReverseTransfer
  <2>1. ASSUME NEW r \in Runs, StartRun(r) \/ RunStep(r) \/ CrashRun(r)
        PROVE  UNCHANGED <<credits, clawbacks>>
    BY <2>1 DEF RunStep, StartRun, ReadBalance, CheckTotals, InsertPayout, CreateTransfer,
       PostRunPair, MarkSent, AuditSent, MarkRunFailed, CrashRun
  <2>2. ASSUME NEW h \in Hooks,
               \/ \E t \in transfers : \E kind \in {"paid", "failed"} : ReceiveTransferEvent(h, t, kind)
               \/ HookStep(h) \/ CrashHook(h)
        PROVE  UNCHANGED <<credits, clawbacks>>
    BY <2>2 DEF ReceiveTransferEvent, HookStep, RepostPair, MarkPaid, ReversePosted, MarkReversed, CrashHook
  <2>3. ASSUME (\E p \in PayoutIds : StartRetry(p)) \/ RetryStep \/ CrashRetry
        PROVE  UNCHANGED <<credits, clawbacks>>
    BY <2>3 DEF StartRetry, RetryStep, PostRetryPair, CreateRetryTransfer, MarkRetried, CrashRetry
  <2> QED
    BY <2>1, <2>2, <2>3 DEF Next, vars
<1> QED
  BY <1>1, <1>2, <1>3

(* The callers of runPayouts keep what is covered. *)
LEMMA CalmRun ==
  ASSUME IInv, TypeOK', CalmInv, Calm', LedgerFinite', NEW r \in Runs,
         StartRun(r) \/ RunStep(r) \/ CrashRun(r)
  PROVE  CalmInv'
<1> USE DEF ledgerVars, stripeVars, procVars, counters, At, Goto, End, Fault, NoFault, Crash, Failing, Dying, BreakOff
<1>1. /\ run \in [Runs -> RunStates] /\ run[r].payout \in PayoutIds /\ run[r].net \in Nat
      /\ faults \in Nat /\ crashes \in Nat /\ retries \in Nat
      /\ TypeOK /\ IdleRun.pc = "idle"
  BY PayoutsAssumption DEF IInv, TypeOK, RunStates, IdleRun
<1>2. Calm => Smooth /\ InHand /\ Covered /\ LedgerFinite
  BY DEF CalmInv
<1>3. CASE StartRun(r)
  <2>1. RunMoves(r) /\ \A q \in Runs : RunMoves(q)
    BY <1>1, <1>3 DEF StartRun, RunMoves
  <2> QED
    BY <1>1, <1>2, <1>3, <2>1, CalmKept DEF StartRun, Calm, Smooth, Known
<1>4. CASE ReadBalance(r)
  <2>1. Calm /\ UNCHANGED <<clock, credits, clawbacks, pairs, payouts, transfers, retry>>
    BY <1>4 DEF ReadBalance, Calm
  <2>2. CASE Balance \notin Nat \ {0}
    <3>1. \A q \in Runs : RunMoves(q)
      BY <1>1, <1>4, <2>2 DEF ReadBalance, RunMoves, RunStates, IdleRun
    <3> QED
      BY <1>1, <1>2, <2>1, <3>1, CalmKept DEF Smooth, Known
  <2>3. CASE Balance \in Nat \ {0}
    <3>1. run' = [run EXCEPT ![r].net = Balance, ![r].pc = "totals"]
      BY <1>4, <2>3 DEF ReadBalance
    <3>2. run'[r].net = Balance /\ run'[r].pc = "totals" /\ \A q \in Runs : q # r => run'[q] = run[q]
      BY <1>1, <3>1 DEF RunStates
    <3>3. /\ Open' = Open /\ Earnings' = Earnings /\ AlreadyRun' = AlreadyRun /\ Used' = Used
          /\ Debited' = Debited
      BY <2>1 DEF Open, Earnings, AlreadyRun, Used, Debited, Credited, NetOf, CentsOf, Posted, DateOf
    <3>4. Smooth'
      BY <1>2, <2>1, <3>2 DEF Smooth, Working, DateOf
    <3>5. InHand'
      BY <1>2, <1>4, <2>1, <3>2, <3>3 DEF InHand, ReadBalance
    <3>6. Covered'
      BY <1>2, <2>1, <3>2, <3>3, BalanceOpen DEF Covered
    <3> QED
      BY <3>4, <3>5, <3>6 DEF CalmInv
  <2> QED
    BY <2>2, <2>3
<1>5. CASE CheckTotals(r)
  <2>1. \A q \in Runs : RunMoves(q)
    BY <1>1, <1>5 DEF CheckTotals, RunMoves, RunStates, IdleRun
  <2> QED
    BY <1>1, <1>2, <1>5, <2>1, CalmKept DEF CheckTotals, Calm, Smooth, Known
<1>6. CASE InsertPayout(r)
  <2>1. Calm /\ UNCHANGED <<clock, credits, clawbacks, pairs, transfers, retry>>
    BY <1>6 DEF InsertPayout, Calm
  <2>2. CASE AlreadyRun
    <3>1. UNCHANGED payouts /\ \A q \in Runs : RunMoves(q)
      BY <1>1, <1>6, <2>2 DEF InsertPayout, RunMoves, RunStates, IdleRun
    <3> QED
      BY <1>1, <1>2, <2>1, <3>1, CalmKept DEF Smooth, Known
  <2>3. CASE ~AlreadyRun
    <3>1. PICK p \in PayoutIds \ Used :
            /\ payouts' = [payouts EXCEPT ![p] =
                 [status |-> "pending", periodEnd |-> DateOf(clock),
                  net |-> run[r].net, transfer |-> NoTransfer]]
            /\ run' = [run EXCEPT ![r].pc = "transfer", ![r].payout = p]
      BY <1>6, <2>3 DEF InsertPayout
    <3>2. /\ run'[r].pc = "transfer" /\ run'[r].payout = p
          /\ \A q \in Runs : q # r => run'[q] = run[q]
      BY <1>1, <3>1 DEF RunStates
    <3>3. /\ payouts'[p].status = "pending" /\ payouts'[p].periodEnd = DateOf(clock)
          /\ payouts'[p].net = run[r].net
          /\ \A q \in PayoutIds : q # p => payouts'[q] = payouts[q]
      BY <1>1, <3>1 DEF TypeOK
    <3>4. Used' = Used \cup {p} /\ p \notin Used /\ Debited' = Debited /\ Credited' = Credited
      BY <2>1, <3>3 DEF Used, Debited, Credited, Posted
    <3>5. Open' = Open + run[r].net
      <4>1. p \notin Credited
        BY <3>4 DEF IInv, RowInv, ReversalEarned, Credited, Used, Known
      <4>2. IsFiniteSet(Used) /\ IsFiniteSet(Credited)
        BY PayoutsFinite, FS_Subset DEF Used, Credited
      <4>3. \A q \in PayoutIds : NetOf[q] \in Int /\ NetOf'[q] \in Int
        BY <1>1 DEF NetOf, TypeOK, Rows
      <4>4. \A q \in Used \cup Credited : NetOf'[q] = NetOf[q]
        BY <3>3, <3>4, <4>1 DEF NetOf, Used, Credited
      <4>5. SumOver(NetOf', Used) = SumOver(NetOf, Used)
        BY <4>2, <4>3, <4>4, SumSame DEF Used
      <4>6. SumOver(NetOf', Credited) = SumOver(NetOf, Credited)
        BY <4>2, <4>3, <4>4, SumSame DEF Credited
      <4>7. SumOver(NetOf', Used \cup {p}) = SumOver(NetOf', Used) + NetOf'[p]
        BY <3>4, <4>2, <4>3, SumAdd DEF Used
      <4>8. NetOf'[p] = run[r].net
        BY <3>3 DEF NetOf
      <4>9. SumOver(NetOf, Used) \in Int /\ SumOver(NetOf, Credited) \in Int
        BY <1>1, NetNat DEF Used, Credited
      <4> QED
        BY <1>1, <3>4, <4>5, <4>6, <4>7, <4>8, <4>9 DEF Open
    <3>6. AlreadyRun'
      BY <2>1, <3>3, <3>4 DEF AlreadyRun, DateOf
    <3>7. Earnings' = Earnings
      BY <2>1 DEF Earnings, CentsOf
    <3>8. run[r].net + Open <= Earnings
      BY <1>2, <1>6, <2>1, <2>3 DEF Covered, InsertPayout
    <3>9. Covered'
      BY <1>1, <3>5, <3>6, <3>7, <3>8, OpenInt DEF Covered
    <3>10. InHand'
      <4> SUFFICES ASSUME NEW q \in Used \cup {p}, q \notin Debited
                   PROVE  \E c \in Runs : run'[c].pc \in {"transfer", "post"} /\ run'[c].payout = q
        BY <3>4 DEF InHand
      <4>1. CASE q = p
        BY <3>2, <4>1
      <4>2. CASE q \in Used
        <5>1. PICK c \in Runs : run[c].pc \in {"transfer", "post"} /\ run[c].payout = q
          BY <1>2, <2>1, <4>2 DEF InHand
        <5>2. c # r
          BY <1>6, <5>1 DEF InsertPayout
        <5> QED
          BY <3>2, <5>1, <5>2
      <4> QED
        BY <4>1, <4>2
    <3>11. Smooth'
      <4>1. ASSUME NEW q \in Runs, run'[q].pc \in Working
            PROVE  payouts'[run'[q].payout].periodEnd = DateOf(clock)
        <5>1. CASE q = r
          BY <3>2, <3>3, <5>1
        <5>2. CASE q # r
          <6>1. run[q].pc \in Working /\ run'[q] = run[q]
            BY <3>2, <4>1, <5>2
          <6>2. run[q].payout \in Used
            BY <1>1, <6>1 DEF IInv, RunInv, Working, Known, Used, RunStates
          <6> QED
            BY <1>2, <2>1, <3>3, <3>4, <6>1, <6>2 DEF Smooth, Used
        <5> QED
          BY <5>1, <5>2
      <4> QED
        BY <1>2, <2>1, <3>2, <4>1 DEF Smooth, DateOf
    <3> QED
      BY <3>9, <3>10, <3>11 DEF CalmInv
  <2> QED
    BY <2>2, <2>3
<1>7. CASE CreateTransfer(r)
  <2>1. /\ Calm /\ run' = [run EXCEPT ![r].pc = "post"] /\ run[r].pc = "transfer"
        /\ transfers' \subseteq transfers \cup {[payout |-> run[r].payout, key |-> 0]}
        /\ UNCHANGED <<clock, credits, clawbacks, pairs, payouts, retry>>
    BY <1>1, <1>7 DEF CreateTransfer, Calm
  <2>2. \A q \in Runs : RunMoves(q)
    BY <1>1, <2>1 DEF RunMoves, RunStates
  <2>3. \A t \in transfers' : t.key = 0
    BY <1>2, <2>1 DEF Smooth
  <2> QED
    BY <1>1, <2>1, <2>2, <2>3, CalmKept DEF Known
<1>8. CASE PostRunPair(r)
  <2>1. /\ Calm /\ run' = [run EXCEPT ![r].pc = "mark"] /\ run[r].pc = "post"
        /\ pairs' = pairs \cup {[payout |-> run[r].payout, dir |-> "debit"]}
        /\ UNCHANGED <<clock, credits, clawbacks, payouts, transfers, retry>>
    BY <1>1, <1>8 DEF PostRunPair, PostPair, Calm
  <2>2. run[r].payout \in Debited'
    BY <1>1, <2>1 DEF Debited, Posted
  <2>3. \A q \in Runs : RunMoves(q)
    BY <1>1, <2>1, <2>2 DEF RunMoves, RunStates
  <2> QED
    BY <1>1, <1>2, <2>1, <2>3, CalmKept DEF Smooth, Known
<1>9. CASE MarkSent(r)
  <2>1. /\ Calm /\ run' = [run EXCEPT ![r].pc = "audit"] /\ run[r].pc = "mark"
        /\ payouts' = [payouts EXCEPT ![run[r].payout].status = "sent",
                                      ![run[r].payout].transfer = 0]
        /\ UNCHANGED <<clock, credits, clawbacks, pairs, transfers, retry>>
    BY <1>1, <1>9 DEF MarkSent, Calm
  <2>2. \A q \in Runs : RunMoves(q)
    BY <1>1, <2>1 DEF RunMoves, RunStates
  <2>3. Known(run[r].payout)
    BY <2>1 DEF IInv, RunInv
  <2>4. \A p \in PayoutIds :
          /\ payouts'[p].net = payouts[p].net
          /\ payouts'[p].periodEnd = payouts[p].periodEnd
          /\ Known(p)' <=> Known(p)
    BY <1>1, <2>1, <2>3 DEF TypeOK, Rows, Known
  <2> QED
    BY <1>1, <1>2, <2>1, <2>2, <2>4, CalmKept DEF Smooth
<1>10. CASE AuditSent(r)
  <2>1. /\ Calm /\ run' = [run EXCEPT ![r] = [IdleRun EXCEPT !.outcome = "ended"]]
        /\ run[r].pc = "audit"
        /\ UNCHANGED <<clock, credits, clawbacks, pairs, payouts, transfers, retry>>
    BY <1>1, <1>10 DEF AuditSent, Calm
  <2>2. \A q \in Runs : RunMoves(q)
    BY <1>1, <2>1 DEF RunMoves, RunStates
  <2> QED
    BY <1>1, <1>2, <2>1, <2>2, CalmKept DEF Smooth, Known
<1>11. CASE MarkRunFailed(r)
  <2>0. Calm
    BY <1>1, <1>11 DEF MarkRunFailed, Calm
  <2>1. run[r].pc # "fail"
    BY <1>2, <2>0 DEF Smooth
  <2> QED
    BY <1>11, <2>1 DEF MarkRunFailed
<1>12. CASE CrashRun(r)
  BY <1>1, <1>12 DEF CrashRun, Calm
<1> QED
  BY <1>3, <1>4, <1>5, <1>6, <1>7, <1>8, <1>9, <1>10, <1>11, <1>12 DEF RunStep

(* So do the webhook deliveries. *)
LEMMA CalmHook ==
  ASSUME IInv, TypeOK', CalmInv, Calm', LedgerFinite', NEW h \in Hooks,
         \/ \E t \in transfers : \E kind \in {"paid", "failed"} : ReceiveTransferEvent(h, t, kind)
         \/ HookStep(h) \/ CrashHook(h)
  PROVE  CalmInv'
<1> USE DEF ledgerVars, stripeVars, procVars, counters, HookAt, HookGoto, HookDone, Crash, Dying
<1>1. /\ TypeOK /\ faults \in Nat /\ crashes \in Nat /\ retries \in Nat
      /\ hook[h].payout \in PayoutIds
  BY PayoutsAssumption DEF IInv, TypeOK, HookStates
<1>2. Calm => Smooth
  BY DEF CalmInv
<1>3. \A q \in Runs : run' = run => RunMoves(q)
  BY DEF RunMoves
<1>4. ASSUME NEW t \in transfers, NEW kind \in {"paid", "failed"},
             ReceiveTransferEvent(h, t, kind)
      PROVE  CalmInv'
  BY <1>1, <1>2, <1>3, <1>4, CalmKept DEF ReceiveTransferEvent, Calm, Smooth, Known
<1>5. CASE RepostPair(h)
  BY <1>1, <1>2, <1>3, <1>5, CalmKept DEF RepostPair, PostPair, Calm, Smooth, Known
<1>6. CASE ReversePosted(h)
  BY <1>1, <1>2, <1>3, <1>6, CalmKept DEF ReversePosted, ReversePair, Calm, Smooth, Known
<1>7. CASE MarkPaid(h) \/ MarkReversed(h)
  <2>1. /\ Calm /\ hook[h].pc # "idle"
        /\ \E st \in {"paid", "failed"} :
             payouts' = [payouts EXCEPT ![hook[h].payout].status = st]
        /\ UNCHANGED <<clock, credits, clawbacks, pairs, transfers, run, retry>>
    BY <1>7 DEF MarkPaid, MarkReversed, Calm
  <2>2. Known(hook[h].payout)
    BY <2>1 DEF IInv, HookInv
  <2>3. \A p \in PayoutIds :
          /\ payouts'[p].net = payouts[p].net
          /\ payouts'[p].periodEnd = payouts[p].periodEnd
          /\ Known(p)' <=> Known(p)
    BY <1>1, <2>1, <2>2 DEF TypeOK, Rows, Known
  <2> QED
    BY <1>1, <1>2, <1>3, <2>1, <2>3, CalmKept DEF Smooth
<1>8. CASE CrashHook(h)
  BY <1>1, <1>8 DEF CrashHook, Calm
<1> QED
  BY <1>4, <1>5, <1>6, <1>7, <1>8 DEF HookStep

(* So do the surroundings; a retry ends the calm. *)
LEMMA CalmRest ==
  ASSUME IInv, TypeOK', CalmInv, Calm', LedgerFinite',
         \/ Tick
         \/ \E s \in Sales : RecordSale(s) \/ RecordRefund(s)
         \/ \E t \in transfers : ReverseTransfer(t)
         \/ \E p \in PayoutIds : StartRetry(p)
         \/ RetryStep \/ CrashRetry
  PROVE  CalmInv'
<1> USE DEF ledgerVars, stripeVars, procVars, counters, Fault, NoFault, Crash, Failing, Dying, BreakOff
<1>1. TypeOK /\ faults \in Nat /\ crashes \in Nat /\ retries \in Nat
  BY PayoutsAssumption DEF IInv, TypeOK
<1>2. Calm => Smooth /\ InHand /\ Covered
  BY DEF CalmInv
<1>3. \A q \in Runs : run' = run => RunMoves(q)
  BY DEF RunMoves
<1>4. CASE Tick
  <2>1. /\ Calm /\ \A r \in Runs : run[r].pc = "idle" /\ run'[r].pc = "idle"
        /\ UNCHANGED <<credits, clawbacks, pairs, payouts, transfers, retry>>
    BY <1>4 DEF Tick, Calm, IdleRun
  <2>2. Open' = Open /\ Earnings' = Earnings /\ Used' = Used /\ Debited' = Debited
    BY <2>1 DEF Open, Earnings, Used, Debited, Credited, NetOf, CentsOf, Posted
  <2>3. Smooth' /\ InHand'
    BY <1>2, <2>1, <2>2 DEF Smooth, InHand, Working
  <2>4. Covered'
    BY <1>2, <2>1, <2>2 DEF Covered
  <2> QED
    BY <2>3, <2>4 DEF CalmInv
<1>5. ASSUME NEW s \in Sales, RecordSale(s) \/ RecordRefund(s) PROVE CalmInv'
  <2>1. /\ Calm /\ credits \subseteq credits'
        /\ UNCHANGED <<clock, pairs, payouts, transfers, run, retry>>
    BY <1>5 DEF RecordSale, RecordRefund, Calm
  <2> QED
    BY <1>1, <1>2, <1>3, <2>1, CalmKept DEF Smooth, Known
<1>6. ASSUME NEW t \in transfers, ReverseTransfer(t) PROVE CalmInv'
  BY <1>1, <1>2, <1>3, <1>6, CalmKept DEF ReverseTransfer, Calm, Smooth, Known
<1>7. ASSUME NEW p \in PayoutIds, StartRetry(p) PROVE CalmInv'
  BY <1>1, <1>7 DEF StartRetry, Calm
<1>8. CASE RetryStep \/ CrashRetry
  <2>1. retry.pc # "idle"
    BY <1>8 DEF RetryStep, PostRetryPair, CreateRetryTransfer, MarkRetried, CrashRetry
  <2>2. ~Calm
    BY <1>2, <2>1 DEF Smooth
  <2> QED
    BY <1>1, <1>8, <2>2 DEF RetryStep, PostRetryPair, CreateRetryTransfer, MarkRetried, CrashRetry, Calm
<1> QED
  BY <1>4, <1>5, <1>6, <1>7, <1>8

LEMMA CalmNext ==
  ASSUME IInv, TypeOK', CalmInv, [Next]_vars
  PROVE  CalmInv'
<1>1. LedgerFinite'
  BY FiniteNext DEF CalmInv
<1>2. CASE ~Calm'
  BY <1>1, <1>2 DEF CalmInv
<1>3. CASE Calm' /\ UNCHANGED vars
  <2>1. Calm /\ \A q \in Runs : RunMoves(q)
    BY <1>3 DEF Calm, vars, RunMoves
  <2> QED
    BY <1>1, <1>3, <2>1, CalmKept DEF vars, Known, CalmInv, Smooth
<1>4. CASE Calm' /\ Next
  BY <1>1, <1>4, CalmRun, CalmHook, CalmRest DEF Next
<1> QED
  BY <1>2, <1>3, <1>4

LEMMA CalmInit == Init => CalmInv
<1> SUFFICES ASSUME Init PROVE CalmInv
  OBVIOUS
<1>1. LedgerFinite
  BY FS_EmptySet DEF Init, LedgerFinite
<1>2. Used = {} /\ Credited = {} /\ credits = {}
  BY DEF Init, Used, Credited, Posted, NoRow
<1>3. Open = 0 /\ Earnings = 0
  BY <1>2, SumEmpty DEF Open, Earnings
<1>4. Covered /\ InHand /\ Smooth
  BY <1>2, <1>3 DEF Init, Covered, InHand, Smooth, IdleRun, IdleRetry, Working
<1> QED
  BY <1>1, <1>4 DEF CalmInv

(* The transfers that stand are those of rows that no reversal gave back, one *)
(* each, so they come to no more than what is open.                          *)
LEMMA PaidCovered ==
  ASSUME IInv, CalmInv
  PROVE  NeverOverpaid
<1> SUFFICES ASSUME Calm
             PROVE  MapThenSumSet(LAMBDA t : payouts[t.payout].net, Paid) <= Total(credits)
  BY DEF NeverOverpaid, Calm
<1> DEFINE worth == [t \in Transfers |-> payouts[t.payout].net]
           paidTo == [t \in Transfers |-> t.payout]
           to == {paidTo[t] : t \in Paid}
           body(it) == [s \in SUBSET Paid |->
             IF s = {} THEN 0 ELSE payouts[(CHOOSE x \in s : TRUE).payout].net
                                   + it[s \ {CHOOSE x \in s : TRUE}]]
           it0 == CHOOSE it : it = body(it)
<1>1. TypeOK /\ Smooth /\ Covered /\ LedgerFinite
  BY DEF IInv, CalmInv
<1>2. Paid \subseteq Transfers /\ \A t \in Paid : t.key = 0
  BY <1>1 DEF Paid, TypeOK, Smooth
<1>3. \A t, u \in Paid : paidTo[t] = paidTo[u] => t = u
  BY <1>2 DEF Transfers
<1>4. IsFiniteSet(Paid)
  <2>1. paidTo \in [Transfers -> PayoutIds]
    BY DEF Transfers
  <2> DEFINE inj == [t \in Paid |-> paidTo[t]]
  <2>2. inj \in Injection(Paid, PayoutIds)
    BY <1>2, <1>3, <2>1 DEF Injection, IsInjective
  <2> HIDE DEF inj
  <2> QED
    BY <2>2, PayoutsFinite, FS_Injection
<1>5. \A t \in Paid : worth[t] = NetOf[paidTo[t]] /\ worth[t] \in Nat
  BY <1>1, <1>2 DEF Transfers, TypeOK, Rows, NetOf
<1>6. SumOver(worth, Paid) = SumOver(NetOf, to)
  <2> HIDE DEF worth, paidTo
  <2> QED
    BY <1>3, <1>4, <1>5, SumImage
<1>7. to \subseteq Used \ Credited
  <2>1. ASSUME NEW t \in Paid PROVE t.payout \in Used /\ t.payout \notin Credited
    <3>1. t.payout \in Used
      BY <1>2, <2>1 DEF IInv, RowInv, Paid, Known, Used, Transfers
    <3>2. ASSUME t.payout \in Credited PROVE FALSE
      <4>1. PICK u \in reversed : u.payout = t.payout
        BY <3>2 DEF IInv, ReversalEarned, Credited
      <4>2. u \in transfers /\ u \in Transfers /\ u.key = 0
        BY <1>1 DEF TypeOK, Smooth
      <4>3. t \in Transfers /\ t.key = 0
        BY <1>2
      <4>4. u = t
        BY <4>1, <4>2, <4>3 DEF Transfers
      <4> QED
        BY <4>4 DEF Paid
    <3> QED
      BY <3>1, <3>2
  <2> QED
    BY <1>2, <2>1
<1>8. SumOver(NetOf, to) <= Open
  <2>1. Credited \subseteq Used
    BY DEF IInv, ReversalEarned, RowInv, Credited, Used, Known
  <2>2. IsFiniteSet(Used) /\ \A p \in PayoutIds : NetOf[p] \in Nat
    BY <1>1, PayoutsFinite, FS_Subset DEF Used, TypeOK, NetOf, Rows
  <2>3. IsFiniteSet(Used \ Credited) /\ IsFiniteSet(Credited)
    BY <2>1, <2>2, FS_Subset
  <2>4. SumOver(NetOf, to) <= SumOver(NetOf, Used \ Credited)
    <3> HIDE DEF to
    <3> QED
      BY <1>7, <2>2, <2>3, SumSubset DEF Used
  <2>5. SumOver(NetOf, (Used \ Credited) \cup Credited)
          = SumOver(NetOf, Used \ Credited) + SumOver(NetOf, Credited)
    BY <2>2, <2>3, SumUnion DEF Used, Credited
  <2>6. SumOver(NetOf, Used) = SumOver(NetOf, Used \ Credited) + SumOver(NetOf, Credited)
    <3>1. (Used \ Credited) \cup Credited = Used
      BY <2>1
    <3> QED
      BY <2>5, <3>1, Zenon
  <2>7. /\ SumOver(NetOf, Used \ Credited) \in Nat /\ SumOver(NetOf, Credited) \in Nat
        /\ SumOver(NetOf, Used) \in Nat
    BY <1>1, NetNat DEF Used, Credited
  <2>8. SumOver(NetOf, to) \in Nat
    <3>1. to \subseteq PayoutIds
      BY <1>7 DEF Used
    <3> HIDE DEF to
    <3> QED
      BY <1>1, <3>1, NetNat
  <2> HIDE DEF to
  <2> QED
    BY <2>4, <2>6, <2>7, <2>8 DEF Open
<1>9. MapThenSumSet(LAMBDA t : payouts[t.payout].net, Paid) = SumOver(worth, Paid)
  <2>1. \A it : it = body(it) <=> Iterates(it, worth, Paid)
    <3>1. ASSUME NEW s \in SUBSET Paid, s # {}
          PROVE  worth[AnyOf(s)] = payouts[(CHOOSE x \in s : TRUE).payout].net
      <4>1. AnyOf(s) \in Transfers /\ AnyOf(s) = CHOOSE x \in s : TRUE
        BY <1>2, <3>1 DEF AnyOf
      <4> QED
        BY <4>1
    <3> QED
      BY <3>1 DEF Iterates, AnyOf
  <2>2. MapThenSumSet(LAMBDA t : payouts[t.payout].net, Paid) = it0[Paid]
    BY Zenon DEF MapThenSumSet, MapThenFoldSet
  <2>3. Iterates(it0, worth, Paid)
    <3> HIDE DEF body, worth, paidTo
    <3>0. \A t \in Paid : worth[t] \in Int
      BY <1>5
    <3>1. \E it : it = body(it)
      BY <1>4, <3>0, <2>1, SumOverChosen
    <3> QED
      BY <3>1, <2>1
  <2> HIDE DEF it0, body, worth, paidTo
  <2>4. \A t \in Paid : worth[t] \in Int
    BY <1>5
  <2> QED
    BY <1>4, <2>2, <2>3, <2>4, SumIterated
<1>10. SumOver(worth, Paid) \in Nat /\ Earnings \in Nat /\ Total(credits) = Earnings /\ Open \in Int
  <2> HIDE DEF worth
  <2> QED
    BY <1>1, <1>4, <1>5, SumNat, LedgerNat, OpenInt
<1> HIDE DEF worth, to
<1> QED
  BY <1>1, <1>6, <1>8, <1>9, <1>10 DEF Covered

(* Concurrent and repeated runs, reversals and late events never pay the     *)
(* photographer more than the sales credited, as long as no call fails and   *)
(* no admin retries.                                                         *)
THEOREM OverpaidNever == Spec => []NeverOverpaid
<1>1. Init => IInv /\ CalmInv
  BY InitInv, CalmInit
<1>2. IInv /\ CalmInv /\ [Next]_vars => (IInv /\ CalmInv)'
  BY NextInv, CalmNext DEF IInv
<1>3. IInv /\ CalmInv => NeverOverpaid
  BY PaidCovered
<1> QED
  BY <1>1, <1>2, <1>3, PTL DEF Spec
=============================================================================
