----------------------------- MODULE Fulfillment -----------------------------
(***************************************************************************)
(* What is delivered for a paid order.  A digital order is a job of the    *)
(* fulfillment:digital queue (workers/fulfillment-digital.ts) that zips    *)
(* the photos, stores the zip and e-mails a link the download route        *)
(* serves.  A print order is a print_lab_orders row (print-fulfillment.ts  *)
(* of the API) that two sweeps of the worker submit to a lab and poll      *)
(* (jobs/print-fulfillment.ts) while the lab reports by webhook.  No step  *)
(* is in a transaction with another: a process may die between any two,    *)
(* the lab may take an order whose answer is lost, and its webhooks arrive *)
(* in any order, more than once or never.                                  *)
(***************************************************************************)
EXTENDS Integers, FiniteSets, Sequences, SequencesExt

CONSTANTS
  Contents,     \* what an order may be for: a subset of {"digital", "print"}
  Jobs,         \* fulfillment:digital jobs of the order
  Photos,       \* photos of the order's items, bundle snapshots expanded
  JobAttempts,  \* attempts of a job (DEFAULT_JOB_OPTIONS)
  MaxSubmits,   \* MAX_SUBMIT_ATTEMPTS
  MaxFaults,    \* bound on the processes that die and the statements that fail
  MaxCopies     \* bound on the deliveries of one webhook of the lab

ASSUME FulfillmentAssumption ==
  /\ Contents \subseteq {"digital", "print"} /\ MaxFaults \in Nat
  /\ JobAttempts \in Nat \ {0} /\ MaxSubmits \in Nat \ {0} /\ MaxCopies \in Nat \ {0}

VARIABLES
  content,  \* what this order is for
  adapter,  \* the worker is configured to talk to the lab of its prints
  faults,   \* deaths and failed statements so far
  jobs,     \* the queue's jobs
  rows,     \* fulfillments of kind digital_download, in the order of their insertion
  zips,     \* R2: the rows whose zip is stored
  print,    \* the print_lab_orders row, or the state "none"
  lab,      \* the lab: orders by idempotency key, and how far each is
  submit,   \* runPrintSubmissions, where it stands with the row
  poll,     \* runPrintStatusPolls, likewise
  hooks     \* webhooks of the lab, by the raw status they report

digitalVars == <<jobs, rows, zips>>
printVars == <<print, lab, submit, poll, hooks>>
fulfilVars == <<content, adapter, faults, digitalVars, printVars>>

------------------------------------------------------------------------------
(* Digital: the job, from its idempotency check to its audit row. *)

Final == {"done", "failed"}

Job == [pc : {"check", "load", "insert", "upload", "complete", "mail", "audit", "giveup"} \cup Final,
        attempt : 1 .. JobAttempts, found : SUBSET Photos, row : Nat]
Row == [status : {"in_progress", "completed", "failed"}, photos : SUBSET Photos,
        emailed : BOOLEAN]

Step(j, from, to) ==
  jobs[j].pc = from /\ jobs' = [jobs EXCEPT ![j].pc = to]

\* findExistingCompleted looks at one row of the order, without an order by.
FindExistingCompleted(j) ==
  /\ \/ rows = <<>> /\ Step(j, "check", "load")
     \/ \E r \in DOMAIN rows :
          Step(j, "check", IF rows[r].status = "completed" THEN "done" ELSE "load")
  /\ UNCHANGED <<content, adapter, faults, rows, zips, printVars>>

\* Photos without a 'full' derivative are left out of the zip without an error.
LoadOrder(j) ==
  \E found \in SUBSET Photos :
    /\ jobs[j].pc = "load"
    /\ jobs' = [jobs EXCEPT ![j].pc = "insert", ![j].found = found]
    /\ UNCHANGED <<content, adapter, faults, rows, zips, printVars>>

\* An order with nothing to deliver gets a failed row, and the job ends well.
InsertFulfillment(j) ==
  LET found == jobs[j].found
      status == IF found = {} THEN "failed" ELSE "in_progress"
  IN /\ jobs[j].pc = "insert"
     /\ rows' = Append(rows, [status |-> status, photos |-> found, emailed |-> FALSE])
     /\ jobs' = [jobs EXCEPT ![j].pc = IF found = {} THEN "audit" ELSE "upload",
                             ![j].row = Len(rows) + 1]
     /\ UNCHANGED <<content, adapter, faults, zips, printVars>>

BuildAndUploadBundle(j) ==
  /\ Step(j, "upload", "complete")
  /\ zips' = zips \cup {jobs[j].row}
  /\ UNCHANGED <<content, adapter, faults, rows, printVars>>

MarkCompleted(j) ==
  /\ Step(j, "complete", "mail")
  /\ rows' = [rows EXCEPT ![jobs[j].row].status = "completed"]
  /\ UNCHANGED <<content, adapter, faults, zips, printVars>>

\* sendFulfillmentEmail reports a failure, it does not throw; the job ignores it.
SendEmail(j) ==
  \E sent \in BOOLEAN :
    /\ Step(j, "mail", "audit")
    /\ rows' = [rows EXCEPT ![jobs[j].row].emailed = sent]
    /\ UNCHANGED <<content, adapter, faults, zips, printVars>>

WriteAudit(j) ==
  /\ Step(j, "audit", "done")
  /\ UNCHANGED <<content, adapter, faults, rows, zips, printVars>>

\* The last attempt gives up on the order, any other is tried again by the queue.
Retried(job) ==
  IF job.attempt < JobAttempts THEN [job EXCEPT !.pc = "check", !.attempt = @ + 1]
  ELSE [job EXCEPT !.pc = "giveup"]

\* Mutant: every attempt that throws marks the rows of the order.
ThrowMarksRows(j) ==
  /\ jobs[j].pc \in {"check", "load", "insert", "upload", "complete"}
  /\ faults < MaxFaults /\ faults' = faults + 1
  /\ rows' = [r \in DOMAIN rows |-> [rows[r] EXCEPT !.status = "failed"]]
  /\ jobs' = [jobs EXCEPT ![j] = Retried(jobs[j])]
  /\ UNCHANGED <<content, adapter, zips, printVars>>

\* A statement or R2 fails; the audit insert only logs it.
Throw(j) ==
  /\ jobs[j].pc \in {"check", "load", "insert", "upload", "complete"}
  /\ faults < MaxFaults /\ faults' = faults + 1
  /\ jobs' = [jobs EXCEPT ![j] = Retried(jobs[j])]
  /\ UNCHANGED <<content, adapter, rows, zips, printVars>>

\* The last attempt marks every row of the order; that statement may fail too.
GiveUp(j) ==
  /\ Step(j, "giveup", "failed")
  /\ \/ /\ rows' = [r \in DOMAIN rows |-> [rows[r] EXCEPT !.status = "failed"]]
        /\ faults' = faults
     \/ faults < MaxFaults /\ faults' = faults + 1 /\ rows' = rows
  /\ UNCHANGED <<content, adapter, zips, printVars>>

\* A job whose worker dies is stalled, and run again from the start.
JobDies(j) ==
  /\ jobs[j].pc \notin Final \cup {"check"}
  /\ faults < MaxFaults /\ faults' = faults + 1
  /\ jobs' = [jobs EXCEPT ![j].pc = "check"]
  /\ UNCHANGED <<content, adapter, rows, zips, printVars>>

\* GET /v1/orders/:orderId/downloads/:downloadToken answers the token of a row
\* with a signed URL of its zip, and 410 unless the row is completed.  (It also
\* answers 410 once the link has expired; that only takes answers away.)
Served(r) == rows[r].status = "completed"

DigitalNext ==
  \E j \in Jobs :
    \/ FindExistingCompleted(j) \/ LoadOrder(j) \/ InsertFulfillment(j) \/ BuildAndUploadBundle(j)
    \/ MarkCompleted(j) \/ SendEmail(j) \/ WriteAudit(j)
    \/ Throw(j) \/ GiveUp(j) \/ JobDies(j)

------------------------------------------------------------------------------
(* Print: the lab, the row, the two sweeps and the lab's webhooks. *)

\* Raw statuses of a lab, in the order an order goes through them.  Of those the
\* adapter knows, these have two the webhook does not; the other five mean the same
\* as one of these, or that the order failed.
Raw == <<"received", "in_production", "shipped", "delivered">>
RawStates == Range(Raw) \cup {"canceled"}

\* STATE_MAP of the Bay Photo adapter, then POLL_STATE_MAP of the sweep.
MapState(raw) ==
  CASE raw = "received" -> "submitted" [] raw = "canceled" -> "cancelled" [] OTHER -> raw

\* LAB_STATE_MAP of the webhook, which knows fewer words.
LabStateMap == [raw \in {"in_production", "shipped", "delivered"} |-> raw]

Keys == {0} \cup (1 .. MaxSubmits) \* one per row, and one per attempt were it so
KeyPerAttempt(row) == row.attempts + 1 \* mutant
IdempotencyKey(row) == 0
NoPrint == [state |-> "none", known |-> FALSE, manual |-> FALSE, attempts |-> 0, due |-> TRUE]
Settled == {"shipped", "delivered", "cancelled", "failed"}

PrintRow == [state : {"none", "pending", "submitted", "in_production"} \cup Settled,
             known : BOOLEAN, manual : BOOLEAN, attempts : 0 .. MaxSubmits, due : BOOLEAN]

\* Once per (lab, order): a second call finds the row of the first.
CreatePrintLabOrder ==
  /\ content = "print" /\ print.state = "none"
  /\ print' = [NoPrint EXCEPT !.state = "pending"]
  /\ UNCHANGED <<content, adapter, faults, digitalVars, lab, submit, poll, hooks>>

\* POST /v1/orders/:id/fulfillment/poll, and the passing of the retry's delay.
RequestPoll ==
  /\ print.state # "none" /\ ~print.due
  /\ print' = [print EXCEPT !.due = TRUE]
  /\ UNCHANGED <<content, adapter, faults, digitalVars, lab, submit, poll, hooks>>

(* The worker restarts with another configuration. *)
Reconfigure ==
  /\ print.state # "none" /\ adapter' = ~adapter
  /\ UNCHANGED <<content, faults, digitalVars, printVars>>

\* A row whose lab has no adapter is skipped, and left as it is.  A sweep takes up
\* BATCH_LIMIT rows, in no order: this is one of them.
SelectPending ==
  /\ adapter /\ submit.pc = "idle" /\ print.state = "pending" /\ ~print.manual /\ print.due
  /\ submit' = [pc |-> "lab", attempts |-> print.attempts, answer |-> "none"]
  /\ UNCHANGED <<content, adapter, faults, digitalVars, print, lab, poll, hooks>>

\* A row without a stored submitOrder is not submitted but flagged.
FlagManual ==
  /\ submit.pc = "lab"
  /\ print' = [print EXCEPT !.manual = TRUE]
  /\ submit' = [submit EXCEPT !.pc = "idle"]
  /\ UNCHANGED <<content, adapter, faults, digitalVars, lab, poll, hooks>>

\* The lab makes one order of a key.  A 429 or a 5xx is retryable, with the
\* order taken or not; any other answer, a broken connection too, is not.
SubmitToLab ==
  /\ submit.pc = "lab"
  /\ \E taken \in BOOLEAN, answer \in {"ok", "retryable", "terminal"} :
       /\ answer = "ok" => taken
       /\ lab' = IF taken THEN [lab EXCEPT !.orders = @ \cup {IdempotencyKey(print)}] ELSE lab
       /\ submit' = [submit EXCEPT !.pc = "store", !.answer = answer]
  /\ UNCHANGED <<content, adapter, faults, digitalVars, print, poll, hooks>>

StoreSubmission ==
  /\ submit.pc = "store"
  /\ LET attempts == submit.attempts + 1
         again == submit.answer = "retryable" /\ attempts < MaxSubmits
     IN print' =
          IF submit.answer = "ok"
          THEN [print EXCEPT !.known = TRUE, !.state = "submitted", !.due = TRUE]
          ELSE IF again THEN [print EXCEPT !.attempts = attempts, !.due = FALSE]
          ELSE [print EXCEPT !.attempts = attempts, !.manual = TRUE,
                             !.state = IF submit.answer = "retryable" THEN @ ELSE "failed"]
  /\ submit' = [submit EXCEPT !.pc = "idle"]
  /\ UNCHANGED <<content, adapter, faults, digitalVars, lab, poll, hooks>>

\* The UPDATE of a submitted order throws into the same catch as the lab does,
\* where it is not retryable.
StoreThrows ==
  /\ submit.pc = "store" /\ submit.answer = "ok"
  /\ faults < MaxFaults /\ faults' = faults + 1
  /\ submit' = [submit EXCEPT !.answer = "terminal"]
  /\ UNCHANGED <<content, adapter, digitalVars, print, lab, poll, hooks>>

SubmissionDies ==
  /\ submit.pc # "idle" /\ faults < MaxFaults /\ faults' = faults + 1
  /\ submit' = [submit EXCEPT !.pc = "idle"]
  /\ UNCHANGED <<content, adapter, digitalVars, print, lab, poll, hooks>>

\* The lab works on an order it has: each state it reaches is reported once,
\* delivered by the network up to MaxCopies times, late, or never.
LabAdvances ==
  /\ lab.orders # {}
  /\ \E next \in RawStates :
       /\ \/ \E i \in 2 .. Len(Raw) : lab.raw = Raw[i - 1] /\ next = Raw[i]
          \/ lab.raw \in {"received", "in_production"} /\ next = "canceled"
       /\ lab' = [lab EXCEPT !.raw = next]
       /\ hooks' = [hooks EXCEPT ![next].copies = MaxCopies]
  /\ UNCHANGED <<content, adapter, faults, digitalVars, print, submit, poll>>

PollSubmitted == print.state = "submitted" /\ print.known \* mutant
PollLabs == print.state \in {"submitted", "in_production"} /\ print.known

\* A lab that does not answer, or has no adapter, leaves the row for the next
\* sweep: no step.
ReadStatus ==
  /\ adapter /\ poll = "idle" /\ PollLabs
  /\ poll' = lab.raw
  /\ UNCHANGED <<content, adapter, faults, digitalVars, print, lab, submit, hooks>>

\* The row is written whatever it has become since it was selected.
StoreStatus ==
  /\ poll # "idle" /\ poll' = "idle"
  /\ print' = [print EXCEPT !.state = MapState(poll), !.due = TRUE]
  /\ UNCHANGED <<content, adapter, faults, digitalVars, lab, submit, hooks>>

PollDies ==
  /\ poll # "idle" /\ poll' = "idle"
  /\ faults < MaxFaults /\ faults' = faults + 1
  /\ UNCHANGED <<content, adapter, digitalVars, print, lab, submit, hooks>>

\* applyWebhookEvent: a delivery whose event is stored is a duplicate, also
\* when the first one died before the row was written; the lab gets a 200.
ReceiveWebhook(raw) ==
  /\ hooks[raw].copies > 0
  /\ hooks' = [hooks EXCEPT ![raw].copies = @ - 1,
                            ![raw].pc = IF @ = "none" THEN "stored" ELSE @]
  /\ UNCHANGED <<content, adapter, faults, digitalVars, print, lab, submit, poll>>

\* The row is found by the lab's id; a word that is not mapped changes nothing.
ApplyWebhook(raw) ==
  /\ hooks[raw].pc = "stored"
  /\ hooks' = [hooks EXCEPT ![raw].pc = "applied"]
  /\ print' = IF raw \in DOMAIN LabStateMap /\ print.known
              THEN [print EXCEPT !.state = LabStateMap[raw]] ELSE print
  /\ UNCHANGED <<content, adapter, faults, digitalVars, lab, submit, poll>>

WebhookDies(raw) ==
  /\ hooks[raw].pc = "stored" /\ faults < MaxFaults /\ faults' = faults + 1
  /\ hooks' = [hooks EXCEPT ![raw].pc = "lost"]
  /\ UNCHANGED <<content, adapter, digitalVars, print, lab, submit, poll>>

PrintNext ==
  \/ CreatePrintLabOrder \/ RequestPoll \/ Reconfigure
  \/ SelectPending \/ FlagManual \/ SubmitToLab \/ StoreSubmission \/ StoreThrows \/ SubmissionDies
  \/ LabAdvances \/ ReadStatus \/ StoreStatus \/ PollDies
  \/ \E raw \in RawStates : ReceiveWebhook(raw) \/ ApplyWebhook(raw) \/ WebhookDies(raw)

------------------------------------------------------------------------------
FulfilInit ==
  /\ content \in Contents /\ adapter \in (IF content = "print" THEN BOOLEAN ELSE {FALSE})
  /\ faults = 0
  /\ jobs = [j \in Jobs |-> [pc |-> IF content = "digital" THEN "check" ELSE "done",
                             attempt |-> 1, found |-> {}, row |-> 0]]
  /\ rows = <<>> /\ zips = {}
  /\ print = NoPrint /\ lab = [orders |-> {}, raw |-> "received"]
  /\ submit = [pc |-> "idle", attempts |-> 0, answer |-> "none"] /\ poll = "idle"
  /\ hooks = [raw \in RawStates |-> [copies |-> 0, pc |-> "none"]]

FulfilNext == DigitalNext \/ PrintNext

\* Cron starts each sweep again and again (its ticks do not overlap, so a sweep
\* that runs ends or dies), a retry's delay passes and the lab answers.  The
\* state a lab's order is in, its webhooks and the buyer's clicks come or not.
FulfilFairness ==
  /\ WF_fulfilVars(RequestPoll) /\ WF_fulfilVars(SelectPending)
  /\ WF_fulfilVars(FlagManual \/ SubmitToLab) /\ WF_fulfilVars(StoreSubmission)
  /\ WF_fulfilVars(ReadStatus) /\ WF_fulfilVars(StoreStatus)
  /\ \A raw \in RawStates : WF_fulfilVars(ApplyWebhook(raw))

FulfilSpec == FulfilInit /\ [][FulfilNext]_fulfilVars /\ FulfilFairness

------------------------------------------------------------------------------
(* Properties *)

FulfilTypeOK ==
  /\ content \in Contents /\ adapter \in BOOLEAN /\ faults \in 0 .. MaxFaults
  /\ jobs \in [Jobs -> Job] /\ rows \in Seq(Row)
  /\ zips \subseteq DOMAIN rows
  /\ print \in PrintRow /\ lab \in [orders : SUBSET Keys, raw : RawStates]
  /\ submit \in [pc : {"idle", "lab", "store"}, attempts : 0 .. MaxSubmits,
                 answer : {"none", "ok", "retryable", "terminal"}]
  /\ poll \in RawStates \cup {"idle"}
  /\ hooks \in [RawStates -> [copies : 0 .. MaxCopies, pc : {"none", "stored", "applied", "lost"}]]

\* A signed URL leads to a zip that is stored.  And what a buyer was promised
\* is kept: unless a job of the order has used up its attempts, a link that was
\* e-mailed leads to a completed row (findExistingCompleted and the catch of
\* processFulfillmentDigital leave it alone) and a job that ended well either
\* found the order without a photo to deliver or left a completed row.
LinksKept ==
  /\ \A r \in DOMAIN rows : Served(r) => r \in zips
  /\ (\E j \in Jobs : jobs[j].pc \in {"giveup", "failed"})
     \/ /\ \A r \in DOMAIN rows : rows[r].emailed => rows[r].status = "completed"
        /\ content = "digital" =>
             \A j \in Jobs : jobs[j].pc = "done" =>
               \E r \in DOMAIN rows : rows[r].status = "completed" \/ rows[r].photos = {}

\* However often a submission is retried, after an error or after the process
\* died with the lab's answer, the lab prints an order once.  And the row never
\* says more than the lab did: what the buyer sees as shipped, delivered or
\* cancelled is so, whatever the order the webhooks and the polls come in.
PrintMatchesLab ==
  /\ Cardinality(lab.orders) <= 1
  /\ print.state = "shipped" => lab.raw \in {"shipped", "delivered"}
  /\ print.state = "delivered" => lab.raw = "delivered"
  /\ print.state = "cancelled" => lab.raw = "canceled"

\* With an adapter for its lab from some time on, no print order that the sweeps
\* take up is left waiting: each is taken by the lab or shown to an operator, however
\* the lab answers and the sweep dies.  And an order that left the lab is noticed for
\* good, even when every webhook of the lab is lost or late.
PrintEnds == <>[]adapter =>
  /\ print.state = "pending" ~> (print.state # "pending" \/ print.manual)
  /\ (print.known /\ lab.raw \in {"shipped", "delivered", "canceled"})
       ~> [](print.state \in Settled)
=============================================================================
