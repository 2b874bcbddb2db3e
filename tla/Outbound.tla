------------------------------- MODULE Outbound -------------------------------
(***************************************************************************)
(* What goes out of the system by itself: webhooks to the subscriptions of *)
(* an organisation (services/webhooks.ts, jobs/webhook-delivery.ts) and    *)
(* the "photos are ready" messages to the participants of an event         *)
(* (services/notifications.ts, jobs/notifications-send.ts).  Both write a  *)
(* row in the API and send it from a sweep of the worker, started by cron  *)
(* every minute and never twice at once.  A sweep reads its rows at the    *)
(* start and works on what it read; it can die before a row says what was  *)
(* sent.  The two share no table, so a behaviour is about one of them.     *)
(***************************************************************************)
EXTENDS Integers, FiniteSets, Functions

CONSTANTS
  Channels,     \* of "webhook", "notify" and names of others, which stand still
  Subs,         \* webhook subscriptions, of one organisation and one type of event
  Events,       \* domain events and test events
  MaxAttempts,  \* MAX_ATTEMPTS
  Threshold,    \* CIRCUIT_FAILURE_THRESHOLD
  Participants, \* participants with an e-mail address, in the roster of one event
  Phones,       \* those with a phone that opted in
  SmsSenders,   \* whether a deployment has a sender for SMS: a subset of BOOLEAN
  Passes,       \* enqueue passes: the cron trigger's and the operators' resends
  Windows,      \* number of 30-minute windows
  MaxDeaths     \* bound on the sweeps and passes that die

ASSUME OutboundAssumption ==
  /\ SmsSenders \subseteq BOOLEAN
  /\ Phones \subseteq Participants
  /\ MaxAttempts \in Nat \ {0} /\ Threshold \in Nat \ {0} /\ Windows \in Nat \ {0}

VARIABLES
  channel,    \* what this behaviour is about
  deaths,
  subs,       \* webhook_subscriptions
  deliveries, \* webhook_deliveries, by subscription and event
  firing,     \* calls of enqueueEvent: the subscriptions read
  sweep,      \* runWebhookDeliveries
  ready,      \* participants with a finish event and a confident match
  clock,      \* the window of now
  quiet,      \* quiet hours
  notes,      \* participant_notifications, by participant, medium and window
  pass,       \* calls of enqueueForEvent
  sender,     \* runNotificationSend
  sent,       \* history: how often each message went out
  taken       \* history: how often it was answered with a success

hookVars == <<subs, deliveries, firing, sweep>>
noteVars == <<ready, clock, quiet, notes, pass, sender>>
history == <<sent, taken>>
vars == <<channel, deaths, hookVars, noteVars, history>>

Hooks == Subs \X Events
NoteKeys == Participants \X {"email", "sms"} \X (1 .. Windows)
Messages == Hooks \cup NoteKeys

GoesOut(m, success) ==
  /\ sent' = [sent EXCEPT ![m] = @ + 1]
  /\ taken' = IF success THEN [taken EXCEPT ![m] = @ + 1] ELSE taken

------------------------------------------------------------------------------
(* Webhooks *)

Sub == [enabled : BOOLEAN, reason : {"absent", "none", "deleted", "gone", "max_retries"},
        streak : 0 .. Cardinality(Events) * MaxAttempts, cooling : BOOLEAN]
Delivery == [status : {"none", "pending", "retrying", "delivered", "failed"},
             attempt : 1 .. MaxAttempts, due : BOOLEAN]
Idle == [pc |-> "idle", todo |-> <<>>, cur |-> <<>>, outcome |-> "none"]

CreateSubscription(s) ==
  /\ channel = "webhook" /\ subs[s].reason = "absent"
  /\ subs' = [subs EXCEPT ![s].enabled = TRUE, ![s].reason = "none"]
  /\ UNCHANGED <<channel, deaths, deliveries, firing, sweep, noteVars, history>>

DeleteSubscription(s) ==
  /\ subs[s].reason # "absent"
  /\ subs' = [subs EXCEPT ![s].enabled = FALSE, ![s].reason = "deleted"]
  /\ UNCHANGED <<channel, deaths, deliveries, firing, sweep, noteVars, history>>

\* enqueueEvent reads the subscriptions, then inserts a row for each.
ReadSubscriptions(e) ==
  /\ channel = "webhook" /\ firing[e].pc = "no"
  /\ \E s \in Subs : subs[s].reason # "absent"
  /\ firing' = [firing EXCEPT ![e] = [pc |-> "read", subs |-> {s \in Subs : subs[s].enabled}]]
  /\ UNCHANGED <<channel, deaths, subs, deliveries, sweep, noteVars, history>>

InsertDeliveries(e) ==
  /\ firing[e].pc = "read"
  /\ deliveries' = [m \in Hooks |->
       IF m[2] = e /\ m[1] \in firing[e].subs THEN [deliveries[m] EXCEPT !.status = "pending"]
       ELSE deliveries[m]]
  /\ firing' = [firing EXCEPT ![e].pc = "fired"]
  /\ UNCHANGED <<channel, deaths, subs, sweep, noteVars, history>>

\* The test endpoint does not ask whether the subscription is enabled.
TestSubscription(s, e) ==
  /\ channel = "webhook" /\ firing[e].pc = "no" /\ subs[s].reason # "absent"
  /\ deliveries' = [deliveries EXCEPT ![<<s, e>>].status = "pending"]
  /\ firing' = [firing EXCEPT ![e].pc = "fired"]
  /\ UNCHANGED <<channel, deaths, subs, sweep, noteVars, history>>

DuePending == {m \in Hooks : deliveries[m].status = "pending" /\ deliveries[m].due} \* mutant
Due == {m \in Hooks : deliveries[m].status \in {"pending", "retrying"} /\ deliveries[m].due}

\* The join reads each row with what its subscription is now.
BeginSweep ==
  /\ sweep.pc = "idle" /\ Due # {}
  /\ sweep' = [Idle EXCEPT !.pc = "next", !.todo =
       [m \in Due |-> [attempt |-> deliveries[m].attempt, sub |-> subs[m[1]]]]]
  /\ UNCHANGED <<channel, deaths, subs, deliveries, firing, noteVars, history>>

Rest(m) == Restrict(sweep.todo, DOMAIN sweep.todo \ {m})
NextRow(m) ==
  sweep' = IF DOMAIN Rest(m) = {} THEN Idle ELSE [Idle EXCEPT !.pc = "next", !.todo = Rest(m)]

FailDisabled(m) ==
  /\ sweep.pc = "next" /\ m \in DOMAIN sweep.todo /\ ~sweep.todo[m].sub.enabled
  /\ deliveries' = [deliveries EXCEPT ![m].status = "failed"]
  /\ NextRow(m)
  /\ UNCHANGED <<channel, deaths, subs, firing, noteVars, history>>

Defer(m) ==
  /\ sweep.pc = "next" /\ m \in DOMAIN sweep.todo
  /\ sweep.todo[m].sub.enabled /\ sweep.todo[m].sub.cooling
  /\ deliveries' = [deliveries EXCEPT ![m].status = "retrying", ![m].due = FALSE]
  /\ NextRow(m)
  /\ UNCHANGED <<channel, deaths, subs, firing, noteVars, history>>

\* 2xx, 410, another 4xx (or a target that is not public), or 5xx and no answer.
Outcomes == {"delivered", "disable", "fail", "retry"}

AttemptDelivery(m) ==
  /\ sweep.pc = "next" /\ m \in DOMAIN sweep.todo
  /\ sweep.todo[m].sub.enabled /\ ~sweep.todo[m].sub.cooling
  /\ \E outcome \in Outcomes :
       /\ sweep' = [sweep EXCEPT !.pc = "record", !.cur = m, !.outcome = outcome]
       /\ GoesOut(m, outcome = "delivered")
  /\ UNCHANGED <<channel, deaths, subs, deliveries, firing, noteVars>>

Again(attempt) == attempt < MaxAttempts

\* markDelivered, the retry, or failDelivery.
RecordOutcome ==
  /\ sweep.pc = "record"
  /\ LET m == sweep.cur
         attempt == sweep.todo[m].attempt
     IN deliveries' = [deliveries EXCEPT ![m] =
          CASE sweep.outcome = "delivered" -> [@ EXCEPT !.status = "delivered"]
            [] sweep.outcome = "retry" /\ Again(attempt) ->
                 [status |-> "retrying", attempt |-> attempt + 1, due |-> FALSE]
            [] OTHER -> [@ EXCEPT !.status = "failed"]]
  /\ sweep' = [sweep EXCEPT !.pc = "circuit"]
  /\ UNCHANGED <<channel, deaths, subs, firing, noteVars, history>>

\* Mutant: any 5xx switches the subscription off.
DisableOnRetry ==
  /\ sweep.pc = "circuit"
  /\ LET m == sweep.cur
         read == sweep.todo[m]
         disabled(why) == [subs[m[1]] EXCEPT !.enabled = FALSE, !.reason = why]
         bumped == [subs[m[1]] EXCEPT !.streak = read.sub.streak + 1,
                                      !.cooling = @ \/ read.sub.streak + 1 >= Threshold]
     IN /\ subs' = [subs EXCEPT ![m[1]] =
             CASE sweep.outcome = "delivered" -> [@ EXCEPT !.streak = 0, !.cooling = FALSE]
               [] sweep.outcome = "disable" -> disabled("gone")
               [] sweep.outcome = "retry" -> disabled("max_retries")
               [] OTHER -> bumped]
        /\ NextRow(m)
  /\ UNCHANGED <<channel, deaths, deliveries, firing, noteVars, history>>

\* resetCircuit, disableSubscription, or bumpCircuit with the streak read at the
\* start of the sweep: two failures of one sweep count once.
UpdateCircuit ==
  /\ sweep.pc = "circuit"
  /\ LET m == sweep.cur
         read == sweep.todo[m]
         disabled(why) == [subs[m[1]] EXCEPT !.enabled = FALSE, !.reason = why]
         bumped == [subs[m[1]] EXCEPT !.streak = read.sub.streak + 1,
                                      !.cooling = @ \/ read.sub.streak + 1 >= Threshold]
     IN /\ subs' = [subs EXCEPT ![m[1]] =
             CASE sweep.outcome = "delivered" -> [@ EXCEPT !.streak = 0, !.cooling = FALSE]
               [] sweep.outcome = "disable" -> disabled("gone")
               [] sweep.outcome = "retry" /\ ~Again(read.attempt) -> disabled("max_retries")
               [] OTHER -> bumped]
        /\ NextRow(m)
  /\ UNCHANGED <<channel, deaths, deliveries, firing, noteVars, history>>

SweepDies ==
  /\ sweep.pc # "idle" /\ sweep' = Idle
  /\ deaths < MaxDeaths /\ deaths' = deaths + 1
  /\ UNCHANGED <<channel, subs, deliveries, firing, noteVars, history>>

DelayPasses(m) ==
  /\ deliveries[m].status = "retrying" /\ ~deliveries[m].due
  /\ deliveries' = [deliveries EXCEPT ![m].due = TRUE]
  /\ UNCHANGED <<channel, deaths, subs, firing, sweep, noteVars, history>>

CooldownEnds(s) ==
  /\ subs[s].cooling /\ subs' = [subs EXCEPT ![s].cooling = FALSE]
  /\ UNCHANGED <<channel, deaths, deliveries, firing, sweep, noteVars, history>>

WebhookNext ==
  \/ \E s \in Subs : \/ CreateSubscription(s) \/ DeleteSubscription(s) \/ CooldownEnds(s)
                     \/ \E e \in Events : TestSubscription(s, e)
  \/ \E e \in Events : ReadSubscriptions(e) \/ InsertDeliveries(e)
  \/ \E m \in Hooks : FailDisabled(m) \/ Defer(m) \/ AttemptDelivery(m) \/ DelayPasses(m)
  \/ BeginSweep \/ RecordOutcome \/ UpdateCircuit \/ SweepDies

------------------------------------------------------------------------------
(* Notifications *)

Note == {"none", "pending", "sent", "failed", "skipped", "suppressed"}
NoPass == [pc |-> "idle", window |-> 1, todo |-> {}, suppressed |-> {}]
NoSender == [pc |-> "idle", todo |-> {}, sms |-> FALSE, sent |-> FALSE]

BecomesReady(p) ==
  /\ channel = "notify" /\ ready' = ready \cup {p}
  /\ UNCHANGED <<channel, deaths, hookVars, clock, quiet, notes, pass, sender, history>>

WindowPasses ==
  /\ channel = "notify" /\ clock < Windows /\ clock' = clock + 1
  /\ UNCHANGED <<channel, deaths, hookVars, ready, quiet, notes, pass, sender, history>>

QuietEnds ==
  /\ channel = "notify" /\ quiet /\ quiet' = FALSE
  /\ UNCHANGED <<channel, deaths, hookVars, ready, clock, notes, pass, sender, history>>

\* enqueueForEvent reads its candidates and the suppressed addresses, which the
\* code only reads, once, with the time of its start.  (Whether a participant
\* had an e-mail before only chooses the wording.)
SelectNotifiable(k) ==
  /\ pass[k].pc = "idle" /\ ready # {}
  /\ \E suppressed \in SUBSET ready :
       pass' = [pass EXCEPT ![k] = [pc |-> "email", window |-> clock, todo |-> ready,
                                   suppressed |-> suppressed]]
  /\ UNCHANGED <<channel, deaths, hookVars, ready, clock, quiet, notes, sender, history>>

\* One participant after the other, in some order.
Current(k) == CHOOSE p \in pass[k].todo : TRUE

\* insertRow does nothing when the participant has a row of this window.
InsertNote(key, status) ==
  notes' = IF notes[key] # "none" THEN notes ELSE [notes EXCEPT ![key] = status]

InsertEmail(k) ==
  /\ pass[k].pc = "email"
  /\ InsertNote(<<Current(k), "email", pass[k].window>>,
                IF Current(k) \in pass[k].suppressed THEN "suppressed" ELSE "pending")
  /\ pass' = [pass EXCEPT ![k].pc = "sms"]
  /\ UNCHANGED <<channel, deaths, hookVars, ready, clock, quiet, sender, history>>

\* A number whose owner sent STOP gets no row.
InsertSms(k) ==
  /\ pass[k].pc = "sms"
  /\ \/ /\ Current(k) \in Phones
        /\ InsertNote(<<Current(k), "sms", pass[k].window>>, "pending")
     \/ notes' = notes
  /\ LET rest == pass[k].todo \ {Current(k)}
     IN pass' = [pass EXCEPT ![k] =
          IF rest = {} THEN NoPass ELSE [@ EXCEPT !.pc = "email", !.todo = rest]]
  /\ UNCHANGED <<channel, deaths, hookVars, ready, clock, quiet, sender, history>>

PassDies(k) ==
  /\ pass[k].pc # "idle" /\ pass' = [pass EXCEPT ![k] = NoPass]
  /\ UNCHANGED <<channel, deaths, hookVars, ready, clock, quiet, notes, sender, history>>

BeginSend ==
  /\ sender.pc = "idle"
  /\ LET pending == {n \in NoteKeys : notes[n] = "pending"}
     IN /\ pending # {}
        /\ \E sms \in SmsSenders :
             sender' = [pc |-> "next", todo |-> pending, sms |-> sms, sent |-> FALSE]
  /\ UNCHANGED <<channel, deaths, hookVars, ready, clock, quiet, notes, pass, history>>

NextNote == CHOOSE n \in sender.todo : TRUE
AfterNote ==
  LET rest == sender.todo \ {NextNote}
  IN sender' = IF rest = {} THEN NoSender
               ELSE [sender EXCEPT !.pc = "next", !.todo = rest, !.sent = FALSE]

\* Without a sender an SMS is skipped; in quiet hours it waits for a later sweep.
SkipSms ==
  /\ sender.pc = "next" /\ NextNote[2] = "sms" /\ ~sender.sms
  /\ notes' = [notes EXCEPT ![NextNote] = "skipped"] /\ AfterNote
  /\ UNCHANGED <<channel, deaths, hookVars, ready, clock, quiet, pass, history>>

DeferSms ==
  /\ sender.pc = "next" /\ NextNote[2] = "sms" /\ sender.sms /\ quiet
  /\ AfterNote
  /\ UNCHANGED <<channel, deaths, hookVars, ready, clock, quiet, notes, pass, history>>

SendNote ==
  /\ sender.pc = "next" /\ (NextNote[2] = "sms" => sender.sms /\ ~quiet)
  /\ \E ok \in BOOLEAN :
       /\ sender' = [sender EXCEPT !.pc = "mark", !.sent = ok]
       /\ GoesOut(NextNote, ok)
  /\ UNCHANGED <<channel, deaths, hookVars, ready, clock, quiet, notes, pass>>

\* Mutant: a mark that throws leaves the row pending.
MarkOrLeave ==
  /\ sender.pc = "mark"
  /\ \E status \in IF sender.sent THEN {"sent", "pending"} ELSE {"failed"} :
       notes' = [notes EXCEPT ![NextNote] = status]
  /\ AfterNote
  /\ UNCHANGED <<channel, deaths, hookVars, ready, clock, quiet, pass, history>>

\* What throws is caught and marks the row failed, the mark of a sent row too.
MarkNote ==
  /\ sender.pc = "mark"
  /\ \E status \in IF sender.sent THEN {"sent", "failed"} ELSE {"failed"} :
       notes' = [notes EXCEPT ![NextNote] = status]
  /\ AfterNote
  /\ UNCHANGED <<channel, deaths, hookVars, ready, clock, quiet, pass, history>>

SenderDies ==
  /\ sender.pc # "idle" /\ sender' = NoSender
  /\ deaths < MaxDeaths /\ deaths' = deaths + 1
  /\ UNCHANGED <<channel, hookVars, ready, clock, quiet, notes, pass, history>>

NotifyNext ==
  \/ \E p \in Participants : BecomesReady(p)
  \/ WindowPasses \/ QuietEnds
  \/ \E k \in Passes : \/ SelectNotifiable(k) \/ InsertEmail(k)
                       \/ InsertSms(k) \/ PassDies(k)
  \/ BeginSend \/ SkipSms \/ DeferSms \/ SendNote \/ MarkNote \/ SenderDies

------------------------------------------------------------------------------
Init ==
  /\ channel \in Channels /\ deaths = 0
  /\ subs = [s \in Subs |-> [enabled |-> FALSE, reason |-> "absent", streak |-> 0,
                             cooling |-> FALSE]]
  /\ deliveries = [m \in Hooks |-> [status |-> "none", attempt |-> 1, due |-> TRUE]]
  /\ firing = [e \in Events |-> [pc |-> "no", subs |-> {}]] /\ sweep = Idle
  /\ ready = {} /\ clock = 1 /\ quiet = TRUE
  /\ notes = [n \in NoteKeys |-> "none"]
  /\ pass = [k \in Passes |-> NoPass] /\ sender = NoSender
  /\ sent = [m \in Messages |-> 0] /\ taken = [m \in Messages |-> 0]

Next == WebhookNext \/ NotifyNext

\* Cron starts each sweep again and again, and a sweep goes on or dies; delays,
\* cooldowns and the night end.  Who subscribes, fires or finishes may not.
Fairness ==
  /\ WF_vars(BeginSweep) /\ WF_vars(RecordOutcome) /\ WF_vars(UpdateCircuit)
  /\ \A m \in Hooks : /\ WF_vars(DelayPasses(m))
                      /\ WF_vars(FailDisabled(m) \/ Defer(m) \/ AttemptDelivery(m))
  /\ \A s \in Subs : WF_vars(CooldownEnds(s))
  /\ WF_vars(QuietEnds) /\ WF_vars(BeginSend) /\ WF_vars(SkipSms \/ DeferSms \/ SendNote)
  /\ WF_vars(MarkNote)

Spec == Init /\ [][Next]_vars /\ Fairness

------------------------------------------------------------------------------
(* Properties *)

TypeOK ==
  /\ channel \in Channels /\ deaths \in 0 .. MaxDeaths
  /\ subs \in [Subs -> Sub] /\ deliveries \in [Hooks -> Delivery]
  /\ firing \in [Events -> [pc : {"no", "read", "fired"}, subs : SUBSET Subs]]
  /\ sweep.pc \in {"idle", "next", "record", "circuit"} /\ DOMAIN sweep.todo \subseteq Hooks
  /\ ready \subseteq Participants /\ clock \in 1 .. Windows /\ quiet \in BOOLEAN
  /\ notes \in [NoteKeys -> Note]
  /\ \A k \in Passes : pass[k].todo \subseteq Participants
  /\ sender.pc \in {"idle", "next", "mark"} /\ sender.todo \subseteq NoteKeys

\* A message that was taken goes out again only when a process died before the
\* row said so: the sweeps, the retries, the deferrals and the enqueue passes
\* send nothing twice by themselves.
RepeatedOnlyByDeath == \A m \in Messages : taken[m] <= 1 + deaths

\* A subscription is not switched off by mistake: max_retries means that one of
\* its events went out MaxAttempts times and was never taken on record.
DisabledForCause ==
  \A s \in Subs : subs[s].reason = "max_retries" =>
    \E e \in Events : sent[s, e] >= MaxAttempts /\ deliveries[s, e].status = "failed"

\* Both senders are outboxes: what a row says maps to the state of its message.
RowState(m) ==
  LET status == IF m \in Hooks THEN deliveries[m].status ELSE notes[m]
  IN CASE status = "none" -> "absent"
       [] status \in {"pending", "retrying"} -> "queued"
       [] status \in {"delivered", "sent"} -> "delivered"
       [] OTHER -> "dropped"

Abstract == INSTANCE Outbox WITH state <- [m \in Messages |-> RowState(m)]

\* Every step of the API and of the sweeps is a step of Outbox or changes
\* nothing it sees, and no row stays queued for ever.
ImplementsOutbox == Abstract!Spec

\* The claim of schema/notifications.ts: the unique row of a window means that a
\* restart never sends twice.
RestartNeverDoubleSends == \A n \in NoteKeys : taken[n] <= 1
=============================================================================
