---------------------------- MODULE SweepsProofs ----------------------------
(***************************************************************************)
(* What the sweeps of the worker keep, for every number of the rows they   *)
(* work on, of passes and of deaths.  The two senders: their steps are     *)
(* steps of Outbox, and what follows for repeated messages and for         *)
(* subscriptions that are switched off (Outbound).  The import of a        *)
(* folder: what its counters say in the end (CloudImport).                 *)
(***************************************************************************)
EXTENDS Outbound, CloudImport, FiniteSetTheorems, TLAPS

SubRows == [enabled : BOOLEAN, reason : {"absent", "none", "deleted", "gone", "max_retries"},
            streak : Nat, cooling : BOOLEAN]
Reads == [attempt : 1 .. MaxAttempts, sub : SubRows]
Todos == UNION {[D -> Reads] : D \in SUBSET Hooks}
Sweeps == [pc : {"idle", "next", "record", "circuit"}, todo : Todos, cur : Hooks \cup {<<>>},
           outcome : Outcomes \cup {"none"}]
Firings == [pc : {"no", "read", "fired"}, subs : SUBSET Subs]
PassStates == [pc : {"idle", "email", "sms"}, window : 1 .. Windows,
               todo : SUBSET Participants, suppressed : SUBSET Participants]
Senders == [pc : {"idle", "next", "mark"}, todo : SUBSET NoteKeys, sms : BOOLEAN,
            sent : BOOLEAN]

HookTypes ==
  /\ subs \in [Subs -> SubRows] /\ deliveries \in [Hooks -> Delivery]
  /\ firing \in [Events -> Firings] /\ sweep \in Sweeps

NoteTypes ==
  /\ ready \subseteq Participants /\ clock \in 1 .. Windows
  /\ notes \in [NoteKeys -> Note]
  /\ pass \in [Passes -> PassStates] /\ sender \in Senders

Counts == /\ deaths \in Nat
          /\ sent \in [Messages -> Nat] /\ taken \in [Messages -> Nat]

Queued(m) == deliveries[m].status \in {"pending", "retrying"}

(* The sweep works on rows that are still queued, in the attempt it read;    *)
(* only the row it has just written is not.                                  *)
SweepKnows ==
  /\ sweep.pc # "idle" => \A m \in DOMAIN sweep.todo :
       \/ sweep.pc = "circuit" /\ m = sweep.cur
       \/ Queued(m) /\ sweep.todo[m].attempt = deliveries[m].attempt
  /\ sweep.pc \in {"record", "circuit"} => sweep.cur \in DOMAIN sweep.todo
  /\ sweep.pc = "record" => sent[sweep.cur] >= sweep.todo[sweep.cur].attempt
  /\ sweep.pc = "circuit" /\ sweep.outcome = "retry"
       /\ ~Again(sweep.todo[sweep.cur].attempt) =>
       sent[sweep.cur] >= MaxAttempts /\ deliveries[sweep.cur].status = "failed"

(* An event is queued once, and each attempt but the one under way went out. *)
RowsKnow ==
  /\ \A e \in Events : firing[e].pc # "fired" =>
       \A s \in Subs : deliveries[s, e].status = "none"
  /\ \A m \in Hooks : deliveries[m].status = "none" \/ Queued(m) =>
       sent[m] >= deliveries[m].attempt - 1

(* What was taken before is paid for by a death, unless it is under way.     *)
HookUnderWay(m) == sweep.pc = "record" /\ sweep.cur = m /\ sweep.outcome = "delivered"
HooksTaken ==
  \A m \in Hooks :
    /\ taken[m] <= 1 + deaths
    /\ (deliveries[m].status = "none" \/ Queued(m)) /\ ~HookUnderWay(m) => taken[m] <= deaths

NoteUnderWay(n) == sender.pc = "mark" /\ sender.sent /\ n = NextNote
NotesTaken ==
  \A n \in NoteKeys :
    /\ taken[n] <= 1 + deaths
    /\ notes[n] \in {"none", "pending"} /\ ~NoteUnderWay(n) => taken[n] <= deaths

(* The sender works on pending rows, and has sent the one it marks as sent.  *)
SenderKnows ==
  /\ sender.pc # "idle" => sender.todo # {} /\ \A n \in sender.todo : notes[n] = "pending"
  /\ sender.pc = "mark" /\ sender.sent => sent[NextNote] > 0

PassKnows == \A k \in Passes : pass[k].pc # "idle" => pass[k].todo # {}

HookInv == HookTypes /\ SweepKnows /\ RowsKnow /\ HooksTaken /\ DisabledForCause
NoteInv == NoteTypes /\ SenderKnows /\ PassKnows /\ NotesTaken
OutboundInv == Counts /\ HookInv /\ NoteInv

------------------------------------------------------------------------------
(* A delivery is a pair and a notification a triple.                         *)
LEMMA Apart ==
  /\ \A m \in Hooks : m \notin NoteKeys /\ m \in Messages
  /\ \A n \in NoteKeys : n \notin Hooks /\ n \in Messages
BY DEF Hooks, NoteKeys, Messages

(* The rows a sweep has left are again rows it read.                         *)
LEMMA TodoOf ==
  /\ \A t \in Todos : DOMAIN t \subseteq Hooks /\ \A m \in DOMAIN t : t[m] \in Reads
  /\ \A t \in Todos : \A D \in SUBSET DOMAIN t : [m \in D |-> t[m]] \in Todos
BY DEF Todos

(* The messages Outbox sees, and the rows they stand for.                    *)
LEMMA HookState ==
  ASSUME NEW m \in Hooks
  PROVE  /\ RowState(m) = "absent" <=> deliveries[m].status = "none"
         /\ Queued(m) => RowState(m) = "queued"
         /\ deliveries[m].status = "delivered" => RowState(m) = "delivered"
         /\ deliveries[m].status = "failed" => RowState(m) = "dropped"
BY DEF RowState, Queued

LEMMA NoteState ==
  ASSUME NEW n \in NoteKeys
  PROVE  /\ notes[n] = "none" => RowState(n) = "absent"
         /\ notes[n] = "pending" => RowState(n) = "queued"
         /\ notes[n] = "sent" => RowState(n) = "delivered"
         /\ notes[n] \in {"failed", "skipped", "suppressed"} => RowState(n) = "dropped"
BY Apart DEF RowState

(* A message without a change of its row is without a change for Outbox.     *)
LEMMA HookSame ==
  ASSUME NEW m \in Hooks, deliveries'[m].status = deliveries[m].status
  PROVE  RowState(m)' = RowState(m)
BY DEF RowState

LEMMA NoteSame ==
  ASSUME NEW n \in NoteKeys, notes'[n] = notes[n]
  PROVE  RowState(n)' = RowState(n)
BY Apart DEF RowState

MapsTo == Abstract!Next \/ UNCHANGED Abstract!vars

LEMMA MapStutter ==
  ASSUME \A m \in Messages : RowState(m)' = RowState(m), sent' = sent
  PROVE  MapsTo
BY DEF MapsTo, Abstract!vars

LEMMA MapSend ==
  ASSUME NEW m \in Messages, RowState(m) = "queued", sent' = [sent EXCEPT ![m] = @ + 1],
         \A x \in Messages : RowState(x)' = RowState(x)
  PROVE  MapsTo
BY DEF MapsTo, Abstract!Next, Abstract!Send

LEMMA MapSettle ==
  ASSUME NEW m \in Messages, RowState(m) = "queued", sent' = sent,
         \/ RowState(m)' = "dropped"
         \/ RowState(m)' = "delivered" /\ sent[m] > 0,
         \A x \in Messages \ {m} : RowState(x)' = RowState(x)
  PROVE  MapsTo
BY DEF MapsTo, Abstract!Next, Abstract!Settle

LEMMA MapPut ==
  ASSUME sent' = sent,
         \A m \in Messages : \/ RowState(m)' = RowState(m)
                             \/ RowState(m) = "absent" /\ RowState(m)' \in {"queued", "dropped"}
  PROVE  MapsTo
BY DEF MapsTo, Abstract!Next, Abstract!Put

------------------------------------------------------------------------------
(* A step of one channel keeps what is known of the other.                   *)
LEMMA HooksApart ==
  ASSUME Counts, Counts', HookInv, UNCHANGED hookVars, deaths' >= deaths,
         \A m \in Hooks : sent'[m] = sent[m] /\ taken'[m] = taken[m]
  PROVE  HookInv' /\ \A m \in Hooks : RowState(m)' = RowState(m)
<1>1. UNCHANGED <<subs, deliveries, firing, sweep>>
  BY DEF hookVars
<1>2. HookTypes' /\ SweepKnows' /\ RowsKnow'
  <2>1. HookTypes'
    BY <1>1 DEF HookInv, HookTypes
  <2>2. SweepKnows'
    <3>1. sweep.pc \in {"record", "circuit"} => sweep.cur \in Hooks
      BY TodoOf DEF HookInv, HookTypes, SweepKnows, Sweeps
    <3> QED
      BY <1>1, <3>1 DEF HookInv, SweepKnows, Queued
  <2>3. RowsKnow'
    BY <1>1 DEF HookInv, RowsKnow, Queued
  <2> QED
    BY <2>1, <2>2, <2>3
<1>3. HooksTaken'
  <2>1. \A m \in Hooks : taken[m] \in Nat
    BY Apart DEF Counts
  <2> QED
    BY <1>1, <2>1 DEF HookInv, HooksTaken, HookUnderWay, Queued, Counts
<1>4. DisabledForCause'
  <2>1. \A s \in Subs, e \in Events : sent'[s, e] = sent[s, e]
    BY DEF Hooks
  <2> QED
    BY <1>1, <2>1 DEF HookInv, DisabledForCause
<1> QED
  BY <1>1, <1>2, <1>3, <1>4, HookSame DEF HookInv

LEMMA NotesApart ==
  ASSUME Counts, Counts', NoteInv, UNCHANGED noteVars, deaths' >= deaths,
         \A n \in NoteKeys : sent'[n] = sent[n] /\ taken'[n] = taken[n]
  PROVE  NoteInv' /\ \A n \in NoteKeys : RowState(n)' = RowState(n)
<1>1. UNCHANGED <<ready, clock, notes, pass, sender>>
  BY DEF noteVars
<1>2. NoteTypes' /\ PassKnows'
  BY <1>1 DEF NoteInv, NoteTypes, PassKnows
<1>3. SenderKnows'
  <2>1. sender.pc = "mark" => NextNote \in NoteKeys
    BY DEF NoteInv, NoteTypes, SenderKnows, Senders, NextNote
  <2> QED
    BY <1>1, <2>1 DEF NoteInv, SenderKnows, NextNote
<1>4. NotesTaken'
  <2>1. \A n \in NoteKeys : taken[n] \in Nat
    BY Apart DEF Counts
  <2> QED
    BY <1>1, <2>1 DEF NoteInv, NotesTaken, NoteUnderWay, NextNote, Counts
<1> QED
  BY <1>1, <1>2, <1>3, <1>4, NoteSame DEF NoteInv

(* What the counts say after a message went out, or after nothing did.       *)
LEMMA CountsAfter ==
  ASSUME Counts, NEW m \in Messages, NEW ok \in BOOLEAN, GoesOut(m, ok), deaths' = deaths
  PROVE  /\ Counts' /\ sent'[m] = sent[m] + 1
         /\ taken'[m] = IF ok THEN taken[m] + 1 ELSE taken[m]
         /\ \A x \in Messages \ {m} : sent'[x] = sent[x] /\ taken'[x] = taken[x]
BY DEF Counts, GoesOut

LEMMA CountsKept ==
  ASSUME Counts, UNCHANGED history, deaths' = deaths \/ deaths' = deaths + 1
  PROVE  /\ Counts' /\ deaths' >= deaths /\ sent' = sent /\ taken' = taken
         /\ \A x \in Messages : sent'[x] = sent[x] /\ taken'[x] = taken[x]
BY DEF Counts, history

------------------------------------------------------------------------------
(* A step of the webhooks that sends nothing: what is left to show.          *)
LEMMA HookStep ==
  ASSUME OutboundInv, UNCHANGED <<noteVars, history>>, deaths' = deaths \/ deaths' = deaths + 1,
         HookTypes', SweepKnows', RowsKnow', DisabledForCause',
         \A m \in Hooks : deliveries'[m].status = "none" \/ Queued(m)' =>
           /\ deliveries[m].status = "none" \/ Queued(m)
           /\ ~HookUnderWay(m)' /\ HookUnderWay(m) => deaths' = deaths + 1
  PROVE  OutboundInv' /\ \A n \in NoteKeys : RowState(n)' = RowState(n)
<1>1. Counts' /\ deaths' >= deaths /\ \A x \in Messages : sent'[x] = sent[x] /\ taken'[x] = taken[x]
  BY CountsKept DEF OutboundInv
<1>2. NoteInv' /\ \A n \in NoteKeys : RowState(n)' = RowState(n)
  BY <1>1, NotesApart, Apart DEF OutboundInv
<1>3. HooksTaken'
  <2> SUFFICES ASSUME NEW m \in Hooks
               PROVE  /\ taken'[m] <= 1 + deaths'
                      /\ (deliveries'[m].status = "none" \/ Queued(m)') /\ ~HookUnderWay(m)'
                           => taken'[m] <= deaths'
    BY DEF HooksTaken
  <2>1. taken'[m] = taken[m] /\ taken[m] \in Nat /\ deaths \in Nat
    BY <1>1, Apart DEF OutboundInv, Counts
  <2>2. /\ taken[m] <= 1 + deaths
        /\ (deliveries[m].status = "none" \/ Queued(m)) /\ ~HookUnderWay(m) => taken[m] <= deaths
    BY DEF OutboundInv, HookInv, HooksTaken
  <2> QED
    BY <1>1, <2>1, <2>2
<1> QED
  BY <1>1, <1>2, <1>3 DEF OutboundInv, HookInv

(* Subscriptions come and go, and a cooldown ends.                           *)
LEMMA SubsMove ==
  ASSUME OutboundInv, subs' \in [Subs -> SubRows],
         \A s \in Subs : subs'[s].reason = "max_retries" => subs[s].reason = "max_retries",
         UNCHANGED <<deaths, deliveries, firing, sweep, noteVars, history>>
  PROVE  OutboundInv' /\ MapsTo
<1>1. HookTypes' /\ RowsKnow' /\ DisabledForCause' /\ SweepKnows'
  BY DEF OutboundInv, HookInv, HookTypes, RowsKnow, DisabledForCause, SweepKnows, Queued, history
<1>2. OutboundInv' /\ \A n \in NoteKeys : RowState(n)' = RowState(n)
  BY <1>1, HookStep DEF Queued, HookUnderWay
<1>3. \A m \in Hooks : RowState(m)' = RowState(m)
  BY HookSame
<1> QED
  BY <1>2, <1>3, MapStutter DEF Messages, history

LEMMA SubscriptionSteps ==
  ASSUME OutboundInv, NEW s \in Subs,
         CreateSubscription(s) \/ DeleteSubscription(s) \/ CooldownEnds(s)
  PROVE  OutboundInv' /\ MapsTo
<1>1. subs \in [Subs -> SubRows]
  BY DEF OutboundInv, HookInv, HookTypes
<1>2. CASE CreateSubscription(s)
  BY <1>1, <1>2, SubsMove DEF CreateSubscription, SubRows
<1>3. CASE DeleteSubscription(s)
  BY <1>1, <1>3, SubsMove DEF DeleteSubscription, SubRows
<1>4. CASE CooldownEnds(s)
  BY <1>1, <1>4, SubsMove DEF CooldownEnds, SubRows
<1> QED
  BY <1>2, <1>3, <1>4

(* enqueueEvent reads, then queues; the test endpoint queues.                *)
LEMMA ReadStep ==
  ASSUME OutboundInv, NEW e \in Events, ReadSubscriptions(e)
  PROVE  OutboundInv' /\ MapsTo
<1>1. firing' \in [Events -> Firings] /\ \A x \in Events : firing'[x].pc # "fired" => firing[x].pc # "fired"
  BY DEF ReadSubscriptions, OutboundInv, HookInv, HookTypes, Firings
<1>2. HookTypes' /\ RowsKnow' /\ DisabledForCause' /\ SweepKnows'
  BY <1>1 DEF ReadSubscriptions, OutboundInv, HookInv, HookTypes, RowsKnow, DisabledForCause,
              SweepKnows, Queued, history
<1>3. OutboundInv' /\ \A n \in NoteKeys : RowState(n)' = RowState(n)
  BY <1>2, HookStep DEF ReadSubscriptions, Queued, HookUnderWay
<1>4. \A m \in Hooks : RowState(m)' = RowState(m)
  BY HookSame DEF ReadSubscriptions
<1> QED
  BY <1>3, <1>4, MapStutter DEF Messages, history, ReadSubscriptions

(* Rows of an event not queued before become pending.                        *)
LEMMA QueueRows ==
  ASSUME OutboundInv, NEW e \in Events, NEW D \in SUBSET Subs, firing[e].pc # "fired",
         firing' = [firing EXCEPT ![e].pc = "fired"], deliveries' \in [Hooks -> Delivery],
         \A m \in Hooks : IF m[2] = e /\ m[1] \in D
                          THEN deliveries'[m] = [deliveries[m] EXCEPT !.status = "pending"]
                          ELSE deliveries'[m] = deliveries[m],
         UNCHANGED <<deaths, subs, sweep, noteVars, history>>
  PROVE  OutboundInv' /\ MapsTo
<1>1. firing' \in [Events -> Firings] /\ \A x \in Events : firing'[x].pc # "fired" => x # e /\ firing[x].pc # "fired"
  BY DEF OutboundInv, HookInv, HookTypes, Firings
<1>2. /\ deliveries \in [Hooks -> Delivery] /\ sent' = sent /\ sweep \in Sweeps
      /\ \A s \in Subs, x \in Events : <<s, x>> \in Hooks
      /\ \A m \in Hooks : m[1] \in Subs /\ m[2] \in Events /\ m = <<m[1], m[2]>>
  BY DEF OutboundInv, HookInv, HookTypes, history, Hooks
<1>3. \A m \in Hooks : \/ deliveries'[m] = deliveries[m]
                       \/ /\ m[2] = e /\ deliveries[m].status = "none"
                          /\ deliveries'[m].status = "pending"
                          /\ deliveries'[m].attempt = deliveries[m].attempt
  <2> SUFFICES ASSUME NEW m \in Hooks, m[2] = e, m[1] \in D
               PROVE  /\ deliveries[m].status = "none"
                      /\ deliveries'[m].status = "pending"
                      /\ deliveries'[m].attempt = deliveries[m].attempt
    OBVIOUS
  <2>1. deliveries[m[1], e].status = "none" /\ m = <<m[1], e>>
    BY <1>2 DEF OutboundInv, HookInv, RowsKnow
  <2>2. deliveries'[m] = [deliveries[m] EXCEPT !.status = "pending"] /\ deliveries[m] \in Delivery
    BY <1>2
  <2> QED
    BY <2>1, <2>2 DEF Delivery
<1>4. HookTypes'
  BY <1>1 DEF OutboundInv, HookInv, HookTypes
<1>5. SweepKnows'
  <2>1. sweep.pc # "idle" => DOMAIN sweep.todo \subseteq Hooks
    BY <1>2, TodoOf DEF Sweeps
  <2> QED
    BY <1>2, <1>3, <2>1 DEF OutboundInv, HookInv, SweepKnows, Queued
<1>6. RowsKnow'
  <2>1. ASSUME NEW x \in Events, firing'[x].pc # "fired", NEW s \in Subs
        PROVE  deliveries'[s, x].status = "none"
    <3>1. deliveries[s, x].status = "none" /\ x # e /\ <<s, x>> \in Hooks /\ <<s, x>>[2] = x
      BY <1>1, <1>2, <2>1 DEF OutboundInv, HookInv, RowsKnow
    <3> QED
      BY <1>3, <3>1
  <2>2. ASSUME NEW m \in Hooks, deliveries'[m].status = "none" \/ Queued(m)'
        PROVE  sent'[m] >= deliveries'[m].attempt - 1
    BY <1>2, <1>3, <2>2 DEF OutboundInv, HookInv, RowsKnow, Queued
  <2> QED
    BY <2>1, <2>2 DEF RowsKnow
<1>7. DisabledForCause'
  <2>1. \A s \in Subs, x \in Events : deliveries[s, x].status = "failed" => deliveries'[s, x] = deliveries[s, x]
    BY <1>2, <1>3
  <2> QED
    BY <1>2, <2>1 DEF OutboundInv, HookInv, DisabledForCause
<1>8. OutboundInv' /\ \A n \in NoteKeys : RowState(n)' = RowState(n)
  BY <1>2, <1>3, <1>4, <1>5, <1>6, <1>7, HookStep DEF Queued, HookUnderWay
<1>9. \A m \in Hooks : \/ RowState(m)' = RowState(m)
                       \/ RowState(m) = "absent" /\ RowState(m)' = "queued"
  BY <1>3, HookSame, HookState DEF RowState
<1> QED
  BY <1>2, <1>8, <1>9, MapPut DEF Messages

LEMMA QueueSteps ==
  ASSUME OutboundInv, NEW e \in Events, InsertDeliveries(e) \/ \E s \in Subs : TestSubscription(s, e)
  PROVE  OutboundInv' /\ MapsTo
<1>1. /\ deliveries \in [Hooks -> Delivery] /\ firing[e].subs \subseteq Subs
      /\ \A m \in Hooks : [deliveries[m] EXCEPT !.status = "pending"] \in Delivery
  BY DEF OutboundInv, HookInv, HookTypes, Firings, Delivery
<1>2. CASE InsertDeliveries(e)
  BY <1>1, <1>2, QueueRows DEF InsertDeliveries
<1>3. ASSUME NEW s \in Subs, TestSubscription(s, e) PROVE OutboundInv' /\ MapsTo
  <2>1. \A m \in Hooks : m[2] = e /\ m[1] \in {s} <=> m = <<s, e>>
    BY DEF Hooks
  <2>2. /\ firing[e].pc # "fired" /\ firing' = [firing EXCEPT ![e].pc = "fired"]
        /\ UNCHANGED <<deaths, subs, sweep, noteVars, history>>
        /\ deliveries' = [deliveries EXCEPT ![<<s, e>>] = [@ EXCEPT !.status = "pending"]]
    BY <1>3 DEF TestSubscription
  <2>3. <<s, e>> \in Hooks
    BY DEF Hooks
  <2>4. /\ deliveries' \in [Hooks -> Delivery]
        /\ \A m \in Hooks : IF m[2] = e /\ m[1] \in {s}
                            THEN deliveries'[m] = [deliveries[m] EXCEPT !.status = "pending"]
                            ELSE deliveries'[m] = deliveries[m]
    BY <1>1, <2>1, <2>2, <2>3
  <2>5. PICK D \in SUBSET Subs : D = {s}
    OBVIOUS
  <2>6. \A m \in Hooks : IF m[2] = e /\ m[1] \in D
                          THEN deliveries'[m] = [deliveries[m] EXCEPT !.status = "pending"]
                          ELSE deliveries'[m] = deliveries[m]
    BY <2>4, <2>5
  <2> QED
    BY <2>2, <2>4, <2>6, QueueRows
<1> QED
  BY <1>2, <1>3

------------------------------------------------------------------------------
(* The sweep.                                                                *)
LEMMA SweepFields ==
  ASSUME HookTypes
  PROVE  /\ sweep.pc \in {"idle", "next", "record", "circuit"}
         /\ sweep.todo \in Todos /\ DOMAIN sweep.todo \subseteq Hooks
         /\ \A m \in DOMAIN sweep.todo : sweep.todo[m] \in Reads
         /\ Idle \in Sweeps /\ Idle.pc = "idle"
<1>1. <<>> \in Todos
  <2>1. [m \in {} |-> m] \in Todos
    BY DEF Todos
  <2> QED
    BY <2>1
<1> QED
  BY <1>1, TodoOf DEF HookTypes, Sweeps, Idle

LEMMA NextRowKnows ==
  ASSUME HookTypes, NEW m \in DOMAIN sweep.todo, NextRow(m)
  PROVE  /\ sweep' \in Sweeps /\ sweep'.pc \in {"idle", "next"}
         /\ sweep'.pc = "next" => /\ DOMAIN sweep'.todo = DOMAIN sweep.todo \ {m}
                                  /\ \A x \in DOMAIN sweep'.todo : sweep'.todo[x] = sweep.todo[x]
<1>1. Rest(m) \in Todos /\ DOMAIN Rest(m) = DOMAIN sweep.todo \ {m}
      /\ \A x \in DOMAIN sweep.todo \ {m} : Rest(m)[x] = sweep.todo[x]
  BY SweepFields, TodoOf DEF Rest, Restrict
<1>2. CASE DOMAIN Rest(m) = {}
  BY <1>2, SweepFields DEF NextRow
<1>3. CASE DOMAIN Rest(m) # {}
  <2>1. sweep' = [Idle EXCEPT !.pc = "next", !.todo = Rest(m)]
    BY <1>3 DEF NextRow
  <2> QED
    BY <1>1, <2>1, SweepFields DEF Sweeps, Idle
<1> QED
  BY <1>2, <1>3

LEMMA BeginStep ==
  ASSUME OutboundInv, BeginSweep
  PROVE  OutboundInv' /\ MapsTo
<1> DEFINE read == [m \in Due |-> [attempt |-> deliveries[m].attempt, sub |-> subs[m[1]]]]
<1>1. Due \subseteq Hooks /\ \A m \in Due : Queued(m)
  BY DEF Due, Queued
<1>2. \A m \in Hooks : [attempt |-> deliveries[m].attempt, sub |-> subs[m[1]]] \in Reads
  BY DEF OutboundInv, HookInv, HookTypes, Reads, Delivery, Hooks
<1>3. read \in Todos /\ DOMAIN read = Due /\ \A m \in Due : read[m].attempt = deliveries[m].attempt
  <2>1. read \in [Due -> Reads]
    BY <1>1, <1>2
  <2> QED
    BY <1>1, <2>1 DEF Todos
<1>4. sweep' \in Sweeps /\ sweep'.pc = "next" /\ sweep'.todo = read
  <2>1. sweep' = [Idle EXCEPT !.pc = "next", !.todo = read]
    BY DEF BeginSweep
  <2> HIDE DEF read
  <2> QED
    BY <1>3, <2>1, SweepFields DEF OutboundInv, HookInv, Sweeps, Idle
<1> HIDE DEF read
<1>5. HookTypes' /\ RowsKnow' /\ DisabledForCause'
  BY <1>4 DEF BeginSweep, OutboundInv, HookInv, HookTypes, RowsKnow, DisabledForCause, Queued, history
<1>6. SweepKnows'
  BY <1>1, <1>3, <1>4 DEF BeginSweep, SweepKnows, Queued
<1>7. OutboundInv' /\ \A n \in NoteKeys : RowState(n)' = RowState(n)
  BY <1>4, <1>5, <1>6, HookStep DEF BeginSweep, Queued, HookUnderWay
<1>8. \A m \in Hooks : RowState(m)' = RowState(m)
  BY HookSame DEF BeginSweep
<1> QED
  BY <1>7, <1>8, MapStutter DEF Messages, history, BeginSweep

(* A row read is settled without an attempt, or is put off.                  *)
LEMMA WithoutAttempt ==
  ASSUME OutboundInv, NEW m \in Hooks, FailDisabled(m) \/ Defer(m)
  PROVE  OutboundInv' /\ MapsTo
<1>1. sweep.pc = "next" /\ m \in DOMAIN sweep.todo /\ NextRow(m) /\ Queued(m)
      /\ UNCHANGED <<deaths, subs, firing, noteVars, history>>
  BY DEF FailDisabled, Defer, OutboundInv, HookInv, SweepKnows
<1>2. /\ sweep' \in Sweeps /\ sweep'.pc \in {"idle", "next"}
      /\ sweep'.pc = "next" => /\ DOMAIN sweep'.todo = DOMAIN sweep.todo \ {m}
                               /\ \A x \in DOMAIN sweep'.todo : sweep'.todo[x] = sweep.todo[x]
  BY <1>1, NextRowKnows DEF OutboundInv, HookInv
<1>3. /\ deliveries' \in [Hooks -> Delivery] /\ \A x \in Hooks \ {m} : deliveries'[x] = deliveries[x]
      /\ deliveries'[m].attempt = deliveries[m].attempt
      /\ deliveries'[m].status = "failed" \/ Queued(m)'
  BY DEF FailDisabled, Defer, OutboundInv, HookInv, HookTypes, Delivery, Queued
<1>4. HookTypes'
  BY <1>1, <1>2, <1>3 DEF OutboundInv, HookInv, HookTypes
<1>5. SweepKnows'
  <2>1. \A x \in DOMAIN sweep.todo : Queued(x) /\ sweep.todo[x].attempt = deliveries[x].attempt
    BY <1>1 DEF OutboundInv, HookInv, SweepKnows
  <2>2. DOMAIN sweep.todo \subseteq Hooks
    BY SweepFields DEF OutboundInv, HookInv
  <2> QED
    BY <1>2, <1>3, <2>1, <2>2 DEF SweepKnows, Queued
<1>6. RowsKnow'
  <2>1. \A e \in Events, s \in Subs : firing[e].pc # "fired" => <<s, e>> # m /\ <<s, e>> \in Hooks
    BY <1>1 DEF OutboundInv, HookInv, RowsKnow, Queued, Hooks
  <2> QED
    BY <1>1, <1>3, <2>1 DEF OutboundInv, HookInv, RowsKnow, Queued, history
<1>7. DisabledForCause'
  <2>1. \A s \in Subs, e \in Events : deliveries[s, e].status = "failed" => deliveries'[s, e].status = "failed"
    BY <1>1, <1>3 DEF Hooks, Queued
  <2> QED
    BY <1>1, <2>1 DEF OutboundInv, HookInv, DisabledForCause, history
<1>8. OutboundInv' /\ \A n \in NoteKeys : RowState(n)' = RowState(n)
  BY <1>1, <1>3, <1>4, <1>5, <1>6, <1>7, HookStep DEF Queued, HookUnderWay
<1>9. RowState(m) = "queued" /\ RowState(m)' \in {"queued", "dropped"}
  BY <1>1, <1>3, HookState DEF RowState, Queued
<1>10. \A x \in Hooks \ {m} : RowState(x)' = RowState(x)
  BY <1>3, HookSame
<1>11. \A x \in Messages \ {m} : RowState(x)' = RowState(x)
  BY <1>8, <1>10 DEF Messages
<1>12. sent' = sent /\ m \in Messages
  BY <1>1, Apart DEF history
<1>13. CASE RowState(m)' = "queued"
  BY <1>8, <1>9, <1>11, <1>12, <1>13, MapStutter
<1>14. CASE RowState(m)' = "dropped"
  BY <1>8, <1>9, <1>11, <1>12, <1>14, MapSettle
<1> QED
  BY <1>9, <1>13, <1>14

LEMMA AttemptStep ==
  ASSUME OutboundInv, NEW m \in Hooks, AttemptDelivery(m)
  PROVE  OutboundInv' /\ MapsTo
<1>1. PICK outcome \in Outcomes :
        /\ sweep' = [sweep EXCEPT !.pc = "record", !.cur = m, !.outcome = outcome]
        /\ GoesOut(m, outcome = "delivered")
  BY DEF AttemptDelivery
<1>2. sweep.pc = "next" /\ m \in DOMAIN sweep.todo /\ UNCHANGED <<deaths, subs, deliveries, firing, noteVars>>
  BY DEF AttemptDelivery
<1>3. Queued(m) /\ sweep.todo[m].attempt = deliveries[m].attempt /\ m \in Messages
  BY <1>2, Apart DEF OutboundInv, HookInv, SweepKnows
<1>4. PICK ok \in BOOLEAN : (ok <=> outcome = "delivered") /\ GoesOut(m, ok)
  BY <1>1 DEF GoesOut
<1>5. /\ Counts' /\ sent'[m] = sent[m] + 1 /\ sent' = [sent EXCEPT ![m] = @ + 1]
      /\ taken'[m] = IF outcome = "delivered" THEN taken[m] + 1 ELSE taken[m]
      /\ \A x \in Messages \ {m} : sent'[x] = sent[x] /\ taken'[x] = taken[x]
  BY <1>2, <1>3, <1>4, CountsAfter DEF GoesOut, OutboundInv
<1>6. /\ sweep' \in Sweeps /\ sweep'.pc = "record" /\ sweep'.cur = m
      /\ sweep'.outcome = outcome /\ sweep'.todo = sweep.todo
  BY <1>1 DEF OutboundInv, HookInv, HookTypes, Sweeps
<1>7. /\ deliveries \in [Hooks -> Delivery] /\ DOMAIN sweep.todo \subseteq Hooks
      /\ sent \in [Messages -> Nat] /\ taken \in [Messages -> Nat] /\ deaths \in Nat
      /\ sent[m] >= deliveries[m].attempt - 1 /\ deliveries[m].attempt \in Nat
  <2>1. deliveries \in [Hooks -> Delivery] /\ DOMAIN sweep.todo \subseteq Hooks
    BY SweepFields DEF OutboundInv, HookInv, HookTypes
  <2>2. deliveries[m].attempt \in Nat
    BY <2>1, OutboundAssumption DEF Delivery
  <2> QED
    BY <1>3, <2>1, <2>2 DEF OutboundInv, HookInv, RowsKnow, Counts
<1>8. HookTypes' /\ SweepKnows'
  <2>1. \A x \in DOMAIN sweep.todo : Queued(x) /\ sweep.todo[x].attempt = deliveries[x].attempt
    BY <1>2 DEF OutboundInv, HookInv, SweepKnows
  <2>2. sent'[m] >= sweep.todo[m].attempt
    BY <1>3, <1>5, <1>7
  <2> QED
    BY <1>2, <1>6, <2>1, <2>2 DEF OutboundInv, HookInv, HookTypes, SweepKnows, Queued
<1>9. RowsKnow'
  <2>1. \A x \in Hooks : sent'[x] >= sent[x] /\ sent[x] \in Nat /\ sent'[x] \in Nat
    BY <1>5, <1>7, Apart DEF Counts
  <2>2. \A x \in Hooks : deliveries[x].attempt \in Nat
    BY <1>7, OutboundAssumption DEF Delivery
  <2>3. ASSUME NEW x \in Hooks, deliveries[x].status = "none" \/ Queued(x)
        PROVE  sent'[x] >= deliveries[x].attempt - 1
    <3>1. sent[x] >= deliveries[x].attempt - 1
      BY <2>3 DEF OutboundInv, HookInv, RowsKnow
    <3> QED
      BY <2>1, <2>2, <3>1
  <2> QED
    BY <1>2, <2>3 DEF OutboundInv, HookInv, RowsKnow, Queued
<1>10. HooksTaken'
  <2> SUFFICES ASSUME NEW x \in Hooks
               PROVE  /\ taken'[x] <= 1 + deaths
                      /\ (deliveries[x].status = "none" \/ Queued(x)) /\ ~HookUnderWay(x)' => taken'[x] <= deaths
    BY <1>2 DEF HooksTaken, Queued
  <2>1. /\ taken[x] <= 1 + deaths /\ taken[x] \in Nat
        /\ deliveries[x].status = "none" \/ Queued(x) => taken[x] <= deaths
    BY <1>2, <1>7, Apart DEF OutboundInv, HookInv, HooksTaken, HookUnderWay
  <2>2. CASE x = m
    BY <1>3, <1>5, <1>6, <1>7, <2>1, <2>2 DEF HookUnderWay
  <2>3. CASE x # m
    BY <1>5, <2>1, <2>3, Apart
  <2> QED
    BY <2>2, <2>3
<1>11. DisabledForCause'
  <2>1. \A x \in Hooks : sent'[x] >= sent[x] /\ sent[x] \in Nat /\ sent'[x] \in Nat
    BY <1>5, <1>7, Apart DEF Counts
  <2> SUFFICES ASSUME NEW s \in Subs, subs[s].reason = "max_retries"
               PROVE  \E e \in Events : sent'[s, e] >= MaxAttempts /\ deliveries[s, e].status = "failed"
    BY <1>2 DEF DisabledForCause
  <2>2. PICK e \in Events : sent[s, e] >= MaxAttempts /\ deliveries[s, e].status = "failed"
    BY DEF OutboundInv, HookInv, DisabledForCause
  <2>3. PICK x \in Hooks : x = <<s, e>>
    BY DEF Hooks
  <2>4. sent[x] >= MaxAttempts
    BY <2>2, <2>3
  <2>5. sent'[x] >= MaxAttempts
    <3>1. sent'[x] >= sent[x] /\ sent[x] \in Nat /\ sent'[x] \in Nat
      BY <2>1
    <3>2. MaxAttempts \in Nat
      BY OutboundAssumption
    <3> QED
      BY <2>4, <3>1, <3>2
  <2>6. sent'[s, e] >= MaxAttempts
    BY <2>3, <2>5
  <2> QED
    BY <2>2, <2>6
<1>12. NoteInv' /\ \A n \in NoteKeys : RowState(n)' = RowState(n)
  <2>1. \A n \in NoteKeys : sent'[n] = sent[n] /\ taken'[n] = taken[n]
    BY <1>5, Apart
  <2> QED
    BY <1>2, <1>5, <1>7, <2>1, NotesApart DEF OutboundInv
<1>13. \A x \in Messages : RowState(x)' = RowState(x)
  BY <1>2, <1>12, HookSame DEF Messages
<1>14. RowState(m) = "queued"
  BY <1>3, HookState
<1> QED
  BY <1>3, <1>5, <1>8, <1>9, <1>10, <1>11, <1>12, <1>13, <1>14, MapSend DEF OutboundInv, HookInv

(* markDelivered, the retry, or failDelivery.                                *)
LEMMA RecordStep ==
  ASSUME OutboundInv, RecordOutcome
  PROVE  OutboundInv' /\ MapsTo
<1>0. PICK m \in Hooks : m = sweep.cur /\ m \in DOMAIN sweep.todo
  BY SweepFields DEF RecordOutcome, OutboundInv, HookInv, SweepKnows
<1>1. sweep.pc = "record" /\ UNCHANGED <<deaths, subs, firing, noteVars, history>>
  BY DEF RecordOutcome
<1> DEFINE attempt == sweep.todo[m].attempt
<1>2. /\ m \in DOMAIN sweep.todo /\ m \in Hooks /\ sweep.todo[m] \in Reads /\ Queued(m)
      /\ attempt = deliveries[m].attempt /\ attempt \in 1 .. MaxAttempts /\ sent[m] >= attempt
      /\ sent[m] \in Nat /\ m \in Messages /\ deliveries \in [Hooks -> Delivery]
      /\ DOMAIN sweep.todo \subseteq Hooks
  BY <1>0, <1>1, SweepFields, Apart DEF OutboundInv, HookInv, HookTypes, SweepKnows, Counts, Reads
<1>3. /\ sweep' \in Sweeps /\ sweep'.pc = "circuit" /\ sweep'.cur = m
      /\ sweep'.outcome = sweep.outcome /\ sweep'.todo = sweep.todo
  <2>1. sweep' = [sweep EXCEPT !.pc = "circuit"]
    BY DEF RecordOutcome
  <2> QED
    BY <1>0, <2>1 DEF OutboundInv, HookInv, HookTypes, Sweeps
<1>4. /\ deliveries' \in [Hooks -> Delivery] /\ \A x \in Hooks \ {m} : deliveries'[x] = deliveries[x]
      /\ \/ deliveries'[m].status = "delivered" /\ sweep.outcome = "delivered"
         \/ /\ sweep.outcome = "retry" /\ Again(attempt)
            /\ deliveries'[m].status = "retrying" /\ deliveries'[m].attempt = attempt + 1
         \/ /\ deliveries'[m].status = "failed"
            /\ sweep.outcome # "delivered" /\ ~(sweep.outcome = "retry" /\ Again(attempt))
  <2>1. CASE sweep.outcome = "delivered"
    <3>1. deliveries' = [deliveries EXCEPT ![m] = [@ EXCEPT !.status = "delivered"]]
      BY <1>0, <2>1 DEF RecordOutcome
    <3> QED
      BY <1>2, <2>1, <3>1 DEF Delivery
  <2>2. CASE sweep.outcome = "retry" /\ Again(attempt)
    <3>1. deliveries' = [deliveries EXCEPT ![m] =
                           [status |-> "retrying", attempt |-> attempt + 1, due |-> FALSE]]
      BY <1>0, <2>2 DEF RecordOutcome
    <3>2. attempt + 1 \in 1 .. MaxAttempts
      BY <1>2, <2>2, OutboundAssumption DEF Again
    <3> QED
      BY <1>2, <2>2, <3>1, <3>2 DEF Delivery
  <2>3. CASE sweep.outcome # "delivered" /\ ~(sweep.outcome = "retry" /\ Again(attempt))
    <3>1. deliveries' = [deliveries EXCEPT ![m] = [@ EXCEPT !.status = "failed"]]
      BY <1>0, <2>3 DEF RecordOutcome
    <3> QED
      BY <1>2, <2>3, <3>1 DEF Delivery
  <2> QED
    BY <2>1, <2>2, <2>3
<1> HIDE DEF attempt
<1>5. HookTypes'
  BY <1>1, <1>3, <1>4 DEF OutboundInv, HookInv, HookTypes
<1>6. SweepKnows'
  <2>1. \A x \in DOMAIN sweep.todo : Queued(x) /\ sweep.todo[x].attempt = deliveries[x].attempt
    BY <1>1 DEF OutboundInv, HookInv, SweepKnows
  <2>2. /\ sweep'.outcome = "retry" /\ ~Again(sweep'.todo[m].attempt) =>
             deliveries'[m].status = "failed" /\ sent'[m] >= MaxAttempts
    <3>1. sent' = sent /\ sweep'.todo[m].attempt = attempt
      BY <1>1, <1>3 DEF history, attempt
    <3> QED
      BY <1>2, <1>3, <1>4, <3>1, OutboundAssumption DEF Again
  <2> QED
    BY <1>2, <1>3, <1>4, <2>1, <2>2 DEF SweepKnows, Queued
<1>7. RowsKnow'
  <2>1. \A e \in Events, s \in Subs : firing[e].pc # "fired" => <<s, e>> # m /\ <<s, e>> \in Hooks
    BY <1>2 DEF OutboundInv, HookInv, RowsKnow, Queued, Hooks
  <2>2. ASSUME deliveries'[m].status = "none" \/ Queued(m)' PROVE sent'[m] >= deliveries'[m].attempt - 1
    BY <1>1, <1>2, <1>4, <2>2 DEF Queued, history
  <2> QED
    BY <1>1, <1>4, <2>1, <2>2 DEF OutboundInv, HookInv, RowsKnow, Queued, history
<1>8. DisabledForCause'
  <2>1. \A s \in Subs, e \in Events : deliveries[s, e].status = "failed" => deliveries'[s, e].status = "failed"
    BY <1>2, <1>4 DEF Hooks, Queued
  <2> QED
    BY <1>1, <2>1 DEF OutboundInv, HookInv, DisabledForCause, history
<1>9. OutboundInv' /\ \A n \in NoteKeys : RowState(n)' = RowState(n)
  <2>1. \A x \in Hooks : deliveries'[x].status = "none" \/ Queued(x)' =>
          (deliveries[x].status = "none" \/ Queued(x)) /\ ~HookUnderWay(x)
    BY <1>0, <1>2, <1>4 DEF Queued, HookUnderWay
  <2> QED
    BY <1>1, <1>5, <1>6, <1>7, <1>8, <2>1, HookStep
<1>10. \A x \in Messages \ {m} : RowState(x)' = RowState(x)
  BY <1>4, <1>9, HookSame DEF Messages
<1>11. RowState(m) = "queued" /\ sent' = sent
  BY <1>1, <1>2, HookState DEF history
<1>12. CASE deliveries'[m].status = "retrying"
  <2>1. RowState(m)' = RowState(m)
    BY <1>2, <1>11, <1>12 DEF RowState
  <2> QED
    BY <1>9, <1>10, <1>11, <2>1, MapStutter
<1>13. CASE deliveries'[m].status = "delivered"
  <2>1. RowState(m)' = "delivered" /\ sent[m] > 0
    BY <1>2, <1>13 DEF RowState
  <2> QED
    BY <1>2, <1>9, <1>10, <1>11, <2>1, MapSettle
<1>14. CASE deliveries'[m].status = "failed"
  <2>1. RowState(m)' = "dropped"
    BY <1>2, <1>14 DEF RowState
  <2> QED
    BY <1>2, <1>9, <1>10, <1>11, <2>1, MapSettle
<1> QED
  BY <1>4, <1>12, <1>13, <1>14

(* resetCircuit, disableSubscription or bumpCircuit: max_retries is written  *)
(* after the last attempt of a row that failed.                              *)
LEMMA CircuitStep ==
  ASSUME OutboundInv, UpdateCircuit
  PROVE  OutboundInv' /\ MapsTo
<1>1. PICK m \in Hooks : m = sweep.cur /\ m \in DOMAIN sweep.todo
  BY SweepFields DEF UpdateCircuit, OutboundInv, HookInv, SweepKnows
<1>2. PICK s \in Subs, e \in Events : m = <<s, e>> /\ m[1] = s
  BY DEF Hooks
<1>3. sweep.pc = "circuit" /\ NextRow(m) /\ UNCHANGED <<deaths, deliveries, firing, noteVars, history>>
  BY <1>1 DEF UpdateCircuit
<1>4. /\ sweep' \in Sweeps /\ sweep'.pc \in {"idle", "next"}
      /\ sweep'.pc = "next" => /\ DOMAIN sweep'.todo = DOMAIN sweep.todo \ {m}
                               /\ \A x \in DOMAIN sweep'.todo : sweep'.todo[x] = sweep.todo[x]
  BY <1>1, <1>3, NextRowKnows DEF OutboundInv, HookInv
<1>5. PICK streak \in Nat : streak = sweep.todo[m].sub.streak
  BY <1>1, SweepFields DEF OutboundInv, HookInv, Reads, SubRows
<1>6. PICK old \in SubRows : old = subs[s]
  BY DEF OutboundInv, HookInv, HookTypes
<1>7. PICK longer \in Nat : longer = streak + 1
  OBVIOUS
<1>8. PICK hot \in BOOLEAN : hot <=> old.cooling \/ streak + 1 >= Threshold
  OBVIOUS
<1>9. PICK new \in SubRows :
        /\ subs' = [subs EXCEPT ![s] = new]
        /\ new.reason = "max_retries" =>
             \/ old.reason = "max_retries"
             \/ sweep.outcome = "retry" /\ ~Again(sweep.todo[m].attempt)
  <2> DEFINE disabled(why) == [old EXCEPT !.enabled = FALSE, !.reason = why]
             cooler == [old EXCEPT !.streak = 0, !.cooling = FALSE]
             bumped == [old EXCEPT !.streak = longer, !.cooling = hot]
  <2>1. disabled("gone") \in SubRows /\ disabled("max_retries") \in SubRows
        /\ disabled("gone").reason = "gone"
    BY DEF SubRows
  <2>2. cooler \in SubRows /\ cooler.reason = old.reason
    BY DEF SubRows
  <2>3. bumped \in SubRows /\ bumped.reason = old.reason
    BY DEF SubRows
  <2>4. CASE sweep.outcome = "delivered"
    <3>1. subs' = [subs EXCEPT ![s] = cooler]
      BY <1>1, <1>2, <1>6, <2>4 DEF UpdateCircuit
    <3> HIDE DEF cooler
    <3> QED
      BY <2>2, <3>1
  <2>5. CASE sweep.outcome = "disable"
    <3>1. subs' = [subs EXCEPT ![s] = disabled("gone")]
      BY <1>1, <1>2, <1>6, <2>5 DEF UpdateCircuit
    <3> HIDE DEF disabled
    <3> QED
      BY <2>1, <3>1
  <2>6. CASE sweep.outcome = "retry" /\ ~Again(sweep.todo[m].attempt)
    <3>1. subs' = [subs EXCEPT ![s] = disabled("max_retries")]
      BY <1>1, <1>2, <1>6, <2>6 DEF UpdateCircuit
    <3> HIDE DEF disabled
    <3> QED
      BY <2>1, <2>6, <3>1
  <2>7. CASE sweep.outcome \notin {"delivered", "disable"}
              /\ ~(sweep.outcome = "retry" /\ ~Again(sweep.todo[m].attempt))
    <3>1. subs' = [subs EXCEPT ![s] = bumped]
      BY <1>1, <1>2, <1>5, <1>6, <1>7, <1>8, <2>7 DEF UpdateCircuit
    <3> HIDE DEF bumped
    <3> QED
      BY <2>3, <3>1
  <2> QED
    BY <2>4, <2>5, <2>6, <2>7
<1>10. HookTypes'
  BY <1>3, <1>4, <1>9 DEF OutboundInv, HookInv, HookTypes
<1>11. SweepKnows'
  BY <1>1, <1>3, <1>4 DEF OutboundInv, HookInv, SweepKnows, Queued
<1>12. RowsKnow'
  BY <1>3 DEF OutboundInv, HookInv, RowsKnow, Queued, history
<1>13. DisabledForCause'
  <2> SUFFICES ASSUME NEW t \in Subs, subs'[t].reason = "max_retries"
               PROVE  \E x \in Events : sent[t, x] >= MaxAttempts /\ deliveries[t, x].status = "failed"
    BY <1>3 DEF DisabledForCause, history
  <2>1. CASE t = s /\ sweep.outcome = "retry" /\ ~Again(sweep.todo[m].attempt)
    <3>1. sent[m] >= MaxAttempts /\ deliveries[m].status = "failed"
      BY <1>1, <1>3, <2>1 DEF OutboundInv, HookInv, SweepKnows
    <3>2. sent[t, e] >= MaxAttempts /\ deliveries[t, e].status = "failed"
      BY <1>2, <2>1, <3>1
    <3> QED
      BY <3>2
  <2>2. CASE ~(t = s /\ sweep.outcome = "retry" /\ ~Again(sweep.todo[m].attempt))
    <3>1. subs[t].reason = "max_retries"
      BY <1>6, <1>9, <2>2 DEF OutboundInv, HookInv, HookTypes
    <3> QED
      BY <3>1 DEF OutboundInv, HookInv, DisabledForCause
  <2> QED
    BY <2>1, <2>2
<1>14. OutboundInv' /\ \A n \in NoteKeys : RowState(n)' = RowState(n)
  BY <1>3, <1>10, <1>11, <1>12, <1>13, HookStep DEF Queued, HookUnderWay
<1>15. \A x \in Hooks : RowState(x)' = RowState(x)
  BY <1>3, HookSame
<1> QED
  BY <1>3, <1>14, <1>15, MapStutter DEF Messages, history

LEMMA SweepDiesStep ==
  ASSUME OutboundInv, SweepDies
  PROVE  OutboundInv' /\ MapsTo
<1>1. sweep' \in Sweeps /\ sweep'.pc = "idle" /\ deaths' = deaths + 1
      /\ UNCHANGED <<subs, deliveries, firing, noteVars, history>>
  BY SweepFields DEF SweepDies, OutboundInv, HookInv
<1>2. HookTypes' /\ RowsKnow' /\ DisabledForCause' /\ SweepKnows'
  BY <1>1 DEF OutboundInv, HookInv, HookTypes, RowsKnow, DisabledForCause, SweepKnows, Queued, history
<1>3. OutboundInv' /\ \A n \in NoteKeys : RowState(n)' = RowState(n)
  BY <1>1, <1>2, HookStep DEF Queued
<1>4. \A m \in Hooks : RowState(m)' = RowState(m)
  BY <1>1, HookSame
<1> QED
  BY <1>1, <1>3, <1>4, MapStutter DEF Messages, history

LEMMA DelayStep ==
  ASSUME OutboundInv, NEW m \in Hooks, DelayPasses(m)
  PROVE  OutboundInv' /\ MapsTo
<1>1. /\ deliveries' \in [Hooks -> Delivery]
      /\ \A x \in Hooks : deliveries'[x].status = deliveries[x].status
                          /\ deliveries'[x].attempt = deliveries[x].attempt
      /\ UNCHANGED <<deaths, subs, firing, sweep, noteVars, history>>
  BY DEF DelayPasses, OutboundInv, HookInv, HookTypes, Delivery
<1>2. HookTypes'
  BY <1>1 DEF OutboundInv, HookInv, HookTypes
<1>3. SweepKnows'
  <2>1. DOMAIN sweep.todo \subseteq Hooks
    BY SweepFields DEF OutboundInv, HookInv
  <2> QED
    BY <1>1, <2>1 DEF OutboundInv, HookInv, SweepKnows, Queued, history
<1>4. RowsKnow' /\ DisabledForCause'
  <2>1. \A s \in Subs, e \in Events : deliveries'[s, e].status = deliveries[s, e].status
    BY <1>1 DEF Hooks
  <2>2. RowsKnow'
    BY <1>1, <2>1 DEF OutboundInv, HookInv, RowsKnow, Queued, history
  <2>3. DisabledForCause'
    BY <1>1, <2>1 DEF OutboundInv, HookInv, DisabledForCause, history
  <2> QED
    BY <2>2, <2>3
<1>5. OutboundInv' /\ \A n \in NoteKeys : RowState(n)' = RowState(n)
  BY <1>1, <1>2, <1>3, <1>4, HookStep DEF Queued, HookUnderWay
<1>6. \A x \in Hooks : RowState(x)' = RowState(x)
  BY <1>1, HookSame
<1> QED
  BY <1>1, <1>5, <1>6, MapStutter DEF Messages, history

------------------------------------------------------------------------------
(* A step of the notifications that sends nothing: what is left to show.     *)
LEMMA NoteStep ==
  ASSUME OutboundInv, UNCHANGED <<hookVars, history>>, deaths' = deaths \/ deaths' = deaths + 1,
         NoteTypes', SenderKnows', PassKnows',
         \A n \in NoteKeys : notes'[n] \in {"none", "pending"} =>
           /\ notes[n] \in {"none", "pending"}
           /\ ~NoteUnderWay(n)' /\ NoteUnderWay(n) => deaths' = deaths + 1
  PROVE  OutboundInv' /\ \A m \in Hooks : RowState(m)' = RowState(m)
<1>1. Counts' /\ deaths' >= deaths /\ \A x \in Messages : sent'[x] = sent[x] /\ taken'[x] = taken[x]
  BY CountsKept DEF OutboundInv
<1>2. HookInv' /\ \A m \in Hooks : RowState(m)' = RowState(m)
  BY <1>1, HooksApart, Apart DEF OutboundInv
<1>3. NotesTaken'
  <2> SUFFICES ASSUME NEW n \in NoteKeys
               PROVE  /\ taken'[n] <= 1 + deaths'
                      /\ notes'[n] \in {"none", "pending"} /\ ~NoteUnderWay(n)' => taken'[n] <= deaths'
    BY DEF NotesTaken
  <2>1. taken'[n] = taken[n] /\ taken[n] \in Nat /\ deaths \in Nat
    BY <1>1, Apart DEF OutboundInv, Counts
  <2>2. /\ taken[n] <= 1 + deaths
        /\ notes[n] \in {"none", "pending"} /\ ~NoteUnderWay(n) => taken[n] <= deaths
    BY DEF OutboundInv, NoteInv, NotesTaken
  <2> QED
    BY <1>1, <2>1, <2>2
<1> QED
  BY <1>1, <1>2, <1>3 DEF OutboundInv, NoteInv

(* A participant becomes ready, time passes, a pass begins or dies.          *)
LEMMA PassMoves ==
  ASSUME OutboundInv, UNCHANGED <<deaths, hookVars, notes, sender, history>>,
         ready' \subseteq Participants, clock' \in 1 .. Windows,
         pass' \in [Passes -> PassStates], PassKnows'
  PROVE  OutboundInv' /\ MapsTo
<1>1. NoteTypes' /\ SenderKnows'
  BY DEF OutboundInv, NoteInv, NoteTypes, SenderKnows, NextNote, history
<1>2. OutboundInv' /\ \A m \in Hooks : RowState(m)' = RowState(m)
  BY <1>1, NoteStep DEF NoteUnderWay, NextNote
<1>3. \A n \in NoteKeys : RowState(n)' = RowState(n)
  BY NoteSame
<1> QED
  BY <1>2, <1>3, MapStutter DEF Messages, history

LEMMA NoPassKnows ==
  NoPass \in PassStates /\ NoPass.pc = "idle"
BY OutboundAssumption DEF NoPass, PassStates

LEMMA CalmSteps ==
  ASSUME OutboundInv,
         \/ \E p \in Participants : BecomesReady(p)
         \/ WindowPasses \/ QuietEnds
         \/ \E k \in Passes : SelectNotifiable(k) \/ PassDies(k)
  PROVE  OutboundInv' /\ MapsTo
<1>1. /\ ready \subseteq Participants /\ clock \in 1 .. Windows
      /\ pass \in [Passes -> PassStates] /\ PassKnows
  BY DEF OutboundInv, NoteInv, NoteTypes
<1>2. ASSUME NEW p \in Participants, BecomesReady(p) PROVE OutboundInv' /\ MapsTo
  BY <1>1, <1>2, PassMoves DEF BecomesReady, PassKnows
<1>3. CASE WindowPasses
  BY <1>1, <1>3, PassMoves, OutboundAssumption DEF WindowPasses, PassKnows
<1>4. CASE QuietEnds
  BY <1>1, <1>4, PassMoves DEF QuietEnds, PassKnows
<1>5. ASSUME NEW k \in Passes, SelectNotifiable(k) PROVE OutboundInv' /\ MapsTo
  <2>1. PICK suppressed \in SUBSET ready :
          pass' = [pass EXCEPT ![k] = [pc |-> "email", window |-> clock, todo |-> ready,
                                       suppressed |-> suppressed]]
    BY <1>5 DEF SelectNotifiable
  <2>2. pass' \in [Passes -> PassStates]
    BY <1>1, <2>1 DEF PassStates
  <2>3. PassKnows'
    BY <1>1, <1>5, <2>1 DEF PassKnows, SelectNotifiable
  <2> QED
    BY <1>1, <1>5, <2>2, <2>3, PassMoves DEF SelectNotifiable
<1>6. ASSUME NEW k \in Passes, PassDies(k) PROVE OutboundInv' /\ MapsTo
  <2>1. pass' \in [Passes -> PassStates] /\ PassKnows'
    BY <1>1, <1>6, NoPassKnows DEF PassDies, PassKnows
  <2> QED
    BY <1>1, <1>6, <2>1, PassMoves DEF PassDies
<1> QED
  BY <1>2, <1>3, <1>4, <1>5, <1>6

(* enqueueForEvent inserts a row unless there is one.                        *)
LEMMA InsertKeeps ==
  ASSUME OutboundInv, UNCHANGED <<deaths, hookVars, sender, ready, clock, history>>,
         pass' \in [Passes -> PassStates], PassKnows',
         notes' = notes \/ \E n \in NoteKeys, status \in {"pending", "suppressed"} :
                             InsertNote(n, status)
  PROVE  OutboundInv' /\ MapsTo
<1>1. /\ notes' \in [NoteKeys -> Note]
      /\ \A n \in NoteKeys : \/ notes'[n] = notes[n]
                             \/ notes[n] = "none" /\ notes'[n] \in {"pending", "suppressed"}
  BY DEF OutboundInv, NoteInv, NoteTypes, InsertNote, Note
<1>2. NoteTypes'
  BY <1>1 DEF OutboundInv, NoteInv, NoteTypes
<1>3. SenderKnows'
  <2>1. sender.todo \subseteq NoteKeys
    BY DEF OutboundInv, NoteInv, NoteTypes, Senders
  <2> QED
    BY <1>1, <2>1 DEF OutboundInv, NoteInv, SenderKnows, NextNote, history
<1>4. OutboundInv' /\ \A m \in Hooks : RowState(m)' = RowState(m)
  BY <1>1, <1>2, <1>3, NoteStep DEF NoteUnderWay, NextNote
<1>5. \A n \in NoteKeys : \/ RowState(n)' = RowState(n)
                          \/ RowState(n) = "absent" /\ RowState(n)' \in {"queued", "dropped"}
  <2> SUFFICES ASSUME NEW n \in NoteKeys, notes'[n] # notes[n]
               PROVE  RowState(n) = "absent" /\ RowState(n)' \in {"queued", "dropped"}
    BY NoteSame
  <2>1. notes[n] = "none" /\ notes'[n] \in {"pending", "suppressed"} /\ n \notin Hooks
    BY <1>1, Apart
  <2>2. RowState(n) = "absent"
    BY <2>1, NoteState
  <2>3. CASE notes'[n] = "pending"
    <3>1. RowState(n)' = "queued"
      BY <2>1, <2>3 DEF RowState
    <3> QED
      BY <2>2, <3>1
  <2>4. CASE notes'[n] = "suppressed"
    <3>1. RowState(n)' = "dropped"
      BY <2>1, <2>4 DEF RowState
    <3> QED
      BY <2>2, <3>1
  <2> QED
    BY <2>1, <2>3, <2>4
<1>6. sent' = sent
  BY DEF history
<1>7. \A m \in Messages : \/ RowState(m)' = RowState(m)
                          \/ RowState(m) = "absent" /\ RowState(m)' \in {"queued", "dropped"}
  BY <1>4, <1>5 DEF Messages
<1> QED
  BY <1>4, <1>6, <1>7, MapPut

LEMMA InsertSteps ==
  ASSUME OutboundInv, NEW k \in Passes, InsertEmail(k) \/ InsertSms(k)
  PROVE  OutboundInv' /\ MapsTo
<1>1. pass \in [Passes -> PassStates] /\ PassKnows /\ pass[k].pc # "idle"
  BY DEF OutboundInv, NoteInv, NoteTypes, InsertEmail, InsertSms
<1>2. Current(k) \in Participants /\ pass[k] \in PassStates /\ pass[k].window \in 1 .. Windows
  BY <1>1 DEF PassKnows, PassStates, Current
<1>3. \A medium \in {"email", "sms"} : <<Current(k), medium, pass[k].window>> \in NoteKeys
  BY <1>2 DEF NoteKeys
<1>4. CASE InsertEmail(k)
  <2>1. notes' = notes \/ \E n \in NoteKeys, status \in {"pending", "suppressed"} : InsertNote(n, status)
    BY <1>3, <1>4 DEF InsertEmail
  <2>2. pass' \in [Passes -> PassStates] /\ PassKnows'
    BY <1>1, <1>2, <1>4 DEF InsertEmail, PassStates, PassKnows
  <2> QED
    BY <1>4, <2>1, <2>2, InsertKeeps DEF InsertEmail
<1>5. CASE InsertSms(k)
  <2>1. notes' = notes \/ \E n \in NoteKeys, status \in {"pending", "suppressed"} : InsertNote(n, status)
    BY <1>3, <1>5 DEF InsertSms
  <2>2. pass' \in [Passes -> PassStates] /\ PassKnows'
    <3>1. PICK rest : rest = pass[k].todo \ {Current(k)}
      OBVIOUS
    <3>2. CASE rest = {}
      <4>1. pass' = [pass EXCEPT ![k] = NoPass]
        BY <1>5, <3>1, <3>2 DEF InsertSms
      <4> QED
        BY <1>1, <4>1, NoPassKnows DEF PassKnows
    <3>3. CASE rest # {}
      <4>1. pass' = [pass EXCEPT ![k] = [@ EXCEPT !.pc = "email", !.todo = rest]]
        BY <1>5, <3>1, <3>3 DEF InsertSms
      <4>2. rest \in SUBSET Participants
        BY <1>2, <3>1 DEF PassStates
      <4> QED
        BY <1>1, <1>2, <3>3, <4>1, <4>2 DEF PassKnows, PassStates
    <3> QED
      BY <3>2, <3>3
  <2> QED
    BY <1>5, <2>1, <2>2, InsertKeeps DEF InsertSms
<1> QED
  BY <1>4, <1>5

------------------------------------------------------------------------------
(* runNotificationSend.                                                      *)
LEMMA NoSenderTyped == NoSender \in Senders /\ NoSender.pc = "idle"
BY DEF NoSender, Senders

LEMMA AfterNoteKnows ==
  ASSUME NoteTypes, SenderKnows, sender.pc # "idle", AfterNote
  PROVE  /\ sender' \in Senders /\ sender'.pc \in {"idle", "next"}
         /\ sender'.pc = "next" => /\ sender'.todo # {}
                                   /\ sender'.todo \subseteq sender.todo \ {NextNote}
<1>1. sender \in Senders
  BY DEF NoteTypes
<1>2. PICK rest \in SUBSET NoteKeys : rest = sender.todo \ {NextNote}
  BY <1>1 DEF Senders
<1>3. CASE rest = {}
  BY <1>2, <1>3, NoSenderTyped DEF AfterNote
<1>4. CASE rest # {}
  <2>1. sender' = [sender EXCEPT !.pc = "next", !.todo = rest, !.sent = FALSE]
    BY <1>2, <1>4 DEF AfterNote
  <2> QED
    BY <1>1, <1>2, <1>4, <2>1 DEF Senders
<1> QED
  BY <1>3, <1>4

(* What the sweep does with the row it is at: put off, settled or marked.    *)
LEMMA RowHandled ==
  ASSUME OutboundInv, sender.pc # "idle", AfterNote,
         UNCHANGED <<deaths, hookVars, ready, clock, pass, history>>,
         \/ notes' = notes /\ sender.pc = "next"
         \/ \E status \in {"skipped", "failed", "sent"} :
              /\ status = "sent" => sender.pc = "mark" /\ sender.sent
              /\ notes' = [notes EXCEPT ![NextNote] = status]
  PROVE  OutboundInv' /\ MapsTo
<1>1. PICK n \in NoteKeys : n = NextNote /\ n \in sender.todo /\ notes[n] = "pending"
  BY DEF OutboundInv, NoteInv, NoteTypes, SenderKnows, Senders, NextNote
<1>2. /\ sender' \in Senders /\ sender'.pc \in {"idle", "next"}
      /\ sender'.pc = "next" => sender'.todo # {} /\ sender'.todo \subseteq sender.todo \ {n}
  BY <1>1, AfterNoteKnows DEF OutboundInv, NoteInv
<1>3. /\ notes' \in [NoteKeys -> Note]
      /\ \A x \in NoteKeys \ {n} : notes'[x] = notes[x]
      /\ \/ notes'[n] = notes[n] /\ sender.pc = "next"
         \/ notes'[n] \in {"skipped", "failed"}
         \/ notes'[n] = "sent" /\ sender.pc = "mark" /\ sender.sent
  BY <1>1 DEF OutboundInv, NoteInv, NoteTypes, Note
<1>4. NoteTypes' /\ PassKnows'
  BY <1>2, <1>3 DEF OutboundInv, NoteInv, NoteTypes, PassKnows
<1>5. SenderKnows'
  <2>1. sender.todo \subseteq NoteKeys /\ \A x \in sender.todo : notes[x] = "pending"
    BY DEF OutboundInv, NoteInv, NoteTypes, Senders, SenderKnows
  <2> QED
    BY <1>2, <1>3, <2>1 DEF SenderKnows
<1>6. OutboundInv' /\ \A m \in Hooks : RowState(m)' = RowState(m)
  <2>1. \A x \in NoteKeys : notes'[x] \in {"none", "pending"} =>
          notes[x] \in {"none", "pending"} /\ ~NoteUnderWay(x)
    BY <1>1, <1>3 DEF NoteUnderWay
  <2> QED
    BY <1>4, <1>5, <2>1, NoteStep
<1>7. RowState(n) = "queued" /\ n \in Messages /\ n \notin Hooks /\ sent' = sent
  BY <1>1, NoteState, Apart DEF history
<1>8. \A x \in Messages \ {n} : RowState(x)' = RowState(x)
  BY <1>3, <1>6, NoteSame DEF Messages
<1>9. CASE notes'[n] = notes[n]
  <2>1. RowState(n)' = RowState(n)
    BY <1>9, NoteSame
  <2> QED
    BY <1>6, <1>7, <1>8, <2>1, MapStutter
<1>10. CASE notes'[n] \in {"skipped", "failed"}
  <2>1. RowState(n)' = "dropped"
    BY <1>7, <1>10 DEF RowState
  <2> QED
    BY <1>6, <1>7, <1>8, <2>1, MapSettle
<1>11. CASE notes'[n] = "sent" /\ sender.pc = "mark" /\ sender.sent
  <2>1. RowState(n)' = "delivered"
    BY <1>7, <1>11 DEF RowState
  <2>2. sent[n] > 0
    BY <1>1, <1>11 DEF OutboundInv, NoteInv, SenderKnows
  <2> QED
    BY <1>6, <1>7, <1>8, <2>1, <2>2, MapSettle
<1> QED
  BY <1>3, <1>9, <1>10, <1>11

(* A sweep begins with the rows pending then, or dies.                       *)
LEMMA SenderMoves ==
  ASSUME OutboundInv, BeginSend \/ SenderDies
  PROVE  OutboundInv' /\ MapsTo
<1>1. UNCHANGED <<hookVars, ready, clock, notes, pass, history>>
  BY DEF BeginSend, SenderDies
<1>2. /\ sender' \in Senders /\ sender'.pc \in {"idle", "next"}
      /\ sender'.pc = "next" => sender'.todo # {} /\ \A n \in sender'.todo : notes[n] = "pending"
      /\ \/ deaths' = deaths /\ sender.pc = "idle"
         \/ deaths' = deaths + 1
  <2>1. CASE BeginSend
    <3>1. PICK pending \in SUBSET NoteKeys, sms \in BOOLEAN :
            /\ pending # {} /\ \A n \in pending : notes[n] = "pending"
            /\ sender' = [pc |-> "next", todo |-> pending, sms |-> sms, sent |-> FALSE]
      BY <2>1, OutboundAssumption DEF BeginSend
    <3> QED
      BY <2>1, <3>1 DEF BeginSend, Senders
  <2>2. CASE SenderDies
    BY <2>2, NoSenderTyped DEF SenderDies
  <2> QED
    BY <2>1, <2>2
<1>3. NoteTypes' /\ PassKnows' /\ SenderKnows'
  BY <1>1, <1>2 DEF OutboundInv, NoteInv, NoteTypes, PassKnows, SenderKnows
<1>4. OutboundInv' /\ \A m \in Hooks : RowState(m)' = RowState(m)
  <2>1. \A n \in NoteKeys : NoteUnderWay(n) => deaths' = deaths + 1
    BY <1>2 DEF NoteUnderWay
  <2> QED
    BY <1>1, <1>2, <1>3, <2>1, NoteStep
<1>5. \A n \in NoteKeys : RowState(n)' = RowState(n)
  BY <1>1, NoteSame
<1> QED
  BY <1>1, <1>4, <1>5, MapStutter DEF Messages, history

LEMMA SendStep ==
  ASSUME OutboundInv, SendNote
  PROVE  OutboundInv' /\ MapsTo
<1>1. PICK n \in NoteKeys : n = NextNote /\ n \in sender.todo /\ notes[n] = "pending"
  BY DEF SendNote, OutboundInv, NoteInv, NoteTypes, SenderKnows, Senders, NextNote
<1>2. PICK ok \in BOOLEAN : sender' = [sender EXCEPT !.pc = "mark", !.sent = ok] /\ GoesOut(n, ok)
  BY <1>1 DEF SendNote
<1>3. sender.pc = "next" /\ UNCHANGED <<deaths, hookVars, ready, clock, notes, pass>> /\ n \in Messages
  BY Apart DEF SendNote
<1>4. /\ Counts' /\ sent'[n] = sent[n] + 1 /\ sent' = [sent EXCEPT ![n] = @ + 1]
      /\ taken'[n] = IF ok THEN taken[n] + 1 ELSE taken[n]
      /\ \A x \in Messages \ {n} : sent'[x] = sent[x] /\ taken'[x] = taken[x]
  BY <1>2, <1>3, CountsAfter DEF GoesOut, OutboundInv
<1>5. /\ sender \in Senders /\ sender' \in Senders /\ sender'.pc = "mark" /\ sender'.sent = ok
      /\ sender'.todo = sender.todo
  BY <1>2 DEF OutboundInv, NoteInv, NoteTypes, Senders
<1>6. NextNote' = n
  BY <1>1, <1>5 DEF NextNote
<1>7. sent[n] \in Nat /\ taken[n] \in Nat /\ deaths \in Nat
  BY <1>3 DEF OutboundInv, Counts
<1>8. NoteTypes' /\ PassKnows'
  BY <1>3, <1>5 DEF OutboundInv, NoteInv, NoteTypes, PassKnows
<1>9. SenderKnows'
  <2>1. sender.todo # {} /\ \A x \in sender.todo : notes[x] = "pending"
    BY <1>3 DEF OutboundInv, NoteInv, SenderKnows
  <2>2. sent'[n] > 0
    BY <1>4, <1>7
  <2> QED
    BY <1>3, <1>5, <1>6, <2>1, <2>2 DEF SenderKnows
<1>10. NotesTaken'
  <2> SUFFICES ASSUME NEW x \in NoteKeys
               PROVE  /\ taken'[x] <= 1 + deaths
                      /\ notes[x] \in {"none", "pending"} /\ ~NoteUnderWay(x)' => taken'[x] <= deaths
    BY <1>3 DEF NotesTaken
  <2>1. /\ taken[x] <= 1 + deaths
        /\ notes[x] \in {"none", "pending"} => taken[x] <= deaths
    BY <1>3 DEF OutboundInv, NoteInv, NotesTaken, NoteUnderWay
  <2>2. CASE x = n
    <3>1. ~NoteUnderWay(x)' => ~ok
      BY <1>5, <1>6, <2>2 DEF NoteUnderWay
    <3>2. taken[n] <= deaths
      BY <1>1, <2>1, <2>2
    <3>3. CASE ok
      BY <1>4, <1>7, <2>2, <3>1, <3>2, <3>3
    <3>4. CASE ~ok
      BY <1>4, <1>7, <2>2, <3>2, <3>4
    <3> QED
      BY <3>3, <3>4
  <2>3. CASE x # n
    BY <1>4, <2>1, <2>3, Apart
  <2> QED
    BY <2>2, <2>3
<1>11. HookInv' /\ \A m \in Hooks : RowState(m)' = RowState(m)
  <2>1. \A m \in Hooks : sent'[m] = sent[m] /\ taken'[m] = taken[m]
    BY <1>1, <1>4, Apart
  <2> QED
    BY <1>3, <1>4, <1>7, <2>1, HooksApart DEF OutboundInv
<1>12. \A x \in Messages : RowState(x)' = RowState(x)
  BY <1>3, <1>11, NoteSame DEF Messages
<1>13. RowState(n) = "queued"
  BY <1>1, NoteState
<1>14. OutboundInv'
  BY <1>4, <1>8, <1>9, <1>10, <1>11 DEF OutboundInv, NoteInv
<1> QED
  BY <1>3, <1>4, <1>12, <1>13, <1>14, MapSend

LEMMA MarkSteps ==
  ASSUME OutboundInv, SkipSms \/ DeferSms \/ MarkNote
  PROVE  OutboundInv' /\ MapsTo
<1>1. CASE SkipSms
  BY <1>1, RowHandled DEF SkipSms
<1>2. CASE DeferSms
  BY <1>2, RowHandled DEF DeferSms
<1>3. CASE MarkNote
  BY <1>3, RowHandled DEF MarkNote
<1> QED
  BY <1>1, <1>2, <1>3

------------------------------------------------------------------------------
LEMMA InvInit == Init => OutboundInv
<1> SUFFICES ASSUME Init PROVE OutboundInv
  OBVIOUS
<1>1. Counts
  BY DEF Init, Counts
<1>2. Idle \in Sweeps /\ Idle.pc = "idle"
  <2>1. <<>> \in Todos
    <3>1. [m \in {} |-> m] \in Todos
      BY DEF Todos
    <3> QED
      BY <3>1
  <2> QED
    BY <2>1 DEF Idle, Sweeps
<1>3. HookTypes
  BY <1>2, OutboundAssumption DEF Init, HookTypes, SubRows, Delivery, Firings
<1>4. SweepKnows /\ DisabledForCause
  BY <1>2 DEF Init, SweepKnows, DisabledForCause
<1>5. RowsKnow
  <2>1. \A s \in Subs, e \in Events : deliveries[s, e].status = "none"
    BY DEF Init, Hooks
  <2>2. \A m \in Hooks : sent[m] = 0 /\ deliveries[m].attempt = 1
    BY Apart DEF Init
  <2>3. \A m \in Hooks : sent[m] >= deliveries[m].attempt - 1
    BY <2>2
  <2> QED
    BY <2>1, <2>3 DEF RowsKnow
<1>6. \A x \in Messages : taken[x] = 0 /\ deaths = 0
  BY DEF Init
<1>7. HooksTaken /\ NotesTaken
  BY <1>6, Apart DEF HooksTaken, NotesTaken
<1>8. NoteTypes /\ SenderKnows /\ PassKnows
  BY NoPassKnows, NoSenderTyped, OutboundAssumption DEF Init, NoteTypes, Note, SenderKnows, PassKnows
<1> QED
  BY <1>1, <1>3, <1>4, <1>5, <1>7, <1>8 DEF OutboundInv, HookInv, NoteInv

(* Every step keeps the invariant and is a step of Outbox or a stutter.      *)
LEMMA EveryStep ==
  ASSUME OutboundInv, [Next]_vars
  PROVE  OutboundInv' /\ MapsTo
<1>1. CASE WebhookNext
  BY <1>1, SubscriptionSteps, ReadStep, QueueSteps, WithoutAttempt, AttemptStep, DelayStep,
     BeginStep, RecordStep, CircuitStep, SweepDiesStep DEF WebhookNext
<1>2. CASE NotifyNext
  BY <1>2, CalmSteps, InsertSteps, SenderMoves, MarkSteps, SendStep DEF NotifyNext
<1>3. CASE UNCHANGED vars
  <2>1. UNCHANGED <<deaths, subs, deliveries, firing, sweep, noteVars, history>>
    BY <1>3 DEF vars, hookVars
  <2>2. subs' \in [Subs -> SubRows]
    BY <2>1 DEF OutboundInv, HookInv, HookTypes
  <2> QED
    BY <2>1, <2>2, SubsMove
<1> QED
  BY <1>1, <1>2, <1>3 DEF Next

(* OutboundInv holds in every reachable state: what the sweeps and the       *)
(* passes know of the rows, and how often each message went out.             *)
THEOREM OutboundInductive == Spec => []OutboundInv
<1>1. OutboundInv /\ [Next]_vars => OutboundInv'
  BY EveryStep
<1> QED
  BY <1>1, InvInit, PTL DEF Spec

(* The sweeps and the enqueue passes repeat no message that was taken unless *)
(* a process died before its row said so (webhook-delivery.ts,               *)
(* notifications-send.ts).                                                   *)
THEOREM RepeatedOnlyByDeathAlways == Spec => []RepeatedOnlyByDeath
<1>1. OutboundInv => RepeatedOnlyByDeath
  BY DEF OutboundInv, HookInv, NoteInv, HooksTaken, NotesTaken, RepeatedOnlyByDeath, Messages
<1> QED
  BY <1>1, OutboundInductive, PTL

(* A subscription is switched off for max_retries only after MaxAttempts     *)
(* attempts of one event, none of them taken on record (webhook-delivery.ts).*)
THEOREM DisabledForCauseAlways == Spec => []DisabledForCause
<1>1. OutboundInv => DisabledForCause
  BY DEF OutboundInv, HookInv
<1> QED
  BY <1>1, OutboundInductive, PTL

(* The safety half of ImplementsOutbox: the rows begin as Outbox begins, and *)
(* each step of the API and of the sweeps is a step of Outbox or a stutter.  *)
THEOREM StepsOfOutbox == Spec => Abstract!Init /\ [][Abstract!Next]_(Abstract!vars)
<1>1. Init => Abstract!Init
  <2> SUFFICES ASSUME Init PROVE Abstract!Init
    OBVIOUS
  <2>1. \A m \in Hooks : RowState(m) = "absent"
    BY HookState DEF Init
  <2>2. \A n \in NoteKeys : RowState(n) = "absent"
    BY NoteState DEF Init
  <2>3. \A m \in Messages : RowState(m) = "absent"
    BY <2>1, <2>2 DEF Messages
  <2> QED
    BY <2>3 DEF Init, Abstract!Init
<1>2. OutboundInv /\ [Next]_vars => [Abstract!Next]_(Abstract!vars)
  BY EveryStep DEF MapsTo
<1> QED
  BY <1>1, <1>2, OutboundInductive, PTL DEF Spec

(***************************************************************************)
(* CloudImport: the import of a folder.                                    *)
(***************************************************************************)
(* The steps of a tick that work on its file. *)
Working == {"insert", "enqueue", "mark"}

ImportTyped ==
  /\ errors \in 0 .. MaxErrors /\ mishaps \in 0 .. MaxMishaps
  /\ import \in ImportRow /\ files \in [Hashes -> FileRow]
  /\ tick \in [pc : {"idle", "list", "seed", "select", "file", "finalize"} \cup Working,
               batch : SUBSET Hashes, file : {tick.file}]
  /\ Hashes # {} => tick.file \in Hashes
  /\ photos \in Seq(Hashes) /\ ingest \in [Hashes -> 0 .. Len(photos)]

(* The file a tick is at, and the ones it still has to take up, are pending; *)
(* a tick is at work only on an import that is not over.                    *)
TickKnows ==
  /\ tick.pc \in Working => tick.file \in With("pending") \ tick.batch
  /\ tick.pc \in {"file"} \cup Working => tick.batch \subseteq With("pending")
  /\ tick.pc \in {"list", "seed"} => import.status = "pending"
  /\ tick.pc \in {"select", "file", "finalize"} \cup Working => import.status = "running"
  /\ tick.pc \in {"enqueue", "mark"} => Len(photos) > 0 /\ photos[Len(photos)] = tick.file

(* An import that has begun has all its rows, one that is over its counters. *)
ImportKnows ==
  /\ import.status \in {"running", "completed"} => With("none") = {}
  /\ import.status = "completed" =>
       /\ With("pending") = {} /\ import.imported = Cardinality(With("imported"))
       /\ import.failed = Cardinality(With("failed"))

FilesKnow ==
  /\ \A h \in With("pending") \cup With("none") : files[h].attempts < MaxFileAttempts
  /\ \A h \in With("imported") : files[h].photo \in DOMAIN photos /\ photos[files[h].photo] = h

(* While nothing died or failed, every photo is the one of a file imported   *)
(* or of the file at work, and no other file has an ingest job.              *)
NoMishap == mishaps = 0 =>
  /\ \A p \in DOMAIN photos :
       \/ photos[p] \in With("imported") /\ files[photos[p]].photo = p
       \/ p = Len(photos) /\ photos[p] = tick.file /\ tick.pc \in {"enqueue", "mark"}
  /\ \A h \in Hashes :
       ingest[h] = IF h \in With("imported") THEN files[h].photo
                   ELSE IF h = tick.file /\ tick.pc = "mark" THEN Len(photos) ELSE 0

ImportInv == ImportTyped /\ TickKnows /\ ImportKnows /\ FilesKnow /\ NoMishap

(* No file is imported in the beginning, and nothing else is there. *)
LEMMA ImportInvInit == ImportInit => ImportInv
<1> SUFFICES ASSUME ImportInit PROVE ImportInv
  OBVIOUS
<1> USE CloudImportAssumption DEF ImportInit
<1>1. DOMAIN photos = {} /\ Len(photos) = 0 /\ photos \in Seq(Hashes)
  OBVIOUS
<1>2. ImportTyped
  <2>1. Hashes # {} => tick.file \in Hashes
    OBVIOUS
  <2>2. import \in ImportRow /\ files \in [Hashes -> FileRow]
    BY DEF ImportRow, FileRow
  <2>3. tick \in [pc : {"idle", "list", "seed", "select", "file", "finalize"} \cup Working,
                  batch : SUBSET Hashes, file : {tick.file}]
    OBVIOUS
  <2>4. ingest \in [Hashes -> 0 .. Len(photos)]
    BY <1>1
  <2>5. errors \in 0 .. MaxErrors /\ mishaps \in 0 .. MaxMishaps
    OBVIOUS
  <2> QED
    BY <1>1, <2>1, <2>2, <2>3, <2>4, <2>5, Zenon DEF ImportTyped
<1>3. TickKnows /\ ImportKnows
  BY DEF TickKnows, ImportKnows, Working
<1>4. FilesKnow
  BY DEF FilesKnow, With
<1>5. NoMishap
  BY <1>1 DEF NoMishap, With
<1> QED
  BY <1>2, <1>3, <1>4, <1>5 DEF ImportInv

(* Requests of the API leave the files and the tick alone. *)
LEMMA ImportRequests ==
  ASSUME ImportInv, CompleteConnection \/ DisableIntegration \/ TokenExpires \/ CreateCloudImport
  PROVE  ImportInv'
<1>1. /\ UNCHANGED <<errors, mishaps, files, photos, ingest, tick>>
      /\ \/ import' = import
         \/ import.status = "none" /\ import' = [import EXCEPT !.status = "pending"]
  BY DEF CompleteConnection, DisableIntegration, TokenExpires, CreateCloudImport
<1>2. \A s : With(s)' = With(s)
  BY <1>1 DEF With
<1>3. ImportTyped'
  BY <1>1 DEF ImportInv, ImportTyped, ImportRow
<1>4. TickKnows'
  BY <1>1, <1>2 DEF ImportInv, ImportTyped, TickKnows, ImportRow, Working
<1>5. ImportKnows'
  BY <1>1, <1>2 DEF ImportInv, ImportTyped, ImportRow, ImportKnows
<1>6. FilesKnow' /\ NoMishap'
  BY <1>1, <1>2 DEF ImportInv, FilesKnow, NoMishap
<1> QED
  BY <1>3, <1>4, <1>5, <1>6 DEF ImportInv

(* Steps of a tick that leave the files alone. *)
LEMMA FilesAlone ==
  ASSUME ImportInv, UNCHANGED <<files, photos, ingest>>,
         mishaps' \in mishaps .. MaxMishaps, errors' \in 0 .. MaxErrors,
         import' \in {import, [import EXCEPT !.status = "failed"]},
         NEW pc \in {"idle", "list", "seed", "select", "file", "finalize"}, NEW batch \in SUBSET Hashes,
         tick' = [tick EXCEPT !.pc = pc, !.batch = batch],
         pc = "file" => batch \subseteq With("pending"),
         pc \in {"list", "seed"} => import'.status = "pending",
         pc \in {"select", "file", "finalize"} => import'.status = "running",
         tick.pc \notin {"enqueue", "mark"} \/ mishaps' # 0
  PROVE  ImportInv'
<1>1. \A s : With(s)' = With(s)
  BY DEF With
<1>2. ImportTyped'
  <2>1. import' \in ImportRow /\ tick'.file = tick.file /\ tick'.pc = pc
    BY DEF ImportInv, ImportTyped, ImportRow
  <2>2. tick' \in [pc : {"idle", "list", "seed", "select", "file", "finalize"} \cup Working,
                   batch : SUBSET Hashes, file : {tick'.file}]
    BY <2>1 DEF ImportInv, ImportTyped
  <2> QED
    BY <2>1, <2>2, CloudImportAssumption DEF ImportInv, ImportTyped
<1>3. tick'.pc = pc /\ tick'.batch = batch /\ tick'.file = tick.file
  BY DEF ImportInv, ImportTyped
<1>4. TickKnows'
  BY <1>1, <1>3 DEF ImportInv, TickKnows, Working
<1>5. ImportKnows'
  BY <1>1 DEF ImportInv, ImportTyped, ImportRow, ImportKnows
<1>6. FilesKnow'
  BY <1>1 DEF ImportInv, FilesKnow
<1>7. NoMishap'
  BY <1>1, <1>3, CloudImportAssumption DEF ImportInv, ImportTyped, NoMishap
<1> QED
  BY <1>2, <1>4, <1>5, <1>6, <1>7 DEF ImportInv

(* The steps of a tick before and after it works on files. *)
LEMMA TickMoves ==
  ASSUME ImportInv, ResolveAdapter \/ ListFolder \/ SelectBatch \/ BatchEnds \/ TickDies
  PROVE  ImportInv'
<1>1. mishaps' \in mishaps .. MaxMishaps
  <2>1. mishaps' = mishaps \/ (mishaps < MaxMishaps /\ mishaps' = mishaps + 1)
    <3>1. CASE ResolveAdapter
      BY <3>1, Zenon DEF ResolveAdapter
    <3>2. CASE ListFolder
      BY <3>2 DEF ListFolder
    <3>3. CASE SelectBatch \/ BatchEnds
      BY <3>3 DEF SelectBatch, BatchEnds
    <3>4. CASE TickDies
      BY <3>4 DEF TickDies
    <3> QED
      BY <3>1, <3>2, <3>3, <3>4
  <2> QED
    BY <2>1, CloudImportAssumption DEF ImportInv, ImportTyped
<1>2. \A pc : [tick EXCEPT !.pc = pc] = [tick EXCEPT !.pc = pc, !.batch = tick.batch]
  BY DEF ImportInv, ImportTyped
<1>3. \A answer : Answered(answer) => errors' \in 0 .. MaxErrors
  BY CloudImportAssumption DEF Answered, ImportInv, ImportTyped
<1>4. CASE ResolveAdapter \/ ListFolder
  <2>1. PICK pc \in {"idle", "list", "seed", "select"} :
          /\ tick' = [tick EXCEPT !.pc = pc]
          /\ import' \in {import, [import EXCEPT !.status = "failed"]}
          /\ pc \in {"list", "seed"} => import'.status = "pending"
          /\ pc = "select" => import'.status = "running"
    BY <1>4 DEF ResolveAdapter, ListFolder, EndTick, Goes, TickKnows, Answers, ImportInv, ImportTyped, ImportRow
  <2>2. errors' \in 0 .. MaxErrors
    BY <1>3, <1>4 DEF ResolveAdapter, ListFolder, ImportInv, ImportTyped
  <2>3. UNCHANGED <<mishaps, files, photos, ingest>> /\ tick.pc \notin {"enqueue", "mark"}
    BY <1>4 DEF ResolveAdapter, ListFolder
  <2>4. tick.batch \in SUBSET Hashes
    BY DEF ImportInv, ImportTyped
  <2> QED
    BY <1>1, <1>2, <2>1, <2>2, <2>3, <2>4, FilesAlone
<1>5. CASE SelectBatch
  <2>1. PICK batch \in SUBSET With("pending") : tick' = [tick EXCEPT !.pc = "file", !.batch = batch]
    BY <1>5 DEF SelectBatch
  <2>2. batch \in SUBSET Hashes
    BY <2>1 DEF With
  <2>3. /\ import'.status = "running" /\ tick.pc = "select"
        /\ UNCHANGED <<errors, mishaps, import, files, photos, ingest>>
    BY <1>5 DEF SelectBatch, TickKnows, ImportInv
  <2>4. errors' \in 0 .. MaxErrors
    BY <2>3 DEF ImportInv, ImportTyped
  <2> QED
    BY <1>1, <2>1, <2>2, <2>3, <2>4, FilesAlone
<1>6. CASE BatchEnds
  <2>1. /\ import'.status = "running" /\ tick.pc = "file" /\ tick' = [tick EXCEPT !.pc = "finalize"]
        /\ UNCHANGED <<errors, mishaps, import, files, photos, ingest>>
    BY <1>6 DEF BatchEnds, TickKnows, ImportInv, Goes
  <2>2. errors' \in 0 .. MaxErrors /\ tick.batch \in SUBSET Hashes
    BY <2>1 DEF ImportInv, ImportTyped
  <2> QED
    BY <1>1, <1>2, <2>1, <2>2, FilesAlone
<1>7. CASE TickDies
  <2>1. /\ tick' = [tick EXCEPT !.pc = "idle"] /\ mishaps' = mishaps + 1
        /\ UNCHANGED <<errors, import, files, photos, ingest>>
    BY <1>7 DEF TickDies, Goes
  <2>2. errors' \in 0 .. MaxErrors /\ tick.batch \in SUBSET Hashes /\ mishaps' # 0
    BY <2>1, CloudImportAssumption DEF ImportInv, ImportTyped
  <2> QED
    BY <1>1, <1>2, <2>1, <2>2, FilesAlone
<1> QED
  BY <1>4, <1>5, <1>6, <1>7

(* Seeding inserts the rows that are not there, and none of them imported. *)
LEMMA SeedKeeps ==
  ASSUME ImportInv, NEW hs \in SUBSET Hashes, files' = Seeded(hs),
         UNCHANGED <<errors, photos, ingest>>, mishaps' \in mishaps .. MaxMishaps,
         tick.pc = "seed",
         \/ tick' = [tick EXCEPT !.pc = "idle"] /\ UNCHANGED import
         \/ /\ tick' = [tick EXCEPT !.pc = "select"] /\ hs = Hashes
            /\ import' = [import EXCEPT !.status = "running"]
  PROVE  ImportInv'
<1>1. \A h \in Hashes : /\ files'[h] \in FileRow /\ files'[h].attempts = files[h].attempts
                        /\ files'[h].photo = files[h].photo
                        /\ files[h].status # "none" => files'[h] = files[h]
                        /\ files'[h].status = "imported" <=> files[h].status = "imported"
                        /\ files'[h].status \in {"pending", "none"} =>
                             files[h].status \in {"pending", "none"}
                        /\ h \in hs => files'[h].status # "none"
  BY DEF ImportInv, ImportTyped, Seeded, FileRow
<1>2. files' \in [Hashes -> FileRow]
  BY <1>1 DEF Seeded
<1>3. /\ tick'.pc \in {"idle", "select"} /\ tick'.batch = tick.batch /\ tick'.file = tick.file
      /\ import' \in ImportRow /\ import'.status \in {"pending", "running"}
      /\ tick'.pc = "select" <=> import'.status = "running"
      /\ import'.status = "running" => hs = Hashes
  BY DEF ImportInv, ImportTyped, TickKnows, ImportRow
<1>4. ImportTyped'
  <2>1. tick' \in [pc : {"idle", "list", "seed", "select", "file", "finalize"} \cup Working,
                   batch : SUBSET Hashes, file : {tick'.file}]
    BY <1>3 DEF ImportInv, ImportTyped
  <2> QED
    BY <1>2, <1>3, <2>1, CloudImportAssumption DEF ImportInv, ImportTyped
<1>5. TickKnows'
  BY <1>3 DEF TickKnows, Working
<1>6. ImportKnows'
  BY <1>1, <1>3 DEF ImportKnows, With
<1>7. With("imported")' = With("imported")
  BY <1>1 DEF With
<1>8. \A h \in (With("pending") \cup With("none"))' : h \in With("pending") \cup With("none")
  BY <1>1 DEF With
<1>9. FilesKnow'
  BY <1>1, <1>7, <1>8 DEF ImportInv, FilesKnow, With
<1>10. NoMishap'
  <2>1. mishaps' = 0 => mishaps = 0
    BY CloudImportAssumption DEF ImportInv, ImportTyped
  <2>2. \A h \in With("imported") : h \in Hashes /\ files'[h].photo = files[h].photo
    BY <1>1 DEF With
  <2> QED
    BY <1>3, <1>7, <2>1, <2>2 DEF ImportInv, NoMishap
<1> QED
  BY <1>4, <1>5, <1>6, <1>9, <1>10 DEF ImportInv

LEMMA SeedSteps == ASSUME ImportInv, SeedFiles \/ SeedSome PROVE ImportInv'
<1>1. CASE SeedFiles
  <2>1. /\ UNCHANGED <<errors, mishaps, photos, ingest>> /\ files' = Seeded(Hashes)
        /\ tick.pc = "seed" /\ tick' = [tick EXCEPT !.pc = "select"]
        /\ import' = [import EXCEPT !.status = "running"]
    BY <1>1 DEF SeedFiles, Goes
  <2>2. mishaps' \in mishaps .. MaxMishaps
    BY <2>1 DEF ImportInv, ImportTyped
  <2> QED
    BY <2>1, <2>2, SeedKeeps
<1>2. CASE SeedSome
  <2>1. PICK hs \in SUBSET Hashes : files' = Seeded(hs)
    BY <1>2 DEF SeedSome
  <2>2. /\ UNCHANGED <<errors, import, photos, ingest>>
        /\ mishaps < MaxMishaps /\ mishaps' = mishaps + 1
        /\ tick.pc = "seed" /\ tick' = [tick EXCEPT !.pc = "idle"]
    BY <1>2 DEF SeedSome, Goes
  <2>3. mishaps' \in mishaps .. MaxMishaps
    BY <2>2, CloudImportAssumption DEF ImportInv, ImportTyped
  <2> QED
    BY <2>1, <2>2, <2>3, SeedKeeps
<1> QED
  BY <1>1, <1>2

(* A file at work changes its row, or the photos and jobs gain what is its. *)
LEMMA FileMoves ==
  ASSUME ImportInv, NEW h \in With("pending"), NEW row \in FileRow,
         files' = [files EXCEPT ![h] = row], UNCHANGED <<import, photos, ingest>>,
         row.status = "pending" => row.attempts < MaxFileAttempts,
         row.status \in {"pending", "failed"}, import.status = "running",
         errors' \in 0 .. MaxErrors, mishaps' \in mishaps .. MaxMishaps,
         tick.pc = "file" \/ mishaps' # 0,
         tick' = [pc |-> "file", batch |-> tick'.batch, file |-> h],
         tick'.batch \subseteq With("pending") \ {h}
  PROVE  ImportInv'
<1>1. /\ With("imported")' = With("imported") /\ With("none")' = With("none")
      /\ With("pending") \ {h} \subseteq With("pending")' /\ With("pending")' \subseteq With("pending")
      /\ h \in Hashes /\ files'[h] = row /\ \A g \in Hashes \ {h} : files'[g] = files[g]
  BY DEF ImportInv, ImportTyped, With, FileRow
<1>2. ImportTyped'
  <2>1. files' \in [Hashes -> FileRow]
    BY DEF ImportInv, ImportTyped
  <2>2. tick' \in [pc : {"idle", "list", "seed", "select", "file", "finalize"} \cup Working,
                   batch : SUBSET Hashes, file : {tick'.file}] /\ tick'.file = h
    BY DEF With
  <2> QED
    BY <1>1, <2>1, <2>2, CloudImportAssumption DEF ImportInv, ImportTyped
<1>3. TickKnows'
  BY <1>1 DEF TickKnows, Working
<1>4. ImportKnows'
  BY <1>1 DEF ImportInv, ImportKnows
<1>5. \A g \in With("imported") : g # h
  BY DEF With
<1>6. FilesKnow'
  BY <1>1, <1>5 DEF ImportInv, FilesKnow, With
<1>7. NoMishap'
  <2>1. mishaps' = 0 => mishaps = 0 /\ tick.pc = "file"
    BY CloudImportAssumption DEF ImportInv, ImportTyped
  <2>2. \A g \in With("imported") : g \in Hashes /\ files'[g].photo = files[g].photo
    BY <1>1, <1>5 DEF With
  <2>3. tick'.pc = "file"
    OBVIOUS
  <2> QED
    BY <1>1, <2>1, <2>2, <2>3 DEF ImportInv, NoMishap
<1> QED
  BY <1>2, <1>3, <1>4, <1>6, <1>7 DEF ImportInv

(* A failed attempt at a pending file ends in one more, or in none. *)
LEMMA AttemptedRow ==
  ASSUME ImportInv, NEW h \in With("pending"), NEW retryable \in BOOLEAN
  PROVE  LET row == Attempted(h, retryable)[h]
         IN  /\ row \in FileRow /\ row.status \in {"pending", "failed"}
             /\ row.status = "pending" => row.attempts < MaxFileAttempts /\ retryable
             /\ Attempted(h, retryable) = [files EXCEPT ![h] = row]
<1> DEFINE row == Attempted(h, retryable)[h]
           attempts == files[h].attempts + 1
           status == IF retryable /\ attempts < MaxFileAttempts THEN files[h].status ELSE "failed"
<1>1. /\ h \in Hashes /\ files[h] \in FileRow /\ files[h].status = "pending"
      /\ files \in [Hashes -> FileRow] /\ files[h].attempts < MaxFileAttempts
  BY DEF ImportInv, ImportTyped, FilesKnow, With
<1>2. attempts \in 0 .. MaxFileAttempts
  BY <1>1, CloudImportAssumption DEF FileRow
<1>3. status \in {"pending", "failed"} /\ (status = "pending" => attempts < MaxFileAttempts /\ retryable)
  BY <1>1
<1>4. Attempted(h, retryable) = [files EXCEPT ![h] = [files[h] EXCEPT !.attempts = attempts, !.status = status]]
  BY <1>1 DEF Attempted, FileRow
<1> HIDE DEF attempts, status
<1>5. row = [files[h] EXCEPT !.attempts = attempts, !.status = status]
  BY <1>1, <1>4
<1>6. row \in FileRow /\ row.status = status /\ row.attempts = attempts
  BY <1>1, <1>2, <1>3, <1>5 DEF FileRow
<1>7. Attempted(h, retryable) = [files EXCEPT ![h] = row]
  BY <1>4, <1>5
<1> QED
  BY <1>3, <1>6, <1>7

LEMMA DownloadKeeps == ASSUME ImportInv, Download PROVE ImportInv'
<1>1. PICK h \in tick.batch, answer \in Answers :
        /\ Answered(answer)
        /\ files' = IF answer \in {"ok", "rate_limited"} THEN files
                    ELSE Attempted(h, answer \in Retryable)
        /\ tick' = [pc |-> CASE answer = "ok" -> "insert" [] answer = "rate_limited" -> "finalize"
                             [] OTHER -> "file",
                    batch |-> tick.batch \ {h}, file |-> h]
  BY DEF Download
<1>2. /\ tick.pc = "file" /\ UNCHANGED <<mishaps, import, photos, ingest>>
      /\ import.status = "running" /\ h \in With("pending") /\ h \in Hashes
      /\ tick.batch \ {h} \subseteq With("pending") \ {h}
  BY DEF Download, ImportInv, TickKnows, With
<1>3. errors' \in 0 .. MaxErrors /\ mishaps' \in mishaps .. MaxMishaps
  BY <1>1, <1>2, CloudImportAssumption DEF Answered, ImportInv, ImportTyped
<1>4. CASE answer \in {"ok", "rate_limited"}
  <2>1. /\ files' = files /\ \A s : With(s)' = With(s)
        /\ tick'.pc \in {"insert", "finalize"} /\ tick'.batch = tick.batch \ {h} /\ tick'.file = h
        /\ tick' = [pc |-> tick'.pc, batch |-> tick'.batch, file |-> h]
    BY <1>1, <1>4 DEF With
  <2>2. ImportTyped'
    <3>1. tick' \in [pc : {"idle", "list", "seed", "select", "file", "finalize"} \cup Working,
                     batch : SUBSET Hashes, file : {tick'.file}]
      BY <1>2, <2>1 DEF With, Working
    <3> QED
      BY <1>2, <1>3, <2>1, <3>1, CloudImportAssumption DEF ImportInv, ImportTyped
  <2>3. TickKnows'
    BY <1>2, <2>1 DEF TickKnows, Working
  <2>4. ImportKnows' /\ FilesKnow'
    BY <1>2, <2>1 DEF ImportInv, ImportKnows, FilesKnow
  <2>5. NoMishap'
    BY <1>2, <2>1 DEF ImportInv, NoMishap
  <2> QED
    BY <2>2, <2>3, <2>4, <2>5 DEF ImportInv
<1>5. CASE answer \notin {"ok", "rate_limited"}
  <2> DEFINE row == Attempted(h, answer \in Retryable)[h]
  <2>1. /\ row \in FileRow /\ row.status \in {"pending", "failed"}
        /\ row.status = "pending" => row.attempts < MaxFileAttempts
        /\ files' = [files EXCEPT ![h] = row]
    <3>1. (answer \in Retryable) \in BOOLEAN
      OBVIOUS
    <3> QED
      BY <1>1, <1>2, <1>5, <3>1, AttemptedRow
  <2>2. tick' = [pc |-> "file", batch |-> tick'.batch, file |-> h] /\ tick'.batch \subseteq With("pending") \ {h}
    BY <1>1, <1>2, <1>5
  <2> HIDE DEF row
  <2> QED
    BY <1>2, <1>3, <2>1, <2>2, FileMoves
<1> QED
  BY <1>4, <1>5

LEMMA ThrowKeeps == ASSUME ImportInv, FileThrows PROVE ImportInv'
<1> DEFINE h == tick.file
           row == Attempted(h, FALSE)[h]
<1>1. /\ tick.pc \in Working /\ tick' = [tick EXCEPT !.pc = "file"]
      /\ mishaps < MaxMishaps /\ mishaps' = mishaps + 1 /\ files' = Attempted(h, FALSE)
      /\ UNCHANGED <<errors, import, photos, ingest>>
  BY DEF FileThrows, Goes, Working
<1>2. /\ h \in With("pending") /\ h \in Hashes /\ import.status = "running"
      /\ tick.batch \subseteq With("pending") \ {h}
  BY <1>1 DEF ImportInv, TickKnows, With
<1>3. /\ row \in FileRow /\ row.status = "failed" /\ files' = [files EXCEPT ![h] = row]
  BY <1>1, <1>2, AttemptedRow
<1>4. /\ tick' = [pc |-> "file", batch |-> tick'.batch, file |-> h]
      /\ tick'.batch \subseteq With("pending") \ {h}
  BY <1>1, <1>2 DEF ImportInv, ImportTyped
<1>5. errors' \in 0 .. MaxErrors /\ mishaps' \in mishaps .. MaxMishaps /\ mishaps' # 0
  BY <1>1, CloudImportAssumption DEF ImportInv, ImportTyped
<1> HIDE DEF row
<1> QED
  BY <1>1, <1>2, <1>3, <1>4, <1>5, FileMoves

(* The photo inserted is the last one, and the file's. *)
LEMMA InsertPhotoKeeps == ASSUME ImportInv, InsertPhotoRow PROVE ImportInv'
<1>1. /\ tick.pc = "insert" /\ tick' = [tick EXCEPT !.pc = "enqueue"]
      /\ photos' = Append(photos, tick.file)
      /\ UNCHANGED <<errors, mishaps, import, files, ingest>>
  BY DEF InsertPhotoRow, Goes
<1>2. /\ tick.file \in With("pending") \ tick.batch /\ tick.file \in Hashes
      /\ tick.batch \subseteq With("pending") /\ import.status = "running"
      /\ tick'.pc = "enqueue" /\ tick'.file = tick.file /\ tick'.batch = tick.batch
  BY <1>1 DEF ImportInv, ImportTyped, TickKnows, Working, With
<1>3. /\ photos \in Seq(Hashes) /\ Len(photos) \in Nat /\ DOMAIN photos = 1 .. Len(photos)
      /\ photos' \in Seq(Hashes) /\ Len(photos') = Len(photos) + 1
      /\ DOMAIN photos' = DOMAIN photos \cup {Len(photos')}
      /\ photos'[Len(photos')] = tick.file /\ \A p \in DOMAIN photos : photos'[p] = photos[p]
  BY <1>1, <1>2 DEF ImportInv, ImportTyped
<1>4. \A s : With(s)' = With(s)
  BY <1>1 DEF With
<1>5. ImportTyped'
  <2>1. tick' \in [pc : {"idle", "list", "seed", "select", "file", "finalize"} \cup Working,
                   batch : SUBSET Hashes, file : {tick'.file}]
    BY <1>1 DEF ImportInv, ImportTyped, Working
  <2>2. ingest' \in [Hashes -> 0 .. Len(photos')]
    BY <1>1, <1>3 DEF ImportInv, ImportTyped
  <2> QED
    BY <1>1, <1>2, <1>3, <2>1, <2>2 DEF ImportInv, ImportTyped
<1>6. TickKnows'
  BY <1>1, <1>2, <1>3, <1>4 DEF TickKnows, Working
<1>7. ImportKnows' /\ FilesKnow'
  BY <1>1, <1>3, <1>4 DEF ImportInv, ImportKnows, FilesKnow
<1>8. NoMishap'
  BY <1>1, <1>2, <1>3, <1>4 DEF ImportInv, NoMishap
<1> QED
  BY <1>5, <1>6, <1>7, <1>8 DEF ImportInv

(* While nothing died, the file at work had no job, and gets the last photo. *)
LEMMA IngestKeeps == ASSUME ImportInv, AddIngestJob PROVE ImportInv'
<1>1. /\ tick.pc = "enqueue" /\ tick' = [tick EXCEPT !.pc = "mark"]
      /\ ingest' = [ingest EXCEPT ![tick.file] = IF @ = 0 THEN Len(photos) ELSE @]
      /\ UNCHANGED <<errors, mishaps, import, files, photos>>
  BY DEF AddIngestJob, Goes
<1>2. /\ tick.file \in With("pending") \ tick.batch /\ tick.file \in Hashes
      /\ tick.file \notin With("imported")
      /\ tick.batch \subseteq With("pending") /\ import.status = "running"
      /\ tick'.pc = "mark" /\ tick'.file = tick.file /\ tick'.batch = tick.batch
      /\ Len(photos) > 0 /\ photos[Len(photos)] = tick.file
  BY <1>1 DEF ImportInv, ImportTyped, TickKnows, Working, With
<1>3. Len(photos) \in Nat
  BY DEF ImportInv, ImportTyped
<1>4. \A s : With(s)' = With(s)
  BY <1>1 DEF With
<1>5. ImportTyped'
  <2>1. tick' \in [pc : {"idle", "list", "seed", "select", "file", "finalize"} \cup Working,
                   batch : SUBSET Hashes, file : {tick'.file}]
    BY <1>1 DEF ImportInv, ImportTyped, Working
  <2>2. ingest' \in [Hashes -> 0 .. Len(photos')]
    BY <1>1, <1>2, <1>3 DEF ImportInv, ImportTyped
  <2> QED
    BY <1>1, <1>2, <1>3, <2>1, <2>2 DEF ImportInv, ImportTyped
<1>6. TickKnows'
  BY <1>1, <1>2, <1>4 DEF TickKnows, Working
<1>7. ImportKnows' /\ FilesKnow'
  BY <1>1, <1>4 DEF ImportInv, ImportKnows, FilesKnow
<1>8. NoMishap'
  BY <1>1, <1>2, <1>3, <1>4 DEF ImportInv, ImportTyped, NoMishap
<1> QED
  BY <1>5, <1>6, <1>7, <1>8 DEF ImportInv

(* The file marked is the one of the last photo. *)
LEMMA MarkKeeps == ASSUME ImportInv, MarkImported PROVE ImportInv'
<1> DEFINE h == tick.file
<1>1. /\ tick.pc = "mark" /\ tick' = [tick EXCEPT !.pc = "file"]
      /\ files' = [files EXCEPT ![h] = [@ EXCEPT !.status = "imported", !.photo = Len(photos)]]
      /\ UNCHANGED <<errors, mishaps, import, photos, ingest>>
  BY DEF MarkImported, Goes
<1>2. /\ h \in With("pending") \ tick.batch /\ h \in Hashes /\ h \notin With("imported")
      /\ tick.batch \subseteq With("pending") /\ import.status = "running"
      /\ tick'.pc = "file" /\ tick'.file = h /\ tick'.batch = tick.batch
      /\ Len(photos) > 0 /\ photos[Len(photos)] = h
  BY <1>1 DEF ImportInv, ImportTyped, TickKnows, Working, With
<1>3. Len(photos) \in Nat /\ DOMAIN photos = 1 .. Len(photos)
  BY DEF ImportInv, ImportTyped
<1>4. /\ files' \in [Hashes -> FileRow] /\ files'[h].status = "imported" /\ files'[h].photo = Len(photos)
      /\ \A g \in Hashes \ {h} : files'[g] = files[g]
  BY <1>1, <1>2, <1>3 DEF ImportInv, ImportTyped, FileRow
<1>5. /\ With("imported")' = With("imported") \cup {h} /\ With("pending")' = With("pending") \ {h}
      /\ With("none")' = With("none")
  BY <1>2, <1>4 DEF With
<1>6. ImportTyped'
  <2>1. tick' \in [pc : {"idle", "list", "seed", "select", "file", "finalize"} \cup Working,
                   batch : SUBSET Hashes, file : {tick'.file}]
    BY <1>1 DEF ImportInv, ImportTyped, Working
  <2> QED
    BY <1>1, <1>2, <1>4, <2>1 DEF ImportInv, ImportTyped
<1>7. TickKnows'
  BY <1>1, <1>2, <1>5 DEF TickKnows, Working
<1>8. ImportKnows'
  BY <1>1, <1>2, <1>5 DEF ImportInv, ImportKnows
<1>9. \A g \in With("imported") \cup With("pending") \cup With("none") : g \in Hashes
  BY DEF With
<1>10. FilesKnow'
  BY <1>1, <1>2, <1>3, <1>4, <1>5, <1>9 DEF ImportInv, FilesKnow
<1>11. NoMishap'
  BY <1>1, <1>2, <1>3, <1>4, <1>5, <1>9 DEF ImportInv, NoMishap
<1> QED
  BY <1>6, <1>7, <1>8, <1>10, <1>11 DEF ImportInv

(* The counters written are the rows'. *)
LEMMA FinalizeKeeps == ASSUME ImportInv, Finalize PROVE ImportInv'
<1>1. /\ tick.pc = "finalize" /\ tick' = [tick EXCEPT !.pc = "idle"]
      /\ import' = [import EXCEPT
           !.imported = Cardinality(With("imported")), !.failed = Cardinality(With("failed")),
           !.status = IF With("pending") = {} THEN "completed" ELSE @]
      /\ UNCHANGED <<errors, mishaps, files, photos, ingest>>
  BY DEF Finalize, Goes
<1>2. \A s : With(s) \subseteq Hashes /\ IsFiniteSet(With(s)) /\ Cardinality(With(s)) \in Nat
  <2>1. \A s : With(s) \subseteq Hashes
    BY DEF With
  <2> QED
    BY <2>1, FS_Subset, FS_CardinalityType, CloudImportAssumption
<1>3. \A s : With(s)' = With(s)
  BY <1>1 DEF With
<1>4. tick'.pc = "idle" /\ tick'.file = tick.file /\ import.status = "running"
  BY <1>1 DEF ImportInv, ImportTyped, TickKnows
<1>5. /\ import' \in ImportRow
      /\ import'.imported = Cardinality(With("imported")) /\ import'.failed = Cardinality(With("failed"))
      /\ import'.status = IF With("pending") = {} THEN "completed" ELSE "running"
  BY <1>1, <1>2, <1>4 DEF ImportInv, ImportTyped, ImportRow
<1>6. ImportTyped'
  <2>1. tick' \in [pc : {"idle", "list", "seed", "select", "file", "finalize"} \cup Working,
                   batch : SUBSET Hashes, file : {tick'.file}]
    BY <1>1 DEF ImportInv, ImportTyped, Working
  <2> QED
    BY <1>1, <1>4, <1>5, <2>1 DEF ImportInv, ImportTyped
<1>7. TickKnows'
  BY <1>4 DEF TickKnows, Working
<1>8. ImportKnows'
  BY <1>3, <1>4, <1>5 DEF ImportInv, ImportKnows
<1>9. FilesKnow' /\ NoMishap'
  BY <1>1, <1>3, <1>4 DEF ImportInv, FilesKnow, NoMishap
<1> QED
  BY <1>6, <1>7, <1>8, <1>9 DEF ImportInv

(* ImportInv is an inductive invariant of the import. *)
THEOREM ImportInductive == ImportSpec => []ImportInv
<1>1. ImportInv /\ [ImportNext]_importVars => ImportInv'
  <2> SUFFICES ASSUME ImportInv, [ImportNext]_importVars PROVE ImportInv'
    OBVIOUS
  <2>1. CASE CompleteConnection \/ DisableIntegration \/ TokenExpires \/ CreateCloudImport
    BY <2>1, ImportRequests
  <2>2. CASE ResolveAdapter \/ ListFolder \/ SelectBatch \/ BatchEnds \/ TickDies
    BY <2>2, TickMoves
  <2>3. CASE SeedFiles \/ SeedSome
    BY <2>3, SeedSteps
  <2>4. CASE Download
    BY <2>4, DownloadKeeps
  <2>5. CASE FileThrows
    BY <2>5, ThrowKeeps
  <2>6. CASE InsertPhotoRow
    BY <2>6, InsertPhotoKeeps
  <2>7. CASE AddIngestJob
    BY <2>7, IngestKeeps
  <2>8. CASE MarkImported
    BY <2>8, MarkKeeps
  <2>9. CASE Finalize
    BY <2>9, FinalizeKeeps
  <2>10. CASE UNCHANGED importVars
    BY <2>10
    DEF importVars, ImportInv, ImportTyped, TickKnows, ImportKnows, FilesKnow, NoMishap, With
  <2> QED
    BY <2>1, <2>2, <2>3, <2>4, <2>5, <2>6, <2>7, <2>8, <2>9, <2>10 DEF ImportNext, TickNext
<1> QED
  BY <1>1, ImportInvInit, PTL DEF ImportSpec

(* The credentials have their type: the one action that computes a part of it *)
(* is the refresh.                                                            *)
LEMMA TokensTyped == ImportSpec => []TokenTyped
<1>1. ImportInit => TokenTyped
  BY Zenon DEF ImportInit, TokenTyped
<1>2. TokenTyped /\ [ImportNext]_importVars => TokenTyped'
  <2> SUFFICES ASSUME TokenTyped, [ImportNext]_importVars PROVE TokenTyped'
    OBVIOUS
  <2>1. CASE CompleteConnection
    BY <2>1, Zenon DEF CompleteConnection, TokenTyped
  <2>2. CASE DisableIntegration
    BY <2>2, Zenon DEF DisableIntegration, TokenTyped
  <2>3. CASE TokenExpires
    BY <2>3, Zenon DEF TokenExpires, TokenTyped
  <2>4. CASE ResolveAdapter
    <3>1. oauth' = oauth /\ connected' = connected
      BY <2>4, Zenon DEF ResolveAdapter
    <3>2. expired' = expired \/ \E answer : expired' = (expired /\ answer # "ok")
      BY <2>4, Zenon DEF ResolveAdapter
    <3> QED
      BY <3>1, <3>2, Zenon DEF TokenTyped
  <2>5. CASE UNCHANGED tokenVars
    BY <2>5, Zenon DEF tokenVars, TokenTyped
  <2>6. CASE CreateCloudImport \/ ListFolder \/ SeedFiles \/ SelectBatch \/ Download \/ BatchEnds
    BY <2>5, <2>6
    DEF CreateCloudImport, ListFolder, SeedFiles, SelectBatch, Download, BatchEnds
  <2>7. CASE \/ InsertPhotoRow \/ AddIngestJob \/ MarkImported \/ Finalize
             \/ SeedSome \/ FileThrows \/ TickDies
    BY <2>5, <2>7
    DEF InsertPhotoRow, AddIngestJob, MarkImported, Finalize, SeedSome, FileThrows, TickDies
  <2>8. CASE UNCHANGED importVars
    BY <2>5, <2>8 DEF importVars, tokenVars
  <2> QED
    BY <2>1, <2>2, <2>3, <2>4, <2>6, <2>7, <2>8 DEF ImportNext, TickNext
<1> QED
  BY <1>1, <1>2, PTL DEF ImportSpec

(* For a folder with a file in it, every row is a row of the schema. *)
THEOREM ImportTypeCorrect == Hashes # {} => (ImportSpec => []ImportTypeOK)
<1> SUFFICES ASSUME Hashes # {} PROVE ImportSpec => []ImportTypeOK
  OBVIOUS
<1>1. ImportInv /\ TokenTyped => ImportTypeOK
  BY DEF ImportInv, ImportTyped, ImportTypeOK, Tick, Working
<1> QED
  BY <1>1, ImportInductive, TokensTyped, PTL

(* A completed import is accounted for, whatever the provider answered and   *)
(* wherever the worker died: its counters add up to the files, each imported *)
(* file has a photo of its own content, and without a death or a failed      *)
(* statement just one, the one its ingest job is for.                        *)
THEOREM ImportExactAlways == ImportSpec => []ImportExact
<1>1. ImportInv => ImportExact
  <2> SUFFICES ASSUME ImportInv, import.status = "completed"
               PROVE  /\ With("pending") = {} /\ import.imported + import.failed = Cardinality(Hashes)
                      /\ \A h \in With("imported") :
                           /\ photos[files[h].photo] = h
                           /\ mishaps = 0 =>
                                /\ ingest[h] = files[h].photo
                                /\ \A p \in DOMAIN photos : photos[p] = h => p = files[h].photo
    BY DEF ImportExact
  <2>1. /\ With("none") = {} /\ With("pending") = {} /\ import.imported = Cardinality(With("imported"))
        /\ import.failed = Cardinality(With("failed"))
    BY DEF ImportInv, ImportKnows
  <2>2. Hashes = With("imported") \cup With("failed") /\ With("imported") \cap With("failed") = {}
    BY <2>1 DEF ImportInv, ImportTyped, FileRow, With
  <2>3. IsFiniteSet(With("imported")) /\ IsFiniteSet(With("failed"))
    BY <2>2, FS_Subset, CloudImportAssumption
  <2> DEFINE I == With("imported")
             F == With("failed")
  <2> HIDE DEF I, F
  <2>4. Cardinality(I \cup F) = Cardinality(I) + Cardinality(F) - Cardinality(I \cap F)
    BY <2>3, FS_Union DEF I, F
  <2>7. Cardinality(Hashes) = Cardinality(I) + Cardinality(F)
    <3>1. I \cup F = Hashes /\ I \cap F = {}
      BY <2>2 DEF I, F
    <3>2. Cardinality(I) \in Nat /\ Cardinality(F) \in Nat /\ Cardinality({}) = 0
      BY <2>3, FS_EmptySet, FS_CardinalityType DEF I, F
    <3>3. Cardinality(Hashes) = Cardinality(I \cup F) /\ Cardinality(I \cap F) = 0
      BY <3>1, <3>2, Zenon
    <3> QED
      BY <2>4, <3>2, <3>3
  <2>5. tick.pc \notin Working
    BY DEF ImportInv, TickKnows
  <2>6. ASSUME NEW h \in With("imported")
        PROVE  /\ photos[files[h].photo] = h
               /\ mishaps = 0 =>
                    /\ ingest[h] = files[h].photo
                    /\ \A p \in DOMAIN photos : photos[p] = h => p = files[h].photo
    BY <2>5, <2>6 DEF ImportInv, FilesKnow, NoMishap, With, Working
  <2> QED
    BY <2>1, <2>6, <2>7 DEF I, F
<1> QED
  BY <1>1, ImportInductive, PTL
==============================================================================
