------------------------------- MODULE Timing -------------------------------
(***************************************************************************)
(* The field of one event and its finishes: an organiser binds a race of a *)
(* timing provider (services/timing.ts) and imports rosters as CSV         *)
(* (services/roster-import.ts, lib/roster-csv.ts), and the worker's sweep  *)
(* (jobs/timing-sync.ts) pulls roster and finishes and stamps the binding. *)
(* The provider publishes a crossing when it is recorded or later; a pull  *)
(* or a statement fails, and either process dies, at any step.             *)
(***************************************************************************)
EXTENDS Integers, FiniteSets, Sequences

CONSTANTS
  Bibs,      \* bib numbers
  RaceIds,   \* external event ids at the provider
  Clerks,    \* calls that commit a previewed roster
  MaxTime    \* bound of the clock

ASSUME TimingAssumption == RaceIds # {} /\ Bibs # {} /\ MaxTime \in Nat \ {0}

VARIABLES
  time,       \* the clock
  crossed,    \* the provider: when a bib crossed the line of a race, 0 for not yet
  published,  \* the provider: the crossings its API shows
  binding,    \* the event_timing_bindings row
  sync,       \* where runTimingSync stands with it
  people,     \* participants rows by bib: none, one without an email, one with
  finishes,   \* finish_events rows by bib; the unique index knows no race
  roster,     \* a roster_imports row
  commits,    \* calls of commitRoster
  excused     \* history: crossings the sweep may skip, see Skippable

timingVars ==
  <<time, crossed, published, binding, sync, people, finishes, roster, commits, excused>>

Entries == [Bibs -> {"none", "plain", "email"}]
\* One binding: the index would allow one per provider, each with its own finishes.
\* last_error and sync_requested_at are written for people to read: no code reads them.
Binding == [bound : BOOLEAN, race : RaceIds, since : 0 .. MaxTime]
NoFinish == <<>>
Finish == {NoFinish} \cup (RaceIds \X (1 .. MaxTime))
Sync == [pc : {"idle", "roster", "people", "finishes", "results"},
         race : RaceIds, since : 0 .. MaxTime, entries : Entries, todo : SUBSET Bibs]
\* The counts of the report are left out.
RosterRow == [status : {"none", "previewed", "imported"}, rows : Entries]
Commit == [pc : {"idle", "insert"}, todo : SUBSET Bibs]

Listed(entries) == {b \in Bibs : entries[b] # "none"}
Nobody == [b \in Bibs |-> "none"]
AnyRace == CHOOSE r \in RaceIds : TRUE
Idle == [pc |-> "idle", race |-> AnyRace, since |-> 0, entries |-> Nobody, todo |-> {}]

------------------------------------------------------------------------------

TimePasses ==
  /\ time < MaxTime /\ time' = time + 1
  /\ UNCHANGED <<crossed, published, binding, sync, people, finishes, roster, commits, excused>>

Cross(r, b) ==
  /\ crossed[r][b] = 0 /\ crossed' = [crossed EXCEPT ![r][b] = time]
  /\ UNCHANGED <<time, published, binding, sync, people, finishes, roster, commits, excused>>

\* What the sweep can skip: a crossing shown after the stamp passed its time, or
\* while a sweep is past its pull or works on another race.
Skippable(r, b) ==
  \/ crossed[r][b] < binding.since
  \/ sync.pc # "idle" /\ (sync.race # r \/ sync.pc = "results")

Publish(r, b) ==
  /\ crossed[r][b] > 0 /\ <<r, b>> \notin published /\ published' = published \cup {<<r, b>>}
  /\ excused' = IF Skippable(r, b) THEN excused \cup {<<r, b>>} ELSE excused
  /\ UNCHANGED <<time, crossed, binding, sync, people, finishes, roster, commits>>

\* The upsert replaces the race and keeps last_synced_at: what the new race
\* recorded before that is skipped, and during a sweep what it records until the stamp.
BindTimingProvider(r) ==
  /\ binding' = [binding EXCEPT !.bound = TRUE, !.race = r]
  /\ excused' = IF r = binding.race THEN excused
                ELSE excused \cup {c \in published : c[1] = r /\ (sync.pc # "idle" \/ Skippable(r, c[2]))}
  /\ UNCHANGED <<time, crossed, published, sync, people, finishes, roster, commits>>

------------------------------------------------------------------------------

\* The row is read once; a rebind is not seen until the next sweep.
StartSync ==
  /\ sync.pc = "idle" /\ binding.bound
  /\ sync' = [sync EXCEPT !.pc = "roster", !.race = binding.race, !.since = binding.since]
  /\ UNCHANGED <<time, crossed, published, binding, people, finishes, roster, commits, excused>>

PullRoster ==
  /\ sync.pc = "roster"
  /\ \E es \in Entries : sync' = [sync EXCEPT !.pc = "people", !.entries = es]
  /\ UNCHANGED <<time, crossed, published, binding, people, finishes, roster, commits, excused>>

\* The provider's name replaces the row's; its email only when it has one.
UpsertParticipant(b) ==
  /\ sync.pc = "people" /\ b \in Listed(sync.entries)
  /\ people' = [people EXCEPT ![b] = IF sync.entries[b] = "email" THEN "email"
                                     ELSE IF @ = "none" THEN "plain" ELSE @]
  /\ sync' = [sync EXCEPT !.entries[b] = "none"]
  /\ UNCHANGED <<time, crossed, published, binding, finishes, roster, commits, excused>>

RosterDone ==
  /\ sync.pc = "people" /\ sync.entries = Nobody
  /\ sync' = [sync EXCEPT !.pc = "finishes"]
  /\ UNCHANGED <<time, crossed, published, binding, people, finishes, roster, commits, excused>>

PullFinishEvents ==
  /\ sync.pc = "finishes"
  /\ sync' = [sync EXCEPT !.pc = "results",
       !.todo = {b \in Bibs : <<sync.race, b>> \in published /\ crossed[sync.race][b] >= sync.since}]
  /\ UNCHANGED <<time, crossed, published, binding, people, finishes, roster, commits, excused>>

UpsertFinish(b) ==
  /\ sync.pc = "results" /\ b \in sync.todo
  /\ finishes' = [finishes EXCEPT ![b] = <<sync.race, crossed[sync.race][b]>>]
  /\ sync' = [sync EXCEPT !.todo = @ \ {b}]
  /\ UNCHANGED <<time, crossed, published, binding, people, roster, commits, excused>>

\* last_synced_at is the time of the stamp, not of the pull.
Stamp ==
  /\ sync.pc = "results" /\ sync.todo = {} /\ sync' = Idle
  /\ binding' = [binding EXCEPT !.since = time]
  /\ UNCHANGED <<time, crossed, published, people, finishes, roster, commits, excused>>

\* Mutant: a sweep that failed is stamped like one that did not.
StampError ==
  /\ sync.pc # "idle" /\ sync' = Idle
  /\ binding' = [binding EXCEPT !.since = time]
  /\ UNCHANGED <<time, crossed, published, people, finishes, roster, commits, excused>>

\* Bad credentials, a provider's error or a failed statement, recorded and left to
\* the next sweep; when the worker dies, not even recorded.
RecordError ==
  /\ sync.pc # "idle" /\ sync' = Idle
  /\ UNCHANGED <<time, crossed, published, binding, people, finishes, roster, commits, excused>>

------------------------------------------------------------------------------

\* A file of up to two rows; a row without bib or name, or with a bad address, is bad.
CsvRows == [bib : Bibs, kind : {"bad", "plain", "email"}]
Csvs == {<<>>} \cup {<<r>> : r \in CsvRows} \cup (CsvRows \X CsvRows)

\* Of the good rows of a bib the first counts; a bad one does not claim the bib.
ValidRows(csv) ==
  LET good(b) == {i \in DOMAIN csv : csv[i].bib = b /\ csv[i].kind # "bad"}
  IN [b \in Bibs |-> IF good(b) = {} THEN "none"
                     ELSE csv[CHOOSE i \in good(b) : \A j \in good(b) : i <= j].kind]

PreviewRoster(csv) ==
  /\ roster.status = "none" /\ roster' = [status |-> "previewed", rows |-> ValidRows(csv)]
  /\ UNCHANGED <<time, crossed, published, binding, sync, people, finishes, commits, excused>>

CommitRoster(k) ==
  /\ roster.status = "previewed" /\ commits[k].pc = "idle"
  /\ commits' = [commits EXCEPT ![k] = [pc |-> "insert", todo |-> Listed(roster.rows)]]
  /\ UNCHANGED <<time, crossed, published, binding, sync, people, finishes, roster, excused>>

\* A bib that has a row keeps it as it is.
InsertParticipant(k, b) ==
  /\ commits[k].pc = "insert" /\ b \in commits[k].todo
  /\ commits' = [commits EXCEPT ![k].todo = @ \ {b}]
  /\ people' = [people EXCEPT ![b] = IF @ = "none" THEN roster.rows[b] ELSE @]
  /\ UNCHANGED <<time, crossed, published, binding, sync, finishes, roster, excused>>

MarkImported(k) ==
  /\ commits[k].pc = "insert" /\ commits[k].todo = {}
  /\ roster' = [roster EXCEPT !.status = "imported"]
  /\ commits' = [commits EXCEPT ![k].pc = "idle"]
  /\ UNCHANGED <<time, crossed, published, binding, sync, people, finishes, excused>>

CommitDies(k) ==
  /\ commits[k].pc = "insert"
  /\ commits' = [commits EXCEPT ![k] = [pc |-> "idle", todo |-> {}]]
  /\ UNCHANGED <<time, crossed, published, binding, sync, people, finishes, roster, excused>>

------------------------------------------------------------------------------

TimingInit ==
  /\ time = 1
  /\ crossed = [r \in RaceIds |-> [b \in Bibs |-> 0]] /\ published = {} /\ excused = {}
  /\ binding = [bound |-> FALSE, race |-> AnyRace, since |-> 0]
  /\ sync = Idle
  /\ people = Nobody /\ finishes = [b \in Bibs |-> NoFinish]
  /\ roster = [status |-> "none", rows |-> Nobody]
  /\ commits = [k \in Clerks |-> [pc |-> "idle", todo |-> {}]]

ProviderNext == TimePasses \/ \E r \in RaceIds, b \in Bibs : Cross(r, b) \/ Publish(r, b)

RunTimingSync ==
  \/ StartSync \/ PullRoster \/ RosterDone \/ PullFinishEvents \/ Stamp \/ RecordError
  \/ \E b \in Bibs : UpsertParticipant(b) \/ UpsertFinish(b)

RosterNext ==
  \/ \E csv \in Csvs : PreviewRoster(csv)
  \/ \E k \in Clerks :
       \/ CommitRoster(k) \/ MarkImported(k) \/ CommitDies(k)
       \/ \E b \in Bibs : InsertParticipant(k, b)

TimingNext ==
  \/ ProviderNext \/ RunTimingSync \/ RosterNext
  \/ \E r \in RaceIds : BindTimingProvider(r)

TimingSpec == TimingInit /\ [][TimingNext]_timingVars

------------------------------------------------------------------------------

TimingTypeOK ==
  /\ time \in 1 .. MaxTime /\ crossed \in [RaceIds -> [Bibs -> 0 .. MaxTime]]
  /\ published \subseteq RaceIds \X Bibs /\ excused \subseteq published
  /\ binding \in Binding /\ sync \in Sync /\ people \in Entries
  /\ finishes \in [Bibs -> Finish] /\ roster \in RosterRow /\ commits \in [Clerks -> Commit]

\* A crossing of the bound race from before the stamp is stored.
FinishesStored ==
  \A b \in Bibs :
    LET r == binding.race
    IN <<r, b>> \in published \ excused /\ crossed[r][b] < binding.since
       => finishes[b] = <<r, crossed[r][b]>>

\* An imported file's valid rows all have their participant.
RosterStored == roster.status = "imported" => \A b \in Listed(roster.rows) : people[b] # "none"

\* A participant's email, once known, stays.
EmailsStay == \A b \in Bibs : people[b] = "email" => people'[b] = "email"

(* However sweeps, rebinds, roster commits, errors and deaths interleave:  *)
(* the incremental pull skips no crossing but one of the kinds named at    *)
(* Skippable, a committed roster is all there, and no email is lost to the *)
(* other source.                                                           *)
SyncLosesNothing ==
  [](FinishesStored /\ RosterStored) /\ [][EmailsStay]_timingVars
=============================================================================
