------------------------------ MODULE Biometrics ------------------------------
(***************************************************************************)
(* Face recognition and the consents it needs: the worker that indexes the *)
(* faces of a photo (workers/face.ts), the grant, the selfie search and    *)
(* the erasure of a consent (services/consents.ts, services/face-search.ts)*)
(* and the retention sweep (jobs/retention.ts).  An embedding is a point   *)
(* of the event's Qdrant collection; Postgres keeps one face_vectors row   *)
(* for it.  Nothing here opens a transaction: each statement and each call *)
(* of Qdrant or of the inference service is a step of its own, and a       *)
(* request or a job can die between two of them.                           *)
(*                                                                         *)
(* The sweep of jobs/bipa-retention.ts is left out: it looks for consents  *)
(* with a retentionWindowEndsAt, which no statement of the code sets.      *)
(***************************************************************************)
EXTENDS Integers, FiniteSets, FiniteSetsExt

CONSTANTS
  Events,        \* events
  FaceEvents,    \* those with allow_face_search, which only guards
  Photos,        \* photos with a job in the face:detect-embed queue
  EventOf,       \* the event of each photo
  Consents,      \* rows the consent routes may insert
  NoConsent,     \* the consent of a request that has not come yet
  Mails,         \* e-mail hashes a grant may carry, NoMail among them
  NoMail,        \* a grant without e-mail
  Searches,      \* selfie searches
  Erasures,      \* DELETE requests for a consent
  Quota,         \* CONSENT_SEARCH_QUOTA
  MaxIndexings,   \* attempts of a job
  MaxDeaths      \* bound on the requests that die

ASSUME BiometricsAssumption ==
  /\ EventOf \in [Photos -> Events] /\ FaceEvents \subseteq Events /\ NoConsent \notin Consents
  /\ Quota \in Nat /\ MaxIndexings \in Nat \ {0} /\ MaxDeaths \in Nat

VARIABLES
  event,       \* events: status, and the end of the retention
  consent,     \* consents, with the grant that inserts the row
  faceVectors, \* face_vectors
  collection,  \* Qdrant: the events whose collection exists
  points,      \* Qdrant: the embeddings
  job,         \* face:detect-embed, by photo
  search,      \* calls of runFaceSearch
  sessions,    \* search_sessions, named after their search
  matches,     \* search_matches, by session
  erasure,     \* calls of cascadeErasure
  sweep,       \* runRetentionPass, where it stands with each event
  owed         \* history: rows stored when the event's last active consent went

biometricVars == <<event, consent, faceVectors, collection, points, job, search, sessions, matches,
                   erasure, sweep, owed>>
faceVars == <<faceVectors, collection, points>>
searchVars == <<search, sessions, matches>>

\* A photo is embedded anew by each attempt, under new point ids.
VectorRows == Photos \X (1 .. MaxIndexings)
In(e, set) == {v \in set : EventOf[v[1]] = e}

ConsentRows == [row : {"none", "looking", "granted"}, event : Events,
                mail : Mails \cup {NoMail}, revoked : BOOLEAN, expired : BOOLEAN,
                used : 0 .. Quota]
SessionRows == SUBSET Searches
MatchRows == [Searches -> SUBSET Photos]
EventRows == [status : {"published", "archived"}, over : BOOLEAN]
JobStates == [pc : {"waiting", "embed", "upsert", "done", "failed"}, attempt : 1 .. MaxIndexings]
SearchStates == [pc : {"idle", "embed", "store", "match", "charge", "charged",
                       "answered", "unanswered", "failed"},
                 consent : Consents \cup {NoConsent}, found : SUBSET Photos]
ErasureStates == [pc : {"idle", "flip", "others", "purge", "sessions", "replied", "dead"},
                  consent : Consents \cup {NoConsent}, purged : BOOLEAN, running : SUBSET Searches,
                  left : SUBSET Searches]

NewSearch == [pc |-> "idle", consent |-> NoConsent, found |-> {}]
NewErasure == [pc |-> "idle", consent |-> NoConsent,
               purged |-> FALSE, running |-> {}, left |-> {}]

Init ==
  /\ event = [e \in Events |-> [status |-> "published", over |-> FALSE]]
  /\ consent = [c \in Consents |-> [row |-> "none", event |-> CHOOSE e \in Events : TRUE,
       mail |-> NoMail, revoked |-> FALSE, expired |-> FALSE, used |-> 0]]
  /\ faceVectors = {} /\ collection = {} /\ points = {}
  /\ job = [p \in Photos |-> [pc |-> "waiting", attempt |-> 1]]
  /\ search = [s \in Searches |-> NewSearch]
  /\ sessions = {} /\ matches = [s \in Searches |-> {}]
  /\ erasure = [r \in Erasures |-> NewErasure]
  /\ sweep = [e \in Events |-> "idle"]
  /\ owed = [e \in Events |-> {}]

Active(e) == {c \in Consents : consent[c].row = "granted" /\ consent[c].event = e
                               /\ ~consent[c].revoked}

(***************************************************************************)
(* The event and its consents                                              *)
(***************************************************************************)
\* Archiving again starts the retention anew.
Archive(e) ==
  /\ event' = [event EXCEPT ![e] = [status |-> "archived", over |-> FALSE]]
  /\ UNCHANGED <<consent, faceVars, job, searchVars, erasure, sweep, owed>>

(* archived_at + retention_days goes by. *)
RetentionEnds(e) ==
  /\ event[e].status = "archived" /\ ~event[e].over
  /\ event' = [event EXCEPT ![e].over = TRUE]
  /\ UNCHANGED <<consent, faceVars, job, searchVars, erasure, sweep, owed>>

\* grantConsent looks for a row of the same e-mail that was not revoked, takes
\* one of them, and returns it unless its 24 hours have passed.
Reusable(e, mail) ==
  mail # NoMail /\ LET same == {c \in Active(e) : consent[c].mail = mail}
                   IN  same # {} /\ \A c \in same : ~consent[c].expired

LookForConsent(c, e, mail) ==
  /\ consent[c].row = "none" /\ e \in FaceEvents /\ ~Reusable(e, mail)
  /\ consent' = [consent EXCEPT ![c].row = "looking", ![c].event = e, ![c].mail = mail]
  /\ UNCHANGED <<event, faceVars, job, searchVars, erasure, sweep, owed>>

InsertConsent(c) ==
  /\ consent[c].row = "looking"
  /\ consent' = [consent EXCEPT ![c].row = "granted"]
  /\ owed' = [owed EXCEPT ![consent[c].event] = {}]
  /\ UNCHANGED <<event, faceVars, job, searchVars, erasure, sweep>>

(* CONSENT_TTL_HOURS go by. *)
Expire(c) ==
  /\ consent[c].row = "granted" /\ ~consent[c].expired
  /\ consent' = [consent EXCEPT ![c].expired = TRUE]
  /\ UNCHANGED <<event, faceVars, job, searchVars, erasure, sweep, owed>>

(***************************************************************************)
(* The worker that indexes a photo                                         *)
(***************************************************************************)
Point(p) == <<p, job[p].attempt>>

\* Creates the collection unless it is there.
EnsureCollection(e) == collection' = collection \cup {e}

StartIndexing(p) ==
  /\ job[p].pc = "waiting" /\ EnsureCollection(EventOf[p])
  /\ job' = [job EXCEPT ![p].pc = "embed"]
  /\ UNCHANGED <<event, consent, faceVectors, points, searchVars, erasure, sweep, owed>>

InsertRows(p) ==
  /\ job[p].pc = "embed"
  /\ \/ /\ job' = [job EXCEPT ![p].pc = "done"]      \* no face in the photo
        /\ UNCHANGED faceVectors
     \/ /\ job' = [job EXCEPT ![p].pc = "upsert"]
        /\ faceVectors' = faceVectors \cup {Point(p)}
  /\ UNCHANGED <<event, consent, collection, points, searchVars, erasure, sweep, owed>>

\* Refused by Qdrant when the sweep has dropped the collection meanwhile.
UpsertFaceVectors(e, v) == e \in collection /\ points' = points \cup {v}

UpsertPoints(p) ==
  /\ job[p].pc = "upsert" /\ UpsertFaceVectors(EventOf[p], Point(p))
  /\ job' = [job EXCEPT ![p].pc = "done"]
  /\ UNCHANGED <<event, consent, faceVectors, collection, searchVars, erasure, sweep, owed>>

(* Storage, inference, Postgres or Qdrant fails, or the worker dies. *)
FailIndexing(p) ==
  /\ job[p].pc \in {"embed", "upsert"}
  /\ job' = [job EXCEPT ![p] = IF job[p].attempt < MaxIndexings
                               THEN [pc |-> "waiting", attempt |-> job[p].attempt + 1]
                               ELSE [job[p] EXCEPT !.pc = "failed"]]
  /\ UNCHANGED <<event, consent, faceVars, searchVars, erasure, sweep, owed>>

(***************************************************************************)
(* The selfie search                                                       *)
(***************************************************************************)
VerifyUnrevoked(c, e) ==          \* mutant: the revocation is not looked at
  /\ consent[c].row = "granted" /\ consent[c].event = e
  /\ ~consent[c].expired /\ consent[c].used < Quota
VerifyConsent(c, e) ==
  /\ consent[c].row = "granted" /\ consent[c].event = e
  /\ ~consent[c].revoked /\ ~consent[c].expired /\ consent[c].used < Quota
EventGate(e) == event[e].status = "published" /\ e \in FaceEvents

StartSearch(s, c) ==
  /\ search[s].pc = "idle"
  /\ VerifyConsent(c, consent[c].event) /\ EventGate(consent[c].event)
  /\ search' = [search EXCEPT ![s].pc = "embed", ![s].consent = c]
  /\ UNCHANGED <<event, consent, faceVars, job, sessions, matches, erasure, sweep, owed>>

EventOfSearch(s) == consent[search[s].consent].event

(* No face in the selfie, or the inference service is away. *)
FailSearch(s) ==
  /\ search[s].pc = "embed"
  /\ search' = [search EXCEPT ![s].pc = "failed"]
  /\ UNCHANGED <<event, consent, faceVars, job, sessions, matches, erasure, sweep, owed>>

(* The points Qdrant returns for the selfie - none when there is no        *)
(* collection - and the photos behind them, through their rows.            *)
SearchFaces(s) ==
  /\ search[s].pc = "embed"
  /\ \E hits \in {{}, In(EventOfSearch(s), points)} :
       search' = [search EXCEPT ![s].pc = "store",
                                ![s].found = {v[1] : v \in hits \cap faceVectors}]
  /\ UNCHANGED <<event, consent, faceVars, job, sessions, matches, erasure, sweep, owed>>

StoreSession(s) ==
  /\ search[s].pc = "store"
  /\ sessions' = sessions \cup {s}
  /\ search' = [search EXCEPT ![s].pc = IF search[s].found = {} THEN "charge" ELSE "match"]
  /\ UNCHANGED <<event, consent, faceVars, job, matches, erasure, sweep, owed>>

(* The foreign key refuses the matches of a session an erasure has deleted. *)
StoreMatches(s) ==
  /\ search[s].pc = "match"
  /\ IF s \in sessions
     THEN /\ matches' = [matches EXCEPT ![s] = search[s].found]
          /\ search' = [search EXCEPT ![s].pc = "charge", ![s].found = {}]
     ELSE /\ search' = [search EXCEPT ![s].pc = "failed", ![s].found = {}]
          /\ UNCHANGED matches
  /\ UNCHANGED <<event, consent, faceVars, job, sessions, erasure, sweep, owed>>

IncrementSearchUsage(c) == consent' = [consent EXCEPT ![c].used = @ + 1]

AnswerAnyway(s) ==                \* mutant: the row count of the UPDATE is not looked at
  /\ search[s].pc = "charge"
  /\ consent' = [consent EXCEPT ![search[s].consent].used = IF @ < Quota THEN @ + 1 ELSE @]
  /\ search' = [search EXCEPT ![s].pc = "charged"]
  /\ UNCHANGED <<event, faceVars, job, sessions, matches, erasure, sweep, owed>>

(* The quota is taken in one conditional UPDATE. *)
ChargeSearch(s) ==
  /\ search[s].pc = "charge"
  /\ LET c == search[s].consent
     IN  IF consent[c].used < Quota
         THEN IncrementSearchUsage(c) /\ search' = [search EXCEPT ![s].pc = "charged"]
         ELSE UNCHANGED consent /\ search' = [search EXCEPT ![s].pc = "failed"]
  /\ UNCHANGED <<event, faceVars, job, sessions, matches, erasure, sweep, owed>>

(* The audit row is written before the answer, which a failure of it costs. *)
AnswerSearch(s) ==
  /\ search[s].pc = "charged"
  /\ \E pc \in {"answered", "unanswered"} : search' = [search EXCEPT ![s].pc = pc]
  /\ UNCHANGED <<event, consent, faceVars, job, sessions, matches, erasure, sweep, owed>>

(***************************************************************************)
(* The erasure of a consent                                                *)
(***************************************************************************)
Goto(r, pc) == erasure' = [erasure EXCEPT ![r].pc = pc]

(* DELETE /v1/consents/biometric/:id.  A consent already revoked goes on to *)
(* its sessions at once.                                                    *)
StartErasure(r, c) ==
  /\ erasure[r].pc = "idle" /\ consent[c].row = "granted"
  /\ erasure' = [erasure EXCEPT ![r].consent = c,
       ![r].pc = IF consent[c].revoked THEN "sessions" ELSE "flip"]
  /\ UNCHANGED <<event, consent, faceVars, job, searchVars, sweep, owed>>

Revoke(r) ==
  /\ erasure[r].pc = "flip"
  /\ LET c == erasure[r].consent
         e == consent[c].event
     IN  /\ consent' = [consent EXCEPT ![c].revoked = TRUE]
         /\ owed' = IF Active(e) = {c} THEN [owed EXCEPT ![e] = In(e, faceVectors)] ELSE owed
  /\ Goto(r, "others")
  /\ UNCHANGED <<event, faceVars, job, searchVars, sweep>>

HasOtherConsents(c) ==            \* mutant: counts the revoked ones too
  {d \in Consents \ {c} : consent[d].row = "granted"} # {}
HasOtherActiveConsents(c) == Active(consent[c].event) \ {c} # {}

(* The route hands over no dropCollection, so the collection stays. *)
AskForOthers(r) ==
  /\ erasure[r].pc = "others"
  /\ Goto(r, IF HasOtherActiveConsents(erasure[r].consent) THEN "sessions" ELSE "purge")
  /\ UNCHANGED <<event, consent, faceVars, job, searchVars, sweep, owed>>

DeleteVectorsForEvent(r) ==
  /\ erasure[r].pc = "purge"
  /\ LET e == consent[erasure[r].consent].event
     IN  faceVectors' = faceVectors \ In(e, faceVectors) /\ owed' = [owed EXCEPT ![e] = {}]
  /\ erasure' = [erasure EXCEPT ![r].pc = "sessions", ![r].purged = TRUE]
  /\ UNCHANGED <<event, consent, collection, points, job, searchVars, sweep>>

SessionsOf(c) == {s \in sessions : search[s].consent = c}
RunningOf(c) == {s \in Searches : search[s].pc \in {"embed", "store"} /\ search[s].consent = c}
Without(set) == [s \in Searches |-> IF s \in set THEN {} ELSE matches[s]]

(* The request is answered, and remembers the searches of the consent that *)
(* have not stored their session yet, and those whose session it left.     *)
Reply(r, left) ==
  erasure' = [erasure EXCEPT ![r].pc = "replied", ![r].left = left,
                             ![r].running = RunningOf(erasure[r].consent)]

(* The sessions of the consent go, and their matches with them. *)
EraseSessions(r) ==
  /\ erasure[r].pc = "sessions"
  /\ LET gone == SessionsOf(erasure[r].consent)
     IN  sessions' = sessions \ gone /\ matches' = Without(gone)
  /\ Reply(r, {})
  /\ UNCHANGED <<event, consent, faceVars, job, search, sweep, owed>>

(* One of the statements fails, before or after the matches are gone: that  *)
(* is caught and audited, and the answer is the same.                       *)
FailErasingSessions(r) ==
  /\ erasure[r].pc = "sessions"
  /\ LET kept == SessionsOf(erasure[r].consent)
     IN  matches' \in {matches, Without(kept)} /\ Reply(r, kept)
  /\ UNCHANGED <<event, consent, faceVars, job, search, sessions, sweep, owed>>

(* The process dies, or Postgres fails, in the middle of the request. *)
Dead == {r \in Erasures : erasure[r].pc = "dead"}
DieErasing(r) ==
  /\ Cardinality(Dead) < MaxDeaths /\ erasure[r].pc \in {"flip", "others", "purge", "sessions"}
  /\ Goto(r, "dead")
  /\ UNCHANGED <<event, consent, faceVars, job, searchVars, sweep, owed>>

(***************************************************************************)
(* The retention sweep, event by event                                     *)
(***************************************************************************)
FindConsenting(e) ==              \* mutant: an event purged before is not taken up again
  event[e].over /\ Active(e) # {}
FindExpired(e) == event[e].over

\* Qdrant first.  A failure leaves the event to the next pass.
DropCollection(e) ==
  /\ sweep[e] = "idle" /\ FindExpired(e)
  /\ collection' = collection \ {e} /\ points' = points \ In(e, points)
  /\ sweep' = [sweep EXCEPT ![e] = "rows"]
  /\ UNCHANGED <<event, consent, faceVectors, job, searchVars, erasure, owed>>

DeleteRows(e) ==
  /\ sweep[e] = "rows"
  /\ faceVectors' = faceVectors \ In(e, faceVectors)
  /\ owed' = [owed EXCEPT ![e] = {}]
  /\ sweep' = [sweep EXCEPT ![e] = "revoke"]
  /\ UNCHANGED <<event, consent, collection, points, job, searchVars, erasure>>

RevokeAll(e) ==
  /\ sweep[e] = "revoke"
  /\ consent' = [c \in Consents |-> [consent[c] EXCEPT !.revoked = @ \/ c \in Active(e)]]
  /\ sweep' = [sweep EXCEPT ![e] = "idle"]
  /\ UNCHANGED <<event, faceVars, job, searchVars, erasure, owed>>

(* A statement fails, or the worker restarts: the next pass takes the event up. *)
AbandonSweep(e) ==
  /\ sweep[e] # "idle"
  /\ sweep' = [sweep EXCEPT ![e] = "idle"]
  /\ UNCHANGED <<event, consent, faceVars, job, searchVars, erasure, owed>>

(***************************************************************************)
(* The specification                                                       *)
(***************************************************************************)
EventStep(e) == Archive(e) \/ RetentionEnds(e)
\* POST /v1/consents/biometric.
Grant(c) == InsertConsent(c) \/ \E e \in Events, mail \in Mails : LookForConsent(c, e, mail)
JobStep(p) == StartIndexing(p) \/ InsertRows(p) \/ UpsertPoints(p) \/ FailIndexing(p)
SearchStep(s) ==
  \/ \E c \in Consents : StartSearch(s, c)
  \/ FailSearch(s) \/ SearchFaces(s) \/ StoreSession(s) \/ StoreMatches(s)
  \/ ChargeSearch(s) \/ AnswerSearch(s)
ErasureStep(r) ==
  \/ \E c \in Consents : StartErasure(r, c)
  \/ Revoke(r) \/ AskForOthers(r) \/ DeleteVectorsForEvent(r)
  \/ EraseSessions(r) \/ FailErasingSessions(r) \/ DieErasing(r)
\* The cron of jobs/scheduler.ts.
SweepStep(e) == DropCollection(e) \/ DeleteRows(e) \/ RevokeAll(e)

Next ==
  \/ \E e \in Events : EventStep(e) \/ SweepStep(e) \/ AbandonSweep(e)
  \/ \E c \in Consents : Grant(c) \/ Expire(c)
  \/ \E p \in Photos : JobStep(p)
  \/ \E s \in Searches : SearchStep(s)
  \/ \E r \in Erasures : ErasureStep(r)

(* The queue runs its jobs; the cron, every six hours, takes up every event *)
(* whose retention is over, and it is not abandoned for ever.               *)
Fairness ==
  /\ \A p \in Photos : WF_biometricVars(JobStep(p))
  /\ \A e \in Events :
       /\ SF_biometricVars(DropCollection(e)) /\ SF_biometricVars(DeleteRows(e))
       /\ SF_biometricVars(RevokeAll(e))

Spec == Init /\ [][Next]_biometricVars /\ Fairness

(***************************************************************************)
(* Properties                                                              *)
(***************************************************************************)
(* The rows are rows of the schema, and every process is where it can be. *)
BiometricsTypeOK ==
  /\ event \in [Events -> EventRows] /\ consent \in [Consents -> ConsentRows]
  /\ faceVectors \subseteq VectorRows /\ points \subseteq VectorRows /\ collection \subseteq Events
  /\ job \in [Photos -> JobStates] /\ search \in [Searches -> SearchStates]
  /\ sessions \in SessionRows /\ matches \in MatchRows
  /\ erasure \in [Erasures -> ErasureStates]
  /\ sweep \in [Events -> {"idle", "rows", "revoke"}]
  /\ owed \in [Events -> SUBSET VectorRows]

SearchesAt(c, pcs) == {s \in Searches : search[s].pc \in pcs /\ search[s].consent = c}
Charged(c) == SearchesAt(c, {"charged", "answered", "unanswered"})
Answered(c) == SearchesAt(c, {"answered"})

(* Searches of one consent overlap between the check of the quota and its  *)
(* charge; still each one that got so far is charged once, no search is    *)
(* answered uncharged, and no more than the quota are answered.            *)
QuotaHeld == \A c \in Consents :
  /\ Cardinality(Charged(c)) = consent[c].used
  /\ Cardinality(Answered(c)) <= consent[c].used
  /\ consent[c].used <= Quota

(* Erasures of several consents overlap, and each asks whether another is   *)
(* still active before it purges: when the last one goes, the rows that     *)
(* were stored go too, unless the request that would do it died.            *)
LastRevocationPurges == \A e \in Events :
  Active(e) = {} /\ owed[e] # {} =>
    \E r \in Erasures : /\ erasure[r].pc \in {"others", "purge", "dead"} /\ ~erasure[r].purged
                        /\ consent[erasure[r].consent].event = e

(* After an erasure was answered, nothing of its consent is stored or comes *)
(* back, but for the searches it overtook and the sessions it failed to     *)
(* delete, which is only audited (see ErasureComplete).                     *)
ErasedStaysErased == \A r \in Erasures : erasure[r].pc = "replied" =>
  \A s \in Searches : s \in sessions \/ matches[s] # {} =>
    \/ search[s].consent # erasure[r].consent
    \/ s \in erasure[r].running \cup erasure[r].left

(* "Full erasure cascade: revoke + Qdrant + face_vectors + search sessions" *)
(* (routes/consents.ts:260): an erasure that purged the event left neither  *)
(* a session of the consent nor, with no job under way, an embedding.       *)
ErasureComplete == \A r \in Erasures : erasure[r].pc = "replied" =>
  /\ erasure[r].running = {} /\ erasure[r].left = {}
  /\ erasure[r].purged /\ (\A p \in Photos : job[p].pc = "waiting") =>
       In(consent[erasure[r].consent].event, points) = {}

(* Whatever jobs, grants and erasures still run when the retention of an    *)
(* event ends - and the event is not archived anew - its faces and its      *)
(* consents are gone in the end, and for good.                              *)
RetentionHonoured == \A e \in Events :
  <>[]event[e].over => <>[](In(e, faceVectors) = {} /\ In(e, points) = {} /\ Active(e) = {})
=============================================================================
