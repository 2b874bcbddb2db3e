---------------------------- MODULE MediaProofs ----------------------------
(***************************************************************************)
(* Invariants of the photos and of their faces: an upload, its derivatives *)
(* and its takedown (Photos), and the consents, searches and erasures of   *)
(* face recognition (Biometrics), for every number of the actors that      *)
(* overlap in them.  The two share no variable.                            *)
(***************************************************************************)
EXTENDS Biometrics, Photos, FiniteSetTheorems, TLAPS

(***************************************************************************)
(* Biometrics: face recognition and the consents it needs.                 *)
(***************************************************************************)
(* The event a row has before it is inserted means nothing. *)
ConsentStates ==
  [row : {"none", "looking", "granted"}, event : Events \cup {CHOOSE e \in Events : TRUE},
   mail : Mails \cup {NoMail}, revoked : BOOLEAN, expired : BOOLEAN, used : 0 .. Quota]

BiometricsTyped ==
  /\ event \in [Events -> EventRows] /\ consent \in [Consents -> ConsentStates]
  /\ \A c \in Consents : consent[c].row # "none" => consent[c].event \in Events
  /\ faceVectors \subseteq VectorRows /\ points \subseteq VectorRows /\ collection \subseteq Events
  /\ job \in [Photos -> JobStates] /\ search \in [Searches -> SearchStates]
  /\ sessions \in SessionRows /\ matches \in MatchRows
  /\ erasure \in [Erasures -> ErasureStates]
  /\ sweep \in [Events -> {"idle", "rows", "revoke"}]
  /\ owed \in [Events -> SUBSET VectorRows]

(* What a request has read is there for good. *)
RequestsKnow ==
  /\ \A s \in Searches : search[s].pc # "idle" =>
       search[s].consent \in Consents /\ consent[search[s].consent].row = "granted"
  /\ \A r \in Erasures : erasure[r].pc # "idle" =>
       erasure[r].consent \in Consents /\ consent[erasure[r].consent].row = "granted"
  /\ \A r \in Erasures :
       /\ erasure[r].pc \in {"idle", "flip", "others", "purge"} => ~erasure[r].purged
       /\ erasure[r].pc \in {"others", "purge", "sessions", "replied"} =>
            consent[erasure[r].consent].revoked

(* Each search that got past the charge is counted. *)
AnswersCounted == \A c \in Consents :
  IsFiniteSet(Charged(c)) /\ Cardinality(Charged(c)) = consent[c].used

(* Rows are owed only for events without an active consent. *)
OwedWhenGone == \A e \in Events : Active(e) # {} => owed[e] = {}

(* After an answer, a search of the consent has no session, nor will it have *)
(* one, unless the erasure overtook it or failed to delete its session.      *)
ErasedFor(r) == \A s \in Searches :
  search[s].consent = erasure[r].consent /\ s \notin erasure[r].running \cup erasure[r].left =>
    s \notin sessions /\ search[s].pc \notin {"embed", "store"}
SessionsErased ==
  /\ \A s \in Searches : matches[s] # {} => s \in sessions
  /\ \A r \in Erasures : erasure[r].pc = "replied" => ErasedFor(r)

BiometricsInv ==
  /\ BiometricsTyped /\ RequestsKnow /\ AnswersCounted
  /\ OwedWhenGone /\ LastRevocationPurges /\ SessionsErased

(* Nothing is granted, searched or erased in the beginning. *)
LEMMA BiometricsInvInit == Init => BiometricsInv
<1> SUFFICES ASSUME Init PROVE BiometricsInv
  OBVIOUS
<1>1. BiometricsTyped
  <2>1. consent \in [Consents -> ConsentStates] /\ \A c \in Consents : consent[c].row = "none"
    BY BiometricsAssumption DEF Init, ConsentStates
  <2>2. job \in [Photos -> JobStates]
    BY BiometricsAssumption DEF Init, JobStates
  <2>3. search \in [Searches -> SearchStates] /\ erasure \in [Erasures -> ErasureStates]
    BY DEF Init, NewSearch, SearchStates, NewErasure, ErasureStates
  <2>4. event \in [Events -> EventRows] /\ sweep \in [Events -> {"idle", "rows", "revoke"}]
    BY DEF Init, EventRows
  <2>5. /\ faceVectors \subseteq VectorRows /\ points \subseteq VectorRows /\ collection \subseteq Events
        /\ sessions \in SessionRows /\ matches \in MatchRows /\ owed \in [Events -> SUBSET VectorRows]
    BY DEF Init, SessionRows, MatchRows
  <2> QED
    BY <2>1, <2>2, <2>3, <2>4, <2>5 DEF BiometricsTyped
<1>2. RequestsKnow
  BY DEF Init, RequestsKnow, NewSearch, NewErasure
<1>3. AnswersCounted
  <2>1. \A c \in Consents : Charged(c) = {} /\ consent[c].used = 0
    BY DEF Init, Charged, SearchesAt, NewSearch
  <2> QED
    BY <2>1, FS_EmptySet DEF AnswersCounted
<1>4. OwedWhenGone /\ LastRevocationPurges
  BY DEF Init, OwedWhenGone, LastRevocationPurges
<1>5. SessionsErased
  BY DEF Init, SessionsErased, NewErasure
<1> QED
  BY <1>1, <1>2, <1>3, <1>4, <1>5 DEF BiometricsInv

(* Steps that leave the consents and the requests on them alone, and owe no  *)
(* more than before.                                                         *)
LEMMA RequestsAlone ==
  ASSUME BiometricsInv, BiometricsTyped', UNCHANGED <<consent, search, sessions, matches, erasure>>,
         \A e \in Events : owed'[e] \in {owed[e], {}}
  PROVE  BiometricsInv'
<1>1. \A c : Charged(c)' = Charged(c)
  BY DEF Charged, SearchesAt
<1>2. \A e : Active(e)' = Active(e)
  BY DEF Active
<1>3. RequestsKnow' /\ SessionsErased'
  BY DEF BiometricsInv, RequestsKnow, SessionsErased, ErasedFor
<1>4. AnswersCounted'
  BY <1>1 DEF BiometricsInv, AnswersCounted
<1>5. OwedWhenGone'
  BY <1>2 DEF BiometricsInv, OwedWhenGone
<1>6. LastRevocationPurges'
  BY <1>2 DEF BiometricsInv, LastRevocationPurges
<1> QED
  BY <1>3, <1>4, <1>5, <1>6 DEF BiometricsInv

(* The event, the worker and the sweep keep their rows typed. *)
LEMMA EventTyped ==
  ASSUME BiometricsInv, NEW e \in Events,
         EventStep(e) \/ DropCollection(e) \/ AbandonSweep(e) \/ DeleteRows(e)
  PROVE  BiometricsInv'
<1> USE DEF BiometricsInv, BiometricsTyped
<1>1. CASE Archive(e)
  BY <1>1, RequestsAlone DEF Archive, EventRows, faceVars, searchVars
<1>2. CASE RetentionEnds(e)
  BY <1>2, RequestsAlone DEF RetentionEnds, EventRows, faceVars, searchVars
<1>3. CASE DropCollection(e)
  <2>1. /\ collection' \subseteq collection /\ points' \subseteq points
        /\ sweep' = [sweep EXCEPT ![e] = "rows"]
        /\ UNCHANGED <<event, consent, faceVectors, job, search, sessions, matches, erasure, owed>>
    BY <1>3 DEF DropCollection, searchVars
  <2>2. BiometricsTyped'
    BY <2>1
  <2> QED
    BY <2>1, <2>2, RequestsAlone
<1>4. CASE AbandonSweep(e)
  BY <1>4, RequestsAlone DEF AbandonSweep, faceVars, searchVars
<1>5. CASE DeleteRows(e)
  <2>1. /\ faceVectors' \subseteq faceVectors /\ owed' = [owed EXCEPT ![e] = {}]
        /\ sweep' = [sweep EXCEPT ![e] = "revoke"]
        /\ UNCHANGED <<event, consent, collection, points, job, search, sessions, matches, erasure>>
    BY <1>5 DEF DeleteRows, searchVars
  <2>2. BiometricsTyped' /\ \A d \in Events : owed'[d] \in {owed[d], {}}
    BY <2>1
  <2> QED
    BY <2>1, <2>2, RequestsAlone
<1> QED
  BY <1>1, <1>2, <1>3, <1>4, <1>5 DEF EventStep

LEMMA JobTyped == ASSUME BiometricsInv, NEW p \in Photos, JobStep(p) PROVE BiometricsInv'
<1>1. UNCHANGED <<event, consent, search, sessions, matches, erasure, sweep, owed>>
  BY DEF JobStep, StartIndexing, InsertRows, UpsertPoints, FailIndexing, searchVars
<1>2. job[p] \in JobStates /\ job \in [Photos -> JobStates] /\ Point(p) \in VectorRows
  BY DEF BiometricsInv, BiometricsTyped, JobStates, Point, VectorRows
<1>3. job' \in [Photos -> JobStates]
  BY <1>2, BiometricsAssumption
  DEF JobStep, StartIndexing, InsertRows, UpsertPoints, FailIndexing, JobStates
<1>4. faceVectors' \subseteq VectorRows
  BY <1>2 DEF JobStep, StartIndexing, InsertRows, UpsertPoints, FailIndexing, faceVars,
              BiometricsInv, BiometricsTyped
<1>5. points' \subseteq VectorRows /\ collection' \subseteq Events
  BY <1>2, BiometricsAssumption
  DEF JobStep, StartIndexing, InsertRows, UpsertPoints, UpsertFaceVectors, FailIndexing, faceVars,
      EnsureCollection, BiometricsInv, BiometricsTyped
<1>6. BiometricsTyped'
  BY <1>1, <1>3, <1>4, <1>5 DEF BiometricsInv, BiometricsTyped
<1> QED
  BY <1>1, <1>6, RequestsAlone

(* A step of consents: what is granted stays so, of its event and revoked if *)
(* it was, and what was used of it is what it was.                           *)
LEMMA ConsentMoves ==
  ASSUME BiometricsInv, NEW new, consent' = new, new \in [Consents -> ConsentStates],
         \A c \in Consents :
           /\ new[c].used = consent[c].used
           /\ new[c].row # "none" => new[c].event \in Events
           /\ consent[c].row = "granted" =>
                /\ new[c].row = "granted" /\ new[c].event = consent[c].event
                /\ consent[c].revoked => new[c].revoked,
         UNCHANGED <<event, faceVectors, collection, points, job, search, sessions, matches, erasure>>,
         sweep' \in [Events -> {"idle", "rows", "revoke"}],
         \A e \in Events : owed'[e] \in {owed[e], {}}, owed' \in [Events -> SUBSET VectorRows],
         \A e \in Events : owed'[e] = {} \/ Active(e)' \subseteq Active(e)
  PROVE  BiometricsInv'
<1>1. BiometricsTyped'
  BY DEF BiometricsInv, BiometricsTyped
<1>2. RequestsKnow'
  BY DEF BiometricsInv, BiometricsTyped, RequestsKnow, ErasureStates
<1>3. AnswersCounted'
  <2>1. \A c : Charged(c)' = Charged(c)
    BY DEF Charged, SearchesAt
  <2> QED
    BY <2>1 DEF BiometricsInv, AnswersCounted
<1>4. OwedWhenGone'
  BY DEF BiometricsInv, OwedWhenGone
<1>5. LastRevocationPurges'
  <2> SUFFICES ASSUME NEW e \in Events, Active(e)' = {}, owed'[e] # {}
               PROVE  \E r \in Erasures :
                        /\ erasure'[r].pc \in {"others", "purge", "dead"} /\ ~erasure'[r].purged
                        /\ consent'[erasure'[r].consent].event = e
    BY DEF LastRevocationPurges
  <2>1. owed[e] # {} /\ Active(e) = {}
    BY DEF BiometricsInv, OwedWhenGone
  <2>2. PICK r \in Erasures : /\ erasure[r].pc \in {"others", "purge", "dead"} /\ ~erasure[r].purged
                              /\ consent[erasure[r].consent].event = e
    BY <2>1 DEF BiometricsInv, LastRevocationPurges
  <2>3. erasure[r].consent \in Consents /\ consent[erasure[r].consent].row = "granted"
    BY <2>2 DEF BiometricsInv, RequestsKnow
  <2> QED
    BY <2>2, <2>3
<1>6. SessionsErased'
  BY DEF BiometricsInv, SessionsErased, ErasedFor
<1> QED
  BY <1>1, <1>2, <1>3, <1>4, <1>5, <1>6 DEF BiometricsInv

LEMMA ConsentSteps ==
  ASSUME BiometricsInv, NEW c \in Consents, Grant(c) \/ Expire(c)
  PROVE  BiometricsInv'
<1> USE DEF BiometricsInv, BiometricsTyped
<1>1. consent \in [Consents -> ConsentStates] /\ consent[c] \in ConsentStates
  OBVIOUS
<1>2. ASSUME NEW e \in Events, NEW mail \in Mails, LookForConsent(c, e, mail) PROVE BiometricsInv'
  <2> DEFINE new == [consent EXCEPT ![c].row = "looking", ![c].event = e, ![c].mail = mail]
  <2>1. /\ consent' = new /\ consent[c].row = "none"
        /\ UNCHANGED <<event, faceVectors, collection, points, job, search, sessions, matches, erasure,
                       sweep, owed>>
    BY <1>2 DEF LookForConsent, faceVars, searchVars
  <2>2. /\ new \in [Consents -> ConsentStates]
        /\ new[c].row = "looking" /\ new[c].event = e /\ new[c].used = consent[c].used
        /\ \A d \in Consents \ {c} : new[d] = consent[d]
    BY <1>1 DEF ConsentStates
  <2> HIDE DEF new
  <2>3. \A d \in Events : Active(d)' \subseteq Active(d)
    BY <2>1, <2>2 DEF Active
  <2>4. \A d \in Consents :
           /\ new[d].used = consent[d].used
           /\ new[d].row # "none" => new[d].event \in Events
           /\ consent[d].row = "granted" =>
                /\ new[d].row = "granted" /\ new[d].event = consent[d].event
                /\ consent[d].revoked => new[d].revoked
    BY <2>1, <2>2
  <2> QED
    BY <2>1, <2>2, <2>3, <2>4, ConsentMoves
<1>3. CASE InsertConsent(c)
  <2> DEFINE new == [consent EXCEPT ![c].row = "granted"]
  <2>1. /\ consent' = new /\ consent[c].row = "looking" /\ consent[c].event \in Events
        /\ owed' = [owed EXCEPT ![consent[c].event] = {}]
        /\ UNCHANGED <<event, faceVectors, collection, points, job, search, sessions, matches, erasure,
                       sweep>>
    BY <1>3 DEF InsertConsent, faceVars, searchVars
  <2>2. /\ new \in [Consents -> ConsentStates]
        /\ new[c].event = consent[c].event /\ new[c].used = consent[c].used
        /\ \A d \in Consents \ {c} : new[d] = consent[d]
    BY <1>1 DEF ConsentStates
  <2> HIDE DEF new
  <2>3. \A e \in Events : owed'[e] = {} \/ Active(e)' \subseteq Active(e)
    BY <2>1, <2>2 DEF Active
  <2>4. \A d \in Consents :
           /\ new[d].used = consent[d].used
           /\ new[d].row # "none" => new[d].event \in Events
           /\ consent[d].row = "granted" =>
                /\ new[d].row = "granted" /\ new[d].event = consent[d].event
                /\ consent[d].revoked => new[d].revoked
    BY <2>1, <2>2
  <2>5. \A e \in Events : owed'[e] \in {owed[e], {}}
    BY <2>1
  <2>6. owed' \in [Events -> SUBSET VectorRows]
    BY <2>1
  <2> QED
    BY <2>1, <2>2, <2>3, <2>4, <2>5, <2>6, ConsentMoves
<1>4. CASE Expire(c)
  <2> DEFINE new == [consent EXCEPT ![c].expired = TRUE]
  <2>1. /\ consent' = new
        /\ UNCHANGED <<event, faceVectors, collection, points, job, search, sessions, matches, erasure,
                       sweep, owed>>
    BY <1>4 DEF Expire, faceVars, searchVars
  <2>2. /\ new \in [Consents -> ConsentStates]
        /\ \A d \in Consents : /\ new[d].row = consent[d].row /\ new[d].event = consent[d].event
                               /\ new[d].used = consent[d].used /\ new[d].revoked = consent[d].revoked
    BY <1>1 DEF ConsentStates
  <2> HIDE DEF new
  <2>3. \A e \in Events : Active(e)' \subseteq Active(e)
    BY <2>1, <2>2 DEF Active
  <2> QED
    BY <2>1, <2>2, <2>3, ConsentMoves
<1> QED
  BY <1>2, <1>3, <1>4 DEF Grant

LEMMA RevokeAllKeeps == ASSUME BiometricsInv, NEW e \in Events, RevokeAll(e) PROVE BiometricsInv'
<1> DEFINE new == [c \in Consents |-> [consent[c] EXCEPT !.revoked = @ \/ c \in Active(e)]]
<1>1. /\ consent' = new /\ sweep' = [sweep EXCEPT ![e] = "idle"]
      /\ UNCHANGED <<event, faceVectors, collection, points, job, search, sessions, matches, erasure, owed>>
  BY DEF RevokeAll, faceVars, searchVars
<1>2. /\ new \in [Consents -> ConsentStates]
      /\ \A c \in Consents : /\ new[c].row = consent[c].row /\ new[c].event = consent[c].event
                             /\ new[c].used = consent[c].used
                             /\ consent[c].revoked => new[c].revoked
  <2> SUFFICES ASSUME NEW c \in Consents
               PROVE  /\ new[c] \in ConsentStates
                      /\ new[c].row = consent[c].row /\ new[c].event = consent[c].event
                      /\ new[c].used = consent[c].used
                      /\ consent[c].revoked => new[c].revoked
    BY Zenon
  <2> DEFINE revoked == consent[c].revoked \/ c \in Active(e)
  <2>1. consent[c] \in ConsentStates
    BY DEF BiometricsInv, BiometricsTyped
  <2>2. revoked \in BOOLEAN
    BY Zenon
  <2>3. new[c] = [consent[c] EXCEPT !.revoked = revoked]
    BY Zenon
  <2>4. consent[c].revoked => revoked
    OBVIOUS
  <2> HIDE DEF revoked, new
  <2> QED
    BY <2>1, <2>2, <2>3, <2>4 DEF ConsentStates
<1> HIDE DEF new
<1>3. \A d \in Events : Active(d)' \subseteq Active(d)
  BY <1>1, <1>2 DEF Active
<1> QED
  BY <1>1, <1>2, <1>3, ConsentMoves DEF BiometricsInv, BiometricsTyped

(* A step of a search: no consent gains or loses but a unit of its quota. *)
LEMMA SearchMoves ==
  ASSUME BiometricsInv, BiometricsTyped', SessionsErased', AnswersCounted',
         UNCHANGED <<erasure, owed>>,
         \A c \in Consents : /\ consent'[c].row = consent[c].row /\ consent'[c].event = consent[c].event
                             /\ consent'[c].revoked = consent[c].revoked,
         \A s \in Searches : search'[s].pc # "idle" =>
           search'[s].consent \in Consents /\ consent[search'[s].consent].row = "granted"
  PROVE  BiometricsInv'
<1>1. \A e : Active(e)' = Active(e)
  BY DEF Active
<1>2. RequestsKnow'
  BY DEF BiometricsInv, BiometricsTyped, RequestsKnow, ErasureStates
<1>3. OwedWhenGone'
  BY <1>1 DEF BiometricsInv, OwedWhenGone
<1>4. LastRevocationPurges'
  BY <1>1 DEF BiometricsInv, RequestsKnow, LastRevocationPurges
<1> QED
  BY <1>2, <1>3, <1>4 DEF BiometricsInv

(* What SearchMoves asks of a step that keeps the consents and the answers. *)
LEMMA SearchUncharged ==
  ASSUME BiometricsInv, NEW s \in Searches, NEW to \in SearchStates,
         search' = [search EXCEPT ![s] = to],
         search[s].pc \in {"charged", "answered", "unanswered"} <=>
           to.pc \in {"charged", "answered", "unanswered"},
         to.pc # "idle", to.consent = search[s].consent \/ search[s].pc = "idle",
         UNCHANGED <<event, consent, faceVectors, collection, points, job, erasure, sweep, owed>>,
         sessions' \in SUBSET Searches, matches' \in MatchRows,
         to.consent \in Consents, consent[to.consent].row = "granted", SessionsErased'
  PROVE  BiometricsInv'
<1>1. \A c : Charged(c)' = Charged(c)
  BY DEF Charged, SearchesAt, BiometricsInv, BiometricsTyped
<1>2. BiometricsTyped'
  BY DEF BiometricsInv, BiometricsTyped, SessionRows
<1>3. AnswersCounted'
  BY <1>1 DEF BiometricsInv, AnswersCounted
<1>4. \A t \in Searches : search'[t].pc # "idle" =>
        search'[t].consent \in Consents /\ consent[search'[t].consent].row = "granted"
  BY DEF BiometricsInv, BiometricsTyped, RequestsKnow
<1> QED
  BY <1>2, <1>3, <1>4, SearchMoves

LEMMA SearchSteps ==
  ASSUME BiometricsInv, NEW s \in Searches, SearchStep(s), ~ChargeSearch(s)
  PROVE  BiometricsInv'
<1>1. /\ search \in [Searches -> SearchStates] /\ search[s] \in SearchStates
      /\ sessions \subseteq Searches /\ matches \in MatchRows /\ matches \in [Searches -> SUBSET Photos]
      /\ search[s].pc # "idle" => search[s].consent \in Consents /\ consent[search[s].consent].row = "granted"
      /\ \A t \in Searches : matches[t] # {} => t \in sessions
      /\ \A r \in Erasures : erasure[r].pc = "replied" =>
           ErasedFor(r) /\ erasure[r].consent \in Consents /\ consent[erasure[r].consent].revoked
  BY DEF BiometricsInv, BiometricsTyped, SessionRows, MatchRows, RequestsKnow, SessionsErased
<1>2. ASSUME NEW c \in Consents, StartSearch(s, c) PROVE BiometricsInv'
  <2> DEFINE to == [search[s] EXCEPT !.pc = "embed", !.consent = c]
  <2>1. /\ search' = [search EXCEPT ![s] = to] /\ search[s].pc = "idle"
        /\ consent[c].row = "granted" /\ ~consent[c].revoked
        /\ UNCHANGED <<event, consent, faceVectors, collection, points, job, sessions, matches, erasure,
                       sweep, owed>>
    BY <1>1, <1>2 DEF StartSearch, VerifyConsent, faceVars
  <2>2. to \in SearchStates /\ to.pc = "embed" /\ to.consent = c
    BY <1>1 DEF SearchStates
  <2> HIDE DEF to
  <2>3. SessionsErased'
    BY <1>1, <2>1, <2>2 DEF SessionsErased, ErasedFor
  <2> QED
    BY <1>1, <2>1, <2>2, <2>3, SearchUncharged
<1>3. CASE FailSearch(s) \/ SearchFaces(s) \/ StoreSession(s) \/ StoreMatches(s)
  <2> DEFINE to == search'[s]
  <2>1. search' = [search EXCEPT ![s] = to]
    BY <1>1, <1>3 DEF FailSearch, SearchFaces, StoreSession, StoreMatches
  <2>2. to \in SearchStates /\ to.consent = search[s].consent
        /\ to.pc \notin {"idle", "charged", "answered", "unanswered"}
    <3>1. CASE SearchFaces(s)
      <4>1. PICK hits \in {{}, In(EventOfSearch(s), points)} :
              search' = [search EXCEPT ![s].pc = "store",
                                       ![s].found = {v[1] : v \in hits \cap faceVectors}]
        BY <3>1 DEF SearchFaces
      <4>2. {v[1] : v \in hits \cap faceVectors} \subseteq Photos
        BY DEF BiometricsInv, BiometricsTyped, VectorRows
      <4> QED
        BY <1>1, <4>1, <4>2 DEF SearchStates
    <3>2. CASE FailSearch(s) \/ StoreSession(s) \/ StoreMatches(s)
      BY <1>1, <3>2 DEF FailSearch, StoreSession, StoreMatches, SearchStates
    <3> QED
      BY <1>3, <3>1, <3>2
  <2>3. /\ search[s].pc \in {"embed", "store", "match"}
        /\ UNCHANGED <<event, consent, faceVectors, collection, points, job, erasure, sweep, owed>>
    BY <1>3 DEF FailSearch, SearchFaces, StoreSession, StoreMatches, faceVars
  <2>4. /\ sessions' = sessions \/ (sessions' = sessions \cup {s} /\ search[s].pc = "store")
        /\ matches' = matches \/ (s \in sessions /\ matches' = [matches EXCEPT ![s] = search[s].found])
        /\ to.pc = "store" => search[s].pc = "embed"
        /\ to.pc # "embed"
        /\ matches' # matches => sessions' = sessions
    BY <1>1, <1>3, <2>3 DEF FailSearch, SearchFaces, StoreSession, StoreMatches, SearchStates
  <2>5. sessions' \subseteq Searches /\ matches' \in MatchRows
    BY <1>1, <2>4 DEF MatchRows, SearchStates
  <2> HIDE DEF to
  <2>6. \A t \in Searches : matches'[t] # {} => t \in sessions'
    BY <1>1, <2>4
  <2>7. \A r \in Erasures : erasure[r].pc = "replied" => ErasedFor(r)'
    BY <1>1, <2>1, <2>2, <2>3, <2>4 DEF ErasedFor
  <2>8. SessionsErased'
    BY <2>3, <2>6, <2>7 DEF SessionsErased
  <2> QED
    BY <1>1, <2>1, <2>2, <2>3, <2>5, <2>8, SearchUncharged
<1>4. CASE AnswerSearch(s)
  <2> PICK pc \in {"answered", "unanswered"} : search' = [search EXCEPT ![s].pc = pc]
    BY <1>4 DEF AnswerSearch
  <2> DEFINE to == [search[s] EXCEPT !.pc = pc]
  <2>1. /\ search' = [search EXCEPT ![s] = to] /\ search[s].pc = "charged"
        /\ UNCHANGED <<event, consent, faceVectors, collection, points, job, sessions, matches, erasure,
                       sweep, owed>>
    BY <1>1, <1>4 DEF AnswerSearch, faceVars
  <2>2. to \in SearchStates /\ to.pc = pc /\ to.consent = search[s].consent
    BY <1>1 DEF SearchStates
  <2> HIDE DEF to
  <2>3. SessionsErased'
    BY <1>1, <2>1, <2>2 DEF SessionsErased, ErasedFor
  <2> QED
    BY <1>1, <2>1, <2>2, <2>3, SearchUncharged
<1> QED
  BY <1>2, <1>3, <1>4 DEF SearchStep

(* A charge is one search more of its consent, and one more of its quota used. *)
LEMMA ChargeKeeps == ASSUME BiometricsInv, NEW s \in Searches, ChargeSearch(s) PROVE BiometricsInv'
<1> PICK c \in Consents : c = search[s].consent
  BY DEF ChargeSearch, BiometricsInv, RequestsKnow
<1>1. /\ search \in [Searches -> SearchStates] /\ search[s] \in SearchStates /\ search[s].pc = "charge"
      /\ c \in Consents /\ consent[c].row = "granted" /\ consent[c].used \in 0 .. Quota
      /\ consent \in [Consents -> ConsentStates] /\ consent[c] \in ConsentStates
      /\ UNCHANGED <<event, faceVectors, collection, points, job, sessions, matches, erasure, sweep, owed>>
  BY DEF BiometricsInv, BiometricsTyped, ChargeSearch, RequestsKnow, faceVars, ConsentStates
<1>2. CASE consent[c].used >= Quota
  <2> DEFINE to == [search[s] EXCEPT !.pc = "failed"]
  <2>1. search' = [search EXCEPT ![s] = to] /\ consent' = consent
    BY <1>1, <1>2, BiometricsAssumption DEF ChargeSearch
  <2>2. to \in SearchStates /\ to.pc = "failed" /\ to.consent = c
    BY <1>1 DEF SearchStates
  <2> HIDE DEF to
  <2>3. SessionsErased'
    BY <1>1, <2>1, <2>2 DEF BiometricsInv, SessionsErased, ErasedFor
  <2>4. sessions' \subseteq Searches /\ matches' \in MatchRows
    BY <1>1 DEF BiometricsInv, BiometricsTyped, SessionRows
  <2> QED
    BY <1>1, <2>1, <2>2, <2>3, <2>4, SearchUncharged
<1>3. CASE consent[c].used < Quota
  <2>1. /\ consent' = [consent EXCEPT ![c].used = @ + 1]
        /\ search' = [search EXCEPT ![s].pc = "charged"]
    BY <1>1, <1>3 DEF ChargeSearch, IncrementSearchUsage
  <2>8. [consent[c] EXCEPT !.used = consent[c].used + 1] \in ConsentStates
    BY <1>1, <1>3, BiometricsAssumption DEF ConsentStates
  <2>9. consent' \in [Consents -> ConsentStates]
    BY <1>1, <2>1, <2>8
  <2>2. /\ consent' \in [Consents -> ConsentStates] /\ consent'[c].used = consent[c].used + 1
        /\ \A d \in Consents :
             /\ consent'[d].row = consent[d].row /\ consent'[d].event = consent[d].event
             /\ consent'[d].revoked = consent[d].revoked
             /\ d # c => consent'[d].used = consent[d].used
    BY <1>1, <2>1, <2>9 DEF ConsentStates
  <2>3. /\ search' \in [Searches -> SearchStates] /\ search'[s].pc = "charged"
        /\ \A t \in Searches : search'[t].consent = search[t].consent /\ (t # s => search'[t] = search[t])
    BY <1>1, <2>1 DEF SearchStates
  <2>4. BiometricsTyped'
    BY <1>1, <2>2, <2>3 DEF BiometricsInv, BiometricsTyped
  <2>5. SessionsErased'
    BY <1>1, <2>3 DEF BiometricsInv, SessionsErased, ErasedFor
  <2>6. AnswersCounted'
    <3>1. Charged(c)' = Charged(c) \cup {s} /\ s \notin Charged(c)
      BY <1>1, <2>3 DEF Charged, SearchesAt
    <3>2. \A d \in Consents \ {c} : Charged(d)' = Charged(d)
      BY <1>1, <2>3 DEF Charged, SearchesAt
    <3>3. IsFiniteSet(Charged(c)) /\ Cardinality(Charged(c)) = consent[c].used
      BY <1>1 DEF BiometricsInv, AnswersCounted
    <3>4. IsFiniteSet(Charged(c)') /\ Cardinality(Charged(c)') = consent[c].used + 1
      BY <3>1, <3>3, FS_AddElement
    <3> QED
      BY <2>2, <3>2, <3>4 DEF BiometricsInv, AnswersCounted
  <2>7. \A t \in Searches : search'[t].pc # "idle" =>
          search'[t].consent \in Consents /\ consent[search'[t].consent].row = "granted"
    BY <1>1, <2>3 DEF BiometricsInv, RequestsKnow
  <2> QED
    BY <1>1, <2>2, <2>4, <2>5, <2>6, <2>7, SearchMoves
<1> QED
  BY <1>1, <1>2, <1>3, BiometricsAssumption

(* A step of an erasure: the consents only get revoked, the sessions fewer. *)
LEMMA ErasureMoves ==
  ASSUME BiometricsInv, NEW r \in Erasures, NEW to \in ErasureStates,
         erasure' = [erasure EXCEPT ![r] = to], erasure[r].pc # "replied",
         UNCHANGED <<event, collection, points, job, search, sweep>>,
         consent' \in [Consents -> ConsentStates],
         \A c \in Consents :
           /\ consent'[c].row = consent[c].row /\ consent'[c].event = consent[c].event
           /\ consent'[c].used = consent[c].used
           /\ consent[c].revoked => consent'[c].revoked,
         faceVectors' \subseteq faceVectors, owed' \in [Events -> SUBSET VectorRows],
         sessions' \subseteq sessions, matches' \in MatchRows,
         \A s \in Searches : matches'[s] # {} => matches[s] # {} /\ s \in sessions',
         to.pc # "idle", to.consent \in Consents, consent[to.consent].row = "granted",
         to.pc \in {"flip", "others", "purge"} => ~to.purged,
         to.pc \in {"others", "purge", "sessions", "replied"} => consent'[to.consent].revoked,
         to.pc = "replied" => ErasedFor(r)',
         OwedWhenGone', LastRevocationPurges'
  PROVE  BiometricsInv'
<1>1. erasure \in [Erasures -> ErasureStates] /\ erasure' \in [Erasures -> ErasureStates]
      /\ erasure'[r] = to /\ \A q \in Erasures \ {r} : erasure'[q] = erasure[q]
  BY DEF BiometricsInv, BiometricsTyped
<1>2. BiometricsTyped'
  BY <1>1 DEF BiometricsInv, BiometricsTyped, SessionRows
<1>3. RequestsKnow'
  <2>1. \A s \in Searches : search'[s].pc # "idle" =>
          search'[s].consent \in Consents /\ consent'[search'[s].consent].row = "granted"
    BY DEF BiometricsInv, RequestsKnow
  <2>2. \A q \in Erasures : erasure'[q].pc # "idle" =>
          erasure'[q].consent \in Consents /\ consent'[erasure'[q].consent].row = "granted"
    BY <1>1 DEF BiometricsInv, RequestsKnow
  <2>3. ASSUME NEW q \in Erasures
        PROVE  /\ erasure'[q].pc \in {"idle", "flip", "others", "purge"} => ~erasure'[q].purged
               /\ erasure'[q].pc \in {"others", "purge", "sessions", "replied"} =>
                    consent'[erasure'[q].consent].revoked
    BY <1>1 DEF BiometricsInv, RequestsKnow
  <2> QED
    BY <2>1, <2>2, <2>3 DEF RequestsKnow
<1>4. AnswersCounted'
  <2>1. \A c : Charged(c)' = Charged(c)
    BY DEF Charged, SearchesAt
  <2> QED
    BY <2>1 DEF BiometricsInv, AnswersCounted
<1>5. SessionsErased'
  <2>1. \A q \in Erasures \ {r} : erasure'[q].pc = "replied" => ErasedFor(q)'
    BY <1>1 DEF BiometricsInv, SessionsErased, ErasedFor
  <2> QED
    BY <1>1, <2>1 DEF SessionsErased
<1> QED
  BY <1>2, <1>3, <1>4, <1>5 DEF BiometricsInv

(* The rows owed are still somebody's to purge after a step of an erasure,   *)
(* if the erasure was not the one to purge them, or still is.                *)
LEMMA StillOwed ==
  ASSUME BiometricsInv, NEW r \in Erasures, NEW to, erasure' = [erasure EXCEPT ![r] = to],
         UNCHANGED <<consent, owed>>,
         erasure[r].pc = "idle" \/ to.consent = erasure[r].consent,
         \/ to.pc \in {"others", "purge", "dead"} /\ to.purged = erasure[r].purged
         \/ erasure[r].pc \notin {"others", "purge", "dead"}
         \/ Active(consent[erasure[r].consent].event) # {}
  PROVE  OwedWhenGone' /\ LastRevocationPurges'
<1>1. \A e : Active(e)' = Active(e)
  BY DEF Active
<1>2. OwedWhenGone'
  BY <1>1 DEF BiometricsInv, OwedWhenGone
<1>3. erasure'[r] = to /\ \A q \in Erasures \ {r} : erasure'[q] = erasure[q]
  BY DEF BiometricsInv, BiometricsTyped
<1>4. LastRevocationPurges'
  <2> SUFFICES ASSUME NEW e \in Events, Active(e) = {}, owed[e] # {}
               PROVE  \E q \in Erasures :
                        /\ erasure'[q].pc \in {"others", "purge", "dead"} /\ ~erasure'[q].purged
                        /\ consent[erasure'[q].consent].event = e
    BY <1>1 DEF LastRevocationPurges
  <2>1. PICK q \in Erasures : /\ erasure[q].pc \in {"others", "purge", "dead"} /\ ~erasure[q].purged
                              /\ consent[erasure[q].consent].event = e
    BY DEF BiometricsInv, LastRevocationPurges
  <2>2. CASE q # r
    BY <1>3, <2>1, <2>2
  <2>3. CASE q = r
    BY <1>3, <2>1, <2>3
  <2> QED
    BY <2>2, <2>3
<1> QED
  BY <1>2, <1>4

LEMMA ErasureSteps ==
  ASSUME BiometricsInv, NEW r \in Erasures, ErasureStep(r)
  PROVE  BiometricsInv'
<1> DEFINE was == erasure[r]
<1>1. /\ erasure \in [Erasures -> ErasureStates] /\ was \in ErasureStates
      /\ consent \in [Consents -> ConsentStates] /\ matches \in MatchRows /\ matches \in [Searches -> SUBSET Photos]
      /\ owed \in [Events -> SUBSET VectorRows] /\ sessions \subseteq Searches
      /\ \A s \in Searches : matches[s] # {} => s \in sessions
      /\ was.pc # "idle" =>
           /\ was.consent \in Consents /\ consent[was.consent].row = "granted"
           /\ consent[was.consent].event \in Events
      /\ was.pc \in {"idle", "flip", "others", "purge"} => ~was.purged
      /\ was.pc \in {"others", "purge", "sessions", "replied"} => consent[was.consent].revoked
  BY DEF BiometricsInv, BiometricsTyped, MatchRows, SessionRows, RequestsKnow, SessionsErased
<1>2. \A pc : [erasure EXCEPT ![r].pc = pc] = [erasure EXCEPT ![r] = [was EXCEPT !.pc = pc]]
  BY <1>1
<1>3. ASSUME NEW c \in Consents, StartErasure(r, c) PROVE BiometricsInv'
  <2> DEFINE pc == IF consent[c].revoked THEN "sessions" ELSE "flip"
             to == [was EXCEPT !.consent = c, !.pc = pc]
  <2>1. /\ was.pc = "idle" /\ consent[c].row = "granted" /\ erasure' = [erasure EXCEPT ![r] = to]
        /\ UNCHANGED <<event, consent, faceVectors, collection, points, job, search, sessions, matches,
                       sweep, owed>>
    BY <1>1, <1>3 DEF StartErasure, faceVars, searchVars
  <2>2. /\ to \in ErasureStates /\ to.pc = pc /\ to.consent = c /\ to.purged = was.purged
        /\ pc \in {"sessions", "flip"} /\ (pc = "sessions" => consent[c].revoked)
    BY <1>1 DEF ErasureStates
  <2> HIDE DEF to, pc
  <2>3. OwedWhenGone' /\ LastRevocationPurges'
    BY <2>1, <2>2, StillOwed
  <2> QED
    BY <1>1, <2>1, <2>2, <2>3, ErasureMoves
<1>4. CASE Revoke(r)
  <2> DEFINE to == [was EXCEPT !.pc = "others"]
  <2> PICK c \in Consents, e \in Events : c = was.consent /\ e = consent[c].event
    BY <1>1, <1>4 DEF Revoke
  <2>1. /\ was.pc = "flip" /\ erasure' = [erasure EXCEPT ![r] = to]
        /\ consent' = [consent EXCEPT ![c].revoked = TRUE]
        /\ owed' = IF Active(e) = {c} THEN [owed EXCEPT ![e] = In(e, faceVectors)] ELSE owed
        /\ UNCHANGED <<event, faceVectors, collection, points, job, search, sessions, matches, sweep>>
    BY <1>2, <1>4 DEF Revoke, Goto, faceVars, searchVars
  <2>2. to \in ErasureStates /\ to.pc = "others" /\ to.consent = c /\ ~to.purged
    BY <1>1, <2>1 DEF ErasureStates
  <2>10. [consent[c] EXCEPT !.revoked = TRUE] \in ConsentStates
    <3>1. consent[c] \in ConsentStates
      BY <1>1
    <3>2. \A yes \in BOOLEAN : [consent[c] EXCEPT !.revoked = yes] \in ConsentStates
      BY <3>1 DEF ConsentStates
    <3> QED
      BY <3>2, Zenon
  <2>11. consent' \in [Consents -> ConsentStates] /\ consent'[c].revoked
    BY <1>1, <2>1, <2>10
  <2>3. /\ consent' \in [Consents -> ConsentStates] /\ consent'[c].revoked
        /\ \A d \in Consents :
             /\ consent'[d].row = consent[d].row /\ consent'[d].event = consent[d].event
             /\ consent'[d].used = consent[d].used
             /\ consent[d].revoked => consent'[d].revoked
             /\ d # c => consent'[d] = consent[d]
    BY <1>1, <2>1, <2>11 DEF ConsentStates
  <2>4. owed' \in [Events -> SUBSET VectorRows] /\ \A d \in Events \ {e} : owed'[d] = owed[d]
    BY <1>1, <2>1 DEF In, BiometricsInv, BiometricsTyped
  <2> HIDE DEF to
  <2>5. \A d \in Events : Active(d)' = Active(d) \ {c}
    BY <2>3 DEF Active
  <2>6. \A d \in Events \ {e} : c \notin Active(d)
    BY DEF Active
  <2>7. OwedWhenGone'
    BY <2>1, <2>4, <2>5 DEF BiometricsInv, OwedWhenGone
  <2>8. erasure'[r] = to /\ \A q \in Erasures \ {r} : erasure'[q] = erasure[q]
    BY <1>1, <2>1
  <2>9. LastRevocationPurges'
    <3> SUFFICES ASSUME NEW d \in Events, Active(d) \ {c} = {}, owed'[d] # {}
                 PROVE  \E q \in Erasures :
                          /\ erasure'[q].pc \in {"others", "purge", "dead"} /\ ~erasure'[q].purged
                          /\ consent'[erasure'[q].consent].event = d
      BY <2>5 DEF LastRevocationPurges
    <3>1. CASE d = e
      BY <2>2, <2>3, <2>8, <3>1
    <3>2. CASE d # e
      <4>1. Active(d) = {} /\ owed[d] # {}
        BY <2>4, <2>6, <3>2
      <4>2. PICK q \in Erasures : /\ erasure[q].pc \in {"others", "purge", "dead"} /\ ~erasure[q].purged
                                  /\ consent[erasure[q].consent].event = d
        BY <4>1 DEF BiometricsInv, LastRevocationPurges
      <4>3. q # r /\ erasure[q].consent \in Consents
        BY <2>1, <4>2 DEF BiometricsInv, RequestsKnow
      <4> QED
        BY <2>3, <2>8, <4>2, <4>3
    <3> QED
      BY <3>1, <3>2
  <2> QED
    <3>1. /\ to.consent \in Consents /\ consent[to.consent].row = "granted" /\ consent'[to.consent].revoked
          /\ to.pc # "idle" /\ to.pc # "replied" /\ ~to.purged /\ erasure[r].pc # "replied"
      BY <1>1, <2>1, <2>2, <2>3
    <3>2. /\ matches' \in MatchRows /\ sessions' \subseteq sessions /\ faceVectors' \subseteq faceVectors
          /\ \A s \in Searches : matches'[s] # {} => matches[s] # {} /\ s \in sessions'
      BY <1>1, <2>1
    <3> QED
      BY <2>1, <2>2, <2>3, <2>4, <2>7, <2>9, <3>1, <3>2, ErasureMoves
<1>5. CASE AskForOthers(r) \/ DieErasing(r)
  <2> DEFINE to == erasure'[r]
  <2>1. /\ erasure' = [erasure EXCEPT ![r] = to] /\ to \in ErasureStates /\ to.consent = was.consent
        /\ to.purged = was.purged /\ was.pc \in {"flip", "others", "purge", "sessions"}
        /\ \/ to.pc = "dead"
           \/ was.pc = "others" /\ to.pc = "purge"
           \/ was.pc = "others" /\ to.pc = "sessions" /\ Active(consent[was.consent].event) # {}
    BY <1>1, <1>5 DEF AskForOthers, DieErasing, Goto, ErasureStates, HasOtherActiveConsents
  <2>2. UNCHANGED <<event, consent, faceVectors, collection, points, job, search, sessions, matches,
                    sweep, owed>>
    BY <1>5 DEF AskForOthers, DieErasing, faceVars, searchVars
  <2> HIDE DEF to
  <2>3. OwedWhenGone' /\ LastRevocationPurges'
    BY <2>1, <2>2, StillOwed
  <2> QED
    BY <1>1, <2>1, <2>2, <2>3, ErasureMoves
<1>6. CASE DeleteVectorsForEvent(r)
  <2> DEFINE to == [was EXCEPT !.pc = "sessions", !.purged = TRUE]
  <2> PICK e \in Events : e = consent[was.consent].event
    BY <1>1, <1>6 DEF DeleteVectorsForEvent
  <2>1. /\ was.pc = "purge" /\ erasure' = [erasure EXCEPT ![r] = to]
        /\ faceVectors' \subseteq faceVectors /\ owed' = [owed EXCEPT ![e] = {}]
        /\ UNCHANGED <<event, consent, collection, points, job, search, sessions, matches, sweep>>
    BY <1>1, <1>6 DEF DeleteVectorsForEvent, searchVars
  <2>2. to \in ErasureStates /\ to.pc = "sessions" /\ to.consent = was.consent
    BY <1>1 DEF ErasureStates
  <2>3. /\ owed' \in [Events -> SUBSET VectorRows] /\ owed'[e] = {}
        /\ \A d \in Events \ {e} : owed'[d] = owed[d]
        /\ erasure'[r] = to /\ \A q \in Erasures \ {r} : erasure'[q] = erasure[q]
    BY <1>1, <2>1
  <2> HIDE DEF to
  <2>4. \A d : Active(d)' = Active(d)
    BY <2>1 DEF Active
  <2>5. OwedWhenGone'
    BY <2>3, <2>4 DEF BiometricsInv, OwedWhenGone
  <2>6. LastRevocationPurges'
    <3> SUFFICES ASSUME NEW d \in Events, Active(d) = {}, owed'[d] # {}
                 PROVE  \E q \in Erasures :
                          /\ erasure'[q].pc \in {"others", "purge", "dead"} /\ ~erasure'[q].purged
                          /\ consent[erasure'[q].consent].event = d
      BY <2>1, <2>4 DEF LastRevocationPurges
    <3>1. d # e /\ owed[d] # {}
      BY <2>3
    <3>2. PICK q \in Erasures : /\ erasure[q].pc \in {"others", "purge", "dead"} /\ ~erasure[q].purged
                                /\ consent[erasure[q].consent].event = d
      BY <3>1 DEF BiometricsInv, LastRevocationPurges
    <3> QED
      BY <2>3, <3>1, <3>2
  <2> QED
    <3>1. /\ to.consent \in Consents /\ consent[to.consent].row = "granted" /\ consent[to.consent].revoked
          /\ to.pc # "idle" /\ to.pc # "replied" /\ erasure[r].pc # "replied"
      BY <1>1, <2>1, <2>2
    <3>2. /\ matches' \in MatchRows /\ sessions' \subseteq sessions
          /\ \A s \in Searches : matches'[s] # {} => matches[s] # {} /\ s \in sessions'
      BY <1>1, <2>1
    <3> QED
      BY <1>1, <2>1, <2>2, <2>3, <2>5, <2>6, <3>1, <3>2, ErasureMoves
<1>7. CASE EraseSessions(r) \/ FailErasingSessions(r)
  <2> DEFINE kept == SessionsOf(was.consent)
             overtaken == RunningOf(was.consent)
  <2> PICK left \in {{}, kept} : Reply(r, left) /\ (left = kept \/ sessions' = sessions \ kept)
    BY <1>7 DEF EraseSessions, FailErasingSessions
  <2> DEFINE to == [was EXCEPT !.pc = "replied", !.left = left, !.running = overtaken]
  <2>1. /\ was.pc = "sessions" /\ erasure' = [erasure EXCEPT ![r] = to]
        /\ sessions' \in {sessions, sessions \ kept}
        /\ (matches' = matches /\ sessions' = sessions) \/ matches' = Without(kept)
        /\ UNCHANGED <<event, consent, faceVectors, collection, points, job, search, sweep, owed>>
    BY <1>1, <1>7 DEF EraseSessions, FailErasingSessions, Reply, faceVars
  <2>2. /\ to \in ErasureStates /\ to.pc = "replied" /\ to.consent = was.consent /\ to.purged = was.purged
        /\ to.running = overtaken /\ to.left = left
    BY <1>1 DEF ErasureStates, SessionsOf, RunningOf
  <2>3. /\ matches' \in MatchRows /\ sessions' \subseteq sessions
        /\ \A s \in Searches : matches'[s] # {} => matches[s] # {} /\ s \in sessions'
    BY <1>1, <2>1 DEF MatchRows, Without
  <2>6. erasure'[r] = to /\ was.consent = erasure[r].consent
    BY <1>1, <2>1
  <2> HIDE DEF to
  <2>4. ErasedFor(r)'
    BY <1>1, <2>1, <2>2, <2>3, <2>6 DEF ErasedFor, SessionsOf, RunningOf
  <2> HIDE DEF kept, overtaken
  <2>5. OwedWhenGone' /\ LastRevocationPurges'
    BY <2>1, <2>2, StillOwed
  <2> QED
    BY <1>1, <2>1, <2>2, <2>3, <2>4, <2>5, ErasureMoves
<1> QED
  BY <1>3, <1>4, <1>5, <1>6, <1>7 DEF ErasureStep

(* BiometricsInv is an inductive invariant of the consents and their faces. *)
THEOREM BiometricsInductive == Spec => []BiometricsInv
<1>1. BiometricsInv /\ [Next]_biometricVars => BiometricsInv'
  <2> SUFFICES ASSUME BiometricsInv, [Next]_biometricVars PROVE BiometricsInv'
    OBVIOUS
  <2>1. ASSUME NEW e \in Events, EventStep(e) \/ SweepStep(e) \/ AbandonSweep(e) PROVE BiometricsInv'
    BY <2>1, EventTyped, RevokeAllKeeps DEF SweepStep
  <2>2. ASSUME NEW c \in Consents, Grant(c) \/ Expire(c) PROVE BiometricsInv'
    BY <2>2, ConsentSteps
  <2>3. ASSUME NEW p \in Photos, JobStep(p) PROVE BiometricsInv'
    BY <2>3, JobTyped
  <2>4. ASSUME NEW s \in Searches, SearchStep(s) PROVE BiometricsInv'
    BY <2>4, SearchSteps, ChargeKeeps
  <2>5. ASSUME NEW r \in Erasures, ErasureStep(r) PROVE BiometricsInv'
    BY <2>5, ErasureSteps
  <2>6. CASE UNCHANGED biometricVars
    <3>1. BiometricsTyped'
      BY <2>6 DEF biometricVars, BiometricsInv, BiometricsTyped
    <3> QED
      BY <2>6, <3>1, RequestsAlone DEF biometricVars
  <2> QED
    BY <2>1, <2>2, <2>3, <2>4, <2>5, <2>6 DEF Next
<1> QED
  BY <1>1, BiometricsInvInit, PTL DEF Spec

(* Every row is a row of the schema, and every process where it can be.      *)
THEOREM BiometricsTypeCorrect == Events # {} => (Spec => []BiometricsTypeOK)
<1> SUFFICES ASSUME Events # {} PROVE Spec => []BiometricsTypeOK
  OBVIOUS
<1>1. Events \cup {CHOOSE e \in Events : TRUE} = Events
  OBVIOUS
<1>2. BiometricsInv => BiometricsTypeOK
  BY <1>1 DEF BiometricsInv, BiometricsTyped, BiometricsTypeOK, ConsentStates, ConsentRows
<1> QED
  BY <1>2, BiometricsInductive, PTL

(* However many searches of a consent overlap, each one answered is charged, *)
(* and no more than the quota are.                                           *)
THEOREM QuotaHeldAlways == Spec => []QuotaHeld
<1>1. BiometricsInv => QuotaHeld
  <2> SUFFICES ASSUME BiometricsInv, NEW c \in Consents
               PROVE  /\ Cardinality(Charged(c)) = consent[c].used
                      /\ Cardinality(Answered(c)) <= consent[c].used
                      /\ consent[c].used <= Quota
    BY DEF QuotaHeld
  <2>1. consent[c].used \in 0 .. Quota
    BY DEF BiometricsInv, BiometricsTyped, ConsentStates
  <2>2. Answered(c) \subseteq Charged(c)
    BY DEF Answered, Charged, SearchesAt
  <2>3. IsFiniteSet(Charged(c)) /\ Cardinality(Charged(c)) = consent[c].used
    BY DEF BiometricsInv, AnswersCounted
  <2> QED
    BY <2>1, <2>2, <2>3, FS_Subset, BiometricsAssumption
<1> QED
  BY <1>1, BiometricsInductive, PTL

(* When the last active consent of an event is revoked, by whichever of the  *)
(* erasures that overlap, the rows stored then are purged, are about to be,  *)
(* or the request that would have died.                                      *)
THEOREM LastRevocationPurgesAlways == Spec => []LastRevocationPurges
<1>1. BiometricsInv => LastRevocationPurges
  BY DEF BiometricsInv
<1> QED
  BY <1>1, BiometricsInductive, PTL

(* After the answer to an erasure nothing of its consent is stored, or comes *)
(* to be, but for the searches it overtook and the sessions it could not     *)
(* delete.                                                                   *)
THEOREM ErasedStaysErasedAlways == Spec => []ErasedStaysErased
<1>1. BiometricsInv => ErasedStaysErased
  BY DEF BiometricsInv, SessionsErased, ErasedFor, ErasedStaysErased
<1> QED
  BY <1>1, BiometricsInductive, PTL

(***************************************************************************)
(* Photos: one photo, from its upload to its takedown.                     *)
(***************************************************************************)
(* A photo's row, a job of it and an admin's operation come after its upload *)
(* was put together, which then stays so.                                    *)
UploadKnows ==
  /\ session.status = "none" <=> session.multipart = "none"
  /\ \A c \in Clients : client[c] \in {"store", "insert"} => session.multipart = "stored"
  /\ photo.status # "none" => session.multipart = "stored"
  /\ \A q \in Queues : jobs[q].pc # "none" => photo.status # "none"
  /\ \A a \in Admins : admin[a].pc # "idle" => photo.status # "none"

(* While nothing died or failed, a session completed has its photo or a      *)
(* request about to insert it, and an original is gone only by an admin who  *)
(* is about to mark the photo taken down.                                    *)
NothingLost == faults = 0 =>
  /\ session.status = "completed" =>
       photo.status # "none" \/ \E c \in Clients : client[c] = "insert"
  /\ session.multipart = "stored" /\ ~photo.takedownAt
       /\ (\A a \in Admins : admin[a].pc \notin {"vectors", "flip"}) => original

(* What hides a photo, and what an admin has done on the way to an answer. *)
ModerationKnows ==
  /\ photo.moderation # "visible" => photo.hidden
  /\ \A a \in Admins :
       /\ admin[a].seen \notin Decided
       /\ admin[a].pc \in {"vectors", "flip"} => ~original
       /\ admin[a].pc = "close" /\ admin[a].approves /\ ~admin[a].failed
            => ~original /\ photo.takedownAt
  /\ request.status = "fulfilled" /\ request.approved => request.removed
  /\ request.removed => ~original /\ photo.takedownAt /\ photo.status # "none"

PhotosInv == TypeOK /\ UploadKnows /\ NothingLost /\ ModerationKnows

(* There is a kind "preview", and the attempts and indices a job starts from *)
(* are its own.                                                              *)
LEMMA Ranges ==
  /\ "preview" \in Kind /\ \A i \in DOMAIN Kinds : Kinds[i] \in Kind
  /\ DOMAIN Kinds = 1 .. Len(Kinds) /\ Len(Kinds) \in Nat
  /\ DOMAIN FanOut = 1 .. 3 /\ Len(FanOut) = 3
  /\ {"ingest", "derivatives", "watermark", "face", "quality"} \subseteq Queues
BY PhotosAssumption DEF Kind, FanOut, Queues

LEMMA PhotosInvInit == PhotosInit => PhotosInv
<1> SUFFICES ASSUME PhotosInit PROVE PhotosInv
  OBVIOUS
<1>1. TypeOK
  <2>1. running \in Deployments /\ faults \in 0 .. MaxFaults /\ ops \in 0 .. MaxOps
    BY PhotosAssumption DEF PhotosInit
  <2>2. session \in Session /\ photo \in Photo /\ request \in Request
    BY DEF PhotosInit, Session, Photo, Request, Status, Decided
  <2>3. client \in [Clients -> {"idle", "complete", "store", "insert", "abort", "aborted"}]
    BY DEF PhotosInit
  <2>4. original \in BOOLEAN /\ faces \in BOOLEAN
    BY Zenon DEF PhotosInit
  <2>5. objects \in Image /\ rows \in Image
    BY DEF PhotosInit, Image
  <2>6. jobs \in [Queues -> Job]
    BY Ranges, PhotosAssumption DEF PhotosInit, Job
  <2>7. admin \in [Admins -> Admin]
    BY DEF PhotosInit, Admin, Status, Decided
  <2> QED
    BY <2>1, <2>2, <2>3, <2>4, <2>5, <2>6, <2>7 DEF TypeOK
<1>2. UploadKnows
  BY DEF PhotosInit, UploadKnows
<1>3. NothingLost
  BY DEF PhotosInit, NothingLost
<1>4. ModerationKnows
  BY DEF PhotosInit, ModerationKnows, Decided
<1> QED
  BY <1>1, <1>2, <1>3, <1>4 DEF PhotosInv

(* A step of a job leaves the upload, the original, the admins and what      *)
(* hides the photo alone; the photo's status it rewrites, if there is one.   *)
LEMMA JobsKeep ==
  ASSUME PhotosInv, UNCHANGED <<running, session, client, original, ops, admin, request>>,
         faults' \in {faults, faults + 1}, faults' \in 0 .. MaxFaults,
         jobs' \in [Queues -> Job], objects' \in Image, rows' \in Image, faces' \in BOOLEAN,
         \A q \in Queues : jobs'[q].pc # "none" => photo.status # "none",
         photo' \in Photo, photo'.moderation = photo.moderation, photo'.hidden = photo.hidden,
         photo'.takedownAt = photo.takedownAt,
         \/ photo'.status = photo.status
         \/ photo.status # "none" /\ photo'.status # "none"
  PROVE  PhotosInv'
<1>1. TypeOK'
  BY DEF PhotosInv, TypeOK
<1>2. UploadKnows'
  BY DEF PhotosInv, UploadKnows
<1>3. NothingLost'
  <2>1. faults' = 0 => faults = 0
    BY DEF PhotosInv, TypeOK
  <2> QED
    BY <2>1 DEF PhotosInv, NothingLost
<1>4. ModerationKnows'
  BY DEF PhotosInv, ModerationKnows
<1> QED
  BY <1>1, <1>2, <1>3, <1>4 DEF PhotosInv

(* Moving a job, or adding one, keeps the jobs typed. *)
LEMMA JobMoved ==
  ASSUME PhotosInv, NEW q \in Queues,
         NEW pc \in {"wait", "fetch", "add", "put", "row", "ready", "enqueue", "stamp", "mark",
                     "index", "score", "done", "failed"}
  PROVE  /\ [jobs EXCEPT ![q].pc = pc] \in [Queues -> Job]
         /\ \A r \in Queues : [jobs EXCEPT ![q].pc = pc][r].pc # "none" => r = q \/ jobs[r].pc # "none"
<1>1. jobs \in [Queues -> Job] /\ jobs[q] \in Job
  BY DEF PhotosInv, TypeOK
<1>2. [jobs[q] EXCEPT !.pc = pc] \in Job
  BY <1>1 DEF Job
<1> QED
  BY <1>1, <1>2

(* An attempt thrown keeps the jobs and the photo typed, and marks the photo *)
(* failed at most.                                                           *)
LEMMA ThrownKeeps ==
  ASSUME PhotosInv, NEW q \in Queues, jobs[q].pc # "none", Thrown(q)
  PROVE  /\ jobs' \in [Queues -> Job]
         /\ \A r \in Queues : jobs'[r].pc # "none" => photo.status # "none"
         /\ photo' \in Photo /\ photo'.moderation = photo.moderation /\ photo'.hidden = photo.hidden
         /\ photo'.takedownAt = photo.takedownAt
         /\ \/ photo'.status = photo.status
            \/ photo.status # "none" /\ photo'.status # "none"
<1>1. /\ jobs \in [Queues -> Job] /\ jobs[q] \in Job /\ photo \in Photo /\ photo.status # "none"
      /\ jobs[q].attempt \in 1 .. MaxAttempts /\ 1 \in DOMAIN FanOut \cup DOMAIN Kinds
  BY Ranges DEF PhotosInv, TypeOK, UploadKnows, Job
<1>2. photo' \in {photo, [photo EXCEPT !.status = "failed"]}
  BY DEF Thrown
<1>3. PICK pc \in {"failed", "wait"}, attempt \in 1 .. MaxAttempts :
        jobs' = [jobs EXCEPT ![q].pc = pc, ![q].attempt = attempt, ![q].at = 1]
  <2> DEFINE last == jobs[q].attempt = MaxAttempts
             to == IF last THEN "failed" ELSE "wait"
             next == IF last THEN jobs[q].attempt ELSE jobs[q].attempt + 1
  <2>1. to \in {"failed", "wait"} /\ next \in 1 .. MaxAttempts
    BY <1>1, PhotosAssumption
  <2>2. jobs' = [jobs EXCEPT ![q].pc = to, ![q].attempt = next, ![q].at = 1]
    BY DEF Thrown
  <2> QED
    BY <2>1, <2>2
<1>4. jobs' \in [Queues -> Job] /\ \A r \in Queues \ {q} : jobs'[r] = jobs[r]
  BY <1>1, <1>3 DEF Job
<1> QED
  BY <1>1, <1>2, <1>4 DEF Photo, PhotosInv, UploadKnows

(* Reading the original moves a job on, or throws.                           *)
LEMMA FetchKeeps ==
  ASSUME PhotosInv, NEW q \in Queues, NEW from \in {"wait", "fetch"},
         NEW to \in {"put", "index"}, Fetch(q, from, to)
  PROVE  PhotosInv'
<1>1. /\ UNCHANGED <<running, faults, session, client, original, objects, rows, faces, ops, admin, request>>
      /\ jobs[q].pc = from /\ photo.status # "none"
  BY DEF Fetch, uploadVars, adminVars, PhotosInv, UploadKnows
<1>2. CASE original
  <2>1. jobs' = [jobs EXCEPT ![q].pc = to] /\ photo' = photo
    BY <1>2 DEF Fetch, JobMoves
  <2> QED
    BY <1>1, <2>1, JobMoved, JobsKeep DEF PhotosInv, TypeOK, UploadKnows
<1>3. CASE ~original
  <2>1. Thrown(q)
    BY <1>3 DEF Fetch
  <2> QED
    BY <1>1, <2>1, ThrownKeeps, JobsKeep DEF PhotosInv, TypeOK
<1> QED
  BY <1>2, <1>3

(* A step of a job that writes nothing of the photo's row. *)
LEMMA RowKept ==
  ASSUME PhotosInv, UNCHANGED <<running, session, client, photo, original, ops, admin, request>>,
         faults' \in {faults, faults + 1}, faults' \in 0 .. MaxFaults,
         jobs' \in [Queues -> Job], \A q \in Queues : jobs'[q].pc # "none" => photo.status # "none",
         objects' \in Image, rows' \in Image, faces' \in BOOLEAN
  PROVE  PhotosInv'
BY JobsKeep DEF PhotosInv, TypeOK

(* Adding a job to a queue.                                                  *)
LEMMA AddedTyped ==
  ASSUME PhotosInv, photo.status # "none", NEW js \in [Queues -> Job], NEW q \in Queues
  PROVE  Added(js, q) \in [Queues -> Job]
<1>1. [js[q] EXCEPT !.pc = "wait"] \in Job
  BY DEF Job
<1> QED
  BY <1>1 DEF Added

LEMMA IngestSteps ==
  ASSUME PhotosInv, EnqueueIngest \/ ReadForIngest \/ AddToQueue
  PROVE  PhotosInv'
<1>1. /\ jobs \in [Queues -> Job] /\ jobs["ingest"] \in Job /\ photo.status # "none"
      /\ 1 \in DOMAIN FanOut \cup DOMAIN Kinds /\ jobs["ingest"].at \in Nat
      /\ UNCHANGED <<running, faults, session, client, photo, original, objects, rows, faces, ops, admin,
                     request>>
  BY Ranges DEF PhotosInv, TypeOK, UploadKnows, Job, EnqueueIngest, ReadForIngest, AddToQueue, Waiting,
                uploadVars, adminVars
<1>2. jobs' \in [Queues -> Job]
  <2>1. CASE EnqueueIngest
    BY <1>1, <2>1, Ranges, AddedTyped DEF EnqueueIngest
  <2>2. CASE ReadForIngest
    BY <1>1, <2>2 DEF ReadForIngest, Job
  <2>3. CASE AddToQueue
    <3> DEFINE at == jobs["ingest"].at
               added == Added(jobs, FanOut[at])
    <3>1. added \in [Queues -> Job]
      <4>1. CASE FanOut[at] \in Queues
        BY <1>1, <4>1, AddedTyped
      <4>2. CASE FanOut[at] \notin Queues
        <5>1. [jobs EXCEPT ![FanOut[at]].pc = "wait"] = jobs
          BY <1>1, <4>2
        <5> QED
          BY <1>1, <5>1 DEF Added
      <4> QED
        BY <4>1, <4>2
    <3>2. at < Len(FanOut) => at + 1 \in DOMAIN FanOut \cup DOMAIN Kinds
      BY <1>1, Ranges
    <3> HIDE DEF added
    <3>3. added["ingest"] \in Job
      BY <3>1, Ranges
    <3>4. \/ at < Len(FanOut) /\ jobs' = [added EXCEPT !["ingest"].at = at + 1]
          \/ jobs' = [added EXCEPT !["ingest"].pc = "done"]
      BY <2>3 DEF AddToQueue, added
    <3> QED
      BY <3>1, <3>2, <3>3, <3>4 DEF Job
  <2> QED
    BY <2>1, <2>2, <2>3
<1>3. faults' \in {faults, faults + 1} /\ faults' \in 0 .. MaxFaults /\ objects' \in Image /\ rows' \in Image
  BY <1>1 DEF PhotosInv, TypeOK
<1>4. faces' \in BOOLEAN
  BY <1>1 DEF PhotosInv, TypeOK
<1> QED
  BY <1>1, <1>2, <1>3, <1>4, RowKept

(* The steps of a job that only move it on, or write a derivative. *)
LEMMA MovesOn ==
  ASSUME PhotosInv, NEW q \in Queues, jobs[q].pc # "none",
         NEW pc \in {"wait", "fetch", "add", "put", "row", "ready", "enqueue", "stamp", "mark",
                     "index", "score", "done", "failed"},
         jobs' = [jobs EXCEPT ![q].pc = pc],
         UNCHANGED <<running, faults, session, client, photo, original, ops, admin, request>>,
         objects' \in Image, rows' \in Image, faces' \in BOOLEAN
  PROVE  PhotosInv'
<1>1. jobs' \in [Queues -> Job] /\ \A r \in Queues : jobs'[r].pc # "none" => photo.status # "none"
  BY JobMoved DEF PhotosInv, UploadKnows
<1>2. faults' \in {faults, faults + 1} /\ faults' \in 0 .. MaxFaults
  BY DEF PhotosInv, TypeOK
<1> QED
  BY <1>1, <1>2, RowKept

LEMMA WriterSteps ==
  ASSUME PhotosInv, PutDerivative \/ LookForPreview \/ StampPreview \/ MarkWatermarked \/ IndexFaces
  PROVE  PhotosInv'
<1>1. objects \in [Kind -> {"none", "plain", "marked"}] /\ rows \in [Kind -> {"none", "plain", "marked"}]
  BY DEF PhotosInv, TypeOK, Image
<1>2. \A k, to : to \in {"plain", "marked"} =>
        [objects EXCEPT ![k] = to] \in Image /\ [rows EXCEPT ![k] = to] \in Image
  BY <1>1 DEF Image
<1>3. faces \in BOOLEAN /\ TRUE \in BOOLEAN
  BY DEF PhotosInv, TypeOK
<1>4. CASE PutDerivative
  BY <1>1, <1>2, <1>3, <1>4, Ranges, MovesOn
  DEF PutDerivative, JobMoves, uploadVars, adminVars, Image
<1>5. CASE LookForPreview
  BY <1>1, <1>3, <1>5, Ranges, MovesOn DEF LookForPreview, JobMoves, uploadVars, adminVars, Image
<1>6. CASE StampPreview
  BY <1>1, <1>2, <1>3, <1>6, Ranges, MovesOn DEF StampPreview, JobMoves, uploadVars, adminVars, Image
<1>7. CASE MarkWatermarked
  BY <1>1, <1>2, <1>3, <1>7, Ranges, MovesOn DEF MarkWatermarked, JobMoves, uploadVars, adminVars, Image
<1>8. CASE IndexFaces
  <2>1. faces' \in BOOLEAN
    BY <1>3, <1>8, Zenon DEF IndexFaces
  <2> QED
    BY <1>1, <1>8, <2>1, Ranges, MovesOn DEF IndexFaces, JobMoves, uploadVars, adminVars, Image
<1> QED
  BY <1>4, <1>5, <1>6, <1>7, <1>8

LEMMA DerivativeSteps ==
  ASSUME PhotosInv, UpsertDerivative \/ MarkReady \/ EnqueueQuality
  PROVE  PhotosInv'
<1>1. /\ jobs \in [Queues -> Job] /\ jobs["derivatives"] \in Job /\ photo.status # "none"
      /\ jobs["derivatives"].at \in Nat /\ 1 \in DOMAIN FanOut \cup DOMAIN Kinds
      /\ objects \in Image /\ rows \in Image /\ faults \in 0 .. MaxFaults /\ photo \in Photo
      /\ UNCHANGED <<running, faults, session, client, original, objects, faces, ops, admin, request>>
      /\ \A q \in Queues : jobs[q].pc # "none" => photo.status # "none"
  BY Ranges DEF PhotosInv, TypeOK, UploadKnows, Job, UpsertDerivative, MarkReady, EnqueueQuality,
                JobMoves, uploadVars, adminVars
<1>2. faces' \in BOOLEAN
  BY <1>1 DEF PhotosInv, TypeOK
<1>3. CASE UpsertDerivative
  <2> DEFINE at == jobs["derivatives"].at
             more == at < Len(Kinds)
             pc == IF more THEN "put" ELSE "ready"
             next == IF more THEN at + 1 ELSE 1
             moved == [jobs["derivatives"] EXCEPT !.pc = pc, !.at = next]
  <2>1. jobs' = [jobs EXCEPT !["derivatives"] = moved] /\ rows' = [rows EXCEPT ![Kinds[at]] = "plain"]
        /\ photo' = photo
    BY <1>3 DEF UpsertDerivative
  <2>4. pc \in {"put", "ready"} /\ next \in DOMAIN FanOut \cup DOMAIN Kinds
    BY <1>1, Ranges
  <2> HIDE DEF pc, next
  <2>2. moved \in Job
    BY <1>1, <2>4 DEF Job
  <2> HIDE DEF moved
  <2>3. jobs' \in [Queues -> Job] /\ rows' \in Image
    BY <1>1, <2>1, <2>2 DEF Image
  <2> QED
    BY <1>1, <1>2, <2>1, <2>3, RowKept
<1>4. CASE MarkReady
  <2>1. /\ jobs' = [jobs EXCEPT !["derivatives"].pc = "enqueue"] /\ rows' = rows
        /\ photo' = [photo EXCEPT !.status = "ready"]
    BY <1>4 DEF MarkReady, JobMoves
  <2>2. jobs' \in [Queues -> Job]
    BY <2>1, Ranges, JobMoved
  <2>3. /\ photo' \in Photo /\ photo'.moderation = photo.moderation /\ photo'.hidden = photo.hidden
        /\ photo'.takedownAt = photo.takedownAt /\ photo'.status # "none"
    BY <1>1, <2>1 DEF Photo
  <2> QED
    BY <1>1, <1>2, <2>1, <2>2, <2>3, JobsKeep
<1>5. CASE EnqueueQuality
  <2>1. PICK added \in {jobs, Added(jobs, "quality")} : jobs' = [added EXCEPT !["derivatives"].pc = "done"]
    BY <1>5 DEF EnqueueQuality
  <2>2. added \in [Queues -> Job] /\ added["derivatives"] \in Job
    BY <1>1, <2>1, Ranges, AddedTyped
  <2>3. jobs' \in [Queues -> Job]
    BY <2>1, <2>2 DEF Job
  <2>4. UNCHANGED <<photo, rows>>
    BY <1>5 DEF EnqueueQuality
  <2> QED
    BY <1>1, <1>2, <2>3, <2>4, RowKept
<1> QED
  BY <1>3, <1>4, <1>5

LEMMA FaceFetch == ASSUME PhotosInv, ReadForFaces \/ FetchForFaces PROVE PhotosInv'
<1>1. CASE ReadForFaces
  <2> DEFINE to == IF photo.status = "takedown" THEN "done" ELSE "fetch"
  <2>1. /\ jobs["face"].pc = "wait" /\ jobs' = [jobs EXCEPT !["face"].pc = to]
        /\ to \in {"done", "fetch"}
        /\ UNCHANGED <<running, faults, session, client, photo, original, objects, rows, faces, ops, admin,
                       request>>
    BY <1>1 DEF ReadForFaces, JobMoves, uploadVars, adminVars
  <2> HIDE DEF to
  <2>2. objects' \in Image /\ rows' \in Image /\ faces' \in BOOLEAN
    BY <2>1 DEF PhotosInv, TypeOK
  <2> QED
    BY <2>1, <2>2, Ranges, MovesOn
<1>2. CASE FetchForFaces
  BY <1>2, Ranges, FetchKeeps DEF FetchForFaces
<1> QED
  BY <1>1, <1>2

LEMMA QualitySteps ==
  ASSUME PhotosInv, FetchForQuality \/ StoreScore \/ OverrideRejection
  PROVE  PhotosInv'
<1>1. /\ jobs \in [Queues -> Job] /\ jobs["quality"] \in Job /\ photo \in Photo
      /\ photo.overridden \in BOOLEAN
      /\ objects \in Image /\ rows \in Image /\ faults \in 0 .. MaxFaults
      /\ \A q \in Queues : jobs[q].pc # "none" => photo.status # "none"
  BY Ranges DEF PhotosInv, TypeOK, UploadKnows, Photo
<1>2. UNCHANGED <<running, faults, session, client, original, objects, rows, faces, ops, admin, request>>
  BY DEF FetchForQuality, StoreScore, OverrideRejection, uploadVars, adminVars
<1>3. faces' \in BOOLEAN
  BY <1>2 DEF PhotosInv, TypeOK
<1>4. CASE FetchForQuality /\ original
  <2> DEFINE moved == [jobs["quality"] EXCEPT !.pc = "score", !.seen = photo.overridden]
  <2>1. jobs["quality"].pc = "wait" /\ jobs' = [jobs EXCEPT !["quality"] = moved] /\ photo' = photo
    BY <1>4 DEF FetchForQuality, Waiting
  <2>2. moved \in Job
    BY <1>1 DEF Job
  <2> HIDE DEF moved
  <2>3. jobs' \in [Queues -> Job] /\ \A q \in Queues : jobs'[q].pc # "none" => photo.status # "none"
    BY <1>1, <2>1, <2>2, Ranges
  <2> QED
    BY <1>1, <1>2, <1>3, <2>1, <2>3, RowKept
<1>5. CASE FetchForQuality /\ ~original
  <2>1. jobs["quality"].pc = "wait" /\ Thrown("quality")
    BY <1>5 DEF FetchForQuality, Waiting
  <2> QED
    BY <1>1, <1>2, <1>3, <2>1, Ranges, ThrownKeeps, JobsKeep
<1>6. CASE StoreScore
  <2>1. PICK low \in BOOLEAN : photo' = [photo EXCEPT !.rejected = low /\ ~jobs["quality"].seen]
    BY <1>6 DEF StoreScore
  <2>2. jobs["quality"].pc = "score" /\ jobs' = [jobs EXCEPT !["quality"].pc = "done"]
    BY <1>6 DEF StoreScore, JobMoves
  <2>3. jobs' \in [Queues -> Job] /\ photo.status # "none"
    BY <1>1, <2>2, Ranges, JobMoved
  <2>4. PICK rejected \in BOOLEAN : photo' = [photo EXCEPT !.rejected = rejected]
    BY <2>1
  <2>5. /\ photo' \in Photo /\ photo'.moderation = photo.moderation /\ photo'.hidden = photo.hidden
        /\ photo'.takedownAt = photo.takedownAt /\ photo'.status = photo.status
    BY <1>1, <2>4 DEF Photo
  <2> QED
    BY <1>1, <1>2, <1>3, <2>3, <2>5, JobsKeep
<1>7. CASE OverrideRejection
  <2>1. photo' = [photo EXCEPT !.rejected = FALSE, !.overridden = TRUE] /\ jobs' = jobs
    BY <1>7 DEF OverrideRejection
  <2>2. \A no, yes \in BOOLEAN :
          LET new == [photo EXCEPT !.rejected = no, !.overridden = yes]
          IN  /\ new \in Photo /\ new.moderation = photo.moderation /\ new.hidden = photo.hidden
              /\ new.takedownAt = photo.takedownAt /\ new.status = photo.status
    BY <1>1 DEF Photo
  <2>3. /\ photo' \in Photo /\ photo'.moderation = photo.moderation /\ photo'.hidden = photo.hidden
        /\ photo'.takedownAt = photo.takedownAt /\ photo'.status = photo.status
    BY <2>1, <2>2
  <2> QED
    BY <1>1, <1>2, <1>3, <2>1, <2>3, JobsKeep
<1> QED
  BY <1>4, <1>5, <1>6, <1>7

LEMMA JobFaults ==
  ASSUME PhotosInv, NEW q \in Queues, JobThrows(q) \/ JobDies(q)
  PROVE  PhotosInv'
<1>1. /\ jobs \in [Queues -> Job] /\ jobs[q] \in Job /\ faults \in 0 .. MaxFaults /\ jobs[q].pc # "none"
      /\ faults < MaxFaults /\ faults' = faults + 1
      /\ UNCHANGED <<running, session, client, original, objects, rows, faces, ops, admin, request>>
      /\ photo.status # "none"
  BY DEF PhotosInv, TypeOK, UploadKnows, JobThrows, JobDies, Idle, uploadVars, adminVars
<1>2. faults' \in 0 .. MaxFaults /\ objects' \in Image /\ rows' \in Image
  BY <1>1, PhotosAssumption DEF PhotosInv, TypeOK
<1>3. faces' \in BOOLEAN
  BY <1>1 DEF PhotosInv, TypeOK
<1>4. CASE JobThrows(q)
  <2>1. Thrown(q)
    BY <1>4 DEF JobThrows
  <2> QED
    BY <1>1, <1>2, <1>3, <2>1, ThrownKeeps, JobsKeep
<1>5. CASE JobDies(q)
  <2>1. jobs' = [jobs EXCEPT ![q].pc = "wait", ![q].at = 1] /\ photo' = photo
    BY <1>5 DEF JobDies
  <2>2. 1 \in DOMAIN FanOut \cup DOMAIN Kinds
    BY Ranges
  <2>3. jobs' \in [Queues -> Job]
    BY <1>1, <2>1, <2>2 DEF Job
  <2> QED
    BY <1>1, <1>2, <1>3, <2>1, <2>3, RowKept
<1> QED
  BY <1>4, <1>5

LEMMA JobSteps == ASSUME PhotosInv, JobNext PROVE PhotosInv'
<1>1. CASE FetchForDerivatives
  BY <1>1, Ranges, FetchKeeps DEF FetchForDerivatives
<1> QED
  BY <1>1, IngestSteps, WriterSteps, DerivativeSteps, FaceFetch, QualitySteps, JobFaults DEF JobNext

(* Steps of the upload leave the jobs, the admins and the photo but its      *)
(* insertion alone.                                                          *)
LEMMA UploadMoves ==
  ASSUME PhotosInv,
         UNCHANGED <<running, objects, rows, faces, jobs, ops, admin, request>>,
         faults' \in {faults, faults + 1}, faults' \in 0 .. MaxFaults,
         session' \in Session, original' = original \/ (original' /\ photo.status = "none"),
         client' \in [Clients -> {"idle", "complete", "store", "insert", "abort", "aborted"}],
         photo' = photo \/ photo' = [photo EXCEPT !.status = "processing"],
         session.multipart = "stored" => session'.multipart = "stored",
         session'.status = "none" <=> session'.multipart = "none",
         \A c \in Clients : client'[c] \in {"store", "insert"} => session'.multipart = "stored",
         photo' # photo => session.multipart = "stored",
         faults' = 0 =>
           /\ session'.status = "completed" =>
                \/ session.status = "completed" /\ \A c \in Clients : client[c] = "insert" =>
                                                     client'[c] = "insert" \/ photo' # photo
                \/ \E c \in Clients : client'[c] = "insert"
           /\ session'.multipart = "stored" => session.multipart = "stored" \/ original'
  PROVE  PhotosInv'
<1>1. /\ photo \in Photo /\ photo' \in Photo /\ photo'.moderation = photo.moderation
      /\ photo'.hidden = photo.hidden /\ photo'.takedownAt = photo.takedownAt
      /\ photo' = photo \/ photo'.status = "processing"
  BY DEF PhotosInv, TypeOK, Photo
<1>2. original' \in BOOLEAN
  BY DEF PhotosInv, TypeOK
<1>3. TypeOK'
  BY <1>1, <1>2 DEF PhotosInv, TypeOK
<1>4. UploadKnows'
  BY <1>1 DEF PhotosInv, UploadKnows
<1>5. NothingLost'
  <2>1. faults' = 0 => faults = 0
    BY DEF PhotosInv, TypeOK
  <2>2. ASSUME faults' = 0, session'.status = "completed"
        PROVE  photo'.status # "none" \/ \E c \in Clients : client'[c] = "insert"
    BY <1>1, <2>1, <2>2 DEF PhotosInv, NothingLost
  <2>3. ASSUME faults' = 0, session'.multipart = "stored", ~photo'.takedownAt,
               \A a \in Admins : admin[a].pc \notin {"vectors", "flip"}
        PROVE  original'
    BY <1>1, <2>1, <2>3 DEF PhotosInv, NothingLost
  <2> QED
    BY <2>2, <2>3 DEF NothingLost
<1>6. ModerationKnows'
  <2>1. \A a \in Admins : admin[a].pc # "idle" => photo.status # "none"
    BY DEF PhotosInv, UploadKnows
  <2>2. photo.status # "none" => original' = original /\ photo'.status # "none"
    BY <1>1
  <2> QED
    BY <1>1, <2>1, <2>2 DEF PhotosInv, ModerationKnows
<1> QED
  BY <1>3, <1>4, <1>5, <1>6 DEF PhotosInv

(* What the steps of a request on the session do to where it stands. *)
LEMMA ClientMoved ==
  ASSUME PhotosInv, NEW c \in Clients,
         NEW to \in {"idle", "complete", "store", "insert", "abort", "aborted"},
         client' = [client EXCEPT ![c] = to]
  PROVE  /\ client' \in [Clients -> {"idle", "complete", "store", "insert", "abort", "aborted"}]
         /\ client'[c] = to /\ \A d \in Clients \ {c} : client'[d] = client[d]
BY DEF PhotosInv, TypeOK

LEMMA UploadSteps == ASSUME PhotosInv, UploadNext PROVE PhotosInv'
<1> DEFINE Rest == UNCHANGED <<running, objects, rows, faces, jobs, ops, admin, request>>
<1>1. /\ session \in Session /\ photo \in Photo /\ faults \in 0 .. MaxFaults
      /\ client \in [Clients -> {"idle", "complete", "store", "insert", "abort", "aborted"}]
      /\ session.status = "none" <=> session.multipart = "none"
      /\ \A c \in Clients : client[c] \in {"store", "insert"} => session.multipart = "stored"
      /\ photo.status # "none" => session.multipart = "stored"
      /\ faults' = faults => faults' \in {faults, faults + 1} /\ faults' \in 0 .. MaxFaults
  BY DEF PhotosInv, TypeOK, UploadKnows
<1>2. CASE InitUpload
  <2>1. /\ session.status = "none" /\ session' = [status |-> "in_progress", multipart |-> "open"]
        /\ UNCHANGED <<faults, client, photo, original>> /\ Rest
    BY <1>2 DEF InitUpload, adminVars
  <2> QED
    BY <1>1, <2>1, UploadMoves DEF Session
<1>3. CASE PresignChunk
  <2>1. /\ session.status = "in_progress" /\ session.multipart = "open"
        /\ session' = [session EXCEPT !.multipart = "uploaded"]
        /\ UNCHANGED <<faults, client, photo, original>> /\ Rest
    BY <1>3 DEF PresignChunk, adminVars
  <2>2. session' \in Session /\ session'.status = "in_progress" /\ session'.multipart = "uploaded"
    BY <1>1, <2>1 DEF Session
  <2> QED
    BY <1>1, <2>1, <2>2, UploadMoves
<1>4. ASSUME NEW c \in Clients, LoadSession(c) PROVE PhotosInv'
  <2>1. PICK op \in {"complete", "abort"} : client' = [client EXCEPT ![c] = op]
    BY <1>4 DEF LoadSession, ClientMoves
  <2>2. client[c] = "idle" /\ UNCHANGED <<faults, session, photo, original>> /\ Rest
    BY <1>4 DEF LoadSession, ClientMoves, adminVars
  <2> QED
    BY <1>1, <2>1, <2>2, ClientMoved, UploadMoves
<1>5. ASSUME NEW c \in Clients, CompleteMultipart(c) PROVE PhotosInv'
  <2>1. client[c] = "complete" /\ UNCHANGED <<faults, photo>> /\ Rest
    BY <1>5 DEF CompleteMultipart, ClientMoves, adminVars
  <2>2. CASE session.multipart = "uploaded"
    <3>1. /\ client' = [client EXCEPT ![c] = "store"]
          /\ session' = [session EXCEPT !.multipart = "stored"] /\ original' = TRUE
      BY <1>5, <2>2 DEF CompleteMultipart, ClientMoves
    <3>2. /\ session' \in Session /\ session'.multipart = "stored" /\ session'.status = session.status
          /\ session.status # "none" /\ photo.status = "none"
      BY <1>1, <2>2, <3>1 DEF Session
    <3> QED
      BY <1>1, <2>1, <2>2, <3>1, <3>2, ClientMoved, UploadMoves
  <2>3. CASE session.multipart # "uploaded"
    <3>1. client' = [client EXCEPT ![c] = "idle"] /\ UNCHANGED <<session, original>>
      BY <1>5, <2>3 DEF CompleteMultipart, ClientMoves
    <3> QED
      BY <1>1, <2>1, <3>1, ClientMoved, UploadMoves
  <2> QED
    BY <2>2, <2>3
<1>6. ASSUME NEW c \in Clients, MarkCompleted(c) PROVE PhotosInv'
  <2>1. /\ client[c] = "store" /\ client' = [client EXCEPT ![c] = "insert"]
        /\ session' = [session EXCEPT !.status = "completed"]
        /\ UNCHANGED <<faults, photo, original>> /\ Rest
    BY <1>6 DEF MarkCompleted, ClientMoves, adminVars
  <2>2. session' \in Session /\ session'.status = "completed" /\ session'.multipart = "stored"
    BY <1>1, <2>1 DEF Session
  <2> QED
    BY <1>1, <2>1, <2>2, ClientMoved, UploadMoves
<1>7. ASSUME NEW c \in Clients, InsertPhoto(c) PROVE PhotosInv'
  <2>1. /\ client[c] = "insert" /\ client' = [client EXCEPT ![c] = "idle"]
        /\ photo' = [photo EXCEPT !.status = "processing"]
        /\ UNCHANGED <<faults, session, original>> /\ Rest
    BY <1>7 DEF InsertPhoto, ClientMoves, adminVars
  <2>2. CASE photo' # photo
    BY <1>1, <2>1, <2>2, ClientMoved, UploadMoves
  <2>3. CASE photo' = photo
    <3>1. photo.status = "processing" /\ TypeOK' /\ UploadKnows' /\ ModerationKnows'
      BY <1>1, <2>1, <2>3, ClientMoved DEF Photo, PhotosInv, TypeOK, UploadKnows, ModerationKnows
    <3>2. NothingLost'
      BY <2>1, <2>3, <3>1 DEF PhotosInv, NothingLost
    <3> QED
      BY <3>1, <3>2 DEF PhotosInv
  <2> QED
    BY <2>2, <2>3
<1>8. ASSUME NEW c \in Clients, AbortMultipart(c) PROVE PhotosInv'
  <2>1. client[c] = "abort" /\ UNCHANGED <<faults, photo, original>> /\ Rest
    BY <1>8 DEF AbortMultipart, ClientMoves, adminVars
  <2>2. PICK to \in {"aborted", "idle"} : client' = [client EXCEPT ![c] = to]
    BY <1>8 DEF AbortMultipart, ClientMoves
  <2>3. \/ session' = session
        \/ /\ session.multipart \in {"open", "uploaded"}
           /\ session' = [session EXCEPT !.multipart = "aborted"]
    BY <1>8 DEF AbortMultipart
  <2>4. /\ session' \in Session /\ session'.status = session.status
        /\ session' = session \/ session.multipart \notin {"none", "stored"}
        /\ session' = session \/ session'.multipart = "aborted"
    BY <1>1, <2>3 DEF Session
  <2> QED
    BY <1>1, <2>1, <2>2, <2>4, ClientMoved, UploadMoves
<1>9. ASSUME NEW c \in Clients, MarkAborted(c) PROVE PhotosInv'
  <2>1. /\ client[c] = "aborted" /\ client' = [client EXCEPT ![c] = "idle"]
        /\ session' = [session EXCEPT !.status = IF @ = "in_progress" THEN "aborted" ELSE @]
        /\ UNCHANGED <<faults, photo, original>> /\ Rest
    BY <1>9 DEF MarkAborted, ClientMoves, adminVars
  <2>2. /\ session' \in Session /\ session'.multipart = session.multipart
        /\ session'.status = "none" <=> session.status = "none"
        /\ session'.status = "completed" <=> session.status = "completed"
    BY <1>1, <2>1 DEF Session
  <2> QED
    BY <1>1, <2>1, <2>2, ClientMoved, UploadMoves
<1>10. ASSUME NEW c \in Clients, ClientDies(c) PROVE PhotosInv'
  <2>1. /\ client' = [client EXCEPT ![c] = "idle"] /\ faults < MaxFaults /\ faults' = faults + 1
        /\ UNCHANGED <<session, photo, original>> /\ Rest
    BY <1>10 DEF ClientDies, adminVars
  <2>2. faults' \in {faults, faults + 1} /\ faults' \in 0 .. MaxFaults /\ faults' # 0
    BY <1>1, <2>1, PhotosAssumption
  <2> QED
    BY <1>1, <2>1, <2>2, ClientMoved, UploadMoves
<1> QED
  BY <1>2, <1>3, <1>4, <1>5, <1>6, <1>7, <1>8, <1>9, <1>10 DEF UploadNext

(* Steps of the admins and of the takedown request leave the upload and the  *)
(* jobs alone, and the photo's status but for a takedown.                    *)
LEMMA ModerationMoves ==
  ASSUME PhotosInv,
         UNCHANGED <<running, session, client, objects, rows, jobs>>,
         faults' \in {faults, faults + 1}, faults' \in 0 .. MaxFaults, ops' \in 0 .. MaxOps,
         photo' \in Photo, photo'.status = photo.status \/ (photo.status # "none" /\ photo'.status # "none"),
         original' \in BOOLEAN, faces' \in BOOLEAN, admin' \in [Admins -> Admin], request' \in Request,
         original' => original, photo.takedownAt => photo'.takedownAt,
         \A a \in Admins : admin'[a].pc # "idle" => photo.status # "none",
         photo'.moderation # "visible" => photo'.hidden,
         \A a \in Admins :
           /\ admin'[a].seen \notin Decided
           /\ admin'[a].pc \in {"vectors", "flip"} => ~original'
           /\ admin'[a].pc = "close" /\ admin'[a].approves /\ ~admin'[a].failed
                => ~original' /\ photo'.takedownAt,
         request'.status = "fulfilled" /\ request'.approved => request'.removed,
         request'.removed => ~original' /\ photo'.takedownAt /\ photo.status # "none",
         \/ original' = original /\ (photo'.takedownAt \/ faults' # 0 \/ \A a \in Admins :
              admin[a].pc \in {"vectors", "flip"} => admin'[a].pc \in {"vectors", "flip"})
         \/ \E a \in Admins : admin'[a].pc \in {"vectors", "flip"}
  PROVE  PhotosInv'
<1>1. TypeOK'
  BY DEF PhotosInv, TypeOK
<1>2. UploadKnows'
  BY DEF PhotosInv, UploadKnows
<1>3. NothingLost'
  <2>1. faults' = 0 => faults = 0
    BY DEF PhotosInv, TypeOK
  <2> QED
    BY <2>1 DEF PhotosInv, NothingLost
<1>4. ModerationKnows'
  BY DEF ModerationKnows
<1> QED
  BY <1>1, <1>2, <1>3, <1>4 DEF PhotosInv

(* One admin moves, and nothing is fulfilled that was not purged. *)
LEMMA OneAdminMoves ==
  ASSUME PhotosInv, NEW a \in Admins, NEW to \in Admin, admin' = [admin EXCEPT ![a] = to],
         UNCHANGED <<running, session, client, objects, rows, jobs>>, photo.status # "none",
         faults' \in {faults, faults + 1}, faults' \in 0 .. MaxFaults, ops' \in 0 .. MaxOps,
         photo' \in Photo, photo'.status # "none", photo'.moderation # "visible" => photo'.hidden,
         photo.takedownAt => photo'.takedownAt,
         original' \in BOOLEAN, original' = original \/ (~original' /\ to.pc = "vectors"),
         faces' \in BOOLEAN, request' \in Request,
         request'.status = "fulfilled" /\ request'.approved => request'.removed,
         request'.removed => request.removed \/ (~original /\ photo.takedownAt),
         to.seen \notin Decided, to.pc \in {"vectors", "flip"} => ~original',
         to.pc = "close" /\ to.approves /\ ~to.failed => ~original' /\ photo'.takedownAt,
         admin[a].pc \in {"vectors", "flip"} =>
           to.pc \in {"vectors", "flip"} \/ photo'.takedownAt \/ faults' # 0
  PROVE  PhotosInv'
<1>1. /\ admin \in [Admins -> Admin] /\ admin' \in [Admins -> Admin] /\ admin'[a] = to
      /\ \A b \in Admins \ {a} : admin'[b] = admin[b]
  BY DEF PhotosInv, TypeOK
<1>2. original' => original
  OBVIOUS
<1>3. \A b \in Admins :
        /\ admin'[b].seen \notin Decided
        /\ admin'[b].pc \in {"vectors", "flip"} => ~original'
        /\ admin'[b].pc = "close" /\ admin'[b].approves /\ ~admin'[b].failed => ~original' /\ photo'.takedownAt
  BY <1>1, <1>2 DEF PhotosInv, ModerationKnows
<1>4. request'.removed => ~original' /\ photo'.takedownAt /\ photo.status # "none"
  BY <1>2 DEF PhotosInv, ModerationKnows
<1>5. \/ original' = original /\ (photo'.takedownAt \/ faults' # 0 \/ \A b \in Admins :
           admin[b].pc \in {"vectors", "flip"} => admin'[b].pc \in {"vectors", "flip"})
      \/ \E b \in Admins : admin'[b].pc \in {"vectors", "flip"}
  BY <1>1
<1> QED
  BY <1>1, <1>2, <1>3, <1>4, <1>5, ModerationMoves

(* The takedown request moves on its own, and not to an answer. *)
LEMMA RequestMoves ==
  ASSUME PhotosInv, request' \in Request, request'.status = "fulfilled" => request.status = "fulfilled",
         request'.approved = request.approved, request'.removed = request.removed,
         UNCHANGED <<running, session, client, photo, original, objects, rows, faces, jobs, ops, admin>>,
         faults' \in {faults, faults + 1}, faults' \in 0 .. MaxFaults
  PROVE  PhotosInv'
<1>1. /\ ops' \in 0 .. MaxOps /\ photo' \in Photo /\ admin' \in [Admins -> Admin]
      /\ \A a \in Admins : admin'[a].pc # "idle" => photo.status # "none"
  BY DEF PhotosInv, TypeOK, UploadKnows
<1>2. original' \in BOOLEAN /\ faces' \in BOOLEAN
  BY DEF PhotosInv, TypeOK
<1> QED
  BY <1>1, <1>2, ModerationMoves DEF PhotosInv, ModerationKnows

LEMMA RequestSteps ==
  ASSUME PhotosInv, CreateTakedownRequest \/ VerifyTakedown \/ VerifyDies
  PROVE  PhotosInv'
<1>1. /\ request \in Request /\ faults \in 0 .. MaxFaults
      /\ UNCHANGED <<running, session, client, photo, original, objects, rows, faces, jobs, ops, admin>>
  BY DEF PhotosInv, TypeOK, CreateTakedownRequest, VerifyTakedown, VerifyDies, uploadVars
<1>2. /\ request' \in Request /\ (request'.status = "fulfilled" => request.status = "fulfilled")
      /\ request'.approved = request.approved /\ request'.removed = request.removed
  BY <1>1 DEF CreateTakedownRequest, VerifyTakedown, VerifyDies, VerifyMoves, Request, Status
<1>3. faults' = faults \/ (faults < MaxFaults /\ faults' = faults + 1)
  BY DEF CreateTakedownRequest, VerifyTakedown, VerifyDies
<1>4. faults' \in {faults, faults + 1} /\ faults' \in 0 .. MaxFaults
  BY <1>1, <1>3, PhotosAssumption
<1> QED
  BY <1>1, <1>2, <1>4, RequestMoves

LEMMA ShowKeeps ==
  ASSUME PhotosInv, NEW a \in Admins, NEW hide \in BOOLEAN, HideOrShow(a, hide)
  PROVE  PhotosInv'
<1>1. /\ photo.status # "none" /\ ops < MaxOps /\ ops' = ops + 1
      /\ photo' = [photo EXCEPT !.moderation = IF hide THEN "hidden" ELSE "visible", !.hidden = hide]
      /\ UNCHANGED <<running, faults, session, client, original, objects, rows, faces, jobs, admin, request>>
  BY DEF HideOrShow, Starts, uploadVars
<1>2. /\ photo \in Photo /\ faults \in 0 .. MaxFaults /\ ops \in 0 .. MaxOps /\ request \in Request
      /\ admin \in [Admins -> Admin]
      /\ \A b \in Admins : admin[b].pc # "idle" => photo.status # "none"
  BY DEF PhotosInv, TypeOK, UploadKnows
<1>3. original' \in BOOLEAN /\ faces' \in BOOLEAN
  BY <1>1 DEF PhotosInv, TypeOK
<1>4. /\ photo' \in Photo /\ photo'.status = photo.status /\ photo'.takedownAt = photo.takedownAt
      /\ photo'.moderation # "visible" => photo'.hidden
  BY <1>1, <1>2 DEF Photo
<1>5. ops' \in 0 .. MaxOps
  BY <1>1, <1>2, PhotosAssumption
<1> QED
  BY <1>1, <1>2, <1>3, <1>4, <1>5, ModerationMoves DEF PhotosInv, ModerationKnows

LEMMA AdminSteps ==
  ASSUME PhotosInv, NEW a \in Admins,
         \/ StartDelete(a) \/ PurgeObjects(a) \/ PurgeVectors(a) \/ MarkDeleted(a)
         \/ PurgeFails(a) \/ AdminDies(a)
         \/ \E op \in {"fulfill", "reject"} : StartDecision(a, op)
         \/ FulfillTakedown(a) \/ RejectTakedown(a)
  PROVE  PhotosInv'
<1> DEFINE Rest == UNCHANGED <<running, session, client, objects, rows, jobs>>
           was == admin[a]
<1>1. /\ admin \in [Admins -> Admin] /\ was \in Admin /\ photo \in Photo /\ request \in Request
      /\ faults \in 0 .. MaxFaults /\ ops \in 0 .. MaxOps
      /\ was.pc # "idle" => photo.status # "none"
      /\ was.seen \notin Decided
      /\ photo.moderation # "visible" => photo.hidden
      /\ request.status = "fulfilled" /\ request.approved => request.removed
  BY DEF PhotosInv, TypeOK, UploadKnows, ModerationKnows
<1>2. /\ original \in BOOLEAN /\ faces \in BOOLEAN /\ FALSE \in BOOLEAN
      /\ was.pc \in {"vectors", "flip"} => ~original
      /\ was.pc = "close" /\ was.approves /\ ~was.failed => ~original /\ photo.takedownAt
  BY DEF PhotosInv, TypeOK, ModerationKnows
<1>3. \A pc : [admin EXCEPT ![a].pc = pc] = [admin EXCEPT ![a] = [was EXCEPT !.pc = pc]]
  BY <1>1
<1>4. ASSUME NEW pc \in {"idle", "objects", "vectors", "flip", "close", "reject"}
      PROVE  LET to == [was EXCEPT !.pc = pc]
             IN  /\ to \in Admin /\ to.pc = pc /\ to.seen = was.seen /\ to.failed = was.failed
                 /\ to.op = was.op /\ to.approves = was.approves
  BY <1>1 DEF Admin
<1>5. CASE StartDelete(a) \/ \E op \in {"fulfill", "reject"} : StartDecision(a, op)
  <2>1. PICK to \in Admin : /\ admin' = [admin EXCEPT ![a] = to] /\ to.seen \notin Decided
                            /\ to.pc \in {"objects", "close", "reject"}
                            /\ to.pc = "close" => ~to.approves
    <3>1. CASE StartDelete(a)
      <4> DEFINE to == [pc |-> "objects", op |-> "delete", seen |-> "none",
                        approves |-> TRUE, failed |-> FALSE]
      <4>1. to \in Admin /\ to.seen \notin Decided
        BY DEF Admin, Status, Decided
      <4>2. admin' = [admin EXCEPT ![a] = to]
        BY <3>1 DEF StartDelete
      <4> QED
        BY <4>1, <4>2
    <3>2. ASSUME NEW op \in {"fulfill", "reject"}, StartDecision(a, op)
          PROVE  \E to \in Admin : /\ admin' = [admin EXCEPT ![a] = to] /\ to.seen \notin Decided
                                   /\ to.pc \in {"objects", "close", "reject"}
                                   /\ to.pc = "close" => ~to.approves
      <4> DEFINE To(approves) ==
            [pc |-> IF op = "reject" THEN "reject" ELSE IF approves THEN "objects" ELSE "close",
             op |-> op, seen |-> request.status, approves |-> approves, failed |-> FALSE]
      <4>1. PICK approves \in BOOLEAN : admin' = [admin EXCEPT ![a] = To(approves)]
        BY <3>2 DEF StartDecision
      <4>2. /\ To(approves) \in Admin /\ To(approves).seen \notin Decided
            /\ To(approves).pc \in {"objects", "close", "reject"}
            /\ To(approves).pc = "close" => ~To(approves).approves
        BY <1>1, <3>2 DEF StartDecision, Admin, Request
      <4> QED
        BY <4>1, <4>2
    <3> QED
      BY <1>5, <3>1, <3>2
  <2>2. /\ was.pc = "idle" /\ photo.status # "none" /\ ops < MaxOps /\ ops' = ops + 1
        /\ UNCHANGED <<faults, photo, original, faces, request>> /\ Rest
    BY <1>5 DEF StartDelete, StartDecision, Starts, uploadVars
  <2>3. ops' \in 0 .. MaxOps
    BY <1>1, <2>2, PhotosAssumption
  <2> QED
    BY <1>1, <1>2, <2>1, <2>2, <2>3, OneAdminMoves
<1>6. CASE PurgeObjects(a)
  <2>1. /\ was.pc = "objects" /\ admin' = [admin EXCEPT ![a] = [was EXCEPT !.pc = "vectors"]]
        /\ UNCHANGED <<faults, ops, photo, faces, request>> /\ Rest
    BY <1>3, <1>6 DEF PurgeObjects, AdminMoves, uploadVars
  <2>2. original' = FALSE
    BY <1>6 DEF PurgeObjects
  <2> QED
    BY <1>1, <1>2, <1>4, <2>1, <2>2, OneAdminMoves
<1>7. CASE PurgeVectors(a)
  <2>1. /\ was.pc = "vectors" /\ admin' = [admin EXCEPT ![a] = [was EXCEPT !.pc = "flip"]]
        /\ UNCHANGED <<faults, ops, photo, original, request>> /\ Rest
    BY <1>3, <1>7 DEF PurgeVectors, AdminMoves, uploadVars
  <2>2. faces' = FALSE
    BY <1>7 DEF PurgeVectors
  <2> QED
    BY <1>1, <1>2, <1>4, <2>1, <2>2, OneAdminMoves
<1>8. CASE MarkDeleted(a)
  <2> DEFINE pc == IF was.op = "fulfill" THEN "close" ELSE "idle"
  <2>1. /\ was.pc = "flip" /\ admin' = [admin EXCEPT ![a] = [was EXCEPT !.pc = pc]]
        /\ photo' = [photo EXCEPT !.moderation = "deleted", !.status = "takedown",
                                  !.hidden = TRUE, !.takedownAt = TRUE]
        /\ UNCHANGED <<faults, ops, original, faces, request>> /\ Rest
    BY <1>3, <1>8 DEF MarkDeleted, AdminMoves, uploadVars
  <2>2. /\ photo' \in Photo /\ photo'.status # "none" /\ photo'.hidden /\ photo'.takedownAt
    <3>1. \A yes \in BOOLEAN :
            LET new == [photo EXCEPT !.moderation = "deleted", !.status = "takedown",
                                     !.hidden = yes, !.takedownAt = yes]
            IN  new \in Photo /\ new.status # "none" /\ new.hidden = yes /\ new.takedownAt = yes
      BY <1>1 DEF Photo
    <3> QED
      BY <2>1, <3>1
  <2>3. pc \in {"close", "idle"}
    OBVIOUS
  <2> HIDE DEF pc
  <2> QED
    BY <1>1, <1>2, <1>4, <2>1, <2>2, <2>3, OneAdminMoves
<1>9. CASE PurgeFails(a)
  <2> DEFINE pc == IF was.op = "fulfill" THEN "close" ELSE "idle"
             to == [was EXCEPT !.pc = pc, !.failed = TRUE]
  <2>1. /\ was.pc \in {"objects", "vectors", "flip"} /\ admin' = [admin EXCEPT ![a] = to]
        /\ faults < MaxFaults /\ faults' = faults + 1
        /\ UNCHANGED <<ops, photo, original, faces, request>> /\ Rest
    BY <1>9 DEF PurgeFails, uploadVars
  <2>2. \A yes \in BOOLEAN :
          LET new == [was EXCEPT !.pc = pc, !.failed = yes]
          IN  new \in Admin /\ new.pc \in {"close", "idle"} /\ new.seen = was.seen /\ new.failed = yes
    BY <1>1 DEF Admin
  <2>3. to \in Admin /\ to.pc \in {"close", "idle"} /\ to.seen = was.seen /\ to.failed
    BY <2>2
  <2>4. faults' \in {faults, faults + 1} /\ faults' \in 0 .. MaxFaults /\ faults' # 0
    BY <1>1, <2>1, PhotosAssumption
  <2> HIDE DEF to
  <2> QED
    BY <1>1, <1>2, <2>1, <2>3, <2>4, OneAdminMoves
<1>10. CASE AdminDies(a)
  <2>1. /\ was.pc # "idle" /\ admin' = [admin EXCEPT ![a] = [was EXCEPT !.pc = "idle"]]
        /\ faults < MaxFaults /\ faults' = faults + 1
        /\ UNCHANGED <<ops, photo, original, faces, request>> /\ Rest
    BY <1>3, <1>10 DEF AdminDies, AdminMoves, uploadVars
  <2>2. faults' \in {faults, faults + 1} /\ faults' \in 0 .. MaxFaults /\ faults' # 0
    BY <1>1, <2>1, PhotosAssumption
  <2> QED
    BY <1>1, <1>2, <1>4, <2>1, <2>2, OneAdminMoves
<1>11. CASE FulfillTakedown(a) \/ RejectTakedown(a)
  <2>1. /\ was.pc \in {"close", "reject"} /\ admin' = [admin EXCEPT ![a] = [was EXCEPT !.pc = "idle"]]
        /\ UNCHANGED <<faults, ops, photo, original, faces>> /\ Rest
    BY <1>3, <1>11 DEF FulfillTakedown, RejectTakedown, AdminMoves, uploadVars
  <2>2. /\ request' \in Request
        /\ request'.status = "fulfilled" /\ request'.approved => request'.removed
        /\ request'.removed => request.removed \/ (~original /\ photo.takedownAt)
    <3>1. CASE FulfillTakedown(a)
      <4>1. PICK failed \in {was.failed, TRUE} : request' = [request EXCEPT
              !.status = IF failed THEN was.seen ELSE "fulfilled",
              !.approved = was.approves,
              !.removed = @ \/ (was.approves /\ ~was.failed)]
        BY <3>1 DEF FulfillTakedown
      <4> DEFINE status == IF failed THEN was.seen ELSE "fulfilled"
                 removed == request.removed \/ (was.approves /\ ~was.failed)
      <4>2. /\ status \in Status /\ was.approves \in BOOLEAN /\ removed \in BOOLEAN
            /\ status = "fulfilled" => ~was.failed
        BY <1>1 DEF Admin, Request, Status, Decided
      <4>3. removed => request.removed \/ (~original /\ photo.takedownAt)
        BY <1>2, <3>1 DEF FulfillTakedown, AdminMoves
      <4>4. status = "fulfilled" /\ was.approves => removed
        BY <4>2
      <4>5. request' = [request EXCEPT !.status = status, !.approved = was.approves, !.removed = removed]
        BY <4>1
      <4> HIDE DEF status, removed
      <4>6. /\ request' \in Request /\ request'.status = status
            /\ request'.approved = was.approves /\ request'.removed = removed
        BY <1>1, <4>2, <4>5 DEF Request
      <4> QED
        BY <4>3, <4>4, <4>6
    <3>2. CASE RejectTakedown(a)
      BY <1>1, <3>2 DEF RejectTakedown, Request, Status, Decided
    <3> QED
      BY <1>11, <3>1, <3>2
  <2> QED
    BY <1>1, <1>2, <1>4, <2>1, <2>2, OneAdminMoves
<1> QED
  BY <1>5, <1>6, <1>7, <1>8, <1>9, <1>10, <1>11

(* PhotosInv is an inductive invariant of a photo's life. *)
THEOREM PhotosInductive == PhotosSpec => []PhotosInv
<1>1. PhotosInv /\ [PhotosNext]_vars => PhotosInv'
  <2> SUFFICES ASSUME PhotosInv, [PhotosNext]_vars PROVE PhotosInv'
    OBVIOUS
  <2>1. CASE UploadNext
    BY <2>1, UploadSteps
  <2>2. CASE JobNext
    BY <2>2, JobSteps
  <2>3. CASE AdminNext
    BY <2>3, RequestSteps, ShowKeeps, AdminSteps DEF AdminNext
  <2>4. CASE UNCHANGED vars
    BY <2>4 DEF vars, uploadVars, adminVars, PhotosInv, TypeOK, UploadKnows, NothingLost, ModerationKnows
  <2> QED
    BY <2>1, <2>2, <2>3, <2>4 DEF PhotosNext
<1> QED
  BY <1>1, PhotosInvInit, PTL DEF PhotosSpec

(* The photo's row, its jobs and the requests on it are where they can be.   *)
THEOREM PhotosTypeCorrect == PhotosSpec => []TypeOK
<1>1. PhotosInv => TypeOK
  BY DEF PhotosInv
<1> QED
  BY <1>1, PhotosInductive, PTL

(* Without a death or a failure, however completions and aborts of one       *)
(* session overlap: a session completed has its photo, and a photo that no   *)
(* admin deletes has its original.                                           *)
THEOREM UploadKeptAlways == PhotosSpec => []UploadKept
<1>1. PhotosInv => UploadKept
  BY DEF PhotosInv, UploadKnows, NothingLost, UploadKept
<1> QED
  BY <1>1, PhotosInductive, PTL

(* A photo an admin hid or deleted is returned by no search, whatever the    *)
(* jobs under way make of its status, until an admin shows it again.         *)
THEOREM ModeratedStaysOutAlways == PhotosSpec => []ModeratedStaysOut
<1>1. PhotosInv => ModeratedStaysOut
  BY DEF PhotosInv, ModerationKnows, ModeratedStaysOut, Listed
<1> QED
  BY <1>1, PhotosInductive, PTL

(* A photo a decision reports as removed has its original purged and its row *)
(* marked, and a request closed as fulfilled has removed it if the closing   *)
(* decision approved it: through any failure and with any number of admins.  *)
THEOREM FulfilledMeansPurgedAlways == PhotosSpec => []FulfilledMeansPurged
<1>1. PhotosInv => FulfilledMeansPurged
  BY DEF PhotosInv, ModerationKnows, FulfilledMeansPurged
<1> QED
  BY <1>1, PhotosInductive, PTL
=============================================================================
