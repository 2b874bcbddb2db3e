-------------------------------- MODULE Photos --------------------------------
(***************************************************************************)
(* One photo, from its upload to its takedown: the multipart upload of the *)
(* API (services/uploads.ts), the jobs the ingest worker fans out          *)
(* (workers/ingest, derivatives, watermark, face, quality), the moderation *)
(* of admins (services/moderation.ts) and a takedown request for it        *)
(* (services/takedowns.ts, takedown-fulfillment.ts).  The workers write    *)
(* the photo's row without a look at what the admins wrote, and the other  *)
(* way round; a process may die, and a statement or a service fail,        *)
(* between any two of the steps.                                           *)
(***************************************************************************)
EXTENDS Integers, Sequences

CONSTANTS
  Clients,      \* requests that complete or abort the upload
  Admins,       \* requests of admins on the photo and the takedown request
  Kinds,        \* the kinds of derivative in the order they are written
  Deployments,  \* the sets of queues whose workers may be the ones running
  MaxAttempts,  \* attempts of a job (DEFAULT_JOB_OPTIONS)
  MaxFaults,    \* bound on the processes that die and the calls that fail
  MaxOps        \* bound on the operations of admins

ASSUME PhotosAssumption ==
  /\ MaxAttempts \in Nat \ {0} /\ MaxFaults \in Nat /\ MaxOps \in Nat
  /\ Kinds \in Seq(STRING) /\ \E i \in DOMAIN Kinds : Kinds[i] = "preview"

VARIABLES
  running,   \* the queues whose workers run, from the start on
  faults,    \* deaths and failed calls so far
  ops,       \* operations of admins so far
  session,   \* the upload_sessions row and R2's multipart upload
  client,    \* where each request on the session stands
  photo,     \* the photos row; its status is "none" before it exists
  original,  \* whether the originals bucket holds the photo's original
  objects,   \* the derivatives bucket, by kind
  rows,      \* photo_derivatives, by kind
  faces,     \* whether the photo has vectors
  jobs,      \* the photo's job of each queue
  admin,     \* where each request of an admin stands
  request    \* the takedown_requests row, its token, and its verification

uploadVars == <<session, client>>
adminVars == <<ops, admin, request>>
vars == <<running, faults, uploadVars, photo, original, objects, rows, faces, jobs, adminVars>>

\* The preview is the derivative the watermark worker overwrites.
Kind == {Kinds[i] : i \in DOMAIN Kinds}
\* The queues ingest adds to, in the order it does.
FanOut == <<"derivatives", "watermark", "face">>
Queues == {"ingest", "derivatives", "watermark", "face", "quality"}

Image == [Kind -> {"none", "plain", "marked"}]
Session == [status : {"none", "in_progress", "completed", "aborted"},
            multipart : {"none", "open", "uploaded", "stored", "aborted"}]
Photo == [status : {"none", "processing", "ready", "failed", "takedown"},
          moderation : {"visible", "hidden", "deleted"}, hidden : BOOLEAN,
          takedownAt : BOOLEAN, rejected : BOOLEAN, overridden : BOOLEAN]
Job == [pc : {"none", "wait", "fetch", "add", "put", "row", "ready", "enqueue", "stamp", "mark",
              "index", "score", "done", "failed"},
        attempt : 1 .. MaxAttempts, at : DOMAIN FanOut \cup DOMAIN Kinds, seen : BOOLEAN]
Decided == {"fulfilled", "rejected"}
Status == {"none", "received", "verifying"} \cup Decided
\* With the status, for the properties: whether the decision that wrote it last
\* approved this photo, and whether any decision has reported it as removed.
Request == [status : Status, verify : {"none", "sent", "consumed", "found", "done"},
            approved : BOOLEAN, removed : BOOLEAN]
Admin == [pc : {"idle", "objects", "vectors", "flip", "close", "reject"},
          op : {"none", "delete", "fulfill", "reject"}, seen : Status,
          approves : BOOLEAN, failed : BOOLEAN]

------------------------------------------------------------------------------
(* The upload. *)

InitUpload ==
  /\ session.status = "none"
  /\ session' = [status |-> "in_progress", multipart |-> "open"]
  /\ UNCHANGED <<running, faults, client, photo, original, objects, rows, faces, jobs, adminVars>>

\* A part is put to a URL signed for it; one part stands for all.  That the
\* session may have expired only takes answers away; no code marks it 'expired'.
PresignChunk ==
  /\ session.status = "in_progress" /\ session.multipart = "open"
  /\ session' = [session EXCEPT !.multipart = "uploaded"]
  /\ UNCHANGED <<running, faults, client, photo, original, objects, rows, faces, jobs, adminVars>>

ClientMoves(c, from, to) == client[c] = from /\ client' = [client EXCEPT ![c] = to]

LoadSession(c) ==
  /\ session.status = "in_progress"
  /\ \E op \in {"complete", "abort"} : ClientMoves(c, "idle", op)
  /\ UNCHANGED <<running, faults, session, photo, original, objects, rows, faces, jobs, adminVars>>

\* R2 refuses to complete an upload without parts, completed or aborted before.
CompleteMultipart(c) ==
  /\ IF session.multipart = "uploaded"
     THEN /\ ClientMoves(c, "complete", "store")
          /\ session' = [session EXCEPT !.multipart = "stored"] /\ original' = TRUE
     ELSE ClientMoves(c, "complete", "idle") /\ UNCHANGED <<running, session, original>>
  /\ UNCHANGED <<running, faults, photo, objects, rows, faces, jobs, adminVars>>

MarkCompleted(c) ==
  /\ ClientMoves(c, "store", "insert")
  /\ session' = [session EXCEPT !.status = "completed"]
  /\ UNCHANGED <<running, faults, photo, original, objects, rows, faces, jobs, adminVars>>

InsertPhoto(c) ==
  /\ ClientMoves(c, "insert", "idle")
  /\ photo' = [photo EXCEPT !.status = "processing"]
  /\ UNCHANGED <<running, faults, session, original, objects, rows, faces, jobs, adminVars>>

\* Mutant: the abort deletes the key as well, without a look at the upload.
AbortAndDelete(c) ==
  /\ ClientMoves(c, "abort", "aborted")
  /\ session' = [session EXCEPT !.multipart = "aborted"] /\ original' = FALSE
  /\ UNCHANGED <<running, faults, photo, objects, rows, faces, jobs, adminVars>>

AbortMultipart(c) ==
  /\ IF session.multipart \in {"open", "uploaded"}
     THEN /\ ClientMoves(c, "abort", "aborted")
          /\ session' = [session EXCEPT !.multipart = "aborted"]
     ELSE ClientMoves(c, "abort", "idle") /\ session' = session
  /\ UNCHANGED <<running, faults, photo, original, objects, rows, faces, jobs, adminVars>>

MarkAborted(c) ==
  /\ ClientMoves(c, "aborted", "idle")
  /\ session' = [session EXCEPT !.status = IF @ = "in_progress" THEN "aborted" ELSE @]
  /\ UNCHANGED <<running, faults, photo, original, objects, rows, faces, jobs, adminVars>>

\* The API dies, or a call fails: the request ends where it is.
ClientDies(c) ==
  /\ client[c] # "idle" /\ client' = [client EXCEPT ![c] = "idle"]
  /\ faults < MaxFaults /\ faults' = faults + 1
  /\ UNCHANGED <<running, session, photo, original, objects, rows, faces, jobs, adminVars>>

UploadNext ==
  \/ InitUpload \/ PresignChunk
  \/ \E c \in Clients :
       \/ LoadSession(c) \/ CompleteMultipart(c) \/ MarkCompleted(c) \/ InsertPhoto(c)
       \/ AbortMultipart(c) \/ MarkAborted(c) \/ ClientDies(c)

------------------------------------------------------------------------------
(* The jobs. *)

JobMoves(q, from, to) ==
  q \in running /\ jobs[q].pc = from /\ jobs' = [jobs EXCEPT ![q].pc = to]
Waiting(q) == q \in running /\ jobs[q].pc = "wait"

\* The job of a stable id is added once.
Added(js, q) == IF js[q].pc = "none" THEN [js EXCEPT ![q].pc = "wait"] ELSE js

\* An attempt throws.  The last one of the derivatives and of the face worker
\* marks the photo failed, whatever its row says.
Thrown(q) ==
  LET last == jobs[q].attempt = MaxAttempts
  IN /\ jobs' = [jobs EXCEPT ![q].pc = IF last THEN "failed" ELSE "wait",
                             ![q].attempt = IF last THEN @ ELSE @ + 1, ![q].at = 1]
     /\ photo' = IF last /\ q \in {"derivatives", "face"}
                 THEN [photo EXCEPT !.status = "failed"] ELSE photo

\* The worker reads the original, and throws when R2 has none.
Fetch(q, from, to) ==
  /\ q \in running /\ jobs[q].pc = from
  /\ IF original THEN JobMoves(q, from, to) /\ photo' = photo ELSE Thrown(q)
  /\ UNCHANGED <<running, faults, uploadVars, original, objects, rows, faces, adminVars>>

\* No code under src/ does this for an upload; the cloud import does for its own.
\* It is taken to come after the last request on the session has been answered.
EnqueueIngest ==
  /\ photo.status # "none" /\ jobs["ingest"].pc = "none"
  /\ \A c \in Clients : client[c] = "idle"
  /\ jobs' = Added(jobs, "ingest")
  /\ UNCHANGED <<running, faults, uploadVars, photo, original, objects, rows, faces, adminVars>>

ReadForIngest ==
  /\ Waiting("ingest")
  /\ jobs' = [jobs EXCEPT !["ingest"] =
       [@ EXCEPT !.pc = IF photo.status = "processing" THEN "add" ELSE "done", !.at = 1]]
  /\ UNCHANGED <<running, faults, uploadVars, photo, original, objects, rows, faces, adminVars>>

AddToQueue ==
  LET at == jobs["ingest"].at
      added == Added(jobs, FanOut[at])
  IN /\ jobs["ingest"].pc = "add"
     /\ jobs' = IF at < Len(FanOut) THEN [added EXCEPT !["ingest"].at = at + 1]
                ELSE [added EXCEPT !["ingest"].pc = "done"]
     /\ UNCHANGED <<running, faults, uploadVars, photo, original, objects, rows, faces, adminVars>>

FetchForDerivatives == Fetch("derivatives", "wait", "put")

\* Puts the derivative of the kind it is at, and upserts its row.
PutDerivative ==
  /\ JobMoves("derivatives", "put", "row")
  /\ objects' = [objects EXCEPT ![Kinds[jobs["derivatives"].at]] = "plain"]
  /\ UNCHANGED <<running, faults, uploadVars, photo, original, rows, faces, adminVars>>

UpsertDerivative ==
  LET at == jobs["derivatives"].at
      more == at < Len(Kinds)
  IN /\ jobs["derivatives"].pc = "row"
     /\ rows' = [rows EXCEPT ![Kinds[at]] = "plain"]
     /\ jobs' = [jobs EXCEPT !["derivatives"] =
          [@ EXCEPT !.pc = IF more THEN "put" ELSE "ready", !.at = IF more THEN at + 1 ELSE 1]]
     /\ UNCHANGED <<running, faults, uploadVars, photo, original, objects, faces, adminVars>>

\* Mutant: the photo's row is reset to what a fresh one shows.
MarkVisible ==
  /\ JobMoves("derivatives", "ready", "enqueue")
  /\ photo' = [photo EXCEPT !.status = "ready", !.hidden = FALSE]
  /\ UNCHANGED <<running, faults, uploadVars, original, objects, rows, faces, adminVars>>

\* Whatever the status is by now, a takedown included.
MarkReady ==
  /\ JobMoves("derivatives", "ready", "enqueue")
  /\ photo' = [photo EXCEPT !.status = "ready"]
  /\ UNCHANGED <<running, faults, uploadVars, original, objects, rows, faces, adminVars>>

EnqueueQuality ==
  /\ jobs["derivatives"].pc = "enqueue"
  /\ \E added \in {jobs, Added(jobs, "quality")} :
       jobs' = [added EXCEPT !["derivatives"].pc = "done"]
  /\ UNCHANGED <<running, faults, uploadVars, photo, original, objects, rows, faces, adminVars>>

\* Without a preview's row, or a text for the event, the job ends, and nothing
\* adds it again.
LookForPreview ==
  /\ \/ JobMoves("watermark", "wait", "done")
     \/ rows["preview"] # "none" /\ JobMoves("watermark", "wait", "stamp")
  /\ UNCHANGED <<running, faults, uploadVars, photo, original, objects, rows, faces, adminVars>>

StampPreview ==
  /\ JobMoves("watermark", "stamp", "mark")
  /\ objects' = [objects EXCEPT !["preview"] = "marked"]
  /\ UNCHANGED <<running, faults, uploadVars, photo, original, rows, faces, adminVars>>

MarkWatermarked ==
  /\ JobMoves("watermark", "mark", "done")
  /\ rows' = [rows EXCEPT !["preview"] = "marked"]
  /\ UNCHANGED <<running, faults, uploadVars, photo, original, objects, faces, adminVars>>

\* The status is read first, and the original fetched after that.
ReadForFaces ==
  /\ JobMoves("face", "wait", IF photo.status = "takedown" THEN "done" ELSE "fetch")
  /\ UNCHANGED <<running, faults, uploadVars, photo, original, objects, rows, faces, adminVars>>

FetchForFaces == Fetch("face", "fetch", "index")

IndexFaces ==
  /\ JobMoves("face", "index", "done")
  /\ faces' = TRUE
  /\ UNCHANGED <<running, faults, uploadVars, photo, original, objects, rows, adminVars>>

FetchForQuality ==
  /\ Waiting("quality")
  /\ IF original
     THEN /\ jobs' = [jobs EXCEPT !["quality"] =
                        [@ EXCEPT !.pc = "score", !.seen = photo.overridden]]
          /\ photo' = photo
     ELSE Thrown("quality")
  /\ UNCHANGED <<running, faults, uploadVars, original, objects, rows, faces, adminVars>>

\* A score below the photographer's threshold rejects the photo, unless it was
\* read as overridden; an override since then is lost.
StoreScore ==
  \E low \in BOOLEAN :
    /\ JobMoves("quality", "score", "done")
    /\ photo' = [photo EXCEPT !.rejected = low /\ ~jobs["quality"].seen]
    /\ UNCHANGED <<running, faults, uploadVars, original, objects, rows, faces, adminVars>>

OverrideRejection ==
  /\ photo.status # "none" /\ ~photo.overridden
  /\ photo' = [photo EXCEPT !.rejected = FALSE, !.overridden = TRUE]
  /\ UNCHANGED <<running, faults, uploadVars, original, objects, rows, faces, jobs, adminVars>>

Idle == {"none", "wait", "done", "failed"}

\* A call of the worker fails; the update to 'failed' may fail with it.
JobThrows(q) ==
  /\ q \in running /\ jobs[q].pc \notin {"none", "done", "failed", "enqueue"}
  /\ faults < MaxFaults /\ faults' = faults + 1
  /\ Thrown(q)
  /\ UNCHANGED <<running, uploadVars, original, objects, rows, faces, adminVars>>

\* A job whose worker dies is run again from the start.
JobDies(q) ==
  /\ jobs[q].pc \notin Idle
  /\ faults < MaxFaults /\ faults' = faults + 1
  /\ jobs' = [jobs EXCEPT ![q].pc = "wait", ![q].at = 1]
  /\ UNCHANGED <<running, uploadVars, photo, original, objects, rows, faces, adminVars>>

JobNext ==
  \/ EnqueueIngest \/ ReadForIngest \/ AddToQueue
  \/ FetchForDerivatives \/ PutDerivative \/ UpsertDerivative \/ MarkReady \/ EnqueueQuality
  \/ LookForPreview \/ StampPreview \/ MarkWatermarked
  \/ ReadForFaces \/ FetchForFaces \/ IndexFaces \/ FetchForQuality \/ StoreScore
  \/ OverrideRejection
  \/ \E q \in Queues : JobThrows(q) \/ JobDies(q)

------------------------------------------------------------------------------
(* Moderation and the takedown request. *)

AdminMoves(a, from, to) == admin[a].pc = from /\ admin' = [admin EXCEPT ![a].pc = to]

\* What an admin's operation starts from: the photo exists, and ops are left.
Starts(a) == admin[a].pc = "idle" /\ photo.status # "none" /\ ops < MaxOps /\ ops' = ops + 1

\* 'show' undoes a delete as well: it looks at nothing.
HideOrShow(a, hide) ==
  /\ Starts(a)
  /\ photo' = [photo EXCEPT !.moderation = IF hide THEN "hidden" ELSE "visible", !.hidden = hide]
  /\ UNCHANGED <<running, faults, uploadVars, original, objects, rows, faces, jobs, admin, request>>

StartDelete(a) ==
  /\ Starts(a)
  /\ admin' = [admin EXCEPT ![a] =
       [pc |-> "objects", op |-> "delete", seen |-> "none", approves |-> TRUE, failed |-> FALSE]]
  /\ UNCHANGED <<running, faults, uploadVars, photo, original, objects, rows, faces, jobs, request>>

\* The keys of the derivatives are deleted from the originals bucket, which has
\* no such keys; S3 answers that as it answers a delete.
PurgeObjects(a) ==
  /\ AdminMoves(a, "objects", "vectors")
  /\ original' = FALSE
  /\ UNCHANGED <<running, faults, uploadVars, photo, objects, rows, faces, jobs, ops, request>>

PurgeVectors(a) ==
  /\ AdminMoves(a, "vectors", "flip")
  /\ faces' = FALSE
  /\ UNCHANGED <<running, faults, uploadVars, photo, original, objects, rows, jobs, ops, request>>

MarkDeleted(a) ==
  /\ AdminMoves(a, "flip", IF admin[a].op = "fulfill" THEN "close" ELSE "idle")
  /\ photo' = [photo EXCEPT !.moderation = "deleted", !.status = "takedown",
                            !.hidden = TRUE, !.takedownAt = TRUE]
  /\ UNCHANGED <<running, faults, uploadVars, original, objects, rows, faces, jobs, ops, request>>

\* R2, Qdrant or a statement fails: the photo is reported as failed, and its row
\* stays as it is.
PurgeFails(a) ==
  /\ admin[a].pc \in {"objects", "vectors", "flip"}
  /\ faults < MaxFaults /\ faults' = faults + 1
  /\ admin' = [admin EXCEPT ![a] =
       [@ EXCEPT !.pc = IF admin[a].op = "fulfill" THEN "close" ELSE "idle", !.failed = TRUE]]
  /\ UNCHANGED <<running, uploadVars, photo, original, objects, rows, faces, jobs, ops, request>>

AdminDies(a) ==
  /\ AdminMoves(a, admin[a].pc, "idle") /\ admin[a].pc # "idle"
  /\ faults < MaxFaults /\ faults' = faults + 1
  /\ UNCHANGED <<running, uploadVars, photo, original, objects, rows, faces, jobs, ops, request>>

CreateTakedownRequest ==
  /\ request.status = "none" /\ photo.status # "none"
  /\ request' = [request EXCEPT !.status = "received", !.verify = "sent"]
  /\ UNCHANGED <<running, faults, uploadVars, photo, original, objects, rows, faces, jobs, ops, admin>>

VerifyMoves(from, to) == request.verify = from /\ request' = [request EXCEPT !.verify = to]

\* Verification: the token is consumed, the request is read, its status written.
\* A process that dies in between leaves a consumed token and a request 'received'.
VerifyTakedown ==
  /\ \/ VerifyMoves("sent", "consumed")
     \/ VerifyMoves("consumed", IF request.status = "received" THEN "found" ELSE "done")
     \/ request.verify = "found" /\ request' = [request EXCEPT !.status = "verifying", !.verify = "done"]
  /\ UNCHANGED <<running, faults, uploadVars, photo, original, objects, rows, faces, jobs, ops, admin>>

VerifyDies ==
  /\ \E pc \in {"consumed", "found"} : VerifyMoves(pc, "done")
  /\ faults < MaxFaults /\ faults' = faults + 1
  /\ UNCHANGED <<running, uploadVars, photo, original, objects, rows, faces, jobs, ops, admin>>

\* Both decisions read the request; what they write does not look at it again.
\* The request names other photos too, and the admin approves the photos of a
\* list of his own, this one among them or not.
StartDecision(a, op) ==
  /\ Starts(a)
  /\ request.status \notin Decided \cup {"none"}
  /\ \E approves \in IF op = "fulfill" THEN BOOLEAN ELSE {FALSE} :
       admin' = [admin EXCEPT ![a] =
         [pc |-> IF op = "reject" THEN "reject" ELSE IF approves THEN "objects" ELSE "close",
          op |-> op, seen |-> request.status, approves |-> approves, failed |-> FALSE]]
  /\ UNCHANGED <<running, faults, uploadVars, photo, original, objects, rows, faces, jobs, request>>

\* Mutant: what failed to be purged is not looked at.
FulfillAnyway(a) ==
  /\ AdminMoves(a, "close", "idle")
  /\ request' = [request EXCEPT !.status = "fulfilled", !.approved = admin[a].approves,
                                !.removed = @ \/ admin[a].approves]
  /\ UNCHANGED <<running, faults, uploadVars, photo, original, objects, rows, faces, jobs, ops>>

\* Any photo of the list that failed, or that there is none of, keeps the request
\* open; those that did not fail are reported as removed all the same.
FulfillTakedown(a) ==
  /\ AdminMoves(a, "close", "idle")
  /\ \E failed \in {admin[a].failed, TRUE} :
       request' = [request EXCEPT
         !.status = IF failed THEN admin[a].seen ELSE "fulfilled",
         !.approved = admin[a].approves,
         !.removed = @ \/ (admin[a].approves /\ ~admin[a].failed)]
  /\ UNCHANGED <<running, faults, uploadVars, photo, original, objects, rows, faces, jobs, ops>>

RejectTakedown(a) ==
  /\ AdminMoves(a, "reject", "idle")
  /\ request' = [request EXCEPT !.status = "rejected"]
  /\ UNCHANGED <<running, faults, uploadVars, photo, original, objects, rows, faces, jobs, ops>>

AdminNext ==
  \/ CreateTakedownRequest \/ VerifyTakedown \/ VerifyDies
  \/ \E a \in Admins :
       \/ \E hide \in BOOLEAN : HideOrShow(a, hide)
       \/ StartDelete(a) \/ PurgeObjects(a) \/ PurgeVectors(a) \/ MarkDeleted(a)
       \/ PurgeFails(a) \/ AdminDies(a)
       \/ \E op \in {"fulfill", "reject"} : StartDecision(a, op)
       \/ FulfillTakedown(a) \/ RejectTakedown(a)

------------------------------------------------------------------------------

PhotosInit ==
  /\ running \in Deployments /\ faults = 0 /\ ops = 0
  /\ session = [status |-> "none", multipart |-> "none"]
  /\ client = [c \in Clients |-> "idle"]
  /\ photo = [status |-> "none", moderation |-> "visible", hidden |-> FALSE,
              takedownAt |-> FALSE, rejected |-> FALSE, overridden |-> FALSE]
  /\ original = FALSE /\ faces = FALSE
  /\ objects = [k \in Kind |-> "none"] /\ rows = [k \in Kind |-> "none"]
  /\ jobs = [q \in Queues |-> [pc |-> "none", attempt |-> 1, at |-> 1, seen |-> FALSE]]
  /\ admin = [a \in Admins |->
       [pc |-> "idle", op |-> "none", seen |-> "none", approves |-> FALSE, failed |-> FALSE]]
  /\ request = [status |-> "none", verify |-> "none", approved |-> FALSE, removed |-> FALSE]

PhotosNext == UploadNext \/ JobNext \/ AdminNext

PhotosSpec == PhotosInit /\ [][PhotosNext]_vars

------------------------------------------------------------------------------

\* What the searches and the gallery may return (queryBibMatches, searchByFace).
Listed == photo.status = "ready" /\ ~photo.hidden /\ ~photo.rejected

\* The type of the variables.
TypeOK ==
  /\ running \in Deployments /\ faults \in 0 .. MaxFaults /\ ops \in 0 .. MaxOps
  /\ session \in Session
  /\ client \in [Clients -> {"idle", "complete", "store", "insert", "abort", "aborted"}]
  /\ photo \in Photo /\ original \in BOOLEAN /\ faces \in BOOLEAN
  /\ objects \in Image /\ rows \in Image
  /\ jobs \in [Queues -> Job] /\ admin \in [Admins -> Admin] /\ request \in Request

\* As long as nothing dies or fails, an upload ends in a photo and its original,
\* however completions and aborts of one session overlap: a session is marked
\* completed only with its photo to come, and a photo no admin deletes has its
\* original (completeUpload, abortUpload, purgePhotoArtifacts).
UploadKept ==
  faults = 0 =>
    /\ session.status = "completed" /\ (\A c \in Clients : client[c] = "idle")
         => photo.status # "none"
    /\ photo.status # "none" /\ ~photo.takedownAt
         /\ (\A a \in Admins : admin[a].pc \notin {"vectors", "flip"})
         => original

\* A photo an admin hid or deleted is not returned by a search until
\* an admin shows it again: the jobs still under way rewrite its status, to
\* 'ready' also, but not what hides it (derivatives.ts, face.ts, moderation.ts).
ModeratedStaysOut == photo.moderation # "visible" => ~Listed

\* A photo that a decision reports as removed has its original purged and its row
\* says so, and a takedown request closed as fulfilled has removed every photo the
\* closing decision approved: through failures of R2 and Qdrant, photos of the same
\* request that fail, and decisions of several admins that overlap
\* (fulfillTakedown, bulkModerate).  Of a photo the request names and the decision
\* left out nothing is said: the request is closed, and it stays.
FulfilledMeansPurged ==
  /\ request.status = "fulfilled" /\ request.approved => request.removed
  /\ request.removed => ~original /\ photo.takedownAt

\* What moderation.ts says a delete purges: "R2: original + every derivative
\* object" (line 155).  Violated: the derivatives are in another bucket.
DeletedIsPurged ==
  photo.moderation = "deleted" => ~original /\ \A k \in Kind : objects[k] = "none"
==============================================================================
