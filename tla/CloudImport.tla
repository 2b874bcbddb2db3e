----------------------------- MODULE CloudImport -----------------------------
(***************************************************************************)
(* The import of one Drive or Dropbox folder into an event: the request    *)
(* that binds the folder (services/cloud-imports.ts of the API), and the   *)
(* worker's sweep (jobs/cloud-import.ts), which lists the folder once and  *)
(* then, some files a tick, downloads each, inserts a photo, adds its      *)
(* ingest job and marks the file.  The provider throttles, fails or        *)
(* refuses; the worker dies between any two steps; a tick starts from what *)
(* the rows say.                                                           *)
(***************************************************************************)
EXTENDS Integers, FiniteSets, Sequences

CONSTANTS
  Hashes,           \* content hashes of the folder's files
  Unusable,         \* those without a size, or of a type not accepted
  FilesPerTick,     \* FILES_PER_TICK
  MaxFileAttempts,  \* MAX_FILE_ATTEMPTS
  MaxErrors,        \* bound on the errors the provider answers with
  MaxMishaps         \* bound on the deaths of the worker and its failed statements

ASSUME CloudImportAssumption ==
  /\ IsFiniteSet(Hashes) /\ Unusable \subseteq Hashes /\ {FilesPerTick, MaxFileAttempts} \subseteq Nat \ {0}
  /\ {MaxErrors, MaxMishaps} \subseteq Nat

VARIABLES
  errors, mishaps,  \* answers that were errors, deaths and failed statements so far
  oauth,      \* the worker is configured to refresh tokens of the provider
  connected,  \* the org's integration is enabled and holds credentials
  expired,    \* their access token has
  import,     \* the cloud_imports row
  files,      \* cloud_import_files, by content hash; "none" before it is seeded
  photos,     \* photos rows in the order of their insertion, each by its hash
  ingest,     \* ingest:fan-out: by stable job id, the photo it is for, or 0
  tick        \* where runCloudImport stands with the import

importVars == <<errors, mishaps, oauth, connected, expired, import, files, photos, ingest, tick>>
tokenVars == <<oauth, connected, expired>>

ImportRow == [status : {"none", "pending", "running", "completed", "failed"},
              imported : Nat, failed : Nat]
FileRow == [status : {"none", "pending", "imported", "failed"},
            attempts : 0 .. MaxFileAttempts, photo : Nat]
Tick == [pc : {"idle", "list", "seed", "select", "file", "insert", "enqueue", "mark", "finalize"},
          batch : SUBSET Hashes, file : Hashes]

\* cloudErrorForStatus, by the answers it tells apart; "ok" is no error, "thrown"
\* an error that is no CloudStorageError: of the network, of the key, of Postgres.
Retryable == {"rate_limited", "transient"}
Terminal == {"auth", "not_found", "invalid"}
Answers == Retryable \cup Terminal \cup {"thrown", "ok"}

Answered(answer) ==
  IF answer = "ok" THEN errors' = errors ELSE errors < MaxErrors /\ errors' = errors + 1

With(status) == {h \in Hashes : files[h].status = status}
Goes(pc) == tick' = [tick EXCEPT !.pc = pc]

------------------------------------------------------------------------------

\* The OAuth callback stores credentials; an admin may disable them again.
CompleteConnection ==
  /\ connected' = TRUE /\ ~connected /\ expired' = FALSE
  /\ UNCHANGED <<errors, mishaps, oauth, import, files, photos, ingest, tick>>

DisableIntegration ==
  /\ connected /\ connected' = FALSE
  /\ UNCHANGED <<errors, mishaps, oauth, expired, import, files, photos, ingest, tick>>

(* The token comes near its end. *)
TokenExpires ==
  /\ connected /\ ~expired /\ expired' = TRUE
  /\ UNCHANGED <<errors, mishaps, oauth, connected, import, files, photos, ingest, tick>>

CreateCloudImport ==
  /\ connected /\ import.status = "none"
  /\ import' = [import EXCEPT !.status = "pending"]
  /\ UNCHANGED <<errors, mishaps, tokenVars, files, photos, ingest, tick>>

\* An error outside a file ends the tick: a CloudStorageError not worth a retry
\* fails the import, any other leaves it to the next tick.
EndTick(answer) ==
  /\ Goes("idle")
  /\ import' = IF answer \in Terminal THEN [import EXCEPT !.status = "failed"] ELSE import

\* A tick that has to refresh the token and is not configured to throws, every
\* time, and leaves nothing behind but the text of the error.
Unrefreshable == tick.pc = "idle" /\ connected /\ expired /\ ~oauth

\* The tick reads the row and the credentials, and refreshes them when they expire.
ResolveAdapter ==
  /\ tick.pc = "idle" /\ import.status \in {"pending", "running"} /\ ~Unrefreshable
  /\ IF ~connected THEN EndTick("auth") /\ errors' = errors /\ expired' = expired
     ELSE \E answer \in IF expired THEN Answers ELSE {"thrown", "ok"} :
            /\ Answered(answer)
            /\ expired' = (expired /\ answer # "ok")
            /\ IF answer = "ok"
               THEN Goes(IF import.status = "pending" THEN "list" ELSE "select") /\ import' = import
               ELSE EndTick(answer)
  /\ UNCHANGED <<mishaps, oauth, connected, files, photos, ingest>>

ListFolder ==
  /\ tick.pc = "list"
  /\ \E answer \in Answers :
       /\ Answered(answer)
       /\ IF answer = "ok" THEN Goes("seed") /\ import' = import ELSE EndTick(answer)
  /\ UNCHANGED <<mishaps, tokenVars, files, photos, ingest>>

\* Rows are inserted one by one; the ones there are left alone.
Seeded(hs) ==
  [h \in Hashes |-> IF h \in hs /\ files[h].status = "none"
                    THEN [files[h] EXCEPT !.status = IF h \in Unusable THEN "failed" ELSE "pending"]
                    ELSE files[h]]

SeedFiles ==
  /\ tick.pc = "seed" /\ Goes("select")
  /\ files' = Seeded(Hashes) /\ import' = [import EXCEPT !.status = "running"]
  /\ UNCHANGED <<errors, mishaps, tokenVars, photos, ingest>>

\* The worker dies, or a statement fails, before the import is 'running'.
SeedSome ==
  /\ tick.pc = "seed" /\ Goes("idle")
  /\ mishaps < MaxMishaps /\ mishaps' = mishaps + 1
  /\ \E hs \in SUBSET Hashes : files' = Seeded(hs)
  /\ UNCHANGED <<errors, tokenVars, import, photos, ingest>>

\* Mutant: the files taken up are the ones that did not fail.
SelectUnfailed ==
  /\ tick.pc = "select"
  /\ \E batch \in SUBSET (With("pending") \cup With("imported")) :
       /\ Cardinality(batch) <= FilesPerTick
       /\ tick' = [tick EXCEPT !.pc = "file", !.batch = batch]
  /\ UNCHANGED <<errors, mishaps, tokenVars, import, files, photos, ingest>>

SelectBatch ==
  /\ tick.pc = "select"
  /\ \E batch \in SUBSET With("pending") :
       /\ Cardinality(batch) = FilesPerTick \/ batch = With("pending")
       /\ Cardinality(batch) <= FilesPerTick
       /\ tick' = [tick EXCEPT !.pc = "file", !.batch = batch]
  /\ UNCHANGED <<errors, mishaps, tokenVars, import, files, photos, ingest>>

\* What a failed attempt leaves of a file's row.
Attempted(h, retryable) ==
  LET attempts == files[h].attempts + 1
  IN [files EXCEPT ![h].attempts = attempts,
        ![h].status = IF retryable /\ attempts < MaxFileAttempts THEN @ ELSE "failed"]

\* Downloads the next file into R2.  A throttle ends the batch, and counts for
\* no attempt of any file.
Download ==
  /\ tick.pc = "file" /\ tick.batch # {}
  /\ \E h \in tick.batch, answer \in Answers :
       /\ Answered(answer)
       /\ files' = IF answer \in {"ok", "rate_limited"} THEN files
                   ELSE Attempted(h, answer \in Retryable)
       /\ tick' = [pc |-> CASE answer = "ok" -> "insert" [] answer = "rate_limited" -> "finalize"
                             [] OTHER -> "file",
                    batch |-> tick.batch \ {h}, file |-> h]
  /\ UNCHANGED <<mishaps, tokenVars, import, photos, ingest>>

BatchEnds ==
  /\ tick.pc = "file" /\ tick.batch = {} /\ Goes("finalize")
  /\ UNCHANGED <<errors, mishaps, tokenVars, import, files, photos, ingest>>

InsertPhotoRow ==
  /\ tick.pc = "insert" /\ Goes("enqueue")
  /\ photos' = Append(photos, tick.file)
  /\ UNCHANGED <<errors, mishaps, tokenVars, import, files, ingest>>

\* The job id is the file's: a second add of it is not one.
AddIngestJob ==
  /\ tick.pc = "enqueue" /\ Goes("mark")
  /\ ingest' = [ingest EXCEPT ![tick.file] = IF @ = 0 THEN Len(photos) ELSE @]
  /\ UNCHANGED <<errors, mishaps, tokenVars, import, files, photos>>

MarkImported ==
  /\ tick.pc = "mark" /\ Goes("file")
  /\ files' = [files EXCEPT ![tick.file] = [@ EXCEPT !.status = "imported", !.photo = Len(photos)]]
  /\ UNCHANGED <<errors, mishaps, tokenVars, import, photos, ingest>>

\* A statement, or the queue, fails within a file: the file fails for good, what
\* was inserted and added for it stays.
FileThrows ==
  /\ tick.pc \in {"insert", "enqueue", "mark"} /\ Goes("file")
  /\ mishaps < MaxMishaps /\ mishaps' = mishaps + 1
  /\ files' = Attempted(tick.file, FALSE)
  /\ UNCHANGED <<errors, tokenVars, import, photos, ingest>>

\* Mutant: a file that is not imported counts as one to come.
FinalizeImported ==
  /\ tick.pc = "finalize" /\ Goes("idle")
  /\ import' = [import EXCEPT
       !.imported = Cardinality(With("imported")), !.failed = Cardinality(With("failed")),
       !.status = IF With("imported") = Hashes THEN "completed" ELSE @]
  /\ UNCHANGED <<errors, mishaps, tokenVars, files, photos, ingest>>

Finalize ==
  /\ tick.pc = "finalize" /\ Goes("idle")
  /\ import' = [import EXCEPT
       !.imported = Cardinality(With("imported")), !.failed = Cardinality(With("failed")),
       !.status = IF With("pending") = {} THEN "completed" ELSE @]
  /\ UNCHANGED <<errors, mishaps, tokenVars, files, photos, ingest>>

TickDies ==
  /\ tick.pc # "idle" /\ Goes("idle")
  /\ mishaps < MaxMishaps /\ mishaps' = mishaps + 1
  /\ UNCHANGED <<errors, tokenVars, import, files, photos, ingest>>

TickNext ==
  \/ ResolveAdapter \/ ListFolder \/ SeedFiles \/ SelectBatch \/ Download \/ BatchEnds
  \/ InsertPhotoRow \/ AddIngestJob \/ MarkImported \/ Finalize

ImportNext ==
  \/ CompleteConnection \/ DisableIntegration \/ TokenExpires \/ CreateCloudImport
  \/ TickNext \/ SeedSome \/ FileThrows \/ TickDies

ImportInit ==
  /\ errors = 0 /\ mishaps = 0 /\ oauth \in BOOLEAN /\ connected = FALSE /\ expired = FALSE
  /\ import = [status |-> "none", imported |-> 0, failed |-> 0]
  /\ files = [h \in Hashes |-> [status |-> "none", attempts |-> 0, photo |-> 0]]
  /\ photos = <<>> /\ ingest = [h \in Hashes |-> 0]
  /\ tick = [pc |-> "idle", batch |-> {}, file |-> CHOOSE h \in Hashes : TRUE]

\* The scheduler's ticks come every five minutes, one at a time.
ImportSpec == ImportInit /\ [][ImportNext]_importVars /\ WF_importVars(TickNext)

------------------------------------------------------------------------------

TokenTyped == oauth \in BOOLEAN /\ connected \in BOOLEAN /\ expired \in BOOLEAN

\* Every row is a row of the schema.
ImportTypeOK ==
  /\ errors \in 0 .. MaxErrors /\ mishaps \in 0 .. MaxMishaps /\ TokenTyped
  /\ import \in ImportRow /\ files \in [Hashes -> FileRow] /\ tick \in Tick
  /\ photos \in Seq(Hashes) /\ ingest \in [Hashes -> 0 .. Len(photos)]

\* A completed import is accounted for: no file is pending, the counters are the
\* rows', an imported file has a photo of its own content, and, unless a worker
\* died or a statement failed, just one, which is the one its ingest job is for
\* (processBatch, importFile, finalize).
ImportExact ==
  import.status = "completed" =>
    /\ With("pending") = {} /\ import.imported + import.failed = Cardinality(Hashes)
    /\ \A h \in With("imported") :
         /\ photos[files[h].photo] = h
         /\ mishaps = 0 => /\ ingest[h] = files[h].photo
                          /\ \A p \in DOMAIN photos : photos[p] = h => p = files[h].photo

Over == import.status \in {"completed", "failed"}

\* An import that is bound ends, completed or failed, through throttles, errors and
\* deaths of the worker, once the provider answers again - unless its token cannot
\* be refreshed, which is recorded and met again at every tick.  Of several open
\* imports this is said of one the ticks take up: IMPORTS_PER_TICK at a time, in no
\* order.
ImportEnds == import.status = "pending" ~> Over \/ Unrefreshable

\* What cloudRefreshToken throws for: "so the import records an error instead of
\* looping" (jobs/scheduler.ts:307-308).  Violated: the error is no
\* CloudStorageError, so the import is neither failed nor over.
UnconfiguredImportEnds == import.status = "pending" ~> Over

\* What the row's photoId says it is: "Set once the photos row is created and the
\* ingest job is enqueued" (schema/cloud-imports.ts:91).  Violated: a file taken up
\* again after a death gets a second photo, whose job has the id of the first one's.
ImportedIsIngested == \A h \in With("imported") : ingest[h] = files[h].photo
==============================================================================
