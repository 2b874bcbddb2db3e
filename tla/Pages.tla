-------------------------------- MODULE Pages --------------------------------
(***************************************************************************)
(* A client walks through a list page by page while its rows come, go and  *)
(* change: the cursor of lib/cursor.ts and the lists made with it.  Time   *)
(* is in ticks of the database; a cursor keeps whole milliseconds.         *)
(***************************************************************************)
EXTENDS Integers, FiniteSets

CONSTANTS
  Lists,        \* which lists, out of AllLists
  Rows,         \* ordered as ids are: uuids anyhow, audit_log's as they are made
  MaxTick,      \* bound of the clock, and of a tag's confidence
  TicksPerMs,
  Limits,       \* what a client may ask for per page
  Severity,     \* the flags from which on the client wants a photo in the queue
  MaxFlags      \* bound of photos.flag_count

\* Events, products and a photographer's photos; the audit log; a photographer's
\* payouts; the moderation queue; the photos of a bib.
AllLists == {"keyset", "audit", "payouts", "queue", "bib"}

ASSUME PagesAssumption ==
  /\ Lists \subseteq AllLists /\ Rows \subseteq Nat \ {0} /\ IsFiniteSet(Rows)
  /\ {MaxTick, TicksPerMs, Severity} \subseteq Nat \ {0} /\ Limits \subseteq Nat \ {0}
  /\ MaxFlags \in Nat

VARIABLES
  list,        \* the list walked through
  item,        \* its rows; in the list of a bib they are tags, created is a tag's
               \* confidence and shows its photo, while others show themselves
  pageCursor,  \* what the client sends for the next page
  ended,       \* the last page had no cursor
  shown,       \* rows of the pages so far
  repeated,    \* what they show twice
  ends,        \* rows that ended a page
  stayed       \* history: rows in the list since the walk began

pageVars == <<list, item, pageCursor, ended, shown, repeated, ends, stayed>>

Items == [there : BOOLEAN, created : 0 .. MaxTick, matches : BOOLEAN,
          shows : Rows \cup {0}, flags : 0 .. MaxFlags]
NoCursor == [row |-> 0, at |-> 0]
Absent == [there |-> FALSE, created |-> 0, matches |-> FALSE, shows |-> 0, flags |-> 0]

\* What row i may show and how often it may be flagged.
MayShow(i) == IF list = "bib" THEN Rows ELSE {i}
MayFlag == IF list = "queue" THEN 0 .. MaxFlags ELSE {0}

\* In the queue are photos with enough flags and those not visible any more,
\* which is what matches says of a photo there.
Flagged(i) == list = "queue" /\ item[i].flags > Severity - 1
InList == {i \in Rows : item[i].there /\ (item[i].matches \/ Flagged(i))}
Clock == LET made == {item[i].created : i \in {j \in Rows : item[j].there}}
         IN IF made = {} THEN 0 ELSE CHOOSE t \in made : \A u \in made : u <= t

------------------------------------------------------------------------------
\* toISOString drops what is below a millisecond; a confidence survives whole.
Stored(t) == IF list = "bib" THEN t ELSE (t \div TicksPerMs) * TicksPerMs

\* ORDER BY created_at DESC, id DESC, and for tags confidence DESC, photo_id DESC,
\* with tags of one confidence and one photo in any order.
NewestFirst(i, j) ==
  \/ item[i].created > item[j].created
  \/ item[i].created = item[j].created /\ item[i].shows > item[j].shows
  \/ item[i].created = item[j].created /\ item[i].shows = item[j].shows /\ i > j

\* ORDER BY flag_count DESC, created_at.
FlaggedFirst(i, j) ==
  \/ item[i].flags > item[j].flags
  \/ item[i].flags = item[j].flags /\ item[i].created < item[j].created
  \/ item[i].flags = item[j].flags /\ item[i].created = item[j].created /\ i < j

OlderThanCursor(i) ==
  \/ item[i].created < pageCursor.at
  \/ item[i].created = pageCursor.at /\ item[i].shows < pageCursor.row

\* buildWhere of the audit log leaves the id of the cursor alone.
AuditAfter(i) == item[i].created < pageCursor.at

\* All rows are read and those up to the one of the cursor skipped.
PayoutsAfter(i) == NewestFirst(pageCursor.row, i)

\* The cursor of the queue knows nothing of flags.
QueueAfter(i) == item[i].created > pageCursor.at

BibAfter(i) == OlderThanCursor(i)

AfterCursor(i) ==
  \/ pageCursor = NoCursor
  \/ list = "keyset" /\ OlderThanCursor(i)
  \/ list = "audit" /\ AuditAfter(i)
  \/ list = "payouts" /\ PayoutsAfter(i)
  \/ list = "queue" /\ QueueAfter(i)
  \/ list = "bib" /\ BibAfter(i)

Comes(i, j) == IF list = "queue" THEN FlaggedFirst(i, j) ELSE NewestFirst(i, j)

\* ORDER BY ... LIMIT: the rows with fewer than that many before them.
FirstOf(rows, limit) == {i \in rows : Cardinality({j \in rows : Comes(j, i)}) < limit}

CursorAt(i) == [row |-> item[i].shows, at |-> Stored(item[i].created)]

\* Mutant: the cursor is the row that only tells that there are more.
CursorOfNext(found, page) ==
  IF found = page THEN NoCursor ELSE CursorAt(CHOOSE i \in found \ page : \A j \in found \ page : ~Comes(j, i))

NextCursor(found, page) ==
  IF found = page THEN NoCursor ELSE CursorAt(CHOOSE i \in page : \A j \in page : ~Comes(i, j))

ListPage(limit) ==
  /\ ~ended
  /\ LET found == {i \in InList : AfterCursor(i)}
         page == FirstOf(found, limit)
         again == {i \in page : i \in shown
                     \/ \E j \in (shown \cup page) \ {i} : item[j].shows = item[i].shows}
     IN /\ pageCursor' = NextCursor(found, page)
        /\ ended' = (found = page)
        /\ shown' = shown \cup page /\ repeated' = repeated \cup {item[i].shows : i \in again}
        /\ ends' = IF found = page THEN ends
                   ELSE ends \cup {i \in page : \A j \in page : ~Comes(i, j)}
  /\ UNCHANGED <<list, item, stayed>>

------------------------------------------------------------------------------
\* The rows that show p: its tags, or itself.
TagsOf(p) == {j \in Rows : item[j].there /\ item[j].shows = p}

Changed ==
  /\ UNCHANGED <<list, pageCursor, ended, shown, repeated, ends>>
  /\ stayed' = stayed \cap InList'

\* A row is made now, a photo of the queue by its upload, with no flags; a tag has
\* any confidence and any photo, tagged before or not, as no index forbids it.
\* Payouts of one account are made one after another.
Insert(i) ==
  /\ ~item[i].there /\ (list = "audit" => \A j \in Rows : j < i => item[j].there)
  /\ \E t \in 0 .. MaxTick, p \in MayShow(i) :
       /\ list # "bib" => t >= Clock
       /\ list = "payouts" => \A j \in Rows : item[j].there => item[j].created < t
       /\ item' = [item EXCEPT ![i] = [there |-> TRUE, created |-> t, shows |-> p, flags |-> 0,
            matches |-> list # "queue" /\ \A j \in TagsOf(p) : item[j].matches]]
  /\ Changed

\* The list asks for a status and the row comes to have it or loses it, a photo with
\* all its tags; a moderator hides or shows a photo of the queue.  Nothing under
\* src/ counts flags.
ChangeStatus(i) ==
  /\ list \in {"keyset", "queue", "bib"} /\ item[i].there
  /\ item' = [j \in Rows |-> IF j \in TagsOf(item[i].shows)
                             THEN [item[j] EXCEPT !.matches = ~@] ELSE item[j]]
  /\ Changed

\* What a list may hold when the walk begins.
PagesInit ==
  /\ list \in Lists
  /\ item \in [Rows -> {Absent} \cup [there : {TRUE}, created : 0 .. MaxTick, matches : BOOLEAN,
                                       shows : Rows, flags : MayFlag]]
  /\ \A i \in Rows : item[i].there =>
       /\ item[i].shows \in MayShow(i)
       /\ \A j \in TagsOf(item[i].shows) : item[j].matches = item[i].matches
  /\ \A i \in Rows : item[i].there /\ list \in {"audit", "payouts"} => item[i].matches
  /\ \A i, j \in Rows : item[j].there /\ i < j =>
       /\ list = "audit" => item[i].there /\ item[i].created <= item[j].created
       /\ list = "payouts" /\ item[i].there => item[i].created # item[j].created
  /\ pageCursor = NoCursor /\ ended = FALSE /\ shown = {} /\ repeated = {} /\ ends = {}
  /\ stayed = InList

PagesNext ==
  \/ \E limit \in Limits : ListPage(limit)
  \/ ~ended /\ \E i \in Rows : Insert(i) \/ ChangeStatus(i)

PagesSpec == PagesInit /\ [][PagesNext]_pageVars

------------------------------------------------------------------------------
\* Every row and cursor is one the lists can have.
PagesTypeOK ==
  /\ list \in AllLists /\ item \in [Rows -> Items]
  /\ \A i \in Rows : item[i].there => item[i].shows \in MayShow(i)
  /\ pageCursor.row \in Rows \cup {0} /\ pageCursor.at \in 0 .. MaxTick
  /\ ended \in BOOLEAN
  /\ shown \cup repeated \cup ends \cup stayed \subseteq Rows

\* It shares its millisecond with the last row of a page.
SharesMs(i) ==
  /\ list \notin {"payouts", "bib"}
  /\ \E e \in ends : Stored(item[e].created) = Stored(item[i].created)

\* A page of the queue ended among photos with more flags that are no older, and the
\* next began after them; or among photos with fewer that are no younger.
Passed(i) ==
  list = "queue" /\ \E e \in ends : item[e].flags > item[i].flags /\ item[e].created >= item[i].created
Resumed(i) ==
  list = "queue" /\ \E e \in ends : item[e].flags < item[i].flags /\ item[e].created <= item[i].created

TaggedTwice(p) == list = "bib" /\ \E i, j \in TagsOf(p) : i # j

(* However rows come and go while a client turns the pages, what was in    *)
(* the list all along is on one of them and on no other.  Excepted are     *)
(* rows that share their millisecond with the last of a page, which most   *)
(* lists leave out and the moderation queue repeats; photos of the queue   *)
(* with more or fewer flags than the last of a page; and a photo with two  *)
(* tags of the bib, which is shown twice but left out by no page.  But for *)
(* these a page shows only what was on none before, so that a walk has no  *)
(* more pages than there are rows (listEvents, listProducts,               *)
(* listPhotographerPhotos, listPayouts, searchByBib, getModerationQueue,   *)
(* GET /v1/admin/audit-log).                                               *)
PagesWhole ==
  /\ \A p \in repeated : TaggedTwice(p) \/ (list = "queue" /\ SharesMs(p)) \/ Resumed(p)
  /\ ended => \A i \in stayed :
       item[i].shows \in {item[j].shows : j \in shown} \/ SharesMs(i) \/ Passed(i)

\* A page moves the cursor on.  Violated in the queue: a page of one photo whose time
\* is no whole millisecond is followed by itself, and the walk never ends.
PagesMoveOn ==
  [][\A limit \in Limits : ListPage(limit) => ended' \/ pageCursor' # pageCursor]_pageVars

(* "cursor encodes both so ties on createdAt (high-volume bursts) still    *)
(* paginate stably" (routes/admin/audit.ts:47-48).                         *)
TiesPaginate == list = "audit" /\ ended => stayed \subseteq shown
==============================================================================
