-------------------------------- MODULE Events --------------------------------
(***************************************************************************)
(* The back office of an organization's events: services/events.ts and     *)
(* services/sftp.ts behind the permission checks of auth/rbac.ts.  A       *)
(* handler is let in, reads, decides and then writes, without a            *)
(* transaction, so requests of several organizers interleave between their *)
(* statements.                                                             *)
(***************************************************************************)
EXTENDS Integers, FiniteSetsExt

CONSTANTS
  EventIds, Slugs, Users,
  RoleOf,       \* the role in a user's access token
  OrgAdmins,    \* users with an owner or admin row in the organization
  OrgMembers,   \* users with any row there
  GivenRoles,   \* roles asked for of a member
  Splits,       \* split percentages asked for
  Desks,        \* requests that may be under way at once
  MaxKeys       \* bound on the SFTP keys made

Roles == {"superadmin", "admin", "organizer", "photographer", "assistant", "attendee"}
MemberRoles == {"organizer", "photographer", "assistant"}
None == "none"

ASSUME EventsAssumption ==
  /\ RoleOf \in [Users -> Roles] /\ OrgAdmins \subseteq OrgMembers /\ OrgMembers \subseteq Users
  /\ GivenRoles \subseteq MemberRoles /\ Splits \subseteq 0 .. 100 /\ MaxKeys \in Nat \ {0}
  /\ IsFiniteSet(Users) /\ Users # {} /\ EventIds # {} /\ Slugs # {} /\ None \notin Slugs

VARIABLES
  event,    \* events by id, each with whether its event_settings row is there
  member,   \* event_members, by event and user
  ftp,      \* event_ftp_credentials: how many are not revoked, by event
  sftp,     \* sftp_accounts, by event: the status and the number of the key
  office,   \* where each request stands
  raced     \* history: the kinds of write made after another one had overtaken its read

eventVars == <<event, member, ftp, sftp, office, raced>>

EventRows == [status : {None, "draft", "published", "archived"}, slug : Slugs \cup {None},
              settings : BOOLEAN]
MemberRows == [role : MemberRoles \cup {None}, split : 0 .. 100]

Exists(e) == event[e].status # None

\* The permissions used here, of a role and of a role within one event.
RolePermissions(role) ==
  CASE role \in {"superadmin", "admin"} -> {"write", "publish", "delete", "manage"}
    [] role = "organizer" -> {"write", "publish", "manage"}
    [] OTHER -> {}
EventMemberPermissions(role) ==
  IF role = "organizer" THEN {"write", "publish", "manage"} ELSE {}

\* requirePermission of a route without a resource: the token's role decides.
RoleHolds(perm) == \E a \in Users : perm \in RolePermissions(RoleOf[a])
\* ... and the handler sees only events of the viewer's organizations.
ViewerHolds(perm, e) ==
  Exists(e) /\ \E a \in OrgMembers : perm \in RolePermissions(RoleOf[a])
\* requirePermission of a route that names the event.
EventHolds(perm, e) ==
  \E a \in Users : \/ RoleOf[a] = "superadmin"
                   \/ a \in OrgAdmins /\ Exists(e)
                   \/ perm \in EventMemberPermissions(member[e][a].role)

------------------------------------------------------------------------------
\* A request under way: what it will write.  NoSplit and None stand for a field
\* that the body leaves out.  stale: what it read was written since.
NoSplit == -1
OfficeRows ==
  [pc : {"idle", "insert", "settings", "rename", "publish", "archive", "add", "change", "ftp", "sftp"},
   e : EventIds, u : Users, role : MemberRoles \cup {None}, split : Splits \cup {NoSplit},
   slug : Slugs \cup {None}, stale : BOOLEAN]
OfficeIdle == [pc |-> "idle", e |-> CHOOSE e \in EventIds : TRUE, u |-> CHOOSE u \in Users : TRUE,
         role |-> None, split |-> NoSplit, slug |-> None, stale |-> FALSE]

OfficeAt(r, pc) == office[r].pc = pc
OfficeBegins(r, pc, e) == OfficeAt(r, "idle") /\ office' = [office EXCEPT ![r] = [OfficeIdle EXCEPT !.pc = pc, !.e = e]]
OfficeBeginsSlug(r, pc, e, s) ==
  OfficeAt(r, "idle") /\ office' = [office EXCEPT ![r] = [OfficeIdle EXCEPT !.pc = pc, !.e = e, !.slug = s]]
OfficeBeginsMember(r, pc, e, u, role, split) ==
  /\ OfficeAt(r, "idle")
  /\ office' = [office EXCEPT ![r] =
       [OfficeIdle EXCEPT !.pc = pc, !.e = e, !.u = u, !.role = role, !.split = split]]
OfficeReplies(r) == office' = [office EXCEPT ![r] = OfficeIdle]

\* r is done; what the requests at these places read has changed.
OfficeRepliesOver(r, pcs) ==
  office' = [q \in Desks |->
    IF q = r THEN OfficeIdle
    ELSE [office[q] EXCEPT !.stale = @ \/ (office[q].pc \in pcs /\ office[q].e = office[r].e)]]
Races(r) == raced' = IF office[r].stale THEN raced \cup {office[r].pc} ELSE raced

------------------------------------------------------------------------------
\* Events: create, rename, publish, archive.
SlugTaken(s) == \E e \in EventIds : event[e].slug = s

CreateEvent(r) ==
  /\ RoleHolds("write")
  /\ \E e \in EventIds, s \in Slugs : ~Exists(e) /\ ~SlugTaken(s) /\ OfficeBeginsSlug(r, "insert", e, s)
  /\ UNCHANGED <<event, member, ftp, sftp, raced>>

\* The unique index refuses what the check let through.  (An id is used once.)
InsertEvent(r) ==
  /\ OfficeAt(r, "insert")
  /\ LET q == office[r] IN
       IF SlugTaken(q.slug) \/ Exists(q.e) THEN OfficeReplies(r) /\ event' = event
       ELSE /\ office' = [office EXCEPT ![r].pc = "settings"]
            /\ event' = [event EXCEPT ![q.e] =
                 [status |-> "draft", slug |-> q.slug, settings |-> FALSE]]
  /\ UNCHANGED <<member, ftp, sftp, raced>>

InsertSettings(r) ==
  /\ OfficeAt(r, "settings") /\ OfficeReplies(r)
  /\ event' = [event EXCEPT ![office[r].e].settings = TRUE]
  /\ UNCHANGED <<member, ftp, sftp, raced>>

UpdateEvent(r) ==
  /\ \E e \in EventIds, s \in Slugs :
       /\ ViewerHolds("write", e) /\ (s = event[e].slug \/ ~SlugTaken(s))
       /\ OfficeBeginsSlug(r, "rename", e, s)
  /\ UNCHANGED <<event, member, ftp, sftp, raced>>

WriteSlug(r) ==
  /\ OfficeAt(r, "rename") /\ OfficeReplies(r)
  /\ LET q == office[r] IN
       event' = IF q.slug # event[q.e].slug /\ SlugTaken(q.slug) THEN event
                ELSE [event EXCEPT ![q.e].slug = q.slug]
  /\ UNCHANGED <<member, ftp, sftp, raced>>

PublishEvent(r) ==
  /\ \E e \in EventIds :
       ViewerHolds("publish", e) /\ event[e].status = "draft" /\ OfficeBegins(r, "publish", e)
  /\ UNCHANGED <<event, member, ftp, sftp, raced>>

WritePublished(r) ==
  /\ OfficeAt(r, "publish") /\ OfficeReplies(r) /\ Races(r)
  /\ event' = [event EXCEPT ![office[r].e].status = "published"]
  /\ UNCHANGED <<member, ftp, sftp>>

ArchiveEvent(r) ==
  /\ \E e \in EventIds : ViewerHolds("delete", e) /\ OfficeBegins(r, "archive", e)
  /\ UNCHANGED <<event, member, ftp, sftp, raced>>

WriteArchived(r) ==
  /\ OfficeAt(r, "archive") /\ OfficeRepliesOver(r, {"publish"})
  /\ event' = [event EXCEPT ![office[r].e].status = "archived"]
  /\ UNCHANGED <<member, ftp, sftp, raced>>

------------------------------------------------------------------------------
\* Members and their split of a sale.
SplitSum(e, us) == MapThenSumSet(LAMBDA u : member[e][u].split, us)
Photographers(e) == {u \in Users : member[e][u].role = "photographer"}

\* Mutant: the sum is over the other photographers, the new split left out.
OthersFit(e, others, role, split) ==
  role = "photographer" /\ split > 0 => SplitSum(e, others) <= 100

\* assertSplitPctInvariant, of a split beside those of the others.
SplitFits(e, others, role, split) ==
  role = "photographer" /\ split > 0 => SplitSum(e, others) + split <= 100

AddMember(r) ==
  /\ RoleHolds("manage")
  /\ \E e \in EventIds, u \in Users, role \in GivenRoles, split \in Splits :
       /\ Exists(e) /\ SplitFits(e, Photographers(e), role, split)
       /\ OfficeBeginsMember(r, "add", e, u, role, split)
  /\ UNCHANGED <<event, member, ftp, sftp, raced>>

\* The primary key refuses a second row of a user.
InsertMember(r) ==
  /\ OfficeAt(r, "add")
  /\ LET q == office[r] IN
       IF member[q.e][q.u].role # None THEN OfficeReplies(r) /\ UNCHANGED <<member, raced>>
       ELSE /\ OfficeRepliesOver(r, {"add", "change"}) /\ Races(r)
            /\ member' = [member EXCEPT ![q.e][q.u] = [role |-> q.role, split |-> q.split]]
  /\ UNCHANGED <<event, ftp, sftp>>

Given(new, absent, old) == IF new = absent THEN old ELSE new

UpdateMember(r) ==
  /\ RoleHolds("manage")
  /\ \E e \in EventIds, u \in Users, role \in GivenRoles \cup {None}, split \in Splits \cup {NoSplit} :
       /\ role # None \/ split # NoSplit
       /\ member[e][u].role # None
       /\ SplitFits(e, Photographers(e) \ {u}, Given(role, None, member[e][u].role),
                    Given(split, NoSplit, member[e][u].split))
       /\ OfficeBeginsMember(r, "change", e, u, role, split)
  /\ UNCHANGED <<event, member, ftp, sftp, raced>>

WriteMember(r) ==
  /\ OfficeAt(r, "change")
  /\ LET q == office[r] IN
       IF member[q.e][q.u].role = None THEN OfficeReplies(r) /\ UNCHANGED <<member, raced>>
       ELSE /\ OfficeRepliesOver(r, {"add", "change"}) /\ Races(r)
            /\ member' = [member EXCEPT ![q.e][q.u] =
                 [role |-> Given(q.role, None, @.role), split |-> Given(q.split, NoSplit, @.split)]]
  /\ UNCHANGED <<event, ftp, sftp>>

RemoveMember ==
  /\ RoleHolds("manage")
  /\ \E e \in EventIds, u \in Users :
       /\ member[e][u].role # None
       /\ member' = [member EXCEPT ![e][u] = [role |-> None, split |-> 0]]
  /\ UNCHANGED <<event, ftp, sftp, office, raced>>

------------------------------------------------------------------------------
\* Credentials.  FTP: revoke the ones there are, hash a password, insert one.
RotateFtpCredential(r) ==
  /\ \E e \in EventIds :
       /\ ViewerHolds("manage", e) /\ OfficeBegins(r, "ftp", e)
       /\ ftp' = [ftp EXCEPT ![e] = 0]
  /\ UNCHANGED <<event, member, sftp, raced>>

InsertCredential(r) ==
  /\ OfficeAt(r, "ftp") /\ OfficeRepliesOver(r, {"ftp"}) /\ Races(r)
  /\ ftp' = [ftp EXCEPT ![office[r].e] = @ + 1]
  /\ UNCHANGED <<event, member, sftp>>

\* SFTP: one account an event, whose key a rotation replaces and enables again.
ProvisionSftp(r) ==
  /\ \E e \in EventIds :
       EventHolds("write", e) /\ sftp[e].status = None /\ OfficeBegins(r, "sftp", e)
  /\ UNCHANGED <<event, member, ftp, sftp, raced>>

InsertAccount(r) ==
  /\ OfficeAt(r, "sftp") /\ OfficeReplies(r)
  /\ sftp' = IF sftp[office[r].e].status = None
             THEN [sftp EXCEPT ![office[r].e] = [status |-> "active", key |-> 1]] ELSE sftp
  /\ UNCHANGED <<event, member, ftp, raced>>

RotateSftp ==
  /\ \E e \in EventIds :
       /\ EventHolds("write", e) /\ sftp[e].key \in 1 .. MaxKeys - 1
       /\ sftp' = [sftp EXCEPT ![e] = [status |-> "active", key |-> @.key + 1]]
  /\ UNCHANGED <<event, member, ftp, office, raced>>

DisableSftp ==
  /\ \E e \in EventIds :
       /\ EventHolds("write", e) /\ sftp[e].status = "active"
       /\ sftp' = [sftp EXCEPT ![e].status = "disabled"]
  /\ UNCHANGED <<event, member, ftp, office, raced>>

\* A statement fails, or the process dies, between two statements.
BreakOff(r) ==
  ~OfficeAt(r, "idle") /\ OfficeReplies(r) /\ UNCHANGED <<event, member, ftp, sftp, raced>>

------------------------------------------------------------------------------
EventsInit ==
  /\ event = [e \in EventIds |-> [status |-> None, slug |-> None, settings |-> FALSE]]
  /\ member = [e \in EventIds |-> [u \in Users |-> [role |-> None, split |-> 0]]]
  /\ ftp = [e \in EventIds |-> 0]
  /\ sftp = [e \in EventIds |-> [status |-> None, key |-> 0]]
  /\ office = [r \in Desks |-> OfficeIdle] /\ raced = {}

OfficeStep(r) ==
  \/ CreateEvent(r) \/ InsertEvent(r) \/ InsertSettings(r) \/ UpdateEvent(r) \/ WriteSlug(r)
  \/ PublishEvent(r) \/ WritePublished(r) \/ ArchiveEvent(r) \/ WriteArchived(r)
  \/ AddMember(r) \/ InsertMember(r) \/ UpdateMember(r) \/ WriteMember(r)
  \/ RotateFtpCredential(r) \/ InsertCredential(r) \/ ProvisionSftp(r) \/ InsertAccount(r)
  \/ BreakOff(r)

EventsNext ==
  \/ RemoveMember \/ RotateSftp \/ DisableSftp
  \/ \E r \in Desks : OfficeStep(r)

EventsSpec == EventsInit /\ [][EventsNext]_eventVars

------------------------------------------------------------------------------
\* Every row is a row of the schema, with the slugs of the events distinct.
EventsTypeOK ==
  /\ event \in [EventIds -> EventRows] /\ member \in [EventIds -> [Users -> MemberRows]]
  /\ \A e, f \in EventIds : Exists(e) /\ event[e].slug = event[f].slug => e = f
  /\ ftp \in [EventIds -> Nat]
  /\ sftp \in [EventIds -> [status : {None, "active", "disabled"}, key : 0 .. MaxKeys]]
  /\ office \in [Desks -> OfficeRows] /\ raced \subseteq {"publish", "add", "change", "ftp"}

\* No sequence of members added, given another role or another split, and removed
\* takes the photographers' splits of an event over 100 percent, unless one write
\* came between another one's check and its write (assertSplitPctInvariant).
SplitWithin100 ==
  raced \cap {"add", "change"} = {} => \A e \in EventIds : SplitSum(e, Photographers(e)) <= 100

\* One FTP password at a time opens an event, unless two rotations overlapped
\* (rotateFtpCredential).
OneCredential == "ftp" \notin raced => \A e \in EventIds : ftp[e] <= 1

\* What holds of members and credentials as long as no write is overtaken.
HoldsUnraced == SplitWithin100 /\ OneCredential
==============================================================================
