-------------------------------- MODULE Access --------------------------------
(***************************************************************************)
(* Users, magic links and refresh sessions (routes/auth.ts,                *)
(* routes/auth-passwordless.ts, auth/tokens.ts): every statement of a      *)
(* request is a step, so requests of one browser in two tabs, of two       *)
(* browsers, and the mail client that opens a link twice interleave.  A    *)
(* token is named by the row that holds its hash, an address by its user.  *)
(***************************************************************************)
EXTENDS Integers, Sequences

CONSTANTS
  Emails,       \* addresses, trimmed and in lower case
  Visits,       \* requests that may be under way at once
  MaxLinks,     \* bound on the magic links requested
  MaxSessions   \* bound on the sessions made

ASSUME AccessAssumption == {MaxLinks, MaxSessions} \subseteq Nat /\ Emails # {}

VARIABLES
  users,      \* by address: "none", or the row's status; email is unique
  passwords,  \* the addresses whose row has a password hash
  links,      \* magic_link_tokens, in the order of insertion
  sessions,   \* sessions, in the order of insertion
  request     \* where each request stands

accessVars == <<users, passwords, links, sessions, request>>

Statuses == {"none", "active", "inactive"}
LinkRows == [email : Emails, consumed : BOOLEAN, expired : BOOLEAN]
\* from: the session it rotates, or the link it was issued for, or 0.  ended: it
\* was logged out before any refresh of it.
SessionRows == [email : Emails, revoked : BOOLEAN, expired : BOOLEAN,
                parent : 0 .. MaxSessions, link : 0 .. MaxLinks, ended : BOOLEAN]
VisitStates ==
  [pc : {"idle", "register", "consume", "find", "add", "user", "rotate", "deny", "leave", "mint"},
   email : Emails, link : 0 .. MaxLinks, session : 0 .. MaxSessions]

VisitIdle == [pc |-> "idle", email |-> CHOOSE e \in Emails : TRUE, link |-> 0, session |-> 0]
VisitAt(r, pc) == request[r].pc = pc
Goes(r, pc) == request' = [request EXCEPT ![r].pc = pc]
VisitEnds(r) == request' = [request EXCEPT ![r] = VisitIdle]
VisitBegins(r, pc, email, link, session) ==
  /\ VisitAt(r, "idle")
  /\ request' = [request EXCEPT ![r] = [pc |-> pc, email |-> email, link |-> link, session |-> session]]

------------------------------------------------------------------------------
\* Registration: look for the address, hash the password, insert; the unique
\* index refuses the second of two inserts.
Register(r) ==
  /\ \E e \in Emails : users[e] = "none" /\ VisitBegins(r, "register", e, 0, 0)
  /\ UNCHANGED <<users, passwords, links, sessions>>

InsertUser(r) ==
  /\ VisitAt(r, "register") /\ VisitEnds(r)
  /\ LET e == request[r].email IN
       IF users[e] # "none" THEN UNCHANGED <<users, passwords>>
       ELSE users' = [users EXCEPT ![e] = "active"] /\ passwords' = passwords \cup {e}
  /\ UNCHANGED <<links, sessions>>

\* The row is read once: what it said decides about the session made later.
Login(r) ==
  /\ \E e \in passwords : users[e] = "active" /\ VisitBegins(r, "mint", e, 0, 0)
  /\ UNCHANGED <<users, passwords, links, sessions>>

------------------------------------------------------------------------------
\* A link is mailed to whoever asks, known or not.
RequestLink ==
  /\ Len(links) < MaxLinks
  /\ \E e \in Emails :
       links' = Append(links, [email |-> e, consumed |-> FALSE, expired |-> FALSE])
  /\ UNCHANGED <<users, passwords, sessions, request>>

FindLink(r) ==
  /\ \E l \in DOMAIN links :
       /\ ~links[l].consumed /\ ~links[l].expired
       /\ VisitBegins(r, "consume", links[l].email, l, 0)
  /\ UNCHANGED <<users, passwords, links, sessions>>

\* The update is conditional on consumed_at: the later of two gets no row.
ConsumeLink(r) ==
  /\ VisitAt(r, "consume")
  /\ IF links[request[r].link].consumed THEN VisitEnds(r) ELSE Goes(r, "find")
  /\ links' = [links EXCEPT ![request[r].link].consumed = TRUE]
  /\ UNCHANGED <<users, passwords, sessions>>

FindUser(r) ==
  /\ VisitAt(r, "find")
  /\ CASE users[request[r].email] = "none" -> Goes(r, "add")
       [] users[request[r].email] = "active" -> Goes(r, "mint")
       [] OTHER -> VisitEnds(r)
  /\ UNCHANGED <<users, passwords, links, sessions>>

\* A row inserted since by another request makes this insert throw: the link is
\* used up and no session is made.
AddUser(r) ==
  /\ VisitAt(r, "add")
  /\ LET e == request[r].email IN
       IF users[e] # "none" THEN VisitEnds(r) /\ users' = users
       ELSE Goes(r, "mint") /\ users' = [users EXCEPT ![e] = "active"]
  /\ UNCHANGED <<passwords, links, sessions>>

------------------------------------------------------------------------------
Live(s) == ~sessions[s].revoked /\ ~sessions[s].expired

\* Mutant: findActiveSession forgets revoked_at.
FindUnexpired(s) == ~sessions[s].expired

FindActiveSession(s) == Live(s)

Refresh(r) ==
  /\ \E s \in DOMAIN sessions :
       FindActiveSession(s) /\ VisitBegins(r, "user", sessions[s].email, 0, s)
  /\ UNCHANGED <<users, passwords, links, sessions>>

CheckUser(r) ==
  /\ VisitAt(r, "user")
  /\ Goes(r, IF users[request[r].email] = "active" THEN "rotate" ELSE "deny")
  /\ UNCHANGED <<users, passwords, links, sessions>>

RevokeSession(s) == [sessions EXCEPT ![s].revoked = TRUE]

Rotate(r) ==
  /\ VisitAt(r, "rotate") /\ Goes(r, "mint")
  /\ sessions' = RevokeSession(request[r].session)
  /\ UNCHANGED <<users, passwords, links>>

DenyInactive(r) ==
  /\ VisitAt(r, "deny") /\ VisitEnds(r)
  /\ sessions' = RevokeSession(request[r].session)
  /\ UNCHANGED <<users, passwords, links>>

\* The last step of a login, a link's verification and a refresh.
CreateSession(r) ==
  /\ VisitAt(r, "mint") /\ Len(sessions) < MaxSessions /\ VisitEnds(r)
  /\ sessions' = Append(sessions,
       [email |-> request[r].email, revoked |-> FALSE, expired |-> FALSE,
        parent |-> request[r].session, link |-> request[r].link, ended |-> FALSE])
  /\ UNCHANGED <<users, passwords, links>>

Logout(r) ==
  /\ \E s \in DOMAIN sessions :
       FindActiveSession(s) /\ VisitBegins(r, "leave", sessions[s].email, 0, s)
  /\ UNCHANGED <<users, passwords, links, sessions>>

Refreshed(s) ==
  \/ \E q \in Visits : request[q].session = s /\ request[q].pc \in {"user", "rotate", "mint"}
  \/ \E t \in DOMAIN sessions : sessions[t].parent = s

Leave(r) ==
  /\ VisitAt(r, "leave") /\ VisitEnds(r)
  /\ LET s == request[r].session IN
       sessions' = [sessions EXCEPT ![s].revoked = TRUE, ![s].ended = ~Refreshed(s)]
  /\ UNCHANGED <<users, passwords, links>>

------------------------------------------------------------------------------
\* Time passes; an operator suspends an account or lifts that; a request dies.
ExpireLink ==
  /\ \E l \in DOMAIN links : ~links[l].expired /\ links' = [links EXCEPT ![l].expired = TRUE]
  /\ UNCHANGED <<users, passwords, sessions, request>>

ExpireSession ==
  /\ \E s \in DOMAIN sessions :
       ~sessions[s].expired /\ sessions' = [sessions EXCEPT ![s].expired = TRUE]
  /\ UNCHANGED <<users, passwords, links, request>>

SetStatus ==
  /\ \E e \in Emails : \E status \in {"active", "inactive"} :
       users[e] \notin {"none", status} /\ users' = [users EXCEPT ![e] = status]
  /\ UNCHANGED <<passwords, links, sessions, request>>

VisitDies(r) == ~VisitAt(r, "idle") /\ VisitEnds(r) /\ UNCHANGED <<users, passwords, links, sessions>>

AccessInit ==
  /\ users = [e \in Emails |-> "none"] /\ passwords = {} /\ links = <<>> /\ sessions = <<>>
  /\ request = [r \in Visits |-> VisitIdle]

VisitStep(r) ==
  \/ Register(r) \/ InsertUser(r) \/ Login(r) \/ FindLink(r) \/ ConsumeLink(r) \/ FindUser(r)
  \/ AddUser(r) \/ Refresh(r) \/ CheckUser(r) \/ Rotate(r) \/ DenyInactive(r)
  \/ CreateSession(r) \/ Logout(r) \/ Leave(r) \/ VisitDies(r)

AccessNext ==
  \/ RequestLink \/ ExpireLink \/ ExpireSession \/ SetStatus
  \/ \E r \in Visits : VisitStep(r)

AccessSpec == AccessInit /\ [][AccessNext]_accessVars

------------------------------------------------------------------------------
\* Every row is a row of the schema and every request is where it can be.
AccessTypeOK ==
  /\ users \in [Emails -> Statuses] /\ passwords \subseteq Emails
  /\ links \in Seq(LinkRows) /\ Len(links) <= MaxLinks
  /\ sessions \in Seq(SessionRows) /\ Len(sessions) <= MaxSessions
  /\ request \in [Visits -> VisitStates]

\* A magic link signs in once, however often it is opened and whichever of the
\* requests finds the user missing (verify, auth-passwordless.ts).
LinkOnce ==
  \A s, t \in DOMAIN sessions : sessions[s].link # 0 /\ sessions[s].link = sessions[t].link => s = t

\* A rotated session is dead when its successor is made (two refreshes of it that
\* overlap may each make one, as nothing is conditional on the revocation), and a session that was
\* logged out with no refresh of it done or under way never has a successor
\* (refresh and logout, auth.ts; findActiveSession, tokens.ts).
RotationEnds ==
  \A s \in DOMAIN sessions : sessions[s].parent # 0 =>
    LET p == sessions[sessions[s].parent] IN p.revoked /\ ~p.ended /\ p.email = sessions[s].email

\* No session without a sign-in of its own.
SessionsEarned == LinkOnce /\ RotationEnds
==============================================================================
